---------------------------- MODULE PointAlarms ----------------------------
(***************************************************************************)
(* The life of one supervised point: the updates of its driver on their    *)
(* way through the data processor (process.go, writers.go), the operator   *)
(* who acknowledges its alarms, edits its limits or substitutes its value  *)
(* (server_realtime_auth/index.js), and the periodic jobs that mark it     *)
(* frozen or invalid (maintenance.go).                                     *)
(*                                                                         *)
(* An update is three steps: the driver writes it (Update), the data       *)
(* processor reads the event with a copy of the document and decides       *)
(* (handleChange), and its $set is stored later (Store).  Other updates,   *)
(* acknowledgements and edits come in between; nothing is locked.  The     *)
(* queues and batches between these steps, and the interruptions of the    *)
(* pipeline, are module DataProcessor's.                                   *)
(***************************************************************************)
EXTENDS PointConversion

CONSTANTS Points,    \* the configurations a point may start from
          Updates,   \* for each type of point, the source data updates the
                     \* driver may write
          Edits,     \* and the requests of the operator: [alarmDisabled,
                     \* hiLimit, loLimit, hysteresis, newValue]
          MaxInFlight, \* bound: updates on their way to the document
          MaxUpdates,  \* bound: updates of the driver
          MaxEdits     \* bound: requests that edit properties

EditType ==
    [alarmDisabled : BOOLEAN, hiLimit : Int, loLimit : Int, hysteresis : Nat,
     newValue : Int \cup {Missing}]

ASSUME PointAssumption == Points \subseteq PointType
ASSUME UpdateAssumption ==
    \A t \in {"digital", "analog"} : Updates[t] \subseteq UpdateType
ASSUME EditAssumption ==
    \A t \in {"digital", "analog"} : Edits[t] \subseteq EditType
ASSUME BoundAssumption ==
    MaxInFlight \in Nat \ {0} /\ MaxUpdates \in Nat /\ MaxEdits \in Nat

VARIABLES
    pt,       \* configuration fields of the document
    doc,      \* the fields that change: value, quality, alarm
    sdu,      \* the document's sourceDataUpdate
    changes,  \* updates whose change event has not been read
    rtCh,     \* what handleChange emitted and is not yet stored
    op,       \* the operator request being served
    beep,     \* beep point: 0 silent, 1 normal, 2 important
    checked,  \* history: value and limits are those the range was made from
    turn,     \* history: value that last changed the range, by an update
              \* that no other and no edit of the limits overtook
    entry,    \* history: "listed" or "lost", the unacknowledged SOE entry of
              \* the alarm that stands; "none" while none does
    updates, edits    \* budgets

vars == <<pt, doc, sdu, changes, rtCh, op, beep, checked, turn, entry,
          updates, edits>>

Idle == [stage |-> "idle"]
Blank == [valueAtSource |-> Missing, bad |-> FALSE, doublePoint |-> FALSE,
          timeTagAtSource |-> 0, isHistorical |-> FALSE,
          isNotForHistorical |-> FALSE, rangeCheck |-> FALSE]

\* A point as it is inserted: never updated, no alarm.
Init ==
    /\ pt \in Points
    /\ doc = [value |-> 0, invalid |-> TRUE, frozen |-> FALSE,
              alarmed |-> FALSE, alarmRange |-> 0, alarmDisabled |-> FALSE,
              timeTag |-> 0, timeTagAtSource |-> 0,
              historianLastValue |-> Missing]
    /\ sdu = Blank
    /\ changes = <<>> /\ rtCh = <<>>
    /\ op = Idle
    /\ beep = 0
    /\ checked = FALSE /\ turn = Missing /\ entry = "none"
    /\ updates = 0 /\ edits = 0

\* Bound on the updates that overlap.
Room == Len(changes) + Len(rtCh) < MaxInFlight

-----------------------------------------------------------------------------
(* The data processor.                                                     *)

\* A driver writes a new sourceDataUpdate.
Update(s) ==
    /\ Room /\ updates < MaxUpdates
    /\ updates' = updates + 1
    /\ sdu' = s
    /\ changes' = Append(changes, s)
    /\ UNCHANGED <<pt, doc, rtCh, op, beep, checked, turn, entry, edits>>

\* What one handling emits to the writer of realtimeData: the beep and the
\* $set of the point, each unless the channel is full.  overtaken and edited
\* are history: since the copy was read, another $set has been stored, or
\* the limits have been edited.
emitRt(s, full) ==
    [sdu |-> s,
     beep |-> IF accepted(pt, doc, s) /\ "beep" \notin full
              THEN beepOf(pt, doc, s) ELSE "none",
     stores |-> storesPoint(pt, doc, s) /\ "point" \notin full,
     set |-> rtUpdate(pt, doc, s),
     overtaken |-> FALSE, edited |-> FALSE]

\* An analog alarm stands in the document d, or is on its way to it.
standing(d, q) ==
    /\ pt.type = "analog"
    /\ d.alarmed \/ \E i \in DOMAIN q : q[i].stores /\ q[i].set.alarmed

isAlarmEntry(e) == e.kind = "range" /\ e.ack = 0

\* The change stream brings the event with the document as it is now, and
\* handleChange, which looks at nothing else, decides on this copy.  Any of
\* the SOE entries is lost when their channel is full (emitSoe).
handleChange ==
    /\ changes # <<>>
    /\ changes' = Tail(changes)
    /\ LET s == Head(changes)
           entries == soeOf(pt, doc, s)
           alarms == {i \in DOMAIN entries : isAlarmEntry(entries[i])}
       IN  /\ \E full \in SUBSET {"beep", "point"} :
                 LET w == emitRt(s, full)
                 IN  rtCh' = IF w.stores \/ w.beep # "none"
                             THEN Append(rtCh, w) ELSE rtCh
           /\ \E kept \in SUBSET DOMAIN entries :
                 entry' = IF ~standing(doc, rtCh') THEN "none"
                          ELSE IF alarms \cap kept # {} THEN "listed"
                          ELSE IF alarms # {} /\ entry = "none" THEN "lost"
                          ELSE entry
           /\ checked' = \/ checked
                         \/ /\ s.rangeCheck /\ ~s.isHistorical
                            /\ ~storesPoint(pt, doc, s)
    /\ UNCHANGED <<pt, doc, sdu, op, beep, turn, updates, edits>>

overtake(q) == [i \in DOMAIN q |-> [q[i] EXCEPT !.overtaken = TRUE]]

\* The bulk write of the batch reaches the document (and the beep point).
Store ==
    /\ rtCh # <<>>
    /\ LET w == Head(rtCh)
       IN  /\ beep' = CASE w.beep = "important" -> 2
                         [] w.beep = "normal" -> IF beep = 2 THEN 2 ELSE 1
                         [] OTHER -> beep
           /\ IF w.stores
              THEN /\ doc' = applyUpdate(doc, w.set)
                   /\ rtCh' = overtake(Tail(rtCh))
                   /\ checked' = ~w.edited
                   /\ turn' = IF w.set.alarmRange = doc.alarmRange THEN turn
                              ELSE IF w.overtaken \/ w.edited
                                      \/ ~limitsChecked(pt, doc) THEN Missing
                              ELSE w.set.value
              ELSE /\ rtCh' = Tail(rtCh)
                   /\ UNCHANGED <<doc, checked, turn>>
    /\ entry' = IF standing(doc', rtCh') THEN entry ELSE "none"
    /\ UNCHANGED <<pt, sdu, changes, op, updates, edits>>

-----------------------------------------------------------------------------
(* The operator.                                                           *)

\* AckOneAlarm, first write: the alarm is cleared.
AckAlarm ==
    /\ op = Idle
    /\ doc' = [doc EXCEPT !.alarmed = FALSE]
    /\ op' = [stage |-> "acked"]
    /\ entry' = IF standing(doc', rtCh) THEN entry ELSE "none"
    /\ UNCHANGED <<pt, sdu, changes, rtCh, beep, checked, turn, updates,
                   edits>>

\* AckOneAlarm, second write: an event tag returns to zero.
AckEvent ==
    /\ op.stage = "acked"
    /\ doc' = IF pt.type = "digital" /\ pt.isEvent
              THEN [doc EXCEPT !.value = 0, !.timeTagAtSource = 0] ELSE doc
    /\ op' = Idle
    /\ UNCHANGED <<pt, sdu, changes, rtCh, beep, checked, turn, entry,
                   updates, edits>>

SilenceBeep ==
    /\ beep' = 0
    /\ UNCHANGED <<pt, doc, sdu, changes, rtCh, op, checked, turn, entry,
                   updates, edits>>

\* The fields of the request that differ from the document just read; the
\* others are left out of the $set.
changesOf(e) ==
    LET diff(new, old) == IF new = old THEN Missing ELSE new
    IN  [hiLimit |-> diff(e.hiLimit, pt.hiLimit),
         loLimit |-> diff(e.loLimit, pt.loLimit),
         hysteresis |-> diff(e.hysteresis, pt.hysteresis),
         toggles |-> e.alarmDisabled # doc.alarmDisabled,
         value |-> diff(e.newValue, doc.value)]

limitsEdited(set) ==
    \/ set.hiLimit # Missing \/ set.loLimit # Missing
    \/ set.hysteresis # Missing \/ set.toggles

\* Update of properties: the document is read, and of its sourceDataUpdate
\* what a range check will need ...
ReadProperties(e) ==
    /\ op = Idle /\ edits < MaxEdits
    /\ edits' = edits + 1
    /\ op' = [stage |-> "read", set |-> changesOf(e),
              prevData |-> IF pt.type = "analog" /\ limitsEdited(changesOf(e))
                           THEN sdu ELSE Blank]
    /\ UNCHANGED <<pt, doc, sdu, changes, rtCh, beep, checked, turn, entry,
                   updates>>

\* What the decisions on their way were made with is no longer so.
afterEdit(q, set) ==
    IF limitsEdited(set)
    THEN [i \in DOMAIN q |-> [q[i] EXCEPT !.edited = TRUE]] ELSE q

\* Mutant: a value left out of the request is written as if it were there.
WriteMissing ==
    LET set == op.set
        new(field, old) == IF field = Missing THEN old ELSE field
    IN  /\ op.stage = "read"
        /\ pt' = [pt EXCEPT !.hiLimit = new(set.hiLimit, @),
                            !.loLimit = new(set.loLimit, @),
                            !.hysteresis = new(set.hysteresis, @)]
        /\ doc' = [doc EXCEPT !.alarmDisabled = (@ # set.toggles),
                              !.value = set.value]
        /\ op' = Idle
        /\ UNCHANGED <<sdu, changes, rtCh, beep, checked, turn, entry,
                       updates, edits>>

\* ... the changed fields are written ...
WriteProperties ==
    LET set == op.set
        new(field, old) == IF field = Missing THEN old ELSE field
    IN  /\ op.stage = "read"
        /\ pt' = [pt EXCEPT !.hiLimit = new(set.hiLimit, @),
                            !.loLimit = new(set.loLimit, @),
                            !.hysteresis = new(set.hysteresis, @)]
        /\ doc' = [doc EXCEPT !.alarmDisabled = (@ # set.toggles),
                              !.value = new(set.value, @)]
        /\ op' = IF pt.type = "analog" /\ limitsEdited(set)
                 THEN [stage |-> "check", prevData |-> op.prevData] ELSE Idle
        /\ rtCh' = afterEdit(rtCh, set)
        /\ checked' = (checked /\ ~limitsEdited(set) /\ set.value = Missing)
        /\ turn' = IF limitsEdited(set) THEN Missing ELSE turn
        /\ UNCHANGED <<sdu, changes, beep, entry, updates, edits>>

\* ... and the sourceDataUpdate that was read is written back, marked, so
\* that the data processor checks the limits again.
RangeCheck ==
    /\ op.stage = "check" /\ Room
    /\ sdu' = [op.prevData EXCEPT !.rangeCheck = TRUE]
    /\ changes' = Append(changes, sdu')
    /\ op' = Idle
    /\ UNCHANGED <<pt, doc, rtCh, beep, checked, turn, entry, updates, edits>>

-----------------------------------------------------------------------------
(* Maintenance.                                                            *)

MarkFrozen ==
    /\ pt.type = "analog" /\ ~doc.invalid /\ ~doc.frozen /\ doc.timeTag # 0
    /\ doc.value # NaN /\ Magnitude(doc.value) > 1
    /\ doc' = [doc EXCEPT !.frozen = TRUE]
    /\ UNCHANGED <<pt, sdu, changes, rtCh, op, beep, checked, turn, entry,
                   updates, edits>>

MarkInvalid ==
    /\ ~doc.invalid
    /\ doc' = [doc EXCEPT !.invalid = TRUE]
    /\ UNCHANGED <<pt, sdu, changes, rtCh, op, beep, checked, turn, entry,
                   updates, edits>>

Next ==
    \/ \E s \in Updates[pt.type] : Update(s)
    \/ handleChange \/ Store
    \/ AckAlarm \/ AckEvent \/ SilenceBeep
    \/ \E e \in Edits[pt.type] : ReadProperties(e)
    \/ WriteProperties \/ RangeCheck
    \/ MarkFrozen \/ MarkInvalid

Spec == Init /\ [][Next]_vars

-----------------------------------------------------------------------------
(* Properties.                                                             *)

SetType ==
    [hiLimit : Int \cup {Missing}, loLimit : Int \cup {Missing},
     hysteresis : Nat \cup {Missing}, toggles : BOOLEAN,
     value : Int \cup {Missing}]

RtSetType ==
    [value : Number, invalid : BOOLEAN, alarmed : BOOLEAN,
     alarmRange : {-1, 0, 1}, timeTagAtSource : Nat, records : BOOLEAN]

RtUpdateType ==
    [sdu : UpdateType, beep : {"none", "normal", "important"},
     stores : BOOLEAN, set : RtSetType, overtaken : BOOLEAN, edited : BOOLEAN]

\* The document keeps its types through every update, edit and mark: the
\* value is a number (or NaN), never missing, and the range one of three.
TypeOK ==
    /\ pt \in PointType
    /\ doc \in DocType
    /\ sdu \in UpdateType
    /\ changes \in Seq(UpdateType) /\ rtCh \in Seq(RtUpdateType)
    /\ op \in {Idle} \cup [stage : {"acked"}]
             \cup [stage : {"read"}, set : SetType, prevData : UpdateType]
             \cup [stage : {"check"}, prevData : UpdateType]
    /\ beep \in {0, 1, 2}
    /\ checked \in BOOLEAN
    /\ turn \in Number \cup {Missing}
    /\ entry \in {"none", "listed", "lost"}
    /\ updates \in 0 .. MaxUpdates /\ edits \in 0 .. MaxEdits

agrees(p, d) ==
    /\ Above(d.value, p.hiLimit + p.hysteresis) => d.alarmRange = 1
    /\ Below(d.value, p.loLimit - p.hysteresis) => d.alarmRange = -1
    /\ insideLimits(p, d.value) => d.alarmRange = 0

\* Whatever updates, acknowledgements, edits, periodic marks and repeated,
\* historical or invalid values came before, and whichever of them overlap,
\* the stored range is that of the stored value: outside the hysteresis bands
\* the limit check of handleChange leaves no choice, unless the limits are
\* crossed.  (A value substituted by the operator, and one whose limits were
\* edited after its event was read, has not been checked with these limits.)
RangeAgrees ==
    /\ pt.type = "analog" /\ pt.loLimit <= pt.hiLimit
    /\ checked /\ ~doc.alarmDisabled
    => agrees(pt, doc)

\* The hysteresis of the limit check damps oscillation as long as the updates
\* that change the range do not overlap: then the values that change it twice
\* in a row lie more than twice the hysteresis apart, with any
\* acknowledgement, mark, dropped or unaccepted update between reading and
\* writing.  (A value in the band that is read before the previous change is
\* stored brings the range of its copy back; from such a turn, and from an
\* edit, the count begins again.)
NoChatter ==
    [][ /\ doc'.alarmRange # doc.alarmRange
        /\ turn # Missing /\ turn' # Missing /\ pt.loLimit <= pt.hiLimit
        => Magnitude(turn' - turn) > 2 * pt.hysteresis ]_vars

\* An analog alarm that stands in the document has an unacknowledged entry in
\* the list of events, or a full channel lost it, and the entry was made
\* since the last time there was no alarm in the document or on its way to
\* it.  So an acknowledged alarm comes back without a new entry only by an
\* update that was read before the acknowledgement, and was then the same
\* alarm: no value that stays out of range raises it again.
AlarmRecorded == pt.type = "analog" /\ doc.alarmed => entry # "none"

\* An alarm leaves the document only by an acknowledgement, with the alarms
\* of the point disabled, for an analog point with a value inside its limits,
\* or by an update that was overtaken: its event was read before another one,
\* such as the alarm itself, was stored, or before the limits were edited.
AlarmHeld ==
    [][ doc.alarmed /\ ~doc'.alarmed =>
          \/ op = Idle /\ op'.stage = "acked"
          \/ Store /\ (Head(rtCh).overtaken \/ Head(rtCh).edited)
          \/ doc.alarmDisabled
          \/ pt.type = "analog" /\ insideLimits(pt, doc'.value) ]_vars

\* The historian's dead band bounds the error of what is recorded however
\* slowly the value drifts: a stored value is within the dead band of the
\* last one recorded, which the same update may have recorded, unless another
\* update was stored since its event was read.
HistorianTracks ==
    [][ /\ Store /\ Head(rtCh).stores /\ ~Head(rtCh).overtaken
        /\ pt.type = "analog" /\ pt.historianPeriod >= 0
        /\ ~Head(rtCh).sdu.isNotForHistorical
        => \/ doc'.historianLastValue = doc'.value
           \/ /\ {NaN, Missing} \cap {doc'.value, doc'.historianLastValue} = {}
              /\ Magnitude(doc'.value - doc'.historianLastValue)
                    < pt.historianDeadBand ]_vars

-----------------------------------------------------------------------------
(* Statements of the documentation and of comments that the code breaks.   *)

\* "avoid undefined, null or NaN values" (process.go): no NaN is stored.
NeverNaN == doc.value # NaN

\* "1=hiLimit violated, -1=loLimit violated" (schema.md), with the
\* hysteresis as tolerance: a point in the high range is not below
\* hiLimit - hysteresis, one in the low range not above loLimit + hysteresis.
RangeMatchesSide ==
    pt.type = "analog" /\ checked /\ ~doc.alarmDisabled /\ doc.value # NaN =>
        /\ doc.alarmRange = 1 => doc.value >= pt.hiLimit - pt.hysteresis
        /\ doc.alarmRange = -1 => doc.value <= pt.loLimit + pt.hysteresis

\* "if changed limits force an updated to recheck range" (index.js): the
\* forced update is about the range and leaves the value alone ...
RecheckKeepsValue ==
    [][ Store /\ Head(rtCh).sdu.rangeCheck => doc'.value = doc.value ]_vars

\* ... and it is never put aside as no change.
RecheckIsEffective ==
    [][ handleChange /\ Head(changes).rangeCheck
        => storesPoint(pt, doc, Head(changes)) ]_vars

\* "when true, only transitions OFF->ON for type=digital matters for alarms
\* and SOE" (schema.md, isEvent): an update to OFF does not make the
\* station beep.
EventOffIsSilent ==
    [][ /\ pt.type = "digital" /\ pt.isEvent
        /\ beep' > beep
        => valueOf(pt, Head(rtCh).sdu) # 0 ]_vars
=============================================================================

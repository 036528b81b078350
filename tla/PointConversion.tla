-------------------------- MODULE PointConversion --------------------------
(***************************************************************************)
(* What the data processor makes of one source data update, as a function  *)
(* of the point's configuration, its document and the update: handleChange *)
(* of src/src/cs_data_processor-go/process.go, from the quality bits to    *)
(* the last SOE entry.  Digital and analog points.                         *)
(*                                                                         *)
(*   pt   configuration: [type, kconv1, kconv2, zeroDeadband, hiLimit,     *)
(*        loLimit, hysteresis, isEvent, priority, historianDeadBand,       *)
(*        historianPeriod]                                                 *)
(*   fd   the document (fullDocument): [value, invalid, frozen, alarmed,   *)
(*        alarmRange, alarmDisabled, timeTag, timeTagAtSource,             *)
(*        historianLastValue]                                              *)
(*   sdu  sourceDataUpdate: [valueAtSource, bad, doublePoint,              *)
(*        timeTagAtSource, isHistorical, isNotForHistorical, rangeCheck]   *)
(*                                                                         *)
(* Numbers are integers or NaN; texts are left out; a source time is a     *)
(* positive integer, 0 when the update carries none.                       *)
(***************************************************************************)
EXTENDS Integers, Sequences

CONSTANTS NaN,       \* the IEEE value that compares unequal to everything
          Missing    \* a number that is not there (absent, null, not numeric)

ASSUME SpecialNumbers == NaN \notin Int /\ Missing \notin Int /\ NaN # Missing

Number == Int \cup {NaN}

PointType ==
    [type : {"digital", "analog"}, kconv1 : Int, kconv2 : Int,
     zeroDeadband : Nat, hiLimit : Int, loLimit : Int, hysteresis : Nat,
     isEvent : BOOLEAN, priority : Nat, historianDeadBand : Int,
     historianPeriod : Int]

DocType ==
    [value : Number, invalid : BOOLEAN, frozen : BOOLEAN, alarmed : BOOLEAN,
     alarmRange : {-1, 0, 1}, alarmDisabled : BOOLEAN, timeTag : {0, 1},
     timeTagAtSource : Nat, historianLastValue : Number \cup {Missing}]

UpdateType ==
    [valueAtSource : Number \cup {Missing}, bad : BOOLEAN,
     doublePoint : BOOLEAN, timeTagAtSource : Nat, isHistorical : BOOLEAN,
     isNotForHistorical : BOOLEAN, rangeCheck : BOOLEAN]

lowestPriorityThatBeeps == 1

Bit(b) == IF b THEN 1 ELSE 0
Magnitude(x) == IF x < 0 THEN -x ELSE x

\* Floating-point comparisons: with NaN every one is false but "differs".
Above(x, y) == x # NaN /\ x > y
Below(x, y) == x # NaN /\ x < y
Differs(x, y) == x = NaN \/ x # y

-----------------------------------------------------------------------------
(* Value and quality.                                                      *)

\* A number that cannot be used counts as zero ...
usable(sdu) == IF sdu.valueAtSource \in {Missing, NaN} THEN 0
               ELSE sdu.valueAtSource

\* A double point is 2 for on and 1 for off; kconv1 = -1 inverts.
digitalValue(pt, sdu) ==
    LET v == IF sdu.doublePoint THEN Bit(usable(sdu) % 2 = 0) ELSE usable(sdu)
    IN  IF pt.kconv1 = -1 THEN Bit(v = 0) ELSE v

\* ... but the analog conversion starts again from the number received.
analogValue(pt, sdu) ==
    LET v == IF sdu.valueAtSource = Missing THEN pt.kconv2
             ELSE sdu.valueAtSource * pt.kconv1 + pt.kconv2
    IN  IF sdu.valueAtSource = NaN THEN NaN
        ELSE IF Magnitude(v) < pt.zeroDeadband THEN 0
        ELSE v

valueOf(pt, sdu) ==
    IF pt.type = "digital" THEN digitalValue(pt, sdu) ELSE analogValue(pt, sdu)

\* bad stands for invalid, notTopical, overflow or transient at source; a
\* double point in an intermediate position is invalid as well.
invalidOf(pt, sdu) ==
    \/ sdu.bad
    \/ sdu.valueAtSource \in {Missing, NaN}
    \/ pt.type = "digital" /\ sdu.doublePoint /\ usable(sdu) \in {0, 3}

\* A source time makes the update an event of the sequence of events.
isSOE(pt, sdu) ==
    sdu.timeTagAtSource # 0 /\ (pt.type = "digital" \/ pt.isEvent)

-----------------------------------------------------------------------------
(* Alarms.                                                                 *)

limitsChecked(pt, fd) == pt.type = "analog" /\ ~fd.alarmDisabled

insideLimits(pt, v) ==
    /\ Below(v, pt.hiLimit - pt.hysteresis)
    /\ Above(v, pt.loLimit + pt.hysteresis)

\* Mutant: leaving a range needs no hysteresis.
alarmRangeNoHysteresis(pt, fd, v) ==
    IF ~limitsChecked(pt, fd) THEN 0
    ELSE IF Above(v, pt.hiLimit) THEN 1
    ELSE IF Below(v, pt.loLimit) THEN -1
    ELSE IF Below(v, pt.hiLimit) /\ Above(v, pt.loLimit) THEN 0
    ELSE fd.alarmRange

\* Inside the hysteresis band the range stays what it was.
alarmRangeOf(pt, fd, v) ==
    IF ~limitsChecked(pt, fd) THEN 0
    ELSE IF Above(v, pt.hiLimit + pt.hysteresis) THEN 1
    ELSE IF Below(v, pt.loLimit - pt.hysteresis) THEN -1
    ELSE IF insideLimits(pt, v) THEN 0
    ELSE fd.alarmRange

rangeChanged(pt, fd, v) ==
    limitsChecked(pt, fd) /\ alarmRangeOf(pt, fd, v) # fd.alarmRange

\* Mutant: the alarm is raised again by any value out of range.
alarmedAgain(pt, fd, v) ==
    IF pt.type = "digital"
    THEN fd.alarmed \/ (Differs(v, fd.value) /\ ~fd.alarmDisabled)
    ELSE alarmRangeOf(pt, fd, v) # 0

\* Mutant: a digital alarm lasts only until the next update.
alarmedUntilNext(pt, fd, v) ==
    IF pt.type = "digital"
    THEN Differs(v, fd.value) /\ ~fd.alarmDisabled
    ELSE \/ rangeChanged(pt, fd, v) /\ alarmRangeOf(pt, fd, v) # 0
         \/ fd.alarmed /\ ~(limitsChecked(pt, fd)
                             /\ alarmRangeOf(pt, fd, v) = 0
                             /\ insideLimits(pt, v))

alarmedOf(pt, fd, v) ==
    IF pt.type = "digital"
    THEN fd.alarmed \/ (Differs(v, fd.value) /\ ~fd.alarmDisabled)
    ELSE \/ rangeChanged(pt, fd, v) /\ alarmRangeOf(pt, fd, v) # 0
         \/ fd.alarmed /\ ~(limitsChecked(pt, fd)
                             /\ alarmRangeOf(pt, fd, v) = 0
                             /\ insideLimits(pt, v))

\* The beep point is driven by new alarms of priority 0 (important) and 1.
beepOf(pt, fd, sdu) ==
    LET v == valueOf(pt, sdu)
        new == \/ pt.type = "digital" /\ pt.isEvent /\ isSOE(pt, sdu) /\ v # 0
               \/ pt.type = "digital" /\ ~pt.isEvent
               \/ ~fd.alarmed
    IN  IF fd.alarmDisabled \/ ~alarmedOf(pt, fd, v) \/ ~new
           \/ pt.priority > lowestPriorityThatBeeps THEN "none"
        ELSE IF pt.priority = 0 THEN "important"
        ELSE "normal"

-----------------------------------------------------------------------------
(* The sequence of events: entries enter acknowledged (1) or not (0).      *)

rangeEntry(pt, fd, v) ==
    IF rangeChanged(pt, fd, v)
    THEN <<[kind |-> "range", value |-> v,
            ack |-> Bit(~alarmedOf(pt, fd, v))]>>
    ELSE <<>>

analogEntry(pt, fd, sdu, v) ==
    IF /\ pt.type = "analog"
       /\ ~fd.alarmDisabled
       /\ \/ pt.isEvent /\ ~invalidOf(pt, sdu) /\ Differs(v, fd.value)
          \/ isSOE(pt, sdu)
    THEN <<[kind |-> "event", value |-> v, ack |-> 1]>>
    ELSE <<>>

digitalEntry(pt, fd, sdu, v) ==
    IF /\ pt.type = "digital"
       /\ isSOE(pt, sdu)
       /\ ~fd.alarmDisabled
       /\ ~sdu.isNotForHistorical
       /\ ~(v = 0 /\ pt.isEvent)
    THEN <<[kind |-> "event", value |-> v, ack |-> 0]>>
    ELSE <<>>

soeOf(pt, fd, sdu) ==
    LET v == valueOf(pt, sdu)
    IN  rangeEntry(pt, fd, v) \o analogEntry(pt, fd, sdu, v)
                              \o digitalEntry(pt, fd, sdu, v)

-----------------------------------------------------------------------------
(* What is stored.                                                         *)

sourceTimeTagAtSourceChanged(fd, sdu) ==
    sdu.timeTagAtSource # 0 /\ sdu.timeTagAtSource # fd.timeTagAtSource

\* Mutant: the mark of a range check does not make the update count.
changedIgnoresRangeCheck(pt, fd, sdu) ==
    \/ isSOE(pt, sdu)
    \/ /\ Differs(valueOf(pt, sdu), fd.value)
       /\ ~(pt.type = "digital" /\ pt.isEvent)
    \/ sourceTimeTagAtSourceChanged(fd, sdu)
    \/ fd.timeTag = 0
    \/ invalidOf(pt, sdu) # fd.invalid

\* Mutant: a new source time alone does not make the update count.
changedIgnoresTime(pt, fd, sdu) ==
    \/ isSOE(pt, sdu)
    \/ sdu.rangeCheck
    \/ /\ Differs(valueOf(pt, sdu), fd.value)
       /\ ~(pt.type = "digital" /\ pt.isEvent)
    \/ fd.timeTag = 0
    \/ invalidOf(pt, sdu) # fd.invalid

changedForUpdate(pt, fd, sdu) ==
    \/ isSOE(pt, sdu)
    \/ sdu.rangeCheck
    \/ /\ Differs(valueOf(pt, sdu), fd.value)
       /\ ~(pt.type = "digital" /\ pt.isEvent)
    \/ sourceTimeTagAtSourceChanged(fd, sdu)
    \/ fd.timeTag = 0
    \/ invalidOf(pt, sdu) # fd.invalid

\* Whether the update does more than write SOE entries.
accepted(pt, fd, sdu) == changedForUpdate(pt, fd, sdu) /\ ~sdu.isHistorical

\* Mutant: the dead band is measured from the last value, not from the last
\* one recorded, so a slow drift is never recorded.
insertDrifts(pt, fd, sdu) ==
    /\ pt.historianPeriod >= 0
    /\ ~sdu.isNotForHistorical
    /\ LET v == valueOf(pt, sdu)
       IN  ~(/\ pt.type = "analog"
             /\ NaN \notin {v, fd.value}
             /\ Magnitude(v - fd.value) < pt.historianDeadBand)

insertIntoHistorian(pt, fd, sdu) ==
    /\ pt.historianPeriod >= 0
    /\ ~sdu.isNotForHistorical
    /\ LET v == valueOf(pt, sdu)
       IN  ~(/\ pt.type = "analog"
             /\ fd.historianLastValue # Missing
             /\ NaN \notin {v, fd.historianLastValue}
             /\ Magnitude(v - fd.historianLastValue) < pt.historianDeadBand)

\* A protection-like event is not stored for its OFF state.
storesPoint(pt, fd, sdu) ==
    /\ accepted(pt, fd, sdu)
    /\ ~(pt.isEvent /\ pt.type = "digital" /\ valueOf(pt, sdu) = 0)

\* The $set of the point's realtimeData document, computed from fd ...
rtUpdate(pt, fd, sdu) ==
    LET v == valueOf(pt, sdu)
    IN  [value |-> v,
         invalid |-> invalidOf(pt, sdu),
         alarmed |-> alarmedOf(pt, fd, v) /\ ~fd.alarmDisabled,
         alarmRange |-> alarmRangeOf(pt, fd, v),
         timeTagAtSource |-> sdu.timeTagAtSource,
         records |-> pt.type = "analog" /\ insertIntoHistorian(pt, fd, sdu)]

\* ... and applied to whatever the document is by then.
applyUpdate(doc, u) ==
    [doc EXCEPT !.value = u.value, !.invalid = u.invalid, !.frozen = FALSE,
                !.alarmed = u.alarmed, !.alarmRange = u.alarmRange,
                !.timeTag = 1, !.timeTagAtSource = u.timeTagAtSource,
                !.historianLastValue = IF u.records THEN u.value ELSE @]
=============================================================================

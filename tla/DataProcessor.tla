--------------------------- MODULE DataProcessor ---------------------------
(***************************************************************************)
(* The pipeline of cs_data_processor-go: the change stream reader          *)
(* (main.go), the queue of changes, the dispatcher and its workers         *)
(* (process.go), the writers (writers.go) and MongoDB at both ends.        *)
(*                                                                         *)
(*   oplog --Fetch--> changeCh --Dispatch--> inbox[w] --HandleChange-->    *)
(*         rtCh --TakeUpdate--> batch --FlushRtBatch--> wire --> docs      *)
(*         soeCh --FlushSoe--> soeData                                     *)
(*                                                                         *)
(* An event carries the document as it is when the event is fetched        *)
(* (UpdateLookup), not as it was when the driver wrote; what it becomes is *)
(* computed from that copy (module PointConversion) and written back later *)
(* by an unacknowledged write.                                             *)
(***************************************************************************)
EXTENDS PointConversion, FiniteSets

CONSTANTS
    Points,           \* point keys (_id)
    Config,           \* Config[p]: the configuration of the point
    NewPoints,        \* points not inserted yet
    Workers, Shard,   \* Shard[p]: the worker the hash of the _id selects
    Updates,          \* source data updates, without their time
    Timestamped,      \* whether the source stamps each update with its time
    ChangeQueueSize, WriteQueueSize, RtWriteMaxBatch,
    MaxUpdates,       \* bound: driver writes
    MaxFaults         \* bound: lost connections, failed writes, switchovers

ASSUME PipelineAssumption ==
    /\ Config \in [Points -> PointType] /\ "system" \notin Points
    /\ Shard \in [Points -> Workers] /\ IsFiniteSet(Workers)
    /\ NewPoints \subseteq Points
    /\ Updates \subseteq UpdateType
    /\ Timestamped \in BOOLEAN
    /\ {ChangeQueueSize, WriteQueueSize, RtWriteMaxBatch} \subseteq Nat \ {0}
    /\ MaxUpdates \in Nat /\ MaxFaults \in Nat

VARIABLES
    docs,        \* realtimeData: what the processor writes of each point
    inserted,    \* points that exist
    oplog,       \* changes of realtimeData the stream can deliver
    connected, pos,     \* the cursor: open?, changes already delivered
    resumeToken, prevResumeToken,    \* positions in the oplog; 0 for nil
    role,        \* "active" if processActive; if not, why it is not
    changeCh, inbox, rtCh, batch, wire, soeCh,
    soeData,     \* number of entries in the SOE collection, per change
    mirror,      \* points with a row in PostgreSQL's realtime_data
    tokenHeld,   \* history: a change was read since the process started
    applied,     \* history: last change applied to each document
    lost,        \* history: the ways in which a change or its result got lost
    faults       \* bound: faults so far

vars == <<docs, inserted, oplog, connected, pos, resumeToken,
          prevResumeToken, role, changeCh, inbox, rtCh, batch, wire, soeCh,
          soeData, mirror, tokenHeld, applied, lost, faults>>

stream == <<connected, pos, resumeToken, prevResumeToken, tokenHeld>>
queues == <<changeCh, inbox, rtCh, batch, wire, soeCh>>
stores == <<docs, soeData, mirror, applied>>

NewDoc == [value |-> 0, invalid |-> FALSE, frozen |-> FALSE,
           alarmed |-> FALSE, alarmRange |-> 0, alarmDisabled |-> FALSE,
           timeTag |-> 1, timeTagAtSource |-> 0,
           historianLastValue |-> Missing]

Init ==
    /\ docs = [p \in Points |-> NewDoc]
    /\ inserted = Points \ NewPoints
    /\ oplog = <<>>
    /\ connected = FALSE /\ pos = 0
    /\ resumeToken = 0 /\ prevResumeToken = 0 /\ tokenHeld = FALSE
    /\ role = "starting"
    /\ changeCh = <<>> /\ inbox = [w \in Workers |-> <<>>]
    /\ rtCh = <<>> /\ batch = <<>> /\ wire = <<>> /\ soeCh = <<>>
    /\ soeData = [i \in 1 .. MaxUpdates |-> 0]
    /\ mirror = Points \ NewPoints
    /\ applied = [p \in Points |-> 0]
    /\ lost = {}
    /\ faults = 0

Fault == faults < MaxFaults /\ faults' = faults + 1

-----------------------------------------------------------------------------
(* The writers of realtimeData.                                            *)

\* A protocol driver updates the point's sourceDataUpdate.
DriverWrite(p, s) ==
    LET id == Len(oplog) + 1
    IN  /\ Len(oplog) < MaxUpdates
        /\ p \in inserted
        /\ oplog' = Append(oplog,
               [op |-> "update", point |-> p, id |-> id,
                sdu |-> [s EXCEPT !.timeTagAtSource =
                             IF Timestamped THEN id ELSE 0]])
        /\ UNCHANGED <<stream, queues, stores, inserted, role, lost, faults>>

\* A new tag is inserted.
InsertPoint(p) ==
    /\ Len(oplog) < MaxUpdates
    /\ p \notin inserted
    /\ inserted' = inserted \cup {p}
    /\ oplog' = Append(oplog, [op |-> "insert", point |-> p,
                               id |-> Len(oplog) + 1])
    /\ UNCHANGED <<stream, queues, stores, role, lost, faults>>

-----------------------------------------------------------------------------
(* The change stream.                                                      *)

\* The $match: updatedFields.sourceDataUpdate must exist, and only an update
\* has updatedFields.
matches(e) == e.op = "update"

\* The reader never blocks: a full queue loses its oldest event.
Submit(ev) ==
    IF Len(changeCh) < ChangeQueueSize
    THEN changeCh' = Append(changeCh, ev) /\ lost' = lost
    ELSE changeCh' = Append(Tail(changeCh), ev) /\ lost' = lost \cup {"change"}

\* Mutant: the resume token is not renewed for every event.
FetchKeepingToken ==
    /\ connected /\ pos < Len(oplog)
    /\ LET e == oplog[pos + 1]
       IN  /\ IF matches(e)
              THEN /\ Submit([id |-> e.id, op |-> e.op, point |-> e.point,
                              sdu |-> e.sdu, fullDocument |-> docs[e.point]])
                   /\ resumeToken' = IF resumeToken = 0 THEN pos + 1
                                     ELSE resumeToken
                   /\ tokenHeld' = TRUE
              ELSE UNCHANGED <<changeCh, lost, resumeToken, tokenHeld>>
    /\ pos' = pos + 1
    /\ UNCHANGED <<connected, prevResumeToken, inbox, rtCh, batch, wire, soeCh,
                   stores, inserted, oplog, role, faults>>

\* The next change is delivered with the document as it is now, its position
\* becomes the resume token, and it is handed on.
Fetch ==
    /\ connected /\ pos < Len(oplog)
    /\ LET e == oplog[pos + 1]
       IN  IF matches(e)
           THEN /\ Submit([id |-> e.id, op |-> e.op, point |-> e.point,
                           sdu |-> e.sdu, fullDocument |-> docs[e.point]])
                /\ resumeToken' = pos + 1 /\ tokenHeld' = TRUE
           ELSE UNCHANGED <<changeCh, lost, resumeToken, tokenHeld>>
    /\ pos' = pos + 1
    /\ UNCHANGED <<connected, prevResumeToken, inbox, rtCh, batch, wire, soeCh,
                   stores, inserted, oplog, role, faults>>

\* A token that was current at the previous failure is given up.
invalidateToken ==
    IF resumeToken # 0 /\ resumeToken = prevResumeToken
    THEN resumeToken' = 0 /\ prevResumeToken' = 0
    ELSE resumeToken' = resumeToken /\ prevResumeToken' = resumeToken

\* The stream breaks while reading.
StreamError ==
    /\ connected /\ Fault
    /\ connected' = FALSE
    /\ invalidateToken
    /\ UNCHANGED <<pos, tokenHeld, queues, stores, inserted, oplog, role,
                   lost>>

\* The connection comes up but Watch fails.
WatchFails ==
    /\ ~connected /\ Fault
    /\ invalidateToken
    /\ UNCHANGED <<connected, pos, tokenHeld, queues, stores, inserted, oplog,
                   role, lost>>

\* Connected: the stream resumes after the token or, without one, starts
\* from now.
Watch ==
    /\ ~connected
    /\ connected' = TRUE
    /\ pos' = IF resumeToken = 0 THEN Len(oplog) ELSE resumeToken
    /\ lost' = IF pos' > pos
                  /\ \E i \in pos + 1 .. pos' : matches(oplog[i])
               THEN lost \cup {IF tokenHeld THEN "skip" ELSE "start"} ELSE lost
    /\ UNCHANGED <<resumeToken, prevResumeToken, tokenHeld, queues, stores, inserted,
                   oplog, role, faults>>

-----------------------------------------------------------------------------
(* Workers.                                                                *)

\* Mutant: events go to any worker.
DispatchAnywhere ==
    /\ changeCh # <<>>
    /\ \E w \in Workers :
         /\ Len(inbox[w]) <= ChangeQueueSize \div Cardinality(Workers)
         /\ inbox' = [inbox EXCEPT ![w] = Append(@, Head(changeCh))]
    /\ changeCh' = Tail(changeCh)
    /\ UNCHANGED <<stream, rtCh, batch, wire, soeCh, stores, inserted, oplog,
                   role, lost, faults>>

\* The dispatcher hands the oldest event to the worker of its point, and
\* blocks while that worker's inbox is full.
Dispatch ==
    /\ changeCh # <<>>
    /\ LET w == Shard[Head(changeCh).point]
       IN  /\ Len(inbox[w]) <= ChangeQueueSize \div Cardinality(Workers)
           /\ inbox' = [inbox EXCEPT ![w] = Append(@, Head(changeCh))]
    /\ changeCh' = Tail(changeCh)
    /\ UNCHANGED <<stream, rtCh, batch, wire, soeCh, stores, inserted, oplog,
                   role, lost, faults>>

\* Mutant: the writers' channels have no bound.
emitUnbounded(ch, items) == ch \o items

\* What fits in a channel of the writers; the rest is dropped.
emit(ch, items) ==
    LET all == ch \o items
    IN  SubSeq(all, 1, IF Len(all) < WriteQueueSize THEN Len(all)
                       ELSE WriteQueueSize)
fits(ch, items) == Len(ch \o items) <= WriteQueueSize

\* The realtimeData updates of an event: the beep point, the counter of
\* digital updates, the point itself.
rtUpdates(ev) ==
    LET pt == Config[ev.point]
        fd == ev.fullDocument
        system == [point |-> "system", id |-> ev.id]
    IN  IF ~accepted(pt, fd, ev.sdu) THEN <<>>
        ELSE (IF beepOf(pt, fd, ev.sdu) # "none" THEN <<system>> ELSE <<>>)
             \o (IF pt.type = "digital" /\ ~fd.alarmDisabled
                 THEN <<system>> ELSE <<>>)
             \o (IF storesPoint(pt, fd, ev.sdu)
                 THEN <<[point |-> ev.point, id |-> ev.id,
                         set |-> rtUpdate(pt, fd, ev.sdu)]>>
                 ELSE <<>>)

soeEntries(ev) ==
    [i \in DOMAIN soeOf(Config[ev.point], ev.fullDocument, ev.sdu) |-> ev.id]

\* handleChange, the tail of a worker's loop.
HandleChange(w) ==
    /\ inbox[w] # <<>>
    /\ LET ev == Head(inbox[w])
       IN  IF ev.op = "insert"
           THEN /\ mirror' = mirror \cup {ev.point}
                /\ UNCHANGED <<rtCh, soeCh, lost>>
           ELSE IF role # "active"
           THEN /\ lost' = lost \cup {role}
                /\ UNCHANGED <<rtCh, soeCh, mirror>>
           ELSE /\ rtCh' = emit(rtCh, rtUpdates(ev))
                /\ soeCh' = emit(soeCh, soeEntries(ev))
                /\ lost' = lost
                     \cup (IF fits(rtCh, rtUpdates(ev)) THEN {} ELSE {"rt"})
                     \cup (IF fits(soeCh, soeEntries(ev)) THEN {} ELSE {"soe"})
                /\ mirror' = IF accepted(Config[ev.point], ev.fullDocument,
                                         ev.sdu)
                             THEN mirror \cup {ev.point} ELSE mirror
    /\ inbox' = [inbox EXCEPT ![w] = Tail(@)]
    /\ UNCHANGED <<stream, changeCh, batch, wire, docs, soeData, applied,
                   inserted, oplog, role, faults>>

-----------------------------------------------------------------------------
(* Writers.                                                                *)

\* The realtime writer adds the oldest update to its batch.
TakeUpdate ==
    /\ rtCh # <<>> /\ Len(batch) < RtWriteMaxBatch
    /\ batch' = Append(batch, Head(rtCh))
    /\ rtCh' = Tail(rtCh)
    /\ UNCHANGED <<stream, changeCh, inbox, wire, soeCh, stores, inserted,
                   oplog, role, lost, faults>>

\* Mutant: only a full batch is sent.
FlushOnlyFull ==
    /\ Len(batch) = RtWriteMaxBatch /\ connected
    /\ wire' = wire \o batch
    /\ batch' = <<>>
    /\ UNCHANGED <<stream, changeCh, inbox, rtCh, soeCh, stores, inserted,
                   oplog, role, lost, faults>>

\* The batch is full or has lingered: it is sent, once connected.
FlushRtBatch ==
    /\ batch # <<>> /\ connected
    /\ wire' = wire \o batch
    /\ batch' = <<>>
    /\ UNCHANGED <<stream, changeCh, inbox, rtCh, soeCh, stores, inserted,
                   oplog, role, lost, faults>>

\* The handles are gone by then, or the write fails: the batch is lost.
FlushRtFails ==
    /\ batch # <<>> /\ Fault
    /\ batch' = <<>>
    /\ lost' = lost \cup {"write"}
    /\ UNCHANGED <<stream, changeCh, inbox, rtCh, wire, soeCh, stores,
                   inserted, oplog, role>>

\* MongoDB executes the unacknowledged writes one after the other.
Apply ==
    /\ wire # <<>>
    /\ LET u == Head(wire)
       IN  IF u.point = "system" THEN UNCHANGED <<docs, applied>>
           ELSE /\ docs' = [docs EXCEPT ![u.point] = applyUpdate(@, u.set)]
                /\ applied' = [applied EXCEPT ![u.point] = u.id]
    /\ wire' = Tail(wire)
    /\ UNCHANGED <<stream, changeCh, inbox, rtCh, batch, soeCh, soeData,
                   mirror, inserted, oplog, role, lost, faults>>

\* The SOE writer inserts its batch.
FlushSoe ==
    /\ soeCh # <<>> /\ connected
    /\ soeData' = [i \in DOMAIN soeData |->
                     soeData[i] + Cardinality({k \in DOMAIN soeCh : soeCh[k] = i})]
    /\ soeCh' = <<>>
    /\ UNCHANGED <<stream, changeCh, inbox, rtCh, batch, wire, docs, mirror,
                   applied, inserted, oplog, role, lost, faults>>

FlushSoeFails ==
    /\ soeCh # <<>> /\ Fault
    /\ soeCh' = <<>>
    /\ lost' = lost \cup {"soe"}
    /\ UNCHANGED <<stream, changeCh, inbox, rtCh, batch, wire, stores,
                   inserted, oplog, role>>

-----------------------------------------------------------------------------
(* Redundancy: the cycle of redundancy.go, every five seconds.             *)

\* Without a connection the process is not active.
Disconnected ==
    /\ ~connected /\ role = "active"
    /\ role' = "off"
    /\ UNCHANGED <<stream, queues, stores, inserted, oplog, lost, faults>>

\* The instance document names this node, or its keep-alive has stalled.
Activate ==
    /\ connected /\ role # "active"
    /\ role' = "active"
    /\ UNCHANGED <<stream, queues, stores, inserted, oplog, lost, faults>>

\* Another node took over.
Standby ==
    /\ connected /\ role # "standby" /\ Fault
    /\ role' = "standby"
    /\ UNCHANGED <<stream, queues, stores, inserted, oplog, lost>>

Next ==
    \/ \E p \in Points, s \in Updates : DriverWrite(p, s)
    \/ \E p \in Points : InsertPoint(p)
    \/ Fetch \/ StreamError \/ WatchFails \/ Watch
    \/ Dispatch
    \/ \E w \in Workers : HandleChange(w)
    \/ TakeUpdate \/ FlushRtBatch \/ FlushRtFails \/ Apply
    \/ FlushSoe \/ FlushSoeFails
    \/ Disconnected \/ Activate \/ Standby

Spec == Init /\ [][Next]_vars

\* The goroutines of the processor and MongoDB keep running, and the
\* reconnection loop retries for ever; drivers, operators and faults owe
\* nothing.
Fairness ==
    /\ WF_vars(Fetch) /\ WF_vars(Watch) /\ WF_vars(Dispatch)
    /\ \A w \in Workers : WF_vars(HandleChange(w))
    /\ WF_vars(TakeUpdate) /\ WF_vars(FlushRtBatch) /\ WF_vars(Apply)
    /\ WF_vars(FlushSoe)

FairSpec == Spec /\ Fairness

-----------------------------------------------------------------------------
(* Properties.                                                             *)

Changes == [op : {"update"}, point : Points, id : 1 .. MaxUpdates,
            sdu : UpdateType]
           \cup [op : {"insert"}, point : Points, id : 1 .. MaxUpdates]

\* Types and bounds: no queue outgrows its channel however slow the stage
\* after it, the cursor and both tokens stay within the oplog.
TypeOK ==
    /\ docs \in [Points -> DocType]
    /\ inserted \subseteq Points /\ mirror \subseteq Points
    /\ \A i \in DOMAIN oplog : oplog[i] \in Changes /\ oplog[i].id = i
    /\ connected \in BOOLEAN /\ tokenHeld \in BOOLEAN
    /\ role \in {"starting", "active", "standby", "off"}
    /\ pos \in 0 .. Len(oplog)
    /\ resumeToken \in 0 .. pos /\ prevResumeToken \in 0 .. resumeToken
    /\ Len(changeCh) <= ChangeQueueSize
    /\ \A w \in Workers :
          Len(inbox[w]) <= ChangeQueueSize \div Cardinality(Workers) + 1
    /\ Len(rtCh) <= WriteQueueSize /\ Len(soeCh) <= WriteQueueSize
    /\ Len(batch) <= RtWriteMaxBatch
    /\ applied \in [Points -> 0 .. MaxUpdates]
    /\ lost \subseteq {"start", "skip", "change", "rt", "soe", "write",
                       "starting", "standby", "off"}
    /\ faults \in 0 .. MaxFaults

\* Two updates of one point are never reordered, whatever the number of
\* workers, the batches, the reconnections: the document only moves on to
\* results of later changes.
PerPointOrder ==
    [][ \A p \in Points : applied'[p] >= applied[p] ]_vars

Quiet ==
    /\ connected /\ pos = Len(oplog)
    /\ changeCh = <<>> /\ \A w \in Workers : inbox[w] = <<>>
    /\ rtCh = <<>> /\ batch = <<>> /\ wire = <<>> /\ soeCh = <<>>

lastUpdates(p) ==
    {i \in DOMAIN oplog :
        /\ oplog[i].op = "update" /\ oplog[i].point = p
        /\ \A j \in i + 1 .. Len(oplog) : oplog[j].point # p}

\* The document holds the value of the last update the driver wrote.
Fresh(p) ==
    \A i \in lastUpdates(p) :
        docs[p].value = valueOf(Config[p], oplog[i].sdu)

\* Although every update is computed from a copy of the document that the
\* previous updates may not have reached, the document ends with the last
\* source value, if nothing was lost on the way.
FreshWhenQuiet ==
    Quiet /\ lost = {} => \A p \in Points : Fresh(p)

\* An update that is an event of the list whatever the document holds.
leavesEvent(e) ==
    LET p == Config[e.point]
    IN  /\ e.op = "update" /\ isSOE(p, e.sdu)
        /\ p.type = "digital" =>
             ~e.sdu.isNotForHistorical /\ ~(p.isEvent /\ valueOf(p, e.sdu) = 0)

\* The most entries of a change: for an analog point its range and, for an
\* event point, its value; for a digital point the event.
mostEntries(e) ==
    IF e.op = "update" /\ Config[e.point].type = "analog"
    THEN 1 + Bit(Config[e.point].isEvent) ELSE Bit(leavesEvent(e))

\* Nothing is recorded twice, through reconnections and resumed streams, and
\* if nothing was lost every event is recorded.
SoeExactlyOnce ==
    \A i \in DOMAIN oplog :
        LET inQueue == Cardinality({k \in DOMAIN soeCh : soeCh[k] = i})
        IN  /\ soeData[i] + inQueue <= mostEntries(oplog[i])
            /\ Quiet /\ lost = {} => soeData[i] >= Bit(leavesEvent(oplog[i]))

\* Every change gets through: the pipeline drains after the last update,
\* connections lost and restored on the way, and then shows its value.
Drains == <>[](Quiet /\ (lost = {} => \A p \in Points : Fresh(p)))

-----------------------------------------------------------------------------
(* Statements of the documentation and of comments that the code breaks.   *)

\* "reconnect resuming from the last token when possible" (main.go): once a
\* change has been read, none is passed over by a reconnection.
ResumesFromToken == "skip" \notin lost

\* "when inactive (redundancy standby), ignore changes" (process.go): a node
\* that is no standby ignores none of the changes its stream resumed with.
IgnoredOnlyByStandby == "off" \notin lost

\* "the oldest queued event is dropped" under overload (README.md): what a
\* single point ends with is its newest value.
NewestSurvives ==
    Quiet /\ lost \subseteq {"change", "rt"} => \A p \in Points : Fresh(p)

\* "insert: just mirror the new point into the PostgreSQL realtime table"
\* (process.go): a point that exists is in the mirror.
InsertsMirrored == Quiet /\ lost = {} => inserted \subseteq mirror

\* The code raises the alarm of a digital point and leaves it to the operator
\* to take it away (PointAlarms!AlarmHeld); but a change computed from a copy
\* fetched before the alarm was written takes it away as well.
AlarmLatched ==
    [][ \A p \in Points : docs[p].alarmed => docs'[p].alarmed ]_vars
=============================================================================

--------------------------- MODULE IecServerData ---------------------------
(***************************************************************************)
(* The data side of the IEC 60870-5-101/104 servers (srvapp/engine.go and  *)
(* interrogation.go): changes of realtimeData reach the out-queue of a     *)
(* connection through a change stream and are sent as spontaneous batches, *)
(* while another goroutine answers the interrogations of the master from   *)
(* the database.  The master may leave between any two steps: after the    *)
(* check that it is there, with a batch in the hands of the engine, and    *)
(* with ASDUs in the buffers of the library or on the way.                 *)
(*                                                                         *)
(* One connection and one master.  A value is the number of the change it  *)
(* comes from.                                                             *)
(***************************************************************************)
EXTENDS Integers, Sequences, FiniteSetsExt, SequencesExt

CONSTANTS
    Points,        \* the points distributed to the connection
    Interrogated,  \* those whose group is not -1
    Types, Type,   \* destination types (with their common addresses), by point
    Inverted,      \* points with protocolDestinationKConv1 = -1
    Unknown,       \* the master has no value yet
    MultiActive,   \* serverModeMultiActive
    BatchSize,     \* objects in an ASDU (30)
    MaxChanges,    \* bound: changes of realtimeData
    MaxDrops,      \* bound: times the master disconnects
    MaxFaults      \* bound: failed sends and queries, broken streams

ASSUME PointAssumption ==
    /\ Interrogated \subseteq Points /\ Inverted \subseteq Points
    /\ Type \in [Points -> Types] /\ MultiActive \in BOOLEAN
ASSUME BoundAssumption ==
    /\ BatchSize \in Nat \ {0}
    /\ MaxChanges \in Nat /\ MaxDrops \in Nat /\ MaxFaults \in Nat

VARIABLES
    db,        \* value of each point in realtimeData
    open,      \* the change stream is open
    events,    \* changed points the stream has still to bring
    outQ,      \* objects queued for sending
    turn,      \* RunDequeueLoop: "check" for a master, "pop", or "send"
    batch,     \* the objects popped
    session,   \* a master is connected
    answer,    \* ASDUs still to be sent to the interrogation being answered
    link,      \* ASDUs in the buffers of the session and on their way
    view,      \* what the master shows
    seen,      \* history: a master was there when it was checked
    lost,      \* history: points of Reported whose value was lost on its way
    changes, drops, faults    \* budgets

vars == <<db, open, events, outQ, turn, batch, session, answer, link, view,
          seen, lost, changes, drops, faults>>

budgets == <<changes, drops, faults>>

Object(p, v) == [point |-> p, value |-> v]

\* Points that no interrogation reads depend on their events.
Reported == Points \ Interrogated

\* Of these, the points of which objs has the last value.
current(objs) ==
    {p \in Reported : Object(p, db[p]) \in ToSet(objs)}

\* The confirmation that terminates an interrogation.
ActivationTerm == <<>>

Init ==
    /\ db = [p \in Points |-> 0]
    /\ open = TRUE /\ events = <<>> /\ outQ = <<>>
    /\ turn = "check" /\ batch = <<>>
    /\ session = FALSE /\ answer = <<>> /\ link = <<>>
    /\ view = [p \in Points |-> Unknown]
    /\ seen = FALSE /\ lost = {}
    /\ changes = 0 /\ drops = 0 /\ faults = 0

Fault == faults < MaxFaults /\ faults' = faults + 1

-----------------------------------------------------------------------------
(* realtimeData, the change stream and the out-queue.                      *)

\* The data processor writes a point; only an open stream will tell.
Change(p) ==
    /\ changes < MaxChanges
    /\ changes' = changes + 1
    /\ db' = [db EXCEPT ![p] = changes + 1]
    /\ events' = IF open THEN Append(events, p) ELSE events
    /\ lost' = IF open \/ p \notin Reported THEN lost \ {p} ELSE lost \cup {p}
    /\ UNCHANGED <<open, outQ, turn, batch, session, answer, link, view, seen,
                   drops, faults>>

StreamBreaks ==
    /\ open /\ Fault
    /\ open' = FALSE
    /\ events' = <<>>
    /\ lost' = lost \cup (ToSet(events) \cap Reported)
    /\ UNCHANGED <<db, outQ, turn, batch, session, answer, link, view, seen,
                   changes, drops>>

\* The stream is opened again without a resume token.
StreamOpens ==
    /\ ~open
    /\ open' = TRUE
    /\ UNCHANGED <<db, events, outQ, turn, batch, session, answer, link, view,
                   seen, lost, budgets>>

\* infoQueue.push; no driver sets the limit of the queue.
push(q, o) == Append(q, o)

\* processPointUpdate: the document is the one looked up with the event, and
\* the object has its value without the factors of the destination.
ProcessPointUpdate ==
    /\ events # <<>>
    /\ outQ' = push(outQ, Object(Head(events), db[Head(events)]))
    /\ events' = Tail(events)
    /\ UNCHANGED <<db, open, turn, batch, session, answer, link, view, seen,
                   lost, budgets>>

\* infoQueue.popBatch: the head and what follows with its type and address.
batchLength(q) ==
    CHOOSE n \in 1 .. Len(q) :
        /\ n <= BatchSize
        /\ \A i \in 1 .. n : Type[q[i].point] = Type[q[1].point]
        /\ n = Len(q) \/ n = BatchSize \/ Type[q[n + 1].point] # Type[q[1].point]

\* Mutant: the queue is emptied whether a master is there or not.
sendsAlways == TRUE

\* Without serverModeMultiActive, events are held while no master is connected.
sends == MultiActive \/ session

\* RunDequeueLoop: the connection is skipped or, at this moment, has a master
\* (a check before anything is queued could as well have been made after),
CheckSession ==
    /\ turn = "check" /\ outQ # <<>> /\ sends
    /\ turn' = "pop"
    /\ seen' = session
    /\ UNCHANGED <<db, open, events, outQ, batch, session, answer, link, view,
                   lost, budgets>>

\* a batch is taken off the queue,
PopBatch ==
    /\ turn = "pop"
    /\ turn' = "send"
    /\ LET n == batchLength(outQ)
       IN  /\ batch' = SubSeq(outQ, 1, n)
           /\ outQ' = SubSeq(outQ, n + 1, Len(outQ))
    /\ UNCHANGED <<db, open, events, session, answer, link, view, seen, lost,
                   budgets>>

\* and handed to the sessions there are, which may be none; an error is only
\* logged.
SendBatch ==
    /\ turn = "send"
    /\ turn' = "check" /\ batch' = <<>> /\ seen' = FALSE
    /\ \/ /\ link' = IF session THEN Append(link, batch) ELSE link
          /\ lost' = IF ~session /\ seen THEN lost \cup current(batch)
                     ELSE lost
          /\ UNCHANGED faults
       \/ /\ Fault
          /\ lost' = lost \cup current(batch)
          /\ UNCHANGED link
    /\ UNCHANGED <<db, open, events, outQ, session, answer, view, changes, drops>>

-----------------------------------------------------------------------------
(* The master and its interrogations.                                      *)

Connect ==
    /\ ~session
    /\ session' = TRUE
    /\ UNCHANGED <<db, open, events, outQ, turn, batch, answer, link, view,
                   seen, lost, budgets>>

\* What the session had buffered is gone, and what is still sent in answer to
\* its interrogation reaches nobody.
Disconnect ==
    /\ session /\ drops < MaxDrops
    /\ drops' = drops + 1
    /\ session' = FALSE
    /\ link' = <<>> /\ answer' = <<>>
    /\ lost' = lost \cup current(FlattenSeq(link))
    /\ UNCHANGED <<db, open, events, outQ, turn, batch, view, seen, changes,
                   faults>>

\* The master takes the objects of the next ASDU in their order.
Arrive ==
    /\ link # <<>>
    /\ link' = Tail(link)
    /\ view' = FoldLeft(LAMBDA v, o : [v EXCEPT ![o.point] = o.value],
                        view, Head(link))
    /\ UNCHANGED <<db, open, events, outQ, turn, batch, session, answer, seen,
                   lost, budgets>>

\* BuildInfoObj with the factors of the destination.
converted(p, v) == IF p \in Inverted THEN -v ELSE v

\* Mutant: a batch is not broken where the type changes.
BatchesMixed(points) == <<SetToSeq(points)>>

\* The documents ordered by type, in batches of one type and at most BatchSize.
Batches(points) ==
    LET ofType(t) == SetToSeq({p \in points : Type[p] = t})
        chunks(s) == [k \in 1 .. (Len(s) + BatchSize - 1) \div BatchSize |->
                        SubSeq(s, (k - 1) * BatchSize + 1,
                               Min({k * BatchSize, Len(s)}))]
        used == SetToSeq({Type[p] : p \in points})
    IN  FlattenSeq([i \in DOMAIN used |-> chunks(ofType(used[i]))])

\* A general interrogation: the points but those of group -1.
answerBatches == Batches(Interrogated)

\* Their objects, with the values that the query found.
objects(batches) ==
    [k \in DOMAIN batches |->
       [i \in DOMAIN batches[k] |->
          LET p == batches[k][i] IN Object(p, converted(p, db[p]))]]

\* The master asks when the last interrogation is terminated.
asks == session /\ answer = <<>> /\ ActivationTerm \notin ToSet(link)

\* Interrogation: the query, and the positive confirmation.
Interrogation ==
    /\ asks
    /\ answer' = Append(objects(answerBatches), ActivationTerm)
    /\ UNCHANGED <<db, open, events, outQ, turn, batch, session, link, view,
                   seen, lost, budgets>>

\* The query fails and the master gets a negative confirmation: nothing is sent.
InterrogationFails ==
    /\ asks /\ Fault
    /\ UNCHANGED <<db, open, events, outQ, turn, batch, session, answer, link,
                   view, seen, lost, changes, drops>>

\* Mutant: the flush after the loop is missing.
FlushAllButLast ==
    /\ answer # <<>>
    /\ answer' = Tail(answer)
    /\ link' = IF Len(answer) = 2 THEN link ELSE Append(link, Head(answer))
    /\ UNCHANGED <<db, open, events, outQ, turn, batch, session, view, seen,
                   lost, budgets>>

\* flush: the next ASDU is sent to the session that asked; an error is only
\* logged.
Flush ==
    /\ answer # <<>>
    /\ answer' = Tail(answer)
    /\ \/ link' = Append(link, Head(answer)) /\ UNCHANGED faults
       \/ Fault /\ UNCHANGED link
    /\ UNCHANGED <<db, open, events, outQ, turn, batch, session, view, seen,
                   lost, changes, drops>>

Next ==
    \/ \E p \in Points : Change(p)
    \/ StreamBreaks \/ StreamOpens \/ ProcessPointUpdate
    \/ CheckSession \/ PopBatch \/ SendBatch
    \/ Connect \/ Disconnect \/ Arrive
    \/ Interrogation \/ InterrogationFails \/ Flush

\* The three goroutines go on (of each, at most one action is enabled), what
\* is buffered arrives, and the master reconnects.
Fairness ==
    /\ WF_vars(StreamOpens \/ ProcessPointUpdate)
    /\ WF_vars(CheckSession \/ PopBatch \/ SendBatch)
    /\ WF_vars(Interrogation \/ Flush)
    /\ WF_vars(Connect) /\ WF_vars(Arrive)

Spec == Init /\ [][Next]_vars /\ Fairness

-----------------------------------------------------------------------------
(* Properties.                                                             *)

Queued == [point : Points, value : 0 .. MaxChanges]

\* Types; an ASDU has objects of one type only, and one is in hand exactly
\* while it is being sent.
TypeOK ==
    /\ db \in [Points -> 0 .. MaxChanges]
    /\ view \in [Points -> {Unknown} \cup (-MaxChanges .. MaxChanges)]
    /\ open \in BOOLEAN /\ session \in BOOLEAN /\ seen \in BOOLEAN
    /\ turn \in {"check", "pop", "send"} /\ (turn = "send") = (batch # <<>>)
    /\ ToSet(events) \subseteq Points
    /\ ToSet(outQ) \cup ToSet(batch) \subseteq Queued /\ lost \subseteq Reported
    /\ \A b \in ToSet(answer) \cup ToSet(link) \cup {batch} :
          \A i, j \in DOMAIN b : Type[b[i].point] = Type[b[j].point]

\* Points that no interrogation reads depend on their events.  Where events
\* are held for an absent master, it comes to show the last value of each,
\* however often it was away and whatever else was lost, unless just this
\* value was (RunDequeueLoop): by a failed send or a broken stream, or when
\* the master left with it in the buffers of its session, or between the
\* check that found it there and the send.
EventsNotLost ==
    ~MultiActive =>
      <>[](\A p \in Reported :
             \/ db[p] \in {0, view[p]}
             \/ p \in lost)

\* Whatever events were lost, and although queued events and reads made
\* before a change can overtake an answer, the interrogations bring the
\* master the values of realtimeData (Interrogation).
InterrogationRepairs ==
    <>[](\A p \in Interrogated : view[p] = converted(p, db[p]))
=============================================================================

------------------------- MODULE OneWayReplication -------------------------
(***************************************************************************)
(* One-way replication over UDP: mongofw on the source side and mongowr on *)
(* the destination side (customized_module.js of both).  The sender        *)
(* forwards the changes written by drivers, sweeps the whole point list    *)
(* every hour, and keeps the changes it forwarded to replay them; the      *)
(* receiver has no way to answer.                                          *)
(*                                                                         *)
(* A value is the number of the update it comes from.  The counter of      *)
(* messages is represented by its gaps: a packet carries how many numbers  *)
(* before it the receiver will miss.                                       *)
(***************************************************************************)
EXTENDS Integers, Sequences, SequencesExt

CONSTANTS
    Points,
    Large,        \* points whose documents and changes exceed MAX_LENGTH_JSON
    None,         \* no document
    MaxPacket,    \* changes in a packet (PACKET_SIZE_THRESHOLD)
    MaxQueue,     \* MAX_QUEUE of the receiver
    MaxMsgSeq,    \* MAX_MSG_SEQ of the receiver
    MaxUpdates,   \* bound: updates written by drivers
    MaxFaults     \* bound: deliveries, packets and writes that fail, full queues

ASSUME PointAssumption == Large \subseteq Points
ASSUME NoneAssumption == None \notin Int
ASSUME BoundAssumption ==
    /\ MaxPacket \in Nat \ {0} /\ MaxQueue \in Nat /\ MaxMsgSeq \in Nat \ {0}
    /\ MaxUpdates \in Nat /\ MaxFaults \in Nat

VARIABLES
    src,          \* realtimeData of the source: value of each point
    todo,         \* the updates its data processor has not come to
    feed,         \* change stream of the source, not yet delivered
    sweep,        \* documents the integrity cursor has yet to bring
    chgQueue,     \* changes to send
    backQueue, backfill,   \* backfillQueue, collection backfillData
    net, gap,     \* packets on the way; numbers missing before the next one
    msgQueue,     \* packets received
    started,      \* a message was processed: cntChg # -1
    cntLost,      \* the receiver's count of lost messages
    dst,          \* realtimeData of the destination
    history,      \* the updates its historian recorded: <<point, value>>
    \* History and budgets:
    dropped,      \* changes whose numbers the receiver missed after its first
    updates, faults

sender == <<feed, sweep, chgQueue, backQueue, backfill>>
documents == <<dst, history>>
receiver == <<msgQueue, started, cntLost, documents, gap>>
vars == <<src, todo, sender, net, receiver, dropped, updates, faults>>

Init ==
    /\ src = [p \in Points |-> 0]
    /\ todo = <<>> /\ feed = <<>> /\ sweep = {} /\ chgQueue = <<>>
    /\ backQueue = <<>> /\ backfill = <<>>
    /\ net = <<>> /\ gap = 0 /\ msgQueue = <<>> /\ started = FALSE /\ cntLost = 0
    /\ dst = [p \in Points |-> None] /\ history = {}
    /\ dropped = 0 /\ updates = 0 /\ faults = 0

Fault == faults < MaxFaults /\ faults' = faults + 1

\* The sum of the numbers of s.
Total(s) ==
    LET sum[n \in 0 .. Len(s)] == IF n = 0 THEN 0 ELSE sum[n - 1] + s[n]
    IN  sum[Len(s)]

\* The elements of s that are in S, in their order.
Among(s, S) ==
    LET chosen[n \in 0 .. Len(s)] ==
          IF n = 0 THEN <<>>
          ELSE IF s[n] \in S THEN Append(chosen[n - 1], s[n]) ELSE chosen[n - 1]
    IN  chosen[Len(s)]

-----------------------------------------------------------------------------
(* The source (external): a driver writes an update; its data processor    *)
(* works it into the document later.                                       *)

DriverUpdate(p) ==
    /\ updates < MaxUpdates
    /\ updates' = updates + 1
    /\ todo' = Append(todo, <<p, updates + 1>>)
    /\ feed' = Append(feed, <<p, updates + 1>>)
    /\ UNCHANGED <<src, sweep, chgQueue, backQueue, backfill, net, receiver,
                   dropped, faults>>

SourceProcesses ==
    /\ todo # <<>>
    /\ src' = [src EXCEPT ![Head(todo)[1]] = Head(todo)[2]]
    /\ todo' = Tail(todo)
    /\ UNCHANGED <<sender, net, receiver, dropped, updates, faults>>

-----------------------------------------------------------------------------
(* mongofw.                                                                *)

\* A queued change: tagged if its fullDocument has the tag, historical if it is
\* a replay.
Item == [op : {"update", "integrity"}, point : Points, value : 0 .. MaxUpdates,
         tagged : BOOLEAN, historical : BOOLEAN]

change(op, p, v) ==
    [op |-> op, point |-> p, value |-> v, tagged |-> TRUE, historical |-> FALSE]

\* The change stream delivers an update.
OnChange ==
    /\ feed # <<>>
    /\ chgQueue' = Append(chgQueue,
                           change("update", Head(feed)[1], Head(feed)[2]))
    /\ feed' = Tail(feed)
    /\ UNCHANGED <<src, todo, sweep, backQueue, backfill, net, receiver, dropped,
                   updates, faults>>

\* The process is not active, not connected, or the stream was reopened.
ChangeMissed ==
    /\ feed # <<>> /\ Fault
    /\ feed' = Tail(feed)
    /\ UNCHANGED <<src, todo, sweep, chgQueue, backQueue, backfill, net, receiver,
                   dropped, updates>>

\* After an hour everything queued has long been sent and has arrived.
Sent == sweep = {} /\ chgQueue = <<>> /\ net = <<>>

\* enqueueDbSync begins.
BeginSync ==
    /\ Sent
    /\ sweep' = Points
    /\ UNCHANGED <<src, todo, feed, chgQueue, backQueue, backfill, net, receiver,
                   dropped, updates, faults>>

\* The cursor brings a document, without its sourceDataUpdate; one that is too
\* large is ignored.
SyncDocument(p) ==
    /\ p \in sweep
    /\ sweep' = sweep \ {p}
    /\ chgQueue' = IF p \in Large THEN chgQueue
                   ELSE Append(chgQueue, change("integrity", p, src[p]))
    /\ UNCHANGED <<src, todo, feed, backQueue, backfill, net, receiver, dropped,
                   updates, faults>>

\* Mutant: nothing is too large to be sent.
fitsAlways(i) == TRUE

\* chgLen is within MAX_LENGTH_JSON.
fits(i) == i.point \notin Large

\* Mutant: replayed changes are kept for another replay.
backfilledAgain(i) == i.op = "update"

backfilled(i) == i.op = "update" /\ ~i.historical

\* The changes that go into a packet, and of these the ones that are kept.
Fitting == {i \in Item : fits(i)}
Kept == {i \in Fitting : backfilled(i)}

\* Mutant: the number of a discarded change is not given back.
gapOfDiscarded(n) == n

\* cntChg-- for a discarded change: the receiver misses no number.
gapOf(n) == 0

\* dequeueChangesSend: a packet of the next changes is sent; changes too large
\* are discarded, and updates that are no replay are kept for one.
Send(k) ==
    LET batch == SubSeq(chgQueue, 1, k)
        fwArr == Among(batch, Fitting)
    IN  /\ k \in 1 .. Len(chgQueue)
        /\ chgQueue' = SubSeq(chgQueue, k + 1, Len(chgQueue))
        /\ backQueue' = backQueue \o Among(batch, Kept)
        /\ net' = Append(net, [items |-> fwArr, gap |-> gapOf(k - Len(fwArr))])
        /\ UNCHANGED <<src, todo, feed, sweep, backfill, receiver, dropped,
                       updates, faults>>

\* backfillDequeue: into the collection, with writes nobody confirms.
BackfillDequeue ==
    /\ backQueue # <<>>
    /\ backQueue' = <<>>
    /\ \/ backfill' = backfill \o backQueue /\ UNCHANGED faults
       \/ Fault /\ UNCHANGED backfill
    /\ UNCHANGED <<src, todo, feed, sweep, chgQueue, net, receiver, dropped, updates>>

\* replayBackfill: the kept changes are queued again, marked as historical.  A
\* kept change has its tag, but not in fullDocument, where the next sending
\* looks for it: it goes out without one.
ReplayBackfill ==
    /\ Sent /\ backfill # <<>>
    /\ chgQueue' = [j \in DOMAIN backfill |->
                      [backfill[j] EXCEPT !.tagged = FALSE, !.historical = TRUE]]
    /\ UNCHANGED <<src, todo, feed, sweep, backQueue, backfill, net, receiver,
                   dropped, updates, faults>>

-----------------------------------------------------------------------------
(* The network and mongowr.                                                *)

\* A packet arrives; an empty one has no numbers and changes nothing.  The
\* receiver falls behind MaxQueue messages at most MaxFaults times.
Receive ==
    LET m == Head(net)
    IN  /\ net # <<>>
        /\ net' = Tail(net)
        /\ IF Len(msgQueue) < MaxQueue THEN UNCHANGED faults ELSE Fault
        /\ \/ /\ m.items = <<>>
              /\ gap' = gap + m.gap
              /\ UNCHANGED msgQueue
           \/ /\ m.items # <<>>
              /\ msgQueue' = Append(msgQueue, [m EXCEPT !.gap = @ + gap])
              /\ gap' = 0
        /\ UNCHANGED <<src, todo, sender, started, cntLost, documents, dropped,
                       updates>>

\* The packet is lost, or the receiver is not active or not connected.
Lose ==
    /\ net # <<>> /\ Fault
    /\ net' = Tail(net)
    /\ gap' = gap + Head(net).gap + Len(Head(net).items)
    /\ dropped' = IF started \/ msgQueue # <<>>
                  THEN dropped + Len(Head(net).items) ELSE dropped
    /\ UNCHANGED <<src, todo, sender, msgQueue, started, cntLost, documents, updates>>

\* procQueue finds too many messages and empties the queue.
ClearQueue ==
    LET sizes == [j \in DOMAIN msgQueue |-> Len(msgQueue[j].items)]
        gaps == [j \in DOMAIN msgQueue |-> msgQueue[j].gap]
    IN  /\ Len(msgQueue) > MaxQueue
        /\ msgQueue' = <<>>
        /\ gap' = gap + Total(sizes) + Total(gaps)
        /\ dropped' = IF started THEN dropped + Total(sizes) ELSE 0
        /\ UNCHANGED <<src, todo, sender, net, started, cntLost, documents, updates,
                       faults>>

\* cnt - cntChg > 1: the count grows by the difference, one more than the gap.
\* Nothing is counted before the first message.
lostCounted(g, first) == IF g > 0 /\ ~first THEN g + 1 ELSE 0

\* Mutant: the integrity documents are not inserted.
upsertsNothing(i) == FALSE

\* An integrity document is upserted by its tag.
upserts(i) == i.op = "integrity"

\* The operations of the bulk that match the document of p: an integrity
\* document does, an update unless it goes without its tag.  A historical one
\* changes no value (the data processor of the destination only records it).
Matching(items, p) ==
    {i \in items : i.point = p /\ (upserts(i) \/ (i.tagged /\ ~i.historical))}

\* What the bulk leaves in the document of p, in whatever order it is worked
\* off: the value of the operation that comes last, except that updates alone
\* insert no document.
Outcomes(d, items, p) ==
    LET ops == Matching(items, p)
    IN  IF ops = {} \/ (d[p] = None /\ ~\E i \in ops : upserts(i))
        THEN {d[p]} ELSE {i.value : i \in ops}

\* The updates the historian of the destination records.
Recorded(d, items) ==
    {<<i.point, i.value>> : i \in {j \in items :
        j.op = "update" /\ j.tagged /\ d[j.point] # None}}

\* procQueue: up to MaxMsgSeq messages are taken, their losses counted, and
\* written in one bulk whose operations may run in any order, or fail, which
\* is only logged.
ProcQueue ==
    LET n == IF Len(msgQueue) < MaxMsgSeq THEN Len(msgQueue) ELSE MaxMsgSeq
        bulkOps == UNION {ToSet(msgQueue[j].items) : j \in 1 .. n}
        values == {dst[p] : p \in Points} \cup {i.value : i \in bulkOps}
        lost == [j \in 1 .. n |-> lostCounted(msgQueue[j].gap, j = 1 /\ ~started)]
    IN  /\ msgQueue # <<>> /\ Len(msgQueue) <= MaxQueue
        /\ msgQueue' = SubSeq(msgQueue, n + 1, Len(msgQueue))
        /\ cntLost' = cntLost + Total(lost)
        /\ started' = TRUE
        /\ \/ /\ \E written \in [Points -> values] :
                   /\ \A p \in Points : written[p] \in Outcomes(dst, bulkOps, p)
                   /\ dst' = written
              /\ history' = history \cup Recorded(dst', bulkOps)
              /\ UNCHANGED faults
           \/ Fault /\ UNCHANGED documents
        /\ UNCHANGED <<src, todo, sender, net, gap, dropped, updates>>

Next ==
    \/ \E p \in Points : DriverUpdate(p) \/ SyncDocument(p)
    \/ SourceProcesses \/ OnChange \/ ChangeMissed \/ BeginSync
    \/ \E k \in 1 .. MaxPacket : Send(k)
    \/ BackfillDequeue \/ ReplayBackfill
    \/ Receive \/ Lose \/ ClearQueue \/ ProcQueue

\* The timers of both processes go on, the network delivers what it does not
\* lose, and the data processor of the source works on.
Fairness ==
    /\ WF_vars(SourceProcesses) /\ WF_vars(OnChange)
    /\ SF_vars(BeginSync) /\ SF_vars(ReplayBackfill)
    /\ \A p \in Points : WF_vars(SyncDocument(p))
    /\ WF_vars(\E k \in 1 .. MaxPacket : Send(k)) /\ WF_vars(BackfillDequeue)
    /\ WF_vars(Receive) /\ WF_vars(ClearQueue) /\ WF_vars(ProcQueue)

Spec == Init /\ [][Next]_vars /\ Fairness

-----------------------------------------------------------------------------
(* Properties.                                                             *)

\* Types; what is kept for the replay are updates, and none of a point that
\* is too large to be sent.
TypeOK ==
    /\ src \in [Points -> 0 .. MaxUpdates]
    /\ dst \in [Points -> {None} \cup 0 .. MaxUpdates]
    /\ sweep \subseteq Points
    /\ \A i \in ToSet(backQueue \o backfill) :
         i.op = "update" /\ i.point \notin Large
    /\ \A m \in ToSet(net \o msgQueue) : Len(m.items) <= MaxPacket
    /\ started \in BOOLEAN /\ updates \in 0 .. MaxUpdates /\ faults \in 0 .. MaxFaults

\* Replays do not feed the backfill they come from: it never holds more than
\* one entry for each update the drivers wrote.
BackfillBounded == Len(backQueue) + Len(backfill) <= updates

\* The receiver reports lost messages only if some were lost, and once it is
\* up to date it has reported all of them (one too many for each gap).
LossReported ==
    /\ cntLost <= 2 * dropped
    /\ started /\ net = <<>> /\ msgQueue = <<>> /\ gap = 0 => cntLost >= dropped

\* When the drivers pause, the destination comes to show the values of the
\* source for every point that can be sent, whatever was lost, written in the
\* wrong order, or read by the sweep before the data processor had it.
CatchesUp == <>[](\A p \in Points \ Large : dst[p] = src[p])

-----------------------------------------------------------------------------
(* A statement of the documentation that the code breaks.                  *)

\* "The changes are replayed periodically so a destination that was offline
\* catches up" (mongofw/README.md:21): every update kept for the replay is
\* recorded at the destination in the end.
ReplayRecorded ==
    <>[](\A i \in ToSet(backfill) : <<i.point, i.value>> \in history)
=============================================================================

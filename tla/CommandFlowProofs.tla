------------------------- MODULE CommandFlowProofs -------------------------
(***************************************************************************)
(* TLAPS proofs about CommandFlow, for any finite set of requests and any  *)
(* number of faults: types and the refusal of old commands for every set;  *)
(* the rest, and the refinement of CommandContract, where the requests do  *)
(* not meet on an object.                                                  *)
(***************************************************************************)
EXTENDS CommandFlow, SequenceTheorems, FiniteSetTheorems, TLAPS

-----------------------------------------------------------------------------
(* Sequences by their elements.                                            *)

\* What is left after the first element.
LEMMA TailElements ==
    ASSUME NEW S, NEW s \in Seq(S), s # <<>>
    PROVE  /\ Tail(s) \in Seq(S) /\ Len(Tail(s)) = Len(s) - 1
           /\ DOMAIN Tail(s) = 1 .. Len(s) - 1
           /\ \A i \in 1 .. Len(s) - 1 : Tail(s)[i] = s[i + 1]
           /\ Len(s) \in Nat \ {0} /\ DOMAIN s = 1 .. Len(s)
           /\ Head(s) = s[1] /\ Head(s) \in S
<1>1. Len(s) \in Nat \ {0} /\ DOMAIN s = 1 .. Len(s)
  BY EmptySeq, LenProperties
<1>2. /\ Tail(s) \in Seq(S) /\ Len(Tail(s)) = Len(s) - 1 /\ Head(s) \in S
      /\ \A i \in 1 .. Len(Tail(s)) : Tail(s)[i] = s[i + 1]
  BY HeadTailProperties
<1>3. DOMAIN Tail(s) = 1 .. Len(s) - 1
  BY <1>2, LenProperties
<1>4. Head(s) = s[1]
  OBVIOUS
<1> QED BY <1>1, <1>2, <1>3, <1>4

\* What there is after one more element.
LEMMA AppendElements ==
    ASSUME NEW S, NEW s \in Seq(S), NEW e \in S
    PROVE  /\ Append(s, e) \in Seq(S) /\ Len(Append(s, e)) = Len(s) + 1
           /\ DOMAIN Append(s, e) = 1 .. Len(s) + 1
           /\ \A i \in 1 .. Len(s) + 1 :
                Append(s, e)[i] = IF i <= Len(s) THEN s[i] ELSE e
           /\ Len(s) \in Nat /\ DOMAIN s = 1 .. Len(s)
<1>1. Len(s) \in Nat /\ DOMAIN s = 1 .. Len(s)
  BY LenProperties
<1>2. /\ Append(s, e) \in Seq(S) /\ Len(Append(s, e)) = Len(s) + 1
      /\ \A i \in 1 .. Len(s) : Append(s, e)[i] = s[i]
      /\ Append(s, e)[Len(s) + 1] = e
  BY AppendProperties
<1>3. DOMAIN Append(s, e) = 1 .. Len(s) + 1
  BY <1>2, LenProperties
<1>4. ASSUME NEW i \in 1 .. Len(s) + 1
      PROVE  Append(s, e)[i] = IF i <= Len(s) THEN s[i] ELSE e
  BY <1>1, <1>2
<1> QED BY <1>1, <1>2, <1>3, <1>4

\* The elements of a longer and of a shorter sequence.
LEMMA AppendMember ==
    ASSUME NEW S, NEW s \in Seq(S), NEW e \in S, NEW t, t = Append(s, e)
    PROVE  /\ t \in Seq(S)
           /\ \A i \in 1 .. Len(t) : t[i] = e \/ \E j \in 1 .. Len(s) : t[i] = s[j]
<1>1. /\ t \in Seq(S) /\ Len(t) = Len(s) + 1 /\ Len(s) \in Nat
      /\ \A i \in 1 .. Len(s) + 1 : t[i] = IF i <= Len(s) THEN s[i] ELSE e
  BY AppendElements
<1> QED BY <1>1

\* What is left of a sequence was in it.
LEMMA TailMember ==
    ASSUME NEW S, NEW s \in Seq(S), s # <<>>, NEW t, t = Tail(s)
    PROVE  /\ t \in Seq(S)
           /\ \A i \in 1 .. Len(t) : \E j \in 1 .. Len(s) : t[i] = s[j]
<1>1. /\ t \in Seq(S) /\ Len(t) = Len(s) - 1 /\ Len(s) \in Nat \ {0}
      /\ \A i \in 1 .. Len(s) - 1 : t[i] = s[i + 1]
  BY TailElements
<1> QED BY <1>1

\* A sequence of two.
LEMMA TwoElements ==
    ASSUME NEW S, NEW c \in S, NEW d \in S
    PROVE  /\ <<c>> \in Seq(S) /\ <<d>> \in Seq(S)
           /\ <<c, d>> = <<c>> \o <<d>>
<1>1. <<c>> \in Seq(S) /\ Len(<<c>>) = 1 /\ <<c>>[1] = c
  OBVIOUS
<1>2. <<d>> \in Seq(S) /\ Len(<<d>>) = 1 /\ <<d>>[1] = d
  OBVIOUS
<1>3. /\ <<c, d>> \in Seq(S) /\ Len(<<c, d>>) = 2
      /\ <<c, d>>[1] = c /\ <<c, d>>[2] = d
  OBVIOUS
<1> DEFINE s == <<c>> \o <<d>>
<1>4. s \in Seq(S) /\ Len(s) = 2 /\ s[1] = c /\ s[2] = d
  BY <1>1, <1>2, ConcatProperties
<1> HIDE DEF s
<1>5. \A i \in 1 .. 2 : <<c, d>>[i] = s[i]
  BY <1>3, <1>4
<1>6. <<c, d>> = s
  BY <1>3, <1>4, <1>5, SeqEqual
<1> QED BY <1>1, <1>2, <1>6 DEF s

-----------------------------------------------------------------------------
(* Types.                                                                  *)

Entry == [req : Requests, old : BOOLEAN, delivered : BOOLEAN,
          ack : BOOLEAN \cup {None}, cancelled : BOOLEAN]
Addresses == {r.ca : r \in Requests}
Objects == {r.ioa : r \in Requests}
Order == [kind : {"select", "execute"}, ca : Addresses, ioa : Objects,
          value : {r.value : r \in Requests}, cmd : Nat]
Reply == [select : BOOLEAN, con : BOOLEAN, positive : BOOLEAN,
          ca : Addresses, ioa : Objects, cmd : Nat]
Answer == [ioa : Objects, ack : BOOLEAN, cmd : Nat]
Outcome == {"waiting", "good", "bad"}

\* The queue: an entry is untouched until the stream comes to it, and no two
\* are of one request.
QueueInv ==
    /\ queue \in Seq(Entry)
    /\ seen \in Seq(Outcome) /\ Len(seen) = Len(queue)
    /\ next \in 1 .. Len(queue) + 1
    /\ \A c \in 1 .. Len(queue) :
         /\ ~(queue[c].delivered /\ queue[c].cancelled)
         /\ c >= next => ~queue[c].delivered /\ ~queue[c].cancelled
    /\ \A c, d \in 1 .. Len(queue) : queue[c].req = queue[d].req => c = d

\* The line and the memory of the driver.
LineType ==
    /\ lastSelected \in Order \cup {None}
    /\ toStation \in Seq(Order) /\ executed \in Seq(Order)
    /\ fromStation \in Seq(Reply) /\ ackQ \in Seq(Answer)
    /\ faults \in 0 .. MaxFaults

\* The queue keeps its entries and their requests, and no command the stream
\* has passed is cancelled any more.
Kept ==
    /\ Len(queue) <= Len(queue')
    /\ \A c \in 1 .. Len(queue) : queue'[c].req = queue[c].req
    /\ \A c \in 1 .. next - 1 : queue'[c].cancelled => queue[c].cancelled

\* Every entry of the commandsQueue is of the declared shape.
LEMMA EntryType ==
    ASSUME QueueInv, NEW c \in 1 .. Len(queue)
    PROVE  queue[c] \in Entry
  BY ElementOfSeq DEF QueueInv

\* The step sets a field of an entry.
Marks(c, field) == queue' = [queue EXCEPT ![c][field] = TRUE]

\* An update of one field leaves the order and the confirmation of every
\* entry, and all other entries, alone.
LEMMA MarkedEntry ==
    ASSUME QueueInv, NEW c \in 1 .. Len(queue),
           NEW field \in {"old", "delivered", "cancelled"}, Marks(c, field)
    PROVE  /\ queue' \in Seq(Entry) /\ Len(queue') = Len(queue)
           /\ \A d \in 1 .. Len(queue) :
                /\ queue'[d].req = queue[d].req
                /\ queue'[d].ack = queue[d].ack
                /\ d # c => queue'[d] = queue[d]
           /\ queue'[c].delivered <=> (field = "delivered" \/ queue[c].delivered)
           /\ queue'[c].cancelled <=> (field = "cancelled" \/ queue[c].cancelled)
           /\ queue'[c].old <=> (field = "old" \/ queue[c].old)
<1> DEFINE e == [queue[c] EXCEPT ![field] = TRUE]
<1>1. queue[c] \in Entry
  BY EntryType
<1>2. e \in Entry
  BY <1>1 DEF Entry
<1>3. /\ e.req = queue[c].req /\ e.ack = queue[c].ack
      /\ e.delivered <=> (field = "delivered" \/ queue[c].delivered)
      /\ e.cancelled <=> (field = "cancelled" \/ queue[c].cancelled)
      /\ e.old <=> (field = "old" \/ queue[c].old)
  BY <1>1 DEF Entry
<1>4. queue' = [queue EXCEPT ![c] = e]
  BY Zenon DEF Marks
<1> HIDE DEF e
<1>5. /\ queue' \in Seq(Entry) /\ Len(queue') = Len(queue)
      /\ \A d \in 1 .. Len(queue) : queue'[d] = IF d = c THEN e ELSE queue[d]
  BY <1>2, <1>4, ExceptSeq DEF QueueInv
<1> QED BY <1>3, <1>5

\* The entry of a new command.
LEMMA InsertQueue ==
    ASSUME QueueInv, NEW r \in Requests, InsertCommand(r)
    PROVE  QueueInv' /\ Kept
<1> DEFINE e == [req |-> r, old |-> FALSE, delivered |-> FALSE, ack |-> None,
                 cancelled |-> FALSE]
<1>1. e \in Entry /\ e.req = r /\ ~e.delivered /\ ~e.cancelled
  BY DEF Entry
<1>2. queue' = Append(queue, e) /\ seen' = Append(seen, "waiting") /\ next' = next
  BY DEF InsertCommand, driver
<1>3. \A c \in 1 .. Len(queue) : queue[c].req # r
  <2>1. DOMAIN queue = 1 .. Len(queue)
    BY LenProperties DEF QueueInv
  <2> QED BY <2>1 DEF InsertCommand
<1> HIDE DEF e
<1>4. /\ queue' \in Seq(Entry) /\ Len(queue') = Len(queue) + 1
      /\ \A c \in 1 .. Len(queue) + 1 :
           queue'[c] = IF c <= Len(queue) THEN queue[c] ELSE e
      /\ Len(queue) \in Nat
  BY <1>1, <1>2, AppendElements DEF QueueInv
<1>5. seen' \in Seq(Outcome) /\ Len(seen') = Len(seen) + 1
  BY <1>2, AppendProperties DEF QueueInv, Outcome
<1>6. next' \in 1 .. Len(queue') + 1
  BY <1>2, <1>4 DEF QueueInv
<1>7. ASSUME NEW c \in 1 .. Len(queue')
      PROVE  /\ ~(queue'[c].delivered /\ queue'[c].cancelled)
             /\ c >= next' => ~queue'[c].delivered /\ ~queue'[c].cancelled
  BY <1>1, <1>2, <1>4, <1>7 DEF QueueInv
<1>8. ASSUME NEW c \in 1 .. Len(queue'), NEW d \in 1 .. Len(queue'),
             queue'[c].req = queue'[d].req
      PROVE  c = d
  BY <1>1, <1>3, <1>4, <1>8 DEF QueueInv
<1>9. Kept
  BY <1>4 DEF Kept, QueueInv
<1> QED BY <1>4, <1>5, <1>6, <1>7, <1>8, <1>9 DEF QueueInv

\* A step that leaves the outcomes of the queue alone, or sets one of the entry
\* the stream is at and moves on.
LEMMA FieldQueue ==
    ASSUME QueueInv, NEW c \in 1 .. Len(queue),
           NEW field \in {"old", "delivered", "cancelled"},
           Marks(c, field), seen' = seen,
           \/ field = "old" /\ next' = next
           \/ c = next /\ next' = next + 1
    PROVE  QueueInv' /\ Kept
<1>0. Len(queue) \in Nat
  BY LenProperties DEF QueueInv
<1>1. /\ queue' \in Seq(Entry) /\ Len(queue') = Len(queue)
      /\ \A d \in 1 .. Len(queue) :
           /\ queue'[d].req = queue[d].req
           /\ d # c => queue'[d] = queue[d]
      /\ queue'[c].delivered <=> (field = "delivered" \/ queue[c].delivered)
      /\ queue'[c].cancelled <=> (field = "cancelled" \/ queue[c].cancelled)
  BY MarkedEntry
<1>2. next' \in 1 .. Len(queue') + 1 /\ next \in Nat
  BY <1>0, <1>1 DEF QueueInv
<1>3. ASSUME NEW d \in 1 .. Len(queue')
      PROVE  /\ ~(queue'[d].delivered /\ queue'[d].cancelled)
             /\ d >= next' => ~queue'[d].delivered /\ ~queue'[d].cancelled
  <2>1. CASE d = c
    BY <1>1, <1>2, <2>1 DEF QueueInv
  <2>2. CASE d # c
    BY <1>0, <1>1, <1>2, <2>2 DEF QueueInv
  <2> QED BY <2>1, <2>2
<1>4. Kept
  <2>1. ASSUME NEW d \in 1 .. next - 1, queue'[d].cancelled
        PROVE  queue[d].cancelled
    <3>1. d \in 1 .. Len(queue)
      BY <1>0, <1>2 DEF QueueInv
    <3>2. CASE d # c
      BY <1>1, <2>1, <3>1, <3>2
    <3>3. CASE d = c
      BY <1>1, <1>2, <2>1, <3>3
    <3> QED BY <3>2, <3>3
  <2> QED BY <1>0, <1>1, <2>1 DEF Kept
<1> QED BY <1>1, <1>2, <1>3, <1>4 DEF QueueInv

\* The stream moves on over an unchanged queue.
LEMMA SameQueue ==
    ASSUME QueueInv, UNCHANGED <<queue, seen>>,
           next' \in next .. Len(queue) + 1
    PROVE  QueueInv' /\ Kept
<1>1. Len(queue) \in Nat
  BY LenProperties DEF QueueInv
<1> QED BY <1>1 DEF QueueInv, Kept

\* The display gets an outcome.
LEMMA PollQueue ==
    ASSUME QueueInv, NEW c \in 1 .. Len(queue), PollAck(c)
    PROVE  QueueInv' /\ Kept
<1> DEFINE o == IF queue[c].ack = TRUE THEN "good" ELSE "bad"
<1>1. o \in Outcome /\ seen' = [seen EXCEPT ![c] = o]
  BY DEF PollAck, Outcome
<1>2. UNCHANGED <<queue, next>> /\ Len(queue) \in Nat
  BY LenProperties DEF PollAck, driver, QueueInv
<1> HIDE DEF o
<1>3. seen' \in Seq(Outcome) /\ Len(seen') = Len(seen)
  BY <1>1, ExceptSeq DEF QueueInv
<1> QED BY <1>2, <1>3 DEF QueueInv, Kept

\* An acknowledgement is written.
LEMMA AckQueue ==
    ASSUME QueueInv, LineType, WriteAck
    PROVE  QueueInv' /\ Kept /\ Len(queue') = Len(queue)
<1>1. Len(queue) \in Nat /\ DOMAIN queue = 1 .. Len(queue)
  BY LenProperties DEF QueueInv
<1>2. Head(ackQ).ack \in BOOLEAN
  <2>1. Head(ackQ) \in Answer
    BY HeadTailProperties DEF WriteAck, LineType
  <2> QED BY <2>1 DEF Answer
<1>3. ASSUME NEW c \in 1 .. Len(queue)
      PROVE  /\ [queue[c] EXCEPT !.ack = Head(ackQ).ack] \in Entry
             /\ queue[c] \in Entry
  BY <1>2, EntryType DEF Entry
<1>4. /\ UNCHANGED <<seen, next>>
      /\ queue' = [c \in 1 .. Len(queue) |->
                     IF c \in acked(Head(ackQ))
                     THEN [queue[c] EXCEPT !.ack = Head(ackQ).ack] ELSE queue[c]]
  BY <1>1 DEF WriteAck, driver
<1>5. queue' \in [1 .. Len(queue) -> Entry]
  BY <1>3, <1>4
<1>6. queue' \in Seq(Entry) /\ Len(queue') = Len(queue)
  <2>1. queue' \in Seq(Entry)
    BY <1>1, <1>5
  <2>2. DOMAIN queue' = 1 .. Len(queue)
    BY <1>5
  <2> QED BY <1>1, <2>1, <2>2, LenProperties
<1>7. \A c \in 1 .. Len(queue) :
        /\ queue'[c].req = queue[c].req
        /\ queue'[c].delivered = queue[c].delivered
        /\ queue'[c].cancelled = queue[c].cancelled
  BY <1>3, <1>4 DEF Entry
<1> QED BY <1>4, <1>6, <1>7 DEF QueueInv, Kept

-----------------------------------------------------------------------------
(* What is on the line comes from commands the stream has passed.          *)

\* m is of a command before entry n of q, and of its object.
Ref(q, n, m) == m.cmd \in 1 .. n - 1 /\ m.ioa = q[m.cmd].req.ioa

\* A select, its stored execute and its confirmation are of a command that
\* asks for a select.
RefInv ==
    /\ lastSelected # None =>
         /\ Ref(queue, next, lastSelected) /\ lastSelected.kind = "execute"
         /\ queue[lastSelected.cmd].req.sbo
    /\ \A i \in 1 .. Len(toStation) :
         /\ Ref(queue, next, toStation[i])
         /\ toStation[i].kind = "select" => queue[toStation[i].cmd].req.sbo
    /\ \A i \in 1 .. Len(executed) : Ref(queue, next, executed[i])
    /\ \A i \in 1 .. Len(fromStation) :
         /\ Ref(queue, next, fromStation[i])
         /\ fromStation[i].select => queue[fromStation[i].cmd].req.sbo
    /\ \A i \in 1 .. Len(ackQ) : Ref(queue, next, ackQ[i])

FlowInv == QueueInv /\ LineType /\ RefInv

\* The driver never goes back in the queue.
Moves == QueueInv' /\ Kept /\ next <= next'

\* A message that refers to an entry still does after a step that only moves
\* the driver forward.
LEMMA RefKept ==
    ASSUME QueueInv, Moves, NEW m
    PROVE  /\ Ref(queue, next, m) => Ref(queue', next', m)
           /\ Ref(queue, next, m) /\ queue[m.cmd].req.sbo => queue'[m.cmd].req.sbo
<1>1. Len(queue) \in Nat /\ Len(queue') \in Nat
  BY LenProperties DEF QueueInv, Moves
<1> QED BY <1>1 DEF QueueInv, Moves, Kept, Ref

\* A fault that is counted.
LEMMA FaultType ==
    ASSUME LineType, Fault \/ UNCHANGED faults
    PROVE  faults' \in 0 .. MaxFaults
  BY FaultsAssumption DEF LineType, Fault

\* A step that leaves the line and the stored execute alone.
LEMMA LineKept ==
    ASSUME FlowInv, Moves, UNCHANGED <<lastSelected, line, ackQ, executed>>,
           Fault \/ UNCHANGED faults
    PROVE  FlowInv'
<1>1. LineType'
  BY FaultType DEF FlowInv, LineType, line
<1>2. RefInv'
  BY RefKept DEF FlowInv, RefInv, line
<1> QED BY <1>1, <1>2 DEF FlowInv, Moves

\* What is sent for a command.
LEMMA AsduType ==
    ASSUME QueueInv, next \in 1 .. Len(queue), NEW kind \in {"select", "execute"}
    PROVE  LET m == asdu(kind, queue[next].req, next)
           IN  /\ m \in Order
               /\ m.cmd = next /\ m.kind = kind
               /\ m.ioa = queue[next].req.ioa /\ m.ca = queue[next].req.ca
               /\ m.value = queue[next].req.value
<1>1. Len(queue) \in Nat /\ queue[next].req \in Requests /\ next \in Nat
  BY LenProperties, EntryType DEF QueueInv, Entry
<1>2. /\ queue[next].req.ca \in Addresses /\ queue[next].req.ioa \in Objects
      /\ queue[next].req.value \in {r.value : r \in Requests}
  BY <1>1 DEF Addresses, Objects
<1> QED BY <1>1, <1>2 DEF asdu, Order

\* The moves of the stream, and what is written to the entry it is at.
LEMMA DeliveredMoves ==
    ASSUME QueueInv, Delivered,
           \/ UNCHANGED queue
           \/ \E field \in {"delivered", "cancelled"} : Marks(next, field)
    PROVE  next \in 1 .. Len(queue) /\ next' = next + 1 /\ Moves
<1>1. Len(queue) \in Nat /\ next \in 1 .. Len(queue) /\ next' = next + 1 /\ seen' = seen
  BY LenProperties DEF QueueInv, Delivered
<1>2. CASE UNCHANGED queue
  BY <1>1, <1>2, SameQueue DEF Moves
<1>3. CASE \E field \in {"delivered", "cancelled"} : Marks(next, field)
  BY <1>1, <1>3, FieldQueue DEF Moves
<1> QED BY <1>1, <1>2, <1>3

\* A command is sent, or sending it fails.
LEMMA SendFlow ==
    ASSUME FlowInv, SendCommand \/ SendFails
    PROVE  FlowInv' /\ Moves
<1> DEFINE r == queue[next].req
           kind == IF r.sbo THEN "select" ELSE "execute"
           m == asdu(kind, r, next)
           x == asdu("execute", r, next)
<1>1. Delivered /\ UNCHANGED <<fromStation, ackQ, executed>>
  BY DEF SendCommand, SendFails, Delivered, line
<1>2. lastSelected' = IF r.sbo THEN x ELSE lastSelected
  BY DEF SendCommand, SendFails
<1>3. toStation' = toStation \/ toStation' = Append(toStation, m)
  BY DEF SendCommand, SendFails, line
<1>4. /\ \/ UNCHANGED queue
         \/ \E field \in {"delivered", "cancelled"} : Marks(next, field)
      /\ Fault \/ UNCHANGED faults
  BY Zenon DEF SendCommand, SendFails, setResult, Marks
<1>5. next \in 1 .. Len(queue) /\ next' = next + 1 /\ Moves
  BY <1>1, <1>4, DeliveredMoves DEF FlowInv
<1>6. /\ m \in Order /\ m.cmd = next /\ m.ioa = r.ioa
      /\ m.kind = "select" => r.sbo
  BY <1>5, AsduType DEF FlowInv
<1>7. x \in Order /\ x.cmd = next /\ x.kind = "execute" /\ x.ioa = r.ioa
  BY <1>5, AsduType DEF FlowInv
<1>8. queue'[next].req = r /\ next \in 1 .. next' - 1
  BY <1>5, LenProperties DEF Moves, Kept, FlowInv, QueueInv
<1> HIDE DEF m, x, r
<1>9. /\ toStation' \in Seq(Order)
      /\ \A i \in 1 .. Len(toStation') :
           toStation'[i] = m \/ \E j \in 1 .. Len(toStation) : toStation'[i] = toStation[j]
  <2>1. CASE toStation' = toStation
    BY <2>1 DEF FlowInv, LineType
  <2>2. CASE toStation' = Append(toStation, m)
    BY <1>6, <2>2, AppendMember DEF FlowInv, LineType
  <2> QED BY <1>3, <2>1, <2>2
<1>10. LineType'
  BY <1>1, <1>2, <1>4, <1>7, <1>9, FaultType DEF FlowInv, LineType
<1>11. Ref(queue', next', m) /\ Ref(queue', next', x)
  BY <1>6, <1>7, <1>8 DEF Ref
<1>12. lastSelected' # None =>
         /\ Ref(queue', next', lastSelected') /\ lastSelected'.kind = "execute"
         /\ queue'[lastSelected'.cmd].req.sbo
  BY <1>2, <1>5, <1>7, <1>8, <1>11, RefKept DEF FlowInv, RefInv
<1>13. \A i \in 1 .. Len(toStation') :
         /\ Ref(queue', next', toStation'[i])
         /\ toStation'[i].kind = "select" => queue'[toStation'[i].cmd].req.sbo
  <2> TAKE i \in 1 .. Len(toStation')
  <2>1. CASE toStation'[i] = m
    BY <1>6, <1>8, <1>11, <2>1
  <2>2. CASE \E j \in 1 .. Len(toStation) : toStation'[i] = toStation[j]
    <3>1. PICK j \in 1 .. Len(toStation) : toStation'[i] = toStation[j]
      BY <2>2
    <3>2. /\ Ref(queue, next, toStation[j])
          /\ toStation[j].kind = "select" => queue[toStation[j].cmd].req.sbo
      BY DEF FlowInv, RefInv
    <3> QED BY <1>5, <3>1, <3>2, RefKept DEF FlowInv
  <2> QED BY <1>9, <2>1, <2>2
<1>14. RefInv'
  BY <1>1, <1>5, <1>12, <1>13, RefKept DEF FlowInv, RefInv
<1> QED BY <1>5, <1>10, <1>14 DEF FlowInv, Moves

\* Nothing moves in the queue.
LEMMA StandingMoves ==
    ASSUME QueueInv, UNCHANGED <<queue, next, seen>>
    PROVE  Moves
<1>1. Len(queue) \in Nat
  BY LenProperties DEF QueueInv
<1> QED BY <1>1 DEF QueueInv, Moves, Kept

\* The confirmation of a message of the line.
LEMMA ReplyType ==
    ASSUME FlowInv, toStation # <<>>, NEW positive \in BOOLEAN
    PROVE  LET m == con(Head(toStation), positive)
           IN  /\ m \in Reply /\ [m EXCEPT !.con = FALSE] \in Reply
               /\ Ref(queue, next, m)
               /\ m.select => queue[m.cmd].req.sbo
               /\ m.cmd = Head(toStation).cmd /\ m.positive = positive
<1>1. /\ Head(toStation) \in Order /\ Ref(queue, next, Head(toStation))
      /\ Head(toStation).kind = "select" => queue[Head(toStation).cmd].req.sbo
  BY TailElements DEF FlowInv, LineType, RefInv
<1> QED BY <1>1 DEF con, Order, Reply, Ref

\* The station answers h with c, positive or not, and d, the termination of an
\* execute; what it accepts it executes.
Answers(h, p) ==
    LET c == con(h, p)
        d == [c EXCEPT !.con = FALSE]
    IN  /\ \/ fromStation' = Append(fromStation, c)
           \/ h.kind # "select" /\ fromStation' = Append(Append(fromStation, c), d)
        /\ IF p /\ h.kind = "execute" THEN executed' = Append(executed, h)
           ELSE executed' = executed

\* Whatever the station does with the first message of the line, it answers
\* it and executes only what it confirms.
LEMMA StationAnswers ==
    ASSUME FlowInv, StationRefuses \/ \E t \in BOOLEAN : StationAccepts(t)
    PROVE  \E p \in BOOLEAN : Answers(Head(toStation), p)
<1> DEFINE h == Head(toStation)
<1>1. CASE StationRefuses
  <2>1. Answers(h, FALSE)
    BY <1>1 DEF StationRefuses, Answers
  <2> QED BY <2>1
<1>2. ASSUME NEW t \in BOOLEAN, StationAccepts(t)
      PROVE  Answers(h, TRUE)
  <2> DEFINE c == con(h, TRUE)
             d == [c EXCEPT !.con = FALSE]
  <2>1. /\ fromStation' = fromStation \o (IF t THEN <<c, d>> ELSE <<c>>)
        /\ h.kind = "select" => ~t
        /\ executed' = IF h.kind = "execute" THEN Append(executed, h) ELSE executed
    BY <1>2 DEF StationAccepts
  <2>2. c \in Reply /\ d \in Reply
    BY <1>2, ReplyType DEF StationAccepts
  <2> HIDE DEF c, d, h
  <2>3. Append(fromStation, c) = fromStation \o <<c>> /\ Append(fromStation, c) \in Seq(Reply)
    BY <2>2, AppendIsConcat, AppendProperties DEF FlowInv, LineType
  <2>4. fromStation \o <<c, d>> = Append(Append(fromStation, c), d)
    <3>1. <<c, d>> = <<c>> \o <<d>> /\ <<c>> \in Seq(Reply) /\ <<d>> \in Seq(Reply)
      BY <2>2, TwoElements
    <3>2. Append(Append(fromStation, c), d) = Append(fromStation, c) \o <<d>>
      BY <2>2, <2>3, AppendIsConcat
    <3> QED BY <2>3, <3>1, <3>2, ConcatAssociative DEF FlowInv, LineType
  <2>5. \/ fromStation' = Append(fromStation, c)
        \/ h.kind # "select" /\ fromStation' = Append(Append(fromStation, c), d)
    BY <2>1, <2>3, <2>4
  <2> QED BY <2>1, <2>5 DEF Answers, c, d
<1> QED BY <1>1, <1>2

\* The station answers, with one message or two.
LEMMA StationFlow ==
    ASSUME FlowInv, StationRefuses \/ \E t \in BOOLEAN : StationAccepts(t)
    PROVE  FlowInv' /\ Moves
<1> DEFINE h == Head(toStation)
<1>0. /\ toStation # <<>> /\ toStation' = Tail(toStation)
      /\ UNCHANGED <<queue, next, seen, lastSelected, ackQ, faults>>
      /\ executed' = executed \/ executed' = Append(executed, h)
  BY DEF StationRefuses, StationAccepts, driver
<1>1. PICK p \in BOOLEAN : Answers(h, p)
  BY StationAnswers
<1> DEFINE c == con(h, p)
           d == [c EXCEPT !.con = FALSE]
<1>2. /\ c \in Reply /\ d \in Reply
      /\ Ref(queue, next, c)
      /\ c.select => queue[c.cmd].req.sbo
  BY <1>0, ReplyType
<1> HIDE DEF c
<1>3. Ref(queue, next, d) /\ (d.select => queue[d.cmd].req.sbo)
  <2>1. d.cmd = c.cmd /\ d.ioa = c.ioa /\ d.select = c.select
    BY <1>2 DEF Reply
  <2> HIDE DEF d
  <2> QED BY <1>2, <2>1 DEF Ref
<1> HIDE DEF d
<1>4. /\ fromStation' \in Seq(Reply)
      /\ \A i \in 1 .. Len(fromStation') :
           \/ fromStation'[i] \in {c, d}
           \/ \E j \in 1 .. Len(fromStation) : fromStation'[i] = fromStation[j]
  <2> DEFINE s == Append(fromStation, c)
  <2>1. /\ s \in Seq(Reply)
        /\ \A i \in 1 .. Len(s) :
             s[i] = c \/ \E j \in 1 .. Len(fromStation) : s[i] = fromStation[j]
    BY <1>2, AppendMember DEF FlowInv, LineType
  <2>2. fromStation' = s \/ fromStation' = Append(s, d)
    BY <1>1 DEF Answers, c, d
  <2> HIDE DEF s
  <2>3. CASE fromStation' = s
    BY <2>1, <2>3
  <2>4. CASE fromStation' = Append(s, d)
    <3>1. /\ fromStation' \in Seq(Reply)
          /\ \A i \in 1 .. Len(fromStation') :
               fromStation'[i] = d \/ \E j \in 1 .. Len(s) : fromStation'[i] = s[j]
      BY <1>2, <2>1, <2>4, AppendMember
    <3>2. ASSUME NEW i \in 1 .. Len(fromStation')
          PROVE  \/ fromStation'[i] = c \/ fromStation'[i] = d
                 \/ \E j \in 1 .. Len(fromStation) : fromStation'[i] = fromStation[j]
      <4>1. CASE fromStation'[i] = d
        BY <4>1
      <4>2. CASE \E j \in 1 .. Len(s) : fromStation'[i] = s[j]
        BY <2>1, <4>2
      <4> QED BY <3>1, <4>1, <4>2
    <3> QED BY <3>1, <3>2
  <2> QED BY <2>2, <2>3, <2>4
<1>5. /\ h \in Order /\ Ref(queue, next, h) /\ toStation' \in Seq(Order)
      /\ \A i \in 1 .. Len(toStation') :
           \E j \in 1 .. Len(toStation) : toStation'[i] = toStation[j]
  <2>1. h \in Order /\ h = toStation[1] /\ Len(toStation) \in Nat \ {0}
    BY <1>0, TailElements DEF FlowInv, LineType
  <2>2. Ref(queue, next, h)
    BY <2>1 DEF FlowInv, RefInv
  <2> QED BY <1>0, <2>1, <2>2, TailMember DEF FlowInv, LineType
<1> HIDE DEF h
<1>6. /\ executed' \in Seq(Order)
      /\ \A i \in 1 .. Len(executed') :
           executed'[i] = h \/ \E j \in 1 .. Len(executed) : executed'[i] = executed[j]
  <2>1. CASE executed' = executed
    BY <2>1 DEF FlowInv, LineType
  <2>2. CASE executed' = Append(executed, h)
    BY <1>5, <2>2, AppendMember DEF FlowInv, LineType
  <2> QED BY <1>0, <2>1, <2>2
<1>7. Moves
  BY <1>0, StandingMoves DEF FlowInv
<1>8. LineType'
  BY <1>0, <1>4, <1>5, <1>6 DEF FlowInv, LineType
<1>9. RefInv'
  <2>1. \A i \in 1 .. Len(fromStation') :
          /\ Ref(queue, next, fromStation'[i])
          /\ fromStation'[i].select => queue[fromStation'[i].cmd].req.sbo
    BY <1>2, <1>3, <1>4 DEF FlowInv, RefInv
  <2>2. \A i \in 1 .. Len(toStation') :
          /\ Ref(queue, next, toStation'[i])
          /\ toStation'[i].kind = "select" => queue[toStation'[i].cmd].req.sbo
    BY <1>5 DEF FlowInv, RefInv
  <2>3. \A i \in 1 .. Len(executed') : Ref(queue, next, executed'[i])
    BY <1>5, <1>6 DEF FlowInv, RefInv
  <2> QED BY <1>0, <2>1, <2>2, <2>3 DEF FlowInv, RefInv
<1> QED BY <1>7, <1>8, <1>9 DEF FlowInv, Moves

\* What a confirmation may put on the line: the stored execute, addressed to the
\* device that confirmed.
Follows(m) ==
    \/ toStation' = toStation
    \/ /\ selectConfirmed(m) /\ lastSelected # None /\ lastSelected.ioa = m.ioa
       /\ toStation' = Append(toStation, [lastSelected EXCEPT !.ca = m.ca])

\* The driver's ASDUHandler takes the first reply and at most adds the execute
\* of a confirmed select.
LEMMA HandleFollows ==
    ASSUME FlowInv, HandleAsdu
    PROVE  LET m == Head(fromStation)
           IN  /\ m \in Reply /\ m = fromStation[1] /\ 1 \in 1 .. Len(fromStation)
               /\ fromStation # <<>> /\ fromStation' = Tail(fromStation)
               /\ Follows(m)
               /\ ackQ' = Append(ackQ, [ioa |-> m.ioa, ack |-> m.positive, cmd |-> m.cmd])
               /\ UNCHANGED <<queue, next, seen, lastSelected, executed>>
               /\ Fault \/ UNCHANGED faults
<1> DEFINE m == Head(fromStation)
           x == [lastSelected EXCEPT !.ca = m.ca]
<1>1. /\ fromStation # <<>> /\ fromStation' = Tail(fromStation)
      /\ ackQ' = Append(ackQ, [ioa |-> m.ioa, ack |-> m.positive, cmd |-> m.cmd])
      /\ UNCHANGED <<queue, next, seen, lastSelected, executed>>
      /\ Fault \/ UNCHANGED faults
  BY DEF HandleAsdu, driver
<1>2. m \in Reply /\ m = fromStation[1] /\ 1 \in 1 .. Len(fromStation)
  BY <1>1, TailElements DEF FlowInv, LineType
<1>3. \/ toStation' = toStation
      \/ selectConfirmed(m) /\ toStation' = toStation \o SelectedFor(m)
  BY DEF HandleAsdu
<1>4. SelectedFor(m) = IF lastSelected # None /\ lastSelected.ioa = m.ioa
                       THEN <<x>> ELSE <<>>
  BY DEF SelectedFor
<1>5. lastSelected # None => x \in Order
  BY <1>2 DEF FlowInv, LineType, Order, Reply
<1> HIDE DEF m, x
<1>6. toStation \o <<>> = toStation
  BY ConcatEmptySeq DEF FlowInv, LineType
<1>7. lastSelected # None => Append(toStation, x) = toStation \o <<x>>
  BY <1>5, AppendIsConcat DEF FlowInv, LineType
<1>8. Follows(m)
  BY <1>3, <1>4, <1>6, <1>7 DEF Follows, x
<1> QED BY <1>1, <1>2, <1>8 DEF m

\* Handling a reply keeps the flow's invariant and moves nothing backwards.
LEMMA HandleFlow ==
    ASSUME FlowInv, HandleAsdu
    PROVE  FlowInv' /\ Moves
<1> DEFINE m == Head(fromStation)
           x == [lastSelected EXCEPT !.ca = m.ca]
           a == [ioa |-> m.ioa, ack |-> m.positive, cmd |-> m.cmd]
<1>1. /\ m \in Reply /\ m = fromStation[1] /\ 1 \in 1 .. Len(fromStation)
      /\ fromStation # <<>> /\ fromStation' = Tail(fromStation)
      /\ Follows(m) /\ ackQ' = Append(ackQ, a)
      /\ UNCHANGED <<queue, next, seen, lastSelected, executed>>
      /\ Fault \/ UNCHANGED faults
  BY HandleFollows
<1> HIDE DEF m
<1>2. a \in Answer /\ a.cmd = m.cmd /\ a.ioa = m.ioa
  BY <1>1 DEF Reply, Answer
<1>3. lastSelected # None => /\ x \in Order /\ x.cmd = lastSelected.cmd
                             /\ x.ioa = lastSelected.ioa /\ x.kind = lastSelected.kind
  BY <1>1 DEF FlowInv, LineType, Order, Reply
<1>4. toStation' = toStation \/ (lastSelected # None /\ toStation' = Append(toStation, x))
  BY <1>1 DEF Follows
<1> HIDE DEF x, a
<1>5. Ref(queue, next, a)
  BY <1>1, <1>2 DEF FlowInv, RefInv, Ref
<1>6. /\ toStation' \in Seq(Order)
      /\ \A i \in 1 .. Len(toStation') :
           \/ lastSelected # None /\ toStation'[i] = x
           \/ \E j \in 1 .. Len(toStation) : toStation'[i] = toStation[j]
  <2>1. CASE toStation' = toStation
    BY <2>1 DEF FlowInv, LineType
  <2>2. CASE lastSelected # None /\ toStation' = Append(toStation, x)
    BY <1>3, <2>2, AppendMember DEF FlowInv, LineType
  <2> QED BY <1>4, <2>1, <2>2
<1>7. /\ fromStation' \in Seq(Reply)
      /\ \A i \in 1 .. Len(fromStation') :
           \E j \in 1 .. Len(fromStation) : fromStation'[i] = fromStation[j]
  BY <1>1, TailMember DEF FlowInv, LineType
<1>8. /\ ackQ' \in Seq(Answer)
      /\ \A i \in 1 .. Len(ackQ') :
           ackQ'[i] = a \/ \E j \in 1 .. Len(ackQ) : ackQ'[i] = ackQ[j]
  BY <1>1, <1>2, AppendMember DEF FlowInv, LineType
<1>9. Moves
  BY <1>1, StandingMoves DEF FlowInv
<1>10. LineType'
  BY <1>1, <1>6, <1>7, <1>8, FaultType DEF FlowInv, LineType
<1>11. RefInv'
  <2>1. lastSelected # None => Ref(queue, next, x) /\ x.kind = "execute"
    BY <1>3 DEF FlowInv, RefInv, Ref
  <2>2. \A i \in 1 .. Len(toStation') :
          /\ Ref(queue, next, toStation'[i])
          /\ toStation'[i].kind = "select" => queue[toStation'[i].cmd].req.sbo
    BY <1>6, <2>1 DEF FlowInv, RefInv
  <2>3. \A i \in 1 .. Len(fromStation') :
          /\ Ref(queue, next, fromStation'[i])
          /\ fromStation'[i].select => queue[fromStation'[i].cmd].req.sbo
    BY <1>7 DEF FlowInv, RefInv
  <2>4. \A i \in 1 .. Len(ackQ') : Ref(queue, next, ackQ'[i])
    BY <1>5, <1>8 DEF FlowInv, RefInv
  <2> QED BY <1>1, <2>2, <2>3, <2>4 DEF FlowInv, RefInv
<1> QED BY <1>9, <1>10, <1>11 DEF FlowInv, Moves

\* The writer takes an acknowledgement.
LEMMA WriterFlow ==
    ASSUME FlowInv, WriteAck \/ WriteAckFails
    PROVE  FlowInv' /\ Moves
<1>1. /\ ackQ # <<>> /\ ackQ' = Tail(ackQ) /\ next' = next
      /\ UNCHANGED <<lastSelected, toStation, fromStation, executed>>
      /\ Fault \/ UNCHANGED faults
  BY DEF WriteAck, WriteAckFails, driver, line
<1>2. Moves
  <2>1. CASE WriteAck
    BY <1>1, <2>1, AckQueue DEF FlowInv, Moves, QueueInv
  <2>2. CASE WriteAckFails
    BY <2>2, StandingMoves DEF FlowInv, WriteAckFails, driver
  <2> QED BY <2>1, <2>2
<1>3. /\ ackQ' \in Seq(Answer)
      /\ \A i \in 1 .. Len(ackQ') : \E j \in 1 .. Len(ackQ) : ackQ'[i] = ackQ[j]
  BY <1>1, TailMember DEF FlowInv, LineType
<1>4. LineType'
  BY <1>1, <1>3, FaultType DEF FlowInv, LineType
<1>5. RefInv'
  <2>1. \A i \in 1 .. Len(ackQ') : Ref(queue', next', ackQ'[i])
    BY <1>2, <1>3, RefKept DEF FlowInv, RefInv
  <2> QED BY <1>1, <1>2, <2>1, RefKept DEF FlowInv, RefInv
<1> QED BY <1>2, <1>4, <1>5 DEF FlowInv, Moves

\* Every step keeps the queue, moves forward in it and preserves the invariant.
LEMMA NextFlow ==
    ASSUME FlowInv, Next
    PROVE  FlowInv' /\ Moves
<1>0. Len(queue) \in Nat /\ DOMAIN queue = 1 .. Len(queue) /\ next \in Nat
  BY LenProperties DEF FlowInv, QueueInv
<1>1. ASSUME NEW r \in Requests, InsertCommand(r) PROVE FlowInv' /\ Moves
  <2>1. Moves
    BY <1>0, <1>1, InsertQueue DEF FlowInv, Moves, InsertCommand, driver
  <2> QED BY <1>1, <2>1, LineKept DEF InsertCommand, driver, line
<1>2. ASSUME NEW c \in 1 .. Len(queue), Expire(c) PROVE FlowInv' /\ Moves
  <2>1. Marks(c, "old") /\ UNCHANGED <<next, seen, lastSelected, line, ackQ, executed, faults>>
    BY <1>2, Zenon DEF Expire, Marks, driver
  <2>2. Moves
    BY <1>0, <2>1, FieldQueue DEF FlowInv, Moves
  <2> QED BY <2>1, <2>2, LineKept
<1>3. ASSUME NEW c \in 1 .. Len(queue), PollAck(c) PROVE FlowInv' /\ Moves
  <2>1. Moves
    <3>1. QueueInv' /\ Kept
      BY <1>3, PollQueue DEF FlowInv
    <3>2. next' = next
      BY <1>3 DEF PollAck, driver
    <3> QED BY <1>0, <3>1, <3>2 DEF Moves
  <2> QED BY <1>3, <2>1, LineKept DEF PollAck, driver
<1>4. CASE StreamBreaks \/ Switchover \/ LinkUp
  <2>1. Moves
    BY <1>4, StandingMoves DEF FlowInv, StreamBreaks, Switchover, LinkUp
  <2> QED BY <1>4, <2>1, LineKept DEF StreamBreaks, Switchover, LinkUp, line
<1>5. CASE StreamReopens
  <2>1. Moves
    <3>1. next' \in next .. Len(queue) + 1 /\ UNCHANGED <<queue, seen>>
      BY <1>0, <1>5 DEF FlowInv, QueueInv, StreamReopens
    <3> QED BY <1>0, <3>1, SameQueue DEF FlowInv, Moves
  <2> QED BY <1>5, <2>1, LineKept DEF StreamReopens, line
<1>6. CASE IgnoreCommand \/ CancelCommand
  <2>1. /\ Delivered /\ UNCHANGED <<lastSelected, line, ackQ, executed>>
        /\ Fault \/ UNCHANGED faults
        /\ \/ UNCHANGED queue
           \/ \E field \in {"delivered", "cancelled"} : Marks(next, field)
    BY <1>6, Zenon DEF IgnoreCommand, CancelCommand, Delivered, setResult, Marks
  <2>2. Moves
    BY <2>1, DeliveredMoves DEF FlowInv
  <2> QED BY <2>1, <2>2, LineKept
<1>7. CASE LinkDown
  <2>1. Moves
    BY <1>7, StandingMoves DEF FlowInv, LinkDown
  <2>2. /\ toStation' = <<>> /\ fromStation' = <<>> /\ Fault
        /\ UNCHANGED <<lastSelected, ackQ, executed>>
    BY <1>7 DEF LinkDown
  <2>3. LineType'
    BY <2>2, FaultType DEF FlowInv, LineType
  <2>4. RefInv'
    BY <2>1, <2>2, RefKept DEF FlowInv, RefInv
  <2> QED BY <2>1, <2>3, <2>4 DEF FlowInv, Moves
<1> QED
  BY <1>0, <1>1, <1>2, <1>3, <1>4, <1>5, <1>6, <1>7, SendFlow, StationFlow,
     HandleFlow, WriterFlow DEF Next

\* No command yet.
LEMMA InitFlow == Init => FlowInv
<1> SUFFICES ASSUME Init PROVE FlowInv
  OBVIOUS
<1>1. QueueInv
  BY EmptySeq DEF Init, QueueInv
<1>2. LineType
  BY EmptySeq, FaultsAssumption DEF Init, LineType
<1>3. RefInv
  BY DEF Init, RefInv
<1> QED BY <1>1, <1>2, <1>3 DEF FlowInv

\* There are no more commands than requests.
LEMMA QueueBounded ==
    ASSUME QueueInv
    PROVE  Cardinality(Requests) \in Nat /\ Len(queue) <= Cardinality(Requests)
<1> DEFINE f == [c \in 1 .. Len(queue) |-> queue[c].req]
<1>1. \A c \in 1 .. Len(queue) : queue[c].req \in Requests
  BY EntryType DEF Entry
<1>2. f \in Injection(1 .. Len(queue), Requests)
  BY <1>1 DEF QueueInv, Injection, IsInjective
<1>3. Len(queue) \in Nat
  BY LenProperties DEF QueueInv
<1>4. Cardinality(1 .. Len(queue)) <= Cardinality(Requests)
  BY <1>2, RequestAssumption, FS_Injection
<1> QED BY <1>3, <1>4, FS_Interval, FS_CardinalityType, RequestAssumption

\* The flow's invariant implies the declared types.
LEMMA FlowTypes == FlowInv => TypeOK
<1> SUFFICES ASSUME FlowInv PROVE TypeOK
  OBVIOUS
<1>1. /\ Len(queue) \in Nat /\ DOMAIN queue = 1 .. Len(queue)
      /\ DOMAIN seen = 1 .. Len(queue)
  BY LenProperties DEF FlowInv, QueueInv
<1>2. Cardinality(Requests) \in Nat /\ Len(queue) <= Cardinality(Requests)
  BY QueueBounded DEF FlowInv
<1>3. \A c \in DOMAIN queue :
         /\ c \in CommandIds /\ queue[c].req \in Requests
         /\ queue[c].ack \in BOOLEAN \cup {None}
         /\ ~(queue[c].delivered /\ queue[c].cancelled)
  <2> TAKE c \in DOMAIN queue
  <2>1. queue[c] \in Entry
    BY <1>1, EntryType DEF FlowInv
  <2>2. queue[c].req \in Requests /\ queue[c].ack \in BOOLEAN \cup {None}
    BY <2>1 DEF Entry
  <2>3. c \in CommandIds
    BY <1>1, <1>2 DEF CommandIds
  <2> QED BY <1>1, <2>2, <2>3 DEF FlowInv, QueueInv
<1>4. ASSUME NEW m \in Order, Ref(queue, next, m) PROVE m \in Message
  <2>1. m.cmd \in CommandIds
    BY <1>1, <1>2, <1>4 DEF CommandIds, Ref, FlowInv, QueueInv
  <2> QED BY <1>4, <2>1 DEF Order, Message, Addresses, Objects
<1>5. lastSelected \in Message \cup {None}
  BY <1>4 DEF FlowInv, LineType, RefInv
<1>6. \A i \in DOMAIN toStation : toStation[i] \in Message
  BY <1>4, LenProperties, ElementOfSeq DEF FlowInv, LineType, RefInv
<1>7. \A i \in DOMAIN executed : executed[i] \in Message
  BY <1>4, LenProperties, ElementOfSeq DEF FlowInv, LineType, RefInv
<1>8. \A c \in DOMAIN seen : seen[c] \in {"waiting", "good", "bad"}
  BY <1>1, ElementOfSeq DEF FlowInv, QueueInv, Outcome
<1> QED BY <1>1, <1>3, <1>5, <1>6, <1>7, <1>8 DEF TypeOK, FlowInv, QueueInv, LineType

\* A stuttering step.
LEMMA StutterFlow ==
    ASSUME FlowInv, UNCHANGED vars
    PROVE  FlowInv'
  BY DEF FlowInv, QueueInv, LineType, RefInv, vars

\* Types of the commandsQueue entries and of what is on the line, for whatever
\* may be ordered: an entry has one outcome at most, written when the stream
\* came to it (processCommand).
THEOREM TypeCorrect == Spec => []TypeOK
<1>1. FlowInv /\ [Next]_vars => FlowInv'
  BY NextFlow, StutterFlow
<1> QED BY <1>1, InitFlow, FlowTypes, PTL DEF Spec

\* For whatever may be ordered and whatever fails, nothing is sent for a command
\* that was too old when the driver came to it, except the execute of a select
\* that was sent in time (processCommand, ASDUHandler).
THEOREM OldNotStarted == Spec => StaleNotSent
<1> DEFINE A == \A c \in DOMAIN queue :
                  queue[c].old /\ sends(c) => queue[c].req.sbo /\ next' = next
<1>1. FlowInv /\ [Next]_vars => FlowInv'
  BY NextFlow, StutterFlow
<1>2. FlowInv /\ [Next]_vars => [A]_vars
  <2> SUFFICES ASSUME FlowInv, Next, NEW c \in DOMAIN queue, queue[c].old, sends(c)
               PROVE  queue[c].req.sbo /\ next' = next
    OBVIOUS
  <2>1. /\ Len(toStation') > Len(toStation) /\ Len(toStation) \in Nat
        /\ toStation'[Len(toStation')].cmd = c
    BY LenProperties DEF sends, FlowInv, LineType
  <2>2. SendCommand \/ HandleAsdu
    <3>1. toStation # <<>> => Len(Tail(toStation)) < Len(toStation)
      BY <2>1, TailElements DEF FlowInv, LineType
    <3>2. Len(<<>>) = 0
      BY EmptySeq
    <3>3. \/ SendCommand \/ HandleAsdu
          \/ toStation' = toStation \/ toStation' = <<>>
          \/ toStation # <<>> /\ toStation' = Tail(toStation)
      BY Zenon DEF Next, InsertCommand, Expire, PollAck, StreamBreaks, StreamReopens,
             IgnoreCommand, CancelCommand, SendFails, Switchover, LinkDown, LinkUp,
             StationRefuses, StationAccepts, WriteAck, WriteAckFails, line
    <3> QED BY <2>1, <3>1, <3>2, <3>3
  <2>3. CASE SendCommand
    <3> DEFINE m == asdu(IF queue[next].req.sbo THEN "select" ELSE "execute",
                         queue[next].req, next)
    <3>1. next \in 1 .. Len(queue)
      BY <2>3 DEF SendCommand, Delivered, FlowInv, QueueInv
    <3>2. m \in Order /\ m.cmd = next
      BY <3>1, AsduType DEF FlowInv
    <3>3. toStation' = Append(toStation, m) /\ ~queue[next].old
      BY <2>3 DEF SendCommand, refused
    <3> HIDE DEF m
    <3>4. toStation'[Len(toStation')] = m
      BY <2>1, <3>2, <3>3, AppendElements DEF FlowInv, LineType
    <3> QED BY <2>1, <3>2, <3>3, <3>4
  <2>4. CASE HandleAsdu
    <3> DEFINE m == Head(fromStation)
               x == [lastSelected EXCEPT !.ca = m.ca]
    <3>1. m \in Reply /\ Follows(m) /\ next' = next
      BY <2>4, HandleFollows
    <3> HIDE DEF m
    <3>2. lastSelected # None /\ toStation' = Append(toStation, x)
      BY <2>1, <3>1 DEF Follows
    <3>3. x \in Order /\ x.cmd = lastSelected.cmd
      BY <3>1, <3>2 DEF FlowInv, LineType, Order, Reply
    <3> HIDE DEF x
    <3>4. toStation'[Len(toStation')] = x
      BY <2>1, <3>2, <3>3, AppendElements DEF FlowInv, LineType
    <3> QED BY <2>1, <3>1, <3>2, <3>3, <3>4 DEF FlowInv, RefInv
  <2> QED BY <2>2, <2>3, <2>4
<1>3. [][A]_vars => StaleNotSent
  BY DEF StaleNotSent
<1> QED BY <1>1, <1>2, <1>3, InitFlow, PTL DEF Spec

-----------------------------------------------------------------------------
(* Executed as ordered, and at most once: where no two requests with a     *)
(* select are for one object number, since the stored execute is found by  *)
(* that number alone.  Direct commands may repeat an object.               *)

SelectsApart ==
    \A r, s \in Requests : r.sbo /\ s.sbo /\ r.ioa = s.ioa => r = s

Exact(q, m) == m.ca = q[m.cmd].req.ca /\ m.value = q[m.cmd].req.value

\* What is on the line is as ordered, and of no cancelled command.
ExactInv ==
    /\ lastSelected # None => Exact(queue, lastSelected)
    /\ \A i \in 1 .. Len(toStation) :
         Exact(queue, toStation[i]) /\ ~queue[toStation[i].cmd].cancelled
    /\ \A i \in 1 .. Len(executed) :
         Exact(queue, executed[i]) /\ ~queue[executed[i].cmd].cancelled
    /\ \A i \in 1 .. Len(fromStation) :
         /\ fromStation[i].ca = queue[fromStation[i].cmd].req.ca
         /\ fromStation[i].select => ~queue[fromStation[i].cmd].cancelled

Once(s) == \A i, j \in 1 .. Len(s) : s[i].cmd = s[j].cmd => i = j
OnceSelected(s) ==
    \A i, j \in 1 .. Len(s) :
        s[i].select /\ s[j].select /\ s[i].cmd = s[j].cmd => i = j
Apart(s, t) == \A i \in 1 .. Len(s), j \in 1 .. Len(t) : s[i].cmd # t[j].cmd
ApartSelected(s, t) ==
    \A i \in 1 .. Len(s), j \in 1 .. Len(t) : t[j].select => s[i].cmd # t[j].cmd

\* A command is in one place: its message on the line to the station, the
\* confirmation of its select on the line back, or its execution.
TokenInv ==
    /\ Once(toStation) /\ Once(executed) /\ OnceSelected(fromStation)
    /\ Apart(toStation, executed)
    /\ ApartSelected(toStation, fromStation) /\ ApartSelected(executed, fromStation)

OrderInv == ExactInv /\ TokenInv

\* A sequence with one more message of a command that is not there yet.
LEMMA OnceAppend ==
    ASSUME NEW S, NEW s \in Seq(S), NEW e \in S, Once(s),
           \A i \in 1 .. Len(s) : s[i].cmd # e.cmd, NEW t, t = Append(s, e)
    PROVE  Once(t)
<1>1. /\ Len(t) = Len(s) + 1 /\ Len(s) \in Nat
      /\ \A i \in 1 .. Len(s) + 1 : t[i] = IF i <= Len(s) THEN s[i] ELSE e
  BY AppendElements
<1> QED BY <1>1 DEF Once

\* Appending a message keeps selects single if the command had none there.
LEMMA OnceSelectedAppend ==
    ASSUME NEW S, NEW s \in Seq(S), NEW e \in S, OnceSelected(s),
           e.select => \A i \in 1 .. Len(s) : s[i].select => s[i].cmd # e.cmd,
           NEW t, t = Append(s, e)
    PROVE  OnceSelected(t)
<1>1. /\ Len(t) = Len(s) + 1 /\ Len(s) \in Nat
      /\ \A i \in 1 .. Len(s) + 1 : t[i] = IF i <= Len(s) THEN s[i] ELSE e
  BY AppendElements
<1> QED BY <1>1 DEF OnceSelected

\* The rest of a sequence has nothing of what its first message is of.
LEMMA OnceTail ==
    ASSUME NEW S, NEW s \in Seq(S), s # <<>>, NEW t, t = Tail(s)
    PROVE  /\ Once(s) => /\ Once(t)
                         /\ \A i \in 1 .. Len(t) : t[i].cmd # Head(s).cmd
           /\ OnceSelected(s) =>
                /\ OnceSelected(t)
                /\ Head(s).select =>
                     \A i \in 1 .. Len(t) : t[i].select => t[i].cmd # Head(s).cmd
<1>1. /\ Len(t) = Len(s) - 1 /\ Len(s) \in Nat \ {0} /\ Head(s) = s[1]
      /\ \A i \in 1 .. Len(s) - 1 : t[i] = s[i + 1]
  BY TailElements
<1>2. \A i \in 1 .. Len(t) : i + 1 \in 1 .. Len(s) /\ i + 1 # 1
  BY <1>1
<1>3. ASSUME Once(s)
      PROVE  Once(t) /\ \A i \in 1 .. Len(t) : t[i].cmd # Head(s).cmd
  BY <1>1, <1>2, <1>3 DEF Once
<1>4. ASSUME OnceSelected(s)
      PROVE  /\ OnceSelected(t)
             /\ Head(s).select =>
                  \A i \in 1 .. Len(t) : t[i].select => t[i].cmd # Head(s).cmd
  BY <1>1, <1>2, <1>4 DEF OnceSelected
<1> QED BY <1>3, <1>4

\* What the step keeps of a message.
LEMMA ExactKept ==
    ASSUME QueueInv, Moves, NEW m, Ref(queue, next, m)
    PROVE  /\ Exact(queue, m) => Exact(queue', m)
           /\ queue'[m.cmd].req.ca = queue[m.cmd].req.ca
           /\ queue'[m.cmd].cancelled => queue[m.cmd].cancelled
<1>1. Len(queue) \in Nat
  BY LenProperties DEF QueueInv
<1> QED BY <1>1 DEF QueueInv, Moves, Kept, Ref, Exact

\* A step that leaves line and executions alone keeps the order invariant.
LEMMA OrderKept ==
    ASSUME FlowInv, OrderInv, Moves, UNCHANGED <<line, executed>>,
           lastSelected' # None => Exact(queue', lastSelected')
    PROVE  OrderInv'
<1>1. ExactInv'
  BY ExactKept DEF FlowInv, RefInv, OrderInv, ExactInv, line
<1> QED BY <1>1 DEF OrderInv, TokenInv, line

\* Sending a command, or failing to.
LEMMA SendOrder ==
    ASSUME FlowInv, OrderInv, SendCommand \/ SendFails
    PROVE  OrderInv'
<1> DEFINE r == queue[next].req
           kind == IF r.sbo THEN "select" ELSE "execute"
           m == asdu(kind, r, next)
           x == asdu("execute", r, next)
<1>1. Moves /\ next \in 1 .. Len(queue) /\ next' = next + 1
  BY SendFlow DEF SendCommand, SendFails, Delivered, FlowInv, QueueInv
<1>2. lastSelected' = IF r.sbo THEN x ELSE lastSelected
  BY DEF SendCommand, SendFails
<1>3. /\ m \in Order /\ m.cmd = next /\ m.ca = r.ca /\ m.value = r.value
      /\ x \in Order /\ x.cmd = next /\ x.ca = r.ca /\ x.value = r.value
  BY <1>1, AsduType DEF FlowInv
<1>4. queue'[next].req = r
  BY <1>1, LenProperties DEF Moves, Kept, FlowInv, QueueInv
<1>5. SendCommand => toStation' = Append(toStation, m)
  BY DEF SendCommand
<1> HIDE DEF m, x, r
<1>6. Exact(queue', x) /\ Exact(queue', m)
  BY <1>3, <1>4 DEF Exact
<1>7. lastSelected' # None => Exact(queue', lastSelected')
  BY <1>1, <1>2, <1>6, ExactKept DEF FlowInv, RefInv, OrderInv, ExactInv
<1>8. CASE SendFails
  BY <1>1, <1>7, <1>8, OrderKept DEF SendFails, Delivered
<1>9. CASE SendCommand
  <2>1. /\ toStation' = Append(toStation, m) /\ UNCHANGED <<fromStation, executed>>
        /\ queue' = queue \/ Marks(next, "delivered")
    BY <1>5, <1>9 DEF SendCommand, Delivered, setResult, Marks
  <2>2. ~queue'[next].cancelled
    <3>1. ~queue[next].cancelled
      BY <1>1 DEF FlowInv, QueueInv
    <3>2. Marks(next, "delivered") => (queue'[next].cancelled <=> queue[next].cancelled)
      BY <1>1, MarkedEntry DEF FlowInv
    <3> QED BY <2>1, <3>1, <3>2
  <2>3. \A i \in 1 .. Len(toStation') :
          toStation'[i] = m \/ \E j \in 1 .. Len(toStation) : toStation'[i] = toStation[j]
    BY <1>3, <2>1, AppendMember DEF FlowInv, LineType
  <2>4. ExactInv'
    <3>1. \A i \in 1 .. Len(toStation') :
            Exact(queue', toStation'[i]) /\ ~queue'[toStation'[i].cmd].cancelled
      <4> TAKE i \in 1 .. Len(toStation')
      <4>1. CASE toStation'[i] = m
        BY <1>3, <1>6, <2>2, <4>1
      <4>2. CASE \E j \in 1 .. Len(toStation) : toStation'[i] = toStation[j]
        <5>1. PICK j \in 1 .. Len(toStation) : toStation'[i] = toStation[j]
          BY <4>2
        <5>2. /\ Ref(queue, next, toStation[j]) /\ Exact(queue, toStation[j])
              /\ ~queue[toStation[j].cmd].cancelled
          BY DEF FlowInv, RefInv, OrderInv, ExactInv
        <5> QED BY <1>1, <5>1, <5>2, ExactKept DEF FlowInv
      <4> QED BY <2>3, <4>1, <4>2
    <3>2. \A i \in 1 .. Len(executed) :
            Exact(queue', executed[i]) /\ ~queue'[executed[i].cmd].cancelled
      <4> TAKE i \in 1 .. Len(executed)
      <4>1. /\ Ref(queue, next, executed[i]) /\ Exact(queue, executed[i])
            /\ ~queue[executed[i].cmd].cancelled
        BY DEF FlowInv, RefInv, OrderInv, ExactInv
      <4> QED BY <1>1, <4>1, ExactKept DEF FlowInv
    <3>3. \A i \in 1 .. Len(fromStation) :
            /\ fromStation[i].ca = queue'[fromStation[i].cmd].req.ca
            /\ fromStation[i].select => ~queue'[fromStation[i].cmd].cancelled
      <4> TAKE i \in 1 .. Len(fromStation)
      <4>1. /\ Ref(queue, next, fromStation[i])
            /\ fromStation[i].ca = queue[fromStation[i].cmd].req.ca
            /\ fromStation[i].select => ~queue[fromStation[i].cmd].cancelled
        BY DEF FlowInv, RefInv, OrderInv, ExactInv
      <4> QED BY <1>1, <4>1, ExactKept DEF FlowInv
    <3> QED
      BY <1>7, <2>1, <3>1, <3>2, <3>3 DEF ExactInv
  <2>5. /\ \A i \in 1 .. Len(toStation) : toStation[i].cmd # m.cmd
        /\ \A i \in 1 .. Len(executed) : executed[i].cmd # m.cmd
        /\ \A i \in 1 .. Len(fromStation) : fromStation[i].cmd # m.cmd
    BY <1>1, <1>3 DEF FlowInv, QueueInv, RefInv, Ref
  <2>6. Once(toStation')
    BY <1>3, <2>1, <2>5, OnceAppend DEF FlowInv, LineType, OrderInv, TokenInv
  <2>7. Apart(toStation', executed') /\ ApartSelected(toStation', fromStation')
    BY <2>1, <2>3, <2>5 DEF OrderInv, TokenInv, Apart, ApartSelected
  <2> QED BY <2>1, <2>4, <2>6, <2>7 DEF OrderInv, TokenInv
<1> QED BY <1>8, <1>9

\* An answer of the station: the command moves on to the line back, or to the
\* executions.
LEMMA StationOrder ==
    ASSUME FlowInv, OrderInv, StationRefuses \/ \E t \in BOOLEAN : StationAccepts(t)
    PROVE  OrderInv'
<1> DEFINE h == Head(toStation)
<1>1. /\ toStation # <<>> /\ toStation' = Tail(toStation)
      /\ UNCHANGED <<queue, lastSelected>>
  BY DEF StationRefuses, StationAccepts, driver
<1>2. PICK p \in BOOLEAN : Answers(h, p)
  BY StationAnswers
<1> DEFINE c == con(h, p)
           d == [c EXCEPT !.con = FALSE]
           s == Append(fromStation, c)
<1>3. h \in Order /\ h = toStation[1] /\ 1 \in 1 .. Len(toStation)
  BY <1>1, TailElements DEF FlowInv, LineType
<1>4. c \in Reply /\ d \in Reply
  BY <1>1, ReplyType
<1>5. /\ c.cmd = h.cmd /\ c.ca = h.ca
      /\ c.select <=> h.kind = "select"
      /\ d.cmd = h.cmd /\ d.ca = h.ca
      /\ d.select <=> h.kind = "select"
  BY <1>3 DEF con, Order
<1>6. /\ \/ fromStation' = s
         \/ h.kind # "select" /\ fromStation' = Append(s, d)
      /\ \/ executed' = executed
         \/ h.kind = "execute" /\ executed' = Append(executed, h)
  BY <1>2 DEF Answers
<1> HIDE DEF c, d, h
<1>7. /\ Exact(queue, h) /\ ~queue[h.cmd].cancelled
      /\ \A i \in 1 .. Len(executed) : executed[i].cmd # h.cmd
      /\ \A i \in 1 .. Len(fromStation) : fromStation[i].select => fromStation[i].cmd # h.cmd
  BY <1>3 DEF OrderInv, ExactInv, TokenInv, Apart, ApartSelected
<1>8. /\ Once(toStation')
      /\ \A i \in 1 .. Len(toStation') : toStation'[i].cmd # h.cmd
      /\ \A i \in 1 .. Len(toStation') :
           \E j \in 1 .. Len(toStation) : toStation'[i] = toStation[j]
  <2>1. toStation \in Seq(Order) /\ Once(toStation)
    BY DEF FlowInv, LineType, OrderInv, TokenInv
  <2>2. Once(toStation') /\ \A i \in 1 .. Len(toStation') : toStation'[i].cmd # h.cmd
    BY <1>1, <2>1, OnceTail DEF h
  <2> QED BY <1>1, <2>1, <2>2, TailMember
<1>9. /\ s \in Seq(Reply) /\ OnceSelected(s)
      /\ \A i \in 1 .. Len(s) :
           s[i] = c \/ \E j \in 1 .. Len(fromStation) : s[i] = fromStation[j]
  <2>1. c.select => \A i \in 1 .. Len(fromStation) :
                      fromStation[i].select => fromStation[i].cmd # c.cmd
    BY <1>5, <1>7
  <2>2. fromStation \in Seq(Reply) /\ OnceSelected(fromStation)
    BY DEF FlowInv, LineType, OrderInv, TokenInv
  <2>3. OnceSelected(s)
    BY <1>4, <2>1, <2>2, OnceSelectedAppend
  <2> QED BY <1>4, <2>2, <2>3, AppendMember
<1> HIDE DEF s
<1>10. /\ OnceSelected(fromStation')
       /\ \A i \in 1 .. Len(fromStation') :
            \/ fromStation'[i] \in {c, d}
            \/ \E j \in 1 .. Len(fromStation) : fromStation'[i] = fromStation[j]
  <2>1. CASE fromStation' = s
    BY <1>9, <2>1
  <2>2. CASE h.kind # "select" /\ fromStation' = Append(s, d)
    <3>1. ~d.select
      BY <1>5, <2>2
    <3>2. OnceSelected(fromStation')
      BY <1>4, <1>9, <2>2, <3>1, OnceSelectedAppend
    <3>3. \A i \in 1 .. Len(fromStation') :
            fromStation'[i] = d \/ \E j \in 1 .. Len(s) : fromStation'[i] = s[j]
      BY <1>4, <1>9, <2>2, AppendMember
    <3> QED BY <1>9, <3>2, <3>3
  <2> QED BY <1>6, <2>1, <2>2
<1>11. /\ Once(executed')
       /\ \A i \in 1 .. Len(executed') :
            \/ h.kind = "execute" /\ executed'[i] = h
            \/ \E j \in 1 .. Len(executed) : executed'[i] = executed[j]
  <2>1. CASE executed' = executed
    BY <2>1 DEF OrderInv, TokenInv
  <2>2. CASE h.kind = "execute" /\ executed' = Append(executed, h)
    <3>1. executed \in Seq(Order) /\ Once(executed)
      BY DEF FlowInv, LineType, OrderInv, TokenInv
    <3>2. Once(executed')
      BY <1>3, <1>7, <2>2, <3>1, OnceAppend
    <3> QED BY <1>3, <2>2, <3>1, <3>2, AppendMember
  <2> QED BY <1>6, <2>1, <2>2
<1>12. ExactInv'
  <2>1. \A i \in 1 .. Len(toStation') :
          Exact(queue, toStation'[i]) /\ ~queue[toStation'[i].cmd].cancelled
    BY <1>8 DEF OrderInv, ExactInv
  <2>2. \A i \in 1 .. Len(executed') :
          Exact(queue, executed'[i]) /\ ~queue[executed'[i].cmd].cancelled
    BY <1>7, <1>11 DEF OrderInv, ExactInv
  <2>3. h.ca = queue[h.cmd].req.ca
    BY <1>7 DEF Exact
  <2>4. \A i \in 1 .. Len(fromStation') :
          /\ fromStation'[i].ca = queue[fromStation'[i].cmd].req.ca
          /\ fromStation'[i].select => ~queue[fromStation'[i].cmd].cancelled
    BY <1>5, <1>7, <1>10, <2>3 DEF OrderInv, ExactInv
  <2> QED BY <1>1, <2>1, <2>2, <2>4 DEF OrderInv, ExactInv
<1>13. Apart(toStation', executed')
  BY <1>8, <1>11 DEF OrderInv, TokenInv, Apart
<1>14. ApartSelected(toStation', fromStation')
  <2>1. ASSUME NEW i \in 1 .. Len(toStation'), NEW j \in 1 .. Len(fromStation'),
               fromStation'[j].select
        PROVE  toStation'[i].cmd # fromStation'[j].cmd
    <3>1. CASE fromStation'[j] \in {c, d}
      BY <1>5, <1>8, <3>1
    <3>2. CASE \E k \in 1 .. Len(fromStation) : fromStation'[j] = fromStation[k]
      BY <1>8, <2>1, <3>2 DEF OrderInv, TokenInv, ApartSelected
    <3> QED BY <1>10, <3>1, <3>2
  <2> QED BY <2>1 DEF ApartSelected
<1>15. ApartSelected(executed', fromStation')
  BY <1>5, <1>7, <1>10, <1>11 DEF OrderInv, TokenInv, ApartSelected
<1> QED BY <1>8, <1>10, <1>11, <1>12, <1>13, <1>14, <1>15 DEF OrderInv, TokenInv

\* A confirmed select is followed by the execute of the same command: the stored
\* one is of the same object number, and two commands with select are not.
LEMMA HandleOrder ==
    ASSUME SelectsApart, FlowInv, OrderInv, HandleAsdu
    PROVE  OrderInv'
<1> DEFINE m == Head(fromStation)
           x == [lastSelected EXCEPT !.ca = m.ca]
<1>1. /\ m \in Reply /\ m = fromStation[1] /\ 1 \in 1 .. Len(fromStation)
      /\ fromStation # <<>> /\ fromStation' = Tail(fromStation)
      /\ Follows(m) /\ UNCHANGED <<queue, lastSelected, executed>>
  BY HandleFollows
<1>2. /\ OnceSelected(fromStation')
      /\ m.select => \A i \in 1 .. Len(fromStation') :
                       fromStation'[i].select => fromStation'[i].cmd # m.cmd
      /\ \A i \in 1 .. Len(fromStation') :
           \E j \in 1 .. Len(fromStation) : fromStation'[i] = fromStation[j]
  <2>1. fromStation \in Seq(Reply) /\ OnceSelected(fromStation)
    BY DEF FlowInv, LineType, OrderInv, TokenInv
  <2>2. /\ OnceSelected(fromStation')
        /\ m.select => \A i \in 1 .. Len(fromStation') :
                         fromStation'[i].select => fromStation'[i].cmd # m.cmd
    BY <1>1, <2>1, OnceTail
  <2> QED BY <1>1, <2>1, <2>2, TailMember
<1> HIDE DEF m
<1>3. ApartSelected(executed', fromStation')
  BY <1>1, <1>2 DEF OrderInv, TokenInv, ApartSelected
<1>4. \A i \in 1 .. Len(fromStation') :
        /\ fromStation'[i].ca = queue[fromStation'[i].cmd].req.ca
        /\ fromStation'[i].select => ~queue[fromStation'[i].cmd].cancelled
  BY <1>2 DEF OrderInv, ExactInv
<1>5. CASE toStation' = toStation
  <2>1. ApartSelected(toStation', fromStation')
    BY <1>2, <1>5 DEF OrderInv, TokenInv, ApartSelected
  <2>2. ExactInv'
    BY <1>1, <1>4, <1>5 DEF OrderInv, ExactInv
  <2> QED BY <1>1, <1>2, <1>3, <1>5, <2>1, <2>2 DEF OrderInv, TokenInv
<1>6. CASE /\ selectConfirmed(m) /\ lastSelected # None /\ lastSelected.ioa = m.ioa
           /\ toStation' = Append(toStation, x)
  <2>1. m.select
    BY <1>6 DEF selectConfirmed
  <2>2. /\ x \in Order /\ x.cmd = lastSelected.cmd /\ x.ca = m.ca
        /\ x.value = lastSelected.value
    BY <1>1, <1>6 DEF FlowInv, LineType, Order, Reply
  <2> HIDE DEF x
  <2>3. /\ Ref(queue, next, lastSelected) /\ queue[lastSelected.cmd].req.sbo
        /\ Ref(queue, next, m) /\ queue[m.cmd].req.sbo
    BY <1>1, <1>6, <2>1 DEF FlowInv, RefInv
  <2>4. lastSelected.cmd \in 1 .. Len(queue) /\ m.cmd \in 1 .. Len(queue)
    BY <2>3, LenProperties DEF FlowInv, QueueInv, Ref
  <2>5. queue[lastSelected.cmd].req \in Requests /\ queue[m.cmd].req \in Requests
    BY <2>4, EntryType DEF FlowInv, Entry
  <2>6. queue[lastSelected.cmd].req = queue[m.cmd].req
    BY <1>6, <2>3, <2>5 DEF SelectsApart, Ref
  <2>7. x.cmd = m.cmd
    BY <2>2, <2>4, <2>6 DEF FlowInv, QueueInv
  <2>8. Exact(queue, x) /\ ~queue[x.cmd].cancelled
    BY <1>1, <1>6, <2>1, <2>2, <2>7 DEF OrderInv, ExactInv, Exact
  <2>9. \A i \in 1 .. Len(toStation') :
          toStation'[i] = x \/ \E j \in 1 .. Len(toStation) : toStation'[i] = toStation[j]
    BY <1>6, <2>2, AppendMember DEF FlowInv, LineType
  <2>10. /\ \A i \in 1 .. Len(toStation) : toStation[i].cmd # x.cmd
         /\ \A i \in 1 .. Len(executed) : executed[i].cmd # x.cmd
    BY <1>1, <2>1, <2>7 DEF OrderInv, TokenInv, ApartSelected
  <2>11. Once(toStation')
    BY <1>6, <2>2, <2>10, OnceAppend DEF FlowInv, LineType, OrderInv, TokenInv
  <2>12. Apart(toStation', executed')
    BY <1>1, <2>9, <2>10 DEF OrderInv, TokenInv, Apart
  <2>13. ApartSelected(toStation', fromStation')
    BY <1>2, <2>1, <2>7, <2>9 DEF OrderInv, TokenInv, ApartSelected
  <2>14. ExactInv'
    BY <1>1, <1>4, <2>8, <2>9 DEF OrderInv, ExactInv
  <2> QED BY <1>1, <1>2, <1>3, <2>11, <2>12, <2>13, <2>14 DEF OrderInv, TokenInv
<1> QED BY <1>1, <1>5, <1>6 DEF Follows

\* Every step preserves it.
LEMMA NextOrder ==
    ASSUME SelectsApart, FlowInv, OrderInv, [Next]_vars
    PROVE  OrderInv'
<1>1. CASE UNCHANGED vars
  BY <1>1 DEF vars, OrderInv, ExactInv, TokenInv
<1>2. CASE LinkDown
  <2>1. /\ toStation' = <<>> /\ fromStation' = <<>>
        /\ UNCHANGED <<queue, lastSelected, executed>>
    BY <1>2 DEF LinkDown
  <2>2. Len(toStation') = 0 /\ Len(fromStation') = 0
    BY <2>1, EmptySeq
  <2>3. ExactInv'
    BY <2>1, <2>2 DEF OrderInv, ExactInv
  <2>4. TokenInv'
    BY <2>1, <2>2 DEF OrderInv, TokenInv, Once, OnceSelected, Apart, ApartSelected
  <2> QED BY <2>3, <2>4 DEF OrderInv
<1>3. CASE Next /\ UNCHANGED <<line, executed, lastSelected>>
  <2>1. Moves
    BY <1>3, NextFlow
  <2>2. lastSelected' # None => Exact(queue', lastSelected')
    BY <1>3, <2>1, ExactKept DEF FlowInv, RefInv, OrderInv, ExactInv
  <2> QED BY <1>3, <2>1, <2>2, OrderKept
<1>4. \/ UNCHANGED vars \/ LinkDown
      \/ Next /\ UNCHANGED <<line, executed, lastSelected>>
      \/ SendCommand \/ SendFails \/ StationRefuses
      \/ (\E t \in BOOLEAN : StationAccepts(t)) \/ HandleAsdu
  BY Zenon DEF Next, InsertCommand, Expire, PollAck, StreamBreaks, StreamReopens,
         IgnoreCommand, CancelCommand, Delivered, Switchover, LinkUp, WriteAck,
         WriteAckFails, driver
<1> QED BY <1>1, <1>2, <1>3, <1>4, SendOrder, StationOrder, HandleOrder

\* Nothing is on the line.
LEMMA InitOrder == Init => OrderInv
<1> SUFFICES ASSUME Init PROVE OrderInv
  OBVIOUS
<1>1. Len(toStation) = 0 /\ Len(fromStation) = 0 /\ Len(executed) = 0
  BY EmptySeq DEF Init
<1>2. ExactInv
  BY <1>1 DEF Init, ExactInv
<1>3. TokenInv
  BY <1>1 DEF TokenInv, Once, OnceSelected, Apart, ApartSelected
<1> QED BY <1>2, <1>3 DEF OrderInv

\* Where no two requests with a select are for one object number, whatever
\* fails, the station executes what was ordered, and no command twice: the
\* stream never goes back (StreamReopens), a select is confirmed once, and the
\* execute that follows is its own (ASDUHandler).  The run commands_twin shows
\* that two such requests break it.
THEOREM ExecutedOnceAsOrdered ==
    ASSUME SelectsApart
    PROVE  Spec => []ExecutedAsOrdered
<1>1. FlowInv /\ OrderInv /\ [Next]_vars => FlowInv' /\ OrderInv'
  BY NextFlow, StutterFlow, NextOrder
<1>2. FlowInv /\ OrderInv => ExecutedAsOrdered
  <2> SUFFICES ASSUME FlowInv, OrderInv, NEW c \in DOMAIN queue
               PROVE  /\ Cardinality(executionsOf(c)) <= 1
                      /\ \A i \in executionsOf(c) :
                           /\ executed[i].ca = queue[c].req.ca
                           /\ executed[i].ioa = queue[c].req.ioa
                           /\ executed[i].value = queue[c].req.value
    BY DEF ExecutedAsOrdered
  <2>1. DOMAIN executed = 1 .. Len(executed)
    BY LenProperties DEF FlowInv, LineType
  <2>2. \A i, j \in executionsOf(c) : i = j
    BY <2>1 DEF executionsOf, OrderInv, TokenInv, Once
  <2>3. Cardinality(executionsOf(c)) <= 1
    <3>1. CASE executionsOf(c) = {}
      BY <3>1, FS_EmptySet
    <3>2. ASSUME NEW i \in executionsOf(c) PROVE Cardinality(executionsOf(c)) <= 1
      <4>1. executionsOf(c) = {i}
        BY <2>2, <3>2
      <4>2. Cardinality({i}) = 1
        BY FS_Singleton
      <4> QED BY <4>1, <4>2
    <3> QED BY <3>1, <3>2
  <2> QED
    BY <2>1, <2>3 DEF executionsOf, FlowInv, RefInv, Ref, OrderInv, ExactInv, Exact
<1> QED BY <1>1, <1>2, InitFlow, InitOrder, PTL DEF Spec

\* Under the same condition a command that is marked cancelled was not executed
\* and will not be, although the execute of a command that could not be sent
\* stays stored (processCommand).
THEOREM CancelledForGood ==
    ASSUME SelectsApart
    PROVE  Spec => []CancelledNotExecuted
<1>1. FlowInv /\ OrderInv /\ [Next]_vars => FlowInv' /\ OrderInv'
  BY NextFlow, StutterFlow, NextOrder
<1>2. FlowInv /\ OrderInv => CancelledNotExecuted
  <2> SUFFICES ASSUME FlowInv, OrderInv, NEW c \in DOMAIN queue, queue[c].cancelled
               PROVE  executionsOf(c) = {}
    BY DEF CancelledNotExecuted
  <2>1. DOMAIN executed = 1 .. Len(executed)
    BY LenProperties DEF FlowInv, LineType
  <2> QED BY <2>1 DEF executionsOf, OrderInv, ExactInv
<1> QED BY <1>1, <1>2, InitFlow, InitOrder, PTL DEF Spec

-----------------------------------------------------------------------------
(* Good means executed: for a command without select whose object no other *)
(* request names, since a confirmation goes to the newest command of its   *)
(* object.                                                                 *)

DirectsAlone ==
    \A r, s \in Requests : ~r.sbo /\ r.ioa = s.ioa => r = s

Done(e, c) == \E i \in 1 .. Len(e) : e[i].cmd = c

\* Executions are never taken back.
LEMMA DoneKept ==
    ASSUME FlowInv, [Next]_vars
    PROVE  \A c : Done(executed, c) => Done(executed', c)
<1>1. CASE executed' = executed
  BY <1>1 DEF Done
<1>2. CASE \E t \in BOOLEAN : StationAccepts(t)
  <2>1. PICK p \in BOOLEAN : Answers(Head(toStation), p)
    BY <1>2, StationAnswers
  <2>2. Head(toStation) \in Order
    BY <1>2, TailElements DEF StationAccepts, FlowInv, LineType
  <2>3. executed' = executed \/ executed' = Append(executed, Head(toStation))
    BY <2>1 DEF Answers
  <2> DEFINE h == Head(toStation)
  <2> HIDE DEF h
  <2>4. CASE executed' = Append(executed, h)
    <3>1. /\ Len(executed') = Len(executed) + 1 /\ Len(executed) \in Nat
          /\ \A i \in 1 .. Len(executed) + 1 :
               executed'[i] = IF i <= Len(executed) THEN executed[i] ELSE h
      BY <2>2, <2>4, AppendElements DEF h, FlowInv, LineType
    <3> QED BY <3>1 DEF Done
  <2> QED BY <1>1, <2>3, <2>4 DEF h
<1>3. executed' = executed \/ \E t \in BOOLEAN : StationAccepts(t)
  BY Zenon DEF Next, InsertCommand, Expire, PollAck, StreamBreaks, StreamReopens,
         IgnoreCommand, CancelCommand, SendCommand, SendFails, Delivered, Switchover,
         LinkDown, LinkUp, StationRefuses, HandleAsdu, WriteAck, WriteAckFails, vars
<1> QED BY <1>1, <1>2, <1>3

\* A positive confirmation of a direct command, on the line or queued for the
\* writer, has its execution.
LineAck ==
    /\ \A i \in 1 .. Len(fromStation) :
         fromStation[i].positive /\ ~queue[fromStation[i].cmd].req.sbo
           => Done(executed, fromStation[i].cmd)
    /\ \A i \in 1 .. Len(ackQ) :
         ackQ[i].ack /\ ~queue[ackQ[i].cmd].req.sbo => Done(executed, ackQ[i].cmd)

\* So has one that is written or shown.
EntryAck ==
    \A c \in 1 .. Len(queue) :
        (queue[c].ack = TRUE \/ seen[c] = "good") /\ ~queue[c].req.sbo
          => Done(executed, c)

\* What the step keeps of a message's command.
LEMMA SboKept ==
    ASSUME QueueInv, Moves, NEW m, Ref(queue, next, m)
    PROVE  queue'[m.cmd].req = queue[m.cmd].req
<1>1. Len(queue) \in Nat
  BY LenProperties DEF QueueInv
<1> QED BY <1>1 DEF QueueInv, Moves, Kept, Ref

\* The station's answer is good only for what it executed.
LEMMA StationAck ==
    ASSUME FlowInv, LineAck, StationRefuses \/ \E t \in BOOLEAN : StationAccepts(t)
    PROVE  LineAck'
<1> DEFINE h == Head(toStation)
<1>1. toStation # <<>> /\ UNCHANGED <<queue, ackQ>>
  BY DEF StationRefuses, StationAccepts
<1>2. PICK p \in BOOLEAN : Answers(h, p)
  BY StationAnswers
<1> DEFINE c == con(h, p)
           d == [c EXCEPT !.con = FALSE]
           s == Append(fromStation, c)
<1>3. h \in Order /\ h = toStation[1] /\ 1 \in 1 .. Len(toStation)
  BY <1>1, TailElements DEF FlowInv, LineType
<1>4. c \in Reply /\ d \in Reply
  BY <1>1, ReplyType
<1>5. c.cmd = h.cmd /\ c.positive = p /\ d.cmd = h.cmd /\ d.positive = p
  BY <1>3 DEF con, Order
<1>6. /\ fromStation' = s \/ fromStation' = Append(s, d)
      /\ p /\ h.kind = "execute" => executed' = Append(executed, h)
  BY <1>2 DEF Answers
<1> HIDE DEF c, d, h
<1>7. \A k : Done(executed, k) => Done(executed', k)
  BY DoneKept DEF Next
<1>8. p /\ ~queue[h.cmd].req.sbo => Done(executed', h.cmd)
  <2> SUFFICES ASSUME p, ~queue[h.cmd].req.sbo PROVE Done(executed', h.cmd)
    OBVIOUS
  <2>1. h.kind = "execute"
    BY <1>3 DEF FlowInv, RefInv, Order
  <2>2. executed' = Append(executed, h)
    BY <1>6, <2>1
  <2>3. /\ Len(executed') = Len(executed) + 1 /\ Len(executed) \in Nat
        /\ executed'[Len(executed) + 1] = h
    BY <1>3, <2>2, AppendElements DEF FlowInv, LineType
  <2> QED BY <2>3 DEF Done
<1>9. /\ s \in Seq(Reply)
      /\ \A i \in 1 .. Len(s) :
           s[i] = c \/ \E j \in 1 .. Len(fromStation) : s[i] = fromStation[j]
  BY <1>4, AppendMember DEF FlowInv, LineType
<1> HIDE DEF s
<1>10. fromStation' = Append(s, d) =>
         \A i \in 1 .. Len(fromStation') :
           fromStation'[i] = d \/ \E j \in 1 .. Len(s) : fromStation'[i] = s[j]
  BY <1>4, <1>9, AppendMember
<1>11. \A i \in 1 .. Len(fromStation') :
         \/ fromStation'[i] \in {c, d}
         \/ \E j \in 1 .. Len(fromStation) : fromStation'[i] = fromStation[j]
  BY <1>6, <1>9, <1>10
<1>12. ASSUME NEW i \in 1 .. Len(fromStation'), fromStation'[i].positive,
              ~queue[fromStation'[i].cmd].req.sbo
       PROVE  Done(executed', fromStation'[i].cmd)
  <2>1. CASE fromStation'[i] \in {c, d}
    BY <1>5, <1>8, <1>12, <2>1
  <2>2. CASE \E j \in 1 .. Len(fromStation) : fromStation'[i] = fromStation[j]
    BY <1>7, <1>12, <2>2 DEF LineAck
  <2> QED BY <1>11, <2>1, <2>2
<1> QED BY <1>1, <1>7, <1>12 DEF LineAck

\* A confirmation goes to the writer.
LEMMA HandleAck ==
    ASSUME FlowInv, LineAck, HandleAsdu
    PROVE  LineAck'
<1> DEFINE m == Head(fromStation)
           a == [ioa |-> m.ioa, ack |-> m.positive, cmd |-> m.cmd]
<1>1. /\ m \in Reply /\ m = fromStation[1] /\ 1 \in 1 .. Len(fromStation)
      /\ fromStation # <<>> /\ fromStation' = Tail(fromStation)
      /\ ackQ' = Append(ackQ, a) /\ UNCHANGED <<queue, executed>>
  BY HandleFollows
<1>2. a \in Answer /\ a.cmd = m.cmd /\ a.ack = m.positive
  BY <1>1 DEF Reply, Answer
<1> HIDE DEF m, a
<1>3. \A i \in 1 .. Len(ackQ') :
        ackQ'[i] = a \/ \E j \in 1 .. Len(ackQ) : ackQ'[i] = ackQ[j]
  BY <1>1, <1>2, AppendMember DEF FlowInv, LineType
<1>4. \A i \in 1 .. Len(fromStation') :
        \E j \in 1 .. Len(fromStation) : fromStation'[i] = fromStation[j]
  BY <1>1, TailMember DEF FlowInv, LineType
<1>5. a.ack /\ ~queue[a.cmd].req.sbo => Done(executed, a.cmd)
  BY <1>1, <1>2 DEF LineAck
<1>6. \A i \in 1 .. Len(ackQ') :
        ackQ'[i].ack /\ ~queue[ackQ'[i].cmd].req.sbo => Done(executed, ackQ'[i].cmd)
  BY <1>3, <1>5 DEF LineAck
<1>7. \A i \in 1 .. Len(fromStation') :
        fromStation'[i].positive /\ ~queue[fromStation'[i].cmd].req.sbo
          => Done(executed, fromStation'[i].cmd)
  BY <1>4 DEF LineAck
<1> QED BY <1>1, <1>6, <1>7 DEF LineAck

\* Where the line back and the answers only shrink.
LEMMA ShrinkAck ==
    ASSUME FlowInv, LineAck, Moves, executed' = executed,
           fromStation' = fromStation \/ fromStation' = <<>>,
           ackQ' = ackQ \/ (ackQ # <<>> /\ ackQ' = Tail(ackQ))
    PROVE  LineAck'
<1>1. \A i \in 1 .. Len(ackQ') : \E j \in 1 .. Len(ackQ) : ackQ'[i] = ackQ[j]
  <2>1. CASE ackQ' = ackQ
    BY <2>1
  <2>2. CASE ackQ # <<>> /\ ackQ' = Tail(ackQ)
    BY <2>2, TailMember DEF FlowInv, LineType
  <2> QED BY <2>1, <2>2
<1>2. \A i \in 1 .. Len(fromStation') :
        \E j \in 1 .. Len(fromStation) : fromStation'[i] = fromStation[j]
  BY EmptySeq
<1>3. ASSUME NEW i \in 1 .. Len(ackQ'), ackQ'[i].ack,
             ~queue'[ackQ'[i].cmd].req.sbo
      PROVE  Done(executed, ackQ'[i].cmd)
  <2>1. PICK j \in 1 .. Len(ackQ) : ackQ'[i] = ackQ[j]
    BY <1>1
  <2>2. queue'[ackQ[j].cmd].req = queue[ackQ[j].cmd].req
    BY SboKept DEF FlowInv, RefInv
  <2> QED BY <1>3, <2>1, <2>2 DEF LineAck
<1>4. ASSUME NEW i \in 1 .. Len(fromStation'), fromStation'[i].positive,
             ~queue'[fromStation'[i].cmd].req.sbo
      PROVE  Done(executed, fromStation'[i].cmd)
  <2>1. PICK j \in 1 .. Len(fromStation) : fromStation'[i] = fromStation[j]
    BY <1>2
  <2>2. queue'[fromStation[j].cmd].req = queue[fromStation[j].cmd].req
    BY SboKept DEF FlowInv, RefInv
  <2> QED BY <1>4, <2>1, <2>2 DEF LineAck
<1> QED BY <1>3, <1>4 DEF LineAck

\* The answer of a direct command goes to that command.
LEMMA WriteEntryAck ==
    ASSUME DirectsAlone, FlowInv, LineAck, EntryAck, WriteAck
    PROVE  EntryAck'
<1> DEFINE a == Head(ackQ)
<1>1. /\ a \in Answer /\ a = ackQ[1] /\ 1 \in 1 .. Len(ackQ)
      /\ UNCHANGED <<executed, seen>>
  BY TailElements DEF WriteAck, FlowInv, LineType
<1>2. Ref(queue, next, a)
  BY <1>1 DEF FlowInv, RefInv
<1>3. Len(queue) \in Nat /\ DOMAIN queue = 1 .. Len(queue)
  BY LenProperties DEF FlowInv, QueueInv
<1>4. queue' = [c \in 1 .. Len(queue) |->
                  IF c \in acked(a) THEN [queue[c] EXCEPT !.ack = a.ack]
                  ELSE queue[c]]
  BY <1>3 DEF WriteAck
<1>5. Len(queue') = Len(queue)
  BY AckQueue DEF FlowInv
<1> HIDE DEF a
<1>6. ASSUME NEW c \in 1 .. Len(queue), queue'[c].ack = TRUE, ~queue'[c].req.sbo
      PROVE  Done(executed, c)
  <2>1. queue[c] \in Entry /\ queue'[c] = IF c \in acked(a)
                                          THEN [queue[c] EXCEPT !.ack = a.ack]
                                          ELSE queue[c]
    BY <1>4, EntryType DEF FlowInv
  <2>2. CASE c \in acked(a)
    <3>1. queue'[c].ack = a.ack /\ queue'[c].req = queue[c].req
      BY <2>1, <2>2 DEF Entry
    <3>2. queue[c].req.ioa = a.ioa
      BY <2>2 DEF acked
    <3>3. a.cmd \in 1 .. Len(queue) /\ queue[a.cmd].req.ioa = a.ioa
      BY <1>2, <1>3 DEF Ref, FlowInv, QueueInv
    <3>4. queue[c].req \in Requests /\ queue[a.cmd].req \in Requests
      BY <3>3, EntryType DEF FlowInv, Entry
    <3>5. queue[c].req = queue[a.cmd].req
      BY <1>6, <3>1, <3>2, <3>3, <3>4 DEF DirectsAlone
    <3>6. c = a.cmd
      BY <3>3, <3>5 DEF FlowInv, QueueInv
    <3> QED BY <1>1, <1>6, <3>1, <3>6 DEF LineAck
  <2>3. CASE c \notin acked(a)
    BY <1>6, <2>1, <2>3 DEF EntryAck
  <2> QED BY <2>2, <2>3
<1>7. \A c \in 1 .. Len(queue) : queue'[c].req = queue[c].req
  BY AckQueue DEF FlowInv, Kept
<1> QED BY <1>1, <1>5, <1>6, <1>7 DEF EntryAck

\* A step that neither writes an answer nor shows one.
LEMMA SameEntryAck ==
    ASSUME FlowInv, EntryAck, \A c : Done(executed, c) => Done(executed', c),
           Len(queue') = Len(queue), seen' = seen,
           \A c \in 1 .. Len(queue) :
             queue'[c].ack = queue[c].ack /\ queue'[c].req = queue[c].req
    PROVE  EntryAck'
  BY DEF EntryAck

\* No step makes an entry good whose command was not executed.
LEMMA NextEntryAck ==
    ASSUME DirectsAlone, FlowInv, LineAck, EntryAck, Next
    PROVE  EntryAck'
<1>0. /\ Len(queue) \in Nat /\ DOMAIN queue = 1 .. Len(queue)
      /\ \A c : Done(executed, c) => Done(executed', c)
  BY LenProperties, DoneKept DEF FlowInv, QueueInv
<1>1. ASSUME NEW r \in Requests, InsertCommand(r) PROVE EntryAck'
  <2> DEFINE e == [req |-> r, old |-> FALSE, delivered |-> FALSE, ack |-> None,
                   cancelled |-> FALSE]
  <2>1. e \in Entry /\ e.ack # TRUE
    BY RequestAssumption DEF Entry
  <2>2. queue' = Append(queue, e) /\ seen' = Append(seen, "waiting") /\ executed' = executed
    BY <1>1 DEF InsertCommand
  <2> HIDE DEF e
  <2>3. /\ Len(queue') = Len(queue) + 1
        /\ \A c \in 1 .. Len(queue) + 1 :
             queue'[c] = IF c <= Len(queue) THEN queue[c] ELSE e
    BY <2>1, <2>2, AppendElements DEF FlowInv, QueueInv
  <2>4. \A c \in 1 .. Len(queue) + 1 :
          seen'[c] = IF c <= Len(queue) THEN seen[c] ELSE "waiting"
    BY <2>2, AppendElements DEF FlowInv, QueueInv, Outcome
  <2>5. ASSUME NEW c \in 1 .. Len(queue'), queue'[c].ack = TRUE \/ seen'[c] = "good",
               ~queue'[c].req.sbo
        PROVE  Done(executed, c)
    <3>1. c <= Len(queue) /\ c \in 1 .. Len(queue)
      <4>1. c \in 1 .. Len(queue) + 1
        BY <2>3
      <4>2. ASSUME ~(c <= Len(queue)) PROVE FALSE
        <5>1. queue'[c] = e /\ seen'[c] = "waiting"
          BY <2>3, <2>4, <4>1, <4>2
        <5>2. e.ack = TRUE
          BY <2>5, <5>1
        <5> QED BY <2>1, <5>2
      <4> QED BY <1>0, <4>1, <4>2
    <3>2. queue'[c] = queue[c] /\ seen'[c] = seen[c]
      BY <2>3, <2>4, <3>1
    <3> QED BY <2>5, <3>1, <3>2 DEF EntryAck
  <2> QED BY <2>2, <2>5 DEF EntryAck
<1>2. ASSUME NEW c \in 1 .. Len(queue), PollAck(c) PROVE EntryAck'
  <2>1. /\ UNCHANGED <<queue, executed>>
        /\ seen' = [seen EXCEPT ![c] = IF queue[c].ack = TRUE THEN "good" ELSE "bad"]
    BY <1>2 DEF PollAck
  <2>2. DOMAIN seen = 1 .. Len(queue)
    BY LenProperties DEF FlowInv, QueueInv
  <2>3. \A d \in 1 .. Len(queue) :
          seen'[d] = "good" => seen[d] = "good" \/ (d = c /\ queue[c].ack = TRUE)
    BY <2>1, <2>2
  <2> QED BY <2>1, <2>3 DEF EntryAck
<1>3. CASE WriteAck
  BY <1>3, WriteEntryAck
<1>4. ASSUME NEW c \in 1 .. Len(queue), NEW field \in {"old", "delivered", "cancelled"},
             Marks(c, field), seen' = seen
      PROVE  EntryAck'
  BY <1>0, <1>4, MarkedEntry, SameEntryAck DEF FlowInv
<1>5. CASE UNCHANGED <<queue, seen>>
  BY <1>0, <1>5, SameEntryAck
<1>6. ASSUME Delivered,
             queue' = queue
               \/ \E field \in {"old", "delivered", "cancelled"} : Marks(next, field)
      PROVE  EntryAck'
  <2>1. next \in 1 .. Len(queue) /\ seen' = seen
    BY <1>6 DEF Delivered, FlowInv, QueueInv
  <2> QED BY <1>4, <1>5, <1>6, <2>1
<1>7. ASSUME NEW c \in 1 .. Len(queue), Expire(c) PROVE EntryAck'
  <2>1. Marks(c, "old") /\ seen' = seen
    BY <1>7, Zenon DEF Expire, Marks
  <2> QED BY <1>4, <2>1
<1>8. CASE CancelCommand \/ SendCommand \/ SendFails
  <2>1. /\ Delivered
        /\ queue' = queue
             \/ \E field \in {"old", "delivered", "cancelled"} : Marks(next, field)
    BY <1>8, Zenon DEF CancelCommand, SendCommand, SendFails, setResult, Marks
  <2> QED BY <1>6, <2>1
<1>9. \/ UNCHANGED <<queue, seen>> \/ WriteAck
      \/ CancelCommand \/ SendCommand \/ SendFails
      \/ \E r \in Requests : InsertCommand(r)
      \/ \E c \in DOMAIN queue : Expire(c) \/ PollAck(c)
  BY Zenon DEF Next, StreamBreaks, StreamReopens, IgnoreCommand, Delivered, Switchover,
         LinkDown, LinkUp, StationRefuses, StationAccepts, HandleAsdu, WriteAckFails
<1> QED BY <1>0, <1>1, <1>2, <1>3, <1>5, <1>7, <1>8, <1>9

\* Every step keeps both halves: what the line says, and what entries say.
LEMMA NextAck ==
    ASSUME DirectsAlone, FlowInv, LineAck, EntryAck, [Next]_vars
    PROVE  LineAck' /\ EntryAck'
<1>1. CASE UNCHANGED vars
  BY <1>1 DEF vars, LineAck, EntryAck
<1>2. CASE Next
  <2>1. EntryAck'
    BY <1>2, NextEntryAck
  <2>2. \/ StationRefuses \/ (\E t \in BOOLEAN : StationAccepts(t)) \/ HandleAsdu
        \/ /\ executed' = executed
           /\ fromStation' = fromStation \/ fromStation' = <<>>
           /\ ackQ' = ackQ \/ (ackQ # <<>> /\ ackQ' = Tail(ackQ))
    BY <1>2, Zenon DEF Next, InsertCommand, Expire, PollAck, StreamBreaks, StreamReopens,
           IgnoreCommand, CancelCommand, SendCommand, SendFails, Delivered, Switchover,
           LinkDown, LinkUp, WriteAck, WriteAckFails, line
  <2>3. Moves
    BY <1>2, NextFlow
  <2>4. LineAck'
    BY <2>2, <2>3, StationAck, HandleAck, ShrinkAck
  <2> QED BY <2>1, <2>4
<1> QED BY <1>1, <1>2

\* Nothing was confirmed.
LEMMA InitAck == Init => LineAck /\ EntryAck
  BY EmptySeq DEF Init, LineAck, EntryAck

\* Where the object of a command without select is in no other request, the
\* display shows such a command as good only if the station executed it: the
\* confirmation comes from its own execute and is written to its own entry
\* (acked), through all the faults.
THEOREM GoodIsExecuted ==
    ASSUME DirectsAlone
    PROVE  Spec => []GoodMeansExecuted
<1> DEFINE Inv == FlowInv /\ LineAck /\ EntryAck
<1>1. Inv /\ [Next]_vars => Inv'
  BY NextFlow, StutterFlow, NextAck
<1>2. Inv => GoodMeansExecuted
  <2> SUFFICES ASSUME Inv, NEW c \in DOMAIN queue, seen[c] = "good", ~queue[c].req.sbo
               PROVE  executionsOf(c) # {}
    BY DEF GoodMeansExecuted
  <2>1. DOMAIN executed = 1 .. Len(executed) /\ DOMAIN queue = 1 .. Len(queue)
    BY LenProperties DEF FlowInv, LineType, QueueInv
  <2> QED BY <2>1 DEF EntryAck, Done, executionsOf
<1>3. Init => Inv
  BY InitFlow, InitAck
<1> QED BY <1>1, <1>2, <1>3, PTL DEF Spec

-----------------------------------------------------------------------------
(* The command path implements CommandContract, where no two requests are  *)
(* for one object.                                                         *)

States == {"queued", "refused", "away"}
Deeds == [cmd : Nat, ca : Addresses, ioa : Objects, value : {r.value : r \in Requests}]

\* A function on 1 .. n is a sequence of n elements.
LEMMA FunctionIsSeq ==
    ASSUME NEW S, NEW n \in Nat, NEW f \in [1 .. n -> S]
    PROVE  f \in Seq(S) /\ Len(f) = n
<1>1. f \in Seq(S) /\ DOMAIN f = 1 .. n
  OBVIOUS
<1> QED BY <1>1, LenProperties

\* What the contract sees of a state.
Mapping ==
    /\ Len(queue) \in Nat /\ DOMAIN queue = 1 .. Len(queue)
    /\ ordersOf \in Seq(Requests) /\ Len(ordersOf) = Len(queue)
    /\ DOMAIN ordersOf = 1 .. Len(queue)
    /\ \A c \in 1 .. Len(queue) : ordersOf[c] = queue[c].req
    /\ stateOf \in Seq(States) /\ Len(stateOf) = Len(queue)
    /\ DOMAIN stateOf = 1 .. Len(queue)
    /\ \A c \in 1 .. Len(queue) :
         stateOf[c] = IF c >= next THEN "queued"
                      ELSE IF queue[c].cancelled THEN "refused" ELSE "away"

\* The contract's variables are well typed under the mapping.
LEMMA MappingHolds == FlowInv => Mapping
<1> SUFFICES ASSUME FlowInv PROVE Mapping
  OBVIOUS
<1>1. Len(queue) \in Nat /\ DOMAIN queue = 1 .. Len(queue)
  BY LenProperties DEF FlowInv, QueueInv
<1>2. \A c \in 1 .. Len(queue) : queue[c].req \in Requests
  BY EntryType DEF FlowInv, Entry
<1>3. ordersOf \in [1 .. Len(queue) -> Requests]
  BY <1>1, <1>2 DEF ordersOf
<1>4. stateOf \in [1 .. Len(queue) -> States]
  BY <1>1 DEF stateOf, States
<1>5. /\ \A c \in 1 .. Len(queue) : ordersOf[c] = queue[c].req
      /\ \A c \in 1 .. Len(queue) :
           stateOf[c] = IF c >= next THEN "queued"
                        ELSE IF queue[c].cancelled THEN "refused" ELSE "away"
  BY <1>1 DEF ordersOf, stateOf
<1>6. ordersOf \in Seq(Requests) /\ Len(ordersOf) = Len(queue)
  BY <1>1, <1>3, FunctionIsSeq
<1>7. stateOf \in Seq(States) /\ Len(stateOf) = Len(queue)
  BY <1>1, <1>4, FunctionIsSeq
<1> QED BY <1>1, <1>3, <1>4, <1>5, <1>6, <1>7 DEF Mapping

\* The same in the next state.
LEMMA MappingNext == FlowInv' => Mapping'
  BY MappingHolds, PTL

\* What it sees of the executions.
LEMMA MappedDeeds ==
    ASSUME FlowInv
    PROVE  /\ performedOf \in Seq(Deeds) /\ Len(performedOf) = Len(executed)
           /\ DOMAIN performedOf = 1 .. Len(executed) /\ Len(executed) \in Nat
           /\ \A i \in 1 .. Len(executed) : performedOf[i].cmd = executed[i].cmd
<1>1. Len(executed) \in Nat /\ DOMAIN executed = 1 .. Len(executed)
  BY LenProperties DEF FlowInv, LineType
<1>2. \A i \in 1 .. Len(executed) : executed[i] \in Order
  BY ElementOfSeq DEF FlowInv, LineType
<1>3. \A i \in 1 .. Len(executed) :
        [cmd |-> executed[i].cmd, ca |-> executed[i].ca,
         ioa |-> executed[i].ioa, value |-> executed[i].value] \in Deeds
  BY <1>2 DEF Order, Deeds
<1>4. performedOf \in [1 .. Len(executed) -> Deeds]
  BY <1>1, <1>3 DEF performedOf
<1>5. performedOf \in Seq(Deeds) /\ Len(performedOf) = Len(executed)
  BY <1>1, <1>4, FunctionIsSeq
<1> QED BY <1>1, <1>4, <1>5 DEF performedOf

\* The same requests, outcomes and place in the stream look the same.
LEMMA SameMapped ==
    ASSUME Mapping, Mapping', Len(queue') = Len(queue),
           \A c \in 1 .. Len(queue) : queue'[c].req = queue[c].req
    PROVE  /\ ordersOf' = ordersOf
           /\ (/\ next' = next
               /\ \A c \in 1 .. Len(queue) : queue'[c].cancelled <=> queue[c].cancelled)
              => stateOf' = stateOf
<1>1. ordersOf' = ordersOf
  <2>1. /\ ordersOf \in Seq(Requests) /\ ordersOf' \in Seq(Requests)
        /\ Len(ordersOf') = Len(ordersOf)
        /\ \A c \in 1 .. Len(ordersOf) : ordersOf'[c] = ordersOf[c]
    BY DEF Mapping
  <2> QED BY <2>1, SeqEqual
<1>2. ASSUME next' = next,
             \A c \in 1 .. Len(queue) : queue'[c].cancelled <=> queue[c].cancelled
      PROVE  stateOf' = stateOf
  BY <1>2, SeqEqual DEF Mapping
<1> QED BY <1>1, <1>2

\* A new command is a new order.
LEMMA InsertRefines ==
    ASSUME FlowInv, FlowInv', NEW r \in Requests, InsertCommand(r)
    PROVE  Contract!Order(r)
<1> DEFINE e == [req |-> r, old |-> FALSE, delivered |-> FALSE, ack |-> None,
                 cancelled |-> FALSE]
<1>1. Mapping /\ Mapping'
  BY MappingHolds, MappingNext
<1>2. /\ queue' = Append(queue, e) /\ seen' = Append(seen, "waiting")
      /\ executed' = executed /\ next' = next
  BY DEF InsertCommand, driver
<1>3. e \in Entry /\ e.req = r
  BY DEF Entry
<1> HIDE DEF e
<1>4. /\ Len(queue') = Len(queue) + 1
      /\ \A c \in 1 .. Len(queue) + 1 :
           queue'[c] = IF c <= Len(queue) THEN queue[c] ELSE e
  BY <1>2, <1>3, AppendElements DEF FlowInv, QueueInv
<1>5. ordersOf' = Append(ordersOf, r)
  <2>1. /\ Append(ordersOf, r) \in Seq(Requests)
        /\ Len(Append(ordersOf, r)) = Len(queue) + 1
        /\ \A c \in 1 .. Len(queue) + 1 :
             Append(ordersOf, r)[c] = IF c <= Len(queue) THEN queue[c].req ELSE r
    BY <1>1, AppendElements DEF Mapping
  <2>2. \A c \in 1 .. Len(queue) + 1 : ordersOf'[c] = Append(ordersOf, r)[c]
    BY <1>1, <1>3, <1>4, <2>1 DEF Mapping
  <2> QED BY <1>1, <1>4, <2>1, <2>2, SeqEqual DEF Mapping
<1>6. stateOf' = Append(stateOf, "queued")
  <2>1. "queued" \in States
    BY DEF States
  <2>2. /\ Append(stateOf, "queued") \in Seq(States)
        /\ Len(Append(stateOf, "queued")) = Len(queue) + 1
        /\ \A c \in 1 .. Len(queue) + 1 :
             Append(stateOf, "queued")[c] = IF c <= Len(queue) THEN stateOf[c] ELSE "queued"
    BY <1>1, <2>1, AppendElements DEF Mapping
  <2>3. Len(queue) + 1 >= next
    BY DEF FlowInv, QueueInv
  <2>4. \A c \in 1 .. Len(queue) + 1 : stateOf'[c] = Append(stateOf, "queued")[c]
    BY <1>1, <1>2, <1>4, <2>2, <2>3 DEF Mapping
  <2> QED BY <1>1, <1>4, <2>2, <2>4, SeqEqual DEF Mapping
<1>7. performedOf' = performedOf
  BY <1>2 DEF performedOf
<1> QED BY <1>2, <1>5, <1>6, <1>7 DEF Contract!Order

\* The stream comes to an entry, and passes those before it.
LEMMA PassRefines ==
    ASSUME FlowInv, FlowInv', UNCHANGED <<seen, executed>>, Len(queue') = Len(queue),
           NEW n \in 1 .. Len(queue), next <= n, next' = n + 1,
           \A c \in 1 .. Len(queue) :
             /\ queue'[c].req = queue[c].req
             /\ c # n => queue'[c] = queue[c]
    PROVE  \E s \in {"refused", "away"} : Contract!PickUp(n, s)
<1>1. Mapping /\ Mapping'
  BY MappingHolds, MappingNext
<1> DEFINE s == IF queue'[n].cancelled THEN "refused" ELSE "away"
           f == [d \in DOMAIN stateOf |->
                   IF d = n THEN s
                   ELSE IF d < n /\ stateOf[d] = "queued" THEN "away" ELSE stateOf[d]]
<1>2. stateOf[n] = "queued"
  BY <1>1 DEF Mapping
<1>3. ordersOf' = ordersOf /\ performedOf' = performedOf
  BY <1>1, SameMapped DEF performedOf
<1>4. stateOf' = f
  <2>1. f \in [1 .. Len(queue) -> States]
    BY <1>1, ElementOfSeq DEF Mapping, States
  <2>2. f \in Seq(States) /\ Len(f) = Len(queue)
    BY <1>1, <2>1, FunctionIsSeq DEF Mapping
  <2>3. ASSUME NEW d \in 1 .. Len(queue) PROVE stateOf'[d] = f[d]
    <3>1. next \in Nat /\ f[d] = IF d = n THEN s
                                 ELSE IF d < n /\ stateOf[d] = "queued" THEN "away"
                                 ELSE stateOf[d]
      BY <1>1 DEF Mapping, FlowInv, QueueInv
    <3>2. /\ stateOf'[d] = IF d >= n + 1 THEN "queued"
                           ELSE IF queue'[d].cancelled THEN "refused" ELSE "away"
          /\ stateOf[d] = IF d >= next THEN "queued"
                          ELSE IF queue[d].cancelled THEN "refused" ELSE "away"
      BY <1>1 DEF Mapping
    <3> HIDE DEF f
    <3>3. d >= next => ~queue[d].cancelled
      BY DEF FlowInv, QueueInv
    <3>4. CASE d = n
      BY <3>1, <3>2, <3>4
    <3>5. CASE d # n
      BY <3>1, <3>2, <3>3, <3>5
    <3> QED BY <3>4, <3>5
  <2> HIDE DEF f
  <2> QED BY <1>1, <2>2, <2>3, SeqEqual DEF Mapping
<1>5. Contract!PickUp(n, s)
  BY <1>2, <1>3, <1>4 DEF Contract!PickUp
<1> QED BY <1>5

\* The station performs a command.
LEMMA PerformRefines ==
    ASSUME FlowInv, FlowInv', OrderInv, UNCHANGED <<queue, next, seen>>,
           toStation # <<>>, executed' = Append(executed, Head(toStation))
    PROVE  \E c \in 1 .. Len(queue) : Contract!Perform(c)
<1> DEFINE h == Head(toStation)
           c == h.cmd
           deed == [cmd |-> c, ca |-> ordersOf[c].ca, ioa |-> ordersOf[c].ioa,
                    value |-> ordersOf[c].value]
<1>1. Mapping
  BY MappingHolds
<1>2. h \in Order /\ h = toStation[1] /\ 1 \in 1 .. Len(toStation)
  BY TailElements DEF FlowInv, LineType
<1> HIDE DEF h
<1>3. /\ c \in 1 .. Len(queue) /\ c < next
      /\ h.ca = ordersOf[c].ca /\ h.ioa = ordersOf[c].ioa /\ h.value = ordersOf[c].value
      /\ ~queue[c].cancelled
  <2>1. Ref(queue, next, h) /\ Exact(queue, h) /\ ~queue[c].cancelled
    BY <1>2 DEF FlowInv, RefInv, OrderInv, ExactInv
  <2>2. c \in 1 .. Len(queue) /\ c < next
    BY <1>1, <2>1 DEF Ref, FlowInv, QueueInv, Mapping
  <2> QED BY <1>1, <2>1, <2>2 DEF Ref, Exact, Mapping
<1>4. stateOf[c] = "away"
  <2>1. ~(c >= next)
    BY <1>3 DEF FlowInv, QueueInv
  <2> QED BY <1>1, <1>3, <2>1 DEF Mapping
<1>5. ~Contract!Performed(c)
  <2>1. \A i \in 1 .. Len(executed) : executed[i].cmd # c
    BY <1>2 DEF OrderInv, TokenInv, Apart
  <2> QED BY <2>1, MappedDeeds DEF Contract!Performed
<1>6. performedOf' = Append(performedOf, deed)
  <2>1. /\ Len(executed') = Len(executed) + 1 /\ Len(executed) \in Nat
        /\ DOMAIN executed' = 1 .. Len(executed) + 1
        /\ DOMAIN executed = 1 .. Len(executed)
        /\ \A i \in 1 .. Len(executed) + 1 :
             executed'[i] = IF i <= Len(executed) THEN executed[i] ELSE h
    BY <1>2, AppendElements DEF h, FlowInv, LineType
  <2>2. deed = [cmd |-> h.cmd, ca |-> h.ca, ioa |-> h.ioa, value |-> h.value]
    BY <1>3
  <2>3. deed \in Deeds
    BY <1>2, <2>2 DEF Order, Deeds
  <2>4. \A i \in 1 .. Len(executed) + 1 :
          performedOf'[i] = IF i <= Len(executed) THEN performedOf[i] ELSE deed
    BY <2>1, <2>2 DEF performedOf
  <2> HIDE DEF deed
  <2>5. DOMAIN performedOf' = 1 .. Len(executed) + 1
    BY <2>1 DEF performedOf
  <2>6. /\ performedOf \in Seq(Deeds) /\ Len(performedOf) = Len(executed)
        /\ \A i \in 1 .. Len(executed) : performedOf[i] \in Deeds
    BY MappedDeeds, ElementOfSeq
  <2>7. performedOf' \in [1 .. Len(executed) + 1 -> Deeds]
    <3>1. performedOf' = [i \in 1 .. Len(executed) + 1 |-> performedOf'[i]]
      BY <2>1 DEF performedOf
    <3>2. \A i \in 1 .. Len(executed) + 1 : performedOf'[i] \in Deeds
      BY <2>1, <2>3, <2>4, <2>6
    <3> QED BY <3>1, <3>2
  <2>8. performedOf' \in Seq(Deeds) /\ Len(performedOf') = Len(executed) + 1
    BY <2>1, <2>7, FunctionIsSeq
  <2>9. /\ Append(performedOf, deed) \in Seq(Deeds)
        /\ Len(Append(performedOf, deed)) = Len(executed) + 1
        /\ \A i \in 1 .. Len(executed) + 1 :
             Append(performedOf, deed)[i] =
               IF i <= Len(executed) THEN performedOf[i] ELSE deed
    BY <2>3, <2>6, AppendElements
  <2> QED BY <2>4, <2>8, <2>9, SeqEqual
<1>7. ordersOf' = ordersOf /\ stateOf' = stateOf
  BY DEF ordersOf, stateOf
<1>8. Contract!Perform(c)
  BY <1>4, <1>5, <1>6, <1>7 DEF Contract!Perform, Contract!Deed
<1> QED BY <1>3, <1>8

\* The display shows an outcome.
LEMMA ShowRefines ==
    ASSUME FlowInv, EntryAck, NEW c \in 1 .. Len(queue), PollAck(c)
    PROVE  \E s \in {"good", "bad"} : Contract!Show(c, s)
<1> DEFINE s == IF queue[c].ack = TRUE THEN "good" ELSE "bad"
<1>1. /\ seen[c] = "waiting" /\ seen' = [seen EXCEPT ![c] = s]
      /\ UNCHANGED <<queue, next, executed>>
  BY DEF PollAck, driver
<1>2. ordersOf' = ordersOf /\ stateOf' = stateOf /\ performedOf' = performedOf
  BY <1>1 DEF ordersOf, stateOf, performedOf
<1>3. ASSUME s = "good", ~ordersOf[c].sbo PROVE Contract!Performed(c)
  <2>1. ordersOf[c] = queue[c].req
    BY MappingHolds DEF Mapping
  <2>2. Done(executed, c)
    BY <1>3, <2>1 DEF EntryAck
  <2> QED BY <2>2, MappedDeeds DEF Done, Contract!Performed
<1>4. s \in {"good", "bad"}
  OBVIOUS
<1> HIDE DEF s
<1>5. Contract!Show(c, s)
  BY <1>1, <1>2, <1>3, <1>4 DEF Contract!Show
<1> QED BY <1>4, <1>5

\* All the contract asks the invariants for.
ContractInv == FlowInv /\ OrderInv /\ LineAck /\ EntryAck

\* Every step is a step of the contract or leaves what it sees alone.
LEMMA StepRefines ==
    ASSUME ContractInv, FlowInv', Next
    PROVE  Contract!Next \/ UNCHANGED Contract!vars
<1> USE DEF ContractInv
<1>0. Mapping /\ Mapping' /\ Len(queue) \in Nat /\ next \in 1 .. Len(queue) + 1
  BY MappingHolds, MappingNext DEF Mapping, FlowInv, QueueInv
<1>1. ASSUME NEW r \in Requests, InsertCommand(r) PROVE Contract!Next
  BY <1>1, InsertRefines DEF Contract!Next
<1>2. ASSUME NEW c \in 1 .. Len(queue), PollAck(c) PROVE Contract!Next
  <2>1. \E s \in {"good", "bad"} : Contract!Show(c, s)
    BY <1>2, ShowRefines
  <2> QED BY <1>0, <2>1 DEF Mapping, Contract!Next
<1>3. ASSUME UNCHANGED <<queue, next, seen, executed>>
      PROVE  UNCHANGED Contract!vars
  BY <1>3 DEF Contract!vars, ordersOf, stateOf, performedOf
<1>4. ASSUME NEW n \in 1 .. Len(queue), \E s \in {"refused", "away"} : Contract!PickUp(n, s)
      PROVE  Contract!Next
  BY <1>0, <1>4 DEF Mapping, Contract!Next
<1>5. ASSUME NEW c \in 1 .. Len(queue), Expire(c) PROVE UNCHANGED Contract!vars
  <2>1. Marks(c, "old") /\ UNCHANGED <<next, seen, executed>>
    BY <1>5, Zenon DEF Expire, Marks, driver
  <2>2. /\ Len(queue') = Len(queue)
        /\ \A d \in 1 .. Len(queue) : queue'[d].req = queue[d].req
        /\ \A d \in 1 .. Len(queue) : queue'[d].cancelled <=> queue[d].cancelled
    BY <2>1, MarkedEntry DEF FlowInv
  <2>3. ordersOf' = ordersOf /\ stateOf' = stateOf
    BY <1>0, <2>1, <2>2, SameMapped
  <2> QED BY <2>1, <2>3 DEF Contract!vars, performedOf
<1>6. CASE WriteAck
  <2>1. Kept /\ Len(queue') = Len(queue) /\ UNCHANGED <<next, seen, executed>>
    BY <1>6, AckQueue DEF FlowInv, WriteAck, driver
  <2>2. \A d \in 1 .. Len(queue) : queue'[d].cancelled <=> queue[d].cancelled
    <3>1. queue' = [c \in 1 .. Len(queue) |->
                     IF c \in acked(Head(ackQ))
                     THEN [queue[c] EXCEPT !.ack = Head(ackQ).ack] ELSE queue[c]]
      BY <1>0, <1>6 DEF WriteAck, Mapping
    <3>2. \A d \in 1 .. Len(queue) : queue[d] \in Entry
      BY EntryType DEF FlowInv
    <3> QED BY <1>0, <3>1, <3>2 DEF Entry, Mapping
  <2>3. Len(queue') = Len(queue) /\ \A d \in 1 .. Len(queue) : queue'[d].req = queue[d].req
    BY <2>1 DEF Kept
  <2>4. ordersOf' = ordersOf /\ stateOf' = stateOf
    BY <1>0, <2>1, <2>2, <2>3, SameMapped
  <2> QED BY <2>1, <2>4 DEF Contract!vars, performedOf
<1>7. CASE StreamReopens
  <2>1. UNCHANGED <<queue, seen, executed>> /\ next' = Len(queue) + 1
    BY <1>7 DEF StreamReopens
  <2>2. CASE next = Len(queue) + 1
    BY <1>3, <2>1, <2>2
  <2>3. CASE next \in 1 .. Len(queue)
    <3>1. Len(queue) \in 1 .. Len(queue) /\ next <= Len(queue)
      BY <1>0, <2>3
    <3>2. \E s \in {"refused", "away"} : Contract!PickUp(Len(queue), s)
      BY <2>1, <3>1, PassRefines
    <3> QED BY <1>4, <3>1, <3>2
  <2> QED BY <1>0, <2>2, <2>3
<1>8. CASE IgnoreCommand \/ CancelCommand \/ SendCommand \/ SendFails
  <2>1. /\ Delivered
        /\ queue' = queue \/ \E field \in {"delivered", "cancelled"} : Marks(next, field)
    BY <1>8, Zenon DEF IgnoreCommand, CancelCommand, SendCommand, SendFails, setResult,
                       Marks
  <2>2. next \in 1 .. Len(queue) /\ next' = next + 1 /\ UNCHANGED <<seen, executed>>
    BY <1>0, <2>1 DEF Delivered
  <2>3. /\ Len(queue') = Len(queue)
        /\ \A d \in 1 .. Len(queue) :
             queue'[d].req = queue[d].req /\ (d # next => queue'[d] = queue[d])
    <3>1. CASE queue' = queue
      BY <3>1
    <3>2. CASE \E field \in {"delivered", "cancelled"} : Marks(next, field)
      BY <2>2, <3>2, MarkedEntry DEF FlowInv
    <3> QED BY <2>1, <3>1, <3>2
  <2>4. \E s \in {"refused", "away"} : Contract!PickUp(next, s)
    BY <1>0, <2>2, <2>3, PassRefines
  <2> QED BY <1>4, <2>2, <2>4
<1>9. ASSUME NEW t \in BOOLEAN, StationAccepts(t)
      PROVE  Contract!Next \/ UNCHANGED Contract!vars
  <2>1. UNCHANGED <<queue, next, seen>> /\ toStation # <<>>
    BY <1>9 DEF StationAccepts, driver
  <2>2. executed' = executed \/ executed' = Append(executed, Head(toStation))
    BY <1>9 DEF StationAccepts
  <2>3. CASE executed' = Append(executed, Head(toStation))
    <3>1. \E c \in 1 .. Len(queue) : Contract!Perform(c)
      BY <2>1, <2>3, PerformRefines
    <3> QED BY <1>0, <3>1 DEF Mapping, Contract!Next
  <2> QED BY <1>3, <2>1, <2>2, <2>3
<1>10. \/ UNCHANGED <<queue, next, seen, executed>> \/ WriteAck \/ StreamReopens
       \/ IgnoreCommand \/ CancelCommand \/ SendCommand \/ SendFails
       \/ \E t \in BOOLEAN : StationAccepts(t)
       \/ \E r \in Requests : InsertCommand(r)
       \/ \E c \in DOMAIN queue : Expire(c) \/ PollAck(c)
  BY Zenon DEF Next, StreamBreaks, Switchover, LinkDown, LinkUp, StationRefuses,
         HandleAsdu, WriteAckFails, driver
<1>11. DOMAIN queue = 1 .. Len(queue)
  BY <1>0 DEF Mapping
<1> QED
  BY <1>1, <1>2, <1>3, <1>5, <1>6, <1>7, <1>8, <1>9, <1>10, <1>11

\* The empty queue is the contract's.
LEMMA InitRefines == Init => Contract!Init
<1> SUFFICES ASSUME Init PROVE Contract!Init
  OBVIOUS
<1>1. FlowInv
  BY InitFlow
<1>2. Len(queue) = 0 /\ Len(executed) = 0 /\ seen = <<>>
  BY EmptySeq DEF Init
<1>3. ordersOf = <<>> /\ stateOf = <<>> /\ performedOf = <<>>
  BY <1>1, <1>2, MappingHolds, MappedDeeds, EmptySeq DEF Mapping
<1> QED BY <1>2, <1>3 DEF Contract!Init

\* Where no two requests are for one object number, every behaviour of server,
\* queue, driver and station, with any number of faults, is one the operators
\* were promised (CommandContract): each command is picked up once, refused
\* visibly or on its way, performed only then, once and as ordered, and a direct
\* one shown as good only if performed.
THEOREM FlowImplementsContract ==
    ASSUME SelectsApart, DirectsAlone
    PROVE  Spec => ImplementsContract
<1>1. ContractInv /\ [Next]_vars => ContractInv'
  BY NextFlow, StutterFlow, NextOrder, NextAck DEF ContractInv
<1>2. Init => ContractInv
  BY InitFlow, InitOrder, InitAck DEF ContractInv
<1>3. ContractInv /\ [Next]_vars => [Contract!Next]_(Contract!vars)
  <2>1. ASSUME ContractInv, Next PROVE [Contract!Next]_(Contract!vars)
    BY <2>1, NextFlow, StepRefines DEF ContractInv
  <2>2. ASSUME UNCHANGED vars PROVE UNCHANGED Contract!vars
    BY <2>2 DEF vars, Contract!vars, ordersOf, stateOf, performedOf
  <2> QED BY <2>1, <2>2
<1> QED
  BY <1>1, <1>2, <1>3, InitRefines, PTL DEF Spec, ImplementsContract, Contract!Spec
=============================================================================

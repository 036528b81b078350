----------------------- MODULE DriverRedundancyProofs -----------------------
(***************************************************************************)
(* TLAPS proofs about DriverRedundancy, for any set of nodes, any limit    *)
(* and any bounds.                                                         *)
(***************************************************************************)
EXTENDS DriverRedundancy, TLAPS

\* A standby has not counted past the limit, and one that sleeps out its yield
\* delay starts counting from zero.
CountInv ==
    \A n \in Nodes :
        /\ ~active[n] => count[n] <= KeepAliveCountLimit
        /\ pc[n] = "yield" => count[n] = 0 /\ ~active[n]

\* A step of a node leaves every lag within its bound.
LEMMA StepType ==
    ASSUME TypeOK, NEW n \in Nodes, Step(n)
    PROVE  lag' \in [Nodes -> [Nodes -> 0..MaxLag]]
  BY BoundAssumption DEF TypeOK, Step, Zeros

\* So does the start of a cycle.
LEMMA TickType ==
    ASSUME TypeOK, NEW n \in Nodes, Tick(n)
    PROVE  lag' \in [Nodes -> [Nodes -> 0..MaxLag]]
  BY StepType DEF Tick

\* A reading keeps its bookkeeping within bounds.
LEMMA ReadsType ==
    ASSUME TypeOK, NEW n \in Nodes, Reads(n)
    PROVE  /\ seen' \in [Nodes -> 0..SeenCap]
           /\ health' \in [Nodes -> {"unknown", "ok", "failed"}]
  BY LimitAssumption DEF TypeOK, Reads, SeenCap

\* A fault stays within the budget.
LEMMA FailsType ==
    ASSUME TypeOK, NEW n \in Nodes, Fails(n)
    PROVE  /\ faults' \in 0..MaxFaults
           /\ health' \in [Nodes -> {"unknown", "ok", "failed"}]
  BY BoundAssumption DEF TypeOK, Fails

\* The whole of TypeOK and CountInv is preserved by what a node does.
LEMMA WorkTypes ==
    ASSUME TypeOK, CountInv, NEW n \in Nodes, Work(n)
    PROVE  TypeOK' /\ CountInv'
<1> USE LimitAssumption, BoundAssumption, MissingAssumption
<1>1. CASE Connect(n)
  BY <1>1, StepType DEF Connect, TypeOK, CountInv, Stamps
<1>2. CASE ReadMissing(n)
  BY <1>2, TickType DEF ReadMissing, noInstance, TypeOK, CountInv
<1>3. CASE ReadNotAllowed(n)
  BY <1>3, TickType, ReadsType
     DEF ReadNotAllowed, Down, TypeOK, CountInv, Stamps
<1>4. CASE ReadOwn(n)
  BY <1>4, TickType, ReadsType DEF ReadOwn, TypeOK, CountInv
<1>5. CASE ReadOther(n)
  <2> DEFINE c == observe(n, count[n], inst.ka)
  <2>1. c \in 0..(KeepAliveCountLimit + 1)
    BY <1>5 DEF ReadOther, observe, TypeOK, CountInv
  <2>2. pc[n] = "tick" /\ inst.ka \in Stamps
    BY <1>5 DEF ReadOther, TypeOK, Docs
  <2>3. count' = [count EXCEPT ![n] = c]
    BY <1>5 DEF ReadOther
  <2>4. active' = [active EXCEPT ![n] = takeOver(c)]
    BY <1>5 DEF ReadOther
  <2>5. pc' = [pc EXCEPT ![n] = IF takeOver(c) THEN "write" ELSE "tick"]
    BY <1>5 DEF ReadOther
  <2> HIDE DEF c
  <2>6. TypeOK'
    BY <1>5, <2>1, <2>2, <2>3, <2>4, <2>5, TickType, ReadsType
       DEF ReadOther, TypeOK, takeOver
  <2>7. CountInv'
    <3> SUFFICES ASSUME NEW m \in Nodes
                 PROVE  /\ ~active'[m] => count'[m] <= KeepAliveCountLimit
                        /\ pc'[m] = "yield" => count'[m] = 0 /\ ~active'[m]
      BY DEF CountInv
    <3>1. CASE m = n
      <4>1. count'[n] = c /\ active'[n] = takeOver(c) /\ pc'[n] # "yield"
        BY <2>3, <2>4, <2>5 DEF TypeOK
      <4>2. ~takeOver(c) => c <= KeepAliveCountLimit
        BY <2>1 DEF takeOver
      <4> QED BY <3>1, <4>1, <4>2, Zenon
    <3>2. CASE m # n
      <4>1. count'[m] = count[m] /\ active'[m] = active[m] /\ pc'[m] = pc[m]
        BY <3>2, <2>3, <2>4, <2>5 DEF TypeOK
      <4> QED BY <4>1 DEF CountInv
    <3> QED BY <3>1, <3>2
  <2> QED BY <2>6, <2>7
<1>6. CASE ReadYield(n)
  BY <1>6, TickType, ReadsType DEF ReadYield, TypeOK, CountInv, Docs
<1>7. CASE Yielded(n)
  <2> DEFINE c == observe(n, count[n], snap[n])
  <2>1. c \in 0..1
    BY <1>7 DEF Yielded, observe, TypeOK, CountInv
  <2>2. count' = [count EXCEPT ![n] = c]
    BY <1>7 DEF Yielded
  <2>3. active' = [active EXCEPT ![n] = takeOver(c)]
    BY <1>7 DEF Yielded
  <2>4. pc' = [pc EXCEPT ![n] = IF takeOver(c) THEN "write" ELSE "tick"]
    BY <1>7 DEF Yielded
  <2> HIDE DEF c
  <2>5. TypeOK'
    BY <1>7, <2>1, <2>2, <2>3, <2>4, StepType
       DEF Yielded, TypeOK, takeOver, Stamps
  <2>6. CountInv'
    BY <2>1, <2>2, <2>3, <2>4 DEF TypeOK, CountInv, takeOver
  <2> QED BY <2>5, <2>6
<1>8. CASE WriteKeepAlive(n)
  <2>1. inst' \in Docs
    <3>1. CASE UNCHANGED inst
      BY <3>1 DEF TypeOK
    <3>2. CASE \E s \in Now : inst' = [inst EXCEPT !.name = n, !.ka = s]
      <4>1. PICK s \in Now : inst' = [inst EXCEPT !.name = n, !.ka = s]
        BY <3>2
      <4>2. s \in Stamps
        BY <4>1 DEF Now, Stamps
      <4> QED BY <4>1, <4>2 DEF TypeOK, Docs
    <3> QED BY <1>8, <3>1, <3>2 DEF WriteKeepAlive
  <2>2. seen' \in [Nodes -> 0..SeenCap]
    <3>1. Zeros \in [Nodes -> 0..SeenCap]
      BY DEF Zeros, SeenCap
    <3> QED BY <1>8, <3>1 DEF WriteKeepAlive, TypeOK
  <2> QED
    BY <1>8, <2>1, <2>2, StepType DEF WriteKeepAlive, TypeOK, CountInv
<1> QED
  BY <1>1, <1>2, <1>3, <1>4, <1>5, <1>6, <1>7, <1>8 DEF Work

\* ... by what goes wrong at a node, or by its restart ...
LEMMA FaultTypes ==
    ASSUME TypeOK, CountInv, NEW n \in Nodes, Fault(n) \/ Restart(n)
    PROVE  TypeOK' /\ CountInv'
<1> USE LimitAssumption, BoundAssumption, MissingAssumption
<1>1. CASE ConnectFails(n)
  BY <1>1, StepType, FailsType DEF ConnectFails, nodeVars, TypeOK, CountInv
<1>2. CASE PingFails(n)
  BY <1>2, StepType, FailsType DEF PingFails, TypeOK, CountInv
<1>3. CASE ReadFails(n)
  BY <1>3, StepType, FailsType DEF ReadFails, noInstance, TypeOK, CountInv
<1>4. CASE WriteFails(n)
  BY <1>4, StepType, FailsType DEF WriteFails, TypeOK, CountInv
<1>5. CASE Crash(n)
  BY <1>5, StepType, FailsType DEF Crash, Down, TypeOK, CountInv, Stamps
<1>6. CASE Restart(n)
  BY <1>6, StepType DEF Restart, TypeOK, CountInv
<1> QED
  BY <1>1, <1>2, <1>3, <1>4, <1>5, <1>6 DEF Fault

\* ... and by the admin UI.
LEMMA AdminTypes ==
    ASSUME TypeOK, CountInv, Admin
    PROVE  TypeOK' /\ CountInv'
<1> USE LimitAssumption, BoundAssumption DEF Docs, Stamps, Absent, Zeros, SeenCap
<1>1. CASE OpenForm
  BY <1>1 DEF OpenForm, nodeVars, TypeOK, CountInv
<1>2. ASSUME NEW ns \in SUBSET Nodes, SaveForm(ns) PROVE TypeOK' /\ CountInv'
  <2>1. inst' \in Docs
    BY <1>2 DEF SaveForm, TypeOK
  <2>2. seen' \in [Nodes -> 0..SeenCap]
    BY <1>2 DEF SaveForm
  <2> QED BY <1>2, <2>1, <2>2 DEF SaveForm, nodeVars, TypeOK, CountInv
<1>3. ASSUME NEW ns \in SUBSET Nodes, CreateInstance(ns)
      PROVE  TypeOK' /\ CountInv'
  BY <1>3 DEF CreateInstance, nodeVars, TypeOK, CountInv
<1>4. CASE DeleteInstance
  BY <1>4 DEF DeleteInstance, nodeVars, TypeOK, CountInv
<1> QED
  BY <1>1, <1>2, <1>3, <1>4 DEF Admin

\* Every variable keeps its type and the stall count never passes the value
\* at which the node takes over (stallCounter, jsredundancy.go:102-125).
THEOREM TypeCorrect == Spec => [](TypeOK /\ CountInv)
<1>1. Init => TypeOK /\ CountInv
  BY LimitAssumption, BoundAssumption
     DEF Init, TypeOK, CountInv, Docs, Stamps, Absent, Zeros, SeenCap
<1>2. TypeOK /\ CountInv /\ [Next]_vars => (TypeOK /\ CountInv)'
  <2> SUFFICES ASSUME TypeOK, CountInv, [Next]_vars PROVE (TypeOK /\ CountInv)'
    OBVIOUS
  <2>1. CASE UNCHANGED vars
    BY <2>1 DEF vars, TypeOK, CountInv
  <2> QED
    BY <2>1, WorkTypes, FaultTypes, AdminTypes DEF Next
<1> QED
  BY <1>1, <1>2, PTL DEF Spec

-----------------------------------------------------------------------------
(* TakeoverNeedsStall is not inductive: it speaks of nodes that have        *)
(* already decided.  What makes it so is that a node's count never runs     *)
(* ahead of its readings of the present document, which holds because a     *)
(* write gives the document a tag no node remembers.                        *)

\* Nobody has touched the configuration; a claim came with a keep-alive.
Unedited ==
    edits = 0 => /\ inst.exists /\ inst.nodeNames = {}
                 /\ inst.name \in Nodes => inst.ka # 0

\* The part of the argument that concerns one node.
StallInvOf(n) ==
    /\ last[n] = inst.ka => /\ count[n] <= seen[n]
                            /\ inst.ka # 0 => count[n] < seen[n]
    /\ (pc[n] = "yield" /\ snap[n] = inst.ka)
            => /\ seen[n] > 0
               /\ (inst.ka # 0 /\ last[n] = inst.ka) => seen[n] > 1
    /\ (pc[n] = "write" /\ inst.name # n /\ seen[n] > 0)
            => /\ seen[n] > KeepAliveCountLimit
               /\ inst.ka # 0 => seen[n] > KeepAliveCountLimit + 1

StallInv ==
    /\ Unedited
    /\ edits = 0 => \A n \in Nodes : StallInvOf(n)

\* A node that only a write or another node's step could disturb keeps its
\* part of the invariant.
LEMMA StallFrame ==
    ASSUME NEW m \in Nodes, StallInvOf(m),
           inst' = inst, pc'[m] = pc[m], last'[m] = last[m],
           count'[m] = count[m], snap'[m] = snap[m], seen'[m] = seen[m]
    PROVE  StallInvOf(m)'
  BY DEF StallInvOf

\* Steps of node n that write no document: only n's own part needs an argument.
LEMMA StallOwn ==
    ASSUME NEW n \in Nodes, TypeOK, StallInv, StallInvOf(n)',
           inst' = inst, edits' = edits, edits = 0,
           \A m \in Nodes \ {n} :
               /\ pc'[m] = pc[m] /\ last'[m] = last[m] /\ snap'[m] = snap[m]
               /\ count'[m] = count[m] /\ seen'[m] = seen[m]
    PROVE  StallInv'
<1>1. Unedited'
  BY DEF StallInv, Unedited
<1>2. ASSUME NEW m \in Nodes PROVE StallInvOf(m)'
  <2>1. CASE m = n
    BY <2>1
  <2>2. CASE m # n
    <3>1. StallInvOf(m)
      BY DEF StallInv
    <3> QED BY <2>2, <3>1, StallFrame
  <2> QED BY <2>1, <2>2
<1> QED BY <1>1, <1>2 DEF StallInv

\* What a node does when nothing goes wrong preserves the invariant.
LEMMA WorkStall ==
    ASSUME TypeOK, CountInv, StallInv, NEW n \in Nodes, Work(n), edits = 0
    PROVE  StallInv'
<1> USE LimitAssumption, BoundAssumption
<1>0. StallInvOf(n) /\ inst.exists /\ inst.nodeNames = {}
  BY DEF StallInv, Unedited
<1>1. CASE Connect(n)
  <2>1. StallInvOf(n)'
    BY <1>0, <1>1 DEF Connect, StallInvOf, TypeOK
  <2> QED BY <1>1, <2>1, StallOwn DEF Connect, TypeOK
<1>2. CASE ReadMissing(n)
  BY <1>0, <1>2 DEF ReadMissing
<1>3. CASE ReadNotAllowed(n)
  BY <1>0, <1>3 DEF ReadNotAllowed, NodeAllowed
<1>4. CASE ReadOwn(n)
  <2>1. StallInvOf(n)'
    BY <1>0, <1>4 DEF ReadOwn, Reads, StallInvOf, TypeOK, SeenCap
  <2> QED BY <1>4, <2>1, StallOwn DEF ReadOwn, Reads, TypeOK
<1>5. CASE ReadOther(n)
  <2> DEFINE c == observe(n, count[n], inst.ka)
  <2>1. seen'[n] = IF seen[n] < SeenCap THEN seen[n] + 1 ELSE seen[n]
    BY <1>5 DEF ReadOther, Reads, TypeOK
  <2>2. /\ c <= seen'[n] /\ c \in Int /\ seen'[n] > 0
        /\ inst.ka # 0 => c < seen'[n]
    BY <1>0, <1>5, <2>1
       DEF ReadOther, observe, StallInvOf, TypeOK, CountInv, SeenCap
  <2>3. /\ count'[n] = c
        /\ pc'[n] = IF takeOver(c) THEN "write" ELSE "tick"
    BY <1>5 DEF ReadOther, TypeOK
  <2>4. inst' = inst
    BY <1>5 DEF ReadOther
  <2> HIDE DEF c
  <2>5. seen'[n] \in Int
    BY <2>1 DEF TypeOK, SeenCap
  <2>6. StallInvOf(n)'
    BY <2>2, <2>3, <2>4, <2>5 DEF StallInvOf, takeOver
  <2> QED BY <1>5, <2>6, StallOwn DEF ReadOther, Reads, TypeOK
<1>6. CASE ReadYield(n)
  <2>1. StallInvOf(n)'
    BY <1>0, <1>6 DEF ReadYield, Reads, StallInvOf, TypeOK, SeenCap
  <2> QED BY <1>6, <2>1, StallOwn DEF ReadYield, Reads, TypeOK
<1>7. CASE Yielded(n)
  <2> DEFINE c == observe(n, count[n], snap[n])
  <2>1. c \in 0..1
    BY <1>7 DEF Yielded, observe, CountInv
  <2>2. snap[n] = inst.ka => /\ seen[n] > 0
                             /\ inst.ka # 0 => c < seen[n]
    BY <1>0, <1>7 DEF Yielded, StallInvOf, observe, TypeOK, CountInv, SeenCap
  <2>3. /\ count'[n] = c
        /\ pc'[n] = IF takeOver(c) THEN "write" ELSE "tick"
        /\ last'[n] = snap[n]
    BY <1>7 DEF Yielded, TypeOK
  <2>4. inst' = inst /\ seen' = seen
    BY <1>7 DEF Yielded
  <2> HIDE DEF c
  <2>5. seen[n] \in Int
    BY DEF TypeOK, SeenCap
  <2>6. StallInvOf(n)'
    BY <2>1, <2>2, <2>3, <2>4, <2>5 DEF StallInvOf, takeOver
  <2> QED BY <1>7, <2>6, StallOwn DEF Yielded, TypeOK
<1>8. CASE WriteKeepAlive(n)
  <2>1. PICK s \in Now : inst' = [inst EXCEPT !.name = n, !.ka = s]
    BY <1>0, <1>8 DEF WriteKeepAlive
  <2>2. inst'.ka = s /\ inst'.exists /\ inst'.nodeNames = {} /\ s # 0
    BY <1>0, <2>1 DEF TypeOK, Docs, Now
  <2>3. ASSUME NEW m \in Nodes PROVE StallInvOf(m)'
    <3>1. last'[m] # inst'.ka /\ snap'[m] # inst'.ka
      BY <1>8, <2>2 DEF WriteKeepAlive, Now, Remembered
    <3>2. seen'[m] = 0
      BY <1>0, <1>8 DEF WriteKeepAlive, Zeros
    <3> QED BY <3>1, <3>2 DEF StallInvOf
  <2> QED BY <1>8, <2>2, <2>3 DEF StallInv, Unedited
<1> QED
  BY <1>1, <1>2, <1>3, <1>4, <1>5, <1>6, <1>7, <1>8 DEF Work

\* So do faults and restarts.
LEMMA FaultStall ==
    ASSUME TypeOK, CountInv, StallInv, NEW n \in Nodes, edits = 0,
           Fault(n) \/ Restart(n)
    PROVE  StallInv'
<1>0. StallInvOf(n)
  BY DEF StallInv
<1>1. CASE ConnectFails(n)
  BY <1>0, <1>1, StallOwn DEF ConnectFails, nodeVars, StallInvOf
<1>2. CASE PingFails(n)
  <2>1. StallInvOf(n)'
    BY <1>0, <1>2 DEF PingFails, StallInvOf, TypeOK
  <2> QED BY <1>2, <2>1, StallOwn DEF PingFails, TypeOK
<1>3. CASE ReadFails(n)
  <2>1. StallInvOf(n)'
    BY <1>0, <1>3 DEF ReadFails, noInstance, StallInvOf, TypeOK, SeenCap
  <2> QED BY <1>3, <2>1, StallOwn DEF ReadFails, noInstance, TypeOK
<1>4. CASE WriteFails(n)
  <2>1. StallInvOf(n)'
    BY <1>0, <1>4 DEF WriteFails, StallInvOf, TypeOK
  <2> QED BY <1>4, <2>1, StallOwn DEF WriteFails, TypeOK
<1>5. CASE Crash(n)
  <2>1. StallInvOf(n)'
    BY <1>0, <1>5 DEF Crash, Down, StallInvOf, TypeOK, SeenCap
  <2> QED BY <1>5, <2>1, StallOwn DEF Crash, Down, TypeOK
<1>6. CASE Restart(n)
  <2>1. StallInvOf(n)'
    BY <1>0, <1>6 DEF Restart, StallInvOf, TypeOK
  <2> QED BY <1>6, <2>1, StallOwn DEF Restart, TypeOK
<1> QED
  BY <1>1, <1>2, <1>3, <1>4, <1>5, <1>6 DEF Fault

\* Every step preserves the invariant: once the configuration has been edited
\* it says nothing, and it is never un-edited.
LEMMA NextStall ==
    ASSUME TypeOK, CountInv, StallInv, [Next]_vars
    PROVE  StallInv'
<1>1. CASE UNCHANGED vars
  BY <1>1 DEF vars, StallInv, StallInvOf, Unedited
<1>2. ASSUME NEW n \in Nodes, Work(n) \/ Fault(n) \/ Restart(n)
      PROVE  StallInv'
  <2>1. edits' = edits
    BY <1>2 DEF Work, Fault, Connect, ReadMissing, ReadNotAllowed, ReadOwn,
                ReadOther, ReadYield, Yielded, WriteKeepAlive, ConnectFails,
                PingFails, ReadFails, WriteFails, Crash, Restart
  <2>2. CASE edits = 0
    BY <1>2, <2>2, WorkStall, FaultStall
  <2> QED BY <2>1, <2>2 DEF StallInv, Unedited
<1>3. CASE Admin
  <2>1. CASE OpenForm
    BY <2>1 DEF OpenForm, nodeVars, StallInv, StallInvOf, Unedited
  <2>2. CASE edits' = edits + 1
    BY <2>2, BoundAssumption DEF StallInv, Unedited, TypeOK
  <2>3. CASE \E ns \in SUBSET Nodes : CreateInstance(ns)
    BY <2>3 DEF CreateInstance, StallInv, Unedited
  <2> QED
    BY <1>3, <2>1, <2>2, <2>3 DEF Admin, SaveForm, DeleteInstance
<1> QED
  BY <1>1, <1>2, <1>3 DEF Next

\* A node claims an instance it found in another node's name only after a first
\* reading and more than KeepAliveCountLimit others without a single keep-alive
\* in between (stallCounter.observe and its reset, jsredundancy.go:113-125).
THEOREM StallBeforeTakeover == Spec => []TakeoverNeedsStall
<1>1. Init => StallInv
  BY NodeAssumption DEF Init, StallInv, StallInvOf, Unedited
<1>2. StallInv => TakeoverNeedsStall
  BY DEF StallInv, StallInvOf, TakeoverNeedsStall
<1>3. TypeOK /\ CountInv /\ StallInv /\ [Next]_vars => StallInv'
  BY NextStall
<1> QED
  BY <1>1, <1>2, <1>3, TypeCorrect, PTL DEF Spec

-----------------------------------------------------------------------------
\* One node's part of YieldsAtNextReading.
YieldsOf(n) ==
    (active[n] /\ inst.exists /\ inst.name # n /\ seen[n] > 0)
        => (pc[n] = "write" \/ health[n] = "failed")

\* Steps of n that write no document disturb only n's own part.
LEMMA YieldsOwn ==
    ASSUME NEW n \in Nodes, \A m \in Nodes : YieldsOf(m), YieldsOf(n)',
           inst' = inst,
           \A m \in Nodes \ {n} :
               /\ pc'[m] = pc[m] /\ active'[m] = active[m]
               /\ seen'[m] = seen[m] /\ health'[m] = health[m]
    PROVE  \A m \in Nodes : YieldsOf(m)'
<1> TAKE m \in Nodes
<1>1. CASE m = n
  BY <1>1
<1>2. CASE m # n
  BY <1>2 DEF YieldsOf
<1> QED BY <1>1, <1>2

\* Every step preserves it.
LEMMA NextYields ==
    ASSUME TypeOK, CountInv, \A m \in Nodes : YieldsOf(m), [Next]_vars
    PROVE  \A m \in Nodes : YieldsOf(m)'
<1> USE DEF TypeOK
<1>1. CASE UNCHANGED vars
  BY <1>1 DEF vars, YieldsOf
<1>2. ASSUME NEW n \in Nodes, Work(n)
      PROVE  \A m \in Nodes : YieldsOf(m)'
  <2>1. CASE Connect(n)
    BY <2>1, YieldsOwn DEF Connect, YieldsOf
  <2>2. CASE ReadMissing(n)
    BY <2>2 DEF ReadMissing, YieldsOf
  <2>3. CASE ReadNotAllowed(n)
    BY <2>3, YieldsOwn DEF ReadNotAllowed, Down, Reads, YieldsOf
  <2>4. CASE ReadOwn(n)
    BY <2>4, YieldsOwn DEF ReadOwn, Reads, YieldsOf
  <2>5. CASE ReadOther(n)
    <3> DEFINE t == takeOver(observe(n, count[n], inst.ka))
    <3>1. /\ active'[n] = t
          /\ pc'[n] = IF t THEN "write" ELSE "tick"
      BY <2>5 DEF ReadOther
    <3> HIDE DEF t
    <3>2. active'[n] => pc'[n] = "write"
      BY <3>1, Zenon
    <3>3. YieldsOf(n)'
      BY <3>2 DEF YieldsOf
    <3> QED BY <2>5, <3>3, YieldsOwn DEF ReadOther, Reads
  <2>6. CASE ReadYield(n)
    BY <2>6, YieldsOwn DEF ReadYield, Reads, YieldsOf
  <2>7. CASE Yielded(n)
    <3> DEFINE t == takeOver(observe(n, count[n], snap[n]))
    <3>1. /\ active'[n] = t
          /\ pc'[n] = IF t THEN "write" ELSE "tick"
      BY <2>7 DEF Yielded
    <3> HIDE DEF t
    <3>2. active'[n] => pc'[n] = "write"
      BY <3>1, Zenon
    <3>3. YieldsOf(n)'
      BY <3>2 DEF YieldsOf
    <3> QED BY <2>7, <3>3, YieldsOwn DEF Yielded
  <2>8. CASE WriteKeepAlive(n)
    <3>1. CASE inst.exists
      <4>1. seen' = Zeros
        BY <2>8, <3>1 DEF WriteKeepAlive
      <4> QED BY <4>1 DEF Zeros, YieldsOf
    <3>2. CASE ~inst.exists
      <4>1. inst' = inst
        BY <2>8, <3>2 DEF WriteKeepAlive
      <4> QED BY <3>2, <4>1 DEF YieldsOf
    <3> QED BY <3>1, <3>2
  <2> QED
    BY <1>2, <2>1, <2>2, <2>3, <2>4, <2>5, <2>6, <2>7, <2>8 DEF Work
<1>3. ASSUME NEW n \in Nodes, Fault(n)
      PROVE  \A m \in Nodes : YieldsOf(m)'
  <2>1. health'[n] = "failed" /\ inst' = inst /\ seen' = seen
    BY <1>3 DEF Fault, ConnectFails, PingFails, ReadFails, WriteFails, Crash,
                Fails
  <2>2. \A m \in Nodes \ {n} :
            pc'[m] = pc[m] /\ active'[m] = active[m] /\ health'[m] = health[m]
    BY <1>3 DEF Fault, ConnectFails, PingFails, ReadFails, WriteFails, Crash,
                Fails, Down, noInstance, nodeVars
  <2>3. YieldsOf(n)'
    BY <2>1 DEF YieldsOf
  <2> QED BY <2>1, <2>2, <2>3, YieldsOwn
<1>4. ASSUME NEW n \in Nodes, Restart(n)
      PROVE  \A m \in Nodes : YieldsOf(m)'
  BY <1>4, YieldsOwn DEF Restart, YieldsOf
<1>5. CASE Admin
  <2>1. CASE OpenForm
    BY <2>1 DEF OpenForm, nodeVars, YieldsOf
  <2>2. CASE seen' = Zeros
    BY <2>2 DEF Zeros, YieldsOf
  <2> QED
    BY <1>5, <2>1, <2>2 DEF Admin, SaveForm, CreateInstance, DeleteInstance
<1> QED
  BY <1>1, <1>2, <1>3, <1>4, <1>5 DEF Next

\* An active node that reads another node's claim stops being active there
\* and then, unless it is taking over or its reading failed (the else branch
\* of loop, jsredundancy.go:231-243).
THEOREM YieldsOnReading == Spec => []YieldsAtNextReading
<1> DEFINE Inv == \A m \in Nodes : YieldsOf(m)
<1>1. Init => Inv
  BY DEF Init, YieldsOf
<1>2. TypeOK /\ CountInv /\ Inv /\ [Next]_vars => Inv'
  BY NextYields
<1>3. Inv => YieldsAtNextReading
  BY DEF YieldsOf, YieldsAtNextReading
<1> HIDE DEF Inv
<1> QED
  BY <1>1, <1>2, <1>3, TypeCorrect, PTL DEF Spec

-----------------------------------------------------------------------------
\* While n keeps the instance alive, another node's readings of its latest
\* keep-alive are bounded by how far n may lag behind: MaxLag while n sleeps,
\* and what it had accumulated by then plus the present lag while it writes.
LagInvOf(n) ==
    (edits = 0 /\ health[n] = "ok" /\ inst.name = n)
        => /\ pc[n] \in {"tick", "write"}
           /\ \A m \in Nodes \ {n} :
                 seen[m] <= lag[n][m] + (IF pc[n] = "write" THEN MaxLag ELSE 0)

LagInv == \A n \in Nodes : LagInvOf(n)

\* A step of node k that writes no document preserves what concerns n.
LEMMA LagOther ==
    ASSUME TypeOK, NEW k \in Nodes, NEW n \in Nodes \ {k}, LagInvOf(n),
           inst' = inst, edits' = edits,
           pc'[n] = pc[n], health'[n] = health[n], Step(k),
           \A m \in Nodes \ {k} : seen'[m] = seen[m],
           \/ seen'[k] = seen[k]
           \/ Tick(k) /\ seen'[k] \in Nat /\ seen'[k] <= seen[k] + 1
    PROVE  LagInvOf(n)'
<1> USE BoundAssumption
<1> SUFFICES ASSUME edits = 0, health[n] = "ok", inst.name = n
             PROVE  /\ pc[n] \in {"tick", "write"}
                    /\ \A m \in Nodes \ {n} :
                          seen'[m] <= lag'[n][m]
                                      + (IF pc[n] = "write" THEN MaxLag ELSE 0)
  BY DEF LagInvOf
<1>1. pc[n] \in {"tick", "write"}
  BY DEF LagInvOf
<1>2. lag'[n] = [lag[n] EXCEPT ![k] = IF @ < MaxLag THEN @ + 1 ELSE @]
  BY <1>1 DEF Step, TypeOK
<1>3. Tick(k) => lag[n][k] < MaxLag
  BY <1>1 DEF Tick, Patience, TypeOK
<1>4. ASSUME NEW m \in Nodes \ {n}
      PROVE  seen'[m] <= lag'[n][m]
                         + (IF pc[n] = "write" THEN MaxLag ELSE 0)
  <2>1. /\ seen[m] <= lag[n][m] + (IF pc[n] = "write" THEN MaxLag ELSE 0)
        /\ seen[m] \in Nat /\ lag[n][m] \in Nat
    BY DEF LagInvOf, TypeOK, SeenCap
  <2>2. CASE m # k
    BY <1>2, <2>1, <2>2 DEF TypeOK
  <2>3. CASE m = k
    <3>1. lag'[n][k] = IF lag[n][k] < MaxLag THEN lag[n][k] + 1 ELSE lag[n][k]
      BY <1>2 DEF TypeOK
    <3> QED BY <1>3, <2>1, <2>3, <3>1
  <2> QED BY <2>2, <2>3
<1> QED BY <1>1, <1>4

\* Every step of a node preserves LagInv.
LEMMA NodeLag ==
    ASSUME TypeOK, Unedited, LagInv, NEW k \in Nodes, edits = 0,
           Work(k) \/ Fault(k) \/ Restart(k)
    PROVE  LagInv'
<1> USE BoundAssumption
<1>0. inst.exists /\ inst.nodeNames = {}
  BY DEF Unedited
<1>1. CASE WriteKeepAlive(k)
  <2>1. inst'.name = k /\ seen' = Zeros /\ pc'[k] = "tick"
    BY <1>0, <1>1 DEF WriteKeepAlive, TypeOK, Docs
  <2>2. lag'[k] = Zeros
    BY <1>1 DEF WriteKeepAlive, Step
  <2> QED BY <2>1, <2>2 DEF LagInv, LagInvOf, Zeros
<1>2. CASE (Work(k) /\ ~WriteKeepAlive(k)) \/ Fault(k) \/ Restart(k)
  <2>1. inst' = inst /\ edits' = edits /\ Step(k)
    BY <1>2 DEF Work, Fault, Connect, ReadMissing, ReadNotAllowed, ReadOwn,
                ReadOther, ReadYield, Yielded, ConnectFails, PingFails,
                ReadFails, WriteFails, Crash, Restart, Tick
  <2>2. \A n \in Nodes \ {k} : /\ pc'[n] = pc[n] /\ health'[n] = health[n]
                               /\ seen'[n] = seen[n]
    BY <1>2 DEF Work, Fault, Connect, ReadMissing, ReadNotAllowed, ReadOwn,
                ReadOther, ReadYield, Yielded, ConnectFails, PingFails,
                ReadFails, WriteFails, Crash, Restart, Reads, Fails, Down,
                noInstance, nodeVars, TypeOK
  <2>3. \/ seen'[k] = seen[k]
        \/ Tick(k) /\ seen'[k] \in Nat /\ seen'[k] <= seen[k] + 1
    <3>1. CASE Reads(k) /\ Tick(k)
      BY <3>1 DEF Reads, TypeOK, SeenCap
    <3>2. CASE seen' = seen
      BY <3>2
    <3> QED
      BY <1>2, <3>1, <3>2
         DEF Work, Fault, Connect, ReadMissing, ReadNotAllowed, ReadOwn,
             ReadOther, ReadYield, Yielded, ConnectFails, PingFails,
             ReadFails, WriteFails, Crash, Restart
  <2>4. LagInvOf(k)'
    <3>1. CASE Fault(k)
      <4>1. health'[k] = "failed"
        BY <3>1 DEF Fault, ConnectFails, PingFails, ReadFails, WriteFails,
                    Crash, Fails, TypeOK
      <4> QED BY <4>1 DEF LagInvOf
    <3>2. CASE ReadOwn(k)
      <4>1. pc'[k] = "write" /\ pc[k] = "tick" /\ lag'[k] = Zeros
        BY <3>2 DEF ReadOwn, Tick, Step, TypeOK
      <4>2. health'[k] = "ok" => health[k] = "ok"
        BY <3>2 DEF ReadOwn, Reads, TypeOK
      <4>3. \A m \in Nodes \ {k} : lag[k][m] \in 0..MaxLag /\ seen[m] \in Nat
        BY DEF TypeOK, SeenCap
      <4> QED BY <2>1, <2>2, <4>1, <4>2, <4>3 DEF LagInv, LagInvOf, Zeros
    <3>3. CASE ReadOther(k) \/ ReadYield(k)
      BY <2>1, <3>3 DEF ReadOther, ReadYield, LagInvOf
    <3>4. CASE Connect(k) \/ Yielded(k) \/ Restart(k)
      <4>1. pc[k] \notin {"tick", "write"} /\ health' = health
        BY <3>4 DEF Connect, Yielded, Restart
      <4> QED BY <2>1, <4>1 DEF LagInv, LagInvOf
    <3>5. ~ReadMissing(k) /\ ~ReadNotAllowed(k)
      BY <1>0 DEF ReadMissing, ReadNotAllowed, NodeAllowed
    <3> QED
      BY <1>2, <3>1, <3>2, <3>3, <3>4, <3>5 DEF Work
  <2>5. ASSUME NEW n \in Nodes \ {k} PROVE LagInvOf(n)'
    <3>1. LagInvOf(n)
      BY DEF LagInv
    <3> QED BY <2>1, <2>2, <2>3, <3>1, LagOther
  <2> QED BY <2>4, <2>5 DEF LagInv
<1> QED BY <1>1, <1>2

\* Every step preserves LagInv.
LEMMA NextLag ==
    ASSUME TypeOK, Unedited, LagInv, [Next]_vars
    PROVE  LagInv'
<1>1. CASE UNCHANGED vars
  BY <1>1 DEF vars, LagInv, LagInvOf
<1>2. ASSUME NEW k \in Nodes, Work(k) \/ Fault(k) \/ Restart(k)
      PROVE  LagInv'
  <2>1. edits' = edits
    BY <1>2 DEF Work, Fault, Connect, ReadMissing, ReadNotAllowed, ReadOwn,
                ReadOther, ReadYield, Yielded, WriteKeepAlive, ConnectFails,
                PingFails, ReadFails, WriteFails, Crash, Restart
  <2>2. CASE edits = 0
    BY <1>2, <2>2, NodeLag
  <2> QED BY <2>1, <2>2 DEF LagInv, LagInvOf
<1>3. CASE Admin
  <2>1. CASE OpenForm
    BY <2>1 DEF OpenForm, nodeVars, LagInv, LagInvOf
  <2>2. CASE edits' = edits + 1
    BY <2>2, BoundAssumption DEF LagInv, LagInvOf, TypeOK
  <2>3. CASE \E ns \in SUBSET Nodes : CreateInstance(ns)
    BY <2>3 DEF CreateInstance, LagInv, LagInvOf, Unedited
  <2> QED
    BY <1>3, <2>1, <2>2, <2>3 DEF Admin, SaveForm, DeleteInstance
<1> QED
  BY <1>1, <1>2, <1>3 DEF Next

\* A standby that reads a live node's instance does not take it over.
LEMMA NoTakeover ==
    ASSUME MaxLag + WriteLag <= KeepAliveCountLimit + 1,
           TypeOK, CountInv, StallInv, LagInv,
           NEW n \in Nodes, NEW m \in Nodes \ {n}, ReadOther(m),
           edits = 0, health[n] = "ok", inst.name = n
    PROVE  ~active'[m]
<1> USE LimitAssumption, BoundAssumption
<1> DEFINE c == observe(m, count[m], inst.ka)
<1>1. pc[n] \in {"tick", "write"} /\ LagInvOf(n) /\ StallInvOf(m)
  BY DEF LagInv, LagInvOf, StallInv
<1>2. lag[n][m] < Patience(n) /\ lag[n][m] \in Nat
  BY <1>1 DEF ReadOther, Tick, TypeOK
<1>3. seen[m] <= lag[n][m] + (IF pc[n] = "write" THEN MaxLag ELSE 0)
  BY DEF LagInv, LagInvOf
<1>4. seen[m] < MaxLag + WriteLag /\ seen[m] \in Nat
  BY <1>1, <1>2, <1>3 DEF Patience, TypeOK, SeenCap
<1>5. c <= seen[m] /\ c \in Nat
  <2>1. inst.ka # 0
    BY DEF StallInv, Unedited
  <2> QED BY <1>1, <1>4, <2>1 DEF observe, StallInvOf, TypeOK
<1>6. active'[m] = takeOver(c)
  BY DEF ReadOther, TypeOK
<1> HIDE DEF c
<1>7. ~takeOver(c)
  BY <1>4, <1>5 DEF takeOver
<1> QED BY <1>6, <1>7, Zenon

\* While the node the instance document names keeps its keep-alives coming, no
\* other node becomes active, if the others cannot make more readings between
\* two of its keep-alives than the limit plus one and a failed reading does
\* not activate a node (loop, jsredundancy.go:200-266).
THEOREM LiveNodeNotDisplaced ==
    ASSUME MaxLag + WriteLag <= KeepAliveCountLimit + 1, ~MissingInstanceActive
    PROVE  Spec => LiveNodeKeepsRole
<1> DEFINE Inv == TypeOK /\ CountInv /\ StallInv /\ LagInv
           A == \A m, n \in Nodes :
                  (/\ m # n
                   /\ edits' = 0
                   /\ health[n] = "ok"
                   /\ inst.name = n
                   /\ ~active[m])
                     => ~active'[m]
<1>1. Init => StallInv /\ LagInv
  BY NodeAssumption DEF Init, StallInv, StallInvOf, Unedited, LagInv, LagInvOf
<1>2. TypeOK /\ CountInv /\ StallInv /\ LagInv /\ [Next]_vars
        => StallInv' /\ LagInv'
  BY NextStall, NextLag DEF StallInv
<1>3. Inv /\ [Next]_vars => [A]_vars
  <2> SUFFICES ASSUME Inv, Next,
                      NEW m \in Nodes, NEW n \in Nodes, m # n, edits' = 0,
                      health[n] = "ok", inst.name = n, ~active[m]
               PROVE  ~active'[m]
    OBVIOUS
  <2>1. edits = 0
    <3>1. edits' = edits \/ edits' = edits + 1
      BY DEF Next, Work, Fault, Admin, Connect, ReadMissing, ReadNotAllowed,
             ReadOwn, ReadOther, ReadYield, Yielded, WriteKeepAlive,
             ConnectFails, PingFails, ReadFails, WriteFails, Crash, Restart,
             OpenForm, SaveForm, CreateInstance, DeleteInstance
    <3> QED BY <3>1, BoundAssumption DEF TypeOK
  <2>2. inst.exists /\ inst.nodeNames = {}
    BY <2>1 DEF StallInv, Unedited
  <2>3. ASSUME NEW k \in Nodes, Work(k) \/ Fault(k) \/ Restart(k), k # m
        PROVE  ~active'[m]
    BY <2>3 DEF Work, Fault, Connect, ReadMissing, ReadNotAllowed, ReadOwn,
             ReadOther, ReadYield, Yielded, WriteKeepAlive, ConnectFails,
             PingFails, ReadFails, WriteFails, Crash, Restart, Down,
             noInstance, nodeVars, TypeOK
  <2>4. CASE ReadOther(m)
    BY <2>1, <2>4, NoTakeover
  <2>5. CASE Yielded(m)
    <3> DEFINE c == observe(m, count[m], snap[m])
    <3>1. c \in 0..1
      BY <2>5 DEF Yielded, observe, CountInv
    <3>2. active'[m] = takeOver(c)
      BY <2>5 DEF Yielded, TypeOK
    <3> HIDE DEF c
    <3>3. ~takeOver(c)
      BY <3>1, LimitAssumption DEF takeOver
    <3> QED BY <3>2, <3>3, Zenon
  <2>6. CASE Fault(m) \/ Restart(m) \/ Connect(m) \/ WriteKeepAlive(m)
             \/ ReadYield(m) \/ ReadNotAllowed(m)
    BY <2>6 DEF Fault, Connect, WriteKeepAlive, ReadYield, ReadNotAllowed,
             ConnectFails, PingFails, ReadFails, WriteFails, Crash, Restart,
             Down, noInstance, nodeVars, TypeOK
  <2>7. ~ReadMissing(m) /\ ~ReadOwn(m)
    BY <2>2 DEF ReadMissing, ReadOwn
  <2>8. CASE Admin
    BY <2>8 DEF Admin, OpenForm, SaveForm, CreateInstance, DeleteInstance,
                nodeVars
  <2> QED
    BY <2>3, <2>4, <2>5, <2>6, <2>7, <2>8 DEF Next, Work
<1>4. [][A]_vars => LiveNodeKeepsRole
  BY DEF LiveNodeKeepsRole
<1> QED
  BY <1>1, <1>2, <1>3, <1>4, TypeCorrect, PTL DEF Spec
=============================================================================

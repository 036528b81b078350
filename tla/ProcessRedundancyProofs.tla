---------------------- MODULE ProcessRedundancyProofs ----------------------
(***************************************************************************)
(* TLAPS proofs about ProcessRedundancy, for any set of nodes, any limit,  *)
(* any bounds and, where it says so, both variants.                        *)
(***************************************************************************)
EXTENDS ProcessRedundancy, TLAPS

\* A standby has not counted past the limit: the count of the calculations'
\* variant goes one further, but only on a node that is active.
CountInv == \A n \in Nodes : ~active[n] => count[n] <= Limit

\* The budget of checks while a write is on its way.
LEMMA TickSlow ==
    ASSUME TypeOK, NEW n \in Nodes, Tick(n)
    PROVE  slow' \in 0 .. MaxSlow
  BY BoundAssumption DEF TypeOK, Tick

\* The budget of faults.
LEMMA FaultType ==
    ASSUME TypeOK, Fault
    PROVE  faults' \in 0 .. MaxFaults
  BY BoundAssumption DEF TypeOK, Fault

\* The count after a reading of another node's name.
LEMMA CountedType ==
    ASSUME TypeOK, CountInv, NEW n \in Nodes
    PROVE  Counted(n) \in 0 .. Limit + 1
  BY LimitAssumption DEF TypeOK, CountInv, Counted

\* A check of a node preserves types and counts.
LEMMA CheckTypes ==
    ASSUME TypeOK, CountInv, NEW n \in Nodes,
           \/ FindNone(n) \/ FindNotAllowed(n) \/ FindOwn(n) \/ FindOther(n)
           \/ FindFails(n) \/ Disconnected(n)
    PROVE  TypeOK' /\ CountInv'
<1> USE NodeAssumption, LimitAssumption, VariantAssumption, BoundAssumption
<1>0. slow' \in 0 .. MaxSlow /\ pc[n] = "check"
  BY TickSlow DEF FindNone, FindNotAllowed, FindOwn, FindOther, FindFails,
                  Disconnected, Tick
<1>1. CASE FindNone(n)
  BY <1>0, <1>1 DEF TypeOK, CountInv, FindNone, SetActive, Goto
<1>2. CASE FindNotAllowed(n)
  BY <1>0, <1>2 DEF TypeOK, CountInv, FindNotAllowed, SetActive, Goto
<1>3. CASE FindOwn(n)
  BY <1>0, <1>3 DEF TypeOK, CountInv, FindOwn, SetActive, Goto
<1>4. CASE FindOther(n)
  <2> DEFINE c == Counted(n)
  <2>1. c \in 0 .. Limit + 1
    BY CountedType
  <2>2. /\ active' = [active EXCEPT ![n] = c > Limit]
        /\ count' = [count EXCEPT ![n] = IF c > Limit /\ ~Keeps THEN 0 ELSE c]
        /\ pc' = [pc EXCEPT ![n] = IF c > Limit THEN "update" ELSE "check"]
    BY <1>4 DEF FindOther, SetActive, ActiveAfter, TakesOver, Goto
  <2> HIDE DEF c
  <2>3. /\ looked' \subseteq Nodes
        /\ quiet' \in [Nodes -> 0 .. Limit + 1]
        /\ UNCHANGED <<name, allowed, faults, edits>>
    BY <1>4 DEF TypeOK, FindOther
  <2>4. active' \in [Nodes -> BOOLEAN] /\ (active'[n] <=> c > Limit)
    <3>1. active' \in [Nodes -> BOOLEAN]
      <4> DEFINE b == c > Limit
      <4>1. b \in BOOLEAN
        BY <2>1
      <4>2. active' = [active EXCEPT ![n] = b]
        BY <2>2
      <4> HIDE DEF b
      <4> QED BY <4>1, <4>2 DEF TypeOK
    <3>2. active'[n] <=> c > Limit
      BY <2>2 DEF TypeOK
    <3> QED BY <3>1, <3>2
  <2>5. /\ count' \in [Nodes -> 0 .. (IF Keeps THEN Limit + 1 ELSE Limit)]
        /\ ~(c > Limit) => count'[n] <= Limit
    BY <2>1, <2>2 DEF TypeOK
  <2>6. /\ pc' \in [Nodes -> {"check", "insert", "update", "down"}]
        /\ pc'[n] = "update" => c > Limit
    BY <2>2 DEF TypeOK
  <2>7. ASSUME NEW m \in Nodes, m # n
        PROVE  active'[m] = active[m] /\ count'[m] = count[m] /\ pc'[m] = pc[m]
    BY <2>2, <2>7 DEF TypeOK
  <2>8. \A m \in Nodes : pc'[m] = "update" => active'[m]
    BY <2>4, <2>6, <2>7 DEF TypeOK
  <2>9. CountInv'
    BY <2>4, <2>5, <2>7 DEF CountInv
  <2> QED BY <1>0, <2>3, <2>4, <2>5, <2>6, <2>8, <2>9 DEF TypeOK
<1>5. CASE FindFails(n)
  BY <1>0, <1>5, FaultType DEF TypeOK, CountInv, FindFails
<1>6. CASE Disconnected(n)
  BY <1>0, <1>6, FaultType DEF TypeOK, CountInv, Disconnected, SetActive
<1> QED BY <1>1, <1>2, <1>3, <1>4, <1>5, <1>6

\* Every other step preserves types and counts too: insert, update, crash,
\* restart, and a change of the instance by the administrator.
LEMMA NextTypes == TypeOK /\ CountInv /\ [Next]_vars => TypeOK' /\ CountInv'
<1> SUFFICES ASSUME TypeOK, CountInv, [Next]_vars
             PROVE  TypeOK' /\ CountInv'
  OBVIOUS
<1> USE NodeAssumption, LimitAssumption, VariantAssumption, BoundAssumption
<1>1. ASSUME NEW n \in Nodes, Insert(n) PROVE TypeOK' /\ CountInv'
  BY <1>1 DEF TypeOK, CountInv, Insert, Step, Written, Goto
<1>2. ASSUME NEW n \in Nodes, Update(n) PROVE TypeOK' /\ CountInv'
  BY <1>2 DEF TypeOK, CountInv, Update, Step, Written, Goto
<1>3. ASSUME NEW n \in Nodes, UpdateFails(n) PROVE TypeOK' /\ CountInv'
  BY <1>3, FaultType DEF TypeOK, CountInv, UpdateFails, Step, Goto
<1>4. ASSUME NEW n \in Nodes, Crash(n) PROVE TypeOK' /\ CountInv'
  BY <1>4, FaultType DEF TypeOK, CountInv, Crash, Step, Goto, SetActive
<1>5. ASSUME NEW n \in Nodes, Restart(n) PROVE TypeOK' /\ CountInv'
  BY <1>5 DEF TypeOK, CountInv, Restart, Step, Goto
<1>6. ASSUME NEW ns \in SUBSET Nodes, EditInstance(ns) PROVE TypeOK' /\ CountInv'
  BY <1>6 DEF TypeOK, CountInv, EditInstance
<1>7. CASE UNCHANGED vars
  BY <1>7 DEF TypeOK, CountInv, vars
<1> QED
  BY <1>1, <1>2, <1>3, <1>4, <1>5, <1>6, <1>7, CheckTypes DEF Next

\* Types, in both variants: a count never outgrows the limit by more than the
\* one the calculations keep, and only an active node is about to write its
\* name (processRedundancy).
THEOREM TypeCorrect == Spec => []TypeOK
<1>1. Init => TypeOK /\ CountInv
  BY LimitAssumption, BoundAssumption DEF Init, TypeOK, CountInv
<1> QED BY <1>1, NextTypes, PTL DEF Spec

-----------------------------------------------------------------------------
(* Takeovers.                                                              *)

\* As long as a node holds the tag of the document its count is no more than
\* the checks in a row that found it there.
StallInv == \A n \in looked : count[n] <= quiet[n]

\* A check adds one to both, and whatever resets the checks in a row resets the
\* count or makes the node forget the tag.
LEMMA NextStall ==
    ASSUME ~Keeps, TypeOK, CountInv, StallInv, [Next]_vars
    PROVE  StallInv'
<1> USE LimitAssumption
<1>1. ASSUME NEW n \in Nodes, FindOther(n) PROVE StallInv'
  <2> DEFINE c == Counted(n)
  <2>1. c \in 0 .. Limit + 1
    BY CountedType
  <2>2. n \in looked => c <= quiet[n] + 1
    BY DEF Counted, StallInv, TypeOK
  <2>3. n \notin looked => c = 0
    BY DEF Counted
  <2>4. /\ count' = [count EXCEPT ![n] = IF c > Limit /\ ~Keeps THEN 0 ELSE c]
        /\ looked' = looked \cup {n}
        /\ quiet' = [quiet EXCEPT ![n] = IF n \notin looked THEN 0
                                          ELSE IF @ <= Limit THEN @ + 1 ELSE @]
    BY <1>1 DEF FindOther, TakesOver
  <2> HIDE DEF c
  <2> QED BY <2>1, <2>2, <2>3, <2>4 DEF StallInv, TypeOK
<1>2. ASSUME NEW n \in Nodes, FindNone(n) \/ FindFails(n) \/ Disconnected(n)
      PROVE  StallInv'
  BY <1>2 DEF FindNone, FindFails, Disconnected, StallInv
<1>3. ASSUME NEW n \in Nodes, FindOwn(n) PROVE StallInv'
  BY <1>3 DEF FindOwn, StallInv, TypeOK
<1>4. ASSUME NEW n \in Nodes, FindNotAllowed(n) \/ Crash(n) PROVE StallInv'
  BY <1>4 DEF FindNotAllowed, Crash, StallInv, TypeOK
<1>5. ASSUME NEW n \in Nodes, Insert(n) \/ Update(n) PROVE StallInv'
  BY <1>5 DEF Insert, Update, Written, StallInv
<1>6. ASSUME NEW n \in Nodes, UpdateFails(n) \/ Restart(n) PROVE StallInv'
  BY <1>6 DEF UpdateFails, Restart, StallInv
<1>7. ASSUME NEW ns \in SUBSET Nodes, EditInstance(ns) PROVE StallInv'
  BY <1>7 DEF EditInstance, StallInv
<1>8. CASE UNCHANGED vars
  BY <1>8 DEF vars, StallInv
<1> QED
  BY <1>1, <1>2, <1>3, <1>4, <1>5, <1>6, <1>7, <1>8 DEF Next

\* Where an advancing tag resets the count (the data processor, mongofw and
\* mongowr), a node takes the role of another only if more than Limit checks
\* in a row found the same keep-alive (redundancy.go:145-166).  The run
\* process_keeps_count shows that the other variant breaks it.
THEOREM StallBeforeTakeover ==
    ASSUME ~Keeps
    PROVE  Spec => TakeoverNeedsStall
<1> DEFINE Inv == TypeOK /\ CountInv /\ StallInv
           A == \A n \in Nodes :
                  ~active[n] /\ active'[n] /\ name \notin {n, NoNode}
                    => quiet'[n] > Limit
<1>1. Init => Inv
  BY LimitAssumption, BoundAssumption DEF Init, TypeOK, CountInv, StallInv
<1>2. Inv /\ [Next]_vars => Inv'
  BY NextTypes, NextStall
<1>3. Inv /\ [Next]_vars => [A]_vars
  <2> SUFFICES ASSUME Inv, Next, NEW n \in Nodes, ~active[n], active'[n],
                      name \notin {n, NoNode}
               PROVE  quiet'[n] > Limit
    OBVIOUS
  <2>1. FindOther(n)
    BY DEF Next, FindNone, FindNotAllowed, FindOwn, FindOther, FindFails,
           Disconnected, Insert, Update, UpdateFails, Crash, Restart,
           EditInstance, SetActive, TypeOK
  <2> DEFINE c == Counted(n)
  <2>2. c > Limit
    BY <2>1 DEF FindOther, SetActive, ActiveAfter, TakesOver, TypeOK
  <2>3. n \in looked /\ c = count[n] + 1
    BY <2>2, LimitAssumption DEF Counted
  <2>4. quiet[n] >= Limit
    BY <2>2, <2>3, LimitAssumption DEF StallInv, TypeOK
  <2>5. quiet'[n] = IF quiet[n] <= Limit THEN quiet[n] + 1 ELSE quiet[n]
    BY <2>1, <2>3 DEF FindOther, TypeOK
  <2> QED BY <2>4, <2>5, LimitAssumption DEF TypeOK
<1>4. [][A]_vars => TakeoverNeedsStall
  BY DEF TakeoverNeedsStall
<1> QED BY <1>1, <1>2, <1>3, <1>4, PTL DEF Spec
=============================================================================

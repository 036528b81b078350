------------------------- MODULE ProcessRedundancy -------------------------
(***************************************************************************)
(* Active/standby arbitration of the processes that are not protocol       *)
(* drivers, over a document of processInstances: the data processor        *)
(* (cs_data_processor-go/redundancy.go; redundancy.js of cs_data_processor,*)
(* mongofw and mongowr is the same) and the calculations (processRedundancy*)
(* of calculations.go), a variant that keeps its count.                    *)
(*                                                                         *)
(* A keep-alive is never written twice with one time tag, so all a node    *)
(* learns by comparing tags is whether the document was written since it   *)
(* last looked: the nodes in "looked" hold the tag of the document.        *)
(***************************************************************************)
EXTENDS Integers, FiniteSets

CONSTANTS
    Nodes,
    NoNode,       \* there is no document
    Limit,        \* countKeepAliveUpdatesLimit
    Keeps,        \* the calculations' variant: the count is kept
    MaxLag,       \* bound: checks of others between two steps of a node
    MaxSlow,      \* bound: checks between the reading of another and its write
    MaxFaults,    \* bound: crashes, lost connections, failed calls
    MaxEdits      \* bound: changes of nodeNames and enabled

ASSUME NodeAssumption == NoNode \notin Nodes
ASSUME LimitAssumption == Limit \in Nat \ {0}
ASSUME VariantAssumption == Keeps \in BOOLEAN
ASSUME BoundAssumption ==
    MaxLag \in Nat /\ MaxSlow \in Nat /\ MaxFaults \in Nat /\ MaxEdits \in Nat

VARIABLES
    name,         \* activeNodeName of the document
    allowed,      \* nodes the document lets run: enabled, nodeNames
    looked,       \* nodes whose lastActiveNodeKeepAliveTimeTag is the document's
    pc,           \* what a node does next
    active,       \* ProcessStateIsActive, isActive
    count,        \* countKeepAliveNotUpdated, countKeepAliveUpdates
    \* History and budgets, read by no node:
    quiet,        \* checks of a node in a row that found the tag it knew (capped)
    behind,       \* checks of others since the node's last step
    slow, faults, edits

vars == <<name, allowed, looked, pc, active, count, quiet, behind, slow, faults,
          edits>>

Running(n) == pc[n] # "down"

Init ==
    /\ name = NoNode
    /\ allowed = Nodes
    /\ looked = {}
    /\ pc = [n \in Nodes |-> "check"]
    /\ active = [n \in Nodes |-> FALSE]
    /\ count = [n \in Nodes |-> 0]
    /\ quiet = [n \in Nodes |-> 0]
    /\ behind = [n \in Nodes |-> 0]
    /\ slow = 0 /\ faults = 0 /\ edits = 0

Fault == faults < MaxFaults /\ faults' = faults + 1

Writing(n) == pc[n] \in {"insert", "update"}

\* The period of n is over; no running node was left too far behind, and a
\* write that began is seldom still on its way.
Tick(n) ==
    /\ pc[n] = "check"
    /\ \A m \in Nodes \ {n} : Running(m) => behind[m] < MaxLag
    /\ behind' = [m \in Nodes |-> IF m = n \/ ~Running(m) THEN 0 ELSE behind[m] + 1]
    /\ slow' = IF \E m \in Nodes : Writing(m) THEN slow + 1 ELSE slow
    /\ slow' <= MaxSlow

Step(n) == behind' = [behind EXCEPT ![n] = 0] /\ UNCHANGED slow

Goto(n, l) == pc' = [pc EXCEPT ![n] = l]

SetActive(n, b) == active' = [active EXCEPT ![n] = b]

-----------------------------------------------------------------------------
(* processRedundancy: the document is read, and what follows from it ...   *)

\* No document: the data processor is active at once, the calculations are
\* not; both go on to create it.
FindNone(n) ==
    /\ Tick(n) /\ name = NoNode
    /\ SetActive(n, active[n] \/ ~Keeps)
    /\ Goto(n, "insert")
    /\ UNCHANGED <<name, allowed, looked, count, quiet, faults, edits>>

\* Disabled, or this node is not listed: the process exits.
FindNotAllowed(n) ==
    /\ Tick(n) /\ name # NoNode /\ n \notin allowed
    /\ SetActive(n, FALSE)
    /\ count' = [count EXCEPT ![n] = 0]
    /\ looked' = looked \ {n}
    /\ quiet' = [quiet EXCEPT ![n] = 0]
    /\ Goto(n, "down")
    /\ UNCHANGED <<name, allowed, faults, edits>>

\* The document names this node.
FindOwn(n) ==
    /\ Tick(n) /\ name = n /\ n \in allowed
    /\ SetActive(n, TRUE)
    /\ count' = IF Keeps THEN count ELSE [count EXCEPT ![n] = 0]
    /\ Goto(n, "update")
    /\ UNCHANGED <<name, allowed, looked, quiet, faults, edits>>

\* Mutant: an advance of the tag does not reset the count.
CountedKept(n) ==
    (IF active[n] THEN 0 ELSE count[n]) + (IF n \in looked THEN 1 ELSE 0)

\* The count after a check that found another node's name: a node that was
\* active begins again, and an advanced tag resets it, but not in the
\* calculations.
Counted(n) ==
    LET c == IF active[n] THEN 0 ELSE count[n]
    IN  IF n \in looked THEN c + 1 ELSE IF Keeps THEN c ELSE 0

\* Mutant: the node takes over one reading later.
TakesOverLate(c) == c > Limit + 1

TakesOver(c) == c > Limit

\* Mutant: an active node that finds another's name stays active.
StaysActive(n) == active[n] \/ TakesOver(Counted(n))

ActiveAfter(n) == TakesOver(Counted(n))

\* The document names another node: this one is not active, unless the tag
\* has not advanced for too many checks.
FindOther(n) ==
    LET c == Counted(n)
    IN  /\ Tick(n) /\ name \notin {n, NoNode} /\ n \in allowed
        /\ SetActive(n, ActiveAfter(n))
        /\ count' = [count EXCEPT ![n] = IF TakesOver(c) /\ ~Keeps THEN 0 ELSE c]
        /\ looked' = looked \cup {n}
        /\ quiet' = [quiet EXCEPT ![n] =
                        IF n \notin looked THEN 0 ELSE IF @ <= Limit THEN @ + 1 ELSE @]
        /\ Goto(n, IF ActiveAfter(n) THEN "update" ELSE "check")
        /\ UNCHANGED <<name, allowed, faults, edits>>

\* The query fails: the state stays.
FindFails(n) ==
    /\ Tick(n) /\ Fault
    /\ UNCHANGED <<name, allowed, looked, pc, active, count, quiet, edits>>

\* The connection is known to be lost: the data processor is inactive, the
\* calculations stay as they are.
Disconnected(n) ==
    /\ Tick(n) /\ Fault
    /\ SetActive(n, active[n] /\ Keeps)
    /\ UNCHANGED <<name, allowed, looked, pc, count, quiet, edits>>

(* ... and the write, another call to the database.                        *)

Written == looked' = {} /\ quiet' = [m \in Nodes |-> 0]

\* The document is created.  The index of the collection is unique: if another
\* node has created it meanwhile, the data processor goes on active until its
\* next check, and the calculations exit.
Insert(n) ==
    /\ pc[n] = "insert" /\ Step(n)
    /\ \/ name = NoNode /\ name' = n /\ Written /\ Goto(n, "check")
       \/ /\ name # NoNode
          /\ Goto(n, IF Keeps THEN "down" ELSE "check")
          /\ UNCHANGED <<name, looked, quiet>>
    /\ UNCHANGED <<allowed, active, count, faults, edits>>

\* Name and keep-alive are written whatever the document holds by now.
Update(n) ==
    /\ pc[n] = "update" /\ Step(n)
    /\ name' = n /\ Written /\ Goto(n, "check")
    /\ UNCHANGED <<allowed, active, count, faults, edits>>

UpdateFails(n) ==
    /\ pc[n] = "update" /\ Step(n) /\ Fault
    /\ Goto(n, "check")
    /\ UNCHANGED <<name, allowed, looked, active, count, quiet, edits>>

-----------------------------------------------------------------------------
(* The process ends and is started again; the administrator.               *)

Crash(n) ==
    /\ Running(n) /\ Fault
    /\ Goto(n, "down")
    /\ SetActive(n, FALSE)
    /\ count' = [count EXCEPT ![n] = 0]
    /\ looked' = looked \ {n}
    /\ quiet' = [quiet EXCEPT ![n] = 0]
    /\ Step(n)
    /\ UNCHANGED <<name, allowed, edits>>

Restart(n) ==
    /\ ~Running(n)
    /\ Goto(n, "check")
    /\ Step(n)
    /\ UNCHANGED <<name, allowed, looked, active, count, quiet, faults, edits>>

EditInstance(ns) ==
    /\ edits < MaxEdits /\ name # NoNode /\ ns # allowed
    /\ allowed' = ns
    /\ edits' = edits + 1
    /\ UNCHANGED <<name, looked, pc, active, count, quiet, behind, slow, faults>>

Next ==
    \/ \E n \in Nodes :
         \/ FindNone(n) \/ FindNotAllowed(n) \/ FindOwn(n) \/ FindOther(n)
         \/ FindFails(n) \/ Disconnected(n)
         \/ Insert(n) \/ Update(n) \/ UpdateFails(n) \/ Crash(n) \/ Restart(n)
    \/ \E ns \in SUBSET Nodes : EditInstance(ns)

\* The timer of every process fires again and again, a call to the database
\* ends, and the service manager starts a process again.
Fairness ==
    \A n \in Nodes :
        /\ WF_vars(FindNone(n) \/ FindNotAllowed(n) \/ FindOwn(n) \/ FindOther(n))
        /\ WF_vars(Insert(n)) /\ WF_vars(Update(n)) /\ WF_vars(Restart(n))

Spec == Init /\ [][Next]_vars /\ Fairness

-----------------------------------------------------------------------------
(* Properties.                                                             *)

\* Types; a node about to claim the role in the document is active.
TypeOK ==
    /\ name \in Nodes \cup {NoNode}
    /\ allowed \subseteq Nodes /\ looked \subseteq Nodes
    /\ pc \in [Nodes -> {"check", "insert", "update", "down"}]
    /\ active \in [Nodes -> BOOLEAN]
    /\ count \in [Nodes -> 0 .. (IF Keeps THEN Limit + 1 ELSE Limit)]
    /\ quiet \in [Nodes -> 0 .. Limit + 1]
    /\ slow \in 0 .. MaxSlow /\ faults \in 0 .. MaxFaults /\ edits \in 0 .. MaxEdits
    /\ \A n \in Nodes : pc[n] = "update" => active[n]

\* "If another node is active and its activeNodeKeepAliveTimeTag is recent, the
\* current instance remains inactive" (docs/DEVELOPER_GUIDE.md:137): a node takes
\* the role of another only if more than Limit checks in a row, the last one
\* included, found the keep-alive of the check before.
TakeoverNeedsStall ==
    [][ \A n \in Nodes :
          ~active[n] /\ active'[n] /\ name \notin {n, NoNode} => quiet'[n] > Limit ]_vars

\* One node acts.
OneActive == \E n \in Nodes : active[n] /\ \A m \in Nodes \ {n} : ~active[m]

\* If some node may run, in the end one node is active and stays the only one,
\* however many created the document or took over at once.
Converges == <>[](allowed = {} \/ OneActive)
=============================================================================

-------------------------- MODULE DriverRedundancy --------------------------
(***************************************************************************)
(* Active/standby arbitration of one protocol driver instance, as done by  *)
(* package jsredundancy (src/src/go-common/jsredundancy/jsredundancy.go)   *)
(* for every Go protocol driver.                                           *)
(*                                                                         *)
(* The nodes share nothing but one document of the collection              *)
(* protocolDriverInstances.  The active node rewrites the document's       *)
(* activeNodeName and activeNodeKeepAliveTimeTag on every cycle; a standby *)
(* node reads it on every cycle and takes over after more than             *)
(* KeepAliveCountLimit consecutive readings of an unchanged time tag.      *)
(* Reading and writing are separate database calls, so the cycles of the   *)
(* nodes interleave between them.                                          *)
(*                                                                         *)
(* Time tags are only ever compared for equality, and Now() never returns  *)
(* a tag that is still remembered anywhere, so a tag is the least member   *)
(* of 1..NumStamps that no document and no node holds.                     *)
(***************************************************************************)
EXTENDS Integers, FiniteSets

CONSTANTS
    Nodes,                  \* the nodes configured with this instance
    NoNode,                 \* activeNodeName "": no node has claimed it yet
    KeepAliveCountLimit,    \* unchanged readings a standby tolerates
    MissingInstanceActive,  \* Controller.MissingInstanceActive
    NumStamps,              \* BOUND: how many distinct time tags there are
    MaxLag,                 \* BOUND: steps a node may make between two steps
                            \* of another running node ...
    WriteLag,               \* ... and between its reading and its writing
    MaxFaults,              \* BOUND: crashes and failed database calls
    MaxEdits                \* BOUND: changes made through the admin UI

ASSUME NodeAssumption == NoNode \notin Nodes
ASSUME LimitAssumption == KeepAliveCountLimit \in Nat \ {0}
ASSUME MissingAssumption == MissingInstanceActive \in BOOLEAN
ASSUME BoundAssumption ==
    /\ NumStamps \in Nat
    /\ MaxLag \in Nat \ {0}
    /\ WriteLag \in 1..MaxLag
    /\ MaxFaults \in Nat
    /\ MaxEdits \in Nat

\* The value of inst and form when there is no document.
Absent == [name |-> NoNode, ka |-> 0, nodeNames |-> {}, exists |-> FALSE]

Stamps == 0..NumStamps     \* 0 is Go's zero time

Docs == [name : Nodes \cup {NoNode}, ka : Stamps,
         nodeNames : SUBSET Nodes, exists : BOOLEAN]

VARIABLES
    inst,    \* the protocolDriverInstances document
    form,    \* the copy of it open in the admin UI's edit dialog
    pc,      \* where each node is in Run/loop
    active,  \* Controller.active
    last,    \* stallCounter.last
    count,   \* stallCounter.count
    snap,    \* inst.ActiveNodeKeepAliveTimeTag held across the yield delay
    \* History and budgets, read by no node:
    seen,    \* readings by the node since the document last changed (capped)
    health,  \* outcome of the node's latest database calls
    lag,     \* lag[n][m]: steps of m since n's latest step
    faults,  \* faults used up
    edits    \* admin changes used up

nodeVars == <<pc, active, last, count, snap>>
vars == <<inst, form, pc, active, last, count, snap, seen, health, lag,
          faults, edits>>

-----------------------------------------------------------------------------
NodeAllowed(doc, n) == doc.nodeNames = {} \/ n \in doc.nodeNames

\* Mutants: the counter of Redundancy.cs, which an advance did not reset; a
\* limit off by one either way.
observeAccumulates(n, cnt, ka) == IF last[n] = ka THEN cnt + 1 ELSE cnt
takeOverTooSoon(cnt) == cnt >= KeepAliveCountLimit
takeOverTooLate(cnt) == cnt > KeepAliveCountLimit + 1

\* stallCounter.observe: the new count after reading tag ka, and the verdict.
observe(n, cnt, ka) == IF last[n] = ka THEN cnt + 1 ELSE 0
takeOver(cnt) == cnt > KeepAliveCountLimit

Remembered == {inst.ka, form.ka} \cup {last[n] : n \in Nodes}
                                 \cup {snap[n] : n \in Nodes}

\* jsmongo.Now(): a tag that equals none that is still remembered.
Now == {s \in 1..NumStamps :
          /\ s \notin Remembered
          /\ \A t \in 1..NumStamps : t < s => t \in Remembered}

SeenCap == KeepAliveCountLimit + 2
Zeros == [m \in Nodes |-> 0]

\* n takes a step; every other running node falls behind by one.
Step(n) ==
    lag' = [m \in Nodes |->
              IF m = n \/ pc[m] = "down" THEN Zeros
              ELSE [lag[m] EXCEPT ![n] = IF @ < MaxLag THEN @ + 1 ELSE @]]

\* n has slept TickPeriod and starts a cycle: meanwhile no other running node
\* has been left behind further than the bounds on their relative speed say.
Patience(m) == IF pc[m] = "write" THEN WriteLag ELSE MaxLag
Tick(n) ==
    /\ \A m \in Nodes \ {n} : pc[m] # "down" => lag[m][n] < Patience(m)
    /\ Step(n)

\* The bookkeeping of a reading that succeeded, and of a database call that
\* failed.
Reads(n) ==
    /\ seen' = [seen EXCEPT ![n] = IF @ < SeenCap THEN @ + 1 ELSE @]
    /\ health' = [health EXCEPT ![n] = IF @ = "failed" THEN "unknown" ELSE @]

Fails(n) ==
    /\ faults < MaxFaults
    /\ faults' = faults + 1
    /\ health' = [health EXCEPT ![n] = "failed"]

\* The process of n ends; its memory is gone.
Down(n) ==
    /\ pc' = [pc EXCEPT ![n] = "down"]
    /\ active' = [active EXCEPT ![n] = FALSE]
    /\ last' = [last EXCEPT ![n] = 0]
    /\ count' = [count EXCEPT ![n] = 0]
    /\ snap' = [snap EXCEPT ![n] = 0]

-----------------------------------------------------------------------------
(* Run: connect, then loop with a fresh stallCounter.  The active flag is  *)
(* the Controller's and survives a lost connection.                        *)

Connect(n) ==
    /\ pc[n] = "connect"
    /\ pc' = [pc EXCEPT ![n] = "tick"]
    /\ last' = [last EXCEPT ![n] = 0]
    /\ count' = [count EXCEPT ![n] = 0]
    /\ Step(n)
    /\ UNCHANGED <<inst, form, active, snap, seen, health, faults, edits>>

ConnectFails(n) ==
    /\ pc[n] = "connect"
    /\ Fails(n)
    /\ Step(n)
    /\ UNCHANGED <<inst, form, nodeVars, seen, edits>>

PingFails(n) ==
    /\ pc[n] = "tick"
    /\ Fails(n)
    /\ pc' = [pc EXCEPT ![n] = "connect"]
    /\ Step(n)
    /\ UNCHANGED <<inst, form, active, last, count, snap, seen, edits>>

-----------------------------------------------------------------------------
(* One cycle of loop: FindOne and everything decided from it ...           *)

\* noInstance: what any FindOne error leads to.  The yield delay that ends it
\* holds nothing over, so the cycle ends here.
noInstance(n) ==
    /\ active' = [active EXCEPT ![n] = MissingInstanceActive]
    /\ count' = IF ~MissingInstanceActive /\ active[n]
                THEN [count EXCEPT ![n] = 0] ELSE count
    /\ UNCHANGED <<pc, last, snap>>

\* The document is not there (ErrNoDocuments).
ReadMissing(n) ==
    /\ pc[n] = "tick"
    /\ ~inst.exists
    /\ noInstance(n)
    /\ Tick(n)
    /\ UNCHANGED <<inst, form, seen, health, faults, edits>>

\* The document is there but the query failed or timed out.
ReadFails(n) ==
    /\ pc[n] = "tick"
    /\ inst.exists
    /\ noInstance(n)
    /\ Fails(n)
    /\ Step(n)
    /\ UNCHANGED <<inst, form, seen, edits>>

\* jslog.Fatal: this node is not listed in nodeNames.
ReadNotAllowed(n) ==
    /\ pc[n] = "tick"
    /\ inst.exists
    /\ ~NodeAllowed(inst, n)
    /\ Tick(n)
    /\ Down(n)
    /\ Reads(n)
    /\ UNCHANGED <<inst, form, faults, edits>>

\* The document names this node.
ReadOwn(n) ==
    /\ pc[n] = "tick"
    /\ inst.exists
    /\ NodeAllowed(inst, n)
    /\ inst.name = n
    /\ active' = [active EXCEPT ![n] = TRUE]
    /\ count' = [count EXCEPT ![n] = 0]
    /\ pc' = [pc EXCEPT ![n] = "write"]
    /\ Tick(n)
    /\ Reads(n)
    /\ UNCHANGED <<inst, form, last, snap, faults, edits>>

\* A standby node reads another node's (or nobody's) claim and applies the
\* takeover rule.
ReadOther(n) ==
    /\ pc[n] = "tick"
    /\ inst.exists
    /\ NodeAllowed(inst, n)
    /\ inst.name # n
    /\ ~active[n]
    /\ LET c == observe(n, count[n], inst.ka)
       IN  /\ count' = [count EXCEPT ![n] = c]
           /\ active' = [active EXCEPT ![n] = takeOver(c)]
           /\ pc' = [pc EXCEPT ![n] = IF takeOver(c) THEN "write" ELSE "tick"]
    /\ last' = [last EXCEPT ![n] = inst.ka]
    /\ Tick(n)
    /\ Reads(n)
    /\ UNCHANGED <<inst, form, snap, faults, edits>>

\* Mutant: the node goes on without deactivating itself.
ReadWithoutYield(n) ==
    /\ pc[n] = "tick"
    /\ inst.exists
    /\ NodeAllowed(inst, n)
    /\ inst.name # n
    /\ active[n]
    /\ Tick(n)
    /\ Reads(n)
    /\ UNCHANGED <<inst, form, nodeVars, faults, edits>>

\* An active node reads another node's claim: it yields, and sleeps a random
\* time with the document it has read in hand.
ReadYield(n) ==
    /\ pc[n] = "tick"
    /\ inst.exists
    /\ NodeAllowed(inst, n)
    /\ inst.name # n
    /\ active[n]
    /\ active' = [active EXCEPT ![n] = FALSE]
    /\ count' = [count EXCEPT ![n] = 0]
    /\ snap' = [snap EXCEPT ![n] = inst.ka]
    /\ pc' = [pc EXCEPT ![n] = "yield"]
    /\ Tick(n)
    /\ Reads(n)
    /\ UNCHANGED <<inst, form, last, faults, edits>>

\* After the delay the takeover rule is applied to the document read before.
Yielded(n) ==
    /\ pc[n] = "yield"
    /\ LET c == observe(n, count[n], snap[n])
       IN  /\ count' = [count EXCEPT ![n] = c]
           /\ active' = [active EXCEPT ![n] = takeOver(c)]
           /\ pc' = [pc EXCEPT ![n] = IF takeOver(c) THEN "write" ELSE "tick"]
    /\ last' = [last EXCEPT ![n] = snap[n]]
    /\ snap' = [snap EXCEPT ![n] = 0]
    /\ Step(n)
    /\ UNCHANGED <<inst, form, seen, health, faults, edits>>

(* ... and writeKeepAlive, an unconditional update of whatever document is *)
(* there now; nothing is written, and no error returned, if none is.       *)

\* Mutant: only the time tag is refreshed, the name is never claimed.
WriteTagOnly(n) ==
    /\ pc[n] = "write"
    /\ pc' = [pc EXCEPT ![n] = "tick"]
    /\ inst.exists
    /\ \E s \in Now : inst' = [inst EXCEPT !.ka = s]
    /\ seen' = Zeros
    /\ health' = [health EXCEPT ![n] = "ok"]
    /\ Step(n)
    /\ UNCHANGED <<form, active, last, count, snap, faults, edits>>

WriteKeepAlive(n) ==
    /\ pc[n] = "write"
    /\ pc' = [pc EXCEPT ![n] = "tick"]
    /\ \/ /\ inst.exists
          /\ \E s \in Now : inst' = [inst EXCEPT !.name = n, !.ka = s]
          /\ seen' = Zeros
       \/ /\ ~inst.exists
          /\ UNCHANGED <<inst, seen>>
    /\ health' = [health EXCEPT ![n] = "ok"]
    /\ Step(n)
    /\ UNCHANGED <<form, active, last, count, snap, faults, edits>>

WriteFails(n) ==
    /\ pc[n] = "write"
    /\ pc' = [pc EXCEPT ![n] = "tick"]
    /\ Fails(n)
    /\ Step(n)
    /\ UNCHANGED <<inst, form, active, last, count, snap, seen, edits>>

-----------------------------------------------------------------------------
(* The node's process stops and is started again by the service manager.   *)

Crash(n) ==
    /\ pc[n] # "down"
    /\ Fails(n)
    /\ Down(n)
    /\ Step(n)
    /\ UNCHANGED <<inst, form, seen, edits>>

Restart(n) ==
    /\ pc[n] = "down"
    /\ pc' = [pc EXCEPT ![n] = "connect"]
    /\ Step(n)
    /\ UNCHANGED <<inst, form, active, last, count, snap, seen, health,
                   faults, edits>>

-----------------------------------------------------------------------------
(* The admin UI.  The edit dialog works on a copy of the document and      *)
(* saving sends the whole copy back, activeNodeName and the time tag       *)
(* included, whatever the nodes have written meanwhile.                    *)

OpenForm ==
    /\ edits < MaxEdits
    /\ inst.exists
    /\ form' = inst
    /\ UNCHANGED <<inst, nodeVars, seen, health, lag, faults, edits>>

\* updateProtocolDriverInstance; ns is the node list edited in the dialog.
SaveForm(ns) ==
    /\ edits < MaxEdits
    /\ form.exists
    /\ edits' = edits + 1
    /\ inst' = [form EXCEPT !.nodeNames = ns]
    /\ form' = Absent
    /\ seen' = Zeros
    /\ UNCHANGED <<nodeVars, health, lag, faults>>

\* deleteProtocolDriverInstance; a later save finds no document of that _id.
DeleteInstance ==
    /\ edits < MaxEdits
    /\ inst.exists
    /\ edits' = edits + 1
    /\ inst' = Absent
    /\ form' = Absent
    /\ seen' = Zeros
    /\ UNCHANGED <<nodeVars, health, lag, faults>>

\* createProtocolDriverInstance, then the save that gives the new document
\* its driver name, instance number and node list.
CreateInstance(ns) ==
    /\ ~inst.exists
    /\ inst' = [name |-> NoNode, ka |-> 0, nodeNames |-> ns, exists |-> TRUE]
    /\ seen' = Zeros
    /\ UNCHANGED <<form, nodeVars, health, lag, faults, edits>>

-----------------------------------------------------------------------------
\* A newly configured instance, nobody running yet.
Init ==
    /\ inst = [name |-> NoNode, ka |-> 0, nodeNames |-> {}, exists |-> TRUE]
    /\ form = Absent
    /\ pc = [n \in Nodes |-> "connect"]
    /\ active = [n \in Nodes |-> FALSE]
    /\ last = [n \in Nodes |-> 0]
    /\ count = [n \in Nodes |-> 0]
    /\ snap = [n \in Nodes |-> 0]
    /\ seen = [n \in Nodes |-> 0]
    /\ health = [n \in Nodes |-> "unknown"]
    /\ lag = [n \in Nodes |-> Zeros]
    /\ faults = 0
    /\ edits = 0

\* What a node does when nothing goes wrong.
Work(n) ==
    \/ Connect(n)
    \/ ReadMissing(n) \/ ReadNotAllowed(n)
    \/ ReadOwn(n) \/ ReadOther(n) \/ ReadYield(n) \/ Yielded(n)
    \/ WriteKeepAlive(n)

Fault(n) ==
    \/ ConnectFails(n) \/ PingFails(n) \/ ReadFails(n) \/ WriteFails(n)
    \/ Crash(n)

Admin ==
    \/ OpenForm
    \/ \E ns \in SUBSET Nodes : SaveForm(ns) \/ CreateInstance(ns)
    \/ DeleteInstance

Next ==
    \/ \E n \in Nodes : Work(n) \/ Fault(n) \/ Restart(n)
    \/ Admin

Spec == Init /\ [][Next]_vars

\* Every running node keeps cycling: loop sleeps TickPeriod and goes on.
FairSpec == Spec /\ \A n \in Nodes : WF_vars(Work(n))

-----------------------------------------------------------------------------
(* Properties.                                                             *)

\* Every variable keeps its type; the stall count never passes the value at
\* which the node takes over.
TypeOK ==
    /\ inst \in Docs
    /\ form \in Docs
    /\ pc \in [Nodes -> {"down", "connect", "tick", "yield", "write"}]
    /\ active \in [Nodes -> BOOLEAN]
    /\ last \in [Nodes -> Stamps]
    /\ count \in [Nodes -> 0..(KeepAliveCountLimit + 1)]
    /\ snap \in [Nodes -> Stamps]
    /\ seen \in [Nodes -> 0..SeenCap]
    /\ health \in [Nodes -> {"unknown", "ok", "failed"}]
    /\ lag \in [Nodes -> [Nodes -> 0..MaxLag]]
    /\ faults \in 0..MaxFaults
    /\ edits \in 0..MaxEdits

\* A node about to claim an instance it found in another node's name has seen
\* it dead: after a first reading, KeepAliveCountLimit + 1 more found not one
\* new keep-alive (the first one counts too if nobody has ever written one).
\* Short stalls do not add up, neither across reconnections nor across the
\* yield delay.
TakeoverNeedsStall ==
    \A n \in Nodes :
        (edits = 0 /\ pc[n] = "write" /\ inst.name # n /\ seen[n] > 0)
            => /\ seen[n] > KeepAliveCountLimit
               /\ inst.ka # 0 => seen[n] > KeepAliveCountLimit + 1

\* Two nodes are active together only until the loser's next good reading: a
\* node that has read the present document, finds itself not named in it and
\* is still active, is on its way to claim it, or its last database call
\* failed.
YieldsAtNextReading ==
    \A n \in Nodes :
        (active[n] /\ inst.exists /\ inst.name # n /\ seen[n] > 0)
            => (pc[n] = "write" \/ health[n] = "failed")

\* No node becomes active while the node the document names keeps its keep-
\* alives coming: as long as the readings others can make between two of its
\* writes (MaxLag + WriteLag) do not exceed the limit plus the first one, it is
\* not displaced.
LiveNodeKeepsRole ==
    [][\A m, n \in Nodes :
         (/\ m # n
          /\ edits' = 0
          /\ health[n] = "ok"
          /\ inst.name = n
          /\ ~active[m])
            => ~active'[m]]_vars

\* Once faults and edits are over, exactly one node is active for good, and
\* it is the one the document names.
Settled ==
    \E n \in Nodes :
        /\ active[n]
        /\ inst.name = n
        /\ \A m \in Nodes \ {n} : ~active[m]

SomeoneRuns == \E n \in Nodes : pc[n] # "down" /\ NodeAllowed(inst, n)

Converges == <>[](SomeoneRuns /\ inst.exists) => <>[]Settled
=============================================================================

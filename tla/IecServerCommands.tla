------------------------- MODULE IecServerCommands -------------------------
(***************************************************************************)
(* The command side of the IEC 60870-5-101/104 servers                     *)
(* (srvapp/commands.go): requests of the masters are checked and forwarded *)
(* to commandsQueue.  The point selected for a Select-Before-Operate is    *)
(* kept in one variable of the process, lastPointKeySelectedOk, that every *)
(* session reads and writes without a lock; the requests of one session    *)
(* are handled one after the other.                                        *)
(*                                                                         *)
(* The values and their conversions are left out: no check depends on      *)
(* them.                                                                   *)
(***************************************************************************)
EXTENDS Integers, Sequences

CONSTANTS
    Sessions,       \* masters connected to the connections of the process
    Points,         \* command points mapped to a destination
    Sbo,            \* those with protocolDestinationCommandUseSBO
    None,           \* no point
    MaxRequests,    \* bound: requests of the masters
    MaxFaults       \* bound: failed inserts and losses of MongoDB

ASSUME PointAssumption ==
    /\ Sbo \subseteq Points
    /\ None \notin Points /\ None \notin Sessions \X Points
ASSUME BoundAssumption == MaxRequests \in Nat /\ MaxFaults \in Nat

VARIABLES
    isMongoLive,    \* Engine.IsMongoLive
    handler,        \* what each session's handler is at
    selected,       \* lastPointKeySelectedOk
    con,            \* last confirmation each session was sent for its request
    queue,          \* commandsQueue: the commands forwarded, <<session, point>>
    \* History and budgets:
    since,          \* since[s]: points some session selected since s had a
                    \* request granted or refused
    alone,          \* <<session, point>> of a select no other request followed
    requests, faults

vars == <<isMongoLive, handler, selected, con, queue, since, alone, requests,
          faults>>

Idle == [stage |-> "idle"]
Handler(stage, p, select) == [stage |-> stage, point |-> p, select |-> select]

\* What is wrong with a request besides a select that is missing or not
\* expected: no such point, invalid state, wrong qualifier, expired.
Faulty == None

Init ==
    /\ isMongoLive = TRUE
    /\ handler = [s \in Sessions |-> Idle]
    /\ selected = None
    /\ con = [s \in Sessions |-> "none"]
    /\ queue = <<>>
    /\ since = [s \in Sessions |-> {}]
    /\ alone = None
    /\ requests = 0 /\ faults = 0

Fault == faults < MaxFaults /\ faults' = faults + 1

Request(s) ==
    /\ handler[s] = Idle
    /\ requests < MaxRequests
    /\ requests' = requests + 1

\* Mutant: a refused request leaves the selection.
forgetNothing == selected

\* lastPointKeySelectedOk = 0.
forget == None

\* negativeCon, and the selection is forgotten.
Refuse(s) ==
    /\ con' = [con EXCEPT ![s] = "negative"]
    /\ selected' = forget
    /\ since' = [since EXCEPT ![s] = {}]
    /\ handler' = [handler EXCEPT ![s] = Idle]

\* A request is received; findMappedPoint asks the database.  Without it the
\* master gets no answer.
Receive(s, p, select) ==
    /\ Request(s)
    /\ con' = [con EXCEPT ![s] = "none"]
    /\ handler' = [handler EXCEPT ![s] =
                     IF isMongoLive THEN Handler("find", p, select) ELSE Idle]
    /\ alone' = IF alone = <<s, p>> /\ ~select THEN alone ELSE None
    /\ UNCHANGED <<isMongoLive, selected, queue, since, faults>>

\* Clock synchronisation, a read of an unknown object, or an invalid state:
\* no query or no point, and the selection is forgotten.
ReceiveOther(s) ==
    /\ Request(s)
    /\ \E c \in {"positive", "negative"} : con' = [con EXCEPT ![s] = c]
    /\ selected' = forget
    /\ since' = [since EXCEPT ![s] = {}]
    /\ alone' = None
    /\ UNCHANGED <<isMongoLive, handler, queue, faults>>

\* Mutant: every point may be selected.
selectExpectedAlways(p) == p \in Points

selectExpected(p) == p \in Sbo

\* Not found, the query failed, a select that is not expected, the wrong
\* qualifier, or too late.
Rejected(s) ==
    LET h == handler[s]
    IN  /\ h.stage = "find"
        /\ \/ /\ h.point = Faulty \/ (h.select /\ ~selectExpected(h.point))
              /\ UNCHANGED faults
           \/ Fault
        /\ Refuse(s)
        /\ alone' = None
        /\ UNCHANGED <<isMongoLive, queue, requests>>

Select(s) ==
    LET h == handler[s]
    IN  /\ h.stage = "find" /\ h.select /\ selectExpected(h.point)
        /\ alone' = IF \A t \in Sessions \ {s} : handler[t] = Idle
                     THEN <<s, h.point>> ELSE None
        /\ con' = [con EXCEPT ![s] = "positive"]
        /\ selected' = h.point
        /\ since' = [t \in Sessions |-> since[t] \cup {h.point}]
        /\ handler' = [handler EXCEPT ![s] = Idle]
        /\ UNCHANGED <<isMongoLive, queue, requests, faults>>

\* Mutant: the selection is forgotten before it is compared.
ExecuteForgetsFirst(s) ==
    LET h == handler[s]
    IN  /\ h.stage = "find" /\ h.point \in Points /\ ~h.select
        /\ con' = [con EXCEPT ![s] = "positive"]
        /\ selected' = None
        /\ handler' = [handler EXCEPT ![s].stage =
                         IF h.point \notin Sbo THEN "granted" ELSE "unselected"]
        /\ UNCHANGED <<isMongoLive, queue, since, alone, requests, faults>>

\* The execute is confirmed positively before the selection is compared.
Execute(s) ==
    LET h == handler[s]
        ok == h.point \notin Sbo \/ selected = h.point
    IN  /\ h.stage = "find" /\ h.point \in Points /\ ~h.select
        /\ con' = [con EXCEPT ![s] = "positive"]
        /\ handler' = [handler EXCEPT ![s].stage = IF ok THEN "granted" ELSE "unselected"]
        /\ since' = IF ok THEN [since EXCEPT ![s] = {}] ELSE since
        /\ UNCHANGED <<isMongoLive, selected, queue, alone, requests, faults>>

\* "Tried execute without select first": a second, negative confirmation.
RefuseUnselected(s) ==
    /\ handler[s].stage = "unselected"
    /\ Refuse(s)
    /\ alone' = None
    /\ UNCHANGED <<isMongoLive, queue, requests, faults>>

\* Mutant: the selection outlives its execute.
ConsumeNothing(s) ==
    /\ handler[s].stage = "granted"
    /\ handler' = [handler EXCEPT ![s].stage = "insert"]
    /\ UNCHANGED <<isMongoLive, selected, con, queue, since, alone, requests, faults>>

\* The selection is used up.
Consume(s) ==
    /\ handler[s].stage = "granted"
    /\ handler' = [handler EXCEPT ![s].stage = "insert"]
    /\ selected' = None
    /\ alone' = None
    /\ UNCHANGED <<isMongoLive, con, queue, since, requests, faults>>

\* InsertOne; a failure is only logged.
Insert(s) ==
    /\ handler[s].stage = "insert"
    /\ handler' = [handler EXCEPT ![s] = Idle]
    /\ \/ queue' = Append(queue, <<s, handler[s].point>>) /\ UNCHANGED faults
       \/ Fault /\ UNCHANGED queue
    /\ UNCHANGED <<isMongoLive, selected, con, since, alone, requests>>

\* MaintainMongo.
MongoLost ==
    /\ isMongoLive /\ Fault
    /\ isMongoLive' = FALSE
    /\ UNCHANGED <<handler, selected, con, queue, since, alone, requests>>

MongoBack ==
    /\ ~isMongoLive
    /\ isMongoLive' = TRUE
    /\ UNCHANGED <<handler, selected, con, queue, since, alone, requests, faults>>

Next ==
    \/ \E s \in Sessions :
         \/ \E p \in Points \cup {Faulty}, select \in BOOLEAN : Receive(s, p, select)
         \/ ReceiveOther(s) \/ Rejected(s) \/ Select(s) \/ Execute(s)
         \/ RefuseUnselected(s) \/ Consume(s) \/ Insert(s)
    \/ MongoLost \/ MongoBack

Spec == Init /\ [][Next]_vars

-----------------------------------------------------------------------------
(* Properties.                                                             *)

Stages == {"find", "granted", "unselected", "insert"}

\* Types; only a point that uses Select-Before-Operate is ever selected, and
\* a handler past its checks has a point to forward.
TypeOK ==
    /\ isMongoLive \in BOOLEAN
    /\ selected \in Sbo \cup {None}
    /\ \A s \in Sessions :
         /\ handler[s] = Idle \/ handler[s].stage \in Stages
         /\ handler[s].stage \in {"granted", "insert"} => handler[s].point \in Points
    /\ con \in [Sessions -> {"none", "positive", "negative"}]
    /\ since \in [Sessions -> SUBSET Sbo]
    /\ \A i \in DOMAIN queue : queue[i] \in Sessions \X Points
    /\ requests \in 0 .. MaxRequests /\ faults \in 0 .. MaxFaults

\* The unlocked slot never lets a session operate a point that uses
\* Select-Before-Operate unless the point was selected after the session's
\* last granted or refused request: one select is never good for two executes
\* of a session, in no interleaving of the handlers (forwardCommand).
GrantNeedsSelect ==
    [][\A s \in Sessions :
         /\ handler[s].stage = "find" /\ handler'[s].stage = "granted"
         /\ handler[s].point \in Sbo
         => handler[s].point \in since[s]]_vars

\* A master that selects a point while no other request is being handled, and
\* executes before any other request comes, is not refused (forwardCommand).
UndisturbedNotRefused ==
    \A s \in Sessions :
      handler[s].stage = "unselected" => alone # <<s, handler[s].point>>
=============================================================================

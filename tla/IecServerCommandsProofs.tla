---------------------- MODULE IecServerCommandsProofs ----------------------
(***************************************************************************)
(* TLAPS proofs about IecServerCommands, for any number of sessions,       *)
(* points and requests.                                                    *)
(***************************************************************************)
EXTENDS IecServerCommands, SequenceTheorems, TLAPS

\* The handlers and the queue in full.
HandlerType ==
    [stage : Stages, point : Points \cup {None}, select : BOOLEAN]

StateType ==
    /\ handler \in [Sessions -> {Idle} \cup HandlerType]
    /\ \A s \in Sessions : handler[s].stage = "unselected" => handler[s].point \in Points
    /\ queue \in Seq(Sessions \X Points)

\* What is selected was selected since the session last had an answer to an
\* execute; between a grant and the moment the selection is used up it may be
\* the one the grant was based on.
SelectInv ==
    \A s \in Sessions :
        handler[s].stage # "granted" => selected = None \/ selected \in since[s]

\* A master left alone: its point is still selected, no other request is being
\* handled, and its own can only be the execute of that point.
AloneInv ==
    \A s \in Sessions, p \in Points :
        alone = <<s, p>> =>
          /\ selected = p
          /\ \A t \in Sessions \ {s} : handler[t] = Idle
          /\ \/ handler[s] = Idle
             \/ /\ handler[s].stage \in {"find", "granted"}
                /\ handler[s].point = p /\ ~handler[s].select

\* The inductive invariant.
Inv == TypeOK /\ StateType /\ SelectInv /\ AloneInv

\* No session has asked for anything yet.
LEMMA InitInv == Init => Inv
  BY PointAssumption, BoundAssumption
     DEF Init, Inv, TypeOK, StateType, SelectInv, AloneInv, Idle

\* A step of a session preserves the invariant.
LEMMA SessionInv ==
    ASSUME Inv, NEW s \in Sessions,
           \/ \E p \in Points \cup {Faulty}, select \in BOOLEAN : Receive(s, p, select)
           \/ ReceiveOther(s) \/ Rejected(s) \/ Select(s) \/ Execute(s)
           \/ RefuseUnselected(s) \/ Consume(s) \/ Insert(s)
    PROVE  Inv'
<1> USE PointAssumption, BoundAssumption
<1>1. ASSUME NEW p \in Points \cup {Faulty}, NEW select \in BOOLEAN,
             Receive(s, p, select)
      PROVE  Inv'
  <2>1. TypeOK' /\ StateType'
    BY <1>1 DEF Inv, TypeOK, StateType, Receive, Request, Idle, Handler,
                HandlerType, Stages, Faulty
  <2>2. SelectInv'
    BY <1>1 DEF Inv, StateType, SelectInv, Receive, Request, Idle, Handler
  <2>3. AloneInv'
    BY <1>1 DEF Inv, StateType, AloneInv, Receive, Request, Idle, Handler, Faulty
  <2> QED BY <2>1, <2>2, <2>3 DEF Inv
<1>2. CASE ReceiveOther(s)
  <2>1. TypeOK' /\ StateType'
    BY <1>2 DEF Inv, TypeOK, StateType, ReceiveOther, Request, forget
  <2>2. SelectInv' /\ AloneInv'
    BY <1>2 DEF Inv, SelectInv, AloneInv, ReceiveOther, forget
  <2> QED BY <2>1, <2>2 DEF Inv
<1>3. CASE Rejected(s) \/ RefuseUnselected(s)
  <2>1. handler' = [handler EXCEPT ![s] = Idle] /\ selected' = None
    BY <1>3 DEF Rejected, RefuseUnselected, Refuse, forget
  <2>2. faults' \in 0 .. MaxFaults
    BY <1>3 DEF Inv, TypeOK, Rejected, RefuseUnselected, Fault
  <2>3. /\ isMongoLive' = isMongoLive /\ queue' = queue /\ requests' = requests
        /\ con' = [con EXCEPT ![s] = "negative"]
        /\ since' = [since EXCEPT ![s] = {}]
    BY <1>3 DEF Rejected, RefuseUnselected, Refuse
  <2>4. TypeOK' /\ StateType'
    BY <2>1, <2>2, <2>3 DEF Inv, TypeOK, StateType, Idle
  <2>5. SelectInv' /\ AloneInv'
    BY <1>3 DEF Inv, SelectInv, AloneInv, Rejected, RefuseUnselected, Refuse,
                forget
  <2> QED BY <2>4, <2>5 DEF Inv
<1>4. CASE Select(s)
  <2>1. handler[s].point \in Sbo
    BY <1>4 DEF Select, selectExpected
  <2>2. TypeOK' /\ StateType'
    BY <1>4, <2>1 DEF Inv, TypeOK, StateType, Select, Idle
  <2>3. SelectInv'
    BY <1>4, <2>1 DEF Inv, TypeOK, StateType, SelectInv, Select, Idle
  <2>4. AloneInv'
    BY <1>4, <2>1 DEF Inv, StateType, AloneInv, Select, Idle
  <2> QED BY <2>2, <2>3, <2>4 DEF Inv
<1>5. CASE Execute(s)
  <2>1. handler[s] \in HandlerType
    BY <1>5 DEF Inv, StateType, Execute, Idle, HandlerType
  <2>2. TypeOK' /\ StateType'
    BY <1>5, <2>1 DEF Inv, TypeOK, StateType, Execute, Stages, HandlerType, Idle
  <2>3. SelectInv'
    BY <1>5, <2>1 DEF Inv, TypeOK, StateType, SelectInv, Execute, HandlerType, Idle
  <2>4. AloneInv'
    BY <1>5, <2>1 DEF Inv, StateType, AloneInv, Execute, HandlerType, Idle
  <2> QED BY <2>2, <2>3, <2>4 DEF Inv
<1>6. CASE Consume(s)
  <2>1. handler[s] \in HandlerType
    BY <1>6 DEF Inv, StateType, Consume, Idle, HandlerType
  <2>2. TypeOK' /\ StateType'
    BY <1>6, <2>1 DEF Inv, TypeOK, StateType, Consume, Stages, HandlerType, Idle
  <2>3. SelectInv' /\ AloneInv'
    BY <1>6 DEF Inv, SelectInv, AloneInv, Consume
  <2> QED BY <2>2, <2>3 DEF Inv
<1>7. CASE Insert(s)
  <2>1. <<s, handler[s].point>> \in Sessions \X Points
    BY <1>7 DEF Inv, TypeOK, Insert
  <2>2. queue' \in Seq(Sessions \X Points)
    <3>1. Append(queue, <<s, handler[s].point>>) \in Seq(Sessions \X Points)
      BY <2>1, AppendProperties, Zenon DEF Inv, StateType
    <3> QED BY <1>7, <3>1 DEF Inv, StateType, Insert
  <2>3. TypeOK' /\ StateType'
    BY <1>7, <2>2 DEF Inv, TypeOK, StateType, Insert, Fault, Idle
  <2>4. SelectInv' /\ AloneInv'
    BY <1>7 DEF Inv, StateType, SelectInv, AloneInv, Insert, Idle
  <2> QED BY <2>3, <2>4 DEF Inv
<1> QED BY <1>1, <1>2, <1>3, <1>4, <1>5, <1>6, <1>7

\* So does the loss and the return of the database.
LEMMA NextInv == Inv /\ [Next]_vars => Inv'
<1> SUFFICES ASSUME Inv, [Next]_vars PROVE Inv'
  OBVIOUS
<1>1. CASE MongoLost \/ MongoBack
  <2>1. isMongoLive' \in BOOLEAN
    BY <1>1 DEF MongoLost, MongoBack
  <2>2. faults' \in 0 .. MaxFaults
    BY <1>1, BoundAssumption DEF Inv, TypeOK, MongoLost, MongoBack, Fault
  <2>3. UNCHANGED <<handler, selected, con, queue, since, alone, requests>>
    BY <1>1 DEF MongoLost, MongoBack
  <2> QED
    BY <2>1, <2>2, <2>3 DEF Inv, TypeOK, StateType, SelectInv, AloneInv
<1>2. CASE UNCHANGED vars
  BY <1>2 DEF Inv, TypeOK, StateType, SelectInv, AloneInv, vars
<1> QED BY <1>1, <1>2, SessionInv DEF Next

\* Types: handlers, confirmations and the queue of commands, and a handler that
\* will insert a command knows which point it is for (commandServer.handle).
THEOREM TypeCorrect == Spec => []TypeOK
  BY InitInv, NextInv, PTL DEF Spec, Inv

\* The selection is one variable for all sessions and forgotten at every refusal
\* and every execute; all the same, no session executes a point that needs a
\* select unless it was selected, by this or another session, since its own last
\* execute was answered: one select never carries two executes of a session.
THEOREM OneSelectOneExecute == Spec => GrantNeedsSelect
<1> DEFINE A == \A s \in Sessions :
                  /\ handler[s].stage = "find" /\ handler'[s].stage = "granted"
                  /\ handler[s].point \in Sbo
                  => handler[s].point \in since[s]
<1>1. Inv /\ [Next]_vars => [A]_vars
  <2> SUFFICES ASSUME Inv, Next, NEW s \in Sessions,
                      handler[s].stage = "find", handler'[s].stage = "granted",
                      handler[s].point \in Sbo
               PROVE  handler[s].point \in since[s]
    OBVIOUS
  <2>1. Execute(s)
    BY DEF Next, Inv, StateType, Receive, ReceiveOther, Request, Rejected, Select,
           Execute, RefuseUnselected, Refuse, Consume, Insert, MongoLost,
           MongoBack, Idle, Handler
  <2>2. selected = handler[s].point
    BY <2>1 DEF Execute, Inv, StateType, Idle, HandlerType
  <2> QED BY <2>2, PointAssumption DEF Inv, SelectInv
<1>2. [][A]_vars => GrantNeedsSelect
  BY DEF GrantNeedsSelect
<1> QED BY <1>1, <1>2, InitInv, NextInv, PTL DEF Spec

\* A master that selected a point and met no other request since is never
\* refused its execute as not selected.
THEOREM LoneMasterServed == Spec => []UndisturbedNotRefused
<1>1. Inv => UndisturbedNotRefused
  BY DEF Inv, StateType, AloneInv, UndisturbedNotRefused, Idle, HandlerType
<1> QED BY <1>1, InitInv, NextInv, PTL DEF Spec
=============================================================================

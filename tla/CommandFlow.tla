---------------------------- MODULE CommandFlow ----------------------------
(***************************************************************************)
(* A command from the operator to the controlled station and back: the     *)
(* commandsQueue entry inserted by server_realtime_auth (index.js), the    *)
(* IEC 60870-5 client driver that watches the queue and talks to the       *)
(* station (iec60870-5/internal/cliapp/engine.go, cmd/iec104client), with  *)
(* Select-Before-Operate, and the confirmation written back and polled by  *)
(* the operator's display.                                                 *)
(*                                                                         *)
(* One driver connection.  The station is external: it confirms a select   *)
(* or an execute, positively or not, and may report the termination of an  *)
(* execute.  A command remembers in no message which command it is: the    *)
(* field "cmd" of messages is history, read by properties only.            *)
(***************************************************************************)
EXTENDS Integers, Sequences, FiniteSets

CONSTANTS
    Requests,     \* what the operators may order: [n, ca, ioa, value, sbo]
    None,         \* no value yet, no stored execute
    MaxFaults     \* bound: lost links and streams, switchovers, lost writes

ASSUME FaultsAssumption == MaxFaults \in Nat
ASSUME RequestAssumption == IsFiniteSet(Requests) /\ None \notin BOOLEAN

VARIABLES
    queue,        \* commandsQueue, in insertion order
    streaming, next,   \* the change stream: open?, next insertion to deliver
    active,       \* this node runs the protocol
    link,         \* srv.IsConnected()
    lastSelected, \* stored execute of the last select
    toStation, fromStation,    \* messages on the line
    ackQ,         \* confirmations waiting for the writer
    executed,     \* history: executions by the station, in order
    seen,         \* history: final status shown to the operator, per command
    faults

vars == <<queue, streaming, next, active, link, lastSelected, toStation,
          fromStation, ackQ, executed, seen, faults>>

line == <<toStation, fromStation>>
driver == <<streaming, next, active, link, lastSelected>>

Init ==
    /\ queue = <<>>
    /\ streaming = TRUE /\ next = 1
    /\ active = TRUE
    /\ link = TRUE
    /\ lastSelected = None
    /\ toStation = <<>> /\ fromStation = <<>>
    /\ ackQ = <<>>
    /\ executed = <<>>
    /\ seen = <<>>
    /\ faults = 0

Fault == faults < MaxFaults /\ faults' = faults + 1

-----------------------------------------------------------------------------
(* The operator.                                                           *)

\* A command that passed the checks of the server is inserted.
InsertCommand(r) ==
    /\ \A c \in DOMAIN queue : queue[c].req # r
    /\ queue' = Append(queue, [req |-> r, old |-> FALSE, delivered |-> FALSE,
                               ack |-> None, cancelled |-> FALSE])
    /\ seen' = Append(seen, "waiting")
    /\ UNCHANGED <<driver, line, ackQ, executed, faults>>

\* Ten seconds pass.
Expire(c) ==
    /\ ~queue[c].old
    /\ queue' = [queue EXCEPT ![c].old = TRUE]
    /\ UNCHANGED <<driver, line, ackQ, executed, seen, faults>>

\* The display asks for the outcome until it gets one.
PollAck(c) ==
    /\ seen[c] = "waiting"
    /\ queue[c].ack # None \/ queue[c].cancelled
    /\ seen' = [seen EXCEPT ![c] = IF queue[c].ack = TRUE THEN "good" ELSE "bad"]
    /\ UNCHANGED <<queue, driver, line, ackQ, executed, faults>>

-----------------------------------------------------------------------------
(* The driver: commands.                                                   *)

StreamBreaks ==
    /\ streaming /\ Fault
    /\ streaming' = FALSE
    /\ UNCHANGED <<queue, next, active, link, lastSelected, line, ackQ,
                   executed, seen>>

\* Mutant: the new stream delivers every entry again.
StreamRestarts ==
    /\ ~streaming
    /\ streaming' = TRUE
    /\ next' = 1
    /\ UNCHANGED <<queue, active, link, lastSelected, line, ackQ, executed,
                   seen, faults>>

\* The stream is opened again, without a resume token: from now on.
StreamReopens ==
    /\ ~streaming
    /\ streaming' = TRUE
    /\ next' = Len(queue) + 1
    /\ UNCHANGED <<queue, active, link, lastSelected, line, ackQ, executed,
                   seen, faults>>

\* The next insertion is delivered to this node ...
Delivered ==
    /\ streaming /\ next <= Len(queue)
    /\ next' = next + 1
    /\ UNCHANGED <<streaming, active, link, ackQ, executed, seen>>

\* ... which ignores it when it is not active.
IgnoreCommand ==
    /\ Delivered /\ ~active
    /\ UNCHANGED <<queue, lastSelected, line, faults>>

\* Mutant: only the link is checked.
refusedIfDown(c) == ~link

refused(c) == ~link \/ queue[c].old

\* The outcome of the command is written to its entry; an error of the write
\* is ignored.
setResult(field) ==
    \/ queue' = [queue EXCEPT ![next][field] = TRUE] /\ UNCHANGED faults
    \/ Fault /\ UNCHANGED queue

asdu(kind, r, c) ==
    [kind |-> kind, ca |-> r.ca, ioa |-> r.ioa, value |-> r.value, cmd |-> c]

\* Mutant: the return after the cancellation is missing.
CancelAndSend ==
    /\ Delivered /\ active /\ refused(next)
    /\ setResult("cancelled")
    /\ toStation' = Append(toStation, asdu("execute", queue[next].req, next))
    /\ UNCHANGED <<lastSelected, fromStation>>

\* processCommand: not connected or expired, cancelled.
CancelCommand ==
    /\ Delivered /\ active /\ refused(next)
    /\ setResult("cancelled")
    /\ UNCHANGED <<lastSelected, line>>

\* processCommand: the execute is stored if a select comes first, the
\* command is sent and marked delivered.
SendCommand ==
    LET r == queue[next].req
    IN  /\ Delivered /\ active /\ ~refused(next)
        /\ lastSelected' = IF r.sbo THEN asdu("execute", r, next)
                           ELSE lastSelected
        /\ toStation' = Append(toStation,
               asdu(IF r.sbo THEN "select" ELSE "execute", r, next))
        /\ setResult("delivered")
        /\ UNCHANGED fromStation

\* Mutant: the command that could not be sent is marked delivered as well.
SendFailsDelivered ==
    /\ Delivered /\ active /\ ~refused(next) /\ Fault
    /\ queue' = [queue EXCEPT ![next].cancelled = TRUE, ![next].delivered = TRUE]
    /\ UNCHANGED <<lastSelected, line>>

\* The same with an error of SendCmd: cancelled, the execute stays stored.
SendFails ==
    LET r == queue[next].req
    IN  /\ Delivered /\ active /\ ~refused(next) /\ Fault
        /\ lastSelected' = IF r.sbo THEN asdu("execute", r, next)
                           ELSE lastSelected
        /\ queue' \in {queue, [queue EXCEPT ![next].cancelled = TRUE]}
        /\ UNCHANGED line

\* The redundancy controller changes the role of this node.
Switchover ==
    /\ Fault
    /\ active' = ~active
    /\ UNCHANGED <<queue, streaming, next, link, lastSelected, line, ackQ,
                   executed, seen>>

LinkDown ==
    /\ link /\ Fault
    /\ link' = FALSE
    /\ toStation' = <<>> /\ fromStation' = <<>>
    /\ UNCHANGED <<queue, streaming, next, active, lastSelected, ackQ,
                   executed, seen>>

LinkUp ==
    /\ ~link
    /\ link' = TRUE
    /\ UNCHANGED <<queue, streaming, next, active, lastSelected, line, ackQ,
                   executed, seen, faults>>

-----------------------------------------------------------------------------
(* The station (external).                                                 *)

con(m, positive) ==
    [select |-> m.kind = "select", con |-> TRUE, positive |-> positive,
     ca |-> m.ca, ioa |-> m.ioa, cmd |-> m.cmd]

StationRefuses ==
    /\ toStation # <<>>
    /\ toStation' = Tail(toStation)
    /\ fromStation' = Append(fromStation, con(Head(toStation), FALSE))
    /\ UNCHANGED <<queue, driver, ackQ, executed, seen, faults>>

\* A select is confirmed; an execute is confirmed, carried out, and its
\* termination reported or not.
StationAccepts(terminates) ==
    LET m == Head(toStation)
        c == con(m, TRUE)
    IN  /\ toStation # <<>>
        /\ m.kind = "select" => ~terminates
        /\ toStation' = Tail(toStation)
        /\ fromStation' = fromStation
             \o (IF terminates THEN <<c, [c EXCEPT !.con = FALSE]>> ELSE <<c>>)
        /\ executed' = IF m.kind = "execute" THEN Append(executed, m)
                       ELSE executed
        /\ UNCHANGED <<queue, driver, ackQ, seen, faults>>

-----------------------------------------------------------------------------
(* The driver: confirmations.                                              *)

\* Mutant: the execute is sent for a refused select as well.
selectConfirmedAlways(m) == m.select

\* Mutant: any positive confirmation sends the stored execute.
confirmedPositively(m) == m.con /\ m.positive

\* Decode: a positive confirmation of a select.
selectConfirmed(m) == m.select /\ m.con /\ m.positive

\* The stored execute is looked up by object address only and stays stored;
\* it goes to the common address that confirmed.
SelectedFor(m) ==
    IF lastSelected # None /\ lastSelected.ioa = m.ioa
    THEN <<[lastSelected EXCEPT !.ca = m.ca]>> ELSE <<>>

\* ASDUHandler: every confirmation, termination included, is queued for the
\* writer, and a confirmed select is followed by its execute, unless sending
\* it fails (the error is only logged).
HandleAsdu ==
    LET m == Head(fromStation)
    IN  /\ fromStation # <<>>
        /\ fromStation' = Tail(fromStation)
        /\ ackQ' = Append(ackQ, [ioa |-> m.ioa, ack |-> m.positive,
                                 cmd |-> m.cmd])
        /\ \/ /\ toStation' = IF selectConfirmed(m)
                              THEN toStation \o SelectedFor(m) ELSE toStation
              /\ UNCHANGED faults
           \/ selectConfirmed(m) /\ Fault /\ UNCHANGED toStation
        /\ UNCHANGED <<queue, driver, executed, seen>>

\* Mutant: the confirmation goes to the newest command of the connection.
ackedNewest(a) == {c \in DOMAIN queue : c = Len(queue)}

\* The newest command with that object address.
acked(a) ==
    {c \in DOMAIN queue :
        /\ queue[c].req.ioa = a.ioa
        /\ \A d \in c + 1 .. Len(queue) : queue[d].req.ioa # a.ioa}

WriteAck ==
    /\ ackQ # <<>>
    /\ queue' = [c \in DOMAIN queue |->
                   IF c \in acked(Head(ackQ))
                   THEN [queue[c] EXCEPT !.ack = Head(ackQ).ack] ELSE queue[c]]
    /\ ackQ' = Tail(ackQ)
    /\ UNCHANGED <<driver, line, executed, seen, faults>>

\* The write fails; its result is not looked at.
WriteAckFails ==
    /\ ackQ # <<>> /\ Fault
    /\ ackQ' = Tail(ackQ)
    /\ UNCHANGED <<queue, driver, line, executed, seen>>

Next ==
    \/ \E r \in Requests : InsertCommand(r)
    \/ \E c \in DOMAIN queue : Expire(c) \/ PollAck(c)
    \/ StreamBreaks \/ StreamReopens
    \/ IgnoreCommand \/ CancelCommand \/ SendCommand \/ SendFails
    \/ Switchover \/ LinkDown \/ LinkUp
    \/ StationRefuses \/ \E t \in BOOLEAN : StationAccepts(t)
    \/ HandleAsdu \/ WriteAck \/ WriteAckFails

Spec == Init /\ [][Next]_vars

-----------------------------------------------------------------------------
(* Properties.                                                             *)

CommandIds == 1 .. Cardinality(Requests)
Message == [kind : {"select", "execute"}, ca : {r.ca : r \in Requests},
            ioa : {r.ioa : r \in Requests}, value : {r.value : r \in Requests},
            cmd : CommandIds]

\* Types of the commandsQueue entries and of what is on the line; processCommand
\* returns after the first outcome it writes, so an entry has one of the two.
TypeOK ==
    /\ \A c \in DOMAIN queue :
         /\ c \in CommandIds /\ queue[c].req \in Requests
         /\ queue[c].ack \in BOOLEAN \cup {None}
         /\ ~(queue[c].delivered /\ queue[c].cancelled)
    /\ next \in 1 .. Len(queue) + 1
    /\ lastSelected \in Message \cup {None}
    /\ \A i \in DOMAIN toStation : toStation[i] \in Message
    /\ \A i \in DOMAIN executed : executed[i] \in Message
    /\ DOMAIN seen = DOMAIN queue
    /\ \A c \in DOMAIN seen : seen[c] \in {"waiting", "good", "bad"}
    /\ faults \in 0 .. MaxFaults

executionsOf(c) == {i \in DOMAIN executed : executed[i].cmd = c}

\* What the station executes is what some operator ordered, object, device
\* and value, and each command is executed at most once, through broken
\* streams, lost links and changes of role.
ExecutedAsOrdered ==
    \A c \in DOMAIN queue :
        /\ Cardinality(executionsOf(c)) <= 1
        /\ \A i \in executionsOf(c) :
             /\ executed[i].ca = queue[c].req.ca
             /\ executed[i].ioa = queue[c].req.ioa
             /\ executed[i].value = queue[c].req.value

\* A command the operator was told is cancelled is never executed.
CancelledNotExecuted ==
    \A c \in DOMAIN queue : queue[c].cancelled => executionsOf(c) = {}

\* The step puts a message of command c on the line.
sends(c) ==
    /\ Len(toStation') > Len(toStation)
    /\ toStation'[Len(toStation')].cmd = c

\* A command that got too old before the driver came to it is never started,
\* neither selected nor executed directly: nothing is sent for it but the
\* execute of a select sent in time.
StaleNotSent ==
    [][ \A c \in DOMAIN queue :
          queue[c].old /\ sends(c) => queue[c].req.sbo /\ next' = next ]_vars

\* A command without select that the display shows as good was executed.
GoodMeansExecuted ==
    \A c \in DOMAIN queue :
        seen[c] = "good" /\ ~queue[c].req.sbo => executionsOf(c) # {}

-----------------------------------------------------------------------------
(* The command path implements its contract.                               *)

ordersOf == [c \in DOMAIN queue |-> queue[c].req]

\* An entry the stream is past is refused if that is written in it.
stateOf ==
    [c \in DOMAIN queue |-> IF c >= next THEN "queued"
                            ELSE IF queue[c].cancelled THEN "refused" ELSE "away"]

performedOf ==
    [i \in DOMAIN executed |-> [cmd |-> executed[i].cmd, ca |-> executed[i].ca,
                                ioa |-> executed[i].ioa, value |-> executed[i].value]]

Contract == INSTANCE CommandContract WITH
    orders <- ordersOf, state <- stateOf, performed <- performedOf, shown <- seen

\* Every behaviour of server, queue, driver and station is one of
\* CommandContract, through all the faults.
ImplementsContract == Contract!Spec

-----------------------------------------------------------------------------
(* Statements of the documentation and of comments that the code breaks.   *)

\* "true=positive ... confirmation for the dispatched command" (schema.md,
\* ack), for Select-Before-Operate too: shown as good, it was executed.
SboGoodMeansExecuted ==
    \A c \in DOMAIN queue : seen[c] = "good" => executionsOf(c) # {}

\* "how old a queued command may be before it is refused ... acting on it
\* would be wrong" (jscommands.go, DefaultExpiry): no execute is sent for a
\* command that is too old.
StaleNotExecuted ==
    [][ \A c \in DOMAIN queue :
          queue[c].old => ~sends(c) ]_vars

\* The acknowledgement of a command is for a command that was dispatched.
AckIsForDispatched ==
    \A c \in DOMAIN queue : queue[c].ack = TRUE => queue[c].delivered
=============================================================================

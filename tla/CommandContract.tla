-------------------------- MODULE CommandContract --------------------------
(***************************************************************************)
(* What the command path promises the operators, whatever fails on the     *)
(* way: a command is an entry of commandsQueue that a driver picks up once;*)
(* it is then refused, and the operator can see that, or it is on its way; *)
(* the station performs only commands that are on their way, as ordered,   *)
(* and each at most once; and the display shows a direct command as good   *)
(* only if it was performed.  A command may be lost at any time: nothing   *)
(* promises that one is performed.                                         *)
(***************************************************************************)
EXTENDS Naturals, Sequences

CONSTANT Requests      \* what may be ordered, a record with a field sbo

VARIABLES
    orders,            \* the commands, in the order they were given
    state,             \* of each: "queued", "refused" or "away"
    performed,         \* what the station did: [cmd, ca, ioa, value]
    shown              \* what the operator sees of each

vars == <<orders, state, performed, shown>>

Init == orders = <<>> /\ state = <<>> /\ performed = <<>> /\ shown = <<>>

\* What performing command c means.
Deed(c) == [cmd |-> c, ca |-> orders[c].ca, ioa |-> orders[c].ioa,
            value |-> orders[c].value]

Performed(c) == \E i \in DOMAIN performed : performed[i].cmd = c

Order(r) ==
    /\ orders' = Append(orders, r)
    /\ state' = Append(state, "queued")
    /\ shown' = Append(shown, "waiting")
    /\ UNCHANGED performed

\* A driver picks the command up; the commands before it were picked up or lost.
PickUp(c, s) ==
    /\ state[c] = "queued"
    /\ state' = [d \in DOMAIN state |-> IF d = c THEN s
                                        ELSE IF d < c /\ state[d] = "queued" THEN "away"
                                        ELSE state[d]]
    /\ UNCHANGED <<orders, performed, shown>>

Perform(c) ==
    /\ state[c] = "away" /\ ~Performed(c)
    /\ performed' = Append(performed, Deed(c))
    /\ UNCHANGED <<orders, state, shown>>

Show(c, s) ==
    /\ shown[c] = "waiting" /\ s \in {"good", "bad"}
    /\ s = "good" /\ ~orders[c].sbo => Performed(c)
    /\ shown' = [shown EXCEPT ![c] = s]
    /\ UNCHANGED <<orders, state, performed>>

Next ==
    \/ \E r \in Requests : Order(r)
    \/ \E c \in DOMAIN orders :
         \/ \E s \in {"refused", "away"} : PickUp(c, s)
         \/ Perform(c)
         \/ \E s \in {"good", "bad"} : Show(c, s)

Spec == Init /\ [][Next]_vars
=============================================================================

--------------------------- MODULE MCCommandFlow ---------------------------
(***************************************************************************)
(* Instances of CommandFlow.                                               *)
(***************************************************************************)
EXTENDS CommandFlow

Order(n, ca, ioa, value, sbo) ==
    [n |-> n, ca |-> ca, ioa |-> ioa, value |-> value, sbo |-> sbo]

\* An operation with select and a direct one, each on its own object.
Distinct == {Order(1, 1, 10, 1, TRUE), Order(2, 2, 20, 0, FALSE)}

\* One operation with select.
OneSelect == {Order(1, 1, 10, 1, TRUE)}

\* Two operations with select of the same object number in two devices.
SameObject == {Order(1, 1, 10, 0, TRUE), Order(2, 2, 10, 1, TRUE)}

\* The same object operated twice.
Twice == {Order(1, 1, 10, 0, FALSE), Order(2, 1, 10, 1, FALSE)}
=============================================================================

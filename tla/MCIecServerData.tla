-------------------------- MODULE MCIecServerData --------------------------
(***************************************************************************)
(* Three points: two of one type, of which one is read by interrogations   *)
(* and inverted, and an interrogated one of another type.                  *)
(***************************************************************************)
EXTENDS IecServerData

CONSTANTS a, b, c

MCType == [p \in Points |-> IF p = c THEN 3 ELSE 1]
=============================================================================

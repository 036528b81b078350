--------------------------- MODULE MCCalculations ---------------------------
(***************************************************************************)
(* Instances of Calculations: two measured points and two calculated ones, *)
(* the second calculated from the first.                                   *)
(***************************************************************************)
EXTENDS Calculations, TLC

Calc(f, parcels) == [formula |-> f, parcels |-> parcels]

\* Point 1 is measured, 2 is calculated from it by f, 3 from both by g.
Chain(f, g) == 2 :> Calc(f, <<1>>) @@ 3 :> Calc(g, <<2, 1>>)

\* A factor and a difference; a range test on too few parcels (no result) and
\* a double point; a constant and a power factor, which is not a number without
\* power; such a factor and the span of it and the measured point.
Chains == {Chain(5172, 15), Chain(216, 54),
           2 :> Calc(225, <<>>) @@ 3 :> Calc(2, <<1, 1>>),
           2 :> Calc(2, <<1, 1>>) @@ 3 :> Calc(53, <<2, 1>>)}

\* A choice between a measured point and another one.
Choices == {3 :> Calc(50, <<1, 2>>)}

Measures == {[value |-> 0, invalid |-> TRUE], [value |-> 0, invalid |-> FALSE],
             [value |-> 3, invalid |-> FALSE]}

Both == {[value |-> 0, invalid |-> TRUE]} \cup
        {[value |-> v, invalid |-> FALSE] : v \in {100, 200}}
=============================================================================

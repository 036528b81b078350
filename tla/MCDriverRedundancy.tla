------------------------- MODULE MCDriverRedundancy -------------------------
(***************************************************************************)
(* Instances of DriverRedundancy for TLC.                                  *)
(***************************************************************************)
EXTENDS DriverRedundancy, TLC

\* Enough tags that Now never runs out: the document, the form, and a last
\* and a snapshot for every node.
ASSUME NumStamps > 2 + 2 * Cardinality(Nodes)
=============================================================================

---------------------------- MODULE MCProjection ----------------------------
(***************************************************************************)
(* The instance of Projection for TLC: one item with a history long enough *)
(* for a watermark to matter, and one that shares the run with it.         *)
(***************************************************************************)
EXTENDS Projection

CONSTANT long

Grants == [i \in Item |-> IF i = long THEN 2 ELSE 1]
=============================================================================

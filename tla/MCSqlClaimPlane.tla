--------------------------- MODULE MCSqlClaimPlane ---------------------------
(***************************************************************************)
(* Instances of SqlClaimPlane for TLC.  No symmetry: a run checks liveness. *)
(***************************************************************************)
EXTENDS SqlClaimPlane

CONSTANTS i1, i2

TwoItems == {i1, i2}

(* Everybody ranks the board the same way, or names the first item.        *)
OneRanking == {<<i1, i2>>, <<i1>>}
=============================================================================

---------------------------- MODULE MCLeasePlane ----------------------------
(***************************************************************************)
(* Instances of LeasePlane for TLC.  Identities are the sessions           *)
(* themselves (each its own agent) or one agent shared by all, as when a   *)
(* worker is restarted or two run behind one login.                        *)
(***************************************************************************)
EXTENDS LeasePlane, TLC

CONSTANT shared

OwnAgent    == [p \in Session |-> p]
SharedAgent == [p \in Session |-> shared]

(* Sessions are alike, and so are referents.                               *)
Symmetric == Permutations(Session) \cup Permutations(Referent)
=============================================================================

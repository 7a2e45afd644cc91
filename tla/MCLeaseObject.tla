---------------------------- MODULE MCLeaseObject ----------------------------
(* A small instance of LeaseObject: two agents that contend, two referents *)
(* so that a lease can be re-bound, and lifetimes that include the         *)
(* degenerate zero, one that lapses at the next tick and a longer one.     *)
EXTENDS ExpiryWatch, TLC

Symmetric == Permutations(Agent) \cup Permutations(Referent)
=============================================================================

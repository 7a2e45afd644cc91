------------------------------ MODULE MCWriteback ------------------------------
(* Two issues and a hidden item, under four sets of relations.             *)
EXTENDS Writeback, TLC

CONSTANT r

MCItem == 1..3
MCHidden == {3}

MCGraphs == {<<>>,
             (<<1, 2>> :> "blocks") @@ (<<2, 1>> :> "closes"),
             (<<1, 2>> :> "closes") @@ (<<1, 3>> :> "parent-child") @@ (<<2, 1>> :> "blocks")}
================================================================================

----------------------------- MODULE MCMirrorSync -----------------------------
(* Three issues and a hidden item.  Two of the issues may wait for each     *)
(* other, which is as far as the shape check walks, or all three.          *)
EXTENDS MirrorSync

CONSTANTS a, b, c, h

MCLink == {[src |-> a, dst |-> b, type |-> "blocks", via |-> "field"],
           [src |-> a, dst |-> b, type |-> "closes", via |-> "body"],
           [src |-> b, dst |-> a, type |-> "blocks", via |-> "body"],
           [src |-> b, dst |-> c, type |-> "parent-child", via |-> "body"],
           [src |-> c, dst |-> a, type |-> "blocks", via |-> "body"]}
===============================================================================

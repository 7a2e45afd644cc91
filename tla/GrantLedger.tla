----------------------------- MODULE GrantLedger -----------------------------
(***************************************************************************)
(* What the lease plane promises to everyone downstream of one item's      *)
(* Durable Object, stated without clocks, tokens or requests: a ledger of  *)
(* grants, numbered from 1 by position, that only ever grows at its end.   *)
(*                                                                         *)
(*   - at most one entry is open, and it is the last one;                  *)
(*   - a new grant is entered only when no entry is open;                  *)
(*   - an entry keeps its agent forever, and once closed keeps everything. *)
(*                                                                         *)
(* docs/queue-vs-log.md rests the projection on exactly this: the log may  *)
(* be derived from the queue because what the queue has closed never       *)
(* changes again.  LeaseObject implements this module, and Projection is   *)
(* modelled against it.                                                    *)
(***************************************************************************)
EXTENDS Naturals, Sequences

CONSTANTS Agent,      \* the identities that can hold a grant
          Referent,   \* the pull requests a grant can be pinned to
          Null        \* no referent bound

VARIABLE ledger       \* <<entry 1, entry 2, ...>>, indexed by fencing token

Closed == {"released", "completed", "expired", "reaped"}

Entry == [agent    : Agent,
          status   : Closed \cup {"active"},
          referent : Referent \cup {Null}]

Last == Len(ledger)

Open == /\ ledger # <<>>
        /\ ledger[Last].status = "active"

Init == ledger = <<>>

(* A grant whose duration is zero is closed by the clock as it is made.    *)
Grant(a) ==
  /\ ~Open
  /\ \E st \in {"active", "expired"} :
       ledger' = Append(ledger, [agent |-> a, status |-> st, referent |-> Null])

Bind(r) ==
  /\ Open
  /\ \E st \in {"active", "expired"} :
       ledger' = [ledger EXCEPT ![Last].referent = r, ![Last].status = st]

(* Only a grant pinned to a referent can be garbage-collected.             *)
Close(st) ==
  /\ Open
  /\ st = "reaped" => ledger[Last].referent # Null
  /\ ledger' = [ledger EXCEPT ![Last].status = st]

Next ==
  \/ \E a \in Agent : Grant(a)
  \/ \E r \in Referent : Bind(r)
  \/ \E st \in Closed : Close(st)

Spec == Init /\ [][Next]_ledger
=============================================================================

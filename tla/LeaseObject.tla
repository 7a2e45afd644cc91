----------------------------- MODULE LeaseObject -----------------------------
(***************************************************************************)
(* One item's Durable Object (worker/lease/src/index.mjs, LeaseObject).    *)
(*                                                                         *)
(* A transition is applyTransition: load the lease and the history, read   *)
(* the clock, decide, and store both together.  The object's input gate    *)
(* admits one such handler at a time (assumption A1' of lease-core.mjs),   *)
(* so each is one action.  The environment is the most hostile one the     *)
(* router admits: any agent may send any request, with any token and any   *)
(* referent, at any time -- delayed, duplicated and forged requests are    *)
(* all among these.  A refused request leaves the object as it was.        *)
(***************************************************************************)
EXTENDS LeaseCore

CONSTANTS Agent,        \* namespaced identities the router lets through
          Referent,     \* what a lease can be bound to
          Duration,     \* the lifetimes requests ask for, in clock units
          MaxNow,       \* bound: the clock stops here
          MaxFencing    \* bound: no grant beyond this token

ASSUME ConstantAssumption ==
  /\ Null \notin Agent
  /\ Null \notin Referent
  /\ Null \notin Nat
  /\ Duration \subseteq Nat
  /\ MaxNow \in Nat
  /\ MaxFencing \in Nat

VARIABLES lease,     \* storage key "lease"
          history,   \* storage key "history"
          now        \* Date.now() of the object's host

vars == <<lease, history, now>>

Status == Terminal \cup {"active"}

LeaseState == [holder    : Agent \cup {Null},
               expiresAt : Nat \cup {Null},
               fencing   : Nat,
               referent  : Referent \cup {Null}]

Record == [fencing    : Nat,
           agent      : Agent,
           grantedAt  : Nat,
           expiresAt  : Nat,
           releasedAt : Nat \cup {Null},
           status     : Status,
           reason     : {"free", "expired"},
           referent   : Referent \cup {Null}]

TypeOK ==
  /\ lease \in LeaseState
  /\ history \in Seq(Record)
  /\ now \in Nat

-----------------------------------------------------------------------------
Init ==
  /\ lease = EmptyState
  /\ history = <<>>
  /\ now = 0

(* Store the decided lease and its record in the one critical section.     *)
Apply(decision, recorded) ==
  /\ lease' = decision.state
  /\ history' = IF decision.ok THEN recorded ELSE history
  /\ UNCHANGED now

Claim(a, ms) ==
  LET d == DecideClaim(lease, a, ms, now)
  IN  /\ lease.fencing < MaxFencing
      /\ Apply(d, RecordGrant(history, lease, d.state, d.reason, now))

Renew(a, f, ms) ==
  LET d == DecideRenew(lease, a, f, ms, now)
  IN  Apply(d, RecordRenew(history, d.state))

Bind(a, f, ms, r) ==
  LET d == DecideBind(lease, a, f, ms, r, now)
  IN  Apply(d, RecordBind(history, d.state))

Reap(f, r) ==
  LET d == DecideReap(lease, f, r, now)
  IN  Apply(d, RecordClose(history, lease, "reaped", now))

Release(a, f, st) ==
  LET d == DecideRelease(lease, a, f, st, now)
  IN  Apply(d, RecordClose(history, lease, st, now))

(* The clock is the only thing that ends a lease nobody speaks for.        *)
Tick ==
  /\ now < MaxNow
  /\ now' = now + 1
  /\ UNCHANGED <<lease, history>>

Next ==
  \/ \E a \in Agent, ms \in Duration : Claim(a, ms)
  \/ \E a \in Agent, f \in 0..MaxFencing, ms \in Duration : Renew(a, f, ms)
  \/ \E a \in Agent, f \in 0..MaxFencing, ms \in Duration, r \in Referent :
       Bind(a, f, ms, r)
  \/ \E f \in 0..MaxFencing, r \in Referent : Reap(f, r)
  \/ \E a \in Agent, f \in 0..MaxFencing, st \in {"released", "completed"} :
       Release(a, f, st)
  \/ Tick

Spec == Init /\ [][Next]_vars

-----------------------------------------------------------------------------
(* The record can never disagree with the state it records (index.mjs,     *)
(* applyTransition): the history has exactly one record per token ever     *)
(* issued, in token order; every record but the last is closed; and the    *)
(* last is open exactly while the object stores a holder, with that        *)
(* holder, expiry and referent.                                            *)
HistoryMatchesLease ==
  /\ Len(history) = lease.fencing
  /\ \A i \in 1..Len(history) :
       /\ history[i].fencing = i
       /\ history[i].status = "active" <=> i = lease.fencing /\ lease.holder # Null
       /\ history[i].status = "active" =>
            /\ history[i].releasedAt = Null
            /\ history[i].agent = lease.holder
            /\ history[i].expiresAt = lease.expiresAt
            /\ history[i].referent = lease.referent
  /\ lease.holder # Null => lease.fencing > 0 /\ lease.expiresAt \in Nat
  /\ lease.holder = Null => lease.expiresAt = Null /\ lease.referent = Null

(* When the grant of record r stopped, or will stop, excluding others.     *)
IntervalEnd(r) == IF r.status = "active" THEN r.expiresAt ELSE r.releasedAt

(* S1 over time: the intervals the history records for one item never      *)
(* overlap, and none ends later than its expiry or before it began -- so   *)
(* "who held this item at t" has at most one answer, forever.              *)
IntervalsDisjoint ==
  /\ \A i \in 1..Len(history) :
       LET r == history[i]
       IN  /\ r.grantedAt <= now
           /\ r.status # "active" => r.releasedAt \in Nat
           /\ r.status # "active" => r.releasedAt <= now
           /\ r.grantedAt <= IntervalEnd(r)
           /\ IntervalEnd(r) <= r.expiresAt
  /\ \A i, j \in 1..Len(history) :
       i < j => IntervalEnd(history[i]) <= history[j].grantedAt

(* A live grant is never replaced by another: the step after which a       *)
(* different token or holder is live starts from a lease that is not live. *)
NoTakeover ==
  [][IsLive(lease, now) /\ IsLive(lease', now') =>
       /\ lease'.fencing = lease.fencing
       /\ lease'.holder = lease.holder]_vars

(* Terminal states never regress (src/lease-projection.ts, watermarks):    *)
(* once /history reports a grant as ended, every later answer reports the  *)
(* same status, the same end and the same referent -- even when the grant  *)
(* had only lapsed, and no write had recorded it yet.                      *)
ReportedEndIsFinal ==
  [][\A i \in 1..Len(history) :
       EffectiveStatus(history[i], now) # "active" =>
         /\ EffectiveStatus(history'[i], now') = EffectiveStatus(history[i], now)
         /\ EffectiveEnd(history'[i], now') = EffectiveEnd(history[i], now)
         /\ history'[i].referent = history[i].referent
         /\ history'[i].agent = history[i].agent]_vars

-----------------------------------------------------------------------------
(* The refinement: the ledger is what /history reports at this moment.     *)
ReportedLedger ==
  [i \in 1..Len(history) |->
     [agent    |-> history[i].agent,
      status   |-> EffectiveStatus(history[i], now),
      referent |-> history[i].referent]]

Ledger == INSTANCE GrantLedger WITH ledger <- ReportedLedger

(* The object implements the ledger the projection and the reaper rely on. *)
ImplementsLedger == Ledger!Spec
=============================================================================

----------------------------- MODULE SqlClaimPlane -----------------------------
(***************************************************************************)
(* Claiming on a shared dolt sql-server (the `server' plane): claimNext,   *)
(* renewLease and releaseClaim of src/mirror.ts, each a sequence of        *)
(* autocommitted statements and Dolt commits of src/dolt-server.ts.  The   *)
(* statements of the sessions interleave: one action is one statement.     *)
(*                                                                         *)
(* The working set is shared, so a commit takes whatever any session has   *)
(* written so far (`head' is the last commit).  The claims table is kept   *)
(* as the set of <<item, agent>> with an open (`active') row: a closed row *)
(* is never written or read again.  Times are whole seconds, the           *)
(* resolution of the leases table.                                         *)
(***************************************************************************)
EXTENDS Integers, Sequences

CONSTANTS Session,    \* claimants, each under an identity of its own
          Item,       \* board items
          Null,
          Walks,      \* the rankings a claim may walk
          ClaimTtl,   \* seconds a claim leases for
          RenewTtl,   \* seconds a heartbeat leases for
          MaxNow,     \* bound: the clock stops here
          MaxFaults   \* bound: sessions that die or lose their connection

(* A row of the leases table: chk_ttl keeps the ttl positive.               *)
Row == [agent : Session, claimedAt : Nat, ttl : Nat \ {0}]

(* No caller of renewLease asks for less than the claim did; it would lose *)
(* the item before it hears of it, the UPDATE taking effect first.         *)
ASSUME SqlAssumption ==
  /\ {ClaimTtl, RenewTtl} \subseteq Nat \ {0}
  /\ ClaimTtl <= RenewTtl
  /\ {MaxNow, MaxFaults} \subseteq Nat
  /\ Walks \subseteq Seq(Item) \ {<<>>}
  /\ Null \notin Session \cup Item \cup Nat \cup Row

VARIABLES leases,   \* [Item -> its row, or Null]
          claims,   \* the open audit rows
          head,     \* both tables as of the last Dolt commit
          now,      \* UTC_TIMESTAMP()
          session,  \* [Session -> the verb it is in, and at which statement]
          told,     \* [Session -> the lease it was told it has, or Null]
          faults    \* failures so far

vars == <<leases, claims, head, now, session, told, faults>>

Statement == {"reap", "reap commit", "latch", "latch commit", "read back",
              "audit", "audit commit", "heartbeat", "heartbeat commit",
              "read live", "delete", "close", "close commit"}

Idle == [at |-> "idle", walk |-> <<>>, item |-> Null, lapses |-> 0]

TypeOK ==
  /\ leases \in [Item -> Row \cup {Null}]
  /\ claims \subseteq Item \X Session
  /\ head.leases \in [Item -> Row \cup {Null}] /\ head.claims \subseteq Item \X Session
  /\ now \in 0..MaxNow
  /\ session \in [Session -> [at     : Statement \cup {"idle"},
                              walk   : Seq(Item),
                              item   : Item \cup {Null},
                              lapses : Nat]]
  /\ told \in [Session -> [item : Item, lapses : Nat] \cup {Null}]
  /\ faults \in 0..MaxFaults

Init ==
  /\ leases = [i \in Item |-> Null]
  /\ claims = {}
  /\ head = [leases |-> leases, claims |-> claims]
  /\ now = 0
  /\ session = [p \in Session |-> Idle]
  /\ told = [p \in Session |-> Null]
  /\ faults = 0

(* LEASE_LIVE.                                                             *)
IsLive(row) == row # Null /\ row.claimedAt + row.ttl > now

-----------------------------------------------------------------------------
At(p, statement) == session[p].at = statement

(* Mutant: the reap leaves a row alone in the second it lapses.            *)
ReapLate(p) ==
  /\ At(p, "reap")
  /\ leases' = [i \in Item |->
       IF leases[i] # Null /\ leases[i].claimedAt + leases[i].ttl < now
       THEN Null ELSE leases[i]]
  /\ session' = [session EXCEPT ![p].at = "reap commit"]
  /\ UNCHANGED <<claims, head, now, told, faults>>

(* DELETE FROM leases WHERE NOT live.                                      *)
Reap(p) ==
  /\ At(p, "reap")
  /\ leases' = [i \in Item |-> IF IsLive(leases[i]) THEN leases[i] ELSE Null]
  /\ session' = [session EXCEPT ![p].at = "reap commit"]
  /\ UNCHANGED <<claims, head, now, told, faults>>

(* INSERT IGNORE INTO leases: the primary key adjudicates; a row that is   *)
(* there stays as it is, whoever's it is and lapsed or not.                *)
Latch(p) ==
  LET i == Head(session[p].walk)
  IN  /\ At(p, "latch")
      /\ leases' = [leases EXCEPT ![i] =
           IF @ = Null THEN [agent |-> p, claimedAt |-> now, ttl |-> ClaimTtl] ELSE @]
      /\ session' = [session EXCEPT ![p].at = "latch commit"]
      /\ UNCHANGED <<claims, head, now, told, faults>>

(* The row there is names the winner, live or not; a loser tries its next  *)
(* candidate.  `lapses' is the end of the row won: the caller is told a    *)
(* duration only, which is the row's own if this claim inserted it.        *)
ReadBack(p) ==
  LET s == session[p]
      row == leases[Head(s.walk)]
      rest == Tail(s.walk)
      after == IF row # Null /\ row.agent = p
               THEN [s EXCEPT !.at = "audit", !.lapses = row.claimedAt + row.ttl]
               ELSE IF rest # <<>> THEN [s EXCEPT !.at = "latch", !.walk = rest]
               ELSE Idle
  IN  /\ At(p, "read back")
      /\ session' = [session EXCEPT ![p] = after]
      /\ UNCHANGED <<leases, claims, head, now, told, faults>>

(* Mutant: the caller is told it won without the audit row's commit.       *)
AuditUncommitted(p) ==
  LET s == session[p]
  IN  /\ At(p, "audit")
      /\ claims' = claims \cup {<<Head(s.walk), p>>}
      /\ session' = [session EXCEPT ![p] = Idle]
      /\ told' = [told EXCEPT ![p] = [item |-> Head(s.walk), lapses |-> s.lapses]]
      /\ UNCHANGED <<leases, head, now, faults>>

Audit(p) ==
  /\ At(p, "audit")
  /\ claims' = claims \cup {<<Head(session[p].walk), p>>}
  /\ session' = [session EXCEPT ![p].at = "audit commit"]
  /\ UNCHANGED <<leases, head, now, told, faults>>

(* UPDATE leases ... WHERE agent = me AND live.  A heartbeat that names no *)
(* ttl keeps the row's own.                                                *)
Heartbeat(p, keep) ==
  LET i == session[p].item
      row == leases[i]
  IN  /\ At(p, "heartbeat")
      /\ leases' = [leases EXCEPT ![i] =
           IF IsLive(row) /\ row.agent = p
           THEN [row EXCEPT !.claimedAt = now, !.ttl = IF keep THEN row.ttl ELSE RenewTtl]
           ELSE row]
      /\ session' = [session EXCEPT ![p].at = "heartbeat commit"]
      /\ UNCHANGED <<claims, head, now, told, faults>>

(* The heartbeat answers whether a live row of the caller is there now; a  *)
(* holder that is told no stops working on the item.                       *)
ReadLive(p) ==
  LET i == session[p].item
      mine == IsLive(leases[i]) /\ leases[i].agent = p
  IN  /\ At(p, "read live")
      /\ told' = [told EXCEPT ![p] =
           IF mine THEN [item |-> i, lapses |-> leases[i].claimedAt + leases[i].ttl] ELSE Null]
      /\ session' = [session EXCEPT ![p] = Idle]
      /\ UNCHANGED <<leases, claims, head, now, faults>>

(* Mutant: a straggler deletes the row of whoever holds the item by now.   *)
DeleteAnyones(p) ==
  /\ At(p, "delete")
  /\ leases' = [leases EXCEPT ![session[p].item] = Null]
  /\ session' = [session EXCEPT ![p].at = "close"]
  /\ UNCHANGED <<claims, head, now, told, faults>>

(* Mutant: a release ends the lease by its ttl, which chk_ttl forbids.      *)
DeleteByTtl(p) ==
  /\ At(p, "delete")
  /\ leases' = [leases EXCEPT ![session[p].item] =
       IF @ # Null /\ @.agent = p THEN [@ EXCEPT !.ttl = 0] ELSE @]
  /\ session' = [session EXCEPT ![p].at = "close"]
  /\ UNCHANGED <<claims, head, now, told, faults>>

(* releaseClaim: DELETE ... WHERE agent = me, live or not.                 *)
Delete(p) ==
  /\ At(p, "delete")
  /\ leases' = [leases EXCEPT ![session[p].item] =
       IF @ # Null /\ @.agent = p THEN Null ELSE @]
  /\ session' = [session EXCEPT ![p].at = "close"]
  /\ UNCHANGED <<claims, head, now, told, faults>>

(* UPDATE claims: every open row of the item and caller is closed.         *)
Close(p) ==
  /\ At(p, "close")
  /\ claims' = claims \ {<<session[p].item, p>>}
  /\ session' = [session EXCEPT ![p].at = "close commit"]
  /\ UNCHANGED <<leases, head, now, told, faults>>

-----------------------------------------------------------------------------
(* DOLT_ADD, DOLT_COMMIT: the whole shared working set, in one snapshot;   *)
(* nothing to commit is as good as committed.  The next statement follows; *)
(* after the audit's commit the caller is told that it won.                *)
Commit(p) ==
  LET s == session[p]
      after == CASE s.at = "reap commit"      -> [s EXCEPT !.at = "latch"]
                 [] s.at = "latch commit"     -> [s EXCEPT !.at = "read back"]
                 [] s.at = "heartbeat commit" -> [s EXCEPT !.at = "read live"]
                 [] OTHER                     -> Idle
  IN  /\ s.at \in {"reap commit", "latch commit", "audit commit",
                   "heartbeat commit", "close commit"}
      /\ head' = [leases |-> leases, claims |-> claims]
      /\ session' = [session EXCEPT ![p] = after]
      /\ told' = IF s.at = "audit commit"
                 THEN [told EXCEPT ![p] = [item |-> Head(s.walk), lapses |-> s.lapses]]
                 ELSE told
      /\ UNCHANGED <<leases, claims, now, faults>>

(* A statement or a commit fails once too often (withSerializationRetry),  *)
(* the connection is lost, or the process dies: the statement before it    *)
(* was applied, those after it never are.                                  *)
Throw(p) ==
  /\ session[p] # Idle /\ faults < MaxFaults
  /\ faults' = faults + 1
  /\ session' = [session EXCEPT ![p] = Idle]
  /\ \E believes \in {told[p], Null} : told' = [told EXCEPT ![p] = believes]
  /\ UNCHANGED <<leases, claims, head, now>>

(* A worker dies between verbs; the one started in its place knows nothing. *)
Restart(p) ==
  /\ session[p] = Idle /\ told[p] # Null /\ faults < MaxFaults
  /\ faults' = faults + 1
  /\ told' = [told EXCEPT ![p] = Null]
  /\ UNCHANGED <<leases, claims, head, now, session>>

-----------------------------------------------------------------------------
(* A worker: claim, heartbeat while it works, then release (or complete).  *)
StartClaim(p, w) ==
  /\ session[p] = Idle /\ told[p] = Null
  /\ session' = [session EXCEPT ![p] = [Idle EXCEPT !.at = "reap", !.walk = w]]
  /\ UNCHANGED <<leases, claims, head, now, told, faults>>

StartRenew(p) ==
  /\ session[p] = Idle /\ told[p] # Null
  /\ session' = [session EXCEPT ![p] =
       [Idle EXCEPT !.at = "heartbeat", !.item = told[p].item]]
  /\ UNCHANGED <<leases, claims, head, now, told, faults>>

StartRelease(p) ==
  /\ session[p] = Idle /\ told[p] # Null
  /\ session' = [session EXCEPT ![p] =
       [Idle EXCEPT !.at = "delete", !.item = told[p].item]]
  /\ told' = [told EXCEPT ![p] = Null]
  /\ UNCHANGED <<leases, claims, head, now, faults>>

Tick ==
  /\ now < MaxNow
  /\ now' = now + 1
  /\ UNCHANGED <<leases, claims, head, session, told, faults>>

Work(p) ==
  \/ \E w \in Walks : StartClaim(p, w)
  \/ StartRenew(p)
  \/ StartRelease(p)
  \/ Reap(p) \/ Latch(p) \/ ReadBack(p) \/ Audit(p)
  \/ \E keep \in BOOLEAN : Heartbeat(p, keep)
  \/ ReadLive(p)
  \/ Delete(p) \/ Close(p)
  \/ Commit(p)

Next ==
  \/ \E p \in Session : Work(p) \/ Throw(p) \/ Restart(p)
  \/ Tick

(* Workers go on to their next statement and to their next job.            *)
Spec == Init /\ [][Next]_vars /\ \A p \in Session : WF_vars(Work(p))

-----------------------------------------------------------------------------
(* Exclusion as the workers experience it (the scheduler's S1): no two of  *)
(* them were told they hold an item whose lease has not yet lapsed for     *)
(* either, however their statements, lapses, restarts and late releases    *)
(* interleave.                                                             *)
OneHolder ==
  \A p, q \in Session :
    p # q /\ told[p] # Null /\ told[q] # Null
      => \/ told[p].item # told[q].item
         \/ told[p].lapses <= now \/ told[q].lapses <= now

(* A claim is attributable from the moment it is acknowledged: until the   *)
(* lease lapses, the last commit -- whoever's it was, and whatever it       *)
(* swept up -- has the worker's lease and its open audit row.              *)
AcknowledgedIsCommitted ==
  \A p \in Session :
    told[p] # Null /\ now < told[p].lapses =>
      /\ head.leases[told[p].item] # Null
      /\ head.leases[told[p].item].agent = p
      /\ <<told[p].item, p>> \in head.claims

(* "A worker that dies lets its lease lapse, and the reap in claimNext     *)
(* frees it": a lapsed row goes, without a sweeper, as long as somebody    *)
(* goes on claiming.                                                       *)
LapsedIsFreed ==
  \A i \in Item :
    (leases[i] # Null /\ ~IsLive(leases[i])) ~> (leases[i] = Null \/ IsLive(leases[i]))

-----------------------------------------------------------------------------
=============================================================================

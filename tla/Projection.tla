------------------------------ MODULE Projection ------------------------------
(***************************************************************************)
(* The lease projection: the scheduled job (lease-projection.yml, scripts/ *)
(* project-leases.ts, src/lease-projection.ts, scripts/dolt-push.sh) that  *)
(* copies each item's grant history into the `claims' table of the mirror. *)
(* docs/queue-vs-log.md asks of it that it be idempotent and replayable:   *)
(* there is no cursor, the watermark is read back from the rows themselves. *)
(*                                                                         *)
(* What an item's Durable Object does meanwhile is GrantLedger, one        *)
(* instance per item: a read of /history returns the ledger of that moment *)
(* (LeaseObject!ImplementsLedger).  The job works on a clone of the mirror *)
(* and publishes it by a push, racing the one writer of the mirror that is *)
(* not in its concurrency group: mirror-sync-delta, which refreshes rows   *)
(* of `items'.  What those rows say is reduced to how many of its commits  *)
(* a copy of the mirror contains.                                          *)
(***************************************************************************)
EXTENDS Naturals, Sequences, FiniteSets, FiniteSetsExt

CONSTANTS Item, Agent, Referent, Null,
          MaxAttempts,  \* DOLT_PUSH_ATTEMPTS
          MaxGrants,    \* bound: [Item -> grants of that item]
          MaxFaults     \* bound: failed reads, dead jobs and lost races

ASSUME ProjectionAssumption ==
  /\ MaxAttempts \in Nat \ {0}
  /\ MaxGrants \in [Item -> Nat]
  /\ MaxFaults \in Nat

VARIABLES ledgers,   \* [Item -> what /history would answer]
          board,     \* the mirror's items
          refreshes, \* commits of mirror-sync-delta the mirror contains
          claims,    \* the mirror's claims: [Item -> rows by fencing token]
          job,       \* the projection run, if one is on
          faults     \* things that have gone wrong so far

vars == <<ledgers, board, refreshes, claims, job, faults>>

DO(i) == INSTANCE GrantLedger WITH ledger <- ledgers[i]

Entry == [agent    : Agent,
          status   : {"released", "completed", "expired", "reaped", "active"},
          referent : Referent \cup {Null}]

NoRows == [f \in {} |-> Null]

IsRows(rows) == DOMAIN rows \subseteq Nat \ {0} /\ \A f \in DOMAIN rows : rows[f] \in Entry

Off == [phase     |-> "off",     \* "off", "polling" or "pushing"
        refreshes |-> 0,         \* delta commits the clone contains
        claims    |-> [i \in Item |-> NoRows],
        left      |-> {},        \* items still to be polled
        failed    |-> FALSE,     \* some item could not be read
        attempt   |-> 0,         \* pushes tried
        since     |-> [i \in Item |-> 0]]  \* history: grants the run must cover

TypeOK ==
  /\ \A i \in Item : ledgers[i] \in Seq(Entry)
  /\ board \subseteq Item
  /\ \A i \in Item : IsRows(claims[i]) /\ IsRows(job.claims[i])
  /\ job.phase \in {"off", "polling", "pushing"}
  /\ job.left \subseteq board
  /\ job.attempt < MaxAttempts
  /\ job.refreshes <= refreshes /\ refreshes \in Nat
  /\ faults \in 0..MaxFaults

-----------------------------------------------------------------------------
(* Mutant: the rule before #119, the last row whatever its status.         *)
WatermarkLastRow(rows) == IF DOMAIN rows # {} THEN Max(DOMAIN rows) ELSE 0

(* The watermark rule.  With no open row, everything up to the last row is *)
(* settled; otherwise everything below the first open row is.              *)
Watermark(rows) ==
  LET open == {f \in DOMAIN rows : rows[f].status = "active"}
  IN  IF open # {} THEN Min(open) - 1
      ELSE IF DOMAIN rows # {} THEN Max(DOMAIN rows)
      ELSE 0

(* Mutant: the records fetched are taken to be numbered from one.          *)
UpsertedByPosition(rows, ledger) ==
  LET new == {f \in 1..Len(ledger) : f > Watermark(rows)}
  IN  [f \in DOMAIN rows \cup new |->
         IF f \in new THEN ledger[f - Watermark(rows)] ELSE rows[f]]

(* planProjection and its upserts: records above the watermark, by token.  *)
Upserted(rows, ledger) ==
  LET new == {f \in 1..Len(ledger) : f > Watermark(rows)}
  IN  [f \in DOMAIN rows \cup new |-> IF f \in new THEN ledger[f] ELSE rows[f]]

-----------------------------------------------------------------------------
(* What an earlier watermark rule left in the mirror: a row frozen as      *)
(* active below a terminal one (src/lease-projection.ts, watermarks).      *)
Frozen(a) ==
  LET done == [agent |-> a, status |-> "released", referent |-> Null]
  IN  [ledger |-> <<done, done>>,
       rows   |-> [f \in 1..2 |-> IF f = 1 THEN [done EXCEPT !.status = "active"]
                                           ELSE done]]

Init ==
  /\ \E a \in Agent, old \in SUBSET {i \in Item : MaxGrants[i] >= 2} :
       /\ ledgers = [i \in Item |-> IF i \in old THEN Frozen(a).ledger ELSE <<>>]
       /\ claims = [i \in Item |-> IF i \in old THEN Frozen(a).rows ELSE NoRows]
  /\ board = Item
  /\ refreshes = 0
  /\ job = Off
  /\ faults = 0

(* The lease plane goes on granting, binding and closing.                  *)
Grow(i) ==
  /\ \E e \in Entry :
       LET l == ledgers[i]
       IN  \/ Len(l) < MaxGrants[i] /\ ledgers' = [ledgers EXCEPT ![i] = Append(l, e)]
           \/ l # <<>> /\ ledgers' = [ledgers EXCEPT ![i][Len(l)] = e]
  /\ DO(i)!Next
  /\ UNCHANGED <<board, refreshes, claims, job, faults>>

-----------------------------------------------------------------------------
(* The run.  Clone the mirror; every item on it is worth polling.          *)
Start ==
  /\ job.phase = "off"
  /\ job' = [Off EXCEPT !.phase = "polling", !.refreshes = refreshes,
                        !.claims = claims, !.left = board,
                        !.since = [i \in Item |->
                                     IF i \in board THEN Len(ledgers[i]) ELSE 0]]
  /\ UNCHANGED <<ledgers, board, refreshes, claims, faults>>

(* One item's /history, from its watermark, written to the clone.          *)
Poll(i) ==
  /\ i \in job.left
  /\ job' = [job EXCEPT !.left = @ \ {i},
                        !.claims[i] = Upserted(@, ledgers[i])]
  /\ UNCHANGED <<ledgers, board, refreshes, claims, faults>>

(* One item's object cannot be read: counted, and the others go on.        *)
PollFails(i) ==
  /\ i \in job.left
  /\ faults < MaxFaults
  /\ faults' = faults + 1
  /\ job' = [job EXCEPT !.left = @ \ {i}, !.failed = TRUE]
  /\ UNCHANGED <<ledgers, board, refreshes, claims>>

(* Mutant: what could be read is committed, whatever could not be.         *)
FinishAnyway ==
  /\ job.phase = "polling" /\ job.left = {}
  /\ job' = IF job.claims = claims THEN Off ELSE [job EXCEPT !.phase = "pushing"]
  /\ UNCHANGED <<ledgers, board, refreshes, claims, faults>>

(* An incomplete projection is not committed; nor is an empty one.         *)
Finish ==
  /\ job.phase = "polling" /\ job.left = {}
  /\ job' = IF job.failed \/ job.claims = claims THEN Off
            ELSE [job EXCEPT !.phase = "pushing"]
  /\ UNCHANGED <<ledgers, board, refreshes, claims, faults>>

(* Mutant: the push is forced.                                             *)
PushForced ==
  /\ job.phase = "pushing"
  /\ claims' = job.claims
  /\ refreshes' = job.refreshes
  /\ job' = Off
  /\ UNCHANGED <<ledgers, board, faults>>

(* dolt-push: the push lands only on the commit the clone descends from.   *)
Push ==
  /\ job.phase = "pushing" /\ job.refreshes = refreshes
  /\ claims' = job.claims
  /\ refreshes' = job.refreshes
  /\ job' = Off
  /\ UNCHANGED <<ledgers, board, faults>>

(* Mutant: one attempt too many.                                           *)
PushRejectedAgain ==
  /\ job.phase = "pushing" /\ job.refreshes # refreshes
  /\ job' = IF job.attempt = MaxAttempts THEN Off
            ELSE [job EXCEPT !.attempt = @ + 1, !.refreshes = refreshes]
  /\ UNCHANGED <<ledgers, board, refreshes, claims, faults>>

(* Rejected: pull the other writer's commits, merge them -- the two write  *)
(* disjoint tables -- and try again, a bounded number of times.            *)
PushRejected ==
  /\ job.phase = "pushing" /\ job.refreshes # refreshes
  /\ job' = IF job.attempt + 1 = MaxAttempts THEN Off
            ELSE [job EXCEPT !.attempt = @ + 1, !.refreshes = refreshes]
  /\ UNCHANGED <<ledgers, board, refreshes, claims, faults>>

(* The runner dies, an upsert throws, or the push fails for a reason that  *)
(* is not contention: the clone is gone with it.                           *)
JobDies ==
  /\ job.phase # "off"
  /\ faults < MaxFaults
  /\ faults' = faults + 1
  /\ job' = Off
  /\ UNCHANGED <<ledgers, board, refreshes, claims>>

-----------------------------------------------------------------------------
(* The other writers.  mirror-sync-delta refreshes rows the mirror already *)
(* has, and may land its commit while a projection runs.                   *)
DeltaSync ==
  /\ faults < MaxFaults
  /\ faults' = faults + 1
  /\ refreshes' = refreshes + 1
  /\ UNCHANGED <<ledgers, board, claims, job>>

(* mirror-sync shares the concurrency group.  It drops an item that left   *)
(* the board, and the foreign key drops the item's claims with it.         *)
FullSyncDrops(i) ==
  /\ job.phase = "off"
  /\ i \in board
  /\ board' = board \ {i}
  /\ claims' = [claims EXCEPT ![i] = NoRows]
  /\ UNCHANGED <<ledgers, refreshes, job, faults>>

(* Only mirror-sync adds an item, one that is new to the board or is back. *)
FullSyncAdds(i) ==
  /\ job.phase = "off"
  /\ i \notin board
  /\ board' = board \cup {i}
  /\ UNCHANGED <<ledgers, refreshes, claims, job, faults>>

Next ==
  \/ \E i \in Item : Grow(i) \/ Poll(i) \/ PollFails(i)
                    \/ FullSyncDrops(i) \/ FullSyncAdds(i)
  \/ Start \/ Finish \/ Push \/ PushRejected \/ JobDies \/ DeltaSync

Spec == Init /\ [][Next]_vars

(* The job is scheduled for ever, and a run that is on gets on with it.    *)
FairSpec ==
  Spec /\ WF_vars(Start) /\ WF_vars(Finish) /\ WF_vars(Push) /\ WF_vars(PushRejected)
       /\ \A i \in Item : WF_vars(Poll(i))

-----------------------------------------------------------------------------
(* Replayability: whatever the watermark lets a run skip is already in the *)
(* mirror, as it ended, for good.  No grant is skipped unread, and none is *)
(* left open below the mark (#119).                                        *)
SkippedIsSettled ==
  \A i \in Item :
    \A f \in 1..Watermark(claims[i]) :
      /\ f \in DOMAIN claims[i] /\ f <= Len(ledgers[i])
      /\ claims[i][f] = ledgers[i][f]
      /\ ledgers[i][f].status # "active"

(* The log records decisions that were made: a row never shows a grant the *)
(* object did not make, nor an end other than the one it had.              *)
RowsAreTrue ==
  \A i \in Item :
    \A f \in DOMAIN claims[i] :
      /\ f <= Len(ledgers[i])
      /\ claims[i][f].agent = ledgers[i][f].agent
      /\ claims[i][f].status # "active" => claims[i][f] = ledgers[i][f]

(* A run publishes all or nothing: the commit that lands covers every      *)
(* grant made before the run began, on every item it cloned.               *)
PublishedIsComplete ==
  [][job.phase = "pushing" /\ claims' # claims =>
       \A i \in Item : 1..job.since[i] \subseteq DOMAIN claims'[i]]_vars

(* A push never undoes the commit of the writer it raced: the mirror never *)
(* loses a refresh, whatever the order in which clones, pulls and pushes   *)
(* of the two writers interleave.                                          *)
RacedCommitKept == [][refreshes' >= refreshes]_vars

(* Convergence: a grant that ended is eventually in the mirror, ended, if  *)
(* its item stays on the board.                                            *)
EndsReachTheLog ==
  \A i \in Item : \A f \in 1..MaxGrants[i] :
    f <= Len(ledgers[i]) /\ ledgers[i][f].status # "active"
      ~> \/ i \notin board
         \/ f \in DOMAIN claims[i] /\ claims[i][f] = ledgers[i][f]
=============================================================================

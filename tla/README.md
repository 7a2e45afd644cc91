# Front-desk scheduler: a verification project

This directory holds TLA+ models of the front-desk scheduler, the TLC
configurations that check them on small instances, and proofs, checked by TLAPS,
of what holds on every instance. `PROJECT.json` maps every definition that
models code to the lines it translates, lists the runs, the code's hazards and
the theorems, and gives for every checked property a plausible bug of the code
(a *mutant*) under which TLC finds the property violated.

## 1. The system

The scheduler hands board items (GitHub issues) to agents. The board is mirrored
into a Dolt database; an agent asks for the best item it can take, *claims* it,
*binds* the claim to a pull request once there is one, and *releases* it. A
claim is a lease that expires. Several scheduled jobs keep the mirror, the claim
log and the board's status column in step.

| Component | State it keeps | Operations | Interacts with | What makes it correct |
|---|---|---|---|---|
| **Lease decision core** `worker/lease/src/lease-core.mjs` | none (pure) | decide claim, renew, bind, release, reap; fold a history step; effective status and end | called by the Durable Object | one live holder; tokens never reused; an ended grant stays ended |
| **Lease Durable Object** `worker/lease/src/index.mjs` (`LeaseObject`) | per item: `lease`, `history`, in durable storage | `/claim /renew /bind /release /reap /status /history` | one per item; called by the router | history and lease never disagree; intervals of one item are disjoint |
| **Worker router, authentication** `index.mjs`, `auth.mjs` | cache of positive authentications | route to the item's object; map a token to a namespaced identity | clients, GitHub | an identity is what the token proves |
| **Lease client, verbs** `src/lease-client.ts`, `src/mirror.ts` (`claimNext`), `src/verbs.ts` | nothing persistent: the process knows its item and token | claim (named, or walking a ranking), bind, renew, release | worker over HTTP; a transport failure throws | an unacknowledged grant is never acted on; a stale token never works |
| **Reaper** `src/reaper.ts`, `scripts/reap-leases.ts` | none; the run's plan | status, probe of the pull request, reap | worker, GitHub | collects finished work, and only on evidence about that grant |
| **Lease projection** `src/lease-projection.ts`, `scripts/project-leases.ts`, `scripts/dolt-push.sh` | no cursor: the rows of `claims` in the mirror | clone, read each history above a watermark, upsert, commit, converge the push | worker, mirror, other writers of the mirror | idempotent, replayable, complete, convergent |
| **SQL claim planes** `src/mirror.ts`, `src/dolt-server.ts`, `src/claim-plane.ts` | `leases`, `claims` tables | reap lapsed rows, insert-ignore latch, read back, audit, release | concurrent processes in SQL transactions | one winner per item; the audit row tells the truth |
| **Mirror sync** `src/mirror.ts`, `scripts/sync*.ts` | `items`, `item_deps`, `sync_log` | full pull, delta pull, push of local edits | GitHub, mirror, projection | no lost edit, no lost edge, no duplicated issue |
| **Concurrency simulation** `src/ops.ts`, `sim.ts`, `invariants.ts`, `contract.ts`, `scheduler.ts` | items, budget, ready set of a simulated board | scan, pick, claim, spend, complete, in a racy and a safe mode | ranking policy | S1 exclusion, S2 budget, S3 dependencies, L1 liveness |
| **Ranking and budget policy** `src/policy.ts` | none | eligibility, score, gate | reads, simulation | a total order over eligible items |
| **Scheduling reads** `src/scheduling.ts`, `dolthub.ts`, `reads.ts` | none; a pinned commit per read | keyset pages over a row cap, blockers | DoltHub | every row once, from one commit |
| **Held check** `src/held.ts` | none | bounded `/status` sweep over a ranking | worker | bounded, fails open |
| **Status derivation, write-back** `src/status.ts`, `writeback.ts` | the board's status column | derive a status, plan the writes | GitHub, worker | converges; never downgrades on missing evidence |
| **Monitors** `src/expiry-watch.ts`, `lane-watch.ts` | none | classify expiries, lanes; a verdict | claims log | an anomaly is reported, a normal expiry is not |
| **Others**: triage, capability, selector, room, coverage, attestation, frontmatter, estimates, authority, workflows, Dolt image, proposals | little or none | parsing, rendering, wrappers | | covered by unit tests, or outside the program |

Where the difficulty lies: requests are lost, delayed and repeated between a
client and a Durable Object that cannot tell two processes of one identity
apart; leases lapse silently, with nothing written at the moment they do; the
reaper acts on three reads made at three moments; the projection remembers
nothing but what it wrote and races another writer for the same branch; two
syncs work on clones of one mirror while people edit both sides; the SQL plane's
claim is five statements and three commits that other sessions interleave with;
every verb reads the board in several queries between which it may change; and
the write-back pass writes what the next sync reads. These are hazards that unit
tests of pure functions do not reach. `PROJECT.json`, "hazards", lists each at
its line, with the property that would catch it or the reason none does.

## 2. The modules

    LeaseCore        the pure decisions and history folds
      |-- LeaseObject        one Durable Object, any request at any time
      |     |-- GrantLedger          abstract: an append-only list of grants
      |     |-- ExpiryWatch          the expiry monitor, reading its history
      |     '-- LeaseObjectProofs    invariant, action properties, refinement, alarms
      '-- LeasePlane         objects + sessions + network + pull requests + reaper
            '-- LeasePlaneProofs     who carries which token
    Projection       the projection job; each item's object is a GrantLedger
      '-- ProjectionProofs   what the watermark skips and what rows say
    SqlClaimPlane    the other claim plane: statements of concurrent sessions
      '-- SqlClaimPlaneProofs  what a worker may rely on, statement by statement
    Policy           score, ranking, eligibility, budget
      |-- SchedulerSim       racy and safe agents over one board
      |     '-- SchedulerSimProofs   the safe mode's invariants, lost wakeups
      '-- Scheduling         boards, gating edges, readiness, selectors
            |-- ReadyQueue   next, graph, list, claim over three read planes
            |     '-- ReadyQueueProofs  what a call may say of what it saw
            '-- Writeback    status derivation and the pass that renders it
                  '-- WritebackProofs  two paged walks, one board
    MirrorSync       full sync, delta sync, Dolt edits, publication
      '-- MirrorSyncProofs   what clones, merges and pushes keep

Each `MC...` module gives the constants of its component's TLC instances. The
definitions marked "Mutant" in the models are variants of a definition with a
bug in it; nothing in the specifications refers to them.

### LeaseCore and LeaseObject

`LeaseCore` has one operator per function of `lease-core.mjs`: `IsLive`,
`DecideClaim`, `DecideRenew`, `DecideBind`, `DecideRelease`, `DecideReap`, the
common prefix `HolderGate`, and the cases of `historyStep`. A decision is the
state to store, whether the request was honoured, and the reason. Kept: the order
in which refusals are tested, the boundary `now < expiresAt`, the closing of a
lapsed record at its *recorded expiry*, the counter that survives a release.
Abstracted: identifiers, referents and durations are values; a rejected request
(HTTP 400) changes nothing and is absent; the columns `ttl_sec` and
`decidedAtCommit`, which no decision reads, are left out. A duration is
`floor(ttl_sec * 1000)`: the worker accepts fractional `ttl_sec`, so 0 is a
duration a raw client can obtain, and it is among the ones checked.

`LeaseObject` is `applyTransition`: load, read the clock, decide, store lease and
history together. One handler is one action, because a Durable Object's input
gate lets no other event in while it waits for its storage and its two puts are
committed together (assumption A1' of `lease-core.mjs`). The environment is any
agent sending any request with any token and any referent at any time, which
includes every delayed, repeated and forged request. The clock is assumed not to
run backwards: a host clock set back would let a lapsed grant be reported live
again.

`GrantLedger` is the abstract specification. It promises of one item what the
rest of the system relies on: a list of grants that only grows, of which only the
last can be open, whose ends are final, and whose referent is settled once it has
ended. It stands for no lines of code and is not in "map": `LeaseObject`
implements it, under the mapping `ReportedLedger` (what `/history` answers *now*,
with the effective status of a record that lapsed and was never closed).

### LeasePlane

The objects of several items, the sessions that use them, and the reaper. A
session has at most one request pending; `ServeCall` is the object's side,
`Receive` the caller reading the reply, `TransportFailure` the exception of
`lease-client.ts`, which tells the caller nothing: the request may be lost, may
have been served with its reply lost, or may arrive later (`late`). `StartClaim`
and `Receive` are `claimNext`'s walk over a ranking of candidates; a transport
failure ends the walk. `Forget` is a process that dies. `Poll`, `Probe`,
`ServeReap` are the reaper's three requests for one candidate; `SweepFails` is
any of them failing, or the run being cancelled with its request travelling.
`Close` and `Reopen` are GitHub's. Candidates of one item are never in two sweeps
at once (concurrency group `reap-leases`). A pull request that is gone for good
counts as merged; one that cannot be observed is a failing sweep. The status a
holder releases with is fixed to "released": no decision depends on it. The
object's history is dropped, since no decision reads it. `grantee` and `finished`
are history variables: they record whose claim made the current grant and which
referents have been finished at some time during it, and guard nothing.
`renew` is exercised by `scripts/claim-race.ts` only; no verb of the CLI sends
it.

### Projection

The job's clone of the mirror is in `job`; `Start`, one `Poll` or `PollFails` per
item, `Finish` (no commit if some item could not be read, none if nothing
changed), then `Push` or `PushRejected` until the attempts are used up. Rows are
indexed by fencing token, the rest of the primary key being the item.
`Watermark` is the rule of #119. `Init` includes the shape an earlier rule left
in real mirrors: a row frozen as active below a terminal one. Concurrently the
ledgers grow as `GrantLedger` allows, and the one writer outside the job's
concurrency group, `mirror-sync-delta`, commits. It only refreshes rows of
`items` the mirror already has, so its effect on the push is that the head has
moved: a copy of the mirror is characterised by how many such commits it holds.
`mirror-sync`, inside the group, adds items and drops them, their claims with
them by the foreign key. Attestation rows are left out.

### ExpiryWatch

The expiry monitor over the object's history: `ClassifyExpiry` on every record,
by its status *as of the read*, and `Alarms`, what a run at this moment reports.
The monitor keeps no state, so it needs no variable: its promise relates what it
would say before a step and after it. The window is in clock units.

### SqlClaimPlane

`claimNext`, `renewLease` and `releaseClaim` on a shared sql-server. One action
is one autocommitted statement or one Dolt commit, in the code's order; `at` is
the statement a session is at. Sessions share the working set, so a commit sweeps
up whatever anybody has written so far (`head` is the last commit). A statement
that met a serialization failure is run again (`withSerializationRetry`), which
repeats a statement that had no effect and is no step; one that fails for good is
`Throw`, after which the session may or may not believe what it believed
before. `Restart` is a new worker under the old identity. The claims table is the
set of open rows; closed rows are never read. `told` is what a caller was told,
the only thing a worker acts on. The candidates of a walk were read before the
claim, so any ranking in `Walks` may be walked.

### Policy, SchedulerSim

`Policy` is `src/policy.ts` in exact integers: a score is scaled by `Unit`, so
that the quotients of the code compare as they do there, ties fall back on
effort and on the item's number, and `Ranking` is the stable order. `FitsRemaining`
is the greedy walk over the budget.

`SchedulerSim` is `runSim` with every interleaving instead of seeded ones: an
agent decides, claims, reads the gate, spends, completes, in five micro-steps,
and a run stops at its first violated assertion, as the code's does. The mode is
part of the state, so one run compares the racy operations with the safe ones.
A simulation ends, so deadlock is not checked there; `StuckForGood` says what a
state without a next step must look like instead.

### MirrorSync

GitHub's board, the published mirror, and the clones the two syncs work on. The
statements a run executes between two calls to GitHub are one action, since
nobody else sees its clone; every call is a step of its own at which the run may
stop (`FullStops`, `DeltaStops`: a failure, a cancelled run). `Capture` and
`PushField` write to GitHub and are not undone if the run never publishes. A
push is Dolt's cell-wise merge (`Merged`, `Conflicts`) up to `PushAttempts`
times; since every run adds rows to `sync_log` under ids drawn in its clone, two
runs that overlap always conflict there (`overtaken`). `FetchBoardItems` includes
the cheap query answering nothing, or a board whose Status field was renamed.
The second read of the board walks the contents page by page and ends at a page
that answers nothing; what it has read by then is applied like a whole read
(`ContentsRead`, `PullRelations`): relations shown by an item it did not get to
are gone until the next full sync. The shape check D1 is the code's bounded walk
(`NoCycleFound`): it is cut at 50 edges, `WalkDepth` here, and finds no longer
cycle. The board is assumed to fit the 30 pages of the content walk.
Abstracted: one field (effort) stands for effort, value and kind, `closed_at` is
a bit, titles are left out, and whether the API budget allows a pull or a push is
a free choice.

### Scheduling, ReadyQueue

`Scheduling` has what every reader derives from a board: the gating edges
(`Gates`; a "closes" edge is none), `Schedulable`, readiness, the scope of a
repository, selectors, actor eligibility by capability.

`ReadyQueue` is one call of `next`, `graph`, `list` or `claim`: resolving the
head, one action per query, the held sweep, the claim over its candidates, the
answer. Commits land, leases begin and end, and requests fail between any two
queries, up to `MaxTrouble`. The three read planes differ as in the code. The
DoltHub plane pins its queries to a head if it can resolve one. The server reads
the three tables in one transaction, of the working set its sessions share, and
names the newest commit as its source -- or none, if that last query fails. The
clone reads one state and names none. A query is modelled by the commit it saw
and, where it reads a working set, by the lease rows it saw (`working`,
`call.leased`): a claim's latch is a statement (`WriteLease`) and its
`DOLT_COMMIT` another (`CommitLeases`), and in between a reader sees a lease that
is not on the commit it cites. Lease rows are all that runs ahead of the commits
here, because the syncs work on clones of their own; `log` is the history of
whichever database the call reads. `graph` reads its typed edges before, during
or after the other reads, whichever comes first (`ReadEdges`). Ages do not grow
during a call.
Left out: the answers to a mirror older than a schema migration, and the `meta`
stamp. The verbs rank the board and then filter the list; the model ranks what
passes the filter (`RankingOf`), which is the same list (`FilterKeepsOrder`,
`BestFirst`). A call is forgotten when it returns, so the properties, which compare an
answer with what went on during the call, need no history beyond it.

### Writeback

The status write-back: two keyset walks over the mirror, pages of `PAGE_ROWS`
rows, each walk pinned to a head it resolves or to none; the board read and the
plan (`DeriveStatus`, `PlanWriteback`); the writes, one by one. Around it people
close, reopen, drag and relate, deltas publish, and a full sync
copies the board. A full sync is one step here (its inside is `MirrorSync`) and
never overlaps a pass, by the concurrency group both are in. The script never
reads the lease plane, so "In Progress" is a column it leaves alone. The board
read and the plan are one step: a card that is dragged between them is
overwritten, which the code cannot prevent and no property forbids.

## 3. The runs

| Run | Instance | Shows |
|---|---|---|
| `lease_object` | 2 agents, 2 referents, durations {0, 1, 3}, clock to 4, 2 grants | `TypeOK`; `HistoryMatchesLease`; `IntervalsDisjoint`; `NoTakeover`; `ReportedEndIsFinal`; `ImplementsLedger` (refinement); `AlarmsAreLapses` with a window of 1 |
| `plane` | 2 sessions of **one** identity, 1 item, 2 referents, 1 late request, reaper | `OneObeyed`, `LiveGrantUndisturbed`, `CollectedOnEvidence` |
| `plane_walk` | 2 sessions of one identity, 2 items, renew and release | `LiveGrantUndisturbed` for walks over rankings |
| `plane_reaper` | 1 session, 2 referents, backstop longer than the run, 1 failing sweep | `MergedIsCollected` (liveness) |
| `plane_refusal` | 2 sessions, each its own identity | `RefusedByAnother` is **violated**: see section 6 |
| `projection` | 2 items with 2 grants and 1, 2 attempts, 2 faults | `SkippedIsSettled`, `RowsAreTrue`, `PublishedIsComplete`, `RacedCommitKept`, `EndsReachTheLog` (liveness) |
| `sql_plane` | 2 workers, 2 items, claims for 1, heartbeats for 1 or 2, clock to 2, 1 death or lost connection | `OneHolder`, `AcknowledgedIsCommitted`, `LapsedIsFreed` (liveness) |
| `scheduler_sim` | 3 agents, 7 boards of 3 items with 3 budgets, both modes | `SafeModeHolds`, `StuckForGood`, `EverythingFinishes` (liveness) |
| `mirror_sync` | 3 issues, 1 hidden item, 5 relations, a walk of 2 edges, 3 changes, deltas or failures | `NoShortCycle`, `EffortIsOurs`, `WorkIsKept`, `Converges` (liveness) |
| `mirror_gates` | the same | `FieldGatesSurvive` is **violated**: see section 6 |
| `ready_queue` | 3 boards of up to 4 items in 2 repositories, 18 calls, 1 item leased by SQL sessions, pages of 2 rows, 2 disturbances | `OffersTheReady`, `ExclusionIsObserved`, `LastingRowsAreListed`, `ClaimSpeaksTrue` |
| `writeback` | 2 issues, 1 hidden item, 3 graphs, pages of 1 row, 3 disturbances | `PlanIsOneBoard`, `CardsConverge` (liveness) |

What the properties say (every run that is not about liveness alone also checks
the type invariant of its module):

- `IntervalsDisjoint`: no two grants of one item ever overlap in time, whatever
  was renewed, re-bound, released late or left to lapse. "Who held this at time
  t" has one answer at most.
- `ReportedEndIsFinal`: an answer of `/history` that shows a grant ended is
  never contradicted, although the end of a lapsed grant is written only when
  somebody claims again.
- `OneObeyed`: however many sessions of one identity believe they hold an item,
  the object would obey one at most, and it is the one the grant was made to.
- `LiveGrantUndisturbed`: a step that changes a live grant serves a request of
  the very session it was granted to, or a reap of a referent that was finished
  during the grant. Nothing left over from an earlier grant does.
- `CollectedOnEvidence`: what the reaper frees was bound to a referent seen
  finished *during this grant*. The property allows what the code allows: a pull
  request reopened after the probe is still collected.
- `SkippedIsSettled`: what the watermark will never read again is in the mirror
  as it ended, for good.
- `RowsAreTrue`: no row shows a grant that was not made, or an end it did not
  have.
- `PublishedIsComplete`: a commit that lands covers every grant made before its
  run began, on every item it cloned.
- `AlarmsAreLapses`: the expiry monitor's alarms are evidence about the reaper
  and nothing else. An alarm appears exactly when a *bound* lease runs out; no
  later claim, renewal, bind, release or stale reap makes one, hides one or moves
  its time; it only grows too old.
- `OneHolder`: no two workers of the SQL plane were told that they hold an item
  whose lease has not lapsed for either, although winning is read back in another
  statement than the latch, without testing that the row is live.
- `AcknowledgedIsCommitted`: until a claim lapses, the last commit, whoever's it
  was and whatever it swept up, has its lease and its open audit row.
- `LapsedIsFreed`: without a sweeper, a dead worker's row goes as long as
  somebody goes on claiming.
- `SafeModeHolds`: the code's S1 (one holder), S2 (budget) and S3 (ownership is
  what agents think), in the safe mode. The racy mode breaks all three, which is
  what the mode is for.
- `StuckForGood`: when a safe run has nothing left to do, whatever is not done
  leads into a cycle or to an item that does not exist: no wakeup was lost.
- `EverythingFinishes`: on an acyclic board the budget can pay for, all that can
  be done gets done.
- `NoShortCycle`, `EffortIsOurs`, `WorkIsKept`: no published dependency graph has
  a cycle of `WalkDepth` items or fewer, through partial reads, merges and races
  (a longer one passes the check, and the instance has one); effort changes only by the author's declaration or by an edit on
  the Dolt surface, and no older clone takes an edit back; hidden work leaves the
  mirror only when GitHub has an issue for it.
- `Converges`: once people rest, the mirror comes to agree with the board and
  stays so, whatever raced or failed before, unless the board itself has a cycle
  the check finds, or a row the schema refuses.
- `OffersTheReady`: what `next` and `graph` answer is what was ready on the *one*
  board they cite -- all of it, and nothing else -- less what is leased and what a
  lease object called held. Which leases (`LeftOut`): those of the commit cited,
  where the reads are pinned to it; on the server those of the working set the
  transaction read, which may be ahead of the commit it names.
- `ExclusionIsObserved`: what `next` excludes was held at some time during the
  call; what it keeps after a successful probe was free at some time during it.
- `LastingRowsAreListed`: a paged listing has every row that lasted through the
  walk exactly once, and is one board's if its pages were pinned.
- `ClaimSpeaksTrue`: a grant is of an item ready on the board the answer cites,
  and of the one that was named; a refusal for being held names items that were
  held, or leased where the call read; "not in the mirror" is said of a name that some commit during the call
  did not know, or, if the pages of the listing were not pinned to one commit,
  that no one item bore at every commit: a name that passes from one item to
  another during such a walk can be missed.
- `PlanIsOneBoard`: although the pass reads items and edges in two walks at two
  heads, what it plans is what the commit of the items says about every card.
- `CardsConverge`: passes and syncs, each reading what the other wrote, do not
  oscillate; once people rest the cards read what GitHub and the edges imply, and
  the drift report falls silent.

**Bounds.** Two agents are enough for a grant, a lapse and a foreign grant; two
tokens for an old and a new grant (a third repeats the relation of the second to
the first); the clock runs one past the longest duration, so that every lease can
lapse and be granted again. Durations include the degenerate 0, one that lapses
at the next tick and one that outlives it. In `plane_walk` a claim lasts two
ticks, because a renewal of a one-tick lease changes nothing. In the plane one
late request is enough to arrive in any later grant; sessions that
share an identity are the hard case, since the holder check cannot separate them.
For the projection two items are needed so that one fails while the other is
read, two grants so that a watermark can be between them, two lost races so that
the attempts are exhausted.

In `sql_plane` a ttl of one second and a clock of two let a claim lapse between
any two of its own statements, be won by the other worker and lapse again; a
heartbeat keeps the ttl of the row or lengthens it.
`scheduler_sim` has the boards on which the outcomes differ: equal scores, a
chain, a fan-in, unestimated items of every kind, a cycle with an item outside
it, a blocker that does not exist, and a top pick beyond the budget; budgets that
are absent, ample, and in between; three agents so that one can race between two
others. In `mirror_sync` three disturbances are an edit, a delta and a failure in
any order, or any three of them; two push attempts let one race be retried and
another exhaust them; the relations include both kinds on one pair, a cycle
of two, which the walk of two edges finds, and a cycle of three, which it does
not: the shortest instance of the code's 50 and 51. `ready_queue` has pages smaller than every board and a board that exceeds
the cap of an unpaged query; two disturbances within a call are a commit and a
failure, a latch and its commit, or a lease that begins and ends. (Two assumptions of `MCReadyQueue` are
checked on every board of three of the policy's inputs: `FitsAreGreedy` compares
the budget marks with the greedy choice they stand for, `FilterKeepsOrder` a
filtered ranking with the ranking of what passes.) In `writeback` pages of
one row put every row on a page boundary.

Bounds sit in guards (`MaxNow`, `MaxFencing`, `MaxLate`, `MaxFaults`,
`MaxGrants`, `MaxTrouble`) and stop the world, not the code. Deadlock is checked
in every run but `scheduler_sim`, where a simulation ends. The theorems of
section 4 hold for every value of the bounds.

**Symmetry** over agents, sessions and referents is used where no liveness is
checked.

**Fairness.** The reaper (`reap-leases.yml`, twice an hour) and the projection
(`lease-projection.yml`) are scheduled for ever: each step of theirs is weakly
fair, and only finitely many of their runs fail (`MaxFaults`). Sessions of the lease plane
owe nothing: a holder may die, and `MergedIsCollected` is there for that case.
Neither the clock nor GitHub nor the other writers are fair. For the reaper's
liveness the candidate set is assumed to contain the item, which is the
projection's own liveness, and the backstop is longer than the run, so that
lapsing cannot stand in for the reaper.

- SQL plane: each worker goes on to its next statement and its next job (`WF` of
  `Work`); which job it is, claim, heartbeat or release, is its choice.
- Simulation: the interleaver draws uniformly among the agents that can move, so
  none is passed over forever (`WF` per agent).
- Syncs: the full sync is a cron job for ever, and a run's steps go on; a delta
  need never start, and goes on once it has (`WF` each).
- Write-back: a pass that runs goes on (`WF`). A full sync and a pass exclude one
  another and take turns (`SF` each). The pass is dispatched by hand only; the
  daily drift gate, which fails as long as there is drift, is what makes somebody
  dispatch it, and the liveness property rests on somebody doing so.

Changes by people, deltas and failures are not fair, and finitely many
(`MaxTrouble`): liveness says what happens after the last.

## 4. The proofs

The modules `...Proofs` are checked by TLAPS, for every set of agents, sessions,
referents, items, boards, relations and rankings, every duration and page size,
and every bound. They assume what the component modules assume
(`ConstantAssumption`, `PlaneAssumption`, `ProjectionAssumption`, `SqlAssumption`,
`PolicyAssumption`, `SchedulingAssumption`, `QueueAssumption`, `SimAssumption`,
`SyncAssumption`, `WritebackAssumption`): bounds are natural numbers, durations sets of them,
`Null` is none of the values it stands beside, items and issues are finite,
boards are of the types the code's records have, and a budget starts out
unexceeded. One is about the code's callers rather than its data:
`ClaimTtl <= RenewTtl` on the SQL plane. A heartbeat with a shorter ttl than the
claim's would shorten the lease in one statement and tell its caller in a later
one, so between the two a worker would believe in a lease that has lapsed; TLC
finds that if the assumption is dropped. No caller passes a ttl on this plane
(`scripts/claim-race.ts`), in which case the row keeps the one it has.

| Module | Theorems |
|---|---|
| `LeaseObjectProofs` | `TypeCorrect`, `RecordAgrees`, `GrantsDisjoint`, `LiveGrantKept`, `EndsAreFinal`, `ObjectImplementsLedger`, `AlarmsAreEvidence` |
| `LeasePlaneProofs` | `TypeCorrect`, `AtMostOneObeyed`, `LiveGrantsAreUndisturbed`, `CollectionsRestOnEvidence` |
| `ProjectionProofs` | `TypeCorrect`, `SkippingIsSafe`, `RowsNeverLie`, `PublishesAllOrNothing`, `RacedCommitsStay` |
| `SqlClaimPlaneProofs` | `TypeCorrect`, `AtMostOneHolder`, `AcknowledgedClaimsAreCommitted` |
| `SchedulerSimProofs` | `TypeCorrect`, `SafeModeIsSafe`, `RestIsFinal` |
| `MirrorSyncProofs` | `TypeCorrect`, `NoShortCyclePublished`, `SmallBoardIsAcyclic`, `EffortsAreOurs`, `HiddenWorkIsKept` |
| `ReadyQueueProofs` | `TypeCorrect`, `ListingsAreWhole`, `ExclusionsWereObserved`, `OffersAreReady`, `ClaimsAreTrue`, `BestFirst` |
| `WritebackProofs` | `TypeCorrect`, `PlansAreOfOneBoard` |

**One object.** The inductive invariant is

    IInv == TypeOK /\ HistoryMatchesLease /\ IntervalsDisjoint

None of the three is inductive alone: that a claim appends token `n + 1` behind
`n` closed records needs the agreement of history and lease; that its interval
begins after the others end needs both that agreement (only the last record is
open, with the lease's expiry) and the disjointness so far. The proof reduces
every action of `Next` to one of four kinds of step -- a grant, an extension
(renew, bind) that replaces the last record, an end (release, reap) that closes
it, a tick -- or no change (`StepKinds`), and then proves each conjunct once per
kind. From it: `TypeCorrect`, `RecordAgrees`, `GrantsDisjoint`; the action
properties `LiveGrantKept` and `EndsAreFinal`; and `ObjectImplementsLedger`,
that each kind of step is a step of `GrantLedger`, or a stutter, under
`ReportedLedger`. A tick is where the mapping earns its keep: nothing is stored,
but the entry of a lease that lapses turns from "active" to "expired".
`AlarmsAreEvidence` goes by the same kinds of step: a record raises an alarm only
if it ended by expiry and was bound then (`EndedAlarm`, `LiveAlarm`), so a grant,
an extension and an end leave the set of alarms as it is, and a tick adds the
one of the lease that lapses, if it was bound, and takes away those too old.

**The lease plane.** A token is carried by many hands: the session it was
granted to, a request on its way, a reply not yet read, a sweep of the reaper.
`OneObeyed` says nothing of those, so it is not inductive. The invariant says of
each of them

    Token(i, f, p) == f <= lease[i].fencing /\ (f = lease[i].fencing => grantee[i] = p)

a token is older than the object's, and then it will be refused for ever, since
the counter only grows; or it is the object's, and was given out with the present
grant to the session that carries it. `Evidence` says the same of a referent that
a sweep found finished. `Serve` is characterised once (`Decision` is a refusal,
a grant of the next token, or a change under the present one), and `Advances`
says what any step does to the objects; what is carried then stays true by
`Advances` alone, except at the one place that was served. From it: at most one
session is obeyed, a live grant is disturbed by nobody else, and every collection
rests on evidence about that very grant.

**The projection.** The inductive invariant (`IInv` of `ProjectionProofs`) says
that every copy of the claims table, the mirror's and the clone's, is `Faithful`
to the ledger it was read from: its tokens are 1 to n without a gap, n is no
more than the ledger's length, the agents are the ledger's, and a row that is
not active equals the ledger's entry. `SkippedIsSettled` is not inductive: it
says nothing of the rows above the watermark, and those decide where the next
watermark falls; nor does it speak of the clone, which a push makes the mirror.
Three lemmas carry the argument: below the watermark no row is open and none is
missing (`WatermarkSettled`, which needs the least element of a set of naturals);
reading from the watermark up yields a faithful copy of the whole ledger
(`UpsertKeepsFaith`); and anything a `GrantLedger` does afterwards keeps a copy
faithful (`GrowExtends`, `ExtendKeepsFaith`). The rows frozen by the older rule
are faithful as well, which is why the projection heals them without a
migration. `Progress` adds what `PublishedIsComplete` needs: a run that gets as
far as pushing has read every item it cloned. Together with
`ObjectImplementsLedger`, which licenses reading a Durable Object as a
`GrantLedger`, the chain from the object's storage to the claims table is proved.

**The SQL plane.** What a worker was told is an old reading of a table others
write to. The argument is that of rely and guarantee: a row is written by its
agent alone, and removed by another session only once it has lapsed (`Respects`,
proved of every statement), so whatever a worker has read of its own row stays
true until the row lapses, however many statements of others fall between the
reading and the telling; and every commit is of the whole working set, so it
stays true of the last commit, too. `Sound` is the invariant: for each statement
a worker can be at, what it may rely on there. The delicate place is the
read-back of a claim, which does not test that the row is live: a row it finds
is its own or another's, and if its own lapsed meanwhile, so did what it tells.
From it: `AtMostOneHolder` and `AcknowledgedClaimsAreCommitted`.

**The simulation.** S1 and S3 are not inductive as the code states them: S3
counts an item's holders, while a step changes one agent's view. The invariant
says the same from the agents' side,

    Agreed == \A i \in Item : /\ phase[i] = "InProgress" <=> owner[i] # Null
                              /\ \A a \in Agent : CurrentItem(a) = i <=> owner[i] = a

with `Targeted` (whoever is at work has an item) and, in the safe mode, S2. Each
micro-step keeps it: a won claim because the safe mode looks again, a denied
spend and a completion because they let go of both sides at once (`LetsGo`). From
it: `TypeCorrect` and `SafeModeIsSafe`. Typing alone needs an argument here: the
pick is the top of the ranking, and there is one, because the ranking's order is
transitive and irreflexive and so has a first element on every finite board
(`FirstPlace`, by the well-founded ordering of finite sets). `RestIsFinal` needs
one more invariant, `Awake`: a blocked item has a blocker that is not done, so a
completion wakes whatever it was the last to hold up; then the set of items not
done is itself the set `LeadsNowhere` asks for.

**The syncs.** A publication replaces the whole mirror by a clone, so each of
`NoShortCycle`, `EffortIsOurs` and `WorkIsKept` is carried by a fact about
the clones: what a run has changed *since the commit it was cloned from, or last
merged with* (`Ours`, `Kept`). The merge is where they could be lost: it takes
each row from the side that changed it, so a change of the merged clone against
the new base is a change of one of the two sides against the old base. A short
cycle cannot be published because the full sync pushes only what passed the shape
check, and the delta and the merge bring no edges of their own (`Staged`,
`Untangled`; the merge's edges are one side's). What the check says is about
walks, and what `NoShortCycle` says about sets of items that wait for one
another. Between them lies a pigeonhole argument (`ShortCycleIsFound`): in such a
set one can walk on for ever, so also for as many steps as the set has items; two
places of that walk are the same item, and the stretch between them is a closed
walk of no more edges than the set has items, which the check would have found.
`SmallBoardIsAcyclic` is the case in which the bound costs nothing: on a board of
at most `WalkDepth` issues no cycle is published at all. `DoltBorn` is what keeps a pull
from deleting hidden work as items that left the board.

**The write-back.** `PlanIsOneBoard` relates two walks of many pages to one
commit. The invariant (`Walked`) says that what a walk has read is the part of
its table below everything it has not read (`Prefix`), and that once the walk is
over it is the table. Two facts carry it. A page adds the least of the rest, and
a page that is not full is all of the rest (`PageExtends`): if some row were left
out, take one with a least set of rows before it; those are all in the page, and
there are at least `PAGE_ROWS` of them. And every commit published while a pass
runs has the same edges (`Logged`), because only a delta can publish then; so the
edges walk ends with the edges of the commit the items are of, whether or not its
own head could be resolved. `PlanOfBoard` is then the derivation by cases.

**The verbs.** A call asks several questions of a world that moves between them,
and its answer is judged against what went on meanwhile. The invariant (`IInv` of
`ReadyQueueProofs`) says, for each stage of a call, what its readings are still
worth. The log of commits only grows, so what a query saw stays true *of the
commit it saw*; a call that pinned its queries saw one commit in all of them
(`Pinned`), so what is assembled from the tables is assembled from one board,
and on the server the lease rows of the same transaction are kept beside it.
What a lease object answered was so at some time of the call (`Observed`), and a
claim goes on to its next candidate only past one that was held (`Refused`). A
listing is sound page by page (`Walked`): its keys are in order, so no row comes
twice, and it has every lasting row up to the last key read, so that a page
that is not full leaves none out. Rows that appear, vanish or move between two
unpinned pages do not disturb this, as they would a walk by offset. The lists are
rankings and enumerations of sets, and the facts about them rest on the ranks of
a finite total order: they are 0, 1, ... and each is taken once (`RanksTaken`),
hence a ranking lists each item once, best first (`BestFirst`), and its first n are
the n best (`FirstRanks`).

**Model-checked only.** The liveness properties (`MergedIsCollected`,
`EndsReachTheLog`, `LapsedIsFreed`, `EverythingFinishes`, `Converges`,
`CardsConverge`): they rest on fairness, and liveness and ENABLED are beyond the
prover. Every other property of every run that passes is stated by a theorem.
Two assumptions of `MCReadyQueue` speak of lists that `SelectSeq` filters and of
sums over sets. Both are defined by recursion, and what a recursive definition
yields for every input is an induction that the installed provers cannot make,
so they are evaluated on bounded inputs. The two runs that expect a violation
refute what they state, on one instance.

## 5. Not modelled, and the plan

Not modelled, or left out of the components that are:

- *authentication against GitHub and its cache*: the identity a request carries
  is an input of the models, whoever vouched for it;
- *triage's GitHub writes*: its lease traffic is that of a `LeasePlane` session;
  commenting and closing in between is not there (section 6 has what we read);
- *`lane-watch` and the silence test of `expiry-watch`*: arithmetic on run
  timestamps of the Actions API, without state;
- *the local claim plane* of `claim-plane.ts`: the statements of the server plane
  against a database per process, where nothing excludes, as the code warns;
- *the cost estimate of a full sync*: whether the budget gate refuses is a free
  choice, so the properties of `MirrorSync` hold for any estimate;
- *commit attestation*: one row per push, read by no other part;
- *parsing and rendering*: verbs' output, frontmatter beyond "declared, malformed
  or absent", the title heuristics of `estimate.ts`, room, coverage, MCP surface;
- *workflows and deployment*: wrappers; their concurrency groups and schedules
  are in the models they matter to;
- *schema migrations*: the fallbacks that read a mirror older than a column;
- a late `bind` that overwrites a newer one of the same holder is possible by
  design, bind having no order of its own, and no property forbids it.

What remains worth doing, in this order:

1. The safety half of the liveness properties: once people rest, a completed sync
   has published the board (`Converges`), a completed pass has written the plan
   (`CardsConverge`), a run that did not fail has copied every end
   (`EndsReachTheLog`). Each is an invariant about one finished run, provable as
   the others are; what is left to fairness is that a run finishes.
2. A budget theorem for `FitsRemaining` as a sum over a set, if the sum can be
   stated without recursion.

## 6. What disagrees with the text

Shown by a run:

`plane_refusal`: `claim --item` tells a refused caller that the item "is held by
another agent" (`src/verbs.ts`), on the ground that a one-element claim can be
refused for one reason only; the comment on claiming in `src/mirror.ts` says that
re-latching one's own lease succeeds, so that a restarted worker may reclaim it.
On the lease plane `decideClaim` refuses the holder too ("already-held-by-you"),
and the caller of a claim whose reply was lost is told that somebody else has the
item -- until the claim's ttl ends, since it never learnt the token.

`mirror_gates`: the Depends-on text of an item gates ("text-parsed 'blocks' ...
survive via PK dedupe", `src/mirror.ts`). The key of `item_deps` leaves the kind
out, and `upsertItems` inserts the text's edges while the mined ones of the last
sync are still there: a `closes` edge of the same pair swallows the `blocks`
edge, is then deleted and mined again, on every later sync too. `closes` never
gates, so the dependency somebody wrote down holds nothing back.

Read while modelling, consistent with the models, and not the subject of a run:

*Claims.*
- Re-latching one's own row on a SQL plane tells the caller the full ttl, while
  the row keeps its old end (`mirror.ts`, `claimNext`).
- "Latch + audit in ONE session, committed together ... a single attributable
  Dolt commit" (`mirror.ts:463`): they are two writes with a commit each, so
  history can show a lease with no claim behind it. "The claim interval closes
  atomically in history" (`mirror.ts:631`): another session's commit can fall
  between the two statements.
- A named item that a sync adds between `claim`'s two reads is reported finished
  (`verbs.ts:513`).
- "A triage cannot race a session that holds the item" (`triage-ticket.yml`): its
  own lease of ten minutes may lapse before it closes the issue.

*Reads.*
- `graph` reads its typed edges without the pin its items have (`verbs.ts:748`).
- "`AS OF` re-derives this exact queue" (`verbs.ts:287`): ages and leases are
  computed from the time of the query. On the server plane there is more: "report
  the head it saw" (`dolt-server.ts:95`), but the transaction saw the working
  set. Between a claim's latch (`mirror.ts:468`) and its commit
  (`dolt-server.ts:240`) the queue leaves out an item that is free on the commit
  it cites; `OffersTheReady` allows for it.
- `pick` can be an item nobody probed, when the whole held window is held or not
  executable by the caller (#84); `fits` counts such items as if they were taken.
- The local plane counts "closes" edges as blockers, and takes Done from the card
  alone (`mirror.ts`, `readMirrorScheduling`).
- `needs` is "absorbed at sync" (`board.ts:86`); no sync writes it.

*Syncs and write-back.*
- "D1 -- dep graph is acyclic" (`mirror.ts:904`): the walk is cut at 50 edges
  (`mirror.ts:913`), so a cycle of 51 items or more is published.
- A page of the content walk that answers nothing ends the walk, and the edges
  not read yet are dropped as if GitHub had taken them back (`mirror.ts:806`);
  so are, for good, those shown beyond the thirtieth page (`mirror.ts:779`).
- "The data is still committed for inspection" (`sync.ts:27`): when the sync
  stops with a hard finding, its clone goes with it, and hidden items it has
  already created as issues are created again by the next run. A gated pull and
  an exhausted push do the same.
- An edit on the Dolt surface, made while a run pushes an older edit of the same
  row, is merged into a row marked "synced": it is kept, and the project field
  never learns of it (`mirror.ts:731`).
- "The writers touch disjoint tables" (`dolt-push.sh:28`): the full and the
  delta sync both insert into `sync_log`, under ids drawn in their clones, so of
  two that overlap the later one conflicts.
- Setting fields of a hidden item marks it dirty, which is how capture is asked
  for, although hidden work is "never pushed unless captured" (`mirror.ts:277`).
- One new board row that `chk_effort` refuses fails the full sync for all rows;
  a renamed Status field goes unnoticed on boards below ten rows.
- "A card dragged by hand while the mirror lags is left alone"
  (`board-writeback.yml:60`): a card dragged to Done with its issue just closed
  is rewritten to Todo, and back by a later pass.

*Monitors and simulation.*
- "The collector did not observe that referent" (`scripts/expiry-watch.ts:190`):
  a lease bound to a pull request that is still open after a day lapses under a
  healthy reaper, and raises the same alarm.
- `lane-watch.ts` wants more than three periods before a lane counts as silent;
  its cap of ten days gives a weekly lane 1.43.
- L2, "every Ready item eventually reaches Done" (`invariants.ts:18`): an item
  the budget cannot pay for is picked, denied and given back for ever, ahead of
  items it could pay for. Hence the condition in `EverythingFinishes`. A budget
  of 0 opens the gate and is denied by the safe reserve; the gate asks that
  something is left over, the reserve does not.
- "Is `id` part of a directed cycle" (`invariants.ts:112`) also holds of an item
  that merely leads into one.

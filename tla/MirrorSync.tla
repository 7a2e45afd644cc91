------------------------------ MODULE MirrorSync ------------------------------
(***************************************************************************)
(* The mirror of the board: the full sync (src/mirror.ts syncPush and      *)
(* syncPull, run by scripts/push.ts and scripts/sync.ts), the delta sync   *)
(* (syncPullDelta, scripts/sync-delta.ts) and the Dolt write surface       *)
(* (setDoltFields, insertHiddenItem, captureHidden).                       *)
(*                                                                         *)
(* A sync clones the published mirror, works on its clone and publishes it *)
(* with scripts/dolt-push.sh.  Nobody else sees the clone, so the          *)
(* statements between two calls to GitHub are one action; a run that stops *)
(* early leaves nothing but what it did on GitHub.  Two full syncs never   *)
(* overlap (one concurrency group); a delta overlaps anything.             *)
(*                                                                         *)
(* Abstracted: one scheduling field (effort) stands for effort, value and  *)
(* kind, one bit (closed) for closed_at, and titles are left out.  What    *)
(* the API budget allows is a free choice.                                 *)
(***************************************************************************)
EXTENDS Naturals, FiniteSets, Functions

CONSTANTS Issue,       \* project items of GitHub issues
          Hidden,      \* Dolt-born items
          Null,
          OutOfBand,   \* efforts people type into the project field
          Refused,     \* those of them that chk_effort does not let in
          Declared,    \* efforts authors declare in frontmatter
          Malformed,   \* a frontmatter effort that is no number of 1..10
          Edited,      \* efforts set on the Dolt surface
          Link,        \* the relations GitHub may hold between issues
          Cards,       \* the columns people drag cards to
          FieldFloor,  \* rows from which a board with no Status is a mismatch
          PushAttempts,\* pushes dolt-push.sh tries
          WalkDepth,   \* edges of the longest walk the shape check makes (50)
          MaxTrouble   \* bound: changes, deltas and failures, together

Status == {"Todo", "Blocked", "In Progress", "Done"}
Effort == OutOfBand \cup Declared \cup Edited

Row == [origin : {"github", "dolt"}, status : Status, closed : BOOLEAN,
        effort : Effort, sync : {"synced", "dolt-dirty", "hidden"}]

ASSUME SyncAssumption ==
  /\ Link \subseteq [src : Issue, dst : Issue, type : {"blocks", "parent-child", "closes"},
                     via : {"field", "body"}]
  /\ \A l \in Link : l.src # l.dst /\ (l.via = "field" => l.type = "blocks")
  /\ {FieldFloor, MaxTrouble} \subseteq Nat /\ {PushAttempts, WalkDepth} \subseteq Nat \ {0}
  /\ Refused \subseteq OutOfBand /\ OutOfBand \ Refused # {}
  /\ IsFiniteSet(Issue) /\ Issue \cap Hidden = {} /\ Null \notin Row
  /\ Cards \subseteq Status

VARIABLES github,    \* [Issue -> what GitHub holds of it]
          links,     \* the relations GitHub holds
          captured,  \* hidden items GitHub has an issue for
          remote,    \* the published mirror (DoltHub main)
          full,      \* the full sync's run
          delta,     \* the delta sync's run
          trouble    \* changes, deltas and failures so far

vars == <<github, links, captured, remote, full, delta, trouble>>

Pair == Issue \X Issue

\* The mirror's tables, published or in a clone: items by id, and item_deps
\* as the type of each <<item, dependency>>, its primary key.
IsTables(t) ==
  /\ DOMAIN t = {"items", "deps"}
  /\ t.items \in [Issue \cup Hidden -> Row \cup {Null}]
  /\ IsFiniteSet(DOMAIN t.deps) /\ DOMAIN t.deps \subseteq Pair
  /\ Range(t.deps) \subseteq {"blocks", "parent-child", "closes"}

\* A run: where it is, its clone and the commit the clone was made from, the
\* board ids it fetched, the dirty rows it has yet to push, whether the remote
\* took sync_log rows meanwhile, and the pushes it has left.
NoRun == [at |-> "idle", db |-> Null, base |-> Null, ids |-> {}, todo |-> {},
          overtaken |-> FALSE, tries |-> 0]

IsRun(r) ==
  /\ DOMAIN r = DOMAIN NoRun
  /\ r.at \in {"idle", "capture", "fields", "pull", "relations", "search", "push"}
  /\ r.ids \subseteq Issue /\ r.todo \subseteq Issue \cup Hidden
  /\ r.overtaken \in BOOLEAN /\ r.tries \in 0..PushAttempts
  /\ IF r.at = "idle" THEN r = NoRun ELSE IsTables(r.db) /\ IsTables(r.base)

TypeOK ==
  /\ github \in [Issue -> [onBoard : BOOLEAN, open : BOOLEAN, card : Status,
                           field : Effort, declared : Declared \cup {Null, Malformed}]]
  /\ links \subseteq Link /\ captured \subseteq Hidden
  /\ IsTables(remote)
  /\ IsRun(full) /\ IsRun(delta)
  /\ trouble \in 0..MaxTrouble

Present(tables) == {i \in DOMAIN tables.items : tables.items[i] # Null}
Rows(tables, origin) == {i \in Present(tables) : tables.items[i].origin = origin}
Dirty(tables, origin) == {i \in Rows(tables, origin) : tables.items[i].sync = "dolt-dirty"}

Disturb == trouble < MaxTrouble /\ trouble' = trouble + 1
-------------------------------------------------------------------------------
(* What a pull does to the tables.                                         *)

\* A board item as the pull reads it (normalize): a missing Status is "Todo".
BoardRow(i, status) == [origin |-> "github", status |-> status, closed |-> FALSE,
                        effort |-> github[i].field, sync |-> "synced"]

(* Mutant: the refresh takes the project field's effort along.             *)
UpsertTakesField(items, board) ==
  [i \in DOMAIN items |->
     IF i \in DOMAIN board
       THEN IF items[i] # Null
              THEN [items[i] EXCEPT !.status = board[i].status, !.effort = board[i].effort]
              ELSE board[i]
       ELSE IF items[i] # Null /\ items[i].origin = "github" THEN Null ELSE items[i]]

\* Insert what is new, refresh only the status of what is known, and delete
\* the github rows that are not on the board.
Upsert(items, board) ==
  [i \in DOMAIN items |->
     IF i \in DOMAIN board
       THEN IF items[i] # Null THEN [items[i] EXCEPT !.status = board[i].status] ELSE board[i]
       ELSE IF items[i] # Null /\ items[i].origin = "github" THEN Null ELSE items[i]]

\* The constraints of the items table hold for every row that is new: one that
\* breaks them fails the statement, and the run.
Inserts(tables, board) ==
  \A i \in DOMAIN board : tables.items[i] = Null => board[i].effort \notin Refused

\* INSERT IGNORE under the key (item_id, dep_item_id): whatever is there stays.
InsertIgnore(deps, new) == [p \in DOMAIN deps \cup DOMAIN new |->
                              IF p \in DOMAIN deps THEN deps[p] ELSE new[p]]

Without(deps, types) == Restrict(deps, {p \in DOMAIN deps : deps[p] \notin types})

PairsOf(ls) == {<<l.src, l.dst>> : l \in ls}

\* The Depends-on text of the items read: edges between items of the board.
FieldBlocks(ids) ==
  [p \in PairsOf({l \in links : l.via = "field" /\ {l.src, l.dst} \subseteq ids}) |-> "blocks"]

UpsertItems(tables, board) ==
  [items |-> Upsert(tables.items, board),
   deps  |-> InsertIgnore(Without(tables.deps, {"blocks"}), FieldBlocks(DOMAIN board))]

\* The item whose content shows a relation: the child, the closing pull request,
\* or the issue that declares it.
ShownBy(l) == IF l.type = "blocks" THEN l.src ELSE l.dst

\* The relations mined from the contents read, between items of the board.  Of
\* several on one pair the first the walk meets wins.
Mined(ids, read) ==
  LET found == {l \in links : l.via = "body" /\ {l.src, l.dst} \subseteq ids /\ ShownBy(l) \in read}
  IN  {m \in [PairsOf(found) -> {"blocks", "parent-child", "closes"}] :
         \A p \in PairsOf(found) : \E l \in found : <<l.src, l.dst>> = p /\ l.type = m[p]}

UpsertRelationEdges(deps, mined) == InsertIgnore(Without(deps, {"parent-child", "closes"}), mined)

OnBoard == {i \in Issue : github[i].onBoard}

\* The content walk ends at a page that answers nothing.
ContentsRead == SUBSET OnBoard

\* A malformed declaration is a finding and counts as none.
ParseFrontMatter(i) == IF github[i].declared \in Declared THEN github[i].declared ELSE Null

\* closed_at as a pull writes it: NULL for an open issue, never left out.
ClosedAt(i) == ~github[i].open

(* Mutant: closed_at is assigned only when there is one.                   *)
ApplyContentMetaOneWay(items, read) ==
  [i \in DOMAIN items |->
     IF i \in read /\ items[i] # Null
       THEN [items[i] EXCEPT !.closed = @ \/ ClosedAt(i),
                             !.effort = IF ParseFrontMatter(i) = Null THEN @ ELSE ParseFrontMatter(i)]
       ELSE items[i]]

\* closed_at is assigned both ways; a declared effort overrides the row's.
ApplyContentMeta(items, read) ==
  [i \in DOMAIN items |->
     IF i \in read /\ items[i] # Null
       THEN [items[i] EXCEPT !.closed = ClosedAt(i),
                             !.effort = IF ParseFrontMatter(i) = Null THEN @ ELSE ParseFrontMatter(i)]
       ELSE items[i]]

\* D1: the walk of the dependencies is cut at WalkDepth edges, so that no walk
\* so short ends where it began, but a longer one may.
Walks(pairs, n) == {w \in [0..n -> Issue] : \A k \in 1..n : <<w[k - 1], w[k]>> \in pairs}

(* Mutant: the walk is cut an edge too soon.                               *)
NoCycleFoundBefore(pairs) == \A n \in 1..(WalkDepth - 1) : \A w \in Walks(pairs, n) : w[n] # w[0]

NoCycleFound(pairs) == \A n \in 1..WalkDepth : \A w \in Walks(pairs, n) : w[n] # w[0]

DeltaRow(i, row) ==
  [row EXCEPT !.status = IF github[i].open THEN @ ELSE "Done", !.closed = ClosedAt(i)]

\* What the cheap query may answer: the board, the board without its Status
\* (the field was renamed; a missing one reads "Todo"), or nothing usable.
CheapAnswers(board) ==
  LET statusless == [i \in DOMAIN board |-> [board[i] EXCEPT !.status = "Todo"]]
  IN  {[usable |-> TRUE, noStatus |-> FALSE, rows |-> board],
       [usable |-> TRUE, noStatus |-> TRUE, rows |-> statusless],
       [usable |-> FALSE, noStatus |-> TRUE, rows |-> <<>>]}

LooksLikeFieldMismatch(cheap) == Cardinality(DOMAIN cheap.rows) >= FieldFloor /\ cheap.noStatus

\* The board read: the cheap answer, unless it is unusable, empty or looks like
\* a renamed field; then the legacy list of the board.
FetchBoardItems(cheap, legacy) ==
  IF cheap.usable /\ DOMAIN cheap.rows # {} /\ ~LooksLikeFieldMismatch(cheap)
    THEN cheap.rows ELSE legacy
-------------------------------------------------------------------------------
(* Publishing: scripts/dolt-push.sh, over Dolt's cell-wise merge.          *)

Merge3(base, ours, theirs) == IF ours = base THEN theirs ELSE ours
Clash(base, ours, theirs) == ours # base /\ theirs # base /\ ours # theirs

RowClash(b, o, t) ==
  IF Null \in {b, o, t} THEN Clash(b, o, t) ELSE \E f \in DOMAIN b : Clash(b[f], o[f], t[f])

MergeRow(b, o, t) ==
  IF Null \in {b, o, t} THEN Merge3(b, o, t) ELSE [f \in DOMAIN b |-> Merge3(b[f], o[f], t[f])]

\* A run always adds sync_log rows, under the ids its clone would give next.
Conflicts(run) ==
  \/ run.overtaken
  \/ Clash(run.base.deps, run.db.deps, remote.deps)
  \/ \E i \in DOMAIN remote.items :
       RowClash(run.base.items[i], run.db.items[i], remote.items[i])

Merged(run) ==
  [items |-> [i \in DOMAIN remote.items |->
                MergeRow(run.base.items[i], run.db.items[i], remote.items[i])],
   deps  |-> Merge3(run.base.deps, run.db.deps, remote.deps)]

FastForward(run) == run.base = remote /\ ~run.overtaken

Cloned(at) == [NoRun EXCEPT !.at = at, !.db = remote, !.base = remote]
Overtake(run) == IF run.at = "idle" THEN run ELSE [run EXCEPT !.overtaken = TRUE]

(* Mutant: the last attempt is not the last.                               *)
RetriedOnceMore(run) ==
  IF Conflicts(run) THEN NoRun
  ELSE [run EXCEPT !.db = Merged(run), !.base = remote, !.tries = @ - 1]

\* After the push, or after merging what landed first; a conflict, or the last
\* attempt, fails the run.
Retried(run) ==
  IF run.tries = 1 \/ Conflicts(run) THEN NoRun
  ELSE [run EXCEPT !.db = Merged(run), !.base = remote, !.tries = @ - 1]
-------------------------------------------------------------------------------
(* GitHub, and the people on it.                                           *)

GitHubChanges ==
  /\ Disturb
  /\ UNCHANGED <<captured, remote, full, delta>>
  /\ \/ \E i \in Issue :
          /\ \/ github' = [github EXCEPT ![i].open = ~@]
             \/ github' = [github EXCEPT ![i].onBoard = ~@]
             \/ \E s \in Cards \ {github[i].card} : github' = [github EXCEPT ![i].card = s]
             \/ \E e \in OutOfBand \ {github[i].field} : github' = [github EXCEPT ![i].field = e]
             \/ \E d \in (Declared \cup {Null, Malformed}) \ {github[i].declared} :
                  github' = [github EXCEPT ![i].declared = d]
          /\ UNCHANGED links
     \/ /\ \E l \in Link : links' = IF l \in links THEN links \ {l} ELSE links \cup {l}
        /\ UNCHANGED github

(* The Dolt write surface, committed on the published mirror.              *)

SetDoltFields(i, e) ==
  /\ remote.items[i] # Null /\ Disturb
  /\ remote' = [remote EXCEPT !.items[i] = [@ EXCEPT !.effort = e, !.sync = "dolt-dirty"]]
  /\ UNCHANGED <<github, links, captured, full, delta>>

InsertHiddenItem(h, e) ==
  /\ remote.items[h] = Null /\ h \notin captured /\ Disturb
  /\ remote' = [remote EXCEPT !.items[h] = [origin |-> "dolt", status |-> "Todo", closed |-> FALSE,
                                            effort |-> e, sync |-> "hidden"]]
  /\ UNCHANGED <<github, links, captured, full, delta>>

CaptureHidden(h) ==
  /\ h \in Rows(remote, "dolt") /\ Disturb
  /\ remote' = [remote EXCEPT !.items[h].sync = "dolt-dirty"]
  /\ UNCHANGED <<github, links, captured, full, delta>>
-------------------------------------------------------------------------------
(* The full sync.                                                          *)

FullClone ==
  /\ full.at = "idle"
  /\ full' = [Cloned("capture") EXCEPT !.todo = Dirty(remote, "dolt")]
  /\ UNCHANGED <<github, links, captured, remote, delta, trouble>>

\* push.ts exits 3 when the budget refuses; the workflow goes on to the pull.
PushGated ==
  /\ full.at = "capture" /\ full.todo = Dirty(full.db, "dolt") /\ Disturb
  /\ full' = [full EXCEPT !.at = "pull", !.todo = {}]
  /\ UNCHANGED <<github, links, captured, remote, delta>>

(* Mutant: a create that failed is passed over.                            *)
CaptureRegardless(h) ==
  /\ full.at = "capture" /\ h \in full.todo
  /\ captured' \in {captured, captured \cup {h}}
  /\ full' = [full EXCEPT !.db.items[h] = Null, !.todo = @ \ {h}]
  /\ UNCHANGED <<github, links, remote, delta, trouble>>

\* gh issue create, then the placeholder goes.
Capture(h) ==
  /\ full.at = "capture" /\ h \in full.todo
  /\ captured' = captured \cup {h}
  /\ full' = [full EXCEPT !.db.items[h] = Null, !.todo = @ \ {h}]
  /\ UNCHANGED <<github, links, remote, delta, trouble>>

ReadDirty ==
  /\ full.at = "capture" /\ full.todo = {}
  /\ full' = [full EXCEPT !.at = "fields", !.todo = Dirty(full.db, "github")]
  /\ UNCHANGED <<github, links, captured, remote, delta, trouble>>

SetNumberField(i, effort) == github' = [github EXCEPT ![i].field = effort]

\* The row's effort goes up to the project field; a failure leaves it dirty.
PushField(i) ==
  /\ full.at = "fields" /\ i \in full.todo
  /\ \/ /\ SetNumberField(i, full.db.items[i].effort)
        /\ full' = [full EXCEPT !.db.items[i].sync = "synced", !.todo = @ \ {i}]
        /\ UNCHANGED trouble
     \/ /\ Disturb
        /\ full' = [full EXCEPT !.todo = @ \ {i}]
        /\ UNCHANGED github
  /\ UNCHANGED <<links, captured, remote, delta>>

PushDone ==
  /\ full.at = "fields" /\ full.todo = {}
  /\ full' = [full EXCEPT !.at = "pull"]
  /\ UNCHANGED <<github, links, captured, remote, delta, trouble>>

\* sync.ts exits 3 when the budget refuses: the push step is skipped, and with
\* it everything the clone holds.
PullGated ==
  /\ full.at = "pull" /\ Disturb
  /\ full' = NoRun
  /\ UNCHANGED <<github, links, captured, remote, delta>>

PullBoard ==
  /\ full.at = "pull"
  /\ LET legacy == [i \in {j \in Issue : github[j].onBoard} |-> BoardRow(i, github[i].card)]
     IN  \E cheap \in CheapAnswers(legacy) :
           LET board == FetchBoardItems(cheap, legacy)
           IN  full' = IF Inserts(full.db, board)
                         THEN [full EXCEPT !.at = "relations", !.ids = DOMAIN board,
                                           !.db = UpsertItems(full.db, board)]
                         ELSE NoRun
  /\ UNCHANGED <<github, links, captured, remote, delta, trouble>>

\* The second read of the board: relations and content.  What a partial answer
\* shows is applied like a whole one.  A hard finding (D1) exits 4, and the
\* workflow's push step does not run.
PullRelations ==
  /\ full.at = "relations"
  /\ \E read \in ContentsRead :
       /\ IF read = OnBoard THEN UNCHANGED trouble ELSE Disturb
       /\ \E mined \in Mined(full.ids, read) :
            LET db == [items |-> ApplyContentMeta(full.db.items, read),
                       deps  |-> UpsertRelationEdges(full.db.deps, mined)]
            IN  full' = IF NoCycleFound(DOMAIN db.deps)
                          THEN [full EXCEPT !.at = "push", !.db = db, !.ids = {}, !.tries = PushAttempts]
                          ELSE NoRun
  /\ UNCHANGED <<github, links, captured, remote, delta>>

FullPush ==
  /\ full.at = "push"
  /\ IF FastForward(full)
       THEN remote' = full.db /\ full' = NoRun /\ delta' = Overtake(delta)
       ELSE full' = Retried(full) /\ UNCHANGED <<remote, delta>>
  /\ UNCHANGED <<github, links, captured, trouble>>

FullStops ==
  /\ full.at # "idle" /\ Disturb
  /\ full' = NoRun
  /\ UNCHANGED <<github, links, captured, remote, delta>>
-------------------------------------------------------------------------------
(* The delta sync.                                                         *)

DeltaClone ==
  /\ delta.at = "idle" /\ Disturb
  /\ delta' = Cloned("search")
  /\ UNCHANGED <<github, links, captured, remote, full>>

\* The search answers for some of the issues (those updated since the day of
\* the last sync, at most 500); the ones the mirror knows are refreshed.
DeltaSearch ==
  /\ delta.at = "search"
  /\ \E results \in SUBSET Issue :
       delta' = [delta EXCEPT !.at = "push", !.tries = PushAttempts,
                   !.db.items = [i \in DOMAIN @ |-> IF i \in results /\ @[i] # Null
                                                      THEN DeltaRow(i, @[i]) ELSE @[i]]]
  /\ UNCHANGED <<github, links, captured, remote, full, trouble>>

DeltaPush ==
  /\ delta.at = "push"
  /\ IF FastForward(delta)
       THEN remote' = delta.db /\ delta' = NoRun /\ full' = Overtake(full)
       ELSE delta' = Retried(delta) /\ UNCHANGED <<remote, full>>
  /\ UNCHANGED <<github, links, captured, trouble>>

\* A failure, or a newer run of the group (cancel-in-progress).
DeltaStops ==
  /\ delta.at # "idle" /\ Disturb
  /\ delta' = NoRun
  /\ UNCHANGED <<github, links, captured, remote, full>>
-------------------------------------------------------------------------------
Init ==
  /\ github = [i \in Issue |-> [onBoard |-> TRUE, open |-> TRUE, card |-> "Todo",
                                field |-> CHOOSE e \in OutOfBand \ Refused : TRUE, declared |-> Null]]
  /\ links = {}
  /\ captured = {}
  /\ remote = [items |-> [i \in Issue \cup Hidden |-> IF i \in Issue THEN BoardRow(i, "Todo") ELSE Null],
               deps |-> <<>>]
  /\ full = NoRun
  /\ delta = NoRun
  /\ trouble = 0

FullProgress ==
  \/ FullClone \/ ReadDirty \/ PushDone \/ PullBoard \/ PullRelations \/ FullPush
  \/ \E h \in Hidden : Capture(h)
  \/ \E i \in Issue : PushField(i)

DeltaProgress == DeltaSearch \/ DeltaPush

Next ==
  \/ GitHubChanges
  \/ \E i \in Issue \cup Hidden, e \in Edited : SetDoltFields(i, e)
  \/ \E h \in Hidden, e \in Edited : InsertHiddenItem(h, e)
  \/ \E h \in Hidden : CaptureHidden(h)
  \/ FullProgress \/ PushGated \/ PullGated \/ FullStops
  \/ DeltaClone \/ DeltaProgress \/ DeltaStops

\* The full sync is scheduled for ever and a run's steps go on; a delta that
\* has started goes on.
Spec == Init /\ [][Next]_vars /\ WF_vars(FullProgress) /\ WF_vars(DeltaProgress)
-------------------------------------------------------------------------------
(* Properties.                                                             *)

\* The published effort of an item changes only to what its author declared in
\* frontmatter, or by an edit on the Dolt surface (authority.ts: effort is
\* Dolt's).  An effort typed into the project field is never taken over, and no
\* publication of an older clone takes an edit back.
EffortIsOurs ==
  [][\A i \in Issue :
       /\ remote.items[i] # Null /\ remote'.items[i] # Null
       /\ remote'.items[i].effort # remote.items[i].effort
       => \/ remote'.items[i].effort \in Declared
          \/ \E e \in Edited : SetDoltFields(i, e)]_vars

\* Hidden work leaves the published mirror only when GitHub has an issue for it
\* (syncPush deletes the placeholder it captured, and a pull deletes rows that
\* are not on the board), whatever fails or stops on the way.
WorkIsKept ==
  [][\A h \in Hidden : remote.items[h] # Null /\ remote'.items[h] = Null => h \in captured']_vars

\* No WalkDepth items of the published mirror, or fewer, wait for one another:
\* the shape check on acyclicity, the scheduler's deadlock freedom, is hard (D1).
\* More than that may: the check does not walk so far.
WaitForOneAnother(S, pairs) == S # {} /\ \A i \in S : \E j \in S : <<i, j>> \in pairs

NoShortCycle ==
  \A S \in SUBSET Issue :
    Cardinality(S) <= WalkDepth => ~WaitForOneAnother(S, DOMAIN remote.deps)

\* The mirror says what GitHub says: the items of the board and no others, each
\* open or closed as its issue is, in its card's column unless a delta saw it
\* closed; the relations of the board; no edit that was not pushed, no
\* placeholder of captured work.
BoardPairs == PairsOf({l \in links : {l.src, l.dst} \subseteq OnBoard})

Agrees ==
  /\ Rows(remote, "github") = OnBoard
  /\ \A i \in OnBoard :
       /\ remote.items[i].closed = ~github[i].open
       /\ \/ remote.items[i].status = github[i].card
          \/ remote.items[i].closed /\ remote.items[i].status = "Done"
       /\ remote.items[i].sync = "synced"
  /\ DOMAIN remote.deps = BoardPairs
  /\ \A h \in captured : remote.items[h] = Null

\* Once GitHub and the operators rest, the published mirror comes to agree with
\* the board and stays so: a reopened issue is schedulable again, a removed one
\* goes, a racing delta or a failed run is made good by the next full sync.
\* Only a cycle that is found on the board, or a new item its table refuses, keeps the mirror
\* as it is.
Acceptable ==
  /\ NoCycleFound(BoardPairs)
  /\ \A i \in OnBoard : remote.items[i] # Null \/ github[i].field \notin Refused
Converges == <>[](Acceptable => Agrees)

\* mirror.ts:867: "text-parsed 'blocks' from upsertItems survive via PK
\* dedupe".  So what the Depends-on field of a board at rest says gates.
FieldGates ==
  \A l \in links : l.via = "field" /\ {l.src, l.dst} \subseteq OnBoard
                   => <<l.src, l.dst>> \in DOMAIN remote.deps /\ remote.deps[<<l.src, l.dst>>] = "blocks"
FieldGatesSurvive == <>[](Acceptable => FieldGates)
===============================================================================

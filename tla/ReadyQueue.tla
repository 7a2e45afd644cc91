------------------------------ MODULE ReadyQueue ------------------------------
(***************************************************************************)
(* The verbs that read the mirror -- next, graph, list and claim           *)
(* (src/verbs.ts) -- over the read planes (src/dolthub.ts, dolt-server.ts, *)
(* mirror.ts behind src/reads.ts), while syncs publish boards and leases   *)
(* come and go.  A verb makes several requests; a commit or a lease may    *)
(* change between any two of them.                                         *)
(*                                                                         *)
(* Abstracted: a query's result is the commit it saw, and the lease rows   *)
(* it saw where they run ahead of the commits: SQL sessions write them to  *)
(* the working set, which is committed later.  The lease objects are the   *)
(* set of items held now.  Ages do not grow during a call.                 *)
(***************************************************************************)
EXTENDS Scheduling, SequencesExt

CONSTANTS Boards,      \* the boards a sync may publish
          Requests,    \* the calls a session may make
          PAGE_ROWS, CAP_GUARD,
          DEFAULT_HELD_WINDOW,
          Leasable,    \* bound: the items SQL sessions lease
          MaxTrouble   \* bound: what a call may meet -- commits, leases that
                       \* begin or end, requests that fail -- together

IsRequest(r) == /\ r.verb \in {"next", "graph", "list", "claim"}
                /\ r.verb = "next" => r.top \in Nat

ASSUME QueueAssumption ==
  /\ \A b \in Boards : /\ IsBoard(b)
                        /\ b \in [items : {b.items}, deps : {b.deps}, leases : {b.leases}]
  /\ \A r \in Requests : IsRequest(r)
  /\ {PAGE_ROWS, CAP_GUARD} \subseteq Nat \ {0} /\ PAGE_ROWS < CAP_GUARD
  /\ {DEFAULT_HELD_WINDOW, MaxTrouble} \subseteq Nat
  /\ Leasable \subseteq Item

VARIABLES log,      \* the commits of the mirror since the call began, and the last before
          working,  \* the items leased in the working set of the server, or clone, read
          held,     \* items under a live lease, as the lease objects know
          call,     \* the call under way, or the last one
          ans,      \* its answer, NoAnswer while it has none
          trouble,  \* what the call has met so far
          wasHeld, wasFree  \* items held, and free, at some time in the call

vars == <<log, working, held, call, ans, trouble, wasHeld, wasFree>>

Tables == {"items", "deps", "leases", "edges"}

\* A call: the request, the commit its answer is pinned to (0: not pinned), the
\* commit each query saw (0: not yet), the lease rows read off a working set, the
\* pages read (<<item, commit>>), the candidates a claim has tried and what each
\* lease object answered.
NoCall == [at |-> "idle", req |-> Null, pin |-> 0, seen |-> [t \in Tables |-> 0],
           leased |-> {}, listed |-> <<>>, tried |-> 0, probed |-> <<>>]

NoAnswer == [verdict |-> "none"]

Latest == Len(log)

\* A commit: a board, with the leases of whoever wrote last.
Commits == {[b EXCEPT !.leases = leases] : b \in Boards, leases \in SUBSET Item}

TypeOK ==
  /\ log \in Seq(Commits) /\ Latest \in 1..(MaxTrouble + 1)
  /\ working \subseteq Item /\ call.leased \subseteq Item
  /\ held \subseteq Item /\ wasHeld \subseteq Item /\ wasFree \subseteq Item
  /\ call.at \in {"idle", "head", "tables", "listHead", "pages", "listEdges", "done"}
  /\ call.at # "idle" => call.req \in Requests
  /\ call.pin \in 0..Latest /\ call.seen \in [Tables -> 0..Latest] /\ call.tried \in Nat
  /\ call.listed \in Seq(Item \X (1..Latest))
  /\ DOMAIN call.probed \subseteq Item
  /\ \A i \in DOMAIN call.probed : call.probed[i] \in {"held", "free", "failed"}
  /\ trouble \in 0..MaxTrouble
  /\ (call.at = "done") = (ans # NoAnswer)

-----------------------------------------------------------------------------
(* The read plane of the call, and what its queries have returned.         *)

Req == call.req
Source == ResolveReads(Req.env)
InRepo(row) == Req.repo = Null \/ row.repo = Req.repo

\* The commit an HTTP query sees: AS OF the pin, for each table the pin names.
(* Mutant: pinTables does not name item_deps.                              *)
PinWithoutDeps(t) == IF call.pin > 0 /\ t \in {"items", "leases"} THEN call.pin ELSE Latest

PinTables(t) == IF call.pin > 0 /\ t # "edges" THEN call.pin ELSE Latest

Items == log[call.seen["items"]].items
Deps  == log[call.seen["deps"]].deps
Leased == IF Source = "dolthub" THEN log[call.seen["leases"]].leases ELSE call.leased

Scheduled == IF Source = "local" THEN ReadMirrorScheduling(Items, Deps)
                                 ELSE AssembleScheduling(Items, Deps)

\* graph also reads the typed edges, in a query of its own beside the others.
Needed == {"items", "deps", "leases"} \cup IF Req.verb = "graph" THEN {"edges"} ELSE {}
AllSeen == call.at = "tables" /\ \A t \in Needed : call.seen[t] > 0

\* What a query returns, in rows.
RowsOf(t, b) == CASE t = "items"  -> Cardinality(Schedulable(b.items))
                  [] t = "leases" -> Cardinality(b.leases)
                  [] OTHER        -> Cardinality(DOMAIN b.deps)

-----------------------------------------------------------------------------
(* The ranked lists the verbs work from.  graph shows leased items too.    *)

Scoped == LET x == Scheduled
          IN  [i \in {j \in DOMAIN x : InRepo(Items[j])
                                       /\ (Req.verb = "graph" \/ j \notin Leased)} |-> x[i]]

Ranked == RankingOf(Scoped, Eligible(Scoped))

FirstOf(s, n) == SubSeq(s, 1, AtMost(n, Len(s)))

\* The candidates whose lease objects are asked: none without an endpoint.
Window ==
  IF ~Req.configured THEN {}
  ELSE ToSet(FirstOf(Ranked, IF Req.verb = "next" THEN Req.top ELSE DEFAULT_HELD_WINDOW))

Probes == Req.verb \in {"next", "graph"}

\* Held is what a lease object said; a probe without an answer leaves the item.
(* Mutant: held items stay.                                                *)
NoneHeld == {}

LiveHeld == {i \in DOMAIN call.probed : call.probed[i] = "held"}

Available == Eligible(Scoped) \ LiveHeld

-----------------------------------------------------------------------------
(* What goes on meanwhile: a sync publishes a board, SQL sessions write     *)
(* lease rows and commit them, somebody takes an item of the lease plane   *)
(* or leaves it.  What happened before a call began is forgotten.          *)

UnderWay == call.at \notin {"idle", "done"}

Trouble == UnderWay /\ trouble < MaxTrouble /\ trouble' = trouble + 1

Meanwhile == Trouble \/ (call.at = "idle" /\ UNCHANGED trouble)

Lands(b) == log' = IF UnderWay THEN Append(log, b) ELSE <<b>>

\* A sync leaves the leases alone.
Publish(b) ==
  /\ Meanwhile
  /\ LET commit == [b EXCEPT !.leases = log[Latest].leases]
     IN  commit # log[Latest] /\ Lands(commit)
  /\ UNCHANGED <<working, held, call, ans, wasHeld, wasFree>>

\* A latch, a release or the reap: a statement, seen by every session at once.
WriteLease(i) ==
  /\ Meanwhile
  /\ working' = IF i \in working THEN working \ {i} ELSE working \cup {i}
  /\ UNCHANGED <<log, held, call, ans, wasHeld, wasFree>>

\* DOLT_COMMIT takes the whole working set.
CommitLeases ==
  /\ Meanwhile /\ working # log[Latest].leases
  /\ Lands([log[Latest] EXCEPT !.leases = working])
  /\ UNCHANGED <<working, held, call, ans, wasHeld, wasFree>>

Take(i) ==
  /\ Meanwhile /\ i \notin held
  /\ held' = held \cup {i}
  /\ wasHeld' = IF UnderWay THEN wasHeld \cup {i} ELSE {}
  /\ UNCHANGED <<log, working, call, ans, wasFree>>

Leave(i) ==
  /\ Meanwhile /\ i \in held
  /\ held' = held \ {i}
  /\ wasFree' = IF UnderWay THEN wasFree \cup {i} ELSE {}
  /\ UNCHANGED <<log, working, call, ans, wasHeld>>

-----------------------------------------------------------------------------
(* A call begins, and ends with an answer, or with an error thrown.        *)

Begin(r) ==
  /\ call.at = "idle"
  /\ call' = [NoCall EXCEPT !.req = r, !.at = IF r.verb = "list" THEN "listHead" ELSE "head"]
  /\ wasHeld' = held /\ wasFree' = Item \ held
  /\ UNCHANGED <<log, working, held, ans, trouble>>

Return ==
  /\ call.at = "done"
  /\ call' = NoCall /\ ans' = NoAnswer /\ log' = <<log[Latest]>>
  /\ trouble' = 0 /\ wasHeld' = {} /\ wasFree' = {}
  /\ UNCHANGED <<working, held>>

Answer(a) == /\ call' = [call EXCEPT !.at = "done"]
             /\ ans' = a

(* Mutant: the error of a query is swallowed.                              *)
Swallows == call' = [call EXCEPT !.at = "done"] /\ UNCHANGED ans

Throws == Answer([verdict |-> "error"])

Selector == ParseItemSelector(Req.item, Req.repo)

\* A claim that names nothing throws before it reads.
ThrowSelector ==
  /\ call.at = "head" /\ Req.verb = "claim" /\ Req.item # Null /\ Selector = Null
  /\ Throws
  /\ UNCHANGED <<log, working, held, trouble, wasHeld, wasFree>>

Reads(at) == call.at = at
             /\ ~(Req.verb = "claim" /\ Req.item # Null /\ Selector = Null)

\* resolveHead; a head that cannot be resolved leaves the reads unpinned.
ResolveHead ==
  \E at \in {"head", "listHead"} :
    /\ Reads(at) /\ Source = "dolthub"
    /\ \E pin \in {0, Latest} :
         /\ IF pin = 0 THEN Trouble ELSE UNCHANGED trouble
         /\ call' = [call EXCEPT !.pin = pin, !.at = IF at = "head" THEN "tables" ELSE "pages"]
    /\ UNCHANGED <<log, working, held, ans, wasHeld, wasFree>>

\* One of the queries of readScheduling over HTTP.  Close to the row cap an
\* unpaginated query fails, and the verb with it.
ReadTable(t) ==
  /\ call.at = "tables" /\ Source = "dolthub" /\ t \in Needed \ {"edges"} /\ call.seen[t] = 0
  /\ IF RowsOf(t, log[PinTables(t)]) >= CAP_GUARD
       THEN Throws
       ELSE call' = [call EXCEPT !.seen = [@ EXCEPT ![t] = PinTables(t)]] /\ UNCHANGED ans
  /\ UNCHANGED <<log, working, held, trouble, wasHeld, wasFree>>

\* The server reads the three tables in one transaction, of the working set, and
\* names the newest commit, or none if that query fails; the clone reads them in
\* one statement, at whatever commit it was left.
ReadSnapshot ==
  /\ Reads("head") /\ Source # "dolthub"
  /\ \E c \in IF Source = "server" THEN {Latest} ELSE AtLeast(1, call.seen["edges"])..Latest,
        pin \in IF Source = "server" THEN {0, Latest} ELSE {0} :
       /\ IF Source = "server" /\ pin = 0 THEN Trouble ELSE UNCHANGED trouble
       /\ call' = [call EXCEPT !.at = "tables", !.pin = pin, !.leased = working,
                               !.seen = [t \in Tables |-> IF t = "edges" THEN @[t] ELSE c]]
  /\ UNCHANGED <<log, working, held, ans, wasHeld, wasFree>>

\* graph's typed edges, before, during or after the reads of readScheduling, and
\* of no commit in particular.
ReadEdges ==
  /\ call.at \in {"head", "tables"} /\ "edges" \in Needed /\ call.seen["edges"] = 0
  /\ \E c \in IF Source = "local" THEN AtLeast(1, call.seen["items"])..Latest ELSE {PinTables("edges")} :
       IF Source = "dolthub" /\ RowsOf("edges", log[c]) >= CAP_GUARD
         THEN Throws
         ELSE call' = [call EXCEPT !.seen = [@ EXCEPT !["edges"] = c]] /\ UNCHANGED ans
  /\ UNCHANGED <<log, working, held, trouble, wasHeld, wasFree>>

QueryFails ==
  /\ \/ call.at \in {"tables", "pages", "listEdges"} /\ ~AllSeen
     \/ (Reads("head") \/ Reads("listHead")) /\ Source # "dolthub"
     \/ call.at = "head" /\ "edges" \in Needed /\ call.seen["edges"] = 0
  /\ Trouble
  /\ Throws
  /\ UNCHANGED <<log, working, held, wasHeld, wasFree>>

-----------------------------------------------------------------------------
(* next and graph.                                                         *)

\* The probes of the window, all under way at once.
Probe(i) ==
  /\ AllSeen /\ Probes /\ i \in Window \ DOMAIN call.probed
  /\ \E o \in {IF i \in held THEN "held" ELSE "free", "failed"} :
       /\ IF o = "failed" THEN Trouble ELSE UNCHANGED trouble
       /\ call' = [call EXCEPT !.probed = [j \in DOMAIN @ \cup {i} |-> IF j = i THEN o ELSE @[j]]]
  /\ UNCHANGED <<log, working, held, ans, wasHeld, wasFree>>

Probed == AllSeen /\ Probes /\ Window \subseteq DOMAIN call.probed

AnswerNext ==
  /\ Probed /\ Req.verb = "next"
  /\ LET mine == {i \in Available : MissingFor(Items[i].needs, ProbeActor(Req.env)) = {}}
         executable == RankingOf(Scoped, mine)
     IN  Answer([verdict    |-> "next",
                 eligible   |-> Cardinality(Available),
                 queue      |-> FirstOf(executable, Req.top),
                 otherActors |-> FirstOf(RankingOf(Scoped, Available \ mine), Req.top),
                 pick       |-> IF mine = {} THEN Null ELSE executable[1]])
  /\ UNCHANGED <<log, working, held, trouble, wasHeld, wasFree>>

AnswerGraph ==
  /\ Probed /\ Req.verb = "graph"
  /\ LET edges == log[call.seen["edges"]].deps
         ids == DOMAIN Scoped
     IN  Answer([verdict |-> "graph",
                 ready   |-> RankingOf(Scoped, Available),
                 held    |-> RankingOf(Scoped, Eligible(Scoped) \cap LiveHeld),
                 blocked |-> {i \in ids : BlockedBy(ids, edges, i) # {}},
                 edges   |-> GraphEdges(ids, edges)])
  /\ UNCHANGED <<log, working, held, trouble, wasHeld, wasFree>>

-----------------------------------------------------------------------------
(* claim: the ranking, or one named item, is offered to the adjudicator.   *)

NamedRow == {i \in DOMAIN Scheduled : SelectorMatches(Selector, i, Items[i])}

(* Mutant: a named item is exempt from the ready rule.                     *)
NamedIsCandidate ==
  IF Req.item = Null THEN Ranked ELSE SetToSeq(NamedRow)

Candidates ==
  IF Req.item = Null THEN Ranked
  ELSE SetToSeq({i \in NamedRow : IsEligible(Scheduled[i])})

Claim ==
  /\ AllSeen /\ Req.verb = "claim" /\ Candidates # <<>>
  /\ LET i == Candidates[call.tried + 1]
     IN  IF i \notin held
         THEN /\ held' = held \cup {i} /\ wasHeld' = wasHeld \cup {i}
              /\ Answer([verdict |-> "granted", item |-> i])
         ELSE /\ IF call.tried + 1 = Len(Candidates)
                   THEN Answer([verdict |-> "not-granted"])
                   ELSE call' = [call EXCEPT !.tried = @ + 1] /\ UNCHANGED ans
              /\ UNCHANGED <<held, wasHeld>>
  /\ UNCHANGED <<log, working, trouble, wasFree>>

\* A ranking without candidates; a row the ready rule refuses.
Refuse ==
  /\ AllSeen /\ Req.verb = "claim" /\ Candidates = <<>>
  /\ Req.item # Null => NamedRow # {}
  /\ Answer([verdict |-> IF Req.item = Null THEN "not-granted" ELSE "not-eligible"])
  /\ UNCHANGED <<log, working, held, trouble, wasHeld, wasFree>>

\* A name outside the schedulable set is looked for among all items.
LookAmongAll ==
  /\ AllSeen /\ Req.verb = "claim" /\ Req.item # Null /\ NamedRow = {}
  /\ call' = [call EXCEPT !.at = "listHead", !.pin = 0]
  /\ UNCHANGED <<log, working, held, ans, trouble, wasHeld, wasFree>>

-----------------------------------------------------------------------------
(* readAllItems: for list, and for a claim that found no row.              *)

\* The scope of the query: --repo, or the selector's repository.
Scope == IF Req.verb = "list" THEN Req.repo
         ELSE IF Selector.form = "id" THEN Null ELSE Selector.repo

InScope(items) == {i \in DOMAIN items : Scope \in {Null, items[i].repo}}

Smallest(S, n) == {i \in S : Cardinality({j \in S : j < i}) < n}

Cursor == IF call.listed = <<>> THEN 0 ELSE call.listed[Len(call.listed)][1]

(* Mutant: pages are counted off (OFFSET) instead of keyed.                *)
PageByOffset(items) ==
  LET S == InScope(items) IN Smallest(S, Len(call.listed) + PAGE_ROWS) \ Smallest(S, Len(call.listed))

Page(items) == Smallest({i \in InScope(items) : i > Cursor}, PAGE_ROWS)

\* The listing is complete: list reads the edges, a claim has its verdict.
Listed(listed) ==
  /\ call' = [call EXCEPT !.listed = listed, !.at = IF Req.verb = "list" THEN "listEdges" ELSE "done"]
  /\ IF Req.verb = "list" THEN UNCHANGED ans
     ELSE LET known == \E n \in DOMAIN listed :
                         LET i == listed[n][1] IN SelectorMatches(Selector, i, log[listed[n][2]].items[i])
          IN  ans' = [verdict |-> IF known THEN "not-eligible" ELSE "not-in-mirror"]

InOrder(ids, c) == [n \in 1..Cardinality(ids) |->
                      <<CHOOSE i \in ids : Cardinality({j \in ids : j < i}) = n - 1, c>>]

\* A short page is the end of the table.
ReadPage ==
  /\ call.at = "pages"
  /\ LET c == PinTables("items")
         rows == Page(log[c].items)
         listed == call.listed \o InOrder(rows, c)
     IN  IF Cardinality(rows) < PAGE_ROWS THEN Listed(listed)
         ELSE call' = [call EXCEPT !.listed = listed] /\ UNCHANGED ans
  /\ UNCHANGED <<log, working, held, trouble, wasHeld, wasFree>>

\* The server and the clone have no row cap and read the table at once.
ReadAllItems ==
  /\ Reads("listHead") /\ Source # "dolthub"
  /\ \E c \in IF Source = "server" THEN {Latest} ELSE AtLeast(1, call.seen["items"])..Latest :
       Listed(InOrder(InScope(log[c].items), c))
  /\ UNCHANGED <<log, working, held, trouble, wasHeld, wasFree>>

\* The edges list shows, read at the pin of the items where there is one.
ListEdges ==
  /\ call.at = "listEdges"
  /\ \E c \in IF Source = "local" THEN 1..Latest ELSE {PinTables("deps")} :
       IF Source = "dolthub" /\ RowsOf("deps", log[c]) >= CAP_GUARD THEN Throws
       ELSE Answer([verdict |-> "list",
                    edges |-> GraphEdges({call.listed[n][1] : n \in DOMAIN call.listed}, log[c].deps)])
  /\ UNCHANGED <<log, working, held, trouble, wasHeld, wasFree>>

-----------------------------------------------------------------------------
Init ==
  /\ log \in {<<b>> : b \in Boards} /\ working = log[1].leases
  /\ held = {} /\ call = NoCall /\ ans = NoAnswer /\ trouble = 0
  /\ wasHeld = {} /\ wasFree = {}

Next ==
  \/ \E b \in Boards : Publish(b)
  \/ \E i \in Leasable : WriteLease(i)
  \/ CommitLeases
  \/ \E i \in Item : Take(i) \/ Leave(i) \/ Probe(i)
  \/ \E r \in Requests : Begin(r)
  \/ Return
  \/ \E t \in Tables : ReadTable(t)
  \/ ThrowSelector \/ ResolveHead \/ ReadSnapshot \/ ReadEdges \/ QueryFails
  \/ AnswerNext \/ AnswerGraph
  \/ Claim \/ Refuse \/ LookAmongAll
  \/ ReadPage \/ ReadAllItems \/ ListEdges

Spec == Init /\ [][Next]_vars

-----------------------------------------------------------------------------
(* Properties.                                                             *)

\* The ready rule, said of one board: live, and nothing it waits for is open.
OpenOn(b, i) == i \in DOMAIN b.items /\ b.items[i].status # "Done" /\ ~b.items[i].closed

ReadyOn(b, i) ==
  /\ OpenOn(b, i) /\ b.items[i].status # "Blocked"
  /\ ~\E p \in DOMAIN b.deps : p[1] = i /\ b.deps[p] # "closes" /\ OpenOn(b, p[2])

Answered(verb) == call.at # "done" /\ call'.at = "done" /\ ans'.verdict = verb

\* The lease rows an answer derived from one commit leaves out: those of that
\* commit where the reads are pinned to it; on the server those of the working
\* set the transaction read, which may be ahead of the commit it names.
LeftOut == IF Source = "dolthub" THEN log[call.pin].leases ELSE call.leased

\* What an answer offers is what was ready on the one board it says it derives
\* from (derivedFrom), less LeftOut and what a lease object called held -- all of
\* it and nothing else, however many commits landed while the queries were under
\* way (dolthub.ts and dolt-server.ts readScheduling, verbs.ts next and graph).
OffersTheReady ==
  [][call.pin > 0 =>
       LET b == log[call.pin]
           ready == {i \in Item : ReadyOn(b, i) /\ InRepo(b.items[i])}
           free == ready \ (LeftOut \cup LiveHeld)
       IN  /\ Answered("next") =>
                LET queue == ToSet(ans'.queue)
                    others == ToSet(ans'.otherActors)
                IN  /\ queue \cup others \subseteq free /\ queue \cap others = {}
                    /\ ans'.eligible = Cardinality(free)
                    /\ Len(ans'.queue) < Req.top /\ Len(ans'.otherActors) < Req.top
                         => queue \cup others = free
           /\ Answered("graph") =>
                /\ ToSet(ans'.ready) = ready \ LiveHeld
                /\ ToSet(ans'.held) = ready \cap LiveHeld]_vars

\* next excludes an item only if it was held at some time during the call, and
\* picks one whose lease object answered only if it was free at some time during
\* the call (held.ts verifyHeld): neither a lease that ended before the question
\* nor one that was there all along is misread.  An item behind the window, or
\* whose probe failed, may be held: verifyHeld fails open.
ExclusionIsObserved ==
  [][Answered("next") =>
       /\ LiveHeld \subseteq wasHeld
       /\ \A i \in (ToSet(ans'.queue) \cup ToSet(ans'.otherActors)) \cap DOMAIN call.probed :
            call.probed[i] # "failed" => i \in wasFree]_vars

\* A listing walked in pages holds every row that was in the table at each
\* commit of the walk, exactly once, whether its pages were pinned or not; if
\* they were, it is one board's, edges included (dolthub.ts readAllItems).
LastingRowsAreListed ==
  [][Answered("list") =>
       LET rows == [n \in DOMAIN call.listed |-> call.listed[n][1]]
           lasting == {i \in Item : \A c \in 1..Latest :
                         i \in DOMAIN log[c].items /\ Req.repo \in {Null, log[c].items[i].repo}}
       IN  /\ lasting \subseteq ToSet(rows)
           /\ \A m, n \in DOMAIN rows : rows[m] = rows[n] => m = n
           /\ call.pin > 0 =>
                /\ ToSet(rows) = InScope(log[call.pin].items)
                /\ ans'.edges = GraphEdges(ToSet(rows), log[call.pin].deps)]_vars

\* What claim says is so: a grant is of an item that was ready on the board it
\* cites, of the one named if one was named; a refusal for being held is of items
\* that were all held at some time during the call or leased where it read; and
\* "not in the mirror" is said of a name that some commit during the call did not
\* know -- or, if the listing was not pinned, that no one item bore at every commit.
ClaimSpeaksTrue ==
  [][Req # Null /\ Source # "local" /\ Req.verb = "claim" =>
       LET named(b) == {i \in DOMAIN b.items : Req.item = Null \/ SelectorMatches(Selector, i, b.items[i])}
       IN  /\ Answered("granted") /\ call.pin > 0 =>
                /\ ReadyOn(log[call.pin], ans'.item) /\ ans'.item \in named(log[call.pin])
                /\ ans'.item \notin held
           /\ Answered("not-granted") /\ call.pin > 0 =>
                \A i \in named(log[call.pin]) :
                  ReadyOn(log[call.pin], i) /\ InRepo(log[call.pin].items[i])
                    => i \in wasHeld \cup LeftOut
           /\ Answered("not-eligible") /\ call.pin > 0 =>
                \E c \in 1..Latest : ~\E i \in named(log[c]) : ReadyOn(log[c], i)
           /\ Answered("not-in-mirror") =>
                /\ \A i \in Item : \E c \in 1..Latest : i \notin named(log[c])
                /\ call.pin > 0 \/ Source = "server" => \E c \in 1..Latest : named(log[c]) = {}]_vars
=============================================================================

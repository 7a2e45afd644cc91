------------------------------ MODULE Scheduling ------------------------------
(***************************************************************************)
(* The rows of the mirror as the read planes return them, and what is      *)
(* computed from them: the schedulable set, the ready rule's inputs, the   *)
(* dependency graph (src/scheduling.ts), what a caller can execute         *)
(* (src/capability.ts) and which item a claim names (src/selector.ts).     *)
(* Pure operators.  Items are numbered in the order of the primary key,    *)
(* which is also the order in which rows arrive.                           *)
(***************************************************************************)
EXTENDS Policy, Sequences

CONSTANTS Item,      \* primary keys of the items table, numbers
          Repo, Null

ASSUME SchedulingAssumption == Item \subseteq Nat \ {0} /\ IsFiniteSet(Item) /\ Null \notin Repo

Capability == {"gh", "github-api", "dolt", "deno"}
Status == {"Todo", "Blocked", "In Progress", "Done"}
BLOCKER_KINDS == {"blocks", "parent-child"}
EdgeKind == BLOCKER_KINDS \cup {"closes"}

\* `needs' may hold tokens that name no capability.
Row == [number : Nat, repo : Repo, kind : {"epic", "room", "door", "task"},
        status : Status, closed : BOOLEAN, effort : Nat, value : 0..100,
        needs : SUBSET (Capability \cup {"other"}), age : Nat]

\* A board: the rows of items, of item_deps (by primary key, giving the kind)
\* and of the leases table, which stays empty on the lease plane.
IsBoard(b) ==
  /\ DOMAIN b.items \subseteq Item /\ \A i \in DOMAIN b.items : b.items[i] \in Row
  /\ DOMAIN b.deps \subseteq Item \X Item /\ \A p \in DOMAIN b.deps : b.deps[p] \in EdgeKind
  /\ b.leases \subseteq Item

StatusToState ==
  [s \in Status |-> CASE s = "Todo"        -> "open"
                      [] s = "In Progress" -> "in_progress"
                      [] s = "Blocked"     -> "blocked"
                      [] s = "Done"        -> "closed"]

-----------------------------------------------------------------------------
(* The schedulable set, and the ready rule's inputs over it.               *)

(* Mutant: only the card decides.                                          *)
SchedulableByCard(items) == {i \in DOMAIN items : items[i].status # "Done"}

Schedulable(items) == {i \in DOMAIN items : items[i].status # "Done" /\ ~items[i].closed}

Gates(deps) == {p \in DOMAIN deps : deps[p] \in BLOCKER_KINDS}

\* The rows shown, given the open items and the edges that gate.  A dependency
\* outside the open set is satisfied.
Inputs(items, shown, open, gates) ==
  [i \in shown |->
     [kind         |-> items[i].kind,
      state        |-> StatusToState[items[i].status],
      effort       |-> items[i].effort,
      value        |-> items[i].value,
      openBlockers |-> Cardinality({j \in open : <<i, j>> \in gates}),
      unblocks     |-> Cardinality({j \in open : <<j, i>> \in gates}),
      ageDays      |-> items[i].age]]

AssembleScheduling(items, deps) ==
  LET open == Schedulable(items) IN Inputs(items, open, open, Gates(deps))

\* The local clone's query shows every row, counts edges of every kind, and
\* takes an item to be open by its card alone.
ReadMirrorScheduling(items, deps) ==
  Inputs(items, DOMAIN items, {i \in DOMAIN items : items[i].status # "Done"}, DOMAIN deps)

\* A filter keeps the order of a ranking, so a filtered ranking is the ranking of
\* what passes.
Eligible(x) == {i \in DOMAIN x : IsEligible(x[i])}
RankingOf(x, S) == Ranking([i \in S |-> x[i]])

\* The edges whose endpoints are both in ids, and the gating ones from each.
GraphEdges(ids, deps) == {p \in DOMAIN deps : p[1] \in ids /\ p[2] \in ids}
BlockedBy(ids, deps, i) == {j \in ids : <<i, j>> \in GraphEdges(ids, deps) \cap Gates(deps)}

-----------------------------------------------------------------------------
(* The caller.                                                             *)

\* What a caller holds: the binaries it finds, and the API if its token is a
\* token -- the proxy's sentinel is not.
ProbeActor(env) ==
  (env.bins \cap {"gh", "dolt", "deno"})
    \cup IF env.token = "token" THEN {"github-api"} ELSE {}

\* Undeclared needs are met by everyone, and so are unknown ones.
MissingFor(needs, caps) == (needs \cap Capability) \ caps

\* Which plane is read: an override, then a server, then a clone.
ResolveReads(env) ==
  IF env.reads # Null THEN env.reads
  ELSE IF env.doltHost THEN "server" ELSE IF env.clone THEN "local" ELSE "dolthub"

\* A selector is a node id, or a number qualified by a repository; a bare number
\* takes the --repo argument, and what names nothing is Null.
ParseItemSelector(text, repo) ==
  CASE text.form = "id" -> text
    [] text.form = "qualified" -> IF repo \in {Null, text.repo} THEN text ELSE Null
    [] text.form = "bare" ->
         IF repo = Null THEN Null ELSE [form |-> "qualified", repo |-> repo, number |-> text.number]

SelectorMatches(sel, i, row) ==
  IF sel.form = "id" THEN sel.id = i ELSE sel.number = row.number /\ sel.repo = row.repo

=============================================================================

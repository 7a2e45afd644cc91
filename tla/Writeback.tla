------------------------------- MODULE Writeback -------------------------------
(***************************************************************************)
(* Status as a projection: deriveStatus (src/status.ts) and the pass that  *)
(* renders it onto the live board (src/writeback.ts,                       *)
(* scripts/status-writeback.ts), reading the mirror in two keyset walks    *)
(* (src/dolthub.ts readPaged) while deltas publish, people move cards and  *)
(* close issues, and requests fail.                                        *)
(*                                                                         *)
(* A full sync (module MirrorSync) is one step here.  It never overlaps a  *)
(* pass: both are in the concurrency group mirror-write.  A delta is not.  *)
(***************************************************************************)
EXTENDS Scheduling, Functions

CONSTANTS Hidden,     \* Dolt-born rows; the other items are issues
          Graphs,     \* the relations GitHub may hold: (item, dependency) -> kind
          PAGE_ROWS,
          MaxTrouble  \* bound: changes by people, deltas and failures, together

ASSUME WritebackAssumption ==
  /\ Hidden \subseteq Item
  /\ \A g \in Graphs : DOMAIN g \subseteq Item \X Item /\ \A p \in DOMAIN g : g[p] \in EdgeKind
  /\ PAGE_ROWS \in Nat \ {0} /\ MaxTrouble \in Nat
  /\ Null \notin Status

VARIABLES open,    \* GitHub's open/close, per issue
          card,    \* the live board: a column per issue, Null for no card
          links,   \* GitHub's relations
          log,     \* the mirror: commits since the pass began, and the last before
          pass,    \* the write-back pass
          trouble

vars == <<open, card, links, log, pass, trouble>>

Issue == Item \ Hidden
Latest == Len(log)

DerivationRow == [origin : {"github", "dolt"}, status : Status, closed : BOOLEAN]

\* A pass: where it is, whether it may write, the commit its walk is pinned to
\* (0: none), the commit its items are of (0 if they are of no one commit), the
\* rows and edges read, and the writes planned.
NoPass == [at |-> "idle", apply |-> FALSE, pin |-> 0, of |-> 0,
           rows |-> <<>>, edges |-> <<>>, todo |-> <<>>]

IsTable(f, S, T) == DOMAIN f \subseteq S /\ f \in [DOMAIN f -> T]

IsCommit(c) ==
  /\ c = [items |-> c.items, deps |-> c.deps]
  /\ IsTable(c.items, Item, DerivationRow) /\ IsTable(c.deps, Item \X Item, EdgeKind)

TypeOK ==
  /\ open \in [Issue -> BOOLEAN] /\ card \in [Issue -> Status \cup {Null}] /\ links \in Graphs
  /\ Latest > 0 /\ log \in Seq(Range(log)) /\ \A c \in 1..Latest : IsCommit(log[c])
  /\ pass \in [at : {"idle", "itemsHead", "items", "edgesHead", "edges", "board", "writing"},
               apply : BOOLEAN, pin : 0..Latest, of : 0..Latest,
               rows : {pass.rows}, edges : {pass.edges}, todo : {pass.todo}]
  /\ pass.at = "idle" => pass = NoPass /\ Latest = 1
  /\ IsTable(pass.rows, Item, DerivationRow) /\ IsTable(pass.edges, Item \X Item, EdgeKind)
  /\ IsTable(pass.todo, Issue, Status)
  /\ trouble \in 0..MaxTrouble

Running == pass.at # "idle"

\* The log is forgotten with the pass.
Stops == pass' = NoPass /\ log' = <<log[Latest]>>
Publish(commit) == log' = IF Running THEN Append(log, commit) ELSE <<commit>>

Disturb == trouble < MaxTrouble /\ trouble' = trouble + 1

-------------------------------------------------------------------------------
(* The derivation.                                                         *)

\* deriveStatus, for a pass that does not read the lease plane.  Null is "leave
\* the card alone".
DeriveStatus(row, openBlockers, current) ==
  IF row.origin # "github" THEN Null
  ELSE IF row.closed THEN "Done"
  ELSE IF openBlockers > 0 THEN "Blocked"
  ELSE IF current = "In Progress" THEN Null ELSE "Todo"

OpenIdsOf(rows) == {i \in DOMAIN rows : rows[i].status # "Done" /\ ~rows[i].closed}

(* Mutant: an edge of any kind counts (prx#972).                           *)
AnyEdgeBlocks(edges, openIds, i) == Cardinality({j \in openIds : <<i, j>> \in DOMAIN edges})

OpenBlockersOf(edges, openIds, i) == Cardinality({j \in openIds : <<i, j>> \in Gates(edges)})

(* Mutant: "leave it alone" is taken for a column to write.                *)
PlanMovesNull(rows, edges) ==
  LET to(i) == DeriveStatus(rows[i], OpenBlockersOf(edges, OpenIdsOf(rows), i), card[i])
      moved == {i \in DOMAIN rows \cap Issue : card[i] # Null /\ to(i) # card[i]}
  IN  [i \in moved |-> to(i)]

\* The cards to move: the derivation is not Null, and not what the live card
\* reads.  A row without a card has nothing to write to.
PlanWriteback(rows, edges) ==
  LET to(i) == DeriveStatus(rows[i], OpenBlockersOf(edges, OpenIdsOf(rows), i), card[i])
      moved == {i \in DOMAIN rows \cap Issue : card[i] # Null /\ to(i) \notin {Null, card[i]}}
  IN  [i \in moved |-> to(i)]

\* What scripts/status-drift.ts reports of a mirror.
StatusDrift(items) ==
  {i \in DOMAIN items : items[i].origin = "github" /\ items[i].closed # (items[i].status = "Done")}

-------------------------------------------------------------------------------
(* The people, and the syncs.                                              *)

CloseOrReopen(i) ==
  /\ Disturb /\ open' = [open EXCEPT ![i] = ~@]
  /\ UNCHANGED <<card, links, log, pass>>

Drag(i, s) ==
  /\ Disturb /\ s # card[i] /\ card' = [card EXCEPT ![i] = s]
  /\ UNCHANGED <<open, links, log, pass>>

Relate(g) ==
  /\ Disturb /\ g # links /\ links' = g
  /\ UNCHANGED <<open, card, log, pass>>

\* The rows of the board, with GitHub's open/close, and the relations between.
Mirrored ==
  LET ids == Hidden \cup {i \in Issue : card[i] # Null}
  IN  [items |-> [i \in ids |-> IF i \in Hidden
                                  THEN [origin |-> "dolt", status |-> "Todo", closed |-> FALSE]
                                  ELSE [origin |-> "github", status |-> card[i], closed |-> ~open[i]]],
       deps |-> Restrict(links, {p \in DOMAIN links : p[1] \in ids /\ p[2] \in ids})]

FullSync ==
  /\ ~Running /\ Publish(Mirrored)
  /\ UNCHANGED <<open, card, links, pass, trouble>>

\* The delta sync refreshes the issue's own row: closed, and Done if it is.
Refreshed(c, i) ==
  LET row == [c.items[i] EXCEPT !.closed = ~open[i], !.status = IF open[i] THEN @ ELSE "Done"]
  IN  [c EXCEPT !.items = [@ EXCEPT ![i] = row]]

DeltaSync(i) ==
  /\ Disturb /\ i \in DOMAIN log[Latest].items
  /\ Publish(Refreshed(log[Latest], i))
  /\ UNCHANGED <<open, card, links, pass>>

-------------------------------------------------------------------------------
(* The pass.                                                               *)

Dispatch ==
  /\ ~Running /\ pass' = [NoPass EXCEPT !.at = "itemsHead", !.apply = TRUE]
  /\ UNCHANGED <<open, card, links, log, trouble>>

DispatchDryRun ==
  /\ ~Running /\ Disturb /\ pass' = [NoPass EXCEPT !.at = "itemsHead"]
  /\ UNCHANGED <<open, card, links, log>>

\* Each of the two walks resolves a head of its own; without one its pages see
\* whatever main holds.
ResolveHead ==
  /\ pass.at \in {"itemsHead", "edgesHead"}
  /\ \E pin \in {0, Latest} :
       /\ IF pin = 0 THEN Disturb ELSE UNCHANGED trouble
       /\ pass' = [pass EXCEPT !.pin = pin,
                     !.of = IF pass.at = "itemsHead" THEN pin ELSE @,
                     !.at = IF pass.at = "itemsHead" THEN "items" ELSE "edges"]
  /\ UNCHANGED <<open, card, links, log>>

(* Mutant: the pages are not pinned.                                       *)
SeenUnpinned == log[Latest]

Seen == log[IF pass.pin > 0 THEN pass.pin ELSE Latest]

\* The order of the walked keys: <<later, earlier>>.
ItemOrder == {r \in Item \X Item : r[1] > r[2]}

\* Lexicographic, over the two columns of the key.
EdgeOrder ==
  {r \in (Item \X Item) \X (Item \X Item) :
     r[1][1] > r[2][1] \/ (r[1][1] = r[2][1] /\ r[1][2] > r[2][2])}

\* The page behind everything read so far.
PageOf(table, read, order) ==
  LET rest == {x \in DOMAIN table : \A y \in DOMAIN read : <<x, y>> \in order}
  IN  Restrict(table, {x \in rest : Cardinality({y \in rest : <<x, y>> \in order}) < PAGE_ROWS})

Merge(f, g) == [x \in DOMAIN f \cup DOMAIN g |-> IF x \in DOMAIN g THEN g[x] ELSE f[x]]

\* A short page ends the walk.
ReadItems ==
  /\ pass.at = "items"
  /\ LET page == PageOf(Seen.items, pass.rows, ItemOrder)
     IN  pass' = [pass EXCEPT !.rows = Merge(@, page),
                    !.at = IF Cardinality(DOMAIN page) < PAGE_ROWS THEN "edgesHead" ELSE @]
  /\ UNCHANGED <<open, card, links, log, trouble>>

ReadEdges ==
  /\ pass.at = "edges"
  /\ LET page == PageOf(Seen.deps, pass.edges, EdgeOrder)
     IN  pass' = [pass EXCEPT !.edges = Merge(@, page),
                    !.at = IF Cardinality(DOMAIN page) < PAGE_ROWS THEN "board" ELSE @]
  /\ UNCHANGED <<open, card, links, log, trouble>>

\* The live board is read, and the plan made from what was read.
Plan ==
  /\ pass.at = "board"
  /\ LET todo == PlanWriteback(pass.rows, pass.edges)
     IN  IF pass.apply /\ DOMAIN todo # {}
           THEN pass' = [pass EXCEPT !.at = "writing", !.todo = todo] /\ UNCHANGED log
           ELSE Stops
  /\ UNCHANGED <<open, card, links, trouble>>

\* One mutation.  One that fails is passed over, and so is a card that has gone.
Write(i) ==
  /\ pass.at = "writing" /\ i \in DOMAIN pass.todo
  /\ \/ /\ card[i] # Null /\ card' = [card EXCEPT ![i] = pass.todo[i]]
        /\ UNCHANGED trouble
     \/ card[i] = Null /\ UNCHANGED <<card, trouble>>
     \/ Disturb /\ UNCHANGED card
  /\ IF DOMAIN pass.todo = {i} THEN Stops
     ELSE pass' = [pass EXCEPT !.todo = Restrict(@, DOMAIN @ \ {i})] /\ UNCHANGED log
  /\ UNCHANGED <<open, links>>

\* A read that fails, or a runner that dies: the cards that moved stay moved.
PassFails ==
  /\ Running /\ Disturb /\ Stops
  /\ UNCHANGED <<open, card, links>>

-------------------------------------------------------------------------------
Init ==
  /\ open = [i \in Issue |-> TRUE] /\ card = [i \in Issue |-> "Todo"] /\ links \in Graphs
  /\ log = <<Mirrored>> /\ pass = NoPass /\ trouble = 0

PassProgress == ResolveHead \/ ReadItems \/ ReadEdges \/ Plan \/ \E i \in Issue : Write(i)

Next ==
  \/ \E i \in Issue : \/ CloseOrReopen(i) \/ DeltaSync(i)
                      \/ \E s \in Status \cup {Null} : Drag(i, s)
  \/ \E g \in Graphs : Relate(g)
  \/ FullSync \/ Dispatch \/ DispatchDryRun \/ PassProgress \/ PassFails

\* A pass that runs goes on.  The full sync is scheduled for ever, and somebody
\* dispatches the pass again and again; runs of one group take turns.
Spec == Init /\ [][Next]_vars /\ WF_vars(PassProgress) /\ SF_vars(FullSync) /\ SF_vars(Dispatch)

-------------------------------------------------------------------------------
(* Properties.                                                             *)

\* What the card of an issue should read, by the three authorities: GitHub for
\* Done, open gating dependencies for Blocked, and otherwise whoever works on it.
Rightful(i) ==
  LET waits == \E p \in DOMAIN links :
                 /\ p[1] = i /\ links[p] # "closes"
                 /\ p[2] \in Hidden \/ (card[p[2]] # Null /\ open[p[2]])
  IN  IF ~open[i] THEN {"Done"} ELSE IF waits THEN {"Blocked"} ELSE {"Todo", "In Progress"}

\* Although the pass reads items and edges in two walks, each at a head of its
\* own, what it plans is what one commit of the mirror says -- the one the items
\* are of -- about every card, and an In Progress it cannot verify stays
\* (status-writeback.ts): no sync that touches edges can land in between, and no
\* page boundary drops a row.  Without a pin for the items nothing is promised.
PlanIsOneBoard ==
  [][pass.at = "board" /\ pass'.at = "writing" /\ pass.of > 0 =>
       LET c == log[pass.of]
           live(j) == j \in DOMAIN c.items /\ ~c.items[j].closed /\ c.items[j].status # "Done"
           waits(i) == \E p \in DOMAIN c.deps : p[1] = i /\ c.deps[p] # "closes" /\ live(p[2])
           right(i) == IF c.items[i].closed THEN {"Done"} ELSE IF waits(i) THEN {"Blocked"}
                       ELSE {"Todo", "In Progress"}
       IN  \A i \in Issue \cap DOMAIN c.items :
             card[i] # Null =>
               IF card[i] \in right(i) THEN i \notin DOMAIN pass'.todo
               ELSE i \in DOMAIN pass'.todo /\ pass'.todo[i] \in right(i) \ {"In Progress"}]_vars

\* Once people rest, the cards come to read what they should and stay so --
\* passes and syncs, each reading what the other wrote, do not oscillate
\* (writeback.ts openIdsOf) -- and the drift report falls silent.
CardsConverge ==
  <>[](/\ \A i \in Issue : card[i] # Null => card[i] \in Rightful(i)
       /\ StatusDrift(log[Latest].items) = {})
===============================================================================

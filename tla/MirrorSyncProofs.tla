--------------------------- MODULE MirrorSyncProofs ---------------------------
(***************************************************************************)
(* What the syncs keep, for any board, any set of links and any number of  *)
(* changes, deltas and failures: the published mirror is well formed, its  *)
(* dependency graph has no short cycle, its efforts are ours, and hidden   *)
(* work leaves it only for an issue.                                       *)
(*                                                                         *)
(* A publication replaces the whole mirror by a clone, so each of these is *)
(* carried by a fact about the clones: what a run has changed since the    *)
(* commit it was cloned from, or was last merged with.                     *)
(***************************************************************************)
EXTENDS MirrorSync, FiniteSetTheorems, TLAPS

Items == [Issue \cup Hidden -> Row \cup {Null}]
Type == {"blocks", "parent-child", "closes"}

\* The hidden rows of some tables are Dolt-born, so no pull deletes them.
DoltBorn(t) == \A h \in Hidden : t.items[h] # Null => t.items[h].origin = "dolt"

\* An effort that a run would change is one an author declared.
Ours(r) ==
  \A i \in Issue : /\ r.base.items[i] # Null /\ r.db.items[i] # Null
                   /\ r.db.items[i].effort # r.base.items[i].effort
                   => r.db.items[i].effort \in Declared

\* A placeholder that a run would delete has its issue.
Kept(r, issued) ==
  \A h \in Hidden : r.base.items[h] # Null /\ r.db.items[h] = Null => h \in issued

\* What holds of a run's clone.
Sound(r, issued) ==
  r.at # "idle" => /\ DoltBorn(r.db) /\ DoltBorn(r.base) /\ Ours(r) /\ Kept(r, issued)
                   /\ r.at = "push" => r.tries # 0

\* What holds of the full sync's clone at its stages: until the pull it has
\* every board item of its commit, and what it pushes has passed the check.
Staged(r) ==
  /\ r.at \in {"capture", "fields", "pull"} =>
       \A i \in Issue : r.db.items[i] = Null => r.base.items[i] = Null
  /\ r.at = "fields" => r.todo \subseteq Present(r.db)
  /\ r.at = "push" => NoCycleFound(DOMAIN r.db.deps)

\* A delta leaves the dependencies as it found them.
Untangled(r) == r.at # "idle" => NoCycleFound(DOMAIN r.db.deps)

\* What is published passed the shape check.
RemoteIsChecked == NoCycleFound(DOMAIN remote.deps)

IInv ==
  /\ TypeOK
  /\ DoltBorn(remote) /\ RemoteIsChecked
  /\ Sound(full, captured) /\ Staged(full)
  /\ Sound(delta, captured) /\ Untangled(delta)
-------------------------------------------------------------------------------
(* Rows and tables.                                                        *)

\* The updates the syncs make to a row leave a row.
LEMMA RowUpdate ==
  ASSUME NEW row \in Row
  PROVE  /\ \A s \in Status : /\ [row EXCEPT !.status = s] \in Row
                              /\ [row EXCEPT !.status = s].effort = row.effort
                              /\ [row EXCEPT !.status = s].origin = row.origin
         /\ \A s \in {"synced", "dolt-dirty", "hidden"} :
              /\ [row EXCEPT !.sync = s] \in Row
              /\ [row EXCEPT !.sync = s].effort = row.effort
              /\ [row EXCEPT !.sync = s].origin = row.origin
         /\ \A e \in Effort, s \in {"synced", "dolt-dirty", "hidden"} :
              /\ [row EXCEPT !.effort = e, !.sync = s] \in Row
              /\ [row EXCEPT !.effort = e, !.sync = s].effort = e
              /\ [row EXCEPT !.effort = e, !.sync = s].origin = row.origin
         /\ \A c \in BOOLEAN, e \in Effort :
              /\ [row EXCEPT !.closed = c, !.effort = e] \in Row
              /\ [row EXCEPT !.closed = c, !.effort = e].effort = e
              /\ [row EXCEPT !.closed = c, !.effort = e].origin = row.origin
         /\ \A s \in Status, c \in BOOLEAN :
              /\ [row EXCEPT !.status = s, !.closed = c] \in Row
              /\ [row EXCEPT !.status = s, !.closed = c].effort = row.effort
              /\ [row EXCEPT !.status = s, !.closed = c].origin = row.origin
         /\ row.status \in Status /\ row.effort \in Effort
BY DEF Row

\* A row is not the absence of one.
LEMMA RowIsThere == \A row \in Row : row # Null
BY SyncAssumption

\* Merging two versions of a row over a common one gives a row, whose origin
\* and effort are one of theirs.
LEMMA MergedFields ==
  ASSUME NEW b \in Row, NEW o \in Row, NEW t \in Row
  PROVE  /\ MergeRow(b, o, t) \in Row
         /\ MergeRow(b, o, t).origin = Merge3(b.origin, o.origin, t.origin)
         /\ MergeRow(b, o, t).effort = Merge3(b.effort, o.effort, t.effort)
<1>1. MergeRow(b, o, t) = [f \in DOMAIN b |-> Merge3(b[f], o[f], t[f])]
  BY RowIsThere DEF MergeRow
<1>2. DOMAIN b = {"origin", "status", "closed", "effort", "sync"}
  BY DEF Row
<1>3. /\ Merge3(b.origin, o.origin, t.origin) \in {"github", "dolt"}
      /\ Merge3(b.status, o.status, t.status) \in Status
      /\ Merge3(b.closed, o.closed, t.closed) \in BOOLEAN
      /\ Merge3(b.effort, o.effort, t.effort) \in Effort
      /\ Merge3(b.sync, o.sync, t.sync) \in {"synced", "dolt-dirty", "hidden"}
  BY DEF Row, Merge3
<1>4. [f \in DOMAIN b |-> Merge3(b[f], o[f], t[f])] \in Row
  BY <1>2, <1>3 DEF Row
<1>5. MergeRow(b, o, t) \in Row
  BY <1>1, <1>4
<1> QED
  BY <1>1, <1>2, <1>5

\* Merging tables row by row: where no row clashes, what the result changes of
\* theirs is what ours changed of the base.
LEMMA MergedRow ==
  ASSUME NEW b \in Row \cup {Null}, NEW o \in Row \cup {Null}, NEW t \in Row \cup {Null},
         ~RowClash(b, o, t)
  PROVE  /\ MergeRow(b, o, t) \in Row \cup {Null}
         /\ t # Null /\ MergeRow(b, o, t) = Null => b # Null /\ o = Null
         /\ /\ t # Null /\ MergeRow(b, o, t) # Null
            /\ MergeRow(b, o, t).effort # t.effort
            => b # Null /\ o # Null /\ o.effort # b.effort /\ MergeRow(b, o, t).effort = o.effort
         /\ /\ b # Null => b.origin = "dolt"
            /\ o # Null => o.origin = "dolt"
            /\ t # Null => t.origin = "dolt"
            => (MergeRow(b, o, t) # Null => MergeRow(b, o, t).origin = "dolt")
<1>1. CASE Null \in {b, o, t}
  <2>1. MergeRow(b, o, t) = Merge3(b, o, t) /\ ~Clash(b, o, t)
    BY <1>1 DEF MergeRow, RowClash
  <2> QED
    BY <2>1, <1>1 DEF Merge3, Clash
<1>2. CASE Null \notin {b, o, t}
  <2>1. b \in Row /\ o \in Row /\ t \in Row
    BY <1>2
  <2>2. MergeRow(b, o, t) \in Row /\ MergeRow(b, o, t) # Null
    BY <2>1, MergedFields, RowIsThere
  <2>3. /\ MergeRow(b, o, t).origin = Merge3(b.origin, o.origin, t.origin)
        /\ MergeRow(b, o, t).effort = Merge3(b.effort, o.effort, t.effort)
    BY <2>1, MergedFields
  <2> QED
    BY <1>2, <2>1, <2>2, <2>3 DEF Merge3
<1> QED
  BY <1>1, <1>2

\* Edges: what the tables' dependencies are, with their finite domain.
IsDeps(d) == IsFiniteSet(DOMAIN d) /\ DOMAIN d \subseteq Pair /\ Range(d) \subseteq Type

LEMMA PairsAreFinite ==
  ASSUME NEW S, S \subseteq Pair
  PROVE  IsFiniteSet(S)
BY SyncAssumption, FS_Product, FS_Subset DEF Pair

LEMMA LinkPairs ==
  ASSUME NEW ls, ls \subseteq Link
  PROVE  PairsOf(ls) \subseteq Pair
<1> SUFFICES ASSUME NEW l \in ls PROVE <<l.src, l.dst>> \in Pair
  BY DEF PairsOf
<1>1. l \in [src : Issue, dst : Issue, type : Type, via : {"field", "body"}]
  BY SyncAssumption DEF Type
<1> QED
  BY <1>1 DEF Pair

LEMMA InsertedDeps ==
  ASSUME NEW d, NEW e, IsDeps(d), IsDeps(e)
  PROVE  IsDeps(InsertIgnore(d, e))
<1>1. DOMAIN InsertIgnore(d, e) = DOMAIN d \cup DOMAIN e
  BY DEF InsertIgnore
<1>2. \A p \in DOMAIN d : d[p] \in Type
  BY DEF IsDeps, Range
<1>3. \A p \in DOMAIN e : e[p] \in Type
  BY DEF IsDeps, Range
<1>4. \A p \in DOMAIN d \cup DOMAIN e : InsertIgnore(d, e)[p] \in Type
  BY <1>2, <1>3 DEF InsertIgnore
<1>5. DOMAIN InsertIgnore(d, e) \subseteq Pair
  BY <1>1 DEF IsDeps
<1> QED
  BY <1>1, <1>4, <1>5, PairsAreFinite DEF IsDeps, Range

LEMMA DroppedDeps ==
  ASSUME NEW d, NEW types, IsDeps(d)
  PROVE  IsDeps(Without(d, types))
<1>1. /\ DOMAIN Without(d, types) \subseteq DOMAIN d
      /\ \A p \in DOMAIN Without(d, types) : Without(d, types)[p] = d[p]
  BY DEF Without, Restrict
<1>2. \A p \in DOMAIN d : d[p] \in Type
  BY DEF IsDeps, Range
<1>3. DOMAIN Without(d, types) \subseteq Pair
  BY <1>1 DEF IsDeps
<1> QED
  BY <1>1, <1>2, <1>3, PairsAreFinite DEF IsDeps, Range

\* The edges of the Depends-on text, and the mined ones, are edges.
LEMMA ReadDeps ==
  ASSUME TypeOK, NEW ids
  PROVE  IsDeps(FieldBlocks(ids)) /\ \A read : \A m \in Mined(ids, read) : IsDeps(m)
<1>1. links \subseteq Link
  BY DEF TypeOK
<1>2. IsDeps(FieldBlocks(ids))
  <2> DEFINE P == PairsOf({l \in links : l.via = "field" /\ {l.src, l.dst} \subseteq ids})
  <2>1. P \subseteq Pair
    BY <1>1, LinkPairs
  <2>2. DOMAIN FieldBlocks(ids) = P /\ Range(FieldBlocks(ids)) \subseteq Type
    BY DEF FieldBlocks, Range, Type
  <2> QED
    BY <2>1, <2>2, PairsAreFinite DEF IsDeps
<1>3. ASSUME NEW read, NEW m \in Mined(ids, read) PROVE IsDeps(m)
  <2> DEFINE found == {l \in links : /\ l.via = "body" /\ {l.src, l.dst} \subseteq ids
                                     /\ ShownBy(l) \in read}
  <2>1. PairsOf(found) \subseteq Pair
    BY <1>1, LinkPairs
  <2>2. m \in [PairsOf(found) -> Type]
    BY <1>3 DEF Mined, Type
  <2> HIDE DEF found
  <2>3. DOMAIN m \subseteq Pair /\ Range(m) \subseteq Type
    BY <2>1, <2>2 DEF Range
  <2> QED
    BY <2>3, PairsAreFinite DEF IsDeps
<1> QED
  BY <1>2, <1>3

\* The refresh by the board keeps the efforts of what is known and the hidden rows.
LEMMA UpsertKeeps ==
  ASSUME NEW items \in Items, NEW D \in SUBSET Issue, NEW board \in [D -> Row]
  PROVE  /\ Upsert(items, board) \in Items
         /\ \A i \in Issue : items[i] # Null /\ Upsert(items, board)[i] # Null
                             => Upsert(items, board)[i].effort = items[i].effort
         /\ \A h \in Hidden : (items[h] # Null => items[h].origin = "dolt")
                              => Upsert(items, board)[h] = items[h]
<1> DEFINE new == Upsert(items, board)
<1>1. ASSUME NEW i \in Issue \cup Hidden
      PROVE  /\ i \in D /\ items[i] # Null => new[i] = [items[i] EXCEPT !.status = board[i].status]
             /\ i \in D /\ items[i] = Null => new[i] = board[i]
             /\ i \notin D /\ items[i] # Null /\ items[i].origin = "github" => new[i] = Null
             /\ i \notin D /\ ~(items[i] # Null /\ items[i].origin = "github") => new[i] = items[i]
  BY DEF Upsert, Items
<1>2. DOMAIN new = Issue \cup Hidden /\ new = [i \in Issue \cup Hidden |-> new[i]]
  BY DEF Upsert, Items
<1> HIDE DEF new
<1>3. ASSUME NEW i \in Issue \cup Hidden
      PROVE  /\ new[i] \in Row \cup {Null}
             /\ items[i] # Null /\ new[i] # Null => new[i].effort = items[i].effort
  <2>1. CASE i \in D /\ items[i] # Null
    <3>1. items[i] \in Row /\ board[i] \in Row
      BY <2>1 DEF Items
    <3>2. new[i] = [items[i] EXCEPT !.status = board[i].status]
      BY <1>1, <2>1
    <3> QED
      BY <3>1, <3>2 DEF Row
  <2>2. CASE i \in D /\ items[i] = Null
    BY <1>1, <2>2
  <2>3. CASE i \notin D
    BY <1>1, <2>3 DEF Items
  <2> QED
    BY <2>1, <2>2, <2>3
<1>4. new \in Items
  BY <1>2, <1>3 DEF Items
<1>5. ASSUME NEW h \in Hidden, items[h] # Null => items[h].origin = "dolt"
      PROVE  new[h] = items[h]
  <2>1. h \notin D
    BY SyncAssumption
  <2> QED
    BY <1>1, <1>5, <2>1
<1> QED
  BY <1>3, <1>4, <1>5 DEF new

\* The content of the issues: an effort changes only to a declared one.
LEMMA ContentKeeps ==
  ASSUME TypeOK, NEW items \in Items, NEW read \in SUBSET Issue
  PROVE  /\ ApplyContentMeta(items, read) \in Items
         /\ \A i \in Issue :
              /\ items[i] = Null <=> ApplyContentMeta(items, read)[i] = Null
              /\ items[i] # Null => \/ ApplyContentMeta(items, read)[i].effort = items[i].effort
                                    \/ ApplyContentMeta(items, read)[i].effort \in Declared
         /\ \A h \in Hidden : ApplyContentMeta(items, read)[h] = items[h]
<1> DEFINE new == ApplyContentMeta(items, read)
           effort(i) == IF ParseFrontMatter(i) = Null THEN items[i].effort ELSE ParseFrontMatter(i)
<1>1. ASSUME NEW i \in Issue \cup Hidden
      PROVE  IF i \in read /\ items[i] # Null
               THEN new[i] = [items[i] EXCEPT !.closed = ClosedAt(i), !.effort = effort(i)]
               ELSE new[i] = items[i]
  BY DEF ApplyContentMeta, Items
<1>2. new = [i \in Issue \cup Hidden |-> new[i]]
  BY DEF ApplyContentMeta, Items
<1> HIDE DEF new
<1>3. ASSUME NEW i \in read, items[i] # Null
      PROVE  /\ new[i] \in Row /\ new[i] # Null
             /\ new[i].effort = items[i].effort \/ new[i].effort \in Declared
  <2>1. items[i] \in Row
    BY <1>3 DEF Items
  <2>2. ClosedAt(i) \in BOOLEAN
    BY DEF ClosedAt
  <2>3. effort(i) = items[i].effort \/ effort(i) \in Declared
    BY DEF ParseFrontMatter
  <2>4. effort(i) \in Effort
    BY <2>1, <2>3, RowUpdate DEF Effort
  <2> HIDE DEF effort
  <2>5. new[i] = [items[i] EXCEPT !.closed = ClosedAt(i), !.effort = effort(i)]
    BY <1>1, <1>3
  <2>6. new[i] \in Row /\ new[i].effort = effort(i)
    BY <2>1, <2>2, <2>4, <2>5 DEF Row
  <2> QED
    BY <2>3, <2>6, RowIsThere
<1>4. ASSUME NEW i \in Issue \cup Hidden, ~(i \in read /\ items[i] # Null)
      PROVE  new[i] = items[i] /\ new[i] \in Row \cup {Null}
  BY <1>1, <1>4 DEF Items
<1>5. new \in Items
  BY <1>2, <1>3, <1>4 DEF Items
<1>6. \A h \in Hidden : h \notin Issue
  BY SyncAssumption
<1> QED
  BY <1>3, <1>4, <1>5, <1>6 DEF new

\* What the delta refreshes: neither an effort, nor which rows there are.
LEMMA SearchKeeps ==
  ASSUME NEW items \in Items, NEW results \in SUBSET Issue,
         NEW new, new = [i \in DOMAIN items |-> IF i \in results /\ items[i] # Null
                                                  THEN DeltaRow(i, items[i]) ELSE items[i]]
  PROVE  /\ new \in Items
         /\ \A i \in Issue \cup Hidden :
              /\ items[i] = Null <=> new[i] = Null
              /\ items[i] # Null => new[i].effort = items[i].effort /\ new[i].origin = items[i].origin
<1>1. ASSUME NEW i \in Issue \cup Hidden, i \in results, items[i] # Null
      PROVE  /\ new[i] \in Row /\ new[i] # Null
             /\ new[i].effort = items[i].effort /\ new[i].origin = items[i].origin
  <2>1. items[i] \in Row
    BY <1>1 DEF Items
  <2>2. PICK s \in Status, c \in BOOLEAN : new[i] = [items[i] EXCEPT !.status = s, !.closed = c]
    <3>1. items[i].status \in Status /\ "Done" \in Status
      BY <2>1, RowUpdate DEF Status
    <3>2. new[i] = [items[i] EXCEPT !.status = IF github[i].open THEN items[i].status ELSE "Done",
                                    !.closed = ClosedAt(i)]
      BY <1>1 DEF DeltaRow, Items
    <3>3. ClosedAt(i) \in BOOLEAN
      BY DEF ClosedAt
    <3> QED
      BY <3>1, <3>2, <3>3
  <2>3. /\ new[i] \in Row
        /\ new[i].effort = items[i].effort /\ new[i].origin = items[i].origin
    <3>1. PICK old : old = items[i]
      OBVIOUS
    <3>2. PICK fresh : fresh = new[i]
      OBVIOUS
    <3>3. old \in Row /\ fresh = [old EXCEPT !.status = s, !.closed = c]
      BY <2>1, <2>2, <3>1, <3>2
    <3>4. fresh \in Row /\ fresh.effort = old.effort /\ fresh.origin = old.origin
      <4>1. fresh \in Row
        BY ONLY <3>3, s \in Status, c \in BOOLEAN DEF Row
      <4>2. fresh.effort = old.effort /\ fresh.origin = old.origin
        BY ONLY <3>3 DEF Row
      <4> QED
        BY <4>1, <4>2
    <3> QED
      BY <3>1, <3>2, <3>4
  <2> QED
    BY <2>3, RowIsThere
<1>2. ASSUME NEW i \in Issue \cup Hidden, ~(i \in results /\ items[i] # Null)
      PROVE  new[i] = items[i] /\ new[i] \in Row \cup {Null}
  BY <1>2 DEF Items
<1>3. new \in Items
  BY <1>1, <1>2 DEF Items
<1> QED
  BY <1>1, <1>2, <1>3

\* Whatever the cheap query answers, the board read is rows of board items.
LEMMA BoardIsRows ==
  ASSUME TypeOK,
         NEW legacy, legacy = [i \in {j \in Issue : github[j].onBoard} |-> BoardRow(i, github[i].card)],
         NEW cheap \in CheapAnswers(legacy)
  PROVE  \E D \in SUBSET Issue : FetchBoardItems(cheap, legacy) \in [D -> Row]
<1> DEFINE D == {j \in Issue : github[j].onBoard}
           statusless == [i \in DOMAIN legacy |-> [legacy[i] EXCEPT !.status = "Todo"]]
<1>1. ASSUME NEW i \in D PROVE legacy[i] \in Row
  <2>1. github[i].card \in Status /\ github[i].field \in Effort
    BY DEF TypeOK
  <2>2. legacy[i] = BoardRow(i, github[i].card)
    OBVIOUS
  <2> QED
    BY <2>1, <2>2 DEF BoardRow, Row
<1>2. legacy \in [D -> Row]
  BY <1>1
<1>3. statusless \in [D -> Row]
  <2>1. \A i \in D : [legacy[i] EXCEPT !.status = "Todo"] \in Row
    BY <1>1, RowUpdate DEF Status
  <2> QED
    BY <1>2, <2>1
<1>4. FetchBoardItems(cheap, legacy) \in {legacy, statusless}
  <2>1. cheap.usable => cheap.rows \in {legacy, statusless}
    <3>1. \/ cheap = [usable |-> TRUE, noStatus |-> FALSE, rows |-> legacy]
          \/ cheap = [usable |-> TRUE, noStatus |-> TRUE, rows |-> statusless]
          \/ cheap = [usable |-> FALSE, noStatus |-> TRUE, rows |-> <<>>]
      BY Zenon DEF CheapAnswers
    <3> HIDE DEF D, statusless
    <3> QED
      BY <3>1
  <2> HIDE DEF D, statusless
  <2> QED
    BY <2>1 DEF FetchBoardItems
<1> QED
  BY <1>2, <1>3, <1>4

-------------------------------------------------------------------------------
(* Runs.                                                                   *)

LEMMA RunFields ==
  /\ DOMAIN NoRun = {"at", "db", "base", "ids", "todo", "overtaken", "tries"}
  /\ NoRun.at = "idle"
BY DEF NoRun

LEMMA TableFields ==
  ASSUME NEW t
  PROVE  IsTables(t) <=> DOMAIN t = {"items", "deps"} /\ t.items \in Items /\ IsDeps(t.deps)
BY DEF IsTables, Items, IsDeps, Type

LEMMA MadeTables ==
  ASSUME NEW items \in Items, NEW deps, IsDeps(deps)
  PROVE  IsTables([items |-> items, deps |-> deps])
BY DEF IsTables, Items, IsDeps, Type

\* A run that has failed, or was never started, holds nothing.
LEMMA NoRunIsSound ==
  ASSUME NEW issued
  PROVE  IsRun(NoRun) /\ Sound(NoRun, issued) /\ Staged(NoRun) /\ Untangled(NoRun)
<1>1. IsRun(NoRun)
  BY SyncAssumption DEF IsRun, NoRun
<1> QED
  BY <1>1, RunFields DEF Sound, Staged, Untangled

\* Issues only become more.
LEMMA MoreIssued ==
  ASSUME NEW r, NEW issued, NEW more, issued \subseteq more, Sound(r, issued)
  PROVE  Sound(r, more)
BY DEF Sound, Kept

\* A sync that landed meanwhile changes nothing of what a run holds.
LEMMA OvertakeKeeps ==
  ASSUME NEW r, NEW issued, IsRun(r)
  PROVE  /\ IsRun(Overtake(r))
         /\ Sound(r, issued) => Sound(Overtake(r), issued)
         /\ Staged(r) => Staged(Overtake(r))
         /\ Untangled(r) => Untangled(Overtake(r))
<1>1. CASE r.at = "idle"
  BY <1>1 DEF Overtake
<1>2. CASE r.at # "idle"
  <2>1. PICK q : q = Overtake(r)
    OBVIOUS
  <2>2. q = [r EXCEPT !.overtaken = TRUE]
    BY <1>2, <2>1 DEF Overtake
  <2>3. DOMAIN r = {"at", "db", "base", "ids", "todo", "overtaken", "tries"}
    BY RunFields DEF IsRun
  <2>4. /\ q.at = r.at /\ q.db = r.db /\ q.base = r.base /\ q.ids = r.ids /\ q.todo = r.todo
        /\ q.tries = r.tries /\ q.overtaken = TRUE /\ DOMAIN q = DOMAIN r
    BY <2>2, <2>3
  <2>5. IsRun(q)
    BY <1>2, <2>4 DEF IsRun
  <2>6. Sound(r, issued) => Sound(q, issued)
    BY <2>4 DEF Sound, Ours, Kept
  <2>7. (Staged(r) => Staged(q)) /\ (Untangled(r) => Untangled(q))
    BY <2>4 DEF Staged, Untangled
  <2> QED
    BY <2>1, <2>5, <2>6, <2>7
<1> QED
  BY <1>1, <1>2

\* A new clone is what was published.
LEMMA CloneIsSound ==
  ASSUME NEW issued, NEW r, DOMAIN r = DOMAIN NoRun,
         IsTables(r.db), DoltBorn(r.db), NoCycleFound(DOMAIN r.db.deps), r.base = r.db,
         r.at \in {"capture", "search"}, r.ids = {}, r.todo \subseteq Issue \cup Hidden,
         r.overtaken = FALSE, r.tries = 0
  PROVE  IsRun(r) /\ Sound(r, issued) /\ Staged(r) /\ Untangled(r)
<1>2. IsRun(r)
  <2>1. 0 \in 0..PushAttempts
    BY SyncAssumption
  <2>2. r.at # "idle" /\ IsTables(r.db) /\ IsTables(r.base)
    OBVIOUS
  <2> QED
    BY <2>1, <2>2 DEF IsRun
<1>3. Sound(r, issued)
  BY DEF Sound, Ours, Kept
<1>4. Staged(r) /\ Untangled(r)
  BY DEF Staged, Untangled
<1> QED
  BY <1>2, <1>3, <1>4

\* A run that pushes on after a merge is as sound as it was.
LEMMA RetryKeeps ==
  ASSUME IsTables(remote), DoltBorn(remote), RemoteIsChecked,
         NEW r, IsRun(r), r.at = "push", NEW issued, Sound(r, issued),
         NoCycleFound(DOMAIN r.db.deps), NEW q, q = Retried(r)
  PROVE  IsRun(q) /\ Sound(q, issued) /\ Staged(q) /\ Untangled(q)
<1>1. CASE q = NoRun
  BY <1>1, NoRunIsSound
<1>2. CASE q # NoRun
  <2>1. r.tries # 1 /\ ~Conflicts(r)
    BY <1>2 DEF Retried
  <2>2. q = [r EXCEPT !.db = Merged(r), !.base = remote, !.tries = r.tries - 1]
    BY <2>1 DEF Retried
  <2>3. DOMAIN r = {"at", "db", "base", "ids", "todo", "overtaken", "tries"}
    BY RunFields DEF IsRun
  <2>4. /\ q.at = "push" /\ q.db = Merged(r) /\ q.base = remote /\ q.ids = r.ids
        /\ q.todo = r.todo /\ q.overtaken = r.overtaken /\ q.tries = r.tries - 1
        /\ DOMAIN q = DOMAIN r
    BY <2>2, <2>3
  <2>5. /\ IsTables(r.db) /\ IsTables(r.base) /\ r.tries \in 0..PushAttempts /\ r.tries # 0
        /\ DoltBorn(r.db) /\ DoltBorn(r.base) /\ Ours(r) /\ Kept(r, issued)
    BY DEF IsRun, Sound
  <2>6. r.db.items \in Items /\ r.base.items \in Items /\ remote.items \in Items
    BY <2>5, TableFields
  <2>7. PICK items : items = Merged(r).items
    OBVIOUS
  <2>8. items = [i \in Issue \cup Hidden |->
                   MergeRow(r.base.items[i], r.db.items[i], remote.items[i])]
    BY <2>6, <2>7 DEF Merged, Items
  <2>9. ASSUME NEW i \in Issue \cup Hidden
        PROVE  /\ items[i] \in Row \cup {Null}
               /\ remote.items[i] # Null /\ items[i] = Null
                    => r.base.items[i] # Null /\ r.db.items[i] = Null
               /\ /\ remote.items[i] # Null /\ items[i] # Null
                  /\ items[i].effort # remote.items[i].effort
                  => /\ r.base.items[i] # Null /\ r.db.items[i] # Null
                     /\ r.db.items[i].effort # r.base.items[i].effort
                     /\ items[i].effort = r.db.items[i].effort
               /\ /\ r.base.items[i] # Null => r.base.items[i].origin = "dolt"
                  /\ r.db.items[i] # Null => r.db.items[i].origin = "dolt"
                  /\ remote.items[i] # Null => remote.items[i].origin = "dolt"
                  => (items[i] # Null => items[i].origin = "dolt")
    <3>1. ~RowClash(r.base.items[i], r.db.items[i], remote.items[i])
      BY <2>1, <2>6 DEF Conflicts, Items
    <3>2. /\ r.base.items[i] \in Row \cup {Null} /\ r.db.items[i] \in Row \cup {Null}
          /\ remote.items[i] \in Row \cup {Null}
      BY <2>6 DEF Items
    <3>3. items[i] = MergeRow(r.base.items[i], r.db.items[i], remote.items[i])
      BY <2>8
    <3> QED
      BY <3>1, <3>2, <3>3, MergedRow
  <2>10. /\ Merged(r).deps \in {r.db.deps, remote.deps}
         /\ DOMAIN Merged(r) = {"items", "deps"}
    BY DEF Merged, Merge3
  <2>11. items \in Items
    BY <2>8, <2>9 DEF Items
  <2>12. IsTables(q.db)
    BY <2>4, <2>5, <2>7, <2>10, <2>11, TableFields
  <2>13. IsRun(q)
    <3>1. q.tries \in 0..PushAttempts
      BY <2>4, <2>5, SyncAssumption
    <3> QED
      BY <2>3, <2>4, <2>12, <3>1, RunFields DEF IsRun
  <2>14. DoltBorn(q.db)
    BY <2>4, <2>5, <2>7, <2>9 DEF DoltBorn
  <2>15. Ours(q)
    <3> SUFFICES ASSUME NEW i \in Issue, remote.items[i] # Null, items[i] # Null,
                        items[i].effort # remote.items[i].effort
                 PROVE  items[i].effort \in Declared
      BY <2>4, <2>7 DEF Ours
    <3> QED
      BY <2>5, <2>9 DEF Ours
  <2>16. Kept(q, issued)
    BY <2>4, <2>5, <2>7, <2>9 DEF Kept
  <2>17. q.tries # 0
    BY <2>1, <2>4, <2>5
  <2>18. NoCycleFound(DOMAIN q.db.deps)
    BY <2>4, <2>10 DEF RemoteIsChecked
  <2> QED
    BY <2>4, <2>13, <2>14, <2>15, <2>16, <2>17, <2>18 DEF Sound, Staged, Untangled
<1> QED
  BY <1>1, <1>2

-------------------------------------------------------------------------------
(* The steps.                                                              *)

GitHubIssue == [onBoard : BOOLEAN, open : BOOLEAN, card : Status,
                field : Effort, declared : Declared \cup {Null, Malformed}]

LEMMA Disturbed ==
  ASSUME TypeOK, Disturb
  PROVE  trouble' \in 0..MaxTrouble
BY SyncAssumption DEF TypeOK, Disturb

\* What a step of the full sync that publishes nothing has to show.
LEMMA FullStep ==
  ASSUME IInv, github' \in [Issue -> GitHubIssue], captured' \subseteq Hidden,
         captured \subseteq captured', trouble' \in 0..MaxTrouble,
         UNCHANGED <<links, remote, delta>>,
         IsRun(full'), Sound(full', captured'), Staged(full')
  PROVE  IInv'
<1>1. TypeOK'
  BY DEF IInv, TypeOK, GitHubIssue
<1>2. Sound(delta, captured')
  BY MoreIssued DEF IInv
<1> QED
  BY <1>1, <1>2 DEF IInv, RemoteIsChecked

\* What a step of the delta that publishes nothing has to show.
LEMMA DeltaStep ==
  ASSUME IInv, trouble' \in 0..MaxTrouble, UNCHANGED <<github, links, captured, remote, full>>,
         IsRun(delta'), Sound(delta', captured), Untangled(delta')
  PROVE  IInv'
<1>1. TypeOK'
  BY DEF IInv, TypeOK
<1> QED
  BY <1>1 DEF IInv, RemoteIsChecked

LEMMA GitHubChangesKeeps ==
  ASSUME IInv, GitHubChanges
  PROVE  IInv'
<1>1. trouble' \in 0..MaxTrouble
  BY Disturbed DEF IInv, GitHubChanges
<1>2. github' \in [Issue -> GitHubIssue] /\ links' \subseteq Link
  <2>0. github \in [Issue -> GitHubIssue] /\ links \subseteq Link
    BY DEF IInv, TypeOK, GitHubIssue
  <2>1. ASSUME NEW i \in Issue, github' = [github EXCEPT ![i].open = ~@]
        PROVE  github' \in [Issue -> GitHubIssue]
    BY <2>0, <2>1 DEF GitHubIssue
  <2>2. ASSUME NEW i \in Issue, github' = [github EXCEPT ![i].onBoard = ~@]
        PROVE  github' \in [Issue -> GitHubIssue]
    BY <2>0, <2>2 DEF GitHubIssue
  <2>3. ASSUME NEW i \in Issue, NEW s \in Cards, github' = [github EXCEPT ![i].card = s]
        PROVE  github' \in [Issue -> GitHubIssue]
    BY <2>0, <2>3, SyncAssumption DEF GitHubIssue
  <2>4. ASSUME NEW i \in Issue, NEW e \in OutOfBand, github' = [github EXCEPT ![i].field = e]
        PROVE  github' \in [Issue -> GitHubIssue]
    BY <2>0, <2>4 DEF GitHubIssue, Effort
  <2>5. ASSUME NEW i \in Issue, NEW d \in Declared \cup {Null, Malformed},
               github' = [github EXCEPT ![i].declared = d]
        PROVE  github' \in [Issue -> GitHubIssue]
    BY <2>0, <2>5 DEF GitHubIssue
  <2>6. ASSUME NEW l \in Link, links' = IF l \in links THEN links \ {l} ELSE links \cup {l}
        PROVE  links' \subseteq Link
    BY <2>0, <2>6
  <2> QED
    BY <2>0, <2>1, <2>2, <2>3, <2>4, <2>5, <2>6 DEF GitHubChanges
<1>3. UNCHANGED <<captured, remote, full, delta>>
  BY DEF GitHubChanges
<1>4. TypeOK'
  BY <1>1, <1>2, <1>3 DEF IInv, TypeOK, GitHubIssue
<1> QED
  BY <1>3, <1>4 DEF IInv, RemoteIsChecked

\* An edit of one row of the published mirror, by any of the three commands.
LEMMA EditKeeps ==
  ASSUME IInv, Disturb, UNCHANGED <<github, links, captured, full, delta>>,
         NEW k \in Issue \cup Hidden, NEW row \in Row,
         k \in Hidden => row.origin = "dolt",
         DOMAIN remote' = DOMAIN remote, remote'.deps = remote.deps,
         remote'.items = [remote.items EXCEPT ![k] = row]
  PROVE  IInv'
<1>1. IsTables(remote)
  BY DEF IInv, TypeOK
<1>2. IsTables(remote')
  <2>1. remote'.items \in Items
    BY <1>1, TableFields DEF Items
  <2> QED
    BY <1>1, <2>1, TableFields
<1>3. DoltBorn(remote')
  BY <1>1, TableFields DEF IInv, DoltBorn, Items
<1>4. TypeOK'
  BY <1>2, Disturbed DEF IInv, TypeOK
<1> QED
  BY <1>3, <1>4 DEF IInv, RemoteIsChecked

LEMMA SetDoltFieldsKeeps ==
  ASSUME IInv, NEW k \in Issue \cup Hidden, NEW e \in Edited, SetDoltFields(k, e)
  PROVE  IInv'
<1>1. DOMAIN remote = {"items", "deps"} /\ remote.items \in Items /\ remote.items[k] # Null
  BY TableFields DEF IInv, TypeOK, SetDoltFields
<1>2. PICK old : old = remote.items[k]
  OBVIOUS
<1>3. PICK row : row = [old EXCEPT !.effort = e, !.sync = "dolt-dirty"]
  OBVIOUS
<1>4. old \in Row
  BY <1>1, <1>2 DEF Items
<1>5. row \in Row /\ row.origin = old.origin
  BY <1>3, <1>4 DEF Row, Effort
<1>6. /\ DOMAIN remote' = DOMAIN remote /\ remote'.deps = remote.deps
      /\ remote'.items = [remote.items EXCEPT ![k] = row]
  BY <1>1, <1>2, <1>3 DEF SetDoltFields
<1>7. k \in Hidden => old.origin = "dolt"
  BY <1>1, <1>2 DEF IInv, DoltBorn
<1>8. Disturb /\ UNCHANGED <<github, links, captured, full, delta>>
  BY DEF SetDoltFields
<1> QED
  BY <1>5, <1>6, <1>7, <1>8, EditKeeps

LEMMA InsertHiddenItemKeeps ==
  ASSUME IInv, NEW h \in Hidden, NEW e \in Edited, InsertHiddenItem(h, e)
  PROVE  IInv'
<1>1. DOMAIN remote = {"items", "deps"} /\ remote.items \in Items
  BY TableFields DEF IInv, TypeOK
<1>2. PICK row : row = [origin |-> "dolt", status |-> "Todo", closed |-> FALSE,
                        effort |-> e, sync |-> "hidden"]
  OBVIOUS
<1>3. row \in Row /\ row.origin = "dolt"
  BY <1>2 DEF Row, Effort, Status
<1>4. /\ DOMAIN remote' = DOMAIN remote /\ remote'.deps = remote.deps
      /\ remote'.items = [remote.items EXCEPT ![h] = row]
  BY <1>1, <1>2 DEF InsertHiddenItem
<1>5. Disturb /\ UNCHANGED <<github, links, captured, full, delta>>
  BY DEF InsertHiddenItem
<1> QED
  BY <1>3, <1>4, <1>5, EditKeeps

LEMMA CaptureHiddenKeeps ==
  ASSUME IInv, NEW h \in Hidden, CaptureHidden(h)
  PROVE  IInv'
<1>1. DOMAIN remote = {"items", "deps"} /\ remote.items \in Items
  BY TableFields DEF IInv, TypeOK
<1>2. remote.items[h] # Null /\ remote.items[h].origin = "dolt"
  BY DEF CaptureHidden, Rows, Present
<1>3. PICK old : old = remote.items[h]
  OBVIOUS
<1>4. PICK row : row = [old EXCEPT !.sync = "dolt-dirty"]
  OBVIOUS
<1>5. old \in Row
  BY <1>1, <1>2, <1>3 DEF Items
<1>6. row \in Row /\ row.origin = "dolt"
  BY <1>2, <1>3, <1>4, <1>5 DEF Row
<1>7. /\ DOMAIN remote' = DOMAIN remote /\ remote'.deps = remote.deps
      /\ remote'.items = [remote.items EXCEPT ![h] = row]
  BY <1>1, <1>3, <1>4 DEF CaptureHidden, Items
<1>8. Disturb /\ UNCHANGED <<github, links, captured, full, delta>>
  BY DEF CaptureHidden
<1> QED
  BY <1>6, <1>7, <1>8, EditKeeps

\* The full sync's run as it stands, for the steps that change part of it.
LEMMA FullRun ==
  ASSUME IInv, full.at # "idle"
  PROVE  /\ DOMAIN full = {"at", "db", "base", "ids", "todo", "overtaken", "tries"}
         /\ IsTables(full.db) /\ IsTables(full.base)
         /\ full.ids \subseteq Issue /\ full.todo \subseteq Issue \cup Hidden
         /\ full.overtaken \in BOOLEAN /\ full.tries \in 0..PushAttempts
         /\ DoltBorn(full.db) /\ DoltBorn(full.base) /\ Ours(full) /\ Kept(full, captured)
         /\ Staged(full)
BY RunFields DEF IInv, TypeOK, IsRun, Sound

LEMMA FullStopped ==
  ASSUME IInv, full' = NoRun, trouble' \in 0..MaxTrouble,
         UNCHANGED <<github, links, captured, remote, delta>>
  PROVE  IInv'
BY NoRunIsSound, FullStep DEF IInv, TypeOK, GitHubIssue

LEMMA FullCloneKeeps ==
  ASSUME IInv, FullClone
  PROVE  IInv'
<1>1. PICK r : r = [Cloned("capture") EXCEPT !.todo = Dirty(remote, "dolt")]
  OBVIOUS
<1>2. IsTables(remote) /\ DoltBorn(remote) /\ RemoteIsChecked
  BY DEF IInv, TypeOK
<1>3. Dirty(remote, "dolt") \subseteq Issue \cup Hidden
  BY <1>2, TableFields DEF Dirty, Rows, Present, Items
<1>0. /\ r.at = "capture" /\ r.db = remote /\ r.base = remote /\ r.ids = {}
      /\ r.todo = Dirty(remote, "dolt") /\ r.overtaken = FALSE /\ r.tries = 0
      /\ DOMAIN r = DOMAIN NoRun
  BY <1>1 DEF Cloned, NoRun
<1>4. IsRun(r) /\ Sound(r, captured) /\ Staged(r)
  BY <1>0, <1>2, <1>3, CloneIsSound DEF RemoteIsChecked
<1>5. full' = r /\ UNCHANGED <<github, links, captured, remote, delta, trouble>>
  BY <1>1 DEF FullClone
<1> QED
  BY <1>4, <1>5, FullStep DEF IInv, TypeOK, GitHubIssue

\* A step that only moves the run on, or gives it another list to work through.
LEMMA MovedOn ==
  ASSUME IInv, NEW at \in {"fields", "pull"}, NEW todo \in SUBSET (Issue \cup Hidden),
         full.at \in {"capture", "fields"}, at = "fields" => todo \subseteq Present(full.db),
         full'.at = at, full'.db = full.db, full'.base = full.base, full'.ids = full.ids,
         full'.todo = todo, full'.overtaken = full.overtaken, full'.tries = full.tries,
         DOMAIN full' = DOMAIN full, trouble' \in 0..MaxTrouble,
         UNCHANGED <<github, links, captured, remote, delta>>
  PROVE  IInv'
<1>1. IsRun(full')
  BY FullRun, RunFields DEF IsRun
<1>2. Sound(full', captured')
  BY FullRun DEF Sound, Ours, Kept
<1>3. Staged(full')
  BY FullRun DEF Staged
<1> QED
  BY <1>1, <1>2, <1>3, FullStep DEF IInv, TypeOK, GitHubIssue

LEMMA DirtyIsThere ==
  ASSUME NEW t, IsTables(t), NEW origin
  PROVE  Dirty(t, origin) \subseteq Present(t) /\ Present(t) \subseteq Issue \cup Hidden
BY TableFields DEF Dirty, Rows, Present, Items

LEMMA PushGatedKeeps ==
  ASSUME IInv, PushGated
  PROVE  IInv'
<1>1. /\ full.at = "capture" /\ full'.at = "pull" /\ full'.db = full.db /\ full'.base = full.base
      /\ full'.ids = full.ids /\ full'.todo = {} /\ full'.overtaken = full.overtaken
      /\ full'.tries = full.tries /\ DOMAIN full' = DOMAIN full
  BY FullRun DEF PushGated
<1>2. UNCHANGED <<github, links, captured, remote, delta>> /\ trouble' \in 0..MaxTrouble
  BY Disturbed DEF PushGated, IInv
<1> QED
  BY <1>1, <1>2, MovedOn

LEMMA ReadDirtyKeeps ==
  ASSUME IInv, ReadDirty
  PROVE  IInv'
<1>1. /\ full.at = "capture" /\ full'.at = "fields" /\ full'.db = full.db
      /\ full'.base = full.base /\ full'.ids = full.ids /\ full'.todo = Dirty(full.db, "github")
      /\ full'.overtaken = full.overtaken /\ full'.tries = full.tries /\ DOMAIN full' = DOMAIN full
  BY FullRun DEF ReadDirty
<1>2. UNCHANGED <<github, links, captured, remote, delta>> /\ trouble' \in 0..MaxTrouble
  BY DEF ReadDirty, IInv, TypeOK
<1>3. Dirty(full.db, "github") \subseteq Present(full.db) /\ Present(full.db) \subseteq Issue \cup Hidden
  BY <1>1, FullRun, DirtyIsThere
<1> QED
  BY <1>1, <1>2, <1>3, MovedOn

LEMMA PushDoneKeeps ==
  ASSUME IInv, PushDone
  PROVE  IInv'
<1>1. /\ full.at = "fields" /\ full'.at = "pull" /\ full'.db = full.db /\ full'.base = full.base
      /\ full'.ids = full.ids /\ full'.todo = {} /\ full'.overtaken = full.overtaken
      /\ full'.tries = full.tries /\ DOMAIN full' = DOMAIN full
  BY FullRun DEF PushDone
<1>2. UNCHANGED <<github, links, captured, remote, delta>> /\ trouble' \in 0..MaxTrouble
  BY DEF PushDone, IInv, TypeOK
<1> QED
  BY <1>1, <1>2, MovedOn

LEMMA CaptureKeeps ==
  ASSUME IInv, NEW h \in Hidden, Capture(h)
  PROVE  IInv'
<1>1. PICK r : r = full
  OBVIOUS
<1>2. PICK q : q = full'
  OBVIOUS
<1>3. PICK issued : issued = captured \cup {h}
  OBVIOUS
<1>4. /\ r.at = "capture" /\ q = [r EXCEPT !.db.items[h] = Null, !.todo = @ \ {h}]
      /\ captured' = issued /\ UNCHANGED <<github, links, remote, delta, trouble>>
  BY <1>1, <1>2, <1>3 DEF Capture
<1>5. /\ DOMAIN r = {"at", "db", "base", "ids", "todo", "overtaken", "tries"}
      /\ DOMAIN r.db = {"items", "deps"} /\ r.db.items \in Items /\ IsDeps(r.db.deps)
  BY <1>1, <1>4, FullRun, TableFields
<1>6. /\ q.at = "capture" /\ q.base = r.base /\ q.ids = r.ids /\ q.todo = r.todo \ {h}
      /\ q.overtaken = r.overtaken /\ q.tries = r.tries /\ DOMAIN q = DOMAIN r
      /\ q.db.items = [r.db.items EXCEPT ![h] = Null] /\ q.db.deps = r.db.deps
      /\ DOMAIN q.db = {"items", "deps"}
  BY <1>4, <1>5
<1>7. q.db.items \in Items
  BY <1>5, <1>6 DEF Items
<1>8. \A i \in Issue \cup Hidden : i # h => q.db.items[i] = r.db.items[i]
  BY <1>5, <1>6 DEF Items
<1>9. q.db.items[h] = Null
  BY <1>5, <1>6 DEF Items
<1>10. \A i \in Issue : i # h
  BY SyncAssumption
<1>11. IsTables(q.db)
  BY <1>5, <1>6, <1>7, TableFields
<1>12. IsRun(q)
  BY <1>1, <1>4, <1>6, <1>11, FullRun, RunFields DEF IsRun
<1>13. Sound(q, issued)
  <2>1. DoltBorn(q.db) /\ DoltBorn(q.base)
    BY <1>1, <1>4, <1>6, <1>8, <1>9, FullRun DEF DoltBorn
  <2>2. Ours(q)
    BY <1>1, <1>4, <1>6, <1>8, <1>10, FullRun DEF Ours
  <2>3. Kept(q, issued)
    BY <1>1, <1>3, <1>4, <1>6, <1>8, FullRun DEF Kept
  <2> QED
    BY <1>6, <2>1, <2>2, <2>3 DEF Sound
<1>14. Staged(q)
  BY <1>1, <1>4, <1>6, <1>8, <1>10, FullRun DEF Staged
<1>15. captured \subseteq issued /\ issued \subseteq Hidden
  BY <1>3 DEF IInv, TypeOK
<1> QED
  BY <1>2, <1>4, <1>12, <1>13, <1>14, <1>15, FullStep DEF IInv, TypeOK, GitHubIssue

LEMMA PushFieldKeeps ==
  ASSUME IInv, NEW i \in Issue, PushField(i)
  PROVE  IInv'
<1>0. full.at = "fields" /\ i \in full.todo /\ UNCHANGED <<links, captured, remote, delta>>
  BY DEF PushField
<1>1. CASE UNCHANGED github /\ Disturb /\ full' = [full EXCEPT !.todo = @ \ {i}]
  <2>1. /\ full'.at = "fields" /\ full'.db = full.db /\ full'.base = full.base
        /\ full'.ids = full.ids /\ full'.todo = full.todo \ {i}
        /\ full'.overtaken = full.overtaken /\ full'.tries = full.tries
        /\ DOMAIN full' = DOMAIN full
    BY <1>0, <1>1, FullRun
  <2>2. full.todo \ {i} \in SUBSET (Issue \cup Hidden) /\ full.todo \subseteq Present(full.db)
    BY <1>0, FullRun DEF Staged
  <2>3. trouble' \in 0..MaxTrouble
    BY <1>1, Disturbed DEF IInv
  <2> QED
    BY <1>0, <1>1, <2>1, <2>2, <2>3, MovedOn
<1>2. CASE /\ SetNumberField(i, full.db.items[i].effort) /\ UNCHANGED trouble
           /\ full' = [full EXCEPT !.db.items[i].sync = "synced", !.todo = @ \ {i}]
  <2>1. PICK r : r = full
    OBVIOUS
  <2>2. PICK q : q = full'
    OBVIOUS
  <2>3. /\ DOMAIN r = {"at", "db", "base", "ids", "todo", "overtaken", "tries"}
        /\ DOMAIN r.db = {"items", "deps"} /\ r.db.items \in Items /\ IsDeps(r.db.deps)
    BY <1>0, <2>1, FullRun, TableFields
  <2>4. r.db.items[i] # Null
    BY <1>0, <2>1, FullRun DEF Staged, Present
  <2>5. PICK old : old = r.db.items[i]
    OBVIOUS
  <2>6. PICK row : row = [old EXCEPT !.sync = "synced"]
    OBVIOUS
  <2>7. old \in Row
    BY <2>3, <2>4, <2>5 DEF Items
  <2>8. row \in Row /\ row.effort = old.effort /\ row.origin = old.origin /\ old.effort \in Effort
    BY <2>6, <2>7 DEF Row
  <2>9. q = [r EXCEPT !.db.items[i] = row, !.todo = r.todo \ {i}]
    BY <1>2, <2>1, <2>2, <2>3, <2>5, <2>6 DEF Items
  <2>10. /\ q.at = r.at /\ q.base = r.base /\ q.ids = r.ids /\ q.todo = r.todo \ {i}
         /\ q.overtaken = r.overtaken /\ q.tries = r.tries /\ DOMAIN q = DOMAIN r
         /\ q.db.items = [r.db.items EXCEPT ![i] = row] /\ q.db.deps = r.db.deps
         /\ DOMAIN q.db = {"items", "deps"}
    BY <2>3, <2>9
  <2>11. q.db.items \in Items
    BY <2>3, <2>8, <2>10 DEF Items
  <2>12. \A j \in Issue \cup Hidden : j # i => q.db.items[j] = r.db.items[j]
    BY <2>3, <2>10 DEF Items
  <2>13. q.db.items[i] = row /\ row # Null
    BY <2>3, <2>8, <2>10, RowIsThere DEF Items
  <2>14. IsTables(q.db)
    BY <2>3, <2>10, <2>11, TableFields
  <2>15. IsRun(q)
    BY <1>0, <2>1, <2>10, <2>14, FullRun, RunFields DEF IsRun
  <2>16. i \notin Hidden
    BY SyncAssumption
  <2>17. Sound(q, captured)
    <3>1. DoltBorn(q.db) /\ DoltBorn(q.base)
      BY <1>0, <2>1, <2>10, <2>12, <2>16, FullRun DEF DoltBorn
    <3>2. Ours(q)
      <4> SUFFICES ASSUME NEW j \in Issue, r.base.items[j] # Null, q.db.items[j] # Null,
                          q.db.items[j].effort # r.base.items[j].effort
                   PROVE  q.db.items[j].effort \in Declared
        BY <2>10 DEF Ours
      <4>1. r.db.items[j] # Null /\ r.db.items[j].effort = q.db.items[j].effort
        BY <2>4, <2>5, <2>8, <2>12, <2>13
      <4> QED
        BY <1>0, <2>1, <4>1, FullRun DEF Ours
    <3>3. Kept(q, captured)
      BY <1>0, <2>1, <2>10, <2>12, <2>16, FullRun DEF Kept
    <3> QED
      BY <1>0, <2>1, <2>10, <3>1, <3>2, <3>3 DEF Sound
  <2>18. Staged(q)
    BY <1>0, <2>1, <2>10, <2>12, <2>13, FullRun DEF Staged, Present
  <2>19. github' \in [Issue -> GitHubIssue]
    <3>1. github \in [Issue -> GitHubIssue]
      BY DEF IInv, TypeOK, GitHubIssue
    <3>2. github' = [github EXCEPT ![i].field = old.effort]
      BY <1>2, <2>1, <2>5 DEF SetNumberField
    <3> QED
      BY <2>8, <3>1, <3>2 DEF GitHubIssue
  <2> QED
    BY <1>0, <1>2, <2>2, <2>15, <2>17, <2>18, <2>19, FullStep DEF IInv, TypeOK
<1> QED
  BY <1>0, <1>1, <1>2 DEF PushField

LEMMA PullBoardKeeps ==
  ASSUME IInv, PullBoard
  PROVE  IInv'
<1>0. full.at = "pull" /\ UNCHANGED <<github, links, captured, remote, delta, trouble>>
  BY DEF PullBoard
<1>1. PICK legacy : legacy = [i \in {j \in Issue : github[j].onBoard} |-> BoardRow(i, github[i].card)]
  OBVIOUS
<1>2. PICK cheap \in CheapAnswers(legacy) :
        full' = IF Inserts(full.db, FetchBoardItems(cheap, legacy))
                  THEN [full EXCEPT !.at = "relations", !.ids = DOMAIN FetchBoardItems(cheap, legacy),
                                    !.db = UpsertItems(full.db, FetchBoardItems(cheap, legacy))]
                  ELSE NoRun
  BY <1>1, Zenon DEF PullBoard
<1>3. PICK board : board = FetchBoardItems(cheap, legacy)
  OBVIOUS
<1>4. PICK D \in SUBSET Issue : board \in [D -> Row]
  BY <1>1, <1>3, BoardIsRows DEF IInv
<1>5. CASE full' = NoRun
  BY <1>0, <1>5, FullStopped DEF IInv, TypeOK
<1>6. CASE full' = [full EXCEPT !.at = "relations", !.ids = DOMAIN board,
                                !.db = UpsertItems(full.db, board)]
  <2>1. PICK r : r = full
    OBVIOUS
  <2>2. PICK q : q = full'
    OBVIOUS
  <2>3. PICK deps : deps = InsertIgnore(Without(r.db.deps, {"blocks"}), FieldBlocks(DOMAIN board))
    OBVIOUS
  <2>4. r.db.items \in Items /\ IsDeps(r.db.deps)
    BY <1>0, <2>1, FullRun, TableFields
  <2>5. PICK items : items = Upsert(r.db.items, board)
    OBVIOUS
  <2>6. UpsertItems(r.db, board) = [items |-> items, deps |-> deps]
    BY <2>3, <2>5 DEF UpsertItems
  <2>7. /\ q.at = "relations" /\ q.db = [items |-> items, deps |-> deps] /\ q.base = r.base
        /\ q.ids = D /\ q.todo = r.todo /\ q.overtaken = r.overtaken /\ q.tries = r.tries
        /\ DOMAIN q = DOMAIN r
    BY <1>0, <1>4, <1>6, <2>1, <2>2, <2>6, FullRun
  <2>8. /\ items \in Items
        /\ \A i \in Issue : r.db.items[i] # Null /\ items[i] # Null
                            => items[i].effort = r.db.items[i].effort
        /\ \A h \in Hidden : (r.db.items[h] # Null => r.db.items[h].origin = "dolt")
                             => items[h] = r.db.items[h]
    BY <1>4, <2>4, <2>5, UpsertKeeps
  <2>9. \A h \in Hidden : items[h] = r.db.items[h]
    BY <1>0, <2>1, <2>8, FullRun DEF DoltBorn
  <2>10. IsDeps(deps)
    BY <2>3, <2>4, ReadDeps, DroppedDeps, InsertedDeps DEF IInv
  <2>11. IsTables(q.db)
    BY <2>7, <2>8, <2>10, MadeTables
  <2>12. IsRun(q)
    BY <1>0, <2>1, <2>7, <2>11, FullRun, RunFields DEF IsRun
  <2>13. Sound(q, captured)
    <3>1. DoltBorn(q.db) /\ DoltBorn(q.base)
      BY <1>0, <2>1, <2>7, <2>9, FullRun DEF DoltBorn
    <3>2. Ours(q)
      <4> SUFFICES ASSUME NEW i \in Issue, r.base.items[i] # Null, items[i] # Null,
                          items[i].effort # r.base.items[i].effort
                   PROVE  items[i].effort \in Declared
        BY <2>7 DEF Ours
      <4>1. r.db.items[i] # Null
        BY <1>0, <2>1, FullRun DEF Staged
      <4> QED
        BY <1>0, <2>1, <2>8, <4>1, FullRun DEF Ours
    <3>3. Kept(q, captured)
      BY <1>0, <2>1, <2>7, <2>9, FullRun DEF Kept
    <3> QED
      BY <2>7, <3>1, <3>2, <3>3 DEF Sound
  <2>14. Staged(q)
    BY <2>7 DEF Staged
  <2> QED
    BY <1>0, <2>2, <2>12, <2>13, <2>14, FullStep DEF IInv, TypeOK, GitHubIssue
<1> QED
  BY <1>2, <1>3, <1>5, <1>6

LEMMA PullRelationsKeeps ==
  ASSUME IInv, PullRelations
  PROVE  IInv'
<1>0. full.at = "relations" /\ UNCHANGED <<github, links, captured, remote, delta>>
  BY DEF PullRelations
<1>1. PICK read \in ContentsRead :
        /\ IF read = OnBoard THEN UNCHANGED trouble ELSE Disturb
        /\ \E mined \in Mined(full.ids, read) :
             LET db == [items |-> ApplyContentMeta(full.db.items, read),
                        deps  |-> UpsertRelationEdges(full.db.deps, mined)]
             IN  full' = IF NoCycleFound(DOMAIN db.deps)
                           THEN [full EXCEPT !.at = "push", !.db = db, !.ids = {}, !.tries = PushAttempts]
                           ELSE NoRun
  BY DEF PullRelations
<1>4. PICK db : \E mined \in Mined(full.ids, read) :
        /\ db = [items |-> ApplyContentMeta(full.db.items, read),
                 deps  |-> UpsertRelationEdges(full.db.deps, mined)]
        /\ full' = IF NoCycleFound(DOMAIN db.deps)
                     THEN [full EXCEPT !.at = "push", !.db = db, !.ids = {}, !.tries = PushAttempts]
                     ELSE NoRun
  BY <1>1
<1>5. trouble' \in 0..MaxTrouble
  BY <1>1, Disturbed DEF IInv, TypeOK
<1>6. read \in SUBSET Issue
  BY DEF ContentsRead, OnBoard
<1>2. CASE full' = NoRun
  BY <1>0, <1>2, <1>5, FullStopped
<1>3. CASE /\ full' = [full EXCEPT !.at = "push", !.db = db, !.ids = {}, !.tries = PushAttempts]
           /\ NoCycleFound(DOMAIN db.deps)
  <2>1. PICK r : r = full
    OBVIOUS
  <2>2. PICK q : q = full'
    OBVIOUS
  <2>3. /\ q.at = "push" /\ q.db = db /\ q.base = r.base /\ q.ids = {} /\ q.todo = r.todo
        /\ q.overtaken = r.overtaken /\ q.tries = PushAttempts /\ DOMAIN q = DOMAIN r
    BY <1>0, <1>3, <2>1, <2>2, FullRun
  <2>4. r.db.items \in Items /\ IsDeps(r.db.deps)
    BY <1>0, <2>1, FullRun, TableFields
  <2>5. /\ db.items \in Items
        /\ \A i \in Issue :
             /\ r.db.items[i] = Null <=> db.items[i] = Null
             /\ r.db.items[i] # Null => \/ db.items[i].effort = r.db.items[i].effort
                                        \/ db.items[i].effort \in Declared
        /\ \A h \in Hidden : db.items[h] = r.db.items[h]
    BY <1>4, <1>6, <2>1, <2>4, ContentKeeps DEF IInv
  <2>6. IsDeps(db.deps)
    BY <1>4, <1>6, <2>1, <2>4, ReadDeps, DroppedDeps, InsertedDeps DEF IInv, UpsertRelationEdges
  <2>7. IsTables(q.db)
    BY <1>4, <2>3, <2>5, <2>6, MadeTables
  <2>8. IsRun(q)
    <3>1. PushAttempts \in 0..PushAttempts
      BY SyncAssumption
    <3> QED
      BY <1>0, <2>1, <2>3, <2>7, <3>1, FullRun, RunFields DEF IsRun
  <2>9. Sound(q, captured)
    <3>1. DoltBorn(q.db) /\ DoltBorn(q.base)
      BY <1>0, <2>1, <2>3, <2>5, FullRun DEF DoltBorn
    <3>2. Ours(q)
      BY <1>0, <2>1, <2>3, <2>5, FullRun DEF Ours
    <3>3. Kept(q, captured)
      BY <1>0, <2>1, <2>3, <2>5, FullRun DEF Kept
    <3> QED
      BY <2>3, <3>1, <3>2, <3>3, SyncAssumption DEF Sound
  <2>10. Staged(q)
    BY <1>3, <2>3 DEF Staged
  <2> QED
    BY <1>0, <1>5, <2>2, <2>8, <2>9, <2>10, FullStep DEF IInv, TypeOK, GitHubIssue
<1> QED
  BY <1>2, <1>3, <1>4

LEMMA PullGatedKeeps ==
  ASSUME IInv, PullGated
  PROVE  IInv'
<1>1. trouble' \in 0..MaxTrouble
  BY Disturbed DEF IInv, PullGated
<1> QED
  BY <1>1, FullStopped DEF PullGated

LEMMA FullStopsKeeps ==
  ASSUME IInv, FullStops
  PROVE  IInv'
<1>1. trouble' \in 0..MaxTrouble
  BY Disturbed DEF IInv, FullStops
<1> QED
  BY <1>1, FullStopped DEF FullStops

LEMMA FullPushKeeps ==
  ASSUME IInv, FullPush
  PROVE  IInv'
<1>0. full.at = "push" /\ UNCHANGED <<github, links, captured, trouble>>
  BY DEF FullPush
<1>1. CASE remote' = full.db /\ full' = NoRun /\ delta' = Overtake(delta)
  <2>1. IsTables(remote') /\ DoltBorn(remote') /\ NoCycleFound(DOMAIN remote'.deps)
    BY <1>0, <1>1, FullRun DEF Staged
  <2>2. IsRun(delta') /\ Sound(delta', captured') /\ Untangled(delta')
    BY <1>0, <1>1, OvertakeKeeps DEF IInv, TypeOK
  <2>3. IsRun(full') /\ Sound(full', captured') /\ Staged(full')
    BY <1>1, NoRunIsSound
  <2>4. TypeOK'
    BY <1>0, <2>1, <2>2, <2>3 DEF IInv, TypeOK
  <2> QED
    BY <2>1, <2>2, <2>3, <2>4 DEF IInv, RemoteIsChecked
<1>2. CASE full' = Retried(full) /\ UNCHANGED <<remote, delta>>
  <2>1. IsRun(full') /\ Sound(full', captured) /\ Staged(full')
    BY <1>0, <1>2, RetryKeeps DEF IInv, TypeOK, Staged
  <2> QED
    BY <1>0, <1>2, <2>1, FullStep DEF IInv, TypeOK, GitHubIssue
<1> QED
  BY <1>1, <1>2 DEF FullPush

\* The delta's run as it stands.
LEMMA DeltaRun ==
  ASSUME IInv, delta.at # "idle"
  PROVE  /\ DOMAIN delta = {"at", "db", "base", "ids", "todo", "overtaken", "tries"}
         /\ IsTables(delta.db) /\ IsTables(delta.base)
         /\ delta.ids \subseteq Issue /\ delta.todo \subseteq Issue \cup Hidden
         /\ delta.overtaken \in BOOLEAN /\ delta.tries \in 0..PushAttempts
         /\ DoltBorn(delta.db) /\ DoltBorn(delta.base) /\ Ours(delta) /\ Kept(delta, captured)
         /\ NoCycleFound(DOMAIN delta.db.deps)
BY RunFields DEF IInv, TypeOK, IsRun, Sound, Untangled

LEMMA DeltaCloneKeeps ==
  ASSUME IInv, DeltaClone
  PROVE  IInv'
<1>1. PICK r : r = Cloned("search")
  OBVIOUS
<1>2. /\ r.at = "search" /\ r.db = remote /\ r.base = remote /\ r.ids = {} /\ r.todo = {}
      /\ r.overtaken = FALSE /\ r.tries = 0 /\ DOMAIN r = DOMAIN NoRun
  BY <1>1 DEF Cloned, NoRun
<1>3. IsTables(remote) /\ DoltBorn(remote) /\ RemoteIsChecked
  BY DEF IInv, TypeOK
<1>4. IsRun(r) /\ Sound(r, captured) /\ Untangled(r)
  BY <1>2, <1>3, CloneIsSound DEF RemoteIsChecked
<1>5. trouble' \in 0..MaxTrouble
  BY Disturbed DEF IInv, DeltaClone
<1>6. delta' = r /\ UNCHANGED <<github, links, captured, remote, full>>
  BY <1>1 DEF DeltaClone
<1> QED
  BY <1>4, <1>5, <1>6, DeltaStep

LEMMA DeltaSearchKeeps ==
  ASSUME IInv, DeltaSearch
  PROVE  IInv'
<1>0. delta.at = "search" /\ UNCHANGED <<github, links, captured, remote, full, trouble>>
  BY DEF DeltaSearch
<1>1. PICK r : r = delta
  OBVIOUS
<1>2. PICK q : q = delta'
  OBVIOUS
<1>3. PICK results \in SUBSET Issue :
        q = [r EXCEPT !.at = "push", !.tries = PushAttempts,
               !.db.items = [i \in DOMAIN @ |-> IF i \in results /\ @[i] # Null
                                                  THEN DeltaRow(i, @[i]) ELSE @[i]]]
  BY <1>1, <1>2 DEF DeltaSearch
<1>4. /\ DOMAIN r = {"at", "db", "base", "ids", "todo", "overtaken", "tries"}
      /\ DOMAIN r.db = {"items", "deps"} /\ r.db.items \in Items /\ IsDeps(r.db.deps)
  BY <1>0, <1>1, DeltaRun, TableFields
<1>5. PICK items : items = [i \in DOMAIN r.db.items |-> IF i \in results /\ r.db.items[i] # Null
                                                THEN DeltaRow(i, r.db.items[i]) ELSE r.db.items[i]]
  OBVIOUS
<1>6. /\ q.at = "push" /\ q.base = r.base /\ q.ids = r.ids /\ q.todo = r.todo
      /\ q.overtaken = r.overtaken /\ q.tries = PushAttempts /\ DOMAIN q = DOMAIN r
      /\ q.db.items = items /\ q.db.deps = r.db.deps /\ DOMAIN q.db = {"items", "deps"}
  BY <1>3, <1>4, <1>5
<1>7. /\ items \in Items
      /\ \A i \in Issue \cup Hidden :
           /\ r.db.items[i] = Null <=> items[i] = Null
           /\ r.db.items[i] # Null => /\ items[i].effort = r.db.items[i].effort
                                      /\ items[i].origin = r.db.items[i].origin
  BY <1>4, <1>5, SearchKeeps
<1>8. IsTables(q.db)
  BY <1>4, <1>6, <1>7, TableFields
<1>9. IsRun(q)
  <2>1. PushAttempts \in 0..PushAttempts
    BY SyncAssumption
  <2> QED
    BY <1>0, <1>1, <1>6, <1>8, <2>1, DeltaRun, RunFields DEF IsRun
<1>10. Sound(q, captured)
  <2>1. DoltBorn(q.db) /\ DoltBorn(q.base)
    BY <1>0, <1>1, <1>6, <1>7, DeltaRun DEF DoltBorn
  <2>2. Ours(q)
    BY <1>0, <1>1, <1>6, <1>7, DeltaRun DEF Ours
  <2>3. Kept(q, captured)
    BY <1>0, <1>1, <1>6, <1>7, DeltaRun DEF Kept
  <2> QED
    BY <1>6, <2>1, <2>2, <2>3, SyncAssumption DEF Sound
<1>11. Untangled(q)
  BY <1>0, <1>1, <1>6, DeltaRun DEF Untangled
<1>12. trouble' \in 0..MaxTrouble
  BY <1>0 DEF IInv, TypeOK
<1> QED
  BY <1>0, <1>2, <1>9, <1>10, <1>11, <1>12, DeltaStep

LEMMA DeltaPushKeeps ==
  ASSUME IInv, DeltaPush
  PROVE  IInv'
<1>0. delta.at = "push" /\ UNCHANGED <<github, links, captured, trouble>>
  BY DEF DeltaPush
<1>1. CASE remote' = delta.db /\ delta' = NoRun /\ full' = Overtake(full)
  <2>1. IsTables(remote') /\ DoltBorn(remote') /\ NoCycleFound(DOMAIN remote'.deps)
    BY <1>0, <1>1, DeltaRun
  <2>2. IsRun(full') /\ Sound(full', captured') /\ Staged(full')
    BY <1>0, <1>1, OvertakeKeeps DEF IInv, TypeOK
  <2>3. IsRun(delta') /\ Sound(delta', captured') /\ Untangled(delta')
    BY <1>1, NoRunIsSound
  <2>4. TypeOK'
    BY <1>0, <2>1, <2>2, <2>3 DEF IInv, TypeOK
  <2> QED
    BY <2>1, <2>2, <2>3, <2>4 DEF IInv, RemoteIsChecked
<1>2. CASE delta' = Retried(delta) /\ UNCHANGED <<remote, full>>
  <2>1. IsRun(delta') /\ Sound(delta', captured) /\ Untangled(delta')
    BY <1>0, <1>2, RetryKeeps DEF IInv, TypeOK, Untangled
  <2>2. trouble' \in 0..MaxTrouble
    BY <1>0 DEF IInv, TypeOK
  <2> QED
    BY <1>0, <1>2, <2>1, <2>2, DeltaStep
<1> QED
  BY <1>1, <1>2 DEF DeltaPush

LEMMA DeltaStopsKeeps ==
  ASSUME IInv, DeltaStops
  PROVE  IInv'
<1>1. trouble' \in 0..MaxTrouble
  BY Disturbed DEF IInv, DeltaStops
<1> QED
  BY <1>1, NoRunIsSound, DeltaStep DEF DeltaStops
-------------------------------------------------------------------------------
(* The invariant.                                                          *)

LEMMA Starts == Init => IInv
<1> SUFFICES ASSUME Init PROVE IInv
  OBVIOUS
<1>1. OutOfBand \ Refused # {} /\ (CHOOSE e \in OutOfBand \ Refused : TRUE) \in Effort
  BY SyncAssumption DEF Effort
<1>2. github \in [Issue -> GitHubIssue]
  BY <1>1 DEF Init, GitHubIssue, Status
<1>3. ASSUME NEW i \in Issue PROVE BoardRow(i, "Todo") \in Row
  BY <1>2 DEF BoardRow, Row, Status, GitHubIssue
<1>4. /\ DOMAIN remote = {"items", "deps"} /\ remote.deps = <<>>
      /\ remote.items = [i \in Issue \cup Hidden |-> IF i \in Issue THEN BoardRow(i, "Todo") ELSE Null]
  BY DEF Init
<1>5. DOMAIN <<>> = {} /\ Range(<<>>) = {}
  BY DEF Range
<1>6. IsTables(remote)
  <2>1. remote.items \in Items
    BY <1>3, <1>4 DEF Items
  <2>2. IsDeps(remote.deps)
    BY <1>4, <1>5, FS_EmptySet DEF IsDeps
  <2> QED
    BY <1>4, <2>1, <2>2, TableFields
<1>7. DoltBorn(remote)
  BY <1>4, SyncAssumption DEF DoltBorn
<1>8. RemoteIsChecked
  <2>1. NoCycleFound({})
    <3> SUFFICES ASSUME NEW n \in 1..WalkDepth, NEW w \in Walks({}, n) PROVE FALSE
      BY DEF NoCycleFound
    <3>1. 1 \in 1..n
      BY SyncAssumption
    <3> QED
      BY <3>1 DEF Walks
  <2> QED
    BY <1>4, <1>5, <2>1 DEF RemoteIsChecked
<1>9. TypeOK
  <2>1. IsRun(full) /\ IsRun(delta)
    BY NoRunIsSound DEF Init
  <2>2. links \subseteq Link /\ captured \subseteq Hidden /\ trouble \in 0..MaxTrouble
    BY SyncAssumption DEF Init
  <2> QED
    BY <1>2, <1>6, <2>1, <2>2 DEF TypeOK, GitHubIssue
<1> QED
  BY <1>7, <1>8, <1>9, NoRunIsSound DEF Init, IInv

LEMMA Continues == IInv /\ [Next]_vars => IInv'
<1> SUFFICES ASSUME IInv, [Next]_vars PROVE IInv'
  OBVIOUS
<1>1. CASE GitHubChanges
  BY <1>1, GitHubChangesKeeps
<1>2. ASSUME NEW i \in Issue \cup Hidden, NEW e \in Edited, SetDoltFields(i, e) PROVE IInv'
  BY <1>2, SetDoltFieldsKeeps
<1>3. ASSUME NEW h \in Hidden, NEW e \in Edited, InsertHiddenItem(h, e) PROVE IInv'
  BY <1>3, InsertHiddenItemKeeps
<1>4. ASSUME NEW h \in Hidden, CaptureHidden(h) PROVE IInv'
  BY <1>4, CaptureHiddenKeeps
<1>5. CASE FullProgress
  BY <1>5, FullCloneKeeps, ReadDirtyKeeps, PushDoneKeeps, PullBoardKeeps, PullRelationsKeeps,
     FullPushKeeps, CaptureKeeps, PushFieldKeeps DEF FullProgress
<1>6. CASE PushGated \/ PullGated \/ FullStops
  BY <1>6, PushGatedKeeps, PullGatedKeeps, FullStopsKeeps
<1>7. CASE DeltaClone \/ DeltaProgress \/ DeltaStops
  BY <1>7, DeltaCloneKeeps, DeltaSearchKeeps, DeltaPushKeeps, DeltaStopsKeeps DEF DeltaProgress
<1>8. CASE UNCHANGED vars
  BY <1>8 DEF vars, IInv, TypeOK, RemoteIsChecked
<1> QED
  BY <1>1, <1>2, <1>3, <1>4, <1>5, <1>6, <1>7, <1>8 DEF Next

LEMMA Invariant == Spec => []IInv
BY Starts, Continues, PTL DEF Spec

-------------------------------------------------------------------------------
(* The theorems.                                                           *)

\* Type correctness: the published mirror and the clones are well-formed
\* tables, whatever the answers of GitHub, the merges and the failures, and a
\* run pushes at most PushAttempts times (dolt-push.sh).
THEOREM TypeCorrect == Spec => []TypeOK
BY Invariant, PTL DEF IInv

\* From anywhere in a set of items that wait for one another one can walk any
\* number of edges without leaving it.
LEMMA WalksGoOn ==
  ASSUME NEW S \in SUBSET Issue, NEW pairs, WaitForOneAnother(S, pairs), NEW m \in Nat
  PROVE  \E w \in [0..m -> S] : \A k \in 1..m : <<w[k - 1], w[k]>> \in pairs
<1> DEFINE Walk(n) == \E w \in [0..n -> S] : \A k \in 1..n : <<w[k - 1], w[k]>> \in pairs
           T == {0..n : n \in {k \in Nat : ~Walk(k)}}
<1>1. SUFFICES ASSUME ~Walk(m) PROVE FALSE
  OBVIOUS
<1>2. T \subseteq FiniteSubsetsOf(Nat) /\ T # {}
  <2>1. \A n \in Nat : IsFiniteSet(0..n) /\ 0..n \subseteq Nat
    BY FS_Interval
  <2> QED
    BY <1>1, <2>1 DEF FiniteSubsetsOf
<1>3. PICK t \in T : \A u \in T : ~(<<u, t>> \in StrictSubsetOrdering(Nat))
  BY <1>2, WFMin, FS_StrictSubsetOrderingWellFounded
<1>4. PICK n \in Nat : t = 0..n /\ ~Walk(n)
  OBVIOUS
<1>5. n # 0
  <2>1. PICK i \in S : TRUE
    BY DEF WaitForOneAnother
  <2>2. [k \in 0..0 |-> i] \in [0..0 -> S] /\ 1..0 = {}
    OBVIOUS
  <2> QED
    BY <1>4, <2>2
<1>6. Walk(n - 1)
  <2>1. SUFFICES ASSUME ~Walk(n - 1) PROVE FALSE
    OBVIOUS
  <2>2. n - 1 \in Nat
    BY <1>5
  <2>3. 0..(n - 1) \in T
    BY <2>1, <2>2
  <2>4. n \in 0..n /\ n \notin 0..(n - 1) /\ 0..(n - 1) \subseteq 0..n /\ 0..n \subseteq Nat
    BY <2>2
  <2>5. <<0..(n - 1), 0..n>> \in StrictSubsetOrdering(Nat)
    BY <2>4 DEF StrictSubsetOrdering
  <2> QED
    BY <1>3, <1>4, <2>3, <2>5
<1>7. PICK w \in [0..(n - 1) -> S] : \A k \in 1..(n - 1) : <<w[k - 1], w[k]>> \in pairs
  BY <1>6
<1>8. w[n - 1] \in S
  BY <1>5
<1>9. PICK j \in S : <<w[n - 1], j>> \in pairs
  BY <1>8 DEF WaitForOneAnother
<1>10. PICK v : v = [k \in 0..n |-> IF k = n THEN j ELSE w[k]]
  OBVIOUS
<1>11. v \in [0..n -> S]
  BY <1>10
<1>12. ASSUME NEW k \in 1..n PROVE <<v[k - 1], v[k]>> \in pairs
  <2>1. v[k - 1] = w[k - 1]
    BY <1>10
  <2>2. CASE k = n
    <3>1. v[k] = j /\ w[k - 1] = w[n - 1]
      BY <1>10, <2>2
    <3>2. <<v[k - 1], v[k]>> = <<w[n - 1], j>>
      BY <2>1, <3>1, Zenon
    <3> QED
      BY <1>9, <3>2, Zenon
  <2>3. CASE k # n
    <3>1. k \in 1..(n - 1) /\ v[k] = w[k]
      BY <1>10, <2>3
    <3> QED
      BY <1>7, <2>1, <3>1
  <2> QED
    BY <2>2, <2>3
<1>13. Walk(n)
  BY <1>11, <1>12
<1> QED
  BY <1>4, <1>13

\* A walk of as many edges as a set has items meets one of them twice: between
\* the two it is a walk the shape check makes.
LEMMA ShortCycleIsFound ==
  ASSUME NEW pairs, NoCycleFound(pairs), NEW S \in SUBSET Issue, Cardinality(S) <= WalkDepth
  PROVE  ~WaitForOneAnother(S, pairs)
<1> SUFFICES ASSUME WaitForOneAnother(S, pairs) PROVE FALSE
  OBVIOUS
<1>1. IsFiniteSet(S) /\ Cardinality(S) \in Nat
  BY FS_Subset, FS_CardinalityType, SyncAssumption
<1>2. PICK m \in Nat : m = Cardinality(S)
  BY <1>1
<1>3. PICK w \in [0..m -> S] : \A k \in 1..m : <<w[k - 1], w[k]>> \in pairs
  BY WalksGoOn
<1>4. IsFiniteSet(0..m) /\ Cardinality(S) < Cardinality(0..m)
  BY <1>2, FS_Interval
<1>5. PICK x \in 0..m, y \in 0..m : x # y /\ w[x] = w[y]
  BY <1>1, <1>4, FS_PigeonHole
<1>6. PICK a \in 0..m, b \in 0..m : a < b /\ w[a] = w[b]
  <2>1. CASE x < y
    BY <1>5, <2>1
  <2>2. CASE y < x
    BY <1>5, <2>2
  <2> QED
    BY <1>5, <2>1, <2>2
<1>7. PICK n \in Nat : n = b - a
  BY <1>6
<1>8. n \in 1..WalkDepth
  BY <1>2, <1>6, <1>7, SyncAssumption
<1>9. PICK v : v = [k \in 0..n |-> w[a + k]]
  OBVIOUS
<1>10. \A k \in 0..n : a + k \in 0..m
  BY <1>6, <1>7
<1>11. v \in [0..n -> Issue]
  BY <1>9, <1>10
<1>12. ASSUME NEW k \in 1..n PROVE <<v[k - 1], v[k]>> \in pairs
  <2>1. PICK c : c = a + k
    OBVIOUS
  <2>2. c \in 1..m /\ c - 1 = a + (k - 1)
    BY <1>6, <1>7, <2>1
  <2>3. v[k - 1] = w[c - 1] /\ v[k] = w[c]
    BY <1>9, <2>1, <2>2
  <2>4. <<w[c - 1], w[c]>> \in pairs
    BY <1>3, <2>2
  <2> QED
    BY <2>3, <2>4
<1>13. v[0] = w[a] /\ v[n] = w[b]
  BY <1>6, <1>7, <1>9
<1>14. v \in Walks(pairs, n)
  BY <1>11, <1>12 DEF Walks
<1> QED
  BY <1>6, <1>8, <1>13, <1>14 DEF NoCycleFound

\* No WalkDepth items or fewer of the published mirror wait for one another: the
\* full sync pushes only what passed the shape check (sync.ts exits 4 on a hard
\* finding), and a delta and a merge bring no edges of their own.
THEOREM NoShortCyclePublished == Spec => []NoShortCycle
<1>1. IInv => NoShortCycle
  BY ShortCycleIsFound DEF IInv, RemoteIsChecked, NoShortCycle
<1> QED
  BY <1>1, Invariant, PTL

\* On a board of no more items than the shape check walks edges, no published
\* items at all wait for one another: that is when it is whole.
THEOREM SmallBoardIsAcyclic ==
  ASSUME Cardinality(Issue) <= WalkDepth
  PROVE  Spec => [](\A S \in SUBSET Issue : ~WaitForOneAnother(S, DOMAIN remote.deps))
<1>1. \A S \in SUBSET Issue : Cardinality(S) <= WalkDepth
  <2> SUFFICES ASSUME NEW S \in SUBSET Issue PROVE Cardinality(S) <= WalkDepth
    OBVIOUS
  <2>1. Cardinality(S) <= Cardinality(Issue)
    BY FS_Subset, SyncAssumption
  <2>2. Cardinality(S) \in Nat /\ Cardinality(Issue) \in Nat
    BY FS_Subset, FS_CardinalityType, SyncAssumption
  <2> QED
    BY <2>1, <2>2, SyncAssumption
<1>2. NoShortCycle => \A S \in SUBSET Issue : ~WaitForOneAnother(S, DOMAIN remote.deps)
  BY <1>1 DEF NoShortCycle
<1> QED
  BY <1>2, NoShortCyclePublished, PTL

\* Who publishes: the full sync, the delta, or a command of the Dolt surface.
LEMMA Published ==
  ASSUME [Next]_vars, remote' # remote
  PROVE  \/ full.at = "push" /\ full.base = remote /\ remote' = full.db
         \/ delta.at = "push" /\ delta.base = remote /\ remote' = delta.db
         \/ \E k \in Issue \cup Hidden, e \in Edited : SetDoltFields(k, e)
         \/ \E h \in Hidden, e \in Edited : InsertHiddenItem(h, e)
         \/ \E h \in Hidden : CaptureHidden(h)
<1>1. CASE GitHubChanges \/ PushGated \/ PullGated \/ FullStops \/ DeltaClone \/ DeltaStops
  BY <1>1 DEF GitHubChanges, PushGated, PullGated, FullStops, DeltaClone, DeltaStops
<1>2. CASE FullProgress
  <2>1. CASE FullPush
    BY <2>1 DEF FullPush, FastForward
  <2>2. CASE ~FullPush
    BY <1>2, <2>2 DEF FullProgress, FullClone, ReadDirty, PushDone, PullBoard, PullRelations,
       Capture, PushField
  <2> QED
    BY <2>1, <2>2
<1>3. CASE DeltaProgress
  BY <1>3 DEF DeltaProgress, DeltaSearch, DeltaPush, FastForward
<1>4. CASE UNCHANGED vars
  BY <1>4 DEF vars
<1> QED
  BY <1>1, <1>2, <1>3, <1>4 DEF Next

\* An issue made for hidden work is not unmade.
LEMMA IssuesStay ==
  ASSUME [Next]_vars
  PROVE  captured \subseteq captured'
BY DEF Next, vars, GitHubChanges, SetDoltFields, InsertHiddenItem, CaptureHidden, FullProgress,
   FullClone, ReadDirty, PushDone, PullBoard, PullRelations, FullPush, Capture, PushField,
   PushGated, PullGated, FullStops, DeltaClone, DeltaProgress, DeltaSearch, DeltaPush, DeltaStops

\* The published effort of an item changes only to a declared one or by an edit
\* on the Dolt surface: an effort typed into the project field is never taken
\* over, and no publication of an older clone takes an edit back.
THEOREM EffortsAreOurs == Spec => EffortIsOurs
<1>1. ASSUME IInv, [Next]_vars
      PROVE  [\A i \in Issue :
                /\ remote.items[i] # Null /\ remote'.items[i] # Null
                /\ remote'.items[i].effort # remote.items[i].effort
                => \/ remote'.items[i].effort \in Declared
                   \/ \E e \in Edited : SetDoltFields(i, e)]_vars
  <2> SUFFICES ASSUME NEW i \in Issue, remote.items[i] # Null, remote'.items[i] # Null,
                      remote'.items[i].effort # remote.items[i].effort
               PROVE  \/ remote'.items[i].effort \in Declared
                      \/ \E e \in Edited : SetDoltFields(i, e)
    OBVIOUS
  <2>0. IsTables(remote)
    BY <1>1 DEF IInv, TypeOK
  <2>1. CASE full.at = "push" /\ full.base = remote /\ remote' = full.db
    BY <1>1, <2>1, FullRun DEF Ours
  <2>2. CASE delta.at = "push" /\ delta.base = remote /\ remote' = delta.db
    BY <1>1, <2>2, DeltaRun DEF Ours
  <2>3. ASSUME NEW k \in Issue \cup Hidden, NEW e \in Edited, SetDoltFields(k, e)
        PROVE  k = i
    BY <2>0, <2>3, TableFields DEF SetDoltFields, Items
  <2>4. ASSUME NEW h \in Hidden, NEW e \in Edited, InsertHiddenItem(h, e)
        PROVE  FALSE
    <3>1. h # i
      BY SyncAssumption
    <3> QED
      BY <2>0, <2>4, <3>1, TableFields DEF InsertHiddenItem, Items
  <2>5. ASSUME NEW h \in Hidden, CaptureHidden(h)
        PROVE  FALSE
    <3>1. h # i
      BY SyncAssumption
    <3>2. remote'.items[i] = remote.items[i]
      BY <2>0, <2>5, <3>1, TableFields DEF CaptureHidden, Items
    <3> QED
      BY <3>2
  <2>6. remote' # remote
    OBVIOUS
  <2> QED
    BY <1>1, <2>1, <2>2, <2>3, <2>4, <2>5, <2>6, Published
<1> QED
  BY <1>1, Invariant, PTL DEF Spec, EffortIsOurs

\* Hidden work leaves the published mirror only when GitHub has an issue for
\* it, whatever fails or stops between the create and the publication.
THEOREM HiddenWorkIsKept == Spec => WorkIsKept
<1>1. ASSUME IInv, [Next]_vars
      PROVE  [\A h \in Hidden : remote.items[h] # Null /\ remote'.items[h] = Null
                                => h \in captured']_vars
  <2> SUFFICES ASSUME NEW h \in Hidden, remote.items[h] # Null, remote'.items[h] = Null
               PROVE  h \in captured'
    OBVIOUS
  <2>0. DOMAIN remote = {"items", "deps"} /\ remote.items \in Items
    BY <1>1, TableFields DEF IInv, TypeOK
  <2>1. CASE full.at = "push" /\ full.base = remote /\ remote' = full.db
    <3>1. h \in captured
      BY <1>1, <2>1, FullRun DEF Kept
    <3> QED
      BY <1>1, <3>1, IssuesStay
  <2>2. CASE delta.at = "push" /\ delta.base = remote /\ remote' = delta.db
    <3>1. h \in captured
      BY <1>1, <2>2, DeltaRun DEF Kept
    <3> QED
      BY <1>1, <3>1, IssuesStay
  <2>3. ASSUME NEW k \in Issue \cup Hidden, NEW e \in Edited, SetDoltFields(k, e)
        PROVE  FALSE
    <3>1. remote.items[h] \in Row /\ remote.items[k] # Null
      BY <2>0, <2>3 DEF SetDoltFields, Items
    <3>2. CASE k = h
      <4>1. PICK old : old = remote.items[h]
        OBVIOUS
      <4>2. PICK row : row = [old EXCEPT !.effort = e, !.sync = "dolt-dirty"]
        OBVIOUS
      <4>3. row \in Row
        BY <3>1, <4>1, <4>2 DEF Row, Effort
      <4>4. remote'.items[h] = row
        BY <2>0, <2>3, <3>2, <4>1, <4>2 DEF SetDoltFields, Items
      <4> QED
        BY <4>3, <4>4, RowIsThere
    <3>3. CASE k # h
      BY <2>0, <2>3, <3>3 DEF SetDoltFields, Items
    <3> QED
      BY <3>2, <3>3
  <2>4. ASSUME NEW k \in Hidden, NEW e \in Edited, InsertHiddenItem(k, e)
        PROVE  FALSE
    <3>1. k # h
      BY <2>4 DEF InsertHiddenItem
    <3> QED
      BY <2>0, <2>4, <3>1 DEF InsertHiddenItem, Items
  <2>5. ASSUME NEW k \in Hidden, CaptureHidden(k)
        PROVE  FALSE
    <3>1. remote.items[h] \in Row
      BY <2>0 DEF Items
    <3>2. CASE k = h
      <4>1. PICK old : old = remote.items[h]
        OBVIOUS
      <4>2. PICK row : row = [old EXCEPT !.sync = "dolt-dirty"]
        OBVIOUS
      <4>3. row \in Row
        BY <3>1, <4>1, <4>2 DEF Row
      <4>4. remote'.items[h] = row
        BY <2>0, <2>5, <3>2, <4>1, <4>2 DEF CaptureHidden, Items
      <4> QED
        BY <4>3, <4>4, RowIsThere
    <3>3. CASE k # h
      BY <2>0, <2>5, <3>3 DEF CaptureHidden, Items
    <3> QED
      BY <3>2, <3>3
  <2>6. remote' # remote
    OBVIOUS
  <2> QED
    BY <1>1, <2>1, <2>2, <2>3, <2>4, <2>5, <2>6, Published
<1> QED
  BY <1>1, Invariant, PTL DEF Spec, WorkIsKept
=============================================================================

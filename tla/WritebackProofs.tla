---------------------------- MODULE WritebackProofs ----------------------------
(***************************************************************************)
(* Theorems about Writeback, for any board, any relations, any size of a   *)
(* page and any number of changes, deltas and failures.                    *)
(*                                                                         *)
(* The argument.  Only deltas publish while a pass runs, and a delta       *)
(* touches no edge, so every commit of the log has the same edges.  A walk *)
(* has read a lower part of its table in the order of the keys; a page     *)
(* adds the least of the rest, and a page that is not full is all of it.   *)
(* So the edges walk ends with the edges of every commit, pinned or not,   *)
(* and the items walk with the items of the commit it was pinned to.       *)
(***************************************************************************)
EXTENDS Writeback, FiniteSetTheorems, SequenceTheorems, WellFoundedInduction, TLAPS

\* An issue's row comes from GitHub, a hidden one from Dolt.
Origins(c) == \A i \in DOMAIN c.items : c.items[i].origin = IF i \in Issue THEN "github" ELSE "dolt"

Logged(l) == \A c \in 1..Len(l) : Origins(l[c]) /\ l[c].deps = l[1].deps

\* What was read is the part of the table below the rest.
Prefix(read, table, order) ==
  /\ DOMAIN read \subseteq DOMAIN table /\ \A x \in DOMAIN read : read[x] = table[x]
  /\ \A x \in DOMAIN table \ DOMAIN read, y \in DOMAIN read : <<x, y>> \in order

\* How far the walks of a pass p have come over the log l.
Walked(p, l) ==
  /\ p.at \in {"idle", "itemsHead"} => DOMAIN p.rows = {} /\ p.of = 0
  /\ p.at \in {"idle", "itemsHead", "items", "edgesHead"} => DOMAIN p.edges = {}
  /\ p.at = "items" => p.pin = p.of
  /\ p.at = "items" /\ p.of > 0 => Prefix(p.rows, l[p.of].items, ItemOrder)
  /\ p.at \in {"edgesHead", "edges", "board"} /\ p.of > 0 => p.rows = l[p.of].items
  /\ p.at = "edges" => Prefix(p.edges, l[1].deps, EdgeOrder)
  /\ p.at = "board" => p.edges = l[1].deps

IInv == TypeOK /\ Logged(log) /\ Walked(pass, log)

-------------------------------------------------------------------------------
(* Pages.                                                                  *)

\* A strict total order of a set.
Orders(order, S) ==
  /\ \A x, y \in S : x = y \/ <<x, y>> \in order \/ <<y, x>> \in order
  /\ \A x \in S : <<x, x>> \notin order
  /\ \A x, y, z \in S : <<x, y>> \in order /\ <<y, z>> \in order => <<x, z>> \in order

LEMMA ItemsOrdered == Orders(ItemOrder, Item)
<1>1. \A x, y \in Item : <<x, y>> \in ItemOrder <=> x > y
  BY DEF ItemOrder
<1>2. Item \subseteq Nat
  BY SchedulingAssumption
<1>. QED
  BY <1>1, <1>2 DEF Orders

LEMMA EdgesOrdered == Orders(EdgeOrder, Item \X Item)
<1>1. \A a, b, c, d \in Item :
        <<<<a, b>>, <<c, d>>>> \in EdgeOrder <=> a > c \/ (a = c /\ b > d)
  BY DEF EdgeOrder
<1>2. Item \subseteq Nat
  BY SchedulingAssumption
<1>3. \A x \in Item \X Item : \E a, b \in Item : x = <<a, b>>
  OBVIOUS
<1>4. ASSUME NEW x \in Item \X Item, NEW y \in Item \X Item
      PROVE  /\ x = y \/ <<x, y>> \in EdgeOrder \/ <<y, x>> \in EdgeOrder
             /\ <<x, x>> \notin EdgeOrder
  <2>1. PICK a, b \in Item : x = <<a, b>>
    BY <1>3
  <2>2. PICK c, d \in Item : y = <<c, d>>
    BY <1>3
  <2>3. (a = c /\ b = d) \/ <<x, y>> \in EdgeOrder \/ <<y, x>> \in EdgeOrder
    BY <1>1, <1>2, <2>1, <2>2
  <2>4. <<x, x>> \notin EdgeOrder
    BY <1>1, <1>2, <2>1
  <2>. QED
    BY <2>1, <2>2, <2>3, <2>4
<1>5. ASSUME NEW x \in Item \X Item, NEW y \in Item \X Item, NEW z \in Item \X Item,
             <<x, y>> \in EdgeOrder, <<y, z>> \in EdgeOrder
      PROVE  <<x, z>> \in EdgeOrder
  <2>1. PICK a, b \in Item : x = <<a, b>>
    BY <1>3
  <2>2. PICK c, d \in Item : y = <<c, d>>
    BY <1>3
  <2>3. PICK e, f \in Item : z = <<e, f>>
    BY <1>3
  <2>4. (a > c \/ (a = c /\ b > d)) /\ (c > e \/ (c = e /\ d > f))
    BY <1>1, <1>5, <2>1, <2>2, <2>3
  <2>5. a > e \/ (a = e /\ b > f)
    BY <1>2, <2>4
  <2>. QED
    BY <1>1, <2>1, <2>3, <2>5
<1>. QED
  BY <1>4, <1>5 DEF Orders

\* A page leaves everything read below the rest, and one that is not full
\* leaves no rest.
LEMMA PageExtends ==
  ASSUME NEW table, NEW read, NEW order, IsFiniteSet(DOMAIN table),
         Orders(order, DOMAIN table), Prefix(read, table, order)
  PROVE  LET page == PageOf(table, read, order)
         IN  /\ DOMAIN page \subseteq DOMAIN table
             /\ Prefix(Merge(read, page), table, order)
             /\ Cardinality(DOMAIN page) < PAGE_ROWS => DOMAIN Merge(read, page) = DOMAIN table
<1>. DEFINE page == PageOf(table, read, order)
            rest == {x \in DOMAIN table : \A y \in DOMAIN read : <<x, y>> \in order}
            Below(x) == {y \in rest : <<x, y>> \in order}
            first == {x \in rest : Cardinality(Below(x)) < PAGE_ROWS}
<1>1. page = [x \in first |-> table[x]]
  BY DEF PageOf, Restrict
<1>2. Merge(read, page) = [x \in DOMAIN read \cup first |-> IF x \in first THEN table[x] ELSE read[x]]
  BY <1>1 DEF Merge
<1>3. /\ rest = DOMAIN table \ DOMAIN read
      /\ DOMAIN read \subseteq DOMAIN table
  BY DEF Prefix, Orders
<1>4. IsFiniteSet(rest)
  BY <1>3, FS_Subset
<1>5. \A x \in rest : /\ IsFiniteSet(Below(x)) /\ Below(x) \subseteq rest
                      /\ Cardinality(Below(x)) \in Nat
  BY <1>4, FS_Subset, FS_CardinalityType
<1>6. ASSUME NEW x \in rest, NEW y \in rest, <<y, x>> \in order
      PROVE  Cardinality(Below(x)) < Cardinality(Below(y))
  <2>1. Below(x) \subseteq Below(y)
    BY <1>6 DEF Orders
  <2>2. x \in Below(y) /\ x \notin Below(x)
    BY <1>6 DEF Orders
  <2>3. Cardinality(Below(x)) <= Cardinality(Below(y)) /\ Cardinality(Below(x)) # Cardinality(Below(y))
    <3>. HIDE DEF Below
    <3>1. IsFiniteSet(Below(y))
      BY <1>5
    <3>. QED
      BY <2>1, <2>2, <3>1, FS_Subset
  <2>. HIDE DEF Below
  <2>. QED
    BY <2>3, <1>5
<1>7. ASSUME NEW x \in DOMAIN table \ (DOMAIN read \cup first), NEW y \in DOMAIN read \cup first
      PROVE  <<x, y>> \in order
  <2>1. CASE y \in DOMAIN read
    BY <1>7, <2>1 DEF Prefix
  <2>2. CASE y \in first
    <3>1. x \in rest /\ y \in rest /\ x # y /\ ~(Cardinality(Below(x)) < PAGE_ROWS)
          /\ Cardinality(Below(y)) < PAGE_ROWS
      BY <1>3, <1>7, <2>2
    <3>. HIDE DEF Below, rest, first
    <3>2. <<y, x>> \notin order
      <4>1. PAGE_ROWS \in Nat
        BY WritebackAssumption
      <4>. QED
        BY <1>5, <1>6, <3>1, <4>1
    <3>3. x \in DOMAIN table /\ y \in DOMAIN table
      BY <1>3, <3>1
    <3>. QED
      BY <3>1, <3>2, <3>3 DEF Orders
  <2>. QED
    BY <1>7, <2>1, <2>2
<1>8. Prefix(Merge(read, page), table, order)
  BY <1>2, <1>3, <1>7 DEF Prefix
<1>9. ASSUME Cardinality(first) < PAGE_ROWS
      PROVE  rest \subseteq first
  <2>. SUFFICES ASSUME rest \ first # {} PROVE FALSE
    OBVIOUS
  <2>. DEFINE belows == {Below(x) : x \in rest \ first}
  <2>1. belows \subseteq FiniteSubsetsOf(rest) /\ belows # {}
    BY <1>5 DEF FiniteSubsetsOf
  <2>2. PICK s \in belows : \A t \in belows : <<t, s>> \notin StrictSubsetOrdering(rest)
    <3>. HIDE DEF belows, rest
    <3>. QED
      BY <1>4, <2>1, WFMin, FS_StrictSubsetOrderingWellFounded
  <2>3. PICK x \in rest \ first : s = Below(x)
    OBVIOUS
  <2>4. Below(x) \subseteq first
    <3>. SUFFICES ASSUME NEW y \in Below(x), y \notin first PROVE FALSE
      OBVIOUS
    <3>1. y \in rest /\ <<x, y>> \in order
      OBVIOUS
    <3>2. Below(y) \subseteq Below(x) /\ Below(y) # Below(x)
      BY <3>1, <2>3 DEF Orders
    <3>3. Below(y) \in belows /\ Below(y) \subseteq rest /\ Below(x) \subseteq rest
      BY <3>1
    <3>. HIDE DEF Below, belows
    <3>4. <<Below(y), s>> \in StrictSubsetOrdering(rest)
      BY <2>3, <3>2, <3>3 DEF StrictSubsetOrdering
    <3>. QED
      BY <2>2, <3>3, <3>4
  <2>5. Cardinality(Below(x)) <= Cardinality(first)
    <3>1. IsFiniteSet(first)
      BY <1>4, FS_Subset
    <3>. HIDE DEF Below, first
    <3>. QED
      BY <2>4, <3>1, FS_Subset
  <2>6. ~(Cardinality(Below(x)) < PAGE_ROWS)
    BY <2>3
  <2>7. Cardinality(first) \in Nat /\ PAGE_ROWS \in Nat /\ Cardinality(Below(x)) \in Nat
    BY <1>4, <1>5, FS_Subset, FS_CardinalityType, WritebackAssumption
  <2>. HIDE DEF Below, first
  <2>. QED
    BY <1>9, <2>5, <2>6, <2>7
<1>10. DOMAIN page = first /\ DOMAIN Merge(read, page) = DOMAIN read \cup first
  BY <1>1, <1>2
<1>. QED
  BY <1>3, <1>8, <1>9, <1>10

-------------------------------------------------------------------------------
(* Tables and logs.                                                        *)

LEMMA RestrictTable ==
  ASSUME NEW S, NEW T, NEW f, IsTable(f, S, T), NEW D \in SUBSET DOMAIN f
  PROVE  IsTable(Restrict(f, D), S, T) /\ DOMAIN Restrict(f, D) = D
BY DEF IsTable, Restrict

LEMMA PageTable ==
  ASSUME NEW S, NEW T, NEW f, IsTable(f, S, T), NEW read, NEW order
  PROVE  IsTable(PageOf(f, read, order), S, T)
<1>. DEFINE rest == {x \in DOMAIN f : \A y \in DOMAIN read : <<x, y>> \in order}
            first == {x \in rest : Cardinality({y \in rest : <<x, y>> \in order}) < PAGE_ROWS}
<1>1. PageOf(f, read, order) = Restrict(f, first)
  BY DEF PageOf
<1>2. first \in SUBSET DOMAIN f
  OBVIOUS
<1>. HIDE DEF first
<1>. QED
  BY <1>1, <1>2, RestrictTable

LEMMA MergeTable ==
  ASSUME NEW S, NEW T, NEW f, NEW g, IsTable(f, S, T), IsTable(g, S, T)
  PROVE  IsTable(Merge(f, g), S, T)
BY DEF IsTable, Merge

LEMMA EmptyTable ==
  ASSUME NEW S, NEW T, NEW f, f = << >>
  PROVE  IsTable(f, S, T) /\ DOMAIN f = {}
BY DEF IsTable

LEMMA CommitsFinite ==
  ASSUME NEW c, IsCommit(c)
  PROVE  IsFiniteSet(DOMAIN c.items) /\ IsFiniteSet(DOMAIN c.deps)
<1>1. IsFiniteSet(Item) /\ IsFiniteSet(Item \X Item)
  BY SchedulingAssumption, FS_Product
<1>2. DOMAIN c.items \subseteq Item /\ DOMAIN c.deps \subseteq Item \X Item
  BY DEF IsCommit, IsTable
<1>. QED
  BY <1>1, <1>2, FS_Subset

\* A log of commits.
IsLog(l) == l \in Seq(Range(l)) /\ Len(l) > 0 /\ \A c \in 1..Len(l) : IsCommit(l[c])

LEMMA OneCommit ==
  ASSUME NEW c, IsCommit(c), Origins(c), NEW l, l = <<c>>
  PROVE  IsLog(l) /\ Logged(l) /\ Len(l) = 1
BY DEF IsLog, Logged, Range

LEMMA LongerLog ==
  ASSUME NEW l, IsLog(l), Logged(l), NEW c, IsCommit(c), Origins(c), c.deps = l[1].deps,
         NEW m, m = Append(l, c)
  PROVE  /\ IsLog(m) /\ Logged(m) /\ Len(m) = Len(l) + 1
         /\ \A n \in 1..Len(l) : m[n] = l[n]
<1>. DEFINE S == Range(l) \cup {c}
<1>1. l \in Seq(S) /\ c \in S /\ Len(l) \in Nat /\ Len(l) > 0
  BY DEF IsLog
<1>2. /\ m \in Seq(S) /\ Len(m) = Len(l) + 1
      /\ m[Len(m)] = c /\ \A n \in 1..Len(l) : m[n] = l[n]
  BY <1>1, AppendProperties
<1>3. m \in Seq(Range(m))
  BY <1>2 DEF Range
<1>. QED
  BY <1>1, <1>2, <1>3 DEF IsLog, Logged

-------------------------------------------------------------------------------
(* The parts of the invariant.                                             *)

World ==
  /\ open \in [Issue -> BOOLEAN] /\ card \in [Issue -> Status \cup {Null}] /\ links \in Graphs
  /\ trouble \in 0..MaxTrouble

At == {"idle", "itemsHead", "items", "edgesHead", "edges", "board", "writing"}

IsPass(p, n) ==
  /\ p \in [at : At, apply : BOOLEAN, pin : 0..n, of : 0..n,
            rows : {p.rows}, edges : {p.edges}, todo : {p.todo}]
  /\ p.at = "idle" => p = NoPass /\ n = 1
  /\ IsTable(p.rows, Item, DerivationRow) /\ IsTable(p.edges, Item \X Item, EdgeKind)
  /\ IsTable(p.todo, Issue, Status)

LEMMA Parts == IInv <=> /\ World /\ IsLog(log) /\ Logged(log)
                        /\ IsPass(pass, Len(log)) /\ Walked(pass, log)
BY DEF IInv, TypeOK, World, IsLog, IsPass, At, Latest

LEMMA PartsNext == IInv' <=> /\ World' /\ IsLog(log') /\ Logged(log')
                             /\ IsPass(pass', Len(log')) /\ Walked(pass', log')
BY DEF IInv, TypeOK, World, IsLog, IsPass, At, Latest

LEMMA NothingRead ==
  /\ IsTable(NoPass.rows, Item, DerivationRow) /\ DOMAIN NoPass.rows = {}
  /\ IsTable(NoPass.edges, Item \X Item, EdgeKind) /\ DOMAIN NoPass.edges = {}
  /\ IsTable(NoPass.todo, Issue, Status)
BY EmptyTable DEF NoPass

LEMMA Rest ==
  ASSUME NEW l, IsLog(l), Len(l) = 1
  PROVE  IsPass(NoPass, 1) /\ Walked(NoPass, l)
<1>1. NoPass.at = "idle" /\ NoPass.of = 0
  BY DEF NoPass
<1>2. IsPass(NoPass, 1)
  <2>1. NoPass \in [at : At, apply : BOOLEAN, pin : 0..1, of : 0..1,
                    rows : {NoPass.rows}, edges : {NoPass.edges}, todo : {NoPass.todo}]
    BY DEF NoPass, At
  <2>. QED
    BY <2>1, NothingRead DEF IsPass
<1>. QED
  BY <1>1, <1>2, NothingRead DEF Walked

LEMMA Troubled == World /\ (Disturb \/ UNCHANGED trouble) => trouble' \in 0..MaxTrouble
BY WritebackAssumption DEF World, Disturb

LEMMA Stopped ==
  ASSUME IInv, World', Stops
  PROVE  IInv'
<1>. DEFINE c == log[Len(log)]
<1>1. IsLog(log) /\ Logged(log)
  BY Parts
<1>2. Len(log) \in 1..Len(log)
  BY <1>1, LenProperties DEF IsLog
<1>3. IsCommit(c) /\ Origins(c)
  BY <1>1, <1>2 DEF IsLog, Logged
<1>4. pass' = NoPass /\ log' = <<c>>
  BY DEF Stops, Latest
<1>. HIDE DEF c
<1>5. IsLog(log') /\ Logged(log') /\ Len(log') = 1
  BY <1>3, <1>4, OneCommit
<1>6. IsPass(NoPass, 1) /\ Walked(NoPass, log')
  BY <1>5, Rest
<1>. QED
  BY <1>4, <1>5, <1>6, PartsNext

LEMMA MirroredIsCommit ==
  ASSUME World
  PROVE  IsCommit(Mirrored) /\ Origins(Mirrored)
<1>. DEFINE ids == Hidden \cup {i \in Issue : card[i] # Null}
            row(i) == IF i \in Hidden
                        THEN [origin |-> "dolt", status |-> "Todo", closed |-> FALSE]
                        ELSE [origin |-> "github", status |-> card[i], closed |-> ~open[i]]
            kept == {p \in DOMAIN links : p[1] \in ids /\ p[2] \in ids}
<1>1. Mirrored = [items |-> [i \in ids |-> row(i)], deps |-> Restrict(links, kept)]
  BY DEF Mirrored
<1>2. ids \subseteq Item /\ Issue = Item \ Hidden /\ Hidden \subseteq Item
  BY WritebackAssumption DEF Issue
<1>3. \A i \in ids : row(i) \in DerivationRow
                     /\ row(i).origin = IF i \in Issue THEN "github" ELSE "dolt"
  BY <1>2 DEF World, DerivationRow, Status
<1>4. IsTable(Mirrored.items, Item, DerivationRow) /\ Origins(Mirrored)
  <2>. HIDE DEF row, ids
  <2>. QED
    BY <1>1, <1>2, <1>3 DEF IsTable, Origins
<1>5. IsTable(Mirrored.deps, Item \X Item, EdgeKind)
  <2>1. DOMAIN links \subseteq Item \X Item /\ \A p \in DOMAIN links : links[p] \in EdgeKind
    BY WritebackAssumption DEF World
  <2>2. Mirrored.deps = [p \in kept |-> links[p]] /\ kept \subseteq DOMAIN links
    BY <1>1 DEF Restrict
  <2>. HIDE DEF kept
  <2>. QED
    BY <2>1, <2>2 DEF IsTable
<1>. QED
  BY <1>1, <1>4, <1>5 DEF IsCommit

LEMMA InitHolds == Init => IInv
<1>. SUFFICES ASSUME Init PROVE IInv
  OBVIOUS
<1>1. World
  <2>1. trouble \in 0..MaxTrouble
    BY WritebackAssumption DEF Init
  <2>2. open \in [Issue -> BOOLEAN] /\ card \in [Issue -> Status \cup {Null}] /\ links \in Graphs
    BY DEF Init, Status
  <2>. QED
    BY <2>1, <2>2 DEF World
<1>2. IsCommit(Mirrored) /\ Origins(Mirrored)
  BY <1>1, MirroredIsCommit
<1>3. log = <<Mirrored>> /\ pass = NoPass
  BY DEF Init
<1>. HIDE DEF Mirrored
<1>4. IsLog(log) /\ Logged(log) /\ Len(log) = 1
  BY <1>2, <1>3, OneCommit
<1>. QED
  BY <1>1, <1>3, <1>4, Rest, Parts

-------------------------------------------------------------------------------
(* The people, and the syncs.                                              *)

LEMMA PeopleStep ==
  ASSUME IInv, World', UNCHANGED <<log, pass>>
  PROVE  IInv'
BY Parts, PartsNext

LEMMA PublishStep ==
  ASSUME IInv, World', UNCHANGED pass, NEW c, IsCommit(c), Origins(c), Publish(c),
         Running => c.deps = log[1].deps
  PROVE  IInv'
<1>1. /\ IsLog(log) /\ Logged(log) /\ IsPass(pass, Len(log)) /\ Walked(pass, log)
      /\ Len(log) \in Nat /\ Len(log) > 0
  <2>1. IsLog(log)
    BY Parts
  <2>2. Len(log) \in Nat /\ Len(log) > 0
    BY <2>1, LenProperties DEF IsLog
  <2>. QED
    BY <2>1, <2>2, Parts
<1>2. CASE Running
  <2>1. log' = Append(log, c) /\ c.deps = log[1].deps
    BY <1>2 DEF Publish
  <2>2. /\ IsLog(log') /\ Logged(log') /\ Len(log') = Len(log) + 1
        /\ \A n \in 1..Len(log) : log'[n] = log[n]
    BY <1>1, <2>1, LongerLog
  <2>3. IsPass(pass, Len(log'))
    <3>1. pass.at # "idle"
      BY <1>2 DEF Running
    <3>. QED
      BY <1>1, <2>2, <3>1 DEF IsPass
  <2>4. Walked(pass, log')
    <3>1. pass.of \in 0..Len(log)
      BY <1>1 DEF IsPass
    <3>2. log'[1] = log[1] /\ (pass.of > 0 => log'[pass.of] = log[pass.of])
      BY <1>1, <2>2, <3>1
    <3>. QED
      BY <1>1, <3>2 DEF Walked
  <2>. QED
    BY <2>2, <2>3, <2>4, PartsNext
<1>3. CASE ~Running
  <2>1. log' = <<c>>
    BY <1>3 DEF Publish
  <2>2. IsLog(log') /\ Logged(log') /\ Len(log') = 1
    BY <2>1, OneCommit
  <2>3. pass = NoPass
    BY <1>1, <1>3 DEF IsPass, Running
  <2>. QED
    BY <2>2, <2>3, Rest, PartsNext
<1>. QED
  BY <1>2, <1>3

LEMMA RowRefreshed ==
  ASSUME NEW row \in DerivationRow, NEW isOpen \in BOOLEAN
  PROVE  LET new == [row EXCEPT !.closed = ~isOpen, !.status = IF isOpen THEN @ ELSE "Done"]
         IN  new \in DerivationRow /\ new.origin = row.origin
<1>1. PICK o, s, k : row = [origin |-> o, status |-> s, closed |-> k]
                     /\ o \in {"github", "dolt"} /\ s \in Status /\ k \in BOOLEAN
  BY DEF DerivationRow
<1>. QED
  BY <1>1 DEF DerivationRow, Status

LEMMA ItemReplaced ==
  ASSUME NEW c, IsCommit(c), Origins(c), NEW i \in DOMAIN c.items,
         NEW row \in DerivationRow, row.origin = c.items[i].origin,
         NEW d, d = [items |-> [c.items EXCEPT ![i] = row], deps |-> c.deps]
  PROVE  IsCommit(d) /\ Origins(d) /\ d.deps = c.deps
<1>1. PICK items, deps : items = c.items /\ deps = c.deps
  OBVIOUS
<1>3. d = [items |-> [items EXCEPT ![i] = row], deps |-> deps]
  BY <1>1
<1>4. items \in [DOMAIN items -> DerivationRow] /\ DOMAIN items \subseteq Item
  BY <1>1 DEF IsCommit, IsTable
<1>5. IsTable(d.items, Item, DerivationRow) /\ DOMAIN d.items = DOMAIN items
  <2>1. PICK t : t = [items EXCEPT ![i] = row]
    OBVIOUS
  <2>2. t \in [DOMAIN items -> DerivationRow]
    BY <1>4, <2>1
  <2>3. d = [items |-> t, deps |-> deps]
    BY <1>3, <2>1
  <2>4. d.items = t /\ DOMAIN t = DOMAIN items
    BY ONLY <2>2, <2>3
  <2>. QED
    BY <1>4, <2>2, <2>4 DEF IsTable
<1>6. IsTable(d.deps, Item \X Item, EdgeKind) /\ d = [items |-> d.items, deps |-> d.deps]
  BY <1>1, <1>3 DEF IsCommit
<1>7. Origins(d)
  BY <1>1, <1>3, <1>4 DEF Origins
<1>. QED
  BY <1>1, <1>3, <1>5, <1>6, <1>7 DEF IsCommit

LEMMA DeltaStep ==
  ASSUME IInv, NEW i \in Issue, DeltaSync(i)
  PROVE  IInv'
<1>1. World /\ IsLog(log) /\ Logged(log) /\ Len(log) \in Nat /\ Len(log) > 0
  <2>1. World /\ IsLog(log) /\ Logged(log)
    BY Parts
  <2>. QED
    BY <2>1, LenProperties DEF IsLog
<1>. DEFINE c == log[Latest]
<1>3. IsCommit(c) /\ Origins(c) /\ c.deps = log[1].deps
  BY <1>1 DEF IsLog, Logged, Latest
<1>4. i \in DOMAIN c.items /\ open[i] \in BOOLEAN
  BY <1>1 DEF DeltaSync, World
<1>5. c.items[i] \in DerivationRow
  BY <1>3, <1>4 DEF IsCommit, IsTable
<1>6. PICK row : row = [c.items[i] EXCEPT !.closed = ~open[i], !.status = IF open[i] THEN @ ELSE "Done"]
  OBVIOUS
<1>7. row \in DerivationRow /\ row.origin = c.items[i].origin
  BY <1>4, <1>5, <1>6, RowRefreshed
<1>8. Publish(Refreshed(c, i))
  BY DEF DeltaSync
<1>. HIDE DEF c
<1>9. Refreshed(c, i) = [items |-> [c.items EXCEPT ![i] = row], deps |-> c.deps]
  <2>1. PICK items, deps : items = c.items /\ deps = c.deps
    OBVIOUS
  <2>2. c = [items |-> items, deps |-> deps] /\ i \in DOMAIN items
    BY <1>3, <1>4, <2>1 DEF IsCommit
  <2>3. PICK t : t = [items EXCEPT ![i] = row]
    OBVIOUS
  <2>4. Refreshed(c, i) = [c EXCEPT !.items = t]
    BY <1>6, <2>1, <2>3 DEF Refreshed
  <2>. QED
    BY <2>1, <2>2, <2>3, <2>4
<1>10. IsCommit(Refreshed(c, i)) /\ Origins(Refreshed(c, i)) /\ Refreshed(c, i).deps = c.deps
  BY <1>3, <1>4, <1>7, <1>9, ItemReplaced
<1>11. World' /\ UNCHANGED pass
  BY <1>1, Troubled DEF DeltaSync, World
<1>. QED
  BY <1>3, <1>8, <1>10, <1>11, PublishStep

-------------------------------------------------------------------------------
(* The pass.                                                               *)

LEMMA PassStep ==
  ASSUME IInv, World', UNCHANGED log, IsPass(pass', Len(log)), Walked(pass', log)
  PROVE  IInv'
BY Parts, PartsNext

\* What the invariant says of a pass that runs.
LEMMA PassFacts ==
  ASSUME IInv
  PROVE  /\ IsLog(log) /\ Logged(log) /\ Len(log) \in Nat /\ Len(log) > 0
         /\ IsPass(pass, Len(log)) /\ Walked(pass, log)
         /\ \A n \in 1..Len(log) : IsCommit(log[n]) /\ log[n].deps = log[1].deps
<1>1. IsLog(log) /\ Logged(log)
  BY Parts
<1>. QED
  BY <1>1, LenProperties, Parts DEF IsLog, Logged

LEMMA DispatchStep ==
  ASSUME IInv, World', UNCHANGED log, NEW b \in BOOLEAN, NEW e, e = << >>,
         pass' = [at |-> "itemsHead", apply |-> b, pin |-> 0, of |-> 0,
                  rows |-> e, edges |-> e, todo |-> e]
  PROVE  IInv'
<1>0. /\ IsTable(e, Item, DerivationRow) /\ IsTable(e, Item \X Item, EdgeKind)
      /\ IsTable(e, Issue, Status) /\ DOMAIN e = {}
  BY EmptyTable
<1>1. /\ pass'.at = "itemsHead" /\ pass'.of = 0
      /\ pass'.rows = e /\ pass'.edges = e /\ pass'.todo = e
  OBVIOUS
<1>2. pass' \in [at : At, apply : BOOLEAN, pin : 0..Len(log), of : 0..Len(log),
                 rows : {pass'.rows}, edges : {pass'.edges}, todo : {pass'.todo}]
  <2>1. 0 \in 0..Len(log)
    BY PassFacts
  <2>. QED
    BY <1>1, <2>1 DEF At
<1>3. IsPass(pass', Len(log))
  BY <1>1, <1>2, <1>0 DEF IsPass
<1>4. Walked(pass', log)
  BY <1>1, <1>0 DEF Walked
<1>. QED
  BY <1>3, <1>4, PassStep

LEMMA ResolveStep ==
  ASSUME IInv, ResolveHead
  PROVE  IInv'
<1>1. PICK pin \in {0, Latest} :
        /\ Disturb \/ UNCHANGED trouble
        /\ pass' = [pass EXCEPT !.pin = pin,
                     !.of = IF pass.at = "itemsHead" THEN pin ELSE @,
                     !.at = IF pass.at = "itemsHead" THEN "items" ELSE "edges"]
  BY DEF ResolveHead
<1>2. World' /\ UNCHANGED log /\ pass.at \in {"itemsHead", "edgesHead"}
  BY <1>1, Parts, Troubled DEF ResolveHead, World
<1>3. pin \in 0..Len(log)
  BY PassFacts DEF Latest
<1>4. /\ pass'.pin = pin /\ pass'.rows = pass.rows /\ pass'.edges = pass.edges /\ pass'.todo = pass.todo
      /\ pass.at = "itemsHead" => pass'.at = "items" /\ pass'.of = pin
      /\ pass.at = "edgesHead" => pass'.at = "edges" /\ pass'.of = pass.of
  BY <1>1, PassFacts DEF IsPass
<1>5. IsPass(pass', Len(log))
  <2>1. pass' \in [at : At, apply : BOOLEAN, pin : 0..Len(log), of : 0..Len(log),
                   rows : {pass'.rows}, edges : {pass'.edges}, todo : {pass'.todo}]
    BY <1>1, <1>2, <1>3, <1>4, PassFacts DEF IsPass, At
  <2>. QED
    BY <1>2, <1>4, <2>1, PassFacts DEF IsPass
<1>6. Walked(pass', log)
  <2>1. CASE pass.at = "itemsHead"
    <3>1. DOMAIN pass'.rows = {} /\ DOMAIN pass'.edges = {}
      BY <1>4, <2>1, PassFacts DEF Walked
    <3>. QED
      BY <1>4, <2>1, <3>1 DEF Walked, Prefix
  <2>2. CASE pass.at = "edgesHead"
    <3>1. DOMAIN pass'.edges = {} /\ (pass'.of > 0 => pass'.rows = log[pass'.of].items)
      BY <1>4, <2>2, PassFacts DEF Walked
    <3>. QED
      BY <1>4, <2>2, <3>1 DEF Walked, Prefix
  <2>. QED
    BY <1>2, <2>1, <2>2
<1>. QED
  BY <1>2, <1>5, <1>6, PassStep

LEMMA SeenIsCommit ==
  ASSUME IInv
  PROVE  /\ IsCommit(Seen) /\ Seen.deps = log[1].deps
         /\ pass.pin > 0 => Seen = log[pass.pin]
<1>1. pass.pin \in 0..Len(log) /\ Latest \in 1..Len(log)
  BY PassFacts DEF IsPass, Latest
<1>2. PICK n \in 1..Len(log) : Seen = log[n] /\ (pass.pin > 0 => n = pass.pin)
  BY <1>1, PassFacts DEF Seen
<1>. QED
  BY <1>2, PassFacts

LEMMA ItemsStep ==
  ASSUME IInv, ReadItems
  PROVE  IInv'
<1>. DEFINE page == PageOf(Seen.items, pass.rows, ItemOrder)
<1>1. /\ pass.at = "items" /\ World' /\ UNCHANGED log
      /\ pass' = [pass EXCEPT !.rows = Merge(pass.rows, page),
                   !.at = IF Cardinality(DOMAIN page) < PAGE_ROWS THEN "edgesHead" ELSE pass.at]
  BY Parts DEF ReadItems, World
<1>2. IsTable(page, Item, DerivationRow)
  BY SeenIsCommit, PageTable DEF IsCommit
<1>3. pass.at = "items" /\ pass.pin = pass.of /\ pass.of > 0 => 
        /\ Seen = log[pass.of]
        /\ Prefix(pass.rows, Seen.items, ItemOrder)
        /\ Prefix(Merge(pass.rows, page), Seen.items, ItemOrder)
        /\ Cardinality(DOMAIN page) < PAGE_ROWS
             => DOMAIN Merge(pass.rows, page) = DOMAIN Seen.items
  <2>. SUFFICES ASSUME pass.at = "items", pass.pin = pass.of, pass.of > 0
                PROVE  /\ Seen = log[pass.of]
                       /\ Prefix(pass.rows, Seen.items, ItemOrder)
                       /\ Prefix(Merge(pass.rows, page), Seen.items, ItemOrder)
                       /\ Cardinality(DOMAIN page) < PAGE_ROWS
                            => DOMAIN Merge(pass.rows, page) = DOMAIN Seen.items
    OBVIOUS
  <2>1. Seen = log[pass.of]
    BY SeenIsCommit
  <2>2. Prefix(pass.rows, Seen.items, ItemOrder)
    BY <2>1, PassFacts DEF Walked
  <2>3. IsFiniteSet(DOMAIN Seen.items) /\ Orders(ItemOrder, DOMAIN Seen.items)
    <3>1. DOMAIN Seen.items \subseteq Item
      BY SeenIsCommit DEF IsCommit, IsTable
    <3>. QED
      BY <3>1, SeenIsCommit, CommitsFinite, ItemsOrdered DEF Orders
  <2>. QED
    BY <2>1, <2>2, <2>3, PageExtends
<1>. HIDE DEF page
<1>4. PICK rows, end : rows = Merge(pass.rows, page) /\ end = (Cardinality(DOMAIN page) < PAGE_ROWS)
  OBVIOUS
<1>5. /\ pass'.rows = rows /\ pass'.edges = pass.edges /\ pass'.todo = pass.todo
      /\ pass'.pin = pass.pin /\ pass'.of = pass.of
      /\ pass'.at = IF end THEN "edgesHead" ELSE "items"
  BY <1>1, <1>4, PassFacts DEF IsPass
<1>6. IsTable(rows, Item, DerivationRow)
  BY <1>2, <1>4, PassFacts, MergeTable DEF IsPass
<1>7. IsPass(pass', Len(log))
  <2>1. pass' \in [at : At, apply : BOOLEAN, pin : 0..Len(log), of : 0..Len(log),
                   rows : {pass'.rows}, edges : {pass'.edges}, todo : {pass'.todo}]
    BY <1>1, <1>5, PassFacts DEF IsPass, At
  <2>. QED
    BY <1>5, <1>6, <2>1, PassFacts DEF IsPass
<1>8. Walked(pass', log)
  <2>1. pass.at = "items" /\ pass.pin = pass.of /\ DOMAIN pass.edges = {}
    BY <1>1, PassFacts DEF Walked
  <2>2. pass.of > 0 => Prefix(rows, log[pass.of].items, ItemOrder)
    BY <1>3, <1>4, <2>1
  <2>3. pass.of > 0 /\ end => rows = log[pass.of].items
    <3>. SUFFICES ASSUME pass.of > 0, end PROVE rows = log[pass.of].items
      OBVIOUS
    <3>1. PICK items : items = log[pass.of].items
      OBVIOUS
    <3>2. DOMAIN rows = DOMAIN items /\ \A x \in DOMAIN rows : rows[x] = items[x]
      BY <1>3, <1>4, <2>1, <2>2, <3>1 DEF Prefix
    <3>3. IsTable(items, Item, DerivationRow)
      BY <1>3, <2>1, <3>1, SeenIsCommit DEF IsCommit
    <3>. QED
      BY <1>6, <3>1, <3>2, <3>3 DEF IsTable
  <2>. QED
    BY <1>5, <2>1, <2>2, <2>3 DEF Walked
<1>. QED
  BY <1>1, <1>7, <1>8, PassStep

LEMMA EdgesStep ==
  ASSUME IInv, ReadEdges
  PROVE  IInv'
<1>. DEFINE page == PageOf(Seen.deps, pass.edges, EdgeOrder)
<1>1. /\ pass.at = "edges" /\ World' /\ UNCHANGED log
      /\ pass' = [pass EXCEPT !.edges = Merge(pass.edges, page),
                   !.at = IF Cardinality(DOMAIN page) < PAGE_ROWS THEN "board" ELSE pass.at]
  BY Parts DEF ReadEdges, World
<1>2. PICK deps : deps = log[1].deps /\ Seen.deps = deps /\ IsTable(deps, Item \X Item, EdgeKind)
  BY SeenIsCommit DEF IsCommit
<1>3. IsTable(page, Item \X Item, EdgeKind)
  BY <1>2, PageTable
<1>4. /\ Prefix(Merge(pass.edges, page), deps, EdgeOrder)
      /\ Cardinality(DOMAIN page) < PAGE_ROWS => DOMAIN Merge(pass.edges, page) = DOMAIN deps
  <2>1. Prefix(pass.edges, deps, EdgeOrder)
    BY <1>1, <1>2, PassFacts DEF Walked
  <2>2. IsFiniteSet(DOMAIN deps) /\ Orders(EdgeOrder, DOMAIN deps)
    <3>1. DOMAIN deps \subseteq Item \X Item
      BY <1>2 DEF IsTable
    <3>2. IsFiniteSet(DOMAIN deps)
      BY <1>2, SeenIsCommit, CommitsFinite
    <3>. QED
      BY <3>1, <3>2, EdgesOrdered DEF Orders
  <2>. QED
    BY <1>2, <2>1, <2>2, PageExtends
<1>. HIDE DEF page
<1>5. PICK edges, end : edges = Merge(pass.edges, page) /\ end = (Cardinality(DOMAIN page) < PAGE_ROWS)
  OBVIOUS
<1>6. /\ pass'.edges = edges /\ pass'.rows = pass.rows /\ pass'.todo = pass.todo
      /\ pass'.pin = pass.pin /\ pass'.of = pass.of
      /\ pass'.at = IF end THEN "board" ELSE "edges"
  BY <1>1, <1>5, PassFacts DEF IsPass
<1>7. IsTable(edges, Item \X Item, EdgeKind)
  BY <1>3, <1>5, PassFacts, MergeTable DEF IsPass
<1>8. IsPass(pass', Len(log))
  <2>1. pass' \in [at : At, apply : BOOLEAN, pin : 0..Len(log), of : 0..Len(log),
                   rows : {pass'.rows}, edges : {pass'.edges}, todo : {pass'.todo}]
    BY <1>1, <1>6, PassFacts DEF IsPass, At
  <2>. QED
    BY <1>6, <1>7, <2>1, PassFacts DEF IsPass
<1>9. Walked(pass', log)
  <2>1. pass.of > 0 => pass.rows = log[pass.of].items
    BY <1>1, PassFacts DEF Walked
  <2>2. Prefix(edges, deps, EdgeOrder)
    BY <1>4, <1>5
  <2>3. end => edges = deps
    <3>1. end => DOMAIN edges = DOMAIN deps /\ \A x \in DOMAIN edges : edges[x] = deps[x]
      BY <1>4, <1>5, <2>2 DEF Prefix
    <3>. QED
      BY <1>2, <1>7, <3>1 DEF IsTable
  <2>. QED
    BY <1>2, <1>6, <2>1, <2>2, <2>3 DEF Walked
<1>. QED
  BY <1>1, <1>8, <1>9, PassStep

\* Whatever was read, what is planned is for issues, and a column.
LEMMA PlanIsTable ==
  ASSUME NEW rows, NEW edges
  PROVE  IsTable(PlanWriteback(rows, edges), Issue, Status)
<1>. DEFINE to(i) == DeriveStatus(rows[i], OpenBlockersOf(edges, OpenIdsOf(rows), i), card[i])
            moved == {i \in DOMAIN rows \cap Issue : card[i] # Null /\ to(i) \notin {Null, card[i]}}
<1>1. PlanWriteback(rows, edges) = [i \in moved |-> to(i)]
  BY DEF PlanWriteback
<1>2. \A i \in moved : to(i) \in Status
  BY DEF DeriveStatus, Status
<1>3. moved \subseteq Issue
  OBVIOUS
<1>. HIDE DEF moved, to
<1>. QED
  BY <1>1, <1>2, <1>3 DEF IsTable

LEMMA PlanStep ==
  ASSUME IInv, Plan
  PROVE  IInv'
<1>1. PICK todo : todo = PlanWriteback(pass.rows, pass.edges) /\ IsTable(todo, Issue, Status)
  BY PlanIsTable
<1>2. /\ pass.at = "board" /\ World'
      /\ \/ pass' = [pass EXCEPT !.at = "writing", !.todo = todo] /\ UNCHANGED log
         \/ Stops
  BY <1>1, Parts DEF Plan, World
<1>3. CASE Stops
  BY <1>2, <1>3, Stopped
<1>4. CASE pass' = [pass EXCEPT !.at = "writing", !.todo = todo] /\ UNCHANGED log
  <2>1. /\ pass'.edges = pass.edges /\ pass'.rows = pass.rows /\ pass'.todo = todo
        /\ pass'.pin = pass.pin /\ pass'.of = pass.of /\ pass'.at = "writing"
    BY <1>4, PassFacts DEF IsPass
  <2>2. IsPass(pass', Len(log))
    <3>1. pass' \in [at : At, apply : BOOLEAN, pin : 0..Len(log), of : 0..Len(log),
                     rows : {pass'.rows}, edges : {pass'.edges}, todo : {pass'.todo}]
      BY <1>4, <2>1, PassFacts DEF IsPass, At
    <3>. QED
      BY <1>1, <2>1, <3>1, PassFacts DEF IsPass
  <2>3. Walked(pass', log)
    BY <2>1 DEF Walked
  <2>. QED
    BY <1>2, <1>4, <2>2, <2>3, PassStep
<1>. QED
  BY <1>2, <1>3, <1>4

LEMMA WriteStep ==
  ASSUME IInv, NEW i \in Issue, Write(i)
  PROVE  IInv'
<1>1. pass.at = "writing" /\ i \in DOMAIN pass.todo /\ IsTable(pass.todo, Issue, Status)
  BY PassFacts DEF Write, IsPass
<1>2. World'
  <2>1. pass.todo[i] \in Status
    BY <1>1 DEF IsTable
  <2>2. UNCHANGED <<open, links>> /\ (Disturb \/ UNCHANGED trouble)
        /\ (card' = [card EXCEPT ![i] = pass.todo[i]] \/ UNCHANGED card)
    BY DEF Write
  <2>3. World
    BY Parts
  <2>. QED
    BY <2>1, <2>2, <2>3, Troubled DEF World
<1>3. PICK todo : todo = Restrict(pass.todo, DOMAIN pass.todo \ {i}) /\ IsTable(todo, Issue, Status)
  BY <1>1, RestrictTable
<1>4. Stops \/ (pass' = [pass EXCEPT !.todo = todo] /\ UNCHANGED log)
  BY <1>3 DEF Write
<1>5. CASE Stops
  BY <1>2, <1>5, Stopped
<1>6. CASE pass' = [pass EXCEPT !.todo = todo] /\ UNCHANGED log
  <2>1. /\ pass'.edges = pass.edges /\ pass'.rows = pass.rows /\ pass'.todo = todo
        /\ pass'.pin = pass.pin /\ pass'.of = pass.of /\ pass'.at = "writing"
    BY <1>1, <1>6, PassFacts DEF IsPass
  <2>2. IsPass(pass', Len(log))
    <3>1. pass' \in [at : At, apply : BOOLEAN, pin : 0..Len(log), of : 0..Len(log),
                     rows : {pass'.rows}, edges : {pass'.edges}, todo : {pass'.todo}]
      BY <1>6, <2>1, PassFacts DEF IsPass, At
    <3>. QED
      BY <1>3, <2>1, <3>1, PassFacts DEF IsPass
  <2>3. Walked(pass', log)
    BY <2>1 DEF Walked
  <2>. QED
    BY <1>2, <1>6, <2>2, <2>3, PassStep
<1>. QED
  BY <1>4, <1>5, <1>6

LEMMA NextKeeps == IInv /\ [Next]_vars => IInv'
<1>. SUFFICES ASSUME IInv, [Next]_vars PROVE IInv'
  OBVIOUS
<1>1. World
  BY Parts
<1>2. ASSUME NEW i \in Issue, CloseOrReopen(i) PROVE IInv'
  <2>1. World' /\ UNCHANGED <<log, pass>>
    BY <1>1, <1>2, Troubled DEF CloseOrReopen, World
  <2>. QED
    BY <2>1, PeopleStep
<1>3. ASSUME NEW i \in Issue, NEW s \in Status \cup {Null}, Drag(i, s) PROVE IInv'
  <2>1. World' /\ UNCHANGED <<log, pass>>
    BY <1>1, <1>3, Troubled DEF Drag, World
  <2>. QED
    BY <2>1, PeopleStep
<1>4. ASSUME NEW g \in Graphs, Relate(g) PROVE IInv'
  <2>1. World' /\ UNCHANGED <<log, pass>>
    BY <1>1, <1>4, Troubled DEF Relate, World
  <2>. QED
    BY <2>1, PeopleStep
<1>5. CASE FullSync
  <2>1. World' /\ UNCHANGED pass /\ Publish(Mirrored) /\ ~Running
    BY <1>1, <1>5 DEF FullSync, World
  <2>. QED
    BY <1>1, <2>1, MirroredIsCommit, PublishStep
<1>6. CASE Dispatch
  <2>1. World' /\ UNCHANGED log
    BY <1>1, <1>6 DEF Dispatch, World
  <2>2. PICK e : e = << >>
    OBVIOUS
  <2>3. pass' = [at |-> "itemsHead", apply |-> TRUE, pin |-> 0, of |-> 0,
                 rows |-> e, edges |-> e, todo |-> e]
    BY <1>6, <2>2 DEF Dispatch, NoPass
  <2>. QED
    BY <2>1, <2>2, <2>3, DispatchStep
<1>7. CASE DispatchDryRun
  <2>1. World' /\ UNCHANGED log
    BY <1>1, <1>7, Troubled DEF DispatchDryRun, World
  <2>2. PICK e : e = << >>
    OBVIOUS
  <2>3. pass' = [at |-> "itemsHead", apply |-> FALSE, pin |-> 0, of |-> 0,
                 rows |-> e, edges |-> e, todo |-> e]
    BY <1>7, <2>2 DEF DispatchDryRun, NoPass
  <2>. QED
    BY <2>1, <2>2, <2>3, DispatchStep
<1>8. CASE PassFails
  <2>1. World' /\ Stops
    BY <1>1, <1>8, Troubled DEF PassFails, World
  <2>. QED
    BY <2>1, Stopped
<1>9. CASE UNCHANGED vars
  <2>1. World' /\ UNCHANGED <<log, pass>>
    BY <1>1, <1>9 DEF vars, World
  <2>. QED
    BY <2>1, PeopleStep
<1>. QED
  BY <1>2, <1>3, <1>4, <1>5, <1>6, <1>7, <1>8, <1>9, DeltaStep, ResolveStep, ItemsStep, EdgesStep,
     PlanStep, WriteStep DEF Next, PassProgress

LEMMA InvHolds == Spec => []IInv
BY InitHolds, NextKeeps, PTL DEF Spec

-------------------------------------------------------------------------------
(* The theorems.                                                           *)

\* Type correctness: the mirror's commits stay tables of derivation rows and of
\* edges, and what a pass plans to write is a column, for an issue
\* (planWriteback skips the rows the derivation leaves alone).
THEOREM TypeCorrect == Spec => []TypeOK
BY InvHolds, PTL DEF IInv

\* An open gating dependency is counted exactly when there is one.
LEMMA BlockersCounted ==
  ASSUME NEW items, NEW deps, IsTable(items, Item, DerivationRow),
         IsTable(deps, Item \X Item, EdgeKind), NEW i \in Item
  PROVE  OpenBlockersOf(deps, OpenIdsOf(items), i) > 0
           <=> \E p \in DOMAIN deps :
                 /\ p[1] = i /\ deps[p] # "closes"
                 /\ p[2] \in DOMAIN items /\ ~items[p[2]].closed /\ items[p[2]].status # "Done"
<1>. DEFINE open_ == OpenIdsOf(items)
            those == {j \in open_ : <<i, j>> \in Gates(deps)}
<1>1. open_ = {j \in DOMAIN items : items[j].status # "Done" /\ ~items[j].closed}
  BY DEF OpenIdsOf
<1>2. IsFiniteSet(those)
  <2>1. those \subseteq Item
    BY <1>1 DEF IsTable
  <2>. QED
    BY <2>1, SchedulingAssumption, FS_Subset
<1>3. OpenBlockersOf(deps, OpenIdsOf(items), i) > 0 <=> those # {}
  <2>1. OpenBlockersOf(deps, OpenIdsOf(items), i) = Cardinality(those)
    BY DEF OpenBlockersOf
  <2>. HIDE DEF those
  <2>. QED
    BY <1>2, <2>1, FS_CardinalityType, FS_EmptySet
<1>4. \A p \in DOMAIN deps : p = <<p[1], p[2]>> /\ deps[p] \in EdgeKind
  BY DEF IsTable
<1>5. \A p \in DOMAIN deps : deps[p] # "closes" <=> p \in Gates(deps)
  BY <1>4 DEF Gates, EdgeKind, BLOCKER_KINDS
<1>6. Gates(deps) \subseteq DOMAIN deps
  BY DEF Gates
<1>7. ASSUME NEW j \in those
      PROVE  \E p \in DOMAIN deps : p[1] = i /\ deps[p] # "closes" /\ p[2] \in open_
  <2>1. PICK p : p = <<i, j>>
    OBVIOUS
  <2>2. p \in DOMAIN deps /\ deps[p] # "closes"
    BY <1>5, <1>6, <2>1
  <2>. QED
    BY <2>1, <2>2
<1>8. ASSUME NEW p \in DOMAIN deps, p[1] = i, deps[p] # "closes", p[2] \in open_
      PROVE  those # {}
  <2>1. <<i, p[2]>> \in Gates(deps)
    BY <1>4, <1>5, <1>8
  <2>. QED
    BY <1>8, <2>1
<1>. HIDE DEF those
<1>9. those # {} <=> \E p \in DOMAIN deps : p[1] = i /\ deps[p] # "closes" /\ p[2] \in open_
  BY <1>7, <1>8
<1>. QED
  BY <1>1, <1>3, <1>9

\* What is planned from one board, card by card.
LEMMA PlanOfBoard ==
  ASSUME World, NEW c, IsCommit(c), Origins(c), NEW i \in Issue \cap DOMAIN c.items, card[i] # Null,
         NEW waits \in BOOLEAN, waits <=> OpenBlockersOf(c.deps, OpenIdsOf(c.items), i) > 0
  PROVE  LET todo == PlanWriteback(c.items, c.deps)
             right == IF c.items[i].closed THEN {"Done"} ELSE IF waits THEN {"Blocked"}
                      ELSE {"Todo", "In Progress"}
         IN  IF card[i] \in right THEN i \notin DOMAIN todo
             ELSE i \in DOMAIN todo /\ todo[i] \in right \ {"In Progress"}
<1>. DEFINE to(j) == DeriveStatus(c.items[j], OpenBlockersOf(c.deps, OpenIdsOf(c.items), j), card[j])
            moved == {j \in DOMAIN c.items \cap Issue : card[j] # Null /\ to(j) \notin {Null, card[j]}}
            todo == PlanWriteback(c.items, c.deps)
            right == IF c.items[i].closed THEN {"Done"} ELSE IF waits THEN {"Blocked"}
                     ELSE {"Todo", "In Progress"}
<1>1. todo = [j \in moved |-> to(j)]
  BY DEF PlanWriteback
<1>2. c.items[i].origin = "github" /\ card[i] \in Status /\ Null \notin Status
  BY WritebackAssumption DEF Origins, World
<1>3. to(i) = IF c.items[i].closed THEN "Done" ELSE IF waits THEN "Blocked"
              ELSE IF card[i] = "In Progress" THEN Null ELSE "Todo"
  BY <1>2 DEF DeriveStatus
<1>4. i \in moved <=> to(i) \notin {Null, card[i]}
  OBVIOUS
<1>5. i \in DOMAIN todo <=> i \in moved
  BY <1>1
<1>6. i \in DOMAIN todo => todo[i] = to(i)
  BY <1>1
<1>. HIDE DEF moved, to
<1>7. Null \notin {"Done", "Blocked", "Todo"}
  BY <1>2 DEF Status
<1>8. CASE c.items[i].closed
  BY <1>2, <1>3, <1>4, <1>5, <1>6, <1>7, <1>8
<1>9. CASE ~c.items[i].closed /\ waits
  BY <1>2, <1>3, <1>4, <1>5, <1>6, <1>7, <1>9
<1>10. CASE ~c.items[i].closed /\ ~waits
  BY <1>2, <1>3, <1>4, <1>5, <1>6, <1>7, <1>10
<1>. QED
  BY <1>8, <1>9, <1>10

\* What a pass plans is what one commit of the mirror says, the one its items
\* are of, about every card: no delta tears the two walks apart, and no page
\* boundary drops a row or an edge (dolthub.ts readPaged, status-writeback.ts).
THEOREM PlansAreOfOneBoard == Spec => PlanIsOneBoard
<1>1. ASSUME IInv, [Next]_vars, pass.at = "board", pass'.at = "writing", pass.of > 0
      PROVE  LET c == log[pass.of]
                 live(j) == j \in DOMAIN c.items /\ ~c.items[j].closed /\ c.items[j].status # "Done"
                 waits(i) == \E p \in DOMAIN c.deps : p[1] = i /\ c.deps[p] # "closes" /\ live(p[2])
                 right(i) == IF c.items[i].closed THEN {"Done"} ELSE IF waits(i) THEN {"Blocked"}
                             ELSE {"Todo", "In Progress"}
             IN  \A i \in Issue \cap DOMAIN c.items :
                   card[i] # Null =>
                     IF card[i] \in right(i) THEN i \notin DOMAIN pass'.todo
                     ELSE i \in DOMAIN pass'.todo /\ pass'.todo[i] \in right(i) \ {"In Progress"}
  <2>1. PICK c : c = log[pass.of]
    OBVIOUS
  <2>2. IsCommit(c) /\ Origins(c) /\ pass.rows = c.items /\ pass.edges = c.deps
    <3>1. pass.of \in 1..Len(log)
      BY <1>1, PassFacts DEF IsPass
    <3>2. pass.rows = c.items /\ pass.edges = log[1].deps
      BY <1>1, <2>1, PassFacts DEF Walked
    <3>. QED
      BY <1>1, <2>1, <3>1, <3>2, PassFacts DEF Logged
  <2>3. Plan
    BY <1>1 DEF Next, vars, PassProgress, CloseOrReopen, DeltaSync, Drag, Relate, FullSync,
       Dispatch, DispatchDryRun, ResolveHead, ReadItems, ReadEdges, Write, PassFails, Stops,
       NoPass, Running
  <2>4. PICK todo : todo = PlanWriteback(c.items, c.deps)
    OBVIOUS
  <2>5. pass'.todo = todo
    <3>1. NoPass.at = "idle"
      BY DEF NoPass
    <3>2. pass' = [pass EXCEPT !.at = "writing", !.todo = todo]
      BY <1>1, <2>2, <2>3, <2>4, <3>1 DEF Plan, Stops
    <3>. QED
      BY <1>1, <3>2, PassFacts DEF IsPass
  <2>6. World
    BY <1>1, Parts
  <2>. SUFFICES ASSUME NEW i \in Issue \cap DOMAIN c.items, card[i] # Null
                PROVE  LET live(j) == j \in DOMAIN c.items /\ ~c.items[j].closed
                                      /\ c.items[j].status # "Done"
                           waits == \E p \in DOMAIN c.deps :
                                      p[1] = i /\ c.deps[p] # "closes" /\ live(p[2])
                           right == IF c.items[i].closed THEN {"Done"} ELSE IF waits THEN {"Blocked"}
                                    ELSE {"Todo", "In Progress"}
                       IN  IF card[i] \in right THEN i \notin DOMAIN todo
                           ELSE i \in DOMAIN todo /\ todo[i] \in right \ {"In Progress"}
    BY <2>1, <2>5
  <2>7. PICK waits \in BOOLEAN :
          waits = \E p \in DOMAIN c.deps :
                    /\ p[1] = i /\ c.deps[p] # "closes"
                    /\ p[2] \in DOMAIN c.items /\ ~c.items[p[2]].closed /\ c.items[p[2]].status # "Done"
    OBVIOUS
  <2>8. waits <=> OpenBlockersOf(c.deps, OpenIdsOf(c.items), i) > 0
    <3>1. i \in Item /\ IsTable(c.items, Item, DerivationRow) /\ IsTable(c.deps, Item \X Item, EdgeKind)
      BY <2>2 DEF IsCommit, Issue
    <3>. QED
      BY <2>7, <3>1, BlockersCounted
  <2>9. LET right == IF c.items[i].closed THEN {"Done"} ELSE IF waits THEN {"Blocked"}
                     ELSE {"Todo", "In Progress"}
        IN  IF card[i] \in right THEN i \notin DOMAIN todo
            ELSE i \in DOMAIN todo /\ todo[i] \in right \ {"In Progress"}
    BY <2>2, <2>4, <2>6, <2>8, PlanOfBoard
  <2>. QED
    BY <2>7, <2>9
<1>. QED
  BY <1>1, InvHolds, PTL DEF Spec, PlanIsOneBoard
=============================================================================

--------------------------- MODULE ReadyQueueProofs ---------------------------
(***************************************************************************)
(* Theorems about ReadyQueue, for any boards and requests, any size of a   *)
(* page, of the window and of the row cap, and any number of commits,      *)
(* leases and failures during a call.                                      *)
(*                                                                         *)
(* The argument.  The log only grows while a call is under way, so what a  *)
(* query saw stays true of the commit it saw; a pin is the commit of every *)
(* table read (Pinned), hence what is assembled from them is one board --  *)
(* but for the leases of a server, which are those of its working set.     *)
(* What a lease object answered was so at some time since the call began   *)
(* (Observed, Refused).  The pages of a listing are in the order of the    *)
(* key and hold every lasting row up to the last key read (Walked), which  *)
(* is what a walk by key keeps and a walk by offset does not.  The rest is *)
(* about the operators: elements of a finite total order have the ranks    *)
(* 0, 1, ..., so a ranking lists every item once, best first.              *)
(***************************************************************************)
EXTENDS ReadyQueue, FiniteSetTheorems, SequenceTheorems, TLAPS

-------------------------------------------------------------------------------
(* The operators of a call, said of a request and of what its queries saw. *)

SelectorOf(req) == ParseItemSelector(req.item, req.repo)

ScheduledOf(req, items, deps) ==
  IF ResolveReads(req.env) = "local" THEN ReadMirrorScheduling(items, deps)
                                     ELSE AssembleScheduling(items, deps)

ScopedOf(req, items, deps, leased) ==
  LET x == ScheduledOf(req, items, deps)
  IN  [i \in {j \in DOMAIN x : /\ req.repo = Null \/ items[j].repo = req.repo
                               /\ req.verb = "graph" \/ j \notin leased} |-> x[i]]

NamedOf(req, items, deps) ==
  {i \in DOMAIN ScheduledOf(req, items, deps) : SelectorMatches(SelectorOf(req), i, items[i])}

CandidatesOf(req, items, deps, leased) ==
  IF req.item = Null
  THEN LET x == ScopedOf(req, items, deps, leased) IN RankingOf(x, Eligible(x))
  ELSE SetToSeq({i \in NamedOf(req, items, deps) : IsEligible(ScheduledOf(req, items, deps)[i])})

\* The lease rows, and the candidates, of a call c over a log l.
LeasedIn(c, l) == IF ResolveReads(c.req.env) = "dolthub" THEN l[c.seen["leases"]].leases ELSE c.leased

CandidatesIn(c, l) ==
  CandidatesOf(c.req, l[c.seen["items"]].items, l[c.seen["deps"]].deps, LeasedIn(c, l))

\* The rows a listing is of, and what it has of them.
RowsFor(b, req) ==
  LET scope == IF req.verb = "list" THEN req.repo
               ELSE IF SelectorOf(req).form = "id" THEN Null ELSE SelectorOf(req).repo
  IN  {i \in DOMAIN b.items : scope \in {Null, b.items[i].repo}}

Lasting(l, req) == {i \in Item : \A c \in 1..Len(l) : i \in RowsFor(l[c], req)}

Ids(listed) == {listed[n][1] : n \in 1..Len(listed)}

EndOf(listed) == IF listed = <<>> THEN 0 ELSE listed[Len(listed)][1]

-------------------------------------------------------------------------------
(* The inductive invariant.                                                *)

World ==
  /\ log \in Seq(Commits) /\ Len(log) \in 1..(trouble + 1) /\ working \subseteq Item
  /\ held \subseteq Item /\ wasHeld \subseteq Item /\ wasFree \subseteq Item
  /\ trouble \in 0..MaxTrouble

At == {"idle", "head", "tables", "listHead", "pages", "listEdges", "done"}

IsCall(c, n) ==
  /\ c \in [at : At, req : Requests \cup {Null}, pin : 0..n, leased : SUBSET Item, seen : [Tables -> 0..n],
            listed : Seq(Item \X (1..n)), tried : Nat, probed : {c.probed}]
  /\ c.at # "idle" => c.req \in Requests
  /\ DOMAIN c.probed \subseteq Item
  /\ \A i \in DOMAIN c.probed : c.probed[i] \in {"held", "free", "failed"}

\* A pin is the commit of every table read so far, and never a clone's.
Pinned(c) ==
  /\ c.at \in {"idle", "head", "listHead"} => c.pin = 0
  /\ c.at \in {"tables", "pages", "listEdges"} /\ c.pin > 0 => ResolveReads(c.req.env) # "local"
  /\ c.at = "tables" /\ c.pin > 0 =>
       \A t \in {"items", "deps", "leases"} : c.seen[t] \in {0, c.pin}

\* No row of the named item could be scheduled, on a board that was read.
Unnamed(c, l) ==
  /\ c.req.verb = "claim" /\ c.req.item # Null
  /\ ResolveReads(c.req.env) # "local" =>
       /\ c.seen["items"] > 0
       /\ \A i \in Schedulable(l[c.seen["items"]].items) :
            ~SelectorMatches(SelectorOf(c.req), i, l[c.seen["items"]].items[i])

\* Where a verb can be.
Staged(c, l) ==
  /\ c.at = "idle" => \A t \in Tables : c.seen[t] = 0
  /\ c.at \in {"idle", "head"} =>
       c.tried = 0 /\ DOMAIN c.probed = {} /\ \A t \in {"items", "deps", "leases"} : c.seen[t] = 0
  /\ c.at \in {"idle", "head", "tables", "listHead"} => c.listed = <<>>
  /\ c.at \in {"head", "tables"} => c.req.verb # "list"
  /\ c.at \in {"listHead", "pages"} /\ c.req.verb # "list" => Unnamed(c, l)
  /\ c.at = "pages" => ResolveReads(c.req.env) = "dolthub"
  /\ c.at = "listEdges" => c.req.verb = "list"

\* What the lease objects said was so.
Observed(c, h, wh, wf) ==
  /\ c.at \notin {"idle", "done"} => h \subseteq wh /\ Item \ h \subseteq wf
  /\ \A i \in DOMAIN c.probed : /\ c.probed[i] = "held" => i \in wh
                                /\ c.probed[i] = "free" => i \in wf

\* A claim goes on to the next candidate because the last one was held.
Refused(c, l, wh) ==
  c.at = "tables" /\ c.tried > 0 =>
    /\ \A t \in {"items", "deps", "leases"} : c.seen[t] > 0
    /\ c.tried < Len(CandidatesIn(c, l))
    /\ \A n \in 1..c.tried : CandidatesIn(c, l)[n] \in wh

\* The pages hold, in the order of the key and up to the last of them, every
\* row of the commit they are pinned to, or else every row of all the commits.
IsListing(listed, l, req) ==
  /\ \A m, n \in 1..Len(listed) : m < n => listed[m][1] < listed[n][1]
  /\ \A n \in 1..Len(listed) : listed[n][1] \in RowsFor(l[listed[n][2]], req)

ReadTo(end, listed, l, req, pin) ==
  /\ \A i \in Lasting(l, req) : i <= end => i \in Ids(listed)
  /\ pin > 0 => /\ \A n \in 1..Len(listed) : listed[n][2] = pin
                /\ \A i \in RowsFor(l[pin], req) : i <= end => i \in Ids(listed)

Complete(listed, l, req, pin) ==
  /\ Lasting(l, req) \subseteq Ids(listed)
  /\ pin > 0 => /\ \A n \in 1..Len(listed) : listed[n][2] = pin
                /\ RowsFor(l[pin], req) \subseteq Ids(listed)

Walked(c, l) ==
  /\ c.at \in {"pages", "listEdges"} => IsListing(c.listed, l, c.req)
  /\ c.at = "pages" => ReadTo(EndOf(c.listed), c.listed, l, c.req, c.pin)
  /\ c.at = "listEdges" => Complete(c.listed, l, c.req, c.pin)

Sound(c, l, h, wh, wf) ==
  /\ IsCall(c, Len(l)) /\ Pinned(c) /\ Staged(c, l)
  /\ Observed(c, h, wh, wf) /\ Refused(c, l, wh) /\ Walked(c, l)

IInv == /\ World /\ Sound(call, log, held, wasHeld, wasFree)
        /\ IF call.at = "done" THEN ans.verdict # "none" ELSE ans = NoAnswer

-------------------------------------------------------------------------------
(* Ranks.  In a finite set with a strict total order, the elements have as *)
(* many predecessors as 0, 1, ... up to all the others.                    *)

Orders(order, S) ==
  /\ \A x, y \in S : x = y \/ <<x, y>> \in order \/ <<y, x>> \in order
  /\ \A x \in S : <<x, x>> \notin order
  /\ \A x, y, z \in S : <<x, y>> \in order /\ <<y, z>> \in order => <<x, z>> \in order

Preds(order, S, x) == {y \in S : <<y, x>> \in order}

Rank(order, S, x) == Cardinality(Preds(order, S, x))

\* A one-to-one map between finite sets of one size reaches every element.
LEMMA OneToOneOnto ==
  ASSUME NEW S, NEW T, IsFiniteSet(T), Cardinality(S) = Cardinality(T),
         NEW f \in [S -> T], \A x, y \in S : f[x] = f[y] => x = y
  PROVE  \A t \in T : \E s \in S : f[s] = t
<1>1. f \in Injection(S, T)
  BY DEF Injection, IsInjective
<1>2. f \in Surjection(S, T)
  BY <1>1, FS_Injection
<1>. QED
  BY <1>2 DEF Surjection

\* Predecessors are fewer than the set, and fewer for what comes first.
LEMMA RankBounds ==
  ASSUME NEW S, IsFiniteSet(S), NEW order, Orders(order, S)
  PROVE  /\ Cardinality(S) \in Nat
         /\ \A x \in S : Rank(order, S, x) \in Nat /\ Rank(order, S, x) < Cardinality(S)
         /\ \A x, y \in S : <<y, x>> \in order => Rank(order, S, y) < Rank(order, S, x)
<1>1. ASSUME NEW x \in S, NEW T \in SUBSET S, x \in T, x \notin Preds(order, S, x),
             Preds(order, S, x) \subseteq T
      PROVE  /\ IsFiniteSet(T) /\ IsFiniteSet(Preds(order, S, x))
             /\ Cardinality(T) \in Nat /\ Rank(order, S, x) \in Nat
             /\ Rank(order, S, x) < Cardinality(T)
  <2>1. IsFiniteSet(T)
    BY FS_Subset
  <2>2. Preds(order, S, x) \in SUBSET T /\ Preds(order, S, x) # T
    BY <1>1
  <2>3. IsFiniteSet(Preds(order, S, x)) /\ Rank(order, S, x) <= Cardinality(T)
        /\ Rank(order, S, x) # Cardinality(T)
    BY <2>1, <2>2, FS_Subset DEF Rank
  <2>4. Cardinality(T) \in Nat /\ Rank(order, S, x) \in Nat
    BY <2>1, <2>3, FS_CardinalityType DEF Rank
  <2>. QED
    BY <2>1, <2>3, <2>4
<1>2. \A x \in S : x \notin Preds(order, S, x) /\ Preds(order, S, x) \subseteq S
  BY DEF Preds, Orders
<1>3. \A x \in S : /\ IsFiniteSet(Preds(order, S, x)) /\ Rank(order, S, x) \in Nat
                   /\ Cardinality(S) \in Nat /\ Rank(order, S, x) < Cardinality(S)
  BY <1>1, <1>2
<1>4. ASSUME NEW x \in S, NEW y \in S, <<y, x>> \in order
      PROVE  Rank(order, S, y) < Rank(order, S, x)
  <2>1. y \in Preds(order, S, x) /\ Preds(order, S, y) \subseteq Preds(order, S, x)
    BY <1>4 DEF Preds, Orders
  <2>. QED
    BY <1>1, <1>2, <2>1 DEF Rank
<1>5. Cardinality(S) \in Nat
  BY FS_CardinalityType
<1>. QED
  BY <1>3, <1>4, <1>5

\* Every rank below the size of the set is taken, by one element.
LEMMA RanksTaken ==
  ASSUME NEW S, IsFiniteSet(S), NEW order, Orders(order, S)
  PROVE  /\ \A n \in 0..(Cardinality(S) - 1) : \E x \in S : Rank(order, S, x) = n
         /\ \A x, y \in S : Rank(order, S, x) = Rank(order, S, y) => x = y
<1>. DEFINE T == 0..(Cardinality(S) - 1)
            f == [x \in S |-> Rank(order, S, x)]
<1>1. Cardinality(S) \in Nat
  BY FS_CardinalityType
<1>2. IsFiniteSet(T) /\ Cardinality(T) = Cardinality(S)
  BY <1>1, FS_Interval
<1>3. \A x, y \in S : Rank(order, S, x) = Rank(order, S, y) => x = y
  <2>. SUFFICES ASSUME NEW x \in S, NEW y \in S, x # y
                PROVE  Rank(order, S, x) # Rank(order, S, y)
    OBVIOUS
  <2>1. Rank(order, S, x) < Rank(order, S, y) \/ Rank(order, S, y) < Rank(order, S, x)
    BY RankBounds DEF Orders
  <2>2. Rank(order, S, x) \in Nat /\ Rank(order, S, y) \in Nat
    BY RankBounds
  <2>. QED
    BY <2>1, <2>2
<1>4. f \in [S -> T]
  BY RankBounds
<1>5. \A t \in T : \E s \in S : f[s] = t
  <2>1. \A x, y \in S : f[x] = f[y] => x = y
    BY <1>3
  <2>. HIDE DEF f, T
  <2>. QED
    BY <1>2, <1>4, <2>1, OneToOneOnto
<1>. QED
  BY <1>3, <1>5

\* The first n: nothing left out comes before one of them, and if they are not
\* as many as n, nothing is left out.
LEMMA FirstRanks ==
  ASSUME NEW S, IsFiniteSet(S), NEW order, Orders(order, S), NEW n \in Nat,
         NEW first, first = {x \in S : Rank(order, S, x) < n}
  PROVE  /\ \A x \in S \ first, y \in first : <<y, x>> \in order
         /\ Cardinality(first) < n => first = S
<1>1. /\ \A x \in S : Rank(order, S, x) \in Nat
      /\ \A x, y \in S : <<y, x>> \in order => Rank(order, S, y) < Rank(order, S, x)
  BY RankBounds
<1>2. ASSUME NEW x \in S \ first, NEW y \in first
      PROVE  <<y, x>> \in order
  <2>1. Rank(order, S, y) < n /\ ~(Rank(order, S, x) < n) /\ x # y /\ y \in S
    OBVIOUS
  <2>2. ~(Rank(order, S, x) < Rank(order, S, y))
    BY <1>1, <2>1
  <2>. QED
    BY <1>1, <2>1, <2>2 DEF Orders
<1>3. ASSUME Cardinality(first) < n, NEW x \in S, x \notin first
      PROVE  FALSE
  <2>1. IsFiniteSet(first) /\ Cardinality(first) \in Nat /\ Cardinality(S) \in Nat
    BY FS_Subset, FS_CardinalityType
  <2>2. Cardinality(first) \in 0..(Cardinality(S) - 1)
    BY <1>1, <1>3, <2>1, RankBounds
  <2>3. PICK y \in S : Rank(order, S, y) = Cardinality(first)
    BY <2>2, RanksTaken
  <2>4. y \in first /\ y \notin Preds(order, S, y)
    BY <1>3, <2>3 DEF Preds, Orders
  <2>5. Preds(order, S, y) \subseteq first
    <3>. SUFFICES ASSUME NEW z \in S, <<z, y>> \in order
                  PROVE  Rank(order, S, z) < n
      BY DEF Preds
    <3>1. Rank(order, S, z) < Rank(order, S, y) /\ Rank(order, S, y) < n
      BY <1>1, <2>4
    <3>. QED
      BY <1>1, <3>1
  <2>. QED
    BY <2>1, <2>3, <2>4, <2>5, FS_Subset DEF Rank
<1>. QED
  BY <1>2, <1>3

-------------------------------------------------------------------------------
(* The rows of a page: the least keys, in order.                           *)

LessIn(S) == {p \in S \X S : p[1] < p[2]}

LEMMA NumbersOrdered ==
  ASSUME NEW S \in SUBSET Nat
  PROVE  /\ Orders(LessIn(S), S)
         /\ \A x \in S : {j \in S : j < x} = Preds(LessIn(S), S, x)
         /\ \A x, y \in S : <<x, y>> \in LessIn(S) <=> x < y
<1>1. \A x, y \in S : <<x, y>> \in LessIn(S) <=> x < y
  BY DEF LessIn
<1>2. Orders(LessIn(S), S)
  <2>1. \A x \in S : x \in Nat
    OBVIOUS
  <2>. QED
    BY <1>1, <2>1 DEF Orders
<1>3. \A x \in S : {j \in S : j < x} = Preds(LessIn(S), S, x)
  BY <1>1 DEF Preds
<1>. QED
  BY <1>1, <1>2, <1>3

LEMMA SmallestAre ==
  ASSUME NEW S \in SUBSET Nat, IsFiniteSet(S), NEW n \in Nat, NEW first, first = Smallest(S, n)
  PROVE  /\ first \subseteq S
         /\ \A x \in S \ first, y \in first : y < x
         /\ Cardinality(first) < n => first = S
<1>1. first = {x \in S : Rank(LessIn(S), S, x) < n}
  BY NumbersOrdered DEF Smallest, Rank
<1>. QED
  BY <1>1, NumbersOrdered, FirstRanks

Lists(q, S, c) ==
  /\ q \in Seq(S \X {c}) /\ Len(q) \in Nat
  /\ \A n \in 1..Len(q) : q[n][1] \in S /\ q[n][2] = c
  /\ \A m, n \in 1..Len(q) : m < n => q[m][1] < q[n][1]
  /\ \A i \in S : \E n \in 1..Len(q) : q[n][1] = i

\* InOrder lists every element once, in increasing order.
LEMMA InOrderLists ==
  ASSUME NEW S \in SUBSET Nat, IsFiniteSet(S), NEW c, NEW q, q = InOrder(S, c)
  PROVE  Lists(q, S, c)
<1>. DEFINE k == Cardinality(S)
            nth(n) == CHOOSE i \in S : Cardinality({j \in S : j < i}) = n - 1
            rank(i) == Rank(LessIn(S), S, i)
<1>1. k \in Nat
  BY FS_CardinalityType
<1>2. \A i \in S : Cardinality({j \in S : j < i}) = rank(i)
  BY NumbersOrdered DEF Rank
<1>3. /\ \A i \in S : rank(i) \in Nat /\ rank(i) < k
      /\ \A x, y \in S : y < x => rank(y) < rank(x)
      /\ \A x, y \in S : rank(x) = rank(y) => x = y
      /\ \A n \in 0..(k - 1) : \E x \in S : rank(x) = n
  <2>1. Orders(LessIn(S), S) /\ \A x, y \in S : y < x => <<y, x>> \in LessIn(S)
    BY NumbersOrdered
  <2>2. /\ \A i \in S : rank(i) \in Nat /\ rank(i) < k
        /\ \A x, y \in S : <<y, x>> \in LessIn(S) => rank(y) < rank(x)
    BY <2>1, RankBounds
  <2>3. /\ \A n \in 0..(k - 1) : \E x \in S : rank(x) = n
        /\ \A x, y \in S : rank(x) = rank(y) => x = y
    BY <2>1, RanksTaken
  <2>. HIDE DEF rank, k
  <2>. QED
    BY <2>1, <2>2, <2>3
<1>4. \A n \in 1..k : nth(n) \in S /\ rank(nth(n)) = n - 1
  <2>. TAKE n \in 1..k
  <2>1. n - 1 \in 0..(k - 1)
    BY <1>1
  <2>2. \E i \in S : Cardinality({j \in S : j < i}) = n - 1
    BY <1>2, <1>3, <2>1
  <2>3. nth(n) \in S /\ Cardinality({j \in S : j < nth(n)}) = n - 1
    BY <2>2
  <2>. HIDE DEF nth, rank
  <2>. QED
    BY <1>2, <2>3
<1>. HIDE DEF rank
<1>5. q = [n \in 1..k |-> <<nth(n), c>>]
  BY DEF InOrder
<1>. HIDE DEF nth, k
<1>6. q \in Seq(S \X {c}) /\ Len(q) = k /\ DOMAIN q = 1..k
  <2>1. q \in [1..k -> S \X {c}]
    BY <1>4, <1>5
  <2>. QED
    BY <1>1, <2>1
<1>7. \A n \in 1..k : q[n][1] = nth(n) /\ q[n][2] = c
  BY <1>5
<1>8. ASSUME NEW m \in 1..k, NEW n \in 1..k, m < n
      PROVE  nth(m) < nth(n)
  <2>1. rank(nth(m)) < rank(nth(n)) /\ nth(m) \in S /\ nth(n) \in S
    BY <1>1, <1>4, <1>8
  <2>2. rank(nth(m)) \in Nat /\ rank(nth(n)) \in Nat /\ nth(m) \in Nat /\ nth(n) \in Nat
    BY <1>3, <2>1
  <2>3. ~(nth(n) < nth(m))
    <3>. SUFFICES ASSUME nth(n) < nth(m) PROVE FALSE
      OBVIOUS
    <3>1. rank(nth(n)) < rank(nth(m))
      BY <1>3, <2>1
    <3>. QED
      BY <2>1, <2>2, <3>1
  <2>4. nth(n) # nth(m)
    BY <2>1, <2>2
  <2>. QED
    BY <2>2, <2>3, <2>4
<1>9. ASSUME NEW i \in S
      PROVE  \E n \in 1..k : nth(n) = i
  <2>1. rank(i) + 1 \in 1..k
    BY <1>1, <1>3
  <2>2. rank(nth(rank(i) + 1)) = rank(i) /\ nth(rank(i) + 1) \in S
    <3>1. rank(nth(rank(i) + 1)) = (rank(i) + 1) - 1 /\ nth(rank(i) + 1) \in S
      BY <1>4, <2>1
    <3>. QED
      BY <1>3, <3>1
  <2>. QED
    BY <1>3, <2>1, <2>2
<1>11. \A n \in 1..Len(q) : q[n][1] \in S /\ q[n][2] = c
  BY <1>4, <1>6, <1>7
<1>12. \A m, n \in 1..Len(q) : m < n => q[m][1] < q[n][1]
  BY <1>6, <1>7, <1>8
<1>13. \A i \in S : \E n \in 1..Len(q) : q[n][1] = i
  BY <1>6, <1>7, <1>9
<1>. QED
  BY <1>1, <1>6, <1>11, <1>12, <1>13 DEF Lists

-------------------------------------------------------------------------------
(* The ranking of a board.                                                 *)

LEMMA ScoreIsInteger ==
  ASSUME NEW x \in PriorityInput
  PROVE  Score(x) \in Int
<1>1. /\ x.effort \in Nat /\ x.value \in Nat /\ x.unblocks \in Nat /\ x.ageDays \in Nat
      /\ x.kind \in {"epic", "room", "door", "task"}
  BY DEF PriorityInput
<1>2. FallbackKindWeight[x.kind] \in Nat
  BY <1>1 DEF FallbackKindWeight
<1>3. AtLeast(x.effort, 1) \in Nat \ {0} /\ AtMost(x.ageDays, 180) \in Nat
  BY <1>1 DEF AtLeast, AtMost
<1>4. Unit \in Nat
  BY PolicyAssumption
<1>5. 2 * Unit * x.unblocks \in Int /\ Unit * x.value \in Int /\ Unit * FallbackKindWeight[x.kind] \in Int
  BY <1>1, <1>2, <1>4
<1>6. Unit \div 50 \in Int /\ Unit \div 20 \in Int
  BY <1>4
<1>7. \A a \in Int, b \in Nat \ {0} : a \div b \in Int
  OBVIOUS
<1>8. (Unit * x.value) \div AtLeast(x.effort, 1) \in Int
  BY <1>3, <1>5, <1>7
<1>9. (Unit \div 50) * AtMost(x.ageDays, 180) \in Int /\ (Unit \div 20) * AtLeast(x.effort, 1) \in Int
  <2>1. \A a, b \in Int : a * b \in Int
    OBVIOUS
  <2>. QED
    BY <1>3, <1>6, <2>1
<1>. QED
  BY <1>5, <1>8, <1>9 DEF Score

BeforeIn(x, S) == {p \in S \X S : p[1] # p[2] /\ Before(x, p[1], p[2])}

LEMMA BoardOrdered ==
  ASSUME NEW S \in SUBSET Nat, NEW x \in [S -> PriorityInput]
  PROVE  /\ Orders(BeforeIn(x, S), S)
         /\ \A i \in S : Place(x, i) = Rank(BeforeIn(x, S), S, i) + 1
<1>1. \A i, j \in S : <<i, j>> \in BeforeIn(x, S) <=> i # j /\ Before(x, i, j)
  BY DEF BeforeIn
<1>2. \A i \in S : Score(x[i]) \in Int /\ x[i].effort \in Nat /\ i \in Nat
  BY ScoreIsInteger DEF PriorityInput
<1>3. \A i, j \in S :
        Before(x, i, j) <=>
          \/ Score(x[i]) > Score(x[j])
          \/ Score(x[i]) = Score(x[j]) /\ x[i].effort < x[j].effort
          \/ Score(x[i]) = Score(x[j]) /\ x[i].effort = x[j].effort /\ i < j
  BY DEF Before
<1>4. Orders(BeforeIn(x, S), S)
  <2>1. ASSUME NEW i \in S, NEW j \in S
        PROVE  /\ i = j \/ Before(x, i, j) \/ Before(x, j, i)
               /\ i # j => ~(Before(x, i, j) /\ Before(x, j, i))
    BY <1>2, <1>3
  <2>2. ASSUME NEW i \in S, NEW j \in S, NEW h \in S, Before(x, i, j), Before(x, j, h)
        PROVE  Before(x, i, h)
    BY <1>2, <1>3, <2>2
  <2>3. \A i \in S : <<i, i>> \notin BeforeIn(x, S)
    BY <1>1
  <2>4. \A i, j \in S : i = j \/ <<i, j>> \in BeforeIn(x, S) \/ <<j, i>> \in BeforeIn(x, S)
    BY <1>1, <2>1
  <2>5. \A i, j, h \in S :
          <<i, j>> \in BeforeIn(x, S) /\ <<j, h>> \in BeforeIn(x, S) => <<i, h>> \in BeforeIn(x, S)
    BY <1>1, <2>1, <2>2
  <2>. QED
    BY <2>3, <2>4, <2>5 DEF Orders
<1>5. \A i \in S : {j \in DOMAIN x : j # i /\ Before(x, j, i)} = Preds(BeforeIn(x, S), S, i)
  BY <1>1 DEF Preds
<1>. QED
  BY <1>4, <1>5 DEF Place, Rank

\* Every element of S, once each.
ListsOnce(s, S) ==
  /\ Cardinality(S) \in Nat /\ s \in Seq(S) /\ Len(s) = Cardinality(S)
  /\ \A m, n \in 1..Len(s) : s[m] = s[n] => m = n
  /\ \A i \in S : \E n \in 1..Len(s) : s[n] = i

\* The n-th of a ranking is the item in the n-th place.
LEMMA RankingPlaces ==
  ASSUME NEW S \in SUBSET Nat, IsFiniteSet(S), NEW x \in [S -> PriorityInput],
         NEW s, s = Ranking(x)
  PROVE  /\ Cardinality(S) \in Nat /\ s \in Seq(S) /\ Len(s) = Cardinality(S)
         /\ \A n \in 1..Len(s) : s[n] \in S /\ Place(x, s[n]) = n
<1>. DEFINE k == Cardinality(S)
            nth(n) == CHOOSE i \in S : Place(x, i) = n
<1>1. k \in Nat
  BY FS_CardinalityType
<1>2. \A n \in 0..(k - 1) : \E i \in S : Place(x, i) = n + 1
  <2>1. Orders(BeforeIn(x, S), S) /\ \A i \in S : Place(x, i) = Rank(BeforeIn(x, S), S, i) + 1
    BY BoardOrdered
  <2>2. /\ \A n \in 0..(k - 1) : \E i \in S : Rank(BeforeIn(x, S), S, i) = n
        /\ \A i, j \in S : Rank(BeforeIn(x, S), S, i) = Rank(BeforeIn(x, S), S, j) => i = j
    BY <2>1, RanksTaken
  <2>. QED
    BY <2>1, <2>2
<1>3. \A n \in 1..k : nth(n) \in S /\ Place(x, nth(n)) = n
  <2>. TAKE n \in 1..k
  <2>1. n - 1 \in 0..(k - 1) /\ (n - 1) + 1 = n
    BY <1>1
  <2>2. \E i \in S : Place(x, i) = n
    BY <1>2, <2>1
  <2>. QED
    BY <2>2
<1>4. s = [n \in 1..k |-> nth(n)]
  BY DEF Ranking
<1>. HIDE DEF nth, k
<1>5. s \in Seq(S) /\ Len(s) = k /\ DOMAIN s = 1..k
  <2>1. s \in [1..k -> S]
    BY <1>3, <1>4
  <2>. QED
    BY <1>1, <2>1
<1>6. \A n \in 1..k : s[n] \in S /\ Place(x, s[n]) = n
  BY <1>3, <1>4
<1>. QED
  BY <1>1, <1>5, <1>6 DEF k

\* A ranking lists every item of the board once.
LEMMA RankingLists ==
  ASSUME NEW S \in SUBSET Nat, IsFiniteSet(S), NEW x \in [S -> PriorityInput],
         NEW s, s = Ranking(x)
  PROVE  ListsOnce(s, S)
<1>. DEFINE rank(i) == Rank(BeforeIn(x, S), S, i)
<1>1. /\ Cardinality(S) \in Nat /\ s \in Seq(S) /\ Len(s) = Cardinality(S)
      /\ \A n \in 1..Len(s) : s[n] \in S /\ Place(x, s[n]) = n
  BY RankingPlaces
<1>2. \A m, n \in 1..Len(s) : s[m] = s[n] => m = n
  BY <1>1
<1>3. \A i \in S : Place(x, i) = rank(i) + 1 /\ rank(i) \in Nat /\ rank(i) < Cardinality(S)
  <2>1. Orders(BeforeIn(x, S), S)
    BY BoardOrdered
  <2>. QED
    BY <2>1, BoardOrdered, RankBounds
<1>4. \A i, j \in S : rank(i) = rank(j) => i = j
  <2>1. Orders(BeforeIn(x, S), S)
    BY BoardOrdered
  <2>. QED
    BY <2>1, RanksTaken
<1>. HIDE DEF rank
<1>5. ASSUME NEW i \in S
      PROVE  \E n \in 1..Len(s) : s[n] = i
  <2>1. rank(i) + 1 \in 1..Len(s)
    BY <1>1, <1>3
  <2>2. PICK j \in S : j = s[rank(i) + 1] /\ Place(x, j) = rank(i) + 1
    BY <1>1, <2>1
  <2>3. rank(j) = rank(i)
    <3>1. rank(j) + 1 = rank(i) + 1 /\ rank(j) \in Nat /\ rank(i) \in Nat
      BY <1>3, <2>2
    <3>. QED
      BY <3>1
  <2>. QED
    BY <1>4, <2>1, <2>2, <2>3
<1>. QED
  BY <1>1, <1>2, <1>5 DEF ListsOnce

-------------------------------------------------------------------------------
(* The record of a call.                                                   *)

IsProbed(probed) == /\ DOMAIN probed \subseteq Item
                    /\ \A i \in DOMAIN probed : probed[i] \in {"held", "free", "failed"}

\* The call d is c except where it is now, its pin, what it saw, listed, tried
\* and asked.
Becomes(c, d, at, pin, seen, listed, tried, probed, leased) ==
  /\ DOMAIN d = DOMAIN c /\ d = [x \in DOMAIN d |-> d[x]]
  /\ d.req = c.req /\ d.at = at /\ d.pin = pin /\ d.seen = seen
  /\ d.listed = listed /\ d.tried = tried /\ d.probed = probed /\ d.leased = leased

LEMMA BecomesCall ==
  ASSUME NEW n \in Nat, NEW c, IsCall(c, n), NEW at \in At, NEW pin \in 0..n, NEW seen \in [Tables -> 0..n],
         NEW listed \in Seq(Item \X (1..n)), NEW tried \in Nat, NEW probed, IsProbed(probed),
         at # "idle" => c.req \in Requests,
         NEW leased \in SUBSET Item, NEW d, Becomes(c, d, at, pin, seen, listed, tried, probed, leased)
  PROVE  IsCall(d, n)
<1>1. DOMAIN c = {"at", "req", "pin", "leased", "seen", "listed", "tried", "probed"} /\ c.req \in Requests \cup {Null}
  BY DEF IsCall
<1>2. d \in [at : At, req : Requests \cup {Null}, pin : 0..n, leased : SUBSET Item, seen : [Tables -> 0..n],
            listed : Seq(Item \X (1..n)), tried : Nat, probed : {d.probed}]
  BY <1>1 DEF Becomes
<1>. QED
  BY <1>2 DEF IsCall, IsProbed, Becomes

\* The updates the actions make.
LEMMA Changed ==
  ASSUME NEW n \in Nat, NEW c, IsCall(c, n)
  PROVE  /\ \A d, at : d = [c EXCEPT !.at = at] =>
              Becomes(c, d, at, c.pin, c.seen, c.listed, c.tried, c.probed, c.leased)
         /\ \A d, at, pin : d = [c EXCEPT !.pin = pin, !.at = at] =>
              Becomes(c, d, at, pin, c.seen, c.listed, c.tried, c.probed, c.leased)
         /\ \A d, at, pin : d = [c EXCEPT !.at = at, !.pin = pin] =>
              Becomes(c, d, at, pin, c.seen, c.listed, c.tried, c.probed, c.leased)
         /\ \A d, at, pin, leased, seen : d = [c EXCEPT !.at = at, !.pin = pin, !.leased = leased, !.seen = seen] =>
              Becomes(c, d, at, pin, seen, c.listed, c.tried, c.probed, leased)
         /\ \A d, seen : d = [c EXCEPT !.seen = seen] =>
              Becomes(c, d, c.at, c.pin, seen, c.listed, c.tried, c.probed, c.leased)
         /\ \A d, tried : d = [c EXCEPT !.tried = tried] =>
              Becomes(c, d, c.at, c.pin, c.seen, c.listed, tried, c.probed, c.leased)
         /\ \A d, listed : d = [c EXCEPT !.listed = listed] =>
              Becomes(c, d, c.at, c.pin, c.seen, listed, c.tried, c.probed, c.leased)
         /\ \A d, at, listed : d = [c EXCEPT !.listed = listed, !.at = at] =>
              Becomes(c, d, at, c.pin, c.seen, listed, c.tried, c.probed, c.leased)
         /\ \A d, probed : d = [c EXCEPT !.probed = probed] =>
              Becomes(c, d, c.at, c.pin, c.seen, c.listed, c.tried, probed, c.leased)
<1>1. \A d, at : d = [c EXCEPT !.at = at] =>
        Becomes(c, d, at, c.pin, c.seen, c.listed, c.tried, c.probed, c.leased)
  BY DEF IsCall, Becomes
<1>2. \A d, at, pin : d = [c EXCEPT !.pin = pin, !.at = at] =>
        Becomes(c, d, at, pin, c.seen, c.listed, c.tried, c.probed, c.leased)
  BY DEF IsCall, Becomes
<1>3. \A d, at, pin : d = [c EXCEPT !.at = at, !.pin = pin] =>
        Becomes(c, d, at, pin, c.seen, c.listed, c.tried, c.probed, c.leased)
  BY DEF IsCall, Becomes
<1>4. \A d, at, pin, leased, seen : d = [c EXCEPT !.at = at, !.pin = pin, !.leased = leased, !.seen = seen] =>
        Becomes(c, d, at, pin, seen, c.listed, c.tried, c.probed, leased)
  BY DEF IsCall, Becomes
<1>5. \A d, seen : d = [c EXCEPT !.seen = seen] =>
        Becomes(c, d, c.at, c.pin, seen, c.listed, c.tried, c.probed, c.leased)
  BY DEF IsCall, Becomes
<1>6. \A d, tried : d = [c EXCEPT !.tried = tried] =>
        Becomes(c, d, c.at, c.pin, c.seen, c.listed, tried, c.probed, c.leased)
  BY DEF IsCall, Becomes
<1>7. \A d, listed : d = [c EXCEPT !.listed = listed] =>
        Becomes(c, d, c.at, c.pin, c.seen, listed, c.tried, c.probed, c.leased)
  BY DEF IsCall, Becomes
<1>8. \A d, at, listed : d = [c EXCEPT !.listed = listed, !.at = at] =>
        Becomes(c, d, at, c.pin, c.seen, listed, c.tried, c.probed, c.leased)
  BY DEF IsCall, Becomes
<1>9. \A d, probed : d = [c EXCEPT !.probed = probed] =>
        Becomes(c, d, c.at, c.pin, c.seen, c.listed, c.tried, probed, c.leased)
  BY DEF IsCall, Becomes
<1>. QED
  BY <1>1, <1>2, <1>3, <1>4, <1>5, <1>6, <1>7, <1>8, <1>9

LEMMA Fields ==
  ASSUME NEW n \in Nat, NEW c, IsCall(c, n)
  PROVE  /\ c.at \in At /\ c.req \in Requests \cup {Null} /\ c.pin \in 0..n /\ c.seen \in [Tables -> 0..n]
         /\ c.listed \in Seq(Item \X (1..n)) /\ c.tried \in Nat /\ IsProbed(c.probed) /\ c.leased \in SUBSET Item
         /\ c.at # "idle" => c.req \in Requests
         /\ \A t \in Tables : c.seen[t] \in 0..n
         /\ \A k \in 1..Len(c.listed) : c.listed[k][1] \in Item /\ c.listed[k][2] \in 1..n
BY DEF IsCall, IsProbed

-------------------------------------------------------------------------------
(* What goes on meanwhile.                                                 *)

IsLog(l) == l \in Seq(Commits) /\ Len(l) \in Nat \ {0}

\* A commit is a board, whatever leases are written over it.
LEMMA CommitsAre ==
  /\ \A c \in Commits : IsBoard(c) /\ \A leases \in SUBSET Item : [c EXCEPT !.leases = leases] \in Commits
  /\ Boards \subseteq Commits
<1>1. ASSUME NEW b \in Boards
      PROVE  /\ IsBoard(b) /\ DOMAIN b = {"items", "deps", "leases"} /\ b = [x \in DOMAIN b |-> b[x]]
             /\ b.leases \in SUBSET Item
  BY QueueAssumption DEF IsBoard
<1>2. ASSUME NEW b \in Boards, NEW leases \in SUBSET Item, NEW c, c = [b EXCEPT !.leases = leases]
      PROVE  /\ IsBoard(c)
             /\ \A more \in SUBSET Item : [c EXCEPT !.leases = more] = [b EXCEPT !.leases = more]
  <2>1. c.items = b.items /\ c.deps = b.deps /\ c.leases = leases
    BY <1>1, <1>2
  <2>2. IsBoard(c)
    BY <1>1, <2>1 DEF IsBoard
  <2>3. \A more \in SUBSET Item : [c EXCEPT !.leases = more] = [b EXCEPT !.leases = more]
    BY <1>1, <1>2
  <2>. QED
    BY <2>2, <2>3
<1>3. \A b \in Boards : [b EXCEPT !.leases = b.leases] = b
  BY <1>1
<1>4. Boards \subseteq Commits
  BY <1>1, <1>3 DEF Commits
<1>5. ASSUME NEW c \in Commits
      PROVE  IsBoard(c) /\ \A more \in SUBSET Item : [c EXCEPT !.leases = more] \in Commits
  <2>1. PICK b \in Boards, leases \in SUBSET Item : c = [b EXCEPT !.leases = leases]
    BY DEF Commits
  <2>2. \A more \in SUBSET Item : [b EXCEPT !.leases = more] \in Commits
    BY DEF Commits
  <2>. QED
    BY <1>2, <2>1, <2>2
<1>. QED
  BY <1>4, <1>5

LEMMA OneMore ==
  ASSUME NEW l, IsLog(l), NEW b \in Commits, NEW m, m = Append(l, b)
  PROVE  /\ IsLog(m) /\ Len(m) = Len(l) + 1
         /\ \A k \in 1..Len(l) : m[k] = l[k]
<1>1. l \in Seq(Commits) /\ Len(l) \in Nat
  BY DEF IsLog
<1>. QED
  BY <1>1, AppendProperties DEF IsLog

LEMMA AnyBoard ==
  ASSUME NEW l, IsLog(l), NEW k \in 1..Len(l)
  PROVE  l[k] \in Commits /\ IsBoard(l[k])
BY CommitsAre DEF IsLog

\* While no call is under way nothing is said of the log or of the leases.
LEMMA IdleIsSound ==
  ASSUME NEW l, IsLog(l), NEW m, IsLog(m), NEW c, IsCall(c, Len(l)), c.at = "idle", c.pin = 0, c.tried = 0,
         c.listed = <<>>, DOMAIN c.probed = {}, \A t \in Tables : c.seen[t] = 0,
         NEW h, NEW wh, NEW wf
  PROVE  Sound(c, m, h, wh, wf)
<1>1. Len(l) \in Nat /\ Len(m) \in Nat
  BY DEF IsLog
<1>2. IsCall(c, Len(m))
  <2>1. c.seen \in [Tables -> 0..Len(m)] /\ c.pin \in 0..Len(m)
    <3>1. c.seen \in [Tables -> 0..Len(l)]
      BY <1>1, Fields
    <3>. QED
      BY <1>1, <3>1
  <2>2. c.listed \in Seq(Item \X (1..Len(m)))
    OBVIOUS
  <2>3. c \in [at : At, req : Requests \cup {Null}, pin : 0..Len(m), leased : SUBSET Item,
               seen : [Tables -> 0..Len(m)], listed : Seq(Item \X (1..Len(m))), tried : Nat, probed : {c.probed}]
    BY <2>1, <2>2 DEF IsCall
  <2>. QED
    BY <2>3 DEF IsCall
<1>3. Pinned(c) /\ Staged(c, m) /\ Observed(c, h, wh, wf) /\ Refused(c, m, wh) /\ Walked(c, m)
  <2>1. \A t \in {"items", "deps", "leases"} : c.seen[t] = 0
    BY DEF Tables
  <2>2. Staged(c, m)
    BY <2>1 DEF Staged
  <2>. QED
    BY <2>2 DEF Pinned, Observed, Refused, Walked
<1>. QED
  BY <1>2, <1>3 DEF Sound

\* A commit changes nothing a call has read.
LEMMA PublishedIsSound ==
  ASSUME NEW l, IsLog(l), NEW b \in Commits, NEW m, m = Append(l, b),
         NEW c, NEW h, NEW wh, NEW wf, Sound(c, l, h, wh, wf)
  PROVE  Sound(c, m, h, wh, wf)
<1>1. /\ IsLog(m) /\ Len(l) \in Nat /\ Len(m) = Len(l) + 1
      /\ \A k \in 1..Len(l) : m[k] = l[k]
  BY OneMore DEF IsLog
<1>2. /\ IsCall(c, Len(l)) /\ c.seen \in [Tables -> 0..Len(l)] /\ c.pin \in 0..Len(l)
      /\ \A t \in Tables : c.seen[t] \in 0..Len(l)
      /\ \A n \in 1..Len(c.listed) : c.listed[n][2] \in 1..Len(l)
  <2>1. IsCall(c, Len(l))
    BY DEF Sound
  <2>. QED
    BY <1>1, <2>1, Fields
<1>3. IsCall(c, Len(m))
  <2>1. c.seen \in [Tables -> 0..Len(m)] /\ c.pin \in 0..Len(m)
    <3>1. 0..Len(l) \subseteq 0..Len(m)
      BY <1>1
    <3>. QED
      BY <1>2, <3>1
  <2>2. c.listed \in Seq(Item \X (1..Len(m)))
    <3>1. c.listed \in Seq(Item \X (1..Len(l)))
      BY <1>1, <1>2, Fields
    <3>2. Item \X (1..Len(l)) \subseteq Item \X (1..Len(m))
      BY <1>1
    <3>. QED
      BY <3>1, <3>2
  <2>3. c \in [at : At, req : Requests \cup {Null}, pin : 0..Len(m), leased : SUBSET Item,
               seen : [Tables -> 0..Len(m)], listed : Seq(Item \X (1..Len(m))), tried : Nat, probed : {c.probed}]
    BY <1>2, <2>1, <2>2 DEF IsCall
  <2>. QED
    BY <1>2, <2>3 DEF IsCall
<1>4. \A t \in Tables : c.seen[t] \in Nat /\ (c.seen[t] > 0 => m[c.seen[t]] = l[c.seen[t]])
  <2>. SUFFICES ASSUME NEW t \in Tables, NEW k, k = c.seen[t]
                PROVE  k \in Nat /\ (k > 0 => m[k] = l[k])
    OBVIOUS
  <2>1. k \in 0..Len(l)
    BY <1>2
  <2>. QED
    BY <1>1, <2>1
<1>5. Staged(c, m)
  <2>1. "items" \in Tables
    BY DEF Tables
  <2>2. Unnamed(c, l) => Unnamed(c, m)
    BY <1>4, <2>1 DEF Unnamed
  <2>. QED
    BY <2>2 DEF Sound, Staged
<1>6. Refused(c, m, wh)
  <2>1. {"items", "deps", "leases"} \subseteq Tables
    BY DEF Tables
  <2>2. (\A t \in {"items", "deps", "leases"} : c.seen[t] > 0) => CandidatesIn(c, m) = CandidatesIn(c, l)
    BY <1>4, <2>1 DEF CandidatesIn, LeasedIn
  <2>. QED
    BY <2>2 DEF Sound, Refused
<1>7. Walked(c, m)
  <2>1. \A k \in 1..Len(l) : RowsFor(m[k], c.req) = RowsFor(l[k], c.req)
    BY <1>1
  <2>2. Lasting(m, c.req) \subseteq Lasting(l, c.req)
    BY <1>1, <2>1 DEF Lasting
  <2>4. c.pin > 0 => RowsFor(m[c.pin], c.req) = RowsFor(l[c.pin], c.req)
    BY <1>1, <1>2, <2>1
  <2>5. IsListing(c.listed, l, c.req) => IsListing(c.listed, m, c.req)
    BY <1>2, <2>1 DEF IsListing
  <2>6. \A end : ReadTo(end, c.listed, l, c.req, c.pin) => ReadTo(end, c.listed, m, c.req, c.pin)
    BY <2>2, <2>4 DEF ReadTo
  <2>7. Complete(c.listed, l, c.req, c.pin) => Complete(c.listed, m, c.req, c.pin)
    BY <2>2, <2>4 DEF Complete
  <2>. QED
    BY <2>5, <2>6, <2>7 DEF Sound, Walked
<1>. QED
  BY <1>3, <1>5, <1>6, <1>7 DEF Sound

\* What was so once in a call was so in it.
LEMMA LeasedIsSound ==
  ASSUME NEW c, NEW l, NEW h, NEW wh, NEW wf, Sound(c, l, h, wh, wf),
         NEW h2, NEW wh2, NEW wf2, wh \subseteq wh2, wf \subseteq wf2,
         c.at \notin {"idle", "done"} => h2 \subseteq wh2 /\ Item \ h2 \subseteq wf2
  PROVE  Sound(c, l, h2, wh2, wf2)
<1>1. Observed(c, h2, wh2, wf2)
  BY DEF Sound, Observed
<1>2. Refused(c, l, wh2)
  BY DEF Sound, Refused
<1>. QED
  BY <1>1, <1>2 DEF Sound

\* A call that is over leaves nothing to keep but its probes.
LEMMA OverIsSound ==
  ASSUME NEW l, IsLog(l), NEW c, NEW h, NEW wh, NEW wf, Sound(c, l, h, wh, wf), c.at # "idle",
         NEW d, NEW listed \in Seq(Item \X (1..Len(l))),
         Becomes(c, d, "done", c.pin, c.seen, listed, c.tried, c.probed, c.leased),
         NEW h2, NEW wh2, wh \subseteq wh2
  PROVE  Sound(d, l, h2, wh2, wf)
<1>1. Len(l) \in Nat /\ IsCall(c, Len(l)) /\ "done" \in At
  BY DEF Sound, IsLog, At
<1>2. IsCall(d, Len(l))
  BY <1>1, Fields, BecomesCall
<1>3. d.at = "done" /\ d.probed = c.probed
  BY DEF Becomes
<1>4. Pinned(d) /\ Staged(d, l) /\ Refused(d, l, wh2) /\ Walked(d, l)
  BY <1>3 DEF Pinned, Staged, Refused, Walked
<1>5. Observed(d, h2, wh2, wf)
  BY <1>3 DEF Observed, Sound
<1>. QED
  BY <1>2, <1>4, <1>5 DEF Sound

-------------------------------------------------------------------------------
(* Listings.                                                               *)

LEMMA WiderSeq ==
  ASSUME NEW S, NEW T, S \subseteq T, NEW q \in Seq(S)
  PROVE  q \in Seq(T)
OBVIOUS

LEMMA RowsAreItems ==
  ASSUME NEW l, IsLog(l), NEW c \in 1..Len(l), NEW req
  PROVE  /\ RowsFor(l[c], req) \subseteq Item /\ RowsFor(l[c], req) \in SUBSET Nat
         /\ IsFiniteSet(RowsFor(l[c], req))
<1>1. RowsFor(l[c], req) \subseteq Item
  BY AnyBoard DEF RowsFor, IsBoard
<1>. QED
  BY <1>1, FS_Subset, SchedulingAssumption

\* The last row listed is the greatest.
LEMMA EndIsGreatest ==
  ASSUME NEW l, IsLog(l), NEW listed \in Seq(Item \X (1..Len(l))), NEW req, IsListing(listed, l, req)
  PROVE  /\ EndOf(listed) \in Nat /\ Len(listed) \in Nat
         /\ \A n \in 1..Len(listed) : /\ listed[n][1] \in Item /\ listed[n][1] \in Nat
                                      /\ listed[n][2] \in 1..Len(l) /\ listed[n][1] <= EndOf(listed)
<1>1. Len(listed) \in Nat /\ \A n \in 1..Len(listed) : listed[n][1] \in Item /\ listed[n][2] \in 1..Len(l)
  OBVIOUS
<1>2. \A n \in 1..Len(listed) : listed[n][1] \in Nat
  BY <1>1, SchedulingAssumption
<1>3. CASE listed = <<>>
  BY <1>3 DEF EndOf
<1>4. CASE listed # <<>>
  <2>1. Len(listed) \in 1..Len(listed) /\ EndOf(listed) = listed[Len(listed)][1]
    BY <1>4 DEF EndOf
  <2>2. ASSUME NEW n \in 1..Len(listed)
        PROVE  listed[n][1] <= EndOf(listed)
    <3>1. n = Len(listed) \/ n < Len(listed)
      BY <1>1
    <3>2. listed[n][1] \in Nat /\ EndOf(listed) \in Nat
      BY <1>2, <2>1
    <3>. QED
      BY <2>1, <3>1, <3>2 DEF IsListing
  <2>. QED
    BY <1>1, <1>2, <2>1, <2>2
<1>. QED
  BY <1>3, <1>4

\* A page goes on where the last one ended; a short one ends the table.
LEMMA PageGoesOn ==
  ASSUME NEW l, IsLog(l), NEW req, NEW pin \in 0..Len(l), NEW c \in 1..Len(l), pin > 0 => c = pin,
         NEW listed \in Seq(Item \X (1..Len(l))), IsListing(listed, l, req),
         ReadTo(EndOf(listed), listed, l, req, pin),
         NEW page, page = Smallest({i \in RowsFor(l[c], req) : i > EndOf(listed)}, PAGE_ROWS),
         NEW more, more = listed \o InOrder(page, c)
  PROVE  /\ more \in Seq(Item \X (1..Len(l))) /\ IsListing(more, l, req)
         /\ ReadTo(EndOf(more), more, l, req, pin)
         /\ Cardinality(page) < PAGE_ROWS => Complete(more, l, req, pin)
<1>. DEFINE S == {i \in RowsFor(l[c], req) : i > EndOf(listed)}
<1>0. PICK q : q = InOrder(page, c)
  OBVIOUS
<1>1. /\ EndOf(listed) \in Nat /\ Len(listed) \in Nat
      /\ \A n \in 1..Len(listed) : /\ listed[n][1] \in Item /\ listed[n][1] \in Nat
                                   /\ listed[n][2] \in 1..Len(l) /\ listed[n][1] <= EndOf(listed)
  BY EndIsGreatest
<1>2. S \in SUBSET Nat /\ IsFiniteSet(S) /\ S \subseteq RowsFor(l[c], req) /\ S \subseteq Item
  BY RowsAreItems, FS_Subset
<1>3. \A i \in S : i > EndOf(listed)
  OBVIOUS
<1>4. ASSUME NEW i \in RowsFor(l[c], req)
      PROVE  i \in Nat /\ (i \in S \/ i <= EndOf(listed))
  <2>1. i \in Nat
    BY RowsAreItems
  <2>. QED
    BY <1>1, <2>1
<1>5. page = Smallest(S, PAGE_ROWS) /\ PAGE_ROWS \in Nat
  BY QueueAssumption
<1>. HIDE DEF S
<1>6. /\ page \subseteq S /\ IsFiniteSet(page) /\ page \in SUBSET Nat
      /\ \A x \in S \ page, y \in page : y < x
      /\ Cardinality(page) < PAGE_ROWS => page = S
  BY <1>2, <1>5, SmallestAre, FS_Subset
<1>7. /\ q \in Seq(page \X {c}) /\ Len(q) \in Nat
      /\ \A n \in 1..Len(q) : q[n][1] \in page /\ q[n][2] = c
      /\ \A m, n \in 1..Len(q) : m < n => q[m][1] < q[n][1]
      /\ \A i \in page : \E n \in 1..Len(q) : q[n][1] = i
  <2>1. page \in SUBSET Nat /\ IsFiniteSet(page)
    BY <1>6
  <2>2. Lists(q, page, c)
    BY <1>0, <2>1, InOrderLists
  <2>. QED
    BY <2>2 DEF Lists
<1>8. /\ more \in Seq(Item \X (1..Len(l))) /\ Len(more) = Len(listed) + Len(q)
      /\ \A n \in 1..Len(listed) : more[n] = listed[n]
      /\ \A n \in 1..Len(q) : more[Len(listed) + n] = q[n]
      /\ q = <<>> => more = listed
  <2>1. q \in Seq(Item \X (1..Len(l))) /\ more = listed \o q
    <3>1. page \X {c} \subseteq Item \X (1..Len(l))
      BY <1>2, <1>6
    <3>2. q \in Seq(Item \X (1..Len(l)))
      BY <1>7, <3>1, WiderSeq
    <3>. QED
      BY <1>0, <3>2
  <2>2. Len(more) = Len(listed) + Len(q) /\ more \in Seq(Item \X (1..Len(l)))
    BY <2>1, ConcatProperties
  <2>3. \A n \in 1..Len(listed) : more[n] = listed[n]
    BY <1>1, <1>7, <2>1, ConcatProperties
  <2>4. \A n \in 1..Len(q) : more[Len(listed) + n] = q[n]
    <3>. SUFFICES ASSUME NEW n \in 1..Len(q) PROVE more[Len(listed) + n] = q[n]
      OBVIOUS
    <3>1. Len(listed) + n \in 1..(Len(listed) + Len(q)) /\ ~(Len(listed) + n <= Len(listed))
          /\ (Len(listed) + n) - Len(listed) = n
      BY <1>1, <1>7
    <3>2. more[Len(listed) + n] = IF Len(listed) + n <= Len(listed) THEN listed[Len(listed) + n]
                                  ELSE q[(Len(listed) + n) - Len(listed)]
      BY <2>1, <3>1, ConcatProperties
    <3>. QED
      BY <3>1, <3>2
  <2>5. q = <<>> => more = listed
    BY <2>1
  <2>. QED
    BY <2>2, <2>3, <2>4, <2>5
<1>9. ASSUME NEW n \in 1..Len(more)
      PROVE  n \in 1..Len(listed) \/ (n > Len(listed) /\ n - Len(listed) \in 1..Len(q) /\ more[n] = q[n - Len(listed)])
  <2>1. n \in 1..Len(listed) \/ (n > Len(listed) /\ n - Len(listed) \in 1..Len(q))
    BY <1>1, <1>7, <1>8
  <2>2. n > Len(listed) => Len(listed) + (n - Len(listed)) = n
    BY <1>1
  <2>. QED
    BY <1>8, <2>1, <2>2
<1>10. Ids(more) = Ids(listed) \cup page
  <2>1. ASSUME NEW n \in 1..Len(more)
        PROVE  more[n][1] \in Ids(listed) \cup page
    <3>1. CASE n \in 1..Len(listed)
      BY <1>8, <3>1 DEF Ids
    <3>2. CASE n - Len(listed) \in 1..Len(q) /\ more[n] = q[n - Len(listed)]
      BY <1>7, <3>2
    <3>. QED
      BY <1>9, <3>1, <3>2
  <2>2. Ids(listed) \subseteq Ids(more)
    BY <1>1, <1>7, <1>8 DEF Ids
  <2>3. ASSUME NEW i \in page
        PROVE  i \in Ids(more)
    <3>1. PICK n \in 1..Len(q) : q[n][1] = i
      BY <1>7
    <3>2. Len(listed) + n \in 1..Len(more)
      BY <1>1, <1>7, <1>8
    <3>. QED
      BY <1>8, <3>1, <3>2 DEF Ids
  <2>4. Ids(more) \subseteq Ids(listed) \cup page
    BY <2>1 DEF Ids
  <2>. QED
    BY <2>2, <2>3, <2>4
<1>11. IsListing(more, l, req)
  <2>1. ASSUME NEW m \in 1..Len(more), NEW n \in 1..Len(more), m < n
        PROVE  more[m][1] < more[n][1]
    <3>1. CASE n \in 1..Len(listed)
      <4>1. m \in 1..Len(listed)
        BY <1>1, <2>1, <3>1
      <4>. QED
        BY <1>8, <2>1, <3>1, <4>1 DEF IsListing
    <3>2. CASE n > Len(listed) /\ m \in 1..Len(listed)
      <4>0. n \notin 1..Len(listed)
        BY <1>1, <3>2
      <4>1. more[n][1] \in page /\ more[m][1] = listed[m][1]
        BY <1>7, <1>8, <1>9, <3>2, <4>0
      <4>2. more[n][1] > EndOf(listed) /\ more[n][1] \in Nat
        BY <1>3, <1>6, <4>1
      <4>. QED
        BY <1>1, <3>2, <4>1, <4>2
    <3>3. CASE n > Len(listed) /\ m > Len(listed)
      <4>1. /\ m - Len(listed) \in 1..Len(q) /\ more[m] = q[m - Len(listed)]
            /\ n - Len(listed) \in 1..Len(q) /\ more[n] = q[n - Len(listed)]
        BY <1>1, <1>9, <3>3
      <4>2. m - Len(listed) < n - Len(listed)
        BY <1>1, <2>1
      <4>. QED
        BY <1>7, <4>1, <4>2
    <3>. QED
      BY <1>1, <1>9, <3>1, <3>2, <3>3
  <2>2. ASSUME NEW n \in 1..Len(more)
        PROVE  more[n][1] \in RowsFor(l[more[n][2]], req)
    <3>1. CASE n \in 1..Len(listed)
      BY <1>8, <3>1 DEF IsListing
    <3>2. CASE n - Len(listed) \in 1..Len(q) /\ more[n] = q[n - Len(listed)]
      BY <1>2, <1>6, <1>7, <3>2
    <3>. QED
      BY <1>9, <3>1, <3>2
  <2>. QED
    BY <2>1, <2>2 DEF IsListing
<1>12. ASSUME NEW i \in S, i <= EndOf(more)
       PROVE  i \in page
  <2>1. CASE q = <<>>
    <3>1. i \in Nat /\ i > EndOf(listed) /\ i <= EndOf(listed)
      BY <1>2, <1>3, <1>8, <1>12, <2>1
    <3>. QED
      BY <1>1, <3>1
  <2>2. CASE q # <<>>
    <3>1. Len(q) \in 1..Len(q) /\ Len(more) \in 1..Len(more) /\ Len(more) > Len(listed)
          /\ Len(more) - Len(listed) = Len(q)
      BY <1>1, <1>7, <1>8, <2>2
    <3>2. more[Len(more)] = q[Len(q)] /\ EndOf(more) = more[Len(more)][1]
      BY <1>1, <1>9, <3>1 DEF EndOf
    <3>3. EndOf(more) \in page
      BY <1>7, <3>1, <3>2
    <3>. QED
      BY <1>2, <1>6, <1>12, <3>3
  <2>. QED
    BY <2>1, <2>2
<1>13. pin > 0 => \A n \in 1..Len(more) : more[n][2] = pin
  BY <1>7, <1>8, <1>9 DEF ReadTo
<1>14. ASSUME NEW i \in RowsFor(l[c], req), i <= EndOf(listed) => i \in Ids(listed)
       PROVE  /\ i <= EndOf(more) => i \in Ids(more)
              /\ Cardinality(page) < PAGE_ROWS => i \in Ids(more)
  BY <1>4, <1>6, <1>10, <1>12, <1>14
<1>15. ASSUME NEW i \in Lasting(l, req)
       PROVE  i \in RowsFor(l[c], req) /\ (i <= EndOf(listed) => i \in Ids(listed))
  BY DEF Lasting, ReadTo
<1>16. ASSUME pin > 0, NEW i \in RowsFor(l[pin], req)
       PROVE  i \in RowsFor(l[c], req) /\ (i <= EndOf(listed) => i \in Ids(listed))
  BY <1>16 DEF ReadTo
<1>17. ReadTo(EndOf(more), more, l, req, pin)
  BY <1>13, <1>14, <1>15, <1>16 DEF ReadTo
<1>18. Cardinality(page) < PAGE_ROWS => Complete(more, l, req, pin)
  BY <1>13, <1>14, <1>15, <1>16 DEF Complete
<1>. QED
  BY <1>8, <1>11, <1>17, <1>18

\* A table read at once is listed at once.
IsTable(listed, b, req, c) == /\ Ids(listed) = RowsFor(b, req)
                              /\ \A n \in 1..Len(listed) : listed[n][2] = c

LEMMA TableListed ==
  ASSUME NEW l, IsLog(l), NEW req, NEW c \in 1..Len(l),
         NEW listed, listed = InOrder(RowsFor(l[c], req), c)
  PROVE  /\ listed \in Seq(Item \X (1..Len(l))) /\ IsListing(listed, l, req)
         /\ Complete(listed, l, req, 0) /\ IsTable(listed, l[c], req, c)
<1>1. PICK S : S = RowsFor(l[c], req)
  OBVIOUS
<1>2. S \subseteq Item /\ S \in SUBSET Nat /\ IsFiniteSet(S)
  BY <1>1, RowsAreItems
<1>3. /\ listed \in Seq(S \X {c}) /\ Len(listed) \in Nat
      /\ \A n \in 1..Len(listed) : listed[n][1] \in S /\ listed[n][2] = c
      /\ \A m, n \in 1..Len(listed) : m < n => listed[m][1] < listed[n][1]
      /\ \A i \in S : \E n \in 1..Len(listed) : listed[n][1] = i
  <2>1. listed = InOrder(S, c)
    BY <1>1
  <2>2. Lists(listed, S, c)
    BY <1>2, <2>1, InOrderLists
  <2>. QED
    BY <2>2 DEF Lists
<1>4. listed \in Seq(Item \X (1..Len(l)))
  <2>1. S \X {c} \subseteq Item \X (1..Len(l))
    BY <1>2
  <2>. QED
    BY <1>3, <2>1
<1>5. IsListing(listed, l, req) /\ Ids(listed) = S
  BY <1>1, <1>3 DEF IsListing, Ids
<1>6. Lasting(l, req) \subseteq S
  BY <1>1 DEF Lasting
<1>7. Complete(listed, l, req, 0)
  BY <1>5, <1>6 DEF Complete
<1>. QED
  BY <1>1, <1>3, <1>4, <1>5, <1>7 DEF IsTable

-------------------------------------------------------------------------------
(* The steps of a call.                                                    *)

LEMMA Facts ==
  ASSUME IInv
  PROVE  /\ IsLog(log) /\ Len(log) \in Nat /\ Latest = Len(log) /\ Latest \in 1..Len(log)
         /\ IsCall(call, Len(log)) /\ Sound(call, log, held, wasHeld, wasFree)
BY DEF IInv, World, Sound, IsLog, Latest

\* The operators of the module, said of the request and of what was read.
LEMMA SaidOfCall ==
  /\ Selector = SelectorOf(Req) /\ Source = ResolveReads(Req.env)
  /\ Scheduled = ScheduledOf(Req, Items, Deps)
  /\ Scoped = ScopedOf(Req, Items, Deps, Leased)
  /\ NamedRow = NamedOf(Req, Items, Deps)
  /\ Candidates = CandidatesIn(call, log)
  /\ Cursor = EndOf(call.listed)
  /\ \A c : InScope(log[c].items) = RowsFor(log[c], Req)
<1>1. Selector = SelectorOf(Req) /\ Source = ResolveReads(Req.env) /\ Cursor = EndOf(call.listed)
  BY DEF Selector, SelectorOf, Source, Cursor, EndOf
<1>2. Scheduled = ScheduledOf(Req, Items, Deps)
  BY DEF Scheduled, ScheduledOf, Source
<1>3. Scoped = ScopedOf(Req, Items, Deps, Leased)
  BY <1>2 DEF Scoped, ScopedOf, InRepo
<1>4. NamedRow = NamedOf(Req, Items, Deps)
  BY <1>1, <1>2 DEF NamedRow, NamedOf
<1>5. Candidates = CandidatesOf(Req, Items, Deps, Leased)
  BY <1>2, <1>3, <1>4 DEF Candidates, CandidatesOf, Ranked
<1>6. Candidates = CandidatesIn(call, log)
  BY <1>1, <1>5 DEF CandidatesIn, LeasedIn, Items, Deps, Leased, Req
<1>7. \A c : InScope(log[c].items) = RowsFor(log[c], Req)
  BY <1>1 DEF InScope, Scope, RowsFor
<1>. QED
  BY <1>1, <1>2, <1>3, <1>4, <1>6, <1>7

\* A step of the call itself.
LEMMA StepKeeps ==
  ASSUME IInv, UNCHANGED <<log, working, held, wasHeld, wasFree>>, UNCHANGED trouble \/ Trouble,
         Sound(call', log, held, wasHeld, wasFree),
         call'.at # "done", call.at # "done", UNCHANGED ans
  PROVE  IInv'
<1>1. World'
  BY QueueAssumption DEF IInv, World, Trouble
<1>. QED
  BY <1>1 DEF IInv

LEMMA AnswerKeeps ==
  ASSUME IInv, UNCHANGED <<log, working, wasFree>>, held' \subseteq Item, wasHeld' \subseteq Item,
         wasHeld \subseteq wasHeld', UNCHANGED trouble \/ Trouble,
         call.at # "idle", NEW a, a.verdict # "none", Answer(a)
  PROVE  IInv'
<1>1. World'
  BY QueueAssumption DEF IInv, World, Trouble
<1>2. PICK c : c = call
  OBVIOUS
<1>3. PICK d : d = call'
  OBVIOUS
<1>4. PICK n \in Nat : n = Len(log)
  BY Facts
<1>5. IsCall(c, n) /\ d = [c EXCEPT !.at = "done"]
  BY <1>2, <1>3, <1>4, Facts DEF Answer
<1>6. Becomes(c, d, "done", c.pin, c.seen, c.listed, c.tried, c.probed, c.leased)
  BY <1>5, Changed
<1>7. c.listed \in Seq(Item \X (1..Len(log)))
  BY <1>4, <1>5, Fields
<1>8. Sound(d, log, held', wasHeld', wasFree)
  BY <1>2, <1>6, <1>7, Facts, OverIsSound
<1>9. d.at = "done" /\ ans' = a
  BY <1>6 DEF Becomes, Answer
<1>. QED
  BY <1>1, <1>3, <1>8, <1>9 DEF IInv

LEMMA ThrowKeeps ==
  ASSUME IInv, UNCHANGED <<log, working, held, wasHeld, wasFree>>, UNCHANGED trouble \/ Trouble,
         call.at # "idle", Throws
  PROVE  IInv'
<1>1. held' \subseteq Item /\ wasHeld' \subseteq Item /\ wasHeld \subseteq wasHeld'
  BY DEF IInv, World
<1>2. Answer([verdict |-> "error"]) /\ [verdict |-> "error"].verdict # "none"
  BY DEF Throws
<1>. QED
  BY <1>1, <1>2, AnswerKeeps

LEMMA Meanwhiles ==
  ASSUME IInv, Meanwhile
  PROVE  /\ trouble' \in 0..MaxTrouble /\ Len(log) \in 1..(trouble' + 1)
         /\ call.at # "done"
         /\ UnderWay => call.at # "idle" /\ trouble' = trouble + 1
         /\ ~UnderWay => call.at = "idle"
BY QueueAssumption DEF IInv, World, Meanwhile, Trouble, UnderWay

\* Nothing is known of an idle call.
LEMMA IdleKeeps ==
  ASSUME IInv, call.at = "idle", NEW m, IsLog(m), NEW h, NEW wh, NEW wf
  PROVE  Sound(call, m, h, wh, wf)
<1>1. PICK c : c = call
  OBVIOUS
<1>2. /\ IsLog(log) /\ IsCall(c, Len(log)) /\ c.at = "idle" /\ c.pin = 0 /\ c.tried = 0
      /\ c.listed = <<>> /\ DOMAIN c.probed = {} /\ \A t \in Tables : c.seen[t] = 0
  BY <1>1, Facts DEF Sound, Pinned, Staged
<1>. QED
  BY <1>1, <1>2, IdleIsSound

\* A commit of the world, by whoever, is nothing to what a call has read.
LEMMA LandsKeeps ==
  ASSUME IInv, Meanwhile, NEW b \in Commits, Lands(b), UNCHANGED <<working, held, call, ans, wasHeld, wasFree>>
  PROVE  IInv'
<1>1. /\ IsLog(log) /\ Sound(call, log, held, wasHeld, wasFree)
      /\ log' = IF UnderWay THEN Append(log, b) ELSE <<b>>
  BY Facts DEF Lands
<1>2. CASE UnderWay
  <2>1. IsLog(log') /\ Len(log') = Len(log) + 1
    BY <1>1, <1>2, OneMore
  <2>2. Sound(call, log', held, wasHeld, wasFree)
    BY <1>1, <1>2, PublishedIsSound
  <2>3. World'
    BY <1>1, <1>2, <2>1, Meanwhiles DEF IInv, World, IsLog
  <2>. QED
    BY <1>1, <2>2, <2>3 DEF IInv
<1>3. CASE ~UnderWay
  <2>1. log' \in Seq(Commits) /\ Len(log') = 1
    BY <1>1, <1>3
  <2>2. Sound(call, log', held, wasHeld, wasFree)
    <3>1. IsLog(log') /\ call.at = "idle"
      BY <1>3, <2>1, Meanwhiles DEF IsLog
    <3>. QED
      BY <3>1, IdleKeeps
  <2>3. World'
    BY <1>1, <2>1, Meanwhiles DEF IInv, World
  <2>. QED
    BY <1>1, <2>2, <2>3 DEF IInv
<1>. QED
  BY <1>2, <1>3

LEMMA PublishKeeps ==
  ASSUME IInv, NEW b \in Boards, Publish(b)
  PROVE  IInv'
<1>1. PICK leases \in SUBSET Item : leases = log[Latest].leases
  BY Facts, AnyBoard DEF IsBoard
<1>2. PICK commit \in Commits : commit = [b EXCEPT !.leases = log[Latest].leases]
  <2>1. [b EXCEPT !.leases = leases] \in Commits
    BY DEF Commits
  <2>. QED
    BY <1>1, <2>1
<1>3. Meanwhile /\ Lands(commit) /\ UNCHANGED <<working, held, call, ans, wasHeld, wasFree>>
  BY <1>2 DEF Publish
<1>. QED
  BY <1>3, LandsKeeps

LEMMA CommitLeasesKeeps ==
  ASSUME IInv, CommitLeases
  PROVE  IInv'
<1>1. PICK commit \in Commits : commit = [log[Latest] EXCEPT !.leases = working]
  BY Facts, AnyBoard, CommitsAre DEF IInv, World
<1>2. Meanwhile /\ Lands(commit) /\ UNCHANGED <<working, held, call, ans, wasHeld, wasFree>>
  BY <1>1 DEF CommitLeases
<1>. QED
  BY <1>2, LandsKeeps

LEMMA WriteLeaseKeeps ==
  ASSUME IInv, NEW i \in Leasable, WriteLease(i)
  PROVE  IInv'
<1>1. /\ Meanwhile /\ UNCHANGED <<log, held, call, ans, wasHeld, wasFree>>
      /\ working' = IF i \in working THEN working \ {i} ELSE working \cup {i}
  BY DEF WriteLease
<1>2. working' \subseteq Item
  BY <1>1, QueueAssumption DEF IInv, World
<1>3. World'
  BY <1>1, <1>2, Meanwhiles DEF IInv, World
<1>. QED
  BY <1>1, <1>3 DEF IInv

LEMMA LeaseKeeps ==
  ASSUME IInv, NEW i \in Item, Take(i) \/ Leave(i)
  PROVE  IInv'
<1>1. Meanwhile /\ UNCHANGED <<log, working, call, ans>>
  BY DEF Take, Leave
<1>2. World'
  <2>1. held' \subseteq Item /\ wasHeld' \subseteq Item /\ wasFree' \subseteq Item
    BY DEF IInv, World, Take, Leave
  <2>. QED
    BY <1>1, <2>1, Meanwhiles DEF IInv, World
<1>3. Sound(call, log, held', wasHeld', wasFree')
  <2>1. CASE UnderWay
    <3>1. wasHeld \subseteq wasHeld' /\ wasFree \subseteq wasFree'
      BY <2>1 DEF Take, Leave
    <3>2. held \subseteq wasHeld /\ Item \ held \subseteq wasFree
      BY <2>1 DEF IInv, Sound, Observed, UnderWay
    <3>3. held' \subseteq wasHeld' /\ Item \ held' \subseteq wasFree'
      BY <2>1, <3>2 DEF Take, Leave
    <3>. QED
      BY <3>1, <3>3, LeasedIsSound DEF IInv
  <2>2. CASE ~UnderWay
    BY <1>1, <2>2, Facts, Meanwhiles, IdleKeeps
  <2>. QED
    BY <2>1, <2>2
<1>. QED
  BY <1>1, <1>2, <1>3 DEF IInv

LEMMA NoCallIs ==
  ASSUME NEW l, IsLog(l)
  PROVE  /\ IsCall(NoCall, Len(l)) /\ NoCall.at = "idle" /\ NoCall.pin = 0 /\ NoCall.tried = 0
         /\ NoCall.listed = <<>> /\ DOMAIN NoCall.probed = {} /\ \A t \in Tables : NoCall.seen[t] = 0
<1>1. Len(l) \in Nat
  BY DEF IsLog
<1>2. <<>> \in Seq(Item \X (1..Len(l))) /\ DOMAIN <<>> = {}
  OBVIOUS
<1>3. PICK probed : probed = <<>>
  OBVIOUS
<1>4. NoCall = [at |-> "idle", req |-> Null, pin |-> 0, seen |-> [t \in Tables |-> 0],
                leased |-> {}, listed |-> <<>>, tried |-> 0, probed |-> probed]
  BY <1>3 DEF NoCall
<1>. QED
  BY <1>1, <1>2, <1>3, <1>4 DEF IsCall, At

LEMMA BeginKeeps ==
  ASSUME IInv, NEW r \in Requests, Begin(r)
  PROVE  IInv'
<1>1. /\ call.at = "idle" /\ UNCHANGED <<log, working, held, ans, trouble>>
      /\ wasHeld' = held /\ wasFree' = Item \ held
      /\ call' = [NoCall EXCEPT !.req = r, !.at = IF r.verb = "list" THEN "listHead" ELSE "head"]
  BY DEF Begin
<1>2. World'
  BY <1>1 DEF IInv, World
<1>3. PICK d : d = call'
  OBVIOUS
<1>4. PICK n \in Nat : n = Len(log)
  BY Facts
<1>5. /\ IsCall(NoCall, n) /\ NoCall.pin = 0 /\ NoCall.tried = 0 /\ NoCall.listed = <<>>
      /\ DOMAIN NoCall.probed = {} /\ \A t \in Tables : NoCall.seen[t] = 0
  BY <1>4, Facts, NoCallIs
<1>6. /\ d.at = IF r.verb = "list" THEN "listHead" ELSE "head"
      /\ d.req = r /\ d.pin = 0 /\ d.seen = NoCall.seen /\ d.listed = <<>> /\ d.tried = 0
      /\ d.probed = NoCall.probed /\ d.leased = {}
      /\ DOMAIN d = DOMAIN NoCall /\ d = [x \in DOMAIN d |-> d[x]]
  BY <1>1, <1>3, <1>5 DEF NoCall
<1>7. IsCall(d, n)
  <2>1. d \in [at : At, req : Requests \cup {Null}, pin : 0..n, leased : SUBSET Item, seen : [Tables -> 0..n],
               listed : Seq(Item \X (1..n)), tried : Nat, probed : {d.probed}]
    <3>1. DOMAIN d = {"at", "req", "pin", "leased", "seen", "listed", "tried", "probed"}
      BY <1>6 DEF NoCall
    <3>2. d.seen \in [Tables -> 0..n] /\ d.listed \in Seq(Item \X (1..n))
      BY <1>5, <1>6, Fields
    <3>3. d.at \in At
      BY <1>6 DEF At
    <3>4. d = [x \in DOMAIN d |-> d[x]] /\ d.req \in Requests /\ d.pin \in 0..n /\ d.tried \in Nat
          /\ d.leased \in SUBSET Item
      BY <1>6
    <3>. QED
      BY ONLY <3>1, <3>2, <3>3, <3>4
  <2>. QED
    BY <1>5, <1>6, <2>1 DEF IsCall
<1>8. Sound(d, log, held', wasHeld', wasFree')
  <2>1. \A t \in {"items", "deps", "leases"} : d.seen[t] = 0
    BY <1>5, <1>6 DEF Tables
  <2>2. Staged(d, log)
    BY <1>5, <1>6, <2>1 DEF Staged
  <2>3. Observed(d, held', wasHeld', wasFree')
    BY <1>1, <1>5, <1>6 DEF Observed
  <2>4. Pinned(d) /\ Refused(d, log, wasHeld') /\ Walked(d, log)
    BY <1>6 DEF Pinned, Refused, Walked
  <2>. QED
    BY <1>4, <1>7, <2>2, <2>3, <2>4 DEF Sound
<1>9. d.at # "done"
  BY <1>6
<1>. QED
  BY <1>1, <1>2, <1>3, <1>8, <1>9 DEF IInv

LEMMA ReturnKeeps ==
  ASSUME IInv, Return
  PROVE  IInv'
<1>1. /\ call' = NoCall /\ ans' = NoAnswer /\ log' = <<log[Latest]>> /\ UNCHANGED <<working, held>>
      /\ trouble' = 0 /\ wasHeld' = {} /\ wasFree' = {}
  BY DEF Return
<1>2. log' \in Seq(Commits) /\ Len(log') = 1
  BY <1>1, Facts, AnyBoard
<1>3. World'
  BY <1>1, <1>2, QueueAssumption DEF IInv, World
<1>4. IsLog(log')
  BY <1>2 DEF IsLog
<1>5. Sound(NoCall, log', held', wasHeld', wasFree')
  <2>1. PICK l : l = log'
    OBVIOUS
  <2>2. IsLog(l)
    BY <1>4, <2>1
  <2>3. Sound(NoCall, l, held', wasHeld', wasFree')
    BY <2>2, NoCallIs, IdleIsSound
  <2>. QED
    BY <2>1, <2>3
<1>6. NoCall.at # "done" /\ NoAnswer.verdict = "none"
  BY DEF NoCall, NoAnswer
<1>. QED
  BY <1>1, <1>3, <1>5, <1>6 DEF IInv

LEMMA ResolveHeadKeeps ==
  ASSUME IInv, ResolveHead
  PROVE  IInv'
<1>1. PICK at \in {"head", "listHead"}, pin \in {0, Latest} :
        /\ Reads(at) /\ Source = "dolthub" /\ UNCHANGED <<log, working, held, ans, wasHeld, wasFree>>
        /\ IF pin = 0 THEN Trouble ELSE UNCHANGED trouble
        /\ call' = [call EXCEPT !.pin = pin, !.at = IF at = "head" THEN "tables" ELSE "pages"]
  BY DEF ResolveHead
<1>2. PICK c : c = call
  OBVIOUS
<1>3. PICK d : d = call'
  OBVIOUS
<1>4. PICK n \in Nat : n = Len(log) /\ IsCall(c, n)
  BY <1>2, Facts
<1>5. PICK next : next = IF at = "head" THEN "tables" ELSE "pages"
  OBVIOUS
<1>6. Becomes(c, d, next, pin, c.seen, c.listed, c.tried, c.probed, c.leased)
  BY <1>1, <1>2, <1>3, <1>4, <1>5, Changed
<1>7. c.at = at /\ c.listed = <<>> /\ ResolveReads(c.req.env) = "dolthub" /\ IsLog(log) /\ pin \in 0..n
  BY <1>1, <1>2, <1>4, Facts, SaidOfCall DEF Reads, Sound, Staged, Req
<1>8. IsCall(d, n)
  <2>1. next \in At /\ c.seen \in [Tables -> 0..n] /\ c.listed \in Seq(Item \X (1..n)) /\ c.tried \in Nat
        /\ IsProbed(c.probed) /\ c.leased \in SUBSET Item /\ c.req \in Requests
    BY <1>4, <1>5, <1>7, Fields DEF At
  <2>. QED
    BY <1>4, <1>6, <1>7, <2>1, BecomesCall
<1>9. /\ d.at = next /\ d.pin = pin /\ d.seen = c.seen /\ d.listed = <<>> /\ d.tried = c.tried
      /\ d.probed = c.probed /\ d.leased = c.leased /\ d.req = c.req
  BY <1>6, <1>7 DEF Becomes
<1>10. Sound(c, log, held, wasHeld, wasFree)
  BY <1>2, Facts
<1>11. Pinned(d)
  <2>1. next = "tables" => \A t \in {"items", "deps", "leases"} : c.seen[t] = 0
    BY <1>5, <1>7, <1>10 DEF Sound, Staged, Tables
  <2>. QED
    BY <1>5, <1>7, <1>9, <2>1 DEF Pinned
<1>12. Staged(d, log)
  BY <1>5, <1>7, <1>9, <1>10 DEF Sound, Staged, Unnamed
<1>13. Observed(d, held, wasHeld, wasFree)
  BY <1>7, <1>9, <1>10 DEF Sound, Observed
<1>14. Refused(d, log, wasHeld)
  BY <1>5, <1>7, <1>9, <1>10 DEF Sound, Staged, Refused
<1>15. Walked(d, log)
  <2>1. IsListing(<<>>, log, d.req)
    BY DEF IsListing
  <2>2. \A i \in Item : ~(i <= EndOf(<<>>))
    BY SchedulingAssumption DEF EndOf
  <2>3. pin > 0 => RowsFor(log[pin], d.req) \subseteq Item
    <3>1. pin > 0 => pin \in 1..Len(log)
      BY <1>4, <1>7
    <3>. QED
      BY <1>7, <3>1, RowsAreItems
  <2>4. ReadTo(EndOf(<<>>), <<>>, log, d.req, pin)
    BY <2>2, <2>3 DEF ReadTo, Lasting
  <2>. QED
    BY <1>5, <1>9, <2>1, <2>4 DEF Walked
<1>16. Sound(d, log, held, wasHeld, wasFree)
  BY <1>4, <1>8, <1>11, <1>12, <1>13, <1>14, <1>15 DEF Sound
<1>. QED
  BY <1>1, <1>2, <1>3, <1>5, <1>7, <1>9, <1>16, StepKeeps

\* A query more: the three tables at the pin, where there is one; graph's edges
\* at any time and of any commit.
LEMMA SeenKeeps ==
  ASSUME IInv, UNCHANGED <<log, working, held, ans, trouble, wasHeld, wasFree>>, call.at \in {"head", "tables"},
         NEW t \in Tables, call.seen[t] = 0, NEW k \in 0..Len(log),
         t = "edges" \/ (call.at = "tables" /\ (call.pin > 0 => k = call.pin)),
         call' = [call EXCEPT !.seen = [@ EXCEPT ![t] = k]]
  PROVE  IInv'
<1>1. PICK c : c = call
  OBVIOUS
<1>2. PICK d : d = call'
  OBVIOUS
<1>3. PICK n \in Nat : n = Len(log) /\ IsCall(c, n)
  BY <1>1, Facts
<1>4. PICK seen : seen = [c.seen EXCEPT ![t] = k]
  OBVIOUS
<1>5. c.seen \in [Tables -> 0..n] /\ seen \in [Tables -> 0..n]
      /\ \A u \in Tables : seen[u] = IF u = t THEN k ELSE c.seen[u]
  BY <1>3, <1>4, Fields
<1>6. d = [c EXCEPT !.seen = seen]
  BY <1>1, <1>2, <1>4
<1>7. Becomes(c, d, c.at, c.pin, seen, c.listed, c.tried, c.probed, c.leased)
  BY <1>3, <1>6, Changed
<1>8. IsCall(d, n)
  <2>1. c.at \in At /\ c.pin \in 0..n /\ c.listed \in Seq(Item \X (1..n)) /\ c.tried \in Nat
        /\ IsProbed(c.probed) /\ c.leased \in SUBSET Item /\ c.req \in Requests
    BY <1>1, <1>3, Fields
  <2>. QED
    BY <1>3, <1>5, <1>7, <2>1, BecomesCall
<1>9. /\ d.at = c.at /\ d.pin = c.pin /\ d.seen = seen /\ d.listed = c.listed /\ d.tried = c.tried
      /\ d.probed = c.probed /\ d.leased = c.leased /\ d.req = c.req /\ c.at \in {"head", "tables"}
  BY <1>1, <1>7 DEF Becomes
<1>10. Sound(c, log, held, wasHeld, wasFree)
  BY <1>1, Facts
<1>11. {"items", "deps", "leases"} \subseteq Tables /\ "edges" \notin {"items", "deps", "leases"}
  BY DEF Tables
<1>12. Pinned(d)
  BY <1>1, <1>5, <1>9, <1>10, <1>11 DEF Sound, Pinned
<1>13. Staged(d, log) /\ Walked(d, log)
  <2>1. c.at = "head" => \A u \in {"items", "deps", "leases"} : seen[u] = c.seen[u]
    BY <1>1, <1>5, <1>11
  <2>. QED
    BY <1>9, <1>10, <2>1 DEF Sound, Staged, Walked
<1>14. Observed(d, held, wasHeld, wasFree)
  BY <1>9, <1>10 DEF Sound, Observed
<1>15. Refused(d, log, wasHeld)
  <2>1. ASSUME \A u \in {"items", "deps", "leases"} : c.seen[u] > 0
        PROVE  /\ \A u \in {"items", "deps", "leases"} : seen[u] = c.seen[u]
               /\ CandidatesIn(d, log) = CandidatesIn(c, log)
    <3>1. \A u \in {"items", "deps", "leases"} : seen[u] = c.seen[u]
      BY <1>1, <1>5, <1>11, <2>1
    <3>. QED
      BY <1>9, <3>1 DEF CandidatesIn, LeasedIn
  <2>. QED
    BY <1>9, <1>10, <2>1 DEF Sound, Refused
<1>16. Sound(d, log, held, wasHeld, wasFree)
  BY <1>3, <1>8, <1>12, <1>13, <1>14, <1>15 DEF Sound
<1>. QED
  BY <1>1, <1>2, <1>9, <1>16, StepKeeps

LEMMA ReadTableKeeps ==
  ASSUME IInv, NEW t \in Tables, ReadTable(t)
  PROVE  IInv'
<1>1. /\ call.at = "tables" /\ call.seen[t] = 0 /\ t # "edges"
      /\ UNCHANGED <<log, working, held, trouble, wasHeld, wasFree>>
      /\ \/ Throws
         \/ call' = [call EXCEPT !.seen = [@ EXCEPT ![t] = PinTables(t)]] /\ UNCHANGED ans
  BY DEF ReadTable
<1>2. CASE Throws
  BY <1>1, <1>2, ThrowKeeps
<1>3. CASE call' = [call EXCEPT !.seen = [@ EXCEPT ![t] = PinTables(t)]] /\ UNCHANGED ans
  <2>1. call.pin \in 0..Len(log)
    BY Facts, Fields
  <2>2. PinTables(t) \in 0..Len(log) /\ (call.pin > 0 => PinTables(t) = call.pin)
    BY <1>1, <2>1, Facts DEF PinTables
  <2>. QED
    BY <1>1, <1>3, <2>2, SeenKeeps
<1>. QED
  BY <1>1, <1>2, <1>3

LEMMA ReadEdgesKeeps ==
  ASSUME IInv, ReadEdges
  PROVE  IInv'
<1>1. "edges" \in Tables /\ "items" \in Tables
  BY DEF Tables
<1>2. call.seen["items"] \in 0..Len(log) /\ PinTables("edges") = Latest
  BY <1>1, Facts, Fields DEF PinTables
<1>3. /\ call.at \in {"head", "tables"} /\ call.seen["edges"] = 0
      /\ UNCHANGED <<log, working, held, trouble, wasHeld, wasFree>>
      /\ \E c \in IF Source = "local" THEN AtLeast(1, call.seen["items"])..Latest ELSE {PinTables("edges")} :
           \/ Throws
           \/ call' = [call EXCEPT !.seen = [@ EXCEPT !["edges"] = c]] /\ UNCHANGED ans
  BY DEF ReadEdges
<1>4. CASE Throws
  BY <1>3, <1>4, ThrowKeeps
<1>5. CASE ~Throws
  <2>1. PICK c \in 0..Len(log) : call' = [call EXCEPT !.seen = [@ EXCEPT !["edges"] = c]] /\ UNCHANGED ans
    BY <1>2, <1>3, <1>5, Facts DEF AtLeast
  <2>. QED
    BY <1>1, <1>3, <2>1, SeenKeeps
<1>. QED
  BY <1>4, <1>5

\* The three tables at once; a commit is named, if any, by the server alone.
LEMMA ReadSnapshotKeeps ==
  ASSUME IInv, ReadSnapshot
  PROVE  IInv'
<1>1. PICK k \in 1..Len(log), pin \in 0..Len(log) :
        /\ call.at = "head" /\ UNCHANGED <<log, working, held, ans, wasHeld, wasFree>>
        /\ UNCHANGED trouble \/ Trouble
        /\ pin > 0 => Source = "server" /\ k = pin
        /\ call' = [call EXCEPT !.at = "tables", !.pin = pin, !.leased = working,
                                !.seen = [t \in Tables |-> IF t = "edges" THEN @[t] ELSE k]]
  <2>1. call.at = "head" /\ UNCHANGED <<log, working, held, ans, wasHeld, wasFree>>
    BY DEF ReadSnapshot, Reads
  <2>2. PICK k \in IF Source = "server" THEN {Latest} ELSE AtLeast(1, call.seen["edges"])..Latest,
             pin \in IF Source = "server" THEN {0, Latest} ELSE {0} :
          /\ IF Source = "server" /\ pin = 0 THEN Trouble ELSE UNCHANGED trouble
          /\ call' = [call EXCEPT !.at = "tables", !.pin = pin, !.leased = working,
                                  !.seen = [t \in Tables |-> IF t = "edges" THEN @[t] ELSE k]]
    BY DEF ReadSnapshot
  <2>3. call.seen["edges"] \in 0..Len(log)
    BY Facts, Fields DEF Tables
  <2>4. k \in 1..Len(log) /\ pin \in 0..Len(log) /\ (pin > 0 => Source = "server" /\ k = pin)
    BY <2>2, <2>3, Facts DEF AtLeast
  <2>. QED
    BY <2>1, <2>2, <2>4
<1>2. PICK c : c = call
  OBVIOUS
<1>3. PICK d : d = call'
  OBVIOUS
<1>4. PICK n \in Nat : n = Len(log) /\ IsCall(c, n) /\ k \in 1..n /\ pin \in 0..n
  BY <1>2, Facts
<1>5. PICK leased \in SUBSET Item : leased = working
  BY DEF IInv, World
<1>6. PICK seen : seen = [t \in Tables |-> IF t = "edges" THEN c.seen[t] ELSE k]
  OBVIOUS
<1>7. d = [c EXCEPT !.at = "tables", !.pin = pin, !.leased = leased, !.seen = seen]
  BY <1>1, <1>2, <1>3, <1>5, <1>6
<1>8. Becomes(c, d, "tables", pin, seen, c.listed, c.tried, c.probed, leased)
  BY <1>4, <1>7, Changed
<1>9. /\ d.at = "tables" /\ d.pin = pin /\ d.seen = seen /\ d.listed = c.listed /\ d.tried = c.tried
      /\ d.probed = c.probed /\ d.req = c.req /\ c.at = "head"
  BY <1>1, <1>2, <1>8 DEF Becomes
<1>10. seen \in [Tables -> 0..n] /\ \A t \in {"items", "deps", "leases"} : seen[t] = k
  <2>1. \A t \in Tables : c.seen[t] \in 0..n
    BY <1>4, Fields
  <2>. QED
    BY <1>4, <1>6, <2>1 DEF Tables
<1>11. Source = ResolveReads(c.req.env)
  BY <1>2 DEF Source, Req
<1>12. IsCall(d, n)
  <2>1. "tables" \in At /\ c.listed \in Seq(Item \X (1..n)) /\ c.tried \in Nat
        /\ IsProbed(c.probed) /\ c.req \in Requests
    BY <1>4, <1>9, Fields DEF At
  <2>. QED
    BY <1>4, <1>8, <1>10, <2>1, BecomesCall
<1>13. Sound(c, log, held, wasHeld, wasFree)
  BY <1>2, Facts
<1>14. Pinned(d)
  BY <1>1, <1>9, <1>10, <1>11 DEF Pinned
<1>15. Staged(d, log) /\ Refused(d, log, wasHeld) /\ Walked(d, log)
  BY <1>9, <1>13 DEF Sound, Staged, Refused, Walked
<1>16. Observed(d, held, wasHeld, wasFree)
  BY <1>9, <1>13 DEF Sound, Observed
<1>17. Sound(d, log, held, wasHeld, wasFree)
  BY <1>4, <1>12, <1>14, <1>15, <1>16 DEF Sound
<1>. QED
  BY <1>1, <1>2, <1>3, <1>9, <1>17, StepKeeps

LEMMA ErrorsKeep ==
  ASSUME IInv, ThrowSelector \/ QueryFails
  PROVE  IInv'
<1>1. CASE ThrowSelector
  BY <1>1, ThrowKeeps DEF ThrowSelector
<1>2. CASE QueryFails
  <2>1. call.at # "idle" /\ Trouble /\ Throws /\ UNCHANGED <<log, working, held, wasHeld, wasFree>>
    BY <1>2 DEF QueryFails, Reads
  <2>. QED
    BY <2>1, ThrowKeeps
<1>. QED
  BY <1>1, <1>2

\* A lease object says held or free as it is.
LEMMA ProbeKeeps ==
  ASSUME IInv, NEW i \in Item, Probe(i)
  PROVE  IInv'
<1>1. PICK o \in {IF i \in held THEN "held" ELSE "free", "failed"} :
        /\ IF o = "failed" THEN Trouble ELSE UNCHANGED trouble
        /\ call' = [call EXCEPT !.probed = [j \in DOMAIN @ \cup {i} |-> IF j = i THEN o ELSE @[j]]]
  BY DEF Probe
<1>2. call.at = "tables" /\ UNCHANGED <<log, working, held, ans, wasHeld, wasFree>> /\ (UNCHANGED trouble \/ Trouble)
  BY <1>1 DEF Probe, AllSeen
<1>3. PICK c : c = call
  OBVIOUS
<1>4. PICK d : d = call'
  OBVIOUS
<1>5. PICK n \in Nat : n = Len(log) /\ IsCall(c, n)
  BY <1>3, Facts
<1>6. PICK probed : probed = [j \in DOMAIN c.probed \cup {i} |-> IF j = i THEN o ELSE c.probed[j]]
  OBVIOUS
<1>7. d = [c EXCEPT !.probed = probed]
  BY <1>1, <1>3, <1>4, <1>6
<1>8. Becomes(c, d, c.at, c.pin, c.seen, c.listed, c.tried, probed, c.leased)
  BY <1>5, <1>7, Changed
<1>9. /\ d.at = "tables" /\ d.pin = c.pin /\ d.seen = c.seen /\ d.listed = c.listed /\ d.tried = c.tried
      /\ d.probed = probed /\ d.leased = c.leased /\ d.req = c.req /\ c.at = "tables"
  BY <1>2, <1>3, <1>8 DEF Becomes
<1>10. Sound(c, log, held, wasHeld, wasFree)
  BY <1>3, Facts
<1>11. DOMAIN probed = DOMAIN c.probed \cup {i}
       /\ \A j \in DOMAIN probed : probed[j] = IF j = i THEN o ELSE c.probed[j]
  BY <1>6
<1>12. IsProbed(probed)
  <2>1. IsProbed(c.probed) /\ o \in {"held", "free", "failed"}
    BY <1>1, <1>5, Fields
  <2>. QED
    BY <1>11, <2>1 DEF IsProbed
<1>13. IsCall(d, n)
  <2>1. c.at \in At /\ c.pin \in 0..n /\ c.seen \in [Tables -> 0..n] /\ c.listed \in Seq(Item \X (1..n))
        /\ c.tried \in Nat /\ c.leased \in SUBSET Item /\ c.req \in Requests
    BY <1>5, <1>9, Fields
  <2>. QED
    BY <1>5, <1>8, <1>12, <2>1, BecomesCall
<1>14. Pinned(d) /\ Staged(d, log) /\ Walked(d, log)
  BY <1>9, <1>10 DEF Sound, Pinned, Staged, Walked
<1>15. Observed(d, held, wasHeld, wasFree)
  <2>1. held \subseteq wasHeld /\ Item \ held \subseteq wasFree
    BY <1>9, <1>10 DEF Sound, Observed
  <2>2. /\ o = "held" => i \in wasHeld
        /\ o = "free" => i \in wasFree
    BY <1>1, <2>1
  <2>3. \A j \in DOMAIN probed : /\ probed[j] = "held" => j \in wasHeld
                                 /\ probed[j] = "free" => j \in wasFree
    BY <1>10, <1>11, <2>2 DEF Sound, Observed
  <2>. QED
    BY <1>9, <2>1, <2>3 DEF Observed
<1>16. Refused(d, log, wasHeld)
  BY <1>9, <1>10 DEF Sound, Refused, CandidatesIn, LeasedIn
<1>17. Sound(d, log, held, wasHeld, wasFree)
  BY <1>5, <1>13, <1>14, <1>15, <1>16 DEF Sound
<1>. QED
  BY <1>2, <1>3, <1>4, <1>9, <1>17, StepKeeps

LEMMA AnswersKeep ==
  ASSUME IInv, AnswerNext \/ AnswerGraph \/ Refuse
  PROVE  IInv'
<1>1. /\ call.at # "idle" /\ UNCHANGED <<log, working, held, trouble, wasHeld, wasFree>>
      /\ \E a : a.verdict # "none" /\ Answer(a)
  <2>1. CASE AnswerNext
    BY <2>1 DEF AnswerNext, Probed, AllSeen
  <2>2. CASE AnswerGraph
    BY <2>2 DEF AnswerGraph, Probed, AllSeen
  <2>3. CASE Refuse
    BY <2>3 DEF Refuse, AllSeen
  <2>. QED
    BY <2>1, <2>2, <2>3
<1>2. held' \subseteq Item /\ wasHeld' \subseteq Item /\ wasHeld \subseteq wasHeld'
  BY <1>1 DEF IInv, World
<1>. QED
  BY <1>1, <1>2, AnswerKeeps

-------------------------------------------------------------------------------
(* The candidates of a claim.                                              *)

\* A set made a sequence is listed once.
LEMMA SeqOfSet ==
  ASSUME NEW S, IsFiniteSet(S), NEW q, q = SetToSeq(S)
  PROVE  ListsOnce(q, S)
<1>. DEFINE k == Cardinality(S)
<1>1. k \in Nat /\ ExistsBijection(1..k, S)
  BY FS_CardinalityType
<1>2. \E f \in [1..k -> S] : IsInjective(f)
  BY <1>1 DEF ExistsBijection, Bijection, Injection
<1>3. q \in [1..k -> S] /\ IsInjective(q)
  BY <1>2 DEF SetToSeq
<1>4. \A m, n \in 1..k : q[m] = q[n] => m = n
  BY <1>3 DEF IsInjective
<1>5. Cardinality(1..k) = Cardinality(S)
  BY <1>1, FS_Interval
<1>6. \A i \in S : \E n \in 1..k : q[n] = i
  <2>1. PICK D : D = 1..k
    OBVIOUS
  <2>2. q \in [D -> S] /\ Cardinality(D) = Cardinality(S) /\ \A m, n \in D : q[m] = q[n] => m = n
    BY <1>3, <1>4, <1>5, <2>1
  <2>3. \A i \in S : \E n \in D : q[n] = i
    BY <2>2, OneToOneOnto
  <2>. QED
    BY <2>1, <2>3
<1>7. q \in Seq(S) /\ Len(q) = k
  BY <1>1, <1>3
<1>. QED
  BY <1>1, <1>4, <1>6, <1>7 DEF ListsOnce

LEMMA InputsAre ==
  ASSUME NEW items, \A i \in DOMAIN items : items[i] \in Row, NEW shown \in SUBSET DOMAIN items,
         NEW open, IsFiniteSet(open), NEW gates
  PROVE  Inputs(items, shown, open, gates) \in [shown -> PriorityInput]
<1>1. ASSUME NEW i
      PROVE  /\ Cardinality({j \in open : <<i, j>> \in gates}) \in Nat
             /\ Cardinality({j \in open : <<j, i>> \in gates}) \in Nat
  BY FS_Subset, FS_CardinalityType
<1>2. ASSUME NEW i \in shown
      PROVE  StatusToState[items[i].status] \in {"open", "in_progress", "blocked", "closed"}
  BY DEF Row, Status, StatusToState
<1>. QED
  BY <1>1, <1>2 DEF Inputs, PriorityInput, Row

\* Whatever commit each table was read at, its rows can be scheduled.
LEMMA ScheduledAre ==
  ASSUME NEW b, IsBoard(b), NEW deps, NEW req, NEW leased
  PROVE  /\ ScheduledOf(req, b.items, deps) \in [DOMAIN ScheduledOf(req, b.items, deps) -> PriorityInput]
         /\ ResolveReads(req.env) # "local" => DOMAIN ScheduledOf(req, b.items, deps) = Schedulable(b.items)
         /\ DOMAIN ScheduledOf(req, b.items, deps) \subseteq Item
<1>1. DOMAIN b.items \subseteq Item /\ IsFiniteSet(DOMAIN b.items) /\ \A i \in DOMAIN b.items : b.items[i] \in Row
  BY SchedulingAssumption, FS_Subset DEF IsBoard
<1>2. /\ Schedulable(b.items) \in SUBSET DOMAIN b.items
      /\ {i \in DOMAIN b.items : b.items[i].status # "Done"} \in SUBSET DOMAIN b.items
  BY DEF Schedulable
<1>3. /\ IsFiniteSet(Schedulable(b.items))
      /\ IsFiniteSet({i \in DOMAIN b.items : b.items[i].status # "Done"})
  BY <1>1, <1>2, FS_Subset
<1>4. AssembleScheduling(b.items, deps) \in [Schedulable(b.items) -> PriorityInput]
  BY <1>1, <1>2, <1>3, InputsAre DEF AssembleScheduling
<1>5. ReadMirrorScheduling(b.items, deps) \in [DOMAIN b.items -> PriorityInput]
  BY <1>1, <1>2, <1>3, InputsAre DEF ReadMirrorScheduling
<1>. QED
  BY <1>1, <1>2, <1>4, <1>5 DEF ScheduledOf

\* A ranking of a part of the board lists that part once.
LEMMA PartRanked ==
  ASSUME NEW x, x \in [DOMAIN x -> PriorityInput], NEW S \in SUBSET DOMAIN x, S \subseteq Item
  PROVE  ListsOnce(RankingOf(x, S), S)
<1>1. PICK y : y = [i \in S |-> x[i]]
  OBVIOUS
<1>2. y \in [S -> PriorityInput] /\ RankingOf(x, S) = Ranking(y)
  BY <1>1 DEF RankingOf
<1>3. S \in SUBSET Nat /\ IsFiniteSet(S)
  BY SchedulingAssumption, FS_Subset
<1>4. PICK s : s = Ranking(y)
  OBVIOUS
<1>5. ListsOnce(s, S)
  BY <1>2, <1>3, <1>4, RankingLists
<1>. QED
  BY <1>2, <1>4, <1>5

\* A ranking is in the order of priority -- score, then effort, then place on the
\* board -- whatever part of the board is ranked: to filter a ranking is to rank
\* what passes, so next and graph offer the best first (policy.ts prioritize,
\* verbs.ts next).
THEOREM BestFirst ==
  ASSUME NEW x, x \in [DOMAIN x -> PriorityInput], NEW S \in SUBSET DOMAIN x, S \subseteq Item,
         NEW s, s = RankingOf(x, S)
  PROVE  /\ ListsOnce(s, S)
         /\ \A m, n \in 1..Len(s) : m < n <=> Before(x, s[m], s[n])
<1>1. PICK y : y = [i \in S |-> x[i]]
  OBVIOUS
<1>2. y \in [S -> PriorityInput] /\ s = Ranking(y)
  BY <1>1 DEF RankingOf
<1>3. S \in SUBSET Nat /\ IsFiniteSet(S)
  BY SchedulingAssumption, FS_Subset
<1>4. Len(s) \in Nat /\ \A n \in 1..Len(s) : s[n] \in S /\ Place(y, s[n]) = n
  BY <1>2, <1>3, RankingPlaces
<1>5. \A i, j \in S : Before(x, i, j) <=> Before(y, i, j)
  BY <1>1 DEF Before
<1>6. /\ \A i \in S : Place(y, i) = Rank(BeforeIn(y, S), S, i) + 1 /\ Rank(BeforeIn(y, S), S, i) \in Nat
      /\ \A i, j \in S : <<i, j>> \in BeforeIn(y, S) =>
           Rank(BeforeIn(y, S), S, i) < Rank(BeforeIn(y, S), S, j)
      /\ \A i, j \in S : i = j \/ <<i, j>> \in BeforeIn(y, S) \/ <<j, i>> \in BeforeIn(y, S)
  <2>1. Orders(BeforeIn(y, S), S) /\ \A i \in S : Place(y, i) = Rank(BeforeIn(y, S), S, i) + 1
    BY <1>2, <1>3, BoardOrdered
  <2>2. \A i \in S : Rank(BeforeIn(y, S), S, i) \in Nat
    BY <1>3, <2>1, RankBounds
  <2>3. \A i, j \in S : <<i, j>> \in BeforeIn(y, S) =>
          Rank(BeforeIn(y, S), S, i) < Rank(BeforeIn(y, S), S, j)
    BY <1>3, <2>1, RankBounds
  <2>. QED
    BY <2>1, <2>2, <2>3 DEF Orders
<1>7. \A i, j \in S : <<i, j>> \in BeforeIn(y, S) <=> i # j /\ Before(x, i, j)
  BY <1>5 DEF BeforeIn
<1>8. \A i \in S : ~Before(x, i, i)
  <2>1. \A i \in S : Score(y[i]) \in Int /\ y[i].effort \in Nat /\ i \in Nat
    BY <1>2, <1>3, ScoreIsInteger DEF PriorityInput
  <2>2. \A i \in S : ~Before(y, i, i)
    BY <2>1 DEF Before
  <2>. QED
    BY <1>5, <2>2
<1>9. ASSUME NEW i \in S, NEW j \in S
      PROVE  Place(y, i) < Place(y, j) <=> Before(x, i, j)
  <2>1. PICK ri \in Nat : ri = Rank(BeforeIn(y, S), S, i) /\ Place(y, i) = ri + 1
    BY <1>6
  <2>2. PICK rj \in Nat : rj = Rank(BeforeIn(y, S), S, j) /\ Place(y, j) = rj + 1
    BY <1>6
  <2>3. i # j /\ Before(x, i, j) => ri < rj
    BY <1>6, <1>7, <2>1, <2>2
  <2>4. i = j \/ Before(x, i, j) \/ rj < ri
    BY <1>6, <1>7, <2>1, <2>2
  <2>5. i = j => ri = rj
    BY <2>1, <2>2
  <2>. QED
    BY <1>8, <2>1, <2>2, <2>3, <2>4, <2>5
<1>10. \A m, n \in 1..Len(s) : m < n <=> Before(x, s[m], s[n])
  BY <1>4, <1>9
<1>11. ListsOnce(s, S)
  BY PartRanked
<1>. QED
  BY <1>10, <1>11

\* What is ranked is the part of the schedule in scope and not leased.
Narrows(x, y, items, req, leased) ==
  /\ x \in [DOMAIN x -> PriorityInput] /\ DOMAIN x \subseteq Item /\ Eligible(x) \in SUBSET DOMAIN x
  /\ DOMAIN x = {j \in DOMAIN y : /\ req.repo = Null \/ items[j].repo = req.repo
                                  /\ req.verb = "graph" \/ j \notin leased}
  /\ \A j \in DOMAIN x : x[j] = y[j]

LEMMA ScopedAre ==
  ASSUME NEW b, IsBoard(b), NEW deps, NEW req, NEW leased, NEW x, x = ScopedOf(req, b.items, deps, leased)
  PROVE  Narrows(x, ScheduledOf(req, b.items, deps), b.items, req, leased)
<1>1. PICK y : y = ScheduledOf(req, b.items, deps)
  OBVIOUS
<1>2. y \in [DOMAIN y -> PriorityInput] /\ DOMAIN y \subseteq Item
  BY <1>1, ScheduledAre
<1>3. x = [i \in {j \in DOMAIN y : /\ req.repo = Null \/ b.items[j].repo = req.repo
                                   /\ req.verb = "graph" \/ j \notin leased} |-> y[i]]
  BY <1>1 DEF ScopedOf
<1>4. Eligible(x) \in SUBSET DOMAIN x
  BY DEF Eligible
<1>. QED
  BY <1>1, <1>2, <1>3, <1>4 DEF Narrows

LEMMA CandidatesAre ==
  ASSUME NEW b, IsBoard(b), NEW deps, NEW req, NEW leased, NEW q, q = CandidatesOf(req, b.items, deps, leased)
  PROVE  q \in Seq(Item) /\ Len(q) \in Nat
<1>1. CASE req.item = Null
  <2>1. PICK x : x = ScopedOf(req, b.items, deps, leased)
    OBVIOUS
  <2>2. q = RankingOf(x, Eligible(x))
    BY <1>1, <2>1 DEF CandidatesOf
  <2>3. Narrows(x, ScheduledOf(req, b.items, deps), b.items, req, leased)
    BY <2>1, ScopedAre
  <2>4. x \in [DOMAIN x -> PriorityInput] /\ Eligible(x) \in SUBSET DOMAIN x /\ Eligible(x) \subseteq Item
    BY <2>3 DEF Narrows
  <2>5. ListsOnce(q, Eligible(x))
    BY <2>2, <2>4, PartRanked
  <2>. QED
    BY <2>4, <2>5, WiderSeq DEF ListsOnce
<1>2. CASE req.item # Null
  <2>1. PICK S : S = {i \in NamedOf(req, b.items, deps) : IsEligible(ScheduledOf(req, b.items, deps)[i])}
    OBVIOUS
  <2>2. S \subseteq Item
    BY <2>1, ScheduledAre DEF NamedOf
  <2>3. IsFiniteSet(S) /\ q = SetToSeq(S)
    BY <1>2, <2>1, <2>2, FS_Subset, SchedulingAssumption DEF CandidatesOf
  <2>4. ListsOnce(q, S)
    BY <2>3, SeqOfSet
  <2>. QED
    BY <2>2, <2>4, WiderSeq DEF ListsOnce
<1>. QED
  BY <1>1, <1>2

LEMMA CandidatesRead ==
  ASSUME IInv, \A t \in {"items", "deps", "leases"} : call.seen[t] > 0
  PROVE  /\ \A t \in {"items", "deps", "leases"} : call.seen[t] \in 1..Len(log)
         /\ Items = log[call.seen["items"]].items /\ IsBoard(log[call.seen["items"]])
         /\ Candidates \in Seq(Item) /\ Len(Candidates) \in Nat
<1>1. \A t \in {"items", "deps", "leases"} : call.seen[t] \in 1..Len(log)
  <2>1. \A t \in {"items", "deps", "leases"} : call.seen[t] \in 0..Len(log)
    BY Facts, Fields DEF Tables
  <2>. QED
    BY <2>1, Facts
<1>2. PICK b : b = log[call.seen["items"]]
  OBVIOUS
<1>3. IsBoard(b)
  BY <1>1, <1>2, Facts, AnyBoard
<1>4. Candidates = CandidatesOf(call.req, b.items, Deps, Leased)
  BY <1>2, SaidOfCall DEF CandidatesIn, LeasedIn, Deps, Leased, Req
<1>5. Candidates \in Seq(Item) /\ Len(Candidates) \in Nat
  BY <1>3, <1>4, CandidatesAre
<1>. QED
  BY <1>1, <1>2, <1>3, <1>5 DEF Items

\* The candidates are tried in order, and left when they are held.
LEMMA ClaimTries ==
  ASSUME IInv, Claim
  PROVE  /\ call.tried + 1 \in 1..Len(Candidates)
         /\ \A n \in 1..call.tried : Candidates[n] \in wasHeld
<1>1. /\ call.at = "tables" /\ \A t \in {"items", "deps", "leases"} : call.seen[t] > 0
      /\ Candidates # <<>>
  BY DEF Claim, AllSeen, Needed
<1>2. Candidates \in Seq(Item) /\ Len(Candidates) \in Nat
  BY <1>1, CandidatesRead
<1>3. PICK c : c = call
  OBVIOUS
<1>4. Sound(c, log, held, wasHeld, wasFree) /\ c.tried \in Nat
  BY <1>3, Facts, Fields
<1>5. c.tried < Len(Candidates) /\ \A n \in 1..c.tried : Candidates[n] \in wasHeld
  <2>1. Candidates = CandidatesIn(c, log)
    BY <1>3, SaidOfCall
  <2>2. CASE c.tried > 0
    BY <1>1, <1>3, <1>4, <2>1, <2>2 DEF Sound, Refused
  <2>3. CASE c.tried = 0
    BY <1>1, <1>2, <2>3
  <2>. QED
    BY <1>4, <2>2, <2>3
<1>. QED
  BY <1>2, <1>3, <1>4, <1>5

LEMMA ClaimKeeps ==
  ASSUME IInv, Claim
  PROVE  IInv'
<1>. DEFINE i == Candidates[call.tried + 1]
<1>1. /\ call.at = "tables" /\ \A t \in {"items", "deps", "leases"} : call.seen[t] > 0
      /\ UNCHANGED <<log, working, trouble, wasFree>>
  BY DEF Claim, AllSeen, Needed
<1>2. Candidates \in Seq(Item) /\ Len(Candidates) \in Nat
  BY <1>1, CandidatesRead
<1>3. PICK c : c = call
  OBVIOUS
<1>4. IsCall(c, Len(log)) /\ Sound(c, log, held, wasHeld, wasFree) /\ c.tried \in Nat
  BY <1>3, Facts, Fields
<1>5. /\ c.tried + 1 \in 1..Len(Candidates)
      /\ \A n \in 1..c.tried : Candidates[n] \in wasHeld
  BY <1>3, ClaimTries
<1>6. i \in Item
  BY <1>2, <1>3, <1>5
<1>7. \/ /\ held' = held \cup {i} /\ wasHeld' = wasHeld \cup {i}
         /\ Answer([verdict |-> "granted", item |-> i])
      \/ /\ UNCHANGED <<held, wasHeld>>
         /\ Answer([verdict |-> "not-granted"])
      \/ /\ UNCHANGED <<held, wasHeld, ans>> /\ i \in held
         /\ call.tried + 1 # Len(Candidates)
         /\ call' = [call EXCEPT !.tried = @ + 1]
  BY DEF Claim
<1>8. held \subseteq Item /\ wasHeld \subseteq Item
  BY DEF IInv, World
<1>. HIDE DEF i
<1>9. CASE /\ held' = held \cup {i} /\ wasHeld' = wasHeld \cup {i}
           /\ Answer([verdict |-> "granted", item |-> i])
  <2>1. held' \subseteq Item /\ wasHeld' \subseteq Item /\ wasHeld \subseteq wasHeld'
    BY <1>6, <1>8, <1>9
  <2>2. [verdict |-> "granted", item |-> i].verdict # "none"
    OBVIOUS
  <2>. QED
    BY <1>1, <1>9, <2>1, <2>2, AnswerKeeps
<1>10. CASE /\ UNCHANGED <<held, wasHeld>>
            /\ Answer([verdict |-> "not-granted"])
  <2>1. held' \subseteq Item /\ wasHeld' \subseteq Item /\ wasHeld \subseteq wasHeld'
    BY <1>8, <1>10
  <2>2. [verdict |-> "not-granted"].verdict # "none"
    OBVIOUS
  <2>. QED
    BY <1>1, <1>10, <2>1, <2>2, AnswerKeeps
<1>11. CASE /\ UNCHANGED <<held, wasHeld, ans>> /\ i \in held
            /\ call.tried + 1 # Len(Candidates)
            /\ call' = [call EXCEPT !.tried = @ + 1]
  <2>1. PICK d : d = call'
    OBVIOUS
  <2>2. PICK n \in Nat : n = Len(log) /\ IsCall(c, n)
    BY <1>3, Facts
  <2>3. d = [c EXCEPT !.tried = c.tried + 1]
    BY <1>3, <1>11, <2>1
  <2>4. Becomes(c, d, c.at, c.pin, c.seen, c.listed, c.tried + 1, c.probed, c.leased)
    BY <2>2, <2>3, Changed
  <2>5. /\ d.at = "tables" /\ d.pin = c.pin /\ d.seen = c.seen /\ d.listed = c.listed /\ d.tried = c.tried + 1
        /\ d.probed = c.probed /\ d.leased = c.leased /\ d.req = c.req /\ c.at = "tables"
    BY <1>1, <1>3, <2>4 DEF Becomes
  <2>6. IsCall(d, n)
    <3>1. c.at \in At /\ c.pin \in 0..n /\ c.seen \in [Tables -> 0..n] /\ c.listed \in Seq(Item \X (1..n))
          /\ IsProbed(c.probed) /\ c.leased \in SUBSET Item /\ c.req \in Requests
      BY <2>2, <2>5, Fields
    <3>2. c.tried + 1 \in Nat
      BY <1>4
    <3>. QED
      BY <2>2, <2>4, <3>1, <3>2, BecomesCall
  <2>7. Pinned(d) /\ Staged(d, log) /\ Walked(d, log) /\ Observed(d, held, wasHeld, wasFree)
    BY <1>4, <2>5 DEF Sound, Pinned, Staged, Walked, Observed
  <2>8. Refused(d, log, wasHeld)
    <3>1. CandidatesIn(d, log) = Candidates
      BY <1>3, <2>5, SaidOfCall DEF CandidatesIn, LeasedIn
    <3>2. c.tried + 1 < Len(Candidates)
      BY <1>2, <1>3, <1>4, <1>5, <1>11
    <3>3. i \in wasHeld
      BY <1>4, <1>11, <2>5 DEF Sound, Observed
    <3>4. ASSUME NEW m \in 1..(c.tried + 1)
          PROVE  Candidates[m] \in wasHeld
      <4>1. m \in 1..c.tried \/ m = c.tried + 1
        BY <1>4
      <4>. QED
        BY <1>3, <1>5, <3>3, <4>1 DEF i
    <3>. QED
      BY <1>1, <1>3, <2>5, <3>1, <3>2, <3>4 DEF Refused
  <2>9. Sound(d, log, held, wasHeld, wasFree)
    BY <2>2, <2>6, <2>7, <2>8 DEF Sound
  <2>. QED
    BY <1>1, <1>3, <1>11, <2>1, <2>5, <2>9, StepKeeps
<1>. QED
  BY <1>7, <1>9, <1>10, <1>11

\* The server and the pinned reads agree that no such row can be scheduled.
LEMMA LookAmongAllKeeps ==
  ASSUME IInv, LookAmongAll
  PROVE  IInv'
<1>1. /\ call.at = "tables" /\ \A t \in {"items", "deps", "leases"} : call.seen[t] > 0
      /\ Req.verb = "claim" /\ Req.item # Null /\ NamedRow = {}
      /\ call' = [call EXCEPT !.at = "listHead", !.pin = 0]
      /\ UNCHANGED <<log, working, held, ans, trouble, wasHeld, wasFree>>
  BY DEF LookAmongAll, AllSeen, Needed
<1>2. PICK c : c = call
  OBVIOUS
<1>3. PICK d : d = call'
  OBVIOUS
<1>4. PICK n \in Nat : n = Len(log) /\ IsCall(c, n)
  BY <1>2, Facts
<1>5. d = [c EXCEPT !.at = "listHead", !.pin = 0]
  BY <1>1, <1>2, <1>3
<1>6. Becomes(c, d, "listHead", 0, c.seen, c.listed, c.tried, c.probed, c.leased)
  BY <1>4, <1>5, Changed
<1>7. /\ d.at = "listHead" /\ d.pin = 0 /\ d.seen = c.seen /\ d.listed = c.listed /\ d.tried = c.tried
      /\ d.probed = c.probed /\ d.leased = c.leased /\ d.req = c.req /\ c.at = "tables"
  BY <1>1, <1>2, <1>6 DEF Becomes
<1>8. Sound(c, log, held, wasHeld, wasFree)
  BY <1>2, Facts
<1>9. IsCall(d, n)
  <2>1. c.seen \in [Tables -> 0..n] /\ c.listed \in Seq(Item \X (1..n))
        /\ c.tried \in Nat /\ IsProbed(c.probed) /\ c.leased \in SUBSET Item /\ c.req \in Requests
    BY <1>4, <1>7, Fields
  <2>2. "listHead" \in At /\ 0 \in 0..n
    BY DEF At
  <2>. QED
    BY <1>4, <1>6, <2>1, <2>2, BecomesCall
<1>10. Unnamed(d, log)
  <2>1. IsBoard(log[c.seen["items"]]) /\ Items = log[c.seen["items"]].items /\ c.seen["items"] > 0
    BY <1>1, <1>2, CandidatesRead
  <2>2. \A i \in DOMAIN ScheduledOf(Req, Items, Deps) : ~SelectorMatches(SelectorOf(Req), i, Items[i])
    BY <1>1, SaidOfCall DEF NamedOf
  <2>3. ResolveReads(Req.env) # "local" => DOMAIN ScheduledOf(Req, Items, Deps) = Schedulable(Items)
    BY <2>1, ScheduledAre
  <2>. QED
    BY <1>1, <1>2, <1>7, <2>1, <2>2, <2>3 DEF Unnamed, Req
<1>11. Staged(d, log)
  BY <1>7, <1>8, <1>10 DEF Sound, Staged
<1>12. Pinned(d) /\ Walked(d, log) /\ Refused(d, log, wasHeld) /\ Observed(d, held, wasHeld, wasFree)
  BY <1>7, <1>8 DEF Sound, Pinned, Walked, Refused, Observed
<1>13. Sound(d, log, held, wasHeld, wasFree)
  BY <1>4, <1>9, <1>11, <1>12 DEF Sound
<1>. QED
  BY <1>1, <1>2, <1>3, <1>7, <1>13, StepKeeps

LEMMA ListedKeeps ==
  ASSUME IInv, UNCHANGED <<log, working, held, trouble, wasHeld, wasFree>>, call.at \in {"pages", "listHead"},
         NEW listed \in Seq(Item \X (1..Len(log))), Listed(listed),
         IsListing(listed, log, Req), Complete(listed, log, Req, call.pin)
  PROVE  IInv'
<1>1. PICK c : c = call
  OBVIOUS
<1>2. PICK d : d = call'
  OBVIOUS
<1>3. PICK n \in Nat : n = Len(log) /\ IsCall(c, n)
  BY <1>1, Facts
<1>4. PICK at \in {"listEdges", "done"} : at = IF Req.verb = "list" THEN "listEdges" ELSE "done"
  OBVIOUS
<1>5. d = [c EXCEPT !.listed = listed, !.at = at]
  BY <1>1, <1>2, <1>4 DEF Listed
<1>6. Becomes(c, d, at, c.pin, c.seen, listed, c.tried, c.probed, c.leased)
  BY <1>3, <1>5, Changed
<1>7. /\ d.at = at /\ d.pin = c.pin /\ d.seen = c.seen /\ d.listed = listed /\ d.tried = c.tried
      /\ d.probed = c.probed /\ d.leased = c.leased /\ d.req = c.req /\ c.at \in {"pages", "listHead"} /\ c.req = Req
  BY <1>1, <1>6 DEF Becomes, Req
<1>8. Sound(c, log, held, wasHeld, wasFree) /\ IsLog(log)
  BY <1>1, Facts
<1>9. CASE Req.verb = "list"
  <2>1. at = "listEdges" /\ UNCHANGED ans
    BY <1>4, <1>9 DEF Listed
  <2>2. IsCall(d, n)
    <3>1. c.pin \in 0..n /\ c.seen \in [Tables -> 0..n] /\ listed \in Seq(Item \X (1..n))
          /\ c.tried \in Nat /\ IsProbed(c.probed) /\ c.leased \in SUBSET Item /\ c.req \in Requests
      BY <1>3, <1>7, Fields
    <3>2. at \in At
      BY <2>1 DEF At
    <3>. QED
      BY <1>3, <1>6, <3>1, <3>2, BecomesCall
  <2>3. Pinned(d) /\ Staged(d, log) /\ Refused(d, log, wasHeld) /\ Observed(d, held, wasHeld, wasFree)
    BY <1>7, <1>8, <1>9, <2>1 DEF Sound, Pinned, Staged, Refused, Observed
  <2>4. Walked(d, log)
    BY <1>1, <1>7, <2>1 DEF Walked
  <2>5. Sound(d, log, held, wasHeld, wasFree)
    BY <1>3, <2>2, <2>3, <2>4 DEF Sound
  <2>. QED
    BY <1>2, <1>7, <2>1, <2>5, StepKeeps
<1>10. CASE Req.verb # "list"
  <2>1. at = "done" /\ ans'.verdict # "none"
    BY <1>4, <1>10 DEF Listed
  <2>2. Sound(d, log, held, wasHeld, wasFree)
    BY <1>6, <1>7, <1>8, <2>1, OverIsSound
  <2>3. World'
    BY DEF IInv, World
  <2>. QED
    BY <1>2, <1>7, <2>1, <2>2, <2>3 DEF IInv
<1>. QED
  BY <1>9, <1>10

LEMMA PageRead ==
  ASSUME IInv, ReadPage
  PROVE  \E more \in Seq(Item \X (1..Len(log))) :
           /\ IsListing(more, log, Req) /\ ReadTo(EndOf(more), more, log, Req, call.pin)
           /\ \/ Listed(more) /\ Complete(more, log, Req, call.pin)
              \/ call' = [call EXCEPT !.listed = more] /\ UNCHANGED ans
<1>1. PICK k : k = PinTables("items")
  OBVIOUS
<1>2. PICK page : page = Smallest({i \in RowsFor(log[k], Req) : i > EndOf(call.listed)}, PAGE_ROWS)
  OBVIOUS
<1>3. PICK more : more = call.listed \o InOrder(page, k)
  OBVIOUS
<1>4. page = Page(log[k].items)
  BY <1>2, SaidOfCall DEF Page
<1>5. /\ call.at = "pages" /\ UNCHANGED <<log, working, held, trouble, wasHeld, wasFree>>
      /\ \/ Cardinality(page) < PAGE_ROWS /\ Listed(more)
         \/ call' = [call EXCEPT !.listed = more] /\ UNCHANGED ans
  BY <1>1, <1>3, <1>4 DEF ReadPage
<1>6. PICK c : c = call
  OBVIOUS
<1>7. PICK n \in Nat : n = Len(log) /\ IsCall(c, n)
  BY <1>6, Facts
<1>8. /\ Sound(c, log, held, wasHeld, wasFree) /\ IsLog(log) /\ c.req = Req
      /\ c.at = "pages" /\ c.pin \in 0..n /\ c.listed \in Seq(Item \X (1..Len(log)))
  BY <1>5, <1>6, <1>7, Facts, Fields DEF Req
<1>9. k \in 1..Len(log) /\ (c.pin > 0 => k = c.pin)
  BY <1>1, <1>6, <1>7, <1>8, Facts DEF PinTables
<1>10. IsListing(c.listed, log, Req) /\ ReadTo(EndOf(c.listed), c.listed, log, Req, c.pin)
  BY <1>8 DEF Sound, Walked
<1>11. /\ more \in Seq(Item \X (1..Len(log))) /\ IsListing(more, log, Req)
       /\ ReadTo(EndOf(more), more, log, Req, c.pin)
       /\ Cardinality(page) < PAGE_ROWS => Complete(more, log, Req, c.pin)
  <2>1. PICK listed \in Seq(Item \X (1..Len(log))) : listed = c.listed
    BY <1>8
  <2>2. PICK pin \in 0..Len(log) : pin = c.pin
    BY <1>7, <1>8
  <2>3. /\ IsLog(log) /\ k \in 1..Len(log) /\ (pin > 0 => k = pin)
        /\ IsListing(listed, log, Req) /\ ReadTo(EndOf(listed), listed, log, Req, pin)
        /\ page = Smallest({i \in RowsFor(log[k], Req) : i > EndOf(listed)}, PAGE_ROWS)
        /\ more = listed \o InOrder(page, k)
    BY <1>2, <1>3, <1>6, <1>8, <1>9, <1>10, <2>1, <2>2
  <2>4. /\ more \in Seq(Item \X (1..Len(log))) /\ IsListing(more, log, Req)
        /\ ReadTo(EndOf(more), more, log, Req, pin)
        /\ Cardinality(page) < PAGE_ROWS => Complete(more, log, Req, pin)
    BY ONLY <2>3, PageGoesOn
  <2>. QED
    BY <2>2, <2>4
<1>. QED
  BY <1>5, <1>6, <1>11

LEMMA ReadPageKeeps ==
  ASSUME IInv, ReadPage
  PROVE  IInv'
<1>1. call.at = "pages" /\ UNCHANGED <<log, working, held, trouble, wasHeld, wasFree>>
  BY DEF ReadPage
<1>2. PICK more \in Seq(Item \X (1..Len(log))) :
        /\ IsListing(more, log, Req) /\ ReadTo(EndOf(more), more, log, Req, call.pin)
        /\ \/ Listed(more) /\ Complete(more, log, Req, call.pin)
           \/ call' = [call EXCEPT !.listed = more] /\ UNCHANGED ans
  BY PageRead
<1>3. CASE Listed(more) /\ Complete(more, log, Req, call.pin)
  BY <1>1, <1>2, <1>3, ListedKeeps
<1>4. CASE call' = [call EXCEPT !.listed = more] /\ UNCHANGED ans
  <2>1. PICK c : c = call
    OBVIOUS
  <2>2. PICK d : d = call'
    OBVIOUS
  <2>3. PICK n \in Nat : n = Len(log) /\ IsCall(c, n)
    BY <2>1, Facts
  <2>4. d = [c EXCEPT !.listed = more]
    BY <1>4, <2>1, <2>2
  <2>5. Becomes(c, d, c.at, c.pin, c.seen, more, c.tried, c.probed, c.leased)
    BY <2>3, <2>4, Changed
  <2>6. /\ d.at = "pages" /\ d.pin = c.pin /\ d.seen = c.seen /\ d.listed = more /\ d.tried = c.tried
        /\ d.probed = c.probed /\ d.leased = c.leased /\ d.req = c.req /\ c.at = "pages" /\ c.req = Req
    BY <1>1, <2>1, <2>5 DEF Becomes, Req
  <2>7. IsCall(d, n)
    <3>1. c.at \in At /\ c.pin \in 0..n /\ c.seen \in [Tables -> 0..n] /\ c.tried \in Nat
          /\ IsProbed(c.probed) /\ c.leased \in SUBSET Item /\ c.req \in Requests
      BY <2>3, <2>6, Fields
    <3>. QED
      BY <1>2, <2>3, <2>5, <3>1, BecomesCall
  <2>8. Sound(c, log, held, wasHeld, wasFree)
    BY <2>1, Facts
  <2>9. Pinned(d) /\ Refused(d, log, wasHeld) /\ Observed(d, held, wasHeld, wasFree)
    BY <2>6, <2>8 DEF Sound, Pinned, Refused, Observed
  <2>10. Staged(d, log)
    BY <2>6, <2>8 DEF Sound, Staged, Unnamed
  <2>11. Walked(d, log)
    BY <1>2, <2>1, <2>6 DEF Walked
  <2>12. Sound(d, log, held, wasHeld, wasFree)
    BY <2>3, <2>7, <2>9, <2>10, <2>11 DEF Sound
  <2>. QED
    BY <1>1, <1>4, <2>1, <2>2, <2>6, <2>12, StepKeeps
<1>. QED
  BY <1>2, <1>3, <1>4

LEMMA TableRead ==
  ASSUME IInv, ReadAllItems
  PROVE  /\ call.pin = 0
         /\ \E listed \in Seq(Item \X (1..Len(log))), k \in 1..Len(log) :
              /\ Listed(listed) /\ IsListing(listed, log, Req) /\ Complete(listed, log, Req, 0)
              /\ Ids(listed) = RowsFor(log[k], Req) /\ \A n \in 1..Len(listed) : listed[n][2] = k
<1>1. /\ call.at = "listHead"
      /\ \E k \in IF Source = "server" THEN {Latest} ELSE AtLeast(1, call.seen["items"])..Latest :
           Listed(InOrder(InScope(log[k].items), k))
  BY DEF ReadAllItems, Reads
<1>2. call.seen["items"] \in 0..Len(log)
  BY Facts, Fields DEF Tables
<1>3. PICK k \in 1..Len(log) : Listed(InOrder(RowsFor(log[k], Req), k))
  <2>1. PICK k \in IF Source = "server" THEN {Latest} ELSE AtLeast(1, call.seen["items"])..Latest :
          Listed(InOrder(InScope(log[k].items), k))
    BY <1>1
  <2>2. k \in 1..Len(log)
    BY <1>2, Facts DEF AtLeast
  <2>. QED
    BY <2>1, <2>2, SaidOfCall
<1>4. PICK listed : listed = InOrder(RowsFor(log[k], Req), k)
  OBVIOUS
<1>5. IsLog(log) /\ call.pin = 0
  BY <1>1, Facts DEF Sound, Pinned
<1>6. /\ listed \in Seq(Item \X (1..Len(log))) /\ IsListing(listed, log, Req) /\ Complete(listed, log, Req, 0)
      /\ IsTable(listed, log[k], Req, k)
  BY <1>4, <1>5, TableListed
<1>. QED
  BY <1>3, <1>4, <1>5, <1>6 DEF IsTable

LEMMA ReadAllItemsKeeps ==
  ASSUME IInv, ReadAllItems
  PROVE  IInv'
<1>1. call.at = "listHead" /\ UNCHANGED <<log, working, held, trouble, wasHeld, wasFree>>
  BY DEF ReadAllItems, Reads
<1>2. PICK listed \in Seq(Item \X (1..Len(log))) :
        Listed(listed) /\ IsListing(listed, log, Req) /\ Complete(listed, log, Req, 0) /\ call.pin = 0
  BY TableRead
<1>. QED
  BY <1>1, <1>2, ListedKeeps

LEMMA ListEdgesKeeps ==
  ASSUME IInv, ListEdges
  PROVE  IInv'
<1>1. /\ call.at # "idle" /\ UNCHANGED <<log, working, held, trouble, wasHeld, wasFree>>
      /\ Throws \/ \E a : a.verdict # "none" /\ Answer(a)
  BY DEF ListEdges
<1>2. held' \subseteq Item /\ wasHeld' \subseteq Item /\ wasHeld \subseteq wasHeld'
  BY <1>1 DEF IInv, World
<1>. QED
  BY <1>1, <1>2, AnswerKeeps, ThrowKeeps

-------------------------------------------------------------------------------
(* The invariant, and the types.                                           *)

LEMMA InitHolds ==
  ASSUME Init
  PROVE  IInv
<1>1. PICK b \in Boards : log = <<b>>
  BY DEF Init
<1>2. IsLog(log) /\ World
  <2>1. b \in Commits /\ b.leases \subseteq Item
    BY CommitsAre, QueueAssumption DEF IsBoard
  <2>. QED
    BY <1>1, <2>1, QueueAssumption DEF Init, IsLog, World
<1>3. Sound(NoCall, log, held, wasHeld, wasFree)
  <2>1. PICK l : l = log
    OBVIOUS
  <2>2. IsLog(l)
    BY <1>2, <2>1
  <2>3. Sound(NoCall, l, held, wasHeld, wasFree)
    BY <2>2, NoCallIs, IdleIsSound
  <2>. QED
    BY <2>1, <2>3
<1>. QED
  BY <1>2, <1>3 DEF Init, IInv, NoCall

LEMMA NextKeeps ==
  ASSUME IInv, [Next]_vars
  PROVE  IInv'
<1>1. CASE UNCHANGED vars
  BY <1>1 DEF vars, IInv, World
<1>2. ASSUME NEW b \in Boards, Publish(b) PROVE IInv'
  BY <1>2, PublishKeeps
<1>10. ASSUME NEW i \in Leasable, WriteLease(i) PROVE IInv'
  BY <1>10, WriteLeaseKeeps
<1>11. CASE CommitLeases
  BY <1>11, CommitLeasesKeeps
<1>3. ASSUME NEW i \in Item, Take(i) \/ Leave(i) \/ Probe(i) PROVE IInv'
  BY <1>3, LeaseKeeps, ProbeKeeps
<1>4. ASSUME NEW r \in Requests, Begin(r) PROVE IInv'
  BY <1>4, BeginKeeps
<1>5. ASSUME NEW t \in Tables, ReadTable(t) PROVE IInv'
  BY <1>5, ReadTableKeeps
<1>6. CASE Return \/ ThrowSelector \/ QueryFails
  BY <1>6, ReturnKeeps, ErrorsKeep
<1>7. CASE ResolveHead \/ ReadSnapshot \/ ReadEdges
  BY <1>7, ResolveHeadKeeps, ReadSnapshotKeeps, ReadEdgesKeeps
<1>8. CASE AnswerNext \/ AnswerGraph \/ Refuse \/ Claim \/ LookAmongAll
  BY <1>8, AnswersKeep, ClaimKeeps, LookAmongAllKeeps
<1>9. CASE ReadPage \/ ReadAllItems \/ ListEdges
  BY <1>9, ReadPageKeeps, ReadAllItemsKeeps, ListEdgesKeeps
<1>. QED
  BY <1>1, <1>2, <1>3, <1>4, <1>5, <1>6, <1>7, <1>8, <1>9, <1>10, <1>11 DEF Next

LEMMA Invariance == Spec => []IInv
BY InitHolds, NextKeeps, PTL DEF Spec

\* Every state has the types of the code's values: a call is at one of its
\* stages, has seen commits that exist and rows of the items table, and has an
\* answer when it is done and only then.
THEOREM TypeCorrect == Spec => []TypeOK
<1>1. ASSUME IInv
      PROVE  TypeOK
  <2>1. /\ log \in Seq(Commits) /\ working \subseteq Item /\ Latest \in 1..(MaxTrouble + 1) /\ trouble \in 0..MaxTrouble
        /\ held \subseteq Item /\ wasHeld \subseteq Item /\ wasFree \subseteq Item
    BY <1>1, QueueAssumption DEF IInv, World, Latest
  <2>2. (call.at = "done") = (ans # NoAnswer)
    BY <1>1 DEF IInv, NoAnswer
  <2>3. /\ call.at \in {"idle", "head", "tables", "listHead", "pages", "listEdges", "done"}
        /\ call.at # "idle" => call.req \in Requests
        /\ call.pin \in 0..Latest /\ call.seen \in [Tables -> 0..Latest] /\ call.tried \in Nat
        /\ call.listed \in Seq(Item \X (1..Latest)) /\ IsProbed(call.probed)
        /\ call.leased \subseteq Item
    BY <1>1, Facts, Fields DEF At
  <2>. QED
    BY <2>1, <2>2, <2>3 DEF TypeOK, IsProbed
<1>. QED
  BY <1>1, Invariance, PTL

-------------------------------------------------------------------------------
(* What the answers say.                                                   *)

\* The updates that end no call.
LEMMA GoesOn ==
  ASSUME NEW n, NEW c, IsCall(c, n), c.at # "done", NEW d, d.at = "done"
  PROVE  /\ \A seen : d # [c EXCEPT !.seen = seen]
         /\ \A probed : d # [c EXCEPT !.probed = probed]
         /\ \A tried : d # [c EXCEPT !.tried = tried]
         /\ \A listed : d # [c EXCEPT !.listed = listed]
         /\ \A pin : d # [c EXCEPT !.at = "listHead", !.pin = pin]
         /\ \A pin, leased, seen : d # [c EXCEPT !.at = "tables", !.pin = pin, !.leased = leased, !.seen = seen]
         /\ \A pin : d # [c EXCEPT !.pin = pin, !.at = "tables"]
         /\ \A pin : d # [c EXCEPT !.pin = pin, !.at = "pages"]
         /\ \A listed : d # [c EXCEPT !.listed = listed, !.at = "listEdges"]
<1>1. DOMAIN c = {"at", "req", "pin", "leased", "seen", "listed", "tried", "probed"}
  BY DEF IsCall
<1>. QED
  BY <1>1

\* A call ends in one of a few ways.
LEMMA WhoAnswers ==
  ASSUME IInv, Next, call.at # "done", call'.at = "done", ans'.verdict # "error"
  PROVE  \/ AnswerNext /\ ans'.verdict = "next"
         \/ AnswerGraph /\ ans'.verdict = "graph"
         \/ Claim /\ ans'.verdict \in {"granted", "not-granted"}
         \/ Refuse /\ ans'.verdict \in {"not-granted", "not-eligible"}
         \/ (ReadPage \/ ReadAllItems) /\ ans'.verdict \in {"not-eligible", "not-in-mirror"}
         \/ ListEdges /\ ans'.verdict = "list"
<1>1. ~Throws
  BY DEF Throws, Answer
<1>2. PICK c : c = call
  OBVIOUS
<1>3. PICK d : d = call'
  OBVIOUS
<1>4. c.at # "done" /\ d.at = "done" /\ IsCall(c, Len(log))
  BY <1>2, <1>3, Facts
<1>5. /\ \A seen : d # [c EXCEPT !.seen = seen]
      /\ \A probed : d # [c EXCEPT !.probed = probed]
      /\ \A tried : d # [c EXCEPT !.tried = tried]
      /\ \A listed : d # [c EXCEPT !.listed = listed]
      /\ \A pin : d # [c EXCEPT !.at = "listHead", !.pin = pin]
      /\ \A pin, leased, seen : d # [c EXCEPT !.at = "tables", !.pin = pin, !.leased = leased, !.seen = seen]
      /\ \A pin : d # [c EXCEPT !.pin = pin, !.at = "tables"]
      /\ \A pin : d # [c EXCEPT !.pin = pin, !.at = "pages"]
      /\ \A listed : d # [c EXCEPT !.listed = listed, !.at = "listEdges"]
  BY <1>4, GoesOn
<1>6. call' # call
  OBVIOUS
<1>7. ASSUME NEW b \in Boards, Publish(b) PROVE FALSE
  BY <1>6, <1>7 DEF Publish
<1>21. ~CommitLeases /\ \A i \in Leasable : ~WriteLease(i)
  BY <1>6 DEF CommitLeases, WriteLease
<1>8. ASSUME NEW i \in Item, Take(i) \/ Leave(i) PROVE FALSE
  BY <1>6, <1>8 DEF Take, Leave
<1>9. ASSUME NEW i \in Item, Probe(i) PROVE FALSE
  BY <1>2, <1>3, <1>5, <1>9 DEF Probe
<1>10. ASSUME NEW r \in Requests, Begin(r) PROVE FALSE
  BY <1>10 DEF Begin, NoCall
<1>11. ASSUME NEW t \in Tables, ReadTable(t) PROVE FALSE
  BY <1>1, <1>2, <1>3, <1>5, <1>11 DEF ReadTable
<1>12. ~Return /\ ~ThrowSelector /\ ~QueryFails
  BY <1>1 DEF Return, ThrowSelector, QueryFails
<1>13. ~ResolveHead
  BY <1>2, <1>3, <1>5 DEF ResolveHead
<1>14. ASSUME ReadSnapshot PROVE FALSE
  <2>1. PICK k, pin :
          call' = [call EXCEPT !.at = "tables", !.pin = pin, !.leased = working,
                               !.seen = [t \in Tables |-> IF t = "edges" THEN @[t] ELSE k]]
    BY <1>14 DEF ReadSnapshot
  <2>2. PICK seen : seen = [t \in Tables |-> IF t = "edges" THEN c.seen[t] ELSE k]
    OBVIOUS
  <2>3. PICK leased : leased = working
    OBVIOUS
  <2>4. d = [c EXCEPT !.at = "tables", !.pin = pin, !.leased = leased, !.seen = seen]
    BY <1>2, <1>3, <2>1, <2>2, <2>3
  <2>. QED
    BY <1>5, <2>4
<1>22. ~ReadEdges
  BY <1>1, <1>2, <1>3, <1>5 DEF ReadEdges
<1>23. ~LookAmongAll
  BY <1>2, <1>3, <1>5 DEF LookAmongAll
<1>15. CASE AnswerNext
  BY <1>15 DEF AnswerNext, Answer
<1>16. CASE AnswerGraph
  BY <1>16 DEF AnswerGraph, Answer
<1>17. CASE Claim
  <2>1. \E i : ans' = [verdict |-> "granted", item |-> i] \/ ans' = [verdict |-> "not-granted"]
    BY <1>2, <1>3, <1>5, <1>17 DEF Claim, Answer
  <2>. QED
    BY <1>17, <2>1
<1>18. CASE Refuse
  BY <1>18 DEF Refuse, Answer
<1>19. CASE ReadPage \/ ReadAllItems
  <2>1. PICK listed : Listed(listed)
    BY <1>2, <1>3, <1>5, <1>19 DEF ReadPage, ReadAllItems
  <2>2. Req.verb # "list"
    BY <1>2, <1>3, <1>5, <2>1 DEF Listed
  <2>3. ans'.verdict \in {"not-eligible", "not-in-mirror"}
    BY <2>1, <2>2 DEF Listed
  <2>. QED
    BY <1>19, <2>3
<1>20. CASE ListEdges
  <2>1. \E e : ans' = [verdict |-> "list", edges |-> e]
    BY <1>1, <1>20 DEF ListEdges, Answer
  <2>. QED
    BY <1>20, <2>1
<1>. QED
  BY <1>7, <1>8, <1>9, <1>10, <1>11, <1>12, <1>13, <1>14, <1>15, <1>16, <1>17, <1>18, <1>19, <1>20, <1>21, <1>22, <1>23 DEF Next

LEMMA ListingIsWhole ==
  ASSUME IInv, Next, Answered("list")
  PROVE  LET rows == [n \in DOMAIN call.listed |-> call.listed[n][1]]
             lasting == {i \in Item : \A c \in 1..Latest :
                           i \in DOMAIN log[c].items /\ Req.repo \in {Null, log[c].items[i].repo}}
         IN  /\ lasting \subseteq ToSet(rows)
             /\ \A m, n \in DOMAIN rows : rows[m] = rows[n] => m = n
             /\ call.pin > 0 =>
                  /\ ToSet(rows) = InScope(log[call.pin].items)
                  /\ ans'.edges = GraphEdges(ToSet(rows), log[call.pin].deps)
<1>. DEFINE rows == [n \in DOMAIN call.listed |-> call.listed[n][1]]
            lasting == {i \in Item : \A c \in 1..Latest :
                          i \in DOMAIN log[c].items /\ Req.repo \in {Null, log[c].items[i].repo}}
<1>1. ListEdges /\ ~Throws
  BY WhoAnswers DEF Answered, Throws, Answer
<1>2. PICK c : c = call
  OBVIOUS
<1>3. PICK n \in Nat : n = Len(log) /\ IsCall(c, n)
  BY <1>2, Facts
<1>4. /\ IsLog(log) /\ c.req = Req /\ c.at = "listEdges" /\ Req.verb = "list"
      /\ c.pin \in 0..n /\ (c.pin > 0 => Source # "local")
      /\ c.listed \in Seq(Item \X (1..n))
      /\ IsListing(c.listed, log, Req) /\ Complete(c.listed, log, Req, c.pin)
  <2>1. c.at = "listEdges" /\ c.req = Req /\ Sound(c, log, held, wasHeld, wasFree) /\ IsLog(log)
    BY <1>1, <1>2, Facts DEF ListEdges, Req
  <2>2. Req.verb = "list" /\ (c.pin > 0 => ResolveReads(Req.env) # "local")
        /\ IsListing(c.listed, log, Req) /\ Complete(c.listed, log, Req, c.pin)
    BY <2>1 DEF Sound, Staged, Pinned, Walked
  <2>. QED
    BY <1>3, <2>1, <2>2, Fields, SaidOfCall
<1>5. DOMAIN c.listed = 1..Len(c.listed) /\ DOMAIN rows = 1..Len(c.listed)
      /\ \A k \in 1..Len(c.listed) : rows[k] = c.listed[k][1]
  BY <1>2, <1>4
<1>6. ToSet(rows) = Ids(c.listed)
  BY <1>5 DEF ToSet, Ids
<1>7. lasting \subseteq ToSet(rows)
  <2>1. lasting = Lasting(log, Req)
    BY <1>4 DEF Lasting, RowsFor, Latest
  <2>. QED
    BY <1>4, <1>6, <2>1 DEF Complete
<1>. HIDE DEF rows, lasting
<1>8. ASSUME NEW k \in DOMAIN rows, NEW m \in DOMAIN rows, rows[k] = rows[m]
      PROVE  k = m
  <2>1. k \in 1..Len(c.listed) /\ m \in 1..Len(c.listed)
    BY <1>5
  <2>2. c.listed[k][1] = c.listed[m][1] /\ c.listed[k][1] \in Item
    BY <1>3, <1>5, <1>8, <2>1, Fields
  <2>3. k \in Nat /\ m \in Nat /\ c.listed[k][1] \in Nat /\ c.listed[m][1] \in Nat
    <3>1. k \in Nat /\ m \in Nat
      BY <2>1
    <3>2. c.listed[k][1] \in Nat
      BY <2>2, SchedulingAssumption
    <3>. QED
      BY <2>2, <3>1, <3>2
  <2>4. ~(k < m) /\ ~(m < k)
    BY <1>4, <2>1, <2>2, <2>3 DEF IsListing
  <2>. QED
    BY <2>3, <2>4
<1>9. ASSUME c.pin > 0
      PROVE  /\ ToSet(rows) = InScope(log[c.pin].items)
             /\ ans'.edges = GraphEdges(ToSet(rows), log[c.pin].deps)
  <2>1. InScope(log[c.pin].items) = RowsFor(log[c.pin], Req)
    BY SaidOfCall
  <2>2. RowsFor(log[c.pin], Req) \subseteq Ids(c.listed)
    BY <1>4, <1>9 DEF Complete
  <2>3. Ids(c.listed) \subseteq RowsFor(log[c.pin], Req)
    BY <1>4, <1>9 DEF Complete, IsListing, Ids
  <2>4. PinTables("deps") = c.pin
    BY <1>2, <1>9 DEF PinTables
  <2>5. ans'.edges = GraphEdges({call.listed[k][1] : k \in DOMAIN call.listed}, log[c.pin].deps)
    BY <1>1, <1>4, <1>9, <2>4 DEF ListEdges, Answer
  <2>6. {call.listed[k][1] : k \in DOMAIN call.listed} = ToSet(rows)
    BY <1>2, <1>5, <1>6 DEF Ids
  <2>. QED
    BY <1>6, <2>1, <2>2, <2>3, <2>5, <2>6
<1>. QED
  BY <1>2, <1>7, <1>8, <1>9 DEF rows, lasting

\* A listing walked in pages misses no row that was in the table at each commit
\* of the walk and repeats none, and a pinned one is one board's, edges included
\* (dolthub.ts readAllItems).
THEOREM ListingsAreWhole == Spec => LastingRowsAreListed
<1>1. IInv /\ [Next]_vars =>
        (Answered("list") =>
           LET rows == [n \in DOMAIN call.listed |-> call.listed[n][1]]
               lasting == {i \in Item : \A c \in 1..Latest :
                             i \in DOMAIN log[c].items /\ Req.repo \in {Null, log[c].items[i].repo}}
           IN  /\ lasting \subseteq ToSet(rows)
               /\ \A m, n \in DOMAIN rows : rows[m] = rows[n] => m = n
               /\ call.pin > 0 =>
                    /\ ToSet(rows) = InScope(log[call.pin].items)
                    /\ ans'.edges = GraphEdges(ToSet(rows), log[call.pin].deps))
  <2>1. UNCHANGED vars => ~Answered("list")
    BY DEF vars, Answered
  <2>. QED
    BY <2>1, ListingIsWhole
<1>. QED
  BY <1>1, Invariance, PTL DEF LastingRowsAreListed, Spec

\* The first of a list of S are of S, and all of it when they are not as many
\* as asked.
LEMMA FirstAre ==
  ASSUME NEW S, NEW s, ListsOnce(s, S), NEW n \in Nat, NEW q, q = FirstOf(s, n)
  PROVE  /\ ToSet(q) \subseteq S
         /\ Len(q) < n => ToSet(q) = S
         /\ S = {} => q = <<>>
<1>1. PICK k : k = AtMost(n, Len(s))
  OBVIOUS
<1>2. s \in Seq(S) /\ Len(s) \in Nat /\ \A i \in S : \E m \in 1..Len(s) : s[m] = i
  BY DEF ListsOnce
<1>3. k \in Nat /\ k <= Len(s) /\ (k < n => k = Len(s))
  BY <1>1, <1>2 DEF AtMost
<1>4. q = SubSeq(s, 1, k)
  BY <1>1 DEF FirstOf
<1>5. Len(q) = k /\ DOMAIN q = 1..k /\ \A m \in 1..k : q[m] = s[m]
  <2>1. q = [m \in 1..k |-> s[m]]
    BY <1>2, <1>3, <1>4
  <2>. QED
    BY <1>3, <2>1
<1>6. ToSet(q) = {s[m] : m \in 1..k}
  BY <1>5 DEF ToSet
<1>7. ToSet(q) \subseteq S
  BY <1>2, <1>3, <1>6
<1>8. Len(q) < n => ToSet(q) = S
  BY <1>2, <1>3, <1>5, <1>6, <1>7
<1>9. ASSUME S = {}
      PROVE  q = <<>>
  <2>1. Len(s) = 0
    BY <1>9, FS_EmptySet DEF ListsOnce
  <2>2. k = 0
    BY <1>2, <1>3, <2>1
  <2>. QED
    BY <1>4, <2>2
<1>. QED
  BY <1>7, <1>8, <1>9

LEMMA ScopedRead ==
  ASSUME IInv, \A t \in {"items", "deps", "leases"} : call.seen[t] > 0
  PROVE  /\ Narrows(Scoped, Scheduled, Items, Req, Leased)
         /\ \A S \in SUBSET DOMAIN Scoped : ListsOnce(RankingOf(Scoped, S), S)
         /\ Available \in SUBSET DOMAIN Scoped
<1>1. PICK b : b = log[call.seen["items"]]
  OBVIOUS
<1>2. IsBoard(b) /\ b.items = Items
  BY <1>1, CandidatesRead
<1>3. PICK x : x = Scoped
  OBVIOUS
<1>4. x = ScopedOf(Req, b.items, Deps, Leased)
  BY <1>2, <1>3, SaidOfCall
<1>5. Narrows(x, ScheduledOf(Req, b.items, Deps), b.items, Req, Leased)
  BY <1>2, <1>4, ScopedAre
<1>6. Narrows(x, Scheduled, Items, Req, Leased)
  BY <1>2, <1>5, SaidOfCall
<1>7. \A S \in SUBSET DOMAIN x : ListsOnce(RankingOf(x, S), S)
  <2>. SUFFICES ASSUME NEW S \in SUBSET DOMAIN x PROVE ListsOnce(RankingOf(x, S), S)
    OBVIOUS
  <2>1. x \in [DOMAIN x -> PriorityInput] /\ S \subseteq Item
    BY <1>6 DEF Narrows
  <2>. QED
    BY <2>1, PartRanked
<1>8. Available \in SUBSET DOMAIN Scoped
  BY DEF Available, Eligible
<1>. QED
  BY <1>3, <1>6, <1>7, <1>8

\* The two queues of next are parts of what is available, without overlap.
LEMMA QueuesAre ==
  ASSUME IInv, AnswerNext
  PROVE  /\ call.at = "tables" /\ \A t \in {"items", "deps", "leases"} : call.seen[t] > 0
         /\ ans'.eligible = Cardinality(Available)
         /\ \E mine \in SUBSET Available :
              /\ ToSet(ans'.queue) \subseteq mine /\ ToSet(ans'.otherActors) \subseteq Available \ mine
              /\ Len(ans'.queue) < Req.top => ToSet(ans'.queue) = mine
              /\ Len(ans'.otherActors) < Req.top => ToSet(ans'.otherActors) = Available \ mine
<1>1. call.at = "tables" /\ \A t \in {"items", "deps", "leases"} : call.seen[t] > 0
  BY DEF AnswerNext, Probed, AllSeen, Needed
<1>2. PICK mine \in SUBSET Available :
        /\ ans'.eligible = Cardinality(Available)
        /\ ans'.queue = FirstOf(RankingOf(Scoped, mine), Req.top)
        /\ ans'.otherActors = FirstOf(RankingOf(Scoped, Available \ mine), Req.top)
  <2>1. PICK mine : mine = {i \in Available : MissingFor(Items[i].needs, ProbeActor(Req.env)) = {}}
    OBVIOUS
  <2>2. Answer([verdict    |-> "next",
                eligible   |-> Cardinality(Available),
                queue      |-> FirstOf(RankingOf(Scoped, mine), Req.top),
                otherActors |-> FirstOf(RankingOf(Scoped, Available \ mine), Req.top),
                pick       |-> IF mine = {} THEN Null ELSE RankingOf(Scoped, mine)[1]])
    BY <2>1 DEF AnswerNext
  <2>3. mine \in SUBSET Available
    BY <2>1
  <2>. QED
    BY <2>2, <2>3 DEF Answer
<1>3. Req.top \in Nat
  <2>1. Req \in Requests /\ Req.verb = "next"
    BY <1>1, Facts, Fields DEF AnswerNext, Req
  <2>. QED
    BY <2>1, QueueAssumption DEF IsRequest
<1>4. PICK q1 : q1 = ans'.queue
  OBVIOUS
<1>5. PICK q2 : q2 = ans'.otherActors
  OBVIOUS
<1>6. mine \in SUBSET DOMAIN Scoped /\ Available \ mine \in SUBSET DOMAIN Scoped
  BY <1>1, ScopedRead
<1>7. ListsOnce(RankingOf(Scoped, mine), mine) /\ ListsOnce(RankingOf(Scoped, Available \ mine), Available \ mine)
  BY <1>1, <1>6, ScopedRead
<1>8. ToSet(q1) \subseteq mine /\ (Len(q1) < Req.top => ToSet(q1) = mine)
  BY <1>2, <1>3, <1>4, <1>7, FirstAre
<1>9. ToSet(q2) \subseteq Available \ mine /\ (Len(q2) < Req.top => ToSet(q2) = Available \ mine)
  <2>1. PICK others : others = Available \ mine
    OBVIOUS
  <2>2. ListsOnce(RankingOf(Scoped, others), others) /\ q2 = FirstOf(RankingOf(Scoped, others), Req.top)
    BY <1>2, <1>5, <1>7, <2>1
  <2>3. ToSet(q2) \subseteq others /\ (Len(q2) < Req.top => ToSet(q2) = others)
    BY <1>3, <2>2, FirstAre
  <2>. QED
    BY <2>1, <2>3
<1>. QED
  BY <1>1, <1>2, <1>4, <1>5, <1>8, <1>9

\* next leaves an item out as held only if it was held at some time during the
\* call, and offers one whose lease object answered only if it was free at some
\* time during the call (held.ts verifyHeld).
THEOREM ExclusionsWereObserved == Spec => ExclusionIsObserved
<1>1. IInv /\ [Next]_vars =>
        (Answered("next") =>
           /\ LiveHeld \subseteq wasHeld
           /\ \A i \in (ToSet(ans'.queue) \cup ToSet(ans'.otherActors)) \cap DOMAIN call.probed :
                call.probed[i] # "failed" => i \in wasFree)
  <2>1. UNCHANGED vars => ~Answered("next")
    BY DEF vars, Answered
  <2>2. ASSUME IInv, Next, Answered("next")
        PROVE  /\ LiveHeld \subseteq wasHeld
               /\ \A i \in (ToSet(ans'.queue) \cup ToSet(ans'.otherActors)) \cap DOMAIN call.probed :
                    call.probed[i] # "failed" => i \in wasFree
    <3>1. AnswerNext
      BY <2>2, WhoAnswers DEF Answered
    <3>2. ToSet(ans'.queue) \cup ToSet(ans'.otherActors) \subseteq Available
      BY <2>2, <3>1, QueuesAre
    <3>3. /\ \A i \in DOMAIN call.probed : /\ call.probed[i] = "held" => i \in wasHeld
                                           /\ call.probed[i] = "free" => i \in wasFree
                                           /\ call.probed[i] \in {"held", "free", "failed"}
      BY <2>2, Facts, Fields DEF Sound, Observed, IsProbed
    <3>. QED
      BY <3>2, <3>3 DEF LiveHeld, Available
  <2>. QED
    BY <2>1, <2>2
<1>. QED
  BY <1>1, Invariance, PTL DEF ExclusionIsObserved, Spec

\* The ready rule of the code, over the rows of one board, is the ready rule.
LEMMA ReadyRule ==
  ASSUME NEW b, IsBoard(b), NEW i
  PROVE  /\ ReadyOn(b, i) => i \in Schedulable(b.items) /\ i \in Item
         /\ i \in Schedulable(b.items) =>
              (IsEligible(AssembleScheduling(b.items, b.deps)[i]) <=> ReadyOn(b, i))
<1>1. \A j : OpenOn(b, j) <=> j \in Schedulable(b.items)
  BY DEF OpenOn, Schedulable
<1>2. Schedulable(b.items) \subseteq DOMAIN b.items /\ DOMAIN b.items \subseteq Item
  BY DEF IsBoard, Schedulable
<1>3. ReadyOn(b, i) => i \in Schedulable(b.items) /\ i \in Item
  BY <1>1, <1>2 DEF ReadyOn
<1>4. ASSUME i \in Schedulable(b.items)
      PROVE  IsEligible(AssembleScheduling(b.items, b.deps)[i]) <=> ReadyOn(b, i)
  <2>1. PICK blockers : blockers = {j \in Schedulable(b.items) : <<i, j>> \in Gates(b.deps)}
    OBVIOUS
  <2>2. /\ AssembleScheduling(b.items, b.deps)[i].state = StatusToState[b.items[i].status]
        /\ AssembleScheduling(b.items, b.deps)[i].openBlockers = Cardinality(blockers)
    BY <1>4, <2>1 DEF AssembleScheduling, Inputs
  <2>3. IsFiniteSet(blockers)
    BY <1>2, <2>1, SchedulingAssumption, FS_Subset
  <2>4. Cardinality(blockers) = 0 <=> blockers = {}
    BY <2>3, FS_EmptySet
  <2>5. b.items[i].status \in Status /\ b.items[i].status # "Done"
    BY <1>2, <1>4 DEF IsBoard, Row, Schedulable
  <2>6. StatusToState[b.items[i].status] \in {"open", "in_progress"} <=> b.items[i].status # "Blocked"
    BY <2>5 DEF StatusToState, Status
  <2>7. blockers = {} <=> ~\E p \in DOMAIN b.deps : p[1] = i /\ b.deps[p] # "closes" /\ OpenOn(b, p[2])
    <3>1. ASSUME NEW p \in DOMAIN b.deps
          PROVE  p = <<p[1], p[2]>> /\ (b.deps[p] # "closes" <=> b.deps[p] \in BLOCKER_KINDS)
      BY DEF IsBoard, EdgeKind, BLOCKER_KINDS
    <3>2. ASSUME NEW p \in DOMAIN b.deps, p[1] = i, b.deps[p] # "closes", OpenOn(b, p[2])
          PROVE  p[2] \in blockers
      BY <1>1, <2>1, <3>1, <3>2 DEF Gates
    <3>3. ASSUME NEW j \in blockers
          PROVE  /\ <<i, j>> \in DOMAIN b.deps /\ <<i, j>>[1] = i /\ b.deps[<<i, j>>] # "closes"
                 /\ OpenOn(b, <<i, j>>[2])
      BY <1>1, <2>1, <3>1 DEF Gates
    <3>. QED
      BY <3>2, <3>3
  <2>. QED
    BY <1>1, <1>4, <2>2, <2>4, <2>5, <2>6, <2>7 DEF IsEligible, ReadyOn
<1>. QED
  BY <1>3, <1>4

\* What is ranked of a pinned board is what is ready there.
LEMMA ReadyAre ==
  ASSUME IInv, call.at = "tables", \A t \in {"items", "deps", "leases"} : call.seen[t] > 0,
         call.pin > 0, NEW b, b = log[call.pin]
  PROVE  /\ IsBoard(b) /\ Items = b.items /\ Deps = b.deps /\ Leased = LeftOut
         /\ Scheduled = AssembleScheduling(b.items, b.deps) /\ DOMAIN Scheduled = Schedulable(b.items)
         /\ Eligible(Scoped) = {i \in Item : /\ ReadyOn(b, i) /\ InRepo(b.items[i])
                                             /\ Req.verb = "graph" \/ i \notin LeftOut}
<1>1. ResolveReads(Req.env) # "local" /\ \A t \in {"items", "deps", "leases"} : call.seen[t] = call.pin
  BY Facts DEF Sound, Pinned, Req
<1>2. IsBoard(b) /\ Items = b.items /\ Deps = b.deps /\ Leased = LeftOut
  BY <1>1, CandidatesRead DEF Items, Deps, Leased, LeftOut
<1>3. Scheduled = AssembleScheduling(b.items, b.deps)
  BY <1>1, <1>2, SaidOfCall DEF ScheduledOf
<1>4. DOMAIN Scheduled = Schedulable(b.items)
  BY <1>3 DEF AssembleScheduling, Inputs
<1>5. /\ DOMAIN Scoped = {j \in Schedulable(b.items) : /\ InRepo(b.items[j])
                                                       /\ Req.verb = "graph" \/ j \notin LeftOut}
      /\ \A j \in DOMAIN Scoped : Scoped[j] = AssembleScheduling(b.items, b.deps)[j]
  <2>1. Narrows(Scoped, Scheduled, Items, Req, Leased)
    BY ScopedRead
  <2>. QED
    BY <1>2, <1>3, <1>4, <2>1 DEF Narrows, InRepo
<1>6. \A j \in DOMAIN Scoped : IsEligible(Scoped[j]) <=> ReadyOn(b, j)
  BY <1>2, <1>5, ReadyRule
<1>7. \A j : ReadyOn(b, j) => j \in Schedulable(b.items) /\ j \in Item
  BY <1>2, ReadyRule
<1>8. Schedulable(b.items) \subseteq Item
  BY <1>2 DEF Schedulable, IsBoard
<1>9. Eligible(Scoped) = {i \in Item : /\ ReadyOn(b, i) /\ InRepo(b.items[i])
                                       /\ Req.verb = "graph" \/ i \notin LeftOut}
  BY <1>5, <1>6, <1>7, <1>8 DEF Eligible
<1>. QED
  BY <1>2, <1>3, <1>4, <1>9

LEMMA NextOffers ==
  ASSUME IInv, Next, call.pin > 0, Answered("next"),
         NEW free, free = {i \in Item : ReadyOn(log[call.pin], i) /\ InRepo(log[call.pin].items[i])}
                            \ (LeftOut \cup LiveHeld)
  PROVE  LET queue == ToSet(ans'.queue)
             others == ToSet(ans'.otherActors)
         IN  /\ queue \cup others \subseteq free /\ queue \cap others = {}
             /\ ans'.eligible = Cardinality(free)
             /\ Len(ans'.queue) < Req.top /\ Len(ans'.otherActors) < Req.top
                  => queue \cup others = free
<1>1. AnswerNext /\ Req.verb = "next"
  BY WhoAnswers DEF Answered, AnswerNext
<1>2. call.at = "tables" /\ \A t \in {"items", "deps", "leases"} : call.seen[t] > 0
  BY <1>1, QueuesAre
<1>3. PICK b : b = log[call.pin]
  OBVIOUS
<1>4. Eligible(Scoped) = {i \in Item : /\ ReadyOn(b, i) /\ InRepo(b.items[i])
                                       /\ Req.verb = "graph" \/ i \notin LeftOut}
  BY <1>2, <1>3, ReadyAre
<1>5. Available = free
  BY <1>1, <1>3, <1>4 DEF Available
<1>6. PICK mine \in SUBSET Available :
        /\ ToSet(ans'.queue) \subseteq mine /\ ToSet(ans'.otherActors) \subseteq Available \ mine
        /\ Len(ans'.queue) < Req.top => ToSet(ans'.queue) = mine
        /\ Len(ans'.otherActors) < Req.top => ToSet(ans'.otherActors) = Available \ mine
  BY <1>1, QueuesAre
<1>7. ans'.eligible = Cardinality(Available)
  BY <1>1, QueuesAre
<1>. QED
  BY <1>5, <1>6, <1>7

LEMMA GraphOffers ==
  ASSUME IInv, Next, call.pin > 0, Answered("graph"),
         NEW ready, ready = {i \in Item : ReadyOn(log[call.pin], i) /\ InRepo(log[call.pin].items[i])}
  PROVE  ToSet(ans'.ready) = ready \ LiveHeld /\ ToSet(ans'.held) = ready \cap LiveHeld
<1>1. /\ Req.verb = "graph" /\ call.at = "tables" /\ \A t \in {"items", "deps", "leases"} : call.seen[t] > 0
      /\ ans'.ready = RankingOf(Scoped, Available)
      /\ ans'.held = RankingOf(Scoped, Eligible(Scoped) \cap LiveHeld)
  <2>1. AnswerGraph
    BY WhoAnswers DEF Answered
  <2>. QED
    BY <2>1 DEF AnswerGraph, Answer, Probed, AllSeen, Needed
<1>2. PICK b : b = log[call.pin]
  OBVIOUS
<1>3. Eligible(Scoped) = {i \in Item : /\ ReadyOn(b, i) /\ InRepo(b.items[i])
                                       /\ Req.verb = "graph" \/ i \notin LeftOut}
  BY <1>1, <1>2, ReadyAre
<1>4. Eligible(Scoped) = ready
  BY <1>1, <1>2, <1>3
<1>5. ASSUME NEW S \in SUBSET Eligible(Scoped)
      PROVE  ToSet(RankingOf(Scoped, S)) = S
  <2>1. S \in SUBSET DOMAIN Scoped
    BY DEF Eligible
  <2>2. PICK s : s = RankingOf(Scoped, S)
    OBVIOUS
  <2>3. ListsOnce(s, S)
    BY <1>1, <2>1, <2>2, ScopedRead
  <2>4. s \in Seq(S) /\ \A i \in S : \E n \in 1..Len(s) : s[n] = i
    BY <2>3 DEF ListsOnce
  <2>5. ToSet(s) = S
    BY <2>4 DEF ToSet
  <2>. QED
    BY <2>2, <2>5
<1>6. Available \in SUBSET Eligible(Scoped) /\ Available = ready \ LiveHeld
  BY <1>4 DEF Available
<1>. QED
  BY <1>1, <1>4, <1>5, <1>6

\* What next and graph offer is what was ready on the one board their answer
\* derives from, less what is leased or was found held: all of it and nothing
\* else, whatever was committed meanwhile (dolthub.ts, dolt-server.ts
\* readScheduling).  The leases are those of that board, except on the server:
\* there they are those of the working set at the moment of the transaction,
\* which a claim not yet committed may have put ahead of the board.
THEOREM OffersAreReady == Spec => OffersTheReady
<1>1. IInv /\ [Next]_vars =>
       (call.pin > 0 =>
         LET b == log[call.pin]
             ready == {i \in Item : ReadyOn(b, i) /\ InRepo(b.items[i])}
             free == ready \ (LeftOut \cup LiveHeld)
         IN  /\ Answered("next") =>
                  LET queue == ToSet(ans'.queue)
                      others == ToSet(ans'.otherActors)
                  IN  /\ queue \cup others \subseteq free /\ queue \cap others = {}
                      /\ ans'.eligible = Cardinality(free)
                      /\ Len(ans'.queue) < Req.top /\ Len(ans'.otherActors) < Req.top
                           => queue \cup others = free
             /\ Answered("graph") =>
                  /\ ToSet(ans'.ready) = ready \ LiveHeld
                  /\ ToSet(ans'.held) = ready \cap LiveHeld)
  <2>1. UNCHANGED vars => ~Answered("next") /\ ~Answered("graph")
    BY DEF vars, Answered
  <2>. QED
    BY <2>1, NextOffers, GraphOffers
<1>. QED
  BY <1>1, Invariance, PTL DEF OffersTheReady, Spec

-------------------------------------------------------------------------------
(* What claim says.                                                        *)

\* The items of a board a claim could mean.
MeantOn(b, req) ==
  {i \in DOMAIN b.items : req.item = Null \/ SelectorMatches(SelectorOf(req), i, b.items[i])}

\* Over a pinned board, the candidates of a claim are what is ready there and
\* meant, less what is leased (LeftOut) if nothing was named.
LEMMA CandidatesAreReady ==
  ASSUME IInv, call.at = "tables", \A t \in {"items", "deps", "leases"} : call.seen[t] > 0,
         call.pin > 0, NEW b, b = log[call.pin], Req.verb = "claim"
  PROVE  /\ \A n \in 1..Len(Candidates) : ReadyOn(b, Candidates[n]) /\ Candidates[n] \in MeantOn(b, Req)
         /\ \A i \in MeantOn(b, Req) : ReadyOn(b, i) /\ InRepo(b.items[i]) =>
              i \in LeftOut \/ \E n \in 1..Len(Candidates) : Candidates[n] = i
         /\ Req.item # Null => \A i \in MeantOn(b, Req) : ReadyOn(b, i) =>
              \E n \in 1..Len(Candidates) : Candidates[n] = i
<1>1. /\ IsBoard(b) /\ Items = b.items /\ Deps = b.deps /\ Leased = LeftOut
      /\ Scheduled = AssembleScheduling(b.items, b.deps) /\ DOMAIN Scheduled = Schedulable(b.items)
      /\ Eligible(Scoped) = {i \in Item : /\ ReadyOn(b, i) /\ InRepo(b.items[i])
                                          /\ Req.verb = "graph" \/ i \notin LeftOut}
  BY ReadyAre
<1>2. \A i : /\ ReadyOn(b, i) => i \in Schedulable(b.items) /\ i \in Item
             /\ i \in Schedulable(b.items) => (IsEligible(Scheduled[i]) <=> ReadyOn(b, i))
  BY <1>1, ReadyRule
<1>3. Schedulable(b.items) \subseteq DOMAIN b.items /\ Schedulable(b.items) \subseteq Item
  BY <1>1 DEF Schedulable, IsBoard
<1>4. CASE Req.item = Null
  <2>1. PICK S : S = Eligible(Scoped)
    OBVIOUS
  <2>2. S \in SUBSET DOMAIN Scoped
    BY <2>1 DEF Eligible
  <2>3. PICK q : q = RankingOf(Scoped, S)
    OBVIOUS
  <2>4. Candidates = q
    BY <1>4, <2>1, <2>3 DEF Candidates, Ranked
  <2>5. ListsOnce(q, S)
    BY <2>2, <2>3, ScopedRead
  <2>6. q \in Seq(S) /\ \A i \in S : \E n \in 1..Len(q) : q[n] = i
    BY <2>5 DEF ListsOnce
  <2>7. \A n \in 1..Len(q) : ReadyOn(b, q[n]) /\ q[n] \in MeantOn(b, Req)
    BY <1>1, <1>2, <1>3, <1>4, <2>1, <2>6 DEF MeantOn
  <2>8. \A i \in MeantOn(b, Req) : ReadyOn(b, i) /\ InRepo(b.items[i]) =>
          i \in LeftOut \/ \E n \in 1..Len(q) : q[n] = i
    BY <1>1, <1>2, <2>1, <2>6
  <2>. QED
    BY <1>4, <2>4, <2>7, <2>8
<1>5. CASE Req.item # Null
  <2>1. PICK S : S = {i \in NamedRow : IsEligible(Scheduled[i])}
    OBVIOUS
  <2>2. NamedRow = {i \in Schedulable(b.items) : SelectorMatches(SelectorOf(Req), i, b.items[i])}
    BY <1>1, SaidOfCall DEF NamedRow
  <2>3. S = {i \in MeantOn(b, Req) : ReadyOn(b, i)}
    BY <1>2, <1>3, <1>5, <2>1, <2>2 DEF MeantOn
  <2>4. IsFiniteSet(S)
    <3>1. S \subseteq Item
      BY <1>2, <2>3
    <3>. QED
      BY <3>1, SchedulingAssumption, FS_Subset
  <2>5. PICK q : q = SetToSeq(S)
    OBVIOUS
  <2>6. Candidates = q
    BY <1>5, <2>1, <2>5 DEF Candidates
  <2>7. ListsOnce(q, S)
    BY <2>4, <2>5, SeqOfSet
  <2>8. q \in Seq(S) /\ \A i \in S : \E n \in 1..Len(q) : q[n] = i
    BY <2>7 DEF ListsOnce
  <2>. QED
    BY <2>3, <2>6, <2>8
<1>. QED
  BY <1>4, <1>5

LEMMA GrantIsTrue ==
  ASSUME IInv, Next, Req.verb = "claim", Answered("granted"), call.pin > 0, NEW b, b = log[call.pin]
  PROVE  ReadyOn(b, ans'.item) /\ ans'.item \in MeantOn(b, Req) /\ ans'.item \notin held
<1>1. Claim
  BY WhoAnswers DEF Answered
<1>2. /\ call.at = "tables" /\ \A t \in {"items", "deps", "leases"} : call.seen[t] > 0
      /\ call'.at = "done" /\ call.at # "done" /\ ans'.verdict = "granted"
  BY <1>1 DEF Claim, AllSeen, Needed, Answered
<1>3. ans'.item = Candidates[call.tried + 1] /\ ans'.item \notin held
  <2>1. PICK i : i = Candidates[call.tried + 1]
    OBVIOUS
  <2>2. PICK c : c = call
    OBVIOUS
  <2>3. IsCall(c, Len(log)) /\ c.at # "done"
    BY <1>2, <2>2, Facts
  <2>4. PICK d : d = call'
    OBVIOUS
  <2>5. \A tried : d # [c EXCEPT !.tried = tried]
    BY <1>2, <2>3, <2>4, GoesOn
  <2>6. \/ i \notin held /\ ans' = [verdict |-> "granted", item |-> i]
        \/ ans' = [verdict |-> "not-granted"]
    BY <1>1, <2>1, <2>2, <2>4, <2>5 DEF Claim, Answer
  <2>. QED
    BY <1>2, <2>1, <2>6
<1>4. call.tried + 1 \in 1..Len(Candidates)
  BY <1>1, <1>2, ClaimTries
<1>. QED
  BY <1>2, <1>3, <1>4, CandidatesAreReady

LEMMA RefusalIsTrue ==
  ASSUME IInv, Next, Req.verb = "claim", Answered("not-granted"), call.pin > 0, NEW b, b = log[call.pin],
         NEW i \in MeantOn(b, Req), ReadyOn(b, i), InRepo(b.items[i])
  PROVE  i \in wasHeld \cup LeftOut
<1>1. (Claim \/ Refuse) /\ call'.at = "done" /\ call.at # "done" /\ ans'.verdict = "not-granted"
  BY WhoAnswers DEF Answered
<1>2. call.at = "tables" /\ \A t \in {"items", "deps", "leases"} : call.seen[t] > 0
  BY <1>1 DEF Claim, Refuse, AllSeen, Needed
<1>3. i \in LeftOut \/ \E n \in 1..Len(Candidates) : Candidates[n] = i
  BY <1>2, CandidatesAreReady
<1>4. CASE Refuse
  BY <1>3, <1>4 DEF Refuse
<1>5. CASE Claim
  <2>1. PICK c : c = call
    OBVIOUS
  <2>2. PICK d : d = call'
    OBVIOUS
  <2>3. \A tried : d # [c EXCEPT !.tried = tried]
    <3>1. IsCall(c, Len(log)) /\ c.at # "done" /\ d.at = "done"
      BY <1>1, <2>1, <2>2, Facts
    <3>. QED
      BY <3>1, GoesOn
  <2>4. Candidates[call.tried + 1] \in held /\ call.tried + 1 = Len(Candidates)
    <3>1. PICK j : j = Candidates[call.tried + 1]
      OBVIOUS
    <3>2. \/ ans' = [verdict |-> "granted", item |-> j]
          \/ j \in held /\ call.tried + 1 = Len(Candidates)
      BY <1>5, <2>1, <2>2, <2>3, <3>1 DEF Claim, Answer
    <3>. QED
      BY <1>1, <3>1, <3>2
  <2>5. held \subseteq wasHeld
    BY <1>2, Facts DEF Sound, Observed
  <2>6. \A n \in 1..call.tried : Candidates[n] \in wasHeld
    BY <1>2, <1>5, ClaimTries
  <2>7. \A n \in 1..Len(Candidates) : n \in 1..call.tried \/ n = Len(Candidates)
    <3>1. call.tried \in Nat
      BY Facts, Fields
    <3>. QED
      BY <2>4, <3>1
  <2>. QED
    BY <1>3, <2>4, <2>5, <2>6, <2>7
<1>. QED
  BY <1>1, <1>4, <1>5

LEMMA NotEligibleIsTrue ==
  ASSUME IInv, Next, Req.verb = "claim", Source # "local", Answered("not-eligible"), call.pin > 0
  PROVE  \E c \in 1..Latest : ~\E i \in MeantOn(log[c], Req) : ReadyOn(log[c], i)
<1>1. /\ call'.at = "done" /\ call.at # "done" /\ ans'.verdict = "not-eligible"
      /\ Refuse \/ ReadPage \/ ReadAllItems
  BY WhoAnswers DEF Answered
<1>2. CASE Refuse
  <2>1. /\ call.at = "tables" /\ \A t \in {"items", "deps", "leases"} : call.seen[t] > 0
        /\ Candidates = <<>> /\ Req.item # Null
    BY <1>1, <1>2 DEF Refuse, AllSeen, Needed, Answer
  <2>2. PICK b : b = log[call.pin]
    OBVIOUS
  <2>3. ~\E i \in MeantOn(b, Req) : ReadyOn(b, i)
    BY <2>1, <2>2, CandidatesAreReady
  <2>4. call.pin \in 1..Latest
    <3>1. call.pin \in 0..Len(log)
      BY Facts, Fields
    <3>. QED
      BY <3>1, Facts
  <2>. QED
    BY <2>2, <2>3, <2>4
<1>3. CASE ReadPage
  <2>1. /\ Req.item # Null /\ call.seen["items"] > 0
        /\ \A i \in Schedulable(log[call.seen["items"]].items) :
             ~SelectorMatches(SelectorOf(Req), i, log[call.seen["items"]].items[i])
    <3>1. call.at = "pages" /\ Source = ResolveReads(Req.env)
      BY <1>3, SaidOfCall DEF ReadPage
    <3>2. Unnamed(call, log)
      BY <3>1, Facts DEF Sound, Staged, Req
    <3>. QED
      BY <3>1, <3>2 DEF Unnamed, Req
  <2>2. PICK k \in 1..Len(log) : k = call.seen["items"]
    <3>1. call.seen["items"] \in 0..Len(log)
      BY Facts, Fields DEF Tables
    <3>. QED
      BY <2>1, <3>1, Facts
  <2>3. \A i : ReadyOn(log[k], i) => i \in Schedulable(log[k].items)
    BY DEF ReadyOn, OpenOn, Schedulable
  <2>4. ~\E i \in MeantOn(log[k], Req) : ReadyOn(log[k], i)
    BY <2>1, <2>2, <2>3 DEF MeantOn
  <2>. QED
    BY <2>2, <2>4, Facts
<1>4. CASE ReadAllItems
  BY <1>4, TableRead
<1>. QED
  BY <1>1, <1>2, <1>3, <1>4

\* A listing that knows no such row says so of the boards it is whole for.
LEMMA UnknownIsTrue ==
  ASSUME IInv, Req.verb = "claim", Req.item # Null,
         NEW listed \in Seq(Item \X (1..Len(log))), Listed(listed), ans'.verdict = "not-in-mirror",
         NEW pin, Complete(listed, log, Req, pin)
  PROVE  /\ \A i \in Item : \E c \in 1..Latest : i \notin MeantOn(log[c], Req)
         /\ \A c : RowsFor(log[c], Req) \subseteq Ids(listed) /\ (\A n \in 1..Len(listed) : listed[n][2] = c)
                     => MeantOn(log[c], Req) = {}
<1>1. \A n \in 1..Len(listed) :
        ~SelectorMatches(SelectorOf(Req), listed[n][1], log[listed[n][2]].items[listed[n][1]])
  <2>1. DOMAIN listed = 1..Len(listed)
    OBVIOUS
  <2>2. ~\E n \in DOMAIN listed :
           SelectorMatches(Selector, listed[n][1], log[listed[n][2]].items[listed[n][1]])
    BY DEF Listed
  <2>. QED
    BY <2>1, <2>2, SaidOfCall
<1>2. \A b : MeantOn(b, Req) \subseteq RowsFor(b, Req)
  BY DEF MeantOn, RowsFor, SelectorMatches
<1>3. ASSUME NEW i \in Item, \A c \in 1..Latest : i \in MeantOn(log[c], Req)
      PROVE  FALSE
  <2>1. i \in Lasting(log, Req)
    BY <1>2, <1>3, Facts DEF Lasting
  <2>2. PICK n \in 1..Len(listed) : listed[n][1] = i
    BY <2>1 DEF Complete, Ids
  <2>3. listed[n][2] \in 1..Len(log)
    OBVIOUS
  <2>4. SelectorMatches(SelectorOf(Req), i, log[listed[n][2]].items[i])
    BY <1>3, <2>3, Facts DEF MeantOn
  <2>. QED
    BY <1>1, <2>2, <2>4
<1>4. ASSUME NEW c, RowsFor(log[c], Req) \subseteq Ids(listed), \A n \in 1..Len(listed) : listed[n][2] = c,
             NEW i \in MeantOn(log[c], Req)
      PROVE  FALSE
  <2>1. PICK n \in 1..Len(listed) : listed[n][1] = i
    BY <1>2, <1>4 DEF Ids
  <2>2. SelectorMatches(SelectorOf(Req), i, log[listed[n][2]].items[i])
    BY <1>4 DEF MeantOn
  <2>. QED
    BY <1>1, <2>1, <2>2
<1>. QED
  BY <1>3, <1>4

LEMMA NotInMirrorIsTrue ==
  ASSUME IInv, Next, Req.verb = "claim", Source # "local", Answered("not-in-mirror")
  PROVE  /\ \A i \in Item : \E c \in 1..Latest : i \notin MeantOn(log[c], Req)
         /\ call.pin > 0 \/ Source = "server" => \E c \in 1..Latest : MeantOn(log[c], Req) = {}
<1>1. /\ call'.at = "done" /\ call.at # "done" /\ ans'.verdict = "not-in-mirror"
      /\ ReadPage \/ ReadAllItems
  BY WhoAnswers DEF Answered
<1>2. call.at \in {"pages", "listHead"} /\ Source = ResolveReads(Req.env)
  BY <1>1, SaidOfCall DEF ReadPage, ReadAllItems, Reads
<1>3. Req.item # Null
  BY <1>2, Facts DEF Sound, Staged, Unnamed, Req
<1>4. CASE ReadPage
  <2>1. PICK more \in Seq(Item \X (1..Len(log))) : Listed(more) /\ Complete(more, log, Req, call.pin)
    <3>1. PICK c : c = call
      OBVIOUS
    <3>2. PICK d : d = call'
      OBVIOUS
    <3>3. \A listed : d # [c EXCEPT !.listed = listed]
      <4>1. IsCall(c, Len(log)) /\ c.at # "done" /\ d.at = "done"
        BY <1>1, <3>1, <3>2, Facts
      <4>. QED
        BY <4>1, GoesOn
    <3>. QED
      BY <1>4, <3>1, <3>2, <3>3, PageRead
  <2>2. \A i \in Item : \E c \in 1..Latest : i \notin MeantOn(log[c], Req)
    BY <1>1, <1>3, <2>1, UnknownIsTrue
  <2>3. call.pin > 0 => call.pin \in 1..Latest /\ MeantOn(log[call.pin], Req) = {}
    <3>1. call.pin \in 0..Len(log)
      BY Facts, Fields
    <3>2. call.pin > 0 => call.pin \in 1..Latest
      BY <3>1, Facts
    <3>3. PICK pin : pin = call.pin
      OBVIOUS
    <3>4. pin > 0 => /\ RowsFor(log[pin], Req) \subseteq Ids(more)
                     /\ \A n \in 1..Len(more) : more[n][2] = pin
      BY <2>1, <3>3 DEF Complete
    <3>5. pin > 0 => MeantOn(log[pin], Req) = {}
      BY <1>1, <1>3, <2>1, <3>4, UnknownIsTrue
    <3>. QED
      BY <3>2, <3>3, <3>5
  <2>4. Source # "server"
    <3>1. call.at = "pages"
      BY <1>4 DEF ReadPage
    <3>. QED
      BY <1>2, <3>1, Facts DEF Sound, Staged, Req
  <2>. QED
    BY <2>2, <2>3, <2>4
<1>5. CASE ReadAllItems
  <2>1. PICK listed \in Seq(Item \X (1..Len(log))), k \in 1..Len(log) :
          /\ Listed(listed) /\ Complete(listed, log, Req, 0)
          /\ Ids(listed) = RowsFor(log[k], Req) /\ \A n \in 1..Len(listed) : listed[n][2] = k
    BY <1>5, TableRead
  <2>2. \A i \in Item : \E c \in 1..Latest : i \notin MeantOn(log[c], Req)
    BY <1>1, <1>3, <2>1, UnknownIsTrue
  <2>3. MeantOn(log[k], Req) = {}
    BY <1>1, <1>3, <2>1, UnknownIsTrue
  <2>. QED
    BY <2>2, <2>3, Facts
<1>. QED
  BY <1>1, <1>4, <1>5

\* What claim says is so: a grant is of an item ready on the board cited, the one
\* named if one was; refused for being held are items that all were, during the
\* call, or leased where it read; and "not in the mirror" is said of a name some
\* commit did not know, or, if the listing was not pinned, no one item bore
\* throughout (verbs.ts claim).
THEOREM ClaimsAreTrue == Spec => ClaimSpeaksTrue
<1>1. IInv /\ [Next]_vars =>
       (Req # Null /\ Source # "local" /\ Req.verb = "claim" =>
         LET named(b) == {i \in DOMAIN b.items : Req.item = Null \/ SelectorMatches(Selector, i, b.items[i])}
         IN  /\ Answered("granted") /\ call.pin > 0 =>
                  /\ ReadyOn(log[call.pin], ans'.item) /\ ans'.item \in named(log[call.pin])
                  /\ ans'.item \notin held
             /\ Answered("not-granted") /\ call.pin > 0 =>
                  \A i \in named(log[call.pin]) :
                    ReadyOn(log[call.pin], i) /\ InRepo(log[call.pin].items[i])
                      => i \in wasHeld \cup LeftOut
             /\ Answered("not-eligible") /\ call.pin > 0 =>
                  \E c \in 1..Latest : ~\E i \in named(log[c]) : ReadyOn(log[c], i)
             /\ Answered("not-in-mirror") =>
                  /\ \A i \in Item : \E c \in 1..Latest : i \notin named(log[c])
                  /\ call.pin > 0 \/ Source = "server" => \E c \in 1..Latest : named(log[c]) = {})
  <2>. DEFINE named(b) == {i \in DOMAIN b.items : Req.item = Null \/ SelectorMatches(Selector, i, b.items[i])}
  <2>1. UNCHANGED vars => \A v : ~Answered(v)
    BY DEF vars, Answered
  <2>2. \A b : named(b) = MeantOn(b, Req)
    BY SaidOfCall DEF MeantOn
  <2>. HIDE DEF named
  <2>3. ASSUME IInv, Next, Source # "local", Req.verb = "claim"
        PROVE  /\ Answered("granted") /\ call.pin > 0 =>
                    /\ ReadyOn(log[call.pin], ans'.item) /\ ans'.item \in named(log[call.pin])
                    /\ ans'.item \notin held
               /\ Answered("not-granted") /\ call.pin > 0 =>
                    \A i \in named(log[call.pin]) :
                      ReadyOn(log[call.pin], i) /\ InRepo(log[call.pin].items[i])
                        => i \in wasHeld \cup LeftOut
               /\ Answered("not-eligible") /\ call.pin > 0 =>
                    \E c \in 1..Latest : ~\E i \in named(log[c]) : ReadyOn(log[c], i)
               /\ Answered("not-in-mirror") =>
                    /\ \A i \in Item : \E c \in 1..Latest : i \notin named(log[c])
                    /\ call.pin > 0 \/ Source = "server" => \E c \in 1..Latest : named(log[c]) = {}
    <3>1. CASE Answered("granted") /\ call.pin > 0
      BY <2>2, <2>3, <3>1, GrantIsTrue DEF Answered
    <3>2. Answered("not-granted") /\ call.pin > 0 =>
            \A i \in named(log[call.pin]) :
              ReadyOn(log[call.pin], i) /\ InRepo(log[call.pin].items[i])
                => i \in wasHeld \cup LeftOut
      BY <2>2, <2>3, RefusalIsTrue
    <3>3. Answered("not-eligible") /\ call.pin > 0 =>
            \E c \in 1..Latest : ~\E i \in named(log[c]) : ReadyOn(log[c], i)
      BY <2>2, <2>3, NotEligibleIsTrue
    <3>4. Answered("not-in-mirror") =>
            /\ \A i \in Item : \E c \in 1..Latest : i \notin named(log[c])
            /\ call.pin > 0 \/ Source = "server" => \E c \in 1..Latest : named(log[c]) = {}
      BY <2>2, <2>3, NotInMirrorIsTrue
    <3>. QED
      BY <3>1, <3>2, <3>3, <3>4
  <2>. QED
    BY <2>1, <2>3 DEF named
<1>. QED
  BY <1>1, Invariance, PTL DEF ClaimSpeaksTrue, Spec
=============================================================================

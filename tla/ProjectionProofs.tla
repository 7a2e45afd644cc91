--------------------------- MODULE ProjectionProofs ---------------------------
(***************************************************************************)
(* Safety of the projection, for every set of items, agents and referents  *)
(* and every bound: what the watermark skips is settled, what the rows say *)
(* is true, and what is published is complete.                             *)
(*                                                                         *)
(* The invariant says of every copy of the claims table, the mirror's and  *)
(* the clone's alike, that it is faithful to the ledger it was read from:  *)
(* a gapless prefix of it, with the right agents, in which whatever is     *)
(* closed is as it ended.  Reading a ledger from the watermark up keeps a  *)
(* copy faithful, and so does everything a ledger can do afterwards.       *)
(***************************************************************************)
EXTENDS Projection, FiniteSetTheorems, TLAPS

(* Rows that are a true, gapless but perhaps outdated copy of a ledger.    *)
Faithful(rows, ledger) ==
  \E n \in Nat :
    /\ n <= Len(ledger)
    /\ rows \in [1..n -> Entry]
    /\ \A f \in 1..n :
         /\ rows[f].agent = ledger[f].agent
         /\ rows[f].status # "active" => rows[f] = ledger[f]

(* The ledgers of two moments: the later one extends the earlier, and what *)
(* had ended has not changed.                                              *)
Extends(later, earlier) ==
  /\ Len(earlier) <= Len(later)
  /\ \A f \in 1..Len(earlier) :
       /\ later[f].agent = earlier[f].agent
       /\ earlier[f].status # "active" => later[f] = earlier[f]

Rows == UNION {[1..n -> Entry] : n \in Nat}

Job == [phase     : {"off", "polling", "pushing"},
        refreshes : Nat,
        claims    : [Item -> Rows],
        left      : SUBSET Item,
        failed    : BOOLEAN,
        attempt   : Nat,
        since     : [Item -> Nat]]

Shape ==
  /\ ledgers \in [Item -> Seq(Entry)]
  /\ claims \in [Item -> Rows]
  /\ job \in Job
  /\ board \in SUBSET Item
  /\ refreshes \in Nat /\ job.refreshes <= refreshes
  /\ job.left \subseteq board
  /\ job.attempt < MaxAttempts
  /\ faults \in 0..MaxFaults

CopiesFaithful ==
  \A i \in Item : Faithful(claims[i], ledgers[i]) /\ Faithful(job.claims[i], ledgers[i])

(* How far a run has got: an item it is done with, unless the run is to be *)
(* thrown away, is copied as far as the grants made before the run began.  *)
Progress ==
  /\ job.phase = "off" => job.left = {}
  /\ job.phase = "pushing" => job.left = {} /\ ~job.failed
  /\ job.phase # "off" =>
       \A i \in Item :
         /\ job.since[i] <= Len(ledgers[i])
         /\ \/ i \in job.left \/ job.failed
            \/ 1..job.since[i] \subseteq DOMAIN job.claims[i]

IInv == Shape /\ CopiesFaithful /\ Progress

-----------------------------------------------------------------------------
(* The least element CHOOSEn by Min exists.                                *)
LEMMA MinIsLeast ==
  ASSUME NEW S \in SUBSET Nat, S # {}
  PROVE  Min(S) \in S /\ \A y \in S : Min(S) <= y
<1>. DEFINE T == {0..m : m \in S}
<1>1. T \subseteq FiniteSubsetsOf(Nat) /\ T # {}
  <2>1. \A m \in S : 0..m \in SUBSET Nat /\ IsFiniteSet(0..m)
    BY FS_Interval
  <2>. QED
    BY <2>1 DEF FiniteSubsetsOf
<1>2. PICK t \in T : \A u \in T : ~(<<u, t>> \in StrictSubsetOrdering(Nat))
  BY <1>1, WFMin, FS_StrictSubsetOrderingWellFounded
<1>3. PICK x \in S : t = 0..x
  OBVIOUS
<1>4. ASSUME NEW y \in S, y < x
      PROVE  FALSE
  <2>1. x \in 0..x /\ x \notin 0..y /\ 0..y \subseteq 0..x
    BY <1>4
  <2>2. <<0..y, 0..x>> \in StrictSubsetOrdering(Nat)
    BY <2>1 DEF StrictSubsetOrdering
  <2>. QED
    BY <1>2, <1>3, <2>2
<1>5. \A y \in S : x <= y
  BY <1>4
<1>. QED
  BY <1>5 DEF Min

LEMMA MaxOfInterval ==
  ASSUME NEW n \in Nat, n # 0
  PROVE  Max(1..n) = n
<1>1. n \in 1..n /\ \A y \in 1..n : n >= y
  OBVIOUS
<1>2. \A x \in 1..n : (\A y \in 1..n : x >= y) => x = n
  BY <1>1
<1>. QED
  BY <1>1, <1>2 DEF Max

(* The watermark falls within the rows, and below it no row is open.       *)
LEMMA WatermarkSettled ==
  ASSUME NEW n \in Nat, NEW rows \in [1..n -> Entry]
  PROVE  /\ Watermark(rows) \in 0..n
         /\ \A f \in 1..Watermark(rows) :
              f \in 1..n /\ rows[f].status # "active"
<1>. DEFINE open == {f \in DOMAIN rows : rows[f].status = "active"}
<1>1. DOMAIN rows = 1..n /\ open \in SUBSET Nat
  OBVIOUS
<1>2. CASE open # {}
  <2>1. Min(open) \in open /\ \A y \in open : Min(open) <= y
    BY <1>1, <1>2, MinIsLeast
  <2>2. Min(open) \in 1..n
    BY <2>1
  <2>3. Watermark(rows) = Min(open) - 1
    BY <1>2 DEF Watermark
  <2>4. ASSUME NEW f \in 1..(Min(open) - 1)
        PROVE  f \in 1..n /\ rows[f].status # "active"
    <3>1. f \in 1..n /\ ~(Min(open) <= f)
      BY <2>2
    <3>2. f \notin open
      BY <2>1, <3>1
    <3>. QED
      BY <1>1, <3>1, <3>2
  <2>. QED
    BY <2>2, <2>3, <2>4
<1>3. CASE open = {} /\ n # 0
  <2>1. Watermark(rows) = n
    <3>1. n \in DOMAIN rows
      BY <1>1, <1>3
    <3>. QED
      BY <1>1, <1>3, <3>1, MaxOfInterval DEF Watermark
  <2>. QED
    BY <1>1, <1>3, <2>1
<1>4. CASE open = {} /\ n = 0
  <2>1. Watermark(rows) = 0
    BY <1>1, <1>4 DEF Watermark
  <2>. QED
    BY <1>4, <2>1
<1>. QED
  BY <1>2, <1>3, <1>4

(* Reading a ledger from the watermark up completes the copy.              *)
LEMMA UpsertKeepsFaith ==
  ASSUME NEW ledger \in Seq(Entry), NEW rows, Faithful(rows, ledger)
  PROVE  /\ Upserted(rows, ledger) \in Rows
         /\ DOMAIN Upserted(rows, ledger) = 1..Len(ledger)
         /\ Faithful(Upserted(rows, ledger), ledger)
<1>. DEFINE m == Len(ledger)
            w == Watermark(rows)
            new == {f \in 1..m : f > w}
            up == Upserted(rows, ledger)
<1>1. m \in Nat /\ \A f \in 1..m : ledger[f] \in Entry
  OBVIOUS
<1>2. PICK n \in Nat :
        /\ n <= m
        /\ rows \in [1..n -> Entry]
        /\ \A f \in 1..n :
             /\ rows[f].agent = ledger[f].agent
             /\ rows[f].status # "active" => rows[f] = ledger[f]
  BY DEF Faithful
<1>3. w \in 0..n
  BY <1>2, WatermarkSettled
<1>4. DOMAIN rows = 1..n /\ 1..n \cup new = 1..m
  BY <1>1, <1>2, <1>3
<1>5. up = [f \in 1..m |-> IF f \in new THEN ledger[f] ELSE rows[f]]
  BY <1>4 DEF Upserted
<1>6. \A f \in 1..m : f \notin new => f \in 1..n
  BY <1>4
<1>7. up \in [1..m -> Entry]
  BY <1>1, <1>2, <1>5, <1>6
<1>8. \A f \in 1..m :
        /\ up[f].agent = ledger[f].agent
        /\ up[f].status # "active" => up[f] = ledger[f]
  BY <1>2, <1>5, <1>6
<1>9. up \in Rows /\ DOMAIN up = 1..m
  BY <1>1, <1>7 DEF Rows
<1>. HIDE DEF up
<1>10. Faithful(up, ledger)
  <2>1. /\ m <= Len(ledger)
        /\ up \in [1..m -> Entry]
        /\ \A f \in 1..m :
             /\ up[f].agent = ledger[f].agent
             /\ up[f].status # "active" => up[f] = ledger[f]
    BY <1>1, <1>7, <1>8
  <2>2. \E k \in Nat :
          /\ k <= Len(ledger)
          /\ up \in [1..k -> Entry]
          /\ \A f \in 1..k :
               /\ up[f].agent = ledger[f].agent
               /\ up[f].status # "active" => up[f] = ledger[f]
    <3>. WITNESS m \in Nat
    <3>. QED
      BY <2>1
  <2>. QED
    BY <2>2 DEF Faithful
<1>. QED
  BY <1>9, <1>10 DEF up

(* A ledger only extends: nothing that was copied faithfully becomes false. *)
LEMMA ExtendKeepsFaith ==
  ASSUME NEW earlier \in Seq(Entry), NEW later \in Seq(Entry), NEW rows,
         Extends(later, earlier), Faithful(rows, earlier)
  PROVE  Faithful(rows, later)
<1>1. PICK n \in Nat :
        /\ n <= Len(earlier)
        /\ rows \in [1..n -> Entry]
        /\ \A f \in 1..n :
             /\ rows[f].agent = earlier[f].agent
             /\ rows[f].status # "active" => rows[f] = earlier[f]
  BY DEF Faithful
<1>2. n <= Len(later) /\ \A f \in 1..n : f \in 1..Len(earlier)
  BY <1>1 DEF Extends
<1>3. \A f \in 1..n :
        /\ rows[f].agent = later[f].agent
        /\ rows[f].status # "active" => rows[f] = later[f]
  BY <1>1, <1>2 DEF Extends
<1>. QED
  BY <1>1, <1>2, <1>3 DEF Faithful

(* What a step of one item's object does to its ledger.                    *)
LEMMA GrowExtends ==
  ASSUME NEW i \in Item, ledgers[i] \in Seq(Entry), ledgers'[i] \in Seq(Entry),
         DO(i)!Next
  PROVE  Extends(ledgers'[i], ledgers[i])
<1>. DEFINE l == ledgers[i]
            n == Len(l)
<1>1. n \in Nat /\ DOMAIN l = 1..n /\ \A f \in 1..n : l[f] \in Entry
  OBVIOUS
<1>2. CASE \E a \in Agent : DO(i)!Grant(a)
  <2>1. PICK e : ledgers'[i] = Append(l, e)
    BY <1>2 DEF DO!Grant
  <2>2. Len(ledgers'[i]) = n + 1 /\ \A f \in 1..n : ledgers'[i][f] = l[f]
    BY <2>1
  <2>. QED
    BY <1>1, <2>2 DEF Extends
<1>3. CASE DO(i)!Open /\ \E e : e.agent = l[n].agent /\ ledgers'[i] = [l EXCEPT ![n] = e]
  <2>1. n \in 1..n /\ l[n].status = "active"
    BY <1>1, <1>3 DEF DO!Open, DO!Last
  <2>2. PICK e : e.agent = l[n].agent /\ ledgers'[i] = [l EXCEPT ![n] = e]
    BY <1>3
  <2>3. DOMAIN ledgers'[i] = 1..n /\ Len(ledgers'[i]) = n
    BY <1>1, <2>2
  <2>4. \A f \in 1..n : ledgers'[i][f] = IF f = n THEN e ELSE l[f]
    BY <1>1, <2>2
  <2>. QED
    BY <1>1, <2>1, <2>2, <2>3, <2>4 DEF Extends
<1>4. ASSUME NEW r \in Referent, DO(i)!Bind(r)
      PROVE  DO(i)!Open /\ \E e : e.agent = l[n].agent /\ ledgers'[i] = [l EXCEPT ![n] = e]
  <2>1. PICK st : ledgers'[i] = [l EXCEPT ![n].referent = r, ![n].status = st]
    BY <1>4 DEF DO!Bind, DO!Last
  <2>2. DO(i)!Open /\ n \in 1..n /\ l[n] \in Entry
    BY <1>1, <1>4 DEF DO!Bind, DO!Open, DO!Last
  <2>. DEFINE e1 == [l[n] EXCEPT !.referent = r]
              e == [e1 EXCEPT !.status = st]
              l1 == [l EXCEPT ![n] = e1]
  <2>3. l1[n] = e1 /\ DOMAIN l1 = 1..n
    BY <1>1, <2>2
  <2>4. e.agent = l[n].agent
    BY <2>2 DEF Entry
  <2>5. ledgers'[i] = [l1 EXCEPT ![n].status = st]
    BY <2>1
  <2>6. [l1 EXCEPT ![n].status = st] = [l1 EXCEPT ![n] = e]
    BY <2>3
  <2>7. [l1 EXCEPT ![n] = e] = [l EXCEPT ![n] = e]
    OBVIOUS
  <2>. HIDE DEF e, l1
  <2>8. e.agent = l[n].agent /\ ledgers'[i] = [l EXCEPT ![n] = e]
    BY <2>4, <2>5, <2>6, <2>7
  <2>. QED
    BY <2>2, <2>8
<1>5. ASSUME NEW st, DO(i)!Close(st)
      PROVE  DO(i)!Open /\ \E e : e.agent = l[n].agent /\ ledgers'[i] = [l EXCEPT ![n] = e]
  <2>1. ledgers'[i] = [l EXCEPT ![n].status = st]
    BY <1>5 DEF DO!Close, DO!Last
  <2>2. DO(i)!Open /\ n \in 1..n /\ l[n] \in Entry
    BY <1>1, <1>5 DEF DO!Close, DO!Open, DO!Last
  <2>. DEFINE e == [l[n] EXCEPT !.status = st]
  <2>3. e.agent = l[n].agent
    BY <2>2 DEF Entry
  <2>4. ledgers'[i] = [l EXCEPT ![n] = e]
    BY <2>1
  <2>. HIDE DEF e
  <2>. QED
    BY <2>2, <2>3, <2>4
<1>. QED
  BY <1>2, <1>3, <1>4, <1>5 DEF DO!Next

(* No rows at all are faithful to anything.                                *)
LEMMA NoRowsFaithful ==
  /\ NoRows \in Rows
  /\ \A ledger \in Seq(Entry) : Faithful(NoRows, ledger)
<1>1. NoRows \in [1..0 -> Entry]
  BY DEF NoRows
<1>2. NoRows \in Rows
  BY <1>1 DEF Rows
<1>3. ASSUME NEW ledger \in Seq(Entry)
      PROVE  Faithful(NoRows, ledger)
  <2>1. 0 <= Len(ledger) /\ \A f \in 1..0 : FALSE
    OBVIOUS
  <2>. QED
    BY <1>1, <2>1 DEF Faithful
<1>. QED
  BY <1>2, <1>3

(* The shape an earlier watermark rule left behind is faithful too: what   *)
(* it shows as open is not wrong about how it ended, only late.            *)
LEMMA FrozenFaithful ==
  ASSUME NEW a \in Agent
  PROVE  /\ Frozen(a).ledger \in Seq(Entry)
         /\ Frozen(a).rows \in Rows
         /\ Faithful(Frozen(a).rows, Frozen(a).ledger)
<1>. DEFINE done == [agent |-> a, status |-> "released", referent |-> Null]
            was == [agent |-> a, status |-> "active", referent |-> Null]
            l == <<done, done>>
            r == [f \in 1..2 |-> IF f = 1 THEN was ELSE done]
<1>1. done \in Entry /\ was \in Entry /\ done.agent = a /\ was.agent = a
  BY DEF Entry
<1>2. [done EXCEPT !.status = "active"] = was
  OBVIOUS
<1>3. Frozen(a).ledger = l /\ Frozen(a).rows = r
  BY <1>2 DEF Frozen
<1>4. was.status = "active"
  OBVIOUS
<1>. HIDE DEF done, was
<1>5. l \in Seq(Entry) /\ Len(l) = 2 /\ l[1] = done /\ l[2] = done
  BY <1>1
<1>6. r \in [1..2 -> Entry] /\ r[1] = was /\ r[2] = done
  BY <1>1
<1>. HIDE DEF l, r
<1>7. \A f \in 1..2 : f = 1 \/ f = 2
  OBVIOUS
<1>8. \A f \in 1..2 :
        /\ r[f].agent = l[f].agent
        /\ r[f].status # "active" => r[f] = l[f]
  BY <1>1, <1>4, <1>5, <1>6, <1>7
<1>9. 2 \in Nat /\ 2 <= Len(l)
  BY <1>5
<1>10. Faithful(r, l)
  BY <1>6, <1>8, <1>9 DEF Faithful
<1>11. r \in Rows
  BY <1>6 DEF Rows
<1>. QED
  BY <1>3, <1>5, <1>10, <1>11

-----------------------------------------------------------------------------
LEMMA OffIsJob ==
  /\ Off \in Job /\ Off.phase = "off" /\ Off.left = {} /\ Off.attempt = 0
  /\ Off.refreshes = 0 /\ \A i \in Item : Off.claims[i] = NoRows
<1>. DEFINE none == [i \in Item |-> NoRows]
            zero == [i \in Item |-> 0]
<1>1. none \in [Item -> Rows] /\ \A i \in Item : none[i] = NoRows
  BY NoRowsFaithful
<1>2. zero \in [Item -> Nat]
  OBVIOUS
<1>3. Off = [phase |-> "off", refreshes |-> 0, claims |-> none, left |-> {},
             failed |-> FALSE, attempt |-> 0, since |-> zero]
  BY DEF Off
<1>. HIDE DEF none, zero
<1>4. Off \in Job
  BY <1>1, <1>2, <1>3 DEF Job
<1>. QED
  BY <1>1, <1>3, <1>4

(* The clone is thrown away, or was published: the run is over.            *)
LEMMA JobEnds ==
  ASSUME IInv, job' = Off, UNCHANGED <<ledgers, board, refreshes>>,
         faults' \in 0..MaxFaults,
         claims' = claims \/ claims' = job.claims
  PROVE  IInv'
<1>1. Shape'
  <2>1. claims' \in [Item -> Rows]
    BY DEF IInv, Shape, Job
  <2>2. job' \in Job /\ job'.refreshes = 0 /\ job'.left = {} /\ job'.attempt = 0
    BY OffIsJob
  <2>3. /\ ledgers' \in [Item -> Seq(Entry)] /\ board' \in SUBSET Item
        /\ refreshes' \in Nat
    BY DEF IInv, Shape
  <2>4. 0 < MaxAttempts /\ 0 <= refreshes'
    BY <2>3, ProjectionAssumption
  <2>. QED
    BY <2>1, <2>2, <2>3, <2>4 DEF Shape
<1>2. CopiesFaithful'
  <2>1. \A i \in Item : Faithful(NoRows, ledgers[i])
    BY NoRowsFaithful DEF IInv, Shape
  <2>2. \A i \in Item : Faithful(claims'[i], ledgers[i])
    BY DEF IInv, CopiesFaithful
  <2>. QED
    BY <2>1, <2>2, OffIsJob DEF CopiesFaithful
<1>3. Progress'
  BY OffIsJob DEF Progress
<1>. QED
  BY <1>1, <1>2, <1>3 DEF IInv

LEMMA InitEstablishes == Init => IInv
<1>. SUFFICES ASSUME Init PROVE IInv
  OBVIOUS
<1>1. PICK a \in Agent, old \in SUBSET {i \in Item : MaxGrants[i] >= 2} :
        /\ ledgers = [i \in Item |-> IF i \in old THEN Frozen(a).ledger ELSE <<>>]
        /\ claims = [i \in Item |-> IF i \in old THEN Frozen(a).rows ELSE NoRows]
  BY DEF Init
<1>2. <<>> \in Seq(Entry)
  OBVIOUS
<1>3. /\ ledgers \in [Item -> Seq(Entry)] /\ claims \in [Item -> Rows]
      /\ \A i \in Item : Faithful(claims[i], ledgers[i])
  BY <1>1, <1>2, FrozenFaithful, NoRowsFaithful
<1>4. Shape
  BY <1>3, OffIsJob, ProjectionAssumption DEF Init, Shape
<1>5. CopiesFaithful
  BY <1>3, OffIsJob, NoRowsFaithful DEF Init, CopiesFaithful
<1>6. Progress
  BY OffIsJob DEF Init, Progress
<1>. QED
  BY <1>4, <1>5, <1>6 DEF IInv

-----------------------------------------------------------------------------
(* The invariant is kept by each action.                                   *)
LEMMA GrowKeeps ==
  ASSUME IInv, NEW i \in Item, Grow(i)
  PROVE  IInv'
<1>1. PICK e \in Entry :
        \/ ledgers' = [ledgers EXCEPT ![i] = Append(ledgers[i], e)]
        \/ /\ ledgers[i] # <<>>
           /\ ledgers' = [ledgers EXCEPT ![i][Len(ledgers[i])] = e]
  BY DEF Grow
<1>2. ledgers[i] \in Seq(Entry) /\ ledgers \in [Item -> Seq(Entry)]
  BY DEF IInv, Shape
<1>3. /\ Append(ledgers[i], e) \in Seq(Entry)
      /\ ledgers[i] # <<>> =>
           [ledgers[i] EXCEPT ![Len(ledgers[i])] = e] \in Seq(Entry)
  BY <1>2
<1>4. ledgers' \in [Item -> Seq(Entry)]
  BY <1>1, <1>2, <1>3
<1>5. \A j \in Item : j # i => ledgers'[j] = ledgers[j]
  BY <1>1, <1>2
<1>6. \A j \in Item : Extends(ledgers'[j], ledgers[j])
  <2>1. Extends(ledgers'[i], ledgers[i])
    BY <1>2, <1>4, GrowExtends DEF Grow
  <2>2. \A j \in Item : j # i => Extends(ledgers'[j], ledgers[j])
    BY <1>2, <1>5 DEF Extends
  <2>. QED
    BY <2>1, <2>2
<1>7. Shape'
  BY <1>4 DEF IInv, Shape, Grow
<1>8. CopiesFaithful'
  <2>1. \A j \in Item : ledgers[j] \in Seq(Entry) /\ ledgers'[j] \in Seq(Entry)
    BY <1>2, <1>4
  <2>. QED
    BY <1>6, <2>1, ExtendKeepsFaith DEF IInv, CopiesFaithful, Grow
<1>9. Progress'
  <2>1. \A j \in Item : Len(ledgers[j]) <= Len(ledgers'[j])
    BY <1>6 DEF Extends
  <2>2. \A j \in Item : /\ Len(ledgers[j]) \in Nat /\ Len(ledgers'[j]) \in Nat
                        /\ job.since[j] \in Nat
    BY <1>2, <1>4 DEF IInv, Shape, Job
  <2>. QED
    BY <2>1, <2>2 DEF IInv, Progress, Grow
<1>. QED
  BY <1>7, <1>8, <1>9 DEF IInv

LEMMA StartKeeps ==
  ASSUME IInv, Start
  PROVE  IInv'
<1>. DEFINE since == [i \in Item |-> IF i \in board THEN Len(ledgers[i]) ELSE 0]
<1>1. since \in [Item -> Nat]
  BY DEF IInv, Shape
<1>2. /\ job'.phase = "polling" /\ job'.claims = claims /\ job'.left = board
      /\ job'.attempt = 0 /\ job'.refreshes = refreshes /\ job'.since = since
      /\ job'.failed = FALSE
      /\ job' \in Job
  BY <1>1, OffIsJob DEF IInv, Shape, Start, Off, Job
<1>3. UNCHANGED <<ledgers, board, refreshes, claims, faults>>
  BY DEF Start
<1>4. Shape'
  BY <1>2, <1>3, ProjectionAssumption DEF IInv, Shape
<1>5. CopiesFaithful'
  BY <1>2, <1>3 DEF IInv, CopiesFaithful
<1>6. Progress'
  <2>1. \A i \in Item : Len(ledgers[i]) \in Nat
    BY DEF IInv, Shape
  <2>2. \A i \in Item : since[i] <= Len(ledgers[i])
    BY <2>1
  <2>3. \A i \in Item : i \notin board => 1..since[i] = {}
    OBVIOUS
  <2>. QED
    BY <1>2, <1>3, <2>2, <2>3 DEF Progress
<1>. QED
  BY <1>4, <1>5, <1>6 DEF IInv

LEMMA PollKeeps ==
  ASSUME IInv, NEW i \in Item, Poll(i)
  PROVE  IInv'
<1>. DEFINE up == Upserted(job.claims[i], ledgers[i])
<1>1. /\ job \in Job /\ ledgers[i] \in Seq(Entry)
      /\ Faithful(job.claims[i], ledgers[i])
  BY DEF IInv, Shape, CopiesFaithful
<1>2. /\ up \in Rows /\ DOMAIN up = 1..Len(ledgers[i])
      /\ Faithful(up, ledgers[i])
  BY <1>1, UpsertKeepsFaith
<1>3. job' = [job EXCEPT !.left = @ \ {i}, !.claims[i] = up]
  BY DEF Poll
<1>4. UNCHANGED <<ledgers, board, refreshes, claims, faults>>
  BY DEF Poll
<1>. HIDE DEF up
<1>5. /\ job'.left = job.left \ {i} /\ job'.claims = [job.claims EXCEPT ![i] = up]
      /\ job'.phase = job.phase /\ job'.refreshes = job.refreshes
      /\ job'.failed = job.failed /\ job'.attempt = job.attempt
      /\ job'.since = job.since
  BY <1>1, <1>3 DEF Job
<1>6. job'.claims \in [Item -> Rows]
  BY <1>1, <1>2, <1>5 DEF Job
<1>7. job' \in Job
  BY <1>1, <1>3, <1>5, <1>6 DEF Job
<1>8. /\ job'.claims[i] = up
      /\ \A j \in Item : j # i => job'.claims[j] = job.claims[j]
  BY <1>1, <1>5 DEF Job
<1>9. Shape'
  BY <1>4, <1>5, <1>7 DEF IInv, Shape
<1>10. CopiesFaithful'
  BY <1>2, <1>4, <1>8 DEF IInv, CopiesFaithful
<1>11. Progress'
  <2>1. job.phase # "off" /\ (job.phase = "pushing" => job'.left = {} /\ ~job'.failed)
    <3>1. job.left # {}
      BY DEF Poll
    <3>2. job.phase # "off"
      BY <3>1 DEF IInv, Progress
    <3>. QED
      BY <1>5, <3>1, <3>2 DEF IInv, Progress
  <2>2. job.since[i] <= Len(ledgers[i]) /\ job.since[i] \in Nat
    BY <1>1, <2>1 DEF IInv, Progress, Job
  <2>3. 1..job.since[i] \subseteq DOMAIN job'.claims[i]
    BY <1>1, <1>2, <1>8, <2>2
  <2>. QED
    BY <1>4, <1>5, <1>8, <2>1, <2>3 DEF IInv, Progress
<1>. QED
  BY <1>9, <1>10, <1>11 DEF IInv

LEMMA PollFailsKeeps ==
  ASSUME IInv, NEW i \in Item, PollFails(i)
  PROVE  IInv'
<1>1. job \in Job
  BY DEF IInv, Shape
<1>2. /\ job'.left = job.left \ {i} /\ job'.claims = job.claims
      /\ job'.phase = job.phase /\ job'.refreshes = job.refreshes
      /\ job'.failed = TRUE /\ job'.attempt = job.attempt
      /\ job'.since = job.since
      /\ job' \in Job
  BY <1>1 DEF PollFails, Job
<1>3. /\ UNCHANGED <<ledgers, board, refreshes, claims>>
      /\ faults' \in 0..MaxFaults
  BY ProjectionAssumption DEF IInv, Shape, PollFails
<1>4. Shape'
  BY <1>2, <1>3 DEF IInv, Shape
<1>5. CopiesFaithful'
  BY <1>2, <1>3 DEF IInv, CopiesFaithful
<1>6. Progress'
  <2>1. job.left # {}
    BY DEF PollFails
  <2>2. job.phase # "off" /\ job.phase # "pushing"
    BY <2>1 DEF IInv, Progress
  <2>. QED
    BY <1>2, <1>3, <2>2 DEF IInv, Progress
<1>. QED
  BY <1>4, <1>5, <1>6 DEF IInv

LEMMA FinishKeeps ==
  ASSUME IInv, Finish
  PROVE  IInv'
<1>1. UNCHANGED <<ledgers, board, refreshes, claims, faults>>
  BY DEF Finish
<1>2. CASE job' = Off
  BY <1>1, <1>2, JobEnds DEF IInv, Shape
<1>3. CASE ~job.failed /\ job' = [job EXCEPT !.phase = "pushing"]
  <2>1. job \in Job /\ job.phase = "polling" /\ job.left = {}
    BY DEF IInv, Shape, Finish
  <2>2. /\ job'.left = {} /\ job'.claims = job.claims
        /\ job'.phase = "pushing" /\ job'.refreshes = job.refreshes
        /\ job'.failed = job.failed /\ job'.attempt = job.attempt
        /\ job'.since = job.since
        /\ job' \in Job
    BY <1>3, <2>1 DEF Job
  <2>3. Shape'
    BY <1>1, <2>2 DEF IInv, Shape
  <2>4. CopiesFaithful'
    BY <1>1, <2>2 DEF IInv, CopiesFaithful
  <2>5. Progress'
    BY <1>1, <1>3, <2>1, <2>2 DEF IInv, Progress
  <2>. QED
    BY <2>3, <2>4, <2>5 DEF IInv
<1>. QED
  BY <1>2, <1>3 DEF Finish

LEMMA PushKeeps ==
  ASSUME IInv, Push
  PROVE  IInv'
<1>1. /\ job' = Off /\ claims' = job.claims
      /\ UNCHANGED <<ledgers, board, refreshes, faults>>
  BY DEF Push
<1>. QED
  BY <1>1, JobEnds DEF IInv, Shape

LEMMA PushRejectedKeeps ==
  ASSUME IInv, PushRejected
  PROVE  IInv'
<1>1. UNCHANGED <<ledgers, board, refreshes, claims, faults>>
  BY DEF PushRejected
<1>2. CASE job' = Off
  BY <1>1, <1>2, JobEnds DEF IInv, Shape
<1>3. CASE /\ job.attempt + 1 # MaxAttempts
           /\ job' = [job EXCEPT !.attempt = @ + 1, !.refreshes = refreshes]
  <2>1. job \in Job /\ refreshes \in Nat
    BY DEF IInv, Shape
  <2>2. /\ job'.left = job.left /\ job'.claims = job.claims
        /\ job'.phase = job.phase /\ job'.refreshes = refreshes
        /\ job'.failed = job.failed /\ job'.attempt = job.attempt + 1
        /\ job'.since = job.since
        /\ job' \in Job
    <3>1. job.attempt \in Nat /\ job.attempt + 1 \in Nat
      BY <2>1 DEF Job
    <3>. DEFINE n == job.attempt + 1
    <3>2. job' = [job EXCEPT !.attempt = n, !.refreshes = refreshes]
      BY <1>3
    <3>3. n \in Nat
      BY <3>1
    <3>. HIDE DEF n
    <3>4. /\ job'.left = job.left /\ job'.claims = job.claims
          /\ job'.phase = job.phase /\ job'.refreshes = refreshes
          /\ job'.failed = job.failed /\ job'.attempt = n
          /\ job'.since = job.since
          /\ job' \in Job
      BY <2>1, <3>2, <3>3 DEF Job
    <3>. QED
      BY <3>4 DEF n
  <2>3. job.attempt + 1 < MaxAttempts
    BY <1>3, <2>1, ProjectionAssumption DEF IInv, Shape, Job
  <2>4. Shape'
    BY <1>1, <2>1, <2>2, <2>3 DEF IInv, Shape
  <2>5. CopiesFaithful'
    BY <1>1, <2>2 DEF IInv, CopiesFaithful
  <2>6. Progress'
    BY <1>1, <2>2 DEF IInv, Progress
  <2>. QED
    BY <2>4, <2>5, <2>6 DEF IInv
<1>. QED
  BY <1>2, <1>3 DEF PushRejected

LEMMA JobDiesKeeps ==
  ASSUME IInv, JobDies
  PROVE  IInv'
<1>1. job' = Off /\ UNCHANGED <<ledgers, board, refreshes, claims>>
  BY DEF JobDies
<1>2. faults' \in 0..MaxFaults
  BY ProjectionAssumption DEF IInv, Shape, JobDies
<1>. QED
  BY <1>1, <1>2, JobEnds

LEMMA DeltaSyncKeeps ==
  ASSUME IInv, DeltaSync
  PROVE  IInv'
<1>1. /\ UNCHANGED <<ledgers, board, claims, job>>
      /\ faults' \in 0..MaxFaults /\ refreshes' = refreshes + 1
  BY ProjectionAssumption DEF IInv, Shape, DeltaSync
<1>2. Shape'
  BY <1>1 DEF IInv, Shape, Job
<1>3. CopiesFaithful' /\ Progress'
  BY <1>1 DEF IInv, CopiesFaithful, Progress
<1>. QED
  BY <1>2, <1>3 DEF IInv

(* mirror-sync runs only while no projection does.                         *)
LEMMA FullSyncKeeps ==
  ASSUME IInv, NEW i \in Item, FullSyncDrops(i) \/ FullSyncAdds(i)
  PROVE  IInv'
<1>1. /\ UNCHANGED <<ledgers, refreshes, job, faults>>
      /\ job.phase = "off" /\ board' \in SUBSET Item
  BY DEF IInv, Shape, FullSyncDrops, FullSyncAdds
<1>2. job.left = {}
  BY <1>1 DEF IInv, Progress
<1>3. /\ claims' \in [Item -> Rows]
      /\ \A j \in Item : claims'[j] = claims[j] \/ claims'[j] = NoRows
  BY NoRowsFaithful DEF IInv, Shape, FullSyncDrops, FullSyncAdds
<1>4. Shape'
  BY <1>1, <1>2, <1>3 DEF IInv, Shape
<1>5. CopiesFaithful'
  <2>1. \A j \in Item : ledgers[j] \in Seq(Entry)
    BY DEF IInv, Shape
  <2>. QED
    BY <1>1, <1>3, <2>1, NoRowsFaithful DEF IInv, CopiesFaithful
<1>6. Progress'
  BY <1>1 DEF IInv, Progress
<1>. QED
  BY <1>4, <1>5, <1>6 DEF IInv

LEMMA NextKeeps == IInv /\ [Next]_vars => IInv'
<1>. SUFFICES ASSUME IInv, [Next]_vars PROVE IInv'
  OBVIOUS
<1>1. ASSUME NEW i \in Item,
             Grow(i) \/ Poll(i) \/ PollFails(i) \/ FullSyncDrops(i) \/ FullSyncAdds(i)
      PROVE  IInv'
  BY <1>1, GrowKeeps, PollKeeps, PollFailsKeeps, FullSyncKeeps
<1>2. CASE Start \/ Finish \/ Push \/ PushRejected \/ JobDies \/ DeltaSync
  BY <1>2, StartKeeps, FinishKeeps, PushKeeps, PushRejectedKeeps, JobDiesKeeps,
     DeltaSyncKeeps
<1>3. CASE UNCHANGED vars
  BY <1>3 DEF vars, IInv, Shape, CopiesFaithful, Progress
<1>. QED
  BY <1>1, <1>2, <1>3 DEF Next

-----------------------------------------------------------------------------
(* Every copy of the claims table, the mirror's and the clone's, is always *)
(* a gapless and truthful, perhaps outdated, copy of the objects' ledgers. *)
THEOREM AlwaysFaithful == Spec => []IInv
  BY InitEstablishes, NextKeeps, PTL DEF Spec

(* The projection's state keeps its shape; in particular a run never makes *)
(* more pushes than DOLT_PUSH_ATTEMPTS allows.                             *)
THEOREM TypeCorrect == Spec => []TypeOK
<1>1. \A rows \in Rows : IsRows(rows)
  BY DEF Rows, IsRows
<1>2. ASSUME IInv PROVE TypeOK
  BY <1>1, <1>2 DEF IInv, Shape, Job, TypeOK
<1>. QED
  BY <1>2, AlwaysFaithful, PTL

(* Replayability: whatever the watermark of src/lease-projection.ts lets a *)
(* run skip is in the mirror as it ended, for good.                        *)
THEOREM SkippingIsSafe == Spec => []SkippedIsSettled
<1>1. ASSUME IInv PROVE SkippedIsSettled
  <2>. SUFFICES ASSUME NEW i \in Item, NEW f \in 1..Watermark(claims[i])
                PROVE  /\ f \in DOMAIN claims[i] /\ f <= Len(ledgers[i])
                       /\ claims[i][f] = ledgers[i][f]
                       /\ ledgers[i][f].status # "active"
    BY DEF SkippedIsSettled
  <2>1. PICK n \in Nat :
          /\ n <= Len(ledgers[i])
          /\ claims[i] \in [1..n -> Entry]
          /\ \A g \in 1..n :
               /\ claims[i][g].agent = ledgers[i][g].agent
               /\ claims[i][g].status # "active" => claims[i][g] = ledgers[i][g]
    BY <1>1 DEF IInv, CopiesFaithful, Faithful
  <2>2. f \in 1..n /\ claims[i][f].status # "active"
    BY <2>1, WatermarkSettled
  <2>3. claims[i][f] = ledgers[i][f]
    BY <2>1, <2>2
  <2>4. Len(ledgers[i]) \in Nat
    BY <1>1 DEF IInv, Shape
  <2>. QED
    BY <2>1, <2>2, <2>3, <2>4
<1>. QED
  BY <1>1, AlwaysFaithful, PTL

(* No row of the claims table shows a grant that was not made, or an end   *)
(* other than the one it had.                                              *)
THEOREM RowsNeverLie == Spec => []RowsAreTrue
<1>1. ASSUME IInv PROVE RowsAreTrue
  <2>. SUFFICES ASSUME NEW i \in Item, NEW f \in DOMAIN claims[i]
                PROVE  /\ f <= Len(ledgers[i])
                       /\ claims[i][f].agent = ledgers[i][f].agent
                       /\ claims[i][f].status # "active" =>
                            claims[i][f] = ledgers[i][f]
    BY DEF RowsAreTrue
  <2>1. PICK n \in Nat :
          /\ n <= Len(ledgers[i])
          /\ claims[i] \in [1..n -> Entry]
          /\ \A g \in 1..n :
               /\ claims[i][g].agent = ledgers[i][g].agent
               /\ claims[i][g].status # "active" => claims[i][g] = ledgers[i][g]
    BY <1>1 DEF IInv, CopiesFaithful, Faithful
  <2>2. Len(ledgers[i]) \in Nat
    BY <1>1 DEF IInv, Shape
  <2>. QED
    BY <2>1, <2>2
<1>. QED
  BY <1>1, AlwaysFaithful, PTL

(* A commit that lands covers every grant made before its run began, on    *)
(* every item the run cloned.                                              *)
THEOREM PublishesAllOrNothing == Spec => PublishedIsComplete
<1>1. ASSUME IInv, [Next]_vars, job.phase = "pushing", claims' # claims
      PROVE  \A i \in Item : 1..job.since[i] \subseteq DOMAIN claims'[i]
  <2>1. Push
    BY <1>1 DEF Next, vars, Grow, Start, Poll, PollFails, Finish, PushRejected,
                JobDies, DeltaSync, FullSyncDrops, FullSyncAdds
  <2>2. claims' = job.claims
    BY <2>1 DEF Push
  <2>3. job.left = {} /\ ~job.failed
    BY <1>1 DEF IInv, Progress
  <2>4. \A i \in Item : 1..job.since[i] \subseteq DOMAIN job.claims[i]
    BY <1>1, <2>3 DEF IInv, Progress
  <2>. QED
    BY <2>2, <2>4
<1>2. IInv /\ [Next]_vars =>
        [job.phase = "pushing" /\ claims' # claims =>
           \A i \in Item : 1..job.since[i] \subseteq DOMAIN claims'[i]]_vars
  BY <1>1
<1>. QED
  BY <1>2, AlwaysFaithful, PTL DEF Spec, PublishedIsComplete

(* A push lands only on the commit its clone descends from, so none undoes *)
(* the commit of mirror-sync-delta it raced: a rejected push is pulled and *)
(* merged before it is tried again (dolt-push.sh).                         *)
THEOREM RacedCommitsStay == Spec => RacedCommitKept
<1>1. ASSUME IInv, [Next]_vars
      PROVE  refreshes' >= refreshes
  <2>1. refreshes \in Nat
    BY <1>1 DEF IInv, Shape
  <2>2. refreshes' = refreshes \/ refreshes' = refreshes + 1
    BY <1>1 DEF Next, vars, Grow, Start, Poll, PollFails, Finish, Push, PushRejected,
                JobDies, DeltaSync, FullSyncDrops, FullSyncAdds
  <2>. QED
    BY <2>1, <2>2
<1>2. IInv /\ [Next]_vars => [refreshes' >= refreshes]_vars
  BY <1>1
<1>. QED
  BY <1>2, AlwaysFaithful, PTL DEF Spec, RacedCommitKept
=============================================================================

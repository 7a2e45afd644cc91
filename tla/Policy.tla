-------------------------------- MODULE Policy --------------------------------
(***************************************************************************)
(* The scheduling policy of src/policy.ts: which item goes first, and      *)
(* whether the budget admits more work.  Pure operators.  An item is a     *)
(* record with the fields of PriorityInput; a score is an integer number   *)
(* of 1/Unit parts, so that the divisions and the weights 0.05 and 0.02 of *)
(* the code come out exact.                                                *)
(***************************************************************************)
EXTENDS Integers, FiniteSets

CONSTANT Unit    \* a multiple of 100 and of every effort

ASSUME PolicyAssumption == Unit \in Nat \ {0} /\ Unit % 100 = 0

PriorityInput == [kind         : {"epic", "room", "door", "task"},
                  state        : {"open", "in_progress", "blocked", "closed"},
                  effort       : Nat,
                  value        : 0..100,
                  openBlockers : Nat,
                  unblocks     : Nat,
                  ageDays      : Nat]

AtMost(m, n) == IF m < n THEN m ELSE n
AtLeast(m, n) == IF m > n THEN m ELSE n

(* The ready rule: live and no open blockers.                              *)
IsEligible(x) == x.state \in {"open", "in_progress"} /\ x.openBlockers = 0

FallbackKindWeight ==
  [kind \in {"epic", "room", "door", "task"} |->
     CASE kind = "epic" -> 3 [] kind = "task" -> 1 [] OTHER -> 2]

(* An item nobody estimated is scored by kind and age, any other by value  *)
(* per point of effort; what an item unblocks counts for both.             *)
Score(x) ==
  LET flow   == 2 * Unit * x.unblocks
      effort == AtLeast(x.effort, 1)
  IN  IF ~IsEligible(x) THEN 0
      ELSE IF x.effort = 0 /\ x.value = 0
      THEN Unit * FallbackKindWeight[x.kind] + flow
             + (Unit \div 50) * AtMost(x.ageDays, 180)
      ELSE (Unit * x.value) \div effort + flow - (Unit \div 20) * effort

(* prioritize, for a board x indexed by its position: a higher score goes  *)
(* first, then the smaller effort, then the position (the sort is stable). *)
Before(x, i, j) ==
  LET si == Score(x[i])
      sj == Score(x[j])
  IN  \/ si > sj
      \/ si = sj /\ x[i].effort < x[j].effort
      \/ si = sj /\ x[i].effort = x[j].effort /\ i < j

Place(x, i) == Cardinality({j \in DOMAIN x : j # i /\ Before(x, j, i)}) + 1

(* The positions of the board, best first.                                 *)
Ranking(x) ==
  [n \in 1..Cardinality(DOMAIN x) |-> CHOOSE i \in DOMAIN x : Place(x, i) = n]

(* The points the first n of the ranking leave: each takes its effort if   *)
(* that still fits, and leaves the rest for smaller ones otherwise.        *)
PointsLeft(x, remaining) ==
  LET rank == Ranking(x)
      left[n \in 0..Cardinality(DOMAIN x)] ==
        IF n = 0 THEN remaining
        ELSE IF IsEligible(x[rank[n]]) /\ x[rank[n]].effort <= left[n - 1]
        THEN left[n - 1] - x[rank[n]].effort ELSE left[n - 1]
  IN  left

FitsRemaining(x, remaining, i) ==
  IsEligible(x[i]) /\ x[i].effort <= PointsLeft(x, remaining)[Place(x, i) - 1]

(* planCapacity, for the effort planned; at risk from eight tenths on.     *)
CapacityStatus(capacity, planned, consumed) ==
  IF capacity <= 0 \/ consumed >= capacity \/ planned > capacity THEN "over"
  ELSE IF 10 * consumed >= 8 * capacity THEN "at-risk" ELSE "ok"

(* budgetGate: an absent budget fails open, and a spend must leave some of *)
(* the budget over.                                                        *)
BudgetGate(capacity, consumed, points) ==
  capacity <= 0 \/ consumed + points < capacity
=============================================================================

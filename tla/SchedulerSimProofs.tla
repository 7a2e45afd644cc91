-------------------------- MODULE SchedulerSimProofs --------------------------
(***************************************************************************)
(* The safe mode of the simulation keeps its invariants, for every board,  *)
(* every budget and any number of agents: no double claim, no overspend,   *)
(* ownership that agrees with what the agents themselves think, and no     *)
(* lost wakeup.                                                            *)
(***************************************************************************)
EXTENDS SchedulerSim, FiniteSetTheorems, TLAPS

(* Agents and items agree, in the safe mode, on who holds what: this is S3 *)
(* said from the agents' side, where the steps change things.              *)
Agreed ==
  \A i \in Item :
    /\ phase[i] = "InProgress" <=> owner[i] # Null
    /\ \A a \in Agent : CurrentItem(a) = i <=> owner[i] = a

(* Whoever is at work has a target.                                        *)
Targeted == \A a \in Agent : step[a].at # "idle" => step[a].target \in Item

IInv == TypeOK /\ Targeted /\ (mode = "safe" => S2 /\ Agreed)

-----------------------------------------------------------------------------
(* The pick.                                                               *)

LEMMA ItemFinite == IsFiniteSet(Item) /\ Item \subseteq Nat \ {0} /\ Null \notin Item
BY SimAssumption, FS_Interval DEF Item

LEMMA DivInt ==
  ASSUME NEW m \in Int, NEW n \in Nat \ {0}
  PROVE  m \div n \in Int
OBVIOUS

(* A score is a number.                                                    *)
LEMMA ScoreInt ==
  ASSUME NEW x \in PriorityInput
  PROVE  Score(x) \in Int
<1>. DEFINE flow == 2 * Unit * x.unblocks
            effort == AtLeast(x.effort, 1)
<1>1. Unit \in Nat /\ x.unblocks \in Nat /\ x.effort \in Nat /\ x.value \in Nat /\ x.ageDays \in Nat
      /\ x.kind \in {"epic", "room", "door", "task"}
  BY PolicyAssumption DEF PriorityInput
<1>2. flow \in Int /\ effort \in Nat \ {0}
  BY <1>1 DEF AtLeast
<1>3. (Unit * x.value) \div effort \in Int /\ Unit \div 20 \in Int /\ Unit \div 50 \in Int
  <2>1. Unit * x.value \in Int
    BY <1>1
  <2>. QED
    BY <1>1, <1>2, <2>1, DivInt
<1>4. FallbackKindWeight[x.kind] \in Int /\ AtMost(x.ageDays, 180) \in Int
  BY <1>1 DEF FallbackKindWeight, AtMost
<1>5. Unit * FallbackKindWeight[x.kind] + flow + (Unit \div 50) * AtMost(x.ageDays, 180) \in Int
  <2>1. Unit * FallbackKindWeight[x.kind] \in Int /\ (Unit \div 50) * AtMost(x.ageDays, 180) \in Int
    BY <1>1, <1>3, <1>4
  <2>. HIDE DEF flow
  <2>. QED
    BY <1>2, <2>1
<1>6. (Unit * x.value) \div effort + flow - (Unit \div 20) * effort \in Int
  <2>1. (Unit \div 20) * effort \in Int
    BY <1>2, <1>3
  <2>. HIDE DEF flow, effort
  <2>. QED
    BY <1>2, <1>3, <2>1
<1>. QED
  BY <1>5, <1>6 DEF Score

(* The order of the ranking has a first element on every finite board.     *)
LEMMA FirstPlace ==
  ASSUME NEW S \in SUBSET Nat, IsFiniteSet(S), S # {},
         NEW x \in [S -> PriorityInput]
  PROVE  \E i \in S : Place(x, i) = 1
<1>. DEFINE D(i) == {j \in S : j # i /\ Before(x, j, i)}
            T == {D(i) : i \in S}
<1>1. \A i \in S : Score(x[i]) \in Int /\ x[i].effort \in Int
  BY ScoreInt DEF PriorityInput
<1>2. \A i, j, k \in S : Before(x, i, j) /\ Before(x, j, k) => Before(x, i, k)
  BY <1>1 DEF Before
<1>3. \A i \in S : ~Before(x, i, i)
  BY <1>1 DEF Before
<1>4. T \subseteq FiniteSubsetsOf(S) /\ T # {}
  <2>1. \A i \in S : D(i) \in SUBSET S /\ IsFiniteSet(D(i))
    BY FS_Subset
  <2>. QED
    BY <2>1 DEF FiniteSubsetsOf
<1>5. PICK t \in T : \A u \in T : ~(<<u, t>> \in StrictSubsetOrdering(S))
  BY <1>4, WFMin, FS_StrictSubsetOrderingWellFounded
<1>6. PICK i \in S : t = D(i)
  OBVIOUS
<1>7. ASSUME NEW j \in D(i)
      PROVE  FALSE
  <2>1. j \in S /\ Before(x, j, i) /\ D(j) \in T
    BY <1>7
  <2>2. D(j) \subseteq D(i)
    <3>. SUFFICES ASSUME NEW k \in D(j) PROVE k \in D(i)
      OBVIOUS
    <3>. QED
      BY <1>2, <1>3, <2>1
  <2>3. j \notin D(j)
    OBVIOUS
  <2>4. D(j) \in SUBSET S /\ D(i) \in SUBSET S
    OBVIOUS
  <2>. HIDE DEF D
  <2>5. <<D(j), D(i)>> \in StrictSubsetOrdering(S)
    BY <1>7, <2>2, <2>3, <2>4 DEF StrictSubsetOrdering
  <2>. QED
    BY <1>5, <1>6, <2>1, <2>5
<1>8. D(i) = {}
  BY <1>7
<1>9. Place(x, i) = Cardinality(D(i)) + 1
  BY DEF Place
<1>. QED
  BY <1>8, <1>9, FS_EmptySet

(* The pick is a ready item.                                               *)
LEMMA PickIsReady ==
  ASSUME TypeOK, ReadySet # {}
  PROVE  NextPick \in ReadySet
<1>. DEFINE x == [i \in ReadySet |-> ToPriorityInput(i)]
<1>1. ReadySet \in SUBSET Nat /\ ReadySet \subseteq Item /\ IsFiniteSet(ReadySet)
  BY ItemFinite, FS_Subset DEF ReadySet
<1>2. x \in [ReadySet -> PriorityInput]
  <2>. SUFFICES ASSUME NEW i \in ReadySet PROVE ToPriorityInput(i) \in PriorityInput
    OBVIOUS
  <2>1. world \in World /\ i \in Item
    BY <1>1, SimAssumption DEF TypeOK
  <2>2. world.item[i].kind \in {"epic", "room", "door", "task"} /\ world.item[i].effort \in Nat
        /\ world.item[i].value \in 0..100 /\ world.item[i].ageDays \in Nat
    BY <2>1 DEF World
  <2>3. Unblocks(i) \in Nat
    BY ItemFinite, FS_Subset, FS_CardinalityType DEF Unblocks
  <2>. QED
    BY <2>2, <2>3 DEF ToPriorityInput, PriorityInput, Effort
<1>. HIDE DEF x
<1>3. \E i \in ReadySet : Place(x, i) = 1
  BY <1>1, <1>2, FirstPlace
<1>4. DOMAIN x = ReadySet
  BY <1>2
<1>5. Cardinality(ReadySet) \in Nat /\ Cardinality(ReadySet) # 0
  BY <1>1, FS_CardinalityType, FS_EmptySet
<1>6. Ranking(x)[1] = CHOOSE i \in ReadySet : Place(x, i) = 1
  BY <1>4, <1>5 DEF Ranking
<1>. QED
  BY <1>3, <1>6 DEF NextPick, x

-----------------------------------------------------------------------------
(* The steps.                                                              *)

LEMMA WorldFacts ==
  ASSUME TypeOK
  PROVE  /\ world.capacity \in Nat /\ world.consumed \in Nat /\ world.consumed <= world.capacity
         /\ \A i \in Item : Effort(i) \in Nat
BY SimAssumption DEF TypeOK, World, Effort

LEMMA InitHolds == Init => IInv
<1>. SUFFICES ASSUME Init PROVE IInv
  OBVIOUS
<1>1. TypeOK
  <2>1. world.consumed \in Nat
    BY SimAssumption DEF Init, World
  <2>. QED
    BY <2>1 DEF Init, TypeOK, Idle
<1>2. Targeted
  BY DEF Init, Targeted, Idle
<1>3. S2
  BY <1>1, WorldFacts DEF Init, S2
<1>4. Agreed
  <2>1. \A a \in Agent : CurrentItem(a) = Null
    BY DEF Init, CurrentItem, Idle
  <2>2. \A i \in Item : owner[i] = Null /\ phase[i] # "InProgress" /\ Null # i
    BY ItemFinite DEF Init
  <2>3. Null \notin Agent
    BY SimAssumption
  <2>. QED
    BY <2>1, <2>2, <2>3 DEF Agreed
<1>. QED
  BY <1>1, <1>2, <1>3, <1>4 DEF IInv

LEMMA DecideStep ==
  ASSUME IInv, NEW a \in Agent, Decide(a)
  PROVE  IInv'
<1>1. NextPick \in Item
  BY PickIsReady DEF IInv, Decide, ReadySet
<1>2. TypeOK'
  BY <1>1 DEF IInv, Decide, TypeOK
<1>3. Targeted'
  BY <1>1 DEF IInv, Decide, TypeOK, Targeted
<1>4. ASSUME mode = "safe" PROVE S2' /\ Agreed'
  <2>1. \A b \in Agent : CurrentItem(b)' = CurrentItem(b)
    BY DEF IInv, Decide, TypeOK, CurrentItem
  <2>. QED
    BY <1>4, <2>1 DEF IInv, Decide, S2, Agreed
<1>. QED
  BY <1>2, <1>3, <1>4 DEF IInv, Decide

LEMMA CommitClaimStep ==
  ASSUME IInv, NEW a \in Agent, CommitClaim(a)
  PROVE  IInv'
<1>. DEFINE i == step[a].target
            lost == mode = "safe" /\ ~Claimable(i)
<1>1. i \in Item
  BY DEF IInv, Targeted, CommitClaim
<1>2. TypeOK'
  BY <1>1 DEF IInv, CommitClaim, TypeOK, Idle
<1>3. Targeted'
  BY <1>1 DEF IInv, CommitClaim, TypeOK, Targeted, Idle
<1>4. ASSUME mode = "safe" PROVE S2' /\ Agreed'
  <2>1. S2'
    BY <1>4 DEF IInv, CommitClaim, S2
  <2>2. CASE lost
    <3>1. \A b \in Agent : CurrentItem(b)' = CurrentItem(b)
      BY <2>2 DEF IInv, CommitClaim, TypeOK, CurrentItem, Idle
    <3>2. phase' = phase /\ owner' = owner
      BY <2>2 DEF CommitClaim
    <3>. QED
      BY <1>4, <2>1, <3>1, <3>2 DEF IInv, Agreed
  <2>3. CASE ~lost
    <3>1. owner[i] = Null /\ phase[i] = "Ready"
      BY <1>4, <2>3 DEF Claimable
    <3>2. /\ phase' = [phase EXCEPT ![i] = "InProgress"]
          /\ owner' = [owner EXCEPT ![i] = a]
          /\ step' = [step EXCEPT ![a].at = "gating"]
      BY <2>3 DEF CommitClaim
    <3>3. CurrentItem(a)' = i /\ CurrentItem(a) = Null
      BY <3>2 DEF IInv, CommitClaim, TypeOK, CurrentItem
    <3>4. \A b \in Agent \ {a} : CurrentItem(b)' = CurrentItem(b)
      BY <3>2 DEF IInv, TypeOK, CurrentItem
    <3>5. a # Null
      BY SimAssumption
    <3>6. ASSUME NEW j \in Item
          PROVE  /\ phase'[j] = "InProgress" <=> owner'[j] # Null
                 /\ \A b \in Agent : CurrentItem(b)' = j <=> owner'[j] = b
      <4>1. CASE j = i
        <5>1. phase'[j] = "InProgress" /\ owner'[j] = a
          BY <1>1, <3>2, <4>1 DEF IInv, TypeOK
        <5>2. \A b \in Agent : CurrentItem(b) # i
          BY <1>1, <1>4, <3>1, SimAssumption DEF IInv, Agreed
        <5>. QED
          BY <3>3, <3>4, <3>5, <4>1, <5>1, <5>2
      <4>2. CASE j # i
        <5>1. phase'[j] = phase[j] /\ owner'[j] = owner[j]
          BY <3>2, <4>2 DEF IInv, TypeOK
        <5>2. owner[j] # a
          BY <1>4, <3>3, ItemFinite DEF IInv, Agreed
        <5>. QED
          BY <1>4, <3>3, <3>4, <4>2, <5>1, <5>2 DEF IInv, Agreed
      <4>. QED
        BY <4>1, <4>2
    <3>. QED
      BY <2>1, <3>6 DEF Agreed
  <2>. QED
    BY <2>2, <2>3
<1>. QED
  BY <1>2, <1>3, <1>4 DEF IInv, CommitClaim

LEMMA GateStep ==
  ASSUME IInv, NEW a \in Agent, Gate(a)
  PROVE  IInv'
<1>. DEFINE points == AtLeast(Effort(step[a].target), 1)
            allowed == BudgetGate(world.capacity, consumed, points)
<1>1. points \in Nat /\ allowed \in BOOLEAN
  <2>1. Effort(step[a].target) \in Nat
    BY WorldFacts DEF IInv, Targeted, Gate
  <2>. QED
    BY <2>1 DEF AtLeast, BudgetGate
<1>2. step' = [step EXCEPT ![a] = [@ EXCEPT !.at = "spending", !.points = points, !.allowed = allowed]]
  BY DEF Gate, IInv, TypeOK
<1>. HIDE DEF points, allowed
<1>3. TypeOK'
  <2>. DEFINE S == [at : {"idle", "claiming", "gating", "spending", "completing"},
                    target : Item \cup {Null}, points : Nat, allowed : BOOLEAN]
  <2>1. step \in [Agent -> S] /\ step[a] \in S
    BY DEF IInv, TypeOK
  <2>2. [step[a] EXCEPT !.at = "spending", !.points = points, !.allowed = allowed] \in S
    BY <1>1, <2>1
  <2>. HIDE DEF S
  <2>3. step' \in [Agent -> S]
    BY <1>2, <2>1, <2>2
  <2>. QED
    BY <2>3 DEF IInv, Gate, TypeOK, S
<1>4. Targeted'
  BY <1>2 DEF IInv, Gate, TypeOK, Targeted
<1>5. ASSUME mode = "safe" PROVE S2' /\ Agreed'
  <2>1. \A b \in Agent : CurrentItem(b)' = CurrentItem(b)
    BY <1>2 DEF IInv, Gate, TypeOK, CurrentItem
  <2>. QED
    BY <1>5, <2>1 DEF IInv, Gate, S2, Agreed
<1>. QED
  BY <1>3, <1>4, <1>5 DEF IInv, Gate

(* An agent that lets go of its item, which leaves "InProgress".           *)
LEMMA LetsGo ==
  ASSUME TypeOK, Agreed, NEW a \in Agent, NEW i \in Item,
         CurrentItem(a) = i, step' = [step EXCEPT ![a] = Idle],
         owner' = [owner EXCEPT ![i] = Null],
         phase'[i] # "InProgress",
         \A j \in Item \ {i} : phase'[j] = "InProgress" <=> phase[j] = "InProgress"
  PROVE  Agreed'
<1>1. CurrentItem(a)' = Null /\ \A b \in Agent \ {a} : CurrentItem(b)' = CurrentItem(b)
  BY DEF TypeOK, CurrentItem, Idle
<1>2. owner[i] = a
  BY DEF Agreed
<1>3. ASSUME NEW j \in Item
      PROVE  /\ phase'[j] = "InProgress" <=> owner'[j] # Null
             /\ \A b \in Agent : CurrentItem(b)' = j <=> owner'[j] = b
  <2>1. CASE j = i
    <3>1. owner'[j] = Null
      BY <2>1 DEF TypeOK
    <3>2. \A b \in Agent \ {a} : CurrentItem(b) # i
      BY <1>2 DEF Agreed
    <3>3. Null \notin Agent /\ Null # j
      BY SimAssumption, ItemFinite
    <3>. QED
      BY <1>1, <2>1, <3>1, <3>2, <3>3
  <2>2. CASE j # i
    <3>1. owner'[j] = owner[j] /\ Null # j
      BY <2>2, ItemFinite DEF TypeOK
    <3>2. owner[j] # a
      BY <2>2 DEF Agreed
    <3>. QED
      BY <1>1, <2>2, <3>1, <3>2 DEF Agreed
  <2>. QED
    BY <2>1, <2>2
<1>. QED
  BY <1>3 DEF Agreed

LEMMA SpendStep ==
  ASSUME IInv, NEW a \in Agent, Spend(a)
  PROVE  IInv'
<1>. DEFINE i == step[a].target
            fits == SpendFits(a)
            back == ~fits /\ mode = "safe"
<1>1. i \in Item /\ step[a].at = "spending" /\ step[a].points \in Nat
  BY DEF IInv, TypeOK, Targeted, Spend
<1>2. /\ consumed' = IF fits THEN consumed + step[a].points ELSE consumed
      /\ phase' = IF back THEN [phase EXCEPT ![i] = "Ready"] ELSE phase
      /\ owner' = IF back THEN [owner EXCEPT ![i] = Null] ELSE owner
      /\ step' = [step EXCEPT ![a] = IF back THEN Idle ELSE [@ EXCEPT !.at = "completing"]]
      /\ UNCHANGED <<world, mode>>
  BY DEF Spend
<1>3. mode = "safe" => (fits <=> consumed + step[a].points <= world.capacity)
  BY DEF SpendFits
<1>. HIDE DEF fits, back
<1>4. TypeOK'
  BY <1>1, <1>2 DEF IInv, TypeOK, Idle
<1>5. Targeted'
  BY <1>1, <1>2 DEF IInv, TypeOK, Targeted, Idle
<1>6. ASSUME mode = "safe" PROVE S2'
  BY <1>2, <1>3, <1>6 DEF IInv, S2
<1>7. ASSUME mode = "safe" PROVE Agreed'
  <2>1. CASE back
    <3>1. CurrentItem(a) = i
      BY <1>1 DEF CurrentItem
    <3>2. phase'[i] # "InProgress" /\ \A j \in Item \ {i} : phase'[j] = phase[j]
      BY <1>1, <1>2, <2>1 DEF IInv, TypeOK
    <3>3. owner' = [owner EXCEPT ![i] = Null] /\ step' = [step EXCEPT ![a] = Idle]
      BY <1>2, <2>1
    <3>. HIDE DEF i
    <3>. QED
      BY <1>1, <1>7, <3>1, <3>2, <3>3, LetsGo DEF IInv
  <2>2. CASE ~back
    <3>1. \A b \in Agent : CurrentItem(b)' = CurrentItem(b)
      BY <1>1, <1>2, <2>2 DEF IInv, TypeOK, CurrentItem
    <3>. QED
      BY <1>2, <1>7, <2>2, <3>1 DEF IInv, Agreed
  <2>. QED
    BY <2>1, <2>2
<1>. QED
  BY <1>2, <1>4, <1>5, <1>6, <1>7 DEF IInv

LEMMA CompleteStep ==
  ASSUME IInv, NEW a \in Agent, Complete(a)
  PROVE  IInv'
<1>. DEFINE i == step[a].target
            done == [phase EXCEPT ![i] = "Done"]
            Woken(j) == /\ mode = "safe" /\ done[j] = "Blocked"
                        /\ \A k \in world.item[j].blocks : k # 0 /\ done[k] = "Done"
<1>1. i \in Item /\ step[a].at = "completing"
  BY DEF IInv, Targeted, Complete
<1>2. /\ phase' = [j \in Item |-> IF Woken(j) THEN "Ready" ELSE done[j]]
      /\ owner' = [owner EXCEPT ![i] = Null]
      /\ step' = [step EXCEPT ![a] = Idle]
      /\ UNCHANGED <<world, mode, consumed>>
  BY DEF Complete
<1>3. \A j \in Item : Woken(j) => done[j] = "Blocked"
  OBVIOUS
<1>. HIDE DEF Woken
<1>4. TypeOK'
  BY <1>1, <1>2 DEF IInv, TypeOK, Idle
<1>5. Targeted'
  BY <1>2 DEF IInv, TypeOK, Targeted, Idle
<1>6. ASSUME mode = "safe" PROVE Agreed'
  <2>1. CurrentItem(a) = i
    BY <1>1 DEF CurrentItem
  <2>2. phase'[i] # "InProgress"
    BY <1>1, <1>2 DEF IInv, TypeOK
  <2>3. \A j \in Item \ {i} : phase'[j] = "InProgress" <=> phase[j] = "InProgress"
    BY <1>2, <1>3 DEF IInv, TypeOK
  <2>. HIDE DEF i, done
  <2>. QED
    BY <1>1, <1>2, <1>6, <2>1, <2>2, <2>3, LetsGo DEF IInv
<1>. QED
  BY <1>2, <1>4, <1>5, <1>6 DEF IInv, S2

LEMMA NextKeeps == IInv /\ [Next]_vars => IInv'
<1>. SUFFICES ASSUME IInv, [Next]_vars PROVE IInv'
  OBVIOUS
<1>1. CASE UNCHANGED vars
  BY <1>1 DEF IInv, TypeOK, Targeted, S2, Agreed, CurrentItem, vars
<1>2. ASSUME NEW a \in Agent, Micro(a)
      PROVE  IInv'
  BY <1>2, DecideStep, CommitClaimStep, GateStep, SpendStep, CompleteStep DEF Micro
<1>. QED
  BY <1>1, <1>2 DEF Next

(* What is agreed from the agents' side is S3, and S1 with it.             *)
LEMMA AgreedIsExclusive ==
  ASSUME TypeOK, Agreed
  PROVE  S1 /\ S3
<1>1. ASSUME NEW i \in Item
      PROVE  Holders(i) = IF owner[i] = Null THEN {} ELSE {owner[i]}
  BY SimAssumption DEF TypeOK, Agreed, Holders
<1>2. S3
  BY <1>1 DEF Agreed, S3
<1>3. S1
  <2>. SUFFICES ASSUME NEW i \in Item PROVE Cardinality(Holders(i)) <= 1
    BY DEF S1
  <2>1. CASE owner[i] = Null
    BY <1>1, <2>1, FS_EmptySet
  <2>2. CASE owner[i] # Null
    <3>1. Holders(i) = {owner[i]}
      BY <1>1, <2>2
    <3>2. Cardinality({owner[i]}) = 1
      BY FS_Singleton
    <3>. QED
      BY <3>1, <3>2
  <2>. QED
    BY <2>1, <2>2
<1>. QED
  BY <1>2, <1>3

LEMMA InvHolds == Spec => []IInv
BY InitHolds, NextKeeps, PTL DEF Spec

-----------------------------------------------------------------------------
(* Every variable keeps its type: in particular, the pick the agents act   *)
(* on is always an item of the board.                                      *)
THEOREM TypeCorrect == Spec => []TypeOK
<1>1. IInv => TypeOK
  BY DEF IInv
<1>. QED
  BY <1>1, InvHolds, PTL

(* No interleaving of the safe mode breaks S1, S2 or S3 (src/ops.ts: the   *)
(* claim compares before it swaps, the spend reserves before it takes).    *)
THEOREM SafeModeIsSafe == Spec => []SafeModeHolds
<1>1. IInv => SafeModeHolds
  BY AgreedIsExclusive DEF IInv, SafeModeHolds
<1>. QED
  BY <1>1, InvHolds, PTL

-----------------------------------------------------------------------------
(* No wakeup is lost: in the safe mode whatever is still blocked waits for *)
(* something that is not done.                                             *)
Awake == mode = "safe" => \A i \in Item : phase[i] = "Blocked" => ~DepsSatisfied(i)

(* A step that completes nothing and blocks nothing wakes nobody wrongly.  *)
LEMMA NothingDone ==
  ASSUME TypeOK, Awake, UNCHANGED <<world, mode>>,
         \A i \in Item : /\ phase'[i] = "Blocked" => phase[i] = "Blocked"
                         /\ phase'[i] = "Done" => phase[i] = "Done"
  PROVE  Awake'
<1>. SUFFICES ASSUME mode = "safe", NEW i \in Item, phase'[i] = "Blocked", DepsSatisfied(i)'
              PROVE  FALSE
  BY DEF Awake
<1>1. \A j \in world.item[i].blocks : j # 0 /\ phase'[j] = "Done"
  BY DEF DepsSatisfied
<1>2. world.item[i].blocks \subseteq Item \cup {0}
  BY SimAssumption DEF TypeOK, World
<1>3. \A j \in world.item[i].blocks : j # 0 /\ phase[j] = "Done"
  BY <1>1, <1>2
<1>. QED
  BY <1>3 DEF Awake, DepsSatisfied

LEMMA AwakeStarts == Init => Awake
<1>. SUFFICES ASSUME Init, NEW i \in Item, phase[i] = "Blocked"
              PROVE  ~DepsSatisfied(i)
  BY DEF Awake
<1>1. world.item[i].blocks # {} /\ world.item[i].blocks \subseteq Item \cup {0}
  BY SimAssumption DEF Init, World
<1>2. PICK j \in Item \cup {0} : j \in world.item[i].blocks
  BY <1>1
<1>3. j # 0 => phase[j] # "Done"
  BY <1>2 DEF Init
<1>. QED
  BY <1>2, <1>3 DEF DepsSatisfied

LEMMA AwakeStays == IInv /\ Awake /\ [Next]_vars => Awake'
<1>. SUFFICES ASSUME IInv, Awake, [Next]_vars PROVE Awake'
  OBVIOUS
<1>1. CASE UNCHANGED vars
  BY <1>1 DEF vars, Awake, DepsSatisfied
<1>2. ASSUME NEW a \in Agent, Decide(a) \/ Gate(a) PROVE Awake'
  BY <1>2, NothingDone DEF Decide, Gate, IInv
<1>3. ASSUME NEW a \in Agent, CommitClaim(a) PROVE Awake'
  <2>1. step[a].target \in Item
    BY <1>3 DEF IInv, Targeted, CommitClaim
  <2>2. phase' = phase \/ phase' = [phase EXCEPT ![step[a].target] = "InProgress"]
    BY <1>3 DEF CommitClaim
  <2>. QED
    BY <1>3, <2>1, <2>2, NothingDone DEF CommitClaim, IInv, TypeOK
<1>4. ASSUME NEW a \in Agent, Spend(a) PROVE Awake'
  <2>1. step[a].target \in Item
    BY <1>4 DEF IInv, Targeted, Spend
  <2>2. phase' = phase \/ phase' = [phase EXCEPT ![step[a].target] = "Ready"]
    BY <1>4 DEF Spend
  <2>. QED
    BY <1>4, <2>1, <2>2, NothingDone DEF Spend, IInv, TypeOK
<1>5. ASSUME NEW a \in Agent, Complete(a) PROVE Awake'
  <2>. DEFINE done == [phase EXCEPT ![step[a].target] = "Done"]
              Woken(j) == /\ mode = "safe" /\ done[j] = "Blocked"
                          /\ \A k \in world.item[j].blocks : k # 0 /\ done[k] = "Done"
  <2>1. phase' = [j \in Item |-> IF Woken(j) THEN "Ready" ELSE done[j]] /\ UNCHANGED <<world, mode>>
    BY <1>5 DEF Complete
  <2>. SUFFICES ASSUME mode = "safe", NEW j \in Item, phase'[j] = "Blocked", DepsSatisfied(j)'
                PROVE  FALSE
    BY <2>1 DEF Awake
  <2>2. ~Woken(j) /\ done[j] = "Blocked"
    BY <2>1
  <2>3. world.item[j].blocks \subseteq Item \cup {0}
    BY SimAssumption DEF IInv, TypeOK, World
  <2>4. \A k \in world.item[j].blocks : k # 0 /\ k \in Item /\ phase'[k] = "Done"
    BY <2>1, <2>3 DEF DepsSatisfied
  <2>5. \A k \in Item : phase'[k] = "Done" => done[k] = "Done"
    BY <2>1
  <2>. QED
    BY <2>2, <2>4, <2>5
<1>. QED
  BY <1>1, <1>2, <1>3, <1>4, <1>5 DEF Next, Micro

(* A safe run that has come to rest has done whatever can be done: what is *)
(* left waits for a cycle or for an item that does not exist, so no wakeup *)
(* was lost and no claim was left behind (src/ops.ts complete).            *)
THEOREM RestIsFinal == Spec => []StuckForGood
<1>1. ASSUME IInv, Awake
      PROVE  StuckForGood
  <2>. SUFFICES ASSUME mode = "safe", ReadySet = {}, \A a \in Agent : step[a].at = "idle",
                       NEW i \in Item, phase[i] # "Done"
                PROVE  LeadsNowhere(i)
    BY DEF StuckForGood
  <2>. DEFINE s == {j \in Item : phase[j] # "Done"} \cup {0}
  <2>1. ASSUME NEW j \in Item, phase[j] # "Done"
        PROVE  ~DepsSatisfied(j)
    <3>1. owner[j] = Null
      <4>1. \A a \in Agent : CurrentItem(a) # j
        BY ItemFinite DEF CurrentItem
      <4>. QED
        BY <1>1, <4>1 DEF IInv, Agreed, TypeOK
    <3>2. phase[j] \in {"Blocked", "Ready"}
      BY <1>1, <2>1, <3>1 DEF IInv, Agreed, TypeOK
    <3>3. CASE phase[j] = "Blocked"
      BY <1>1, <3>3 DEF Awake
    <3>4. CASE phase[j] = "Ready"
      BY <3>1, <3>4 DEF ReadySet
    <3>. QED
      BY <3>2, <3>3, <3>4
  <2>2. ASSUME NEW j \in s PROVE j = 0 \/ (world.item[j].blocks \cap s) # {}
    <3>. SUFFICES ASSUME j # 0 PROVE \E k \in world.item[j].blocks : k \in s
      OBVIOUS
    <3>1. j \in Item /\ ~DepsSatisfied(j)
      BY <2>1, <2>2
    <3>2. PICK k \in world.item[j].blocks : k = 0 \/ phase[k] # "Done"
      BY <3>1 DEF DepsSatisfied
    <3>3. k \in Item \cup {0}
      BY <1>1, <3>1, SimAssumption DEF IInv, TypeOK, World
    <3>. QED
      BY <3>2, <3>3
  <2>3. s \in SUBSET (Item \cup {0}) /\ i \in s
    OBVIOUS
  <2>. HIDE DEF s
  <2>. QED
    BY <2>2, <2>3 DEF LeadsNowhere
<1>2. Spec => []Awake
  BY AwakeStarts, AwakeStays, InvHolds, PTL DEF Spec
<1>. QED
  BY <1>1, <1>2, InvHolds, PTL
=============================================================================

----------------------------- MODULE SchedulerSim -----------------------------
(***************************************************************************)
(* The deterministic simulation of the scheduler (src/sim.ts): agents that *)
(* decide, claim, pass the budget gate, spend and complete in separate     *)
(* steps which a seeded interleaver orders.  Here every order is possible. *)
(* The effects (src/ops.ts) come in the two modes of the code: racy ones   *)
(* trust what was decided earlier, safe ones look again.  A run stops at   *)
(* its first invariant violation, as runSim does by default.               *)
(***************************************************************************)
EXTENDS Policy

CONSTANTS Agent,
          Board,      \* items are numbered 1..Board
          Null,
          Worlds      \* the boards and budgets a run may start from

Item == 1..Board

(* What does not change in a run: the items' attributes and the targets of *)
(* their `blocks' edges (0 is an item that does not exist), the capacity   *)
(* of the budget, and what of it was consumed before.                      *)
World == [item     : [Item -> [kind : {"epic", "room", "door", "task"}, effort : Nat,
                               value : 0..100, ageDays : Nat,
                               blocks : SUBSET (Item \cup {0})]],
          capacity : Nat,
          consumed : Nat]

ASSUME SimAssumption ==
  /\ Board \in Nat \ {0}
  /\ Worlds \subseteq World
  /\ \A w \in Worlds : w.consumed <= w.capacity
  /\ Null \notin Agent \cup Item

VARIABLES world, mode, phase, owner, consumed, step

vars == <<world, mode, phase, owner, consumed, step>>

Idle == [at |-> "idle", target |-> Null, points |-> 0, allowed |-> FALSE]

TypeOK ==
  /\ world \in Worlds
  /\ mode \in {"racy", "safe"}
  /\ phase \in [Item -> {"Blocked", "Ready", "InProgress", "Done"}]
  /\ owner \in [Item -> Agent \cup {Null}]
  /\ consumed \in Nat
  /\ step \in [Agent -> [at : {"idle", "claiming", "gating", "spending", "completing"},
                         target : Item \cup {Null}, points : Nat, allowed : BOOLEAN]]

Effort(i) == world.item[i].effort

-----------------------------------------------------------------------------
(* Snapshot predicates (src/contract.ts).                                  *)

(* A target that does not exist is never done.                             *)
DepsSatisfied(i) == \A j \in world.item[i].blocks : j # 0 /\ phase[j] = "Done"

ReadySet == {i \in Item : phase[i] = "Ready" /\ owner[i] = Null /\ DepsSatisfied(i)}

Unblocks(i) == Cardinality({j \in Item : i \in world.item[j].blocks})

ToPriorityInput(i) ==
  [kind |-> world.item[i].kind, effort |-> Effort(i), value |-> world.item[i].value,
   ageDays |-> world.item[i].ageDays, unblocks |-> Unblocks(i), openBlockers |-> 0,
   state |-> IF phase[i] = "InProgress" THEN "in_progress" ELSE "open"]

(* nextPick: the top of the ranked ready set.                              *)
NextPick == Ranking([i \in ReadySet |-> ToPriorityInput(i)])[1]

-----------------------------------------------------------------------------
(* The invariants the code asserts after each step (src/invariants.ts).    *)

(* The item an agent points at: from the won claim to the completion.      *)
CurrentItem(a) ==
  IF step[a].at \in {"gating", "spending", "completing"} THEN step[a].target ELSE Null

Holders(i) == {a \in Agent : CurrentItem(a) = i}

S1 == \A i \in Item : Cardinality(Holders(i)) <= 1

S2 == consumed <= world.capacity

S3 == \A i \in Item :
        IF phase[i] = "InProgress" THEN owner[i] # Null /\ Holders(i) = {owner[i]}
                                   ELSE owner[i] = Null /\ Holders(i) = {}

(* Following `blocks' edges from the item runs into a cycle: some set of   *)
(* items has an edge from each of its members into itself.                 *)
InBlocksCycle(i) ==
  \E s \in SUBSET Item : i \in s /\ \A j \in s : world.item[j].blocks \cap s # {}

L1 == ~ /\ \E a \in Agent : step[a].at = "idle"
        /\ \E i \in Item : phase[i] \in {"Ready", "Blocked"}
        /\ ReadySet = {}
        /\ \E i \in Item : phase[i] # "Done" /\ InBlocksCycle(i)

AssertInvariants == S1 /\ S2 /\ S3 /\ L1

Init ==
  /\ world \in Worlds
  /\ mode \in {"racy", "safe"}
  /\ phase = [i \in Item |-> IF world.item[i].blocks = {} THEN "Ready" ELSE "Blocked"]
  /\ owner = [i \in Item |-> Null]
  /\ consumed = world.consumed
  /\ step = [a \in Agent |-> Idle]

-----------------------------------------------------------------------------
(* The micro-steps (runSim).                                               *)

(* The pick is decided, and nothing of the item changes yet.               *)
Decide(a) ==
  /\ step[a].at = "idle" /\ ReadySet # {}
  /\ step' = [step EXCEPT ![a].at = "claiming", ![a].target = NextPick]
  /\ UNCHANGED <<world, mode, phase, owner, consumed>>

Claimable(i) == owner[i] = Null /\ phase[i] = "Ready" /\ DepsSatisfied(i)

(* Mutant: the safe claim does not look again either.                      *)
CommitClaimUnchecked(a) ==
  LET i == step[a].target
  IN  /\ step[a].at = "claiming"
      /\ phase' = [phase EXCEPT ![i] = "InProgress"]
      /\ owner' = [owner EXCEPT ![i] = a]
      /\ step' = [step EXCEPT ![a].at = "gating"]
      /\ UNCHANGED <<world, mode, consumed>>

(* commitClaim: the safe mode compares before it swaps, the racy one does  *)
(* not.                                                                    *)
CommitClaim(a) ==
  LET i == step[a].target
      lost == mode = "safe" /\ ~Claimable(i)
  IN  /\ step[a].at = "claiming"
      /\ phase' = IF lost THEN phase ELSE [phase EXCEPT ![i] = "InProgress"]
      /\ owner' = IF lost THEN owner ELSE [owner EXCEPT ![i] = a]
      /\ step' = [step EXCEPT ![a] = IF lost THEN Idle ELSE [@ EXCEPT !.at = "gating"]]
      /\ UNCHANGED <<world, mode, consumed>>

(* gateFor: read the gate against what is consumed now.                    *)
Gate(a) ==
  LET points == AtLeast(Effort(step[a].target), 1)
  IN  /\ step[a].at = "gating"
      /\ step' = [step EXCEPT ![a].at = "spending", ![a].points = points,
                    ![a].allowed = BudgetGate(world.capacity, consumed, points)]
      /\ UNCHANGED <<world, mode, phase, owner, consumed>>

(* Mutant: the reserve keeps the last point of the budget back.            *)
SpendFitsStrictly(a) ==
  IF mode = "racy" THEN step[a].allowed ELSE consumed + step[a].points < world.capacity

(* applySpend: racily by the gate's answer, safely by what is left now.    *)
SpendFits(a) ==
  IF mode = "racy" THEN step[a].allowed ELSE consumed + step[a].points <= world.capacity

(* Mutant: a denied spend hands back points it never took.                 *)
SpendRefunds(a) ==
  LET i == step[a].target
      fits == SpendFits(a)
      back == ~fits /\ mode = "safe"
  IN  /\ step[a].at = "spending"
      /\ consumed' = IF fits THEN consumed + step[a].points ELSE consumed - step[a].points
      /\ phase' = IF back THEN [phase EXCEPT ![i] = "Ready"] ELSE phase
      /\ owner' = IF back THEN [owner EXCEPT ![i] = Null] ELSE owner
      /\ step' = [step EXCEPT ![a] = IF back THEN Idle ELSE [@ EXCEPT !.at = "completing"]]
      /\ UNCHANGED <<world, mode>>

(* Denied, the racy mode completes the item all the same, and the safe one *)
(* gives it back.                                                          *)
Spend(a) ==
  LET i == step[a].target
      fits == SpendFits(a)
      back == ~fits /\ mode = "safe"
  IN  /\ step[a].at = "spending"
      /\ consumed' = IF fits THEN consumed + step[a].points ELSE consumed
      /\ phase' = IF back THEN [phase EXCEPT ![i] = "Ready"] ELSE phase
      /\ owner' = IF back THEN [owner EXCEPT ![i] = Null] ELSE owner
      /\ step' = [step EXCEPT ![a] = IF back THEN Idle ELSE [@ EXCEPT !.at = "completing"]]
      /\ UNCHANGED <<world, mode>>

(* Mutant: what waited for the item is not looked at again.                *)
CompleteSilently(a) ==
  LET i == step[a].target
  IN  /\ step[a].at = "completing"
      /\ phase' = [phase EXCEPT ![i] = "Done"]
      /\ owner' = [owner EXCEPT ![i] = Null]
      /\ step' = [step EXCEPT ![a] = Idle]
      /\ UNCHANGED <<world, mode, consumed>>

(* complete: the item is done; the safe mode wakes what waited for it.     *)
Complete(a) ==
  LET i == step[a].target
      done == [phase EXCEPT ![i] = "Done"]
      Woken(j) == /\ mode = "safe" /\ done[j] = "Blocked"
                  /\ \A k \in world.item[j].blocks : k # 0 /\ done[k] = "Done"
  IN  /\ step[a].at = "completing"
      /\ phase' = [j \in Item |-> IF Woken(j) THEN "Ready" ELSE done[j]]
      /\ owner' = [owner EXCEPT ![i] = Null]
      /\ step' = [step EXCEPT ![a] = Idle]
      /\ UNCHANGED <<world, mode, consumed>>

Micro(a) == Decide(a) \/ CommitClaim(a) \/ Gate(a) \/ Spend(a) \/ Complete(a)

(* One micro-step of an agent that has one, until an invariant breaks.     *)
Next == \E a \in Agent : AssertInvariants /\ Micro(a)

(* The interleaver draws uniformly among the agents that can move, so none *)
(* of them is passed over forever.                                         *)
Spec == /\ Init /\ [][Next]_vars
        /\ \A a \in Agent : WF_vars(AssertInvariants /\ Micro(a))

-----------------------------------------------------------------------------
(* What the safe mode is for: in no interleaving of decisions, claims and  *)
(* spends does an item have two holders, the budget overrun, or ownership  *)
(* disagree with the agents' own view.  The racy mode breaks all three.    *)
SafeModeHolds == mode = "safe" => S1 /\ S2 /\ S3

(* When a safe run has nothing left to do, whatever is not done cannot be: *)
(* its dependencies lead into a cycle or to an item that does not exist.   *)
(* No wakeup was lost and no claim was left behind.                        *)
LeadsNowhere(i) ==
  \E s \in SUBSET (Item \cup {0}) :
    /\ i \in s
    /\ \A j \in s : j = 0 \/ (world.item[j].blocks \cap s) # {}

StuckForGood ==
  mode = "safe" /\ ReadySet = {} /\ (\A a \in Agent : step[a].at = "idle")
    => \A i \in Item : phase[i] = "Done" \/ LeadsNowhere(i)

(* Starvation-freedom (L2), as far as it goes: in a safe run on a board    *)
(* without cycles whose whole effort the budget can pay for, every item    *)
(* that can ever be ready gets done.                                       *)
WholeEffort[n \in 0..Board] ==
  IF n = 0 THEN 0 ELSE WholeEffort[n - 1] + AtLeast(Effort(n), 1)

Affordable == world.consumed + WholeEffort[Board] <= world.capacity

EverythingFinishes ==
  mode = "safe" /\ Affordable /\ (\A i \in Item : ~InBlocksCycle(i))
    ~> \A i \in Item : phase[i] = "Done" \/ LeadsNowhere(i)
=============================================================================

---------------------------- MODULE MCSchedulerSim ----------------------------
(***************************************************************************)
(* Boards for SchedulerSim: independent items, a chain, a fan-out, a cycle *)
(* with an item outside it, a blocker that does not exist, and budgets     *)
(* that pay for everything, for a part, or for all but the top pick.       *)
(***************************************************************************)
EXTENDS SchedulerSim

Bead(kind, effort, value, age, blocks) ==
  [kind |-> kind, effort |-> effort, value |-> value, ageDays |-> age, blocks |-> blocks]

Task(effort, value, blocks) == Bead("task", effort, value, 0, blocks)

Boards ==
  {<<Task(3, 50, {}), Task(3, 50, {}), Task(1, 60, {1})>>,
   <<Task(2, 80, {}), Task(4, 40, {1}), Task(1, 60, {2})>>,
   <<Task(1, 10, {2, 3}), Task(1, 20, {}), Task(2, 40, {})>>,
   <<Bead("epic", 0, 0, 9, {}), Bead("door", 0, 0, 99, {1}), Bead("task", 0, 0, 400, {1})>>,
   <<Task(2, 50, {2}), Task(2, 50, {1}), Task(1, 10, {})>>,
   <<Task(2, 50, {0}), Task(2, 50, {1}), Task(1, 10, {})>>,
   <<Task(6, 100, {}), Task(1, 1, {}), Task(1, 1, {2})>>}

Budgets == {[capacity |-> 10, consumed |-> 0], [capacity |-> 10, consumed |-> 6],
            [capacity |-> 0, consumed |-> 0]}

TestWorlds ==
  {[item |-> b, capacity |-> m.capacity, consumed |-> m.consumed] : b \in Boards, m \in Budgets}
=============================================================================

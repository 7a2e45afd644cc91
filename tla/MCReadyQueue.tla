----------------------------- MODULE MCReadyQueue -----------------------------
(* Four items in two repositories, three boards, and the calls of sessions *)
(* that differ in what they hold, what they read and what they ask.        *)
EXTENDS ReadyQueue

CONSTANTS r, q

MCItem == 1..4
MCRepo == {r, q}

row(n, repo, status, closed, effort, value, needs) ==
  [number |-> n, repo |-> repo, kind |-> "task", status |-> status, closed |-> closed,
   effort |-> effort, value |-> value, needs |-> needs, age |-> 1]

\* Item 3 has item 1's number in the other repository and waits for item 4.  Item
\* 1 was closed while its card stood still; a closing reference gates nothing.
BoardA ==
  [items |-> (1 :> row(1, r, "In Progress", TRUE, 2, 40, {})) @@ (2 :> row(2, r, "Todo", FALSE, 1, 90, {}))
          @@ (3 :> row(1, q, "In Progress", FALSE, 0, 0, {"gh", "other"}))
          @@ (4 :> row(4, r, "Todo", FALSE, 3, 30, {})),
   deps |-> (<<3, 4>> :> "parent-child") @@ (<<4, 2>> :> "closes"), leases |-> {}]

\* Item 1 has left the board, item 2 waits for item 4, and a SQL plane has item 3
\* leased.
BoardB ==
  [items |-> (2 :> row(2, r, "Blocked", FALSE, 1, 90, {}))
          @@ (3 :> row(1, q, "Todo", FALSE, 0, 0, {"gh", "other"}))
          @@ (4 :> row(4, r, "Todo", FALSE, 3, 30, {"dolt"})),
   deps |-> (<<2, 4>> :> "blocks"), leases |-> {3}]

\* Four schedulable rows: more than a query that does not page may return.
BoardC == [BoardA EXCEPT !.items[1] = row(1, r, "Todo", FALSE, 2, 40, {})]

MCBoards == {BoardA, BoardB, BoardC}

session == [bins |-> {"deno"}, token |-> "proxy-injected", reads |-> Null, doltHost |-> FALSE, clone |-> FALSE]
agent   == [bins |-> {"gh", "dolt"}, token |-> "token", reads |-> Null, doltHost |-> TRUE, clone |-> TRUE]
cloned  == [bins |-> {"dolt"}, token |-> "none", reads |-> "local", doltHost |-> TRUE, clone |-> TRUE]

next(env, top, configured, repo) ==
  [verb |-> "next", env |-> env, top |-> top, configured |-> configured, repo |-> repo]
graph(env, configured) == [verb |-> "graph", env |-> env, configured |-> configured, repo |-> Null]
list(env, repo) == [verb |-> "list", env |-> env, repo |-> repo]
claim(env, item, repo) == [verb |-> "claim", env |-> env, item |-> item, repo |-> repo]

MCRequests ==
  {next(session, 2, TRUE, Null), next(agent, 1, TRUE, r), next(agent, 2, TRUE, Null),
   next(cloned, 2, FALSE, Null),
   graph(session, TRUE), graph(agent, TRUE), graph(cloned, FALSE),
   list(session, Null), list(session, r), list(agent, Null), list(cloned, q),
   claim(session, Null, Null), claim(agent, Null, r),
   claim(session, [form |-> "id", id |-> 1], Null),
   claim(session, [form |-> "bare", number |-> 1], q),
   claim(session, [form |-> "bare", number |-> 1], Null),
   claim(agent, [form |-> "qualified", repo |-> r, number |-> 4], q),
   claim(agent, [form |-> "qualified", repo |-> r, number |-> 1], r)}

\* Ranked boards of three, with every mix of efforts, values and blockers.
ranked == [1..3 -> {[kind |-> "task", state |-> "open", effort |-> e, value |-> v,
                     openBlockers |-> o, unblocks |-> 0, ageDays |-> 0] :
                      e \in 0..3, v \in {0, 50}, o \in {0, 1}}]

\* To filter a ranking is to rank what passes (verbs.ts next, ranked2).
ASSUME FilterKeepsOrder ==
  \A x \in ranked, S \in SUBSET (1..3) :
    SelectSeq(Ranking(x), LAMBDA i : i \in S) = RankingOf(x, S)

\* The items marked as fitting are the greedy choice: each ready item fits if it
\* fits beside the fitting ones ranked before it, so all of them fit together
\* (policy.ts prioritize).
ASSUME FitsAreGreedy ==
  \A x \in ranked, remaining \in {0, 2, 4} :
    LET fits == {i \in 1..3 : FitsRemaining(x, remaining, i)}
        spent(S) == MapThenSumSet(LAMBDA i : x[i].effort, S)
    IN  /\ spent(fits) <= remaining
        /\ \A i \in 1..3 :
             i \in fits <=> IsEligible(x[i])
                           /\ x[i].effort + spent({j \in fits : Place(x, j) < Place(x, i)}) <= remaining
===============================================================================

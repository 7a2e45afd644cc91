\* The backstop outlives the instance (BindTtl > MaxNow), so only the reaper,
\* or the holder, can end a bound lease.  No symmetry: liveness is checked.
CONSTANTS
  shared = shared
  Null = Null
  Session = {s1}
  AgentOf <- OwnAgent
  Item = {i1}
  Referent = {r1, r2}
  Verbs = {"bind", "release"}
  ClaimTtl = 1
  BindTtl = 2
  MaxNow = 1
  MaxFencing = 2
  MaxLate = 1
  MaxFaults = 1
SPECIFICATION FairSpec
PROPERTIES MergedIsCollected

\* A session whose own earlier claim was granted, and whose reply was lost.
CONSTANTS
  shared = shared
  Null = Null
  Session = {s1, s2}
  AgentOf <- OwnAgent
  Item = {i1}
  Referent = {}
  Verbs = {"release"}
  ClaimTtl = 1
  BindTtl = 2
  MaxNow = 1
  MaxFencing = 1
  MaxLate = 1
  MaxFaults = 0
SPECIFICATION Spec
INVARIANTS RefusedByAnother

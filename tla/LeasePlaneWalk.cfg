\* Two sessions behind one identity walk rankings of two items.
CONSTANTS
  shared = shared
  Null = Null
  Session = {s1, s2}
  AgentOf <- SharedAgent
  Item = {i1, i2}
  Referent = {}
  Verbs = {"renew", "release"}
  ClaimTtl = 2
  BindTtl = 2
  MaxNow = 2
  MaxFencing = 2
  MaxLate = 1
  MaxFaults = 0
SPECIFICATION Spec
SYMMETRY Symmetric
PROPERTIES LiveGrantUndisturbed

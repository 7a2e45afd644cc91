\* Two sessions behind one identity, one item, the reaper and two referents
\* that may close, reopen and merge.
CONSTANTS
  shared = shared
  Null = Null
  Session = {s1, s2}
  AgentOf <- SharedAgent
  Item = {i1}
  Referent = {r1, r2}
  Verbs = {"bind", "release"}
  ClaimTtl = 1
  BindTtl = 2
  MaxNow = 2
  MaxFencing = 2
  MaxLate = 1
  MaxFaults = 0
SPECIFICATION Spec
SYMMETRY Symmetric
INVARIANTS TypeOK OneObeyed
PROPERTIES LiveGrantUndisturbed CollectedOnEvidence

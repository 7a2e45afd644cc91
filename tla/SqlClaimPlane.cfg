\* Two workers, two items, one death or lost connection; a claim can lapse
\* before its audit row is written, and a heartbeat may ask for more than it.
CONSTANTS
  Null = Null
  Session = {s1, s2}
  i1 = i1
  i2 = i2
  Item <- TwoItems
  Walks <- OneRanking
  ClaimTtl = 1
  RenewTtl = 2
  MaxNow = 2
  MaxFaults = 1
SPECIFICATION Spec
INVARIANTS TypeOK OneHolder AcknowledgedIsCommitted
PROPERTIES LapsedIsFreed

\* Three agents over boards of three items, in both modes.
CONSTANTS
  Null = Null
  Agent = {a1, a2, a3}
  Board = 3
  Unit = 300
  Worlds <- TestWorlds
SPECIFICATION Spec
INVARIANTS TypeOK SafeModeHolds StuckForGood
PROPERTIES EverythingFinishes
CHECK_DEADLOCK FALSE

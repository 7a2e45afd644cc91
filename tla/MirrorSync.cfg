SPECIFICATION Spec
CONSTANTS
  a = a
  b = b
  c = c
  h = h
  Issue = {a, b, c}
  Hidden = {h}
  Null = Null
  OutOfBand = {1, 13}
  Refused = {13}
  Declared = {3}
  Malformed = Malformed
  Edited = {4}
  Link <- MCLink
  Cards = {"Todo", "Done"}
  FieldFloor = 1
  PushAttempts = 2
  WalkDepth = 2
  MaxTrouble = 3
INVARIANTS TypeOK NoShortCycle
PROPERTIES EffortIsOurs WorkIsKept Converges

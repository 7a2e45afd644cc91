SPECIFICATION Spec
CONSTANTS
  Null = Null
  Agent = {a1, a2}
  Referent = {r1, r2}
  Duration = {0, 1, 3}
  MaxNow = 4
  AlarmWindow = 1
  MaxFencing = 2
SYMMETRY Symmetric
INVARIANTS TypeOK HistoryMatchesLease IntervalsDisjoint
PROPERTIES NoTakeover ReportedEndIsFinal ImplementsLedger AlarmsAreLapses

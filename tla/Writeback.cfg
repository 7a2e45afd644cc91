\* Two issues, a hidden item, pages of one row.
CONSTANTS
  r = r
  Null = Null
  Unit = 100
  Item <- MCItem
  Repo = {r}
  Hidden <- MCHidden
  Graphs <- MCGraphs
  PAGE_ROWS = 1
  MaxTrouble = 3
SPECIFICATION Spec
INVARIANTS TypeOK
PROPERTIES PlanIsOneBoard CardsConverge

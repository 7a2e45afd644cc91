\* Two commits, lease changes or failed requests to a call; pages of two rows.
CONSTANTS
  r = r
  q = q
  Null = Null
  Unit = 300
  Item <- MCItem
  Repo <- MCRepo
  Boards <- MCBoards
  Requests <- MCRequests
  PAGE_ROWS = 2
  CAP_GUARD = 4
  DEFAULT_HELD_WINDOW = 2
  Leasable = {3}
  MaxTrouble = 2
SPECIFICATION Spec
INVARIANTS TypeOK
PROPERTIES OffersTheReady ExclusionIsObserved LastingRowsAreListed ClaimSpeaksTrue

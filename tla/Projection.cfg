\* Two items, of two grants and of one; no referents, since what a grant was
\* bound to is one more field of a row.
CONSTANTS
  long = long
  Item = {long, short}
  Agent = {a1}
  Referent = {}
  Null = Null
  MaxAttempts = 2
  MaxGrants <- Grants
  MaxFaults = 2
SPECIFICATION FairSpec
INVARIANTS TypeOK SkippedIsSettled RowsAreTrue
PROPERTIES PublishedIsComplete RacedCommitKept EndsReachTheLog

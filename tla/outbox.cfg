\* Two workers on one table, batches of two rows.
SPECIFICATION FairSpec
CONSTANTS
  r1 = r1
  r2 = r2
  p1 = p1
  p2 = p2
  Rows = {r1, r2}
  Publishers = {p1, p2}
  Pausable = {r2}
  BatchSize = 2
  MaxAttempts = 2
  MaxWait = 2
  Patience = 1
  MaxLosses = 1
INVARIANTS RepeatsExplained PauseHolds
PROPERTY RowSettles

\* Competing redrives and cleanups on one audit chain.
SPECIFICATION Spec
CONSTANTS
  r1 = r1
  r2 = r2
  r3 = r3
  c1 = c1
  c2 = c2
  k1 = k1
  h1 = h1
  h2 = h2
  x1 = x1
  x2 = x2
  Redrives = {r1, r2, r3}
  Cleanups = {c1, c2}
  Keys = {k1}
  OpKey <- MCOpKey
  Hashes = {h1, h2}
  Hash <- MCHash
  NoHash = NoHash
  Records = {x1, x2}
  QueueRows = {x1}
  RetainUntil <- MCRetainUntil
  BatchSize = 1
  MaxTime = 1
INVARIANTS RedriveTrue RedriveAudited ForksExplained CountsTrue
PROPERTY ProtectedKept
SYMMETRY Symmetry
\* Commands end.
CHECK_DEADLOCK FALSE

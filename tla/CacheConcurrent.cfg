\* Two concurrent calls, without faults.  The clock stands still: every order of
\* removal is a possible one, and every file has outlived MaxLife.
SPECIFICATION Spec
CONSTANTS
  h1 = h1
  h2 = h2
  u1 = u1
  u2 = u2
  c1 = c1
  c2 = c2
  NoSum = NoSum
  Nothing = Nothing
  Handlers <- TwoHandlers
  Urls <- TwoUrls
  Sums <- TwoSums
  Sizes = {1, 2}
  MaxRequests = 3
  MaxClock = 0
  MaxLife = 0
  ToleranceSize = 1
  MaxSize = 2
  MoveMayFail = FALSE
  StoreMayFail = FALSE
  MayCrash = FALSE
SYMMETRY Symmetry
\* All calls have returned and the bounds are reached.
CHECK_DEADLOCK FALSE
INVARIANTS
  TypeOK
  ServedIsRequested
  NoDanglingRow
  NoOrphanFile
  KnownFilesFit

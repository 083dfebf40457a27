\* One call at a time, without faults in the cache.  The file a task leaves may
\* be empty.
SPECIFICATION Spec
CONSTANTS
  h1 = h1
  h2 = h2
  u1 = u1
  u2 = u2
  c1 = c1
  c2 = c2
  NoSum = NoSum
  Nothing = Nothing
  Handlers <- OneHandler
  Urls <- TwoUrls
  Sums <- OneSum
  Sizes = {1, 2}
  MaxRequests = 4
  MaxClock = 2
  MaxLife = 1
  ToleranceSize = 1
  MaxSize = 2
  MoveMayFail = TRUE
  StoreMayFail = FALSE
  MayCrash = FALSE
\* All calls have returned and the bounds are reached.
CHECK_DEADLOCK FALSE
INVARIANT SizeBoundedAtRest

\* One call at a time; statements and renames may fail.
SPECIFICATION Spec
CONSTANTS
  h1 = h1
  h2 = h2
  u1 = u1
  u2 = u2
  c1 = c1
  c2 = c2
  NoSum = NoSum
  Nothing = Nothing
  Handlers <- OneHandler
  Urls <- TwoUrls
  Sums <- OneSum
  Sizes = {1, 2}
  MaxRequests = 4
  MaxClock = 1
  MaxLife = 1
  ToleranceSize = 1
  MaxSize = 2
  MoveMayFail = FALSE
  StoreMayFail = TRUE
  MayCrash = FALSE
\* All calls have returned and the bounds are reached.
CHECK_DEADLOCK FALSE
PROPERTY CleanupReduces

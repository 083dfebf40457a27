\* Two concurrent calls, three in all, for one URL; SQL statements and renames
\* fail, the server crashes and is restarted.  The clock stands still, and with
\* both limits equal only the first phase of Cleanup removes files.
SPECIFICATION FairSpec
CONSTANTS
  h1 = h1
  h2 = h2
  u1 = u1
  u2 = u2
  c1 = c1
  c2 = c2
  NoSum = NoSum
  Nothing = Nothing
  Handlers <- TwoHandlers
  Urls <- OneUrl
  Sums <- TwoSums
  Sizes = {1}
  MaxRequests = 3
  MaxClock = 0
  MaxLife = 0
  ToleranceSize = 1
  MaxSize = 1
  MoveMayFail = FALSE
  StoreMayFail = TRUE
  MayCrash = TRUE
\* All calls have returned and the bounds are reached.
CHECK_DEADLOCK FALSE
INVARIANT ServedIsRequested
PROPERTY DownloadReturns

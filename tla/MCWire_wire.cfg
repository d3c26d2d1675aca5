SPECIFICATION FairSpec
CONSTANTS
  empty = empty
  short = short
  huge = huge
  Message = {empty, short, huge}
  Size <- Sizes
  LenSize = 1
  ABytes = 1
  Limit = 2
  Wrap = 5
  Stale = {0, 1, 4}
  PipeCap = 2
  MaxMessages = 2
  MaxFaults = 2
INVARIANTS TypeOK NothingLost OverlapIsFatal
PROPERTIES InOrderWithoutGap NeverResumes LetsGo Arrival
CHECK_DEADLOCK FALSE

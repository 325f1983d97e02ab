CONSTANTS
  Id = {1, 2, 3}
  Time = {1, 2}
  DefaultSize = 1
  MaxSize = 2
  Asked = {0, 2, 3}
SPECIFICATION FairSpec
INVARIANTS
  UntouchedListedOnce
  RepeatsOnlyIfMoved
PROPERTIES
  ScanEnds

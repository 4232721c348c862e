SPECIFICATION FairSpec
CONSTANTS
  DlN = 2
  UlN = 2
  Budget = 1
  Lens <- MCLens
  Tags <- MCTags
  MaxPkts = 2
  MaxLeaks = 1
INVARIANTS RxNeverStarves SkbAccounted StoppedQuiet TxNotStuck TxRoundTrip RxDelivered
PROPERTY RemoveEnds
CHECK_DEADLOCK FALSE

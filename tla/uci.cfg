SPECIFICATION FairSpec
CONSTANTS
  f1 = f1
  f2 = f2
  Files = {f1, f2}
  DlN = 2
  UlN = 2
  MaxLen = 1
  MaxChunks = 2
INVARIANTS RefsHeld BuffersAccounted FullRingEnds
PROPERTIES RemoveEnds BlockedCallsReturn
CHECK_DEADLOCK FALSE

SPECIFICATION FairSpec
CONSTANTS
  d1 = d1
  d2 = d2
  Devs = {d1, d2}
INVARIANTS CallsBalanced NothingHeld RecoveryRestores
PROPERTY RecoveryEnds
CHECK_DEADLOCK FALSE

SPECIFICATION FairSpec
CONSTANTS
  HwEE = {"AMSS"}
  ChanEE = {"AMSS"}
  MaxEvents = 2
  MaxPowerUps = 2
  MaxVotes = 1
  MaxPkts = 0
  EvRing = 2
  Graceful = {TRUE}
  SyncUps = {FALSE}
  Suspends = FALSE
  Debugfs = FALSE
  rddm_image = FALSE
  m2_no_db = TRUE
INVARIANTS PmMutexExclusion CtrlTaskRegAccess PowerDownFinal WakeDoorbellHeld TeardownVoteFree
PROPERTIES ErrorStateSticky VoteServed
CHECK_DEADLOCK FALSE

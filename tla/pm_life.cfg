SPECIFICATION Spec
CONSTANTS
  HwEE = {"PBL", "EDL", "PTHRU", "SBL", "FP", "AMSS"}
  ChanEE = {"SBL", "FP", "AMSS"}
  MaxEvents = 0
  MaxPowerUps = 1
  MaxVotes = 1
  MaxPkts = 0
  EvRing = 2
  Graceful = {TRUE}
  SyncUps = {TRUE}
  Suspends = TRUE
  Debugfs = TRUE
  rddm_image = FALSE
  m2_no_db = FALSE
INVARIANTS TypeOK TeardownExclusive VoteBalance
CHECK_DEADLOCK FALSE

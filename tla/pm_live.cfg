SPECIFICATION FairSpec
CONSTANTS
  HwEE = {"AMSS", "SBL", "RDDM"}
  ChanEE = {"AMSS", "SBL"}
  MaxEvents = 1
  MaxPowerUps = 1
  MaxVotes = 0
  MaxPkts = 1
  EvRing = 3
  Graceful = {TRUE, FALSE}
  SyncUps = {FALSE}
  Suspends = FALSE
  Debugfs = FALSE
  rddm_image = FALSE
  m2_no_db = FALSE
PROPERTIES PowerDownCompletes SysErrHandled
CHECK_DEADLOCK FALSE

SPECIFICATION Spec
CONSTANTS
  HwEE = {"AMSS"}
  ChanEE = {"AMSS"}
  MaxEvents = 0
  MaxPowerUps = 1
  MaxVotes = 0
  MaxPkts = 0
  EvRing = 3
  Graceful = {TRUE}
  SyncUps = {FALSE}
  Suspends = FALSE
  Debugfs = FALSE
  rddm_image = FALSE
  m2_no_db = FALSE
PROPERTY PowerUpResetWorks
CHECK_DEADLOCK FALSE

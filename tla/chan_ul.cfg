SPECIFICATION FairSpec
CONSTANTS
  N = 3
  CmdN = 3
  EvN = 2
  MaxBufs = 3
  MaxOpens = 2
  Kinds = {"skb"}
  UL = TRUE
  pre_alloc = FALSE
  HwRing = TRUE
  Mission = TRUE
  CmdFaults = FALSE
  Unbind = FALSE
INVARIANTS TypeOK PendingBalance TeardownPktFree EnabledMeansStarted NoStaleEvent
PROPERTIES FifoRefined RemoveCompletes
CHECK_DEADLOCK FALSE

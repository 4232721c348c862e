SPECIFICATION Spec
CONSTANTS
  N = 2
  CmdN = 2
  EvN = 1
  MaxBufs = 2
  MaxOpens = 2
  Kinds = {"buf"}
  UL = FALSE
  pre_alloc = TRUE
  HwRing = FALSE
  Mission = FALSE
  CmdFaults = TRUE
  Unbind = TRUE
INVARIANTS ConsumerAlone RingFreed
CHECK_DEADLOCK FALSE

CONSTANTS
  N = 2
  Order <- Ascending
  Strategy = "OneForAll"
  IntensityAction = "ShutdownSupervisor"
  MaxRestarts = 1
  Window = 0
  SigCap = 1
  MboxCap = 1
  UseRegistry = TRUE
  ClientsHold = FALSE
  FactoryFails = TRUE
  MaxInst = 4
  MaxTime = 0
  MaxSends = 3
SPECIFICATION FairSpec
PROPERTIES StopStopsAll
CHECK_DEADLOCK FALSE

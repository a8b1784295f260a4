CONSTANTS
  N = 3
  Order <- Ascending
  Strategy = "RestForOne"
  IntensityAction = "ShutdownSupervisor"
  MaxRestarts = 3
  Window = 1
  SigCap = 2
  MboxCap = 1
  UseRegistry = FALSE
  ClientsHold = TRUE
  FactoryFails = FALSE
  MaxInst = 8
  MaxTime = 0
  MaxSends = 2
SPECIFICATION Spec
INVARIANTS RestartsHaveCause
CHECK_DEADLOCK FALSE

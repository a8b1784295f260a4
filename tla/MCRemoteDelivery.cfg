CONSTANTS
  N = 3
  SendCap = 1
  InFlightLimits = {1, 2}
  BridgeCap = 1
  Cap = 1
  MaxBad = 1
  MaxFaults = 1
SPECIFICATION FairSpec
INVARIANTS ExactlyOnePlace FifoPerConnection
PROPERTIES LossHasCause EventuallySettled
CHECK_DEADLOCK FALSE

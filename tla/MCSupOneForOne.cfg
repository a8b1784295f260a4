CONSTANTS
  N = 2
  Order <- Ascending
  Strategy = "OneForOne"
  IntensityAction = "AbandonChild"
  MaxRestarts = 1
  Window = 1
  SigCap = 1
  MboxCap = 1
  UseRegistry = TRUE
  ClientsHold = TRUE
  FactoryFails = TRUE
  MaxInst = 4
  MaxTime = 2
  MaxSends = 3
SPECIFICATION FairSpec
INVARIANTS OneServingPerSlot ServingIsPublished IntensityBound RestartsHaveCause
PROPERTIES AbandonedStaysDown SlotSpec FailureIsAnswered
CHECK_DEADLOCK FALSE

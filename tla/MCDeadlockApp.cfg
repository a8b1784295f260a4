CONSTANTS
  MaxTicks = 1
  MaxGen = 8
SPECIFICATION FairSpec
INVARIANTS MainNeverFails DroppedIsJournaled OneTickUnderWay
PROPERTIES MainFinishes 
CHECK_DEADLOCK FALSE

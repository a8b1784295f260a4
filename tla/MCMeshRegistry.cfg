CONSTANTS
  service = service  i1 = i1  i2 = i2
  Client = {service}
  Instance = {i1, i2}
  Uses <- AllOperations
  TTL = 1
  MaxReply = 1
  MaxTime = 2
  MaxConns <- TwoConnections
  MaxCalls <- ThreeCalls
SPECIFICATION FairSpec
INVARIANTS OwnReply LeaseHonoured ListIsCurrent
PROPERTIES ExpiredLeaves
CHECK_DEADLOCK FALSE

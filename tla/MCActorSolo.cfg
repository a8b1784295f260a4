CONSTANTS
  a1 = a1  a2 = a2  a3 = a3
  t1 = t1  t2 = t2  o1 = o1  o2 = o2
  Actor <- One
  Supervised <- One
  Token <- Tokens
  ObserverOf <- Observers
  Cap = 2
  SigCap = 1
  Budget <- TwoMonitors
  SelfLinks = TRUE
  HasTimeout = TRUE
  MayAbort = TRUE
  Traps = {TRUE, FALSE}
SPECIFICATION Spec
INVARIANTS PendingMonitorIsHeld InFlightExact
PROPERTIES StoredMonitorIsNotified
CHECK_DEADLOCK FALSE

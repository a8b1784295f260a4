CONSTANTS
  a1 = a1  a2 = a2  a3 = a3
  t1 = t1  t2 = t2  o1 = o1  o2 = o2
  Actor <- Pair
  Supervised <- Pair
  Token <- None
  ObserverOf <- NoObservers
  Cap = 4
  SigCap = 1
  Budget <- LinkFail
  SelfLinks = FALSE
  HasTimeout = TRUE
  MayAbort = FALSE
  Traps = {TRUE, FALSE}
SPECIFICATION FairSpec
INVARIANTS FailureSignalledOnce
PROPERTIES ExitCompletes LinkedExitActedUpon
CHECK_DEADLOCK FALSE

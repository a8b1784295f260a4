CONSTANTS
  a1 = a1  a2 = a2  a3 = a3
  t1 = t1  t2 = t2  o1 = o1  o2 = o2
  Actor <- Three
  Supervised <- None
  Token <- None
  ObserverOf <- NoObservers
  Cap = 2
  SigCap = 1
  Budget <- LinkKill
  SelfLinks = FALSE
  HasTimeout = FALSE
  MayAbort = FALSE
  Traps = {TRUE, FALSE}
SPECIFICATION Spec
SYMMETRY Symmetric
INVARIANTS LinkSymmetric LinkedExitDelivered ControlFirst
CHECK_DEADLOCK FALSE

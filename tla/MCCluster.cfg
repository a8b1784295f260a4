CONSTANTS
  Name = {"a", "b", "c"}
  Addr = {"x", "y", "bad"}
  BadAddr = {"bad"}
  VNode <- TwoEach
  Key = {"k0", "k1", "k2", "k3", "k4"}
  KeyHash <- Hashes
  Owners = {"client", "mesh"}
  Duplicates = FALSE
  Word = 4
  MaxOps <- Bounds
SPECIFICATION Spec
INVARIANTS RosterAligned RosterMatchesRing ReplicasCorrect SnapshotExact FanOutAgrees
PROPERTIES OnlyItsKeysMove
CHECK_DEADLOCK FALSE

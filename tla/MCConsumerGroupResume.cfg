\* As in MCConsumerGroup.cfg, with no restart but the one of resumeAfterRestart.
CONSTANTS
  Partitions = {p1, p2}
  Keys = {"user-a", "user-b"}
  KeyOf <- InTurn
  None = None
  Batch = 3
  MaxAttempts = 2
  MaxFaults = 0

SPECIFICATION Spec

\* run has returned, or its consumer has stopped for good.
CHECK_DEADLOCK FALSE
INVARIANTS
  OnlyNewAfterRestart

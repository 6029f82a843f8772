\* Two keys on two partitions, together or apart; the topic's partitions
\* become known in any order within two polls or writes; two restarts.
CONSTANTS
  Partitions = {p1, p2}
  Keys = {"user-a", "user-b"}
  KeyOf <- InTurn
  None = None
  Batch = 3
  MaxAttempts = 2
  MaxFaults = 2

SPECIFICATION Spec

INVARIANTS
  OneInDoubt
  KeysInOrder
  CleanRun

PROPERTIES
  RunEnds

\* run has returned, or its consumer has stopped for good.
CHECK_DEADLOCK FALSE

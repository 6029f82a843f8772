\* A worker that is stuck in its job, another one, and the second Ctrl+C.
CONSTANTS
  JobWorkers = {w1, w2}
  MaxSignals = 2

SPECIFICATION Spec

PROPERTIES
  SecondSignalKills

\* run has returned.
CHECK_DEADLOCK FALSE

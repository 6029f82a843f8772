\* The fence order as lock.go:71-72 states it: two workers are enough.
CONSTANTS
  Workers = {w1, w2}
  Ttls = {1}
  MaxGrants = 2
  MaxAttempts = 1

SPECIFICATION Spec

INVARIANT LaterHolderLargerFence

SYMMETRY WorkerSymmetry

\* After the last grant (MaxGrants) every worker may be idle for good.
CHECK_DEADLOCK FALSE

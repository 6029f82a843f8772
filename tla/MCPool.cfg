\* Up to four tasks and three workers: no worker, fewer workers than tasks and
\* more workers than tasks all occur, from the empty pool on.
CONSTANTS
  MaxTasks = 4
  MaxWorkers = 3

SPECIFICATION Spec

INVARIANTS
  RunSeesEveryResult

PROPERTIES
  RunReturns
  WorkersEnd

\* Run may have returned, panicked, or be stuck for want of a worker.
CHECK_DEADLOCK FALSE

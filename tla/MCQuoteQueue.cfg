\* Two requests that share the queue of one engine, and two faults, so that a
\* lost job and a retry can meet.  Four job numbers: one per request and one
\* that the retry of each may skip.
CONSTANTS
  Requests = {r1, r2}
  Engines = {e1}
  MaxJobs = 4
  MaxFaults = 2

SPECIFICATION Spec

INVARIANTS
  NoSharedResultKey
  ReplyIsComplete
  JobsAccounted

PROPERTIES
  RequestsEnd
  QueuesDrain

\* When every request has ended and the queues are empty, nothing happens.
CHECK_DEADLOCK FALSE

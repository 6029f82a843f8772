\* Four callers, one of which may panic: two calls in flight across a trip
\* and two more probing.  A cooldown of two ticks.
CONSTANTS
  Callers = {a, b, c, d}
  Panicky = {d}
  FailureThreshold = 2
  SuccessThreshold = 2
  Cooldown = 2

SPECIFICATION Spec

INVARIANTS
  CountersFitState
  ProbeFlagHasOwner
  LoneProbeUnlessLate

PROPERTIES
  CooldownRespected
  CloseIsEarned
  Recovers

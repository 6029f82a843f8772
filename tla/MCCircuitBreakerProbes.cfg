\* The half-open period as breaker.go:45-46 describes it.
CONSTANTS
  Callers = {a, b, c}
  Panicky = {}
  FailureThreshold = 1
  SuccessThreshold = 2
  Cooldown = 1

SPECIFICATION Spec

INVARIANT ProbesOneAtATime

SYMMETRY CallerSymmetry

\* Three workers and three grants: a paused holder, a later one, and a third
\* that comes after both.  Leases of one or two ticks.
CONSTANTS
  Workers = {w1, w2, w3}
  Ttls = {1, 2}
  MaxGrants = 3
  MaxAttempts = 2

SPECIFICATION Spec

INVARIANTS
  FencesAreUnique
  TimelyFenceOrdered

PROPERTIES
  NoStaleOverwrite
  LeaseIsItsOwners
  NoWedge

\* After the last grant (MaxGrants) every worker may be idle for good.
CHECK_DEADLOCK FALSE

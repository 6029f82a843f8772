\* Two clients, of which one sends three messages and the other one; every
\* buffer holds one message, so that a client which does not receive blocks
\* its pump at once, and whoever writes to it soon after.
CONSTANTS
  alice = alice
  bob = bob
  Clients = {alice, bob}
  MaxSends <- ThreeAndOne
  WireRoom = 1
  ChanRoom = 1

SPECIFICATION Spec

INVARIANTS
  ReachesRegistered
  SendersInOrder

PROPERTIES
  RoomGoesOn

\* The clients need not do anything.
CHECK_DEADLOCK FALSE

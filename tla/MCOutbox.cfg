\* Two relays that overlap; two deaths, so that the successor of a dead relay
\* may die too; three orders, so that a batch has a first, a middle and a last.
CONSTANTS
  Relays = {r1, r2}
  MaxOrders = 3
  MaxCrashes = 2

SPECIFICATION Spec

INVARIANTS
  EventIffPlaced
  DispatchedIsDelivered
  DeliveredInOrder

PROPERTIES
  Drains
  KeepsPromise

\* With MaxOrders orders and a drained outbox there is nothing left to do.
CHECK_DEADLOCK FALSE

------------------------ MODULE OrderAnnouncements --------------------------
(***************************************************************************)
(* What the transactional outbox promises, without tables, relays or       *)
(* crashes: every order that was placed is announced to the consumers once *)
(* and once only, in the order in which the orders were placed.            *)
(***************************************************************************)
EXTENDS Naturals, Sequences

CONSTANT Ids   \* the ids an order may get

VARIABLES
  placed,      \* the ids of the orders placed, oldest first
  announced    \* the ids the consumers have heard of, in that order

vars == <<placed, announced>>

Init == placed = <<>> /\ announced = <<>>

Place ==
  /\ \E id \in Ids : placed' = Append(placed, id)
  /\ UNCHANGED announced

Announce ==
  /\ Len(announced) < Len(placed)
  /\ announced' = Append(announced, placed[Len(announced) + 1])
  /\ UNCHANGED placed

Next == Place \/ Announce

(* What may happen, and that it does. *)
Safe == Init /\ [][Next]_vars
Spec == Safe /\ WF_vars(Announce)
=============================================================================

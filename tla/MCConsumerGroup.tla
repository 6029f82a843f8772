--------------------------- MODULE MCConsumerGroup ----------------------------
(***************************************************************************)
(* Instances of ConsumerGroup for TLC: the keys take turns, as in produce. *)
(***************************************************************************)
EXTENDS ConsumerGroup

InTurn == [i \in 1 .. Batch + 1 |-> IF i % 2 = 1 THEN "user-a" ELSE "user-b"]
=============================================================================

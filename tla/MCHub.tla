-------------------------------- MODULE MCHub ---------------------------------
(***************************************************************************)
(* Instances of Hub for TLC.                                               *)
(***************************************************************************)
EXTENDS Hub

CONSTANTS alice, bob

ThreeAndOne == [c \in Clients |-> IF c = alice THEN 3 ELSE 1]
=============================================================================

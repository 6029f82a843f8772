-------------------------- MODULE MCDistributedLock -------------------------
(***************************************************************************)
(* Instances of DistributedLock for TLC.                                   *)
(***************************************************************************)
EXTENDS DistributedLock, TLC

WorkerSymmetry == Permutations(Workers)
=============================================================================

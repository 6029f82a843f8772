-------------------------- MODULE MCCircuitBreaker --------------------------
(***************************************************************************)
(* Instances of CircuitBreaker for TLC.  The callers whose fn never panics *)
(* are interchangeable, which the runs that check only invariants use.     *)
(***************************************************************************)
EXTENDS CircuitBreaker, TLC

CallerSymmetry == Permutations(Callers \ Panicky)
=============================================================================

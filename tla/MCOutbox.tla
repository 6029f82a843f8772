------------------------------ MODULE MCOutbox ------------------------------
(***************************************************************************)
(* The instance of Outbox that TLC checks: its constants are in            *)
(* MCOutbox.cfg.  No symmetry: the run has liveness properties.            *)
(***************************************************************************)
EXTENDS Outbox
=============================================================================

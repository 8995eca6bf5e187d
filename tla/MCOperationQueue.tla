-------------------------- MODULE MCOperationQueue --------------------------
(* OperationQueue on a small instance for TLC. *)
EXTENDS OperationQueue

CONSTANTS k1, k2, w1
=============================================================================

---------------------------- MODULE MCDiscovery ----------------------------
(* Discovery on a small instance for TLC. *)
EXTENDS Discovery
=============================================================================

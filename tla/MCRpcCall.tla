----------------------------- MODULE MCRpcCall -----------------------------
(* RpcCall on a small instance for TLC. *)
EXTENDS RpcCall

CONSTANT o1
=============================================================================

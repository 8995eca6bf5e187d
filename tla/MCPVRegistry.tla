---------------------------- MODULE MCPVRegistry ----------------------------
(* PVRegistry on a small instance for TLC. *)
EXTENDS PVRegistry, TLC

CONSTANTS r1, r2, r3, p1, p2, c1

RegistrySymmetry == Permutations({r1, r2, r3}) \cup Permutations({p1, p2})
=============================================================================

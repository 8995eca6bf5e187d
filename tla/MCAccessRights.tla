--------------------------- MODULE MCAccessRights ---------------------------
(* AccessRights on a small instance for TLC. *)
EXTENDS AccessRights

CONSTANT c1

\* Two identities, of which one, the other, both or none grants rights.
TwoUsers == {[account |-> {"read", "write"}, role |-> {}],
             [account |-> {}, role |-> {"read"}],
             [account |-> {"write"}, role |-> {"read"}],
             [account |-> {}, role |-> {}]}
=============================================================================

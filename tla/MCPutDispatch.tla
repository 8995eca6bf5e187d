--------------------------- MODULE MCPutDispatch ---------------------------
(* PutDispatch on a small instance for TLC. *)
EXTENDS PutDispatch, TLC

CONSTANT pv

Setup(c, n, events, others, reloads, epochs) ==
  [confirm |-> c, puts |-> n, events |-> events, stream |-> others, epoch |-> reloads, source |-> epochs]

\* Two puts that peers cancel and a shutdown of the queue overtakes; two that a reload
\* and a retirement overtake; two with another writer; one with other writers and a
\* replaced stream; and one that nearly everything can happen to.
SafetySetups ==
  {Setup("distinct", 2, {"cancel", "stop"}, 0, 0, 1), Setup("none", 2, {"retire"}, 0, 1, 1),
   Setup("read", 2, {}, 1, 0, 1), Setup("read", 1, {}, 2, 0, 2),
   Setup("distinct", 1, {"stop", "retire"}, 1, 0, 2),
   Setup("none", 1, {"cancel", "expire", "stop", "retire"}, 0, 1, 1)}

\* Deadlines and a retirement.
AnswerSetups ==
  {Setup("distinct", 2, {"expire"}, 0, 0, 1), Setup("distinct", 1, {"expire", "retire"}, 1, 0, 1)}

\* An unconfirmed put, and another writer of the same key.
ReadbackSetups == {Setup("none", 1, {}, 2, 0, 1)}
=============================================================================

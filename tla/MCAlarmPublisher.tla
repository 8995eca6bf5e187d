-------------------------- MODULE MCAlarmPublisher --------------------------
(* AlarmPublisher on a small instance for TLC. *)
EXTENDS AlarmPublisher

CONSTANTS n1, a1, a2
=============================================================================

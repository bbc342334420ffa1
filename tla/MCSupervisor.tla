---------------------------- MODULE MCSupervisor ----------------------------
(* Instances of Supervisor for TLC. *)
EXTENDS Supervisor

CONSTANTS t1, t2, t3

MCTasks == {t1, t2, t3}
MCTracked == {t1, t2}
MCTwo == {t1, t2}
MCOne == {t1}
=============================================================================

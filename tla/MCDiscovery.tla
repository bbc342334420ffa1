---------------------------- MODULE MCDiscovery ----------------------------
(***************************************************************************)
(* An instance of Discovery for TLC.  The bound: routes and calls of the   *)
(* administrator are explored beside one run of one process, two runs and  *)
(* a restart beside the channel and its models.                            *)
(***************************************************************************)
EXTENDS Discovery

CONSTANTS m1, u1

Within ==
  \/ routes = {} /\ \A u \in Callers : caller[u] = NoCall
  \/ run[2] = NoRun /\ ~closing /\ restarts = 0

MCNext == Next /\ Within'
MCSpec == Init /\ [][MCNext]_vars /\ \A r \in Runs : WF_vars(TaskStep(r))
=============================================================================

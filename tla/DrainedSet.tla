----------------------------- MODULE DrainedSet -----------------------------
(***************************************************************************)
(* What a RuntimeSupervisor promises the owner of a runtime                *)
(* (infrastructure/supervisor.rs:7-12, 147-154): background tasks come and *)
(* go, the owner drains them once, and from the moment the drain returns   *)
(* no task of the runtime is alive, nor ever will be.                      *)
(***************************************************************************)
CONSTANT Tasks

VARIABLES
  live,    \* the tasks that run
  phase    \* "open", "draining" once shutdown() began, "closed" once it returned

vars == <<live, phase>>

(* The long-lived tasks are there when the runtime is put together.        *)
Init == live \subseteq Tasks /\ phase = "open"

Register ==
  /\ phase # "closed"
  /\ \E T \in SUBSET (Tasks \ live) : live' = live \cup T
  /\ UNCHANGED phase

Finish == live' \subseteq live /\ UNCHANGED phase

Drain == phase = "open" /\ phase' = "draining" /\ UNCHANGED live

Close == phase = "draining" /\ live = {} /\ phase' = "closed" /\ UNCHANGED live

Next == Register \/ Finish \/ Drain \/ Close

Safe == Init /\ [][Next]_vars

(* The drain is bounded: begun, it returns (supervisor.rs:147-153).         *)
Bounded == phase = "draining" ~> phase = "closed"
=============================================================================

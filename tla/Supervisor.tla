----------------------------- MODULE Supervisor -----------------------------
(***************************************************************************)
(* RuntimeSupervisor (infrastructure/supervisor.rs): the JoinSet that owns *)
(* a runtime's background tasks, the lock of that set, the callers that    *)
(* register tasks, the reaper that empties the set of finished ones and    *)
(* the owner that shuts the whole down within a deadline.                  *)
(***************************************************************************)
EXTENDS Integers, FiniteSets, FairMutex

CONSTANTS
  Tasks,        \* the registrations that may be asked for
  Tracked,      \* those made with spawn_tracked
  Reaper,       \* reap_loop, registered while the runtime is put together
  Owner,        \* the caller of shutdown()
  MaxRecorded   \* bound: failures reported from outside the set

ASSUME TasksAssumption == Tracked \subseteq Tasks /\ Reaper \notin Tasks
ASSUME OwnerAssumption == Owner \notin Tasks \cup {Reaper}

VARIABLES
  shutting,    \* shutting_down
  cancelled,   \* the cancellation token
  lock,        \* the lock of the JoinSet
  joinset,     \* the JoinSet: tasks registered and not yet joined
  outcome,     \* outcome[t]: how task t ended, "none" until it has
  caller,      \* caller[t]: how far the call of spawn for t is
  active,      \* active_tasks
  failed,      \* failed_tasks
  recorded,    \* the calls of record_failure
  owner        \* how far shutdown() is

vars == <<shutting, cancelled, lock, joinset, outcome, caller, active, failed, recorded, owner>>
unit == <<shutting, cancelled, owner>>

Members == Tasks \cup {Reaper}
Outcomes == {"success", "failed", "cancelled", "aborted"}
Running == {t \in joinset : outcome[t] = "none"}

TypeOK ==
  /\ shutting \in BOOLEAN /\ cancelled \in BOOLEAN
  /\ lock \in Seq(Members \cup {Owner})
  /\ joinset \subseteq Members
  /\ outcome \in [Members -> Outcomes \cup {"none"}]
  /\ caller \in [Tasks -> {"new", "checked", "waiting", "refused", "registered"}]
  /\ active \in Nat /\ failed \in Nat /\ recorded \in 0..MaxRecorded
  /\ owner \in {"away", "locking", "joining", "expired", "relocking", "aborting", "returned"}

Init ==
  /\ shutting = FALSE /\ cancelled = FALSE /\ lock = <<>>
  /\ joinset = {Reaper} /\ outcome = [t \in Members |-> "none"]
  /\ caller = [t \in Tasks |-> "new"]
  /\ active = 1 /\ failed = 0 /\ recorded = 0 /\ owner = "away"

-----------------------------------------------------------------------------
(* spawn, spawn_tracked: the flag is read, then the lock is asked for ...  *)
Check(t) ==
  /\ caller[t] = "new"
  /\ caller' = [caller EXCEPT ![t] = IF shutting THEN "refused" ELSE "checked"]
  /\ UNCHANGED <<unit, lock, joinset, outcome, active, failed, recorded>>

Ask(t) ==
  /\ caller[t] = "checked"
  /\ caller' = [caller EXCEPT ![t] = "waiting"] /\ lock' = Asks(lock, t)
  /\ UNCHANGED <<unit, joinset, outcome, active, failed, recorded>>

(* Mutant: the flag is not read again under the lock.                      *)
RegisterUnchecked(t) ==
  /\ caller[t] = "waiting" /\ Holds(lock, t)
  /\ lock' = Drops(lock, t)
  /\ caller' = [caller EXCEPT ![t] = "registered"]
  /\ joinset' = joinset \cup {t} /\ active' = active + 1
  /\ UNCHANGED <<unit, outcome, failed, recorded>>

(* ... and the flag is read again once it is held.                         *)
Register(t) ==
  /\ caller[t] = "waiting" /\ Holds(lock, t)
  /\ lock' = Drops(lock, t)
  /\ IF shutting
     THEN caller' = [caller EXCEPT ![t] = "refused"] /\ UNCHANGED <<joinset, active>>
     ELSE /\ caller' = [caller EXCEPT ![t] = "registered"]
          /\ joinset' = joinset \cup {t} /\ active' = active + 1
  /\ UNCHANGED <<unit, outcome, failed, recorded>>

(* The request that asked is gone, its future dropped.                     *)
CallerGone(t) ==
  /\ caller[t] = "waiting"
  /\ caller' = [caller EXCEPT ![t] = "refused"] /\ lock' = Drops(lock, t)
  /\ UNCHANGED <<unit, joinset, outcome, active, failed, recorded>>

Spawn(t) == Check(t) \/ Ask(t) \/ Register(t)

-----------------------------------------------------------------------------
(* A task ends: the guard takes it from the count, and spawn_tracked       *)
(* counts every outcome but success.  The supervisor does not look at what *)
(* a task of spawn returns.                                                *)
Counts(t, o) == t \in Tracked /\ o # "success"

Ends(t, o) ==
  /\ t \in Running
  /\ outcome' = [outcome EXCEPT ![t] = o]
  /\ active' = active - 1
  /\ failed' = failed + IF Counts(t, o) THEN 1 ELSE 0
  /\ UNCHANGED <<joinset, caller, recorded>>

Finish(t) ==
  /\ \E o \in IF t \in Tracked THEN {"success", "failed"} \cup {c \in {"cancelled"} : cancelled}
                               ELSE {"success"} : Ends(t, o)
  /\ UNCHANGED <<unit, lock>>

(* record_failure: a probe of the health loop failed, outside the set.     *)
RecordFailure ==
  /\ recorded < MaxRecorded
  /\ recorded' = recorded + 1 /\ failed' = failed + 1
  /\ UNCHANGED <<unit, lock, joinset, outcome, caller, active>>

-----------------------------------------------------------------------------
(* reap_loop: select! between the token and the interval.  The lock is     *)
(* asked for in the second branch's body, where the token is not awaited.  *)
Idle == Reaper \in Running /\ ~Holds(lock, Reaper) /\ ~Waits(lock, Reaper)

ReaperTick ==
  /\ Idle
  /\ lock' = Asks(lock, Reaper)
  /\ UNCHANGED <<unit, joinset, outcome, caller, active, failed, recorded>>

(* Mutant: the reaper reaps once and ends.                                 *)
ReapOnce ==
  /\ Reaper \in Running /\ Holds(lock, Reaper)
  /\ joinset' = Running /\ lock' = Drops(lock, Reaper)
  /\ outcome' = [outcome EXCEPT ![Reaper] = "success"] /\ active' = active - 1
  /\ UNCHANGED <<unit, caller, failed, recorded>>

Reap ==
  /\ Reaper \in Running /\ Holds(lock, Reaper)
  /\ joinset' = Running /\ lock' = Drops(lock, Reaper)
  /\ UNCHANGED <<unit, outcome, caller, active, failed, recorded>>

ReaperStops ==
  /\ Idle /\ cancelled
  /\ Ends(Reaper, "success")
  /\ UNCHANGED <<unit, lock>>

-----------------------------------------------------------------------------
(* shutdown: refuse, cancel, then join everything until the deadline.      *)
Goes(from, to) == owner = from /\ owner' = to

Shutdown ==
  /\ Goes("away", "locking")
  /\ shutting' = TRUE /\ cancelled' = TRUE /\ lock' = Asks(lock, Owner)
  /\ UNCHANGED <<joinset, outcome, caller, active, failed, recorded>>

(* request_stop and Ctrl-C cancel the token alone.                         *)
Cancel ==
  /\ ~cancelled /\ cancelled' = TRUE
  /\ UNCHANGED <<shutting, owner, lock, joinset, outcome, caller, active, failed, recorded>>

Locked ==
  /\ Holds(lock, Owner) /\ (Goes("locking", "joining") \/ Goes("relocking", "aborting"))
  /\ UNCHANGED <<shutting, cancelled, lock, joinset, outcome, caller, active, failed, recorded>>

Join(t) ==
  /\ owner \in {"joining", "aborting"} /\ t \in joinset \ Running
  /\ joinset' = joinset \ {t}
  /\ UNCHANGED <<unit, lock, outcome, caller, active, failed, recorded>>

(* Mutant: the join has no time limit.                                     *)
NoDeadline == FALSE /\ UNCHANGED vars

(* Mutant: at the deadline shutdown returns, the tasks left to themselves. *)
DeadlineDetaches ==
  /\ Goes("locking", "returned") \/ Goes("joining", "returned")
  /\ lock' = Drops(lock, Owner)
  /\ UNCHANGED <<shutting, cancelled, joinset, outcome, caller, active, failed, recorded>>

(* The deadline drops the future that joins, and the lock with it.         *)
Deadline ==
  /\ Goes("locking", "expired") \/ Goes("joining", "expired")
  /\ lock' = Drops(lock, Owner)
  /\ UNCHANGED <<shutting, cancelled, joinset, outcome, caller, active, failed, recorded>>

Relock ==
  /\ Goes("expired", "relocking")
  /\ lock' = Asks(lock, Owner)
  /\ UNCHANGED <<shutting, cancelled, joinset, outcome, caller, active, failed, recorded>>

(* JoinSet::shutdown aborts: the future is dropped, its place in the queue *)
(* and its guard with it; nothing counts an aborted task as failed.        *)
Abort(t) ==
  /\ owner = "aborting" /\ t \in Running
  /\ outcome' = [outcome EXCEPT ![t] = "aborted"] /\ active' = active - 1
  /\ lock' = Drops(lock, t)
  /\ UNCHANGED <<unit, joinset, caller, failed, recorded>>

Return ==
  /\ Goes("joining", "returned") \/ Goes("aborting", "returned")
  /\ joinset = {} /\ lock' = Drops(lock, Owner)
  /\ UNCHANGED <<shutting, cancelled, joinset, outcome, caller, active, failed, recorded>>

Owning == Locked \/ Deadline \/ Relock \/ Return \/ \E t \in Members : Join(t) \/ Abort(t)
Reaping == ReaperTick \/ Reap \/ ReaperStops

-----------------------------------------------------------------------------
Next ==
  \/ \E t \in Tasks : Spawn(t) \/ CallerGone(t) \/ Finish(t)
  \/ Reaping \/ RecordFailure
  \/ Shutdown \/ Cancel \/ Owning

Spec == Init /\ [][Next]_vars

(* Callers, the reaper and the owner are scheduled and the deadline comes; *)
(* a task need never end by itself, and nobody need call shutdown.         *)
FairSpec ==
  /\ Spec /\ WF_vars(Reaping) /\ WF_vars(Owning)
  /\ \A t \in Tasks : WF_vars(Register(t))

-----------------------------------------------------------------------------
(* Once shutdown() has returned, no task of the runtime is alive, none is  *)
(* left in the set, and none slips in afterwards, whoever was waiting for  *)
(* the lock meanwhile (supervisor.rs:7-12, 64-65).                         *)
NoneSurvives == owner = "returned" => joinset = {} /\ active = 0

(* active_task_count() counts the tasks that run, at every moment: an      *)
(* aborted task releases its place too (supervisor.rs:18-20).              *)
ActiveIsLive == active = Cardinality(Running)

(* The supervisor is the set of tasks its owners rely on.                  *)
Phase == CASE owner = "away" -> "open" [] owner = "returned" -> "closed" [] OTHER -> "draining"
Promise == INSTANCE DrainedSet WITH Tasks <- Members, live <- Running, phase <- Phase
DrainsOnce == Promise!Safe

(* The drain is bounded, a task that hangs, a reaper in the way and callers*)
(* in the queue notwithstanding (supervisor.rs:147-153).                   *)
DrainEnds == Promise!Bounded

(* While the runtime is up, a task that ended leaves the set: the JoinSet  *)
(* does not grow without bound (supervisor.rs:132).                        *)
FinishedReaped == \A t \in Tasks :
  (t \in joinset \ Running) ~> (t \notin joinset \/ cancelled)


=============================================================================

-------------------------- MODULE SupervisorProofs --------------------------
(* Proofs about Supervisor, for any number of tasks: the count of active   *)
(* tasks is exact, nothing survives shutdown(), and the supervisor is a    *)
(* DrainedSet.                                                             *)
EXTENDS Supervisor, FiniteSetTheorems, TLAPS

States == {"new", "checked", "waiting", "refused", "registered"}

(* A task not registered is not in the set and has not ended: a            *)
(* registration adds a running task.                                       *)
Registrations ==
  /\ caller \in [Tasks -> States]
  /\ \A t \in Tasks : caller[t] # "registered" => t \notin joinset /\ outcome[t] = "none"

Sets ==
  /\ joinset \subseteq Members /\ IsFiniteSet(joinset)
  /\ outcome \in [Members -> Outcomes \cup {"none"}]

(* The flag stands from the first step of shutdown() on, and the set it    *)
(* leaves behind is empty.                                                 *)
Closing ==
  /\ shutting \in BOOLEAN
  /\ owner # "away" => shutting = TRUE
  /\ owner = "returned" => joinset = {}

IInv == Sets /\ Registrations /\ ActiveIsLive /\ Closing

(* ------------------------------------------------------------------------ *)
(* What a step may do to the set of running tasks.                          *)

LEMMA RunningFinite ==
  ASSUME IInv
  PROVE  IsFiniteSet(Running) /\ Cardinality(Running) \in Nat /\ Running \subseteq joinset
<1>1. Running \subseteq joinset
  BY DEF Running
<1> QED
  BY <1>1, FS_Subset, FS_CardinalityType DEF IInv, Sets

(* One more: an accepted registration.                                      *)
LEMMA OneMore ==
  ASSUME IInv, NEW t \in Tasks, t \notin joinset, outcome[t] = "none",
         joinset' = joinset \cup {t}, outcome' = outcome
  PROVE  /\ Running' = Running \cup {t} /\ t \notin Running
         /\ Cardinality(Running') = Cardinality(Running) + 1
         /\ IsFiniteSet(joinset')
<1>1. Running' = Running \cup {t} /\ t \notin Running
  BY DEF Running
<1>2. IsFiniteSet(joinset')
  BY FS_AddElement DEF IInv, Sets
<1> QED
  BY <1>1, <1>2, RunningFinite, FS_AddElement

(* One less: a task ends, by itself or aborted.                             *)
LEMMA OneLess ==
  ASSUME IInv, NEW t \in Running, NEW o \in Outcomes,
         joinset' = joinset, outcome' = [outcome EXCEPT ![t] = o]
  PROVE  /\ Running' = Running \ {t}
         /\ Cardinality(Running') = Cardinality(Running) - 1
         /\ outcome' \in [Members -> Outcomes \cup {"none"}]
<1>1. t \in Members
  BY DEF IInv, Sets, Running
<1>2. o # "none"
  BY DEF Outcomes
<1>3. Running' = Running \ {t}
  BY <1>1, <1>2 DEF IInv, Sets, Running
<1>4. outcome' \in [Members -> Outcomes \cup {"none"}]
  BY <1>1 DEF IInv, Sets
<1> QED
  BY <1>3, <1>4, RunningFinite, FS_RemoveElement

(* None at all: tasks that ended are taken out of the set.                  *)
LEMMA NoneLess ==
  ASSUME IInv, NEW T \in SUBSET (joinset \ Running),
         joinset' = joinset \ T, outcome' = outcome
  PROVE  Running' = Running /\ IsFiniteSet(joinset')
<1>1. Running' = Running
  BY DEF Running
<1>2. IsFiniteSet(joinset')
  BY FS_Subset DEF IInv, Sets
<1> QED
  BY <1>1, <1>2

(* ------------------------------------------------------------------------ *)
LEMMA InitIInv == Init => IInv
<1> SUFFICES ASSUME Init PROVE IInv
  OBVIOUS
<1>1. Running = {Reaper} /\ joinset = {Reaper}
  BY DEF Init, Running, Members
<1>2. IsFiniteSet({Reaper}) /\ Cardinality({Reaper}) = 1
  BY FS_Singleton
<1>3. Sets /\ ActiveIsLive
  BY <1>1, <1>2 DEF Init, Sets, ActiveIsLive, Members
<1>4. Registrations
  BY TasksAssumption DEF Init, Registrations, Members, States
<1>5. Closing
  BY DEF Init, Closing
<1> QED
  BY <1>3, <1>4, <1>5 DEF IInv

(* The steps that leave the set, the outcomes and the count alone.          *)
LEMMA StepAside ==
  ASSUME IInv, UNCHANGED <<joinset, outcome, active>>, Closing', Registrations'
  PROVE  IInv'
<1>1. Running' = Running
  BY DEF Running
<1> QED
  BY <1>1 DEF IInv, Sets, ActiveIsLive

LEMMA CallerSteps ==
  ASSUME IInv, NEW t \in Tasks, Check(t) \/ Ask(t) \/ CallerGone(t)
  PROVE  IInv'
<1>1. UNCHANGED <<joinset, outcome, active, shutting, owner>>
  BY DEF Check, Ask, CallerGone, unit
<1>2. Closing'
  BY <1>1 DEF IInv, Closing
<1>3. PICK s \in States \ {"registered"} : caller' = [caller EXCEPT ![t] = s] /\ caller[t] # "registered"
  BY DEF Check, Ask, CallerGone, States
<1>4. Registrations'
  BY <1>1, <1>3 DEF IInv, Registrations
<1> QED
  BY <1>1, <1>2, <1>4, StepAside

LEMMA RegisterSteps ==
  ASSUME IInv, NEW t \in Tasks, Register(t)
  PROVE  IInv'
<1>1. CASE shutting
  <2>1. UNCHANGED <<joinset, outcome, active, shutting, owner>>
    BY <1>1 DEF Register, unit
  <2>2. caller' = [caller EXCEPT ![t] = "refused"] /\ caller[t] # "registered"
    BY <1>1 DEF Register
  <2>3. Closing' /\ Registrations'
    BY <2>1, <2>2 DEF IInv, Closing, Registrations, States
  <2> QED
    BY <2>1, <2>3, StepAside
<1>2. CASE ~shutting
  <2>1. /\ joinset' = joinset \cup {t} /\ active' = active + 1
        /\ caller' = [caller EXCEPT ![t] = "registered"] /\ caller[t] = "waiting"
        /\ UNCHANGED <<outcome, shutting, owner>>
    BY <1>2 DEF Register, unit
  <2>2. t \notin joinset /\ outcome[t] = "none"
    BY <2>1 DEF IInv, Registrations
  <2>3. Cardinality(Running') = Cardinality(Running) + 1 /\ IsFiniteSet(joinset')
    BY <2>1, <2>2, OneMore
  <2>4. Sets' /\ ActiveIsLive'
    BY <2>1, <2>3 DEF IInv, Sets, ActiveIsLive, Members
  <2>5. Registrations'
    BY <2>1 DEF IInv, Registrations, States
  <2>6. Closing'
    BY <1>2, <2>1 DEF IInv, Closing
  <2> QED
    BY <2>4, <2>5, <2>6 DEF IInv
<1> QED
  BY <1>1, <1>2

(* A task that runs has been registered, or is the reaper.                  *)
LEMMA EndSteps ==
  ASSUME IInv, NEW t \in Running, NEW o \in Outcomes,
         outcome' = [outcome EXCEPT ![t] = o], active' = active - 1,
         UNCHANGED <<joinset, caller, shutting, owner>>
  PROVE  IInv'
<1>1. /\ Cardinality(Running') = Cardinality(Running) - 1
      /\ outcome' \in [Members -> Outcomes \cup {"none"}]
  BY OneLess
<1>2. Sets' /\ ActiveIsLive'
  BY <1>1 DEF IInv, Sets, ActiveIsLive
<1>3. \A s \in Tasks : caller[s] # "registered" => outcome'[s] = outcome[s]
  BY DEF IInv, Sets, Registrations, Running, Members
<1>4. Registrations'
  BY <1>3 DEF IInv, Registrations
<1>5. Closing'
  BY DEF IInv, Closing
<1> QED
  BY <1>2, <1>4, <1>5 DEF IInv

LEMMA JoinSteps ==
  ASSUME IInv, NEW T \in SUBSET (joinset \ Running), joinset' = joinset \ T,
         UNCHANGED <<outcome, active, caller, shutting, owner>>
  PROVE  IInv'
<1>1. Running' = Running /\ IsFiniteSet(joinset')
  BY NoneLess
<1>2. Sets' /\ ActiveIsLive'
  BY <1>1 DEF IInv, Sets, ActiveIsLive
<1>3. Registrations' /\ Closing'
  BY DEF IInv, Registrations, Closing
<1> QED
  BY <1>2, <1>3 DEF IInv

LEMMA OwnerSteps ==
  ASSUME IInv, UNCHANGED <<joinset, outcome, active, caller>>,
         \/ Shutdown \/ Cancel \/ Locked \/ Deadline \/ Relock \/ Return
  PROVE  IInv'
<1>1. Registrations'
  BY DEF IInv, Registrations
<1>2. Closing'
  BY DEF IInv, Closing, Shutdown, Cancel, Locked, Deadline, Relock, Return, Goes
<1> QED
  BY <1>1, <1>2, StepAside

(* ------------------------------------------------------------------------ *)
(* Next, sorted by what it does to the tasks.                               *)
Ending(t) == \E o \in Outcomes :
  /\ outcome' = [outcome EXCEPT ![t] = o] /\ active' = active - 1
  /\ UNCHANGED <<joinset, caller, shutting, owner>>

LEMMA Endings ==
  /\ \A t \in Tasks : Finish(t) => t \in Running /\ Ending(t)
  /\ ReaperStops => Reaper \in Running /\ Ending(Reaper)
  /\ \A t \in Members : Abort(t) => t \in Running /\ Ending(t)
<1>1. ASSUME NEW t \in Tasks, Finish(t) PROVE t \in Running /\ Ending(t)
  <2>1. PICK o \in Outcomes : Ends(t, o)
    BY <1>1, Zenon DEF Finish, Outcomes
  <2> QED
    BY <1>1, <2>1 DEF Finish, Ends, Ending, unit
<1>2. ASSUME ReaperStops PROVE Reaper \in Running /\ Ending(Reaper)
  BY <1>2 DEF ReaperStops, Ends, Ending, Outcomes, unit
<1>3. ASSUME NEW t \in Members, Abort(t) PROVE t \in Running /\ Ending(t)
  BY <1>3 DEF Abort, Ending, Outcomes, unit
<1> QED
  BY <1>1, <1>2, <1>3

LEMMA NextIInv == IInv /\ [Next]_vars => IInv'
<1> SUFFICES ASSUME IInv, [Next]_vars PROVE IInv'
  OBVIOUS
<1>1. ASSUME NEW t \in Tasks, Spawn(t) \/ CallerGone(t) PROVE IInv'
  BY <1>1, CallerSteps, RegisterSteps DEF Spawn
<1>2. ASSUME NEW t \in Members, t \in Running, Ending(t) PROVE IInv'
  BY <1>2, EndSteps DEF Ending
<1>3. ASSUME NEW t \in Tasks, Finish(t) PROVE IInv'
  BY <1>2, <1>3, Endings DEF Members
<1>4. CASE ReaperStops
  BY <1>2, <1>4, Endings DEF Members
<1>5. CASE ReaperTick \/ RecordFailure
  <2>1. UNCHANGED <<joinset, outcome, active, caller, shutting, owner>>
    BY <1>5 DEF ReaperTick, RecordFailure, unit
  <2>2. Closing' /\ Registrations'
    BY <2>1 DEF IInv, Closing, Registrations
  <2> QED
    BY <2>1, <2>2, StepAside
<1>6. CASE Reap
  <2>1. joinset' = joinset \ (joinset \ Running)
    BY <1>6, RunningFinite DEF Reap
  <2>2. UNCHANGED <<outcome, active, caller, shutting, owner>>
    BY <1>6 DEF Reap, unit
  <2> QED
    BY <2>1, <2>2, JoinSteps
<1>7. CASE Shutdown \/ Cancel \/ Locked \/ Deadline \/ Relock \/ Return
  <2>1. UNCHANGED <<joinset, outcome, active, caller>>
    BY <1>7 DEF Shutdown, Cancel, Locked, Deadline, Relock, Return
  <2> QED
    BY <1>7, <2>1, OwnerSteps
<1>8. ASSUME NEW t \in Members, Join(t) PROVE IInv'
  <2>1. {t} \in SUBSET (joinset \ Running) /\ joinset' = joinset \ {t}
    BY <1>8 DEF Join
  <2>2. UNCHANGED <<outcome, active, caller, shutting, owner>>
    BY <1>8 DEF Join, unit
  <2> QED
    BY <2>1, <2>2, JoinSteps
<1>9. ASSUME NEW t \in Members, Abort(t) PROVE IInv'
  BY <1>2, <1>9, Endings
<1>10. CASE UNCHANGED vars
  <2>1. UNCHANGED <<joinset, outcome, active, caller, shutting, owner>>
    BY <1>10 DEF vars
  <2>2. Closing' /\ Registrations'
    BY <2>1 DEF IInv, Closing, Registrations
  <2> QED
    BY <2>1, <2>2, StepAside
<1> QED
  BY <1>1, <1>3, <1>4, <1>5, <1>6, <1>7, <1>8, <1>9, <1>10 DEF Next, Reaping, Owning

(* The invariant holds throughout: of the tasks, the lock and the callers  *)
(* of infrastructure/supervisor.rs, however they interleave.               *)
THEOREM Inductive == Spec => []IInv
  BY InitIInv, NextIInv, PTL DEF Spec

(* After shutdown() no task is alive and none is left to join, whoever was *)
(* asking for a registration meanwhile (supervisor.rs:7-12, 64-65).        *)
THEOREM NothingSurvives == Spec => []NoneSurvives
<1>1. IInv => NoneSurvives
  <2> SUFFICES ASSUME IInv, owner = "returned" PROVE joinset = {} /\ active = 0
    BY DEF NoneSurvives
  <2>1. joinset = {} /\ Running = {}
    BY DEF IInv, Closing, Running
  <2>2. active = 0
    BY <2>1, FS_EmptySet DEF IInv, ActiveIsLive
  <2> QED
    BY <2>1, <2>2
<1> QED
  BY <1>1, Inductive, PTL

(* The count of active tasks is the number of tasks that run, aborted ones *)
(* released (supervisor.rs:18-20).                                         *)
THEOREM CountIsExact == Spec => []ActiveIsLive
<1>1. IInv => ActiveIsLive
  BY DEF IInv
<1> QED
  BY <1>1, Inductive, PTL

(* ------------------------------------------------------------------------ *)
(* The supervisor implements DrainedSet.                                    *)
LEMMA PhaseFollowsOwner ==
  /\ owner = "away" => Phase = "open"
  /\ owner = "returned" => Phase = "closed"
  /\ owner \notin {"away", "returned"} => Phase = "draining"
BY DEF Phase

LEMMA SameTasks ==
  ASSUME UNCHANGED <<joinset, outcome>> PROVE Running' = Running
BY DEF Running

LEMMA SamePhase ==
  ASSUME UNCHANGED owner PROVE Phase' = Phase
BY DEF Phase

LEMMA InitMaps == Init => Promise!Init
BY DEF Init, Promise!Init, Running, Phase, Members

LEMMA StepMaps == IInv /\ [Next]_vars => [Promise!Next]_(Promise!vars)
<1> SUFFICES ASSUME IInv, [Next]_vars PROVE Promise!Next \/ UNCHANGED Promise!vars
  OBVIOUS
<1> DEFINE Stays == UNCHANGED Promise!vars
<1>1. ASSUME NEW t \in Tasks, Check(t) \/ Ask(t) \/ CallerGone(t) PROVE Stays
  <2>1. UNCHANGED <<joinset, outcome, owner>>
    BY <1>1 DEF Check, Ask, CallerGone, unit
  <2> QED
    BY <2>1, SameTasks, SamePhase DEF Promise!vars
<1>2. ASSUME NEW t \in Tasks, Register(t) PROVE Promise!Next \/ Stays
  <2>1. UNCHANGED <<outcome, owner>>
    BY <1>2 DEF Register, unit
  <2>2. CASE shutting
    <3>1. UNCHANGED joinset
      BY <1>2, <2>2 DEF Register
    <3> QED
      BY <2>1, <3>1, SameTasks, SamePhase DEF Promise!vars
  <2>3. CASE ~shutting
    <3>1. owner = "away"
      BY <2>3 DEF IInv, Closing
    <3>2. t \notin joinset /\ outcome[t] = "none" /\ joinset' = joinset \cup {t}
      BY <1>2, <2>3 DEF Register, IInv, Registrations
    <3>3. Running' = Running \cup {t} /\ t \notin Running
      BY <2>1, <3>2, OneMore
    <3>4. Phase # "closed" /\ Phase' = Phase
      BY <2>1, <3>1, PhaseFollowsOwner, SamePhase
    <3>5. {t} \in SUBSET (Members \ Running)
      BY <3>3 DEF Members
    <3> QED
      BY <3>3, <3>4, <3>5 DEF Promise!Next, Promise!Register
  <2> QED
    BY <2>2, <2>3
<1>3. ASSUME NEW t \in Running, Ending(t) PROVE Promise!Next
  <2>1. Running' = Running \ {t} /\ Phase' = Phase
    BY <1>3, OneLess, SamePhase DEF Ending
  <2> QED
    BY <2>1 DEF Promise!Next, Promise!Finish
<1>4. ASSUME NEW t \in Tasks, Finish(t) PROVE Promise!Next
  BY <1>3, <1>4, Endings
<1>5. ASSUME NEW t \in Members, Abort(t) PROVE Promise!Next
  BY <1>3, <1>5, Endings
<1>6. CASE ReaperStops
  BY <1>3, <1>6, Endings
<1>7. CASE ReaperTick \/ RecordFailure \/ Cancel
  <2>1. UNCHANGED <<joinset, outcome, owner>>
    BY <1>7 DEF ReaperTick, RecordFailure, Cancel, unit
  <2> QED
    BY <2>1, SameTasks, SamePhase DEF Promise!vars
<1>8. CASE Reap
  <2>1. joinset' = joinset \ (joinset \ Running) /\ UNCHANGED <<outcome, owner>>
    BY <1>8, RunningFinite DEF Reap, unit
  <2> QED
    BY <2>1, NoneLess, SamePhase DEF Promise!vars
<1>9. ASSUME NEW t \in Members, Join(t) PROVE Stays
  <2>1. {t} \in SUBSET (joinset \ Running) /\ joinset' = joinset \ {t} /\ UNCHANGED <<outcome, owner>>
    BY <1>9 DEF Join, unit
  <2> QED
    BY <2>1, NoneLess, SamePhase DEF Promise!vars
<1>10. CASE Shutdown
  <2>1. owner = "away" /\ owner' = "locking" /\ UNCHANGED <<joinset, outcome>>
    BY <1>10 DEF Shutdown, Goes
  <2>2. Phase = "open" /\ Phase' = "draining"
    BY <2>1 DEF Phase
  <2> QED
    BY <2>1, <2>2, SameTasks DEF Promise!Next, Promise!Drain
<1>11. CASE Locked \/ Deadline \/ Relock
  <2>1. UNCHANGED <<joinset, outcome>> /\ Phase' = Phase
    BY <1>11 DEF Locked, Deadline, Relock, Goes, Phase
  <2> QED
    BY <2>1, SameTasks DEF Promise!vars
<1>12. CASE Return
  <2>1. Phase = "draining" /\ Phase' = "closed" /\ joinset = {} /\ UNCHANGED <<joinset, outcome>>
    BY <1>12 DEF Return, Goes, Phase
  <2>2. Running = {}
    BY <2>1 DEF Running
  <2> QED
    BY <2>1, <2>2, SameTasks DEF Promise!Next, Promise!Close
<1>13. CASE UNCHANGED vars
  <2>1. UNCHANGED <<joinset, outcome, owner>>
    BY <1>13 DEF vars
  <2> QED
    BY <2>1, SameTasks, SamePhase DEF Promise!vars
<1>14. CASE \E t \in Tasks : Spawn(t) \/ CallerGone(t) \/ Finish(t)
  BY <1>1, <1>2, <1>4, <1>14, Zenon DEF Spawn
<1>15. CASE Owning
  BY <1>9, <1>11, <1>12, <1>5, <1>15, Zenon DEF Owning
<1>16. CASE Reaping
  BY <1>7, <1>8, <1>6, <1>16, Zenon DEF Reaping
<1> QED
  BY <1>7, <1>10, <1>13, <1>14, <1>15, <1>16, Zenon DEF Next

(* The owner of a runtime may rely on DrainedSet: tasks register only      *)
(* before the drain has returned, it returns once, with none alive.        *)
THEOREM ImplementsDrainedSet == Spec => DrainsOnce
  BY InitMaps, InitIInv, NextIInv, StepMaps, PTL DEF Spec, DrainsOnce, Promise!Safe
=============================================================================

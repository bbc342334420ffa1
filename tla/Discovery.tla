------------------------------ MODULE Discovery ------------------------------
(***************************************************************************)
(* Model discovery (discovery.rs): runs asked for by hand or scheduled by  *)
(* the maintenance loop (maintenance.rs) read the channel, ask the         *)
(* upstream for its catalogue of each protocol, and apply what they saw to *)
(* the tables of Catalog, in one transaction and long after they read it.  *)
(***************************************************************************)
EXTENDS Catalog

CONSTANTS
  Bundled,       \* models of the catalogue bundled with the Command Code client
  MaxRuns,       \* bound: rows of discovery_runs
  MaxRestarts    \* bound: restarts of the process

ASSUME DiscoveryAssumption == Bundled \subseteq Models /\ Bundled # {} /\ MaxRuns \in Nat

VARIABLES
  run,           \* run[r]: where its task is, who asked, its row, the protocols it read
  fresh,         \* a row of the channel is younger than the discovery interval
  discovering,   \* the maintenance loop's entry for the channel: a run or 0
  closing,       \* the supervisor takes no more tasks
  restarts,
  unanswered     \* runs whose row nobody is left to finish

runVars == <<run, fresh, discovering, closing, restarts, unanswered>>
vars == <<catalogVars, runVars>>

Runs == 1..MaxRuns
NoRun == [at |-> "none", by |-> "hand", row |-> "none", ps |-> {}]
Active(r) == run[r].at \in {"queued", "asking", "failing"}

TypeOK ==
  /\ CatalogTypeOK
  /\ run \in [Runs -> [at : {"none", "queued", "asking", "failing", "ended"},
                       by : {"hand", "schedule"},
                       row : {"none", "open", "succeeded", "failed", "deleted"},
                       ps : SUBSET Protocols]]
  /\ fresh \in BOOLEAN /\ closing \in BOOLEAN
  /\ discovering \in {0} \cup Runs /\ restarts \in 0..MaxRestarts /\ unanswered \subseteq Runs

Init ==
  /\ CatalogInit
  /\ run = [r \in Runs |-> NoRun] /\ fresh = FALSE /\ discovering = 0
  /\ closing = FALSE /\ restarts = 0 /\ unanswered = {}

-----------------------------------------------------------------------------
(* queue_with_trigger: the row first, then the task, unless the supervisor *)
(* is shutting down.  A finished task keeps nothing but its row.           *)
Queue(r, by) ==
  /\ run[r] = NoRun /\ \A q \in 1..(r - 1) : run[q] # NoRun
  /\ run' = [run EXCEPT ![r] = [NoRun EXCEPT !.by = by, !.row = "open",
                                             !.at = IF closing THEN "ended" ELSE "queued"]]
  /\ fresh' = TRUE
  /\ unanswered' = IF closing THEN unanswered \cup {r} ELSE unanswered

Ended(r, row) == [run[r] EXCEPT !.at = "ended", !.ps = {}, !.row = IF @ = "open" THEN row ELSE @]
Closes(r, row) == run' = [run EXCEPT ![r] = Ended(r, row)]

(* POST discover.                                                          *)
DiscoverModels ==
  /\ chan.there /\ \E r \in Runs : Queue(r, "hand")
  /\ UNCHANGED <<catalogVars, discovering, closing, restarts>>

(* What fetch_models may bring back, and what discover makes of it: a      *)
(* Command Code catalogue that is empty, or fails other than by 401, is    *)
(* replaced by the bundled one.                                            *)
Replies == [kind : {"listed"}, ms : SUBSET Models]
           \cup [kind : {"unauthorized", "failed"}, ms : {{}}]

Outcome(p, reply) ==
  IF p = CC /\ (reply.kind = "failed" \/ reply = [kind |-> "listed", ms |-> {}])
  THEN [kind |-> "listed", ms |-> Bundled] ELSE reply

(* discover: the protocols configured now, without Command Code when the   *)
(* integration is switched off ...                                         *)
Discovers(r) ==
  /\ run[r].at = "queued" /\ chan.there
  /\ \E ps \in {chan.protocols, chan.protocols \ {CC}} \ {{}} :
       run' = [run EXCEPT ![r].at = "asking", ![r].ps = ps]
  /\ UNCHANGED <<catalogVars, fresh, discovering, closing, restarts, unanswered>>

(* ... each is asked for its catalogue, once per family: the snapshot.     *)
Snapshots(ps) ==
  {[p \in ps |-> Outcome(p, reply[p])] :
     reply \in {q \in [ps -> Replies] : \A p1, p2 \in Family \cap ps : q[p1] = q[p2]}}
Succeeded(snap) == {p \in DOMAIN snap : snap[p].kind = "listed"}
SeenUnder(snap, m) == {p \in Succeeded(snap) : m \in snap[p].ms}

(* Mutant: the task simply ends.                                           *)
FailsSilently(r) ==
  /\ run[r].at \in {"queued", "asking"} /\ Closes(r, "open")
  /\ UNCHANGED <<catalogVars, fresh, discovering, closing, restarts, unanswered>>

(* The channel is gone, by then or when the snapshot is stored, the        *)
(* integration off, the key unreadable, the time for the whole run over,   *)
(* or the database refuses the snapshot.                                   *)
Fails(r) ==
  /\ run[r].at \in {"queued", "asking"}
  /\ run' = [run EXCEPT ![r].at = "failing", ![r].ps = {}]
  /\ UNCHANGED <<catalogVars, fresh, discovering, closing, restarts, unanswered>>

-----------------------------------------------------------------------------
(* apply_discovery, model by model.  The protocols of a Command Code       *)
(* channel without a catalogue of their own mirror those that have one.    *)
Extra(snap) == Bindings(Succeeded(snap)) \ Succeeded(snap)

Applied(snap, m) ==
  LET seen == SeenUnder(snap, m)
      old == IF seen = {} THEN model[m]
             ELSE [source |-> IF There(m) THEN model[m].source ELSE "discovered",
                   available |-> TRUE, bound |-> model[m].bound \cup seen \cup Extra(snap)]
      stale == (old.bound \cap Succeeded(snap)) \ seen
      left == old.bound \ stale
  IN IF old.source # "discovered" THEN old
     ELSE [old EXCEPT !.bound = left,
                      !.available = IF stale # {} \/ left = {} THEN left # {} ELSE @]

(* The catalogue and the end of the run are one transaction: it succeeded  *)
(* when one protocol did.                                                  *)
ApplyDiscovery(r) ==
  /\ run[r].at = "asking"
  /\ \E snap \in Snapshots(run[r].ps) :
       /\ chan.there \/ \A m \in Models : SeenUnder(snap, m) = {}
       /\ model' = [m \in Models |-> Applied(snap, m)]
       /\ Closes(r, IF Succeeded(snap) = {} THEN "failed" ELSE "succeeded")
  /\ UNCHANGED <<chan, routes, cand, caller, fresh, discovering, closing, restarts, unanswered>>

RecordRunFailure(r) ==
  /\ run[r].at = "failing" /\ Closes(r, "failed")
  /\ UNCHANGED <<catalogVars, fresh, discovering, closing, restarts, unanswered>>

(* That write failed too: an error is logged, nothing else.                *)
FailureUnrecorded(r) ==
  /\ run[r].at = "failing" /\ Closes(r, "open") /\ unanswered' = unanswered \cup {r}
  /\ UNCHANGED <<catalogVars, fresh, discovering, closing, restarts>>

-----------------------------------------------------------------------------
(* schedule_discovery: an entry goes when its run's row is finished; a     *)
(* channel that is due and has no entry gets a run and an entry.           *)
Finished(r) == run[r].row \in {"succeeded", "failed"}
(* Mutant: the task is gone, whatever became of its row.                  *)
BusyByTask == discovering # 0 /\ run[discovering].at = "queued"

Busy == discovering # 0 /\ ~Finished(discovering)
Due == chan.there /\ ~fresh

ScheduleDiscovery ==
  /\ ~closing
  /\ IF Due /\ ~Busy
     THEN \E r \in Runs : Queue(r, "schedule") /\ discovering' = r
     ELSE discovering' = (IF Busy THEN discovering ELSE 0) /\ UNCHANGED <<run, fresh, unanswered>>
  /\ UNCHANGED <<catalogVars, closing, restarts>>

(* Hours pass: every row of the channel is older than the interval ...     *)
Passes ==
  /\ fresh /\ fresh' = FALSE
  /\ UNCHANGED <<catalogVars, run, discovering, closing, restarts, unanswered>>

(* ... or days: cleanup_logs deletes the rows of runs long over.           *)
CleanupLogs ==
  /\ ~closing /\ ~fresh
  /\ \E n \in Runs :
       /\ \A r \in 1..n : run[r].at = "ended"
       /\ run' = [r \in Runs |-> IF r \in 1..n THEN [run[r] EXCEPT !.row = "deleted"] ELSE run[r]]
  /\ UNCHANGED <<catalogVars, fresh, discovering, closing, restarts, unanswered>>

(* The runs of a channel go with it.                                       *)
ChannelGone ==
  /\ DeleteChannel
  /\ run' = [r \in Runs |-> IF run[r] = NoRun THEN NoRun ELSE [run[r] EXCEPT !.row = "deleted"]]
  /\ UNCHANGED <<fresh, discovering, closing, restarts, unanswered>>

(* Shutdown begins, and ends with the process; so does a crash.            *)
Close ==
  /\ ~closing /\ restarts < MaxRestarts /\ closing' = TRUE
  /\ UNCHANGED <<catalogVars, run, fresh, discovering, restarts, unanswered>>

Restart ==
  /\ restarts < MaxRestarts /\ restarts' = restarts + 1
  /\ closing' = FALSE /\ discovering' = 0
  /\ run' = [r \in Runs |-> IF Active(r) THEN Ended(r, "open") ELSE run[r]]
  /\ unanswered' = unanswered \cup {r \in Runs : Active(r)}
  /\ caller' = [u \in Callers |-> NoCall]
  /\ UNCHANGED <<tables, fresh>>

-----------------------------------------------------------------------------
TaskStep(r) ==
  Discovers(r) \/ Fails(r) \/ ApplyDiscovery(r) \/ RecordRunFailure(r)
  \/ FailureUnrecorded(r)

Next ==
  \/ CatalogStep /\ UNCHANGED runVars
  \/ \E r \in Runs : TaskStep(r)
  \/ DiscoverModels \/ ScheduleDiscovery \/ Passes \/ CleanupLogs
  \/ ChannelGone \/ Close \/ Restart

Spec == Init /\ [][Next]_vars
FairSpec == Spec /\ \A r \in Runs : WF_vars(TaskStep(r))

-----------------------------------------------------------------------------
(* A new candidate can serve the protocol of its route, though what its    *)
(* model is bound to was checked before the transaction that writes it     *)
(* (admin/routes.rs:246-345).                                              *)
NewCandidateIsBound == [][\A c \in cand' \ cand : Bound(c)']_vars

(* What a route needs, only a run of discovery takes away: no edit of the  *)
(* channel, the model or the provider unbinds a candidate it leaves in     *)
(* place (admin/channels.rs:405-441, admin/models.rs:190-217).             *)
OnlyDiscoveryUnbinds ==
  [][\A c \in cand \cap cand' : Bound(c) /\ ~Bound(c)' => \E r \in Runs : ApplyDiscovery(r)]_vars

(* The maintenance loop has at most one run of a channel under way, however*)
(* long the run takes and whatever is asked by hand (maintenance.rs:211).  *)
ScheduledOnce ==
  \A r \in Runs, q \in Runs :
    Active(r) /\ Active(q) /\ run[r].by = "schedule" /\ run[q].by = "schedule" => r = q

(* A run the page waits for gets its end, unless the process was ending    *)
(* or both of its writes failed (discovery.rs:166-169).                    *)
RunIsAnswered ==
  \A r \in Runs : run[r].row = "open" ~> run[r].row # "open" \/ r \in unanswered


=============================================================================

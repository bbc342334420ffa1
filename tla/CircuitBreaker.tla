--------------------------- MODULE CircuitBreaker ---------------------------
(***************************************************************************)
(* The circuit breaker of a channel: the table channel_health, everybody   *)
(* who writes it and everybody who reads it.                               *)
(*                                                                         *)
(*   - requests resolve their candidates from the table once, then report  *)
(*     outcomes through the bounded telemetry queue (proxy/, telemetry.rs);*)
(*   - the single telemetry writer applies those outcomes later;           *)
(*   - a Command Code request that meets a quota error writes the table    *)
(*     directly and reports the failure afterwards (proxy/service.rs);     *)
(*   - the health supervisor and the manual probe ask the upstream, then   *)
(*     commit their verdict (health.rs);                                   *)
(*   - the administrator creates, enables, disables, resets and deletes.   *)
(*                                                                         *)
(* disabled_until is kept as the time that is left until it: Null for SQL  *)
(* NULL, 0 for a moment that has passed.  consecutive_failures saturates   *)
(* at Threshold, the only value the code compares it with.                 *)
(***************************************************************************)
EXTENDS Integers, Sequences, FiniteSets

CONSTANTS
  Channels,      \* channel ids, never reused (UUIDs)
  CommandCode,   \* the channels of Command Code providers
  Sound,         \* the channels with nothing wrong with any protocol of theirs
  Requests,      \* request slots
  Probes,        \* probe task slots, shared by supervisor and manual probes
  Priority,      \* [Channels -> Nat], the route's order of candidates
  Threshold,     \* failure_threshold
  OpenTicks,     \* circuit_open_seconds
  QuotaTicks,    \* the longest quota window an upstream announces
  QueueBound     \* health events in the telemetry queue

ASSUME ThresholdAssumption == Threshold \in Nat \ {0}
ASSUME TicksAssumption == OpenTicks \in Nat \ {0} /\ QuotaTicks \in Nat
ASSUME QueueAssumption == QueueBound \in Nat
ASSUME ChannelsAssumption == CommandCode \subseteq Channels /\ Sound \subseteq Channels
ASSUME PriorityAssumption ==   \* UNIQUE(route_id, priority)
  /\ Priority \in [Channels -> Nat]
  /\ \A c, d \in Channels : Priority[c] = Priority[d] => c = d

VARIABLES
  health,   \* the rows of channel_health, one per channel
  enabled,  \* channels.manual_enabled
  up,       \* environment: is every protocol of the channel well (its upstream
            \* answers, it has a model to probe, its integration is not disabled)?
  req,      \* the requests in flight
  queue,    \* the health events in the telemetry queue
  due,      \* the supervisor's query result, not yet walked through
  probing,  \* the supervisor's in-flight set
  probe     \* the probe tasks

vars == <<health, enabled, up, req, queue, due, probing, probe>>

-----------------------------------------------------------------------------
Null == -1   \* SQL NULL, or no reset time in an error body
Past == -2   \* a reset time that lies behind

(* A row that does not exist (yet, or any more) has a state of its own.    *)
States == {"absent", "active", "open", "deleted"}
Kinds  == {"none", "quota_exhausted", "other"}
Row    == [state : States, failures : 0..Threshold, until : {Null} \cup Nat, kind : Kinds]

Event  == [type : {"ChannelSuccess", "ChannelFailure"},
           ch : Channels, countable : BOOLEAN]

Exists(c) == health[c].state \in {"active", "open"}

(* Candidate resolution: only an enabled channel in state active.          *)
Routable(c) == health[c].state = "active" /\ enabled[c]

Earlier(x, y) == IF x < y THEN x ELSE y

(* The new row each HealthEvent writes.                                    *)
Cleared == [state |-> "active", failures |-> 0, until |-> Null, kind |-> "none"]

(* Mutant: off by one, the threshold itself does not open the channel.     *)
RequestFailedLate(h) ==
  IF h.failures + 1 > Threshold
  THEN [h EXCEPT !.state = "open", !.until = OpenTicks, !.kind = "other"]
  ELSE [h EXCEPT !.failures = @ + 1, !.kind = "other"]

RequestFailed(h) ==
  IF h.failures + 1 >= Threshold
  THEN [state |-> "open", failures |-> Threshold, until |-> OpenTicks, kind |-> "other"]
  ELSE [state |-> h.state, failures |-> h.failures + 1, until |-> h.until,
        kind |-> "other"]

ProbeFailed(h) ==
  [state |-> "open", failures |-> Earlier(h.failures + 1, Threshold),
   until |-> OpenTicks, kind |-> "other"]

(* The reset time found in the error body, if it has one and it is ahead.  *)
QuotaUntil(reset) == IF reset > 0 THEN reset ELSE OpenTicks

(* Mutant: the cooldown is opened without a deadline.                      *)
QuotaExhaustedBare(h, reset) == [h EXCEPT !.state = "open", !.kind = "quota_exhausted"]

QuotaExhausted(h, reset) ==
  [state |-> "open", failures |-> h.failures, until |-> QuotaUntil(reset),
   kind |-> "quota_exhausted"]

(* The row after an outcome that a request reported.                       *)
(* Mutant: failures that are not countable are counted.                    *)
OutcomeCountsAll(e, h) ==
  IF e.type = "ChannelSuccess" THEN Cleared ELSE RequestFailed(h)

Outcome(e, h) ==
  IF e.type = "ChannelSuccess" THEN Cleared
  ELSE IF e.countable THEN RequestFailed(h) ELSE h

(* apply_health_event is an UPDATE: it finds no row of a deleted channel.  *)
Update(c, row) ==
  health' = IF Exists(c) THEN [health EXCEPT ![c] = row] ELSE health

(* try_send: a full queue drops the event.  The queue is shared with the   *)
(* request and attempt events, so it may be full whatever number of health *)
(* events is in it.                                                        *)
Emit(type, c, countable) ==
  \/ /\ Len(queue) < QueueBound
     /\ queue' = Append(queue, [type |-> type, ch |-> c, countable |-> countable])
  \/ UNCHANGED queue

Absent == [state |-> "absent", failures |-> 0, until |-> Null, kind |-> "none"]
Gone   == [state |-> "deleted", failures |-> 0, until |-> Null, kind |-> "none"]
Idle == [phase |-> "idle", left |-> {}, countable |-> FALSE]
NoProbe == [at |-> "idle", origin |-> "none", ch |-> Null]

Init ==
  /\ health = [c \in Channels |-> Absent]
  /\ enabled = [c \in Channels |-> FALSE]
  /\ up = [c \in Channels |-> TRUE]
  /\ req = [r \in Requests |-> Idle]
  /\ queue = <<>>
  /\ due = {}
  /\ probing = {}
  /\ probe = [p \in Probes |-> NoProbe]

-----------------------------------------------------------------------------
(* The administrator.                                                      *)

(* insert_channel seeds the health row in the channel's own transaction.   *)
CreateChannel(c) ==
  /\ health[c].state = "absent"
  /\ health' = [health EXCEPT ![c] = Cleared]
  /\ \E e \in BOOLEAN : enabled' = [enabled EXCEPT ![c] = e]
  /\ UNCHANGED <<up, req, queue, due, probing, probe>>

SetEnabled(c) ==
  /\ Exists(c)
  /\ enabled' = [enabled EXCEPT ![c] = ~@]
  /\ UNCHANGED <<health, up, req, queue, due, probing, probe>>

(* The health row goes with the channel (ON DELETE CASCADE).               *)
DeleteChannel(c) ==
  /\ Exists(c)
  /\ health' = [health EXCEPT ![c] = Gone]
  /\ enabled' = [enabled EXCEPT ![c] = FALSE]
  /\ UNCHANGED <<up, req, queue, due, probing, probe>>

ResetHealth(c) ==
  /\ Exists(c)
  /\ Update(c, Cleared)
  /\ UNCHANGED <<enabled, up, req, queue, due, probing, probe>>

-----------------------------------------------------------------------------
(* Requests.                                                               *)

(* The candidates are read once; the list is not looked up again.          *)
ResolveCandidates(r) ==
  /\ req[r].phase = "idle"
  /\ \E c \in Channels : Routable(c)
  /\ req' = [req EXCEPT ![r] =
               [phase |-> "sending", left |-> {c \in Channels : Routable(c)},
                countable |-> FALSE]]
  /\ UNCHANGED <<health, enabled, up, queue, due, probing, probe>>

(* The candidate being tried: the first of those left.                     *)
Trying(r, c) ==
  /\ c \in req[r].left
  /\ \A d \in req[r].left : Priority[c] <= Priority[d]

(* Give up on a candidate: go on with the next one, or answer the client.  *)
GiveUp(r, c) ==
  LET rest == req[r].left \ {c}
  IN req' = [req EXCEPT ![r] =
               IF rest = {} THEN Idle
               ELSE [phase |-> "sending", left |-> rest, countable |-> FALSE]]

(* One protocol of the channel may answer while another one does not.      *)
AttemptSucceeds(r, c) ==
  /\ req[r].phase = "sending"
  /\ Trying(r, c)
  /\ req' = [req EXCEPT ![r] = Idle]
  /\ Emit("ChannelSuccess", c, FALSE)
  /\ UNCHANGED <<health, enabled, up, due, probing, probe>>

(* 401, 403, 408, 429, 5xx and transport failures count; the other 4xx are *)
(* the request's own fault and may come from a healthy upstream.           *)
AttemptFails(r, c) ==
  /\ req[r].phase = "sending"
  /\ Trying(r, c)
  /\ \E countable \in BOOLEAN :
       /\ countable => ~up[c]
       /\ Emit("ChannelFailure", c, countable)
  /\ GiveUp(r, c)
  /\ UNCHANGED <<health, enabled, up, due, probing, probe>>

(* handle_upstream_error on 402 or 429 from Command Code: the cooldown is  *)
(* written at once, and the request still has its failure to report (429   *)
(* counts, 402 does not).                                                  *)
MarkQuotaExhausted(r, c) ==
  /\ req[r].phase = "sending"
  /\ Trying(r, c)
  /\ c \in CommandCode
  /\ \E reset \in {Null, Past} \cup 1..QuotaTicks :
       Update(c, QuotaExhausted(health[c], reset))
  /\ \E countable \in BOOLEAN :
       req' = [req EXCEPT ![r].phase = "marked", ![r].countable = countable]
  /\ UNCHANGED <<enabled, up, queue, due, probing, probe>>

ReportQuotaFailure(r, c) ==
  /\ req[r].phase = "marked"
  /\ Trying(r, c)
  /\ Emit("ChannelFailure", c, req[r].countable)
  /\ GiveUp(r, c)
  /\ UNCHANGED <<health, enabled, up, due, probing, probe>>

(* A client that goes away says nothing about the channel.                 *)
ClientGone(r) ==
  /\ req[r].phase # "idle"
  /\ req' = [req EXCEPT ![r] = Idle]
  /\ UNCHANGED <<health, enabled, up, queue, due, probing, probe>>

-----------------------------------------------------------------------------
(* The telemetry writer.                                                   *)

WriteEvent ==
  /\ queue # <<>>
  /\ queue' = Tail(queue)
  /\ LET e == Head(queue) IN Update(e.ch, Outcome(e, health[e.ch]))
  /\ UNCHANGED <<enabled, up, req, due, probing, probe>>

(* A database error loses the event (counted as dropped).                  *)
WriteFails ==
  /\ queue # <<>>
  /\ queue' = Tail(queue)
  /\ UNCHANGED <<health, enabled, up, req, due, probing, probe>>

-----------------------------------------------------------------------------
(* Probes.                                                                 *)

Due(c) == health[c].state = "open" /\ enabled[c] /\ health[c].until = 0

SupervisorQuery ==
  /\ due = {}
  /\ \E c \in Channels : Due(c)
  /\ due' = {c \in Channels : Due(c)}
  /\ UNCHANGED <<health, enabled, up, req, queue, probing, probe>>

(* The in-flight set keeps the supervisor from probing a channel twice.    *)
SupervisorSkip(c) ==
  /\ c \in due
  /\ c \in probing
  /\ due' = due \ {c}
  /\ UNCHANGED <<health, enabled, up, req, queue, probing, probe>>

(* Mutant: the supervisor does not look at the set before it spawns.       *)
SupervisorSpawnUnchecked(c) ==
  /\ c \in due
  /\ due' = due \ {c}
  /\ probing' = probing \cup {c}
  /\ \E p \in Probes :
       /\ probe[p].at = "idle"
       /\ probe' = [probe EXCEPT ![p] =
                      [at |-> "sending", origin |-> "supervisor", ch |-> c]]
  /\ UNCHANGED <<health, enabled, up, req, queue>>

SupervisorSpawn(c) ==
  /\ c \in due
  /\ c \notin probing
  /\ due' = due \ {c}
  /\ probing' = probing \cup {c}
  /\ \E p \in Probes :
       /\ probe[p].at = "idle"
       /\ probe' = [probe EXCEPT ![p] =
                      [at |-> "sending", origin |-> "supervisor", ch |-> c]]
  /\ UNCHANGED <<health, enabled, up, req, queue>>

(* POST /channels/{id}/probe: no look at the in-flight set.                *)
ManualProbe(c) ==
  /\ Exists(c)
  /\ \E p \in Probes :
       /\ probe[p].at = "idle"
       /\ probe' = [probe EXCEPT ![p] =
                      [at |-> "sending", origin |-> "manual", ch |-> c]]
  /\ UNCHANGED <<health, enabled, up, req, queue, due, probing>>

(* The network phase ends with a verdict: every protocol has to be well.   *)
ProbeAnswered(p) ==
  /\ probe[p].at = "sending"
  /\ probe' = [probe EXCEPT ![p].at = IF up[probe[p].ch] THEN "ok" ELSE "bad"]
  /\ UNCHANGED <<health, enabled, up, req, queue, due, probing>>

(* The task is over; its ProbeGuard takes the channel out of the set.      *)
ProbeOver(p) ==
  /\ probe' = [probe EXCEPT ![p] = NoProbe]
  /\ probing' = IF probe[p].origin = "supervisor"
                THEN probing \ {probe[p].ch} ELSE probing

(* Mutant: a good verdict is logged, but not applied to the row.           *)
ProbeCommitFailuresOnly(p) ==
  /\ probe[p].at \in {"ok", "bad"}
  /\ IF probe[p].at = "bad"
     THEN Update(probe[p].ch, ProbeFailed(health[probe[p].ch]))
     ELSE UNCHANGED health
  /\ ProbeOver(p)
  /\ UNCHANGED <<enabled, up, req, queue, due>>

(* The verdict is committed in one transaction, whatever has happened to   *)
(* the row since the probe was started.                                    *)
ProbeCommit(p) ==
  /\ probe[p].at \in {"ok", "bad"}
  /\ LET c == probe[p].ch
     IN Update(c, IF probe[p].at = "ok" THEN Cleared ELSE ProbeFailed(health[c]))
  /\ ProbeOver(p)
  /\ UNCHANGED <<enabled, up, req, queue, due>>

(* Mutant: the set is cleaned at the end of the task body only.            *)
ProbeErrorLeaks(p) ==
  /\ probe[p].at # "idle"
  /\ probe' = [probe EXCEPT ![p] = NoProbe]
  /\ UNCHANGED <<health, enabled, up, req, queue, due, probing>>

(* An early error (the channel is gone, its key does not decrypt, the      *)
(* database fails) ends the probe without a verdict.                       *)
ProbeError(p) ==
  /\ probe[p].at # "idle"
  /\ ProbeOver(p)
  /\ UNCHANGED <<health, enabled, up, req, queue, due>>

-----------------------------------------------------------------------------
(* The environment.                                                        *)

Elapsed(h) == [h EXCEPT !.until = IF @ > 0 THEN @ - 1 ELSE @]

Tick ==
  /\ \E c \in Channels : health[c].until > 0
  /\ health' = [c \in Channels |-> Elapsed(health[c])]
  /\ UNCHANGED <<enabled, up, req, queue, due, probing, probe>>

UpstreamTurns(c) ==
  /\ c \notin Sound
  /\ up' = [up EXCEPT ![c] = ~@]
  /\ UNCHANGED <<health, enabled, req, queue, due, probing, probe>>

(* The process dies and starts again: only the database is left.           *)
Restart ==
  /\ req' = [r \in Requests |-> Idle]
  /\ queue' = <<>>
  /\ due' = {}
  /\ probing' = {}
  /\ probe' = [p \in Probes |-> NoProbe]
  /\ UNCHANGED <<health, enabled, up>>

Admin(c) ==
  CreateChannel(c) \/ SetEnabled(c) \/ DeleteChannel(c) \/ ResetHealth(c) \/ ManualProbe(c)

Attempt(r, c) ==
  \/ AttemptSucceeds(r, c) \/ AttemptFails(r, c)
  \/ MarkQuotaExhausted(r, c) \/ ReportQuotaFailure(r, c)

Next ==
  \/ \E c \in Channels :
       \/ Admin(c)
       \/ SupervisorSkip(c) \/ SupervisorSpawn(c)
       \/ UpstreamTurns(c)
  \/ \E r \in Requests : ResolveCandidates(r) \/ ClientGone(r)
  \/ \E r \in Requests, c \in Channels : Attempt(r, c)
  \/ \E p \in Probes : ProbeAnswered(p) \/ ProbeCommit(p) \/ ProbeError(p)
  \/ WriteEvent \/ WriteFails \/ SupervisorQuery \/ Tick \/ Restart

Spec == Init /\ [][Next]_vars

(***************************************************************************)
(* Fairness.  Time passes and the background loops run (interval.tick,     *)
(* rx.recv): weak fairness.  A probe ends within probe_timeout, but a      *)
(* restart or a database error can end any one of them early: strong       *)
(* fairness says that they do not strike every time.  Nothing is assumed   *)
(* of clients, of the administrator or of the upstreams.                   *)
(***************************************************************************)
Fairness ==
  /\ WF_vars(Tick)
  /\ WF_vars(WriteEvent)
  /\ SF_vars(SupervisorQuery)
  /\ \A c \in Channels : SF_vars(SupervisorSpawn(c)) /\ SF_vars(SupervisorSkip(c))
  /\ \A p \in Probes : SF_vars(ProbeAnswered(p)) /\ SF_vars(ProbeCommit(p))

FairSpec == Spec /\ Fairness

-----------------------------------------------------------------------------
(* Properties.                                                             *)

ProbeTask == [at : {"idle", "sending", "ok", "bad"},
              origin : {"none", "supervisor", "manual"},
              ch : Channels \cup {Null}]

(* Type correctness of the table, the requests, the queue and the probes.  *)
TypeOK ==
  /\ health \in [Channels -> Row]
  /\ enabled \in [Channels -> BOOLEAN]
  /\ up \in [Channels -> BOOLEAN]
  /\ req \in [Requests -> [phase : {"idle", "sending", "marked"},
                           left : SUBSET Channels, countable : BOOLEAN]]
  /\ queue \in Seq(Event)
  /\ due \subseteq Channels
  /\ probing \subseteq Channels
  /\ probe \in [Probes -> ProbeTask]

(* An open channel has a disabled_until: the supervisor's query looks only *)
(* at rows where it IS NOT NULL, so an open row without one would be out   *)
(* of rotation until somebody resets it by hand (run_supervisor).          *)
OpenHasDeadline ==
  \A c \in Channels : health[c].state = "open" => health[c].until \in Nat

(* A channel in rotation is below the threshold and carries no cooldown,   *)
(* whatever late outcomes, probes and quota marks were applied to its row, *)
(* so that the next threshold-reaching failure is always the one to open it.*)
ActiveBelowThreshold ==
  \A c \in Channels : health[c].state = "active" =>
    health[c].failures < Threshold /\ health[c].until = Null

(* The supervisor's in-flight set names exactly the channels its own tasks *)
(* are probing, one task per channel: nothing is probed twice and nothing  *)
(* is left behind in the set by a task that failed (health.rs, ProbeGuard).*)
Supervises(p, c) == probe[p].origin = "supervisor" /\ probe[p].ch = c

InFlightSetExact ==
  \A c \in Channels :
    /\ c \in probing <=> \E p \in Probes : Supervises(p, c)
    /\ \A p, q \in Probes : Supervises(p, c) /\ Supervises(q, c) => p = q

(* Requests that are wrong in themselves, clients that go away and probes  *)
(* never take a channel with a healthy upstream out of rotation (the       *)
(* classification of docs/requirements.md 3.5).                            *)
SoundNeverOpens ==
  \A c \in Sound \ CommandCode : health[c].state # "open"

(* An open channel is not forgotten: it is probed (by anyone), or it stops *)
(* being open, or it is disabled.                                          *)
OpenIsProbed ==
  \A c \in Channels :
    (health[c].state = "open" /\ enabled[c])
      ~> (\/ \E p \in Probes : probe[p].ch = c
          \/ health[c].state # "open"
          \/ ~enabled[c])

(* A channel that stays enabled, and whose upstream is well again for good,*)
(* is put back into rotation and stays there.                              *)
HealthyRecovers ==
  \A c \in Channels \ CommandCode :
    <>[](up[c] /\ enabled[c]) => <>[](health[c].state = "active")


=============================================================================

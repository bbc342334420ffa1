----------------------------- MODULE RequestLog -----------------------------
(***************************************************************************)
(* The request log: the events a request sends (telemetry.rs, emit), the   *)
(* bounded channel they go through, the writer that turns them into rows   *)
(* of request_logs, request_attempts and token_usage, and whoever else     *)
(* touches those rows: the sweep of requests stuck in 'pending', the       *)
(* retention clean-up, the clearing of the log and the deletion of a       *)
(* channel.  ProxyRequest adds the requests themselves.                    *)
(***************************************************************************)
EXTENDS Integers, Sequences, FiniteSets, SequencesExt

CONSTANTS
  Requests, Channels,
  NoChannel,   \* NULL in a column that names a channel
  Capacity     \* bound: room in the event channel (1000 in server.rs:43)

ASSUME NoChannelAssumption == NoChannel \notin Channels
ASSUME CapacityAssumption == Capacity \in Nat \ {0}

VARIABLES
  out,        \* out[r]: the events request r is about to send, one by one
  queue,      \* the event channel
  lost,       \* the requests an event of which, or half a repair, never became a row
  log,        \* request_logs
  attempts,   \* request_attempts
  usage,      \* token_usage, by request and attempt number
  channels,   \* the channels that exist
  aged,       \* the requests that began before the sweep's cutoff
  picked,     \* the requests the sweep has selected and not yet updated
  repair      \* repair[r]: what the repair at start-up still has to do for r

logVars == <<out, queue, lost, log, attempts, usage, channels, aged, picked, repair>>

-----------------------------------------------------------------------------
NoStatus == 0   \* NULL in a column that holds a status code

Start(r) == [type |-> "start", req |-> r]
Health(r) == [type |-> "health", req |-> r]
Attempt(r, n, c, o, s, b) ==
  [type |-> "attempt", req |-> r, no |-> n, channel |-> c,
   outcome |-> o, status |-> s, started |-> b]
Finish(r, o, s, n, c) ==
  [type |-> "finish", req |-> r, outcome |-> o, status |-> s, attempts |-> n, channel |-> c]

Row(o, s, n, c) == [outcome |-> o, status |-> s, attempts |-> n, channel |-> c]
Absent  == Row("absent", NoStatus, 0, NoChannel)
Pending == Row("pending", NoStatus, 0, NoChannel)
IsLogged(r) == log[r] # Absent

LogInit ==
  /\ out = [r \in Requests |-> <<>>] /\ queue = <<>> /\ lost = {}
  /\ log = [r \in Requests |-> Absent] /\ attempts = {} /\ usage = {}
  /\ channels = Channels
  /\ aged = {} /\ picked = {} /\ repair = [r \in Requests |-> "none"]

-----------------------------------------------------------------------------
(* The circuit breaker's own events take room here; what becomes of them   *)
(* is CircuitBreaker's.                                                    *)
LosesRow(e) == IF e.type = "health" THEN {} ELSE {e.req}

(* emit: try_send, and an event that finds the channel full is dropped.    *)
Emit(r) ==
  /\ out[r] # <<>>
  /\ out' = [out EXCEPT ![r] = Tail(@)]
  /\ IF Len(queue) < Capacity
     THEN queue' = Append(queue, Head(out[r])) /\ UNCHANGED lost
     ELSE lost' = lost \cup LosesRow(Head(out[r])) /\ UNCHANGED queue
  /\ UNCHANGED <<log, attempts, usage, channels, aged, picked, repair>>

(* The writer takes the next event.                                        *)
Receive(t) == queue # <<>> /\ Head(queue).type = t /\ queue' = Tail(queue)
Event == Head(queue)

WriteStart ==
  /\ Receive("start")
  /\ log' = [log EXCEPT ![Event.req] = Pending]
  /\ UNCHANGED <<out, lost, attempts, usage, channels, aged, picked, repair>>

WriteHealth ==
  /\ Receive("health")
  /\ UNCHANGED <<out, lost, log, attempts, usage, channels, aged, picked, repair>>

(* The row refers to its request and its channel, and both must exist; the *)
(* usage is written in the same transaction.                               *)
WriteAttempt ==
  /\ Receive("attempt")
  /\ IF IsLogged(Event.req) /\ Event.channel \in channels
     THEN /\ attempts' = attempts \cup {Event}
          /\ usage' = IF Event.started THEN usage \cup {<<Event.req, Event.no>>} ELSE usage
          /\ UNCHANGED lost
     ELSE lost' = lost \cup {Event.req} /\ UNCHANGED <<attempts, usage>>
  /\ UNCHANGED <<out, log, channels, aged, picked, repair>>

Finished == Row(Event.outcome, Event.status, Event.attempts, Event.channel)

(* An UPDATE: without a row there is nothing to do.                        *)
WriteFinish ==
  /\ Receive("finish")
  /\ IF ~IsLogged(Event.req)
     THEN UNCHANGED <<log, lost>>
     ELSE IF Event.channel \in channels \cup {NoChannel}
     THEN log' = [log EXCEPT ![Event.req] = Finished] /\ UNCHANGED lost
     ELSE lost' = lost \cup {Event.req} /\ UNCHANGED log
  /\ UNCHANGED <<out, attempts, usage, channels, aged, picked, repair>>

(* The statement fails: a busy or a broken database.                       *)
WriteFails ==
  /\ queue # <<>> /\ queue' = Tail(queue)
  /\ lost' = lost \cup LosesRow(Event)
  /\ UNCHANGED <<out, log, attempts, usage, channels, aged, picked, repair>>

Writer == WriteStart \/ WriteHealth \/ WriteAttempt \/ WriteFinish \/ WriteFails

-----------------------------------------------------------------------------
(* reconcile_completed_stream_cancellations, which the maintenance loop    *)
(* awaits before its first round: of the requests that a start finds       *)
(* cancelled with a 200 ...                                                *)
Repaired == \A r \in Requests : repair[r] = "none"
Repairs(r, from, to) == repair[r] = from /\ repair' = [repair EXCEPT ![r] = to]

RepairSelect ==
  /\ \E r \in Requests : repair[r] = "due"
  /\ repair' = [r \in Requests |->
       IF log[r].outcome = "cancelled" /\ log[r].status = 200 THEN "listed" ELSE "none"]
  /\ UNCHANGED <<out, queue, lost, log, attempts, usage, channels, aged, picked>>

(* ... those become successes whose last attempt had all of its usage      *)
(* recorded (not every one had), first the row of the request ...          *)
LastCut(r) ==
  {a \in attempts : /\ a.req = r /\ a.outcome = "cancelled" /\ a.status = 200 /\ a.started
                    /\ \A b \in attempts : b.req = r => b.no <= a.no}

RepairRow(r) ==
  /\ LastCut(r) # {} /\ Repairs(r, "listed", "half")
  /\ log' = IF IsLogged(r) THEN [log EXCEPT ![r].outcome = "success"] ELSE log
  /\ UNCHANGED <<out, queue, lost, attempts, usage, channels, aged, picked>>

RepairPasses(r) ==
  /\ Repairs(r, "listed", "none")
  /\ UNCHANGED <<out, queue, lost, log, attempts, usage, channels, aged, picked>>

(* ... then that of its last attempt.                                      *)
RepairAttempt(r) ==
  /\ Repairs(r, "half", "none")
  /\ attempts' = {IF a \in LastCut(r) THEN [a EXCEPT !.outcome = "success"] ELSE a : a \in attempts}
  /\ UNCHANGED <<out, queue, lost, log, usage, channels, aged, picked>>

(* A statement fails, and with it the rest of the repair: what is half     *)
(* repaired then is not found again by the next start.                     *)
Half == {r \in Requests : repair[r] = "half"}
RepairFails ==
  /\ ~Repaired /\ repair' = [r \in Requests |-> "none"] /\ lost' = lost \cup Half
  /\ UNCHANGED <<out, queue, log, attempts, usage, channels, aged, picked>>

Repair == RepairSelect \/ RepairFails
          \/ \E r \in Requests : RepairRow(r) \/ RepairPasses(r) \/ RepairAttempt(r)

-----------------------------------------------------------------------------
(* Mutant: only requests with an attempt on record are swept.              *)
StaleAttempted(r) == log[r].outcome = "pending" /\ r \in aged /\ log[r].attempts > 0

Stale(r) == log[r].outcome = "pending" /\ r \in aged

(* finalize_stale_pending_requests: one SELECT, then an UPDATE per request *)
(* that looks at the id alone.                                             *)
StaleSelect ==
  /\ Repaired /\ picked = {} /\ picked' = {r \in Requests : Stale(r)}
  /\ UNCHANGED <<out, queue, lost, log, attempts, usage, channels, aged, repair>>

StaleUpdate(r) ==
  /\ r \in picked /\ picked' = picked \ {r}
  /\ log' = IF IsLogged(r) THEN [log EXCEPT ![r].outcome = "cancelled"] ELSE log
  /\ UNCHANGED <<out, queue, lost, attempts, usage, channels, aged, repair>>

Forget(S) ==
  /\ log' = [r \in Requests |-> IF r \in S THEN Absent ELSE log[r]]
  /\ attempts' = {a \in attempts : a.req \notin S}
  /\ UNCHANGED <<out, queue, lost, usage, channels, aged, picked, repair>>

(* clear_logs, and cleanup_logs of what is older than the retention time   *)
(* (a day at least, and the sweep's limit some minutes).                   *)
ClearLogs == Forget(Requests)
CleanupLogs == Repaired /\ \E S \in SUBSET aged : Forget(S)

(* ON DELETE SET NULL.                                                     *)
DeleteChannel(c) ==
  /\ c \in channels /\ channels' = channels \ {c}
  /\ log' = [r \in Requests |->
               IF log[r].channel = c THEN [log[r] EXCEPT !.channel = NoChannel] ELSE log[r]]
  /\ attempts' = {IF a.channel = c THEN [a EXCEPT !.channel = NoChannel] ELSE a : a \in attempts}
  /\ UNCHANGED <<out, queue, lost, usage, aged, picked, repair>>

(* Time passes.                                                            *)
Older(r) ==
  /\ IsLogged(r) /\ r \notin aged
  /\ aged' = aged \cup {r}
  /\ UNCHANGED <<out, queue, lost, log, attempts, usage, channels, picked, repair>>

Keeper == \/ StaleSelect \/ ClearLogs \/ CleanupLogs
          \/ \E r \in Requests : StaleUpdate(r) \/ Older(r)
          \/ \E c \in Channels : DeleteChannel(c)

-----------------------------------------------------------------------------
(* The process dies: what was not written is lost, the tables remain.      *)
Restart ==
  /\ lost' = lost \cup {r \in Requests :
                          \/ out[r] # <<>>
                          \/ \E i \in 1..Len(queue) : queue[i].req = r} \cup Half
  /\ repair' = [r \in Requests |-> "due"]
  /\ out' = [r \in Requests |-> <<>>] /\ queue' = <<>> /\ picked' = {}
  /\ UNCHANGED <<log, attempts, usage, channels, aged>>

(* Everything request r has sent is in the tables, and its repair is not   *)
(* half done.                                                              *)
Settled(r) ==
  /\ out[r] = <<>> /\ r \notin lost /\ IsLogged(r) /\ repair[r] # "half"
  /\ \A i \in 1..Len(queue) : queue[i].req # r
=============================================================================

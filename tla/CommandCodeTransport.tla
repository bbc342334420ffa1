------------------------ MODULE CommandCodeTransport ------------------------
(***************************************************************************)
(* How a request reaches a Command Code account (proxy/commandcode.rs and  *)
(* commandcode.rs): the official Provider API first, the path of the CLI   *)
(* for an account the server itself refuses, with the client initialised   *)
(* and a permit of the channel's semaphore held as long as the body.  One  *)
(* channel: all that is kept, is kept by channel.                          *)
(***************************************************************************)
EXTENDS Integers, Sequences, FiniteSets

CONSTANTS
  Requests,
  Capacities,    \* values of command_code_max_concurrency
  MaxChanges     \* bound: changes of that setting, of the account's plan, of time passing

ASSUME TransportAssumption == Capacities \subseteq Nat \ {0} /\ MaxChanges \in Nat

VARIABLES
  plan,       \* external: whether the account may use the Provider API
  recorded,   \* external: what the account was told since the last expiry
  known,      \* setting command_code_transport
  inited,     \* setting command_code_init_at lies ahead
  limit,      \* the runtime setting
  sems,       \* the semaphores the map has held; the last one is in it
  req,        \* req[r]: where it is, the transport it knows, its runtime, the reply, its semaphore
  changes

vars == <<plan, recorded, known, inited, limit, sems, req, changes>>
outside == <<plan, limit, changes>>

NewRequest(l) == [at |-> "new", via |-> "unknown", limit |-> l, reply |-> "none", sem |-> 0, ok |-> TRUE]
Ended == {"failed", "done"}

TypeOK ==
  /\ plan \in {"paid", "go"} /\ recorded \subseteq {"fingerprint", "lifecycle"}
  /\ known \in {"unknown", "provider", "generate"} /\ inited \in BOOLEAN
  /\ limit \in Capacities /\ changes \in 0..MaxChanges
  /\ sems \in Seq([cap : Capacities, out : SUBSET Requests])
  /\ req \in [Requests -> [at : {"new", "probing", "replied", "initialising", "fingerprint",
                                 "lifecycle", "waiting", "queued", "generating", "answered"} \cup Ended,
                           via : {"unknown", "provider", "generate"}, limit : Capacities,
                           reply : {"none", "success", "upgrade", "error"},
                           sem : 0..Len(sems), ok : BOOLEAN]]

Init ==
  /\ plan \in {"paid", "go"} /\ recorded = {}
  /\ known = "unknown" /\ inited = FALSE
  /\ limit \in Capacities /\ sems = <<>> /\ changes = 0
  /\ req = [r \in Requests |-> NewRequest(limit)]

Moves(r, to) == req' = [req EXCEPT ![r].at = to]
Released(r) == [s \in DOMAIN sems |-> [sems[s] EXCEPT !.out = @ \ {r}]]

-----------------------------------------------------------------------------
(* cc_transport_rounds: what is remembered of the channel chooses the path *)
(* of the first round.  The runtime settings are those the request began   *)
(* with.                                                                   *)
Begins(r) ==
  /\ req[r].at = "new"
  /\ req' = [req EXCEPT ![r].via = known, ![r].limit = limit,
                        ![r].at = IF known = "generate" THEN "initialising" ELSE "probing"]
  /\ UNCHANGED <<outside, recorded, known, inited, sems>>

(* The path, the URL or the headers cannot be built.                       *)
NotBuilt(r) ==
  /\ req[r].at \in {"probing", "initialising"} /\ Moves(r, "failed")
  /\ UNCHANGED <<outside, recorded, known, inited, sems>>

(* The Provider API answers by the plan of the account, or with an error.  *)
ProviderAnswers(r) ==
  /\ req[r].at = "probing"
  /\ \E reply \in {"error", IF plan = "go" THEN "upgrade" ELSE "success"} :
       req' = [req EXCEPT ![r].at = "replied", ![r].reply = reply]
  /\ UNCHANGED <<outside, recorded, known, inited, sems>>

(* Remember, which may fail; the request goes on in either case.           *)
SetTransport(to) == known' \in {known, to}

(* Mutant: the refusal is remembered, and the old path tried again.        *)
ForgetsDowngrade(r) ==
  /\ req[r].at = "replied"
  /\ IF req[r].reply = "upgrade"
     THEN SetTransport("generate") /\ req' = [req EXCEPT ![r].at = "probing"]
     ELSE UNCHANGED known /\ Moves(r, "answered")
  /\ UNCHANGED <<outside, recorded, inited, sems>>

(* Mutant: only a channel not known yet may turn out to be refused.        *)
RefusedWhenUnknown(r) ==
  /\ req[r].at = "replied"
  /\ IF req[r].reply = "upgrade" /\ req[r].via = "unknown"
     THEN /\ SetTransport("generate")
          /\ req' = [req EXCEPT ![r].via = "generate", ![r].at = "initialising", ![r].reply = "none"]
     ELSE /\ IF req[r].reply = "success" /\ req[r].via = "unknown"
             THEN SetTransport("provider") ELSE UNCHANGED known
          /\ Moves(r, "answered")
  /\ UNCHANGED <<outside, recorded, inited, sems>>

(* cc_transport_round, after the answer: 403 upgrade_required turns the    *)
(* channel to the path of the CLI and begins another round; a success is   *)
(* remembered of a channel not known yet.                                  *)
Judges(r) ==
  /\ req[r].at = "replied"
  /\ IF req[r].reply = "upgrade"
     THEN /\ SetTransport("generate")
          /\ req' = [req EXCEPT ![r].via = "generate", ![r].at = "initialising", ![r].reply = "none"]
     ELSE /\ IF req[r].reply = "success" /\ req[r].via = "unknown"
             THEN SetTransport("provider") ELSE UNCHANGED known
          /\ Moves(r, "answered")
  /\ UNCHANGED <<outside, recorded, inited, sems>>

-----------------------------------------------------------------------------
(* ensure_initialized: the fingerprint and then the lifecycle event, when  *)
(* they are due.  Neither failing keeps the request from going on.         *)
NeedsInit(r) ==
  /\ req[r].at = "initialising"
  /\ req' = [req EXCEPT ![r].at = IF inited THEN "waiting" ELSE "fingerprint", ![r].ok = TRUE]
  /\ UNCHANGED <<outside, recorded, known, inited, sems>>

InitUnreadable(r) ==
  /\ req[r].at = "initialising" /\ Moves(r, "waiting")
  /\ UNCHANGED <<outside, recorded, known, inited, sems>>

PostsFingerprint(r) ==
  /\ req[r].at = "fingerprint"
  /\ \E ok \in BOOLEAN :
       /\ req' = [req EXCEPT ![r].at = "lifecycle", ![r].ok = ok]
       /\ recorded' = IF ok THEN recorded \cup {"fingerprint"} ELSE recorded
  /\ UNCHANGED <<outside, known, inited, sems>>

(* The next initialisation is put off only when both were accepted, and    *)
(* when that can be written.                                               *)
PostsLifecycle(r) ==
  /\ req[r].at = "lifecycle"
  /\ \E ok \in BOOLEAN :
       /\ recorded' = IF ok THEN recorded \cup {"lifecycle"} ELSE recorded
       /\ inited' \in {inited, inited \/ (ok /\ req[r].ok)}
  /\ Moves(r, "waiting") /\ UNCHANGED <<outside, known, sems>>

-----------------------------------------------------------------------------
(* acquire_cc_slot: under the lock, the semaphore of the map, made anew    *)
(* when the request's setting is not its capacity ...                      *)
PicksSemaphore(r) ==
  LET fresh == sems = <<>> \/ sems[Len(sems)].cap # req[r].limit IN
  /\ req[r].at = "waiting"
  /\ sems' = IF fresh THEN Append(sems, [cap |-> req[r].limit, out |-> {}]) ELSE sems
  /\ req' = [req EXCEPT ![r].at = "queued", ![r].sem = Len(sems')]
  /\ UNCHANGED <<outside, recorded, known, inited>>

(* Mutant: a permit is taken of the semaphore that is in the map by now.   *)
AcquiresUnchecked(r) ==
  /\ req[r].at = "queued"
  /\ sems' = [sems EXCEPT ![Len(sems)].out = @ \cup {r}]
  /\ Moves(r, "generating") /\ UNCHANGED <<outside, recorded, known, inited>>

(* ... then a permit of it, in time ...                                    *)
Acquires(r) ==
  LET sem == req[r].sem IN
  /\ req[r].at = "queued" /\ Cardinality(sems[sem].out) < sems[sem].cap
  /\ sems' = [sems EXCEPT ![sem].out = @ \cup {r}]
  /\ Moves(r, "generating") /\ UNCHANGED <<outside, recorded, known, inited>>

(* ... or the candidate is given up.                                       *)
SlotTimesOut(r) ==
  /\ req[r].at = "queued" /\ Moves(r, "failed")
  /\ UNCHANGED <<outside, recorded, known, inited, sems>>

GenerateAnswers(r) ==
  /\ req[r].at = "generating"
  /\ \E reply \in {"success", "upgrade", "error"} :
       req' = [req EXCEPT ![r].at = "answered", ![r].reply = reply]
  /\ UNCHANGED <<outside, recorded, known, inited, sems>>

(* send_upstream: no connection, or no first byte in time.                 *)
SendFails(r) ==
  /\ req[r].at \in {"probing", "generating"} /\ Moves(r, "failed") /\ sems' = Released(r)
  /\ UNCHANGED <<outside, recorded, known, inited>>

(* hold_command_code_slot: the permit goes with the body, read to its end  *)
(* or dropped; a client that leaves drops the request wherever it is.      *)
Drops(r) ==
  /\ req[r].at \notin Ended \cup {"new"} /\ Moves(r, "done") /\ sems' = Released(r)
  /\ UNCHANGED <<outside, recorded, known, inited>>

-----------------------------------------------------------------------------
(* The administrator changes the setting, the account its plan, and the    *)
(* hours pass until an initialisation is due: a post has its twenty        *)
(* seconds, so none is under way for as long.                              *)
SetLimit ==
  /\ limit' \in Capacities \ {limit} /\ UNCHANGED <<plan, recorded, inited>>
PlanChanges ==
  /\ plan' \in {"paid", "go"} \ {plan} /\ UNCHANGED <<limit, recorded, inited>>
InitExpires ==
  /\ inited /\ \A r \in Requests : req[r].at \notin {"fingerprint", "lifecycle"}
  /\ inited' = FALSE /\ recorded' = {} /\ UNCHANGED <<limit, plan>>

Changes ==
  /\ changes < MaxChanges /\ changes' = changes + 1
  /\ SetLimit \/ PlanChanges \/ InitExpires
  /\ UNCHANGED <<known, sems, req>>

-----------------------------------------------------------------------------
Step(r) ==
  \/ NotBuilt(r) \/ ProviderAnswers(r) \/ Judges(r)
  \/ NeedsInit(r) \/ InitUnreadable(r) \/ PostsFingerprint(r) \/ PostsLifecycle(r)
  \/ PicksSemaphore(r) \/ Acquires(r) \/ SlotTimesOut(r)
  \/ GenerateAnswers(r) \/ SendFails(r)

Next == Changes \/ \E r \in Requests : Begins(r) \/ Step(r) \/ Drops(r)

Spec == Init /\ [][Next]_vars
FairSpec == Spec /\ \A r \in Requests : WF_vars(Step(r))

-----------------------------------------------------------------------------
(* A permit is held by a request under way and by no other, so that those  *)
(* that end, at whatever point, leave the channel its capacity; and nobody *)
(* gets one of a semaphore that has none left, were the setting changed    *)
(* while permits are out (proxy/commandcode.rs:49-70, 309-340).            *)
PermitsReturn ==
  \A s \in DOMAIN sems :
    /\ Cardinality(sems[s].out) <= sems[s].cap
    /\ sems[s].out = {r \in Requests : req[r].sem = s /\ req[r].at \in {"generating", "answered"}}

(* A client is never shown the Provider API's refusal of its plan, which   *)
(* the path of the CLI gets around, not even when a channel known to be    *)
(* good loses its plan (proxy/commandcode.rs:245-285).                     *)
RefusalIsNotTheAnswer ==
  \A r \in Requests : req[r].at = "answered" /\ req[r].reply = "upgrade" => req[r].via = "generate"

(* Every request is answered or gives up the candidate: the rounds end,    *)
(* and every wait has its deadline (proxy/commandcode.rs:81-110).          *)
RoundsEnd ==
  \A r \in Requests : req[r].at # "new" ~> req[r].at \in {"answered"} \cup Ended
=============================================================================

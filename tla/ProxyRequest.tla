---------------------------- MODULE ProxyRequest ----------------------------
(***************************************************************************)
(* A request's way through the gateway (proxy/service.rs, prepare.rs,      *)
(* error.rs): the candidates are tried in turn, each failure says what is  *)
(* remembered of it (FailoverState) and what is recorded of it, and the    *)
(* end is an answer of a candidate, the gateway's own, or a client that    *)
(* has gone away.  RequestLog carries the records to the tables.           *)
(*                                                                         *)
(*   plain       a non-streaming request (nonstream.rs)                    *)
(*   stream      a streaming one; StreamForward has the stream itself      *)
(*   compaction  a remote compaction (compaction.rs)                       *)
(***************************************************************************)
EXTENDS RequestLog

CONSTANTS
  Modes,         \* the kinds of request of the instance, among those above
  Happening,     \* the failures of the instance, by name
  MaxFailover,   \* max_failover_attempts
  MaxCrashes     \* bound: how often the process dies

ASSUME ModesAssumption == Modes \subseteq {"plain", "stream", "compaction"}
ASSUME FailoverAssumption == MaxFailover \in Nat \ {0}

VARIABLES
  mode, phase,   \* of each request
  cands,         \* its candidates, by the channel of each, best first
  no,            \* the attempt it is at (attempts)
  err,           \* last_error: the status and the channel of an error reply
  gw,            \* last_gateway_error: its channel
  kind,          \* last_transport_kind: "none", "reset" or "timeout"
  trail,         \* its failed attempts so far
  answer,        \* what the client was answered, and by which attempt
  crashes

reqVars == <<mode, phase, cands, no, err, gw, kind, trail, answer, crashes>>
vars == <<logVars, reqVars>>

-----------------------------------------------------------------------------
(* How an attempt fails: as what it is recorded (if it is), and what it    *)
(* leaves in FailoverState: an error reply to repeat, a failure of the     *)
(* gateway's, a transport failure of a kind, or nothing (Forgotten).       *)
Failure(name, modes, recorded, o, s, b, leaves) ==
  [name |-> name, modes |-> modes, recorded |-> recorded,
   outcome |-> o, status |-> s, started |-> b, leaves |-> leaves]

AllModes == {"plain", "stream", "compaction"}

(* fail_transport: no status was had, nor could the key be decrypted.  A   *)
(* request that cannot be built is not recorded.                           *)
TransportFailures == {
  Failure("unreachable", AllModes, TRUE,  "transport_error", NoStatus, FALSE, "reset"),
  Failure("silent",      AllModes, TRUE,  "transport_error", NoStatus, FALSE, "timeout"),
  Failure("unsendable",  AllModes, FALSE, "none",            NoStatus, FALSE, "reset")}

(* handle_upstream_error, and compaction_error_attempt                     *)
Refused == Failure("refused", AllModes, TRUE, "upstream_error", 429, FALSE, "reply")

(* read_decoded_body: the body breaks off, takes too long, or is a 200     *)
(* that holds an error.                                                    *)
BodyFailures == {
  Failure("cut",    {"plain"}, TRUE, "transport_error", 502, TRUE, "reset"),
  Failure("slow",   {"plain"}, TRUE, "transport_error", 502, TRUE, "timeout"),
  Failure("inBand", {"plain"}, TRUE, "upstream_error",  502, TRUE, "nothing")}

(* mapped_stream, before its first token.                                  *)
PreludeFailures == {
  Failure("badPrelude",  {"stream"}, TRUE, "upstream_error",  502,      FALSE, "nothing"),
  Failure("latePrelude", {"stream"}, TRUE, "transport_error", NoStatus, FALSE, "timeout")}

(* compaction_v1_success: too large, not to be decoded, or no compaction.  *)
Malformed == Failure("malformed", {"compaction"}, TRUE, "gateway_error", 502, FALSE, "gateway")

(* compaction_v2_success: a stream that failed or held none.  An answer of *)
(* either version that breaks off is recorded like an unreachable upstream.*)
NotCompact == Failure("notCompact", {"compaction"}, TRUE, "upstream_error", 502, FALSE, "gateway")

AllFailures ==
  TransportFailures \cup BodyFailures \cup PreludeFailures \cup {Refused, Malformed, NotCompact}

Failures == {f \in AllFailures : f.name \in Happening}

(* How an attempt that is not a stream ends in an answer: recorded with    *)
(* the status the client gets.                                             *)
Ending(modes, o, s, b) == [modes |-> modes, outcome |-> o, status |-> s, started |-> b]
Succeeds        == Ending({"plain", "compaction"}, "success", 200, TRUE)
ConversionError == Ending({"plain"}, "gateway_error", 200, TRUE)
TooLarge        == Ending({"plain"}, "gateway_error", 502, TRUE)
DecodeFailure   == Ending({"plain"}, "gateway_error", 502, FALSE)
Endings == {Succeeds, ConversionError, TooLarge, DecodeFailure}

(* How a stream that was answered ends (StreamForward, Outcomes).          *)
StreamEndings == {<<"success", 200>>, <<"gateway_error", 200>>, <<"upstream_error", 200>>,
                  <<"stream_interrupted", 200>>, <<"stream_interrupted", 504>>}

Phases == {"new", "routing", "trying", "streaming",
           "over",    \* answered, and the end recorded
           "bare",    \* answered without a record
           "gone"}    \* the client has gone, or the process has died
Statuses == {NoStatus, 200, 400, 401, 413, 422, 429, 500, 502, 503, 504}
ChannelOrNone == Channels \cup {NoChannel}
Answer(s, c, n) == [status |-> s, channel |-> c, no |-> n]
NoAnswer == Answer(NoStatus, NoChannel, 0)

TypeOK ==
  /\ mode \in [Requests -> Modes] /\ phase \in [Requests -> Phases]
  /\ \A r \in Requests :
       /\ cands[r] \in Seq(Channels) /\ Len(cands[r]) <= MaxFailover
       /\ no[r] \in 0..(Len(cands[r]) + 1)
       /\ trail[r] \in Seq([f : AllFailures, channel : Channels])
       /\ phase[r] = "trying" => Len(trail[r]) = no[r] - 1
  /\ err \in [Requests -> [status : Statuses, channel : ChannelOrNone]]
  /\ gw \in [Requests -> ChannelOrNone]
  /\ kind \in [Requests -> {"none", "reset", "timeout"}]
  /\ answer \in [Requests -> [status : Statuses, channel : ChannelOrNone, no : Nat]]
  /\ Len(queue) <= Capacity
  /\ repair \in [Requests -> {"none", "due", "listed", "half"}]
  /\ lost \subseteq Requests /\ picked \subseteq Requests /\ channels \subseteq Channels
  /\ \A a \in attempts : IsLogged(a.req) /\ a.channel \in channels \cup {NoChannel}
  /\ \A r \in Requests : log[r].channel \in channels \cup {NoChannel}
  /\ \A a, b \in attempts : a.req = b.req /\ a.no = b.no => a = b

NoError == [status |-> NoStatus, channel |-> NoChannel]

Init ==
  /\ LogInit
  /\ mode \in [Requests -> Modes]
  /\ phase = [r \in Requests |-> "new"]
  /\ cands = [r \in Requests |-> <<>>] /\ no = [r \in Requests |-> 0]
  /\ err = [r \in Requests |-> NoError] /\ gw = [r \in Requests |-> NoChannel]
  /\ kind = [r \in Requests |-> "none"] /\ trail = [r \in Requests |-> <<>>]
  /\ answer = [r \in Requests |-> NoAnswer]
  /\ crashes = 0

-----------------------------------------------------------------------------
(* The handler sends its events without interruption and goes on after it. *)
At(r, p) == phase[r] = p /\ out[r] = <<>>
Goto(r, p) == phase' = [phase EXCEPT ![r] = p]
Reply(r, s, c, n) == answer' = [answer EXCEPT ![r] = Answer(s, c, n)]
Send(r, es) == /\ out' = [out EXCEPT ![r] = es]
               /\ UNCHANGED <<queue, lost, log, attempts, usage, channels, aged, picked, repair>>
Channel(r) == cands[r][no[r]]
HasCandidate(r) == At(r, "trying") /\ no[r] <= Len(cands[r])

(* Mutant: the request is told to be at the attempt before.                *)
FinalizeBehind(r, o, s, b) ==
  Send(r, IF o = "cancelled"
          THEN <<Attempt(r, no[r], Channel(r), o, s, b), Finish(r, o, s, no[r] - 1, Channel(r))>>
          ELSE <<Health(r), Attempt(r, no[r], Channel(r), o, s, b),
                 Finish(r, o, s, no[r] - 1, Channel(r))>>)

(* AttemptFinalizer::finalize; a cancellation says nothing of the channel. *)
Finalize(r, o, s, b) ==
  Send(r, (IF o = "cancelled" THEN <<>> ELSE <<Health(r)>>) \o
          <<Attempt(r, no[r], Channel(r), o, s, b), Finish(r, o, s, no[r], Channel(r))>>)

-----------------------------------------------------------------------------
(* prepare_request *)

(* prepare_authorize: settings that cannot be read, a body too large, a    *)
(* key that is not the gateway's.                                          *)
AuthorizeRefusals == {500, 413, 401}

(* A body without a model, or one build_converted_bodies cannot convert.   *)
BodyRefusals == {400}

(* Refused before the request is on record.                                *)
RefuseUnlogged(r) ==
  /\ At(r, "new") /\ Goto(r, "bare")
  /\ \E s \in AuthorizeRefusals \cup BodyRefusals : Reply(r, s, NoChannel, 0)
  /\ UNCHANGED <<logVars, mode, cands, no, err, gw, kind, trail, crashes>>

(* A compaction that the silent conversion took to another protocol.       *)
RefuseCompaction(r) ==
  /\ At(r, "new") /\ mode[r] = "compaction"
  /\ Goto(r, "over") /\ Reply(r, 422, NoChannel, 0)
  /\ Send(r, <<Start(r), Finish(r, "gateway_error", 422, 0, NoChannel)>>)
  /\ UNCHANGED <<mode, cands, no, err, gw, kind, trail, crashes>>

Begin(r) ==
  /\ At(r, "new") /\ Goto(r, "routing")
  /\ Send(r, <<Start(r)>>)
  /\ UNCHANGED <<mode, cands, no, err, gw, kind, trail, answer, crashes>>

(* The database does not say which candidates there are.                   *)
RoutingError(r) ==
  /\ At(r, "routing") /\ Goto(r, "bare") /\ Reply(r, 500, NoChannel, 0)
  /\ UNCHANGED <<logVars, mode, cands, no, err, gw, kind, trail, crashes>>

NoCandidate(r) ==
  /\ At(r, "routing") /\ Goto(r, "over")
  /\ LET s == IF mode[r] = "compaction" THEN 422 ELSE 503
     IN  Reply(r, s, NoChannel, 0) /\ Send(r, <<Finish(r, "gateway_error", s, 0, NoChannel)>>)
  /\ UNCHANGED <<mode, cands, no, err, gw, kind, trail, crashes>>

(* A route may have two models of the same channel.                        *)
Route(r) ==
  /\ At(r, "routing") /\ Goto(r, "trying")
  /\ \E cs \in BoundedSeq(channels, MaxFailover) \ {<<>>} : cands' = [cands EXCEPT ![r] = cs]
  /\ no' = [no EXCEPT ![r] = 1]
  /\ UNCHANGED <<logVars, mode, err, gw, kind, trail, answer, crashes>>

-----------------------------------------------------------------------------
(* proxy, attempt_candidate, dispatch_response *)

(* Mutant: an error reply does not put an earlier gateway failure aside.   *)
GatewayKept(r, f) == IF f.leaves = "gateway" THEN Channel(r) ELSE gw[r]

GatewayAfter(r, f) ==
  CASE f.leaves = "gateway" -> Channel(r)
    [] f.leaves = "reply"   -> NoChannel
    [] OTHER                -> gw[r]

AttemptFails(r, f) ==
  /\ HasCandidate(r) /\ mode[r] \in f.modes
  /\ err' = [err EXCEPT ![r] =
       IF f.leaves = "reply" THEN [status |-> f.status, channel |-> Channel(r)] ELSE NoError]
  /\ gw' = [gw EXCEPT ![r] = GatewayAfter(r, f)]
  /\ kind' = [kind EXCEPT ![r] = IF f.leaves \in {"reset", "timeout"} THEN f.leaves ELSE "none"]
  /\ trail' = [trail EXCEPT ![r] = Append(@, [f |-> f, channel |-> Channel(r)])]
  /\ no' = [no EXCEPT ![r] = @ + 1]
  /\ IF f.recorded THEN Finalize(r, f.outcome, f.status, f.started) ELSE UNCHANGED logVars
  /\ UNCHANGED <<mode, phase, cands, answer, crashes>>

AttemptAnswers(r, e) ==
  /\ HasCandidate(r) /\ mode[r] \in e.modes
  /\ Goto(r, "over") /\ Reply(r, e.status, Channel(r), no[r])
  /\ Finalize(r, e.outcome, e.status, e.started)
  /\ UNCHANGED <<mode, cands, no, err, gw, kind, trail, crashes>>

StreamStarts(r) ==
  /\ HasCandidate(r) /\ mode[r] = "stream"
  /\ Goto(r, "streaming") /\ Reply(r, 200, Channel(r), no[r])
  /\ UNCHANGED <<logVars, mode, cands, no, err, gw, kind, trail, crashes>>

(* MappedStreamConverter::new refuses the pair of protocols.               *)
ConverterFails(r) ==
  /\ HasCandidate(r) /\ mode[r] = "stream"
  /\ Goto(r, "bare") /\ Reply(r, 500, NoChannel, no[r])
  /\ UNCHANGED <<logVars, mode, cands, no, err, gw, kind, trail, crashes>>

StreamEnds(r, e) ==
  /\ At(r, "streaming") /\ Goto(r, "over")
  /\ Finalize(r, e[1], e[2], TRUE)
  /\ UNCHANGED <<mode, cands, no, err, gw, kind, trail, answer, crashes>>

(* The client hangs up on a stream: CancelAware's record, or none at the   *)
(* place StreamForward!AlwaysRecorded shows.                               *)
ClientLeavesStream(r) ==
  /\ At(r, "streaming") /\ Goto(r, "gone")
  /\ \/ \E b \in BOOLEAN : Finalize(r, "cancelled", 200, b)
     \/ UNCHANGED logVars
  /\ UNCHANGED <<mode, cands, no, err, gw, kind, trail, answer, crashes>>

(* The client goes away at an await of the handler, which is dropped.      *)
ClientLeaves(r) ==
  /\ At(r, "routing") \/ HasCandidate(r)
  /\ Goto(r, "gone")
  /\ UNCHANGED <<logVars, mode, cands, no, err, gw, kind, trail, answer, crashes>>

(* Mutant: the gateway's own answer is not recorded.                       *)
GiveUpSilently(r) ==
  /\ At(r, "trying") /\ no[r] > Len(cands[r]) /\ Goto(r, "over")
  /\ LET n == Len(cands[r])
     IN  IF err[r] # NoError THEN Reply(r, err[r].status, err[r].channel, n)
         ELSE IF gw[r] # NoChannel THEN Reply(r, 502, gw[r], n)
         ELSE Reply(r, IF kind[r] = "timeout" THEN 504 ELSE 502, NoChannel, n)
  /\ UNCHANGED <<logVars, mode, cands, no, err, gw, kind, trail, crashes>>

(* final_gateway_response *)
Conclude(r, o, s, c) ==
  LET n == Len(cands[r]) IN Reply(r, s, c, n) /\ Send(r, <<Finish(r, o, s, n, c)>>)

GiveUp(r) ==
  /\ At(r, "trying") /\ no[r] > Len(cands[r]) /\ Goto(r, "over")
  /\ IF err[r] # NoError THEN Conclude(r, "upstream_error", err[r].status, err[r].channel)
     ELSE IF gw[r] # NoChannel THEN Conclude(r, "gateway_error", 502, gw[r])
     ELSE Conclude(r, "gateway_error", IF kind[r] = "timeout" THEN 504 ELSE 502, NoChannel)
  /\ UNCHANGED <<mode, cands, no, err, gw, kind, trail, crashes>>

-----------------------------------------------------------------------------
Crash ==
  /\ crashes < MaxCrashes /\ crashes' = crashes + 1
  /\ Restart
  /\ phase' = [r \in Requests |->
       IF phase[r] \in {"routing", "trying", "streaming"} THEN "gone" ELSE phase[r]]
  /\ UNCHANGED <<mode, cands, no, err, gw, kind, trail, answer>>

Handler(r) ==
  \/ RefuseUnlogged(r) \/ RefuseCompaction(r) \/ Begin(r)
  \/ RoutingError(r) \/ NoCandidate(r) \/ Route(r)
  \/ \E f \in Failures : AttemptFails(r, f)
  \/ \E e \in Endings : AttemptAnswers(r, e)
  \/ StreamStarts(r) \/ ConverterFails(r)
  \/ \E e \in StreamEndings : StreamEnds(r, e)
  \/ ClientLeavesStream(r) \/ ClientLeaves(r) \/ GiveUp(r)

Next ==
  \/ \E r \in Requests : Handler(r)
  \/ (\E r \in Requests : Emit(r)) /\ UNCHANGED reqVars
  \/ (Writer \/ Keeper \/ Repair) /\ UNCHANGED reqVars
  \/ Crash

Spec == Init /\ [][Next]_vars

(* The writer and the sweep are loops of their own, and time passes.       *)
FairSpec ==
  /\ Spec
  /\ WF_vars(Writer /\ UNCHANGED reqVars)
  /\ WF_vars((StaleSelect \/ Repair) /\ UNCHANGED reqVars)
  /\ \A r \in Requests : /\ WF_vars(StaleUpdate(r) /\ UNCHANGED reqVars)
                           /\ WF_vars(Older(r) /\ UNCHANGED reqVars)

-----------------------------------------------------------------------------
(* Properties. *)

Matches(c, d) == d = c \/ (d = NoChannel /\ c \notin channels)

(* When the gateway has answered and every event is written, the row shows *)
(* the status and the channel the client was answered with                 *)
(* (service.rs:146, error.rs:69-156), whatever the earlier attempts wrote  *)
(* there; a sweep leaves its 'cancelled', and a stream that was broken off *)
(* shows what broke it.                                                    *)
LogTellsTheAnswer ==
  \A r \in Requests :
    phase[r] = "over" /\ Settled(r) /\ log[r].outcome # "cancelled" =>
      /\ log[r].outcome # "pending"
      /\ log[r].status = answer[r].status \/ log[r].outcome = "stream_interrupted"
      /\ log[r].attempts = answer[r].no
      /\ Matches(answer[r].channel, log[r].channel)

FailedAs(r, l) == {i \in 1..Len(trail[r]) : trail[r][i].f.leaves = l}
AllFailed(r) == phase[r] = "over" /\ cands[r] # <<>> /\ Len(trail[r]) = Len(cands[r])

(* When all candidates have failed, the answer is the one the history of   *)
(* the failures calls for (error.rs:93): the reply of the last one if it   *)
(* was refused, else the last failure of the gateway's that no reply has   *)
(* followed, else 504 or 502 by the last one.                              *)
AnswerFitsTrail ==
  \A r \in Requests : AllFailed(r) =>
    LET last == Last(trail[r])
        told == {i \in FailedAs(r, "gateway") : \A j \in FailedAs(r, "reply") : j < i}
        is(s, c) == answer[r].status = s /\ answer[r].channel = c
    IN  CASE last.f.leaves = "reply" -> is(last.f.status, last.channel)
          [] last.f.leaves # "reply" /\ told # {} ->
               \E i \in told : (\A j \in told : j <= i) /\ is(502, trail[r][i].channel)
          [] OTHER -> is(IF last.f.leaves = "timeout" THEN 504 ELSE 502, NoChannel)

(* The attempts on record are the ones that were made, under their numbers *)
(* and channels, and at most one more, the one that answered; a row that   *)
(* says success names it (attempt.rs:184-255, telemetry.rs:124-206).       *)
AttemptsFitTrail ==
  \A r \in Requests : Settled(r) =>
    LET rows == {a \in attempts : a.req = r}
        n == Len(trail[r])
    IN  /\ \A i \in 1..n : LET t == trail[r][i]
                               mine == {a \in rows : a.no = i}
                           IN  IF t.f.recorded
                               THEN \E a \in mine : /\ a.outcome = t.f.outcome
                                                    /\ Matches(t.channel, a.channel)
                               ELSE mine = {}
        /\ \A a \in rows : a.no <= n + 1
        /\ log[r].outcome = "success" =>
             \E a \in rows : /\ a.outcome = "success" /\ a.no = n + 1
                             /\ log[r].attempts = a.no /\ log[r].channel = a.channel

(* No request stays pending for ever, whatever became of its handler and   *)
(* its events (maintenance.rs:249).                                        *)
PendingResolved ==
  \A r \in Requests : log[r].outcome = "pending" ~> log[r].outcome # "pending"


=============================================================================

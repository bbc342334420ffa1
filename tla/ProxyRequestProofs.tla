------------------------- MODULE ProxyRequestProofs -------------------------
(* Proofs about ProxyRequest and the log it writes to, for any number of   *)
(* requests, channels and candidates, any failures, any room in the event  *)
(* channel and any number of restarts: the answer of a request whose       *)
(* candidates have all failed is the one its failures call for, the rows   *)
(* of its attempts are the attempts that were made, and its own row tells  *)
(* what the client was told.                                               *)
EXTENDS ProxyRequest, SequenceTheorems, TLAPS

-----------------------------------------------------------------------------
(* What the state is made of.                                              *)
Failed == [f : AllFailures, channel : Channels]
Outcomes == {"absent", "pending", "none", "success", "cancelled", "transport_error",
             "upstream_error", "gateway_error", "stream_interrupted"}
Rows == [outcome : Outcomes, status : Nat, attempts : Nat, channel : ChannelOrNone]

StartEvents   == [type : {"start"}, req : Requests]
HealthEvents  == [type : {"health"}, req : Requests]
AttemptEvents == [type : {"attempt"}, req : Requests, no : Nat, channel : ChannelOrNone,
                  outcome : Outcomes, status : Nat, started : BOOLEAN]
FinishEvents  == [type : {"finish"}, req : Requests, outcome : Outcomes, status : Nat,
                  attempts : Nat, channel : ChannelOrNone]
Events == StartEvents \cup HealthEvents \cup AttemptEvents \cup FinishEvents

RequestShape ==
  /\ phase \in [Requests -> Phases] /\ no \in [Requests -> Nat]
  /\ cands \in [Requests -> Seq(Channels)] /\ trail \in [Requests -> Seq(Failed)]
  /\ err \in [Requests -> [status : {NoStatus, 429}, channel : ChannelOrNone]]
  /\ gw \in [Requests -> ChannelOrNone]
  /\ kind \in [Requests -> {"none", "reset", "timeout"}]
  /\ answer \in [Requests -> [status : Nat, channel : ChannelOrNone, no : Nat]]

LogShape ==
  /\ out \in [Requests -> Seq(Events)] /\ queue \in Seq(Events)
  /\ log \in [Requests -> Rows] /\ attempts \subseteq AttemptEvents
  /\ channels \subseteq Channels
  /\ repair \in [Requests -> {"none", "due", "listed", "half"}]

(* How far a request is, and what it has behind it.                        *)
Course(r) ==
  /\ phase[r] \in {"new", "routing"} => cands[r] = <<>> /\ trail[r] = <<>>
  /\ phase[r] = "trying" => no[r] \in 1..Len(cands[r]) + 1 /\ no[r] = Len(trail[r]) + 1
  /\ phase[r] = "streaming" =>
       /\ no[r] \in 1..Len(cands[r]) /\ no[r] = Len(trail[r]) + 1
       /\ answer[r] = Answer(200, Channel(r), no[r])

-----------------------------------------------------------------------------
(* What FailoverState remembers of the failures so far.                    *)
ToldOf(r) == {i \in FailedAs(r, "gateway") : \A j \in FailedAs(r, "reply") : j < i}

Memory(r) ==
  LET n == Len(trail[r])
  IN  /\ n = 0 => err[r] = NoError /\ kind[r] # "timeout"
      /\ n # 0 => LET last == trail[r][n]
                  IN  /\ err[r] = IF last.f.leaves = "reply"
                                  THEN [status |-> last.f.status, channel |-> last.channel]
                                  ELSE NoError
                      /\ kind[r] = "timeout" <=> last.f.leaves = "timeout"
      /\ IF ToldOf(r) = {} THEN gw[r] = NoChannel
         ELSE \E i \in ToldOf(r) : (\A j \in ToldOf(r) : j <= i) /\ gw[r] = trail[r][i].channel

AnswerFits(r) ==
  AllFailed(r) =>
    LET n == Len(trail[r])
    IN  /\ answer[r].status = IF err[r] # NoError THEN err[r].status
                              ELSE IF gw[r] = NoChannel /\ kind[r] = "timeout" THEN 504 ELSE 502
        /\ answer[r].channel = IF err[r] # NoError THEN err[r].channel ELSE gw[r]

AnswerInv ==
  /\ RequestShape /\ channels \subseteq Channels
  /\ \A r \in Requests : Course(r) /\ Memory(r) /\ AnswerFits(r)

-----------------------------------------------------------------------------
(* Facts about the failures, the steps and the requests they leave alone.  *)
LEMMA TruthValues == ASSUME NEW x, x = TRUE \/ x = FALSE PROVE x \in BOOLEAN
BY Zenon

LEMMA FailureFacts ==
  ASSUME NEW f \in AllFailures
  PROVE  /\ f.leaves \in {"reply", "gateway", "reset", "timeout", "nothing"}
         /\ f.leaves = "reply" => f.status = 429
         /\ f.outcome \in {"none", "transport_error", "upstream_error", "gateway_error"}
         /\ f.status \in {NoStatus, 429, 502}
         /\ f.recorded \in BOOLEAN /\ f.started \in BOOLEAN
<1> DEFINE Flags == /\ f.recorded = TRUE \/ f.recorded = FALSE
                    /\ f.started = TRUE \/ f.started = FALSE
           Words == /\ f.leaves \in {"reply", "gateway", "reset", "timeout", "nothing"}
                    /\ f.leaves = "reply" => f.status = 429
                    /\ f.outcome \in {"none", "transport_error", "upstream_error", "gateway_error"}
                    /\ f.status \in {NoStatus, 429, 502}
<1>1. ASSUME f \in TransportFailures PROVE Flags /\ Words
  <2>1. Flags
    BY <1>1 DEF TransportFailures, Failure
  <2>2. Words
    BY <1>1 DEF TransportFailures, Failure
  <2> QED
    BY <2>1, <2>2
<1>2. ASSUME f \in BodyFailures PROVE Flags /\ Words
  <2>1. Flags
    BY <1>2 DEF BodyFailures, Failure
  <2>2. Words
    BY <1>2 DEF BodyFailures, Failure
  <2> QED
    BY <2>1, <2>2
<1>3. ASSUME f \in PreludeFailures PROVE Flags /\ Words
  <2>1. Flags
    BY <1>3 DEF PreludeFailures, Failure
  <2>2. Words
    BY <1>3 DEF PreludeFailures, Failure
  <2> QED
    BY <2>1, <2>2
<1>4. ASSUME f \in {Refused, Malformed, NotCompact} PROVE Flags /\ Words
  <2>1. Flags
    BY <1>4 DEF Refused, Malformed, NotCompact, Failure
  <2>2. Words
    BY <1>4 DEF Refused, Malformed, NotCompact, Failure
  <2> QED
    BY <2>1, <2>2
<1> HIDE DEF Flags, Words
<1>5. Flags /\ Words
  BY <1>1, <1>2, <1>3, <1>4 DEF AllFailures
<1>6. f.recorded \in BOOLEAN /\ f.started \in BOOLEAN
  BY <1>5, TruthValues, Zenon DEF Flags
<1> QED
  BY <1>5, <1>6 DEF Words

(* What the steps below need of it, a fact at a time.                      *)
LEMMA FailureReply ==
  ASSUME NEW f \in AllFailures PROVE f.leaves = "reply" => f.status = 429
BY FailureFacts

LEMMA FailureOutcome ==
  ASSUME NEW f \in AllFailures
  PROVE  f.outcome \in {"none", "transport_error", "upstream_error", "gateway_error"}
BY FailureFacts

LEMMA FailureStatus ==
  ASSUME NEW f \in AllFailures PROVE f.status \in {NoStatus, 429, 502}
BY FailureFacts

LEMMA FailureStarted ==
  ASSUME NEW f \in AllFailures PROVE f.started \in BOOLEAN
BY FailureFacts

Same(r) ==
  /\ phase'[r] = phase[r] /\ cands'[r] = cands[r] /\ no'[r] = no[r] /\ trail'[r] = trail[r]
  /\ err'[r] = err[r] /\ gw'[r] = gw[r] /\ kind'[r] = kind[r] /\ answer'[r] = answer[r]

Remembers(r) ==
  /\ trail'[r] = trail[r] /\ err'[r] = err[r] /\ gw'[r] = gw[r] /\ kind'[r] = kind[r]

LEMMA MemoryStays ==
  ASSUME NEW r \in Requests, Memory(r), Remembers(r)
  PROVE  Memory(r)'
<1>1. /\ FailedAs(r, "gateway")' = FailedAs(r, "gateway")
      /\ FailedAs(r, "reply")' = FailedAs(r, "reply")
  BY DEF FailedAs, Remembers
<1>2. ToldOf(r)' = ToldOf(r)
  BY <1>1 DEF ToldOf
<1> QED
  BY <1>2 DEF Memory, Remembers

LEMMA SameStays ==
  ASSUME NEW r \in Requests, Course(r), Memory(r), AnswerFits(r), Same(r)
  PROVE  Course(r)' /\ Memory(r)' /\ AnswerFits(r)'
<1>1. Memory(r)'
  BY MemoryStays DEF Same, Remembers
<1>2. Course(r)'
  BY DEF Same, Course, Channel
<1>3. AnswerFits(r)'
  BY DEF Same, AnswerFits, AllFailed
<1> QED
  BY <1>1, <1>2, <1>3

-----------------------------------------------------------------------------
(* A step of the handler of q, whichever it is, leaves the others alone.   *)
Touches(q) == RequestShape' /\ \A r \in Requests \ {q} : Same(r)

LEMMA ChannelTried ==
  ASSUME RequestShape, NEW q \in Requests, no[q] \in 1..Len(cands[q])
  PROVE  Channel(q) \in Channels
BY DEF RequestShape, Channel

LEMMA FailureMemory ==
  ASSUME AnswerInv, NEW q \in Requests, NEW f \in Failures, AttemptFails(q, f)
  PROVE  Touches(q) /\ Course(q)' /\ Memory(q)' /\ AnswerFits(q)'
<1> DEFINE n == Len(trail[q])
           t == [f |-> f, channel |-> Channel(q)]
<1>1. f \in AllFailures /\ phase[q] = "trying" /\ no[q] \in 1..Len(cands[q]) /\ no[q] = n + 1
  BY DEF AnswerInv, Course, AttemptFails, HasCandidate, At, Failures
<1>2. t \in Failed /\ t.f = f /\ t.channel = Channel(q) /\ Channel(q) \in Channels
  BY <1>1, ChannelTried DEF Failed, AnswerInv
<1>3. /\ trail' = [trail EXCEPT ![q] = Append(trail[q], t)]
      /\ no' = [no EXCEPT ![q] = no[q] + 1]
      /\ err' = [err EXCEPT ![q] = IF f.leaves = "reply"
                                   THEN [status |-> f.status, channel |-> Channel(q)] ELSE NoError]
      /\ gw' = [gw EXCEPT ![q] = GatewayAfter(q, f)]
      /\ kind' = [kind EXCEPT ![q] = IF f.leaves \in {"reset", "timeout"} THEN f.leaves ELSE "none"]
      /\ UNCHANGED <<phase, cands, answer>>
  BY DEF AttemptFails
<1> HIDE DEF t
<1>4. /\ trail'[q] = Append(trail[q], t) /\ trail'[q] \in Seq(Failed) /\ Len(trail'[q]) = n + 1
      /\ trail'[q][n + 1] = t /\ \A i \in 1..n : trail'[q][i] = trail[q][i]
      /\ n \in Nat
  BY <1>2, <1>3 DEF AnswerInv, RequestShape
<1>5. GatewayAfter(q, f) \in ChannelOrNone /\ NoError \in [status : {NoStatus, 429}, channel : ChannelOrNone]
  BY <1>2 DEF GatewayAfter, AnswerInv, RequestShape, ChannelOrNone, NoError
<1>6. f.leaves = "reply" => [status |-> f.status, channel |-> Channel(q)] \in
                              [status : {NoStatus, 429}, channel : ChannelOrNone]
  BY <1>1, <1>2, FailureFacts DEF ChannelOrNone
<1>7. Touches(q)
  <2>1. err' \in [Requests -> [status : {NoStatus, 429}, channel : ChannelOrNone]]
    BY <1>3, <1>5, <1>6 DEF AnswerInv, RequestShape
  <2>2. trail' \in [Requests -> Seq(Failed)]
    BY <1>3, <1>4 DEF AnswerInv, RequestShape
  <2>3. RequestShape'
    BY <1>3, <1>5, <2>1, <2>2 DEF AnswerInv, RequestShape
  <2>4. \A r \in Requests \ {q} : Same(r)
    BY <1>3 DEF AnswerInv, RequestShape, Same
  <2> QED
    BY <2>3, <2>4 DEF Touches
<1>8. Course(q)' /\ AnswerFits(q)'
  BY <1>1, <1>3, <1>4 DEF AnswerInv, RequestShape, Course, AnswerFits, AllFailed
<1>9. Memory(q)'
  <2>1. \A l : FailedAs(q, l)' = IF f.leaves = l THEN FailedAs(q, l) \cup {n + 1} ELSE FailedAs(q, l)
    BY <1>2, <1>4 DEF FailedAs
  <2>2. \A l : FailedAs(q, l) \subseteq 1..n
    BY DEF FailedAs
  <2>3. gw'[q] = GatewayAfter(q, f)
    BY <1>3 DEF AnswerInv, RequestShape
  <2>4. IF ToldOf(q)' = {} THEN gw'[q] = NoChannel
        ELSE \E i \in ToldOf(q)' : (\A j \in ToldOf(q)' : j <= i) /\ gw'[q] = trail'[q][i].channel
    <3>1. CASE f.leaves = "gateway"
      <4>1. ToldOf(q)' = ToldOf(q) \cup {n + 1} /\ ToldOf(q) \subseteq 1..n
        BY <3>1, <2>1, <2>2, <1>4 DEF ToldOf
      <4> QED
        BY <3>1, <4>1, <2>3, <1>2, <1>4 DEF GatewayAfter
    <3>2. CASE f.leaves = "reply"
      <4>1. n + 1 \in FailedAs(q, "reply")' /\ FailedAs(q, "gateway")' \subseteq 1..n
        BY <3>2, <2>1, <2>2
      <4>2. \A i \in FailedAs(q, "gateway")' : ~(n + 1 < i)
        BY <4>1, <1>4
      <4>3. ToldOf(q)' = {}
        BY <4>1, <4>2, Zenon DEF ToldOf
      <4> QED
        BY <3>2, <4>3, <2>3 DEF GatewayAfter
    <3>3. CASE f.leaves \notin {"gateway", "reply"}
      <4>1. ToldOf(q)' = ToldOf(q) /\ ToldOf(q) \subseteq 1..n
        BY <3>3, <2>1, <2>2 DEF ToldOf
      <4> QED
        <5>1. IF ToldOf(q) = {} THEN gw[q] = NoChannel
              ELSE \E i \in ToldOf(q) : (\A j \in ToldOf(q) : j <= i) /\ gw[q] = trail[q][i].channel
          BY DEF AnswerInv, Memory
        <5>2. gw'[q] = gw[q] /\ \A i \in ToldOf(q) : trail'[q][i] = trail[q][i]
          BY <3>3, <4>1, <2>3, <1>4 DEF GatewayAfter
        <5> QED
          BY <4>1, <5>1, <5>2
    <3> QED
      BY <3>1, <3>2, <3>3
  <2>5. err'[q] = (IF f.leaves = "reply"
                   THEN [status |-> f.status, channel |-> Channel(q)] ELSE NoError)
        /\ (kind'[q] = "timeout" <=> f.leaves = "timeout")
    BY <1>3 DEF AnswerInv, RequestShape
  <2>6. /\ Len(trail'[q]) # 0 /\ trail'[q][Len(trail'[q])].f = f
        /\ trail'[q][Len(trail'[q])].channel = Channel(q)
    BY <1>2, <1>4
  <2> QED
    BY <2>4, <2>5, <2>6, Zenon DEF Memory
<1> QED
  BY <1>7, <1>8, <1>9

LEMMA EndingFacts ==
  ASSUME NEW e \in Endings
  PROVE  /\ e.outcome \in {"success", "gateway_error"} /\ e.status \in {200, 502}
         /\ e.outcome = "success" => e.status = 200
         /\ e.started \in BOOLEAN
<1>1. /\ e.outcome \in {"success", "gateway_error"} /\ e.status \in {200, 502}
      /\ e.outcome = "success" => e.status = 200
  BY DEF Endings, Succeeds, ConversionError, TooLarge, DecodeFailure, Ending
<1>2. e.started = TRUE \/ e.started = FALSE
  BY DEF Endings, Succeeds, ConversionError, TooLarge, DecodeFailure, Ending
<1> QED
  BY <1>1, <1>2, TruthValues

(* The same, a fact at a time.                                             *)
LEMMA EndingStatus == ASSUME NEW e \in Endings PROVE e.status \in {200, 502}
BY EndingFacts

LEMMA EndingStarted == ASSUME NEW e \in Endings PROVE e.started \in BOOLEAN
BY EndingFacts

(* The steps of the handler that leave FailoverState as it is.             *)
LEMMA OtherSteps ==
  ASSUME AnswerInv, NEW q \in Requests,
         \/ RefuseUnlogged(q) \/ RefuseCompaction(q) \/ Begin(q)
         \/ RoutingError(q) \/ NoCandidate(q) \/ Route(q)
         \/ \E e \in Endings : AttemptAnswers(q, e)
         \/ StreamStarts(q) \/ ConverterFails(q)
         \/ \E e \in StreamEndings : StreamEnds(q, e)
         \/ ClientLeavesStream(q) \/ ClientLeaves(q) \/ GiveUp(q)
  PROVE  Touches(q) /\ Remembers(q) /\ Course(q)' /\ AnswerFits(q)'
<1> USE DEF AnswerInv, Touches, RequestShape, Same, Remembers, Course, AnswerFits, AllFailed,
            Goto, Reply, Answer, At, HasCandidate, Phases, NoStatus, ChannelOrNone
<1>1. CASE RefuseUnlogged(q)
  BY <1>1 DEF RefuseUnlogged, AuthorizeRefusals, BodyRefusals
<1>2. CASE RefuseCompaction(q)
  BY <1>2 DEF RefuseCompaction
<1>3. CASE Begin(q)
  BY <1>3 DEF Begin
<1>4. CASE RoutingError(q)
  BY <1>4 DEF RoutingError
<1>5. CASE NoCandidate(q)
  BY <1>5 DEF NoCandidate
<1>6. CASE Route(q)
  <2>1. PICK cs \in BoundedSeq(channels, MaxFailover) \ {<<>>} :
          cands' = [cands EXCEPT ![q] = cs]
    BY <1>6 DEF Route
  <2>2. cs \in Seq(Channels) /\ cs # <<>>
    BY <2>1, FailoverAssumption DEF BoundedSeq, SeqOf
  <2>3. Len(cs) \in Nat /\ Len(cs) # 0 /\ 1 \in 1..Len(cs) + 1
    BY <2>2
  <2>4. cands'[q] = cs /\ no'[q] = 1 /\ trail'[q] = <<>> /\ phase'[q] = "trying" /\ Len(trail'[q]) = 0
    BY <1>6, <2>1 DEF Route
  <2>5. Course(q)' /\ AnswerFits(q)'
    BY <2>3, <2>4
  <2> QED
    BY <1>6, <2>1, <2>2, <2>5 DEF Route
<1>7. ASSUME NEW e \in Endings, AttemptAnswers(q, e)
      PROVE  Touches(q) /\ Remembers(q) /\ Course(q)' /\ AnswerFits(q)'
  <2>1. Channel(q) \in Channels /\ no[q] \in Nat
    BY <1>7, ChannelTried DEF AttemptAnswers
  <2>0. e.status \in {200, 502}
    BY EndingStatus
  <2>2. Answer(e.status, Channel(q), no[q]) \in [status : Nat, channel : ChannelOrNone, no : Nat]
    BY <2>0, <2>1
  <2> HIDE DEF Answer
  <2> QED
    BY <1>7, <2>2 DEF AttemptAnswers
<1>8. CASE StreamStarts(q)
  <2>1. Channel(q) \in Channels /\ Answer(200, Channel(q), no[q]) \in
          [status : Nat, channel : ChannelOrNone, no : Nat]
    BY <1>8, ChannelTried DEF StreamStarts
  <2>2. Channel(q)' = Channel(q)
    BY <1>8 DEF StreamStarts, Channel
  <2> HIDE DEF Answer
  <2> QED
    BY <1>8, <2>1, <2>2 DEF StreamStarts
<1>9. CASE ConverterFails(q)
  BY <1>9 DEF ConverterFails
<1>10. ASSUME NEW e \in StreamEndings, StreamEnds(q, e)
       PROVE  Touches(q) /\ Remembers(q) /\ Course(q)' /\ AnswerFits(q)'
  BY <1>10 DEF StreamEnds
<1>11. CASE ClientLeavesStream(q)
  BY <1>11 DEF ClientLeavesStream
<1>12. CASE ClientLeaves(q)
  BY <1>12 DEF ClientLeaves
<1>13. CASE GiveUp(q)
  <2> DEFINE s == IF err[q] # NoError THEN err[q].status
                  ELSE IF gw[q] = NoChannel /\ kind[q] = "timeout" THEN 504 ELSE 502
             c == IF err[q] # NoError THEN err[q].channel ELSE gw[q]
  <2>1. answer' = [answer EXCEPT ![q] = Answer(s, c, Len(cands[q]))]
    BY <1>13 DEF GiveUp, Conclude
  <2>2. s \in Nat /\ c \in ChannelOrNone
    OBVIOUS
  <2> HIDE DEF s, c
  <2>3. Touches(q) /\ Remembers(q) /\ Course(q)'
    BY <1>13, <2>1, <2>2 DEF GiveUp
  <2>4. answer'[q].status = s /\ answer'[q].channel = c
    BY <2>1
  <2>5. AnswerFits(q)'
    BY <2>3, <2>4 DEF s, c
  <2> QED
    BY <2>3, <2>5
<1> QED
  BY <1>1, <1>2, <1>3, <1>4, <1>5, <1>6, <1>7, <1>8, <1>9, <1>10, <1>11, <1>12, <1>13

LEMMA HandlerAnswers ==
  ASSUME AnswerInv, NEW q \in Requests, Handler(q)
  PROVE  Touches(q) /\ Course(q)' /\ Memory(q)' /\ AnswerFits(q)'
<1>1. CASE \E f \in Failures : AttemptFails(q, f)
  BY <1>1, FailureMemory
<1>2. CASE ~\E f \in Failures : AttemptFails(q, f)
  <2>1. Touches(q) /\ Remembers(q) /\ Course(q)' /\ AnswerFits(q)'
    BY <1>2, OtherSteps, Zenon DEF Handler
  <2> QED
    BY <2>1, MemoryStays DEF AnswerInv
<1> QED
  BY <1>1, <1>2

(* Only the deletion of a channel takes one away, and nothing adds one.    *)
LEMMA ChannelsShrink ==
  ASSUME [Next]_vars PROVE channels' \subseteq channels
<1>1. ASSUME NEW q \in Requests, Handler(q) PROVE channels' = channels
  BY <1>1, Zenon DEF Handler, RefuseUnlogged, RefuseCompaction, Begin, RoutingError, NoCandidate,
     Route, AttemptFails, AttemptAnswers, StreamStarts, ConverterFails, StreamEnds,
     ClientLeavesStream, ClientLeaves, GiveUp, Conclude, Finalize, Send, logVars
<1>2. ASSUME NEW q \in Requests, Emit(q) PROVE channels' = channels
  BY <1>2 DEF Emit
<1>3. CASE Writer
  BY <1>3 DEF Writer, WriteStart, WriteHealth, WriteAttempt, WriteFinish, WriteFails
<1>4. CASE Keeper
  BY <1>4 DEF Keeper, StaleSelect, ClearLogs, CleanupLogs, Forget, StaleUpdate, Older, DeleteChannel
<1>5. CASE Repair
  BY <1>5 DEF Repair, RepairSelect, RepairFails, RepairRow, RepairPasses, RepairAttempt
<1>6. CASE Crash
  BY <1>6 DEF Crash, Restart
<1>7. CASE UNCHANGED vars
  BY <1>7 DEF vars, logVars
<1> QED
  BY <1>1, <1>2, <1>3, <1>4, <1>5, <1>6, <1>7 DEF Next

LEMMA NextAnswer == AnswerInv /\ [Next]_vars => AnswerInv'
<1> SUFFICES ASSUME AnswerInv, [Next]_vars PROVE AnswerInv'
  OBVIOUS
<1>1. channels' \subseteq Channels
  BY ChannelsShrink DEF AnswerInv
<1>2. ASSUME NEW q \in Requests, Handler(q) PROVE AnswerInv'
  <2>1. Touches(q) /\ Course(q)' /\ Memory(q)' /\ AnswerFits(q)'
    BY <1>2, HandlerAnswers
  <2>2. \A r \in Requests \ {q} : Course(r)' /\ Memory(r)' /\ AnswerFits(r)'
    BY <2>1, SameStays DEF Touches, AnswerInv
  <2> QED
    BY <1>1, <2>1, <2>2, Zenon DEF Touches, AnswerInv
<1>3. CASE UNCHANGED reqVars
  <2>1. RequestShape' /\ \A r \in Requests : Same(r)
    BY <1>3 DEF reqVars, AnswerInv, RequestShape, Same
  <2> QED
    BY <1>1, <2>1, SameStays DEF AnswerInv
<1>4. CASE Crash
  <2>1. /\ phase' = [r \in Requests |->
              IF phase[r] \in {"routing", "trying", "streaming"} THEN "gone" ELSE phase[r]]
        /\ UNCHANGED <<cands, no, err, gw, kind, trail, answer>>
    BY <1>4 DEF Crash
  <2>2. RequestShape'
    BY <2>1 DEF AnswerInv, RequestShape, Phases
  <2>3. ASSUME NEW r \in Requests PROVE Course(r)' /\ Memory(r)' /\ AnswerFits(r)'
    <3>1. Memory(r)'
      BY <2>1, MemoryStays DEF Remembers, AnswerInv
    <3>2. \/ phase'[r] = phase[r] /\ phase[r] \notin {"routing", "trying", "streaming"}
          \/ phase'[r] = "gone"
      BY <2>1
    <3>3. Course(r)' /\ AnswerFits(r)'
      BY <3>2, <2>1 DEF AnswerInv, Course, AnswerFits, AllFailed
    <3> QED
      BY <3>1, <3>3
  <2> QED
    BY <1>1, <2>2, <2>3 DEF AnswerInv
<1> QED
  BY <1>2, <1>3, <1>4 DEF Next, vars

LEMMA SpecAnswer == Spec => []AnswerInv
<1>1. Init => AnswerInv
  <2> SUFFICES ASSUME Init PROVE AnswerInv
    OBVIOUS
  <2>1. RequestShape /\ channels \subseteq Channels
    BY DEF Init, LogInit, RequestShape, Phases, NoError, NoAnswer, Answer, NoStatus, ChannelOrNone
  <2>2. ASSUME NEW r \in Requests PROVE Course(r) /\ Memory(r) /\ AnswerFits(r)
    <3>1. trail[r] = <<>> /\ phase[r] = "new" /\ cands[r] = <<>> /\ err[r] = NoError
          /\ gw[r] = NoChannel /\ kind[r] = "none" /\ Len(trail[r]) = 0
      BY DEF Init
    <3>2. ToldOf(r) = {}
      BY <3>1 DEF ToldOf, FailedAs
    <3> QED
      BY <3>1, <3>2 DEF Course, Memory, AnswerFits, AllFailed
  <2> QED
    BY <2>1, <2>2 DEF AnswerInv
<1> QED
  BY <1>1, NextAnswer, PTL DEF Spec

(* When every candidate has failed, the client is told what the whole      *)
(* history of the failures calls for (error.rs:93).                        *)
THEOREM AnswersFitTheFailures == Spec => []AnswerFitsTrail
<1>1. ASSUME AnswerInv PROVE AnswerFitsTrail
  <2> SUFFICES ASSUME NEW r \in Requests, AllFailed(r)
               PROVE  LET last == Last(trail[r])
                          told == {i \in FailedAs(r, "gateway") : \A j \in FailedAs(r, "reply") : j < i}
                          is(s, c) == answer[r].status = s /\ answer[r].channel = c
                      IN  CASE last.f.leaves = "reply" -> is(last.f.status, last.channel)
                            [] last.f.leaves # "reply" /\ told # {} ->
                                 \E i \in told : (\A j \in told : j <= i) /\ is(502, trail[r][i].channel)
                            [] OTHER -> is(IF last.f.leaves = "timeout" THEN 504 ELSE 502, NoChannel)
    BY DEF AnswerFitsTrail
  <2> DEFINE n == Len(trail[r])
             last == trail[r][n]
             told == ToldOf(r)
  <2>1. n \in Nat /\ n # 0 /\ last \in Failed
    BY <1>1 DEF AllFailed, AnswerInv, RequestShape
  <2>2. last.f \in AllFailures /\ last.channel \in Channels
    BY <2>1 DEF Failed
  <2>3. last.f.leaves = "reply" => last.f.status = 429
    BY <2>2, FailureReply
  <2>4. AnswerFits(r) /\ Memory(r)
    BY <1>1 DEF AnswerInv
  <2> HIDE DEF last, told
  <2>5. /\ err[r] = IF last.f.leaves = "reply"
                    THEN [status |-> last.f.status, channel |-> last.channel] ELSE NoError
        /\ kind[r] = "timeout" <=> last.f.leaves = "timeout"
        /\ IF told = {} THEN gw[r] = NoChannel
           ELSE \E i \in told : (\A j \in told : j <= i) /\ gw[r] = trail[r][i].channel
    BY <2>1, <2>4 DEF Memory, last, told
  <2>6. \A i \in told : trail[r][i].channel \in Channels
    <3>1. told \subseteq 1..Len(trail[r])
      BY DEF told, ToldOf, FailedAs
    <3>2. \A i \in 1..Len(trail[r]) : trail[r][i] \in Failed
      BY <1>1 DEF AnswerInv, RequestShape
    <3>3. \A t \in Failed : t.channel \in Channels
      BY DEF Failed
    <3> QED
      BY <3>1, <3>2, <3>3
  <2>7. /\ answer[r].status = IF err[r] # NoError THEN err[r].status
                              ELSE IF gw[r] = NoChannel /\ kind[r] = "timeout" THEN 504 ELSE 502
        /\ answer[r].channel = IF err[r] # NoError THEN err[r].channel ELSE gw[r]
    BY <2>4 DEF AnswerFits
  <2>8. CASE last.f.leaves = "reply"
    <3>1. err[r] = [status |-> 429, channel |-> last.channel] /\ err[r] # NoError
      BY <2>8, <2>3, <2>5 DEF NoError, NoStatus
    <3>2. answer[r].status = last.f.status /\ answer[r].channel = last.channel
      BY <3>1, <2>7, <2>3, <2>8
    <3> QED
      BY <3>2, <2>8 DEF last, Last
  <2>9. CASE last.f.leaves # "reply" /\ told # {}
    <3>1. PICK i \in told : (\A j \in told : j <= i) /\ gw[r] = trail[r][i].channel
      BY <2>5, <2>9
    <3>2. gw[r] # NoChannel /\ err[r] = NoError
      BY <3>1, <2>5, <2>6, <2>9, NoChannelAssumption
    <3>3. answer[r].status = 502 /\ answer[r].channel = trail[r][i].channel
      BY <3>1, <3>2, <2>7
    <3> QED
      BY <3>1, <3>3, <2>9 DEF last, Last, told, ToldOf
  <2>10. CASE last.f.leaves # "reply" /\ told = {}
    <3>1. /\ answer[r].channel = NoChannel
          /\ answer[r].status = IF last.f.leaves = "timeout" THEN 504 ELSE 502
      BY <2>5, <2>7, <2>10
    <3> QED
      BY <3>1, <2>10 DEF last, Last, told, ToldOf
  <2> QED
    BY <2>8, <2>9, <2>10
<1> QED
  BY <1>1, SpecAnswer, PTL

-----------------------------------------------------------------------------
(* The events of a request that are not written yet.                       *)
Waits(r) == {queue[i] : i \in {j \in 1..Len(queue) : queue[j].req = r}}
              \cup {out[r][k] : k \in 1..Len(out[r])}
Own(r) == \A k \in 1..Len(out[r]) : out[r][k].req = r

Over(r) == phase[r] \in {"over", "gone"}
Silent(r) == out[r] = <<>> /\ \A i \in 1..Len(queue) : queue[i].req # r

(* A request that has not begun has sent nothing; one that is waiting for  *)
(* its row has no other and has written nothing.                           *)
Fresh(r) == phase[r] = "new" => Silent(r) /\ log[r] = Absent /\ \A a \in attempts : a.req # r

StartsOnce(r) ==
  /\ \A i, j \in 1..Len(queue) : queue[i] = Start(r) /\ queue[j] = Start(r) => i = j
  /\ \A k \in 1..Len(out[r]) :
       out[r][k] = Start(r) => k = 1 /\ \A i \in 1..Len(queue) : queue[i] # Start(r)
  /\ Start(r) \in Waits(r) => log[r] = Absent /\ \A a \in attempts : a.req # r

(* What is sent and what is written is what happened.                      *)
Shown(c) == IF c \in channels THEN c ELSE NoChannel
Tried(r, k) == IF k <= Len(trail[r]) THEN trail[r][k].channel ELSE answer[r].channel

AttemptTrue(r, a) ==
  /\ a.no \in 1..Len(trail[r]) + 1
  /\ a.no <= Len(trail[r]) => trail[r][a.no].f.recorded /\ a.outcome = trail[r][a.no].f.outcome
  /\ a.no > Len(trail[r]) => Over(r)

SaysTrue(r, e) ==
  /\ e.type = "attempt" => AttemptTrue(r, e) /\ e.channel = Tried(r, e.no)
  /\ e.type = "finish" =>
       /\ e.outcome = "success" => e.status = 200
       /\ e.status = 200 => /\ Over(r) /\ e.attempts = Len(trail[r]) + 1
                            /\ e.channel = answer[r].channel

Truthful(r) ==
  /\ \A e \in Waits(r) : SaysTrue(r, e)
  /\ \A a \in attempts : a.req = r => AttemptTrue(r, a) /\ a.channel = Shown(Tried(r, a.no))
  /\ log[r].outcome = "success" => log[r].status = 200
  /\ log[r].status = 200 => /\ Over(r) /\ log[r].attempts = Len(trail[r]) + 1
                            /\ log[r].channel = Shown(answer[r].channel)

(* An end with a 200 is the last word of its request.                      *)
Ends(e) == e.type = "finish" /\ e.status = 200
Sealed(r) ==
  /\ \A k \in 1..Len(out[r]) : Ends(out[r][k]) => k = Len(out[r])
  /\ \A i \in 1..Len(queue) :
       queue[i].req = r /\ Ends(queue[i]) =>
         out[r] = <<>> /\ \A j \in 1..Len(queue) : queue[j].req = r => j <= i
  /\ log[r].status = 200 => Silent(r)

(* The log of the request was cleared, and it has no row to come.          *)
Cleared(r) == log[r] = Absent /\ Start(r) \notin Waits(r)

(* What became no row makes the request lost.                              *)
Recorded(r) ==
  r \notin lost => \A i \in 1..Len(trail[r]) :
    trail[r][i].f.recorded =>
      \/ Cleared(r)
      \/ \E e \in Waits(r) : e.type = "attempt" /\ e.no = i
      \/ \E a \in attempts : a.req = r /\ a.no = i

Good(r, a) == a.type = "attempt" /\ a.req = r /\ a.outcome = "success"
              /\ a.no = Len(trail[r]) + 1
HasGood(r) == Cleared(r) \/ \E a \in attempts : Good(r, a)
Succeeded(e) == e.type = "finish" /\ e.outcome = "success"

Backed(r) ==
  r \notin lost =>
    /\ \A k \in 1..Len(out[r]) : Succeeded(out[r][k]) =>
         \/ HasGood(r) \/ \E j \in 1..k - 1 : Good(r, out[r][j])
         \/ \E j \in 1..Len(queue) : Good(r, queue[j])
    /\ \A i \in 1..Len(queue) : queue[i].req = r /\ Succeeded(queue[i]) =>
         HasGood(r) \/ \E j \in 1..i - 1 : Good(r, queue[j])
    /\ log[r].outcome = "success" /\ repair[r] # "half" => HasGood(r)

(* The repair has to do with requests of which everything is written.      *)
Repairing(r) ==
  /\ repair[r] = "due" => \A q \in Requests : repair[q] = "due"
  /\ repair[r] \in {"listed", "half"} => Over(r) /\ Silent(r) /\ (IsLogged(r) => log[r].status = 200)
  /\ repair[r] = "half" /\ IsLogged(r) => LastCut(r) # {}

-----------------------------------------------------------------------------
(* The last event of an answered request tells its answer, and then its    *)
(* row does.                                                               *)
EndFits(r, e) ==
  /\ e.type = "finish" /\ e.attempts = answer[r].no /\ e.channel = answer[r].channel
  /\ e.outcome \notin {"pending", "cancelled"}
  /\ e.status = answer[r].status \/ (e.outcome = "stream_interrupted" /\ e.status # 200)

RowFits(r) ==
  /\ log[r].outcome # "pending" /\ log[r].attempts = answer[r].no
  /\ Matches(answer[r].channel, log[r].channel)
  /\ \/ log[r].status = answer[r].status
     \/ log[r].outcome \in {"stream_interrupted", "cancelled"} /\ log[r].status # 200

LastWord(r) ==
  phase[r] = "over" /\ r \notin lost =>
    /\ out[r] # <<>> => EndFits(r, out[r][Len(out[r])])
    /\ out[r] = <<>> => \A i \in 1..Len(queue) :
         queue[i].req = r /\ (\A j \in i + 1..Len(queue) : queue[j].req # r) => EndFits(r, queue[i])
    /\ Silent(r) /\ IsLogged(r) => RowFits(r)

Faithful(r) ==
  /\ Own(r) /\ Fresh(r) /\ StartsOnce(r) /\ Truthful(r) /\ Sealed(r)
  /\ Recorded(r) /\ Backed(r) /\ Repairing(r) /\ LastWord(r)

RowsInv == LogShape /\ \A r \in Requests : Faithful(r)

-----------------------------------------------------------------------------
(* Facts about events.                                                     *)
LEMMA EventFacts ==
  ASSUME NEW e \in Events
  PROVE  /\ e.req \in Requests /\ e.type \in {"start", "health", "attempt", "finish"}
         /\ e.type = "start" => e = Start(e.req)
         /\ e.type = "attempt" => e \in AttemptEvents
         /\ e.type = "finish" => e \in FinishEvents
BY DEF Events, StartEvents, HealthEvents, AttemptEvents, FinishEvents, Start

LEMMA NewEvents ==
  ASSUME NEW q \in Requests, NEW o \in Outcomes, NEW s \in Nat, NEW n \in Nat,
         NEW c \in ChannelOrNone, NEW b \in BOOLEAN
  PROVE  /\ Start(q) \in Events /\ Health(q) \in Events
         /\ Attempt(q, n, c, o, s, b) \in AttemptEvents /\ Finish(q, o, s, n, c) \in FinishEvents
         /\ Attempt(q, n, c, o, s, b) \in Events /\ Finish(q, o, s, n, c) \in Events
BY DEF Events, StartEvents, HealthEvents, AttemptEvents, FinishEvents, Start, Health, Attempt, Finish

(* The events of one attempt, in the order they are sent.                  *)
LEMMA FinalizeEvents ==
  ASSUME NEW H \in Events, NEW A \in Events, NEW F \in Events, NEW o,
         NEW es, es = (IF o = "cancelled" THEN <<>> ELSE <<H>>) \o <<A, F>>
  PROVE  /\ es \in Seq(Events) /\ Len(es) \in {2, 3}
         /\ es[Len(es)] = F /\ es[Len(es) - 1] = A
         /\ Len(es) = 3 => es[1] = H
         /\ es # <<>> /\ Len(es) - 1 \in 1..Len(es) - 1
<1> DEFINE two == <<A, F>>
<1>2. two \in Seq(Events) /\ Len(two) = 2 /\ two[1] = A /\ two[2] = F
  OBVIOUS
<1>3. CASE o = "cancelled"
  <2>1. es = two
    BY <1>2, <1>3, ConcatEmptySeq
  <2>2. es # <<>>
    BY <1>2, <2>1
  <2> QED
    BY <1>2, <2>1, <2>2
<1>4. CASE o # "cancelled"
  <2> DEFINE one == <<H>>
  <2>1. es = one \o two
    BY <1>4
  <2>2. one \in Seq(Events) /\ Len(one) = 1 /\ one[1] = H
    OBVIOUS
  <2> HIDE DEF one, two
  <2>4. es \in Seq(Events) /\ Len(es) = Len(one) + Len(two)
        /\ \A i \in 1..Len(one) + Len(two) :
             es[i] = IF i <= Len(one) THEN one[i] ELSE two[i - Len(one)]
    BY <1>2, <2>1, <2>2, ConcatProperties
  <2>3. es \in Seq(Events) /\ Len(es) = 3 /\ es[1] = H /\ es[2] = A /\ es[3] = F
    BY <1>2, <2>2, <2>4
  <2>5. es # <<>>
    BY <2>3
  <2> QED
    BY <2>3, <2>5
<1> QED
  BY <1>3, <1>4

-----------------------------------------------------------------------------
(* What a step of the handler of q may say: nothing or a few events, all   *)
(* of them true of the state it leads to.                                  *)
Says(q, es) ==
  \A k \in 1..Len(es) :
    /\ es[k].req = q /\ SaysTrue(q, es[k])
    /\ Ends(es[k]) => k = Len(es)
    /\ Succeeded(es[k]) => \E j \in 1..k - 1 : Good(q, es[j])

Speaks(q, es) ==
  /\ out[q] = <<>> /\ out' = [out EXCEPT ![q] = es] /\ es \in Seq(Events)
  /\ UNCHANGED <<queue, lost, log, attempts, channels, repair>>
  /\ ~Over(q) /\ phase'[q] # "new" /\ (phase[q] = "new" => trail'[q] = <<>>)
  /\ Says(q, es)' /\ \A k \in 1..Len(es) : es[k] = Start(q) => k = 1 /\ phase[q] = "new"
  /\ phase'[q] = "over" => es # <<>> /\ EndFits(q, es[Len(es)])'
  /\ \/ trail'[q] = trail[q]
     \/ \E t \in Failed :
          /\ trail'[q] = Append(trail[q], t)
          /\ t.f.recorded => \E k \in 1..Len(es) :
                               es[k].type = "attempt" /\ es[k].no = Len(trail[q]) + 1

LEMMA QuietSpeaks ==
  ASSUME LogShape, NEW q \in Requests, out[q] = <<>>, UNCHANGED logVars, ~Over(q),
         phase'[q] \notin {"new", "over"}, phase[q] = "new" => trail[q] = <<>>,
         trail'[q] = trail[q]
  PROVE  Speaks(q, <<>>)
BY DEF LogShape, Speaks, Says, logVars

LEMMA FinishSpeaks ==
  ASSUME LogShape, NEW q \in Requests, out[q] = <<>>, NEW o \in {"upstream_error", "gateway_error"},
         NEW s \in Nat, s # 200, NEW n \in Nat, NEW c \in ChannelOrNone,
         Send(q, <<Finish(q, o, s, n, c)>>), ~Over(q), phase'[q] = "over",
         answer'[q] = Answer(s, c, n), phase[q] = "new" => trail[q] = <<>>,
         trail'[q] = trail[q]
  PROVE  Speaks(q, <<Finish(q, o, s, n, c)>>)
<1> DEFINE F == Finish(q, o, s, n, c)
           es == <<F>>
<1>1. F \in Events
  BY NewEvents DEF Outcomes
<1>2. es \in Seq(Events) /\ Len(es) = 1 /\ es[1] = F /\ es # <<>>
  BY <1>1
<1>3. /\ F.type = "finish" /\ F.req = q /\ F.outcome = o /\ F.status = s
      /\ F.attempts = n /\ F.channel = c /\ F # Start(q)
  BY DEF Finish, Start
<1>4. out' = [out EXCEPT ![q] = es] /\ UNCHANGED <<queue, lost, log, attempts, channels, repair>>
  BY DEF Send
<1> HIDE DEF F
<1>5. Says(q, es)'
  BY <1>2, <1>3 DEF Says, SaysTrue, Ends, Succeeded
<1>6. EndFits(q, es[Len(es)])'
  BY <1>2, <1>3 DEF EndFits, Answer
<1>7. Speaks(q, es)
  BY <1>2, <1>3, <1>4, <1>5, <1>6 DEF Speaks
<1> QED
  BY <1>7 DEF F

(* The two last events of an attempt are its own and its request's.        *)
AttemptSaid(q, A, F, es) ==
  /\ out' = [out EXCEPT ![q] = es] /\ es \in Seq(Events)
  /\ UNCHANGED <<queue, lost, log, attempts, channels, repair>>
  /\ Says(q, es)' /\ \A k \in 1..Len(es) : es[k] # Start(q)
  /\ es # <<>> /\ es[Len(es)] = F
  /\ \E k \in 1..Len(es) : es[k] = A

LEMMA AttemptSpeaks ==
  ASSUME LogShape, NEW q \in Requests, out[q] = <<>>, NEW o \in Outcomes, NEW s \in Nat,
         NEW b \in BOOLEAN, Channel(q) \in ChannelOrNone, no[q] \in Nat, Finalize(q, o, s, b),
         NEW A, A = Attempt(q, no[q], Channel(q), o, s, b),
         NEW F, F = Finish(q, o, s, no[q], Channel(q)),
         SaysTrue(q, A)', SaysTrue(q, F)', o = "success" => Good(q, A)'
  PROVE  \E es : AttemptSaid(q, A, F, es)
<1> DEFINE es == (IF o = "cancelled" THEN <<>> ELSE <<Health(q)>>) \o <<A, F>>
<1>8. A \in Events /\ F \in Events /\ Health(q) \in Events
  BY NewEvents
<1>2. out' = [out EXCEPT ![q] = es] /\ UNCHANGED <<queue, lost, log, attempts, channels, repair>>
  BY DEF Finalize, Send
<1>1. /\ es \in Seq(Events) /\ Len(es) \in {2, 3} /\ es[Len(es)] = F /\ es[Len(es) - 1] = A
      /\ Len(es) = 3 => es[1] = Health(q)
      /\ es # <<>> /\ Len(es) - 1 \in 1..Len(es) - 1
  BY <1>8, FinalizeEvents
<1> HIDE DEF es
<1>3. /\ A.type = "attempt" /\ A.req = q /\ F.type = "finish" /\ F.req = q /\ F.outcome = o
      /\ A # Start(q) /\ F # Start(q) /\ Health(q) # Start(q)
      /\ Health(q).type = "health" /\ Health(q).req = q
  BY DEF Attempt, Finish, Start, Health
<1>4. ASSUME NEW k \in 1..Len(es)
      PROVE  \/ k = Len(es) /\ es[k] = F
             \/ k = Len(es) - 1 /\ es[k] = A
             \/ es[k] = Health(q)
  BY <1>1
<1>5. SaysTrue(q, Health(q))' /\ ~Ends(Health(q)) /\ ~Succeeded(Health(q)) /\ ~Ends(A) /\ ~Succeeded(A)
  BY <1>3 DEF SaysTrue, Ends, Succeeded
<1>6. Says(q, es)'
  <2> SUFFICES ASSUME NEW k \in 1..Len(es)
               PROVE  /\ es[k].req = q /\ SaysTrue(q, es[k])'
                      /\ Ends(es[k]) => k = Len(es)
                      /\ Succeeded(es[k]) => \E j \in 1..k - 1 : Good(q, es[j])'
    BY Zenon DEF Says
  <2>1. CASE k = Len(es) /\ es[k] = F
    <3>1. Succeeded(F) => Good(q, A)'
      BY <1>3 DEF Succeeded
    <3>2. Len(es) - 1 \in 1..k - 1
      BY <1>1, <2>1
    <3> QED
      BY <1>1, <1>3, <2>1, <3>1, <3>2
  <2>2. CASE es[k] # F
    BY <1>3, <1>4, <1>5, <2>2
  <2> QED
    BY <1>3, <1>4, <1>5, <2>1, <2>2
<1>7. Len(es) - 1 \in 1..Len(es)
  <2>1. Len(es) \in Nat /\ Len(es) - 1 \in 1..Len(es) - 1
    BY <1>1
  <2> QED
    BY <2>1
<1> QED
  <2>1. AttemptSaid(q, A, F, es)
    BY <1>1, <1>2, <1>3, <1>4, <1>6, <1>7 DEF AttemptSaid
  <2> QED
    BY <2>1

(* An attempt that ends its request speaks of the answer it gave.          *)
LEMMA EndSpeaks ==
  ASSUME AnswerInv, LogShape, NEW q \in Requests, out[q] = <<>>, NEW o \in Outcomes, NEW s \in Nat,
         NEW b \in BOOLEAN, Channel(q) \in ChannelOrNone, Finalize(q, o, s, b), ~Over(q),
         phase[q] # "new", phase'[q] \in {"over", "gone"}, no[q] = Len(trail[q]) + 1,
         trail' = trail, answer'[q].channel = Channel(q), answer'[q].no = no[q],
         o = "success" => s = 200,
         phase'[q] = "over" =>
           /\ o \notin {"pending", "cancelled"}
           /\ s = answer'[q].status \/ (o = "stream_interrupted" /\ s # 200)
  PROVE  \E es : Speaks(q, es)
<1> DEFINE n == Len(trail[q])
<1>1. PICK A : A = Attempt(q, no[q], Channel(q), o, s, b)
  OBVIOUS
<1>2. PICK F : F = Finish(q, o, s, no[q], Channel(q))
  OBVIOUS
<1>3. /\ A.type = "attempt" /\ A.no = n + 1 /\ A.channel = Channel(q) /\ A.req = q /\ A.outcome = o
      /\ F.type = "finish" /\ F.outcome = o /\ F.status = s /\ F.attempts = n + 1
      /\ F.channel = Channel(q)
  BY <1>1, <1>2 DEF Attempt, Finish
<1>4. n \in Nat /\ no[q] \in Nat
  BY DEF AnswerInv, RequestShape
<1>5. SaysTrue(q, A)' /\ SaysTrue(q, F)'
  BY <1>3, <1>4 DEF SaysTrue, AttemptTrue, Over, Tried
<1>6. o = "success" => Good(q, A)'
  BY <1>3 DEF Good
<1>7. EndFits(q, F)' \/ phase'[q] # "over"
  BY <1>3 DEF EndFits
<1>8. PICK es : AttemptSaid(q, A, F, es)
  BY <1>1, <1>2, <1>4, <1>5, <1>6, AttemptSpeaks
<1>9. Speaks(q, es)
  BY <1>7, <1>8 DEF Speaks, AttemptSaid
<1> QED
  BY <1>9

LEMMA FailureSpeaks ==
  ASSUME AnswerInv, LogShape, NEW q \in Requests, NEW f \in Failures, AttemptFails(q, f)
  PROVE  \E es : Speaks(q, es)
<1> DEFINE n == Len(trail[q])
<1>1. /\ f \in AllFailures /\ phase[q] = "trying" /\ no[q] = n + 1 /\ n \in Nat /\ out[q] = <<>>
      /\ no[q] \in 1..Len(cands[q]) /\ phase' = phase
  BY DEF AnswerInv, RequestShape, Course, AttemptFails, HasCandidate, At, Failures
<1>2. PICK t : t = [f |-> f, channel |-> Channel(q)]
  OBVIOUS
<1>3. t \in Failed /\ t.f = f /\ t.channel = Channel(q) /\ Channel(q) \in Channels
  BY <1>1, <1>2, ChannelTried DEF Failed, AnswerInv
<1>4. /\ trail'[q] = Append(trail[q], t) /\ Len(trail'[q]) = n + 1 /\ trail'[q][n + 1] = t
  BY <1>1, <1>2, <1>3 DEF AttemptFails, AnswerInv, RequestShape
<1>5. ~Over(q) /\ phase'[q] = "trying" /\ phase[q] # "new"
  BY <1>1 DEF Over
<1>6. CASE ~f.recorded
  <2>1. UNCHANGED logVars
    BY <1>6 DEF AttemptFails
  <2>2. Speaks(q, <<>>)
    BY <1>1, <1>3, <1>4, <1>5, <1>6, <2>1 DEF LogShape, Speaks, Says, logVars
  <2> QED
    BY <2>2
<1>7. CASE f.recorded
  <2>1. /\ f.outcome \in {"none", "transport_error", "upstream_error", "gateway_error"}
        /\ f.status \in {NoStatus, 429, 502} /\ f.started \in BOOLEAN
    BY <1>1, FailureOutcome, FailureStatus, FailureStarted
  <2>2. f.outcome \in Outcomes /\ f.status \in Nat /\ f.status # 200 /\ f.outcome # "success"
    <3>1. f.outcome \in Outcomes /\ f.outcome # "success"
      BY <2>1 DEF Outcomes
    <3>2. f.status = 0 \/ f.status = 429 \/ f.status = 502
      BY <2>1 DEF NoStatus
    <3> QED
      BY <3>1, <3>2
  <2>3. Finalize(q, f.outcome, f.status, f.started)
    BY <1>7 DEF AttemptFails
  <2>4. PICK A : A = Attempt(q, no[q], Channel(q), f.outcome, f.status, f.started)
    OBVIOUS
  <2>5. PICK F : F = Finish(q, f.outcome, f.status, no[q], Channel(q))
    OBVIOUS
  <2>6. /\ A.type = "attempt" /\ A.no = n + 1 /\ A.channel = Channel(q) /\ A.outcome = f.outcome
        /\ F.type = "finish" /\ F.outcome = f.outcome /\ F.status = f.status
    BY <1>1, <2>4, <2>5 DEF Attempt, Finish
  <2>7. SaysTrue(q, A)' /\ SaysTrue(q, F)'
    BY <1>1, <1>3, <1>4, <1>7, <2>2, <2>6 DEF SaysTrue, AttemptTrue, Tried
  <2>8. f.started \in BOOLEAN /\ f.outcome \in Outcomes /\ f.status \in Nat
    BY <2>1, <2>2, Zenon
  <2>9. PICK es : AttemptSaid(q, A, F, es)
    <3>1. Channel(q) \in ChannelOrNone /\ no[q] \in Nat
      BY <1>1, <1>3 DEF ChannelOrNone
    <3>2. f.outcome = "success" => Good(q, A)'
      BY <2>2
    <3> QED
      BY <1>1, <2>3, <2>4, <2>5, <2>7, <2>8, <3>1, <3>2, AttemptSpeaks
  <2>10. Speaks(q, es)
    BY <1>1, <1>3, <1>4, <1>5, <2>6, <2>9 DEF Speaks, AttemptSaid
  <2> QED
    BY <2>10
<1> QED
  BY <1>6, <1>7

(* Whatever the handler does next, it says what is true.                   *)
LEMMA HandlerSpeaks ==
  ASSUME AnswerInv, RowsInv, NEW q \in Requests, Handler(q)
  PROVE  \E es : Speaks(q, es)
<1> USE DEF At, HasCandidate, Goto, Reply
<1> DEFINE n == Len(trail[q])
<1>1. LogShape /\ Course(q) /\ RequestShape
  BY DEF RowsInv, AnswerInv
<1>2. phase[q] = "new" => trail[q] = <<>>
  BY <1>1 DEF Course
<1>3. phase \in [Requests -> Phases] /\ answer \in [Requests -> [status : Nat, channel : ChannelOrNone, no : Nat]]
  BY <1>1 DEF RequestShape
<1>4. CASE \/ RefuseUnlogged(q) \/ RoutingError(q) \/ Route(q) \/ StreamStarts(q)
           \/ ConverterFails(q) \/ ClientLeaves(q)
  <2>1. /\ UNCHANGED logVars /\ UNCHANGED trail /\ out[q] = <<>>
        /\ phase[q] \in {"new", "routing", "trying"}
        /\ phase'[q] \in {"bare", "trying", "streaming", "gone"}
    BY <1>3, <1>4 DEF RefuseUnlogged, RoutingError, Route, StreamStarts, ConverterFails, ClientLeaves
  <2> QED
    BY <1>1, <1>2, <2>1, QuietSpeaks DEF Over
<1>5. CASE RefuseCompaction(q)
  <2>1. PICK S : S = Start(q)
    OBVIOUS
  <2>2. PICK F : F = Finish(q, "gateway_error", 422, 0, NoChannel)
    OBVIOUS
  <2>3. S \in Events /\ F \in Events
    <3>1. "gateway_error" \in Outcomes /\ 422 \in Nat /\ 0 \in Nat /\ NoChannel \in ChannelOrNone
          /\ TRUE \in BOOLEAN
      BY DEF Outcomes, ChannelOrNone
    <3>2. S \in Events
      BY <2>1 DEF Events, StartEvents, Start
    <3>3. F \in Events
      BY <2>2, <3>1 DEF Events, FinishEvents, Finish
    <3> QED
      BY <3>2, <3>3
  <2> DEFINE es == <<S, F>>
  <2>4. es \in Seq(Events) /\ Len(es) = 2 /\ es[1] = S /\ es[2] = F /\ es # <<>>
    BY <2>3
  <2>5. /\ S.type = "start" /\ S.req = q /\ F.type = "finish" /\ F.req = q /\ F.outcome = "gateway_error"
        /\ F.status = 422 /\ F.attempts = 0 /\ F.channel = NoChannel /\ F # Start(q)
    BY <2>1, <2>2 DEF Start, Finish
  <2>6. out' = [out EXCEPT ![q] = es] /\ UNCHANGED <<queue, lost, log, attempts, channels, repair, trail>>
    BY <1>5, <2>1, <2>2 DEF RefuseCompaction, Send
  <2>7. phase[q] = "new" /\ out[q] = <<>> /\ phase'[q] = "over" /\ answer'[q] = Answer(422, NoChannel, 0)
    BY <1>3, <1>5 DEF RefuseCompaction
  <2> HIDE DEF es
  <2>8. Says(q, es)'
    BY <2>4, <2>5 DEF Says, SaysTrue, Ends, Succeeded
  <2>9. EndFits(q, es[Len(es)])'
    BY <2>4, <2>5, <2>7 DEF EndFits, Answer
  <2>10. Speaks(q, es)
    BY <1>2, <2>4, <2>5, <2>6, <2>7, <2>8, <2>9 DEF Speaks, Over
  <2> QED
    BY <2>10
<1>6. CASE Begin(q)
  <2>1. PICK S : S = Start(q)
    OBVIOUS
  <2>2. S \in Events /\ S.type = "start" /\ S.req = q
    BY <2>1 DEF Events, StartEvents, Start
  <2> DEFINE es == <<S>>
  <2>3. es \in Seq(Events) /\ Len(es) = 1 /\ es[1] = S
    BY <2>2
  <2>4. /\ out' = [out EXCEPT ![q] = es] /\ UNCHANGED <<queue, lost, log, attempts, channels, repair, trail>>
        /\ phase[q] = "new" /\ out[q] = <<>> /\ phase'[q] = "routing"
    BY <1>3, <1>6, <2>1 DEF Begin, Send
  <2> HIDE DEF es
  <2>5. Says(q, es)'
    BY <2>2, <2>3 DEF Says, SaysTrue, Ends, Succeeded
  <2>6. Speaks(q, es)
    BY <1>2, <2>3, <2>4, <2>5 DEF Speaks, Over
  <2> QED
    BY <2>6
<1>7. CASE NoCandidate(q)
  <2>1. PICK s : s = IF mode[q] = "compaction" THEN 422 ELSE 503
    OBVIOUS
  <2>2. s \in Nat /\ s # 200 /\ 0 \in Nat /\ NoChannel \in ChannelOrNone
    BY <2>1 DEF ChannelOrNone
  <2>3. /\ Send(q, <<Finish(q, "gateway_error", s, 0, NoChannel)>>) /\ out[q] = <<>>
        /\ phase[q] = "routing" /\ phase'[q] = "over" /\ answer'[q] = Answer(s, NoChannel, 0)
        /\ trail'[q] = trail[q]
    BY <1>3, <1>7, <2>1 DEF NoCandidate
  <2>4. ~Over(q)
    BY <2>3 DEF Over
  <2>5. Speaks(q, <<Finish(q, "gateway_error", s, 0, NoChannel)>>)
    BY <1>1, <1>2, <2>2, <2>3, <2>4, FinishSpeaks
  <2> QED
    BY <2>5
<1>8. CASE GiveUp(q)
  <2>1. PICK o, s, c : /\ o \in {"upstream_error", "gateway_error"} /\ s \in Nat /\ s # 200
                       /\ c \in ChannelOrNone /\ Conclude(q, o, s, c)
    <3>1. err[q].status \in {NoStatus, 429} /\ err[q].channel \in ChannelOrNone /\ gw[q] \in ChannelOrNone
          /\ NoChannel \in ChannelOrNone
      BY <1>1 DEF RequestShape, ChannelOrNone
    <3>2. CASE err[q] # NoError
      <4>1. PICK s, c : s = err[q].status /\ c = err[q].channel
        OBVIOUS
      <4>2. Conclude(q, "upstream_error", s, c)
        BY <1>8, <3>2, <4>1 DEF GiveUp
      <4>3. s \in Nat /\ s # 200 /\ c \in ChannelOrNone
        BY <3>1, <4>1 DEF NoStatus
      <4> QED
        BY <4>2, <4>3
    <3>3. CASE err[q] = NoError /\ gw[q] # NoChannel
      <4>1. PICK c : c = gw[q]
        OBVIOUS
      <4>2. Conclude(q, "gateway_error", 502, c) /\ c \in ChannelOrNone
        BY <1>8, <3>1, <3>3, <4>1 DEF GiveUp
      <4> QED
        BY <4>2
    <3>4. CASE err[q] = NoError /\ gw[q] = NoChannel
      <4>1. PICK s : s = IF kind[q] = "timeout" THEN 504 ELSE 502
        OBVIOUS
      <4>2. Conclude(q, "gateway_error", s, NoChannel) /\ s \in Nat /\ s # 200
        BY <1>8, <3>4, <4>1 DEF GiveUp
      <4> QED
        BY <3>1, <4>2
    <3> QED
      BY <3>2, <3>3, <3>4
  <2>2. PICK m : m = Len(cands[q])
    OBVIOUS
  <2>3. m \in Nat
    BY <1>1, <2>2 DEF RequestShape
  <2>4. /\ Send(q, <<Finish(q, o, s, m, c)>>) /\ out[q] = <<>>
        /\ phase[q] = "trying" /\ phase'[q] = "over" /\ answer'[q] = Answer(s, c, m)
        /\ trail'[q] = trail[q]
    BY <1>3, <1>8, <2>1, <2>2 DEF GiveUp, Conclude
  <2>5. ~Over(q)
    BY <2>4 DEF Over
  <2>6. Speaks(q, <<Finish(q, o, s, m, c)>>)
    BY <1>1, <1>2, <2>1, <2>3, <2>4, <2>5, FinishSpeaks
  <2> QED
    BY <2>6
<1>9. ASSUME NEW f \in Failures, AttemptFails(q, f) PROVE \E es : Speaks(q, es)
  BY <1>1, <1>9, FailureSpeaks
<1>10. ASSUME NEW e \in Endings, AttemptAnswers(q, e) PROVE \E es : Speaks(q, es)
  <2>1. /\ e.outcome \in {"success", "gateway_error"} /\ e.status \in {200, 502}
        /\ e.outcome = "success" => e.status = 200
    BY DEF Endings, Succeeds, ConversionError, TooLarge, DecodeFailure, Ending
  <2>2. e.started \in BOOLEAN
    BY EndingStarted
  <2>3. e.outcome \in Outcomes /\ e.status \in Nat /\ e.outcome \notin {"pending", "cancelled"}
    BY <2>1 DEF Outcomes
  <2>4. phase[q] = "trying" /\ out[q] = <<>> /\ no[q] \in 1..Len(cands[q]) /\ no[q] = n + 1
    BY <1>1, <1>10 DEF AttemptAnswers, Course
  <2>5. Channel(q) \in Channels
    BY <1>1, <2>4, ChannelTried
  <2>6. /\ phase'[q] = "over" /\ answer'[q] = Answer(e.status, Channel(q), no[q]) /\ trail' = trail
        /\ Finalize(q, e.outcome, e.status, e.started)
    BY <1>3, <1>10 DEF AttemptAnswers
  <2>7. answer'[q].status = e.status /\ answer'[q].channel = Channel(q) /\ answer'[q].no = no[q]
    BY <2>6 DEF Answer
  <2>8. ~Over(q) /\ phase[q] # "new" /\ phase'[q] \in {"over", "gone"} /\ Channel(q) \in ChannelOrNone
    BY <2>4, <2>5, <2>6 DEF Over, ChannelOrNone
  <2> QED
    BY <1>1, <2>1, <2>2, <2>3, <2>4, <2>6, <2>7, <2>8, EndSpeaks, SMTT(60)
<1>11. ASSUME phase[q] = "streaming", out[q] = <<>>, trail' = trail, answer' = answer,
              phase'[q] \in {"over", "gone"},
              NEW o \in {"success", "gateway_error", "upstream_error", "stream_interrupted", "cancelled"},
              NEW s \in {200, 504}, s = 504 => o = "stream_interrupted",
              phase'[q] = "over" => o # "cancelled",
              NEW b \in BOOLEAN, Finalize(q, o, s, b)
       PROVE  \E es : Speaks(q, es)
  <2>1. /\ no[q] \in 1..Len(cands[q]) /\ no[q] = n + 1 /\ answer[q] = Answer(200, Channel(q), no[q])
    BY <1>1, <1>11 DEF Course
  <2>2. Channel(q) \in Channels
    BY <1>1, <2>1, ChannelTried
  <2>3. answer'[q].status = 200 /\ answer'[q].channel = Channel(q) /\ answer'[q].no = no[q]
    BY <1>11, <2>1 DEF Answer
  <2>4. ~Over(q) /\ phase[q] # "new" /\ Channel(q) \in ChannelOrNone
    BY <1>11, <2>2 DEF Over, ChannelOrNone
  <2>5. o \in Outcomes /\ s \in Nat /\ (o = "success" => s = 200)
        /\ (s = answer'[q].status \/ (o = "stream_interrupted" /\ s # 200))
        /\ (phase'[q] = "over" => o \notin {"pending", "cancelled"})
    BY <1>11, <2>3 DEF Outcomes
  <2> QED
    BY <1>1, <1>11, <2>1, <2>3, <2>4, <2>5, EndSpeaks, SMTT(60)
<1>12. ASSUME NEW e \in StreamEndings, StreamEnds(q, e) PROVE \E es : Speaks(q, es)
  <2>1. PICK o, s : o = e[1] /\ s = e[2]
    OBVIOUS
  <2>4. PICK b \in BOOLEAN : b = TRUE
    OBVIOUS
  <2>2. /\ phase[q] = "streaming" /\ out[q] = <<>> /\ trail' = trail /\ answer' = answer
        /\ phase'[q] = "over" /\ phase'[q] \in {"over", "gone"} /\ Finalize(q, o, s, b)
    BY <1>3, <1>12, <2>1, <2>4 DEF StreamEnds
  <2>3. /\ o \in {"success", "gateway_error", "upstream_error", "stream_interrupted", "cancelled"}
        /\ s \in {200, 504} /\ (s = 504 => o = "stream_interrupted") /\ o # "cancelled"
    BY <2>1 DEF StreamEndings
  <2> QED
    BY <1>11, <2>2, <2>3, SMTT(60)
<1>13. CASE ClientLeavesStream(q)
  <2>1. /\ phase[q] = "streaming" /\ out[q] = <<>> /\ trail' = trail /\ answer' = answer
        /\ phase'[q] = "gone"
    BY <1>3, <1>13 DEF ClientLeavesStream
  <2>2. CASE UNCHANGED logVars
    BY <1>1, <1>2, <2>1, <2>2, QuietSpeaks DEF Over
  <2>3. ASSUME NEW b \in BOOLEAN, Finalize(q, "cancelled", 200, b) PROVE \E es : Speaks(q, es)
    <3>1. /\ "cancelled" \in {"success", "gateway_error", "upstream_error", "stream_interrupted", "cancelled"}
          /\ 200 \in {200, 504} /\ 200 # 504 /\ "gone" # "over" /\ "gone" \in {"over", "gone"}
      OBVIOUS
    <3> QED
      BY <1>11, <2>1, <2>3, <3>1, SMTT(60)
  <2> QED
    BY <1>13, <2>2, <2>3 DEF ClientLeavesStream
<1> QED
  BY <1>4, <1>5, <1>6, <1>7, <1>8, <1>9, <1>10, <1>12, <1>13 DEF Handler

-----------------------------------------------------------------------------
(* What the invariant says of a request survives each step.                *)
LEMMA Waiting ==
  ASSUME NEW r, NEW e
  PROVE  e \in Waits(r) <=> \/ \E i \in 1..Len(queue) : queue[i].req = r /\ queue[i] = e
                            \/ \E k \in 1..Len(out[r]) : out[r][k] = e
BY DEF Waits

LEMMA EventsAre ==
  ASSUME LogShape, NEW r \in Requests
  PROVE  /\ \A i \in 1..Len(queue) : queue[i] \in Events
         /\ \A k \in 1..Len(out[r]) : out[r][k] \in Events
         /\ Len(queue) \in Nat /\ Len(out[r]) \in Nat
         /\ out[r] = <<>> <=> Len(out[r]) = 0
BY DEF LogShape

(* An end with a 200 comes when the request is over; so before that none   *)
(* has been sent, and no success.                                          *)
LEMMA NotYet ==
  ASSUME NEW r \in Requests, Truthful(r), ~Over(r)
  PROVE  /\ \A e \in Waits(r) : ~Ends(e) /\ ~Succeeded(e)
         /\ log[r].status # 200 /\ log[r].outcome # "success"
BY DEF Truthful, SaysTrue, Ends, Succeeded

LEMMA SpeakerFaithful ==
  ASSUME AnswerInv, RowsInv, NEW q \in Requests, NEW es, Speaks(q, es)
  PROVE  Faithful(q)'
<1> DEFINE n == Len(trail[q])
<1>1. Faithful(q) /\ LogShape
  BY DEF RowsInv
<1>2. /\ out[q] = <<>> /\ out'[q] = es /\ es \in Seq(Events)
      /\ UNCHANGED <<queue, lost, log, attempts, channels, repair>>
      /\ ~Over(q) /\ phase'[q] # "new"
  BY <1>1 DEF LogShape, Speaks
<1>3. Says(q, es)' /\ \A k \in 1..Len(es) : es[k] = Start(q) => k = 1 /\ phase[q] = "new"
  BY DEF Speaks
<1>4. \A e : e \in Waits(q)' <=> e \in Waits(q) \/ \E k \in 1..Len(es) : es[k] = e
  BY <1>2 DEF Waits
<1>5. /\ \A e \in Waits(q) : ~Ends(e) /\ ~Succeeded(e)
      /\ log[q].status # 200 /\ log[q].outcome # "success"
  BY <1>1, <1>2, NotYet DEF Faithful
<1>6. \A i \in 1..Len(queue) : queue[i].req = q => ~Ends(queue[i]) /\ ~Succeeded(queue[i])
  BY <1>5 DEF Waits
<1>7. \A k \in 1..Len(es) : es[k].req = q /\ SaysTrue(q, es[k])'
  BY <1>2, <1>3 DEF Says
<1>8. trail'[q] = trail[q] \/ \E t \in Failed : trail'[q] = Append(trail[q], t)
  BY DEF Speaks
<1>9. trail[q] \in Seq(Failed) /\ n \in Nat
  BY DEF AnswerInv, RequestShape
<1>10. Len(trail'[q]) >= n /\ \A i \in 1..n : trail'[q][i] = trail[q][i]
  BY <1>8, <1>9
<1>11. Len(trail'[q]) \in Nat
  BY <1>8, <1>9
<1>12. ASSUME NEW a, AttemptTrue(q, a)
       PROVE  AttemptTrue(q, a)' /\ Tried(q, a.no)' = Tried(q, a.no)
  <2>1. a.no \in 1..n /\ trail[q][a.no].f.recorded /\ a.outcome = trail[q][a.no].f.outcome
    BY <1>2, <1>9, <1>12 DEF AttemptTrue
  <2> QED
    BY <1>9, <1>10, <1>11, <2>1 DEF AttemptTrue, Tried
<1>13. Own(q)' /\ Fresh(q)'
  BY <1>2, <1>7 DEF Own, Fresh
<1>14. StartsOnce(q)'
  <2>1. phase[q] = "new" => /\ \A i \in 1..Len(queue) : queue[i] # Start(q)
                            /\ log[q] = Absent /\ \A a \in attempts : a.req # q
    BY <1>1 DEF Faithful, Fresh, Silent, Start
  <2>2. \A k \in 1..Len(out'[q]) :
          out'[q][k] = Start(q) => k = 1 /\ \A i \in 1..Len(queue') : queue'[i] # Start(q)
    BY <1>2, <1>3, <2>1
  <2>3. Start(q) \in Waits(q)' => log'[q] = Absent /\ \A a \in attempts' : a.req # q
    BY <1>1, <1>2, <1>3, <1>4, <2>1 DEF Faithful, StartsOnce
  <2>4. \A i, j \in 1..Len(queue') : queue'[i] = Start(q) /\ queue'[j] = Start(q) => i = j
    BY <1>1, <1>2 DEF Faithful, StartsOnce
  <2> QED
    BY <2>2, <2>3, <2>4 DEF StartsOnce, Start
<1>15. Truthful(q)'
  <2>1. ASSUME NEW e \in Waits(q) PROVE SaysTrue(q, e)'
    <3>1. SaysTrue(q, e) /\ ~Ends(e) /\ ~Succeeded(e)
      BY <1>1, <1>5 DEF Faithful, Truthful
    <3> QED
      BY <1>12, <3>1 DEF SaysTrue, Ends, Succeeded
  <2>2. \A e \in Waits(q)' : SaysTrue(q, e)'
    BY <1>4, <1>7, <2>1
  <2>3. \A a \in attempts' : a.req = q => AttemptTrue(q, a)' /\ a.channel = Shown(Tried(q, a.no))'
    BY <1>1, <1>2, <1>12 DEF Faithful, Truthful, Shown
  <2> QED
    BY <1>2, <1>5, <2>2, <2>3 DEF Truthful
<1>16. Sealed(q)'
  BY <1>2, <1>3, <1>5, <1>6 DEF Sealed, Says, Ends
<1>17. Recorded(q)'
  <2> SUFFICES ASSUME q \notin lost, NEW i \in 1..Len(trail'[q]), trail'[q][i].f.recorded
               PROVE  \/ Cleared(q)'
                      \/ \E e \in Waits(q)' : e.type = "attempt" /\ e.no = i
                      \/ \E a \in attempts' : a.req = q /\ a.no = i
    BY <1>2 DEF Recorded
  <2>1. phase[q] # "new"
    BY <1>11 DEF Speaks
  <2>2. Cleared(q) => Cleared(q)'
    BY <1>2, <1>3, <1>4, <2>1 DEF Cleared, Start
  <2>3. CASE i \in 1..n
    BY <1>1, <1>2, <1>4, <1>10, <2>2, <2>3 DEF Faithful, Recorded
  <2>4. CASE i \notin 1..n
    <3>1. PICK t \in Failed :
            /\ trail'[q] = Append(trail[q], t)
            /\ t.f.recorded => \E k \in 1..Len(es) : es[k].type = "attempt" /\ es[k].no = n + 1
      BY <2>4 DEF Speaks
    <3>2. i = n + 1 /\ trail'[q][i] = t
      BY <1>9, <2>4, <3>1
    <3> QED
      BY <1>4, <3>1, <3>2
  <2> QED
    BY <2>3, <2>4
<1>18. Backed(q)'
  BY <1>2, <1>3, <1>5, <1>6 DEF Backed, Says, Succeeded
<1>19. Repairing(q)'
  BY <1>1, <1>2 DEF Faithful, Repairing, Over
<1>20. LastWord(q)'
  BY <1>2 DEF Speaks, LastWord, Silent
<1> QED
  BY <1>13, <1>14, <1>15, <1>16, <1>17, <1>18, <1>19, <1>20 DEF Faithful

(* A step that is none of a request's business.                            *)
Keeps(r) == phase'[r] = phase[r] /\ trail'[r] = trail[r] /\ answer'[r] = answer[r]
SameRows(r) == \A a : a.req = r => (a \in attempts' <=> a \in attempts)

LEMMA Untouched ==
  ASSUME NEW r \in Requests, Faithful(r), Keeps(r), SameRows(r), out'[r] = out[r], queue' = queue,
         log'[r] = log[r], channels' = channels, r \in lost => r \in lost', repair'[r] = repair[r],
         repair[r] = "due" => \A q \in Requests : repair'[q] = "due"
  PROVE  Faithful(r)'
<1>1. Waits(r)' = Waits(r)
  BY DEF Waits
<1>2. Silent(r)' <=> Silent(r)
  BY DEF Silent
<1>3. \A a : AttemptTrue(r, a)' <=> AttemptTrue(r, a)
  BY DEF Keeps, AttemptTrue, Over
<1>4. \A k : Tried(r, k)' = Tried(r, k)
  BY DEF Keeps, Tried
<1>5. \A e : SaysTrue(r, e) => SaysTrue(r, e)'
  BY <1>3, <1>4 DEF Keeps, SaysTrue, Over
<1>6. Own(r)' /\ Fresh(r)'
  BY <1>2 DEF Faithful, Own, Fresh, Keeps, SameRows
<1>7. StartsOnce(r)'
  <2>1. Start(r) \in Waits(r)' => log'[r] = Absent /\ \A a \in attempts' : a.req # r
    BY <1>1 DEF Faithful, StartsOnce, SameRows
  <2> QED
    BY <2>1 DEF Faithful, StartsOnce, Start
<1>8. Truthful(r)'
  <2>1. \A e \in Waits(r)' : SaysTrue(r, e)'
    BY <1>1, <1>5 DEF Faithful, Truthful
  <2>2. \A a \in attempts' : a.req = r => AttemptTrue(r, a)' /\ a.channel = Shown(Tried(r, a.no))'
    BY <1>3, <1>4 DEF Faithful, Truthful, SameRows, Shown
  <2> QED
    BY <2>1, <2>2 DEF Faithful, Truthful, Keeps, Shown, Over
<1>9. Sealed(r)'
  BY <1>2 DEF Faithful, Sealed, Ends
<1>10. Cleared(r) => Cleared(r)'
  BY <1>1 DEF Cleared, Start
<1>11. Recorded(r)'
  BY <1>1, <1>10 DEF Faithful, Recorded, Keeps, SameRows
<1>12. \A a : Good(r, a)' <=> Good(r, a)
  BY DEF Good, Keeps
<1>13. HasGood(r) => HasGood(r)'
  <2>1. \A a : Good(r, a) => a.req = r
    BY DEF Good
  <2> QED
    BY <1>10, <1>12, <2>1 DEF HasGood, SameRows
<1>14. Backed(r)'
  BY <1>12, <1>13 DEF Faithful, Backed, Succeeded
<1>15. Repairing(r)'
  <2>1. LastCut(r)' = LastCut(r)
    BY DEF LastCut, SameRows
  <2> QED
    BY <1>2, <2>1 DEF Faithful, Repairing, Over, Keeps, IsLogged
<1>16. LastWord(r)'
  <2>1. \A e : EndFits(r, e)' <=> EndFits(r, e)
    BY DEF EndFits, Keeps
  <2>2. RowFits(r)' <=> RowFits(r)
    BY DEF RowFits, Keeps, Matches
  <2> QED
    BY <1>2, <2>1, <2>2 DEF Faithful, LastWord, Keeps, IsLogged
<1> QED
  BY <1>6, <1>7, <1>8, <1>9, <1>11, <1>14, <1>15, <1>16 DEF Faithful

-----------------------------------------------------------------------------
(* emit *)
LEMMA TailIs ==
  ASSUME NEW S, NEW s \in Seq(S), s # <<>>
  PROVE  /\ Head(s) = s[1] /\ Tail(s) \in Seq(S) /\ Len(Tail(s)) = Len(s) - 1 /\ Len(s) \in Nat \ {0}
         /\ \A i \in 1..Len(s) - 1 : i + 1 \in 1..Len(s) /\ Tail(s)[i] = s[i + 1]
OBVIOUS

LEMMA AppendIs ==
  ASSUME NEW S, NEW s \in Seq(S), NEW e \in S
  PROVE  /\ Append(s, e) \in Seq(S) /\ Len(Append(s, e)) = Len(s) + 1 /\ Append(s, e)[Len(s) + 1] = e
         /\ \A i \in 1..Len(s) : Append(s, e)[i] = s[i]
         /\ Len(s) \in Nat
OBVIOUS

(* The next event of q takes its place at the end of the channel.          *)
LEMMA EmitQueues ==
  ASSUME AnswerInv, RowsInv, NEW q \in Requests, Emit(q), UNCHANGED reqVars, Len(queue) < Capacity,
         NEW r \in Requests
  PROVE  Faithful(r)'
<1> DEFINE n == Len(queue)
           m == Len(out[q])
<1>1. PICK e : e = out[q][1]
  OBVIOUS
<1>2. /\ LogShape /\ Faithful(r) /\ Faithful(q) /\ out[q] \in Seq(Events) /\ queue \in Seq(Events)
  BY DEF RowsInv, LogShape
<1>3. /\ out[q] # <<>> /\ out' = [out EXCEPT ![q] = Tail(out[q])]
      /\ queue' = Append(queue, Head(out[q]))
      /\ UNCHANGED <<lost, log, attempts, channels, repair, phase, trail, answer>>
  BY DEF Emit, reqVars
<1>4. /\ out'[q] \in Seq(Events) /\ Len(out'[q]) = m - 1 /\ m \in Nat \ {0} /\ Head(out[q]) = e
      /\ \A k \in 1..m - 1 : k + 1 \in 1..m /\ out'[q][k] = out[q][k + 1]
  BY <1>1, <1>2, <1>3, TailIs DEF LogShape
<1>5. e \in Events /\ e.req = q
  BY <1>1, <1>2, <1>4 DEF Faithful, Own
<1>6. /\ queue' \in Seq(Events) /\ Len(queue') = n + 1 /\ queue'[n + 1] = e /\ n \in Nat
      /\ \A i \in 1..n : queue'[i] = queue[i]
  BY <1>2, <1>3, <1>4, <1>5, AppendIs
<1>7. \A p : Keeps(p)
  BY <1>3 DEF Keeps
<1>8. \A p, a : AttemptTrue(p, a)' <=> AttemptTrue(p, a)
  BY <1>3 DEF AttemptTrue, Over
<1>9. \A p, k : Tried(p, k)' = Tried(p, k)
  BY <1>3 DEF Tried
<1>10. \A p, x : SaysTrue(p, x)' <=> SaysTrue(p, x)
  BY <1>3, <1>8, <1>9 DEF SaysTrue, Over
<1>11. \A x : (EndFits(r, x)' <=> EndFits(r, x)) /\ (Good(r, x)' <=> Good(r, x))
  BY <1>3 DEF EndFits, Good
<1>12. \A x : x \in Waits(r)' <=> x \in Waits(r)
  <2>1. CASE r # q
    <3>1. out'[r] = out[r]
      BY <1>2, <1>3, <2>1 DEF LogShape
    <3> QED
      BY <1>5, <1>6, <2>1, <3>1, Waiting DEF Waits
  <2>2. CASE r = q
    <3> SUFFICES ASSUME NEW x PROVE x \in Waits(q)' <=> x \in Waits(q)
      BY <2>2
    <3>1. (\E k \in 1..m : out[q][k] = x) <=> x = e \/ \E k \in 1..m - 1 : out'[q][k] = x
      <4>1. ASSUME NEW k \in 1..m, k # 1 PROVE k - 1 \in 1..m - 1 /\ out'[q][k - 1] = out[q][k]
        <5>1. k - 1 \in 1..m - 1 /\ (k - 1) + 1 = k
          BY <1>4, <4>1
        <5> QED
          BY <1>4, <5>1
      <4>2. 1 \in 1..m /\ out[q][1] = e
        BY <1>1, <1>4
      <4> QED
        BY <1>4, <4>1, <4>2
    <3>2. (\E i \in 1..n + 1 : queue'[i].req = q /\ queue'[i] = x)
             <=> x = e \/ \E i \in 1..n : queue[i].req = q /\ queue[i] = x
      BY <1>5, <1>6
    <3>3. x \in Waits(q)' <=> \/ \E i \in 1..n + 1 : queue'[i].req = q /\ queue'[i] = x
                              \/ \E k \in 1..m - 1 : out'[q][k] = x
      BY <1>4, <1>6 DEF Waits
    <3> QED
      BY <3>1, <3>2, <3>3, Waiting
  <2> QED
    BY <2>1, <2>2
<1>13. Truthful(r)'
  BY <1>2, <1>3, <1>8, <1>9, <1>10, <1>12 DEF Faithful, Truthful, Shown, Over
<1>14. Recorded(r)' /\ (HasGood(r)' <=> HasGood(r))
  <2>1. Cleared(r)' <=> Cleared(r)
    BY <1>3, <1>12 DEF Cleared, Start
  <2> QED
    BY <1>2, <1>3, <1>11, <1>12, <2>1 DEF Faithful, Recorded, HasGood
<1>15. CASE r # q
  <2>1. out'[r] = out[r]
    BY <1>2, <1>3, <1>15 DEF LogShape
  <2>2. Silent(r)' <=> Silent(r)
    BY <1>5, <1>6, <1>15, <2>1 DEF Silent
  <2>3. e # Start(r)
    BY <1>5, <1>15 DEF Start
  <2>4. Own(r)' /\ Fresh(r)'
    BY <1>2, <1>3, <2>1, <2>2 DEF Faithful, Own, Fresh
  <2>5. StartsOnce(r)'
    <3>1. \A i \in 1..Len(queue') :
            \/ queue'[i] # Start(r)
            \/ i \in 1..n /\ queue'[i] = queue[i]
      BY <1>6, <2>3
    <3>2. /\ \A i, j \in 1..Len(queue') : queue'[i] = Start(r) /\ queue'[j] = Start(r) => i = j
          /\ \A k \in 1..Len(out'[r]) :
               out'[r][k] = Start(r) => k = 1 /\ \A i \in 1..Len(queue') : queue'[i] # Start(r)
      BY <1>2, <2>1, <3>1 DEF Faithful, StartsOnce
    <3>3. Start(r) \in Waits(r)' => log'[r] = Absent /\ \A a \in attempts' : a.req # r
      BY <1>2, <1>3, <1>12 DEF Faithful, StartsOnce
    <3> QED
      BY <3>2, <3>3 DEF StartsOnce, Start
  <2>6. Sealed(r)'
    BY <1>2, <1>3, <1>5, <1>6, <1>15, <2>1, <2>2 DEF Faithful, Sealed, Ends
  <2>7. Backed(r)'
    BY <1>2, <1>3, <1>5, <1>6, <1>11, <1>14, <1>15, <2>1 DEF Faithful, Backed, Succeeded
  <2>8. Repairing(r)'
    BY <1>2, <1>3, <2>2 DEF Faithful, Repairing, Over, IsLogged, LastCut
  <2>9. LastWord(r)'
    BY <1>2, <1>3, <1>5, <1>6, <1>11, <1>15, <2>1, <2>2
       DEF Faithful, LastWord, RowFits, IsLogged, Matches
  <2> QED
    BY <1>13, <1>14, <2>4, <2>5, <2>6, <2>7, <2>8, <2>9 DEF Faithful
<1>16. CASE r = q
  <2>1. ~Silent(q) /\ ~Silent(q)'
    BY <1>3, <1>5, <1>6 DEF Silent
  <2>2. \A k \in 1..m : out[q][k].req = q
    BY <1>2 DEF Faithful, Own
  <2>3. Own(q)' /\ Fresh(q)' /\ Repairing(q)'
    BY <1>2, <1>3, <1>4, <2>1, <2>2 DEF Faithful, Own, Fresh, Repairing
  <2>4. StartsOnce(q)'
    <3>1. \A i, j \in 1..Len(queue') : queue'[i] = Start(q) /\ queue'[j] = Start(q) => i = j
      <4>1. \A i, j \in 1..n : queue[i] = Start(q) /\ queue[j] = Start(q) => i = j
        BY <1>2 DEF Faithful, StartsOnce
      <4>2. e = Start(q) => \A i \in 1..n : queue[i] # Start(q)
        BY <1>1, <1>2, <1>4 DEF Faithful, StartsOnce
      <4>3. \A i \in 1..Len(queue') : i = n + 1 \/ (i \in 1..n /\ queue'[i] = queue[i])
        BY <1>6
      <4> QED
        BY <1>6, <4>1, <4>2, <4>3
    <3>2. \A k \in 1..Len(out'[q]) : out'[q][k] # Start(q)
      <4>1. \A k \in 1..m : out[q][k] = Start(q) => k = 1
        BY <1>2 DEF Faithful, StartsOnce
      <4>2. \A k \in 1..Len(out'[q]) : k + 1 \in 1..m /\ k + 1 # 1 /\ out'[q][k] = out[q][k + 1]
        <5> SUFFICES ASSUME NEW k \in 1..m - 1
                     PROVE  k + 1 \in 1..m /\ k + 1 # 1 /\ out'[q][k] = out[q][k + 1]
          BY <1>4
        <5>1. k + 1 # 1
          BY <1>4
        <5> QED
          BY <1>4, <5>1
      <4> QED
        BY <4>1, <4>2
    <3>3. Start(q) \in Waits(q)' => log'[q] = Absent /\ \A a \in attempts' : a.req # q
      BY <1>2, <1>3, <1>12, <1>16 DEF Faithful, StartsOnce
    <3> QED
      BY <3>1, <3>2, <3>3 DEF StartsOnce, Start
  <2>5. Sealed(q)'
    <3>1. \A k \in 1..Len(out'[q]) : Ends(out'[q][k]) => k = Len(out'[q])
      BY <1>2, <1>4 DEF Faithful, Sealed
    <3>2. \A i \in 1..n : queue[i].req = q => ~Ends(queue[i])
      BY <1>2, <1>3 DEF Faithful, Sealed
    <3>3. Ends(e) => out'[q] = <<>>
      BY <1>1, <1>2, <1>4 DEF Faithful, Sealed
    <3>4. log'[q].status # 200
      BY <1>2, <1>3, <2>1 DEF Faithful, Sealed
    <3> QED
      BY <1>6, <3>1, <3>2, <3>3, <3>4 DEF Sealed, Ends
  <2>6. Backed(q)'
    <3> SUFFICES ASSUME q \notin lost PROVE Backed(q)'
      BY <1>3 DEF Backed
    <3>1. ASSUME NEW k \in 1..Len(out'[q]), Succeeded(out'[q][k])
          PROVE  \/ HasGood(q) \/ \E j \in 1..k - 1 : Good(q, out'[q][j])
                 \/ \E j \in 1..n + 1 : Good(q, queue'[j])
      <4>1. k + 1 \in 1..m /\ Succeeded(out[q][k + 1]) /\ (k + 1) - 1 = k
        <5>1. k \in 1..m - 1
          BY <1>4
        <5>2. m \in Nat \ {0}
          BY <1>4
        <5>3. (k + 1) - 1 = k
          <6> HIDE DEF m
          <6> QED
            BY <5>1, <5>2
        <5>4. k + 1 \in 1..m /\ out'[q][k] = out[q][k + 1]
          BY <1>4, <5>1
        <5> QED
          BY <3>1, <5>3, <5>4
      <4>2. \/ HasGood(q) \/ \E j \in 1..k : Good(q, out[q][j])
            \/ \E j \in 1..n : Good(q, queue[j])
        BY <1>2, <4>1 DEF Faithful, Backed
      <4>3. ASSUME NEW j \in 1..k, Good(q, out[q][j])
            PROVE  \/ \E i \in 1..k - 1 : Good(q, out'[q][i])
                   \/ \E i \in 1..n + 1 : Good(q, queue'[i])
        <5>1. CASE j = 1
          BY <1>1, <1>6, <4>3, <5>1
        <5>2. CASE j # 1
          <6>1. j - 1 \in 1..k - 1 /\ j - 1 \in 1..m - 1 /\ (j - 1) + 1 = j
            BY <1>4, <4>1, <5>2
          <6>2. out'[q][j - 1] = out[q][j]
            BY <1>4, <6>1
          <6> QED
            BY <4>3, <6>1, <6>2
        <5> QED
          BY <5>1, <5>2
      <4> QED
        BY <1>6, <4>2, <4>3
    <3>2. ASSUME NEW i \in 1..n + 1, queue'[i].req = q, Succeeded(queue'[i])
          PROVE  HasGood(q) \/ \E j \in 1..i - 1 : Good(q, queue'[j])
      <4>1. CASE i \in 1..n
        <5>1. HasGood(q) \/ \E j \in 1..i - 1 : Good(q, queue[j])
          BY <1>2, <1>6, <3>2, <4>1 DEF Faithful, Backed
        <5>2. \A j \in 1..i - 1 : j \in 1..n
          BY <1>6, <4>1
        <5> QED
          BY <1>6, <5>1, <5>2
      <4>2. CASE i = n + 1
        <5>1. 1 \in 1..m /\ Succeeded(out[q][1])
          BY <1>1, <1>4, <1>6, <3>2, <4>2
        <5>2. \/ HasGood(q) \/ \E j \in 1..1 - 1 : Good(q, out[q][j])
              \/ \E j \in 1..n : Good(q, queue[j])
          BY <1>2, <5>1 DEF Faithful, Backed
        <5> QED
          BY <1>6, <4>2, <5>2
      <4> QED
        BY <1>6, <4>1, <4>2
    <3>3. log'[q].outcome = "success" /\ repair'[q] # "half" => HasGood(q)
      BY <1>2, <1>3 DEF Faithful, Backed
    <3> QED
      BY <1>6, <1>11, <1>14, <1>16, <3>1, <3>2, <3>3 DEF Backed, Succeeded
  <2>7. LastWord(q)'
    <3> SUFFICES ASSUME phase[q] = "over", q \notin lost
                 PROVE  /\ out'[q] # <<>> => EndFits(q, out'[q][Len(out'[q])])
                        /\ out'[q] = <<>> => \A i \in 1..n + 1 :
                             queue'[i].req = q /\ (\A j \in i + 1..n + 1 : queue'[j].req # q)
                                => EndFits(q, queue'[i])
      BY <1>3, <1>6, <1>11, <1>16, <2>1 DEF LastWord
    <3>1. EndFits(q, out[q][m])
      BY <1>2, <1>3 DEF Faithful, LastWord
    <3>2. out'[q] # <<>> => EndFits(q, out'[q][Len(out'[q])])
      <4>1. ASSUME out'[q] # <<>> PROVE m - 1 \in 1..m - 1 /\ (m - 1) + 1 = m
        BY <1>4, <4>1
      <4> QED
        BY <1>4, <3>1, <4>1
    <3>3. ASSUME out'[q] = <<>>, NEW i \in 1..n + 1, queue'[i].req = q,
                 \A j \in i + 1..n + 1 : queue'[j].req # q
          PROVE  EndFits(q, queue'[i])
      <4>1. m = 1
        BY <1>4, <3>3
      <4>2. i = n + 1
        BY <1>5, <1>6, <3>3
      <4> QED
        BY <1>1, <1>6, <3>1, <4>1, <4>2
    <3> QED
      BY <3>2, <3>3
  <2> QED
    BY <1>13, <1>14, <1>16, <2>3, <2>4, <2>5, <2>6, <2>7 DEF Faithful
<1> QED
  BY <1>15, <1>16

(* Or it is dropped, and if it was to be a row its request is lost.        *)
LEMMA EmitDrops ==
  ASSUME AnswerInv, RowsInv, NEW q \in Requests, Emit(q), UNCHANGED reqVars, ~(Len(queue) < Capacity),
         NEW r \in Requests
  PROVE  Faithful(r)'
<1> DEFINE n == Len(queue)
           m == Len(out[q])
<1>1. PICK e : e = out[q][1]
  OBVIOUS
<1>2. /\ LogShape /\ Faithful(r) /\ Faithful(q) /\ out[q] \in Seq(Events) /\ queue \in Seq(Events)
  BY DEF RowsInv, LogShape
<1>3. /\ out[q] # <<>> /\ out' = [out EXCEPT ![q] = Tail(out[q])]
      /\ lost' = lost \cup LosesRow(Head(out[q]))
      /\ UNCHANGED <<queue, log, attempts, channels, repair, phase, trail, answer>>
  BY DEF Emit, reqVars
<1>4. /\ out'[q] \in Seq(Events) /\ Len(out'[q]) = m - 1 /\ m \in Nat \ {0} /\ Head(out[q]) = e
      /\ \A k \in 1..m - 1 : k + 1 \in 1..m /\ out'[q][k] = out[q][k + 1]
  BY <1>1, <1>2, <1>3, TailIs DEF LogShape
<1>5. e \in Events /\ e.req = q
  BY <1>1, <1>2, <1>4 DEF Faithful, Own
<1>6. \A p : Keeps(p)
  BY <1>3 DEF Keeps
<1>7. CASE r # q
  <2>1. out'[r] = out[r] /\ SameRows(r) /\ (r \in lost => r \in lost')
    BY <1>2, <1>3, <1>7 DEF LogShape, SameRows
  <2>2. repair[r] = "due" => \A p \in Requests : repair'[p] = "due"
    BY <1>2, <1>3 DEF Faithful, Repairing
  <2> QED
    BY <1>2, <1>3, <1>6, <2>1, <2>2, Untouched
<1>8. CASE r = q
  <2>1. \A x : x \in Waits(q)' => x \in Waits(q)
    BY <1>3, <1>4 DEF Waits
  <2>2. \A x : x \in Waits(q) => x \in Waits(q)' \/ x = e
    <3> SUFFICES ASSUME NEW x, x \in Waits(q) PROVE x \in Waits(q)' \/ x = e
      OBVIOUS
    <3>1. x \in Waits(q)' <=> \/ \E i \in 1..n : queue[i].req = q /\ queue[i] = x
                              \/ \E k \in 1..m - 1 : out'[q][k] = x
      BY <1>3, <1>4 DEF Waits
    <3>2. ASSUME NEW k \in 1..m, out[q][k] = x, k # 1 PROVE \E j \in 1..m - 1 : out'[q][j] = x
      <4>1. k - 1 \in 1..m - 1 /\ (k - 1) + 1 = k
        BY <1>4, <3>2
      <4> QED
        BY <1>4, <3>2, <4>1
    <3> QED
      BY <1>1, <3>1, <3>2, Waiting
  <2>3. \A p, a : AttemptTrue(p, a)' <=> AttemptTrue(p, a)
    BY <1>3 DEF AttemptTrue, Over
  <2>4. \A p, k : Tried(p, k)' = Tried(p, k)
    BY <1>3 DEF Tried
  <2>5. \A p, x : SaysTrue(p, x)' <=> SaysTrue(p, x)
    BY <1>3, <2>3, <2>4 DEF SaysTrue, Over
  <2>6. \A x : (EndFits(q, x)' <=> EndFits(q, x)) /\ (Good(q, x)' <=> Good(q, x))
    BY <1>3 DEF EndFits, Good
  <2>7. ~Silent(q)
    BY <1>3 DEF Silent
  <2>8. Own(q)' /\ Fresh(q)' /\ Repairing(q)'
    BY <1>2, <1>3, <1>4, <2>7 DEF Faithful, Own, Fresh, Repairing
  <2>9. StartsOnce(q)'
    <3>1. \A k \in 1..Len(out'[q]) : out'[q][k] # Start(q)
      <4>1. \A k \in 1..m : out[q][k] = Start(q) => k = 1
        BY <1>2 DEF Faithful, StartsOnce
      <4>2. \A k \in 1..Len(out'[q]) : k + 1 \in 1..m /\ k + 1 # 1 /\ out'[q][k] = out[q][k + 1]
        <5> SUFFICES ASSUME NEW k \in 1..m - 1
                     PROVE  k + 1 \in 1..m /\ k + 1 # 1 /\ out'[q][k] = out[q][k + 1]
          BY <1>4
        <5>1. k + 1 # 1
          BY <1>4
        <5> QED
          BY <1>4, <5>1
      <4> QED
        BY <4>1, <4>2
    <3>2. Start(q) \in Waits(q)' => log'[q] = Absent /\ \A a \in attempts' : a.req # q
      BY <1>2, <1>3, <2>1 DEF Faithful, StartsOnce
    <3> QED
      BY <1>2, <1>3, <3>1, <3>2 DEF Faithful, StartsOnce, Start
  <2>10. Truthful(q)'
    BY <1>2, <1>3, <2>1, <2>3, <2>4, <2>5 DEF Faithful, Truthful, Shown, Over
  <2>11. Sealed(q)'
    <3>1. \A k \in 1..Len(out'[q]) : Ends(out'[q][k]) => k = Len(out'[q])
      BY <1>2, <1>4 DEF Faithful, Sealed
    <3>2. \A i \in 1..n : queue[i].req = q => ~Ends(queue[i])
      BY <1>2, <1>3 DEF Faithful, Sealed
    <3>3. log'[q].status # 200
      BY <1>2, <1>3, <2>7 DEF Faithful, Sealed
    <3> QED
      BY <1>3, <3>1, <3>2, <3>3 DEF Sealed, Ends
  <2>12. CASE e.type # "health"
    <3>1. q \in lost'
      BY <1>3, <1>4, <1>5, <2>12 DEF LosesRow
    <3>2. Recorded(q)' /\ Backed(q)' /\ LastWord(q)'
      BY <3>1 DEF Recorded, Backed, LastWord
    <3> QED
      BY <1>8, <2>8, <2>9, <2>10, <2>11, <3>2 DEF Faithful
  <2>13. CASE e.type = "health"
    <3>1. lost' = lost
      BY <1>3, <1>4, <2>13 DEF LosesRow
    <3>2. Cleared(q)' <=> Cleared(q)
      BY <1>3, <2>1, <2>2, <2>13 DEF Cleared, Start
    <3>3. Recorded(q)'
      BY <1>2, <1>3, <2>2, <2>13, <3>1, <3>2 DEF Faithful, Recorded
    <3>4. HasGood(q)' <=> HasGood(q)
      BY <1>3, <2>6, <3>2 DEF HasGood
    <3>5. Backed(q)'
      <4> SUFFICES ASSUME q \notin lost PROVE Backed(q)'
        BY <3>1 DEF Backed
      <4>1. ASSUME NEW k \in 1..Len(out'[q]), Succeeded(out'[q][k])
            PROVE  \/ HasGood(q) \/ \E j \in 1..k - 1 : Good(q, out'[q][j])
                   \/ \E j \in 1..n : Good(q, queue[j])
        <5>1. k + 1 \in 1..m /\ Succeeded(out[q][k + 1]) /\ (k + 1) - 1 = k
          BY <1>4, <4>1
        <5>2. \/ HasGood(q) \/ \E j \in 1..k : Good(q, out[q][j])
              \/ \E j \in 1..n : Good(q, queue[j])
          BY <1>2, <5>1 DEF Faithful, Backed
        <5>3. ASSUME NEW j \in 1..k, Good(q, out[q][j])
              PROVE  \E i \in 1..k - 1 : Good(q, out'[q][i])
          <6>1. j # 1
            BY <1>1, <2>13, <5>3 DEF Good
          <6>2. j - 1 \in 1..k - 1 /\ j - 1 \in 1..m - 1 /\ (j - 1) + 1 = j
            BY <1>4, <5>1, <6>1
          <6>3. out'[q][j - 1] = out[q][j]
            BY <1>4, <6>2
          <6> QED
            BY <5>3, <6>2, <6>3
        <5> QED
          BY <5>2, <5>3
      <4>2. \A i \in 1..n : queue[i].req = q /\ Succeeded(queue[i]) =>
              HasGood(q) \/ \E j \in 1..i - 1 : Good(q, queue[j])
        BY <1>2 DEF Faithful, Backed
      <4>3. log[q].outcome = "success" /\ repair[q] # "half" => HasGood(q)
        BY <1>2 DEF Faithful, Backed
      <4> QED
        BY <1>3, <2>6, <3>4, <4>1, <4>2, <4>3 DEF Backed, Succeeded
    <3>6. LastWord(q)'
      <4>1. ASSUME phase[q] = "over", q \notin lost
            PROVE  out'[q] # <<>> /\ EndFits(q, out'[q][Len(out'[q])])
        <5>1. EndFits(q, out[q][m])
          BY <1>2, <1>3, <4>1 DEF Faithful, LastWord
        <5>2. m # 1
          BY <1>1, <2>13, <5>1 DEF EndFits
        <5>3. m - 1 \in 1..m - 1 /\ (m - 1) + 1 = m
          <6>1. m \in Nat \ {0}
            BY <1>4
          <6> HIDE DEF m
          <6> QED
            BY <5>2, <6>1
        <5>4. out'[q] # <<>>
          BY <1>4, <5>3
        <5> QED
          BY <1>4, <5>1, <5>3, <5>4
      <4>2. phase'[q] = phase[q] /\ lost' = lost
        BY <1>3, <3>1
      <4>3. (\A x : EndFits(q, x)' <=> EndFits(q, x)) /\ (Silent(q)' => out'[q] = <<>>)
        BY <2>6 DEF Silent
      <4> QED
        BY <4>1, <4>2, <4>3 DEF LastWord
    <3> QED
      BY <1>8, <2>8, <2>9, <2>10, <2>11, <3>3, <3>5, <3>6 DEF Faithful
  <2> QED
    BY <2>12, <2>13
<1> QED
  BY <1>7, <1>8

-----------------------------------------------------------------------------
(* The writer takes the event e out of the channel.                        *)
Takes(e) ==
  /\ queue # <<>> /\ queue' = Tail(queue) /\ e = queue[1]
  /\ UNCHANGED <<out, channels, repair, phase, trail, answer>>

SameWords(r) ==
  /\ \A a : AttemptTrue(r, a)' <=> AttemptTrue(r, a)
  /\ \A k : Tried(r, k)' = Tried(r, k)
  /\ \A x : SaysTrue(r, x)' <=> SaysTrue(r, x)
  /\ \A x : EndFits(r, x)' <=> EndFits(r, x)
  /\ \A x : Good(r, x)' <=> Good(r, x)
  /\ Over(r)' <=> Over(r)

LEMMA WordsStay ==
  ASSUME NEW r, Keeps(r) PROVE SameWords(r)
<1>1. Over(r)' <=> Over(r)
  BY DEF Keeps, Over
<1>2. \A a : AttemptTrue(r, a)' <=> AttemptTrue(r, a)
  BY <1>1 DEF Keeps, AttemptTrue
<1>3. \A k : Tried(r, k)' = Tried(r, k)
  BY DEF Keeps, Tried
<1>4. \A x : SaysTrue(r, x)' <=> SaysTrue(r, x)
  BY <1>1, <1>2, <1>3 DEF Keeps, SaysTrue
<1>5. \A x : EndFits(r, x)' <=> EndFits(r, x)
  BY DEF Keeps, EndFits
<1>6. \A x : Good(r, x)' <=> Good(r, x)
  BY DEF Keeps, Good
<1> QED
  BY <1>1, <1>2, <1>3, <1>4, <1>5, <1>6, Zenon DEF SameWords

LEMMA TakesQueue ==
  ASSUME LogShape, NEW e, Takes(e)
  PROVE  /\ e \in Events /\ queue' \in Seq(Events) /\ Len(queue) \in Nat \ {0}
         /\ Len(queue') = Len(queue) - 1
         /\ \A i \in 1..Len(queue') : i + 1 \in 2..Len(queue) /\ queue'[i] = queue[i + 1]
         /\ \A i \in 2..Len(queue) : i - 1 \in 1..Len(queue') /\ queue'[i - 1] = queue[i]
<1>1. queue \in Seq(Events) /\ queue # <<>> /\ queue' = Tail(queue) /\ e = queue[1]
  BY DEF LogShape, Takes
<1>2. /\ queue' \in Seq(Events) /\ Len(queue') = Len(queue) - 1 /\ Len(queue) \in Nat \ {0}
      /\ \A i \in 1..Len(queue) - 1 : i + 1 \in 1..Len(queue) /\ queue'[i] = queue[i + 1]
  BY <1>1, TailIs
<1>3. \A i \in 2..Len(queue) : i - 1 \in 1..Len(queue) - 1 /\ (i - 1) + 1 = i
  BY <1>2
<1>4. e \in Events
  BY <1>1
<1> QED
  BY <1>2, <1>3, <1>4

LEMMA TakesWaits ==
  ASSUME LogShape, NEW e, Takes(e), NEW r \in Requests
  PROVE  /\ \A x : x \in Waits(r)' => x \in Waits(r)
         /\ \A x : x \in Waits(r) => x \in Waits(r)' \/ (x = e /\ e.req = r)
         /\ Silent(r)' => out[r] = <<>> /\ \A i \in 2..Len(queue) : queue[i].req # r
         /\ (e.req # r => (Silent(r)' <=> Silent(r))) /\ (Silent(r) => Silent(r)' /\ e.req # r)
<1>1. /\ e \in Events /\ Len(queue) \in Nat \ {0} /\ Len(queue') = Len(queue) - 1
      /\ \A i \in 1..Len(queue') : i + 1 \in 2..Len(queue) /\ queue'[i] = queue[i + 1]
      /\ \A i \in 2..Len(queue) : i - 1 \in 1..Len(queue') /\ queue'[i - 1] = queue[i]
      /\ queue[1] = e /\ out' = out
  BY TakesQueue DEF Takes
<1>2. \A i \in 1..Len(queue) : i = 1 \/ i \in 2..Len(queue)
  BY <1>1
<1>3. \A i \in 2..Len(queue) : i \in 1..Len(queue)
  BY <1>1
<1>4. 1 \in 1..Len(queue)
  BY <1>1
<1>5. ASSUME NEW x PROVE /\ x \in Waits(r)' => x \in Waits(r)
                         /\ x \in Waits(r) => x \in Waits(r)' \/ (x = e /\ e.req = r)
  <2>1. x \in Waits(r)' <=> \/ \E i \in 1..Len(queue') : queue'[i].req = r /\ queue'[i] = x
                            \/ \E k \in 1..Len(out[r]) : out[r][k] = x
    BY <1>1 DEF Waits
  <2>2. x \in Waits(r) <=> \/ \E i \in 1..Len(queue) : queue[i].req = r /\ queue[i] = x
                           \/ \E k \in 1..Len(out[r]) : out[r][k] = x
    BY Waiting
  <2>3. (\E i \in 1..Len(queue') : queue'[i].req = r /\ queue'[i] = x)
          <=> \E i \in 2..Len(queue) : queue[i].req = r /\ queue[i] = x
    BY <1>1
  <2>4. (\E i \in 1..Len(queue) : queue[i].req = r /\ queue[i] = x)
          <=> \/ e.req = r /\ e = x
              \/ \E i \in 2..Len(queue) : queue[i].req = r /\ queue[i] = x
    BY <1>1, <1>2, <1>3, <1>4
  <2> QED
    BY <2>1, <2>2, <2>3, <2>4
<1>6. Silent(r)' <=> out[r] = <<>> /\ \A i \in 2..Len(queue) : queue[i].req # r
  BY <1>1 DEF Silent
<1>7. Silent(r) <=> out[r] = <<>> /\ e.req # r /\ \A i \in 2..Len(queue) : queue[i].req # r
  BY <1>1, <1>2, <1>3, <1>4 DEF Silent
<1> QED
  BY <1>5, <1>6, <1>7

(* What the writer does not touch but by taking the event.                 *)
LEMMA TakesFaithful ==
  ASSUME LogShape, NEW e, Takes(e), NEW r \in Requests, Faithful(r)
  PROVE  /\ Own(r)' /\ \A x \in Waits(r)' : SaysTrue(r, x)'
         /\ \A i, j \in 1..Len(queue') : queue'[i] = Start(r) /\ queue'[j] = Start(r) => i = j
         /\ \A k \in 1..Len(out'[r]) :
              out'[r][k] = Start(r) => k = 1 /\ \A i \in 1..Len(queue') : queue'[i] # Start(r)
         /\ \A k \in 1..Len(out'[r]) : Ends(out'[r][k]) => k = Len(out'[r])
         /\ \A i \in 1..Len(queue') :
              queue'[i].req = r /\ Ends(queue'[i]) =>
                out'[r] = <<>> /\ \A j \in 1..Len(queue') : queue'[j].req = r => j <= i
         /\ e = Start(r) => Start(r) \notin Waits(r)'
         /\ e.req = r /\ Ends(e) => Silent(r)'
         /\ e.req = r => phase[r] # "new" /\ log[r].status # 200 /\ repair[r] \notin {"listed", "half"}
<1>1. /\ e \in Events /\ Len(queue) \in Nat \ {0} /\ Len(queue') = Len(queue) - 1
      /\ \A i \in 1..Len(queue') : i + 1 \in 2..Len(queue) /\ queue'[i] = queue[i + 1]
      /\ \A i \in 2..Len(queue) : i - 1 \in 1..Len(queue') /\ queue'[i - 1] = queue[i]
      /\ queue[1] = e /\ out' = out
  BY TakesQueue DEF Takes
<1>2. \A i \in 2..Len(queue) : i \in 1..Len(queue)
  BY <1>1
<1>3. 1 \in 1..Len(queue)
  BY <1>1
<1>4. SameWords(r)
  BY WordsStay DEF Takes, Keeps
<1>5. Own(r)' /\ \A x \in Waits(r)' : SaysTrue(r, x)'
  BY <1>1, <1>4, TakesWaits DEF Faithful, Own, Truthful, SameWords
<1>6. \A i, j \in 1..Len(queue') : queue'[i] = Start(r) /\ queue'[j] = Start(r) => i = j
  <2> SUFFICES ASSUME NEW i \in 1..Len(queue'), NEW j \in 1..Len(queue'),
                      queue'[i] = Start(r), queue'[j] = Start(r)
               PROVE  i = j
    OBVIOUS
  <2>1. i + 1 = j + 1
    BY <1>1, <1>2 DEF Faithful, StartsOnce
  <2> QED
    BY <2>1
<1>7. \A k \in 1..Len(out'[r]) :
        out'[r][k] = Start(r) => k = 1 /\ \A i \in 1..Len(queue') : queue'[i] # Start(r)
  BY <1>1, <1>2 DEF Faithful, StartsOnce
<1>8. \A k \in 1..Len(out'[r]) : Ends(out'[r][k]) => k = Len(out'[r])
  BY <1>1 DEF Faithful, Sealed
<1>9. ASSUME NEW i \in 1..Len(queue'), queue'[i].req = r, Ends(queue'[i])
      PROVE  out'[r] = <<>> /\ \A j \in 1..Len(queue') : queue'[j].req = r => j <= i
  <2>1. queue[i + 1].req = r /\ Ends(queue[i + 1]) /\ i + 1 \in 1..Len(queue)
    BY <1>1, <1>2, <1>9
  <2>2. out[r] = <<>> /\ \A j \in 1..Len(queue) : queue[j].req = r => j <= i + 1
    BY <2>1 DEF Faithful, Sealed
  <2>3. ASSUME NEW j \in 1..Len(queue'), queue'[j].req = r PROVE j <= i
    <3>1. j + 1 <= i + 1
      BY <1>1, <1>2, <2>2, <2>3
    <3> QED
      BY <3>1
  <2> QED
    BY <1>1, <2>2, <2>3
<1>10. e = Start(r) => Start(r) \notin Waits(r)'
  <2> SUFFICES ASSUME e = Start(r), Start(r) \in Waits(r)' PROVE FALSE
    OBVIOUS
  <2>1. \A i \in 2..Len(queue) : queue[i] # Start(r)
    BY <1>1, <1>2, <1>3 DEF Faithful, StartsOnce
  <2>2. \A k \in 1..Len(out[r]) : out[r][k] # Start(r)
    BY <1>1, <1>3 DEF Faithful, StartsOnce
  <2>3. \/ \E i \in 1..Len(queue') : queue'[i] = Start(r)
        \/ \E k \in 1..Len(out[r]) : out[r][k] = Start(r)
    BY <1>1 DEF Waits, Start
  <2>4. \A i \in 1..Len(queue') : queue'[i] # Start(r)
    <3>1. \A i \in 1..Len(queue') : i + 1 \in 2..Len(queue) /\ queue'[i] = queue[i + 1]
      BY <1>1
    <3> QED
      BY <2>1, <3>1
  <2> QED
    BY <2>2, <2>3, <2>4
<1>11. e.req = r => ~Silent(r)
  BY <1>1, <1>3 DEF Silent
<1>12. e.req = r /\ Ends(e) => Silent(r)'
  <2> SUFFICES ASSUME e.req = r, Ends(e) PROVE Silent(r)'
    OBVIOUS
  <2>1. out[r] = <<>> /\ \A j \in 1..Len(queue) : queue[j].req = r => j <= 1
    BY <1>1, <1>3 DEF Faithful, Sealed
  <2>2. \A i \in 1..Len(queue') : ~(i + 1 <= 1)
    OBVIOUS
  <2> QED
    BY <1>1, <1>2, <2>1, <2>2 DEF Silent
<1>13. e.req = r => phase[r] # "new" /\ log[r].status # 200 /\ repair[r] \notin {"listed", "half"}
  BY <1>11 DEF Faithful, Fresh, Sealed, Repairing
<1> QED
  BY <1>5, <1>6, <1>7, <1>8, <1>9, <1>10, <1>12, <1>13

(* The rows behind a success, and the last word, while the channel moves.  *)
LEMMA TakesBacked ==
  ASSUME LogShape, NEW e, Takes(e), NEW r \in Requests, Faithful(r), r \notin lost
  PROVE  /\ \A k \in 1..Len(out'[r]) : Succeeded(out'[r][k]) =>
              \/ HasGood(r) \/ Good(r, e) \/ \E j \in 1..k - 1 : Good(r, out'[r][j])
              \/ \E j \in 1..Len(queue') : Good(r, queue'[j])
         /\ \A i \in 1..Len(queue') : queue'[i].req = r /\ Succeeded(queue'[i]) =>
              HasGood(r) \/ Good(r, e) \/ \E j \in 1..i - 1 : Good(r, queue'[j])
         /\ e.req = r /\ Succeeded(e) => HasGood(r)
<1>1. /\ e \in Events /\ Len(queue) \in Nat \ {0} /\ Len(queue') = Len(queue) - 1
      /\ \A i \in 1..Len(queue') : i + 1 \in 2..Len(queue) /\ queue'[i] = queue[i + 1]
      /\ \A i \in 2..Len(queue) : i - 1 \in 1..Len(queue') /\ queue'[i - 1] = queue[i]
      /\ queue[1] = e /\ out' = out
  BY TakesQueue DEF Takes
<1>2. \A i \in 1..Len(queue) : i = 1 \/ i \in 2..Len(queue)
  BY <1>1
<1>3. 1 \in 1..Len(queue) /\ \A i \in 2..Len(queue) : i \in 1..Len(queue)
  BY <1>1
<1>4. ASSUME NEW j \in 1..Len(queue), Good(r, queue[j]), j # 1
      PROVE  Good(r, queue'[j - 1])
  BY <1>1, <1>2, <1>4
<1>5. ASSUME NEW k \in 1..Len(out'[r]), Succeeded(out'[r][k])
      PROVE  \/ HasGood(r) \/ Good(r, e) \/ \E j \in 1..k - 1 : Good(r, out'[r][j])
             \/ \E j \in 1..Len(queue') : Good(r, queue'[j])
  <2>1. \/ HasGood(r) \/ \E j \in 1..k - 1 : Good(r, out'[r][j])
        \/ \E j \in 1..Len(queue) : Good(r, queue[j])
    BY <1>1, <1>5 DEF Faithful, Backed
  <2> QED
    BY <1>1, <1>2, <1>4, <2>1
<1>6. ASSUME NEW i \in 1..Len(queue'), queue'[i].req = r, Succeeded(queue'[i])
      PROVE  HasGood(r) \/ Good(r, e) \/ \E j \in 1..i - 1 : Good(r, queue'[j])
  <2>1. i + 1 \in 1..Len(queue) /\ queue[i + 1].req = r /\ Succeeded(queue[i + 1]) /\ (i + 1) - 1 = i
    BY <1>1, <1>3, <1>6
  <2>2. HasGood(r) \/ \E j \in 1..i : Good(r, queue[j])
    BY <2>1 DEF Faithful, Backed
  <2>3. ASSUME NEW j \in 1..i, Good(r, queue[j]), j # 1 PROVE \E l \in 1..i - 1 : Good(r, queue'[l])
    <3>1. j \in 1..Len(queue) /\ j - 1 \in 1..i - 1
      BY <1>1, <2>1, <2>3
    <3> QED
      BY <1>4, <2>3, <3>1
  <2> QED
    BY <1>1, <2>2, <2>3
<1>7. ASSUME e.req = r, Succeeded(e) PROVE HasGood(r)
  <2>1. HasGood(r) \/ \E j \in 1..1 - 1 : Good(r, queue[j])
    BY <1>1, <1>3, <1>7 DEF Faithful, Backed
  <2> QED
    BY <2>1
<1> QED
  BY <1>5, <1>6, <1>7

LEMMA TakesLastWord ==
  ASSUME LogShape, NEW e, Takes(e), NEW r \in Requests, Faithful(r), r \notin lost, phase[r] = "over"
  PROVE  /\ out'[r] # <<>> => EndFits(r, out'[r][Len(out'[r])])
         /\ out'[r] = <<>> => \A i \in 1..Len(queue') :
              queue'[i].req = r /\ (\A j \in i + 1..Len(queue') : queue'[j].req # r)
                 => EndFits(r, queue'[i])
         /\ Silent(r)' /\ e.req = r => EndFits(r, e)
<1>1. /\ e \in Events /\ Len(queue) \in Nat \ {0} /\ Len(queue') = Len(queue) - 1
      /\ \A i \in 1..Len(queue') : i + 1 \in 2..Len(queue) /\ queue'[i] = queue[i + 1]
      /\ \A i \in 2..Len(queue) : i - 1 \in 1..Len(queue') /\ queue'[i - 1] = queue[i]
      /\ queue[1] = e /\ out' = out
  BY TakesQueue DEF Takes
<1>2. SameWords(r)
  BY WordsStay DEF Takes, Keeps
<1>3. 1 \in 1..Len(queue) /\ \A i \in 2..Len(queue) : i \in 1..Len(queue)
  BY <1>1
<1>4. out'[r] # <<>> => EndFits(r, out'[r][Len(out'[r])])
  BY <1>1, <1>2 DEF Faithful, LastWord, SameWords
<1>5. ASSUME out'[r] = <<>>, NEW i \in 1..Len(queue'), queue'[i].req = r,
             \A j \in i + 1..Len(queue') : queue'[j].req # r
      PROVE  EndFits(r, queue'[i])
  <2>1. i + 1 \in 1..Len(queue) /\ queue[i + 1].req = r
    BY <1>1, <1>3, <1>5
  <2>2. ASSUME NEW j \in (i + 1) + 1..Len(queue) PROVE queue[j].req # r
    <3>1. j \in 2..Len(queue) /\ j - 1 \in i + 1..Len(queue')
      BY <1>1, <2>2
    <3> QED
      BY <1>1, <1>5, <3>1
  <2>3. EndFits(r, queue[i + 1])
    BY <1>1, <1>5, <2>1, <2>2 DEF Faithful, LastWord
  <2> QED
    BY <1>1, <1>2, <2>3 DEF SameWords
<1>6. ASSUME Silent(r)', e.req = r PROVE EndFits(r, e)
  <2>1. out[r] = <<>> /\ \A i \in 2..Len(queue) : queue[i].req # r
    BY <1>6, TakesWaits
  <2>2. \A j \in 1 + 1..Len(queue) : queue[j].req # r
    BY <2>1
  <2>3. queue[1].req = r
    BY <1>1, <1>6
  <2>4. EndFits(r, queue[1])
    BY <1>3, <2>1, <2>2, <2>3 DEF Faithful, LastWord
  <2> QED
    BY <1>1, <2>4
<1> QED
  BY <1>4, <1>5, <1>6

-----------------------------------------------------------------------------
(* The writer's ways with the event, from where the request stands: the    *)
(* event is another's, tells nothing of a row, or makes the request lost.  *)
LEMMA WriterPasses ==
  ASSUME LogShape, NEW e, Takes(e), NEW r \in Requests, Faithful(r), SameRows(r), log'[r] = log[r],
         r \in lost => r \in lost',
         \/ e.req # r \/ r \in lost' \/ e.type = "health"
         \/ e.type = "finish" /\ log[r] = Absent
  PROVE  Faithful(r)'
<1>1. SameWords(r)
  BY WordsStay DEF Takes, Keeps
<1>2. UNCHANGED <<out, channels, repair, phase, trail, answer>>
  BY DEF Takes
<1>3. Own(r)' /\ Fresh(r)'
  <2>1. phase'[r] = "new" => Silent(r)'
    BY <1>2, TakesWaits DEF Faithful, Fresh
  <2> QED
    BY <1>2, <2>1, TakesFaithful DEF Faithful, Fresh, SameRows
<1>4. StartsOnce(r)'
  <2>1. Start(r) \in Waits(r)' => log'[r] = Absent /\ \A a \in attempts' : a.req # r
    BY TakesWaits DEF Faithful, StartsOnce, SameRows
  <2> QED
    BY <2>1, TakesFaithful DEF StartsOnce, Start
<1>5. Truthful(r)'
  <2>1. \A x \in Waits(r)' : SaysTrue(r, x)'
    BY TakesFaithful
  <2>2. \A a \in attempts' : a.req = r => AttemptTrue(r, a)' /\ a.channel = Shown(Tried(r, a.no))'
    BY <1>1, <1>2 DEF Faithful, Truthful, SameWords, SameRows, Shown
  <2> QED
    BY <1>1, <1>2, <2>1, <2>2 DEF Faithful, Truthful, SameWords, Shown
<1>6. Sealed(r)'
  <2>1. log'[r].status = 200 => Silent(r)'
    BY TakesWaits DEF Faithful, Sealed
  <2> QED
    BY <2>1, TakesFaithful DEF Sealed, Ends
<1>7. Cleared(r) => Cleared(r)'
  BY TakesWaits DEF Cleared, Start
<1>8. HasGood(r) => HasGood(r)'
  <2>1. \A a : Good(r, a) => a.req = r
    BY DEF Good
  <2> QED
    BY <1>1, <1>7, <2>1 DEF HasGood, SameWords, SameRows
<1>9. Repairing(r)'
  <2>1. Silent(r) => Silent(r)'
    BY TakesWaits
  <2>2. LastCut(r)' = LastCut(r)
    BY DEF LastCut, SameRows
  <2> QED
    BY <1>1, <1>2, <2>1, <2>2 DEF Faithful, Repairing, SameWords, IsLogged
<1>10. CASE r \in lost'
  BY <1>3, <1>4, <1>5, <1>6, <1>9, <1>10 DEF Faithful, Recorded, Backed, LastWord
<1>11. CASE r \notin lost'
  <2>1. r \notin lost /\ (e.req = r => e.type = "health" \/ (e.type = "finish" /\ log[r] = Absent))
    BY <1>11
  <2>2. Recorded(r)'
    <3> SUFFICES ASSUME NEW i \in 1..Len(trail[r]), trail[r][i].f.recorded
                 PROVE  \/ Cleared(r)'
                        \/ \E x \in Waits(r)' : x.type = "attempt" /\ x.no = i
                        \/ \E a \in attempts' : a.req = r /\ a.no = i
      BY <1>2 DEF Recorded
    <3>1. \/ Cleared(r)
          \/ \E x \in Waits(r) : x.type = "attempt" /\ x.no = i
          \/ \E a \in attempts : a.req = r /\ a.no = i
      BY <2>1 DEF Faithful, Recorded
    <3>2. \A x \in Waits(r) : x.type = "attempt" => x \in Waits(r)'
      BY <2>1, TakesWaits
    <3> QED
      BY <1>7, <3>1, <3>2 DEF SameRows
  <2>3. ~Good(r, e)
    BY <2>1 DEF Good
  <2>4. Backed(r)'
    <3>1. \A k \in 1..Len(out'[r]) : Succeeded(out'[r][k]) =>
              \/ HasGood(r) \/ \E j \in 1..k - 1 : Good(r, out'[r][j])
              \/ \E j \in 1..Len(queue') : Good(r, queue'[j])
      BY <2>1, <2>3, TakesBacked
    <3>2. \A i \in 1..Len(queue') : queue'[i].req = r /\ Succeeded(queue'[i]) =>
              HasGood(r) \/ \E j \in 1..i - 1 : Good(r, queue'[j])
      BY <2>1, <2>3, TakesBacked
    <3>3. log'[r].outcome = "success" /\ repair'[r] # "half" => HasGood(r)'
      BY <1>2, <1>8, <2>1 DEF Faithful, Backed
    <3> QED
      BY <1>1, <1>8, <3>1, <3>2, <3>3 DEF Backed, Succeeded, SameWords
  <2>5. LastWord(r)'
    <3> SUFFICES ASSUME phase[r] = "over" PROVE LastWord(r)'
      BY <1>2 DEF LastWord
    <3>1. ASSUME Silent(r)', log'[r] # Absent PROVE RowFits(r)'
      <4>1. e.req # r
        <5>1. e.req = r => EndFits(r, e)
          BY <2>1, <3>1, TakesLastWord
        <5> QED
          BY <2>1, <3>1, <5>1 DEF EndFits
      <4>2. Silent(r)
        BY <3>1, <4>1, TakesWaits
      <4>3. RowFits(r)
        BY <2>1, <3>1, <4>2 DEF Faithful, LastWord, IsLogged
      <4> QED
        BY <1>2, <4>3 DEF RowFits, Matches
    <3> QED
      BY <1>1, <2>1, <3>1, TakesLastWord DEF LastWord, IsLogged, Absent, SameWords
  <2> QED
    BY <1>3, <1>4, <1>5, <1>6, <1>9, <2>2, <2>4, <2>5 DEF Faithful
<1> QED
  BY <1>10, <1>11

(* The row of a request that began.                                        *)
LEMMA WriterStarts ==
  ASSUME LogShape, NEW e, Takes(e), NEW r \in Requests, Faithful(r), SameRows(r),
         e = Start(r), log'[r] = Pending, lost' = lost
  PROVE  Faithful(r)'
<1>1. SameWords(r)
  BY WordsStay DEF Takes, Keeps
<1>2. UNCHANGED <<out, channels, repair, phase, trail, answer, lost>>
  BY DEF Takes
<1>3. /\ e.req = r /\ e.type = "start" /\ log'[r].outcome = "pending" /\ log'[r].status = 0
      /\ log'[r] # Absent
  BY DEF Start, Pending, Absent, Row, NoStatus
<1>4. Start(r) \in Waits(r)
  <2>1. 1 \in 1..Len(queue) /\ queue[1] = e
    BY TakesQueue DEF Takes
  <2> QED
    BY <1>3, <2>1, Waiting
<1>5. log[r] = Absent /\ \A a \in attempts : a.req # r
  BY <1>4 DEF Faithful, StartsOnce
<1>6. ~HasGood(r) /\ ~Cleared(r) /\ ~Good(r, e)
  BY <1>3, <1>4, <1>5 DEF HasGood, Good, Cleared
<1>7. Own(r)' /\ Fresh(r)'
  BY <1>2, <1>3, TakesFaithful DEF Fresh
<1>8. StartsOnce(r)'
  <2>1. Start(r) \notin Waits(r)'
    BY TakesFaithful
  <2> QED
    BY <2>1, TakesFaithful DEF StartsOnce, Start
<1>9. Truthful(r)'
  <2>1. \A x \in Waits(r)' : SaysTrue(r, x)'
    BY TakesFaithful
  <2>2. \A a \in attempts' : a.req # r
    BY <1>5 DEF SameRows
  <2> QED
    BY <1>3, <2>1, <2>2 DEF Truthful
<1>10. Sealed(r)'
  BY <1>3, TakesFaithful DEF Sealed, Ends
<1>11. Recorded(r)'
  <2> SUFFICES ASSUME r \notin lost, NEW i \in 1..Len(trail[r]), trail[r][i].f.recorded
               PROVE  \E x \in Waits(r)' : x.type = "attempt" /\ x.no = i
    BY <1>2 DEF Recorded
  <2>1. \E x \in Waits(r) : x.type = "attempt" /\ x.no = i
    BY <1>5, <1>6 DEF Faithful, Recorded
  <2> QED
    BY <1>3, <2>1, TakesWaits
<1>12. Backed(r)'
  <2> SUFFICES ASSUME r \notin lost PROVE Backed(r)'
    BY <1>2 DEF Backed
  <2>1. \A k \in 1..Len(out'[r]) : Succeeded(out'[r][k]) =>
            \/ \E j \in 1..k - 1 : Good(r, out'[r][j])
            \/ \E j \in 1..Len(queue') : Good(r, queue'[j])
    BY <1>6, TakesBacked
  <2>2. \A i \in 1..Len(queue') : queue'[i].req = r /\ Succeeded(queue'[i]) =>
            \E j \in 1..i - 1 : Good(r, queue'[j])
    BY <1>6, TakesBacked
  <2> QED
    BY <1>1, <1>3, <2>1, <2>2 DEF Backed, Succeeded, SameWords
<1>13. Repairing(r)'
  BY <1>2, <1>3, TakesFaithful DEF Faithful, Repairing
<1>14. LastWord(r)'
  <2> SUFFICES ASSUME phase[r] = "over", r \notin lost PROVE LastWord(r)'
    BY <1>2 DEF LastWord
  <2>1. ~EndFits(r, e)
    BY <1>3 DEF EndFits
  <2> QED
    BY <1>1, <1>3, <2>1, TakesLastWord DEF LastWord, SameWords
<1> QED
  BY <1>7, <1>8, <1>9, <1>10, <1>11, <1>12, <1>13, <1>14 DEF Faithful

(* The row of an attempt.                                                  *)
LEMMA WriterAttempts ==
  ASSUME LogShape, NEW e, Takes(e), NEW r \in Requests, Faithful(r), e.req = r, e.type = "attempt",
         log[r] # Absent, e.channel \in channels, attempts' = attempts \cup {e},
         log'[r] = log[r], lost' = lost
  PROVE  Faithful(r)'
<1>1. SameWords(r)
  BY WordsStay DEF Takes, Keeps
<1>2. UNCHANGED <<out, channels, repair, phase, trail, answer, lost>>
  BY DEF Takes
<1>3. e \in Waits(r)
  <2>1. 1 \in 1..Len(queue) /\ queue[1] = e
    BY TakesQueue DEF Takes
  <2> QED
    BY <2>1, Waiting
<1>4. AttemptTrue(r, e) /\ e.channel = Tried(r, e.no)
  BY <1>3 DEF Faithful, Truthful, SaysTrue
<1>5. Start(r) \notin Waits(r) /\ Start(r) \notin Waits(r)' /\ ~Cleared(r)
  BY TakesWaits DEF Faithful, StartsOnce, Cleared
<1>6. HasGood(r) \/ Good(r, e) => HasGood(r)'
  BY <1>1, <1>5 DEF HasGood, SameWords
<1>7. Own(r)' /\ Fresh(r)'
  BY <1>2, TakesFaithful DEF Fresh
<1>8. StartsOnce(r)'
  BY <1>5, TakesFaithful DEF StartsOnce, Start
<1>9. Truthful(r)'
  <2>1. \A x \in Waits(r)' : SaysTrue(r, x)'
    BY TakesFaithful
  <2>2. ASSUME NEW a \in attempts', a.req = r
        PROVE  AttemptTrue(r, a)' /\ a.channel = Shown(Tried(r, a.no))'
    <3>1. a \in attempts => AttemptTrue(r, a) /\ a.channel = Shown(Tried(r, a.no))
      BY <2>2 DEF Faithful, Truthful
    <3>2. e.channel = Shown(Tried(r, e.no))
      BY <1>4 DEF Shown
    <3> QED
      BY <1>1, <1>2, <1>4, <2>2, <3>1, <3>2 DEF SameWords, Shown
  <2> QED
    BY <1>1, <1>2, <2>1, <2>2 DEF Faithful, Truthful, SameWords, Shown
<1>10. Sealed(r)'
  BY TakesFaithful DEF Sealed, Ends
<1>11. Recorded(r)'
  <2> SUFFICES ASSUME r \notin lost, NEW i \in 1..Len(trail[r]), trail[r][i].f.recorded
               PROVE  \/ \E x \in Waits(r)' : x.type = "attempt" /\ x.no = i
                      \/ \E a \in attempts' : a.req = r /\ a.no = i
    BY <1>2 DEF Recorded
  <2>1. \/ \E x \in Waits(r) : x.type = "attempt" /\ x.no = i
        \/ \E a \in attempts : a.req = r /\ a.no = i
    BY <1>5 DEF Faithful, Recorded
  <2> QED
    BY <2>1, TakesWaits
<1>12. Backed(r)'
  <2> SUFFICES ASSUME r \notin lost PROVE Backed(r)'
    BY <1>2 DEF Backed
  <2>1. \A k \in 1..Len(out'[r]) : Succeeded(out'[r][k]) =>
            \/ HasGood(r)' \/ \E j \in 1..k - 1 : Good(r, out'[r][j])
            \/ \E j \in 1..Len(queue') : Good(r, queue'[j])
    BY <1>6, TakesBacked
  <2>2. \A i \in 1..Len(queue') : queue'[i].req = r /\ Succeeded(queue'[i]) =>
            HasGood(r)' \/ \E j \in 1..i - 1 : Good(r, queue'[j])
    BY <1>6, TakesBacked
  <2>3. log'[r].outcome = "success" /\ repair'[r] # "half" => HasGood(r)'
    BY <1>2, <1>6 DEF Faithful, Backed
  <2> QED
    BY <1>1, <2>1, <2>2, <2>3 DEF Backed, Succeeded, SameWords
<1>13. Repairing(r)'
  BY <1>2, TakesFaithful DEF Faithful, Repairing
<1>14. LastWord(r)'
  <2> SUFFICES ASSUME phase[r] = "over", r \notin lost PROVE LastWord(r)'
    BY <1>2 DEF LastWord
  <2>1. ~EndFits(r, e)
    BY DEF EndFits
  <2> QED
    BY <1>1, <2>1, TakesLastWord DEF LastWord, SameWords
<1> QED
  BY <1>7, <1>8, <1>9, <1>10, <1>11, <1>12, <1>13, <1>14 DEF Faithful

(* The end of a request, or of one of its attempts, in its row.            *)
LEMMA WriterFinishes ==
  ASSUME LogShape, NEW e, Takes(e), NEW r \in Requests, Faithful(r), e.req = r, e.type = "finish",
         log[r] # Absent, e.channel \in channels \cup {NoChannel},
         log'[r] = Row(e.outcome, e.status, e.attempts, e.channel), SameRows(r), lost' = lost
  PROVE  Faithful(r)'
<1>1. SameWords(r)
  BY WordsStay DEF Takes, Keeps
<1>2. UNCHANGED <<out, channels, repair, phase, trail, answer, lost>>
  BY DEF Takes
<1>3. e \in Waits(r)
  <2>1. 1 \in 1..Len(queue) /\ queue[1] = e
    BY TakesQueue DEF Takes
  <2> QED
    BY <2>1, Waiting
<1>4. /\ log'[r].outcome = e.outcome /\ log'[r].status = e.status
      /\ log'[r].attempts = e.attempts /\ log'[r].channel = e.channel
  BY DEF Row
<1>5. Start(r) \notin Waits(r) /\ Start(r) \notin Waits(r)' /\ ~Cleared(r)
  BY TakesWaits DEF Faithful, StartsOnce, Cleared
<1>6. SaysTrue(r, e)
  BY <1>3 DEF Faithful, Truthful
<1>7. HasGood(r) => HasGood(r)'
  <2>1. \A a : Good(r, a) => a.req = r
    BY DEF Good
  <2> QED
    BY <1>1, <1>5, <2>1 DEF HasGood, SameWords, SameRows
<1>8. ~Good(r, e)
  BY DEF Good
<1>9. Own(r)' /\ Fresh(r)'
  BY <1>2, TakesFaithful DEF Fresh
<1>10. StartsOnce(r)'
  BY <1>5, TakesFaithful DEF StartsOnce, Start
<1>11. Truthful(r)'
  <2>1. \A x \in Waits(r)' : SaysTrue(r, x)'
    BY TakesFaithful
  <2>2. \A a \in attempts' : a.req = r => AttemptTrue(r, a)' /\ a.channel = Shown(Tried(r, a.no))'
    BY <1>1, <1>2 DEF Faithful, Truthful, SameWords, SameRows, Shown
  <2>3. e.channel = Shown(e.channel)'
    BY <1>2 DEF Shown
  <2>4. /\ e.outcome = "success" => e.status = 200
        /\ e.status = 200 => /\ Over(r) /\ e.attempts = Len(trail[r]) + 1
                             /\ e.channel = answer[r].channel
    BY <1>6 DEF SaysTrue
  <2> QED
    BY <1>1, <1>2, <1>4, <2>1, <2>2, <2>3, <2>4 DEF Truthful, SameWords, Shown
<1>12. Sealed(r)'
  <2>1. e.status = 200 => Silent(r)'
    BY TakesFaithful DEF Ends
  <2> QED
    BY <1>4, <2>1, TakesFaithful DEF Sealed, Ends
<1>13. Recorded(r)'
  <2> SUFFICES ASSUME r \notin lost, NEW i \in 1..Len(trail[r]), trail[r][i].f.recorded
               PROVE  \/ \E x \in Waits(r)' : x.type = "attempt" /\ x.no = i
                      \/ \E a \in attempts' : a.req = r /\ a.no = i
    BY <1>2 DEF Recorded
  <2>1. \/ \E x \in Waits(r) : x.type = "attempt" /\ x.no = i
        \/ \E a \in attempts : a.req = r /\ a.no = i
    BY <1>5 DEF Faithful, Recorded
  <2> QED
    BY <2>1, TakesWaits DEF SameRows
<1>14. Backed(r)'
  <2> SUFFICES ASSUME r \notin lost PROVE Backed(r)'
    BY <1>2 DEF Backed
  <2>1. \A k \in 1..Len(out'[r]) : Succeeded(out'[r][k]) =>
            \/ HasGood(r)' \/ \E j \in 1..k - 1 : Good(r, out'[r][j])
            \/ \E j \in 1..Len(queue') : Good(r, queue'[j])
    BY <1>7, <1>8, TakesBacked
  <2>2. \A i \in 1..Len(queue') : queue'[i].req = r /\ Succeeded(queue'[i]) =>
            HasGood(r)' \/ \E j \in 1..i - 1 : Good(r, queue'[j])
    BY <1>7, <1>8, TakesBacked
  <2>3. e.outcome = "success" => HasGood(r)'
    BY <1>7, TakesBacked DEF Succeeded
  <2> QED
    BY <1>1, <1>4, <2>1, <2>2, <2>3 DEF Backed, Succeeded, SameWords
<1>15. Repairing(r)'
  BY <1>2, TakesFaithful DEF Faithful, Repairing
<1>16. LastWord(r)'
  <2> SUFFICES ASSUME phase[r] = "over", r \notin lost PROVE LastWord(r)'
    BY <1>2 DEF LastWord
  <2>1. EndFits(r, e) => RowFits(r)'
    BY <1>2, <1>4 DEF EndFits, RowFits, Matches
  <2> QED
    BY <1>1, <2>1, TakesLastWord DEF LastWord, SameWords
<1> QED
  BY <1>9, <1>10, <1>11, <1>12, <1>13, <1>14, <1>15, <1>16 DEF Faithful

LEMMA WriterFaithful ==
  ASSUME AnswerInv, RowsInv, Writer, UNCHANGED reqVars, NEW r \in Requests
  PROVE  Faithful(r)'
<1>1. PICK e : e = Head(queue)
  OBVIOUS
<1>2. LogShape /\ Faithful(r)
  BY DEF RowsInv
<1>3. Takes(e)
  <2>1. queue # <<>> /\ queue' = Tail(queue) /\ UNCHANGED <<out, channels, repair>>
    BY DEF Writer, WriteStart, WriteHealth, WriteAttempt, WriteFinish, WriteFails, Receive
  <2>2. e = queue[1]
    BY <1>1, <1>2, <2>1, TailIs DEF LogShape
  <2> QED
    BY <2>1, <2>2 DEF Takes, reqVars
<1>4. e \in Events /\ e.req \in Requests
  BY <1>2, <1>3, TakesQueue, EventFacts
<1>5. attempts' = attempts => SameRows(r)
  BY DEF SameRows
<1>6. CASE WriteStart
  <2>1. e = Start(e.req) /\ log' = [log EXCEPT ![e.req] = Pending] /\ UNCHANGED <<lost, attempts>>
    BY <1>1, <1>4, <1>6, EventFacts DEF WriteStart, Receive, Event
  <2>2. IF e.req = r THEN log'[r] = Pending ELSE log'[r] = log[r]
    BY <1>2, <1>4, <2>1 DEF LogShape
  <2> QED
    BY <1>2, <1>3, <1>5, <2>1, <2>2, WriterStarts, WriterPasses
<1>7. CASE WriteHealth
  <2>1. e.type = "health" /\ UNCHANGED <<lost, log, attempts>>
    BY <1>1, <1>7 DEF WriteHealth, Receive
  <2> QED
    BY <1>2, <1>3, <1>5, <2>1, WriterPasses
<1>8. CASE WriteAttempt
  <2>1. e.type = "attempt" /\ UNCHANGED log
    BY <1>1, <1>8 DEF WriteAttempt, Receive
  <2>2. CASE log[e.req] # Absent /\ e.channel \in channels
    <3>1. attempts' = attempts \cup {e} /\ lost' = lost
      BY <1>1, <1>8, <2>2 DEF WriteAttempt, Event, IsLogged
    <3>2. e.req # r => SameRows(r)
      BY <3>1 DEF SameRows
    <3> QED
      BY <1>2, <1>3, <2>1, <2>2, <3>1, <3>2, WriterAttempts, WriterPasses
  <2>3. CASE ~(log[e.req] # Absent /\ e.channel \in channels)
    <3>1. lost' = lost \cup {e.req} /\ attempts' = attempts
      BY <1>1, <1>8, <2>3 DEF WriteAttempt, Event, IsLogged
    <3> QED
      BY <1>2, <1>3, <1>5, <2>1, <3>1, WriterPasses
  <2> QED
    BY <2>2, <2>3
<1>9. CASE WriteFinish
  <2>1. e.type = "finish" /\ UNCHANGED attempts
    BY <1>1, <1>9 DEF WriteFinish, Receive
  <2>2. CASE log[e.req] = Absent
    <3>1. log' = log /\ lost' = lost
      BY <1>1, <1>9, <2>2 DEF WriteFinish, Event, IsLogged
    <3> QED
      BY <1>2, <1>3, <1>5, <2>1, <2>2, <3>1, WriterPasses
  <2>3. CASE log[e.req] # Absent /\ e.channel \in channels \cup {NoChannel}
    <3>1. /\ log' = [log EXCEPT ![e.req] = Row(e.outcome, e.status, e.attempts, e.channel)]
          /\ lost' = lost
      BY <1>1, <1>9, <2>3 DEF WriteFinish, Event, IsLogged, Finished
    <3>2. IF e.req = r THEN log'[r] = Row(e.outcome, e.status, e.attempts, e.channel)
                       ELSE log'[r] = log[r]
      BY <1>2, <1>4, <3>1 DEF LogShape
    <3> QED
      BY <1>2, <1>3, <1>5, <2>1, <2>3, <3>1, <3>2, WriterFinishes, WriterPasses
  <2>4. CASE log[e.req] # Absent /\ e.channel \notin channels \cup {NoChannel}
    <3>1. log' = log /\ lost' = lost \cup {e.req}
      BY <1>1, <1>9, <2>4 DEF WriteFinish, Event, IsLogged
    <3> QED
      BY <1>2, <1>3, <1>5, <2>1, <3>1, WriterPasses
  <2> QED
    BY <2>2, <2>3, <2>4
<1>10. CASE WriteFails
  <2>1. lost' = lost \cup LosesRow(e) /\ UNCHANGED <<log, attempts>>
    BY <1>1, <1>10 DEF WriteFails, Event
  <2>2. e.req # r \/ r \in lost' \/ e.type = "health"
    BY <2>1 DEF LosesRow
  <2> QED
    BY <1>2, <1>3, <1>5, <2>1, <2>2, WriterPasses
<1> QED
  BY <1>6, <1>7, <1>8, <1>9, <1>10 DEF Writer

-----------------------------------------------------------------------------
(* The steps that touch nothing but the tables.                            *)
Still == UNCHANGED <<out, queue, phase, trail, answer>>

RowsTrue(r) ==
  \A a \in attempts : a.req = r => AttemptTrue(r, a) /\ a.channel = Shown(Tried(r, a.no))

Empty(r) == log[r] = Absent /\ \A a \in attempts : a.req # r

(* What a step does to the row of a request with a 200 ...                 *)
KeepsEnd(r) ==
  /\ log'[r].outcome = "success" => log'[r].status = 200
  /\ log'[r].status = 200 =>
       /\ log[r].status = 200 /\ log'[r].attempts = log[r].attempts
       /\ log[r].channel = Shown(answer[r].channel) => log'[r].channel = Shown(answer[r].channel)'

(* ... and to the rows of its attempts, unless all of it is cleared.       *)
KeepsRows(r) ==
  \/ Cleared(r)'
  \/ /\ Cleared(r) => Cleared(r)'
     /\ \A a \in attempts : a.req = r =>
          \E b \in attempts' : b.req = r /\ b.no = a.no /\ (Good(r, a) => Good(r, b))

LEMMA StillWords ==
  ASSUME NEW r \in Requests, Still
  PROVE  SameWords(r) /\ Waits(r)' = Waits(r) /\ (Silent(r)' <=> Silent(r))
<1>1. SameWords(r)
  BY WordsStay DEF Still, Keeps
<1>2. Waits(r)' = Waits(r) /\ (Silent(r)' <=> Silent(r))
  BY DEF Still, Waits, Silent
<1> QED
  BY <1>1, <1>2

LEMMA TablesFaithful ==
  ASSUME NEW r \in Requests, Faithful(r), Still, RowsTrue(r)', Empty(r) => Empty(r)',
         KeepsEnd(r), KeepsRows(r), r \in lost => r \in lost', Repairing(r)',
         r \notin lost' /\ log'[r].outcome = "success" /\ repair'[r] # "half" => HasGood(r)',
         phase[r] = "over" /\ r \notin lost' /\ Silent(r) /\ IsLogged(r)' => RowFits(r)'
  PROVE  Faithful(r)'
<1>1. SameWords(r) /\ Waits(r)' = Waits(r) /\ (Silent(r)' <=> Silent(r))
  BY StillWords
<1>2. UNCHANGED <<out, queue, phase, trail, answer>>
  BY DEF Still
<1>3. Own(r)' /\ Fresh(r)'
  BY <1>1, <1>2 DEF Faithful, Own, Fresh, Empty
<1>4. StartsOnce(r)'
  <2>1. Start(r) \in Waits(r)' => log'[r] = Absent /\ \A a \in attempts' : a.req # r
    BY <1>1 DEF Faithful, StartsOnce, Empty
  <2> QED
    BY <1>2, <2>1 DEF Faithful, StartsOnce, Start
<1>5. Truthful(r)'
  <2>1. \A x \in Waits(r)' : SaysTrue(r, x)'
    BY <1>1 DEF Faithful, Truthful, SameWords
  <2>2. log'[r].status = 200 => /\ Over(r)' /\ log'[r].attempts = Len(trail'[r]) + 1
                                /\ log'[r].channel = Shown(answer[r].channel)'
    BY <1>1, <1>2 DEF Faithful, Truthful, SameWords, KeepsEnd
  <2> QED
    BY <2>1, <2>2 DEF Truthful, RowsTrue, KeepsEnd
<1>6. Sealed(r)'
  BY <1>1, <1>2 DEF Faithful, Sealed, Ends, KeepsEnd
<1>7. Recorded(r)'
  BY <1>1, <1>2 DEF Faithful, Recorded, KeepsRows
<1>8. HasGood(r) => HasGood(r)'
  <2>1. \A a : Good(r, a) => a.req = r
    BY DEF Good
  <2> QED
    BY <1>1, <2>1 DEF HasGood, KeepsRows, SameWords
<1>9. Backed(r)'
  <2> SUFFICES ASSUME r \notin lost' PROVE Backed(r)'
    BY DEF Backed
  <2>1. \A k \in 1..Len(out[r]) : Succeeded(out[r][k]) =>
          \/ HasGood(r)' \/ \E j \in 1..k - 1 : Good(r, out[r][j])
          \/ \E j \in 1..Len(queue) : Good(r, queue[j])
    BY <1>8 DEF Faithful, Backed
  <2>2. \A i \in 1..Len(queue) : queue[i].req = r /\ Succeeded(queue[i]) =>
          HasGood(r)' \/ \E j \in 1..i - 1 : Good(r, queue[j])
    BY <1>8 DEF Faithful, Backed
  <2> QED
    BY <1>1, <1>2, <2>1, <2>2 DEF Backed, Succeeded, SameWords
<1>10. LastWord(r)'
  BY <1>1, <1>2 DEF Faithful, LastWord, SameWords
<1> QED
  BY <1>3, <1>4, <1>5, <1>6, <1>7, <1>9, <1>10 DEF Faithful

(* The sweep.                                                              *)
LEMMA SweepFaithful ==
  ASSUME RowsInv, NEW q \in Requests, StaleUpdate(q), UNCHANGED reqVars, NEW r \in Requests
  PROVE  Faithful(r)'
<1>1. LogShape /\ Faithful(r)
  BY DEF RowsInv
<1>2. /\ UNCHANGED <<out, queue, lost, attempts, channels, repair, phase, trail, answer>>
      /\ log' = IF log[q] # Absent THEN [log EXCEPT ![q].outcome = "cancelled"] ELSE log
  BY DEF StaleUpdate, reqVars, IsLogged
<1>3. SameRows(r) /\ Keeps(r) /\ Still
  BY <1>2 DEF SameRows, Keeps, Still
<1>4. repair[r] = "due" => \A p \in Requests : repair'[p] = "due"
  BY <1>1, <1>2 DEF Faithful, Repairing
<1>5. log[r] \in Rows /\ log \in [Requests -> Rows]
  BY <1>1 DEF LogShape
<1>6. CASE r # q \/ log[q] = Absent
  <2>1. log'[r] = log[r]
    BY <1>2, <1>5, <1>6
  <2> QED
    BY <1>1, <1>2, <1>3, <1>4, <2>1, Untouched
<1>7. CASE r = q /\ log[r] # Absent
  <2>1. /\ log'[r].outcome = "cancelled" /\ log'[r].status = log[r].status
        /\ log'[r].attempts = log[r].attempts /\ log'[r].channel = log[r].channel
    BY <1>2, <1>5, <1>7 DEF Rows
  <2>2. SameWords(r) /\ Waits(r)' = Waits(r) /\ (Silent(r)' <=> Silent(r))
    BY <1>3, StillWords
  <2>3. RowsTrue(r)'
    BY <1>1, <1>2, <2>2 DEF RowsTrue, Faithful, Truthful, SameWords, Shown
  <2>4. KeepsEnd(r) /\ KeepsRows(r)
    <3>1. KeepsEnd(r)
      BY <1>2, <2>1 DEF KeepsEnd, Shown
    <3>2. KeepsRows(r)
      BY <1>2, <1>7 DEF KeepsRows, Cleared
    <3> QED
      BY <3>1, <3>2
  <2>5. Repairing(r)'
    <3>1. LastCut(r)' = LastCut(r)
      BY <1>2 DEF LastCut
    <3> QED
      BY <1>1, <1>2, <1>7, <2>1, <2>2, <3>1 DEF Faithful, Repairing, SameWords, IsLogged
  <2>6. phase[r] = "over" /\ r \notin lost' /\ Silent(r) /\ IsLogged(r)' => RowFits(r)'
    BY <1>1, <1>2, <1>7, <2>1 DEF Faithful, LastWord, IsLogged, RowFits, Matches
  <2>7. Empty(r) => Empty(r)'
    BY <1>7 DEF Empty
  <2> QED
    BY <1>1, <1>2, <1>3, <2>1, <2>3, <2>4, <2>5, <2>6, <2>7, TablesFaithful
<1> QED
  BY <1>6, <1>7

(* Clearing the log.                                                       *)
LEMMA ForgetFaithful ==
  ASSUME RowsInv, NEW S \in SUBSET Requests, Forget(S), UNCHANGED reqVars, NEW r \in Requests
  PROVE  Faithful(r)'
<1>1. LogShape /\ Faithful(r)
  BY DEF RowsInv
<1>2. /\ UNCHANGED <<out, queue, lost, channels, repair, phase, trail, answer>>
      /\ log'[r] = (IF r \in S THEN Absent ELSE log[r])
      /\ attempts' = {a \in attempts : a.req \notin S}
  BY DEF Forget, reqVars
<1>3. Keeps(r) /\ Still
  BY <1>2 DEF Keeps, Still
<1>4. repair[r] = "due" => \A p \in Requests : repair'[p] = "due"
  BY <1>1, <1>2 DEF Faithful, Repairing
<1>5. CASE r \notin S
  <2>1. log'[r] = log[r] /\ SameRows(r)
    BY <1>2, <1>5 DEF SameRows
  <2> QED
    BY <1>1, <1>2, <1>3, <1>4, <2>1, Untouched
<1>6. CASE r \in S
  <2>1. Empty(r)'
    BY <1>2, <1>6 DEF Empty
  <2>2. log'[r].outcome = "absent" /\ log'[r].status = 0
    BY <1>2, <1>6 DEF Absent, Row, NoStatus
  <2>3. SameWords(r) /\ Waits(r)' = Waits(r) /\ (Silent(r)' <=> Silent(r))
    BY <1>3, StillWords
  <2>4. RowsTrue(r)' /\ KeepsEnd(r)
    BY <2>1, <2>2 DEF RowsTrue, Empty, KeepsEnd
  <2>5. KeepsRows(r)
    <3>1. CASE Start(r) \in Waits(r)
      BY <1>1, <3>1 DEF Faithful, StartsOnce, KeepsRows, Cleared
    <3>2. CASE Start(r) \notin Waits(r)
      BY <2>1, <2>3, <3>2 DEF KeepsRows, Cleared, Empty, Start
    <3> QED
      BY <3>1, <3>2
  <2>6. Repairing(r)'
    BY <1>1, <1>2, <2>1, <2>3 DEF Faithful, Repairing, SameWords, IsLogged, Empty, Absent
  <2>7. ~IsLogged(r)'
    BY <2>1 DEF IsLogged, Empty, Absent
  <2> QED
    BY <1>1, <1>2, <1>3, <2>1, <2>2, <2>4, <2>5, <2>6, <2>7, TablesFaithful
<1> QED
  BY <1>5, <1>6

(* A channel is deleted: its name goes from the rows, and nothing else.    *)
LEMMA DeletionFaithful ==
  ASSUME RowsInv, NEW c \in Channels, DeleteChannel(c), UNCHANGED reqVars, NEW r \in Requests
  PROVE  Faithful(r)'
<1> DEFINE unnamed(a) == IF a.channel = c THEN [a EXCEPT !.channel = NoChannel] ELSE a
<1>1. LogShape /\ Faithful(r) /\ log[r] \in Rows
  BY DEF RowsInv, LogShape
<1>2. /\ UNCHANGED <<out, queue, lost, repair, phase, trail, answer>>
      /\ c \in channels /\ channels' = channels \ {c}
      /\ log'[r] = unnamed(log[r]) /\ attempts' = {unnamed(a) : a \in attempts}
  BY DEF DeleteChannel, reqVars
<1>3. Keeps(r) /\ Still
  BY <1>2 DEF Keeps, Still
<1>4. c # NoChannel /\ NoChannel \notin channels
  BY <1>1, <1>2, NoChannelAssumption DEF LogShape
<1>5. SameWords(r) /\ Waits(r)' = Waits(r) /\ (Silent(r)' <=> Silent(r))
  BY <1>3, StillWords
<1>6. ASSUME NEW a \in attempts
      PROVE  LET b == unnamed(a)
             IN  /\ b \in attempts' /\ b.req = a.req /\ b.no = a.no /\ b.outcome = a.outcome
                 /\ b.status = a.status /\ b.started = a.started /\ b.type = a.type
                 /\ b.channel = IF a.channel = c THEN NoChannel ELSE a.channel
  <2>1. a \in AttemptEvents
    BY <1>1 DEF LogShape
  <2> QED
    BY <1>2, <2>1 DEF AttemptEvents
<1>7. /\ log'[r].outcome = log[r].outcome /\ log'[r].status = log[r].status
      /\ log'[r].attempts = log[r].attempts
      /\ log'[r].channel = IF log[r].channel = c THEN NoChannel ELSE log[r].channel
  BY <1>1, <1>2 DEF Rows
<1>8. \A x : Shown(x)' = IF Shown(x) = c THEN NoChannel ELSE Shown(x)
  BY <1>2, <1>4 DEF Shown
<1>9. \A b \in attempts' : \E a \in attempts : b = unnamed(a)
  BY <1>2
<1> HIDE DEF unnamed
<1>10. RowsTrue(r)'
  <2> SUFFICES ASSUME NEW b \in attempts', b.req = r
               PROVE  AttemptTrue(r, b)' /\ b.channel = Shown(Tried(r, b.no))'
    BY Zenon DEF RowsTrue
  <2>1. PICK a \in attempts : b = unnamed(a)
    BY <1>9
  <2>2. AttemptTrue(r, a) /\ a.channel = Shown(Tried(r, a.no))
    BY <1>1, <1>6, <2>1 DEF Faithful, Truthful
  <2>3. AttemptTrue(r, b)
    BY <1>6, <2>1, <2>2 DEF AttemptTrue
  <2>4. b.channel = Shown(Tried(r, b.no))'
    <3>1. Tried(r, b.no)' = Tried(r, a.no)
      BY <1>5, <1>6, <2>1 DEF SameWords
    <3>2. Shown(Tried(r, b.no))' = IF Shown(Tried(r, a.no)) = c THEN NoChannel ELSE Shown(Tried(r, a.no))
      BY <1>2, <1>4, <3>1 DEF Shown
    <3> QED
      BY <1>6, <2>1, <2>2, <3>2
  <2> QED
    BY <1>5, <2>3, <2>4 DEF SameWords
<1>11. log[r] = Absent => log'[r] = Absent
  BY <1>2, <1>4 DEF Absent, Row, unnamed
<1>12. Empty(r) => Empty(r)'
  BY <1>6, <1>9, <1>11 DEF Empty
<1>13. KeepsEnd(r)
  <2>1. log[r].channel = Shown(answer[r].channel) => log'[r].channel = Shown(answer[r].channel)'
    BY <1>2, <1>4, <1>7 DEF Shown
  <2>2. log[r].outcome = "success" => log[r].status = 200
    BY <1>1 DEF Faithful, Truthful
  <2> QED
    BY <1>7, <2>1, <2>2 DEF KeepsEnd
<1>14. KeepsRows(r)
  <2>1. Cleared(r) => Cleared(r)'
    BY <1>5, <1>11 DEF Cleared, Start
  <2>2. \A a \in attempts : Good(r, a) => Good(r, unnamed(a))
    BY <1>6 DEF Good
  <2> QED
    BY <1>6, <2>1, <2>2 DEF KeepsRows
<1>15. IsLogged(r)' => IsLogged(r)
  BY <1>11 DEF IsLogged, Absent
<1>16. Repairing(r)'
  <2>1. ASSUME NEW a \in LastCut(r) PROVE LastCut(r)' # {}
    <3>1. /\ a \in attempts /\ a.req = r /\ a.outcome = "cancelled" /\ a.status = 200 /\ a.started
          /\ \A b \in attempts : b.req = r => b.no <= a.no
      BY DEF LastCut
    <3>2. \A b \in attempts' : b.req = r => b.no <= unnamed(a).no
      BY <1>6, <1>9, <3>1
    <3>3. unnamed(a) \in LastCut(r)'
      BY <1>6, <3>1, <3>2 DEF LastCut
    <3> QED
      BY <3>3
  <2> QED
    BY <1>1, <1>2, <1>5, <1>7, <1>15, <2>1 DEF Faithful, Repairing, SameWords
<1>17. log'[r].outcome = "success" /\ repair'[r] # "half" /\ r \notin lost' => HasGood(r)'
  <2>1. log'[r].outcome = "success" /\ repair'[r] # "half" /\ r \notin lost' => HasGood(r)
    BY <1>1, <1>2, <1>7 DEF Faithful, Backed
  <2>2. HasGood(r) => HasGood(r)'
    <3>1. \A a : Good(r, a) => a.req = r
      BY DEF Good
    <3> QED
      BY <1>5, <1>14, <3>1 DEF HasGood, KeepsRows, SameWords
  <2> QED
    BY <2>1, <2>2
<1>18. phase[r] = "over" /\ r \notin lost' /\ Silent(r) /\ IsLogged(r)' => RowFits(r)'
  <2> SUFFICES ASSUME RowFits(r) PROVE RowFits(r)'
    BY <1>1, <1>2, <1>15 DEF Faithful, LastWord
  <2>1. Matches(answer[r].channel, log[r].channel) => Matches(answer[r].channel, log[r].channel)'
    BY <1>2, <1>7 DEF Matches
  <2> QED
    BY <1>2, <1>7, <2>1 DEF RowFits
<1> QED
  BY <1>1, <1>2, <1>3, <1>10, <1>12, <1>13, <1>14, <1>16, <1>17, <1>18, TablesFaithful

LEMMA KeeperFaithful ==
  ASSUME RowsInv, Keeper, UNCHANGED reqVars, NEW r \in Requests
  PROVE  Faithful(r)'
<1>1. LogShape /\ Faithful(r)
  BY DEF RowsInv
<1>2. CASE StaleSelect \/ \E q \in Requests : Older(q)
  <2>1. UNCHANGED <<out, queue, lost, log, attempts, channels, repair, phase, trail, answer>>
    BY <1>2 DEF StaleSelect, Older, reqVars
  <2>2. Keeps(r) /\ SameRows(r) /\ (repair[r] = "due" => \A p \in Requests : repair'[p] = "due")
    BY <1>1, <2>1 DEF Keeps, SameRows, Faithful, Repairing
  <2> QED
    BY <1>1, <2>1, <2>2, Untouched
<1>3. CASE ClearLogs
  BY <1>3, ForgetFaithful DEF ClearLogs
<1>4. CASE CleanupLogs
  <2>1. PICK S \in SUBSET aged : Forget(S)
    BY <1>4 DEF CleanupLogs
  <2>2. Forget(S \cap Requests)
    <3>1. \A p \in Requests : p \in S <=> p \in S \cap Requests
      OBVIOUS
    <3>2. \A a \in attempts : a.req \in S <=> a.req \in S \cap Requests
      BY <1>1 DEF LogShape, AttemptEvents
    <3>3. {a \in attempts : a.req \notin S} = {a \in attempts : a.req \notin S \cap Requests}
      BY <3>2
    <3>4. [p \in Requests |-> IF p \in S THEN Absent ELSE log[p]]
            = [p \in Requests |-> IF p \in S \cap Requests THEN Absent ELSE log[p]]
      BY <3>1
    <3> QED
      BY <2>1, <3>3, <3>4 DEF Forget
  <2> QED
    BY <2>2, ForgetFaithful
<1>5. ASSUME NEW q \in Requests, StaleUpdate(q) PROVE Faithful(r)'
  BY <1>5, SweepFaithful
<1>6. ASSUME NEW c \in Channels, DeleteChannel(c) PROVE Faithful(r)'
  BY <1>6, DeletionFaithful
<1> QED
  BY <1>2, <1>3, <1>4, <1>5, <1>6 DEF Keeper

-----------------------------------------------------------------------------
(* The repair at start-up.                                                 *)
LEMMA RepairMarks ==
  ASSUME RowsInv, UNCHANGED reqVars,
         UNCHANGED <<out, queue, log, attempts, channels>>,
         NEW r \in Requests, r \in lost => r \in lost', Repairing(r)',
         r \notin lost' /\ repair'[r] # "half" => repair[r] # "half"
  PROVE  Faithful(r)'
<1>1. LogShape /\ Faithful(r)
  BY DEF RowsInv
<1>2. Still
  BY DEF Still, reqVars
<1>3. SameWords(r) /\ Waits(r)' = Waits(r) /\ (Silent(r)' <=> Silent(r))
  BY <1>2, StillWords
<1>4. Cleared(r)' <=> Cleared(r)
  BY <1>3 DEF Cleared, Start
<1>5. RowsTrue(r)' /\ (Empty(r) => Empty(r)')
  BY <1>1, <1>3 DEF RowsTrue, Empty, Faithful, Truthful, SameWords, Shown
<1>6. KeepsEnd(r) /\ KeepsRows(r)
  BY <1>1, <1>4, <1>2 DEF KeepsEnd, KeepsRows, Still, Shown, Faithful, Truthful
<1>7. r \notin lost' /\ log'[r].outcome = "success" /\ repair'[r] # "half" => HasGood(r)'
  BY <1>1, <1>3, <1>4 DEF Faithful, Backed, HasGood, SameWords
<1>8. phase[r] = "over" /\ r \notin lost' /\ Silent(r) /\ IsLogged(r)' => RowFits(r)'
  BY <1>1, <1>2 DEF Faithful, LastWord, RowFits, IsLogged, Matches, Still
<1> QED
  BY <1>1, <1>2, <1>5, <1>6, <1>7, <1>8, TablesFaithful

LEMMA RepairFaithful ==
  ASSUME AnswerInv, RowsInv, Repair, UNCHANGED reqVars, NEW r \in Requests
  PROVE  Faithful(r)'
<1>1. /\ LogShape /\ Faithful(r) /\ UNCHANGED <<phase, trail, answer>>
      /\ repair \in [Requests -> {"none", "due", "listed", "half"}]
      /\ log[r] \in Rows
  BY DEF RowsInv, reqVars, LogShape
<1>2. CASE RepairSelect
  <2>1. /\ UNCHANGED <<out, queue, lost, log, attempts, channels>>
        /\ \A p \in Requests : repair'[p] = IF log[p].outcome = "cancelled" /\ log[p].status = 200
                                            THEN "listed" ELSE "none"
        /\ \E p \in Requests : repair[p] = "due"
    BY <1>2 DEF RepairSelect
  <2>2. repair[r] = "due"
    BY <2>1 DEF RowsInv, Faithful, Repairing
  <2>3. Still
    BY <1>1, <2>1 DEF Still
  <2>4. repair'[r] = "listed" => Over(r)' /\ Silent(r)' /\ log'[r].status = 200
    <3>1. SameWords(r) /\ (Silent(r)' <=> Silent(r))
      BY <2>3, StillWords
    <3> QED
      BY <1>1, <2>1, <3>1 DEF Faithful, Truthful, Sealed, SameWords
  <2>5. Repairing(r)'
    <3>1. repair'[r] \in {"listed", "none"}
      BY <2>1
    <3> QED
      BY <2>4, <3>1 DEF Repairing
  <2> QED
    BY <2>1, <2>2, <2>5, RepairMarks
<1>3. CASE RepairFails
  <2>1. /\ UNCHANGED <<out, queue, log, attempts, channels>> /\ repair'[r] = "none"
        /\ lost' = lost \cup Half
    BY <1>3 DEF RepairFails
  <2>2. Repairing(r)' /\ (repair[r] = "half" => r \in lost')
    BY <2>1 DEF Repairing, Half
  <2> QED
    BY <2>1, <2>2, RepairMarks
<1>4. ASSUME NEW q \in Requests, NEW from \in {"listed", "half"}, NEW to \in {"half", "none"},
             Repairs(q, from, to), q # r, UNCHANGED <<out, queue, lost, channels>>,
             log'[r] = log[r], SameRows(r)
      PROVE  Faithful(r)'
  <2>1. repair[q] # "due" /\ repair'[r] = repair[r]
    BY <1>1, <1>4 DEF Repairs
  <2>2. repair[r] # "due"
    BY <1>1, <2>1 DEF Faithful, Repairing
  <2>3. Keeps(r)
    BY <1>1 DEF Keeps
  <2> QED
    BY <1>1, <1>4, <2>1, <2>2, <2>3, Untouched
<1>5. ASSUME NEW q \in Requests, RepairPasses(q) PROVE Faithful(r)'
  <2>1. UNCHANGED <<out, queue, lost, log, attempts, channels>> /\ Repairs(q, "listed", "none")
    BY <1>5 DEF RepairPasses
  <2>2. CASE r # q
    BY <1>4, <2>1, <2>2 DEF SameRows
  <2>3. CASE r = q
    <3>1. repair[r] = "listed" /\ repair'[r] = "none"
      BY <1>1, <2>1, <2>3 DEF Repairs
    <3>2. Repairing(r)'
      BY <3>1 DEF Repairing
    <3> QED
      BY <2>1, <3>1, <3>2, RepairMarks
  <2> QED
    BY <2>2, <2>3
<1>6. ASSUME NEW q \in Requests, RepairRow(q) PROVE Faithful(r)'
  <2>1. /\ UNCHANGED <<out, queue, lost, attempts, channels>> /\ Repairs(q, "listed", "half")
        /\ LastCut(q) # {}
        /\ log' = IF log[q] # Absent THEN [log EXCEPT ![q].outcome = "success"] ELSE log
    BY <1>6 DEF RepairRow, IsLogged
  <2>2. log \in [Requests -> Rows]
    BY <1>1 DEF LogShape
  <2>3. CASE r # q
    <3>1. log'[r] = log[r] /\ SameRows(r)
      BY <2>1, <2>2, <2>3 DEF SameRows
    <3> QED
      BY <1>4, <2>1, <2>3, <3>1
  <2>4. CASE r = q
    <3>1. repair[r] = "listed" /\ repair'[r] = "half"
      BY <1>1, <2>1, <2>4 DEF Repairs
    <3>2. Over(r) /\ Silent(r) /\ (log[r] # Absent => log[r].status = 200)
      BY <1>1, <3>1 DEF Faithful, Repairing, IsLogged
    <3>3. /\ log[r] = Absent => log'[r] = Absent
          /\ log[r] # Absent => /\ log'[r].outcome = "success" /\ log'[r].status = 200
                                /\ log'[r].attempts = log[r].attempts
                                /\ log'[r].channel = log[r].channel
      BY <2>1, <2>2, <2>4, <3>2 DEF Rows
    <3>4. Still
      BY <1>1, <2>1 DEF Still
    <3>5. SameWords(r) /\ Waits(r)' = Waits(r) /\ (Silent(r)' <=> Silent(r))
      BY <3>4, StillWords
    <3>6. RowsTrue(r)' /\ (Empty(r) => Empty(r)')
      BY <1>1, <2>1, <3>3, <3>5 DEF RowsTrue, Empty, Faithful, Truthful, SameWords, Shown
    <3>7. KeepsEnd(r)
      <4>1. CASE log[r] = Absent
        BY <3>3, <4>1 DEF KeepsEnd, Absent, Row, NoStatus
      <4>2. CASE log[r] # Absent
        BY <1>1, <2>1, <3>2, <3>3, <4>2 DEF KeepsEnd, Shown
      <4> QED
        BY <4>1, <4>2
    <3>8. KeepsRows(r)
      BY <2>1, <3>3, <3>5 DEF KeepsRows, Cleared, Start
    <3>9. Repairing(r)'
      <4>1. LastCut(r)' = LastCut(r)
        BY <2>1 DEF LastCut
      <4>2. IsLogged(r)' => log'[r].status = 200
        BY <3>3 DEF IsLogged, Absent
      <4> QED
        BY <2>1, <2>4, <3>1, <3>2, <3>5, <4>1, <4>2 DEF Repairing, SameWords
    <3>10. phase[r] = "over" /\ r \notin lost' /\ Silent(r) /\ IsLogged(r)' => RowFits(r)'
      <4> SUFFICES ASSUME phase[r] = "over", r \notin lost, log[r] # Absent PROVE RowFits(r)'
        BY <2>1, <3>3 DEF IsLogged, Absent
      <4>1. RowFits(r)
        BY <1>1, <3>2 DEF Faithful, LastWord, IsLogged
      <4> QED
        BY <1>1, <2>1, <3>2, <3>3, <4>1 DEF RowFits, Matches
    <3> QED
      BY <1>1, <2>1, <3>1, <3>4, <3>6, <3>7, <3>8, <3>9, <3>10, TablesFaithful
  <2> QED
    BY <2>3, <2>4
<1>7. ASSUME NEW q \in Requests, RepairAttempt(q) PROVE Faithful(r)'
  <2> DEFINE made(a) == IF a \in LastCut(q) THEN [a EXCEPT !.outcome = "success"] ELSE a
  <2>1. /\ UNCHANGED <<out, queue, lost, log, channels>> /\ Repairs(q, "half", "none")
        /\ attempts' = {made(a) : a \in attempts}
    BY <1>7 DEF RepairAttempt
  <2>2. ASSUME NEW a \in attempts
        PROVE  /\ made(a) \in attempts' /\ made(a).req = a.req /\ made(a).no = a.no
               /\ made(a).channel = a.channel /\ made(a).type = a.type
               /\ made(a).outcome = IF a \in LastCut(q) THEN "success" ELSE a.outcome
               /\ a \notin LastCut(q) => made(a) = a
    <3>1. a \in AttemptEvents
      BY <1>1 DEF LogShape
    <3> QED
      BY <2>1, <3>1 DEF AttemptEvents
  <2>3. \A b \in attempts' : \E a \in attempts : b = made(a)
    BY <2>1
  <2>4. \A a \in LastCut(q) : a \in attempts /\ a.req = q /\ a.outcome = "cancelled"
    BY DEF LastCut
  <2> HIDE DEF made
  <2>5. CASE r # q
    <3>1. SameRows(r)
      BY <2>2, <2>3, <2>4, <2>5 DEF SameRows
    <3> QED
      BY <1>4, <2>1, <2>5, <3>1
  <2>6. CASE r = q
    <3>1. repair[r] = "half" /\ repair'[r] = "none"
      BY <1>1, <2>1, <2>6 DEF Repairs
    <3>2. Still
      BY <1>1, <2>1 DEF Still
    <3>3. SameWords(r) /\ Waits(r)' = Waits(r) /\ (Silent(r)' <=> Silent(r))
      BY <3>2, StillWords
    <3>4. ASSUME NEW a \in LastCut(r)
          PROVE  a.no = Len(trail[r]) + 1
      <4>1. AttemptTrue(r, a) /\ a.outcome = "cancelled"
        BY <1>1, <2>4, <2>6, <3>4 DEF Faithful, Truthful
      <4>2. trail[r] \in Seq(Failed)
        BY DEF AnswerInv, RequestShape
      <4>3. ASSUME a.no \in 1..Len(trail[r]) PROVE FALSE
        <5>1. trail[r][a.no] \in Failed
          BY <4>2, <4>3
        <5>2. trail[r][a.no].f \in AllFailures
          BY <5>1 DEF Failed
        <5>3. trail[r][a.no].f.outcome \in {"none", "transport_error", "upstream_error", "gateway_error"}
          BY <5>2, FailureOutcome
        <5>4. a.outcome = trail[r][a.no].f.outcome
          BY <4>1, <4>2, <4>3 DEF AttemptTrue
        <5> QED
          BY <4>1, <5>3, <5>4
      <4>4. Len(trail[r]) \in Nat /\ a.no \in 1..Len(trail[r]) + 1
        BY <4>1, <4>2 DEF AttemptTrue
      <4> QED
        BY <4>3, <4>4
    <3>5. RowsTrue(r)'
      <4> SUFFICES ASSUME NEW b \in attempts', b.req = r
                   PROVE  AttemptTrue(r, b)' /\ b.channel = Shown(Tried(r, b.no))'
        BY Zenon DEF RowsTrue
      <4>1. PICK a \in attempts : b = made(a)
        BY <2>3
      <4>2. /\ AttemptTrue(r, a) /\ a.channel = Shown(Tried(r, a.no))
            /\ b.no = a.no /\ b.channel = a.channel
        BY <1>1, <2>2, <4>1 DEF Faithful, Truthful
      <4>3. AttemptTrue(r, b)
        <5>1. CASE a \notin LastCut(r)
          BY <2>2, <2>6, <4>1, <4>2, <5>1
        <5>2. CASE a \in LastCut(r)
          <6>1. a.no = Len(trail[r]) + 1 /\ Len(trail[r]) \in Nat
            BY <3>4, <5>2 DEF AnswerInv, RequestShape
          <6> QED
            BY <4>2, <6>1 DEF AttemptTrue
        <5> QED
          BY <5>1, <5>2
      <4>4. b.channel = Shown(Tried(r, b.no))'
        <5>1. Tried(r, b.no)' = Tried(r, a.no)
          BY <3>3, <4>2 DEF SameWords
        <5>2. Shown(Tried(r, b.no))' = Shown(Tried(r, a.no))
          BY <2>1, <5>1 DEF Shown
        <5> QED
          BY <4>2, <5>2
      <4> QED
        BY <3>3, <4>3, <4>4 DEF SameWords
    <3>6. Empty(r) => Empty(r)'
      BY <2>1, <2>2, <2>3 DEF Empty
    <3>7. KeepsEnd(r)
      BY <1>1, <2>1 DEF KeepsEnd, Shown, Faithful, Truthful
    <3>8. Cleared(r)' <=> Cleared(r)
      BY <2>1, <3>3 DEF Cleared, Start
    <3>9. KeepsRows(r)
      <4>1. \A a \in attempts : Good(r, a) => Good(r, made(a))
        BY <2>2 DEF Good
      <4> QED
        BY <2>2, <3>8, <4>1 DEF KeepsRows
    <3>10. Repairing(r)'
      BY <3>1 DEF Repairing
    <3>11. r \notin lost' /\ log'[r].outcome = "success" /\ repair'[r] # "half" => HasGood(r)'
      <4> SUFFICES ASSUME log[r].outcome = "success" PROVE HasGood(r)'
        BY <2>1
      <4>1. IsLogged(r)
        BY DEF IsLogged, Absent, Row
      <4>2. PICK a : a \in LastCut(r)
        BY <1>1, <3>1, <4>1 DEF Faithful, Repairing
      <4>3. a \in attempts /\ a.req = r /\ a.type = "attempt"
        BY <1>1, <2>4, <2>6, <4>2 DEF LogShape, AttemptEvents
      <4>4. Good(r, made(a)) /\ made(a) \in attempts'
        BY <2>2, <2>6, <3>4, <4>2, <4>3 DEF Good
      <4> QED
        BY <3>3, <4>4 DEF HasGood, SameWords
    <3>12. phase[r] = "over" /\ r \notin lost' /\ Silent(r) /\ IsLogged(r)' => RowFits(r)'
      BY <1>1, <2>1 DEF Faithful, LastWord, RowFits, IsLogged, Matches
    <3> QED
      BY <1>1, <2>1, <3>2, <3>5, <3>6, <3>7, <3>9, <3>10, <3>11, <3>12, TablesFaithful
  <2> QED
    BY <2>5, <2>6
<1> QED
  BY <1>2, <1>3, <1>5, <1>6, <1>7 DEF Repair

-----------------------------------------------------------------------------
(* The process dies.                                                       *)
LEMMA CrashFaithful ==
  ASSUME RowsInv, AnswerInv, Crash, NEW r \in Requests
  PROVE  Faithful(r)'
<1>1. LogShape /\ Faithful(r)
  BY DEF RowsInv
<1>2. /\ out'[r] = <<>> /\ queue' = <<>> /\ UNCHANGED <<log, attempts, channels, trail, answer>>
      /\ \A p \in Requests : repair'[p] = "due"
      /\ phase'[r] = (IF phase[r] \in {"routing", "trying", "streaming"} THEN "gone" ELSE phase[r])
      /\ r \in lost => r \in lost'
  BY DEF Crash, Restart
<1>3. r \notin lost' => Silent(r) /\ repair[r] # "half"
  BY DEF Crash, Restart, Half, Silent
<1>4. Len(out'[r]) = 0 /\ Len(queue') = 0
  BY <1>2
<1>5. Silent(r)' /\ \A x : x \notin Waits(r)'
  BY <1>2, <1>4 DEF Silent, Waits
<1>6. Silent(r) => \A x : x \notin Waits(r)
  BY DEF Silent, Waits
<1>7. /\ Over(r) => Over(r)' /\ (phase'[r] = "over" => phase[r] = "over")
      /\ phase'[r] = "new" => phase[r] = "new"
  BY <1>2 DEF Over
<1>8. \A a : AttemptTrue(r, a) => AttemptTrue(r, a)'
  BY <1>2, <1>7 DEF AttemptTrue
<1>9. \A k : Tried(r, k)' = Tried(r, k)
  BY <1>2 DEF Tried
<1>10. \A x : Good(r, x)' <=> Good(r, x)
  BY <1>2 DEF Good
<1>11. Own(r)' /\ Fresh(r)' /\ StartsOnce(r)' /\ Sealed(r)'
  <2>1. Own(r)' /\ Sealed(r)'
    BY <1>4, <1>5 DEF Own, Sealed
  <2>2. Fresh(r)'
    BY <1>1, <1>2, <1>5, <1>7 DEF Faithful, Fresh
  <2>3. StartsOnce(r)'
    BY <1>4, <1>5 DEF StartsOnce, Start
  <2> QED
    BY <2>1, <2>2, <2>3
<1>12. Truthful(r)'
  <2>1. \A a \in attempts' : a.req = r => AttemptTrue(r, a)' /\ a.channel = Shown(Tried(r, a.no))'
    BY <1>1, <1>2, <1>8, <1>9 DEF Faithful, Truthful, Shown
  <2> QED
    BY <1>1, <1>2, <1>5, <1>7, <2>1 DEF Faithful, Truthful, Shown
<1>13. Cleared(r) => Cleared(r)'
  BY <1>2, <1>5 DEF Cleared
<1>14. Recorded(r)'
  BY <1>1, <1>2, <1>3, <1>6, <1>13 DEF Faithful, Recorded
<1>15. Backed(r)'
  <2>1. HasGood(r) => HasGood(r)'
    BY <1>2, <1>10, <1>13 DEF HasGood
  <2> QED
    BY <1>1, <1>2, <1>3, <1>4, <2>1 DEF Faithful, Backed
<1>16. Repairing(r)'
  BY <1>2 DEF Repairing
<1>17. LastWord(r)'
  <2> SUFFICES ASSUME phase'[r] = "over", r \notin lost', IsLogged(r)' PROVE RowFits(r)'
    BY <1>2, <1>4 DEF LastWord
  <2>1. RowFits(r)
    BY <1>1, <1>2, <1>3, <1>7 DEF Faithful, LastWord, IsLogged
  <2> QED
    BY <1>2, <2>1 DEF RowFits, Matches
<1> QED
  BY <1>11, <1>12, <1>14, <1>15, <1>16, <1>17 DEF Faithful

-----------------------------------------------------------------------------
(* The shapes of the log.                                                  *)
LEMMA SendingShape ==
  ASSUME LogShape, NEW q \in Requests, NEW es \in Seq(Events), out' = [out EXCEPT ![q] = es],
         UNCHANGED <<log, attempts, channels, repair>>, queue' \in Seq(Events)
  PROVE  LogShape'
BY DEF LogShape

LEMMA TablesShape ==
  ASSUME LogShape, UNCHANGED out, queue' \in Seq(Events), log' \in [Requests -> Rows],
         attempts' \subseteq AttemptEvents, channels' \subseteq channels,
         repair' \in [Requests -> {"none", "due", "listed", "half"}]
  PROVE  LogShape'
BY DEF LogShape

LEMMA RowShapes ==
  ASSUME LogShape
  PROVE  /\ Absent \in Rows /\ Pending \in Rows
         /\ \A p \in Requests : log[p] \in Rows
         /\ \A w \in Rows, o \in Outcomes : [w EXCEPT !.outcome = o] \in Rows
         /\ \A w \in Rows : [w EXCEPT !.channel = NoChannel] \in Rows
         /\ \A a \in AttemptEvents, o \in Outcomes : [a EXCEPT !.outcome = o] \in AttemptEvents
         /\ \A a \in AttemptEvents : [a EXCEPT !.channel = NoChannel] \in AttemptEvents
         /\ \A e \in FinishEvents : Row(e.outcome, e.status, e.attempts, e.channel) \in Rows
<1>1. Absent \in Rows /\ Pending \in Rows /\ \A p \in Requests : log[p] \in Rows
  BY DEF LogShape, Rows, Absent, Pending, Row, NoStatus, Outcomes, ChannelOrNone
<1>2. /\ \A w \in Rows, o \in Outcomes : [w EXCEPT !.outcome = o] \in Rows
      /\ \A w \in Rows : [w EXCEPT !.channel = NoChannel] \in Rows
  BY DEF Rows, ChannelOrNone
<1>3. \A a \in AttemptEvents, o \in Outcomes : [a EXCEPT !.outcome = o] \in AttemptEvents
  BY DEF AttemptEvents
<1>4. \A a \in AttemptEvents : [a EXCEPT !.channel = NoChannel] \in AttemptEvents
  BY DEF AttemptEvents, ChannelOrNone
<1>5. \A e \in FinishEvents : Row(e.outcome, e.status, e.attempts, e.channel) \in Rows
  BY DEF FinishEvents, Rows, Row
<1> QED
  BY <1>1, <1>2, <1>3, <1>4, <1>5

LEMMA WriterShape ==
  ASSUME LogShape, Writer
  PROVE  LogShape'
<1>1. PICK e : e = Head(queue)
  OBVIOUS
<1>2. queue # <<>> /\ queue' = Tail(queue) /\ UNCHANGED <<out, channels, repair>>
  BY DEF Writer, WriteStart, WriteHealth, WriteAttempt, WriteFinish, WriteFails, Receive
<1>3. queue' \in Seq(Events) /\ e \in Events
  <2>1. queue \in Seq(Events)
    BY DEF LogShape
  <2>2. Head(queue) = queue[1] /\ Tail(queue) \in Seq(Events) /\ Len(queue) \in Nat \ {0}
    BY <1>2, <2>1, TailIs
  <2> QED
    BY <1>1, <1>2, <2>1, <2>2
<1>4. e.req \in Requests
  BY <1>3, EventFacts
<1>5. /\ log \in [Requests -> Rows] /\ attempts \subseteq AttemptEvents
      /\ repair \in [Requests -> {"none", "due", "listed", "half"}]
  BY DEF LogShape
<1>6. log' \in [Requests -> Rows] /\ attempts' \subseteq AttemptEvents
  <2>1. CASE WriteStart
    BY <1>1, <1>4, <1>5, <2>1, RowShapes DEF WriteStart, Event
  <2>2. CASE WriteHealth \/ WriteFails
    BY <1>5, <2>2 DEF WriteHealth, WriteFails
  <2>3. CASE WriteAttempt
    <3>1. e \in AttemptEvents
      BY <1>1, <1>3, <2>3, EventFacts DEF WriteAttempt, Receive
    <3> QED
      BY <1>1, <1>5, <2>3, <3>1 DEF WriteAttempt, Event
  <2>4. CASE WriteFinish
    <3>1. e \in FinishEvents
      BY <1>1, <1>3, <2>4, EventFacts DEF WriteFinish, Receive
    <3>2. Row(e.outcome, e.status, e.attempts, e.channel) \in Rows
      BY <3>1, RowShapes
    <3> QED
      BY <1>1, <1>4, <1>5, <2>4, <3>2 DEF WriteFinish, Event, Finished
  <2> QED
    BY <2>1, <2>2, <2>3, <2>4 DEF Writer
<1> QED
  BY <1>2, <1>3, <1>5, <1>6, TablesShape

LEMMA KeeperShape ==
  ASSUME LogShape, Keeper
  PROVE  LogShape'
<1>1. /\ log \in [Requests -> Rows] /\ attempts \subseteq AttemptEvents /\ queue \in Seq(Events)
      /\ repair \in [Requests -> {"none", "due", "listed", "half"}]
  BY DEF LogShape
<1>2. /\ UNCHANGED <<out, queue, repair>> /\ channels' \subseteq channels
      /\ log' \in [Requests -> Rows] /\ attempts' \subseteq AttemptEvents
  <2>1. CASE StaleSelect \/ \E q \in Requests : Older(q)
    BY <1>1, <2>1 DEF StaleSelect, Older
  <2>2. ASSUME NEW S, Forget(S) PROVE /\ UNCHANGED <<out, queue, repair>> /\ channels' \subseteq channels
                                      /\ log' \in [Requests -> Rows] /\ attempts' \subseteq AttemptEvents
    BY <1>1, <2>2, RowShapes DEF Forget
  <2>3. ASSUME NEW q \in Requests, StaleUpdate(q)
        PROVE  /\ UNCHANGED <<out, queue, repair>> /\ channels' \subseteq channels
               /\ log' \in [Requests -> Rows] /\ attempts' \subseteq AttemptEvents
    <3>1. "cancelled" \in Outcomes
      BY DEF Outcomes
    <3>2. [log[q] EXCEPT !.outcome = "cancelled"] \in Rows
      BY <3>1, RowShapes
    <3> QED
      BY <1>1, <2>3, <3>2 DEF StaleUpdate
  <2>4. ASSUME NEW c \in Channels, DeleteChannel(c)
        PROVE  /\ UNCHANGED <<out, queue, repair>> /\ channels' \subseteq channels
               /\ log' \in [Requests -> Rows] /\ attempts' \subseteq AttemptEvents
    <3>1. \A p \in Requests : (IF log[p].channel = c THEN [log[p] EXCEPT !.channel = NoChannel]
                               ELSE log[p]) \in Rows
      BY RowShapes
    <3>2. \A a \in attempts : (IF a.channel = c THEN [a EXCEPT !.channel = NoChannel] ELSE a) \in AttemptEvents
      BY <1>1, RowShapes
    <3> QED
      BY <2>4, <3>1, <3>2 DEF DeleteChannel
  <2> QED
    BY <2>1, <2>2, <2>3, <2>4 DEF Keeper, ClearLogs, CleanupLogs
<1> QED
  BY <1>1, <1>2, TablesShape

LEMMA RepairShape ==
  ASSUME LogShape, Repair
  PROVE  LogShape'
<1>1. /\ log \in [Requests -> Rows] /\ attempts \subseteq AttemptEvents /\ queue \in Seq(Events)
      /\ repair \in [Requests -> {"none", "due", "listed", "half"}]
  BY DEF LogShape
<1>2. UNCHANGED <<out, queue, channels>>
  BY DEF Repair, RepairSelect, RepairFails, RepairRow, RepairPasses, RepairAttempt
<1>3. "success" \in Outcomes
  BY DEF Outcomes
<1>4. repair' \in [Requests -> {"none", "due", "listed", "half"}]
  BY <1>1 DEF Repair, RepairSelect, RepairFails, RepairRow, RepairPasses, RepairAttempt, Repairs
<1>5. log' \in [Requests -> Rows]
  <2>1. \A q \in Requests : [log[q] EXCEPT !.outcome = "success"] \in Rows
    BY <1>3, RowShapes
  <2> QED
    BY <1>1, <2>1 DEF Repair, RepairSelect, RepairFails, RepairRow, RepairPasses, RepairAttempt
<1>6. attempts' \subseteq AttemptEvents
  <2>1. ASSUME NEW q \in Requests, RepairAttempt(q) PROVE attempts' \subseteq AttemptEvents
    <3>1. \A a \in attempts :
            (IF a \in LastCut(q) THEN [a EXCEPT !.outcome = "success"] ELSE a) \in AttemptEvents
      BY <1>1, <1>3, RowShapes
    <3> QED
      BY <2>1, <3>1 DEF RepairAttempt
  <2> QED
    BY <1>1, <2>1 DEF Repair, RepairSelect, RepairFails, RepairRow, RepairPasses
<1> QED
  BY <1>1, <1>2, <1>4, <1>5, <1>6, TablesShape

-----------------------------------------------------------------------------
LEMMA HandlerFaithful ==
  ASSUME AnswerInv, RowsInv, NEW q \in Requests, Handler(q)
  PROVE  RowsInv'
<1>1. PICK es : Speaks(q, es)
  BY HandlerSpeaks
<1>2. /\ out' = [out EXCEPT ![q] = es] /\ es \in Seq(Events)
      /\ UNCHANGED <<queue, lost, log, attempts, channels, repair>>
  BY <1>1 DEF Speaks
<1>3. LogShape /\ out \in [Requests -> Seq(Events)] /\ queue' \in Seq(Events)
  BY <1>2 DEF RowsInv, LogShape
<1>4. LogShape'
  BY <1>2, <1>3, SendingShape
<1>5. Faithful(q)'
  BY <1>1, SpeakerFaithful
<1>6. ASSUME NEW r \in Requests, r # q PROVE Faithful(r)'
  <2>1. Keeps(r)
    BY <1>6, HandlerAnswers DEF Touches, Same, Keeps
  <2>2. out'[r] = out[r] /\ SameRows(r)
    BY <1>2, <1>3, <1>6 DEF SameRows
  <2>3. Faithful(r) /\ (repair[r] = "due" => \A p \in Requests : repair'[p] = "due")
    BY <1>2 DEF RowsInv, Faithful, Repairing
  <2> QED
    BY <1>2, <2>1, <2>2, <2>3, Untouched
<1> QED
  BY <1>4, <1>5, <1>6 DEF RowsInv

LEMMA NextRows == AnswerInv /\ RowsInv /\ [Next]_vars => RowsInv'
<1> SUFFICES ASSUME AnswerInv, RowsInv, [Next]_vars PROVE RowsInv'
  OBVIOUS
<1>1. LogShape /\ queue \in Seq(Events) /\ out \in [Requests -> Seq(Events)]
  BY DEF RowsInv, LogShape
<1>2. ASSUME NEW q \in Requests, Handler(q) PROVE RowsInv'
  BY <1>2, HandlerFaithful
<1>3. ASSUME NEW q \in Requests, Emit(q), UNCHANGED reqVars PROVE RowsInv'
  <2>1. out[q] \in Seq(Events) /\ out[q] # <<>>
    BY <1>1, <1>3 DEF Emit
  <2>2. Tail(out[q]) \in Seq(Events) /\ Head(out[q]) \in Events
    <3>1. Head(out[q]) = out[q][1] /\ Tail(out[q]) \in Seq(Events) /\ Len(out[q]) \in Nat \ {0}
      BY <2>1, TailIs
    <3> QED
      BY <2>1, <3>1
  <2>3. queue' \in Seq(Events)
    <3>1. queue' = queue \/ queue' = Append(queue, Head(out[q]))
      BY <1>3 DEF Emit
    <3>2. Append(queue, Head(out[q])) \in Seq(Events)
      BY <1>1, <2>2, AppendIs, Zenon
    <3> QED
      BY <1>1, <3>1, <3>2
  <2>4. /\ out' = [out EXCEPT ![q] = Tail(out[q])]
        /\ UNCHANGED <<log, attempts, channels, repair>>
    BY <1>3 DEF Emit
  <2>5. LogShape'
    BY <1>1, <2>2, <2>3, <2>4, SendingShape
  <2>6. \A r \in Requests : Faithful(r)'
    BY <1>3, EmitQueues, EmitDrops
  <2> QED
    BY <2>5, <2>6 DEF RowsInv
<1>4. CASE Writer /\ UNCHANGED reqVars
  BY <1>1, <1>4, WriterShape, WriterFaithful DEF RowsInv
<1>5. CASE Keeper /\ UNCHANGED reqVars
  BY <1>1, <1>5, KeeperShape, KeeperFaithful DEF RowsInv
<1>6. CASE Repair /\ UNCHANGED reqVars
  BY <1>1, <1>6, RepairShape, RepairFaithful DEF RowsInv
<1>7. CASE Crash
  <2>1. LogShape'
    BY <1>1, <1>7 DEF LogShape, Crash, Restart
  <2> QED
    BY <1>7, <2>1, CrashFaithful DEF RowsInv
<1>8. CASE UNCHANGED vars
  <2>1. UNCHANGED <<out, queue, lost, log, attempts, channels, repair, phase, trail, answer>>
    BY <1>8 DEF vars, logVars, reqVars
  <2>2. LogShape'
    BY <1>1, <2>1 DEF LogShape
  <2>3. ASSUME NEW r \in Requests PROVE Faithful(r)'
    <3>1. Faithful(r) /\ (repair[r] = "due" => \A p \in Requests : repair'[p] = "due")
      BY <2>1 DEF RowsInv, Faithful, Repairing
    <3>2. Keeps(r) /\ SameRows(r)
      BY <2>1 DEF Keeps, SameRows
    <3> QED
      BY <2>1, <3>1, <3>2, Untouched
  <2> QED
    BY <2>2, <2>3 DEF RowsInv
<1> QED
  BY <1>2, <1>3, <1>4, <1>5, <1>6, <1>7, <1>8 DEF Next

LEMMA SpecRows == Spec => []RowsInv
<1>1. Init => RowsInv
  <2> SUFFICES ASSUME Init PROVE RowsInv
    OBVIOUS
  <2>1. /\ out = [r \in Requests |-> <<>>] /\ queue = <<>> /\ lost = {} /\ attempts = {}
        /\ log = [r \in Requests |-> Absent] /\ channels = Channels
        /\ repair = [r \in Requests |-> "none"]
        /\ phase = [r \in Requests |-> "new"] /\ trail = [r \in Requests |-> <<>>]
    BY DEF Init, LogInit
  <2>2. Absent \in Rows /\ Absent.status = 0 /\ Absent.outcome = "absent"
    BY DEF Absent, Row, Rows, NoStatus, Outcomes, ChannelOrNone
  <2>3. LogShape
    BY <2>1, <2>2 DEF LogShape
  <2>4. ASSUME NEW r \in Requests PROVE Faithful(r)
    <3>1. /\ out[r] = <<>> /\ Len(out[r]) = 0 /\ Len(queue) = 0 /\ log[r] = Absent
          /\ log[r].status = 0 /\ log[r].outcome = "absent" /\ Len(trail[r]) = 0
          /\ phase[r] = "new" /\ repair[r] = "none" /\ attempts = {}
      BY <2>1, <2>2
    <3>2. \A x : x \notin Waits(r)
      BY <3>1 DEF Waits
    <3>3. Own(r) /\ Fresh(r) /\ StartsOnce(r) /\ Sealed(r)
      BY <3>1, <3>2 DEF Own, Fresh, Silent, StartsOnce, Sealed
    <3>4. Truthful(r) /\ Recorded(r) /\ Backed(r) /\ Repairing(r) /\ LastWord(r)
      BY <3>1, <3>2 DEF Truthful, Recorded, Backed, Repairing, LastWord
    <3> QED
      BY <3>3, <3>4 DEF Faithful
  <2> QED
    BY <2>3, <2>4 DEF RowsInv
<1> QED
  BY <1>1, NextRows, SpecAnswer, PTL DEF Spec

(* Once all of it is written, the row of an answered request tells what    *)
(* the client was told (service.rs:146, error.rs:69-156), whatever was     *)
(* dropped, cleared, swept, repaired or cut off before.                    *)
THEOREM RowsTellTheAnswer == Spec => []LogTellsTheAnswer
<1>1. ASSUME RowsInv PROVE LogTellsTheAnswer
  <2> SUFFICES ASSUME NEW r \in Requests, phase[r] = "over", Settled(r), log[r].outcome # "cancelled"
               PROVE  /\ log[r].outcome # "pending"
                      /\ log[r].status = answer[r].status \/ log[r].outcome = "stream_interrupted"
                      /\ log[r].attempts = answer[r].no
                      /\ Matches(answer[r].channel, log[r].channel)
    BY DEF LogTellsTheAnswer
  <2>1. Silent(r) /\ r \notin lost /\ IsLogged(r)
    BY DEF Settled, Silent
  <2>2. RowFits(r)
    BY <1>1, <2>1 DEF RowsInv, Faithful, LastWord
  <2> QED
    BY <2>2 DEF RowFits
<1> QED
  BY <1>1, SpecRows, PTL

(* Once all of it is written, the rows of a request's attempts are the     *)
(* attempts that were made and recorded, with their ends and channels, and *)
(* a row that says success names the one that answered                     *)
(* (attempt.rs:184-255, telemetry.rs:124-206).                             *)
THEOREM RowsFitTheAttempts == Spec => []AttemptsFitTrail
<1>1. ASSUME AnswerInv, RowsInv PROVE AttemptsFitTrail
  <2> SUFFICES ASSUME NEW r \in Requests, Settled(r)
               PROVE  LET rows == {a \in attempts : a.req = r}
                          n == Len(trail[r])
                      IN  /\ \A i \in 1..n :
                               LET t == trail[r][i]
                                   mine == {a \in rows : a.no = i}
                               IN  IF t.f.recorded
                                   THEN \E a \in mine : /\ a.outcome = t.f.outcome
                                                        /\ Matches(t.channel, a.channel)
                                   ELSE mine = {}
                          /\ \A a \in rows : a.no <= n + 1
                          /\ log[r].outcome = "success" =>
                               \E a \in rows : /\ a.outcome = "success" /\ a.no = n + 1
                                               /\ log[r].attempts = a.no /\ log[r].channel = a.channel
    BY DEF AttemptsFitTrail
  <2> DEFINE n == Len(trail[r])
  <2>1. Silent(r) /\ r \notin lost /\ log[r] # Absent /\ repair[r] # "half" /\ Faithful(r)
    BY <1>1 DEF Settled, Silent, IsLogged, RowsInv
  <2>2. n \in Nat
    BY <1>1 DEF AnswerInv, RequestShape
  <2>3. \A x : x \notin Waits(r)
    BY <2>1 DEF Silent, Waits
  <2>4. \A a \in attempts : a.req = r => AttemptTrue(r, a) /\ a.channel = Shown(Tried(r, a.no))
    BY <2>1 DEF Faithful, Truthful
  <2>5. ASSUME NEW i \in 1..n, trail[r][i].f.recorded
        PROVE  \E a \in attempts : /\ a.req = r /\ a.no = i /\ a.outcome = trail[r][i].f.outcome
                                   /\ Matches(trail[r][i].channel, a.channel)
    <3>1. PICK a \in attempts : a.req = r /\ a.no = i
      BY <2>1, <2>3, <2>5 DEF Faithful, Recorded, Cleared
    <3>2. a.outcome = trail[r][i].f.outcome
      BY <2>2, <2>4, <3>1 DEF AttemptTrue
    <3>3. a.channel = Shown(trail[r][i].channel)
      BY <2>2, <2>4, <3>1 DEF Tried
    <3>4. Matches(trail[r][i].channel, a.channel)
      BY <3>3 DEF Shown, Matches
    <3> QED
      BY <3>1, <3>2, <3>4
  <2>6. ASSUME NEW i \in 1..n, ~trail[r][i].f.recorded, NEW a \in attempts, a.req = r, a.no = i
        PROVE  FALSE
    BY <2>2, <2>4, <2>6 DEF AttemptTrue
  <2>7. \A a \in attempts : a.req = r => a.no <= n + 1
    BY <2>2, <2>4 DEF AttemptTrue
  <2>8. ASSUME log[r].outcome = "success"
        PROVE  \E a \in attempts : /\ a.req = r /\ a.outcome = "success" /\ a.no = n + 1
                                   /\ log[r].attempts = a.no /\ log[r].channel = a.channel
    <3>1. PICK a \in attempts : Good(r, a)
      BY <2>1, <2>8 DEF Faithful, Backed, HasGood, Cleared
    <3>2. a.req = r /\ a.outcome = "success" /\ a.no = n + 1
      BY <3>1 DEF Good
    <3>3. log[r].attempts = n + 1 /\ log[r].channel = Shown(answer[r].channel)
      BY <2>1, <2>8 DEF Faithful, Truthful
    <3>4. a.channel = Shown(answer[r].channel)
      BY <2>2, <2>4, <3>2 DEF Tried
    <3> QED
      BY <3>2, <3>3, <3>4
  <2> QED
    BY <2>5, <2>6, <2>7, <2>8
<1> QED
  BY <1>1, SpecRows, SpecAnswer, PTL

=============================================================================

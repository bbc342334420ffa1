------------------------ MODULE CircuitBreakerProofs ------------------------
(***************************************************************************)
(* Proofs about CircuitBreaker for every number of channels, requests and  *)
(* probe tasks and every threshold, cooldown and queue bound.              *)
(***************************************************************************)
EXTENDS CircuitBreaker, TLAPS

(* The rows a health event writes are rows again.                          *)
LEMMA RowTypes ==
  ASSUME NEW h \in Row
  PROVE  /\ Cleared \in Row
         /\ RequestFailed(h) \in Row
         /\ ProbeFailed(h) \in Row
         /\ \A reset \in {Null, Past} \cup 1..QuotaTicks : QuotaExhausted(h, reset) \in Row
         /\ Elapsed(h) \in Row
<1> USE ThresholdAssumption, TicksAssumption DEF Row, States, Kinds, Null
<1>1. Cleared \in Row
  BY DEF Cleared
<1>2. RequestFailed(h) \in Row
  BY DEF RequestFailed
<1>3. ProbeFailed(h) \in Row
  BY DEF ProbeFailed, Earlier
<1>4. \A reset \in {Null, Past} \cup 1..QuotaTicks : QuotaExhausted(h, reset) \in Row
  BY DEF QuotaExhausted, QuotaUntil, Past
<1>5. Elapsed(h) \in Row
  BY DEF Elapsed
<1> QED BY <1>1, <1>2, <1>3, <1>4, <1>5

LEMMA OutcomeType ==
  ASSUME NEW h \in Row, NEW e \in Event
  PROVE  Outcome(e, h) \in Row
  BY RowTypes DEF Outcome, Event

(* Update keeps the type of the table.                                     *)
LEMMA UpdateType ==
  ASSUME health \in [Channels -> Row], NEW c \in Channels, NEW row \in Row,
         Update(c, row)
  PROVE  health' \in [Channels -> Row]
  BY DEF Update

(* Emit keeps the type of the queue.                                       *)
LEMMA EmitType ==
  ASSUME queue \in Seq(Event), NEW c \in Channels, NEW b \in BOOLEAN,
         NEW type \in {"ChannelSuccess", "ChannelFailure"},
         Emit(type, c, b)
  PROVE  queue' \in Seq(Event)
<1>1. [type |-> type, ch |-> c, countable |-> b] \in Event
  BY DEF Event
<1> QED BY <1>1 DEF Emit

LEMMA GiveUpType ==
  ASSUME TypeOK, NEW r \in Requests, NEW c \in Channels, GiveUp(r, c)
  PROVE  req' \in [Requests -> [phase : {"idle", "sending", "marked"},
                                left : SUBSET Channels, countable : BOOLEAN]]
  BY DEF TypeOK, GiveUp, Idle

-----------------------------------------------------------------------------
(* TypeOK: every variable keeps its type under every action.               *)
LEMMA InitType == Init => TypeOK
  BY ThresholdAssumption
  DEF Init, TypeOK, Absent, Idle, NoProbe, Row, States, Kinds, ProbeTask, Event, Null

LEMMA NextType ==
  ASSUME TypeOK, [Next]_vars
  PROVE  TypeOK'
<1> USE DEF TypeOK
<1>1. ASSUME NEW c \in Channels, Admin(c) PROVE TypeOK'
  <2>1. CASE CreateChannel(c)
    BY <2>1, RowTypes DEF CreateChannel
  <2>2. CASE SetEnabled(c)
    BY <2>2 DEF SetEnabled
  <2>3. CASE DeleteChannel(c)
    BY <2>3, ThresholdAssumption DEF DeleteChannel, Gone, Row, States, Kinds, Null
  <2>4. CASE ResetHealth(c)
    BY <2>4, RowTypes, UpdateType DEF ResetHealth
  <2>5. CASE ManualProbe(c)
    BY <2>5 DEF ManualProbe, ProbeTask
  <2> QED BY <1>1, <2>1, <2>2, <2>3, <2>4, <2>5 DEF Admin
<1>2. ASSUME NEW c \in Channels, SupervisorSkip(c) PROVE TypeOK'
  BY <1>2 DEF SupervisorSkip
<1>3. ASSUME NEW c \in Channels, SupervisorSpawn(c) PROVE TypeOK'
  BY <1>3 DEF SupervisorSpawn, ProbeTask
<1>4. ASSUME NEW c \in Channels, UpstreamTurns(c) PROVE TypeOK'
  BY <1>4 DEF UpstreamTurns
<1>5. ASSUME NEW r \in Requests, ResolveCandidates(r) PROVE TypeOK'
  BY <1>5 DEF ResolveCandidates
<1>6. ASSUME NEW r \in Requests, ClientGone(r) PROVE TypeOK'
  BY <1>6 DEF ClientGone, Idle
<1>7. ASSUME NEW r \in Requests, NEW c \in Channels, Attempt(r, c) PROVE TypeOK'
  <2>1. CASE AttemptSucceeds(r, c)
    BY <2>1, EmitType DEF AttemptSucceeds, Idle
  <2>2. CASE AttemptFails(r, c)
    BY <2>2, EmitType, GiveUpType DEF AttemptFails
  <2>3. CASE MarkQuotaExhausted(r, c)
    <3>1. health' \in [Channels -> Row]
      BY <2>3, RowTypes, UpdateType DEF MarkQuotaExhausted
    <3>2. PICK countable \in BOOLEAN :
            req' = [req EXCEPT ![r].phase = "marked", ![r].countable = countable]
      BY <2>3, Zenon DEF MarkQuotaExhausted
    <3>3. req' \in [Requests -> [phase : {"idle", "sending", "marked"},
                                 left : SUBSET Channels, countable : BOOLEAN]]
      <4> DEFINE marked == [req[r] EXCEPT !.phase = "marked", !.countable = countable]
      <4>1. req' = [req EXCEPT ![r] = marked]
        BY <3>2
      <4>2. req[r] \in [phase : {"idle", "sending", "marked"},
                        left : SUBSET Channels, countable : BOOLEAN]
        OBVIOUS
      <4>3. marked \in [phase : {"idle", "sending", "marked"},
                        left : SUBSET Channels, countable : BOOLEAN]
        BY <3>2, <4>2
      <4> QED
        BY <4>1, <4>3
    <3>4. UNCHANGED <<enabled, up, queue, due, probing, probe>>
      BY <2>3, Zenon DEF MarkQuotaExhausted
    <3> QED BY <3>1, <3>3, <3>4
  <2>4. CASE ReportQuotaFailure(r, c)
    <3>1. req[r].countable \in BOOLEAN
      OBVIOUS
    <3>2. queue' \in Seq(Event)
      BY <2>4, <3>1, EmitType DEF ReportQuotaFailure
    <3> QED BY <2>4, <3>2, GiveUpType DEF ReportQuotaFailure
  <2> QED BY <1>7, <2>1, <2>2, <2>3, <2>4 DEF Attempt
<1>8. ASSUME NEW p \in Probes, ProbeAnswered(p) PROVE TypeOK'
  <2>1. PICK v \in {"ok", "bad"} : probe' = [probe EXCEPT ![p].at = v]
    BY <1>8 DEF ProbeAnswered
  <2>2. probe' \in [Probes -> ProbeTask]
    <3>1. probe' = [probe EXCEPT ![p] = [probe[p] EXCEPT !.at = v]]
      BY <2>1
    <3>2. [probe[p] EXCEPT !.at = v] \in ProbeTask
      BY DEF ProbeTask
    <3> QED
      BY <3>1, <3>2
  <2> QED BY <1>8, <2>2 DEF ProbeAnswered
<1>9. ASSUME NEW p \in Probes, ProbeOver(p)
      PROVE  /\ probe' \in [Probes -> ProbeTask]
             /\ probing' \subseteq Channels
  BY <1>9 DEF ProbeOver, NoProbe, ProbeTask
<1>10. ASSUME NEW p \in Probes, ProbeCommit(p) PROVE TypeOK'
  <2>1. health' \in [Channels -> Row]
    <3> DEFINE c == probe[p].ch
    <3>1. CASE c \in Channels
      BY <1>10, <3>1, RowTypes, UpdateType DEF ProbeCommit
    <3>2. CASE c \notin Channels
      BY <1>10, <3>2 DEF ProbeCommit, Update
    <3> QED BY <3>1, <3>2
  <2> QED BY <1>9, <1>10, <2>1 DEF ProbeCommit
<1>11. ASSUME NEW p \in Probes, ProbeError(p) PROVE TypeOK'
  BY <1>9, <1>11 DEF ProbeError
<1>12. CASE WriteEvent
  <2>1. Head(queue) \in Event /\ Tail(queue) \in Seq(Event)
    BY <1>12 DEF WriteEvent
  <2>2. Head(queue).ch \in Channels
    BY <2>1 DEF Event
  <2>3. Outcome(Head(queue), health[Head(queue).ch]) \in Row
    BY <2>1, <2>2, OutcomeType
  <2>4. health' \in [Channels -> Row]
    BY <1>12, <2>2, <2>3, UpdateType DEF WriteEvent
  <2> QED BY <1>12, <2>1, <2>4 DEF WriteEvent
<1>13. CASE WriteFails
  BY <1>13 DEF WriteFails
<1>14. CASE SupervisorQuery
  BY <1>14 DEF SupervisorQuery
<1>15. CASE Tick
  <2>1. \A c \in Channels : Elapsed(health[c]) \in Row
    BY RowTypes
  <2> QED BY <1>15, <2>1 DEF Tick
<1>16. CASE Restart
  BY <1>16 DEF Restart, Idle, NoProbe, ProbeTask
<1>17. CASE UNCHANGED vars
  BY <1>17 DEF vars
<1> QED
  BY <1>1, <1>2, <1>3, <1>4, <1>5, <1>6, <1>7, <1>8, <1>10, <1>11, <1>12, <1>13,
     <1>14, <1>15, <1>16, <1>17
  DEF Next

(* The variables keep their types in every behaviour.                      *)
THEOREM TypeCorrect == Spec => []TypeOK
<1>1. Init => TypeOK
  BY InitType
<1>2. TypeOK /\ [Next]_vars => TypeOK'
  BY NextType
<1> QED BY <1>1, <1>2, PTL DEF Spec
-----------------------------------------------------------------------------
(***************************************************************************)
(* The coherence of a row: an open channel has a deadline, a channel in    *)
(* rotation is below the threshold and has none.  It is kept by each       *)
(* writer alone, so that no order of late outcomes, verdicts, quota marks  *)
(* and resets can break it.                                                *)
(***************************************************************************)
RowCoherent(h) ==
  /\ h.state = "open" => h.until \in Nat
  /\ h.state = "active" => h.failures < Threshold /\ h.until = Null

Coherent == \A c \in Channels : RowCoherent(health[c])

LEMMA RowsStayCoherent ==
  ASSUME NEW h \in Row, RowCoherent(h)
  PROVE  /\ RowCoherent(Cleared)
         /\ RowCoherent(RequestFailed(h))
         /\ RowCoherent(ProbeFailed(h))
         /\ \A reset \in {Null, Past} \cup 1..QuotaTicks :
              RowCoherent(QuotaExhausted(h, reset))
         /\ RowCoherent(Elapsed(h))
  BY ThresholdAssumption, TicksAssumption
  DEF RowCoherent, Row, Cleared, RequestFailed, ProbeFailed, QuotaExhausted,
      QuotaUntil, Elapsed, States, Kinds, Null, Past

LEMMA UpdateCoherent ==
  ASSUME TypeOK, Coherent, NEW c \in Channels, NEW row, RowCoherent(row), Update(c, row)
  PROVE  Coherent'
  BY DEF TypeOK, Coherent, Update

LEMMA InitCoherent == Init => Coherent
  BY DEF Init, Coherent, RowCoherent, Absent

LEMMA NextCoherent ==
  ASSUME TypeOK, Coherent, [Next]_vars
  PROVE  Coherent'
<1>0. \A c \in Channels : health[c] \in Row /\ RowCoherent(health[c])
  BY DEF TypeOK, Coherent
<1>1. ASSUME UNCHANGED health PROVE Coherent'
  BY <1>1 DEF Coherent
<1>2. ASSUME NEW c \in Channels, Admin(c) PROVE Coherent'
  <2>1. CASE CreateChannel(c)
    <3>1. RowCoherent(Cleared)
      BY <1>0, RowsStayCoherent
    <3> QED BY <2>1, <3>1 DEF CreateChannel, TypeOK, Coherent
  <2>2. CASE DeleteChannel(c)
    BY <2>2 DEF DeleteChannel, TypeOK, Coherent, RowCoherent, Gone
  <2>3. CASE ResetHealth(c)
    BY <1>0, <2>3, RowsStayCoherent, UpdateCoherent DEF ResetHealth
  <2>4. CASE SetEnabled(c) \/ ManualProbe(c)
    BY <1>1, <2>4 DEF SetEnabled, ManualProbe
  <2> QED BY <1>2, <2>1, <2>2, <2>3, <2>4 DEF Admin
<1>3. ASSUME NEW r \in Requests, NEW c \in Channels, Attempt(r, c) PROVE Coherent'
  <2>1. CASE MarkQuotaExhausted(r, c)
    BY <1>0, <2>1, RowsStayCoherent, UpdateCoherent DEF MarkQuotaExhausted
  <2>2. CASE ~MarkQuotaExhausted(r, c)
    BY <1>1, <1>3, <2>2 DEF Attempt, AttemptSucceeds, AttemptFails, ReportQuotaFailure
  <2> QED BY <2>1, <2>2
<1>4. CASE WriteEvent
  <2> DEFINE e == Head(queue)
  <2>0. e \in Event
    BY <1>4 DEF WriteEvent, TypeOK
  <2>1. e.ch \in Channels
    BY <2>0 DEF Event
  <2>2. RowCoherent(Outcome(e, health[e.ch]))
    BY <1>0, <2>1, RowsStayCoherent DEF Outcome
  <2> QED BY <1>4, <2>1, <2>2, UpdateCoherent DEF WriteEvent
<1>5. ASSUME NEW p \in Probes, ProbeCommit(p) PROVE Coherent'
  <2> DEFINE c == probe[p].ch
  <2>1. CASE c \in Channels
    <3>1. RowCoherent(Cleared) /\ RowCoherent(ProbeFailed(health[c]))
      BY <1>0, <2>1, RowsStayCoherent
    <3> QED BY <1>5, <2>1, <3>1, UpdateCoherent DEF ProbeCommit
  <2>2. CASE c \notin Channels
    BY <1>5, <2>2 DEF ProbeCommit, Update, TypeOK, Coherent
  <2> QED BY <2>1, <2>2
<1>6. CASE Tick
  <2>1. \A c \in Channels : RowCoherent(Elapsed(health[c]))
    BY <1>0, RowsStayCoherent
  <2> QED BY <1>6, <2>1 DEF Tick, Coherent
<1>7. CASE UNCHANGED vars
  BY <1>1, <1>7 DEF vars
<1>8. ASSUME NEW c \in Channels, SupervisorSkip(c) \/ SupervisorSpawn(c) \/ UpstreamTurns(c)
      PROVE  Coherent'
  BY <1>1, <1>8 DEF SupervisorSkip, SupervisorSpawn, UpstreamTurns
<1>9. ASSUME NEW r \in Requests, ResolveCandidates(r) \/ ClientGone(r) PROVE Coherent'
  BY <1>1, <1>9 DEF ResolveCandidates, ClientGone
<1>10. ASSUME NEW p \in Probes, ProbeAnswered(p) \/ ProbeError(p) PROVE Coherent'
  BY <1>1, <1>10 DEF ProbeAnswered, ProbeError
<1>11. CASE WriteFails \/ SupervisorQuery \/ Restart
  BY <1>1, <1>11 DEF WriteFails, SupervisorQuery, Restart
<1> QED
  BY <1>2, <1>3, <1>4, <1>5, <1>6, <1>7, <1>8, <1>9, <1>10, <1>11 DEF Next

(* An open channel always has a deadline, so the supervisor finds it.      *)
THEOREM OpenChannelsAreRetried == Spec => []OpenHasDeadline
<1>1. Init => TypeOK /\ Coherent
  BY InitType, InitCoherent
<1>2. (TypeOK /\ Coherent) /\ [Next]_vars => (TypeOK /\ Coherent)'
  BY NextType, NextCoherent
<1>3. Coherent => OpenHasDeadline
  BY DEF Coherent, RowCoherent, OpenHasDeadline
<1> QED BY <1>1, <1>2, <1>3, PTL DEF Spec

(* A channel in rotation is below the threshold and has no cooldown.       *)
THEOREM RotationIsClean == Spec => []ActiveBelowThreshold
<1>1. Init => TypeOK /\ Coherent
  BY InitType, InitCoherent
<1>2. (TypeOK /\ Coherent) /\ [Next]_vars => (TypeOK /\ Coherent)'
  BY NextType, NextCoherent
<1>3. Coherent => ActiveBelowThreshold
  BY DEF Coherent, RowCoherent, ActiveBelowThreshold
<1> QED BY <1>1, <1>2, <1>3, PTL DEF Spec
-----------------------------------------------------------------------------
(***************************************************************************)
(* The in-flight set.  What makes it exact is that a free task slot        *)
(* supervises nothing, and that a task gives up its slot and its place in  *)
(* the set in one step.                                                    *)
(***************************************************************************)
FreeSlots == \A p \in Probes : probe[p].at = "idle" <=> probe[p].origin = "none"

LEMMA InitInFlight == Init => InFlightSetExact /\ FreeSlots
  BY DEF Init, InFlightSetExact, FreeSlots, Supervises, NoProbe

LEMMA OverInFlight ==
  ASSUME TypeOK, InFlightSetExact, FreeSlots, NEW p \in Probes, ProbeOver(p)
  PROVE  InFlightSetExact' /\ FreeSlots'
<1>1. probe' = [probe EXCEPT ![p] = NoProbe] /\ probe \in [Probes -> ProbeTask]
  BY DEF ProbeOver, TypeOK
<1>2. FreeSlots'
  BY <1>1 DEF FreeSlots, NoProbe
<1>3. ASSUME NEW q \in Probes, NEW c \in Channels
      PROVE  Supervises(q, c)' <=> Supervises(q, c) /\ q # p
  BY <1>1 DEF Supervises, NoProbe
<1>4. ASSUME NEW c \in Channels
      PROVE  c \in probing' <=> c \in probing /\ ~Supervises(p, c)
  BY DEF ProbeOver, Supervises
<1>5. InFlightSetExact'
  BY <1>3, <1>4 DEF InFlightSetExact
<1> QED BY <1>2, <1>5

LEMMA NextInFlight ==
  ASSUME TypeOK, InFlightSetExact, FreeSlots, [Next]_vars
  PROVE  InFlightSetExact' /\ FreeSlots'
<1>0. probe \in [Probes -> ProbeTask]
  BY DEF TypeOK
<1>1. ASSUME UNCHANGED <<probe, probing>> PROVE InFlightSetExact' /\ FreeSlots'
  BY <1>1 DEF InFlightSetExact, FreeSlots, Supervises
<1>2. ASSUME NEW c \in Channels, Admin(c) PROVE InFlightSetExact' /\ FreeSlots'
  <2>1. CASE ManualProbe(c)
    <3>1. PICK p \in Probes :
            /\ probe[p].at = "idle"
            /\ probe' = [probe EXCEPT ![p] =
                           [at |-> "sending", origin |-> "manual", ch |-> c]]
      BY <2>1 DEF ManualProbe
    <3>2. \A q \in Probes, d \in Channels : Supervises(q, d)' <=> Supervises(q, d)
      BY <1>0, <3>1 DEF Supervises, FreeSlots
    <3>3. InFlightSetExact'
      BY <2>1, <3>2 DEF InFlightSetExact, ManualProbe
    <3>4. FreeSlots'
      BY <1>0, <3>1 DEF FreeSlots
    <3> QED BY <3>3, <3>4
  <2>2. CASE ~ManualProbe(c)
    BY <1>1, <1>2, <2>2 DEF Admin, CreateChannel, SetEnabled, DeleteChannel, ResetHealth
  <2> QED BY <2>1, <2>2
<1>3. ASSUME NEW c \in Channels, SupervisorSpawn(c)
      PROVE  InFlightSetExact' /\ FreeSlots'
  <2>1. PICK p \in Probes :
          /\ probe[p].at = "idle"
          /\ probe' = [probe EXCEPT ![p] =
                         [at |-> "sending", origin |-> "supervisor", ch |-> c]]
    BY <1>3 DEF SupervisorSpawn
  <2>2. \A q \in Probes, d \in Channels :
          Supervises(q, d)' <=> Supervises(q, d) \/ (q = p /\ d = c)
    BY <1>0, <2>1 DEF Supervises, FreeSlots
  <2>3. c \notin probing /\ probing' = probing \cup {c}
    BY <1>3 DEF SupervisorSpawn
  <2>4. InFlightSetExact'
    BY <2>2, <2>3 DEF InFlightSetExact
  <2>5. FreeSlots'
    BY <1>0, <2>1 DEF FreeSlots
  <2> QED BY <2>4, <2>5
<1>4. ASSUME NEW p \in Probes, ProbeAnswered(p)
      PROVE  InFlightSetExact' /\ FreeSlots'
  <2>1. PICK v \in {"ok", "bad"} : probe' = [probe EXCEPT ![p].at = v]
    BY <1>4 DEF ProbeAnswered
  <2>2. \A q \in Probes, d \in Channels : Supervises(q, d)' <=> Supervises(q, d)
    BY <1>0, <2>1 DEF Supervises, ProbeTask
  <2>3. InFlightSetExact'
    BY <1>4, <2>2 DEF InFlightSetExact, ProbeAnswered
  <2>4. FreeSlots'
    BY <1>0, <1>4, <2>1 DEF FreeSlots, ProbeAnswered, ProbeTask
  <2> QED BY <2>3, <2>4
<1>5. ASSUME NEW p \in Probes, ProbeCommit(p) \/ ProbeError(p)
      PROVE  InFlightSetExact' /\ FreeSlots'
  BY <1>5, OverInFlight DEF ProbeCommit, ProbeError
<1>6. CASE Restart
  BY <1>6 DEF Restart, InFlightSetExact, FreeSlots, Supervises, NoProbe
<1>7. ASSUME NEW c \in Channels, SupervisorSkip(c) \/ UpstreamTurns(c)
      PROVE  InFlightSetExact' /\ FreeSlots'
  BY <1>1, <1>7 DEF SupervisorSkip, UpstreamTurns
<1>8. ASSUME NEW r \in Requests, ResolveCandidates(r) \/ ClientGone(r)
      PROVE  InFlightSetExact' /\ FreeSlots'
  BY <1>1, <1>8 DEF ResolveCandidates, ClientGone
<1>9. ASSUME NEW r \in Requests, NEW c \in Channels, Attempt(r, c)
      PROVE  InFlightSetExact' /\ FreeSlots'
  BY <1>1, <1>9
  DEF Attempt, AttemptSucceeds, AttemptFails, MarkQuotaExhausted, ReportQuotaFailure
<1>10. CASE WriteEvent \/ WriteFails \/ SupervisorQuery \/ Tick \/ UNCHANGED vars
  BY <1>1, <1>10 DEF WriteEvent, WriteFails, SupervisorQuery, Tick, vars
<1> QED
  BY <1>2, <1>3, <1>4, <1>5, <1>6, <1>7, <1>8, <1>9, <1>10 DEF Next

(* The supervisor never probes a channel twice at a time, and its in-flight*)
(* set keeps no channel whose task is over.                                *)
THEOREM SupervisorDeduplicates == Spec => []InFlightSetExact
<1>1. Init => TypeOK /\ InFlightSetExact /\ FreeSlots
  BY InitType, InitInFlight
<1>2. (TypeOK /\ InFlightSetExact /\ FreeSlots) /\ [Next]_vars
        => (TypeOK /\ InFlightSetExact /\ FreeSlots)'
  BY NextType, NextInFlight
<1> QED BY <1>1, <1>2, PTL DEF Spec
-----------------------------------------------------------------------------
(***************************************************************************)
(* A channel whose upstream never fails stays in rotation.  The invariant  *)
(* follows the blame through every place it can hide in: the environment,  *)
(* the queue, the verdicts, and the requests that have met a quota error.  *)
(***************************************************************************)
Blameless == Sound \ CommandCode

NoBlameQueued ==
  \A i \in 1..Len(queue) :
    queue[i].ch \in Blameless /\ queue[i].type = "ChannelFailure" => ~queue[i].countable
NoBadVerdict == \A p \in Probes : probe[p].ch \in Sound => probe[p].at # "bad"
MarkedIsCommandCode ==
  \A r \in Requests, c \in Channels :
    req[r].phase = "marked" /\ Trying(r, c) => c \in CommandCode

SoundInv ==
  /\ \A c \in Sound : up[c]
  /\ NoBlameQueued
  /\ NoBadVerdict
  /\ MarkedIsCommandCode
  /\ SoundNeverOpens

LEMMA EmitNoBlame ==
  ASSUME queue \in Seq(Event), NoBlameQueued, NEW c \in Channels, NEW b \in BOOLEAN,
         NEW type \in {"ChannelSuccess", "ChannelFailure"}, Emit(type, c, b),
         c \in Blameless /\ type = "ChannelFailure" => ~b
  PROVE  NoBlameQueued'
<1> DEFINE e == [type |-> type, ch |-> c, countable |-> b]
<1>1. e \in Event
  BY DEF Event
<1>2. CASE queue' = Append(queue, e)
  <2>1. Len(queue') = Len(queue) + 1 /\ Len(queue) \in Nat
    BY <1>1, <1>2
  <2>2. \A i \in 1..Len(queue') : queue'[i] = IF i = Len(queue) + 1 THEN e ELSE queue[i]
    BY <1>1, <1>2, <2>1
  <2> QED BY <2>1, <2>2 DEF NoBlameQueued
<1>3. CASE UNCHANGED queue
  BY <1>3 DEF NoBlameQueued
<1> QED BY <1>2, <1>3 DEF Emit

LEMMA TailNoBlame ==
  ASSUME queue \in Seq(Event), NoBlameQueued, queue # <<>>, queue' = Tail(queue)
  PROVE  NoBlameQueued'
<1>1. Len(queue') = Len(queue) - 1 /\ Len(queue) \in Nat \ {0}
  OBVIOUS
<1>2. \A i \in 1..Len(queue') : queue'[i] = queue[i + 1]
  OBVIOUS
<1> QED BY <1>1, <1>2 DEF NoBlameQueued

LEMMA InitSound == Init => SoundInv
  BY ChannelsAssumption
  DEF Init, SoundInv, NoBlameQueued, NoBadVerdict, MarkedIsCommandCode, SoundNeverOpens,
      Absent, Idle, NoProbe

LEMMA NextSound ==
  ASSUME TypeOK, SoundInv, [Next]_vars
  PROVE  SoundInv'
<1> USE ChannelsAssumption
<1>0. /\ queue \in Seq(Event)
      /\ health \in [Channels -> Row]
      /\ probe \in [Probes -> ProbeTask]
      /\ \A r \in Requests : req[r].countable \in BOOLEAN
  BY DEF TypeOK
<1>a. ASSUME UNCHANGED <<queue, probe, req, up>>, SoundNeverOpens' PROVE SoundInv'
  BY <1>a DEF SoundInv, NoBlameQueued, NoBadVerdict, MarkedIsCommandCode, Trying
<1>b. ASSUME NEW c \in Channels, NEW row, Update(c, row),
             c \in Blameless => row.state # "open"
      PROVE  SoundNeverOpens'
  BY <1>0, <1>b DEF Update, SoundInv, SoundNeverOpens, Blameless
<1>1. ASSUME NEW c \in Channels, Admin(c) PROVE SoundInv'
  <2>1. CASE CreateChannel(c) \/ DeleteChannel(c)
    <3>1. SoundNeverOpens'
      BY <1>0, <2>1 DEF CreateChannel, DeleteChannel, Cleared, Gone, SoundInv, SoundNeverOpens
    <3> QED BY <1>a, <2>1, <3>1 DEF CreateChannel, DeleteChannel
  <2>2. CASE ResetHealth(c)
    <3>1. SoundNeverOpens'
      BY <1>b, <2>2 DEF ResetHealth, Cleared
    <3> QED BY <1>a, <2>2, <3>1 DEF ResetHealth
  <2>3. CASE SetEnabled(c)
    BY <1>a, <2>3 DEF SetEnabled, SoundInv, SoundNeverOpens
  <2>4. CASE ManualProbe(c)
    <3>1. NoBadVerdict'
      BY <1>0, <2>4 DEF ManualProbe, SoundInv, NoBadVerdict
    <3> QED BY <2>4, <3>1 DEF ManualProbe, SoundInv, NoBlameQueued, MarkedIsCommandCode,
                              Trying, SoundNeverOpens
  <2> QED BY <1>1, <2>1, <2>2, <2>3, <2>4 DEF Admin
<1>2. ASSUME NEW c \in Channels, SupervisorSkip(c) PROVE SoundInv'
  BY <1>2, <1>a DEF SupervisorSkip, SoundInv, SoundNeverOpens
<1>3. ASSUME NEW c \in Channels, SupervisorSpawn(c) PROVE SoundInv'
  <2>1. NoBadVerdict'
    BY <1>0, <1>3 DEF SupervisorSpawn, SoundInv, NoBadVerdict
  <2> QED BY <1>3, <2>1 DEF SupervisorSpawn, SoundInv, NoBlameQueued, MarkedIsCommandCode,
                            Trying, SoundNeverOpens
<1>4. ASSUME NEW c \in Channels, UpstreamTurns(c) PROVE SoundInv'
  BY <1>4 DEF UpstreamTurns, TypeOK, SoundInv, NoBlameQueued, NoBadVerdict,
              MarkedIsCommandCode, Trying, SoundNeverOpens
<1>5. ASSUME NEW r \in Requests, ResolveCandidates(r) \/ ClientGone(r) PROVE SoundInv'
  <2>1. MarkedIsCommandCode'
    BY <1>5 DEF ResolveCandidates, ClientGone, Idle, TypeOK, SoundInv,
                MarkedIsCommandCode, Trying
  <2> QED BY <1>5, <2>1 DEF ResolveCandidates, ClientGone, SoundInv, NoBlameQueued,
                            NoBadVerdict, SoundNeverOpens
<1>6. ASSUME NEW r \in Requests, NEW c \in Channels, GiveUp(r, c)
      PROVE  MarkedIsCommandCode'
  BY <1>6 DEF GiveUp, Idle, TypeOK, SoundInv, MarkedIsCommandCode, Trying
<1>7. ASSUME NEW r \in Requests, NEW c \in Channels, Attempt(r, c) PROVE SoundInv'
  <2>1. CASE AttemptSucceeds(r, c)
    <3>1. NoBlameQueued'
      BY <1>0, <2>1, EmitNoBlame DEF AttemptSucceeds, SoundInv
    <3>2. MarkedIsCommandCode'
      BY <2>1 DEF AttemptSucceeds, Idle, TypeOK, SoundInv, MarkedIsCommandCode, Trying
    <3> QED BY <2>1, <3>1, <3>2 DEF AttemptSucceeds, SoundInv, NoBadVerdict, SoundNeverOpens
  <2>2. CASE AttemptFails(r, c)
    <3>1. PICK b \in BOOLEAN : (b => ~up[c]) /\ Emit("ChannelFailure", c, b)
      BY <2>2 DEF AttemptFails
    <3>2. c \in Blameless => ~b
      BY <3>1 DEF SoundInv, Blameless
    <3>3. NoBlameQueued'
      BY <1>0, <3>1, <3>2, EmitNoBlame DEF SoundInv
    <3>4. MarkedIsCommandCode'
      BY <1>6, <2>2 DEF AttemptFails
    <3> QED BY <2>2, <3>3, <3>4 DEF AttemptFails, SoundInv, NoBadVerdict, SoundNeverOpens
  <2>3. CASE MarkQuotaExhausted(r, c)
    <3>1. SoundNeverOpens'
      BY <1>b, <2>3 DEF MarkQuotaExhausted, Blameless
    <3>2. MarkedIsCommandCode'
      BY <2>3, PriorityAssumption
      DEF MarkQuotaExhausted, TypeOK, SoundInv, MarkedIsCommandCode, Trying
    <3> QED BY <2>3, <3>1, <3>2 DEF MarkQuotaExhausted, SoundInv, NoBlameQueued, NoBadVerdict
  <2>4. CASE ReportQuotaFailure(r, c)
    <3>1. c \notin Blameless
      BY <2>4 DEF ReportQuotaFailure, SoundInv, MarkedIsCommandCode, Blameless
    <3>2. NoBlameQueued'
      BY <1>0, <2>4, <3>1, EmitNoBlame DEF ReportQuotaFailure, SoundInv
    <3>3. MarkedIsCommandCode'
      BY <1>6, <2>4 DEF ReportQuotaFailure
    <3> QED BY <2>4, <3>2, <3>3 DEF ReportQuotaFailure, SoundInv, NoBadVerdict, SoundNeverOpens
  <2> QED BY <1>7, <2>1, <2>2, <2>3, <2>4 DEF Attempt
<1>8. ASSUME NEW p \in Probes, ProbeAnswered(p) PROVE SoundInv'
  <2>1. NoBadVerdict'
    BY <1>0, <1>8 DEF ProbeAnswered, SoundInv, NoBadVerdict
  <2> QED BY <1>8, <2>1 DEF ProbeAnswered, SoundInv, NoBlameQueued, MarkedIsCommandCode,
                            Trying, SoundNeverOpens
<1>9. ASSUME NEW p \in Probes, ProbeOver(p) PROVE NoBadVerdict'
  BY <1>0, <1>9 DEF ProbeOver, NoProbe, SoundInv, NoBadVerdict
<1>10. ASSUME NEW p \in Probes, ProbeCommit(p) PROVE SoundInv'
  <2> DEFINE c == probe[p].ch
  <2>1. SoundNeverOpens'
    <3>1. CASE c \in Channels
      <4>1. c \in Blameless => probe[p].at = "ok"
        BY <1>10 DEF ProbeCommit, SoundInv, NoBadVerdict, Blameless
      <4> QED BY <1>b, <1>10, <3>1, <4>1 DEF ProbeCommit, Cleared
    <3>2. CASE c \notin Channels
      BY <1>0, <1>10, <3>2 DEF ProbeCommit, Update, SoundInv, SoundNeverOpens
    <3> QED BY <3>1, <3>2
  <2> QED BY <1>9, <1>10, <2>1 DEF ProbeCommit, SoundInv, NoBlameQueued,
                                   MarkedIsCommandCode, Trying
<1>11. ASSUME NEW p \in Probes, ProbeError(p) PROVE SoundInv'
  BY <1>9, <1>11 DEF ProbeError, SoundInv, NoBlameQueued, MarkedIsCommandCode, Trying,
                     SoundNeverOpens
<1>12. CASE WriteEvent
  <2> DEFINE e == Head(queue)
  <2>1. e \in Event /\ e = queue[1] /\ Len(queue) \in Nat \ {0}
    BY <1>0, <1>12 DEF WriteEvent
  <2>2. e.ch \in Channels
    BY <2>1 DEF Event
  <2>3. e.ch \in Blameless => Outcome(e, health[e.ch]).state # "open"
    BY <2>1, <2>2 DEF Outcome, Cleared, Event, SoundInv, NoBlameQueued, SoundNeverOpens,
                      Blameless
  <2>4. SoundNeverOpens'
    BY <1>b, <1>12, <2>2, <2>3 DEF WriteEvent
  <2>5. NoBlameQueued'
    BY <1>0, <1>12, TailNoBlame DEF WriteEvent, SoundInv
  <2> QED BY <1>12, <2>4, <2>5 DEF WriteEvent, SoundInv, NoBadVerdict, MarkedIsCommandCode,
                                   Trying
<1>13. CASE WriteFails
  <2>1. NoBlameQueued'
    BY <1>0, <1>13, TailNoBlame DEF WriteFails, SoundInv
  <2> QED BY <1>13, <2>1 DEF WriteFails, SoundInv, NoBadVerdict, MarkedIsCommandCode,
                             Trying, SoundNeverOpens
<1>14. CASE SupervisorQuery \/ UNCHANGED vars
  BY <1>14, <1>a DEF SupervisorQuery, vars, SoundInv, SoundNeverOpens
<1>15. CASE Tick
  <2>1. SoundNeverOpens'
    BY <1>0, <1>15 DEF Tick, Elapsed, Row, SoundInv, SoundNeverOpens
  <2> QED BY <1>15, <1>a, <2>1 DEF Tick
<1>16. CASE Restart
  BY <1>16 DEF Restart, Idle, NoProbe, SoundInv, NoBlameQueued, NoBadVerdict,
               MarkedIsCommandCode, Trying, SoundNeverOpens
<1> QED
  BY <1>1, <1>2, <1>3, <1>4, <1>5, <1>7, <1>8, <1>10, <1>11, <1>12, <1>13, <1>14,
     <1>15, <1>16
  DEF Next

(* Bad requests, lost clients, dropped events, restarts and probes never   *)
(* take a channel with a healthy upstream out of rotation.                 *)
THEOREM SoundChannelsStay == Spec => []SoundNeverOpens
<1>1. Init => TypeOK /\ SoundInv
  BY InitType, InitSound
<1>2. (TypeOK /\ SoundInv) /\ [Next]_vars => (TypeOK /\ SoundInv)'
  BY NextType, NextSound
<1>3. SoundInv => SoundNeverOpens
  BY DEF SoundInv
<1> QED BY <1>1, <1>2, <1>3, PTL DEF Spec
=============================================================================

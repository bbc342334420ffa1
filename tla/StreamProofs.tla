---------------------------- MODULE StreamProofs ----------------------------
(* Proofs about a streamed answer.                                         *)
(*                                                                         *)
(* StreamForward, for pieces, scripts and lengths of any number: at most   *)
(* one record, the terminal marker recorded before it is handed over, a    *)
(* success only for a stream that completed, and the safety part of        *)
(* OneOutcome.                                                             *)
(*                                                                         *)
(* StreamConversion, for events, calls and blocks of any number: what the  *)
(* converter writes is a stream that the client's protocol allows, and a   *)
(* Command Code answer is the same streamed and not.                       *)
(*                                                                         *)
(* CommandCodeHistory, for conversations of any length: the request that   *)
(* asks for an answer answers each of its own calls once.                  *)
EXTENDS StreamForward, StreamConversion, CommandCodeHistory, FiniteSetTheorems,
        SequenceTheorems, WellFoundedInduction, TLAPS

-----------------------------------------------------------------------------
(* Part 1: StreamForward.                                                  *)
PCs == {"running", "handing", "handingTail", "handingLast", "over"}

(* What the position of the generator says about the records: none while   *)
(* it can still be dropped unnoticed, one when all is over but the yield.  *)
RecordsFollowPC ==
  /\ pc \in {"running", "handing"} => records = <<>> /\ completed = FALSE
  /\ pc = "handingTail" => records = <<>> /\ completed = TRUE
  /\ pc = "handingLast" => Len(records) = 1 /\ completed = TRUE
  /\ pc = "over" => Len(records) <= 1

(* Only a position past the last yield can have a complete terminal marker *)
(* behind it.                                                              *)
NoEndYet == \A i \in 1..pos : ~IsDone(Seen(up, i))
EndFollowsPC ==
  up.kind # "chat" =>
    /\ pc \in {"running", "handing", "handingTail"} => NoEndYet
    /\ pc = "handingLast" => ~Has("cancelled")
    /\ pc = "over" /\ ~NoEndYet => records # <<>> /\ ~Has("cancelled")

Types ==
  /\ up.kind \in Kinds
  /\ pos \in Nat /\ pc \in PCs
  /\ records \in Seq(Outcomes)
  /\ completed \in BOOLEAN /\ responded \in BOOLEAN

IInv == Types /\ RecordsFollowPC

Names == {"success", "gateway_error", "upstream_error", "stream_interrupted", "cancelled"}

(* One record makes a sequence of one.                                      *)
LEMMA OneRecordOnly ==
  ASSUME NEW e \in Outcomes
  PROVE  /\ Append(<<>>, e) \in Seq(Outcomes) /\ Len(Append(<<>>, e)) = 1
         /\ Append(<<>>, e) # <<>> /\ Append(<<>>, e)[1] = e
OBVIOUS

(* At the start nothing is recorded and the generator runs.                *)
LEMMA InitIInv == Init => IInv
<1> SUFFICES ASSUME Init PROVE IInv
  OBVIOUS
<1>1. pos \in Nat /\ pc \in PCs /\ records \in Seq(Outcomes)
  BY DEF Init, PCs
<1>4. up.kind \in Kinds
  BY Zenon DEF Init, Upstreams
<1>2. completed \in BOOLEAN /\ responded \in BOOLEAN
  BY Zenon DEF Init
<1>3. RecordsFollowPC
  BY Zenon DEF Init, RecordsFollowPC
<1> QED
  BY <1>1, <1>2, <1>3, <1>4 DEF IInv, Types

(* One record was written, and the generator is at p.                      *)
Wrote(o, p) ==
  /\ pc' = p /\ completed' = TRUE
  /\ records' \in Seq(Outcomes) /\ Len(records') = 1
  /\ records' # <<>> /\ records'[1].outcome = o

(* RecordAndReturn and RecordAndHand, where nothing is on record yet.      *)
LEMMA ReturnRecordsOnce ==
  ASSUME IInv, records = <<>>, NEW o \in Names, NEW s \in {200, 504},
         RecordAndReturn(o, s)
  PROVE  Wrote(o, "over")
<1>1. pc' = "over" /\ completed' = TRUE
  BY DEF RecordAndReturn
<1>2. records' = Append(records, Outcome(o, s, TRUE))
  BY <1>1, Zenon DEF RecordAndReturn, Dropped
<1> DEFINE e == [outcome |-> o, status |-> s, started |-> TRUE]
<1>3. e \in Outcomes /\ e.outcome = o
  BY DEF Outcomes, Names
<1>4. records' = Append(<<>>, e)
  BY <1>2, Zenon DEF Outcome
<1> HIDE DEF e
<1>5. /\ records' \in Seq(Outcomes) /\ Len(records') = 1
      /\ records' # <<>> /\ records'[1].outcome = o
  BY <1>3, <1>4, OneRecordOnly
<1> QED
  BY <1>1, <1>5, Zenon DEF Wrote

(* Recording and handing over the last piece makes the one record.         *)
LEMMA HandRecordsOnce ==
  ASSUME IInv, records = <<>>, NEW o \in Names, NEW p, RecordAndHand(o, p)
  PROVE  Wrote(o, "handingLast")
<1>1. pc' = "handingLast" /\ completed' = TRUE
  BY Zenon DEF RecordAndHand, Hand
<1>2. records' = Append(records, Outcome(o, 200, TRUE))
  BY DEF RecordAndHand, Record
<1> DEFINE e == [outcome |-> o, status |-> 200, started |-> TRUE]
<1>3. e \in Outcomes /\ e.outcome = o
  BY DEF Outcomes, Names
<1>4. records' = Append(<<>>, e)
  BY <1>2, Zenon DEF Outcome
<1> HIDE DEF e
<1>5. /\ records' \in Seq(Outcomes) /\ Len(records') = 1
      /\ records' # <<>> /\ records'[1].outcome = o
  BY <1>3, <1>4, OneRecordOnly
<1> QED
  BY <1>1, <1>5, Zenon DEF Wrote

(* The ways a stretch of the generator can go.                             *)
Concludes(o) ==
  /\ records = <<>> /\ records' \in Seq(Outcomes)
  /\ Len(records') = 1 /\ records' # <<>> /\ records'[1].outcome = o
  /\ pc' \in {"handingLast", "over"} /\ completed' = TRUE
Continues ==
  /\ pc = "running" /\ pc' \in {"running", "handing"}
  /\ UNCHANGED <<completed, records>>
Suspends ==
  /\ pc = "running" /\ pc' = "handingTail" /\ completed' = TRUE
  /\ UNCHANGED records

(* The flush of a converted stream ends with one record.                   *)
LEMMA FlushConcludes ==
  ASSUME IInv, records = <<>>, Flush
  PROVE  \E o \in Names : o # "cancelled" /\ Concludes(o)
<1>1. PICK o \in Names : o # "cancelled" /\ (RecordAndHand(o, "done") \/ RecordAndReturn(o, 200))
  BY Zenon DEF Flush, Names
<1>2. ASSUME RecordAndHand(o, "done") PROVE Concludes(o)
  <2>1. Wrote(o, "handingLast")
    BY <1>2, HandRecordsOnce
  <2> QED
    BY <2>1 DEF Concludes, Wrote
<1>3. ASSUME RecordAndReturn(o, 200) PROVE Concludes(o)
  <2>1. Wrote(o, "over")
    BY <1>3, ReturnRecordsOnce
  <2> QED
    BY <2>1 DEF Concludes, Wrote
<1> QED
  BY <1>1, <1>2, <1>3, Zenon

(* No end comes into view by going on.                                     *)
Passes == up' = up /\ pos' \in Nat /\ (up.kind # "chat" /\ NoEndYet => NoEndYet')

(* Going past a piece that is no terminal marker brings none into view.    *)
LEMMA AdvancePasses ==
  ASSUME IInv, Advance, up.kind # "chat" => ~IsDone(Seen(up, pos + 1))
  PROVE  Passes
<1>1. up' = up /\ pos' = pos + 1 /\ pos \in Nat
  BY DEF Advance, IInv, Types
<1>2. ASSUME up.kind # "chat", NoEndYet PROVE NoEndYet'
  <2>1. SUFFICES ASSUME NEW i \in 1..(pos + 1) PROVE ~IsDone(Seen(up, i))
    BY <1>1, Zenon DEF NoEndYet, Seen, Ignored
  <2>2. CASE i = pos + 1
    BY <2>2, <1>2
  <2>3. CASE i # pos + 1
    <3>1. i \in 1..pos
      BY <2>3, <1>1
    <3> QED
      BY <3>1, <1>2, Zenon DEF NoEndYet
  <2> QED
    BY <2>2, <2>3
<1> QED
  BY <1>1, <1>2 DEF Passes

(* Nor does staying.                                                       *)
LEMMA StayPasses == ASSUME IInv, UNCHANGED <<up, pos>> PROVE Passes
<1>1. NoEndYet => NoEndYet'
  BY Zenon DEF NoEndYet, Seen, Ignored
<1> QED
  BY <1>1 DEF Passes, IInv, Types

(* Every stretch of the generator goes one of three ways.                  *)
Ways ==
  \/ \E o \in Names : o # "cancelled" /\ Concludes(o)
  \/ (Continues \/ Suspends) /\ Passes

(* The generator leaves the upstream alone.                                *)
LEMMA GeneratorTypes ==
  ASSUME IInv, Generator
  PROVE  up' = up /\ pos' \in Nat /\ responded' \in BOOLEAN
<1>1. up' = up /\ pos' \in Nat
  BY DEF IInv, Types, Generator, ForwardPiece, ForwardLast, ForwardCorrupt,
     ForwardEnd, UpstreamBreaks, TimesOut, MapPiece, MapLast, MapError, MapCorrupt,
     MapMidFrame, MapTail, MapEnd, Advance
<1>2. responded' \in BOOLEAN
  BY Zenon DEF IInv, Types, Generator, ForwardPiece, ForwardLast, ForwardCorrupt,
     ForwardEnd, UpstreamBreaks, TimesOut, MapPiece, MapLast, MapError, MapCorrupt,
     MapMidFrame, MapTail, MapEnd, Advance
<1> QED
  BY <1>1, <1>2, Zenon

(* Every action of the generator goes one of the three ways.               *)
LEMMA GeneratorWays == ASSUME IInv, Generator PROVE Ways
<1>1. pc = "running" /\ records = <<>>
  BY DEF IInv, RecordsFollowPC, Generator, ForwardPiece, ForwardLast, ForwardCorrupt,
     ForwardEnd, UpstreamBreaks, TimesOut, MapPiece, MapLast, MapError, MapCorrupt,
     MapMidFrame, MapTail, MapEnd, Advance, Unread, AtEnd, BodyEnds
<1>2. CASE ForwardPiece
  <2>1. Continues
    BY <1>2, <1>1 DEF ForwardPiece, Hand, Continues
  <2> QED
    BY <2>1, <1>2, AdvancePasses DEF ForwardPiece, Ways
<1>3. CASE MapPiece
  <2>1. Continues
    BY <1>3, <1>1 DEF MapPiece, Hand, Continues
  <2>2. up.kind # "chat" => ~IsDone(Seen(up, pos + 1))
    BY <1>3, KindsAssumption DEF MapPiece, Finishes, Mapped, IInv, Types
  <2> QED
    BY <2>1, <2>2, <1>3, AdvancePasses DEF MapPiece, Ways
<1>4. CASE MapTail
  <2>1. CASE Hand(Held, "handingTail") /\ completed' = TRUE /\ UNCHANGED records
    <3>1. Suspends
      BY <2>1, <1>1, Zenon DEF Hand, Suspends
    <3> QED
      BY <3>1, <1>4, StayPasses DEF MapTail, Ways
  <2>2. CASE RecordAndHand("upstream_error", "error")
    BY <2>2, <1>1, HandRecordsOnce DEF Wrote, Ways, Concludes, Names
  <2>3. CASE RecordAndHand("success", Held)
    BY <2>3, <1>1, HandRecordsOnce DEF Wrote, Ways, Concludes, Names
  <2> QED
    BY <2>1, <2>2, <2>3, <1>4, Zenon DEF MapTail
<1>5. CASE MapEnd
  BY <1>5, <1>1, FlushConcludes DEF MapEnd, Ways
<1>6. CASE ForwardLast
  BY <1>6, <1>1, HandRecordsOnce DEF ForwardLast, Wrote, Ways, Concludes, Names
<1>7. CASE MapLast
  BY <1>7, <1>1, HandRecordsOnce DEF MapLast, Wrote, Ways, Concludes, Names
<1>8. CASE MapError
  BY <1>8, <1>1, HandRecordsOnce DEF MapError, Wrote, Ways, Concludes, Names
<1>9. CASE MapCorrupt
  BY <1>9, <1>1, HandRecordsOnce DEF MapCorrupt, Wrote, Ways, Concludes, Names
<1>10. CASE ForwardCorrupt
  BY <1>10, <1>1, ReturnRecordsOnce DEF ForwardCorrupt, Wrote, Ways, Concludes, Names
<1>11. CASE ForwardEnd
  <2>1. RecordAndReturn("success", 200) \/ RecordAndReturn("stream_interrupted", 200)
    BY <1>11, Zenon DEF ForwardEnd
  <2>2. CASE RecordAndReturn("success", 200)
    BY <2>2, <1>1, ReturnRecordsOnce DEF Wrote, Ways, Concludes, Names
  <2>3. CASE RecordAndReturn("stream_interrupted", 200)
    BY <2>3, <1>1, ReturnRecordsOnce DEF Wrote, Ways, Concludes, Names
  <2> QED
    BY <2>1, <2>2, <2>3
<1>12. CASE UpstreamBreaks
  BY <1>12, <1>1, ReturnRecordsOnce DEF UpstreamBreaks, Wrote, Ways, Concludes, Names
<1>13. CASE TimesOut
  BY <1>13, <1>1, ReturnRecordsOnce DEF TimesOut, Wrote, Ways, Concludes, Names
<1>14. CASE MapMidFrame
  BY <1>14, <1>1, ReturnRecordsOnce DEF MapMidFrame, Wrote, Ways, Concludes, Names
<1> QED
  BY <1>2, <1>3, <1>4, <1>5, <1>6, <1>7, <1>8, <1>9, <1>10, <1>11, <1>12, <1>13, <1>14
     DEF Generator

(* The invariant gives the bound on the records.                           *)
LEMMA AtMostOne == IInv => Len(records) <= 1
<1> SUFFICES ASSUME IInv PROVE Len(records) <= 1
  OBVIOUS
<1>1. CASE pc \in {"running", "handing", "handingTail"}
  <2>1. records = <<>>
    BY <1>1, Zenon DEF IInv, RecordsFollowPC
  <2> QED
    BY <2>1
<1>2. CASE pc = "handingLast"
  <2>1. Len(records) = 1
    BY <1>2, Zenon DEF IInv, RecordsFollowPC
  <2> QED
    BY <2>1
<1>3. CASE pc = "over"
  BY <1>3, Zenon DEF IInv, RecordsFollowPC
<1> QED
  BY <1>1, <1>2, <1>3 DEF IInv, Types, PCs

(* Dropping the generator: a record of a cancellation if there is none yet *)
(* and CancelAware has not been told.                                      *)
LEMMA HangUpRecords ==
  ASSUME IInv, HangUp
  PROVE  /\ records' \in Seq(Outcomes) /\ Len(records') <= 1
         /\ pc \in {"handingTail", "handingLast"} => records' = records
         /\ pc \in {"running", "handing"} => Len(records') = 1 /\ records' # <<>>
<1>1. CASE completed = TRUE
  <2>1. records' = records
    BY <1>1, Zenon DEF HangUp, Dropped
  <2>2. pc \in {"handingTail", "handingLast"}
    BY <1>1 DEF IInv, Types, PCs, RecordsFollowPC, HangUp
  <2> QED
    BY <2>1, <2>2, AtMostOne DEF IInv, Types
<1>2. CASE completed = FALSE
  <2> DEFINE e == [outcome |-> "cancelled", status |-> 200, started |-> responded]
  <2>1. pc \in {"running", "handing"} /\ records = <<>>
    BY <1>2 DEF IInv, Types, PCs, RecordsFollowPC, HangUp
  <2>2. e \in Outcomes
    BY DEF IInv, Types, Outcomes
  <2>3. records' = Append(<<>>, e)
    BY <1>2, <2>1, Zenon DEF HangUp, Dropped, Outcome
  <2> HIDE DEF e
  <2> QED
    BY <2>1, <2>2, <2>3, OneRecordOnly
<1> QED
  BY <1>1, <1>2, Zenon DEF IInv, Types

(* The two stages of the proof: an inductive invariant on the records, and *)
(* the one about the terminal marker relative to it.                       *)
LEMMA NextIInv == IInv /\ [Next]_vars => IInv'
<1> SUFFICES ASSUME IInv, [Next]_vars PROVE IInv'
  OBVIOUS
<1>1. CASE Generator
  <2>1. up' = up /\ pos' \in Nat /\ responded' \in BOOLEAN
    BY <1>1, GeneratorTypes
  <2>2. Ways
    BY <1>1, GeneratorWays
  <2>3. CASE \E o \in Names : o # "cancelled" /\ Concludes(o)
    <3>1. pc' \in {"handingLast", "over"} /\ records' \in Seq(Outcomes) /\ Len(records') = 1
      BY <2>3 DEF Concludes
    <3>2. completed' = TRUE
      BY <2>3, Zenon DEF Concludes
    <3>3. RecordsFollowPC'
      BY <3>1, <3>2 DEF RecordsFollowPC
    <3> QED
      BY <2>1, <3>1, <3>2, <3>3 DEF IInv, Types, PCs
  <2>4. CASE Continues \/ Suspends
    <3>1. pc = "running" /\ records = <<>> /\ pc' \in {"running", "handing", "handingTail"}
          /\ records' = records
      BY <2>4 DEF IInv, RecordsFollowPC, Continues, Suspends
    <3>2. completed' \in BOOLEAN /\ (completed' = (pc' = "handingTail"))
      BY <2>4 DEF IInv, RecordsFollowPC, Continues, Suspends
    <3>3. RecordsFollowPC'
      BY <3>1, <3>2 DEF RecordsFollowPC
    <3> QED
      BY <2>1, <3>1, <3>2, <3>3 DEF IInv, Types, PCs
  <2> QED
    BY <2>2, <2>3, <2>4, Zenon DEF Ways
<1>2. CASE Take
  <2>1. pc' = "running" /\ records' = records /\ records = <<>>
    BY <1>2 DEF Take, IInv, RecordsFollowPC
  <2>2. completed' = FALSE
    BY <1>2 DEF Take, IInv, RecordsFollowPC
  <2>3. RecordsFollowPC'
    BY <2>1, <2>2 DEF RecordsFollowPC
  <2> QED
    BY <1>2, <2>1, <2>2, <2>3 DEF Take, IInv, Types, PCs
<1>3. CASE TakeTail
  <2>1. PICK o \in Names : Concludes(o)
    BY <1>3, FlushConcludes DEF TakeTail, IInv, RecordsFollowPC
  <2>2. pc' \in {"handingLast", "over"} /\ records' \in Seq(Outcomes) /\ Len(records') = 1
    BY <2>1 DEF Concludes
  <2>3. completed' = TRUE
    BY <2>1, Zenon DEF Concludes
  <2>4. RecordsFollowPC'
    BY <2>2, <2>3 DEF RecordsFollowPC
  <2> QED
    BY <1>3, <2>2, <2>3, <2>4 DEF TakeTail, IInv, Types, PCs
<1>4. CASE TakeLast
  <2>1. completed = TRUE /\ Len(records) = 1
    BY <1>4 DEF TakeLast, IInv, RecordsFollowPC
  <2>2. records' = records
    BY <1>4, <2>1, Zenon DEF TakeLast, Dropped
  <2>3. pc' = "over"
    BY <1>4, Zenon DEF TakeLast
  <2>4. Len(records') = 1
    BY <2>1, <2>2
  <2>5. RecordsFollowPC'
    BY <2>3, <2>4 DEF RecordsFollowPC
  <2> QED
    BY <1>4, <2>2, <2>5 DEF TakeLast, IInv, Types, PCs
<1>5. CASE HangUp
  <2>1. RecordsFollowPC'
    BY <1>5, HangUpRecords DEF HangUp, RecordsFollowPC
  <2> QED
    BY <1>5, <2>1, HangUpRecords DEF HangUp, IInv, Types, PCs
<1>6. CASE UNCHANGED vars
  BY <1>6 DEF vars, IInv, Types, RecordsFollowPC
<1> QED
  BY <1>1, <1>2, <1>3, <1>4, <1>5, <1>6 DEF Next, Client

(* Whatever happens, no attempt is recorded twice (attempt.rs:23-29).      *)
AtMostOneRecord == Len(records) <= 1

(* From start to end, an attempt has no more than one record.              *)
THEOREM NoDoubleRecord == Spec => []AtMostOneRecord
<1>1. IInv => AtMostOneRecord
  BY AtMostOne DEF AtMostOneRecord
<1> QED
  BY InitIInv, NextIInv, <1>1, PTL DEF Spec

-----------------------------------------------------------------------------
(* The terminal marker.                                                    *)

(* A way that concludes records something other than a cancellation.       *)
LEMMA NotCancelled ==
  ASSUME NEW o \in Names, o # "cancelled", Concludes(o)
  PROVE  records' # <<>> /\ ~Has("cancelled")'
BY DEF Concludes, Has

(* Every step keeps what the position says about the terminal marker.      *)
LEMMA NextEnd == IInv /\ EndFollowsPC /\ [Next]_vars => EndFollowsPC'
<1> SUFFICES ASSUME IInv, EndFollowsPC, [Next]_vars, up.kind # "chat" PROVE EndFollowsPC'
  BY Zenon DEF EndFollowsPC, vars, Next, Generator, Client, ForwardPiece, ForwardLast,
     ForwardCorrupt, ForwardEnd, UpstreamBreaks, TimesOut, MapPiece, MapLast, MapError,
     MapCorrupt, MapMidFrame, MapTail, MapEnd, Advance, Take, TakeTail, TakeLast, HangUp
<1>1. CASE Generator
  <2>1. CASE \E o \in Names : o # "cancelled" /\ Concludes(o)
    <3>1. pc' \in {"handingLast", "over"}
      BY <2>1 DEF Concludes
    <3> QED
      BY <2>1, <3>1, NotCancelled DEF EndFollowsPC
  <2>2. CASE (Continues \/ Suspends) /\ Passes
    <3>1. pc = "running" /\ pc' \in {"running", "handing", "handingTail"} /\ Passes
      BY <2>2 DEF Continues, Suspends
    <3> QED
      BY <3>1 DEF EndFollowsPC, Passes
  <2> QED
    BY <1>1, <2>1, <2>2, GeneratorWays, Zenon DEF Ways
<1>2. CASE Take
  BY <1>2, StayPasses DEF Take, EndFollowsPC, Passes
<1>3. CASE TakeTail
  <2>1. PICK o \in Names : o # "cancelled" /\ Concludes(o)
    BY <1>3, FlushConcludes DEF TakeTail, IInv, RecordsFollowPC
  <2>2. pc' \in {"handingLast", "over"}
    BY <2>1 DEF Concludes
  <2> QED
    BY <2>1, <2>2, NotCancelled DEF EndFollowsPC
<1>4. CASE TakeLast
  <2>1. records' = records /\ pc' = "over" /\ pc = "handingLast" /\ Len(records) = 1
    BY <1>4, Zenon DEF TakeLast, Dropped, IInv, RecordsFollowPC
  <2>2. records # <<>>
    BY <2>1
  <2>3. ~Has("cancelled")'
    BY <2>1, Zenon DEF EndFollowsPC, Has
  <2> QED
    BY <2>1, <2>2, <2>3 DEF EndFollowsPC
<1>5. CASE HangUp
  <2>1. pc' = "over" /\ UNCHANGED <<up, pos>>
    BY <1>5 DEF HangUp
  <2>2. CASE pc \in {"running", "handing", "handingTail"}
    <3>1. NoEndYet'
      BY <2>1, <2>2, StayPasses DEF EndFollowsPC, Passes
    <3> QED
      BY <2>1, <3>1 DEF EndFollowsPC
  <2>3. CASE pc = "handingLast"
    <3>1. records' = records /\ Len(records) = 1
      BY <2>3, <1>5, Zenon DEF HangUp, Dropped, IInv, RecordsFollowPC
    <3>2. records # <<>>
      BY <3>1
    <3>3. ~Has("cancelled")'
      BY <2>3, <3>1, Zenon DEF EndFollowsPC, Has
    <3> QED
      BY <2>1, <3>1, <3>2, <3>3 DEF EndFollowsPC
  <2> QED
    BY <1>5, <2>2, <2>3 DEF HangUp, IInv, Types, PCs
<1>6. CASE UNCHANGED vars
  <2>1. NoEndYet <=> NoEndYet'
    BY <1>6, Zenon DEF vars, NoEndYet, Seen, Ignored
  <2>2. Has("cancelled") <=> Has("cancelled")'
    BY <1>6, Zenon DEF vars, Has
  <2> QED
    BY <1>6, <2>1, <2>2 DEF vars, EndFollowsPC
<1> QED
  BY <1>1, <1>2, <1>3, <1>4, <1>5, <1>6 DEF Next, Client

(* A client that hangs up after a complete terminal marker does not turn   *)
(* the completed answer into a cancelled one (stream.rs:346-380, 893-925). *)
THEOREM EndRecordedFirst == Spec => []EndIsRecordedFirst
<1>1. Init => EndFollowsPC
  BY DEF Init, EndFollowsPC, NoEndYet
<1>2. IInv /\ EndFollowsPC => EndIsRecordedFirst
  <2> SUFFICES ASSUME IInv, EndFollowsPC, up.kind # "chat", ~NoEndYet
               PROVE  records # <<>> /\ ~Has("cancelled")
    BY Zenon DEF EndIsRecordedFirst, NoEndYet
  <2>1. pc \in {"handingLast", "over"}
    BY DEF EndFollowsPC, IInv, Types, PCs
  <2>2. pc = "handingLast" => records # <<>>
    BY DEF IInv, RecordsFollowPC
  <2> QED
    BY <2>1, <2>2 DEF EndFollowsPC
<1> QED
  BY InitIInv, NextIInv, NextEnd, <1>1, <1>2, PTL DEF Spec

(* A sequence that is not empty and has one member at most is that         *)
(* member.                                                                 *)
LEMMA OneElement ==
  ASSUME NEW S, NEW q \in Seq(S), q # <<>>, Len(q) <= 1
  PROVE  \E o \in S : q = <<o>>
<1>1. Len(q) \in Nat \ {0}
  BY EmptySeq, Zenon
<1>2. Len(q) = 1
  BY <1>1
<1>3. q[1] \in S
  BY <1>2, ElementOfSeq
<1>4. q = <<q[1]>>
  BY <1>2
<1> QED
  BY <1>3, <1>4

(* Step by step, the forwarder makes its one record and leaves it alone:   *)
(* the safety part of OneOutcome.                                          *)
THEOREM RecordsOnceForAll == Spec => RecordsOnce
<1>1. Init => OneRecord!Init
  BY DEF Init, OneRecord!Init
<1>2. IInv => AtMostOneRecord /\ records \in Seq(Outcomes)
  BY AtMostOne DEF AtMostOneRecord, IInv, Types
<1>3. ASSUME IInv, [Next]_vars, records' # records PROVE records = <<>>
  <2>1. CASE Generator
    BY <1>3, <2>1, GeneratorWays, Zenon DEF Ways, Concludes, Continues, Suspends
  <2>2. CASE TakeTail
    BY <1>3, <2>2 DEF TakeTail, IInv, RecordsFollowPC
  <2>3. CASE TakeLast
    BY <1>3, <2>3, Zenon DEF TakeLast, Dropped, IInv, RecordsFollowPC
  <2>4. CASE HangUp
    <3>1. pc \in {"running", "handing"}
      BY <1>3, <2>4, HangUpRecords DEF HangUp, IInv, Types, PCs
    <3> QED
      BY <1>3, <3>1, Zenon DEF IInv, RecordsFollowPC
  <2> QED
    BY <1>3, <2>1, <2>2, <2>3, <2>4, Zenon DEF Next, Client, Take, vars
<1>4. /\ IInv /\ [Next]_vars
      /\ (AtMostOneRecord /\ records \in Seq(Outcomes))'
      => [OneRecord!Conclude]_records
  <2> SUFFICES ASSUME IInv, [Next]_vars, records' # records,
                      Len(records') <= 1, records' \in Seq(Outcomes)
               PROVE  OneRecord!Conclude
    BY DEF AtMostOneRecord
  <2>1. records = <<>>
    BY <1>3
  <2>2. \E o \in Outcomes : records' = <<o>>
    BY OneElement, <2>1, Zenon
  <2> QED
    BY <2>1, <2>2, Zenon DEF OneRecord!Conclude
<1> QED
  BY InitIInv, NextIInv, <1>1, <1>2, <1>4, PTL DEF Spec, RecordsOnce, OneRecord!Safe
-----------------------------------------------------------------------------
(* Successes.                                                              *)

(* What the instance fixes of an upstream, for scripts of any length.      *)
Given ==
  /\ up.fate \in Fates /\ up.open \in BOOLEAN /\ up.script \in Seq(Pieces)
  /\ up.open => up.script # <<>>

Finished == \E i \in 1..Len(up.script) : IsDone(up.script[i])
Spoke    == \E i \in 1..Len(up.script) : HasToken(up.script[i])
Ended    == up.fate = "eof" \/ PreludeSwallowed
Earned   == Finished \/ (Ended /\ Spoke)

Complete == pos = Len(up.script) \/ IsDone(Seen(up, pos))
Forwarded == received = SubSeq(up.script, 1, pos)

(* The body is over before the adapter's last line is handed on, so that   *)
(* what the flush says rests on its end; a transparent stream has handed   *)
(* over what it went through, unless it ended with a failure.              *)
Earns ==
  /\ Given /\ pos \in 0..Len(up.script)
  /\ pc = "handingTail" => Mapped /\ Ended
  /\ Has("success") => Earned
  /\ ~Mapped /\ (pc # "over" \/ Has("success")) => Forwarded
  /\ ~Mapped /\ Has("success") => Complete

(* A script is a sequence of pieces.                                       *)
LEMMA ScriptIsSeq ==
  ASSUME NEW n \in Nat, NEW s \in BoundedSeq(Pieces, n) PROVE s \in Seq(Pieces)
<1>1. PICK m \in 0..n : s \in [1..m -> Pieces]
  BY DEF BoundedSeq, SeqOf
<1> QED
  BY <1>1

(* At the start nothing is on record that would have to be earned.         *)
LEMMA InitEarns == Init => Earns
<1> SUFFICES ASSUME Init PROVE Earns
  OBVIOUS
<1>1. up \in Upstreams /\ pos = 0 /\ pc = "running" /\ records = <<>> /\ received = <<>>
  BY Zenon DEF Init
<1>2. up.fate \in Fates /\ up.open \in BOOLEAN /\ (up.open => up.script # <<>>)
  BY <1>1, Zenon DEF Upstreams
<1>3. up.script \in BoundedSeq(Pieces, MaxPieces)
  BY <1>1, Zenon DEF Upstreams
<1>4. up.script \in Seq(Pieces)
  BY <1>3, ScriptIsSeq, PiecesAssumption
<1>5. Forwarded
  BY <1>1, SubSeqEmpty DEF Forwarded
<1>6. ~Has("success")
  BY <1>1 DEF Has
<1>7. pos \in 0..Len(up.script)
  BY <1>1, <1>4
<1> QED
  BY <1>1, <1>2, <1>4, <1>5, <1>6, <1>7 DEF Earns, Given

(* What depends on the upstream alone stays.                               *)
LEMMA UpStays ==
  ASSUME up' = up
  PROVE  /\ Given' <=> Given
         /\ Mapped' <=> Mapped
         /\ Ended' <=> Ended
         /\ Earned' <=> Earned
BY Zenon DEF Given, Mapped, Ended, Earned, Finished, Spoke, PreludeSwallowed, TokenSeen, Seen, Ignored

(* A marker or token that was seen in a piece was sent.                    *)
LEMMA SeenIsSent ==
  ASSUME Given, NEW i \in 1..Len(up.script)
  PROVE  /\ IsDone(Seen(up, i)) => Finished
         /\ HasToken(Seen(up, i)) => Spoke
<1>1. Seen(up, i) = "bytes" \/ Seen(up, i) = up.script[i]
  BY Zenon DEF Seen
<1>2. ~IsDone("bytes") /\ ~HasToken("bytes")
  BY DEF IsDone, HasToken
<1> QED
  BY <1>1, <1>2, Zenon DEF Finished, Spoke

(* So was one in the piece that has been left open.                        *)
LEMMA LastIsSent ==
  ASSUME Given, up.open
  PROVE  /\ IsDone(Last(up.script)) => Finished
         /\ HasToken(Last(up.script)) => Spoke
<1>1. Len(up.script) \in 1..Len(up.script)
  BY EmptySeq DEF Given
<1> QED
  BY <1>1, Zenon DEF Last, Finished, Spoke

(* A token seen so far was sent.                                           *)
LEMMA TokenIsSent ==
  ASSUME Given, NEW n \in 0..Len(up.script), TokenSeen(up, n)
  PROVE  Spoke
<1>1. PICK i \in 1..n : HasToken(Seen(up, i))
  BY Zenon DEF TokenSeen
<1>2. i \in 1..Len(up.script)
  BY <1>1 DEF Given
<1> QED
  BY <1>1, <1>2, SeenIsSent

(* A record made by the generator says success or not.                     *)
SaysOnly(o) == (Has("success")' <=> o = "success") /\ pc' # "handingTail"

LEMMA OnlySuccess ==
  ASSUME IInv, records = <<>>, NEW o \in Names,
         (\E s \in {200, 504} : RecordAndReturn(o, s)) \/ (\E p : RecordAndHand(o, p))
  PROVE  SaysOnly(o)
<1>1. Len(records') = 1 /\ records'[1].outcome = o /\ pc' \in {"over", "handingLast"}
  <2>1. CASE \E s \in {200, 504} : RecordAndReturn(o, s)
    <3>1. PICK s \in {200, 504} : RecordAndReturn(o, s)
      BY <2>1
    <3>2. Wrote(o, "over")
      BY <3>1, ReturnRecordsOnce
    <3> QED
      BY <3>2 DEF Wrote
  <2>2. CASE \E p : RecordAndHand(o, p)
    <3>1. PICK p : RecordAndHand(o, p)
      BY <2>2
    <3>2. Wrote(o, "handingLast")
      BY <3>1, HandRecordsOnce
    <3> QED
      BY <3>2 DEF Wrote
  <2> QED
    BY <2>1, <2>2
<1>2. 1..Len(records') = {1}
  BY <1>1
<1>3. Has("success")' <=> \E i \in {1} : records'[i].outcome = "success"
  BY <1>2, Zenon DEF Has
<1>4. Has("success")' <=> records'[1].outcome = "success"
  BY <1>3, Zenon
<1> QED
  BY <1>1, <1>4, Zenon DEF SaysOnly

(* The ways to keep Earns: no success and nothing forwarded, or a success  *)
(* of a mapped stream that was earned.                                     *)
LEMMA NoSuccessKeeps ==
  ASSUME Earns, up' = up, pos' \in 0..Len(up.script), pc' # "handingTail", ~Has("success")',
         Mapped \/ pc' = "over"
  PROVE  Earns'
BY UpStays DEF Earns

(* A step of a mapped stream may record a success that is earned.          *)
LEMMA MappedSuccessKeeps ==
  ASSUME Earns, up' = up, pos' \in 0..Len(up.script), pc' # "handingTail", Mapped,
         Has("success")' => Earned
  PROVE  Earns'
BY UpStays DEF Earns

(* The flush records a success only if the upstream completed.             *)
LEMMA FlushKeeps ==
  ASSUME IInv, Earns, records = <<>>, Mapped, Ended, Flush, UNCHANGED <<up, pos>>
  PROVE  Earns'
<1>1. PICK o \in Names : /\ o = "success" => MappedToken
                         /\ RecordAndHand(o, "done") \/ RecordAndReturn(o, 200)
  BY Zenon DEF Flush, Names
<1>2. (Has("success")' <=> o = "success") /\ pc' # "handingTail"
  <2>1. (\E s \in {200, 504} : RecordAndReturn(o, s)) \/ (\E p : RecordAndHand(o, p))
    BY <1>1
  <2>2. SaysOnly(o)
    BY <2>1, OnlySuccess
  <2> QED
    BY <2>2 DEF SaysOnly
<1>3. MappedToken => Spoke
  <2>1. CASE TokenSeen(up, Len(up.script))
    BY <2>1, TokenIsSent DEF Earns, Given
  <2>2. CASE HasTail /\ HasToken(Held)
    BY <2>2, LastIsSent DEF HasTail, Held, Earns
  <2> QED
    BY <2>1, <2>2 DEF MappedToken
<1> QED
  BY <1>1, <1>2, <1>3, MappedSuccessKeeps DEF Earns, Earned

(* A body without failure whose decoder is not in the middle of a frame    *)
(* has ended properly, or has nothing in it.                               *)
LEMMA BodyEnded ==
  ASSUME Given, BodyEnds, ~MidFrame
  PROVE  Ended \/ up.script = <<>>
BY DEF BodyEnds, MidFrame, Ended

(* Where nothing was sent there is no tail and no token.                   *)
LEMMA EmptyIsSilent ==
  ASSUME Given, up.script = <<>> PROVE ~HasTail /\ ~MappedToken
<1>1. Len(up.script) = 0 /\ ~up.open
  BY DEF Given
<1>2. ~TokenSeen(up, Len(up.script))
  BY <1>1 DEF TokenSeen
<1> QED
  BY <1>1, <1>2 DEF HasTail, MappedToken

(* Handing over the next piece keeps the client's copy complete.           *)
LEMMA ForwardKeeps ==
  ASSUME IInv, Earns, records = <<>>, ~Mapped, Advance, received' = Append(received, Piece),
         Has("success")' => IsDone(Seen(up, pos + 1)), pc' # "handingTail"
  PROVE  Earns'
<1>1. up' = up /\ pos' = pos + 1 /\ pos + 1 \in 1..Len(up.script) /\ pc = "running"
  BY DEF Advance, Unread, Earns, Given
<1>2. received = SubSeq(up.script, 1, pos)
  BY <1>1 DEF Earns, Forwarded
<1>3. Forwarded'
  <2>1. SubSeq(up.script, 1, pos + 1) = SubSeq(up.script, 1, pos) \o <<up.script[pos + 1]>>
    BY <1>1, SubSeqRecursiveSecond DEF Earns, Given
  <2>2. up.script[pos + 1] \in Pieces /\ SubSeq(up.script, 1, pos) \in Seq(Pieces)
    BY <1>1 DEF Earns, Given
  <2>3. Append(SubSeq(up.script, 1, pos), up.script[pos + 1])
          = SubSeq(up.script, 1, pos) \o <<up.script[pos + 1]>>
    BY <2>2, AppendIsConcat
  <2> QED
    BY <1>1, <1>2, <2>1, <2>3 DEF Forwarded, Piece
<1>4. Has("success")' => Earned /\ Complete'
  <2>1. Seen(up, pos)' = Seen(up, pos + 1)
    BY <1>1, Zenon DEF Seen, Ignored
  <2> QED
    BY <1>1, <2>1, SeenIsSent DEF Complete, Earned, Earns
<1> QED
  BY <1>1, <1>3, <1>4, UpStays DEF Earns

(* No action of the generator records a success that is not earned.        *)
LEMMA GeneratorEarns == ASSUME IInv, Earns, Generator PROVE Earns'
<1>1. pc = "running" /\ records = <<>>
  BY DEF IInv, RecordsFollowPC, Generator, ForwardPiece, ForwardLast, ForwardCorrupt,
     ForwardEnd, UpstreamBreaks, TimesOut, MapPiece, MapLast, MapError, MapCorrupt,
     MapMidFrame, MapTail, MapEnd, Advance, Unread, AtEnd, BodyEnds
<1>2. Given /\ pos \in 0..Len(up.script) /\ Len(up.script) \in Nat
  BY DEF Earns, Given
<1>3. Advance => up' = up /\ pos' = pos + 1 /\ pos + 1 \in 1..Len(up.script)
  BY <1>2 DEF Advance, Unread
<1>4. records' = records => ~Has("success")'
  BY <1>1 DEF Has
<1>5. CASE ForwardPiece
  BY <1>5, <1>1, <1>4, ForwardKeeps DEF ForwardPiece, Hand
<1>6. CASE MapPiece
  <2>1. pc' \in {"running", "handing"} /\ records' = records /\ Mapped /\ Advance
    BY <1>6, <1>1 DEF MapPiece, Hand
  <2> QED
    BY <2>1, <1>3, <1>4, NoSuccessKeeps
<1>7. CASE MapTail
  <2>1. Mapped /\ Ended /\ HasTail /\ UNCHANGED <<up, pos>>
    <3>1. Ended \/ up.script = <<>>
      BY <1>7, <1>2, BodyEnded DEF MapTail
    <3> QED
      BY <1>7, <1>2, <3>1, EmptyIsSilent DEF MapTail, BodyEnds
  <2>2. CASE Hand(Held, "handingTail") /\ UNCHANGED records
    BY <2>1, <2>2, <1>2, <1>4, UpStays DEF Hand, Earns
  <2>3. CASE RecordAndHand("upstream_error", "error")
    <3>1. ~Has("success")' /\ pc' # "handingTail"
      BY <2>3, <1>1, OnlySuccess DEF SaysOnly, Names
    <3> QED
      BY <2>1, <3>1, <1>2, NoSuccessKeeps
  <2>4. CASE Finishes(Held) /\ RecordAndHand("success", Held)
    <3>1. pc' # "handingTail"
      BY <2>4, <1>1, OnlySuccess DEF SaysOnly, Names
    <3>2. Finished
      BY <2>1, <2>4, <1>2, LastIsSent DEF Finishes, HasTail, Held
    <3> QED
      BY <2>1, <3>1, <3>2, <1>2, MappedSuccessKeeps DEF Earned
  <2> QED
    BY <1>7, <2>2, <2>3, <2>4, Zenon DEF MapTail
<1>8. CASE MapEnd
  <2>1. Mapped /\ ~HasTail /\ Flush /\ UNCHANGED <<up, pos>>
    BY <1>8 DEF MapEnd, BodyEnds
  <2>2. CASE Ended
    BY <2>1, <2>2, <1>1, FlushKeeps
  <2>3. CASE up.script = <<>>
    <3>1. RecordAndHand("stream_interrupted", "done") \/ RecordAndReturn("stream_interrupted", 200)
      BY <2>1, <2>3, <1>2, EmptyIsSilent DEF Flush
    <3>2. ~Has("success")' /\ pc' # "handingTail"
      BY <3>1, <1>1, OnlySuccess DEF SaysOnly, Names
    <3> QED
      BY <2>1, <3>2, <1>2, NoSuccessKeeps
  <2> QED
    BY <1>8, <2>2, <2>3, <1>2, BodyEnded DEF MapEnd
<1>9. CASE ForwardLast
  <2>1. RecordAndHand("success", Piece)
    BY <1>9 DEF ForwardLast
  <2>2. pc' # "handingTail"
    BY <2>1, <1>1, OnlySuccess DEF SaysOnly, Names
  <2> QED
    BY <1>9, <2>1, <2>2, <1>1, ForwardKeeps DEF ForwardLast, RecordAndHand, Hand
<1>10. CASE MapLast
  <2>1. pc' # "handingTail" /\ Mapped /\ Advance
    BY <1>10, <1>1, OnlySuccess DEF SaysOnly, MapLast, Names
  <2>2. Finished
    BY <1>10, <2>1, <1>2, <1>3, SeenIsSent DEF MapLast, Finishes
  <2> QED
    BY <2>1, <2>2, <1>3, MappedSuccessKeeps DEF Earned
<1>11. CASE MapError \/ MapCorrupt
  <2>1. Mapped /\ Advance /\ \E o \in Names : o # "success" /\ RecordAndHand(o, "error")
    BY <1>11 DEF MapError, MapCorrupt, Names
  <2>2. ~Has("success")' /\ pc' # "handingTail"
    BY <2>1, <1>1, OnlySuccess DEF SaysOnly
  <2> QED
    BY <2>1, <2>2, <1>3, NoSuccessKeeps
<1>12. CASE ForwardCorrupt
  <2>1. ~Has("success")' /\ pc' = "over"
    BY <1>12, <1>1, OnlySuccess DEF SaysOnly, ForwardCorrupt, Names, RecordAndReturn
  <2> QED
    BY <1>12, <2>1, <1>3, NoSuccessKeeps DEF ForwardCorrupt
<1>13. CASE UpstreamBreaks \/ TimesOut \/ MapMidFrame
  <2>1. PICK o \in {"upstream_error", "gateway_error", "stream_interrupted"}, s \in {200, 504} :
          RecordAndReturn(o, s)
    <3>1. CASE UpstreamBreaks
      BY <3>1 DEF UpstreamBreaks
    <3>2. CASE TimesOut
      BY <3>2 DEF TimesOut
    <3>3. CASE MapMidFrame
      BY <3>3 DEF MapMidFrame
    <3> QED
      BY <1>13, <3>1, <3>2, <3>3
  <2>4. o \in Names /\ o # "success" /\ pc' = "over"
    BY <2>1 DEF Names, RecordAndReturn
  <2>5. SaysOnly(o)
    BY <2>1, <2>4, <1>1, OnlySuccess
  <2>2. ~Has("success")' /\ pc' = "over"
    BY <2>4, <2>5 DEF SaysOnly
  <2>3. UNCHANGED <<up, pos>>
    BY <1>13 DEF UpstreamBreaks, TimesOut, MapMidFrame
  <2> QED
    BY <2>2, <2>3, <1>2, NoSuccessKeeps
<1>14. CASE ForwardEnd
  <2> DEFINE tail == IF up.open THEN Last(up.script) ELSE "bytes"
  <2> DEFINE full == IsDone(tail) \/ (up.fate = "eof" /\ (TokenSeen(up, pos) \/ HasToken(tail)))
  <2>1. ~Mapped /\ AtEnd /\ UNCHANGED <<up, pos>>
    BY <1>14 DEF ForwardEnd
  <2>2. RecordAndReturn(IF full THEN "success" ELSE "stream_interrupted", 200)
    BY <1>14, Zenon DEF ForwardEnd
  <2>3. pc' = "over" /\ received' = received
    BY <2>2 DEF RecordAndReturn
  <2>4. IsDone(tail) => Finished
    BY <1>2, LastIsSent DEF IsDone
  <2>5. HasToken(tail) => Spoke
    BY <1>2, LastIsSent DEF HasToken
  <2>6. full => Earned
    BY <1>2, <2>4, <2>5, TokenIsSent DEF Earned, Ended
  <2> HIDE DEF tail, full
  <2>7. Has("success")' <=> full
    BY <2>2, <1>1, OnlySuccess DEF SaysOnly, Names
  <2>8. Forwarded' /\ Complete'
    BY <1>1, <2>1, <2>3 DEF Earns, Forwarded, Complete, AtEnd
  <2> QED
    BY <2>1, <2>3, <2>6, <2>7, <2>8, <1>2, UpStays DEF Earns
<1> QED
  BY <1>5, <1>6, <1>7, <1>8, <1>9, <1>10, <1>11, <1>12, <1>13, <1>14 DEF Generator

(* Nor does any other step.                                                *)
LEMMA NextEarns == IInv /\ Earns /\ [Next]_vars => Earns'
<1> SUFFICES ASSUME IInv, Earns, [Next]_vars PROVE Earns'
  OBVIOUS
<1>1. ASSUME UNCHANGED <<up, pos, received, records>>, pc # "over", pc' # "handingTail"
      PROVE  Earns'
  <2>1. /\ Has("success")' <=> Has("success")
        /\ Forwarded' <=> Forwarded
        /\ Complete' <=> Complete
    BY <1>1, Zenon DEF Has, Forwarded, Complete, Seen, Ignored
  <2> QED
    BY <1>1, <2>1, UpStays DEF Earns
<1>2. CASE Generator
  BY <1>2, GeneratorEarns
<1>3. CASE Take
  BY <1>3, <1>1 DEF Take
<1>4. CASE TakeTail
  BY <1>4, FlushKeeps DEF TakeTail, Earns, IInv, RecordsFollowPC
<1>5. CASE TakeLast
  <2>1. records' = records
    BY <1>5, Zenon DEF TakeLast, Dropped, IInv, RecordsFollowPC
  <2> QED
    BY <1>5, <2>1, <1>1 DEF TakeLast
<1>6. CASE HangUp
  <2>1. UNCHANGED <<up, pos, received>> /\ pc' = "over" /\ pc # "over"
    BY <1>6 DEF HangUp
  <2>2. CASE records' = records
    BY <2>1, <2>2, <1>1
  <2>3. CASE records' # records
    <3>1. completed = FALSE /\ pc \in {"running", "handing"}
      BY <1>6, <2>3 DEF HangUp, Dropped, IInv, Types, PCs, RecordsFollowPC
    <3>2. records = <<>> /\ records' = Append(records, Outcome("cancelled", 200, responded))
      BY <1>6, <3>1, Zenon DEF HangUp, Dropped, IInv, RecordsFollowPC
    <3>3. ~Has("success")'
      BY <3>2 DEF Has, Outcome
    <3> QED
      BY <2>1, <3>3, NoSuccessKeeps DEF Earns
  <2> QED
    BY <2>2, <2>3
<1>7. CASE UNCHANGED vars
  <2>1. UNCHANGED <<up, pos, pc, received, records>>
    BY <1>7 DEF vars
  <2>2. /\ Has("success")' <=> Has("success")
        /\ Forwarded' <=> Forwarded
        /\ Complete' <=> Complete
    BY <2>1, Zenon DEF Has, Forwarded, Complete, Seen, Ignored
  <2> QED
    BY <2>1, <2>2, UpStays DEF Earns
<1> QED
  BY <1>2, <1>3, <1>4, <1>5, <1>6, <1>7 DEF Next, Client

(* For scripts of any length: a success on record was one of the upstream, *)
(* and a client that stayed with a transparent stream has all of it        *)
(* (stream.rs:197, 346-407, 486-520, 1243-1285).                           *)
THEOREM SuccessesAreEarned == Spec => []SuccessIsEarned
<1>1. Earns => SuccessIsEarned
  BY Zenon DEF Earns, SuccessIsEarned, Earned, Finished, Spoke, Ended, Forwarded, Complete
<1> QED
  BY <1>1, InitIInv, NextIInv, InitEarns, NextEarns, PTL DEF Spec

-----------------------------------------------------------------------------
(* Part 2: StreamConversion.                                               *)
(*                                                                         *)
(* The conversion is a matter of folds: of the decoder over lines, of the  *)
(* converter over chat events, of the client over what it is sent, and of  *)
(* closing over the blocks that are open.  First what a fold does: nothing *)
(* on nothing, and one step more on one event more.                        *)

(* Induction.  The induction theorems of the library take a predicate as a *)
(* parameter, which the provers cannot instantiate; that every set of      *)
(* naturals has a least member serves instead, as it takes a set.          *)
LEMMA Least ==
  ASSUME NEW S \in SUBSET Nat, S # {}
  PROVE  \E x \in S : \A y \in S : x <= y
<1>1. PICK x \in S : \A y \in S : ~ (<<y, x>> \in OpToRel(<, Nat))
  BY NatLessThanWellFounded, WFMin
<1>2. \A y \in S : ~(y < x)
  BY <1>1 DEF OpToRel
<1> QED
  BY <1>2

(* A set that has 0, and n + 1 with n, has every natural.                  *)
LEMMA Induction ==
  ASSUME NEW S, 0 \in S, \A n \in Nat : n \in S => n + 1 \in S
  PROVE  Nat \subseteq S
<1> SUFFICES ASSUME Nat \ S # {} PROVE FALSE
  OBVIOUS
<1>1. PICK n \in Nat \ S : \A y \in Nat \ S : n <= y
  BY Least
<1>2. n # 0 /\ n - 1 \in Nat
  BY <1>1
<1>3. n - 1 \in S
  BY <1>1, <1>2
<1> QED
  BY <1>2, <1>3, <1>1

(* A fold is defined by a function on the subsets of what it goes through, *)
(* which takes out one member after the other.  There is such a function   *)
(* over any finite set.                                                    *)
Folded(f, S, b, ch, h) ==
  \A s \in SUBSET S : f[s] = IF s = {} THEN b ELSE h[<<f[s \ {ch[s]}], ch[s]>>]

(* A finite set without one of its members.                                *)
LEMMA OneLess ==
  ASSUME NEW s, IsFiniteSet(s), NEW x \in s
  PROVE  Cardinality(s \ {x}) = Cardinality(s) - 1
BY FS_RemoveElement

(* There is a function that folds h over the subsets of S.                 *)
LEMMA FoldExists ==
  ASSUME NEW S, IsFiniteSet(S), NEW X, NEW b \in X, NEW h \in [X \X S -> X],
         NEW ch, \A s \in SUBSET S : s # {} => ch[s] \in s
  PROVE  \E f \in [SUBSET S -> X] : Folded(f, S, b, ch, h)
<1> DEFINE Small(n) == {s \in SUBSET S : Cardinality(s) <= n}
           Upto(f, n) == \A s \in Small(n) : f[s] = IF s = {} THEN b ELSE h[<<f[s \ {ch[s]}], ch[s]>>]
           Good == {n \in Nat : \E f \in [SUBSET S -> X] : Upto(f, n)}
<1>0. \A s \in SUBSET S : IsFiniteSet(s) /\ Cardinality(s) \in Nat
  BY FS_Subset, FS_CardinalityType
<1>1. 0 \in Good
  <2> DEFINE f == [s \in SUBSET S |-> b]
  <2>1. \A s \in Small(0) : s = {}
    BY <1>0, FS_EmptySet
  <2>2. f \in [SUBSET S -> X] /\ Upto(f, 0)
    BY <2>1
  <2> HIDE DEF f
  <2> QED
    BY <2>2
<1>2. ASSUME NEW n \in Nat, n \in Good PROVE n + 1 \in Good
  <2>1. PICK f \in [SUBSET S -> X] : Upto(f, n)
    BY <1>2
  <2> DEFINE g == [s \in SUBSET S |-> IF s = {} THEN b ELSE h[<<f[s \ {ch[s]}], ch[s]>>]]
  <2>2. g \in [SUBSET S -> X]
    <3> SUFFICES ASSUME NEW s \in SUBSET S, s # {} PROVE h[<<f[s \ {ch[s]}], ch[s]>>] \in X
      OBVIOUS
    <3> QED
      OBVIOUS
  <2>3. \A s \in Small(n) : g[s] = f[s]
    BY <2>1
  <2>4. ASSUME NEW s \in Small(n + 1), s # {} PROVE s \ {ch[s]} \in Small(n)
    <3>1. ch[s] \in s /\ IsFiniteSet(s) /\ Cardinality(s) \in Nat
      BY <1>0, <2>4
    <3>2. Cardinality(s \ {ch[s]}) = Cardinality(s) - 1
      BY <3>1, OneLess
    <3>3. Cardinality(s) <= n + 1
      OBVIOUS
    <3>4. Cardinality(s) - 1 <= n
      BY <3>1, <3>3
    <3> QED
      BY <3>2, <3>4
  <2>5. Upto(g, n + 1)
    <3> SUFFICES ASSUME NEW s \in Small(n + 1)
                 PROVE  g[s] = IF s = {} THEN b ELSE h[<<g[s \ {ch[s]}], ch[s]>>]
      OBVIOUS
    <3>1. s \in SUBSET S
      OBVIOUS
    <3>2. CASE s = {}
      BY <3>2
    <3>3. CASE s # {}
      <4>1. s \ {ch[s]} \in Small(n)
        BY <2>4, <3>3
      <4>2. g[s \ {ch[s]}] = f[s \ {ch[s]}]
        BY <4>1, <2>3
      <4>3. g[s] = h[<<f[s \ {ch[s]}], ch[s]>>]
        BY <3>1, <3>3
      <4> QED
        BY <4>2, <4>3, <3>3
    <3> QED
      BY <3>2, <3>3
  <2> HIDE DEF g, Upto
  <2> QED
    BY <2>2, <2>5
<1> HIDE DEF Good
<1>3. Cardinality(S) \in Good
  BY <1>1, <1>2, Induction, FS_CardinalityType
<1> USE DEF Good
<1>4. PICK f \in [SUBSET S -> X] : Upto(f, Cardinality(S))
  BY <1>3
<1>5. \A s \in SUBSET S : s \in Small(Cardinality(S))
  BY FS_Subset
<1> QED
  BY <1>4, <1>5 DEF Folded
(* A sequence is folded from its last member down.                         *)
Top(n) == [s \in SUBSET (1..n) |-> Max(s)]

(* A nonempty set of numbers up to n has a greatest one.                   *)
LEMMA MaxIn ==
  ASSUME NEW n \in Nat, NEW s \in SUBSET (1..n), s # {}
  PROVE  Max(s) \in s /\ \A y \in s : Max(s) >= y
<1> DEFINE below == {y \in Nat : \E x \in s : y = n - x}
<1>1. below \in SUBSET Nat /\ \A x \in s : x \in 1..n /\ n - x \in below
  OBVIOUS
<1>2. PICK z \in below : \A y \in below : z <= y
  BY <1>1, Least
<1>3. PICK m \in s : z = n - m
  BY <1>2
<1>4. \A y \in s : m >= y
  <2> SUFFICES ASSUME NEW y \in s PROVE m >= y
    OBVIOUS
  <2>1. n - m <= n - y /\ m \in 1..n /\ y \in 1..n
    BY <1>1, <1>2, <1>3
  <2> HIDE DEF below
  <2> QED
    BY <2>1
<1> QED
  BY <1>3, <1>4 DEF Max

(* Without its greatest number, 1..n is 1..n-1.                            *)
LEMMA MaxOfRange ==
  ASSUME NEW n \in Nat, n # 0
  PROVE  Max(1..n) = n /\ (1..n) \ {Max(1..n)} = 1..(n - 1)
<1>1. Max(1..n) \in 1..n /\ \A y \in 1..n : Max(1..n) >= y
  <2>1. 1..n \in SUBSET (1..n) /\ 1..n # {}
    OBVIOUS
  <2> QED
    BY <2>1, MaxIn
<1>2. Max(1..n) = n
  BY <1>1
<1> QED
  BY <1>2

(* The ranges that a fold down from n goes through.                        *)
LEMMA Ranges ==
  ASSUME NEW n \in Nat, NEW i \in 0..n
  PROVE  /\ 1..0 = {} /\ 1..i \in SUBSET (1..n)
         /\ i # 0 => /\ 1..i # {} /\ i \in 1..n /\ i - 1 \in 0..n
                    /\ Max(1..i) = i /\ (1..i) \ {Max(1..i)} = 1..(i - 1)
<1>1. 1..0 = {} /\ \A j \in 1..i : j \in 1..n
  OBVIOUS
<1>2. i # 0 => i \in 1..i /\ i \in 1..n /\ i - 1 \in 0..n /\ i \in Nat
  OBVIOUS
<1> QED
  BY <1>1, <1>2, MaxOfRange

RangeFold(f, n, X, b, h) ==
  /\ f \in [SUBSET (1..n) -> X]
  /\ \A s \in SUBSET (1..n) : f[s] = IF s = {} THEN b ELSE h[<<f[s \ {Max(s)}], Max(s)>>]

(* There is a function that folds h over the subsets of 1..n.              *)
LEMMA RangeFoldExists ==
  ASSUME NEW n \in Nat, NEW X, NEW b \in X, NEW h \in [X \X (1..n) -> X]
  PROVE  \E f : RangeFold(f, n, X, b, h)
<1>1. IsFiniteSet(1..n)
  BY FS_Interval
<1>2. \A s \in SUBSET (1..n) : s # {} => Top(n)[s] \in s
  BY MaxIn DEF Top
<1>3. PICK f \in [SUBSET (1..n) -> X] : Folded(f, 1..n, b, Top(n), h)
  BY <1>1, <1>2, FoldExists
<1> QED
  BY <1>3 DEF Folded, Top, RangeFold

(* The steps that are folded.  A lemma about FoldLeft with any operator    *)
(* would have to take the operator as a parameter, which the provers       *)
(* cannot instantiate; a name for each of the steps can be a parameter.    *)
Does(step, x, y) ==
  CASE step = "understands" -> Understands(x, y)
    [] step = "consume"     -> Consume(x, y)
    [] step = "line"        -> Line(x, y)
    [] step = "wholeLine"   -> WholeLine(x, y)
    [] step = "splitPiece"  -> SplitPiece(x, y)
    [] step = "reply"       -> Reply(x, y)
    [] step = "takeBlock"   -> TakeBlock(x, y)
    [] step = "claudeItem"  -> ClaudeItem(x, y)
    [] step = "chatItem"    -> ChatItem(x, y)
    [] step = "responsesItem" -> ResponsesItem(x, y)
DoesAll(step, b, s) == FoldLeft(LAMBDA x, y : Does(step, x, y), b, s)

DoesBy(step, e, n, b, s) ==
  e = [t \in SUBSET (1..n) |-> IF t = {} THEN b ELSE Does(step, e[t \ {Max(t)}], s[Max(t)])]

(* A fold of a step is the value of such a function at 1..n.             *)
LEMMA DoesFold ==
  ASSUME NEW step, NEW n \in Nat, NEW b, NEW s, DOMAIN s = 1..n, NEW e, DoesBy(step, e, n, b, s)
  PROVE  DoesAll(step, b, s) = e[1..n]
<1> DEFINE D == 1..n
           IsFold(g) == g = [t \in SUBSET D |-> IF t = {} THEN b
                                                ELSE Does(step, g[t \ {Max(t)}], s[Max(t)])]
           g == CHOOSE g : IsFold(g)
<1>1. IsFold(e)
  BY DEF DoesBy
<1>2. IsFold(g)
  <2> HIDE DEF IsFold
  <2> QED
    BY <1>1
<1>3. DoesAll(step, b, s) = g[D]
  BY Zenon DEF DoesAll, FoldLeft, MapThenFoldSet
<1> HIDE DEF g
<1> DEFINE Q == {i \in Nat : i <= n => g[1..i] = e[1..i]}
<1>4. 0 \in Q
  <2>1. 1..0 = {} /\ {} \in SUBSET D
    OBVIOUS
  <2> QED
    BY <1>1, <1>2, <2>1
<1>5. ASSUME NEW i \in Nat, i \in Q PROVE i + 1 \in Q
  <2> SUFFICES ASSUME i + 1 <= n PROVE g[1..i + 1] = e[1..i + 1]
    OBVIOUS
  <2>1. /\ 1..i + 1 \in SUBSET D /\ 1..i + 1 # {} /\ Max(1..i + 1) = i + 1
        /\ (1..i + 1) \ {Max(1..i + 1)} = 1..i
    <3>1. i + 1 \in 0..n /\ i + 1 # 0 /\ (i + 1) - 1 = i
      OBVIOUS
    <3> QED
      BY <3>1, Ranges
  <2>2. g[1..i] = e[1..i]
    BY <1>5
  <2>3. g[1..i + 1] = Does(step, g[1..i], s[i + 1])
    BY <1>2, <2>1
  <2>4. e[1..i + 1] = Does(step, e[1..i], s[i + 1])
    BY <1>1, <2>1
  <2> QED
    BY <2>2, <2>3, <2>4
<1> HIDE DEF Q
<1>6. n \in Q
  BY <1>4, <1>5, Induction
<1> QED
  BY <1>3, <1>6 DEF Q

DoesAsks(step, X, Y, b, s) ==
  b \in X /\ s \in Seq(Y) /\ \A x \in X, y \in Y : Does(step, x, y) \in X
DoesGives(step, X, b, s, a) ==
  /\ DoesAll(step, b, <<>>) = b
  /\ DoesAll(step, b, s) \in X
  /\ DoesAll(step, b, Append(s, a)) = Does(step, DoesAll(step, b, s), a)

(* A fold: nothing on nothing, one step more on one more.                  *)
LEMMA DoesAppends ==
  ASSUME NEW step, NEW X, NEW Y, NEW b, NEW s, NEW a, DoesAsks(step, X, Y, b, s)
  PROVE  DoesGives(step, X, b, s, a)
<1> SUFFICES ASSUME b \in X, s \in Seq(Y), \A x \in X, y \in Y : Does(step, x, y) \in X
             PROVE  /\ DoesAll(step, b, <<>>) = b
                    /\ DoesAll(step, b, s) \in X
                    /\ DoesAll(step, b, Append(s, a)) = Does(step, DoesAll(step, b, s), a)
  BY DEF DoesAsks, DoesGives
<1> DEFINE n == Len(s)
           D == 1..n
           h == [p \in X \X D |-> Does(step, p[1], s[p[2]])]
<1>1. n \in Nat /\ DOMAIN s = D /\ \A i \in D : s[i] \in Y
  OBVIOUS
<1>2. /\ DOMAIN Append(s, a) = 1..n + 1 /\ Append(s, a)[n + 1] = a
      /\ \A i \in D : Append(s, a)[i] = s[i]
  OBVIOUS
<1>3. h \in [X \X D -> X]
  BY <1>1
<1> HIDE DEF n
<1>4. PICK e : RangeFold(e, n, X, b, h)
  <2> HIDE DEF h
  <2> QED
    BY <1>1, <1>3, RangeFoldExists
<1>5. e \in [SUBSET D -> X]
  BY <1>4 DEF RangeFold
<1>6. \A t \in SUBSET D : e[t] = IF t = {} THEN b ELSE Does(step, e[t \ {Max(t)}], s[Max(t)])
  <2> SUFFICES ASSUME NEW t \in SUBSET D, t # {}
               PROVE  h[<<e[t \ {Max(t)}], Max(t)>>] = Does(step, e[t \ {Max(t)}], s[Max(t)])
    BY <1>4 DEF RangeFold
  <2>1. Max(t) \in D /\ e[t \ {Max(t)}] \in X
    BY <1>1, <1>5, MaxIn
  <2> QED
    BY <2>1
<1> HIDE DEF h
<1>7. DoesAll(step, b, s) = e[D] /\ e[D] \in X
  <2>1. DoesBy(step, e, n, b, s)
    BY <1>5, <1>6 DEF DoesBy
  <2>2. D \in SUBSET D
    OBVIOUS
  <2> QED
    BY <1>1, <1>5, <2>1, <2>2, DoesFold
<1> DEFINE d == [t \in SUBSET (1..n + 1) |->
                   IF n + 1 \in t THEN Does(step, e[t \ {n + 1}], a) ELSE e[t]]
           Z == {d[t] : t \in SUBSET (1..n + 1)}
<1>8. d \in [SUBSET (1..n + 1) -> Z]
  OBVIOUS
<1>9. ASSUME NEW t \in SUBSET (1..n + 1)
      PROVE  d[t] = IF t = {} THEN b ELSE Does(step, d[t \ {Max(t)}], Append(s, a)[Max(t)])
  <2>1. CASE t = {}
    <3>1. d[{}] = e[{}]
      OBVIOUS
    <3> QED
      BY <1>6, <2>1, <3>1
  <2>2. CASE n + 1 \in t
    <3>1. t \ {n + 1} \in SUBSET D
      BY <1>1
    <3>2. Max(t) = n + 1
      <4>1. Max(t) \in t /\ \A y \in t : Max(t) >= y
        <5>1. n + 1 \in Nat /\ t # {}
          BY <1>1, <2>2
        <5> QED
          BY <5>1, MaxIn
      <4>2. Max(t) \in 1..n + 1 /\ Max(t) >= n + 1
        BY <2>2, <4>1
      <4> QED
        BY <1>1, <4>2
    <3>3. d[t \ {n + 1}] = e[t \ {n + 1}] /\ d[t] = Does(step, e[t \ {n + 1}], a)
      BY <2>2, <3>1
    <3> QED
      BY <1>2, <2>2, <3>2, <3>3
  <2>3. CASE t # {} /\ n + 1 \notin t
    <3>1. t \in SUBSET D
      BY <1>1, <2>3
    <3>2. Max(t) \in D
      BY <1>1, <2>3, <3>1, MaxIn
    <3>3. d[t \ {Max(t)}] = e[t \ {Max(t)}] /\ d[t] = e[t]
      BY <2>3, <3>1
    <3> QED
      BY <1>2, <1>6, <2>3, <3>1, <3>2, <3>3
  <2> QED
    BY <2>1, <2>2, <2>3
<1>10. d[1..n + 1] = Does(step, e[D], a)
  <2>1. 1..n + 1 \in SUBSET (1..n + 1) /\ n + 1 \in 1..n + 1 /\ (1..n + 1) \ {n + 1} = D
    BY <1>1
  <2> QED
    BY <2>1
<1> HIDE DEF d, Z
<1>11. DoesAll(step, b, Append(s, a)) = d[1..n + 1]
  <2>1. n + 1 \in Nat
    BY <1>1
  <2>2. DoesBy(step, d, n + 1, b, Append(s, a))
    BY <1>8, <1>9 DEF DoesBy
  <2> DEFINE q == Append(s, a)
             m == n + 1
  <2>3. DOMAIN q = 1..m /\ m \in Nat /\ DoesBy(step, d, m, b, q)
    BY <1>2, <2>1, <2>2
  <2> HIDE DEF q, m
  <2>4. DoesAll(step, b, q) = d[1..m]
    BY <2>3, DoesFold
  <2> QED
    BY <2>4 DEF q, m
<1>12. DoesAll(step, b, <<>>) = b
  <2> DEFINE z == [t \in SUBSET (1..0) |-> b]
  <2>1. 1..0 = {} /\ 0 \in Nat /\ DOMAIN <<>> = 1..0
    OBVIOUS
  <2>2. z \in [SUBSET (1..0) -> {b}]
    OBVIOUS
  <2>3. \A t \in SUBSET (1..0) : z[t] = IF t = {} THEN b ELSE Does(step, z[t \ {Max(t)}], <<>>[Max(t)])
    BY <2>1
  <2>4. z[1..0] = b
    OBVIOUS
  <2> HIDE DEF z
  <2>5. DoesAll(step, b, <<>>) = z[1..0]
    <3>1. DoesBy(step, z, 0, b, <<>>)
      BY <2>2, <2>3 DEF DoesBy
    <3> QED
      BY <2>1, <3>1, DoesFold
  <2> QED
    BY <2>4, <2>5
<1> QED
  BY <1>7, <1>10, <1>11, <1>12

UnderstandsAsks(X, Y, b, s) ==
  b \in X /\ s \in Seq(Y) /\ \A x \in X, y \in Y : Understands(x, y) \in X
UnderstandsGives(X, b, s, a) ==
  /\ FoldLeft(Understands, b, <<>>) = b
  /\ FoldLeft(Understands, b, s) \in X
  /\ FoldLeft(Understands, b, Append(s, a)) = Understands(FoldLeft(Understands, b, s), a)

(* The fold of Understands.                                                *)
LEMMA UnderstandsAppends ==
  ASSUME NEW X, NEW Y, NEW b, NEW s, NEW a, UnderstandsAsks(X, Y, b, s)
  PROVE  UnderstandsGives(X, b, s, a)
<1>1. \A x, y : Does("understands", x, y) = Understands(x, y)
  BY DEF Does
<1>2. ASSUME NEW t PROVE FoldLeft(Understands, b, t) = DoesAll("understands", b, t)
  <2> DEFINE D == DOMAIN t
             P(g) == g = [u \in SUBSET D |-> IF u = {} THEN b ELSE Understands(g[u \ {Max(u)}], t[Max(u)])]
             Q(g) == g = [u \in SUBSET D |-> IF u = {} THEN b
                                            ELSE Does("understands", g[u \ {Max(u)}], t[Max(u)])]
  <2>1. \A g : P(g) <=> Q(g)
    BY <1>1
  <2>2. FoldLeft(Understands, b, t) = (CHOOSE g : P(g))[D]
    BY Zenon DEF FoldLeft, MapThenFoldSet
  <2>3. DoesAll("understands", b, t) = (CHOOSE g : Q(g))[D]
    BY Zenon DEF FoldLeft, MapThenFoldSet, DoesAll
  <2> HIDE DEF P, Q
  <2>4. (CHOOSE g : P(g)) = (CHOOSE g : Q(g))
    BY <2>1, Zenon
  <2> QED
    BY <2>2, <2>3, <2>4
<1>3. DoesAsks("understands", X, Y, b, s)
  BY <1>1 DEF UnderstandsAsks, DoesAsks
<1>4. DoesGives("understands", X, b, s, a)
  BY <1>3, DoesAppends
<1> QED
  BY <1>1, <1>2, <1>4 DEF DoesGives, UnderstandsGives

ConsumeAsks(X, Y, b, s) ==
  b \in X /\ s \in Seq(Y) /\ \A x \in X, y \in Y : Consume(x, y) \in X
ConsumeGives(X, b, s, a) ==
  /\ FoldLeft(Consume, b, <<>>) = b
  /\ FoldLeft(Consume, b, s) \in X
  /\ FoldLeft(Consume, b, Append(s, a)) = Consume(FoldLeft(Consume, b, s), a)

(* The fold of Consume.                                                    *)
LEMMA ConsumeAppends ==
  ASSUME NEW X, NEW Y, NEW b, NEW s, NEW a, ConsumeAsks(X, Y, b, s)
  PROVE  ConsumeGives(X, b, s, a)
<1>1. \A x, y : Does("consume", x, y) = Consume(x, y)
  BY DEF Does
<1>2. ASSUME NEW t PROVE FoldLeft(Consume, b, t) = DoesAll("consume", b, t)
  <2> DEFINE D == DOMAIN t
             P(g) == g = [u \in SUBSET D |-> IF u = {} THEN b ELSE Consume(g[u \ {Max(u)}], t[Max(u)])]
             Q(g) == g = [u \in SUBSET D |-> IF u = {} THEN b
                                            ELSE Does("consume", g[u \ {Max(u)}], t[Max(u)])]
  <2>1. \A g : P(g) <=> Q(g)
    BY <1>1
  <2>2. FoldLeft(Consume, b, t) = (CHOOSE g : P(g))[D]
    BY Zenon DEF FoldLeft, MapThenFoldSet
  <2>3. DoesAll("consume", b, t) = (CHOOSE g : Q(g))[D]
    BY Zenon DEF FoldLeft, MapThenFoldSet, DoesAll
  <2> HIDE DEF P, Q
  <2>4. (CHOOSE g : P(g)) = (CHOOSE g : Q(g))
    BY <2>1, Zenon
  <2> QED
    BY <2>2, <2>3, <2>4
<1>3. DoesAsks("consume", X, Y, b, s)
  BY <1>1 DEF ConsumeAsks, DoesAsks
<1>4. DoesGives("consume", X, b, s, a)
  BY <1>3, DoesAppends
<1> QED
  BY <1>1, <1>2, <1>4 DEF DoesGives, ConsumeGives

LineAsks(X, Y, b, s) ==
  b \in X /\ s \in Seq(Y) /\ \A x \in X, y \in Y : Line(x, y) \in X
LineGives(X, b, s, a) ==
  /\ FoldLeft(Line, b, <<>>) = b
  /\ FoldLeft(Line, b, s) \in X
  /\ FoldLeft(Line, b, Append(s, a)) = Line(FoldLeft(Line, b, s), a)

(* The fold of Line.                                                       *)
LEMMA LineAppends ==
  ASSUME NEW X, NEW Y, NEW b, NEW s, NEW a, LineAsks(X, Y, b, s)
  PROVE  LineGives(X, b, s, a)
<1>1. \A x, y : Does("line", x, y) = Line(x, y)
  BY DEF Does
<1>2. ASSUME NEW t PROVE FoldLeft(Line, b, t) = DoesAll("line", b, t)
  <2> DEFINE D == DOMAIN t
             P(g) == g = [u \in SUBSET D |-> IF u = {} THEN b ELSE Line(g[u \ {Max(u)}], t[Max(u)])]
             Q(g) == g = [u \in SUBSET D |-> IF u = {} THEN b
                                            ELSE Does("line", g[u \ {Max(u)}], t[Max(u)])]
  <2>1. \A g : P(g) <=> Q(g)
    BY <1>1
  <2>2. FoldLeft(Line, b, t) = (CHOOSE g : P(g))[D]
    BY Zenon DEF FoldLeft, MapThenFoldSet
  <2>3. DoesAll("line", b, t) = (CHOOSE g : Q(g))[D]
    BY Zenon DEF FoldLeft, MapThenFoldSet, DoesAll
  <2> HIDE DEF P, Q
  <2>4. (CHOOSE g : P(g)) = (CHOOSE g : Q(g))
    BY <2>1, Zenon
  <2> QED
    BY <2>2, <2>3, <2>4
<1>3. DoesAsks("line", X, Y, b, s)
  BY <1>1 DEF LineAsks, DoesAsks
<1>4. DoesGives("line", X, b, s, a)
  BY <1>3, DoesAppends
<1> QED
  BY <1>1, <1>2, <1>4 DEF DoesGives, LineGives

WholeLineAsks(X, Y, b, s) ==
  b \in X /\ s \in Seq(Y) /\ \A x \in X, y \in Y : WholeLine(x, y) \in X
WholeLineGives(X, b, s, a) ==
  /\ FoldLeft(WholeLine, b, <<>>) = b
  /\ FoldLeft(WholeLine, b, s) \in X
  /\ FoldLeft(WholeLine, b, Append(s, a)) = WholeLine(FoldLeft(WholeLine, b, s), a)

(* The fold of WholeLine.                                                  *)
LEMMA WholeLineAppends ==
  ASSUME NEW X, NEW Y, NEW b, NEW s, NEW a, WholeLineAsks(X, Y, b, s)
  PROVE  WholeLineGives(X, b, s, a)
<1>1. \A x, y : Does("wholeLine", x, y) = WholeLine(x, y)
  BY DEF Does
<1>2. ASSUME NEW t PROVE FoldLeft(WholeLine, b, t) = DoesAll("wholeLine", b, t)
  <2> DEFINE D == DOMAIN t
             P(g) == g = [u \in SUBSET D |-> IF u = {} THEN b ELSE WholeLine(g[u \ {Max(u)}], t[Max(u)])]
             Q(g) == g = [u \in SUBSET D |-> IF u = {} THEN b
                                            ELSE Does("wholeLine", g[u \ {Max(u)}], t[Max(u)])]
  <2>1. \A g : P(g) <=> Q(g)
    BY <1>1
  <2>2. FoldLeft(WholeLine, b, t) = (CHOOSE g : P(g))[D]
    BY Zenon DEF FoldLeft, MapThenFoldSet
  <2>3. DoesAll("wholeLine", b, t) = (CHOOSE g : Q(g))[D]
    BY Zenon DEF FoldLeft, MapThenFoldSet, DoesAll
  <2> HIDE DEF P, Q
  <2>4. (CHOOSE g : P(g)) = (CHOOSE g : Q(g))
    BY <2>1, Zenon
  <2> QED
    BY <2>2, <2>3, <2>4
<1>3. DoesAsks("wholeLine", X, Y, b, s)
  BY <1>1 DEF WholeLineAsks, DoesAsks
<1>4. DoesGives("wholeLine", X, b, s, a)
  BY <1>3, DoesAppends
<1> QED
  BY <1>1, <1>2, <1>4 DEF DoesGives, WholeLineGives

SplitPieceAsks(X, Y, b, s) ==
  b \in X /\ s \in Seq(Y) /\ \A x \in X, y \in Y : SplitPiece(x, y) \in X
SplitPieceGives(X, b, s, a) ==
  /\ FoldLeft(SplitPiece, b, <<>>) = b
  /\ FoldLeft(SplitPiece, b, s) \in X
  /\ FoldLeft(SplitPiece, b, Append(s, a)) = SplitPiece(FoldLeft(SplitPiece, b, s), a)

(* The fold of SplitPiece.                                                 *)
LEMMA SplitPieceAppends ==
  ASSUME NEW X, NEW Y, NEW b, NEW s, NEW a, SplitPieceAsks(X, Y, b, s)
  PROVE  SplitPieceGives(X, b, s, a)
<1>1. \A x, y : Does("splitPiece", x, y) = SplitPiece(x, y)
  BY DEF Does
<1>2. ASSUME NEW t PROVE FoldLeft(SplitPiece, b, t) = DoesAll("splitPiece", b, t)
  <2> DEFINE D == DOMAIN t
             P(g) == g = [u \in SUBSET D |-> IF u = {} THEN b ELSE SplitPiece(g[u \ {Max(u)}], t[Max(u)])]
             Q(g) == g = [u \in SUBSET D |-> IF u = {} THEN b
                                            ELSE Does("splitPiece", g[u \ {Max(u)}], t[Max(u)])]
  <2>1. \A g : P(g) <=> Q(g)
    BY <1>1
  <2>2. FoldLeft(SplitPiece, b, t) = (CHOOSE g : P(g))[D]
    BY Zenon DEF FoldLeft, MapThenFoldSet
  <2>3. DoesAll("splitPiece", b, t) = (CHOOSE g : Q(g))[D]
    BY Zenon DEF FoldLeft, MapThenFoldSet, DoesAll
  <2> HIDE DEF P, Q
  <2>4. (CHOOSE g : P(g)) = (CHOOSE g : Q(g))
    BY <2>1, Zenon
  <2> QED
    BY <2>2, <2>3, <2>4
<1>3. DoesAsks("splitPiece", X, Y, b, s)
  BY <1>1 DEF SplitPieceAsks, DoesAsks
<1>4. DoesGives("splitPiece", X, b, s, a)
  BY <1>3, DoesAppends
<1> QED
  BY <1>1, <1>2, <1>4 DEF DoesGives, SplitPieceGives

ReplyAsks(X, Y, b, s) ==
  b \in X /\ s \in Seq(Y) /\ \A x \in X, y \in Y : Reply(x, y) \in X
ReplyGives(X, b, s, a) ==
  /\ FoldLeft(Reply, b, <<>>) = b
  /\ FoldLeft(Reply, b, s) \in X
  /\ FoldLeft(Reply, b, Append(s, a)) = Reply(FoldLeft(Reply, b, s), a)

(* The fold of Reply.                                                 *)
LEMMA ReplyAppends ==
  ASSUME NEW X, NEW Y, NEW b, NEW s, NEW a, ReplyAsks(X, Y, b, s)
  PROVE  ReplyGives(X, b, s, a)
<1>1. \A x, y : Does("reply", x, y) = Reply(x, y)
  BY DEF Does
<1>2. ASSUME NEW t PROVE FoldLeft(Reply, b, t) = DoesAll("reply", b, t)
  <2> DEFINE D == DOMAIN t
             P(g) == g = [u \in SUBSET D |-> IF u = {} THEN b ELSE Reply(g[u \ {Max(u)}], t[Max(u)])]
             Q(g) == g = [u \in SUBSET D |-> IF u = {} THEN b
                                            ELSE Does("reply", g[u \ {Max(u)}], t[Max(u)])]
  <2>1. \A g : P(g) <=> Q(g)
    BY <1>1, Zenon
  <2>2. FoldLeft(Reply, b, t) = (CHOOSE g : P(g))[D]
    BY Zenon DEF FoldLeft, MapThenFoldSet
  <2>3. DoesAll("reply", b, t) = (CHOOSE g : Q(g))[D]
    BY Zenon DEF FoldLeft, MapThenFoldSet, DoesAll
  <2> HIDE DEF P, Q
  <2>4. (CHOOSE g : P(g)) = (CHOOSE g : Q(g))
    BY <2>1, Zenon
  <2> QED
    BY <2>2, <2>3, <2>4
<1>3. DoesAsks("reply", X, Y, b, s)
  BY <1>1 DEF ReplyAsks, DoesAsks
<1>4. DoesGives("reply", X, b, s, a)
  BY <1>3, DoesAppends
<1> QED
  BY <1>1, <1>2, <1>4 DEF DoesGives, ReplyGives

TakeBlockAsks(X, Y, b, s) ==
  b \in X /\ s \in Seq(Y) /\ \A x \in X, y \in Y : TakeBlock(x, y) \in X
TakeBlockGives(X, b, s, a) ==
  /\ FoldLeft(TakeBlock, b, <<>>) = b
  /\ FoldLeft(TakeBlock, b, s) \in X
  /\ FoldLeft(TakeBlock, b, Append(s, a)) = TakeBlock(FoldLeft(TakeBlock, b, s), a)

(* The fold of TakeBlock.                                                 *)
LEMMA TakeBlockAppends ==
  ASSUME NEW X, NEW Y, NEW b, NEW s, NEW a, TakeBlockAsks(X, Y, b, s)
  PROVE  TakeBlockGives(X, b, s, a)
<1>1. \A x, y : Does("takeBlock", x, y) = TakeBlock(x, y)
  BY DEF Does
<1>2. ASSUME NEW t PROVE FoldLeft(TakeBlock, b, t) = DoesAll("takeBlock", b, t)
  <2> DEFINE D == DOMAIN t
             P(g) == g = [u \in SUBSET D |-> IF u = {} THEN b ELSE TakeBlock(g[u \ {Max(u)}], t[Max(u)])]
             Q(g) == g = [u \in SUBSET D |-> IF u = {} THEN b
                                            ELSE Does("takeBlock", g[u \ {Max(u)}], t[Max(u)])]
  <2>1. \A g : P(g) <=> Q(g)
    BY <1>1, Zenon
  <2>2. FoldLeft(TakeBlock, b, t) = (CHOOSE g : P(g))[D]
    BY Zenon DEF FoldLeft, MapThenFoldSet
  <2>3. DoesAll("takeBlock", b, t) = (CHOOSE g : Q(g))[D]
    BY Zenon DEF FoldLeft, MapThenFoldSet, DoesAll
  <2> HIDE DEF P, Q
  <2>4. (CHOOSE g : P(g)) = (CHOOSE g : Q(g))
    BY <2>1, Zenon
  <2> QED
    BY <2>2, <2>3, <2>4
<1>3. DoesAsks("takeBlock", X, Y, b, s)
  BY <1>1 DEF TakeBlockAsks, DoesAsks
<1>4. DoesGives("takeBlock", X, b, s, a)
  BY <1>3, DoesAppends
<1> QED
  BY <1>1, <1>2, <1>4 DEF DoesGives, TakeBlockGives

ClaudeItemAsks(X, Y, b, s) ==
  b \in X /\ s \in Seq(Y) /\ \A x \in X, y \in Y : ClaudeItem(x, y) \in X
ClaudeItemGives(X, b, s, a) ==
  /\ FoldLeft(ClaudeItem, b, <<>>) = b
  /\ FoldLeft(ClaudeItem, b, s) \in X
  /\ FoldLeft(ClaudeItem, b, Append(s, a)) = ClaudeItem(FoldLeft(ClaudeItem, b, s), a)

(* The fold of ClaudeItem.                                                 *)
LEMMA ClaudeItemAppends ==
  ASSUME NEW X, NEW Y, NEW b, NEW s, NEW a, ClaudeItemAsks(X, Y, b, s)
  PROVE  ClaudeItemGives(X, b, s, a)
<1>1. \A x, y : Does("claudeItem", x, y) = ClaudeItem(x, y)
  BY DEF Does
<1>2. ASSUME NEW t PROVE FoldLeft(ClaudeItem, b, t) = DoesAll("claudeItem", b, t)
  <2> DEFINE D == DOMAIN t
             P(g) == g = [u \in SUBSET D |-> IF u = {} THEN b ELSE ClaudeItem(g[u \ {Max(u)}], t[Max(u)])]
             Q(g) == g = [u \in SUBSET D |-> IF u = {} THEN b
                                            ELSE Does("claudeItem", g[u \ {Max(u)}], t[Max(u)])]
  <2>1. \A g : P(g) <=> Q(g)
    BY <1>1
  <2>2. FoldLeft(ClaudeItem, b, t) = (CHOOSE g : P(g))[D]
    BY Zenon DEF FoldLeft, MapThenFoldSet
  <2>3. DoesAll("claudeItem", b, t) = (CHOOSE g : Q(g))[D]
    BY Zenon DEF FoldLeft, MapThenFoldSet, DoesAll
  <2> HIDE DEF P, Q
  <2>4. (CHOOSE g : P(g)) = (CHOOSE g : Q(g))
    BY <2>1, Zenon
  <2> QED
    BY <2>2, <2>3, <2>4
<1>3. DoesAsks("claudeItem", X, Y, b, s)
  BY <1>1 DEF ClaudeItemAsks, DoesAsks
<1>4. DoesGives("claudeItem", X, b, s, a)
  BY <1>3, DoesAppends
<1> QED
  BY <1>1, <1>2, <1>4 DEF DoesGives, ClaudeItemGives

ChatItemAsks(X, Y, b, s) ==
  b \in X /\ s \in Seq(Y) /\ \A x \in X, y \in Y : ChatItem(x, y) \in X
ChatItemGives(X, b, s, a) ==
  /\ FoldLeft(ChatItem, b, <<>>) = b
  /\ FoldLeft(ChatItem, b, s) \in X
  /\ FoldLeft(ChatItem, b, Append(s, a)) = ChatItem(FoldLeft(ChatItem, b, s), a)

(* The fold of ChatItem.                                                 *)
LEMMA ChatItemAppends ==
  ASSUME NEW X, NEW Y, NEW b, NEW s, NEW a, ChatItemAsks(X, Y, b, s)
  PROVE  ChatItemGives(X, b, s, a)
<1>1. \A x, y : Does("chatItem", x, y) = ChatItem(x, y)
  BY DEF Does
<1>2. ASSUME NEW t PROVE FoldLeft(ChatItem, b, t) = DoesAll("chatItem", b, t)
  <2> DEFINE D == DOMAIN t
             P(g) == g = [u \in SUBSET D |-> IF u = {} THEN b ELSE ChatItem(g[u \ {Max(u)}], t[Max(u)])]
             Q(g) == g = [u \in SUBSET D |-> IF u = {} THEN b
                                            ELSE Does("chatItem", g[u \ {Max(u)}], t[Max(u)])]
  <2>1. \A g : P(g) <=> Q(g)
    BY <1>1
  <2>2. FoldLeft(ChatItem, b, t) = (CHOOSE g : P(g))[D]
    BY Zenon DEF FoldLeft, MapThenFoldSet
  <2>3. DoesAll("chatItem", b, t) = (CHOOSE g : Q(g))[D]
    BY Zenon DEF FoldLeft, MapThenFoldSet, DoesAll
  <2> HIDE DEF P, Q
  <2>4. (CHOOSE g : P(g)) = (CHOOSE g : Q(g))
    BY <2>1, Zenon
  <2> QED
    BY <2>2, <2>3, <2>4
<1>3. DoesAsks("chatItem", X, Y, b, s)
  BY <1>1 DEF ChatItemAsks, DoesAsks
<1>4. DoesGives("chatItem", X, b, s, a)
  BY <1>3, DoesAppends
<1> QED
  BY <1>1, <1>2, <1>4 DEF DoesGives, ChatItemGives

ResponsesItemAsks(X, Y, b, s) ==
  b \in X /\ s \in Seq(Y) /\ \A x \in X, y \in Y : ResponsesItem(x, y) \in X
ResponsesItemGives(X, b, s, a) ==
  /\ FoldLeft(ResponsesItem, b, <<>>) = b
  /\ FoldLeft(ResponsesItem, b, s) \in X
  /\ FoldLeft(ResponsesItem, b, Append(s, a)) = ResponsesItem(FoldLeft(ResponsesItem, b, s), a)

(* The fold of ResponsesItem.                                                 *)
LEMMA ResponsesItemAppends ==
  ASSUME NEW X, NEW Y, NEW b, NEW s, NEW a, ResponsesItemAsks(X, Y, b, s)
  PROVE  ResponsesItemGives(X, b, s, a)
<1>1. \A x, y : Does("responsesItem", x, y) = ResponsesItem(x, y)
  BY DEF Does
<1>2. ASSUME NEW t PROVE FoldLeft(ResponsesItem, b, t) = DoesAll("responsesItem", b, t)
  <2> DEFINE D == DOMAIN t
             P(g) == g = [u \in SUBSET D |-> IF u = {} THEN b ELSE ResponsesItem(g[u \ {Max(u)}], t[Max(u)])]
             Q(g) == g = [u \in SUBSET D |-> IF u = {} THEN b
                                            ELSE Does("responsesItem", g[u \ {Max(u)}], t[Max(u)])]
  <2>1. \A g : P(g) <=> Q(g)
    BY <1>1
  <2>2. FoldLeft(ResponsesItem, b, t) = (CHOOSE g : P(g))[D]
    BY Zenon DEF FoldLeft, MapThenFoldSet
  <2>3. DoesAll("responsesItem", b, t) = (CHOOSE g : Q(g))[D]
    BY Zenon DEF FoldLeft, MapThenFoldSet, DoesAll
  <2> HIDE DEF P, Q
  <2>4. (CHOOSE g : P(g)) = (CHOOSE g : Q(g))
    BY <2>1, Zenon
  <2> QED
    BY <2>2, <2>3, <2>4
<1>3. DoesAsks("responsesItem", X, Y, b, s)
  BY <1>1 DEF ResponsesItemAsks, DoesAsks
<1>4. DoesGives("responsesItem", X, b, s, a)
  BY <1>3, DoesAppends
<1> QED
  BY <1>1, <1>2, <1>4 DEF DoesGives, ResponsesItemGives

-----------------------------------------------------------------------------
(* A sum over a finite set takes out one summand after the other, in an    *)
(* order of its own: the order does not matter.                            *)
First(s) == CHOOSE x \in s : TRUE

Total(f) == MapThenSumSet(LAMBDA x : f[x], DOMAIN f)
SumBy(g, f, S) ==
  g = [s \in SUBSET S |-> IF s = {} THEN 0 ELSE f[First(s)] + g[s \ {First(s)}]]

(* What holds for the empty set, and for a set when it holds for the sets  *)
(* with one member less, holds for a finite set.                           *)
LEMMA SetInduction ==
  ASSUME NEW S, IsFiniteSet(S), NEW G, {} \in G,
         \A s \in SUBSET S : (\A x \in s : s \ {x} \in G) => s \in G
  PROVE  S \in G
<1> DEFINE Good == {n \in Nat : \A s \in SUBSET S : Cardinality(s) <= n => s \in G}
<1>1. \A s \in SUBSET S : IsFiniteSet(s) /\ Cardinality(s) \in Nat
  BY FS_Subset, FS_CardinalityType
<1>2. 0 \in Good
  <2>1. \A s \in SUBSET S : Cardinality(s) <= 0 => s = {}
    BY <1>1, FS_EmptySet
  <2> QED
    BY <2>1
<1>3. ASSUME NEW n \in Nat, n \in Good PROVE n + 1 \in Good
  <2> SUFFICES ASSUME NEW s \in SUBSET S, Cardinality(s) <= n + 1, NEW x \in s PROVE s \ {x} \in G
    OBVIOUS
  <2>1. Cardinality(s \ {x}) = Cardinality(s) - 1
    BY <1>1, OneLess
  <2>2. Cardinality(s \ {x}) <= n
    BY <1>1, <2>1
  <2> QED
    BY <1>3, <2>2
<1> HIDE DEF Good
<1>4. Cardinality(S) \in Good
  BY <1>1, <1>2, <1>3, Induction
<1> QED
  BY <1>1, <1>4 DEF Good

(* There is a function that sums f over the subsets of a finite set.       *)
LEMMA SumExists ==
  ASSUME NEW S, IsFiniteSet(S), NEW f \in [S -> Int]
  PROVE  \E g \in [SUBSET S -> Int] : SumBy(g, f, S)
<1> DEFINE ch == [s \in SUBSET S |-> First(s)]
           h == [p \in Int \X S |-> f[p[2]] + p[1]]
<1>1. h \in [Int \X S -> Int]
  OBVIOUS
<1>2. \A s \in SUBSET S : s # {} => First(s) \in s /\ ch[s] = First(s)
  BY DEF First
<1> HIDE DEF ch
<1>3. PICK g \in [SUBSET S -> Int] : Folded(g, S, 0, ch, h)
  <2> DEFINE X == Int
  <2>1. h \in [X \X S -> X] /\ 0 \in X
    BY <1>1
  <2>3. \A s \in SUBSET S : s # {} => ch[s] \in s
    BY <1>2
  <2> HIDE DEF h, X
  <2>2. \E g \in [SUBSET S -> X] : Folded(g, S, 0, ch, h)
    BY <2>1, <2>3, FoldExists
  <2> QED
    BY <2>2 DEF X
<1>4. ASSUME NEW s \in SUBSET S
      PROVE  g[s] = IF s = {} THEN 0 ELSE f[First(s)] + g[s \ {First(s)}]
  <2>1. CASE s = {}
    BY <1>3, <2>1 DEF Folded
  <2>2. CASE s # {}
    <3>1. First(s) \in S /\ ch[s] = First(s) /\ g[s \ {First(s)}] \in Int
      BY <1>2, <1>3, <2>2
    <3>2. g[s] = h[<<g[s \ {First(s)}], First(s)>>]
      BY <1>3, <2>2, <3>1 DEF Folded
    <3> QED
      BY <2>2, <3>1, <3>2
  <2> QED
    BY <2>1, <2>2
<1>5. g = [s \in SUBSET S |-> g[s]]
  BY <1>3
<1>6. SumBy(g, f, S)
  BY <1>4, <1>5 DEF SumBy
<1> QED
  BY <1>3, <1>6

(* It may take out any summand first.                                      *)
LEMMA SumTakes ==
  ASSUME NEW S, IsFiniteSet(S), NEW f \in [S -> Int], NEW g \in [SUBSET S -> Int], SumBy(g, f, S)
  PROVE  \A a \in S : g[S] = f[a] + g[S \ {a}]
<1> DEFINE G == {s \in SUBSET S : \A a \in s : g[s] = f[a] + g[s \ {a}]}
<1>1. {} \in G
  OBVIOUS
<1>2. ASSUME NEW s \in SUBSET S, \A x \in s : s \ {x} \in G PROVE s \in G
  <2> SUFFICES ASSUME NEW a \in s PROVE g[s] = f[a] + g[s \ {a}]
    OBVIOUS
  <2> DEFINE x == First(s)
  <2>1. x \in s
    BY DEF First
  <2>2. g[s] = f[x] + g[s \ {x}]
    BY DEF SumBy
  <2> HIDE DEF x
  <2>3. CASE x = a
    BY <2>2, <2>3
  <2>4. CASE x # a
    <3>1. g[s \ {x}] = f[a] + g[(s \ {x}) \ {a}]
      BY <1>2, <2>1, <2>4
    <3>2. g[s \ {a}] = f[x] + g[(s \ {a}) \ {x}]
      BY <1>2, <2>1, <2>4
    <3>3. (s \ {x}) \ {a} = (s \ {a}) \ {x} /\ (s \ {x}) \ {a} \in SUBSET S
      OBVIOUS
    <3>4. f[a] \in Int /\ f[x] \in Int /\ g[(s \ {x}) \ {a}] \in Int
      BY <2>1, <3>3
    <3> DEFINE fa == f[a]
               fx == f[x]
               r == g[(s \ {x}) \ {a}]
    <3>5. g[s] = fx + (fa + r) /\ g[s \ {a}] = fx + r
      BY <2>2, <3>1, <3>2, <3>3
    <3>6. fa \in Int /\ fx \in Int /\ r \in Int
      BY <3>4
    <3> HIDE DEF G, fa, fx, r
    <3>7. fx + (fa + r) = fa + (fx + r)
      BY <3>6
    <3>8. g[s] = fa + g[s \ {a}]
      BY <3>5, <3>7
    <3> QED
      BY <3>8 DEF fa
  <2> QED
    BY <2>3, <2>4
<1> HIDE DEF G
<1>3. S \in G
  BY <1>1, <1>2, SetInduction
<1> QED
  BY <1>3 DEF G

(* Total is the value of any such function.                                *)
LEMMA TotalIs ==
  ASSUME NEW S, IsFiniteSet(S), NEW f \in [S -> Int], NEW g, SumBy(g, f, S), NEW T \in SUBSET S
  PROVE  Total([x \in T |-> f[x]]) = g[T]
<1> DEFINE h == [x \in T |-> f[x]]
           IsSum(e) == e = [s \in SUBSET T |-> IF s = {} THEN 0 ELSE h[First(s)] + e[s \ {First(s)}]]
           e == CHOOSE e : IsSum(e)
           d == [s \in SUBSET T |-> g[s]]
<1>1. \A s \in SUBSET T : s # {} => First(s) \in s /\ h[First(s)] = f[First(s)]
  BY DEF First
<1>2. IsSum(d)
  BY <1>1 DEF SumBy
<1>3. IsSum(e)
  <2> HIDE DEF IsSum, d
  <2> QED
    BY <1>2
<1>4. Total(h) = e[T]
  <2>1. DOMAIN h = T
    OBVIOUS
  <2> HIDE DEF h
  <2>2. Total(h) = MapThenSumSet(LAMBDA x : h[x], T)
    BY <2>1 DEF Total
  <2>3. MapThenSumSet(LAMBDA x : h[x], T) = e[T]
    BY Zenon DEF MapThenSumSet, MapThenFoldSet, First
  <2> QED
    BY <2>2, <2>3
<1> HIDE DEF e, d
<1> DEFINE G == {s \in SUBSET T : e[s] = g[s]}
<1>5. {} \in G
  BY <1>3 DEF SumBy
<1>6. ASSUME NEW s \in SUBSET T, \A x \in s : s \ {x} \in G PROVE s \in G
  <2>1. CASE s = {}
    BY <1>5, <2>1
  <2>2. CASE s # {}
    <3>1. First(s) \in s /\ h[First(s)] = f[First(s)]
      BY <1>1, <2>2
    <3>2. e[s \ {First(s)}] = g[s \ {First(s)}]
      BY <1>6, <3>1
    <3>3. e[s] = h[First(s)] + e[s \ {First(s)}]
      BY <1>3, <2>2
    <3>4. g[s] = f[First(s)] + g[s \ {First(s)}]
      BY <2>2 DEF SumBy
    <3> QED
      BY <3>1, <3>2, <3>3, <3>4
  <2> QED
    BY <2>1, <2>2
<1> HIDE DEF G, h
<1>7. T \in G
  <2>1. IsFiniteSet(T)
    BY FS_Subset
  <2> QED
    BY <1>5, <1>6, <2>1, SetInduction
<1> QED
  BY <1>4, <1>7 DEF G, h

(* A total is one summand and the total of the rest, and a number.         *)
LEMMA TotalTakes ==
  ASSUME NEW S, IsFiniteSet(S), NEW f \in [S -> Int]
  PROVE  /\ Total(f) \in Int /\ (S = {} => Total(f) = 0)
         /\ \A a \in S : Total(f) = f[a] + Total([x \in S \ {a} |-> f[x]])
<1>1. PICK g \in [SUBSET S -> Int] : SumBy(g, f, S)
  BY SumExists
<1>2. f = [x \in S |-> f[x]] /\ S \in SUBSET S
  OBVIOUS
<1>3. Total(f) = g[S]
  BY <1>1, <1>2, TotalIs
<1>4. \A a \in S : Total([x \in S \ {a} |-> f[x]]) = g[S \ {a}]
  BY <1>1, TotalIs
<1>5. \A a \in S : g[S] = f[a] + g[S \ {a}]
  <2> DEFINE X == [S -> Int]
             Y == [SUBSET S -> Int]
  <2>1. f \in X /\ g \in Y /\ SumBy(g, f, S)
    BY <1>1
  <2>2. \A x \in X, y \in Y : SumBy(y, x, S) => \A a \in S : y[S] = x[a] + y[S \ {a}]
    BY SumTakes
  <2> HIDE DEF X, Y
  <2> QED
    BY <2>1, <2>2
<1>6. S = {} => g[S] = 0
  BY <1>1 DEF SumBy
<1> QED
  BY <1>1, <1>2, <1>3, <1>4, <1>5, <1>6

(* One summand more.                                                       *)
LEMMA TotalAdds ==
  ASSUME NEW S, IsFiniteSet(S), NEW f \in [S -> Int], NEW a, a \notin S,
         NEW g \in [S \cup {a} -> Int], \A x \in S : g[x] = f[x]
  PROVE  Total(g) = Total(f) + g[a]
<1>1. (S \cup {a}) \ {a} = S /\ f = [x \in S |-> g[x]]
  OBVIOUS
<1>2. IsFiniteSet(S \cup {a})
  BY FS_AddElement
<1>3. Total(g) = g[a] + Total(f)
  BY <1>1, <1>2, TotalTakes
<1> QED
  BY <1>3, TotalTakes

(* One summand grown.                                                      *)
LEMMA TotalGrows ==
  ASSUME NEW S, IsFiniteSet(S), NEW f \in [S -> Int], NEW a \in S, NEW n \in Int,
         NEW g \in [S -> Int], g[a] = f[a] + n, \A x \in S : x # a => g[x] = f[x]
  PROVE  Total(g) = Total(f) + n
<1> DEFINE r == [x \in S \ {a} |-> f[x]]
<1>1. r = [x \in S \ {a} |-> g[x]] /\ r \in [S \ {a} -> Int] /\ IsFiniteSet(S \ {a})
  BY FS_RemoveElement
<1>2. Total(f) = f[a] + Total(r)
  BY TotalTakes
<1>3. Total(g) = g[a] + Total([x \in S \ {a} |-> g[x]])
  BY TotalTakes
<1> HIDE DEF r
<1>4. Total(r) \in Int
  BY <1>1, TotalTakes
<1> QED
  BY <1>1, <1>2, <1>3, <1>4

-----------------------------------------------------------------------------
(* What goes to the client, and what it makes of it.                       *)
BlockKinds == {"", "text", "think", "tool"}
Mistakes   == {"late", "unstarted", "restart", "reuse", "stray", "dangling"}

Outs    == [type : {"start", "open", "delta", "close", "end", "error"}, at : Nat,
            kind : BlockKinds, id : Nat, n : Int]
Blocks  == [kind : BlockKinds, id : Nat, open : BOOLEAN, n : Int]
Shelves == UNION {[D -> Blocks] : D \in SUBSET Nat}
Clients == [begun : BOOLEAN, ended : BOOLEAN, failed : BOOLEAN, blocks : Shelves,
            wrong : SUBSET Mistakes]

(* The mistakes of an event, one by one.                                   *)
LEMMA WrongIs ==
  ASSUME NEW k, NEW e
  PROVE  /\ Wrong(k, e) \subseteq Mistakes
         /\ "late" \in Wrong(k, e) <=> k.ended
         /\ "unstarted" \in Wrong(k, e) <=> ~k.begun /\ e.type \notin {"start", "error"}
         /\ "restart" \in Wrong(k, e) <=> k.begun /\ e.type = "start"
         /\ "reuse" \in Wrong(k, e) <=> e.type = "open" /\ e.at \in DOMAIN k.blocks
         /\ "stray" \in Wrong(k, e) <=>
              /\ e.type \in {"delta", "close"}
              /\ IF e.at \in DOMAIN k.blocks THEN ~k.blocks[e.at].open ELSE TRUE
         /\ "dangling" \in Wrong(k, e) <=>
              e.type = "end" /\ \E at \in DOMAIN k.blocks : k.blocks[at].open
BY DEF Wrong, Mistakes

(* A shelf is a function from some naturals to blocks.                     *)
LEMMA ShelfIs ==
  ASSUME NEW s
  PROVE  s \in Shelves <=> /\ s = [at \in DOMAIN s |-> s[at]] /\ DOMAIN s \subseteq Nat
                           /\ \A at \in DOMAIN s : s[at] \in Blocks
<1>1. s \in Shelves => /\ s = [at \in DOMAIN s |-> s[at]] /\ DOMAIN s \subseteq Nat
                       /\ \A at \in DOMAIN s : s[at] \in Blocks
  BY DEF Shelves
<1>2. ASSUME s = [at \in DOMAIN s |-> s[at]], DOMAIN s \subseteq Nat, \A at \in DOMAIN s : s[at] \in Blocks
      PROVE  s \in Shelves
  <2>1. s \in [DOMAIN s -> Blocks]
    BY <1>2
  <2> QED
    BY <1>2, <2>1 DEF Shelves
<1> QED
  BY <1>1, <1>2

(* A client that has understood an event is a client.                      *)
LEMMA UnderstandsType ==
  ASSUME NEW k \in Clients, NEW e \in Outs
  PROVE  Understands(k, e) \in Clients
<1> DEFINE m == [k EXCEPT !.wrong = @ \cup Wrong(k, e)]
<1>1. k.wrong \cup Wrong(k, e) \in SUBSET Mistakes
  BY WrongIs DEF Clients
<1>2. m \in Clients /\ m.blocks = k.blocks
  BY <1>1 DEF Clients
<1> HIDE DEF m
<1>3. /\ m.blocks \in Shelves /\ DOMAIN m.blocks \subseteq Nat
      /\ m.blocks = [at \in DOMAIN m.blocks |-> m.blocks[at]]
      /\ \A at \in DOMAIN m.blocks : m.blocks[at] \in Blocks
  BY <1>2, ShelfIs DEF Clients
<1>4. ASSUME NEW s \in Shelves PROVE [m EXCEPT !.blocks = s] \in Clients
  BY <1>2 DEF Clients
<1>5. CASE e.type = "start"
  BY <1>2, <1>5 DEF Understands, Clients, m
<1>6. CASE e.type = "open"
  <2> DEFINE s == [at \in DOMAIN m.blocks \cup {e.at} |->
                     IF at = e.at THEN [kind |-> e.kind, id |-> e.id, open |-> TRUE, n |-> 0]
                     ELSE m.blocks[at]]
  <2>1. [kind |-> e.kind, id |-> e.id, open |-> TRUE, n |-> 0] \in Blocks /\ e.at \in Nat
    BY DEF Outs, Blocks
  <2>2. s \in Shelves
    <3>1. s = [at \in DOMAIN s |-> s[at]] /\ DOMAIN s = DOMAIN m.blocks \cup {e.at}
      OBVIOUS
    <3>2. \A at \in DOMAIN s : s[at] \in Blocks
      BY <1>3, <2>1
    <3>3. DOMAIN s \subseteq Nat
      BY <1>3, <2>1, <3>1
    <3> HIDE DEF s
    <3> QED
      BY <3>1, <3>2, <3>3, ShelfIs
  <2>3. Understands(k, e) = [m EXCEPT !.blocks = s]
    BY <1>6 DEF Understands, m
  <2> HIDE DEF s
  <2> QED
    BY <1>4, <2>2, <2>3
<1>7. CASE e.type = "delta"
  <2>1. CASE e.at \in DOMAIN m.blocks
    <3> DEFINE b == [m.blocks[e.at] EXCEPT !.n = @ + e.n]
               s == [m.blocks EXCEPT ![e.at] = b]
    <3>0. b \in Blocks
      <4>1. m.blocks[e.at] \in Blocks /\ e.n \in Int
        BY <1>3, <2>1 DEF Outs
      <4>2. m.blocks[e.at].n + e.n \in Int
        BY <4>1 DEF Blocks
      <4> QED
        BY <4>1, <4>2 DEF Blocks
    <3> HIDE DEF b
    <3>1. s \in Shelves
      <4>1. DOMAIN s = DOMAIN m.blocks /\ \A at \in DOMAIN s : s[at] \in Blocks
        BY <1>3, <2>1, <3>0
      <4>2. s = [at \in DOMAIN s |-> s[at]]
        OBVIOUS
      <4> HIDE DEF s
      <4> QED
        BY <1>3, <4>1, <4>2, ShelfIs
    <3> USE DEF b
    <3>2. Understands(k, e) = [m EXCEPT !.blocks = s]
      BY <1>2, <1>7, <2>1 DEF Understands, m
    <3> HIDE DEF s
    <3> QED
      BY <1>4, <3>1, <3>2
  <2>2. CASE e.at \notin DOMAIN m.blocks
    BY <1>2, <1>7, <2>2 DEF Understands, m
  <2> QED
    BY <2>1, <2>2
<1>8. CASE e.type = "close"
  <2>1. CASE e.at \in DOMAIN m.blocks
    <3> DEFINE s == [m.blocks EXCEPT ![e.at].open = FALSE]
    <3>0. [m.blocks[e.at] EXCEPT !.open = FALSE] \in Blocks
      <4>1. m.blocks[e.at] \in Blocks
        BY <1>3, <2>1
      <4> QED
        BY <4>1 DEF Blocks
    <3>1. s \in Shelves
      <4>1. DOMAIN s = DOMAIN m.blocks /\ \A at \in DOMAIN s : s[at] \in Blocks
        BY <1>3, <2>1, <3>0
      <4>2. s = [at \in DOMAIN s |-> s[at]]
        OBVIOUS
      <4> HIDE DEF s
      <4> QED
        BY <1>3, <4>1, <4>2, ShelfIs
    <3>2. Understands(k, e) = [m EXCEPT !.blocks = s]
      BY <1>2, <1>8, <2>1 DEF Understands, m
    <3> HIDE DEF s
    <3> QED
      BY <1>4, <3>1, <3>2
  <2>2. CASE e.at \notin DOMAIN m.blocks
    BY <1>2, <1>8, <2>2 DEF Understands, m
  <2> QED
    BY <2>1, <2>2
<1>9. CASE e.type \in {"end", "error"}
  <2>1. Understands(k, e) = [m EXCEPT !.ended = TRUE, !.failed = (e.type = "error")]
    BY <1>9 DEF Understands, m
  <2>2. (e.type = "error") \in BOOLEAN
    OBVIOUS
  <2> QED
    BY <1>2, <2>1, <2>2 DEF Clients
<1> QED
  BY <1>5, <1>6, <1>7, <1>8, <1>9 DEF Outs

(* The client reads what it is sent event by event.                        *)
Read(k, s) == FoldLeft(Understands, k, s)

(* A client reads nothing as nothing, and one event after the other.       *)
LEMMA Reads ==
  ASSUME NEW k \in Clients, NEW s \in Seq(Outs), NEW e \in Outs
  PROVE  /\ Read(k, <<>>) = k
         /\ Read(k, s) \in Clients
         /\ Read(k, Append(s, e)) = Understands(Read(k, s), e)
<1>1. UnderstandsAsks(Clients, Outs, k, s)
  BY UnderstandsType DEF UnderstandsAsks
<1>2. UnderstandsGives(Clients, k, s, e)
  BY <1>1, UnderstandsAppends
<1> QED
  BY <1>2 DEF UnderstandsGives, Read

(* What reads what it is sent is a client.                                 *)
LEMMA ReadIs ==
  ASSUME NEW k \in Clients, NEW s \in Seq(Outs)
  PROVE  Read(k, s) \in Clients
<1>1. PICK e : e \in Outs
  <2>1. 0 \in Nat /\ 0 \in Int
    OBVIOUS
  <2>2. [type |-> "start", at |-> 0, kind |-> "", id |-> 0, n |-> 0] \in Outs
    BY <2>1 DEF Outs, BlockKinds
  <2> QED
    BY <2>2
<1> QED
  BY <1>1, Reads

-----------------------------------------------------------------------------
(* What a client has collected: text, thinking, and the calls by block.    *)
OfKind(k, kind) == {at \in DOMAIN k.blocks : k.blocks[at].kind = kind}
Amount(k, kind) == Total([at \in OfKind(k, kind) |-> k.blocks[at].n])
Called(k)       == [at \in OfKind(k, "tool") |-> [id |-> k.blocks[at].id, n |-> k.blocks[at].n]]

Extended(f, a, v) == [x \in DOMAIN f \cup {a} |-> IF x = a THEN v ELSE f[x]]

(* The blocks in B of j hold what those of k hold.                         *)
SameWords(j, k, B) ==
  \A at \in B : /\ j.blocks[at].kind = k.blocks[at].kind
                /\ j.blocks[at].id = k.blocks[at].id /\ j.blocks[at].n = k.blocks[at].n

Tally(k) == [text |-> Amount(k, "text"), think |-> Amount(k, "think"), called |-> Called(k)]
More(t, kind, n) == [t EXCEPT !.text  = IF kind = "text" THEN @ + n ELSE @,
                              !.think = IF kind = "think" THEN @ + n ELSE @]
Calling(t, at, id, n) == [t EXCEPT !.called = Extended(@, at, [id |-> id, n |-> n])]

(* The amounts of a shelf are over finite sets of integers.                *)
LEMMA AmountIs ==
  ASSUME NEW k \in Clients, IsFiniteSet(DOMAIN k.blocks), NEW kind
  PROVE  /\ IsFiniteSet(OfKind(k, kind)) /\ Amount(k, kind) \in Int
         /\ [at \in OfKind(k, kind) |-> k.blocks[at].n] \in [OfKind(k, kind) -> Int]
<1>1. IsFiniteSet(OfKind(k, kind))
  <2>1. OfKind(k, kind) \subseteq DOMAIN k.blocks
    BY DEF OfKind
  <2> QED
    BY <2>1, FS_Subset
<1>2. \A at \in DOMAIN k.blocks : k.blocks[at].n \in Int
  <2>1. k.blocks \in Shelves
    BY DEF Clients
  <2>2. \A at \in DOMAIN k.blocks : k.blocks[at] \in Blocks
    BY <2>1, ShelfIs
  <2> QED
    BY <2>2 DEF Blocks
<1> DEFINE S == OfKind(k, kind)
           f == [at \in S |-> k.blocks[at].n]
<1>3. f \in [S -> Int]
  BY <1>2 DEF OfKind
<1>4. Total(f) \in Int
  <2> HIDE DEF f, S
  <2>1. IsFiniteSet(S)
    BY <1>1 DEF S
  <2> QED
    BY <1>3, <2>1, TotalTakes
<1> QED
  BY <1>1, <1>3, <1>4 DEF Amount

(* The same blocks, holding the same: the same tally.                      *)
LEMMA TallyStays ==
  ASSUME NEW j, NEW k, DOMAIN j.blocks = DOMAIN k.blocks, SameWords(j, k, DOMAIN k.blocks)
  PROVE  Tally(j) = Tally(k)
<1>1. ASSUME NEW kind
      PROVE  /\ OfKind(j, kind) = OfKind(k, kind)
             /\ [at \in OfKind(j, kind) |-> j.blocks[at].n] = [at \in OfKind(k, kind) |-> k.blocks[at].n]
  BY DEF OfKind, SameWords
<1>2. Called(j) = Called(k)
  BY <1>1 DEF Called, OfKind, SameWords
<1>3. \A kind : Amount(j, kind) = Amount(k, kind)
  BY <1>1 DEF Amount
<1> QED
  BY <1>2, <1>3 DEF Tally

LEMMA TallyOfBlocks ==
  ASSUME NEW j, NEW k, j.blocks = k.blocks
  PROVE  Tally(j) = Tally(k)
BY TallyStays DEF SameWords

(* A new block, which holds nothing yet.                                   *)
LEMMA TallyOpens ==
  ASSUME NEW k \in Clients, IsFiniteSet(DOMAIN k.blocks), NEW j \in Clients, NEW at, NEW id,
         NEW kind \in {"text", "think", "tool"}, at \notin DOMAIN k.blocks,
         DOMAIN j.blocks = DOMAIN k.blocks \cup {at}, SameWords(j, k, DOMAIN k.blocks),
         j.blocks[at].kind = kind, j.blocks[at].id = id, j.blocks[at].n = 0
  PROVE  Tally(j) = IF kind = "tool" THEN Calling(Tally(k), at, id, 0) ELSE Tally(k)
<1> DEFINE F(c, x) == [a \in OfKind(c, x) |-> c.blocks[a].n]
<1>1. \A x : OfKind(j, x) = IF x = kind THEN OfKind(k, x) \cup {at} ELSE OfKind(k, x)
  BY DEF OfKind, SameWords
<1>2. \A x : at \notin OfKind(k, x) /\ \A a \in OfKind(k, x) : j.blocks[a].n = k.blocks[a].n
                                                             /\ j.blocks[a].id = k.blocks[a].id
  BY DEF OfKind, SameWords
<1>3. ASSUME NEW x PROVE Amount(j, x) = Amount(k, x)
  <2>1. CASE x # kind
    <3>1. F(j, x) = F(k, x)
      BY <1>1, <1>2, <2>1
    <3> QED
      BY <3>1 DEF Amount
  <2>2. CASE x = kind
    <3> DEFINE S == OfKind(k, x)
               f == F(k, x)
               g == F(j, x)
    <3>0. DOMAIN j.blocks = DOMAIN k.blocks \cup {at} /\ IsFiniteSet(DOMAIN j.blocks)
      BY FS_AddElement
    <3>1. /\ IsFiniteSet(S) /\ f \in [S -> Int] /\ at \notin S /\ g \in [S \cup {at} -> Int]
      <4>1. IsFiniteSet(S) /\ f \in [S -> Int]
        BY AmountIs
      <4>2. g \in [OfKind(j, x) -> Int]
        BY <3>0, AmountIs
      <4> QED
        BY <1>1, <1>2, <2>2, <4>1, <4>2
    <3>2. g[at] = 0 /\ \A a \in S : g[a] = f[a]
      <4>1. at \in OfKind(j, x)
        BY <1>1, <2>2
      <4>2. \A a \in S : a \in OfKind(j, x)
        BY <1>1, <2>2
      <4> QED
        BY <1>2, <4>1, <4>2
    <3> HIDE DEF S, f, g
    <3>3. Total(g) = Total(f) + 0
      BY <3>1, <3>2, TotalAdds
    <3>4. Total(f) \in Int
      BY <3>1, TotalTakes
    <3>5. Total(g) = Total(f)
      BY <3>3, <3>4
    <3> QED
      BY <3>5 DEF Amount, f, g
  <2> QED
    BY <2>1, <2>2
<1>4. CASE kind = "tool"
  <2>1. OfKind(j, "tool") = DOMAIN Called(k) \cup {at} /\ DOMAIN Called(k) = OfKind(k, "tool")
    BY <1>1, <1>4 DEF Called
  <2>2. ASSUME NEW a \in OfKind(j, "tool")
        PROVE  [id |-> j.blocks[a].id, n |-> j.blocks[a].n]
                 = IF a = at THEN [id |-> id, n |-> 0] ELSE Called(k)[a]
    <3>1. CASE a = at
      BY <3>1
    <3>2. CASE a # at
      <4>1. a \in OfKind(k, "tool")
        BY <2>1, <3>2
      <4> QED
        BY <1>2, <3>2, <4>1 DEF Called
    <3> QED
      BY <3>1, <3>2
  <2>3. Called(j) = Extended(Called(k), at, [id |-> id, n |-> 0])
    BY <2>1, <2>2 DEF Called, Extended
  <2> QED
    BY <1>3, <1>4, <2>3 DEF Tally, Calling
<1>5. CASE kind # "tool"
  <2>1. Called(j) = Called(k)
    BY <1>1, <1>2, <1>5 DEF Called
  <2> QED
    BY <1>3, <1>5, <2>1 DEF Tally
<1> QED
  BY <1>4, <1>5

(* A call that is known and grows is known with what it has grown to.      *)
LEMMA CallGrows ==
  ASSUME NEW k, NEW at, NEW id, NEW n \in Int
  PROVE  LET t == Calling(Tally(k), at, id, 0)
         IN  Calling(t, at, t.called[at].id, t.called[at].n + n) = Calling(Tally(k), at, id, n)
<1> DEFINE f == Called(k)
           g == Extended(f, at, [id |-> id, n |-> 0])
           t == Calling(Tally(k), at, id, 0)
<1>1. g[at].id = id /\ g[at].n + n = n
  BY DEF Extended
<1>2. Extended(g, at, [id |-> id, n |-> n]) = Extended(f, at, [id |-> id, n |-> n])
  BY DEF Extended
<1> HIDE DEF f, g
<1>3. t = [text |-> Amount(k, "text"), think |-> Amount(k, "think"), called |-> g]
  BY DEF Calling, Tally, f, g
<1> HIDE DEF t
<1>4. Calling(t, at, id, n) = [t EXCEPT !.called = Extended(g, at, [id |-> id, n |-> n])]
  BY <1>3 DEF Calling
<1>5. Calling(Tally(k), at, id, n) = [t EXCEPT !.called = Extended(f, at, [id |-> id, n |-> n])]
  BY <1>3 DEF Calling, Tally, f
<1>6. t.called[at].id = id /\ t.called[at].n + n = n
  BY <1>1, <1>3
<1> QED
  BY <1>2, <1>4, <1>5, <1>6 DEF t

(* A block grown by n.                                                     *)
LEMMA TallyGrows ==
  ASSUME NEW k \in Clients, IsFiniteSet(DOMAIN k.blocks), NEW j \in Clients, NEW n \in Int,
         NEW at \in DOMAIN k.blocks, NEW kind,
         DOMAIN j.blocks = DOMAIN k.blocks, SameWords(j, k, DOMAIN k.blocks \ {at}),
         k.blocks[at].kind = kind, j.blocks[at].kind = kind,
         j.blocks[at].id = k.blocks[at].id, j.blocks[at].n = k.blocks[at].n + n
  PROVE  Tally(j) = IF kind = "tool" THEN Calling(Tally(k), at, k.blocks[at].id, k.blocks[at].n + n)
                    ELSE More(Tally(k), kind, n)
<1> DEFINE F(c, x) == [a \in OfKind(c, x) |-> c.blocks[a].n]
<1>1. \A x : OfKind(j, x) = OfKind(k, x) /\ (at \in OfKind(k, x) <=> x = kind)
  BY DEF OfKind, SameWords
<1>2. \A x : \A a \in OfKind(k, x) : a # at => j.blocks[a].n = k.blocks[a].n /\ j.blocks[a].id = k.blocks[a].id
  BY DEF OfKind, SameWords
<1>3. ASSUME NEW x PROVE Amount(j, x) = Amount(k, x) + (IF x = kind THEN n ELSE 0)
  <2>0. Amount(k, x) \in Int
    BY AmountIs
  <2>1. CASE x # kind
    <3>1. F(j, x) = F(k, x)
      BY <1>1, <1>2, <2>1
    <3>2. Amount(j, x) = Amount(k, x)
      BY <3>1 DEF Amount
    <3> QED
      BY <2>0, <2>1, <3>2
  <2>2. CASE x = kind
    <3> DEFINE S == OfKind(k, x)
               f == F(k, x)
               g == F(j, x)
    <3>1. IsFiniteSet(S) /\ f \in [S -> Int] /\ g \in [S -> Int]
      <4>1. IsFiniteSet(S) /\ f \in [S -> Int]
        BY AmountIs
      <4>2. g \in [OfKind(j, x) -> Int]
        BY AmountIs
      <4> QED
        BY <1>1, <4>1, <4>2
    <3>2. at \in S /\ g[at] = f[at] + n /\ \A a \in S : a # at => g[a] = f[a]
      <4>1. at \in S /\ \A a \in S : a \in OfKind(j, x)
        BY <1>1, <2>2
      <4> QED
        BY <1>2, <4>1
    <3> HIDE DEF S, f, g
    <3>3. Total(g) = Total(f) + n
      BY <3>1, <3>2, TotalGrows
    <3> QED
      BY <2>2, <3>3 DEF Amount, f, g
  <2> QED
    BY <2>1, <2>2
<1>6. \A x : Amount(j, x) = IF x = kind THEN Amount(k, x) + n ELSE Amount(k, x)
  <2>1. \A x : Amount(k, x) \in Int
    BY AmountIs
  <2> QED
    BY <1>3, <2>1
<1>4. CASE kind = "tool"
  <2> DEFINE v == [id |-> k.blocks[at].id, n |-> k.blocks[at].n + n]
  <2>1. OfKind(j, "tool") = DOMAIN Called(k) \cup {at} /\ DOMAIN Called(k) = OfKind(k, "tool")
    BY <1>1, <1>4 DEF Called
  <2>2. ASSUME NEW a \in OfKind(j, "tool")
        PROVE  [id |-> j.blocks[a].id, n |-> j.blocks[a].n] = IF a = at THEN v ELSE Called(k)[a]
    <3>1. CASE a = at
      BY <3>1
    <3>2. CASE a # at
      <4>1. a \in OfKind(k, "tool")
        BY <1>1
      <4> QED
        BY <1>2, <3>2, <4>1 DEF Called
    <3> QED
      BY <3>1, <3>2
  <2> HIDE DEF v
  <2>3. Called(j) = Extended(Called(k), at, v)
    BY <2>1, <2>2 DEF Called, Extended
  <2>4. Amount(j, "text") = Amount(k, "text") /\ Amount(j, "think") = Amount(k, "think")
    BY <1>4, <1>6
  <2> QED
    BY <1>4, <2>3, <2>4 DEF v, Tally, Calling
<1>5. CASE kind # "tool"
  <2>1. Called(j) = Called(k)
    BY <1>1, <1>2, <1>5 DEF Called
  <2>2. /\ Amount(j, "text") = IF kind = "text" THEN Amount(k, "text") + n ELSE Amount(k, "text")
        /\ Amount(j, "think") = IF kind = "think" THEN Amount(k, "think") + n ELSE Amount(k, "think")
    BY <1>6
  <2> QED
    BY <1>5, <2>1, <2>2 DEF Tally, More
<1> QED
  BY <1>4, <1>5

-----------------------------------------------------------------------------
(* The converter.                                                          *)
Handles    == [at : Nat, kind : {"text", "think", "tool"}]
Converters == [started : BOOLEAN, finished : BOOLEAN, open : SUBSET Handles, next : Nat,
               tools : [CallIds -> Int], held : Nat, out : Seq(Outs)]

(* What a client k makes of it fits the converter's own state: the client  *)
(* knows the blocks the converter has opened, and has as open those that   *)
(* the converter has open.                                                 *)
Tied(c, k) ==
  /\ k.begun <=> c.started
  /\ ~k.ended /\ k.wrong = {}
  /\ DOMAIN k.blocks = 0..(c.next - 1)
  /\ \A at \in DOMAIN k.blocks : k.blocks[at].open <=> \E b \in c.open : b.at = at
  /\ \A b \in c.open : b.at < c.next /\ (path.entry = "responses" => b.kind # "think")
  /\ \A b, d \in c.open : b.at = d.at => b = d
  /\ \A b \in c.open : k.blocks[b.at].kind = b.kind
  /\ ~c.started => c.open = {} /\ c.held = 0
  /\ IsFiniteSet(c.open)

Sound(k0, c) == c \in Converters /\ Tied(c, Read(k0, c.out))

(* What the client has collected when it has read what c has written.      *)
TallyOf(k0, c) == Tally(Read(k0, c.out))

(* Then the client is one, with finitely many blocks, those open among     *)
(* them.                                                                   *)
LEMMA SoundIs ==
  ASSUME NEW k0 \in Clients, NEW c, Sound(k0, c)
  PROVE  LET k == Read(k0, c.out)
         IN  /\ k \in Clients /\ c.next \in Nat /\ IsFiniteSet(DOMAIN k.blocks)
             /\ DOMAIN k.blocks = 0..(c.next - 1)
             /\ \A b \in c.open : b.at \in DOMAIN k.blocks /\ k.blocks[b.at].kind = b.kind
<1> DEFINE k == Read(k0, c.out)
<1>1. c \in Converters /\ Tied(c, k) /\ c.out \in Seq(Outs) /\ c.next \in Nat
  BY DEF Sound, Converters
<1>2. k \in Clients
  BY <1>1, ReadIs
<1> HIDE DEF k
<1>3. DOMAIN k.blocks = 0..(c.next - 1)
  BY <1>1 DEF Tied
<1>4. IsFiniteSet(DOMAIN k.blocks)
  BY <1>1, <1>3, FS_Interval
<1>5. ASSUME NEW b \in c.open PROVE b.at \in DOMAIN k.blocks /\ k.blocks[b.at].kind = b.kind
  BY <1>1, <1>3 DEF Converters, Handles, Tied
<1> QED
  BY <1>1, <1>2, <1>3, <1>4, <1>5 DEF k

(* d is c but for what is open, what is next and what is written.          *)
Alike(d, c) ==
  /\ d.started = c.started /\ d.finished = c.finished
  /\ d.tools = c.tools /\ d.held = c.held

(* d has told the client e beyond what c has.                              *)
Tells(k0, d, c, e) ==
  /\ d \in Converters /\ Alike(d, c) /\ Read(k0, c.out) \in Clients
  /\ Read(k0, d.out) = Understands(Read(k0, c.out), e)

Told(type, at, n) == [type |-> type, at |-> at, kind |-> "", id |-> 0, n |-> n]
Opened(at, kind, id) == [type |-> "open", at |-> at, kind |-> kind, id |-> id, n |-> 0]

(* Emitting writes one event, and neither opens nor closes anything.       *)
LEMMA Emits ==
  ASSUME NEW k0 \in Clients, NEW c \in Converters, NEW at \in Nat, NEW n \in Int,
         NEW type \in {"start", "delta", "close", "end", "error"}
  PROVE  /\ Tells(k0, Emit(c, type, at, n), c, Told(type, at, n))
         /\ Emit(c, type, at, n).open = c.open /\ Emit(c, type, at, n).next = c.next
<1>1. Told(type, at, n) \in Outs /\ c.out \in Seq(Outs)
  BY DEF Told, Outs, BlockKinds, Converters
<1>2. Emit(c, type, at, n) = [c EXCEPT !.out = Append(@, Told(type, at, n))]
  BY DEF Emit, Told
<1>3. Append(c.out, Told(type, at, n)) \in Seq(Outs)
  BY <1>1
<1>4. Read(k0, c.out) \in Clients
  BY <1>1, Reads
<1>5. Read(k0, Append(c.out, Told(type, at, n))) = Understands(Read(k0, c.out), Told(type, at, n))
  BY <1>1, Reads
<1> QED
  BY <1>2, <1>3, <1>4, <1>5 DEF Converters, Alike, Tells

(* Opening a block writes one event and takes the next index.              *)
LEMMA Opens ==
  ASSUME NEW k0 \in Clients, NEW c \in Converters,
         NEW kind \in {"text", "think", "tool"}, NEW id \in Nat
  PROVE  /\ Tells(k0, OpenBlock(c, kind, id), c, Opened(c.next, kind, id))
         /\ OpenBlock(c, kind, id).open = c.open \cup {[at |-> c.next, kind |-> kind]}
         /\ OpenBlock(c, kind, id).next = c.next + 1
<1>1. Opened(c.next, kind, id) \in Outs /\ c.out \in Seq(Outs) /\ c.next \in Nat
  <2>1. c.out \in Seq(Outs) /\ c.next \in Nat
    BY DEF Converters
  <2>2. kind \in BlockKinds
    BY DEF BlockKinds
  <2>3. ASSUME NEW at \in Nat PROVE Opened(at, kind, id) \in Outs
    BY <2>2 DEF Opened, Outs
  <2> QED
    BY <2>1, <2>3
<1>2. OpenBlock(c, kind, id) = [c EXCEPT !.open = @ \cup {[at |-> c.next, kind |-> kind]},
                                         !.next = @ + 1, !.out = Append(@, Opened(c.next, kind, id))]
  BY DEF OpenBlock, Opened
<1>3. Append(c.out, Opened(c.next, kind, id)) \in Seq(Outs)
  BY <1>1
<1>4. [at |-> c.next, kind |-> kind] \in Handles
  BY <1>1 DEF Handles
<1>5. Read(k0, c.out) \in Clients
  BY <1>1, Reads
<1>6. Read(k0, Append(c.out, Opened(c.next, kind, id)))
        = Understands(Read(k0, c.out), Opened(c.next, kind, id))
  BY <1>1, Reads
<1> DEFINE d == OpenBlock(c, kind, id)
<1>7. d.open = c.open \cup {[at |-> c.next, kind |-> kind]} /\ d.next = c.next + 1 /\ Alike(d, c)
  BY <1>2 DEF Converters, Alike
<1>8. d.out = Append(c.out, Opened(c.next, kind, id))
  BY <1>2 DEF Converters
<1>9. d \in Converters
  <2>1. c.open \cup {[at |-> c.next, kind |-> kind]} \in SUBSET Handles /\ c.next + 1 \in Nat
    BY <1>1, <1>4 DEF Converters
  <2> QED
    BY <1>2, <1>3, <2>1 DEF Converters
<1> QED
  BY <1>5, <1>6, <1>7, <1>8, <1>9 DEF Tells

(* What the client makes of one event.                                     *)
LEMMA UnderstandsStart ==
  ASSUME NEW k \in Clients
  PROVE  LET j == Understands(k, Told("start", 0, 0))
         IN  /\ j.begun /\ j.ended = k.ended /\ j.blocks = k.blocks
             /\ ~k.begun /\ ~k.ended => j.wrong = k.wrong
<1> DEFINE e == Told("start", 0, 0)
<1>1. e.type = "start"
  BY DEF Told
<1> HIDE DEF e
<1>2. Understands(k, e) = [[k EXCEPT !.wrong = @ \cup Wrong(k, e)] EXCEPT !.begun = TRUE]
  BY <1>1 DEF Understands
<1>3. ~k.begun /\ ~k.ended => Wrong(k, e) = {}
  BY <1>1, WrongIs DEF Mistakes
<1> QED
  BY <1>2, <1>3 DEF Clients, e

(* An index that is new opens a block without a mistake.                   *)
LEMMA UnderstandsOpen ==
  ASSUME NEW k \in Clients, NEW at \in Nat, NEW kind, NEW id
  PROVE  LET j == Understands(k, Opened(at, kind, id))
         IN  /\ j.begun = k.begun /\ j.ended = k.ended
             /\ DOMAIN j.blocks = DOMAIN k.blocks \cup {at}
             /\ j.blocks[at] = [kind |-> kind, id |-> id, open |-> TRUE, n |-> 0]
             /\ \A i \in DOMAIN k.blocks : i # at => j.blocks[i] = k.blocks[i]
             /\ k.begun /\ ~k.ended /\ at \notin DOMAIN k.blocks => j.wrong = k.wrong
<1> DEFINE e == Opened(at, kind, id)
           m == [k EXCEPT !.wrong = @ \cup Wrong(k, e)]
<1>1. e.type = "open" /\ e.at = at /\ e.kind = kind /\ e.id = id
  BY DEF Opened
<1> HIDE DEF e
<1>2. Understands(k, e) = [m EXCEPT !.blocks = [i \in DOMAIN @ \cup {e.at} |->
                IF i = e.at THEN [kind |-> e.kind, id |-> e.id, open |-> TRUE, n |-> 0] ELSE @[i]]]
  BY <1>1 DEF Understands
<1>3. k.begun /\ ~k.ended /\ at \notin DOMAIN k.blocks => Wrong(k, e) = {}
  BY <1>1, WrongIs DEF Mistakes
<1>4. /\ m.begun = k.begun /\ m.ended = k.ended /\ m.blocks = k.blocks
      /\ m.wrong = k.wrong \cup Wrong(k, e)
  BY DEF Clients
<1>5. m \in [begun : BOOLEAN, ended : BOOLEAN, failed : BOOLEAN, blocks : Shelves, wrong : SUBSET Mistakes]
  BY WrongIs DEF Clients
<1> HIDE DEF m
<1> DEFINE shelf == [i \in DOMAIN k.blocks \cup {at} |->
                       IF i = at THEN [kind |-> e.kind, id |-> e.id, open |-> TRUE, n |-> 0]
                       ELSE k.blocks[i]]
<1>6. /\ DOMAIN shelf = DOMAIN k.blocks \cup {at}
      /\ shelf[at] = [kind |-> kind, id |-> id, open |-> TRUE, n |-> 0]
      /\ \A i \in DOMAIN k.blocks : i # at => shelf[i] = k.blocks[i]
  BY <1>1
<1>7. Understands(k, e) = [m EXCEPT !.blocks = shelf]
  BY <1>1, <1>2, <1>4
<1> HIDE DEF shelf
<1>8. /\ Understands(k, e).blocks = shelf /\ Understands(k, e).wrong = m.wrong
      /\ Understands(k, e).begun = m.begun /\ Understands(k, e).ended = m.ended
  BY <1>5, <1>7
<1> QED
  BY <1>3, <1>4, <1>6, <1>8 DEF e

(* A delta for an open block is no mistake.                                *)
LEMMA UnderstandsDelta ==
  ASSUME NEW k \in Clients, NEW at \in DOMAIN k.blocks, NEW n \in Int
  PROVE  LET j == Understands(k, Told("delta", at, n))
         IN  /\ j.begun = k.begun /\ j.ended = k.ended
             /\ DOMAIN j.blocks = DOMAIN k.blocks
             /\ \A i \in DOMAIN k.blocks : j.blocks[i].open = k.blocks[i].open
             /\ SameWords(j, k, DOMAIN k.blocks \ {at}) /\ j.blocks[at].kind = k.blocks[at].kind
             /\ j.blocks[at].id = k.blocks[at].id /\ j.blocks[at].n = k.blocks[at].n + n
             /\ k.begun /\ ~k.ended /\ k.blocks[at].open => j.wrong = k.wrong
<1> DEFINE e == Told("delta", at, n)
           m == [k EXCEPT !.wrong = @ \cup Wrong(k, e)]
<1>1. e.type = "delta" /\ e.at = at /\ e.n = n
  BY DEF Told
<1> HIDE DEF e
<1>2. Understands(k, e) = [m EXCEPT !.blocks[e.at].n = @ + e.n]
  BY <1>1 DEF Understands
<1>3. k.begun /\ ~k.ended /\ k.blocks[at].open => Wrong(k, e) = {}
  BY <1>1, WrongIs DEF Mistakes
<1>4. /\ m.begun = k.begun /\ m.ended = k.ended /\ m.blocks = k.blocks
      /\ m.wrong = k.wrong \cup Wrong(k, e)
  BY DEF Clients
<1>5. m \in [begun : BOOLEAN, ended : BOOLEAN, failed : BOOLEAN, blocks : Shelves, wrong : SUBSET Mistakes]
  BY WrongIs DEF Clients
<1>6. k.blocks \in Shelves
  BY DEF Clients
<1>7. \A i \in DOMAIN k.blocks : k.blocks[i] \in Blocks
  BY <1>6, ShelfIs
<1> HIDE DEF m
<1>8. Understands(k, e).blocks = [k.blocks EXCEPT ![at].n = @ + e.n]
  BY <1>1, <1>2, <1>4, <1>5
<1>9. ASSUME NEW i \in DOMAIN k.blocks
      PROVE  Understands(k, e).blocks[i].open = k.blocks[i].open
  BY <1>7, <1>8 DEF Blocks
<1>10. /\ Understands(k, e).begun = m.begun /\ Understands(k, e).ended = m.ended
       /\ Understands(k, e).wrong = m.wrong /\ DOMAIN Understands(k, e).blocks = DOMAIN k.blocks
  BY <1>2, <1>5, <1>8
<1>11. /\ SameWords(Understands(k, e), k, DOMAIN k.blocks \ {at})
       /\ Understands(k, e).blocks[at].kind = k.blocks[at].kind
       /\ Understands(k, e).blocks[at].id = k.blocks[at].id
       /\ Understands(k, e).blocks[at].n = k.blocks[at].n + n
  BY <1>1, <1>7, <1>8 DEF Blocks, SameWords
<1> QED
  BY <1>3, <1>4, <1>9, <1>10, <1>11 DEF e

(* Closing an open block closes it, without a mistake.                     *)
LEMMA UnderstandsClose ==
  ASSUME NEW k \in Clients, NEW at \in DOMAIN k.blocks
  PROVE  LET j == Understands(k, Told("close", at, 0))
         IN  /\ j.begun = k.begun /\ j.ended = k.ended
             /\ DOMAIN j.blocks = DOMAIN k.blocks
             /\ ~j.blocks[at].open
             /\ \A i \in DOMAIN k.blocks : i # at => j.blocks[i].open = k.blocks[i].open
             /\ SameWords(j, k, DOMAIN k.blocks)
             /\ k.begun /\ ~k.ended /\ k.blocks[at].open => j.wrong = k.wrong
<1> DEFINE e == Told("close", at, 0)
           m == [k EXCEPT !.wrong = @ \cup Wrong(k, e)]
<1>1. e.type = "close" /\ e.at = at
  BY DEF Told
<1> HIDE DEF e
<1>2. Understands(k, e) = [m EXCEPT !.blocks[e.at].open = FALSE]
  BY <1>1 DEF Understands
<1>3. k.begun /\ ~k.ended /\ k.blocks[at].open => Wrong(k, e) = {}
  BY <1>1, WrongIs DEF Mistakes
<1>4. /\ m.begun = k.begun /\ m.ended = k.ended /\ m.blocks = k.blocks
      /\ m.wrong = k.wrong \cup Wrong(k, e)
  BY DEF Clients
<1>5. m \in [begun : BOOLEAN, ended : BOOLEAN, failed : BOOLEAN, blocks : Shelves, wrong : SUBSET Mistakes]
  BY WrongIs DEF Clients
<1>6. k.blocks \in Shelves
  BY DEF Clients
<1>7. \A i \in DOMAIN k.blocks : k.blocks[i] \in Blocks
  BY <1>6, ShelfIs
<1> HIDE DEF m
<1>8. Understands(k, e).blocks = [k.blocks EXCEPT ![at].open = FALSE]
  BY <1>1, <1>2, <1>4, <1>5
<1>9. ~Understands(k, e).blocks[at].open
  BY <1>7, <1>8 DEF Blocks
<1>10. \A i \in DOMAIN k.blocks : i # at => Understands(k, e).blocks[i].open = k.blocks[i].open
  BY <1>7, <1>8 DEF Blocks
<1>11. /\ Understands(k, e).begun = m.begun /\ Understands(k, e).ended = m.ended
       /\ Understands(k, e).wrong = m.wrong /\ DOMAIN Understands(k, e).blocks = DOMAIN k.blocks
  BY <1>2, <1>5, <1>8
<1>12. SameWords(Understands(k, e), k, DOMAIN k.blocks)
  BY <1>7, <1>8 DEF Blocks, SameWords
<1> QED
  BY <1>3, <1>4, <1>9, <1>10, <1>11, <1>12 DEF e

(* The end is a mistake only before the start or with blocks open; an      *)
(* error never is.                                                         *)
LEMMA UnderstandsEnd ==
  ASSUME NEW k \in Clients, NEW type \in {"end", "error"}
  PROVE  LET j == Understands(k, Told(type, 0, 0))
         IN  /\ j.ended /\ j.failed = (type = "error") /\ j.blocks = k.blocks
             /\ j.wrong = k.wrong \cup Wrong(k, Told(type, 0, 0))
             /\ type = "error" /\ ~k.ended => j.wrong = k.wrong
             /\ type = "end" /\ ~k.ended /\ (\A i \in DOMAIN k.blocks : ~k.blocks[i].open) =>
                  j.wrong = IF k.begun THEN k.wrong ELSE k.wrong \cup {"unstarted"}
<1> DEFINE e == Told(type, 0, 0)
           m == [k EXCEPT !.wrong = @ \cup Wrong(k, e)]
<1>1. e.type = type
  BY DEF Told
<1> HIDE DEF e
<1>2. Understands(k, e) = [m EXCEPT !.ended = TRUE, !.failed = (e.type = "error")]
  BY <1>1 DEF Understands
<1>3. m.wrong = k.wrong \cup Wrong(k, e) /\ m.blocks = k.blocks
  BY DEF Clients
<1>4. m \in [begun : BOOLEAN, ended : BOOLEAN, failed : BOOLEAN, blocks : Shelves, wrong : SUBSET Mistakes]
  BY WrongIs DEF Clients
<1> HIDE DEF m
<1>5. /\ Understands(k, e).ended /\ Understands(k, e).failed = (type = "error")
      /\ Understands(k, e).blocks = k.blocks
      /\ Understands(k, e).wrong = k.wrong \cup Wrong(k, e)
  BY <1>1, <1>2, <1>3, <1>4
<1>6. type = "error" /\ ~k.ended => Wrong(k, e) = {}
  BY <1>1, WrongIs DEF Mistakes
<1>7. type = "end" /\ ~k.ended /\ (\A i \in DOMAIN k.blocks : ~k.blocks[i].open) =>
        Wrong(k, e) = IF k.begun THEN {} ELSE {"unstarted"}
  <2> SUFFICES ASSUME type = "end", ~k.ended, \A i \in DOMAIN k.blocks : ~k.blocks[i].open
               PROVE  Wrong(k, e) = IF k.begun THEN {} ELSE {"unstarted"}
    OBVIOUS
  <2>1. /\ "late" \notin Wrong(k, e) /\ "restart" \notin Wrong(k, e) /\ "reuse" \notin Wrong(k, e)
        /\ "stray" \notin Wrong(k, e) /\ "dangling" \notin Wrong(k, e)
        /\ "unstarted" \in Wrong(k, e) <=> ~k.begun
    BY <1>1, WrongIs
  <2>2. Wrong(k, e) \subseteq Mistakes
    BY WrongIs
  <2> QED
    BY <2>1, <2>2 DEF Mistakes
<1> QED
  BY <1>5, <1>6, <1>7 DEF e

(* The two stay tied when no block is opened or closed.                    *)
Steady(d, j, c, k) ==
  /\ d.started /\ j.begun /\ ~j.ended
  /\ d.open = c.open /\ d.next = c.next /\ d.held = c.held
  /\ j.wrong = k.wrong /\ DOMAIN j.blocks = DOMAIN k.blocks
  /\ \A at \in DOMAIN k.blocks : /\ j.blocks[at].open <=> k.blocks[at].open
                                 /\ j.blocks[at].kind = k.blocks[at].kind

LEMMA TiedStill ==
  ASSUME NEW c \in Converters, NEW k, Tied(c, k), NEW d, NEW j, Steady(d, j, c, k)
  PROVE  Tied(d, j)
<1>1. \A b \in c.open : b.at \in DOMAIN k.blocks
  <2>1. c.next \in Nat /\ DOMAIN k.blocks = 0..(c.next - 1)
    BY DEF Converters, Tied
  <2> QED
    BY <2>1 DEF Converters, Handles, Tied
<1>2. \A b \in d.open : j.blocks[b.at].kind = b.kind
  BY <1>1 DEF Tied, Steady
<1> QED
  BY <1>2 DEF Tied, Steady

(* The converter's steps keep the two tied.                                *)
LEMMA Starts ==
  ASSUME NEW k0 \in Clients, NEW c, Sound(k0, c)
  PROVE  LET d == EnsureStart(c)
         IN  /\ Sound(k0, d) /\ d.started /\ TallyOf(k0, d) = TallyOf(k0, c)
             /\ d.finished = c.finished /\ d.open = c.open /\ d.next = c.next
             /\ d.tools = c.tools /\ d.held = c.held
<1> DEFINE b == [c EXCEPT !.started = TRUE]
           d == Emit(b, "start", 0, 0)
           k == Read(k0, c.out)
           j == Read(k0, d.out)
<1>1. c \in Converters /\ Tied(c, k)
  BY DEF Sound
<1>2. CASE c.started
  <2>1. EnsureStart(c) = c
    BY <1>2 DEF EnsureStart
  <2> QED
    BY <1>2, <2>1
<1>3. CASE ~c.started
  <2>1. EnsureStart(c) = d
    BY <1>3 DEF EnsureStart
  <2>2. /\ b \in Converters /\ b.started /\ b.finished = c.finished /\ b.open = c.open
        /\ b.next = c.next /\ b.tools = c.tools /\ b.held = c.held /\ b.out = c.out
    BY <1>1 DEF Converters
  <2> HIDE DEF b
  <2>0. Tells(k0, d, b, Told("start", 0, 0)) /\ d.open = b.open /\ d.next = b.next
    BY <2>2, Emits
  <2> HIDE DEF d
  <2>3. /\ d \in Converters /\ Alike(d, b) /\ d.open = b.open /\ d.next = b.next
        /\ k \in Clients /\ j = Understands(k, Told("start", 0, 0))
    BY <2>0, <2>2 DEF Tells
  <2> HIDE DEF j, k
  <2>4. ~k.begun /\ ~k.ended
    BY <1>1, <1>3 DEF Tied
  <2>5. j.begun /\ j.ended = k.ended /\ j.blocks = k.blocks /\ j.wrong = k.wrong
    BY <2>3, <2>4, UnderstandsStart
  <2>6. d.started
    BY <2>2, <2>3 DEF Alike
  <2>7. Tied(d, j)
    <3>1. d.open = c.open /\ d.next = c.next /\ d.held = c.held
      BY <2>2, <2>3 DEF Alike
    <3>2. Steady(d, j, c, k)
      BY <2>4, <2>5, <2>6, <3>1 DEF Steady
    <3> QED
      BY <1>1, <3>2, TiedStill
  <2>8. Tally(j) = Tally(k)
    BY <2>5, TallyOfBlocks
  <2> QED
    BY <2>1, <2>2, <2>3, <2>6, <2>7, <2>8 DEF Sound, Alike, TallyOf, d, j, k
<1> QED
  BY <1>2, <1>3

(* Opening a block opens it on both sides.                                 *)
LEMMA OpensTied ==
  ASSUME NEW k0 \in Clients, NEW c, Sound(k0, c), c.started,
         NEW kind \in {"text", "think", "tool"}, NEW id \in Nat,
         path.entry = "responses" => kind # "think"
  PROVE  LET d == OpenBlock(c, kind, id)
         IN  /\ Sound(k0, d) /\ Alike(d, c) /\ d.next = c.next + 1
             /\ d.open = c.open \cup {[at |-> c.next, kind |-> kind]}
             /\ TallyOf(k0, d) = IF kind = "tool" THEN Calling(TallyOf(k0, c), c.next, id, 0)
                                 ELSE TallyOf(k0, c)
<1> DEFINE d == OpenBlock(c, kind, id)
           k == Read(k0, c.out)
           j == Read(k0, d.out)
           h == [at |-> c.next, kind |-> kind]
<1>1. c \in Converters /\ Tied(c, k)
  BY DEF Sound
<1>0. /\ Tells(k0, d, c, Opened(c.next, kind, id))
      /\ d.open = c.open \cup {h} /\ d.next = c.next + 1
  BY <1>1, Opens
<1> HIDE DEF d
<1>2. /\ d \in Converters /\ Alike(d, c) /\ d.open = c.open \cup {h}
      /\ d.next = c.next + 1 /\ k \in Clients
      /\ j = Understands(k, Opened(c.next, kind, id))
  BY <1>0 DEF Tells
<1>16. j \in Clients /\ IsFiniteSet(DOMAIN k.blocks)
  BY <1>2, ReadIs, SoundIs DEF Converters
<1>3. c.next \in Nat /\ IsFiniteSet(c.open)
  BY <1>1 DEF Converters, Tied
<1> HIDE DEF d, j, k
<1>4. /\ k.begun /\ ~k.ended /\ DOMAIN k.blocks = 0..(c.next - 1) /\ k.wrong = {}
      /\ \A at \in DOMAIN k.blocks : k.blocks[at].open <=> \E b \in c.open : b.at = at
      /\ \A b \in c.open : b.at < c.next /\ (path.entry = "responses" => b.kind # "think")
      /\ \A a, b \in c.open : b.at = a.at => b = a
      /\ \A b \in c.open : k.blocks[b.at].kind = b.kind
  BY <1>1 DEF Tied
<1>5. c.next \notin DOMAIN k.blocks
  BY <1>3, <1>4
<1>6. /\ j.begun = k.begun /\ j.ended = k.ended
      /\ DOMAIN j.blocks = DOMAIN k.blocks \cup {c.next}
      /\ j.blocks[c.next] = [kind |-> kind, id |-> id, open |-> TRUE, n |-> 0]
      /\ \A i \in DOMAIN k.blocks : i # c.next => j.blocks[i] = k.blocks[i]
      /\ k.begun /\ ~k.ended /\ c.next \notin DOMAIN k.blocks => j.wrong = k.wrong
  BY <1>2, <1>3, UnderstandsOpen
<1>7. h.at = c.next /\ h.kind = kind
  OBVIOUS
<1> HIDE DEF h
<1>8. \A b \in c.open : b.at # c.next
  BY <1>4, <1>3
<1>9. DOMAIN j.blocks = 0..(d.next - 1)
  BY <1>2, <1>3, <1>4, <1>6
<1>10. \A at \in DOMAIN j.blocks : j.blocks[at].open <=> \E b \in d.open : b.at = at
  <2> SUFFICES ASSUME NEW at \in DOMAIN j.blocks
               PROVE  j.blocks[at].open <=> \E b \in d.open : b.at = at
    OBVIOUS
  <2>1. CASE at = c.next
    BY <1>2, <1>6, <1>7, <2>1
  <2>2. CASE at # c.next
    <3>1. at \in DOMAIN k.blocks /\ j.blocks[at] = k.blocks[at]
      BY <1>6, <2>2
    <3> QED
      BY <1>2, <1>4, <1>7, <2>2, <3>1
  <2> QED
    BY <2>1, <2>2
<1>11. \A b \in d.open : b.at < d.next /\ (path.entry = "responses" => b.kind # "think")
  <2> SUFFICES ASSUME NEW b \in d.open
               PROVE  b.at < d.next /\ (path.entry = "responses" => b.kind # "think")
    OBVIOUS
  <2>1. CASE b = h
    BY <1>2, <1>3, <1>7, <2>1
  <2>2. CASE b \in c.open
    <3>1. b.at \in Nat
      BY <1>1, <2>2 DEF Converters, Handles
    <3> QED
      BY <1>2, <1>3, <1>4, <2>2, <3>1
  <2> QED
    BY <1>2, <2>1, <2>2
<1>12. \A a, b \in d.open : b.at = a.at => b = a
  BY <1>2, <1>4, <1>7, <1>8
<1>13. IsFiniteSet(d.open)
  BY <1>2, <1>3, FS_AddElement
<1>14. d.started
  BY <1>2 DEF Alike
<1>17. \A b \in d.open : j.blocks[b.at].kind = b.kind
  <2>1. \A b \in c.open : b.at \in DOMAIN k.blocks
    BY <1>1, <1>3, <1>4 DEF Converters, Handles
  <2> QED
    BY <1>2, <1>4, <1>6, <1>7, <1>8, <2>1
<1>15. Tied(d, j)
  BY <1>4, <1>5, <1>6, <1>9, <1>10, <1>11, <1>12, <1>13, <1>14, <1>17 DEF Tied
<1>18. Tally(j) = IF kind = "tool" THEN Calling(Tally(k), c.next, id, 0) ELSE Tally(k)
  <2>1. SameWords(j, k, DOMAIN k.blocks)
    BY <1>5, <1>6 DEF SameWords
  <2>2. j.blocks[c.next].kind = kind /\ j.blocks[c.next].id = id /\ j.blocks[c.next].n = 0
    BY <1>6
  <2> QED
    BY <1>2, <1>5, <1>6, <1>16, <2>1, <2>2, TallyOpens
<1> QED
  BY <1>2, <1>15, <1>18 DEF Sound, TallyOf, d, j, k, h

(* A delta for a block that is open leaves both as they are.               *)
LEMMA DeltasTied ==
  ASSUME NEW k0 \in Clients, NEW c, Sound(k0, c), c.started, NEW b \in c.open, NEW n \in Int
  PROVE  LET d == Emit(c, "delta", b.at, n)
             t == TallyOf(k0, c)
         IN  /\ Sound(k0, d) /\ Alike(d, c) /\ d.next = c.next /\ d.open = c.open
             /\ TallyOf(k0, d) =
                  IF b.kind = "tool" THEN Calling(t, b.at, t.called[b.at].id, t.called[b.at].n + n)
                  ELSE More(t, b.kind, n)
<1> DEFINE d == Emit(c, "delta", b.at, n)
           k == Read(k0, c.out)
           j == Read(k0, d.out)
<1>1. c \in Converters /\ Tied(c, k) /\ b.at \in Nat
  BY DEF Sound, Converters, Handles
<1>0. Tells(k0, d, c, Told("delta", b.at, n)) /\ d.open = c.open /\ d.next = c.next
  BY <1>1, Emits
<1> HIDE DEF d
<1>2. /\ d \in Converters /\ Alike(d, c) /\ d.open = c.open /\ d.next = c.next
      /\ k \in Clients /\ j = Understands(k, Told("delta", b.at, n))
  BY <1>0 DEF Tells
<1>9. j \in Clients /\ IsFiniteSet(DOMAIN k.blocks) /\ k.blocks[b.at].kind = b.kind
  BY <1>2, ReadIs, SoundIs DEF Converters
<1> HIDE DEF d, j, k
<1>3. c.next \in Nat /\ k.begun /\ ~k.ended /\ DOMAIN k.blocks = 0..(c.next - 1) /\ b.at < c.next
  BY <1>1 DEF Tied, Converters
<1>4. b.at \in DOMAIN k.blocks
  BY <1>1, <1>3
<1>5. k.blocks[b.at].open
  BY <1>1, <1>4 DEF Tied
<1>6. /\ j.begun = k.begun /\ j.ended = k.ended /\ DOMAIN j.blocks = DOMAIN k.blocks
      /\ \A i \in DOMAIN k.blocks : j.blocks[i].open = k.blocks[i].open
      /\ SameWords(j, k, DOMAIN k.blocks \ {b.at}) /\ j.blocks[b.at].kind = k.blocks[b.at].kind
      /\ j.blocks[b.at].id = k.blocks[b.at].id /\ j.blocks[b.at].n = k.blocks[b.at].n + n
      /\ k.begun /\ ~k.ended /\ k.blocks[b.at].open => j.wrong = k.wrong
  <2> DEFINE at == b.at
  <2>1. k \in Clients /\ at \in DOMAIN k.blocks /\ j = Understands(k, Told("delta", at, n))
    BY <1>2, <1>4
  <2> HIDE DEF at
  <2>2. LET i == Understands(k, Told("delta", at, n))
        IN  /\ i.begun = k.begun /\ i.ended = k.ended
            /\ DOMAIN i.blocks = DOMAIN k.blocks
            /\ \A x \in DOMAIN k.blocks : i.blocks[x].open = k.blocks[x].open
            /\ SameWords(i, k, DOMAIN k.blocks \ {at}) /\ i.blocks[at].kind = k.blocks[at].kind
            /\ i.blocks[at].id = k.blocks[at].id /\ i.blocks[at].n = k.blocks[at].n + n
            /\ k.begun /\ ~k.ended /\ k.blocks[at].open => i.wrong = k.wrong
    BY <2>1, UnderstandsDelta, Zenon
  <2> QED
    BY <2>1, <2>2 DEF at
<1>7. d.started
  BY <1>2 DEF Alike
<1>8. Tied(d, j)
  <2>1. d.open = c.open /\ d.next = c.next /\ d.held = c.held
    BY <1>2 DEF Alike
  <2>2. Steady(d, j, c, k)
    BY <1>3, <1>5, <1>6, <1>7, <2>1 DEF Steady, SameWords
  <2> QED
    BY <1>1, <2>2, TiedStill
<1>10. Tally(j) = IF b.kind = "tool" THEN Calling(Tally(k), b.at, k.blocks[b.at].id, k.blocks[b.at].n + n)
                  ELSE More(Tally(k), b.kind, n)
  <2> DEFINE at == b.at
             kind == b.kind
  <2>1. /\ at \in DOMAIN k.blocks /\ DOMAIN j.blocks = DOMAIN k.blocks
        /\ SameWords(j, k, DOMAIN k.blocks \ {at})
        /\ k.blocks[at].kind = kind /\ j.blocks[at].kind = kind
        /\ j.blocks[at].id = k.blocks[at].id /\ j.blocks[at].n = k.blocks[at].n + n
    BY <1>4, <1>6, <1>9
  <2> HIDE DEF at, kind
  <2>2. Tally(j) = IF kind = "tool" THEN Calling(Tally(k), at, k.blocks[at].id, k.blocks[at].n + n)
                   ELSE More(Tally(k), kind, n)
    BY <1>2, <1>9, <2>1, TallyGrows
  <2> QED
    BY <2>2 DEF at, kind
<1>11. b.kind = "tool" => Tally(k).called[b.at] = [id |-> k.blocks[b.at].id, n |-> k.blocks[b.at].n]
  BY <1>4, <1>9 DEF Tally, Called, OfKind
<1> QED
  BY <1>2, <1>8, <1>10, <1>11 DEF Sound, TallyOf, d, j, k

(* Closing a block closes it on both sides.                                *)
LEMMA ClosesTied ==
  ASSUME NEW k0 \in Clients, NEW c, Sound(k0, c), c.started, NEW b \in c.open
  PROVE  LET d == CloseBlock(c, b)
         IN  /\ Sound(k0, d) /\ Alike(d, c) /\ d.next = c.next /\ d.open = c.open \ {b}
             /\ TallyOf(k0, d) = TallyOf(k0, c)
<1> DEFINE a == [c EXCEPT !.open = @ \ {b}]
           d == Emit(a, "close", b.at, 0)
           k == Read(k0, c.out)
           j == Read(k0, d.out)
<1>1. c \in Converters /\ Tied(c, k) /\ b.at \in Nat
  BY DEF Sound, Converters, Handles
<1>2. /\ a \in Converters /\ Alike(a, c) /\ a.open = c.open \ {b} /\ a.next = c.next /\ a.out = c.out
  BY <1>1 DEF Converters, Alike
<1>3. CloseBlock(c, b) = d
  BY DEF CloseBlock
<1> HIDE DEF a
<1>0. Tells(k0, d, a, Told("close", b.at, 0)) /\ d.open = a.open /\ d.next = a.next
  BY <1>1, <1>2, Emits
<1> HIDE DEF d
<1>4. /\ d \in Converters /\ Alike(d, a) /\ d.open = a.open /\ d.next = a.next
      /\ k \in Clients /\ j = Understands(k, Told("close", b.at, 0))
  BY <1>0, <1>2 DEF Tells
<1> HIDE DEF d, j, k
<1>5. c.next \in Nat /\ k.begun /\ ~k.ended /\ DOMAIN k.blocks = 0..(c.next - 1) /\ b.at < c.next
  BY <1>1 DEF Tied, Converters
<1>6. b.at \in DOMAIN k.blocks
  BY <1>1, <1>5
<1>7. k.blocks[b.at].open
  BY <1>1, <1>6 DEF Tied
<1>8. /\ j.begun = k.begun /\ j.ended = k.ended /\ DOMAIN j.blocks = DOMAIN k.blocks
      /\ ~j.blocks[b.at].open
      /\ \A i \in DOMAIN k.blocks : i # b.at => j.blocks[i].open = k.blocks[i].open
      /\ SameWords(j, k, DOMAIN k.blocks)
      /\ k.begun /\ ~k.ended /\ k.blocks[b.at].open => j.wrong = k.wrong
  BY <1>4, <1>6, UnderstandsClose
<1>9. d.started /\ Alike(d, c) /\ d.open = c.open \ {b} /\ d.next = c.next
  BY <1>2, <1>4 DEF Alike
<1>10. \A at \in DOMAIN j.blocks : j.blocks[at].open <=> \E h \in d.open : h.at = at
  <2>1. /\ \A at \in DOMAIN k.blocks : k.blocks[at].open <=> \E h \in c.open : h.at = at
        /\ \A g, h \in c.open : h.at = g.at => h = g
    BY <1>1 DEF Tied
  <2> QED
    BY <1>8, <1>9, <2>1
<1>11. IsFiniteSet(d.open)
  BY <1>1, <1>9, FS_RemoveElement DEF Tied
<1>13. \A h \in d.open : j.blocks[h.at].kind = h.kind
  <2>1. \A h \in c.open : h.at \in DOMAIN k.blocks
    BY <1>1, <1>5 DEF Converters, Handles, Tied
  <2> QED
    BY <1>1, <1>8, <1>9, <2>1 DEF Tied, SameWords
<1>12. Tied(d, j)
  BY <1>1, <1>5, <1>7, <1>8, <1>9, <1>10, <1>11, <1>13 DEF Tied
<1>14. Tally(j) = Tally(k)
  BY <1>8, TallyStays
<1> QED
  BY <1>3, <1>4, <1>9, <1>12, <1>14 DEF Sound, TallyOf, d, j, k

(* Closing blocks one after the other, in whatever order.                  *)
Shut(c, S) == FoldSet(LAMBDA b, acc : CloseBlock(acc, b), c, S)
ShutBy(g, c, S) ==
  g = [s \in SUBSET S |-> IF s = {} THEN c ELSE CloseBlock(g[s \ {First(s)}], First(s))]

(* Closing a set of blocks is a fold, in some order.                       *)
LEMMA Shuts ==
  ASSUME NEW c \in Converters, NEW S \in SUBSET Handles, IsFiniteSet(S)
  PROVE  \E g : ShutBy(g, c, S) /\ Shut(c, S) = g[S]
<1> DEFINE ch == [s \in SUBSET S |-> First(s)]
           h == [p \in Converters \X S |-> CloseBlock(p[1], p[2])]
           g == CHOOSE g : ShutBy(g, c, S)
<1>1. ASSUME NEW x \in Converters, NEW b \in S PROVE CloseBlock(x, b) \in Converters
  <2> DEFINE y == [x EXCEPT !.open = @ \ {b}]
  <2>1. y \in Converters /\ b.at \in Nat
    BY DEF Converters, Handles
  <2>2. y.out \in Seq(Outs) /\ Told("close", b.at, 0) \in Outs
    <3>1. y.out \in Seq(Outs)
      BY <2>1 DEF Converters
    <3>2. Told("close", b.at, 0) \in Outs
      BY <2>1 DEF Told, Outs, BlockKinds
    <3> QED
      BY <3>1, <3>2
  <2>3. Append(y.out, Told("close", b.at, 0)) \in Seq(Outs)
    BY <2>2
  <2> HIDE DEF y
  <2>4. [y EXCEPT !.out = Append(@, Told("close", b.at, 0))] \in Converters
    BY <2>1, <2>3 DEF Converters
  <2> USE DEF y
  <2> QED
    BY <2>4 DEF CloseBlock, Emit, Told
<1>2. h \in [Converters \X S -> Converters]
  BY <1>1
<1>3. \A s \in SUBSET S : s # {} => ch[s] \in s
  BY DEF First
<1>4. PICK f \in [SUBSET S -> Converters] : Folded(f, S, c, ch, h)
  <2> HIDE DEF ch, h, Converters
  <2> QED
    BY <1>2, <1>3, FoldExists
<1>5. ShutBy(f, c, S)
  <2>1. ASSUME NEW s \in SUBSET S
        PROVE  f[s] = IF s = {} THEN c ELSE CloseBlock(f[s \ {First(s)}], First(s))
    <3>1. f[s] = IF s = {} THEN c ELSE h[<<f[s \ {ch[s]}], ch[s]>>]
      BY <1>4 DEF Folded
    <3>2. CASE s # {}
      <4>1. First(s) \in S /\ f[s \ {First(s)}] \in Converters /\ ch[s] = First(s)
        BY <1>3, <1>4, <3>2
      <4>2. h[<<f[s \ {First(s)}], First(s)>>] = CloseBlock(f[s \ {First(s)}], First(s))
        BY <4>1
      <4> QED
        BY <3>1, <3>2, <4>1, <4>2
    <3> QED
      BY <3>1, <3>2
  <2>2. f = [s \in SUBSET S |-> f[s]]
    OBVIOUS
  <2> QED
    BY <2>1, <2>2 DEF ShutBy
<1>6. ShutBy(g, c, S)
  BY <1>5
<1>7. Shut(c, S) = g[S]
  BY Zenon DEF Shut, FoldSet, MapThenFoldSet, ShutBy, First
<1> QED
  BY <1>6, <1>7

(* Whatever the order, it closes them on both sides and nothing else.      *)
LEMMA ShutTied ==
  ASSUME NEW k0 \in Clients, NEW c, Sound(k0, c), c.started, NEW S \in SUBSET c.open
  PROVE  LET d == Shut(c, S)
         IN  /\ Sound(k0, d) /\ Alike(d, c) /\ d.next = c.next /\ d.open = c.open \ S
             /\ TallyOf(k0, d) = TallyOf(k0, c)
<1>1. c \in Converters /\ S \in SUBSET Handles /\ IsFiniteSet(c.open)
  BY DEF Sound, Tied, Converters
<1>2. IsFiniteSet(S) /\ Cardinality(S) \in Nat
  BY <1>1, FS_Subset, FS_CardinalityType
<1>3. PICK g : ShutBy(g, c, S) /\ Shut(c, S) = g[S]
  BY <1>1, <1>2, Shuts
<1> DEFINE P(s) == /\ Sound(k0, g[s]) /\ Alike(g[s], c) /\ TallyOf(k0, g[s]) = TallyOf(k0, c)
                   /\ g[s].next = c.next /\ g[s].open = c.open \ s
           Good == {n \in Nat : \A s \in SUBSET S : Cardinality(s) <= n => P(s)}
<1>4. \A s \in SUBSET S : IsFiniteSet(s) /\ Cardinality(s) \in Nat
  BY <1>2, FS_Subset, FS_CardinalityType
<1>5. P({})
  <2>1. g[{}] = c
    BY <1>3 DEF ShutBy
  <2> QED
    BY <2>1 DEF Alike
<1>6. 0 \in Good
  <2>1. ASSUME NEW s \in SUBSET S, Cardinality(s) <= 0 PROVE s = {}
    BY <1>4, <2>1, FS_EmptySet
  <2> HIDE DEF P
  <2> QED
    BY <1>5, <2>1
<1>7. ASSUME NEW n \in Nat, n \in Good PROVE n + 1 \in Good
  <2> SUFFICES ASSUME NEW s \in SUBSET S, Cardinality(s) <= n + 1, s # {} PROVE P(s)
    <3> HIDE DEF P
    <3> QED
      BY <1>5
  <2>1. First(s) \in s
    BY DEF First
  <2> DEFINE r == s \ {First(s)}
  <2>2. Cardinality(r) = Cardinality(s) - 1 /\ r \in SUBSET S
    BY <1>4, <2>1, FS_RemoveElement
  <2>3. Cardinality(r) <= n
    BY <1>4, <2>2
  <2>4. P(r)
    <3> HIDE DEF r, P
    <3> QED
      BY <1>7, <2>2, <2>3
  <2>5. g[s] = CloseBlock(g[r], First(s))
    BY <1>3 DEF ShutBy
  <2>6. First(s) \in g[r].open /\ g[r].started
    BY <2>1, <2>4 DEF Alike
  <2>7. /\ Sound(k0, g[s]) /\ Alike(g[s], g[r]) /\ g[s].next = g[r].next
        /\ g[s].open = g[r].open \ {First(s)} /\ TallyOf(k0, g[s]) = TallyOf(k0, g[r])
    <3>1. Sound(k0, g[r])
      BY <2>4
    <3> DEFINE x == g[r]
    <3> HIDE DEF r, P, Good, x
    <3>2. LET d == CloseBlock(x, First(s))
          IN  /\ Sound(k0, d) /\ Alike(d, x) /\ d.next = x.next /\ d.open = x.open \ {First(s)}
              /\ TallyOf(k0, d) = TallyOf(k0, x)
      BY <2>6, <3>1, ClosesTied DEF x
    <3> QED
      BY <2>5, <3>2 DEF x
  <2>8. g[s].open = c.open \ s
    BY <2>1, <2>4, <2>7
  <2> QED
    BY <2>4, <2>7, <2>8 DEF Alike
<1> HIDE DEF Good
<1>8. Cardinality(S) \in Good
  BY <1>2, <1>6, <1>7, Induction
<1>9. P(S)
  <2>1. S \in SUBSET S /\ Cardinality(S) <= Cardinality(S)
    BY <1>2
  <2> HIDE DEF P
  <2> QED
    BY <1>8, <2>1 DEF Good
<1> QED
  BY <1>3, <1>9

(* The converter while the answer flows: every call that is known by its   *)
(* block has that block open.                                              *)
ToolsOpen(c) ==
  \A i \in CallIds : c.tools[i] # NoInput => [at |-> c.tools[i], kind |-> "tool"] \in c.open

Flows(k0, c) == Sound(k0, c) /\ c.started /\ ~c.finished /\ ToolsOpen(c)

(* The answer flows on when no block of a call is closed.                  *)
LEMMA FlowsOn ==
  ASSUME NEW k0 \in Clients, NEW c, NEW d, Flows(k0, c), Sound(k0, d), Alike(d, c),
         \A b \in c.open : b.kind = "tool" => b \in d.open
  PROVE  Flows(k0, d)
<1>1. \A at : [at |-> at, kind |-> "tool"].kind = "tool"
  OBVIOUS
<1>2. d.started /\ ~d.finished /\ d.tools = c.tools
  BY DEF Flows, Alike
<1>3. ToolsOpen(d)
  BY <1>1, <1>2 DEF Flows, ToolsOpen
<1> QED
  BY <1>2, <1>3 DEF Flows

(* Closing the block of a kind leaves the other kinds open.                *)
LEMMA KindShut ==
  ASSUME NEW k0 \in Clients, NEW c, Sound(k0, c), c.started, NEW kind
  PROVE  LET d == CloseKind(c, kind)
         IN  /\ Sound(k0, d) /\ Alike(d, c) /\ d.next = c.next
             /\ d.open = {b \in c.open : b.kind # kind} /\ TallyOf(k0, d) = TallyOf(k0, c)
<1> DEFINE S == OpenOf(c, kind)
<1>1. S \in SUBSET c.open /\ c.open \ S = {b \in c.open : b.kind # kind}
  BY DEF OpenOf
<1>2. CloseKind(c, kind) = Shut(c, S)
  BY DEF CloseKind, Shut
<1> HIDE DEF S
<1> QED
  BY <1>1, <1>2, ShutTied

(* A delta for a block of a kind that is open.                             *)
LEMMA DeltaOfKind ==
  ASSUME NEW k0 \in Clients, NEW c, Sound(k0, c), c.started, NEW kind, OpenOf(c, kind) # {},
         NEW n \in Int
  PROVE  LET d == Emit(c, "delta", TheOpen(c, kind), n)
         IN  /\ Sound(k0, d) /\ Alike(d, c) /\ d.open = c.open /\ d.next = c.next
             /\ kind # "tool" => TallyOf(k0, d) = More(TallyOf(k0, c), kind, n)
<1>1. PICK b \in c.open : TheOpen(c, kind) = b.at /\ b.kind = kind
  BY DEF TheOpen, OpenOf
<1> DEFINE d == Emit(c, "delta", b.at, n)
<1>2. /\ Sound(k0, d) /\ Alike(d, c) /\ d.open = c.open /\ d.next = c.next
      /\ b.kind # "tool" => TallyOf(k0, d) = More(TallyOf(k0, c), b.kind, n)
  BY DeltasTied
<1> HIDE DEF d
<1>3. Emit(c, "delta", TheOpen(c, kind), n) = d
  BY <1>1 DEF d
<1> QED
  BY <1>1, <1>2, <1>3

(* A block just opened is found open.                                      *)
LEMMA OpenedNow ==
  ASSUME NEW c, NEW d, NEW at, NEW kind, d.open = c.open \cup {[at |-> at, kind |-> kind]}
  PROVE  OpenOf(d, kind) # {} /\ c.open \subseteq d.open
<1>1. [at |-> at, kind |-> kind] \in OpenOf(d, kind)
  BY DEF OpenOf
<1> QED
  BY <1>1

(* A thinking delta is written to an open block, and the answer flows on.  *)
LEMMA ThinkingFlows ==
  ASSUME NEW k0 \in Clients, NEW c, Flows(k0, c), path.entry # "responses"
  PROVE  LET d == Thinking(c)
         IN  Flows(k0, d) /\ Alike(d, c) /\ TallyOf(k0, d) = More(TallyOf(k0, c), "think", 1)
<1> DEFINE o == IF OpenOf(c, "think") # {} THEN c ELSE OpenBlock(c, "think", 0)
           d == Emit(o, "delta", TheOpen(o, "think"), 1)
<1>1. Sound(k0, c) /\ c.started
  BY DEF Flows
<1>2. /\ Sound(k0, o) /\ Alike(o, c) /\ OpenOf(o, "think") # {} /\ c.open \subseteq o.open
      /\ TallyOf(k0, o) = TallyOf(k0, c)
  <2>1. CASE OpenOf(c, "think") # {}
    BY <1>1, <2>1 DEF Alike
  <2>2. CASE OpenOf(c, "think") = {}
    <3> DEFINE p == OpenBlock(c, "think", 0)
    <3>1. /\ Sound(k0, p) /\ Alike(p, c) /\ p.open = c.open \cup {[at |-> c.next, kind |-> "think"]}
          /\ TallyOf(k0, p) = TallyOf(k0, c)
      BY <1>1, OpensTied
    <3> HIDE DEF p
    <3>2. OpenOf(p, "think") # {} /\ c.open \subseteq p.open
      BY <3>1, OpenedNow
    <3> QED
      BY <2>2, <3>1, <3>2 DEF p
  <2> QED
    BY <2>1, <2>2
<1> HIDE DEF o
<1>3. o.started
  BY <1>1, <1>2 DEF Alike
<1>4. /\ Sound(k0, d) /\ Alike(d, o) /\ d.open = o.open
      /\ TallyOf(k0, d) = More(TallyOf(k0, o), "think", 1)
  BY <1>2, <1>3, DeltaOfKind
<1> HIDE DEF d
<1>5. Alike(d, c)
  BY <1>2, <1>4 DEF Alike
<1>6. Flows(k0, d)
  BY <1>2, <1>4, <1>5, FlowsOn
<1> QED
  BY <1>2, <1>4, <1>5, <1>6 DEF Thinking, d, o

(* Text goes to the block that is open, or to a new one.                   *)
LEMMA TextTied ==
  ASSUME NEW k0 \in Clients, NEW c, Sound(k0, c), c.started, NEW n \in Int
  PROVE  LET d == Text(c, n)
         IN  /\ Sound(k0, d) /\ Alike(d, c)
             /\ \A b \in c.open : b.kind = "tool" => b \in d.open
             /\ n # 0 => TallyOf(k0, d) = More(TallyOf(k0, c), "text", n)
<1> DEFINE o == IF OpenOf(c, "text") # {} THEN c ELSE OpenBlock(CloseKind(c, "think"), "text", 0)
           d == Emit(o, "delta", TheOpen(o, "text"), n)
<1>1. /\ Sound(k0, o) /\ Alike(o, c) /\ OpenOf(o, "text") # {}
      /\ \A b \in c.open : b.kind = "tool" => b \in o.open
      /\ TallyOf(k0, o) = TallyOf(k0, c)
  <2>1. CASE OpenOf(c, "text") # {}
    BY <2>1 DEF Alike
  <2>2. CASE OpenOf(c, "text") = {}
    <3> DEFINE q == CloseKind(c, "think")
               p == OpenBlock(q, "text", 0)
    <3>1. /\ Sound(k0, q) /\ Alike(q, c) /\ q.open = {b \in c.open : b.kind # "think"}
          /\ TallyOf(k0, q) = TallyOf(k0, c)
      BY KindShut
    <3> HIDE DEF q
    <3>2. q.started
      BY <3>1 DEF Alike
    <3>3. /\ Sound(k0, p) /\ Alike(p, q) /\ p.open = q.open \cup {[at |-> q.next, kind |-> "text"]}
          /\ TallyOf(k0, p) = TallyOf(k0, q)
      BY <3>1, <3>2, OpensTied
    <3> HIDE DEF p
    <3>4. OpenOf(p, "text") # {} /\ q.open \subseteq p.open
      BY <3>3, OpenedNow
    <3>5. Alike(p, c)
      BY <3>1, <3>3 DEF Alike
    <3>6. \A b \in c.open : b.kind = "tool" => b \in p.open
      BY <3>1, <3>4
    <3> QED
      BY <2>2, <3>1, <3>3, <3>4, <3>5, <3>6 DEF p, q
  <2> QED
    BY <2>1, <2>2
<1> HIDE DEF o
<1>2. o.started
  BY <1>1 DEF Alike
<1>3. /\ Sound(k0, d) /\ Alike(d, o) /\ d.open = o.open
      /\ TallyOf(k0, d) = More(TallyOf(k0, o), "text", n)
  BY <1>1, <1>2, DeltaOfKind
<1> HIDE DEF d
<1>4. Alike(d, c) /\ \A b \in c.open : b.kind = "tool" => b \in d.open
  BY <1>1, <1>3 DEF Alike
<1>5. Text(c, n) = IF n = 0 THEN c ELSE d
  BY DEF Text, d, o
<1>6. Alike(c, c)
  BY DEF Alike
<1> QED
  BY <1>1, <1>3, <1>4, <1>5, <1>6

(* A delta of a call goes to the call's block, opened if it is new.        *)
LEMMA ToolFlows ==
  ASSUME NEW k0 \in Clients, NEW c, Flows(k0, c), NEW id \in CallIds, NEW n \in Int
  PROVE  LET d == Tool(c, id, n)
         IN  /\ Flows(k0, d)
             /\ c.tools[id] = NoInput /\ n # Blank =>
                  /\ d.tools = [c.tools EXCEPT ![id] = c.next] /\ d.held = c.held
                  /\ TallyOf(k0, d) = Calling(TallyOf(k0, c), c.next, id, n)
<1> DEFINE q == CloseKind(c, "think")
           r == [q EXCEPT !.tools[id] = c.next]
           p == OpenBlock(r, "tool", id)
           o == IF c.tools[id] # NoInput THEN c ELSE p
<1>1. /\ Sound(k0, c) /\ c.started /\ ~c.finished /\ c \in Converters /\ c.next \in Nat
      /\ c.tools \in [CallIds -> Int] /\ id \in Nat
  BY ConversionAssumption DEF Flows, Sound, Converters
<1>2. /\ Flows(k0, p) /\ p.tools[id] = c.next /\ [at |-> c.next, kind |-> "tool"] \in p.open
      /\ p.tools = [c.tools EXCEPT ![id] = c.next] /\ p.held = c.held
      /\ TallyOf(k0, p) = Calling(TallyOf(k0, c), c.next, id, 0)
  <2>1. /\ Sound(k0, q) /\ Alike(q, c) /\ q.next = c.next /\ q.open = {b \in c.open : b.kind # "think"}
        /\ TallyOf(k0, q) = TallyOf(k0, c)
    BY <1>1, KindShut
  <2> HIDE DEF q
  <2>2. q \in Converters /\ q.tools = c.tools
    BY <2>1 DEF Sound, Alike
  <2>3. /\ r \in Converters /\ r.started = q.started /\ r.finished = q.finished
        /\ r.open = q.open /\ r.next = q.next /\ r.held = q.held /\ r.out = q.out
        /\ r.tools = [c.tools EXCEPT ![id] = c.next]
    <3>1. [c.tools EXCEPT ![id] = c.next] \in [CallIds -> Int]
      BY <1>1
    <3>2. r = [q EXCEPT !.tools = [c.tools EXCEPT ![id] = c.next]]
      BY <2>2 DEF Converters
    <3> HIDE DEF r
    <3> QED
      BY <2>2, <3>1, <3>2 DEF Converters
  <2> HIDE DEF r
  <2>4. Sound(k0, r)
    <3>1. Tied(q, Read(k0, q.out))
      BY <2>1 DEF Sound
    <3>2. Tied(r, Read(k0, q.out))
      BY <2>3, <3>1 DEF Tied
    <3> QED
      BY <2>3, <3>2 DEF Sound
  <2>5. r.started /\ ~r.finished
    BY <1>1, <2>1, <2>3 DEF Alike
  <2>6. /\ Sound(k0, p) /\ Alike(p, r) /\ p.open = r.open \cup {[at |-> r.next, kind |-> "tool"]}
        /\ TallyOf(k0, p) = Calling(TallyOf(k0, r), r.next, id, 0)
    BY <1>1, <2>4, <2>5, OpensTied
  <2> HIDE DEF p
  <2>7. p.started /\ ~p.finished /\ p.tools = [c.tools EXCEPT ![id] = c.next]
    BY <2>3, <2>5, <2>6 DEF Alike
  <2>8. [at |-> c.next, kind |-> "tool"] \in p.open
    BY <2>1, <2>3, <2>6
  <2>9. ToolsOpen(p)
    <3> SUFFICES ASSUME NEW i \in CallIds, p.tools[i] # NoInput
                 PROVE  [at |-> p.tools[i], kind |-> "tool"] \in p.open
      BY DEF ToolsOpen
    <3>1. CASE i = id
      BY <1>1, <2>7, <2>8, <3>1
    <3>2. CASE i # id
      <4>1. p.tools[i] = c.tools[i]
        BY <1>1, <2>7, <3>2
      <4>2. [at |-> c.tools[i], kind |-> "tool"] \in c.open
        BY <4>1 DEF Flows, ToolsOpen
      <4>3. [at |-> c.tools[i], kind |-> "tool"] \in q.open
        BY <2>1, <4>2
      <4> QED
        BY <2>3, <2>6, <4>1, <4>3
    <3> QED
      BY <3>1, <3>2
  <2>10. p.tools[id] = c.next
    BY <1>1, <2>7
  <2>11. p.held = c.held /\ r.next = c.next /\ TallyOf(k0, r) = TallyOf(k0, c)
    BY <2>1, <2>3, <2>6 DEF Alike, TallyOf
  <2> QED
    BY <2>6, <2>7, <2>8, <2>9, <2>10, <2>11 DEF Flows
<1> HIDE DEF p
<1>3. Flows(k0, o) /\ [at |-> o.tools[id], kind |-> "tool"] \in o.open
  BY <1>2 DEF Flows, ToolsOpen
<1>4. Tool(c, id, n) = IF n = Blank THEN o ELSE Emit(o, "delta", o.tools[id], n)
  BY DEF Tool, o, p, q, r
<1> HIDE DEF o
<1> DEFINE b == [at |-> o.tools[id], kind |-> "tool"]
           d == Emit(o, "delta", b.at, n)
<1>5. /\ Sound(k0, d) /\ Alike(d, o) /\ d.open = o.open
      /\ LET t == TallyOf(k0, o)
         IN  TallyOf(k0, d) = Calling(t, b.at, t.called[b.at].id, t.called[b.at].n + n)
  <2>1. Sound(k0, o) /\ o.started /\ b \in o.open /\ b.kind = "tool"
    BY <1>3 DEF Flows
  <2> HIDE DEF b
  <2> QED
    BY <2>1, DeltasTied
<1>6. d = Emit(o, "delta", o.tools[id], n)
  OBVIOUS
<1>8. b.at = o.tools[id]
  OBVIOUS
<1> HIDE DEF b, d
<1>7. Flows(k0, d)
  BY <1>3, <1>5, FlowsOn
<1>9. ASSUME c.tools[id] = NoInput
      PROVE  /\ d.tools = [c.tools EXCEPT ![id] = c.next] /\ d.held = c.held
             /\ TallyOf(k0, d) = Calling(TallyOf(k0, c), c.next, id, n)
  <2>1. o = p
    BY <1>9 DEF o
  <2>2. d.tools = p.tools /\ d.held = p.held /\ b.at = c.next
    BY <1>2, <1>5, <1>8, <2>1 DEF Alike
  <2> DEFINE at == c.next
             t == Calling(TallyOf(k0, c), at, id, 0)
  <2>3. TallyOf(k0, d) = Calling(t, at, t.called[at].id, t.called[at].n + n)
    BY <1>2, <1>5, <2>1, <2>2
  <2>4. Calling(t, at, t.called[at].id, t.called[at].n + n) = Calling(TallyOf(k0, c), at, id, n)
    <3> HIDE DEF at
    <3> QED
      BY CallGrows DEF TallyOf
  <2> QED
    BY <1>2, <2>2, <2>3, <2>4
<1> QED
  BY <1>3, <1>4, <1>6, <1>7, <1>9

(* The text behind a DSML marker; d is c but for what is held back.        *)
HoldsOnly(k0, d, c, n) ==
  /\ Sound(k0, d) /\ d.held = n /\ d.started = c.started /\ d.finished = c.finished
  /\ d.open = c.open /\ d.next = c.next /\ d.tools = c.tools /\ d.out = c.out

LEMMA HeldTied ==
  ASSUME NEW k0 \in Clients, NEW c, Sound(k0, c), NEW n \in Nat, c.started \/ n = 0
  PROVE  HoldsOnly(k0, [c EXCEPT !.held = n], c, n)
<1> DEFINE d == [c EXCEPT !.held = n]
<1>1. c \in Converters /\ Tied(c, Read(k0, c.out))
  BY DEF Sound
<1>2. /\ d \in Converters /\ d.held = n /\ d.started = c.started /\ d.finished = c.finished
      /\ d.open = c.open /\ d.next = c.next /\ d.tools = c.tools /\ d.out = c.out
  BY <1>1 DEF Converters
<1> HIDE DEF d
<1>3. Tied(d, Read(k0, c.out))
  BY <1>1, <1>2 DEF Tied
<1> QED
  BY <1>2, <1>3 DEF Sound, HoldsOnly, d

(* A call found in the text gets a block of its own, opened and closed.    *)
LEMMA DsmlCallFlows ==
  ASSUME NEW k0 \in Clients, NEW c, Flows(k0, c)
  PROVE  LET d == DsmlCall(c)
         IN  /\ Flows(k0, d) /\ d.tools = c.tools /\ d.held = 0
             /\ TallyOf(k0, d) = Calling(TallyOf(k0, c), c.next, Dsml, 0)
<1> DEFINE q == CloseText(c)
           o == OpenBlock(q, "tool", Dsml)
           h == [o EXCEPT !.held = 0]
           b == [at |-> o.next - 1, kind |-> "tool"]
           d == CloseBlock(h, b)
<1>1. Sound(k0, c) /\ c.started
  BY DEF Flows
<1>2. /\ Sound(k0, q) /\ q.started /\ q.finished = c.finished /\ q.tools = c.tools
      /\ q.open = {g \in c.open : g.kind # "text"}
      /\ q.next = c.next /\ TallyOf(k0, q) = TallyOf(k0, c)
  BY <1>1, KindShut DEF CloseText, Alike
<1> HIDE DEF q
<1>3. q.next \in Nat /\ Dsml \in Nat /\ \A g \in q.open : g.at # q.next
  BY <1>2 DEF Sound, Tied, Converters, Handles, Dsml
<1>4. /\ Sound(k0, o) /\ Alike(o, q) /\ o.next = q.next + 1
      /\ o.open = q.open \cup {[at |-> q.next, kind |-> "tool"]}
      /\ TallyOf(k0, o) = Calling(TallyOf(k0, q), q.next, Dsml, 0)
  BY <1>2, <1>3, OpensTied
<1> HIDE DEF o
<1>5. /\ Sound(k0, h) /\ h.started /\ h.finished = c.finished
      /\ h.open = o.open /\ h.tools = c.tools /\ h.held = 0 /\ h.out = o.out
  <2>1. o.started /\ o.finished = c.finished /\ o.tools = c.tools
    BY <1>2, <1>4 DEF Alike
  <2>2. /\ Sound(k0, h) /\ h.started = o.started /\ h.finished = o.finished
        /\ h.open = o.open /\ h.tools = o.tools /\ h.held = 0 /\ h.out = o.out
    <3>1. Sound(k0, o) /\ o.started
      BY <1>2, <1>4, <2>1
    <3>2. HoldsOnly(k0, h, o, 0)
      BY <3>1, HeldTied
    <3> HIDE DEF h
    <3> QED
      BY <3>2 DEF HoldsOnly
  <2> QED
    BY <2>1, <2>2
<1> HIDE DEF h
<1>6. b = [at |-> q.next, kind |-> "tool"] /\ b \in h.open
  BY <1>3, <1>4, <1>5
<1>7. b \notin q.open
  BY <1>3, <1>6
<1> HIDE DEF b
<1>8. /\ Sound(k0, d) /\ Alike(d, h) /\ d.open = h.open \ {b}
      /\ TallyOf(k0, d) = TallyOf(k0, h)
  BY <1>5, <1>6, ClosesTied
<1> HIDE DEF d
<1>9. d.started /\ ~d.finished /\ d.tools = c.tools /\ d.open = q.open /\ d.held = 0
  BY <1>4, <1>5, <1>6, <1>7, <1>8 DEF Alike, Flows
<1>10. ToolsOpen(d)
  <2> SUFFICES ASSUME NEW i \in CallIds, c.tools[i] # NoInput
               PROVE  [at |-> c.tools[i], kind |-> "tool"] \in d.open
    BY <1>9 DEF ToolsOpen
  <2>1. [at |-> c.tools[i], kind |-> "tool"] \in c.open
    BY DEF Flows, ToolsOpen
  <2> QED
    BY <1>2, <1>9, <2>1
<1>11. TallyOf(k0, d) = Calling(TallyOf(k0, c), c.next, Dsml, 0)
  BY <1>2, <1>4, <1>5, <1>8 DEF TallyOf
<1> QED
  BY <1>8, <1>9, <1>10, <1>11 DEF Flows, DsmlCall, d, b, h, o, q

(* A text delta is written to an open block, and the answer flows on.      *)
LEMMA TextFlows ==
  ASSUME NEW k0 \in Clients, NEW c, Flows(k0, c), NEW n \in Int
  PROVE  LET d == Text(c, n)
         IN  /\ Flows(k0, d) /\ Alike(d, c)
             /\ n # 0 => TallyOf(k0, d) = More(TallyOf(k0, c), "text", n)
<1> DEFINE d == Text(c, n)
<1>1. Sound(k0, c) /\ c.started
  BY DEF Flows
<1>2. /\ Sound(k0, d) /\ Alike(d, c) /\ \A b \in c.open : b.kind = "tool" => b \in d.open
      /\ n # 0 => TallyOf(k0, d) = More(TallyOf(k0, c), "text", n)
  BY <1>1, TextTied
<1> HIDE DEF d
<1> QED
  BY <1>2, FlowsOn DEF d

(* Text goes out as text or as a call, with what is held back kept.        *)
LEMMA DsmlTextFlows ==
  ASSUME NEW k0 \in Clients, NEW c, Flows(k0, c), NEW type
  PROVE  Flows(k0, DsmlText(c, type))
<1>1. Sound(k0, c) /\ c.started /\ c.held \in Nat
  BY DEF Flows, Sound, Converters
<1>2. ASSUME NEW n \in Nat PROVE Flows(k0, [c EXCEPT !.held = n])
  <2> DEFINE d == [c EXCEPT !.held = n]
  <2>0. HoldsOnly(k0, d, c, n)
    BY <1>1, HeldTied
  <2>1. /\ Sound(k0, d) /\ d.started = c.started /\ d.finished = c.finished
        /\ d.open = c.open /\ d.tools = c.tools
    BY <2>0 DEF HoldsOnly
  <2> HIDE DEF d
  <2>2. Flows(k0, d)
    BY <2>1 DEF Flows, ToolsOpen
  <2> QED
    BY <2>2 DEF d
<1>3. CASE c.held = 0 /\ type = "marker"
  <2>1. DsmlText(c, type) = [c EXCEPT !.held = 1]
    BY <1>3 DEF DsmlText
  <2> QED
    BY <1>2, <2>1
<1>4. CASE c.held = 0 /\ type # "marker"
  <2>1. DsmlText(c, type) = Text(c, 1)
    BY <1>4 DEF DsmlText
  <2> QED
    BY <2>1, TextFlows
<1>5. CASE c.held > 0 /\ type = "endmarker"
  <2>1. DsmlText(c, type) = DsmlCall(c)
    BY <1>1, <1>5 DEF DsmlText
  <2> QED
    BY <2>1, DsmlCallFlows
<1>6. CASE c.held > 0 /\ type # "endmarker"
  <2>1. DsmlText(c, type) = [c EXCEPT !.held = c.held + 1]
    BY <1>1, <1>6 DEF DsmlText
  <2>2. c.held + 1 \in Nat
    BY <1>1
  <2> QED
    BY <1>2, <2>1, <2>2
<1> QED
  BY <1>1, <1>3, <1>4, <1>5, <1>6

(* The converter before the answer has started, or while it flows.         *)
Live(k0, c) == Sound(k0, c) /\ ~c.finished /\ ToolsOpen(c)

(* With the start written, if it was not, the answer flows.                *)
LEMMA StartFlows ==
  ASSUME NEW k0 \in Clients, NEW c, Live(k0, c)
  PROVE  Flows(k0, EnsureStart(c))
<1> DEFINE d == EnsureStart(c)
<1>1. Sound(k0, c)
  BY DEF Live
<1>2. /\ Sound(k0, d) /\ d.started /\ d.finished = c.finished
      /\ d.open = c.open /\ d.tools = c.tools
  BY <1>1, Starts
<1> HIDE DEF d
<1>3. Flows(k0, d)
  BY <1>2 DEF Live, Flows, ToolsOpen
<1> QED
  BY <1>3 DEF d

(* What an adapter passes on before the end of the answer.                 *)
Contents ==
  {e \in [type : {"text", "marker", "endmarker", "think", "tool"}, id : Nat, n : Int] :
     e.type = "tool" => e.id \in CallIds}

(* Every event of the answer before its end lets it flow.                  *)
LEMMA ConsumeFlows ==
  ASSUME NEW k0 \in Clients, NEW c, Live(k0, c), NEW e \in Contents
  PROVE  Flows(k0, Consume(c, e))
<1> DEFINE s == EnsureStart(c)
<1>1. Flows(k0, s)
  BY StartFlows
<1>2. /\ e.type \in {"text", "marker", "endmarker", "think", "tool"} /\ e.n \in Int
      /\ e.type = "tool" => e.id \in CallIds
  BY DEF Contents
<1>3. CASE path.entry = "claude"
  <2>1. Consume(c, e) = ConsumeClaude(c, e)
    BY <1>2, <1>3 DEF Consume
  <2>2. ConsumeClaude(c, e) = CASE e.type = "think" -> Thinking(s)
                                [] e.type = "tool"  -> Tool(s, e.id, e.n)
                                [] OTHER            -> Text(s, 1)
    BY DEF ConsumeClaude
  <2> HIDE DEF s
  <2>3. Flows(k0, Text(s, 1))
    BY <1>1, TextFlows
  <2>4. Flows(k0, Thinking(s))
    BY <1>1, <1>3, ThinkingFlows
  <2>5. e.type = "tool" => Flows(k0, Tool(s, e.id, e.n))
    BY <1>1, <1>2, ToolFlows
  <2> QED
    BY <1>2, <2>1, <2>2, <2>3, <2>4, <2>5
<1>4. CASE path.entry # "claude"
  <2>1. Consume(c, e) = ConsumeResponses(c, e)
    BY <1>2, <1>4 DEF Consume
  <2>2. ConsumeResponses(c, e) = CASE e.type = "think" -> s
                                   [] e.type = "tool"  -> Tool(s, e.id, e.n)
                                   [] OTHER            -> DsmlText(s, e.type)
    BY DEF ConsumeResponses
  <2> HIDE DEF s
  <2>3. Flows(k0, DsmlText(s, e.type))
    BY <1>1, DsmlTextFlows
  <2>4. e.type = "tool" => Flows(k0, Tool(s, e.id, e.n))
    BY <1>1, <1>2, ToolFlows
  <2> QED
    BY <1>1, <1>2, <2>1, <2>2, <2>3, <2>4
<1> QED
  BY <1>3, <1>4

-----------------------------------------------------------------------------
(* The end of the answer.                                                  *)
Over(k0, d) == /\ d \in Converters /\ d.finished
               /\ Read(k0, d.out).ended /\ Read(k0, d.out).wrong = {}

(* finished is not part of what ties the two.                              *)
LEMMA FinishedTied ==
  ASSUME NEW k0 \in Clients, NEW c, Sound(k0, c)
  PROVE  LET d == [c EXCEPT !.finished = TRUE]
         IN  /\ Sound(k0, d) /\ d.finished /\ d.held = c.held /\ d.started = c.started
             /\ d.open = c.open /\ d.next = c.next /\ d.tools = c.tools /\ d.out = c.out
<1> DEFINE d == [c EXCEPT !.finished = TRUE]
<1>1. c \in Converters /\ Tied(c, Read(k0, c.out))
  BY DEF Sound
<1>2. /\ d \in Converters /\ d.finished /\ d.held = c.held /\ d.started = c.started
      /\ d.open = c.open /\ d.next = c.next /\ d.tools = c.tools /\ d.out = c.out
  BY <1>1 DEF Converters
<1> HIDE DEF d
<1>3. Tied(d, Read(k0, c.out))
  BY <1>1, <1>2 DEF Tied
<1> QED
  BY <1>2, <1>3 DEF Sound, d

(* An error ends the answer, whatever is open.                             *)
LEMMA ErrorIsOver ==
  ASSUME NEW k0 \in Clients, NEW c, Sound(k0, c), c.finished
  PROVE  LET d == Emit(c, "error", 0, 0)
         IN  Over(k0, d) /\ Read(k0, d.out).failed
<1> DEFINE d == Emit(c, "error", 0, 0)
           k == Read(k0, c.out)
           j == Read(k0, d.out)
<1>1. c \in Converters /\ Tied(c, k)
  BY DEF Sound
<1>2. Tells(k0, d, c, Told("error", 0, 0))
  BY <1>1, Emits
<1> HIDE DEF d
<1>3. d \in Converters /\ d.finished /\ k \in Clients /\ j = Understands(k, Told("error", 0, 0))
  BY <1>2 DEF Tells, Alike
<1> HIDE DEF k, j
<1>4. ~k.ended /\ k.wrong = {}
  BY <1>1 DEF Tied
<1>5. j.ended /\ j.wrong = {} /\ j.failed
  BY <1>3, <1>4, UnderstandsEnd
<1> QED
  BY <1>3, <1>5 DEF Over, d, j

(* With nothing open the end is a proper one, but for a start never        *)
(* written.                                                                *)
LEMMA EndIsOver ==
  ASSUME NEW k0 \in Clients, NEW c, Sound(k0, c), c.finished, c.open = {}
  PROVE  LET d == Emit(c, "end", 0, 0)
         IN  /\ d \in Converters /\ d.finished /\ Read(k0, d.out).ended
             /\ Read(k0, d.out).wrong = IF c.started THEN {} ELSE {"unstarted"}
             /\ Read(k0, d.out).blocks = Read(k0, c.out).blocks
<1> DEFINE d == Emit(c, "end", 0, 0)
           k == Read(k0, c.out)
           j == Read(k0, d.out)
<1>1. c \in Converters /\ Tied(c, k)
  BY DEF Sound
<1>2. Tells(k0, d, c, Told("end", 0, 0))
  BY <1>1, Emits
<1> HIDE DEF d
<1>3. d \in Converters /\ d.finished /\ k \in Clients /\ j = Understands(k, Told("end", 0, 0))
  BY <1>2 DEF Tells, Alike
<1> HIDE DEF k, j
<1>4. ~k.ended /\ k.wrong = {} /\ (k.begun <=> c.started) /\ \A i \in DOMAIN k.blocks : ~k.blocks[i].open
  BY <1>1 DEF Tied
<1>5. j.ended /\ j.blocks = k.blocks /\ j.wrong = IF k.begun THEN k.wrong ELSE k.wrong \cup {"unstarted"}
  BY <1>3, <1>4, UnderstandsEnd
<1>6. j.wrong = IF c.started THEN {} ELSE {"unstarted"}
  BY <1>4, <1>5
<1> QED
  BY <1>3, <1>5, <1>6 DEF d, j, k

(* What is left behind a marker goes out as text.                          *)
LEMMA DsmlFinalTied ==
  ASSUME NEW k0 \in Clients, NEW c, Sound(k0, c)
  PROVE  LET d == DsmlFinal(c)
         IN  /\ Sound(k0, d) /\ d.started = c.started
             /\ TallyOf(k0, d) = IF c.held > 1 THEN More(TallyOf(k0, c), "text", c.held)
                                 ELSE TallyOf(k0, c)
<1> DEFINE r == [c EXCEPT !.held = 0]
<1>1. c \in Converters /\ Tied(c, Read(k0, c.out)) /\ c.held \in Nat
  BY DEF Sound, Converters
<1>2. Sound(k0, r) /\ r.started = c.started /\ TallyOf(k0, r) = TallyOf(k0, c)
  BY HeldTied DEF HoldsOnly, TallyOf
<1>3. c.held > 1 => c.started
  BY <1>1 DEF Tied
<1> HIDE DEF r
<1>4. c.held > 1 => /\ Sound(k0, Text(r, c.held)) /\ Alike(Text(r, c.held), r)
                    /\ TallyOf(k0, Text(r, c.held)) = More(TallyOf(k0, r), "text", c.held)
  <2> DEFINE n == c.held
  <2>1. n \in Nat /\ n \in Int /\ (n > 1 => n # 0)
    BY <1>1
  <2> HIDE DEF n
  <2>2. n > 1 => /\ Sound(k0, Text(r, n)) /\ Alike(Text(r, n), r)
                 /\ TallyOf(k0, Text(r, n)) = More(TallyOf(k0, r), "text", n)
    BY <1>2, <1>3, <2>1, TextTied DEF n
  <2> QED
    BY <2>2 DEF n
<1>5. DsmlFinal(c) = IF c.held > 1 THEN Text(r, c.held) ELSE r
  BY DEF DsmlFinal, r
<1> QED
  BY <1>2, <1>4, <1>5 DEF Alike

(* Both ends of the Responses side first close all that is open.           *)
LEMMA ResponsesShut ==
  ASSUME NEW k0 \in Clients, NEW c, Sound(k0, c), path.entry = "responses"
  PROVE  LET d == CloseFunctions(CloseText(EnsureStart([c EXCEPT !.finished = TRUE])))
         IN  /\ Sound(k0, d) /\ d.finished /\ d.started /\ d.open = {}
             /\ TallyOf(k0, d) = TallyOf(k0, c)
<1> DEFINE a == [c EXCEPT !.finished = TRUE]
           s == EnsureStart(a)
           q == CloseText(s)
           d == CloseFunctions(q)
<1>1. Sound(k0, a) /\ a.finished /\ TallyOf(k0, a) = TallyOf(k0, c)
  BY FinishedTied DEF TallyOf
<1> HIDE DEF a
<1>2. Sound(k0, s) /\ s.started /\ s.finished /\ TallyOf(k0, s) = TallyOf(k0, a)
  BY <1>1, Starts
<1> HIDE DEF s
<1>3. /\ Sound(k0, q) /\ q.started /\ q.finished /\ q.open = {b \in s.open : b.kind # "text"}
      /\ TallyOf(k0, q) = TallyOf(k0, s)
  BY <1>2, KindShut DEF CloseText, Alike
<1> HIDE DEF q
<1>4. /\ Sound(k0, d) /\ d.started /\ d.finished /\ d.open = {b \in q.open : b.kind # "tool"}
      /\ TallyOf(k0, d) = TallyOf(k0, q)
  BY <1>3, KindShut DEF CloseFunctions, Alike
<1>5. \A b \in s.open : b.kind \in {"text", "think", "tool"} /\ b.kind # "think"
  BY <1>2 DEF Sound, Tied, Converters, Handles
<1>6. d.open = {}
  BY <1>3, <1>4, <1>5
<1> QED
  BY <1>1, <1>2, <1>3, <1>4, <1>6 DEF d, q, s, a

(* Finishing is a proper end, but for a Claude answer never started.       *)
LEMMA FinishIsOver ==
  ASSUME NEW k0 \in Clients, NEW c, Sound(k0, c), path.entry \in {"claude", "responses"}
  PROVE  /\ Finish(c) \in Converters /\ Finish(c).finished /\ Read(k0, Finish(c).out).ended
         /\ Read(k0, Finish(c).out).wrong
              = IF path.entry = "claude" /\ ~c.started THEN {"unstarted"} ELSE {}
         /\ IsFiniteSet(DOMAIN Read(k0, Finish(c).out).blocks)
         /\ TallyOf(k0, Finish(c)) = IF path.entry = "responses" /\ c.held > 1
                                     THEN More(TallyOf(k0, c), "text", c.held) ELSE TallyOf(k0, c)
<1>1. CASE path.entry = "claude"
  <2> DEFINE q == CloseAll(c)
             a == [q EXCEPT !.finished = TRUE]
             d == Emit(a, "end", 0, 0)
  <2>1. Finish(c) = d
    BY <1>1 DEF Finish, FinishClaude
  <2>2. Sound(k0, q) /\ q.open = {} /\ q.started = c.started /\ TallyOf(k0, q) = TallyOf(k0, c)
    <3>1. q = Shut(c, c.open)
      BY DEF CloseAll, Shut
    <3>2. CASE c.started
      <4>1. c.open \in SUBSET c.open /\ c.open \ c.open = {}
        OBVIOUS
      <4> DEFINE S == c.open
                 p == Shut(c, S)
      <4>2. S \in SUBSET c.open
        OBVIOUS
      <4> HIDE DEF q, S
      <4>3. /\ Sound(k0, p) /\ Alike(p, c) /\ p.open = c.open \ S
            /\ TallyOf(k0, p) = TallyOf(k0, c)
        BY <3>2, <4>2, ShutTied
      <4> HIDE DEF p
      <4> QED
        BY <3>1, <4>1, <4>3 DEF Alike, p, S
    <3>3. CASE ~c.started
      <4>1. c.open = {} /\ c \in Converters
        BY <3>3 DEF Sound, Tied
      <4>2. IsFiniteSet({}) /\ {} \in SUBSET Handles
        BY FS_EmptySet
      <4>3. PICK g : ShutBy(g, c, {}) /\ Shut(c, {}) = g[{}]
        BY <4>1, <4>2, Shuts
      <4>4. q = c
        BY <3>1, <4>1, <4>3 DEF ShutBy
      <4> QED
        BY <4>1, <4>4
    <3> QED
      BY <3>2, <3>3
  <2> HIDE DEF q
  <2>3. /\ Sound(k0, a) /\ a.finished /\ a.open = {} /\ a.started = c.started
        /\ TallyOf(k0, a) = TallyOf(k0, c)
    BY <2>2, FinishedTied DEF TallyOf
  <2> HIDE DEF a
  <2>4. /\ d \in Converters /\ d.finished /\ Read(k0, d.out).ended
        /\ Read(k0, d.out).wrong = IF a.started THEN {} ELSE {"unstarted"}
        /\ Read(k0, d.out).blocks = Read(k0, a.out).blocks
    BY <2>3, EndIsOver
  <2>5. TallyOf(k0, d) = TallyOf(k0, c) /\ IsFiniteSet(DOMAIN Read(k0, d.out).blocks)
    BY <2>3, <2>4, TallyOfBlocks, SoundIs DEF TallyOf
  <2> HIDE DEF d
  <2> QED
    BY <1>1, <2>1, <2>3, <2>4, <2>5
<1>2. CASE path.entry = "responses"
  <2> DEFINE r == DsmlFinal(c)
             a == CloseFunctions(CloseText(EnsureStart([r EXCEPT !.finished = TRUE])))
             d == Emit(a, "end", 0, 0)
  <2>1. Finish(c) = d
    BY <1>2 DEF Finish, FinishResponses
  <2>2. /\ Sound(k0, r)
        /\ TallyOf(k0, r) = IF c.held > 1 THEN More(TallyOf(k0, c), "text", c.held) ELSE TallyOf(k0, c)
    BY DsmlFinalTied
  <2> HIDE DEF r
  <2>3. /\ Sound(k0, a) /\ a.finished /\ a.started /\ a.open = {}
        /\ TallyOf(k0, a) = TallyOf(k0, r)
    BY <1>2, <2>2, ResponsesShut
  <2> HIDE DEF a
  <2>4. /\ d \in Converters /\ d.finished /\ Read(k0, d.out).ended
        /\ Read(k0, d.out).wrong = IF a.started THEN {} ELSE {"unstarted"}
        /\ Read(k0, d.out).blocks = Read(k0, a.out).blocks
    BY <2>3, EndIsOver
  <2>5. TallyOf(k0, d) = TallyOf(k0, a) /\ IsFiniteSet(DOMAIN Read(k0, d.out).blocks)
    BY <2>3, <2>4, TallyOfBlocks, SoundIs DEF TallyOf
  <2> HIDE DEF d
  <2> QED
    BY <1>2, <2>1, <2>2, <2>3, <2>4, <2>5
<1> QED
  BY <1>1, <1>2

(* The error event is a proper end.                                        *)
LEMMA ErrorEventIsOver ==
  ASSUME NEW k0 \in Clients, NEW c, Sound(k0, c), path.entry \in {"claude", "responses"}
  PROVE  Over(k0, ErrorEvent(c)) /\ Read(k0, ErrorEvent(c).out).failed
<1>1. CASE path.entry = "claude"
  <2> DEFINE a == [c EXCEPT !.started = TRUE, !.finished = TRUE]
             d == Emit(a, "error", 0, 0)
             k == Read(k0, c.out)
             j == Read(k0, d.out)
  <2>1. ErrorEvent(c) = d
    BY <1>1 DEF ErrorEvent
  <2>2. c \in Converters /\ Tied(c, k)
    BY DEF Sound
  <2>3. a \in Converters /\ a.finished /\ a.out = c.out
    BY <2>2 DEF Converters
  <2> HIDE DEF a
  <2>4. Tells(k0, d, a, Told("error", 0, 0))
    BY <2>3, Emits
  <2> HIDE DEF d
  <2>5. d \in Converters /\ d.finished /\ k \in Clients /\ j = Understands(k, Told("error", 0, 0))
    BY <2>3, <2>4 DEF Tells, Alike
  <2> HIDE DEF k, j
  <2>6. ~k.ended /\ k.wrong = {}
    BY <2>2 DEF Tied
  <2>7. j.ended /\ j.wrong = {} /\ j.failed
    BY <2>5, <2>6, UnderstandsEnd
  <2> QED
    BY <2>1, <2>5, <2>7 DEF Over, j
<1>2. CASE path.entry = "responses"
  <2> DEFINE r == DsmlFinal(c)
             a == CloseFunctions(CloseText(EnsureStart([r EXCEPT !.finished = TRUE])))
  <2>1. ErrorEvent(c) = Emit(a, "error", 0, 0)
    BY <1>2 DEF ErrorEvent, ErrorEventResponses
  <2>2. Sound(k0, r)
    BY DsmlFinalTied
  <2> HIDE DEF r
  <2>3. Sound(k0, a) /\ a.finished
    BY <1>2, <2>2, ResponsesShut
  <2> HIDE DEF a
  <2> QED
    BY <2>1, <2>3, ErrorIsOver
<1> QED
  BY <1>1, <1>2

(* A chunk of chat events.                                                 *)
Fresh(c) == [c EXCEPT !.out = <<>>]

(* A client that is sent nothing stays as it is.                           *)
LEMMA EmptyIsRead ==
  ASSUME NEW k \in Clients
  PROVE  Read(k, <<>>) = k
<1> DEFINE e == Told("start", 0, 0)
<1>1. e \in Outs /\ <<>> \in Seq(Outs)
  BY DEF Told, Outs, BlockKinds
<1> HIDE DEF e
<1> QED
  BY <1>1, Reads

(* What has been delivered is done with.                                   *)
LEMMA DeliveredTied ==
  ASSUME NEW k0 \in Clients, NEW c, Sound(k0, c)
  PROVE  LET d == Fresh(c)
             k == Read(k0, c.out)
         IN  /\ k \in Clients /\ Sound(k, d) /\ d.out = <<>> /\ d.started = c.started
             /\ d.finished = c.finished /\ d.open = c.open /\ d.tools = c.tools
<1> DEFINE d == Fresh(c)
           k == Read(k0, c.out)
<1>1. c \in Converters /\ Tied(c, k)
  BY DEF Sound
<1>2. /\ d \in Converters /\ d.held = c.held /\ d.started = c.started /\ d.finished = c.finished
      /\ d.open = c.open /\ d.next = c.next /\ d.tools = c.tools /\ d.out = <<>>
  <2>1. <<>> \in Seq(Outs)
    OBVIOUS
  <2> QED
    BY <1>1, <2>1 DEF Converters, Fresh
<1> HIDE DEF d
<1>3. k \in Clients
  <2> DEFINE e == Told("start", 0, 0)
  <2>1. e \in Outs
    BY DEF Told, Outs, BlockKinds
  <2>2. c.out \in Seq(Outs)
    BY <1>1 DEF Converters
  <2> HIDE DEF e
  <2> QED
    BY <2>1, <2>2, Reads
<1> HIDE DEF k
<1>4. Read(k, d.out) = k
  BY <1>2, <1>3, EmptyIsRead
<1>5. Tied(d, k)
  BY <1>1, <1>2 DEF Tied
<1> QED
  BY <1>2, <1>3, <1>4, <1>5 DEF Sound, d, k

Lives(k0) == {c \in Converters : Live(k0, c)}
Done == Ev("done", 0, 0)

(* A chunk of contents keeps the converter sound, event by event.          *)
LEMMA ConvertGives ==
  ASSUME NEW k0 \in Clients, NEW c, Live(k0, Fresh(c)), NEW s \in Seq(Contents), NEW a
  PROVE  /\ Convert(c, <<>>) = Fresh(c)
         /\ Live(k0, Convert(c, s))
         /\ Convert(c, Append(s, a)) = Consume(Convert(c, s), a)
<1>1. \A x \in Lives(k0), e \in Contents : Consume(x, e) \in Lives(k0)
  <2> SUFFICES ASSUME NEW x \in Lives(k0), NEW e \in Contents PROVE Consume(x, e) \in Lives(k0)
    OBVIOUS
  <2>1. Live(k0, x)
    BY DEF Lives
  <2>2. Flows(k0, Consume(x, e))
    BY <2>1, ConsumeFlows
  <2> QED
    BY <2>2 DEF Lives, Live, Flows, Sound
<1>2. Fresh(c) \in Lives(k0)
  BY DEF Lives, Live, Sound
<1>3. ConsumeAsks(Lives(k0), Contents, Fresh(c), s)
  <2> HIDE DEF Contents
  <2> QED
    BY <1>1, <1>2 DEF ConsumeAsks
<1>4. ConsumeGives(Lives(k0), Fresh(c), s, a)
  BY <1>3, ConsumeAppends
<1>5. \A t : Convert(c, t) = FoldLeft(Consume, Fresh(c), t)
  BY DEF Convert, Fresh
<1>6. /\ FoldLeft(Consume, Fresh(c), <<>>) = Fresh(c)
      /\ FoldLeft(Consume, Fresh(c), s) \in Lives(k0)
      /\ FoldLeft(Consume, Fresh(c), Append(s, a)) = Consume(FoldLeft(Consume, Fresh(c), s), a)
  BY <1>4 DEF ConsumeGives
<1>7. Convert(c, s) \in Lives(k0)
  BY <1>5, <1>6
<1> QED
  BY <1>5, <1>6, <1>7 DEF Lives

(* After a chunk that is not empty the answer flows.                       *)
LEMMA ConvertFlows ==
  ASSUME NEW k0 \in Clients, NEW c, Live(k0, Fresh(c)), NEW s \in Seq(Contents), s # <<>>
  PROVE  Flows(k0, Convert(c, s))
<1>1. PICK f \in Seq(Contents), e \in Contents : s = Append(f, e)
  <2> DEFINE n == Len(s)
  <2>1. n \in Nat /\ n # 0 /\ s[n] \in Contents /\ SubSeq(s, 1, n - 1) \in Seq(Contents)
    <3> HIDE DEF Contents
    <3> QED
      OBVIOUS
  <2>2. s = Append(SubSeq(s, 1, n - 1), s[n])
    <3> HIDE DEF Contents
    <3> QED
      BY <2>1
  <2> QED
    BY <2>1, <2>2
<1>2. Live(k0, Convert(c, f)) /\ Convert(c, Append(f, e)) = Consume(Convert(c, f), e)
  BY ConvertGives
<1> QED
  BY <1>1, <1>2, ConsumeFlows

(* A chunk with the end behind its contents ends the answer properly.      *)
LEMMA ConvertEnds ==
  ASSUME NEW k0 \in Clients, NEW c, Live(k0, Fresh(c)), NEW s \in Seq(Contents),
         path.entry \in {"claude", "responses"}
  PROVE  Over(k0, Convert(c, Append(s, Done)))
<1> DEFINE x == Convert(c, s)
           y == EnsureStart(x)
<1>1. Live(k0, x) /\ Convert(c, Append(s, Done)) = Consume(x, Done)
  BY ConvertGives
<1>2. Consume(x, Done) = Finish(y)
  BY DEF Consume, Done, Ev
<1> HIDE DEF x
<1>3. Flows(k0, y)
  BY <1>1, StartFlows
<1> HIDE DEF y
<1>4. Sound(k0, y) /\ y.started
  BY <1>3 DEF Flows
<1>5. /\ Finish(y) \in Converters /\ Finish(y).finished /\ Read(k0, Finish(y).out).ended
      /\ Read(k0, Finish(y).out).wrong
           = IF path.entry = "claude" /\ ~y.started THEN {"unstarted"} ELSE {}
  BY <1>4, FinishIsOver
<1> QED
  BY <1>1, <1>2, <1>4, <1>5 DEF Over

-----------------------------------------------------------------------------
(* The decoder of a Command Code stream.                                   *)
Inputs  == {"input_start", "input_delta", "input_end"}
Ends(e) == e.type \in {"finish", "error"}

(* What an upstream sends to an adapter, and what it sends before its end. *)
Sayings(adapter) ==
  {e \in [type : {"text", "marker", "endmarker", "think", "finish", "error", "call", "begin", "args"}
                 \cup Inputs, id : Nat, n : Int] :
     /\ e.type \in Inputs \cup {"call", "begin", "args"} => e.id \in CallIds
     /\ e.type \in Inputs \cup {"call"} => adapter = "command_code"
     /\ e.type \in {"begin", "args"} => adapter = "plain"
     /\ Ends(e) => e.id = 0 /\ e.n = 0}

Goes(adapter) == {e \in Sayings(adapter) : ~Ends(e)}

(* The decoder within a chunk; early: no call has been passed on before    *)
(* the chunk.                                                              *)
Decoders == [pending : [CallIds -> Int], emitted : SUBSET CallIds, finished : BOOLEAN,
             out : Seq(Contents)]
Within(early) == {d \in Decoders : ~d.finished /\ (early /\ d.out = <<>> => d.emitted = {})}

(* The fields of a decoder that has not finished.                          *)
LEMMA WithinIs ==
  ASSUME NEW early, NEW d
  PROVE  d \in Within(early) <=> /\ d = [pending |-> d.pending, emitted |-> d.emitted,
                                         finished |-> d.finished, out |-> d.out]
                                 /\ d.pending \in [CallIds -> Int] /\ d.emitted \subseteq CallIds
                                 /\ d.finished = FALSE /\ d.out \in Seq(Contents)
                                 /\ early /\ d.out = <<>> => d.emitted = {}
<1> HIDE DEF Contents
<1> QED
  BY DEF Within, Decoders

(* One member more makes a sequence that is not empty.                     *)
LEMMA Appended ==
  ASSUME NEW Y, NEW s \in Seq(Y), NEW y \in Y
  PROVE  Append(s, y) \in Seq(Y) /\ Append(s, y) # <<>>
<1>1. Append(s, y) \in Seq(Y) /\ Len(Append(s, y)) = Len(s) + 1 /\ Len(s) \in Nat
  OBVIOUS
<1>2. Len(<<>>) = 0
  OBVIOUS
<1> QED
  BY <1>1, <1>2

(* A call is part of an answer.                                            *)
LEMMA ToolIsContent ==
  ASSUME NEW id \in CallIds, NEW n \in Int
  PROVE  Ev("tool", id, n) \in Contents
BY ConversionAssumption DEF Ev, Contents

(* Input that is kept pending changes nothing else.                        *)
LEMMA Taken ==
  ASSUME NEW early, NEW d \in Within(early), NEW id \in CallIds, NEW v \in Int
  PROVE  [d EXCEPT !.pending[id] = v] \in Within(early) /\ [d EXCEPT !.pending[id] = v].out = d.out
<1> DEFINE p == [d.pending EXCEPT ![id] = v]
           x == [d EXCEPT !.pending = p]
<1>1. d.pending \in [CallIds -> Int]
  BY WithinIs
<1>2. p \in [CallIds -> Int]
  BY <1>1
<1>3. [d EXCEPT !.pending[id] = v] = x
  OBVIOUS
<1> HIDE DEF p
<1>4. d \in Decoders
  BY DEF Within
<1>5. x \in Decoders /\ x.out = d.out /\ x.finished = d.finished /\ x.emitted = d.emitted
  <2> HIDE DEF Contents
  <2> QED
    BY <1>2, <1>4 DEF Decoders
<1> HIDE DEF x
<1>6. x \in Within(early)
  BY <1>5 DEF Within
<1> QED
  BY <1>3, <1>5, <1>6

(* A decoder may pass on what is part of an answer.                        *)
LEMMA PassesOn ==
  ASSUME NEW early, NEW d \in Within(early), NEW e \in Contents
  PROVE  [d EXCEPT !.out = Append(@, e)] \in Within(early) /\ [d EXCEPT !.out = Append(@, e)].out # <<>>
<1> DEFINE s == Append(d.out, e)
           x == [d EXCEPT !.out = s]
<1>1. d \in Decoders /\ d.out \in Seq(Contents)
  BY WithinIs DEF Within
<1>2. s \in Seq(Contents) /\ s # <<>>
  <2> HIDE DEF Contents
  <2> QED
    BY <1>1, Appended
<1>3. [d EXCEPT !.out = Append(@, e)] = x
  OBVIOUS
<1> HIDE DEF s
<1>4. x \in Decoders /\ x.out = s /\ x.finished = d.finished
  <2> HIDE DEF Contents
  <2> QED
    BY <1>1, <1>2 DEF Decoders
<1> HIDE DEF x
<1>5. x \in Within(early)
  BY <1>2, <1>4 DEF Within
<1> QED
  BY <1>2, <1>3, <1>4, <1>5

(* A call is passed on unless it was before.                               *)
LEMMA CallEmitted ==
  ASSUME NEW early, NEW d \in Within(early), NEW id \in CallIds, NEW n \in Int
  PROVE  LET x == EmitToolCall(d, id, n)
         IN  x \in Within(early) /\ (early \/ d.out # <<>> => x.out # <<>>)
<1>1. CASE id \in d.emitted
  <2>1. EmitToolCall(d, id, n) = d /\ (early => d.out # <<>>)
    BY <1>1, WithinIs DEF EmitToolCall
  <2> QED
    BY <2>1
<1>2. CASE id \notin d.emitted
  <2> DEFINE e == Ev("tool", id, n)
             y == [d EXCEPT !.out = Append(@, e)]
             x == [y EXCEPT !.emitted = @ \cup {id}]
  <2>1. e \in Contents
    BY ToolIsContent
  <2>2. d \in Decoders
    BY DEF Within
  <2>3. EmitToolCall(d, id, n) = x
    <3> HIDE DEF Contents
    <3> QED
      BY <1>2, <2>2 DEF EmitToolCall, Decoders
  <2> HIDE DEF e
  <2>4. y \in Within(early) /\ y.out # <<>>
    BY <2>1, PassesOn
  <2> HIDE DEF y
  <2>5. y \in Decoders
    BY <2>4 DEF Within
  <2>6. x \in Decoders /\ x.out = y.out /\ x.finished = y.finished
    <3> HIDE DEF Contents
    <3> QED
      BY <2>5 DEF Decoders
  <2> HIDE DEF x
  <2>7. x \in Within(early)
    BY <2>4, <2>6 DEF Within
  <2> QED
    BY <2>3, <2>4, <2>6, <2>7
<1> QED
  BY <1>1, <1>2

(* One line that is not the last one.                                      *)
LEMMA LineWithin ==
  ASSUME NEW early, NEW d \in Within(early), NEW e \in Goes("command_code")
  PROVE  LET x == Line(d, e)
         IN  /\ x \in Within(early)
             /\ early /\ x.out = <<>> => d.out = <<>> /\ e.type \in Inputs
<1>1. /\ e.type \in {"text", "marker", "endmarker", "think", "call"} \cup Inputs
      /\ e.id \in Nat /\ e.n \in Int
      /\ e.type \in Inputs \cup {"call"} => e.id \in CallIds
  BY DEF Goes, Sayings, Ends
<1>2. d.pending \in [CallIds -> Int] /\ d.finished = FALSE
  BY WithinIs
<1>3. CASE e.type \in {"input_start", "input_delta"}
  <2>1. PICK v \in Int : Line(d, e) = [d EXCEPT !.pending[e.id] = v]
    <3>1. e.id \in CallIds /\ d.pending[e.id] \in Int
      BY <1>1, <1>2, <1>3 DEF Inputs
    <3>2. CASE e.type = "input_start"
      <4> DEFINE v == IF d.pending[e.id] = NoInput THEN 0 ELSE d.pending[e.id]
      <4>1. v \in Int
        BY <3>1
      <4>2. Line(d, e) = [d EXCEPT !.pending[e.id] = IF @ = NoInput THEN 0 ELSE @]
        BY <1>2, <3>2 DEF Line
      <4>3. Line(d, e) = [d EXCEPT !.pending[e.id] = v]
        BY <4>2
      <4> HIDE DEF v
      <4> QED
        BY <4>1, <4>3
    <3>3. CASE e.type = "input_delta"
      <4> DEFINE v == IF d.pending[e.id] = NoInput THEN 1 ELSE d.pending[e.id] + 1
      <4>1. v \in Int
        BY <3>1
      <4>2. Line(d, e) = [d EXCEPT !.pending[e.id] = IF @ = NoInput THEN 1 ELSE @ + 1]
        BY <1>2, <3>3 DEF Line
      <4>3. Line(d, e) = [d EXCEPT !.pending[e.id] = v]
        BY <4>2
      <4> HIDE DEF v
      <4> QED
        BY <4>1, <4>3
    <3> QED
      BY <1>3, <3>2, <3>3
  <2>2. e.id \in CallIds /\ e.type \in Inputs
    BY <1>1, <1>3 DEF Inputs
  <2> QED
    BY <2>1, <2>2, Taken
<1>4. CASE e.type = "input_end"
  <2>1. e.id \in CallIds /\ d.pending[e.id] \in Int /\ e.type \in Inputs /\ NoInput \in Int
    BY <1>1, <1>2, <1>4 DEF Inputs, NoInput
  <2> DEFINE t == TakeInput(d, e.id)
  <2>2. t \in Within(early) /\ t.out = d.out
    BY <2>1, Taken DEF TakeInput
  <2>3. Line(d, e) = IF d.pending[e.id] > 0 THEN EmitToolCall(t, e.id, d.pending[e.id]) ELSE t
    BY <1>2, <1>4 DEF Line
  <2> HIDE DEF t
  <2>4. /\ EmitToolCall(t, e.id, d.pending[e.id]) \in Within(early)
        /\ early \/ t.out # <<>> => EmitToolCall(t, e.id, d.pending[e.id]).out # <<>>
    BY <2>1, <2>2, CallEmitted
  <2> QED
    BY <2>1, <2>2, <2>3, <2>4
<1>5. CASE e.type = "call"
  <2>1. e.id \in CallIds /\ d.pending[e.id] \in Int /\ NoInput \in Int
    BY <1>1, <1>2, <1>5 DEF NoInput
  <2> DEFINE t == TakeInput(d, e.id)
             v == PendingInput(d, e.id)
  <2>2. t \in Within(early) /\ v \in Int /\ Inline \in Int
    BY <2>1, Taken DEF TakeInput, PendingInput, Inline, Braces
  <2>3. Line(d, e) = IF e.n = Inline THEN EmitToolCall(d, e.id, Inline) ELSE EmitToolCall(t, e.id, v)
    BY <1>2, <1>5 DEF Line, ToolCall
  <2> HIDE DEF t, v
  <2>4. /\ EmitToolCall(d, e.id, Inline) \in Within(early)
        /\ early => EmitToolCall(d, e.id, Inline).out # <<>>
    BY <2>1, <2>2, CallEmitted
  <2>5. EmitToolCall(t, e.id, v) \in Within(early) /\ (early => EmitToolCall(t, e.id, v).out # <<>>)
    BY <2>1, <2>2, CallEmitted
  <2> QED
    BY <2>3, <2>4, <2>5
<1>6. CASE e.type \in {"text", "marker", "endmarker", "think"}
  <2>1. e \in Contents
    BY <1>6 DEF Goes, Sayings, Contents
  <2>2. Line(d, e) = [d EXCEPT !.out = Append(@, e)]
    BY <1>2, <1>6 DEF Line
  <2> QED
    BY <2>1, <2>2, PassesOn
<1> QED
  BY <1>1, <1>3, <1>4, <1>5, <1>6 DEF Inputs

(* A sequence that is not empty is one with a last member appended.        *)
LEMMA Splits ==
  ASSUME NEW Y, NEW s \in Seq(Y), s # <<>>
  PROVE  \E f \in Seq(Y), e \in Y : s = Append(f, e) /\ Len(s) = Len(f) + 1 /\ e = s[Len(s)]
<1> DEFINE n == Len(s)
           f == SubSeq(s, 1, n - 1)
<1>1. n \in Nat /\ n # 0 /\ s[n] \in Y
  OBVIOUS
<1>2. f \in Seq(Y) /\ Len(f) = n - 1
  <2>1. \A i \in 1..(n - 1) : s[i] \in Y
    BY <1>1
  <2>2. 1 \in Int /\ n - 1 \in Int /\ Len(f) = (IF 1 <= n - 1 THEN n - 1 - 1 + 1 ELSE 0) /\ f \in Seq(Y)
    <3>1. 1 \in Int /\ n - 1 \in Int
      BY <1>1
    <3> QED
      BY <2>1, <3>1, SubSeqProperties
  <2> HIDE DEF f, n
  <2> QED
    BY <1>1, <2>2
<1>3. s = Append(f, s[n])
  <2>1. Len(Append(f, s[n])) = n /\ Append(f, s[n]) \in Seq(Y)
    BY <1>1, <1>2
  <2>2. \A i \in 1..n : Append(f, s[n])[i] = s[i]
    <3> SUFFICES ASSUME NEW i \in 1..n PROVE Append(f, s[n])[i] = s[i]
      OBVIOUS
    <3>1. CASE i = n
      BY <1>1, <1>2, <3>1
    <3>2. CASE i # n
      <4>1. i \in 1..(n - 1) /\ f[i] = s[i]
        BY <1>1, <3>2
      <4> HIDE DEF f
      <4> QED
        BY <1>1, <1>2, <4>1
    <3> QED
      BY <3>1, <3>2
  <2> HIDE DEF f
  <2> QED
    BY <1>1, <2>1, <2>2
<1> HIDE DEF f
<1>4. Len(s) = Len(f) + 1
  BY <1>1, <1>2
<1> QED
  BY <1>1, <1>2, <1>3, <1>4

(* The lines of a chunk keep the decoder within it, line by line.          *)
LEMMA LinesGive ==
  ASSUME NEW early, NEW b \in Within(early), NEW s \in Seq(Goes("command_code")), NEW a
  PROVE  LineGives(Within(early), b, s, a)
<1>1. \A d \in Within(early), e \in Goes("command_code") : Line(d, e) \in Within(early)
  BY LineWithin
<1>2. LineAsks(Within(early), Goes("command_code"), b, s)
  <2> HIDE DEF Within, Goes
  <2> QED
    BY <1>1 DEF LineAsks
<1> QED
  BY <1>2, LineAppends

(* Lines that give nothing hold nothing but input that is still pending.   *)
LEMMA OnlyInputsAreSilent ==
  ASSUME NEW early, early, NEW b \in Within(early), NEW s \in Seq(Goes("command_code")),
         FoldLeft(Line, b, s).out = <<>>
  PROVE  \A i \in 1..Len(s) : s[i].type \in Inputs
<1> DEFINE Y == Goes("command_code")
           P(t) == FoldLeft(Line, b, t).out = <<>> => \A i \in 1..Len(t) : t[i].type \in Inputs
           Good == {n \in Nat : \A t \in Seq(Y) : Len(t) = n => P(t)}
<1>1. 0 \in Good
  OBVIOUS
<1>2. ASSUME NEW n \in Nat, n \in Good PROVE n + 1 \in Good
  <2> SUFFICES ASSUME NEW t \in Seq(Y), Len(t) = n + 1, FoldLeft(Line, b, t).out = <<>>
               PROVE  \A i \in 1..Len(t) : t[i].type \in Inputs
    OBVIOUS
  <2>1. t # <<>>
    OBVIOUS
  <2>2. PICK f \in Seq(Y), e \in Y : t = Append(f, e) /\ Len(t) = Len(f) + 1
    <3> HIDE DEF Y
    <3>1. PICK f \in Seq(Y), e \in Y : t = Append(f, e) /\ Len(t) = Len(f) + 1 /\ e = t[Len(t)]
      BY <2>1, Splits
    <3> QED
      BY <3>1
  <2> DEFINE d == FoldLeft(Line, b, f)
  <2>3. d \in Within(early) /\ FoldLeft(Line, b, t) = Line(d, e)
    <3>1. /\ FoldLeft(Line, b, f) \in Within(early)
          /\ FoldLeft(Line, b, Append(f, e)) = Line(FoldLeft(Line, b, f), e)
      <4> HIDE DEF Y
      <4>1. f \in Seq(Goes("command_code"))
        BY DEF Y
      <4>2. LineGives(Within(early), b, f, e)
        BY <4>1, LinesGive
      <4> QED
        BY <4>2 DEF LineGives
    <3> QED
      BY <2>2, <3>1
  <2>4. d.out = <<>> /\ e.type \in Inputs
    <3> HIDE DEF d
    <3> QED
      BY <2>3, LineWithin
  <2>5. Len(f) = n /\ P(f)
    <3>1. Len(f) = n
      BY <2>2
    <3> HIDE DEF P, Y
    <3> QED
      BY <1>2, <3>1
  <2>6. \A i \in 1..n : f[i].type \in Inputs
    BY <2>4, <2>5
  <2> HIDE DEF d, P, Good, Y
  <2> SUFFICES ASSUME NEW i \in 1..n + 1 PROVE t[i].type \in Inputs
    OBVIOUS
  <2>7. CASE i \in 1..n
    <3>1. t[i] = f[i]
      BY <2>2, <2>5, <2>7
    <3> QED
      BY <2>6, <2>7, <3>1
  <2>8. CASE i = n + 1
    <3>1. t[i] = e
      BY <2>2, <2>5, <2>8
    <3> QED
      BY <2>4, <3>1
  <2> QED
    BY <2>7, <2>8
<1> HIDE DEF Good
<1>3. Len(s) \in Nat /\ Len(s) \in Good
  BY <1>1, <1>2, Induction
<1> QED
  BY <1>3 DEF Good


(* One end at most, and that at the end.                                   *)
OneEnd(w) == \A i \in 1..Len(w) : Ends(w[i]) => i = Len(w)

(* What waits is contents, or contents with the end behind them.           *)
LEMMA Parts ==
  ASSUME NEW adapter, NEW w \in Seq(Sayings(adapter)), OneEnd(w)
  PROVE  \/ w \in Seq(Goes(adapter))
         \/ \E f \in Seq(Goes(adapter)), e \in Sayings(adapter) :
              Ends(e) /\ w = Append(f, e) /\ e = w[Len(w)] /\ w # <<>>
<1> DEFINE Y == Sayings(adapter)
           G == Goes(adapter)
<1>1. \A e \in Y : ~Ends(e) => e \in G
  BY DEF Goes
<1>2. G \subseteq Y
  BY DEF Goes
<1> HIDE DEF Y, G
<1>3. CASE \A i \in 1..Len(w) : ~Ends(w[i])
  <2>1. \A i \in 1..Len(w) : w[i] \in G
    BY <1>1, <1>3 DEF Y
  <2>2. w \in Seq(G)
    BY <2>1 DEF Y
  <2> QED
    BY <2>2 DEF G
<1>4. CASE \E i \in 1..Len(w) : Ends(w[i])
  <2>1. w # <<>> /\ Ends(w[Len(w)])
    BY <1>4 DEF OneEnd
  <2>2. PICK f \in Seq(Y), e \in Y : w = Append(f, e) /\ Len(w) = Len(f) + 1 /\ e = w[Len(w)]
    BY <2>1, Splits DEF Y
  <2>3. \A i \in 1..Len(f) : f[i] = w[i] /\ i # Len(w) /\ i \in 1..Len(w) /\ f[i] \in Y
    BY <2>2
  <2>4. \A i \in 1..Len(f) : f[i] \in G
    BY <1>1, <2>3 DEF OneEnd
  <2>5. f \in Seq(G)
    BY <2>2, <2>4
  <2> QED
    BY <2>1, <2>2, <2>5 DEF G, Y
<1> QED
  BY <1>3, <1>4

(* What an adapter makes of w: contents, and what ends them.               *)
Speaks(early, w, d, f) ==
  /\ d.out = f /\ d.finished = decoder.finished
  /\ early /\ f = <<>> => d.emitted = {} /\ \A i \in 1..Len(w) : w[i].type \in Inputs
Concluded(w, d, f) == d.out = Append(f, Done) /\ w # <<>> /\ Ends(w[Len(w)])
Fails(d, f)       == \E e : e.type = "error" /\ d.out = Append(f, e)

Adapted(early, w, d) ==
  /\ [d EXCEPT !.out = <<>>] \in Decoders /\ [d EXCEPT !.out = <<>>].out = <<>>
  /\ [d EXCEPT !.out = <<>>].finished = d.finished /\ [d EXCEPT !.out = <<>>].emitted = d.emitted
  /\ \E f \in Seq(Contents) : Speaks(early, w, d, f) \/ Concluded(w, d, f) \/ Fails(d, f)

(* An event of an OpenAI chat stream before its end is part of the         *)
(* answer.                                                                 *)
LEMMA PlainIsContent ==
  ASSUME NEW e \in Goes("plain")
  PROVE  PlainEvent(e) \in Contents
<1>1. /\ e.type \in {"text", "marker", "endmarker", "think", "begin", "args"}
      /\ e.type \in {"begin", "args"} => e.id \in CallIds
  BY DEF Goes, Sayings, Ends, Inputs
<1>2. CASE e.type \in {"begin", "args"}
  <2>1. \A n \in Int : Ev("tool", e.id, n) \in Contents
    BY <1>1, <1>2, ToolIsContent
  <2>2. Blank \in Int /\ 1 \in Int
    BY DEF Blank
  <2>3. PlainEvent(e) = IF e.type = "begin" THEN Ev("tool", e.id, Blank) ELSE Ev("tool", e.id, 1)
    BY <1>2 DEF PlainEvent
  <2> HIDE DEF Contents
  <2> QED
    BY <2>1, <2>2, <2>3
<1>3. CASE e.type \in {"text", "marker", "endmarker", "think"}
  <2>1. PlainEvent(e) = e
    BY <1>3 DEF PlainEvent
  <2> QED
    BY <1>3, <2>1 DEF Goes, Sayings, Contents
<1> QED
  BY <1>1, <1>2, <1>3

(* Handing over its output changes nothing else in a decoder.              *)
LEMMA DecoderCleared ==
  ASSUME NEW d, NEW o, o \in Decoders, d = [o EXCEPT !.out = d.out]
  PROVE  LET c == [d EXCEPT !.out = <<>>]
         IN  /\ c \in Decoders /\ c.out = <<>> /\ c.finished = d.finished /\ c.emitted = d.emitted
             /\ d.finished = o.finished /\ d.emitted = o.emitted
<1>1. <<>> \in Seq(Contents)
  <2> HIDE DEF Contents
  <2> QED
    OBVIOUS
<1> HIDE DEF Contents
<1> QED
  BY <1>1 DEF Decoders

(* What the adapter of a plain upstream makes of what waits.               *)
LEMMA PlainAdapts ==
  ASSUME NEW early, path.adapter = "plain", decoder \in Decoders, early => decoder.emitted = {},
         NEW w \in Seq(Sayings("plain")), OneEnd(w)
  PROVE  Adapted(early, w, Adapt(w))
<1> DEFINE Plain(t) == [i \in DOMAIN t |-> PlainEvent(t[i])]
           d == Adapt(w)
<1>1. d = [decoder EXCEPT !.out = Plain(w)]
  BY DEF Adapt
<1>2. d.out = Plain(w) /\ d = [decoder EXCEPT !.out = d.out]
  BY <1>1 DEF Decoders
<1>3. \A t \in Seq(Goes("plain")) : Plain(t) \in Seq(Contents)
  <2> SUFFICES ASSUME NEW t \in Seq(Goes("plain")) PROVE Plain(t) \in Seq(Contents)
    OBVIOUS
  <2>1. DOMAIN t = 1..Len(t) /\ Len(t) \in Nat /\ \A i \in 1..Len(t) : t[i] \in Goes("plain")
    <3> HIDE DEF Goes
    <3> QED
      OBVIOUS
  <2>2. \A i \in 1..Len(t) : PlainEvent(t[i]) \in Contents
    BY <2>1, PlainIsContent
  <2> HIDE DEF Contents
  <2> QED
    BY <2>1, <2>2
<1> HIDE DEF d
<1>4. CASE w \in Seq(Goes("plain"))
  <2>1. Plain(w) \in Seq(Contents) /\ (Plain(w) = <<>> => Len(w) = 0)
    <3>1. DOMAIN w = 1..Len(w) /\ Len(w) \in Nat /\ DOMAIN Plain(w) = DOMAIN w
      OBVIOUS
    <3>2. DOMAIN <<>> = {}
      OBVIOUS
    <3>3. Plain(w) = <<>> => Len(w) = 0
      BY <3>1, <3>2
    <3> QED
      BY <1>3, <1>4, <3>3
  <2>2. Speaks(early, w, d, Plain(w))
    <3>1. d.finished = decoder.finished /\ d.emitted = decoder.emitted
      BY <1>2, DecoderCleared
    <3>2. Plain(w) = <<>> => \A i \in 1..Len(w) : w[i].type \in Inputs
      BY <2>1
    <3> HIDE DEF Plain
    <3> QED
      BY <1>2, <3>1, <3>2 DEF Speaks
  <2> HIDE DEF Plain
  <2> QED
    BY <1>2, <2>1, <2>2, DecoderCleared DEF Adapted, d
<1>5. ASSUME NEW f \in Seq(Goes("plain")), NEW e \in Sayings("plain"),
             Ends(e), w = Append(f, e), e = w[Len(w)], w # <<>>
      PROVE  Adapted(early, w, d)
  <2> DEFINE g == Plain(f)
  <2>1. g \in Seq(Contents)
    BY <1>3
  <2>2. Plain(w) = Append(g, PlainEvent(e))
    <3>1. /\ DOMAIN f = 1..Len(f) /\ Len(f) \in Nat /\ DOMAIN g = 1..Len(f)
          /\ DOMAIN w = 1..(Len(f) + 1)
      BY <1>5
    <3>2. Len(g) = Len(f)
      BY <2>1, <3>1
    <3>3. DOMAIN Append(g, PlainEvent(e)) = 1..(Len(f) + 1)
      BY <2>1, <3>2
    <3>4. ASSUME NEW i \in 1..(Len(f) + 1) PROVE Plain(w)[i] = Append(g, PlainEvent(e))[i]
      <4>1. CASE i = Len(f) + 1
        BY <1>5, <2>1, <3>1, <3>2, <4>1
      <4>2. CASE i # Len(f) + 1
        <5>1. i \in 1..Len(f) /\ i \in 1..Len(g)
          BY <3>1, <3>2, <4>2
        <5>2. w[i] = f[i] /\ Append(g, PlainEvent(e))[i] = g[i]
          BY <1>5, <2>1, <5>1
        <5> QED
          BY <3>1, <5>1, <5>2
      <4> QED
        BY <4>1, <4>2
    <3>5. Plain(w) = [i \in 1..(Len(f) + 1) |-> Plain(w)[i]]
      BY <3>1
    <3>6. Append(g, PlainEvent(e)) = [i \in 1..(Len(f) + 1) |-> Append(g, PlainEvent(e))[i]]
      BY <2>1, <3>2, <3>3
    <3> QED
      BY <3>4, <3>5, <3>6
  <2> HIDE DEF g, Plain
  <2>3. CASE e.type = "finish"
    <3>1. PlainEvent(e) = Done
      BY <2>3 DEF PlainEvent, Done
    <3>2. Concluded(w, d, g)
      BY <1>2, <1>5, <2>2, <3>1 DEF Concluded
    <3> QED
      BY <1>2, <2>1, <3>2, DecoderCleared DEF Adapted
  <2>4. CASE e.type = "error"
    <3>1. PlainEvent(e) = e
      BY <2>4 DEF PlainEvent
    <3>2. Fails(d, g)
      BY <1>2, <2>2, <2>4, <3>1 DEF Fails
    <3> QED
      BY <1>2, <2>1, <3>2, DecoderCleared DEF Adapted
  <2> QED
    BY <1>5, <2>3, <2>4 DEF Ends
<1> QED
  BY <1>4, <1>5, Parts DEF d

(* What the decoder of a Command Code upstream makes of what waits.        *)
LEMMA CommandCodeAdapts ==
  ASSUME NEW early, path.adapter = "command_code", decoder \in Decoders, decoder.out = <<>>,
         early => decoder.emitted = {},
         NEW w \in Seq(Sayings("command_code")), OneEnd(w), w # <<>> => ~decoder.finished
  PROVE  Adapted(early, w, Adapt(w))
<1> DEFINE d == Adapt(w)
<1>1. d = FoldLeft(Line, decoder, w)
  <2>1. [decoder EXCEPT !.out = <<>>] = decoder
    BY DEF Decoders
  <2> QED
    BY <2>1 DEF Adapt
<1> HIDE DEF d
<1>2. CASE w = <<>>
  <2>1. LineAsks({decoder}, {}, decoder, w)
    BY <1>2 DEF LineAsks
  <2>2. LineGives({decoder}, decoder, w, w)
    BY <2>1, LineAppends
  <2>3. d = decoder
    BY <1>1, <1>2, <2>2 DEF LineGives
  <2>4. <<>> \in Seq(Contents) /\ d = [decoder EXCEPT !.out = d.out] /\ Len(w) = 0
    BY <1>2, <2>3 DEF Decoders
  <2>5. Speaks(early, w, d, <<>>)
    BY <2>3, <2>4 DEF Speaks
  <2> QED
    BY <2>4, <2>5, DecoderCleared DEF Adapted, d
<1>3. CASE w # <<>>
  <2>1. decoder \in Within(early)
    BY <1>3 DEF Within, Decoders
  <2>2. ASSUME NEW x \in Within(early), NEW y, NEW o, y = [x EXCEPT !.out = o]
        PROVE  y.out = o /\ y = [x EXCEPT !.out = y.out]
    BY <2>2 DEF Within, Decoders
  <2>3. CASE w \in Seq(Goes("command_code"))
    <3>1. LineGives(Within(early), decoder, w, w)
      BY <2>1, <2>3, LinesGive
    <3>2. d \in Within(early)
      BY <1>1, <3>1 DEF LineGives
    <3>3. d \in Decoders /\ d = [d EXCEPT !.out = d.out] /\ d.out \in Seq(Contents) /\ d.finished = FALSE
      BY <3>2, WithinIs DEF Within, Decoders
    <3>4. early /\ d.out = <<>> => d.emitted = {} /\ \A i \in 1..Len(w) : w[i].type \in Inputs
      <4> SUFFICES ASSUME early, d.out = <<>>
                   PROVE  d.emitted = {} /\ \A i \in 1..Len(w) : w[i].type \in Inputs
        OBVIOUS
      <4>1. d.emitted = {}
        BY <3>2, WithinIs
      <4>2. FoldLeft(Line, decoder, w).out = <<>>
        BY <1>1
      <4>3. \A i \in 1..Len(w) : w[i].type \in Inputs
        BY <2>1, <2>3, <4>2, OnlyInputsAreSilent
      <4> QED
        BY <4>1, <4>3
    <3>5. decoder.finished = FALSE
      BY <2>1, WithinIs
    <3>6. Speaks(early, w, d, d.out)
      BY <3>3, <3>4, <3>5 DEF Speaks
    <3> QED
      BY <3>3, <3>6, DecoderCleared DEF Adapted, d
  <2>4. ASSUME NEW f \in Seq(Goes("command_code")), NEW e \in Sayings("command_code"),
               Ends(e), w = Append(f, e), e = w[Len(w)]
        PROVE  Adapted(early, w, d)
    <3> DEFINE x == FoldLeft(Line, decoder, f)
    <3>1. LineGives(Within(early), decoder, f, e)
      BY <2>1, LinesGive
    <3>2. x \in Within(early) /\ d = Line(x, e)
      BY <1>1, <2>4, <3>1 DEF LineGives
    <3> HIDE DEF x
    <3>3. x.finished = FALSE /\ x.out \in Seq(Contents) /\ x \in Decoders
      BY <3>2, WithinIs DEF Within
    <3>4. CASE e.type = "finish"
      <4> DEFINE y == [x EXCEPT !.finished = TRUE]
      <4>1. d = [x EXCEPT !.finished = TRUE, !.out = Append(@, Done)]
        BY <3>2, <3>3, <3>4 DEF Line, LastLine, Done
      <4>2. y \in Decoders /\ d.out = Append(x.out, Done) /\ d = [y EXCEPT !.out = d.out]
        BY <3>3, <4>1 DEF Decoders
      <4> HIDE DEF y
      <4>3. Concluded(w, d, x.out)
        BY <1>3, <2>4, <4>2 DEF Concluded
      <4> QED
        BY <3>3, <4>2, <4>3, DecoderCleared DEF Adapted
    <3>5. CASE e.type = "error"
      <4>1. d = [x EXCEPT !.out = Append(x.out, e)]
        BY <3>2, <3>3, <3>5 DEF Line, LastLine
      <4>2. d.out = Append(x.out, e) /\ d = [x EXCEPT !.out = d.out]
        BY <3>3, <4>1 DEF Decoders
      <4>3. Fails(d, x.out)
        BY <3>5, <4>2 DEF Fails
      <4> QED
        BY <3>3, <4>2, <4>3, DecoderCleared DEF Adapted
    <3> QED
      BY <2>4, <3>4, <3>5 DEF Ends
  <2> QED
    BY <2>3, <2>4, Parts DEF d
<1> QED
  BY <1>2, <1>3 DEF d

(* Contents hold no error, and a token as soon as there are any.           *)
LEMMA ContentsAreNoEnd ==
  ASSUME NEW f \in Seq(Contents), NEW a
  PROVE  /\ ~HasError(f) /\ (FirstToken(f) <=> f # <<>>)
         /\ HasError(Append(f, a)) <=> a.type = "error"
         /\ a.type = "done" => (FirstToken(Append(f, a)) <=> f # <<>>)
<1> DEFINE n == Len(f)
           g == Append(f, a)
<1>1. n \in Nat /\ DOMAIN f = 1..n /\ \A i \in 1..n : f[i] \in Contents
  <2> HIDE DEF Contents
  <2> QED
    OBVIOUS
<1>2. f # <<>> => n # 0
  OBVIOUS
<1>3. \A i \in 1..n : f[i].type # "error" /\ f[i].type # "done"
  BY <1>1 DEF Contents
<1>4. DOMAIN g = 1..(n + 1) /\ g[n + 1] = a /\ \A i \in 1..n : g[i] = f[i]
  <2> HIDE DEF Contents
  <2> QED
    OBVIOUS
<1>5. f = <<>> => n = 0
  OBVIOUS
<1> HIDE DEF g, n
<1>6. \A i \in 1..(n + 1) : i \in 1..n \/ i = n + 1
  BY <1>1
<1>7. n + 1 \in 1..(n + 1) /\ (n # 0 => 1 \in 1..n /\ 1 \in 1..(n + 1)) /\ \A i \in 1..n : i \in 1..(n + 1)
  BY <1>1
<1>8. ~HasError(f)
  BY <1>1, <1>3 DEF HasError, IsError
<1>9. FirstToken(f) <=> f # <<>>
  BY <1>1, <1>2, <1>3, <1>5, <1>7 DEF FirstToken, HasContent
<1>10. HasError(g) <=> a.type = "error"
  BY <1>3, <1>4, <1>6, <1>7 DEF HasError, IsError
<1>11. a.type = "done" => (FirstToken(g) <=> f # <<>>)
  BY <1>1, <1>2, <1>3, <1>4, <1>5, <1>6, <1>7 DEF FirstToken, HasContent
<1> QED
  BY <1>8, <1>9, <1>10, <1>11 DEF g

(* What the converter makes of a chunk.                                    *)
LEMMA ChunkConverted ==
  ASSUME NEW k0 \in Clients, NEW c, Live(k0, Fresh(c)), path.entry \in {"claude", "responses"},
         NEW early, NEW w, NEW d, Adapted(early, w, d)
  PROVE  \/ HasError(d.out)
         \/ /\ ~HasError(d.out) /\ FirstToken(d.out) /\ d.finished = decoder.finished
            /\ Flows(k0, Convert(c, d.out))
         \/ /\ ~HasError(d.out) /\ ~FirstToken(d.out) /\ d.finished = decoder.finished
            /\ d.out = <<>> /\ Convert(c, d.out) = Fresh(c)
            /\ early => d.emitted = {} /\ \A i \in 1..Len(w) : w[i].type \in Inputs
         \/ /\ ~HasError(d.out) /\ Over(k0, Convert(c, d.out)) /\ w # <<>> /\ Ends(w[Len(w)])
            /\ ~FirstToken(d.out) => d.out = <<Done>>
<1>1. PICK f \in Seq(Contents) : Speaks(early, w, d, f) \/ Concluded(w, d, f) \/ Fails(d, f)
  BY DEF Adapted
<1>2. CASE Speaks(early, w, d, f)
  <2>1. /\ d.out = f /\ d.finished = decoder.finished
        /\ early /\ f = <<>> => d.emitted = {} /\ \A i \in 1..Len(w) : w[i].type \in Inputs
    BY <1>2 DEF Speaks
  <2>2. ~HasError(d.out) /\ (FirstToken(d.out) <=> f # <<>>)
    BY <2>1, ContentsAreNoEnd
  <2>3. f = <<>> => Convert(c, d.out) = Fresh(c)
    BY <2>1, ConvertGives
  <2>4. f # <<>> => Flows(k0, Convert(c, d.out))
    BY <2>1, ConvertFlows
  <2> QED
    BY <2>1, <2>2, <2>3, <2>4
<1>3. CASE Concluded(w, d, f)
  <2>1. d.out = Append(f, Done) /\ w # <<>> /\ Ends(w[Len(w)]) /\ Done.type = "done"
    BY <1>3 DEF Concluded, Done, Ev
  <2>2. ~HasError(d.out) /\ (FirstToken(d.out) <=> f # <<>>)
    BY <2>1, ContentsAreNoEnd
  <2>3. f = <<>> => d.out = <<Done>>
    BY <2>1
  <2>4. Over(k0, Convert(c, d.out))
    BY <2>1, ConvertEnds
  <2> QED
    BY <2>1, <2>2, <2>3, <2>4
<1>4. CASE Fails(d, f)
  <2>1. PICK e : e.type = "error" /\ d.out = Append(f, e)
    BY <1>4 DEF Fails
  <2> QED
    BY <2>1, ContentsAreNoEnd
<1> QED
  BY <1>1, <1>2, <1>3, <1>4

-----------------------------------------------------------------------------
(* The invariant.                                                          *)
OnlyInputs == \A i \in 1..arrived : sent[i].type \in Inputs

SentInv ==
  /\ path \in [adapter : AdapterKinds, entry : Entries]
  /\ sent \in Seq(Sayings(path.adapter)) /\ OneEnd(sent)
  /\ arrived \in 0..Len(sent)

PreludeInv ==
  /\ conv = NewConverter /\ understood = NewClient
  /\ \/ kept = <<>> /\ decoder.emitted = {} /\ ~decoder.finished /\ OnlyInputs
     \/ kept = <<Done>> /\ arrived = Len(sent) /\ sent # <<>> /\ Ends(sent[Len(sent)])

LiveInv == kept = <<>> /\ ~decoder.finished /\ conv.out = <<>> /\ Flows(understood, conv)

ClosedInv ==
  /\ understood.ended
  /\ \/ understood.wrong = {}
     \/ understood.wrong = {"unstarted"} /\ path.entry = "claude" /\ OnlyInputs

PhaseInv ==
  /\ phase \in {"prelude", "live", "closed", "cut", "failed_over"}
  /\ decoder \in Decoders /\ decoder.out = <<>> /\ understood \in Clients
  /\ phase = "prelude" => PreludeInv
  /\ phase = "live" => LiveInv
  /\ phase = "closed" => ClosedInv
  /\ phase = "failed_over" => understood = NewClient
  /\ phase = "cut" => ~understood.ended /\ understood.wrong = {}

ConversionInv == SentInv /\ PhaseInv

(* The paths the constants allow are those of the code.                    *)
LEMMA PathIs ==
  ASSUME SentInv
  PROVE  path.adapter \in {"plain", "command_code"} /\ path.entry \in {"claude", "responses"}
BY ConversionAssumption DEF SentInv

(* A new converter fits a new client.                                      *)
LEMMA NewIsLive ==
  /\ NewClient \in Clients /\ Live(NewClient, NewConverter) /\ Fresh(NewConverter) = NewConverter
  /\ ~NewClient.ended /\ NewClient.wrong = {}
<1>1. <<>> \in Seq(Outs) /\ NoInput \in Int
  BY DEF NoInput
<1>2. NewConverter \in Converters /\ Fresh(NewConverter) = NewConverter
  <2>1. [i \in CallIds |-> NoInput] \in [CallIds -> Int] /\ {} \in SUBSET Handles
    BY <1>1
  <2>2. NewConverter \in Converters
    <3> DEFINE t == [i \in CallIds |-> NoInput]
    <3>1. t \in [CallIds -> Int]
      BY <2>1
    <3>2. NewConverter = [started |-> FALSE, finished |-> FALSE, open |-> {}, next |-> 0,
                          tools |-> t, held |-> 0, out |-> <<>>]
      BY DEF NewConverter
    <3> HIDE DEF t
    <3> QED
      BY <1>1, <2>1, <3>1, <3>2 DEF Converters
  <2>3. Fresh(NewConverter) = NewConverter
    <3>1. NewConverter.out = <<>>
      BY DEF NewConverter
    <3> QED
      BY <2>2, <3>1 DEF Fresh, Converters
  <2> QED
    BY <2>2, <2>3
<1>3. <<>> \in Shelves /\ DOMAIN <<>> = {}
  <2>1. <<>> \in [{} -> Blocks] /\ {} \in SUBSET Nat
    OBVIOUS
  <2> QED
    BY <2>1 DEF Shelves
<1>4. NewClient \in Clients /\ NewClient.blocks = <<>> /\ ~NewClient.begun /\ ~NewClient.ended /\ NewClient.wrong = {}
  BY <1>3 DEF NewClient, Clients
<1>5. /\ NewConverter.out = <<>> /\ NewConverter.open = {} /\ NewConverter.next = 0
      /\ ~NewConverter.started /\ ~NewConverter.finished /\ NewConverter.held = 0
      /\ \A i \in CallIds : NewConverter.tools[i] = NoInput
  BY DEF NewConverter
<1>6. Read(NewClient, NewConverter.out) = NewClient
  BY <1>4, <1>5, EmptyIsRead
<1>7. 0..(0 - 1) = {} /\ IsFiniteSet({})
  BY FS_EmptySet
<1>8. Tied(NewConverter, NewClient)
  BY <1>3, <1>4, <1>5, <1>7 DEF Tied
<1> QED
  BY <1>2, <1>4, <1>5, <1>6, <1>8 DEF Live, Sound, ToolsOpen

(* What waits is the rest of what was sent.                                *)
LEMMA WaitingIs ==
  ASSUME SentInv
  PROVE  /\ Waiting \in Seq(Sayings(path.adapter)) /\ OneEnd(Waiting)
         /\ Len(Waiting) = Len(sent) - arrived
         /\ \A i \in 1..Len(Waiting) : Waiting[i] = sent[arrived + i]
         /\ Waiting = <<>> <=> arrived = Len(sent)
<1> DEFINE Y == Sayings(path.adapter)
           n == Len(sent)
<1>1. sent \in Seq(Y) /\ OneEnd(sent) /\ arrived \in 0..n /\ n \in Nat
  BY DEF SentInv
<1> HIDE DEF Y
<1>2. \A i \in 1..n : sent[i] \in Y
  BY <1>1
<1> HIDE DEF n
<1>3. \A i \in (arrived + 1)..n : sent[i] \in Y
  BY <1>1, <1>2
<1>4. /\ Waiting \in Seq(Y)
      /\ Len(Waiting) = IF arrived + 1 <= n THEN n - (arrived + 1) + 1 ELSE 0
      /\ \A i \in 1..(n - (arrived + 1) + 1) : Waiting[i] = sent[(arrived + 1) + i - 1]
  <2>1. arrived + 1 \in Int /\ n \in Int
    BY <1>1
  <2> QED
    BY <1>3, <2>1, SubSeqProperties DEF Waiting, n
<1>5. Len(Waiting) = n - arrived
  BY <1>1, <1>4
<1>6. \A i \in 1..Len(Waiting) : Waiting[i] = sent[arrived + i]
  <2> SUFFICES ASSUME NEW i \in 1..Len(Waiting) PROVE Waiting[i] = sent[arrived + i]
    OBVIOUS
  <2>1. i \in 1..(n - (arrived + 1) + 1) /\ (arrived + 1) + i - 1 = arrived + i
    BY <1>1, <1>5
  <2> QED
    BY <1>4, <2>1
<1>7. OneEnd(Waiting)
  <2> SUFFICES ASSUME NEW i \in 1..Len(Waiting), Ends(Waiting[i]) PROVE i = Len(Waiting)
    BY DEF OneEnd
  <2>1. arrived + i \in 1..n /\ Ends(sent[arrived + i])
    BY <1>1, <1>5, <1>6
  <2>2. arrived + i = n
    BY <1>1, <2>1 DEF OneEnd, n
  <2> QED
    BY <1>1, <1>5, <2>2
<1>8. Waiting = <<>> <=> arrived = n
  <2>1. Waiting = <<>> <=> Len(Waiting) = 0
    BY <1>4
  <2> QED
    BY <1>1, <1>5, <2>1
<1> QED
  BY <1>4, <1>5, <1>6, <1>7, <1>8 DEF n, Y

(* Delivery.                                                               *)
LEMMA DeliversFlow ==
  ASSUME NEW c, Flows(understood, c), Deliver(c), understood \in Clients, path' = path
  PROVE  understood' \in Clients /\ conv'.out = <<>> /\ Flows(understood, conv)'
<1> DEFINE d == Fresh(c)
           k == Read(understood, c.out)
<1>1. Sound(understood, c)
  BY DEF Flows
<1>2. /\ k \in Clients /\ Sound(k, d) /\ d.out = <<>> /\ d.started = c.started
      /\ d.finished = c.finished /\ d.open = c.open /\ d.tools = c.tools
  BY <1>1, DeliveredTied
<1>3. conv' = d /\ understood' = k
  BY DEF Deliver, Fresh, Read
<1> HIDE DEF d, k
<1>4. Flows(k, d)
  BY <1>2 DEF Flows, ToolsOpen
<1>5. Flows(understood', conv')
  BY <1>3, <1>4
<1>6. Flows(understood, conv)'
  BY <1>5 DEF Flows, Sound, Tied, ToolsOpen
<1> QED
  BY <1>2, <1>3, <1>6

(* What ends the answer properly, delivered, ends it for the client.       *)
LEMMA DeliversOver ==
  ASSUME NEW c, Over(understood, c), Deliver(c), understood \in Clients
  PROVE  understood' \in Clients /\ understood'.ended /\ understood'.wrong = {}
<1>1. c.out \in Seq(Outs)
  BY DEF Over, Converters
<1>2. understood' = Read(understood, c.out)
  BY DEF Deliver, Read
<1>3. Read(understood, c.out) \in Clients
  <2> DEFINE e == Told("start", 0, 0)
  <2>1. e \in Outs
    BY DEF Told, Outs, BlockKinds
  <2> HIDE DEF e
  <2> QED
    BY <1>1, <2>1, Reads
<1> QED
  BY <1>2, <1>3 DEF Over

-----------------------------------------------------------------------------
(* The invariant at the start.                                             *)
LEMMA InitHolds ==
  ASSUME ConversionInit
  PROVE  ConversionInv
<1>1. SentInv
  <2>1. <<>> \in Seq(Sayings(path.adapter)) /\ Len(<<>>) = 0
    OBVIOUS
  <2> QED
    BY <2>1 DEF ConversionInit, SentInv, OneEnd
<1>2. NewDecoder \in Decoders /\ NewDecoder.out = <<>> /\ NewDecoder.emitted = {} /\ ~NewDecoder.finished
  <2>1. [i \in CallIds |-> NoInput] \in [CallIds -> Int] /\ <<>> \in Seq(Contents) /\ {} \subseteq CallIds
    <3> HIDE DEF Contents
    <3> QED
      BY DEF NoInput
  <2> DEFINE t == [i \in CallIds |-> NoInput]
  <2>2. t \in [CallIds -> Int]
    BY <2>1
  <2>3. NewDecoder = [pending |-> t, emitted |-> {}, finished |-> FALSE, out |-> <<>>]
    BY DEF NewDecoder
  <2> HIDE DEF t, Contents
  <2> QED
    BY <2>1, <2>2, <2>3 DEF Decoders
<1>3. OnlyInputs
  BY DEF ConversionInit, OnlyInputs
<1>4. PhaseInv
  BY <1>2, <1>3, NewIsLive DEF ConversionInit, PhaseInv, PreludeInv
<1> QED
  BY <1>1, <1>4 DEF ConversionInv

(* What the upstream sends is what its adapter expects.                    *)
LEMMA EventsAreSayings ==
  ASSUME SentInv,
         NEW e \in IF path.adapter = "plain" THEN PlainEvents ELSE CommandCodeEvents
  PROVE  e \in Sayings(path.adapter)
<1>1. /\ path.adapter \in {"plain", "command_code"}
      /\ \A i \in CallIds : i \in Nat
      /\ Inline \in Int /\ Blank \in Int
  BY PathIs, ConversionAssumption DEF Inline, Blank
<1>2. ASSUME NEW t \in Texts(path.entry) \cup {"think", "finish", "error"}
      PROVE  Ev(t, 0, 0) \in Sayings(path.adapter)
  <2>1. t \in {"text", "marker", "endmarker", "think", "finish", "error"}
    BY DEF Texts
  <2> QED
    BY <2>1 DEF Ev, Sayings, Inputs
<1>3. CASE path.adapter = "plain"
  <2>1. CASE e \in {Ev(t, 0, 0) : t \in Texts(path.entry) \cup {"think", "finish", "error"}}
    BY <1>2, <2>1
  <2>2. ASSUME NEW i \in CallIds, e \in {Ev("args", i, 0), Ev("begin", i, 0)}
        PROVE  e \in Sayings(path.adapter)
    BY <1>1, <1>3, <2>2 DEF Ev, Sayings, Inputs, Ends
  <2>3. \/ e \in {Ev(t, 0, 0) : t \in Texts(path.entry) \cup {"think", "finish", "error"}}
        \/ \E i \in CallIds : e \in {Ev("args", i, 0), Ev("begin", i, 0)}
    BY <1>3 DEF PlainEvents
  <2> QED
    BY <2>1, <2>2, <2>3
<1>4. CASE path.adapter = "command_code"
  <2>1. CASE e \in {Ev(t, 0, 0) : t \in Texts(path.entry) \cup {"think", "finish", "error"}}
    BY <1>2, <2>1
  <2>2. ASSUME NEW i \in CallIds,
               e \in {Ev("call", i, Inline), Ev("call", i, Blank), Ev("input_start", i, 0),
                      Ev("input_delta", i, 0), Ev("input_end", i, 0)}
        PROVE  e \in Sayings(path.adapter)
    BY <1>1, <1>4, <2>2 DEF Ev, Sayings, Inputs, Ends
  <2>3. \/ e \in {Ev(t, 0, 0) : t \in Texts(path.entry) \cup {"think", "finish", "error"}}
        \/ \E i \in CallIds :
             e \in {Ev("call", i, Inline), Ev("call", i, Blank), Ev("input_start", i, 0),
                    Ev("input_delta", i, 0), Ev("input_end", i, 0)}
    BY <1>4 DEF CommandCodeEvents
  <2> QED
    BY <2>1, <2>2, <2>3
<1> QED
  BY <1>1, <1>3, <1>4

(* Sending adds to what waits and disturbs nothing else.                   *)
LEMMA SendsHolds ==
  ASSUME ConversionInv, Sends
  PROVE  ConversionInv'
<1>1. PICK e \in IF path.adapter = "plain" THEN PlainEvents ELSE CommandCodeEvents :
        sent' = Append(sent, e)
  BY DEF Sends
<1>2. e \in Sayings(path.adapter)
  BY <1>1, EventsAreSayings DEF ConversionInv
<1> DEFINE Y == Sayings(path.adapter)
           n == Len(sent)
<1>3. /\ sent \in Seq(Y) /\ n \in Nat /\ arrived \in 0..n /\ OneEnd(sent)
      /\ \A i \in 1..n : sent[i] \in Y
  <2>1. sent \in Seq(Y) /\ arrived \in 0..n /\ OneEnd(sent)
    BY DEF ConversionInv, SentInv
  <2> HIDE DEF Y
  <2> QED
    BY <2>1
<1>4. UNCHANGED <<path, arrived, phase, decoder, kept, conv, understood>> /\ ~LastSent
  BY DEF Sends
<1>5. \A i \in 1..n : ~Ends(sent[i])
  <2> SUFFICES ASSUME NEW i \in 1..n, Ends(sent[i]) PROVE FALSE
    OBVIOUS
  <2>1. sent[i] = Ev(sent[i].type, 0, 0) /\ sent[i].type \in {"finish", "error"}
    <3>1. sent[i] \in Y
      BY <1>3
    <3>2. sent[i].id = 0 /\ sent[i].n = 0
      BY <3>1 DEF Sayings
    <3>3. sent[i] = [type |-> sent[i].type, id |-> sent[i].id, n |-> sent[i].n]
      BY <3>1 DEF Sayings
    <3> QED
      BY <3>2, <3>3 DEF Ev, Ends
  <2>2. sent[i] \in Range(sent)
    <3>1. i \in DOMAIN sent
      BY <1>3
    <3> QED
      BY <3>1 DEF Range
  <2> QED
    BY <1>4, <2>1, <2>2 DEF LastSent, HasSent
<1> HIDE DEF Y
<1>6. /\ sent' \in Seq(Y) /\ Len(sent') = n + 1 /\ \A i \in 1..n : sent'[i] = sent[i]
  BY <1>1, <1>2, <1>3 DEF Y
<1> HIDE DEF n
<1>7. OneEnd(sent')
  BY <1>3, <1>5, <1>6 DEF OneEnd
<1>8. SentInv'
  BY <1>3, <1>4, <1>6, <1>7 DEF ConversionInv, SentInv, Y
<1>9. OnlyInputs => OnlyInputs'
  BY <1>3, <1>4, <1>6 DEF OnlyInputs
<1>10. ~(arrived = n /\ sent # <<>> /\ Ends(sent[n]))
  <2>1. sent # <<>> => n # 0
    BY <1>3 DEF n
  <2> QED
    BY <1>3, <1>5, <2>1
<1>11. PhaseInv'
  <2>1. PhaseInv
    BY DEF ConversionInv
  <2>2. PreludeInv => PreludeInv'
    BY <1>4, <1>9, <1>10 DEF PreludeInv, n
  <2>3. LiveInv => LiveInv'
    BY <1>4 DEF LiveInv, Flows, Sound, Tied, ToolsOpen
  <2>4. phase \in {"prelude", "live"}
    BY DEF Sends, Flowing
  <2> QED
    BY <1>4, <2>1, <2>2, <2>3, <2>4 DEF PhaseInv
<1> QED
  BY <1>8, <1>11 DEF ConversionInv

(* Adapting what waits.                                                    *)
LEMMA WaitingAdapted ==
  ASSUME ConversionInv, NEW early, early => decoder.emitted = {},
         decoder.finished => arrived = Len(sent)
  PROVE  Adapted(early, Waiting, Adapt(Waiting))
<1>1. /\ Waiting \in Seq(Sayings(path.adapter)) /\ OneEnd(Waiting)
      /\ Waiting # <<>> => ~decoder.finished
  BY WaitingIs DEF ConversionInv
<1>2. decoder \in Decoders /\ decoder.out = <<>>
  BY DEF ConversionInv, PhaseInv
<1>3. path.adapter = "plain" \/ path.adapter = "command_code"
  BY PathIs DEF ConversionInv
<1> DEFINE w == Waiting
<1>4. w = Waiting
  OBVIOUS
<1> HIDE DEF w
<1>5. CASE path.adapter = "plain"
  <2>1. w \in Seq(Sayings("plain")) /\ OneEnd(w)
    BY <1>1, <1>4, <1>5
  <2>2. Adapted(early, w, Adapt(w))
    BY <1>2, <1>5, <2>1, PlainAdapts
  <2> QED
    BY <1>4, <2>2
<1>6. CASE path.adapter = "command_code"
  <2>1. w \in Seq(Sayings("command_code")) /\ OneEnd(w) /\ (w # <<>> => ~decoder.finished)
    BY <1>1, <1>4, <1>6
  <2>2. Adapted(early, w, Adapt(w))
    BY <1>2, <1>6, <2>1, CommandCodeAdapts
  <2> QED
    BY <1>4, <2>2
<1> QED
  BY <1>3, <1>5, <1>6

(* The decoder that has adapted a chunk is ready for the next.             *)
LEMMA Adopted ==
  ASSUME NEW early, NEW w, NEW d, Adapted(early, w, d), Adopt(d)
  PROVE  /\ decoder' \in Decoders /\ decoder'.out = <<>>
         /\ decoder'.finished = d.finished /\ decoder'.emitted = d.emitted
BY DEF Adapted, Adopt

(* When all that was sent has arrived, the order of what was sent stands.  *)
LEMMA ArrivalSent ==
  ASSUME SentInv, arrived' = Len(sent), UNCHANGED <<path, sent>>
  PROVE  SentInv'
<1>1. Len(sent) \in Nat
  BY DEF SentInv
<1> QED
  BY <1>1 DEF SentInv

(* The last of what waits is the last of what was sent.                    *)
LEMMA LastWaiting ==
  ASSUME SentInv, Waiting # <<>>
  PROVE  sent # <<>> /\ Waiting[Len(Waiting)] = sent[Len(sent)]
<1> DEFINE n == Len(sent)
           m == Len(Waiting)
<1>1. n \in Nat /\ arrived \in 0..n /\ (sent = <<>> => n = 0)
  BY DEF SentInv
<1>2. m = n - arrived /\ arrived # n /\ \A i \in 1..m : Waiting[i] = sent[arrived + i]
  BY WaitingIs
<1> HIDE DEF n, m
<1>3. m \in 1..m /\ arrived + m = n /\ n # 0
  BY <1>1, <1>2
<1> QED
  BY <1>1, <1>2, <1>3 DEF n, m

(* A prelude of pending input alone stays one.                             *)
LEMMA InputsArrived ==
  ASSUME SentInv, OnlyInputs, \A i \in 1..Len(Waiting) : Waiting[i].type \in Inputs,
         arrived' = Len(sent), sent' = sent
  PROVE  OnlyInputs'
<1> DEFINE n == Len(sent)
           m == Len(Waiting)
<1>1. n \in Nat /\ arrived \in 0..n
  BY DEF SentInv
<1>2. m = n - arrived /\ \A i \in 1..m : Waiting[i] = sent[arrived + i] /\ Waiting[i].type \in Inputs
  BY WaitingIs
<1> HIDE DEF m, n
<1>3. ASSUME NEW i \in 1..n PROVE sent[i].type \in Inputs
  <2>1. CASE i <= arrived
    BY <1>1, <2>1 DEF OnlyInputs
  <2>2. CASE ~(i <= arrived)
    <3>1. i - arrived \in 1..m /\ arrived + (i - arrived) = i
      BY <1>1, <1>2, <2>2
    <3> QED
      BY <1>2, <3>1
  <2> QED
    BY <2>1, <2>2
<1> QED
  BY <1>3 DEF OnlyInputs, n

(* Nothing is put before what an adapter gives.                            *)
LEMMA NothingKept ==
  ASSUME NEW early, NEW w, NEW d, Adapted(early, w, d)
  PROVE  <<>> \o d.out = d.out
<1>1. d.out \in Seq(Contents) \/ \E f \in Seq(Contents) : \E a : d.out = Append(f, a)
  BY DEF Adapted, Speaks, Concluded, Fails
<1>2. CASE d.out \in Seq(Contents)
  <2> DEFINE o == d.out
  <2> HIDE DEF Contents, o
  <2>1. <<>> \o o = o
    BY <1>2 DEF o
  <2> QED
    BY <2>1 DEF o
<1>3. ASSUME NEW f \in Seq(Contents), NEW a, d.out = Append(f, a)
      PROVE  <<>> \o d.out = d.out
  <2>1. f \in Seq(Contents \cup {a}) /\ a \in Contents \cup {a}
    <3> HIDE DEF Contents
    <3> QED
      OBVIOUS
  <2> DEFINE Y == Contents \cup {a}
             o == Append(f, a)
  <2> HIDE DEF Y
  <2>2. o \in Seq(Y)
    BY <2>1 DEF Y
  <2> HIDE DEF o
  <2>3. <<>> \o o = o
    BY <2>2
  <2> QED
    BY <1>3, <2>3 DEF o
<1> QED
  BY <1>1, <1>2, <1>3

(* A chunk in the prelude is kept, or goes out with all that was kept.     *)
LEMMA ArrivesInPreludeHolds ==
  ASSUME ConversionInv, Arrives, phase = "prelude"
  PROVE  PhaseInv'
<1> DEFINE d == Adapt(Waiting)
           c == Convert(conv, kept \o d.out)
<1>0. /\ SentInv /\ PhaseInv /\ PreludeInv
  BY DEF ConversionInv, PhaseInv
<1>1. /\ Adopt(d) /\ ArrivesInPrelude(d.out) /\ arrived < Len(sent) /\ arrived' = Len(sent)
      /\ path' = path /\ sent' = sent
  BY DEF Arrives
<1>2. arrived # Len(sent) /\ Len(sent) \in Nat
  BY <1>0, <1>1 DEF SentInv
<1>3. /\ kept = <<>> /\ decoder.emitted = {} /\ ~decoder.finished /\ OnlyInputs
      /\ conv = NewConverter /\ understood = NewClient
  BY <1>0, <1>2 DEF PreludeInv
<1>4. Adapted(TRUE, Waiting, d)
  BY <1>3, WaitingAdapted
<1>5. <<>> \o d.out = d.out
  BY <1>4, NothingKept
<1>6. kept \o d.out = d.out
  BY <1>3, <1>5
<1>7. /\ decoder' \in Decoders /\ decoder'.out = <<>>
      /\ decoder'.finished = d.finished /\ decoder'.emitted = d.emitted
  BY <1>1, <1>4, Adopted
<1>8. Live(understood, Fresh(conv)) /\ understood \in Clients /\ path.entry \in {"claude", "responses"}
  BY <1>0, <1>3, NewIsLive, PathIs
<1> DEFINE x == Convert(conv, d.out)
<1>9. c = x
  BY <1>6
<1>10. \/ HasError(d.out)
       \/ /\ ~HasError(d.out) /\ FirstToken(d.out) /\ d.finished = decoder.finished
          /\ Flows(understood, x)
       \/ /\ ~HasError(d.out) /\ ~FirstToken(d.out) /\ d.finished = decoder.finished
          /\ d.out = <<>>
          /\ d.emitted = {} /\ \A i \in 1..Len(Waiting) : Waiting[i].type \in Inputs
       \/ /\ ~HasError(d.out) /\ Over(understood, x) /\ Waiting # <<>> /\ Ends(Waiting[Len(Waiting)])
          /\ ~FirstToken(d.out) => d.out = <<Done>>
  <2> HIDE DEF d
  <2> QED
    BY <1>4, <1>8, ChunkConverted, Zenon
<1>11. \/ HasError(d.out) /\ phase' = "failed_over" /\ UNCHANGED <<kept, conv, understood>>
       \/ ~HasError(d.out) /\ FirstToken(d.out) /\ After(c) /\ Deliver(c) /\ kept' = <<>>
       \/ /\ ~HasError(d.out) /\ ~FirstToken(d.out)
          /\ kept' = kept \o d.out /\ UNCHANGED <<phase, conv, understood>>
  BY <1>1 DEF ArrivesInPrelude
<1> HIDE DEF d, c, x
<1>12. CASE HasError(d.out)
  <2>1. phase' = "failed_over" /\ understood' = NewClient
    BY <1>3, <1>11, <1>12
  <2> QED
    BY <1>7, <2>1, NewIsLive DEF PhaseInv
<1>13. CASE ~HasError(d.out) /\ FirstToken(d.out) /\ Flows(understood, x) /\ d.finished = decoder.finished
  <2>1. After(x) /\ Deliver(x) /\ kept' = <<>>
    BY <1>9, <1>11, <1>13
  <2>2. phase' = "live"
    BY <1>13, <2>1 DEF After, Flows
  <2>3. understood' \in Clients /\ conv'.out = <<>> /\ Flows(understood, conv)'
    BY <1>1, <1>8, <1>13, <2>1, DeliversFlow
  <2>4. LiveInv'
    BY <1>3, <1>7, <1>13, <2>1, <2>3 DEF LiveInv
  <2> QED
    BY <1>7, <2>2, <2>3, <2>4 DEF PhaseInv
<1>14. CASE ~HasError(d.out) /\ FirstToken(d.out) /\ Over(understood, x)
  <2>1. After(x) /\ Deliver(x) /\ kept' = <<>>
    BY <1>9, <1>11, <1>14
  <2>2. phase' = "closed"
    BY <1>14, <2>1 DEF After, Over
  <2>3. understood' \in Clients /\ understood'.ended /\ understood'.wrong = {}
    BY <1>8, <1>14, <2>1, DeliversOver
  <2> QED
    BY <1>7, <2>2, <2>3 DEF PhaseInv, ClosedInv
<1>15. CASE ~HasError(d.out) /\ ~FirstToken(d.out)
  <2>1. /\ phase' = "prelude" /\ conv' = NewConverter /\ understood' = NewClient
        /\ kept' = d.out
    BY <1>3, <1>6, <1>11, <1>15
  <2>2. PreludeInv'
    <3>1. CASE d.out = <<>> /\ d.emitted = {} /\ d.finished = decoder.finished
               /\ \A i \in 1..Len(Waiting) : Waiting[i].type \in Inputs
      <4>1. OnlyInputs'
        BY <1>0, <1>1, <1>3, <3>1, InputsArrived
      <4> QED
        BY <1>3, <1>7, <2>1, <3>1, <4>1 DEF PreludeInv
    <3>2. CASE d.out = <<Done>> /\ Waiting # <<>> /\ Ends(Waiting[Len(Waiting)])
      <4>1. sent # <<>> /\ Ends(sent[Len(sent)])
        BY <1>0, <3>2, LastWaiting
      <4> QED
        BY <1>1, <2>1, <3>2, <4>1 DEF PreludeInv
    <3> QED
      BY <1>10, <1>15, <3>1, <3>2
  <2> QED
    BY <1>7, <2>1, <2>2, NewIsLive DEF PhaseInv
<1> QED
  BY <1>10, <1>12, <1>13, <1>14, <1>15

(* A live answer as the converter and the client have it.                  *)
LEMMA LiveIs ==
  ASSUME PhaseInv, phase = "live"
  PROVE  /\ kept = <<>> /\ ~decoder.finished /\ conv.started /\ understood \in Clients
         /\ Fresh(conv) = conv /\ Flows(understood, conv) /\ Live(understood, conv)
         /\ ~understood.ended /\ understood.wrong = {}
<1>1. LiveInv /\ understood \in Clients
  BY DEF PhaseInv
<1>2. conv \in Converters /\ conv.out = <<>> /\ Tied(conv, Read(understood, conv.out)) /\ conv.started
  BY <1>1 DEF LiveInv, Flows, Sound
<1>3. Fresh(conv) = conv
  BY <1>2 DEF Fresh, Converters
<1>4. Tied(conv, understood)
  BY <1>1, <1>2, EmptyIsRead
<1>5. ~understood.ended /\ understood.wrong = {}
  BY <1>4 DEF Tied
<1> QED
  BY <1>1, <1>2, <1>3, <1>5 DEF LiveInv, Flows, Live

(* A chunk of a live answer is converted and delivered.                    *)
LEMMA ArrivesLiveHolds ==
  ASSUME ConversionInv, Arrives, phase = "live"
  PROVE  PhaseInv'
<1> DEFINE d == Adapt(Waiting)
           c == IF HasError(d.out) THEN ErrorEvent(conv) ELSE Convert(conv, d.out)
<1>0. SentInv /\ PhaseInv /\ path.entry \in {"claude", "responses"}
  BY PathIs DEF ConversionInv
<1>1. Adopt(d) /\ After(c) /\ Deliver(c) /\ kept' = kept /\ path' = path
  BY DEF Arrives, ArrivesLive
<1>2. /\ kept = <<>> /\ ~decoder.finished /\ conv.started /\ understood \in Clients
      /\ Fresh(conv) = conv /\ Flows(understood, conv) /\ Live(understood, conv)
  BY <1>0, LiveIs
<1>3. Adapted(FALSE, Waiting, d)
  BY <1>2, WaitingAdapted
<1>4. decoder' \in Decoders /\ decoder'.out = <<>> /\ decoder'.finished = d.finished
  BY <1>1, <1>3, Adopted
<1>5. \/ HasError(d.out)
      \/ /\ ~HasError(d.out) /\ FirstToken(d.out) /\ d.finished = decoder.finished
         /\ Flows(understood, Convert(conv, d.out))
      \/ /\ ~HasError(d.out) /\ ~FirstToken(d.out) /\ d.finished = decoder.finished
         /\ d.out = <<>> /\ Convert(conv, d.out) = Fresh(conv)
      \/ ~HasError(d.out) /\ Over(understood, Convert(conv, d.out))
  <2>1. Live(understood, Fresh(conv))
    BY <1>2
  <2> HIDE DEF d
  <2> QED
    BY <1>0, <1>2, <1>3, <2>1, ChunkConverted
<1>6. \/ Over(understood, c)
      \/ Flows(understood, c) /\ d.finished = decoder.finished
  <2>1. CASE HasError(d.out)
    <3>1. Sound(understood, conv)
      BY <1>2 DEF Live
    <3>2. Over(understood, ErrorEvent(conv))
      BY <1>0, <1>2, <3>1, ErrorEventIsOver
    <3> QED
      BY <2>1, <3>2
  <2>2. CASE ~HasError(d.out)
    BY <1>2, <1>5, <2>2
  <2> QED
    BY <2>1, <2>2
<1> HIDE DEF d, c
<1>7. CASE Over(understood, c)
  <2>1. phase' = "closed"
    BY <1>1, <1>7 DEF After, Over
  <2>2. understood' \in Clients /\ understood'.ended /\ understood'.wrong = {}
    BY <1>1, <1>2, <1>7, DeliversOver
  <2> QED
    BY <1>4, <2>1, <2>2 DEF PhaseInv, ClosedInv
<1>8. CASE Flows(understood, c) /\ d.finished = decoder.finished
  <2>1. phase' = "live"
    BY <1>1, <1>8 DEF After, Flows
  <2>2. understood' \in Clients /\ conv'.out = <<>> /\ Flows(understood, conv)'
    BY <1>1, <1>2, <1>8, DeliversFlow
  <2>3. LiveInv'
    BY <1>1, <1>2, <1>4, <1>8, <2>2 DEF LiveInv
  <2> QED
    BY <1>4, <2>1, <2>2, <2>3 DEF PhaseInv
<1> QED
  BY <1>6, <1>7, <1>8

(* The end of the upstream: what the prelude kept holds the end already,   *)
(* or what the unfinished line leaves is finished.                         *)
LEMMA UnfinishedAdapted ==
  ASSUME ConversionInv, decoder.finished => arrived = Len(sent)
  PROVE  \E w : Adapted(FALSE, w, Unfinished)
<1>1. decoder \in Decoders /\ decoder.out = <<>>
  BY DEF ConversionInv, PhaseInv
<1>2. CASE path.adapter = "plain"
  <2>1. Unfinished = decoder
    BY <1>1, <1>2 DEF Unfinished, Decoders
  <2>2. <<>> \in Seq(Contents) /\ decoder = [decoder EXCEPT !.out = decoder.out]
    BY <1>1 DEF Decoders
  <2>3. Speaks(FALSE, <<>>, decoder, <<>>)
    BY <1>1 DEF Speaks
  <2>4. Adapted(FALSE, <<>>, decoder)
    BY <1>1, <2>2, <2>3, DecoderCleared DEF Adapted
  <2> QED
    BY <2>1, <2>4
<1>3. CASE path.adapter # "plain"
  <2>1. Unfinished = Adapt(Waiting)
    BY <1>3 DEF Unfinished
  <2>2. Adapted(FALSE, Waiting, Adapt(Waiting))
    BY WaitingAdapted
  <2> QED
    BY <2>1, <2>2
<1> QED
  BY <1>2, <1>3

(* What a converter that has started or not ends with at the close.        *)
Settled(k0, c, unstarted) ==
  /\ c \in Converters /\ Read(k0, c.out).ended
  /\ \/ Read(k0, c.out).wrong = {}
     \/ Read(k0, c.out).wrong = {"unstarted"} /\ path.entry = "claude" /\ unstarted

(* Nothing put before its output leaves a converter as it is.              *)
LEMMA Prefixed ==
  ASSUME NEW c \in Converters
  PROVE  [c EXCEPT !.out = <<>> \o c.out] = c
<1>1. c.out \in Seq(Outs)
  BY DEF Converters
<1>2. <<>> \o c.out = c.out
  <2> DEFINE o == c.out
  <2> HIDE DEF o, Outs
  <2>1. <<>> \o o = o
    BY <1>1 DEF o
  <2> QED
    BY <2>1 DEF o
<1> QED
  BY <1>2 DEF Converters

(* The end of the body ends the answer, in either phase.                   *)
LEMMA ClosesHolds ==
  ASSUME ConversionInv, Closes
  PROVE  PhaseInv'
<1> DEFINE replayed == Convert(conv, kept)
           d        == Unfinished
           errs     == HasError(d.out)
           told     == Convert(replayed, d.out)
           last(c)  == [c EXCEPT !.out = replayed.out \o c.out]
           final    == CASE replayed.finished -> replayed
                         [] ~replayed.finished /\ errs ->
                              last(ErrorEvent([replayed EXCEPT !.out = <<>>]))
                         [] ~replayed.finished /\ ~errs /\ told.finished -> last(told)
                         [] OTHER -> last(Finish(told))
<1>1. /\ SentInv /\ PhaseInv /\ path.entry \in {"claude", "responses"}
      /\ phase = "live" \/ (phase = "prelude" /\ PreludeInv)
  BY PathIs DEF ConversionInv, PhaseInv, Closes, Flowing
<1>2. /\ Adopt(d) /\ Deliver(final) /\ phase' = "closed"
      /\ path' = path /\ sent' = sent /\ arrived' = arrived
  BY DEF Closes
<1>3. understood \in Clients /\ Live(understood, Fresh(conv))
      /\ (phase = "live" => conv.started /\ Fresh(conv) = conv)
  BY <1>1, LiveIs, NewIsLive DEF PreludeInv
<1>4. decoder.finished => arrived = Len(sent)
  BY <1>1, LiveIs DEF PreludeInv
<1>5. PICK w : Adapted(FALSE, w, d)
  BY <1>4, UnfinishedAdapted
<1>6. decoder' \in Decoders /\ decoder'.out = <<>>
  BY <1>2, <1>5, Adopted
<1>7. Settled(understood, final, OnlyInputs)
  <2>1. CASE kept = <<Done>>
    <3>1. Append(<<>>, Done) = <<Done>> /\ <<>> \in Seq(Contents)
      <4> HIDE DEF Contents
      <4> QED
        OBVIOUS
    <3>2. Over(understood, replayed)
      BY <1>1, <1>3, <2>1, <3>1, ConvertEnds
    <3>3. final = replayed
      <4> HIDE DEF replayed, last, told, errs
      <4> QED
        BY <3>2 DEF Over
    <3> HIDE DEF final
    <3> QED
      BY <3>2, <3>3 DEF Over, Settled
  <2>2. CASE kept = <<>> /\ (phase = "prelude" => OnlyInputs)
    <3>1. replayed = Fresh(conv)
      <4>1. <<>> \in Seq(Contents)
        <5> HIDE DEF Contents
        <5> QED
          OBVIOUS
      <4>2. /\ Convert(conv, <<>>) = Fresh(conv) /\ Live(understood, Convert(conv, <<>>))
            /\ Convert(conv, Append(<<>>, Done)) = Consume(Convert(conv, <<>>), Done)
        BY <1>3, <4>1, ConvertGives
      <4> QED
        BY <2>2, <4>2
    <3>2. /\ replayed.out = <<>> /\ Fresh(replayed) = replayed /\ ~replayed.finished
          /\ Live(understood, replayed) /\ Sound(understood, replayed)
      <4>1. Fresh(conv) \in Converters
        BY <1>3 DEF Live, Sound
      <4>2. Fresh(conv).out = <<>> /\ Fresh(Fresh(conv)) = Fresh(conv)
        BY <4>1 DEF Fresh, Converters
      <4> HIDE DEF replayed
      <4> QED
        BY <1>3, <3>1, <4>2 DEF Live
    <3>3. phase = "live" => replayed.started
      BY <1>3, <3>1
    <3> HIDE DEF replayed
    <3> DEFINE failed == ErrorEvent([replayed EXCEPT !.out = <<>>])
    <3>4. Over(understood, failed)
      <4>1. [replayed EXCEPT !.out = <<>>] = replayed
        BY <3>2 DEF Fresh
      <4> QED
        BY <1>1, <1>3, <3>2, <4>1, ErrorEventIsOver
    <3>5. last(failed) = failed
      <4>1. failed \in Converters
        BY <3>4 DEF Over
      <4> HIDE DEF failed
      <4> QED
        BY <3>2, <4>1, Prefixed
    <3>6. \/ errs
          \/ ~errs /\ Flows(understood, told)
          \/ ~errs /\ told = replayed
          \/ ~errs /\ Over(understood, told)
      <4>1. Live(understood, Fresh(replayed))
        BY <3>2
      <4> HIDE DEF d
      <4> QED
        BY <1>1, <1>3, <1>5, <3>2, <4>1, ChunkConverted
    <3>7. CASE errs
      <4>1. final = last(failed)
        <5> HIDE DEF last, told, errs, failed
        <5>1. final = last(ErrorEvent([replayed EXCEPT !.out = <<>>]))
          BY <3>2, <3>7
        <5> QED
          BY <5>1 DEF failed
      <4> HIDE DEF final, last, failed
      <4> QED
        BY <3>4, <3>5, <4>1 DEF Over, Settled
    <3>8. CASE ~errs /\ Over(understood, told)
      <4>1. final = last(told)
        <5> HIDE DEF last, told, errs
        <5> QED
          BY <3>2, <3>8 DEF Over
      <4>2. last(told) = told
        <5>1. told \in Converters
          BY <3>8 DEF Over
        <5> HIDE DEF told
        <5> QED
          BY <3>2, <5>1, Prefixed
      <4> HIDE DEF final, last, told
      <4> QED
        BY <3>8, <4>1, <4>2 DEF Over, Settled
    <3>9. CASE ~errs /\ ~told.finished /\ Sound(understood, told)
               /\ (told.started \/ OnlyInputs)
      <4> DEFINE x == Finish(told)
      <4>1. final = last(x)
        <5> HIDE DEF last, told, errs, x
        <5>1. final = last(Finish(told))
          BY <3>2, <3>9
        <5> QED
          BY <5>1 DEF x
      <4>2. /\ x \in Converters /\ Read(understood, x.out).ended
            /\ Read(understood, x.out).wrong
                 = IF path.entry = "claude" /\ ~told.started THEN {"unstarted"} ELSE {}
        <5> HIDE DEF told
        <5> QED
          BY <1>1, <1>3, <3>9, FinishIsOver
      <4>3. last(x) = x
        <5> HIDE DEF x
        <5> QED
          BY <3>2, <4>2, Prefixed
      <4> HIDE DEF final, last, x, told
      <4> QED
        BY <3>9, <4>1, <4>2, <4>3 DEF Settled
    <3>10. ~errs /\ Flows(understood, told) => ~told.finished /\ Sound(understood, told) /\ told.started
      <4> HIDE DEF told
      <4> QED
        BY DEF Flows
    <3>11. ~errs /\ told = replayed =>
             ~told.finished /\ Sound(understood, told) /\ (told.started \/ OnlyInputs)
      <4> HIDE DEF told
      <4> QED
        BY <1>1, <2>2, <3>2, <3>3
    <3> HIDE DEF final, errs, told
    <3> QED
      BY <3>6, <3>7, <3>8, <3>9, <3>10, <3>11
  <2> HIDE DEF final
  <2> QED
    BY <1>1, <2>1, <2>2, LiveIs DEF PreludeInv
<1> HIDE DEF final
<1>8. understood' = Read(understood, final.out)
  BY <1>2 DEF Deliver, Read
<1>9. understood' \in Clients
  <2> DEFINE e == Told("start", 0, 0)
  <2>1. e \in Outs /\ final.out \in Seq(Outs)
    <3>1. e \in Outs
      BY DEF Told, Outs, BlockKinds
    <3>2. final.out \in Seq(Outs)
      BY <1>7 DEF Settled, Converters
    <3> QED
      BY <3>1, <3>2
  <2> HIDE DEF e
  <2>2. Read(understood, final.out) \in Clients
    BY <1>3, <2>1, Reads
  <2> QED
    BY <1>8, <2>2
<1>10. ClosedInv'
  BY <1>2, <1>7, <1>8 DEF Settled, ClosedInv, OnlyInputs
<1> QED
  BY <1>2, <1>6, <1>9, <1>10 DEF PhaseInv

(* A chunk that cannot be decoded fails over, or ends the answer as an     *)
(* error.                                                                  *)
LEMMA UndecodableHolds ==
  ASSUME ConversionInv, Undecodable
  PROVE  PhaseInv'
<1>1. /\ SentInv /\ PhaseInv /\ path.entry \in {"claude", "responses"}
      /\ UNCHANGED <<path, sent, arrived, decoder, kept>>
      /\ phase = "prelude" \/ phase = "live"
  BY PathIs DEF ConversionInv, Undecodable, Flowing
<1>2. decoder' \in Decoders /\ decoder'.out = <<>>
  BY <1>1 DEF PhaseInv
<1>3. CASE phase = "prelude"
  <2>1. phase' = "failed_over" /\ understood' = NewClient
    BY <1>1, <1>3 DEF Undecodable, PhaseInv, PreludeInv
  <2> QED
    BY <1>2, <2>1, NewIsLive DEF PhaseInv
<1>4. CASE phase = "live"
  <2> DEFINE c == ErrorEvent([conv EXCEPT !.out = <<>>])
  <2>1. phase' = "closed" /\ Deliver(c)
    BY <1>4 DEF Undecodable
  <2>2. understood \in Clients /\ Fresh(conv) = conv /\ Sound(understood, conv)
    BY <1>1, <1>4, LiveIs DEF Live
  <2>3. Over(understood, c)
    <3>1. c = ErrorEvent(conv)
      BY <2>2 DEF Fresh
    <3> HIDE DEF c
    <3> QED
      BY <1>1, <2>2, <3>1, ErrorEventIsOver
  <2> HIDE DEF c
  <2>4. understood' \in Clients /\ understood'.ended /\ understood'.wrong = {}
    BY <2>1, <2>2, <2>3, DeliversOver
  <2> QED
    BY <1>2, <2>1, <2>4 DEF PhaseInv, ClosedInv
<1> QED
  BY <1>1, <1>3, <1>4

(* Every step keeps the invariant.                                         *)
LEMMA NextHolds ==
  ASSUME ConversionInv, [ConversionNext]_conversionVars
  PROVE  ConversionInv'
<1>1. CASE Sends
  BY <1>1, SendsHolds
<1>2. CASE Arrives
  <2>1. SentInv'
    BY <1>2, ArrivalSent DEF ConversionInv, Arrives
  <2>2. PhaseInv'
    BY <1>2, ArrivesInPreludeHolds, ArrivesLiveHolds DEF Arrives, Flowing
  <2> QED
    BY <2>1, <2>2 DEF ConversionInv
<1>3. ASSUME UNCHANGED <<path, sent, arrived>> PROVE SentInv'
  BY <1>3 DEF ConversionInv, SentInv
<1>4. CASE Closes
  BY <1>3, <1>4, ClosesHolds DEF ConversionInv, Closes
<1>5. CASE BreaksOff
  <2>1. /\ phase = "live" /\ phase' = "cut"
        /\ UNCHANGED <<path, sent, arrived, decoder, kept, conv, understood>>
    BY <1>5 DEF BreaksOff
  <2>2. PhaseInv /\ ~understood.ended /\ understood.wrong = {}
    BY <2>1, LiveIs DEF ConversionInv
  <2>3. PhaseInv'
    BY <2>1, <2>2 DEF PhaseInv
  <2> QED
    BY <1>3, <2>1, <2>3 DEF ConversionInv
<1>6. CASE PreludeTimesOut
  <2>1. /\ phase = "prelude" /\ phase' = "failed_over"
        /\ UNCHANGED <<path, sent, arrived, decoder, kept, conv, understood>>
    BY <1>6 DEF PreludeTimesOut
  <2>2. PhaseInv'
    BY <2>1 DEF ConversionInv, PhaseInv, PreludeInv
  <2> QED
    BY <1>3, <2>1, <2>2 DEF ConversionInv
<1>7. CASE Undecodable
  BY <1>3, <1>7, UndecodableHolds DEF ConversionInv, Undecodable
<1>8. CASE UNCHANGED conversionVars
  <2>1. UNCHANGED <<path, sent, arrived, phase, decoder, kept, conv, understood>>
    BY <1>8 DEF conversionVars
  <2>2. OnlyInputs => OnlyInputs'
    BY <2>1 DEF OnlyInputs
  <2>3. (PreludeInv => PreludeInv') /\ (ClosedInv => ClosedInv')
    BY <2>1, <2>2 DEF PreludeInv, ClosedInv
  <2>4. LiveInv => LiveInv'
    BY <2>1 DEF LiveInv, Flows, Sound, Tied, ToolsOpen
  <2>5. PhaseInv'
    BY <2>1, <2>3, <2>4 DEF ConversionInv, PhaseInv
  <2> QED
    BY <1>3, <2>1, <2>5 DEF ConversionInv
<1> QED
  BY <1>1, <1>2, <1>4, <1>5, <1>6, <1>7, <1>8 DEF ConversionNext

(* Whatever the upstream sends, however it is cut into chunks and however  *)
(* it ends, the client gets a stream its protocol allows                   *)
(* (convert/stream/*, the mapped path of proxy/stream.rs): for any number  *)
(* of events, of calls and of blocks.                                      *)
THEOREM ClientsUnderstand == ConversionSpec => []ClientUnderstands
<1>1. ConversionInit => ConversionInv
  BY InitHolds
<1>2. ConversionInv /\ [ConversionNext]_conversionVars => ConversionInv'
  BY NextHolds
<1>3. ConversionInv => ClientUnderstands
  <2> SUFFICES ASSUME ConversionInv PROVE ClientUnderstands
    OBVIOUS
  <2>1. PhaseInv /\ SentInv /\ ~NewClient.ended /\ NewClient.wrong = {}
    BY NewIsLive DEF ConversionInv
  <2>2. OnlyInputs => \A e \in Range(SubSeq(sent, 1, arrived)) :
                        e.type \in {"input_start", "input_delta", "input_end"}
    <3> DEFINE s == SubSeq(sent, 1, arrived)
               n == Len(sent)
               Y == Sayings(path.adapter)
    <3>1. sent \in Seq(Y) /\ n \in Nat /\ arrived \in 0..n
      BY <2>1 DEF SentInv
    <3> HIDE DEF Y
    <3>2. \A i \in 1..arrived : sent[i] \in Y
      BY <3>1
    <3>3. /\ s \in Seq(Y) /\ Len(s) = (IF 1 <= arrived THEN arrived - 1 + 1 ELSE 0)
          /\ \A i \in 1..(arrived - 1 + 1) : s[i] = sent[1 + i - 1]
      <4>1. 1 \in Int /\ arrived \in Int
        BY <3>1
      <4> QED
        BY <3>2, <4>1, SubSeqProperties
    <3> HIDE DEF s, n
    <3>4. DOMAIN s = 1..arrived /\ \A i \in 1..arrived : s[i] = sent[i]
      BY <3>1, <3>3
    <3> QED
      BY <3>4 DEF Range, OnlyInputs, Inputs, s
  <2>3. understood.wrong = {} \/ (understood.wrong = {"unstarted"} /\ path.entry = "claude" /\ OnlyInputs)
    BY <2>1, LiveIs DEF PhaseInv, PreludeInv, ClosedInv
  <2>4. understood.ended <=> phase = "closed"
    BY <2>1, LiveIs DEF PhaseInv, PreludeInv, ClosedInv
  <2>5. phase \in {"prelude", "failed_over"} => understood = NewClient
    BY <2>1 DEF PhaseInv, PreludeInv
  <2> QED
    BY <2>2, <2>3, <2>4, <2>5 DEF ClientUnderstands
<1> QED
  BY <1>1, <1>2, <1>3, PTL DEF ConversionSpec

-----------------------------------------------------------------------------
(* Part 3: the answer that is streamed is the answer that is not.          *)
(*                                                                         *)
(* What of the whole answer has come in so far, w, is set beside what the  *)
(* converter c knows and the client has collected, t.                      *)
TextTypes == {"text", "marker", "endmarker"}
Wholes == [text : Seq(TextTypes), think : Nat, calls : SUBSET [id : CallIds, n : Int],
           failed : BOOLEAN, pending : [CallIds -> Nat \cup {NoInput}]]

(* The text as the converter of the entry protocol sees it.                *)
Heard(w) ==
  IF path.entry = "claude" THEN [text |-> Len(w.text), calls |-> 0, held |-> 0] ELSE Split(w.text)

(* The calls found in the text.                                            *)
Found(f) == {at \in DOMAIN f : f[at].id = Dsml}

(* The calls of the answer are the calls the client knows, each in the     *)
(* block the converter has for it, and none of them is there twice.        *)
Knows(w, tools, f) ==
  /\ \A i \in CallIds : tools[i] # NoInput <=> HasCall(w, i)
  /\ \A x \in w.calls : /\ tools[x.id] \in DOMAIN f
                        /\ f[tools[x.id]] = [id |-> x.id, n |-> UpToBlank(x.n)]
  /\ \A at \in DOMAIN f : f[at].id \in CallIds => tools[f[at].id] = at
  /\ \A x, y \in w.calls : x.id = y.id => x = y

Says(w, c, t) ==
  /\ Knows(w, c.tools, t.called)
  /\ t.text = Heard(w).text /\ c.held = Heard(w).held
  /\ IsFiniteSet(Found(t.called)) /\ Cardinality(Found(t.called)) = Heard(w).calls
  /\ t.think = IF path.entry = "claude" THEN w.think ELSE 0

(* The decoder has passed on the calls the answer has, and keeps pending   *)
(* the input of the others.                                                *)
Match(w, d) ==
  /\ ~w.failed
  /\ \A i \in CallIds : i \in d.emitted <=> HasCall(w, i)
  /\ \A i \in CallIds : i \notin d.emitted => w.pending[i] = d.pending[i]

(* The parts of a tally that has grown.                                    *)
LEMMA MoreParts ==
  ASSUME NEW k, NEW t, t = Tally(k), NEW n \in Int
  PROVE  LET u == More(t, "text", n)
             h == More(t, "think", n)
         IN  /\ u.text = t.text + n /\ u.think = t.think /\ u.called = t.called
             /\ h.text = t.text /\ h.think = t.think + n /\ h.called = t.called
BY DEF Tally, More

LEMMA CallingParts ==
  ASSUME NEW k, NEW t, t = Tally(k), NEW n \in Int, NEW at, NEW id
  PROVE  LET u == Calling(t, at, id, n)
         IN  /\ u.text = t.text /\ u.think = t.think
             /\ u.called = Extended(t.called, at, [id |-> id, n |-> n])
BY DEF Tally, Calling

(* The same calls are known in the same blocks.                            *)
LEMMA SameCallsKnown ==
  ASSUME NEW w, NEW v, v.calls = w.calls, NEW tools, NEW f, Knows(w, tools, f)
  PROVE  Knows(v, tools, f)
BY DEF Knows, HasCall

(* A call that is new is known by its new block.                           *)
LEMMA NewCallKnown ==
  ASSUME NEW w, NEW v, NEW tools \in [CallIds -> Int], NEW f, DOMAIN f \subseteq Nat,
         Knows(w, tools, f), NEW id \in CallIds, ~HasCall(w, id), w.calls \subseteq [id : CallIds, n : Int],
         NEW at \in Nat, at \notin DOMAIN f, NEW m,
         v.calls = w.calls \cup {[id |-> id, n |-> m]}
  PROVE  Knows(v, [tools EXCEPT ![id] = at], Extended(f, at, [id |-> id, n |-> UpToBlank(m)]))
<1> DEFINE g == Extended(f, at, [id |-> id, n |-> UpToBlank(m)])
           now == [tools EXCEPT ![id] = at]
           x0 == [id |-> id, n |-> m]
<1>1. /\ DOMAIN g = DOMAIN f \cup {at} /\ g[at] = [id |-> id, n |-> UpToBlank(m)]
      /\ \A x \in DOMAIN f : g[x] = f[x]
  BY DEF Extended
<1>2. now[id] = at /\ \A i \in CallIds : i # id => now[i] = tools[i]
  OBVIOUS
<1>3. tools[id] = NoInput /\ NoInput \notin Nat
  BY DEF Knows, NoInput
<1>4. x0.id = id /\ x0.n = m
  OBVIOUS
<1> HIDE DEF g, now, x0
<1>5. v.calls = w.calls \cup {x0}
  BY DEF x0
<1>6. \A x \in w.calls : x.id \in CallIds /\ x.id # id
  BY DEF HasCall
<1>7. \A i \in CallIds : now[i] # NoInput <=> HasCall(v, i)
  <2> SUFFICES ASSUME NEW i \in CallIds PROVE now[i] # NoInput <=> HasCall(v, i)
    OBVIOUS
  <2>1. CASE i = id
    BY <1>2, <1>3, <1>4, <1>5, <2>1 DEF HasCall
  <2>2. CASE i # id
    <3>1. HasCall(v, i) <=> HasCall(w, i)
      BY <1>4, <1>5, <2>2 DEF HasCall
    <3> QED
      BY <1>2, <2>2, <3>1 DEF Knows
  <2> QED
    BY <2>1, <2>2
<1>8. \A x \in v.calls : /\ now[x.id] \in DOMAIN g
                         /\ g[now[x.id]] = [id |-> x.id, n |-> UpToBlank(x.n)]
  <2> SUFFICES ASSUME NEW x \in v.calls
               PROVE  /\ now[x.id] \in DOMAIN g
                      /\ g[now[x.id]] = [id |-> x.id, n |-> UpToBlank(x.n)]
    OBVIOUS
  <2>1. CASE x = x0
    BY <1>1, <1>2, <1>4, <2>1
  <2>2. CASE x \in w.calls
    <3>1. now[x.id] = tools[x.id]
      BY <1>2, <1>6, <2>2
    <3> QED
      BY <1>1, <2>2, <3>1 DEF Knows
  <2> QED
    BY <1>5, <2>1, <2>2
<1>9. \A a \in DOMAIN g : g[a].id \in CallIds => now[g[a].id] = a
  <2> SUFFICES ASSUME NEW a \in DOMAIN g, g[a].id \in CallIds PROVE now[g[a].id] = a
    OBVIOUS
  <2>1. CASE a = at
    BY <1>1, <1>2, <2>1
  <2>2. CASE a # at
    <3>1. a \in DOMAIN f /\ g[a] = f[a]
      BY <1>1, <2>2
    <3>2. tools[g[a].id] = a
      BY <3>1 DEF Knows
    <3>3. g[a].id # id
      BY <1>3, <3>1, <3>2
    <3> QED
      BY <1>2, <3>2, <3>3
  <2> QED
    BY <2>1, <2>2
<1>10. \A x, y \in v.calls : x.id = y.id => x = y
  BY <1>4, <1>5, <1>6 DEF Knows
<1> QED
  BY <1>7, <1>8, <1>9, <1>10 DEF Knows, g, now

(* A call found in the text gets a block of its own and is found.          *)
LEMMA FoundCallKnown ==
  ASSUME NEW w, NEW tools, NEW f, Knows(w, tools, f), NEW at, at \notin DOMAIN f,
         IsFiniteSet(Found(f))
  PROVE  LET g == Extended(f, at, [id |-> Dsml, n |-> 0])
         IN  /\ Knows(w, tools, g)
             /\ IsFiniteSet(Found(g)) /\ Cardinality(Found(g)) = Cardinality(Found(f)) + 1
<1> DEFINE g == Extended(f, at, [id |-> Dsml, n |-> 0])
<1>1. /\ DOMAIN g = DOMAIN f \cup {at} /\ g[at].id = Dsml
      /\ \A x \in DOMAIN f : g[x] = f[x]
  BY DEF Extended
<1>2. Dsml \notin CallIds
  BY ConversionAssumption DEF Dsml
<1> HIDE DEF g
<1>3. Knows(w, tools, g)
  BY <1>1, <1>2 DEF Knows
<1>4. Found(g) = Found(f) \cup {at} /\ at \notin Found(f)
  BY <1>1 DEF Found
<1>5. IsFiniteSet(Found(g)) /\ Cardinality(Found(g)) = Cardinality(Found(f)) + 1
  BY <1>4, FS_AddElement
<1> QED
  BY <1>3, <1>5 DEF g

(* Nothing but the amounts has changed.                                    *)
LEMMA SaysOn ==
  ASSUME NEW w, NEW c, NEW t, Says(w, c, t), NEW v, NEW d, NEW u,
         v.calls = w.calls, d.tools = c.tools, u.called = t.called,
         u.text = Heard(v).text, d.held = Heard(v).held, Heard(v).calls = Heard(w).calls,
         u.think = IF path.entry = "claude" THEN v.think ELSE 0
  PROVE  Says(v, d, u)
BY SameCallsKnown DEF Says

(* The client's blocks have indices the converter has used up.             *)
LEMMA CalledBelow ==
  ASSUME NEW k0 \in Clients, NEW c, Sound(k0, c)
  PROVE  LET f == TallyOf(k0, c).called
         IN  DOMAIN f \subseteq Nat /\ c.next \in Nat /\ c.next \notin DOMAIN f
<1> DEFINE k == Read(k0, c.out)
<1>1. c.next \in Nat /\ DOMAIN k.blocks = 0..(c.next - 1)
  BY SoundIs
<1> HIDE DEF k
<1>2. DOMAIN Tally(k).called \subseteq DOMAIN k.blocks
  BY DEF Tally, Called, OfKind
<1> QED
  BY <1>1, <1>2 DEF TallyOf, k

(* One piece of text more.                                                 *)
Splittings == [text : Nat, calls : Nat, held : Nat]

LEMMA HeardOn ==
  ASSUME NEW w \in Wholes, NEW v, NEW t \in TextTypes, v.text = Append(w.text, t)
  PROVE  /\ Heard(w) \in Splittings
         /\ path.entry = "claude" => /\ Heard(v).text = Heard(w).text + 1
                                     /\ Heard(v).calls = Heard(w).calls /\ Heard(v).held = Heard(w).held
         /\ path.entry # "claude" => Heard(v) = SplitPiece(Heard(w), t)
<1> DEFINE b == [text |-> 0, calls |-> 0, held |-> 0]
<1>1. w.text \in Seq(TextTypes) /\ Len(w.text) \in Nat /\ Len(v.text) = Len(w.text) + 1
  BY DEF Wholes
<1>2. ASSUME NEW x \in Splittings, NEW y \in TextTypes PROVE SplitPiece(x, y) \in Splittings
  <2>1. x.text \in Nat /\ x.calls \in Nat /\ x.held \in Nat
    BY DEF Splittings
  <2>2. \/ SplitPiece(x, y) = [x EXCEPT !.held = 1]
        \/ SplitPiece(x, y) = [x EXCEPT !.text = x.text + 1]
        \/ SplitPiece(x, y) = [x EXCEPT !.held = 0, !.calls = x.calls + 1]
        \/ SplitPiece(x, y) = [x EXCEPT !.held = x.held + 1]
    BY <2>1 DEF SplitPiece
  <2>3. 1 \in Nat /\ 0 \in Nat /\ x.text + 1 \in Nat /\ x.calls + 1 \in Nat /\ x.held + 1 \in Nat
    BY <2>1
  <2>4. \A n, m \in Nat : /\ [x EXCEPT !.held = n] \in Splittings /\ [x EXCEPT !.text = n] \in Splittings
                           /\ [x EXCEPT !.held = n, !.calls = m] \in Splittings
    BY DEF Splittings
  <2> HIDE DEF Splittings
  <2> QED
    BY <2>2, <2>3, <2>4
<1>3. b \in Splittings
  BY DEF Splittings
<1> HIDE DEF b
<1>4. SplitPieceAsks(Splittings, TextTypes, b, w.text)
  BY <1>1, <1>2, <1>3 DEF SplitPieceAsks
<1>5. SplitPieceGives(Splittings, b, w.text, t)
  BY <1>4, SplitPieceAppends
<1>6. Split(w.text) \in Splittings /\ Split(v.text) = SplitPiece(Split(w.text), t)
  BY <1>5 DEF SplitPieceGives, Split, b
<1>7. [text |-> Len(w.text), calls |-> 0, held |-> 0] \in Splittings
  BY <1>1 DEF Splittings
<1> QED
  BY <1>1, <1>6, <1>7 DEF Heard

(* A converter that has been told more and written nothing but text.       *)
LEMMA TextSays ==
  ASSUME NEW k0 \in Clients, NEW c, Flows(k0, c), NEW w, NEW v, Says(w, c, TallyOf(k0, c)),
         v.calls = w.calls, v.think = w.think, Heard(v).text = Heard(w).text + 1,
         Heard(v).calls = Heard(w).calls, Heard(v).held = Heard(w).held
  PROVE  Says(v, Text(c, 1), TallyOf(k0, Text(c, 1)))
<1> DEFINE d == Text(c, 1)
           t == TallyOf(k0, c)
           u == TallyOf(k0, d)
<1>1. Alike(d, c) /\ u = More(t, "text", 1)
  BY TextFlows
<1>2. u.text = t.text + 1 /\ u.think = t.think /\ u.called = t.called
  BY <1>1, MoreParts DEF TallyOf
<1> HIDE DEF d, t, u
<1>3. d.tools = c.tools /\ d.held = c.held
  BY <1>1 DEF Alike
<1>4. /\ u.text = Heard(v).text /\ d.held = Heard(v).held
      /\ u.think = IF path.entry = "claude" THEN v.think ELSE 0
  BY <1>2, <1>3 DEF Says, t
<1>5. Says(w, c, t)
  BY DEF t
<1>6. Says(v, d, u)
  BY <1>2, <1>3, <1>4, <1>5, SaysOn
<1> QED
  BY <1>6 DEF d, u

(* Text on the Responses side, which looks for calls in it.                *)
LEMMA DsmlSays ==
  ASSUME NEW k0 \in Clients, NEW c, Flows(k0, c), NEW w \in Wholes, NEW v,
         Says(w, c, TallyOf(k0, c)), path.entry # "claude", NEW type \in TextTypes,
         v.text = Append(w.text, type), v.calls = w.calls, v.think = w.think
  PROVE  Says(v, DsmlText(c, type), TallyOf(k0, DsmlText(c, type)))
<1> DEFINE t == TallyOf(k0, c)
           d == DsmlText(c, type)
           u == TallyOf(k0, d)
           h == Heard(w)
<1>1. h \in Splittings /\ Heard(v) = SplitPiece(h, type)
  BY HeardOn
<1> HIDE DEF h
<1>2. h.text \in Nat /\ h.calls \in Nat /\ h.held \in Nat /\ c.held = h.held
  BY <1>1 DEF Splittings, Says, h
<1>3. Sound(k0, c) /\ c.started
  BY DEF Flows
<1>4. ASSUME NEW n \in Nat, d = [c EXCEPT !.held = n], Heard(v).held = n,
             Heard(v).text = h.text, Heard(v).calls = h.calls
      PROVE  Says(v, d, u)
  <2>1. HoldsOnly(k0, d, c, n)
    BY <1>3, <1>4, HeldTied
  <2>2. d.held = n /\ d.tools = c.tools /\ u = t
    BY <2>1 DEF HoldsOnly, TallyOf
  <2> HIDE DEF d, u, t
  <2>3. Says(w, c, t)
    BY DEF t
  <2>4. t.text = h.text /\ t.think = 0
    BY <2>3 DEF Says, h
  <2>5. Says(v, d, u)
    BY <1>4, <2>2, <2>3, <2>4, SaysOn DEF h
  <2> QED
    BY <2>5 DEF u, d
<1>5. CASE h.held = 0 /\ type = "marker"
  <2>1. Heard(v).held = 1 /\ Heard(v).text = h.text /\ Heard(v).calls = h.calls
    BY <1>1, <1>5 DEF SplitPiece, Splittings
  <2>2. d = [c EXCEPT !.held = 1]
    BY <1>2, <1>5 DEF DsmlText
  <2> QED
    BY <1>4, <2>1, <2>2
<1>6. CASE h.held = 0 /\ type # "marker"
  <2>1. /\ Heard(v).text = Heard(w).text + 1
        /\ Heard(v).calls = Heard(w).calls /\ Heard(v).held = Heard(w).held
    BY <1>1, <1>6 DEF SplitPiece, Splittings, h
  <2>2. d = Text(c, 1)
    BY <1>2, <1>6 DEF DsmlText
  <2> QED
    BY <2>1, <2>2, TextSays
<1>7. CASE h.held > 0 /\ type = "endmarker"
  <2>1. Heard(v).held = 0 /\ Heard(v).text = h.text /\ Heard(v).calls = h.calls + 1
    BY <1>1, <1>2, <1>7 DEF SplitPiece, Splittings
  <2>2. d = DsmlCall(c)
    BY <1>2, <1>7 DEF DsmlText
  <2> DEFINE f == t.called
  <2>3. d.tools = c.tools /\ d.held = 0 /\ u = Calling(t, c.next, Dsml, 0)
    BY <2>2, DsmlCallFlows
  <2>4. u.text = t.text /\ u.think = t.think /\ u.called = Extended(f, c.next, [id |-> Dsml, n |-> 0])
    <3> DEFINE k == Read(k0, c.out)
               at == c.next
    <3>1. t = Tally(k) /\ 0 \in Int
      BY DEF TallyOf
    <3> HIDE DEF k, t, u
    <3>3. u = Calling(t, at, Dsml, 0)
      BY <2>3
    <3> HIDE DEF at
    <3>2. LET x == Calling(t, at, Dsml, 0)
          IN  x.text = t.text /\ x.think = t.think /\ x.called = Extended(t.called, at, [id |-> Dsml, n |-> 0])
      BY <3>1 DEF Calling, Tally
    <3> QED
      BY <3>2, <3>3 DEF at
  <2>5. c.next \notin DOMAIN f
    BY <1>3, CalledBelow
  <2>6. Says(w, c, t)
    OBVIOUS
  <2> HIDE DEF d, u, t, f
  <2>7. /\ Knows(w, c.tools, f) /\ IsFiniteSet(Found(f)) /\ Cardinality(Found(f)) = h.calls
        /\ t.text = h.text /\ t.think = 0
    BY <2>6 DEF Says, f, h
  <2>8. /\ Knows(w, c.tools, u.called) /\ IsFiniteSet(Found(u.called))
        /\ Cardinality(Found(u.called)) = Cardinality(Found(f)) + 1
    BY <2>4, <2>5, <2>7, FoundCallKnown
  <2>9. Knows(v, d.tools, u.called)
    BY <2>3, <2>8, SameCallsKnown
  <2>10. Cardinality(Found(u.called)) = Heard(v).calls /\ u.text = Heard(v).text
         /\ d.held = Heard(v).held /\ u.think = 0
    BY <2>1, <2>3, <2>4, <2>7, <2>8
  <2>11. Says(v, d, u)
    BY <2>8, <2>9, <2>10 DEF Says
  <2> QED
    BY <2>11 DEF u, d
<1>8. CASE h.held > 0 /\ type # "endmarker"
  <2>1. /\ Heard(v).held = h.held + 1 /\ Heard(v).text = h.text /\ Heard(v).calls = h.calls
        /\ h.held + 1 \in Nat
    BY <1>1, <1>2, <1>8 DEF SplitPiece, Splittings
  <2>2. d = [c EXCEPT !.held = h.held + 1]
    <3>1. d = [c EXCEPT !.held = c.held + 1]
      BY <1>2, <1>8 DEF DsmlText
    <3> QED
      BY <1>2, <3>1
  <2> QED
    BY <1>4, <2>1, <2>2
<1> QED
  BY <1>2, <1>5, <1>6, <1>7, <1>8

(* The start of the answer says nothing of it.                             *)
LEMMA StartSays ==
  ASSUME NEW k0 \in Clients, NEW c, Sound(k0, c), NEW w, Says(w, c, TallyOf(k0, c))
  PROVE  Says(w, EnsureStart(c), TallyOf(k0, EnsureStart(c)))
<1> DEFINE d == EnsureStart(c)
           t == TallyOf(k0, c)
           u == TallyOf(k0, d)
<1>1. u = t /\ d.tools = c.tools /\ d.held = c.held
  BY Starts
<1>2. Says(w, c, t)
  OBVIOUS
<1> HIDE DEF d, t, u
<1>3. Says(w, d, u)
  BY <1>1, <1>2 DEF Says
<1> QED
  BY <1>3 DEF d, u

(* A call goes out under the next index.                                   *)
LEMMA ToolSays ==
  ASSUME NEW k0 \in Clients, NEW c, Flows(k0, c), NEW w \in Wholes, NEW v,
         Says(w, c, TallyOf(k0, c)), NEW id \in CallIds, ~HasCall(w, id), NEW m \in Int,
         v.calls = w.calls \cup {[id |-> id, n |-> m]}, v.text = w.text, v.think = w.think
  PROVE  Says(v, Tool(c, id, UpToBlank(m)), TallyOf(k0, Tool(c, id, UpToBlank(m))))
<1> DEFINE n == UpToBlank(m)
           d == Tool(c, id, n)
           t == TallyOf(k0, c)
           u == TallyOf(k0, d)
           at == c.next
           f == t.called
           now == [c.tools EXCEPT ![id] = at]
<1>1. n \in Int /\ n # Blank
  BY DEF UpToBlank, Blank, Braces
<1> HIDE DEF n
<1>2. Says(w, c, t)
  OBVIOUS
<1>3. /\ Knows(w, c.tools, f) /\ t.text = Heard(w).text /\ c.held = Heard(w).held
      /\ IsFiniteSet(Found(f)) /\ Cardinality(Found(f)) = Heard(w).calls
      /\ t.think = IF path.entry = "claude" THEN w.think ELSE 0
  BY <1>2 DEF Says
<1>4. c.tools[id] = NoInput
  BY <1>3 DEF Knows
<1>5. d.tools = now /\ d.held = c.held /\ u = Calling(t, at, id, n)
  BY <1>1, <1>4, ToolFlows
<1>6. Sound(k0, c) /\ c.tools \in [CallIds -> Int]
  BY DEF Flows, Sound, Converters
<1>7. DOMAIN f \subseteq Nat /\ at \in Nat /\ at \notin DOMAIN f
  BY <1>6, CalledBelow
<1>8. t = Tally(Read(k0, c.out))
  BY DEF TallyOf
<1> HIDE DEF d, u, t, at
<1>9. u.text = t.text /\ u.think = t.think /\ u.called = Extended(f, at, [id |-> id, n |-> n])
  BY <1>5, <1>8 DEF Calling, Tally
<1> HIDE DEF f
<1>10. w.calls \subseteq [id : CallIds, n : Int]
  BY DEF Wholes
<1>11. Knows(v, now, Extended(f, at, [id |-> id, n |-> n]))
  BY <1>3, <1>6, <1>7, <1>10, NewCallKnown DEF n
<1>12. Found(u.called) = Found(f)
  <2> DEFINE g == Extended(f, at, [id |-> id, n |-> n])
  <2>1. DOMAIN g = DOMAIN f \cup {at} /\ g[at].id = id /\ \A x \in DOMAIN f : g[x] = f[x]
    BY <1>7 DEF Extended
  <2>2. id # Dsml
    BY ConversionAssumption DEF Dsml
  <2>3. u.called = g
    BY <1>9
  <2> HIDE DEF g
  <2> QED
    BY <1>7, <2>1, <2>2, <2>3 DEF Found
<1>13. Heard(v) = Heard(w)
  BY DEF Heard
<1> HIDE DEF now
<1>14. Says(v, d, u)
  BY <1>3, <1>5, <1>9, <1>11, <1>12, <1>13 DEF Says
<1> QED
  BY <1>14 DEF d, u, n

(* What one event of the adapter adds to the whole answer.                 *)
Fits(w, v, x) ==
  /\ x.type \in TextTypes => v.text = Append(w.text, x.type) /\ v.think = w.think /\ v.calls = w.calls
  /\ x.type = "think" => v.text = w.text /\ v.think = w.think + 1 /\ v.calls = w.calls
  /\ x.type = "tool" => /\ v.text = w.text /\ v.think = w.think /\ ~HasCall(w, x.id)
                        /\ \E m \in Int : /\ x.n = UpToBlank(m)
                                          /\ v.calls = w.calls \cup {[id |-> x.id, n |-> m]}

(* Thinking goes out on the Claude side only.                              *)
LEMMA ThinkSays ==
  ASSUME NEW k0 \in Clients, NEW c, Flows(k0, c), path.entry = "claude", NEW w, NEW v,
         Says(w, c, TallyOf(k0, c)), v.text = w.text, v.think = w.think + 1, v.calls = w.calls
  PROVE  Says(v, Thinking(c), TallyOf(k0, Thinking(c)))
<1> DEFINE d == Thinking(c)
           t == TallyOf(k0, c)
           u == TallyOf(k0, d)
<1>1. Alike(d, c) /\ u = More(t, "think", 1)
  BY ThinkingFlows
<1>2. u.text = t.text /\ u.think = t.think + 1 /\ u.called = t.called
  BY <1>1, MoreParts DEF TallyOf
<1>3. Says(w, c, t)
  OBVIOUS
<1> HIDE DEF d, t, u
<1>4. Heard(v) = Heard(w)
  BY DEF Heard
<1>5. /\ d.tools = c.tools /\ u.text = Heard(v).text /\ d.held = Heard(v).held
      /\ Heard(v).calls = Heard(w).calls
      /\ u.think = IF path.entry = "claude" THEN v.think ELSE 0
  BY <1>1, <1>2, <1>3, <1>4 DEF Alike, Says
<1>6. Says(v, d, u)
  BY <1>2, <1>3, <1>5, SaysOn
<1> QED
  BY <1>6 DEF d, u

(* The converter says what the adapter has passed on.                      *)
LEMMA ConsumeSays ==
  ASSUME NEW k0 \in Clients, NEW c, Live(k0, c), NEW w \in Wholes, NEW v, NEW x \in Contents,
         Fits(w, v, x), Says(w, c, TallyOf(k0, c))
  PROVE  Says(v, Consume(c, x), TallyOf(k0, Consume(c, x)))
<1> DEFINE s == EnsureStart(c)
<1>1. Flows(k0, s) /\ Sound(k0, c)
  BY StartFlows DEF Live
<1>2. Says(w, s, TallyOf(k0, s))
  BY <1>1, StartSays
<1>3. /\ x.type \in TextTypes \cup {"think", "tool"} /\ x.type # "done"
      /\ x.type = "tool" => x.id \in CallIds
  BY DEF Contents, TextTypes
<1> HIDE DEF Contents
<1>4. ASSUME x.type = "tool" PROVE Says(v, Tool(s, x.id, x.n), TallyOf(k0, Tool(s, x.id, x.n)))
  <2>1. PICK m \in Int : x.n = UpToBlank(m) /\ v.calls = w.calls \cup {[id |-> x.id, n |-> m]}
    BY <1>4 DEF Fits
  <2> DEFINE id == x.id
  <2>2. id \in CallIds /\ ~HasCall(w, id) /\ v.text = w.text /\ v.think = w.think
    BY <1>3, <1>4 DEF Fits
  <2>3. v.calls = w.calls \cup {[id |-> id, n |-> m]}
    BY <2>1
  <2> HIDE DEF s, id
  <2>4. Says(v, Tool(s, id, UpToBlank(m)), TallyOf(k0, Tool(s, id, UpToBlank(m))))
    BY <1>1, <1>2, <2>2, <2>3, ToolSays
  <2> QED
    BY <2>1, <2>4 DEF id
<1>5. CASE path.entry = "claude"
  <2>1. Consume(c, x) = ConsumeClaude(c, x)
    BY <1>3, <1>5 DEF Consume
  <2>2. ConsumeClaude(c, x) = CASE x.type = "think" -> Thinking(s)
                                [] x.type = "tool"  -> Tool(s, x.id, x.n)
                                [] OTHER            -> Text(s, 1)
    BY DEF ConsumeClaude
  <2> HIDE DEF s
  <2>3. CASE x.type = "think"
    <3>1. Says(v, Thinking(s), TallyOf(k0, Thinking(s)))
      BY <1>1, <1>2, <1>5, <2>3, ThinkSays DEF Fits
    <3> QED
      BY <2>1, <2>2, <2>3, <3>1
  <2>4. CASE x.type = "tool"
    BY <1>4, <2>1, <2>2, <2>4
  <2>5. CASE x.type \in TextTypes
    <3>1. v.text = Append(w.text, x.type) /\ v.think = w.think /\ v.calls = w.calls
      BY <2>5 DEF Fits
    <3> DEFINE type == x.type
    <3>2. v.text = Append(w.text, type) /\ type \in TextTypes
      BY <2>5, <3>1
    <3> HIDE DEF type
    <3>3. Heard(v).text = Heard(w).text + 1 /\ Heard(v).calls = Heard(w).calls /\ Heard(v).held = Heard(w).held
      BY <1>5, <3>2, HeardOn
    <3>4. Says(v, Text(s, 1), TallyOf(k0, Text(s, 1)))
      BY <1>1, <1>2, <3>1, <3>3, TextSays
    <3> QED
      BY <2>1, <2>2, <2>5, <3>4 DEF TextTypes
  <2> QED
    BY <1>3, <2>3, <2>4, <2>5
<1>6. CASE path.entry # "claude"
  <2>1. Consume(c, x) = ConsumeResponses(c, x)
    BY <1>3, <1>6 DEF Consume
  <2>2. ConsumeResponses(c, x) = CASE x.type = "think" -> s
                                   [] x.type = "tool"  -> Tool(s, x.id, x.n)
                                   [] OTHER            -> DsmlText(s, x.type)
    BY DEF ConsumeResponses
  <2> HIDE DEF s
  <2>3. CASE x.type = "think"
    <3> DEFINE t == TallyOf(k0, s)
    <3>1. v.text = w.text /\ v.calls = w.calls
      BY <2>3 DEF Fits
    <3>2. Heard(v) = Heard(w)
      BY <3>1 DEF Heard
    <3>3. Says(w, s, t)
      BY <1>2
    <3> HIDE DEF t
    <3>4. /\ t.text = Heard(v).text /\ s.held = Heard(v).held /\ Heard(v).calls = Heard(w).calls
          /\ t.think = IF path.entry = "claude" THEN v.think ELSE 0
      BY <1>6, <3>2, <3>3 DEF Says
    <3>5. Says(v, s, t)
      BY <3>1, <3>3, <3>4, SaysOn
    <3> QED
      BY <2>1, <2>2, <2>3, <3>5 DEF t
  <2>4. CASE x.type = "tool"
    BY <1>4, <2>1, <2>2, <2>4
  <2>5. CASE x.type \in TextTypes
    <3>1. v.text = Append(w.text, x.type) /\ v.think = w.think /\ v.calls = w.calls
      BY <2>5 DEF Fits
    <3> DEFINE type == x.type
    <3>2. v.text = Append(w.text, type) /\ type \in TextTypes
      BY <2>5, <3>1
    <3> HIDE DEF type
    <3>3. Says(v, DsmlText(s, type), TallyOf(k0, DsmlText(s, type)))
      BY <1>1, <1>2, <1>6, <3>1, <3>2, DsmlSays
    <3> QED
      BY <2>1, <2>2, <2>5, <3>3 DEF TextTypes, type
  <2> QED
    BY <1>3, <2>3, <2>4, <2>5
<1> QED
  BY <1>5, <1>6

(* The decoder goes from d to b while the whole answer goes from w to v.   *)
Follows(w, v, d, b) ==
  /\ v \in Wholes /\ Match(v, b)
  /\ \/ b.out = d.out /\ v.text = w.text /\ v.think = w.think /\ v.calls = w.calls
     \/ \E x \in Contents : b.out = Append(d.out, x) /\ Fits(w, v, x)

(* Input of a call that is pending, or no longer so.                       *)
LEMMA PendingFollows ==
  ASSUME NEW w \in Wholes, NEW d \in Decoders, Match(w, d), NEW id \in CallIds,
         NEW p \in Nat \cup {NoInput}, NEW q \in Int, id \notin d.emitted => p = q,
         NEW v, v = [w EXCEPT !.pending[id] = p], NEW b, b = [d EXCEPT !.pending[id] = q]
  PROVE  /\ Follows(w, v, d, b) /\ v.text = w.text /\ v.think = w.think /\ v.calls = w.calls
         /\ b \in Decoders /\ b.out = d.out /\ b.emitted = d.emitted
         /\ id \in d.emitted => Follows(w, w, d, b)
<1>1. w.pending \in [CallIds -> Nat \cup {NoInput}] /\ d.pending \in [CallIds -> Int]
  BY DEF Wholes, Decoders
<1>2. /\ v \in Wholes /\ v.text = w.text /\ v.think = w.think /\ v.calls = w.calls /\ v.failed = w.failed
      /\ v.pending[id] = p /\ \A i \in CallIds : i # id => v.pending[i] = w.pending[i]
  BY <1>1 DEF Wholes
<1>3. /\ b.out = d.out /\ b.emitted = d.emitted /\ b.finished = d.finished
      /\ b.pending[id] = q /\ \A i \in CallIds : i # id => b.pending[i] = d.pending[i]
  BY <1>1 DEF Decoders
<1>4. b \in Decoders
  BY <1>1 DEF Decoders
<1>5. \A i : HasCall(v, i) <=> HasCall(w, i)
  BY <1>2 DEF HasCall
<1>6. Match(v, b)
  <2>1. ASSUME NEW i \in CallIds, i \notin b.emitted PROVE v.pending[i] = b.pending[i]
    BY <1>2, <1>3, <2>1 DEF Match
  <2> QED
    BY <1>2, <1>3, <1>5, <2>1 DEF Match
<1>7. id \in d.emitted => Match(w, b)
  BY <1>3 DEF Match
<1> QED
  BY <1>2, <1>3, <1>4, <1>6, <1>7 DEF Follows

(* A call is passed on that the answer has from now on.                    *)
LEMMA EmitFollows ==
  ASSUME NEW w \in Wholes, NEW d \in Decoders, Match(w, d), NEW id \in CallIds,
         id \notin d.emitted, NEW m \in Int
  PROVE  Follows(w, AddCall(w, id, m), d, EmitToolCall(d, id, UpToBlank(m)))
<1> DEFINE n == UpToBlank(m)
           v == AddCall(w, id, m)
           b == EmitToolCall(d, id, n)
           y == [id |-> id, n |-> m]
           x == Ev("tool", id, n)
<1>1. n \in Int /\ id \in Nat
  BY ConversionAssumption DEF UpToBlank, Braces
<1> HIDE DEF n
<1>2. x \in Contents /\ x.type = "tool" /\ x.id = id /\ x.n = n
  BY <1>1 DEF Contents, Ev
<1>3. y \in [id : CallIds, n : Int] /\ y.id = id
  OBVIOUS
<1>4. /\ v.text = w.text /\ v.think = w.think /\ v.calls = w.calls \cup {y}
      /\ v.failed = w.failed /\ v.pending = w.pending
  BY DEF AddCall, Wholes
<1>5. v \in Wholes
  BY <1>3 DEF AddCall, Wholes
<1> HIDE DEF x
<1>6. b.emitted = d.emitted \cup {id} /\ b.pending = d.pending /\ b.out = Append(d.out, x)
  BY DEF EmitToolCall, Decoders, x
<1> HIDE DEF v, b
<1>7. ~HasCall(w, id)
  BY DEF Match
<1>8. Fits(w, v, x)
  BY <1>2, <1>4, <1>7 DEF Fits, n, TextTypes
<1> HIDE DEF y
<1>9. \A i : HasCall(v, i) <=> HasCall(w, i) \/ i = id
  BY <1>3, <1>4 DEF HasCall
<1>10. Match(v, b)
  BY <1>4, <1>6, <1>9 DEF Match
<1>11. Follows(w, v, d, b)
  BY <1>2, <1>5, <1>6, <1>8, <1>10 DEF Follows
<1> QED
  BY <1>11 DEF v, b, n

(* The same with the pending input of the call taken.                      *)
LEMMA TakenFollows ==
  ASSUME NEW w \in Wholes, NEW d \in Decoders, Match(w, d), NEW id \in CallIds,
         id \notin d.emitted, NEW m \in Int
  PROVE  Follows(w, AddCall(TakeInput(w, id), id, m),
                 d, EmitToolCall(TakeInput(d, id), id, UpToBlank(m)))
<1> DEFINE w1 == [w EXCEPT !.pending[id] = NoInput]
           d1 == [d EXCEPT !.pending[id] = NoInput]
<1>1. TakeInput(w, id) = w1 /\ TakeInput(d, id) = d1
  BY DEF TakeInput
<1>2. /\ NoInput \in Nat \cup {NoInput} /\ NoInput \in Int
      /\ w1 = [w EXCEPT !.pending[id] = NoInput] /\ d1 = [d EXCEPT !.pending[id] = NoInput]
  BY DEF NoInput
<1> HIDE DEF w1, d1
<1>3. /\ Follows(w, w1, d, d1) /\ w1.text = w.text /\ w1.think = w.think /\ w1.calls = w.calls
      /\ d1 \in Decoders /\ d1.out = d.out /\ d1.emitted = d.emitted
  BY <1>2, PendingFollows
<1> DEFINE v == AddCall(w1, id, m)
           b == EmitToolCall(d1, id, UpToBlank(m))
<1>4. w1 \in Wholes /\ Match(w1, d1) /\ id \notin d1.emitted
  BY <1>3 DEF Follows
<1>5. Follows(w1, v, d1, b)
  BY <1>3, <1>4, EmitFollows
<1> HIDE DEF v, b
<1>6. \A i : HasCall(w1, i) <=> HasCall(w, i)
  BY <1>3 DEF HasCall
<1>7. \A x : Fits(w1, v, x) => Fits(w, v, x)
  BY <1>3, <1>6 DEF Fits
<1>8. Follows(w, v, d, b)
  BY <1>3, <1>5, <1>7 DEF Follows
<1> QED
  BY <1>1, <1>8 DEF v, b

(* A call that has been passed on is not passed on again.                  *)
LEMMA AgainFollows ==
  ASSUME NEW w \in Wholes, NEW d \in Decoders, Match(w, d), NEW id \in CallIds,
         id \in d.emitted, NEW n
  PROVE  /\ Follows(w, w, d, d) /\ Follows(w, w, d, TakeInput(d, id))
         /\ Follows(w, w, d, EmitToolCall(d, id, n))
         /\ Follows(w, w, d, EmitToolCall(TakeInput(d, id), id, n))
<1> DEFINE p == NoInput
           v == [w EXCEPT !.pending[id] = p]
           b == [d EXCEPT !.pending[id] = p]
<1>1. TakeInput(d, id) = b /\ p \in Nat \cup {NoInput} /\ p \in Int
  BY DEF TakeInput, NoInput
<1>5. v = [w EXCEPT !.pending[id] = p] /\ b = [d EXCEPT !.pending[id] = p]
  OBVIOUS
<1> HIDE DEF p, v, b
<1>2. Follows(w, w, d, b) /\ b.emitted = d.emitted
  BY <1>1, <1>5, PendingFollows
<1>3. Follows(w, w, d, d)
  BY DEF Follows
<1>4. EmitToolCall(b, id, n) = b /\ EmitToolCall(d, id, n) = d
  BY <1>2 DEF EmitToolCall
<1> QED
  BY <1>1, <1>2, <1>3, <1>4

(* Line by line, before the end of the answer.                             *)
LEMMA LineFollows ==
  ASSUME NEW w \in Wholes, NEW d \in Decoders, ~d.finished, Match(w, d),
         NEW e \in Goes("command_code")
  PROVE  Follows(w, WholeLine(w, e), d, Line(d, e))
<1> DEFINE id == e.id
           v == WholeLine(w, e)
           b == Line(d, e)
<1>1. /\ e.type \in TextTypes \cup {"think", "input_start", "input_delta", "input_end", "call"}
      /\ e.id \in Nat /\ e.n \in Int /\ e \in [type : {e.type}, id : Nat, n : Int]
      /\ e.type \in {"input_start", "input_delta", "input_end", "call"} => id \in CallIds
  BY DEF Goes, Sayings, Ends, Inputs, TextTypes
<1>2. /\ w.pending \in [CallIds -> Nat \cup {NoInput}] /\ d.pending \in [CallIds -> Int]
      /\ w.text \in Seq(TextTypes) /\ w.think \in Nat
  BY DEF Wholes, Decoders
<1>3. CASE e.type \in TextTypes
  <2>1. b = [d EXCEPT !.out = Append(@, e)]
    BY <1>1, <1>3 DEF Line, TextTypes
  <2>2. v = [w EXCEPT !.text = Append(@, e.type)]
    BY <1>1, <1>3 DEF WholeLine, TextTypes
  <2>3. e \in Contents
    BY <1>1, <1>3 DEF Contents, TextTypes
  <2>4. b.out = Append(d.out, e) /\ b.emitted = d.emitted /\ b.pending = d.pending
    BY <2>1 DEF Decoders
  <2>5. /\ v.text = Append(w.text, e.type) /\ v.think = w.think /\ v.calls = w.calls
        /\ v.failed = w.failed /\ v.pending = w.pending
    BY <2>2 DEF Wholes
  <2>6. v \in Wholes
    <3>1. Append(w.text, e.type) \in Seq(TextTypes)
      BY <1>2, <1>3
    <3> QED
      BY <2>2, <3>1 DEF Wholes
  <2>7. Fits(w, v, e)
    BY <1>3, <2>5 DEF Fits, TextTypes
  <2> HIDE DEF v, b
  <2>8. Match(v, b)
    BY <2>4, <2>5 DEF Match, HasCall
  <2>9. Follows(w, v, d, b)
    BY <2>3, <2>4, <2>6, <2>7, <2>8 DEF Follows
  <2> QED
    BY <2>9 DEF v, b
<1>4. CASE e.type = "think"
  <2>1. b = [d EXCEPT !.out = Append(@, e)]
    BY <1>4 DEF Line
  <2>2. v = [w EXCEPT !.think = @ + 1]
    BY <1>4 DEF WholeLine
  <2>3. e \in Contents
    BY <1>1, <1>4 DEF Contents
  <2>4. b.out = Append(d.out, e) /\ b.emitted = d.emitted /\ b.pending = d.pending
    BY <2>1 DEF Decoders
  <2>5. /\ v.text = w.text /\ v.think = w.think + 1 /\ v.calls = w.calls
        /\ v.failed = w.failed /\ v.pending = w.pending
    BY <2>2 DEF Wholes
  <2>6. v \in Wholes
    <3>1. w.think + 1 \in Nat
      BY <1>2
    <3> QED
      BY <2>2, <3>1 DEF Wholes
  <2>7. Fits(w, v, e)
    BY <1>4, <2>5 DEF Fits, TextTypes
  <2> HIDE DEF v, b
  <2>8. Match(v, b)
    BY <2>4, <2>5 DEF Match, HasCall
  <2>9. Follows(w, v, d, b)
    BY <2>3, <2>4, <2>6, <2>7, <2>8 DEF Follows
  <2> QED
    BY <2>9 DEF v, b
<1>5. ASSUME id \in CallIds
      PROVE  /\ id \notin d.emitted => w.pending[id] = d.pending[id]
             /\ id \in d.emitted <=> HasCall(w, id)
             /\ w.pending[id] \in Nat \cup {NoInput} /\ d.pending[id] \in Int
  BY <1>2, <1>5 DEF Match
<1>6. ASSUME id \in CallIds, NEW p \in Nat \cup {NoInput}, NEW q \in Int,
             id \notin d.emitted => p = q, v = [w EXCEPT !.pending[id] = p], b = [d EXCEPT !.pending[id] = q]
      PROVE  Follows(w, v, d, b)
  <2> HIDE DEF v, b, id
  <2> QED
    BY <1>6, PendingFollows
<1>7. CASE e.type \in {"input_start", "input_delta"}
  <2> DEFINE z == IF e.type = "input_start" THEN 0 ELSE 1
             More1(n) == IF n = NoInput THEN z ELSE n + z
             p == More1(w.pending[id])
             q == More1(d.pending[id])
  <2>1. id \in CallIds
    BY <1>1, <1>7
  <2>2. p \in Nat \cup {NoInput} /\ q \in Int /\ (id \notin d.emitted => p = q)
    BY <1>5, <2>1 DEF NoInput
  <2>3. v = [w EXCEPT !.pending[id] = p] /\ b = [d EXCEPT !.pending[id] = q]
    <3>1. /\ v = [w EXCEPT !.pending[id] = More1(@)]
          /\ b = [d EXCEPT !.pending[id] = More1(@)]
      <4>1. CASE e.type = "input_start"
        <5>1. /\ v = [w EXCEPT !.pending[id] = IF @ = NoInput THEN 0 ELSE @]
              /\ b = [d EXCEPT !.pending[id] = IF @ = NoInput THEN 0 ELSE @]
          BY <4>1 DEF WholeLine, Line
        <5> QED
          BY <1>5, <2>1, <4>1, <5>1 DEF NoInput
      <4>2. CASE e.type = "input_delta"
        <5>1. /\ v = [w EXCEPT !.pending[id] = IF @ = NoInput THEN 1 ELSE @ + 1]
              /\ b = [d EXCEPT !.pending[id] = IF @ = NoInput THEN 1 ELSE @ + 1]
          BY <4>2 DEF WholeLine, Line
        <5> QED
          BY <4>2, <5>1
      <4> QED
        BY <1>7, <4>1, <4>2
    <3> QED
      BY <3>1
  <2> HIDE DEF v, b, id, p, q
  <2>4. Follows(w, v, d, b)
    BY <1>6, <2>1, <2>2, <2>3
  <2> QED
    BY <2>4 DEF v, b
<1>8. CASE e.type = "input_end"
  <2>1. id \in CallIds
    BY <1>1, <1>8
  <2>2. CASE HasCall(w, id)
    <3>1. v = w
      BY <1>8, <2>2 DEF WholeLine
    <3>2. b = TakeInput(d, id) \/ b = EmitToolCall(TakeInput(d, id), id, d.pending[id])
      BY <1>8 DEF Line
    <3>3. id \in d.emitted
      BY <1>5, <2>1, <2>2
    <3> HIDE DEF v, b, id
    <3>4. Follows(w, v, d, b)
      BY <2>1, <3>1, <3>2, <3>3, AgainFollows
    <3> QED
      BY <3>4 DEF v, b
  <2>3. CASE ~HasCall(w, id)
    <3> DEFINE m == w.pending[id]
    <3>1. m \in Int /\ id \notin d.emitted /\ d.pending[id] = m
      BY <1>5, <2>1, <2>3 DEF NoInput
    <3>2. CASE m > 0
      <4>1. v = AddCall(TakeInput(w, id), id, m) /\ b = EmitToolCall(TakeInput(d, id), id, m)
        BY <1>8, <2>3, <3>1, <3>2 DEF WholeLine, Line
      <4>2. UpToBlank(m) = m
        BY <3>2 DEF UpToBlank, Blank
      <4> HIDE DEF v, b, id, m
      <4>3. Follows(w, v, d, b)
        BY <2>1, <3>1, <4>1, <4>2, TakenFollows
      <4> QED
        BY <4>3 DEF v, b
    <3>3. CASE ~(m > 0)
      <4>1. v = TakeInput(w, id) /\ b = TakeInput(d, id)
        BY <1>8, <2>3, <3>1, <3>3 DEF WholeLine, Line
      <4>2. NoInput \in Nat \cup {NoInput} /\ NoInput \in Int
        BY DEF NoInput
      <4> QED
        BY <1>6, <2>1, <4>1, <4>2 DEF TakeInput
    <3> QED
      BY <3>2, <3>3
  <2> QED
    BY <2>2, <2>3
<1>9. CASE e.type = "call"
  <2> DEFINE took == EmitToolCall(TakeInput(d, id), id, PendingInput(d, id))
  <2>1. id \in CallIds
    BY <1>1, <1>9
  <2>2. b = IF e.n = Inline THEN EmitToolCall(d, id, Inline) ELSE took
    BY <1>9 DEF Line, ToolCall
  <2>3. CASE HasCall(w, id)
    <3>1. v = w
      BY <1>9, <2>3 DEF WholeLine
    <3>2. id \in d.emitted
      BY <1>5, <2>1, <2>3
    <3> DEFINE n == PendingInput(d, id)
    <3>3. b = EmitToolCall(d, id, Inline) \/ b = EmitToolCall(TakeInput(d, id), id, n)
      BY <2>2
    <3> HIDE DEF v, b, id, n
    <3>4. Follows(w, v, d, b)
      BY <2>1, <3>1, <3>2, <3>3, AgainFollows
    <3> QED
      BY <3>4 DEF v, b
  <2>4. CASE ~HasCall(w, id)
    <3>1. id \notin d.emitted /\ d.pending[id] = w.pending[id]
      BY <1>5, <2>1, <2>4
    <3>2. CASE e.n = Inline
      <4> DEFINE m == Inline
      <4>1. v = AddCall(w, id, m) /\ b = EmitToolCall(d, id, m)
        BY <1>9, <2>2, <2>4, <3>2 DEF WholeLine
      <4>2. UpToBlank(m) = m /\ m \in Int
        BY DEF UpToBlank, Blank, Inline
      <4> HIDE DEF v, b, id, m
      <4>3. Follows(w, v, d, b)
        BY <2>1, <3>1, <4>1, <4>2, EmitFollows
      <4> QED
        BY <4>3 DEF v, b
    <3>3. CASE e.n # Inline
      <4> DEFINE m == CallInput(w, id)
      <4>1. v = AddCall(TakeInput(w, id), id, m) /\ b = took
        BY <1>9, <2>2, <2>4, <3>3 DEF WholeLine
      <4>2. UpToBlank(m) = PendingInput(d, id) /\ m \in Int
        BY <1>5, <2>1, <3>1 DEF UpToBlank, Blank, Braces, NoInput, CallInput, PendingInput
      <4> HIDE DEF v, id, m
      <4>3. b = EmitToolCall(TakeInput(d, id), id, UpToBlank(m))
        BY <4>1, <4>2
      <4> HIDE DEF b
      <4>4. Follows(w, v, d, b)
        BY <2>1, <3>1, <4>1, <4>2, <4>3, TakenFollows
      <4> QED
        BY <4>4 DEF v, b
    <3> QED
      BY <3>2, <3>3
  <2> QED
    BY <2>3, <2>4
<1> QED
  BY <1>1, <1>3, <1>4, <1>7, <1>8, <1>9

(* The whole answer, line by line.                                         *)
LEMMA WholeLineStays ==
  ASSUME NEW w \in Wholes, NEW e \in Sayings("command_code")
  PROVE  WholeLine(w, e) \in Wholes
<1> DEFINE id == e.id
<1>1. /\ e.type \in TextTypes \cup {"think", "input_start", "input_delta", "input_end", "call",
                                    "finish", "error"}
      /\ e.type \in {"input_start", "input_delta", "input_end", "call"} => id \in CallIds
  BY DEF Sayings, Ends, Inputs, TextTypes
<1>2. /\ w.pending \in [CallIds -> Nat \cup {NoInput}] /\ w.text \in Seq(TextTypes) /\ w.think \in Nat
  BY DEF Wholes
<1> HIDE DEF id
<1>3. ASSUME id \in CallIds, NEW p \in Nat \cup {NoInput} PROVE [w EXCEPT !.pending[id] = p] \in Wholes
  BY <1>3 DEF Wholes
<1>4. ASSUME id \in CallIds, NEW m \in Int, NEW x \in Wholes PROVE AddCall(x, id, m) \in Wholes
  <2> DEFINE y == [id |-> id, n |-> m]
  <2>1. y \in [id : CallIds, n : Int] /\ AddCall(x, id, m) = [x EXCEPT !.calls = @ \cup {y}]
    BY <1>4 DEF AddCall
  <2> HIDE DEF y
  <2> QED
    BY <2>1 DEF Wholes
<1>5. ASSUME id \in CallIds
      PROVE  /\ w.pending[id] \in Nat \cup {NoInput} /\ w.pending[id] \in Int /\ CallInput(w, id) \in Int
             /\ NoInput \in Nat \cup {NoInput} /\ Inline \in Int
  <2>1. w.pending[id] \in Nat \cup {NoInput}
    BY <1>2, <1>5
  <2> QED
    BY <2>1 DEF CallInput, NoInput, Blank, Braces, Inline
<1>6. TakeInput(w, id) = [w EXCEPT !.pending[id] = NoInput]
  BY DEF TakeInput
<1>7. id \in CallIds => TakeInput(w, id) \in Wholes
  BY <1>3, <1>5, <1>6
<1>8. CASE e.type \in TextTypes
  <2>1. Append(w.text, e.type) \in Seq(TextTypes)
    BY <1>2, <1>8
  <2>2. WholeLine(w, e) = [w EXCEPT !.text = Append(@, e.type)]
    BY <1>8 DEF WholeLine, TextTypes
  <2> QED
    BY <2>1, <2>2 DEF Wholes
<1>9. CASE e.type \in {"think", "finish", "error"}
  <2>1. w.think + 1 \in Nat
    BY <1>2
  <2>2. \/ WholeLine(w, e) = w \/ WholeLine(w, e) = [w EXCEPT !.think = w.think + 1]
        \/ WholeLine(w, e) = [w EXCEPT !.failed = TRUE]
    BY <1>9 DEF WholeLine
  <2>3. /\ [w EXCEPT !.think = w.think + 1] \in Wholes
        /\ [w EXCEPT !.failed = TRUE] \in Wholes
    BY <2>1 DEF Wholes
  <2> QED
    BY <2>2, <2>3
<1>10. CASE e.type \in {"input_start", "input_delta"}
  <2>1. id \in CallIds
    BY <1>1, <1>10
  <2> DEFINE z == IF e.type = "input_start" THEN 0 ELSE 1
             p == IF w.pending[id] = NoInput THEN z ELSE w.pending[id] + z
  <2>2. p \in Nat \cup {NoInput}
    BY <1>5, <2>1
  <2>3. WholeLine(w, e) = [w EXCEPT !.pending[id] = p]
    <3>1. CASE e.type = "input_start"
      <4>1. WholeLine(w, e) = [w EXCEPT !.pending[id] = IF @ = NoInput THEN 0 ELSE @]
        BY <3>1 DEF WholeLine, id
      <4> QED
        BY <1>5, <2>1, <3>1, <4>1
    <3>2. CASE e.type = "input_delta"
      <4>1. WholeLine(w, e) = [w EXCEPT !.pending[id] = IF @ = NoInput THEN 1 ELSE @ + 1]
        BY <3>2 DEF WholeLine, id
      <4> QED
        BY <3>2, <4>1
    <3> QED
      BY <1>10, <3>1, <3>2
  <2> HIDE DEF p
  <2> QED
    BY <1>3, <2>1, <2>2, <2>3
<1>11. CASE e.type = "input_end"
  <2>1. id \in CallIds
    BY <1>1, <1>11
  <2>2. \/ WholeLine(w, e) = w \/ WholeLine(w, e) = TakeInput(w, id)
        \/ WholeLine(w, e) = AddCall(TakeInput(w, id), id, w.pending[id])
    BY <1>11 DEF WholeLine, id
  <2> QED
    BY <1>4, <1>5, <1>7, <2>1, <2>2
<1>12. CASE e.type = "call"
  <2>1. id \in CallIds
    BY <1>1, <1>12
  <2>2. \/ WholeLine(w, e) = w \/ WholeLine(w, e) = AddCall(w, id, Inline)
        \/ WholeLine(w, e) = AddCall(TakeInput(w, id), id, CallInput(w, id))
    BY <1>12 DEF WholeLine, id
  <2> QED
    BY <1>4, <1>5, <1>7, <2>1, <2>2
<1> QED
  BY <1>1, <1>8, <1>9, <1>10, <1>11, <1>12

LEMMA WholeLinesGive ==
  ASSUME NEW w \in Wholes, NEW s \in Seq(Sayings("command_code")), NEW a
  PROVE  WholeLineGives(Wholes, w, s, a)
<1>1. \A x \in Wholes, e \in Sayings("command_code") : WholeLine(x, e) \in Wholes
  BY WholeLineStays
<1>2. WholeLineAsks(Wholes, Sayings("command_code"), w, s)
  <2> HIDE DEF Wholes, Sayings
  <2> QED
    BY <1>1 DEF WholeLineAsks
<1> QED
  BY <1>2, WholeLineAppends

(* One more member of a part of a sequence.                                *)
LEMMA OneMoreOf ==
  ASSUME NEW Y, NEW s \in Seq(Y), NEW a \in Nat \ {0}, NEW j \in Nat, a <= j + 1, j + 1 <= Len(s)
  PROVE  /\ SubSeq(s, a, j) \in Seq(Y)
         /\ SubSeq(s, a, j + 1) = Append(SubSeq(s, a, j), s[j + 1])
<1> DEFINE n == Len(s)
           f == SubSeq(s, a, j)
           g == SubSeq(s, a, j + 1)
           x == s[j + 1]
<1>1. n \in Nat /\ \A i \in 1..n : s[i] \in Y
  OBVIOUS
<1> HIDE DEF n
<1>2. /\ \A i \in a..j : s[i] \in Y
      /\ \A i \in a..(j + 1) : s[i] \in Y
      /\ a \in Int /\ j \in Int /\ j + 1 \in Int /\ x \in Y
  BY <1>1 DEF n
<1>3. /\ f \in Seq(Y) /\ Len(f) = (IF a <= j THEN j - a + 1 ELSE 0)
      /\ \A i \in 1..(j - a + 1) : f[i] = s[a + i - 1]
  BY <1>2, SubSeqProperties
<1>4. /\ g \in Seq(Y) /\ Len(g) = (IF a <= j + 1 THEN (j + 1) - a + 1 ELSE 0)
      /\ \A i \in 1..((j + 1) - a + 1) : g[i] = s[a + i - 1]
  BY <1>2, SubSeqProperties
<1> HIDE DEF f, g
<1>5. Len(f) = j - a + 1 /\ Len(g) = j - a + 2
  BY <1>3, <1>4
<1>10. Append(f, x) \in Seq(Y) /\ Len(Append(f, x)) = Len(f) + 1
  BY <1>2, <1>3
<1>6. /\ Append(f, x)[Len(f) + 1] = x /\ \A i \in 1..Len(f) : Append(f, x)[i] = f[i]
  <2> HIDE DEF x
  <2> QED
    BY <1>2, <1>3
<1>7. ASSUME NEW i \in 1..Len(g) PROVE g[i] = Append(f, x)[i]
  <2>1. CASE i = Len(f) + 1
    <3>1. a + i - 1 = j + 1 /\ i \in 1..((j + 1) - a + 1)
      BY <1>5, <2>1
    <3> QED
      BY <1>4, <1>6, <2>1, <3>1
  <2>2. CASE i # Len(f) + 1
    <3>1. i \in 1..Len(f) /\ i \in 1..(j - a + 1) /\ i \in 1..((j + 1) - a + 1)
      BY <1>5, <2>2
    <3> QED
      BY <1>3, <1>4, <1>6, <3>1
  <2> QED
    BY <2>1, <2>2
<1>8. Len(g) = Len(Append(f, x))
  BY <1>5, <1>10
<1>9. g = Append(f, x)
  BY <1>4, <1>7, <1>8, <1>10, SeqEqual
<1> QED
  BY <1>3, <1>9 DEF f, g

(* The answer so far, and what of it follows.                              *)
LEMMA WholeOfParts ==
  ASSUME NEW s \in Seq(Sayings("command_code")), NEW m \in 0..Len(s)
  PROVE  /\ Whole(SubSeq(s, 1, m)) \in Wholes
         /\ Whole(s) = FoldLeft(WholeLine, Whole(SubSeq(s, 1, m)), SubSeq(s, m + 1, Len(s)))
<1> DEFINE Y == Sayings("command_code")
           n == Len(s)
           Upto(i) == Whole(SubSeq(s, 1, i))
           Rest(i) == FoldLeft(WholeLine, Upto(m), SubSeq(s, m + 1, i))
           Good == {i \in Nat : m + i <= n => Upto(m + i) = Rest(m + i)}
<1>0. s \in Seq(Y)
  OBVIOUS
<1> HIDE DEF Y
<1>1. n \in Nat /\ m \in Nat /\ m <= n /\ \A i \in 1..n : s[i] \in Y
  BY <1>0
<1>2. NewWhole \in Wholes
  <2> DEFINE p == [i \in CallIds |-> NoInput]
  <2>1. p \in [CallIds -> Nat \cup {NoInput}] /\ <<>> \in Seq(TextTypes)
    OBVIOUS
  <2>2. NewWhole = [text |-> <<>>, think |-> 0, calls |-> {}, failed |-> FALSE, pending |-> p]
    BY DEF NewWhole
  <2> HIDE DEF p
  <2> QED
    BY <2>1, <2>2 DEF Wholes
<1>3. ASSUME NEW a \in Nat \ {0}, NEW j \in Nat, a <= j + 1, j <= n PROVE SubSeq(s, a, j) \in Seq(Y)
  <2>1. a \in Int /\ j \in Int /\ \A i \in a..j : s[i] \in Y
    BY <1>1, <1>3
  <2> QED
    BY <2>1, SubSeqProperties
<1>4. ASSUME NEW i \in Nat, i <= n PROVE Upto(i) \in Wholes
  <2>1. 1 \in Nat \ {0} /\ 1 <= i + 1
    BY <1>4
  <2>2. SubSeq(s, 1, i) \in Seq(Y)
    BY <1>3, <1>4, <2>1
  <2>3. WholeLineGives(Wholes, NewWhole, SubSeq(s, 1, i), s)
    BY <1>2, <2>2, WholeLinesGive DEF Y
  <2> QED
    BY <2>3 DEF WholeLineGives, Whole
<1>5. 0 \in Good
  <2>1. SubSeq(s, m + 1, m) = <<>>
    <3>1. m + 1 \in Int /\ m \in Int /\ m < m + 1
      BY <1>1
    <3> QED
      BY <3>1, SubSeqEmpty
  <2>2. <<>> \in Seq(Y)
    OBVIOUS
  <2>3. WholeLineGives(Wholes, Upto(m), <<>>, s)
    <3> HIDE DEF Upto
    <3> QED
      BY <1>1, <1>4, <2>2, WholeLinesGive DEF Y
  <2>4. Rest(m) = Upto(m)
    BY <2>1, <2>3 DEF WholeLineGives
  <2>5. m + 0 = m
    BY <1>1
  <2> HIDE DEF Upto, Rest
  <2> QED
    BY <2>4, <2>5
<1>6. ASSUME NEW i \in Nat, i \in Good PROVE i + 1 \in Good
  <2> DEFINE j == m + i
  <2> SUFFICES ASSUME j + 1 <= n PROVE Upto(j + 1) = Rest(j + 1)
    <3> HIDE DEF Upto, Rest, n
    <3>1. m + (i + 1) = j + 1
      BY <1>1
    <3> QED
      BY <3>1
  <2>1. j \in Nat /\ j <= n /\ m + 1 \in Nat \ {0} /\ m + 1 <= j + 1 /\ 1 \in Nat \ {0} /\ 1 <= j + 1
    BY <1>1
  <2>2. Upto(j) = Rest(j)
    <3> HIDE DEF Upto, Rest, n
    <3> QED
      BY <1>6, <2>1
  <2>3. /\ SubSeq(s, 1, j + 1) = Append(SubSeq(s, 1, j), s[j + 1]) /\ SubSeq(s, 1, j) \in Seq(Y)
        /\ SubSeq(s, m + 1, j + 1) = Append(SubSeq(s, m + 1, j), s[j + 1])
        /\ SubSeq(s, m + 1, j) \in Seq(Y)
    <3> HIDE DEF j
    <3> QED
      BY <1>0, <2>1, OneMoreOf
  <2> HIDE DEF j
  <2>4. WholeLineGives(Wholes, NewWhole, SubSeq(s, 1, j), s[j + 1])
    BY <1>2, <2>3, WholeLinesGive DEF Y
  <2>5. Upto(m) \in Wholes
    BY <1>1, <1>4
  <2>6. WholeLineGives(Wholes, Upto(m), SubSeq(s, m + 1, j), s[j + 1])
    <3> HIDE DEF Upto
    <3> QED
      BY <2>3, <2>5, WholeLinesGive DEF Y
  <2>7. Upto(j + 1) = WholeLine(Upto(j), s[j + 1])
    BY <2>3, <2>4 DEF WholeLineGives, Whole
  <2>8. Rest(j + 1) = WholeLine(Rest(j), s[j + 1])
    BY <2>3, <2>6 DEF WholeLineGives
  <2> HIDE DEF Upto, Rest
  <2> QED
    BY <2>2, <2>7, <2>8
<1>7. n - m \in Nat /\ m + (n - m) = n
  BY <1>1
<1>8. Upto(n) = Rest(n)
  <2> HIDE DEF Good
  <2>1. n - m \in Good
    BY <1>5, <1>6, <1>7, Induction
  <2> HIDE DEF Upto, Rest
  <2> QED
    BY <1>1, <1>7, <2>1 DEF Good
<1>9. SubSeq(s, 1, n) = s
  BY SubSeqFull
<1>10. Upto(m) \in Wholes
  BY <1>1, <1>4
<1> QED
  BY <1>8, <1>9, <1>10

(* A chunk before the end of the answer is converted as it is collected.   *)
LEMMA ChunkSays ==
  ASSUME NEW k0 \in Clients, NEW c, Live(k0, Fresh(c)), NEW early, NEW b \in Within(early), b.out = <<>>,
         NEW w \in Wholes, Match(w, b), Says(w, Fresh(c), TallyOf(k0, Fresh(c))),
         NEW s \in Seq(Goes("command_code"))
  PROVE  LET d == FoldLeft(Line, b, s)
             v == FoldLeft(WholeLine, w, s)
         IN  /\ d \in Within(early) /\ v \in Wholes /\ Match(v, d)
             /\ Says(v, Convert(c, d.out), TallyOf(k0, Convert(c, d.out)))
<1> DEFINE Y == Goes("command_code")
           D(t) == FoldLeft(Line, b, t)
           V(t) == FoldLeft(WholeLine, w, t)
           Fit(t, d, v) == Match(v, d) /\ Says(v, Convert(c, d.out), TallyOf(k0, Convert(c, d.out)))
           Good == {n \in Nat : \A t \in Seq(Y) : Len(t) = n => Fit(t, D(t), V(t))}
<1>1. ASSUME NEW t \in Seq(Y), NEW e
      PROVE  /\ D(<<>>) = b /\ D(t) \in Within(early) /\ D(Append(t, e)) = Line(D(t), e)
             /\ V(<<>>) = w /\ V(t) \in Wholes /\ V(Append(t, e)) = WholeLine(V(t), e)
  <2>1. Y \subseteq Sayings("command_code")
    BY DEF Goes
  <2> HIDE DEF Y
  <2>2. t \in Seq(Sayings("command_code"))
    BY <2>1, SeqMonotonic
  <2>3. LineGives(Within(early), b, t, e)
    BY LinesGive DEF Y
  <2>4. WholeLineGives(Wholes, w, t, e)
    BY <2>2, WholeLinesGive
  <2> QED
    BY <2>3, <2>4 DEF LineGives, WholeLineGives
<1>2. ASSUME NEW d \in Within(early) PROVE d \in Decoders /\ ~d.finished /\ d.out \in Seq(Contents)
  BY <1>2, WithinIs DEF Within
<1> HIDE DEF Y, D, V
<1>3. 0 \in Good
  <2> SUFFICES ASSUME NEW t \in Seq(Y), Len(t) = 0 PROVE Fit(t, D(t), V(t))
    OBVIOUS
  <2>1. t = <<>> /\ <<>> \in Seq(Contents)
    <3> HIDE DEF Contents
    <3> QED
      OBVIOUS
  <2>2. D(t) = b /\ V(t) = w
    BY <1>1, <2>1
  <2>3. Convert(c, <<>>) = Fresh(c)
    BY <2>1, ConvertGives
  <2> QED
    BY <2>2, <2>3
<1>4. ASSUME NEW n \in Nat, n \in Good PROVE n + 1 \in Good
  <2> SUFFICES ASSUME NEW t \in Seq(Y), Len(t) = n + 1 PROVE Fit(t, D(t), V(t))
    OBVIOUS
  <2>1. PICK f \in Seq(Y), e \in Y : t = Append(f, e) /\ Len(t) = Len(f) + 1
    <3>1. t # <<>>
      OBVIOUS
    <3>2. PICK f \in Seq(Y), e \in Y : t = Append(f, e) /\ Len(t) = Len(f) + 1 /\ e = t[Len(t)]
      BY <3>1, Splits
    <3> QED
      BY <3>2
  <2> DEFINE d == D(f)
             v == V(f)
             x == Convert(c, d.out)
             d1 == Line(d, e)
             v1 == WholeLine(v, e)
  <2>2. D(t) = d1 /\ V(t) = v1 /\ d \in Within(early) /\ v \in Wholes
    BY <1>1, <2>1
  <2>3. Fit(f, d, v)
    <3>1. Len(f) = n
      BY <2>1
    <3> HIDE DEF Fit
    <3> QED
      BY <1>4, <3>1
  <2>4. d \in Decoders /\ ~d.finished /\ d.out \in Seq(Contents)
    BY <1>2, <2>2
  <2>5. Match(v, d) /\ Says(v, x, TallyOf(k0, x)) /\ e \in Goes("command_code")
    BY <2>3 DEF Y
  <2> HIDE DEF d, v
  <2>6. Follows(v, v1, d, d1)
    BY <2>2, <2>4, <2>5, LineFollows
  <2>7. Live(k0, x)
    BY <2>4, ConvertGives
  <2> HIDE DEF d1, v1
  <2>8. CASE d1.out = d.out /\ v1.text = v.text /\ v1.think = v.think /\ v1.calls = v.calls
    <3> DEFINE u == TallyOf(k0, x)
    <3>1. Says(v, x, u) /\ Heard(v1) = Heard(v)
      BY <2>5, <2>8 DEF Heard
    <3> HIDE DEF x, u
    <3>2. /\ u.called = u.called /\ x.tools = x.tools /\ u.text = Heard(v1).text /\ x.held = Heard(v1).held
          /\ Heard(v1).calls = Heard(v).calls /\ u.think = IF path.entry = "claude" THEN v1.think ELSE 0
      BY <2>8, <3>1 DEF Says
    <3>3. Says(v1, x, u)
      BY <2>8, <3>1, <3>2, SaysOn
    <3>4. Convert(c, d1.out) = x
      BY <2>8 DEF x
    <3>5. Says(v1, x, TallyOf(k0, x))
      BY <3>3 DEF u
    <3> QED
      BY <2>2, <2>6, <3>4, <3>5 DEF Follows
  <2>9. ASSUME NEW y \in Contents, d1.out = Append(d.out, y), Fits(v, v1, y)
        PROVE  Fit(t, D(t), V(t))
    <3>1. Convert(c, d1.out) = Consume(x, y)
      BY <2>4, <2>9, ConvertGives
    <3> HIDE DEF x
    <3>2. Says(v1, Consume(x, y), TallyOf(k0, Consume(x, y)))
      BY <2>2, <2>5, <2>7, <2>9, ConsumeSays
    <3> QED
      BY <2>2, <2>6, <3>1, <3>2 DEF Follows
  <2> HIDE DEF Fit
  <2> QED
    BY <2>6, <2>8, <2>9 DEF Follows
<1> HIDE DEF Good, Fit
<1>5. Len(s) \in Nat /\ Len(s) \in Good
  BY <1>3, <1>4, Induction
<1>6. s \in Seq(Y)
  BY DEF Y
<1>7. Fit(s, D(s), V(s)) /\ D(s) \in Within(early) /\ V(s) \in Wholes
  BY <1>1, <1>5, <1>6 DEF Good
<1> QED
  BY <1>7 DEF Fit, D, V

(* The answer the client has collected, k, is the whole answer w.          *)
ToolsOf(k, ids) == {at \in OfKind(k, "tool") : k.blocks[at].id \in ids}
Answer(w)       == IF path.entry = "claude" THEN ToClaude(w) ELSE ToResponses(w)

Same(k, w) ==
  /\ ~w.failed
  /\ Amount(k, "text") = Answer(w).text - (IF Answer(w).bare THEN 1 ELSE 0)
  /\ Amount(k, "think") = Answer(w).think
  /\ Cardinality(ToolsOf(k, CallIds)) = Cardinality(Answer(w).calls)
  /\ {[id |-> k.blocks[at].id, n |-> k.blocks[at].n] : at \in ToolsOf(k, CallIds)}
       = {[c EXCEPT !.n = UpToBlank(@)] : c \in Answer(w).calls}
  /\ Cardinality(ToolsOf(k, {Dsml})) = Answer(w).found

(* The calls of the answer, as the client has them.                        *)
LEMMA AnswerCalls ==
  ASSUME NEW w \in Wholes
  PROVE  {[y EXCEPT !.n = UpToBlank(@)] : y \in Answer(w).calls}
           = {[id |-> x.id, n |-> UpToBlank(x.n)] : x \in w.calls}
<1> DEFINE As(y) == [id |-> y.id, n |-> UpToBlank(y.n)]
           Up(y) == [y EXCEPT !.n = UpToBlank(@)]
<1>1. \A x \in w.calls : x \in [id : CallIds, n : Int]
  BY DEF Wholes
<1>2. \A n : UpToBlank(UpToBlank(n)) = UpToBlank(n)
  BY DEF UpToBlank, Blank, Braces
<1>3. ASSUME NEW x \in [id : CallIds, n : Int] PROVE Up(x) = As(x)
  BY DEF UpToBlank, Braces
<1>4. CASE path.entry = "claude"
  <2>1. Answer(w).calls = {Up(x) : x \in w.calls}
    BY <1>4 DEF Answer, ToClaude, UpToBlank
  <2>2. ASSUME NEW x \in w.calls PROVE Up(Up(x)) = As(x)
    <3>1. x \in [id : CallIds, n : Int] /\ UpToBlank(x.n) \in Int
      BY <1>1 DEF UpToBlank, Braces
    <3>2. Up(x) = As(x)
      BY <1>3, <3>1
    <3> QED
      BY <1>2, <3>1, <3>2
  <2> HIDE DEF Up, As
  <2>3. {Up(y) : y \in Answer(w).calls} = {As(x) : x \in w.calls}
    BY <2>1, <2>2
  <2> QED
    BY <2>3 DEF Up, As
<1>5. CASE path.entry # "claude"
  <2>1. Answer(w).calls = w.calls
    BY <1>5 DEF Answer, ToResponses
  <2> HIDE DEF Up, As
  <2>2. {Up(y) : y \in Answer(w).calls} = {As(x) : x \in w.calls}
    BY <1>1, <1>3, <2>1
  <2> QED
    BY <2>2 DEF Up, As
<1> QED
  BY <1>4, <1>5

(* One block for every call, told by the ids.                              *)
LEMMA OneForOne ==
  ASSUME NEW S, IsFiniteSet(S), NEW T, NEW f, NEW tools,
         \A at \in S : tools[f[at].id] = at /\ \E y \in T : y.id = f[at].id,
         \A y \in T : tools[y.id] \in S /\ f[tools[y.id]].id = y.id,
         \A x, y \in T : x.id = y.id => x = y
  PROVE  Cardinality(S) = Cardinality(T)
<1> DEFINE h == [at \in S |-> CHOOSE y \in T : y.id = f[at].id]
<1>1. \A at \in S : h[at] \in T /\ h[at].id = f[at].id
  OBVIOUS
<1>2. h \in [S -> T]
  BY <1>1
<1> HIDE DEF h
<1>3. \A a, b \in S : h[a] = h[b] => a = b
  BY <1>1
<1>4. \A y \in T : \E at \in S : h[at] = y
  BY <1>1
<1>5. h \in Bijection(S, T)
  BY <1>2, <1>3, <1>4 DEF Bijection, Injection, Surjection, IsInjective
<1>6. ExistsBijection(S, T)
  BY <1>5 DEF ExistsBijection
<1> QED
  BY <1>6, FS_Bijection

LEMMA HeardIs ==
  ASSUME NEW w \in Wholes
  PROVE  Heard(w) \in Splittings
<1> DEFINE v == [text |-> Append(w.text, "text")]
<1>1. v.text = Append(w.text, "text") /\ "text" \in TextTypes
  BY DEF TextTypes
<1> HIDE DEF v
<1> QED
  BY <1>1, HeardOn

(* A proper end leaves the client with the whole answer.                   *)
LEMMA FinishSame ==
  ASSUME NEW k0 \in Clients, NEW c, Sound(k0, c), path.entry \in {"claude", "responses"},
         NEW w \in Wholes, ~w.failed, Says(w, c, TallyOf(k0, c))
  PROVE  Same(Read(k0, Finish(c).out), w)
<1> DEFINE d == Finish(c)
           k == Read(k0, d.out)
           t == TallyOf(k0, c)
           u == TallyOf(k0, d)
           f == t.called
           h == Heard(w)
<1>1. /\ IsFiniteSet(DOMAIN k.blocks)
      /\ u = IF path.entry = "responses" /\ c.held > 1 THEN More(t, "text", c.held) ELSE t
  BY FinishIsOver
<1>2. t = Tally(Read(k0, c.out)) /\ u = Tally(k)
  BY DEF TallyOf
<1>3. Says(w, c, t)
  OBVIOUS
<1>4. c.held \in Nat /\ c \in Converters
  BY DEF Sound, Converters
<1>5. h \in Splittings
  BY HeardIs
<1>6. DOMAIN f \subseteq Nat
  BY CalledBelow
<1> HIDE DEF d, k, t, u, h
<1>7. /\ u.think = t.think /\ u.called = t.called
      /\ u.text = t.text + (IF path.entry = "responses" /\ c.held > 1 THEN c.held ELSE 0)
  <2>1. t.text \in Int
    BY <1>3, <1>5 DEF Says, Splittings, h
  <2>2. c.held \in Int
    BY <1>4
  <2>3. CASE path.entry = "responses" /\ c.held > 1
    BY <1>1, <1>2, <2>2, <2>3, MoreParts
  <2>4. CASE ~(path.entry = "responses" /\ c.held > 1)
    BY <1>1, <2>1, <2>4
  <2> QED
    BY <2>3, <2>4
<1>8. Amount(k, "text") = u.text /\ Amount(k, "think") = u.think /\ Called(k) = f
  BY <1>2, <1>7 DEF Tally
<1>9. /\ Knows(w, c.tools, f) /\ t.text = h.text /\ c.held = h.held
      /\ Cardinality(Found(f)) = h.calls
      /\ t.think = IF path.entry = "claude" THEN w.think ELSE 0
  BY <1>3 DEF Says, h
<1>10. h.text \in Nat /\ h.calls \in Nat /\ h.held \in Nat
  BY <1>5 DEF Splittings
<1>11. Amount(k, "text") = Answer(w).text - (IF Answer(w).bare THEN 1 ELSE 0)
  <2>1. CASE path.entry = "claude"
    <3>1. /\ h.text = Len(w.text) /\ h.held = 0 /\ Answer(w).text = Len(w.text)
          /\ (IF Answer(w).bare THEN 1 ELSE 0) = 0
      BY <2>1 DEF Heard, h, Answer, ToClaude
    <3>2. u.text = h.text + 0
      BY <1>7, <1>9, <2>1
    <3> DEFINE bare == IF Answer(w).bare THEN 1 ELSE 0
    <3>3. bare = 0
      BY <3>1
    <3> HIDE DEF bare
    <3>4. Amount(k, "text") = Answer(w).text - bare
      BY <1>8, <1>10, <3>1, <3>2, <3>3
    <3> QED
      BY <3>4 DEF bare
  <2>2. CASE path.entry = "responses"
    <3> DEFINE bare == IF Answer(w).bare THEN 1 ELSE 0
    <3>1. Answer(w).text = h.text + h.held /\ bare = IF h.held = 1 THEN 1 ELSE 0
      BY <2>2 DEF Heard, h, Answer, ToResponses
    <3>2. u.text = h.text + (IF h.held > 1 THEN h.held ELSE 0)
      BY <1>7, <1>9, <2>2
    <3> HIDE DEF bare
    <3>4. Amount(k, "text") = Answer(w).text - bare
      BY <1>8, <1>10, <3>1, <3>2
    <3> QED
      BY <3>4 DEF bare
  <2> QED
    BY <2>1, <2>2
<1>12. Amount(k, "think") = Answer(w).think
  BY <1>7, <1>8, <1>9 DEF Answer, ToClaude, ToResponses
<1>13. Answer(w).found = h.calls
  BY DEF Answer, ToClaude, ToResponses, Heard, h
<1>14. /\ DOMAIN f = OfKind(k, "tool")
       /\ \A at \in DOMAIN f : f[at] = [id |-> k.blocks[at].id, n |-> k.blocks[at].n]
  BY <1>8 DEF Called
<1> HIDE DEF f
<1>24. \A at \in DOMAIN f : f[at].id = k.blocks[at].id
  BY <1>14
<1>15. ToolsOf(k, {Dsml}) = Found(f)
  BY <1>14, <1>24 DEF ToolsOf, Found
<1> DEFINE S == ToolsOf(k, CallIds)
<1>16. S = {at \in DOMAIN f : f[at].id \in CallIds}
  BY <1>14, <1>24 DEF ToolsOf
<1>17. IsFiniteSet(S)
  <2>1. S \subseteq DOMAIN k.blocks
    BY DEF ToolsOf, OfKind
  <2> QED
    BY <1>1, <2>1, FS_Subset
<1> HIDE DEF S
<1>18. \A x \in w.calls : x \in [id : CallIds, n : Int]
  BY DEF Wholes
<1>19. ASSUME NEW at \in S
       PROVE  /\ c.tools[f[at].id] = at
              /\ \E x \in w.calls : x.id = f[at].id /\ f[at] = [id |-> x.id, n |-> UpToBlank(x.n)]
  <2>1. at \in DOMAIN f /\ f[at].id \in CallIds /\ at # NoInput
    BY <1>6, <1>16 DEF NoInput
  <2>2. c.tools[f[at].id] = at
    BY <1>9, <2>1 DEF Knows
  <2>3. HasCall(w, f[at].id)
    BY <1>9, <2>1, <2>2 DEF Knows
  <2>4. PICK x \in w.calls : x.id = f[at].id
    BY <2>3 DEF HasCall
  <2>5. f[c.tools[x.id]] = [id |-> x.id, n |-> UpToBlank(x.n)]
    BY <1>9 DEF Knows
  <2> QED
    BY <2>2, <2>4, <2>5
<1>20. ASSUME NEW x \in w.calls
       PROVE  c.tools[x.id] \in S /\ f[c.tools[x.id]] = [id |-> x.id, n |-> UpToBlank(x.n)]
  BY <1>9, <1>16, <1>18 DEF Knows
<1>21. {[id |-> k.blocks[at].id, n |-> k.blocks[at].n] : at \in S}
         = {[y EXCEPT !.n = UpToBlank(@)] : y \in Answer(w).calls}
  <2> DEFINE As(y) == [id |-> y.id, n |-> UpToBlank(y.n)]
             Of(at) == [id |-> k.blocks[at].id, n |-> k.blocks[at].n]
  <2>1. \A at \in S : Of(at) = f[at]
    BY <1>14, <1>16
  <2>2. \A at \in S : \E x \in w.calls : f[at] = As(x)
    BY <1>19
  <2>3. \A x \in w.calls : c.tools[x.id] \in S /\ f[c.tools[x.id]] = As(x)
    BY <1>20
  <2>4. {[y EXCEPT !.n = UpToBlank(@)] : y \in Answer(w).calls} = {As(x) : x \in w.calls}
    BY AnswerCalls
  <2> HIDE DEF As, Of
  <2>5. {Of(at) : at \in S} = {As(x) : x \in w.calls}
    BY <2>1, <2>2, <2>3
  <2> QED
    BY <2>4, <2>5 DEF Of
<1>22. Cardinality(S) = Cardinality(Answer(w).calls)
  <2> DEFINE T == Answer(w).calls
  <2>1. /\ \A y \in T : \E x \in w.calls : x.id = y.id
        /\ \A x \in w.calls : \E y \in T : x.id = y.id
        /\ \A x, y \in T : x.id = y.id => x = y
    <3>1. \A x, y \in w.calls : x.id = y.id => x = y
      BY <1>9 DEF Knows
    <3>2. CASE path.entry = "claude"
      <4> DEFINE Up(x) == [x EXCEPT !.n = IF @ = Blank THEN Braces ELSE @]
      <4>1. T = {Up(x) : x \in w.calls}
        BY <3>2 DEF Answer, ToClaude
      <4>2. \A x \in w.calls : Up(x).id = x.id
        BY <1>18
      <4> HIDE DEF T, Up
      <4> QED
        BY <3>1, <4>1, <4>2
    <3>3. CASE path.entry # "claude"
      <4>1. T = w.calls
        BY <3>3 DEF Answer, ToResponses
      <4> HIDE DEF T
      <4> QED
        BY <3>1, <4>1
    <3> QED
      BY <3>2, <3>3
  <2> HIDE DEF T
  <2> DEFINE tools == c.tools
  <2>2. \A at \in S : tools[f[at].id] = at /\ \E y \in T : y.id = f[at].id
    <3>1. \A at \in S : tools[f[at].id] = at /\ \E x \in w.calls : x.id = f[at].id
      BY <1>19
    <3> QED
      BY <2>1, <3>1
  <2>3. \A y \in T : tools[y.id] \in S /\ f[tools[y.id]].id = y.id
    <3> DEFINE P(i) == tools[i] \in S /\ f[tools[i]].id = i
    <3>1. \A x \in w.calls : P(x.id)
      <4>1. TAKE x \in w.calls
      <4> DEFINE g == f[tools[x.id]]
      <4>2. tools[x.id] \in S /\ g = [id |-> x.id, n |-> UpToBlank(x.n)]
        BY <1>20
      <4> HIDE DEF g
      <4>3. g.id = x.id
        BY <4>2
      <4> QED
        BY <4>2, <4>3 DEF g
    <3> HIDE DEF tools, P
    <3>2. \A y \in T : P(y.id)
      <4>1. TAKE y \in T
      <4>2. PICK x \in w.calls : x.id = y.id
        BY <2>1, Zenon
      <4>3. P(x.id)
        BY <3>1, Zenon
      <4> QED
        BY <4>2, <4>3, Zenon
    <3> QED
      BY <3>2 DEF P
  <2>4. \A x, y \in T : x.id = y.id => x = y
    BY <2>1
  <2> HIDE DEF tools
  <2>5. Cardinality(S) = Cardinality(T)
    BY <1>17, <2>2, <2>3, <2>4, OneForOne
  <2> QED
    BY <2>5 DEF T
<1>23. Same(k, w)
  BY <1>9, <1>11, <1>12, <1>13, <1>15, <1>21, <1>22 DEF Same, S
<1> QED
  BY <1>23 DEF k, d

(* The end of the answer, behind its contents, leaves the client with it.  *)
LEMMA EndSame ==
  ASSUME NEW k0 \in Clients, NEW c, Live(k0, Fresh(c)), path.entry \in {"claude", "responses"},
         NEW f \in Seq(Contents), NEW w \in Wholes, ~w.failed,
         Says(w, Convert(c, f), TallyOf(k0, Convert(c, f)))
  PROVE  /\ Convert(c, Append(f, Done)).finished
         /\ Same(Read(k0, Convert(c, Append(f, Done)).out), w)
<1> DEFINE x == Convert(c, f)
           y == EnsureStart(x)
<1>1. Live(k0, x) /\ Convert(c, Append(f, Done)) = Consume(x, Done)
  BY ConvertGives
<1>2. Consume(x, Done) = Finish(y)
  BY DEF Consume, Done, Ev
<1>3. Over(k0, Convert(c, Append(f, Done)))
  BY ConvertEnds
<1>4. Says(w, x, TallyOf(k0, x)) /\ Sound(k0, x)
  BY <1>1 DEF Live
<1> HIDE DEF x
<1>5. Sound(k0, y) /\ Says(w, y, TallyOf(k0, y))
  BY <1>1, <1>4, StartFlows, StartSays DEF Flows
<1> HIDE DEF y
<1>6. Same(Read(k0, Finish(y).out), w)
  BY <1>5, FinishSame
<1> QED
  BY <1>1, <1>2, <1>3, <1>6 DEF Over

(* What a chunk holds is an error, more of the answer, or the rest of it   *)
(* and its end.                                                            *)
Proceeds(k0, c, d, v) ==
  /\ d \in Decoders /\ d.out \in Seq(Contents) /\ ~HasError(d.out) /\ Live(k0, Convert(c, d.out))
  /\ v \in Wholes /\ Match(v, d)
  /\ Says(v, Convert(c, d.out), TallyOf(k0, Convert(c, d.out)))

Completes(k0, c, d, v) ==
  /\ ~HasError(d.out) /\ v \in Wholes /\ ~v.failed
  /\ \E f \in Seq(Contents) : d.out = Append(f, Done) /\ Says(v, Convert(c, f), TallyOf(k0, Convert(c, f)))

LEMMA ChunkAnswers ==
  ASSUME NEW k0 \in Clients, NEW c, Live(k0, Fresh(c)), path.adapter = "command_code",
         decoder \in Decoders, decoder.out = <<>>, ~decoder.finished,
         NEW w \in Wholes, Match(w, decoder), Says(w, Fresh(c), TallyOf(k0, Fresh(c))),
         NEW s \in Seq(Sayings("command_code")), OneEnd(s)
  PROVE  LET d == Adapt(s)
             v == FoldLeft(WholeLine, w, s)
         IN  HasError(d.out) \/ Proceeds(k0, c, d, v) \/ Completes(k0, c, d, v)
<1> DEFINE d == Adapt(s)
           v == FoldLeft(WholeLine, w, s)
<1>1. d = FoldLeft(Line, decoder, s) /\ decoder \in Within(FALSE)
  <2>1. [decoder EXCEPT !.out = <<>>] = decoder
    BY DEF Decoders
  <2> QED
    BY <2>1 DEF Adapt, Within
<1>2. ASSUME NEW x \in Within(FALSE) PROVE x \in Decoders /\ x.finished = FALSE /\ x.out \in Seq(Contents)
  BY <1>2, WithinIs DEF Within
<1>3. ASSUME NEW f \in Seq(Goes("command_code"))
      PROVE  LET x == FoldLeft(Line, decoder, f)
                 u == FoldLeft(WholeLine, w, f)
             IN  /\ x \in Within(FALSE) /\ u \in Wholes /\ Match(u, x)
                 /\ Says(u, Convert(c, x.out), TallyOf(k0, Convert(c, x.out)))
  BY <1>1, ChunkSays
<1>4. CASE s \in Seq(Goes("command_code"))
  <2>1. /\ d \in Within(FALSE) /\ v \in Wholes /\ Match(v, d)
        /\ Says(v, Convert(c, d.out), TallyOf(k0, Convert(c, d.out)))
    BY <1>1, <1>3, <1>4
  <2>2. d \in Decoders /\ d.out \in Seq(Contents)
    BY <1>2, <2>1
  <2> HIDE DEF d, v
  <2>3. ~HasError(d.out) /\ Live(k0, Convert(c, d.out))
    BY <2>2, ContentsAreNoEnd, ConvertGives
  <2>4. Proceeds(k0, c, d, v)
    BY <2>1, <2>2, <2>3 DEF Proceeds
  <2> QED
    BY <2>4 DEF d, v
<1>5. ASSUME NEW f \in Seq(Goes("command_code")), NEW e \in Sayings("command_code"),
             Ends(e), s = Append(f, e)
      PROVE  HasError(d.out) \/ Completes(k0, c, d, v)
  <2> DEFINE x == FoldLeft(Line, decoder, f)
             u == FoldLeft(WholeLine, w, f)
  <2>1. /\ x \in Within(FALSE) /\ u \in Wholes /\ Match(u, x)
        /\ Says(u, Convert(c, x.out), TallyOf(k0, Convert(c, x.out)))
    BY <1>3
  <2>2. d = Line(x, e)
    <3>1. LineGives(Within(FALSE), decoder, f, e)
      BY <1>1, LinesGive
    <3> QED
      BY <1>1, <1>5, <3>1 DEF LineGives
  <2>3. v = WholeLine(u, e)
    <3>1. Goes("command_code") \subseteq Sayings("command_code")
      BY DEF Goes
    <3>2. f \in Seq(Sayings("command_code"))
      <4> HIDE DEF Goes, Sayings
      <4> QED
        BY <3>1, SeqMonotonic
    <3>3. WholeLineGives(Wholes, w, f, e)
      BY <3>2, WholeLinesGive
    <3> QED
      BY <1>5, <3>3 DEF WholeLineGives
  <2>4. x.finished = FALSE /\ x \in Decoders /\ x.out \in Seq(Contents)
    BY <1>2, <2>1
  <2> HIDE DEF d, v, x, u
  <2>5. CASE e.type = "finish"
    <3>1. d = [x EXCEPT !.finished = TRUE, !.out = Append(@, Done)]
      BY <2>2, <2>4, <2>5 DEF Line, LastLine, Done
    <3>2. d.out = Append(x.out, Done)
      BY <2>4, <3>1 DEF Decoders
    <3>3. v = u
      BY <2>3, <2>5 DEF WholeLine
    <3>4. ~HasError(d.out)
      <4>1. Done.type = "done"
        BY DEF Done, Ev
      <4> QED
        BY <2>4, <3>2, <4>1, ContentsAreNoEnd
    <3>5. ~u.failed
      BY <2>1 DEF Match
    <3> QED
      BY <2>1, <2>4, <3>2, <3>3, <3>4, <3>5 DEF Completes
  <2>6. CASE e.type = "error"
    <3>1. d = [x EXCEPT !.out = Append(x.out, e)]
      BY <2>2, <2>4, <2>6 DEF Line, LastLine
    <3>2. d.out = Append(x.out, e)
      BY <2>4, <3>1 DEF Decoders
    <3> QED
      BY <2>4, <2>6, <3>2, ContentsAreNoEnd
  <2> QED
    BY <1>5, <2>5, <2>6 DEF Ends
<1> HIDE DEF d, v
<1>6. HasError(d.out) \/ Proceeds(k0, c, d, v) \/ Completes(k0, c, d, v)
  BY <1>4, <1>5, Parts DEF d, v
<1> QED
  BY <1>6 DEF d, v

-----------------------------------------------------------------------------
(* The answer so far: the client has what has come in of it, and one that  *)
(* was closed without an error has the whole of it.                        *)
SoFar == Whole(SubSeq(sent, 1, arrived))

Telling == ~SoFar.failed /\ Says(SoFar, conv, Tally(understood)) /\ (kept = <<>> => Match(SoFar, decoder))

AnswerInv ==
  path.adapter = "command_code" =>
    /\ Flowing => Telling
    /\ phase = "closed" => understood.failed \/ Same(understood, Whole(sent))

LEMMA SoFarIs ==
  ASSUME SentInv, path.adapter = "command_code"
  PROVE  /\ SoFar \in Wholes /\ Whole(sent) \in Wholes
         /\ Whole(sent) = FoldLeft(WholeLine, SoFar, Waiting)
         /\ arrived = Len(sent) => SoFar = Whole(sent)
<1> DEFINE Y == Sayings("command_code")
<1>1. sent \in Seq(Y) /\ arrived \in 0..Len(sent) /\ Len(sent) \in 0..Len(sent)
  <2>1. sent \in Seq(Y) /\ arrived \in 0..Len(sent)
    BY DEF SentInv
  <2> HIDE DEF Y
  <2> QED
    BY <2>1
<1> HIDE DEF Y
<1>2. SubSeq(sent, 1, Len(sent)) = sent
  BY <1>1, SubSeqFull
<1>3. Whole(SubSeq(sent, 1, Len(sent))) \in Wholes
  BY <1>1, WholeOfParts DEF Y
<1>4. SoFar \in Wholes /\ Whole(sent) = FoldLeft(WholeLine, SoFar, Waiting)
  BY <1>1, WholeOfParts DEF Y, SoFar, Waiting
<1> QED
  BY <1>2, <1>3, <1>4 DEF SoFar

LEMMA DoneAlone == <<Done>> # <<>> /\ Append(<<>>, Done) = <<Done>> /\ <<>> \in Seq(Contents)
<1> HIDE DEF Contents
<1> QED
  OBVIOUS

(* The answer that flows, with nothing kept or with its end alone.         *)
LEMMA TellingIs ==
  ASSUME ConversionInv, AnswerInv, Flowing, path.adapter = "command_code"
  PROVE  /\ path.entry \in {"claude", "responses"}
         /\ understood \in Clients /\ Live(understood, conv) /\ Fresh(conv) = conv
         /\ TallyOf(understood, conv) = Tally(understood)
         /\ ~SoFar.failed /\ Says(SoFar, conv, TallyOf(understood, conv))
         /\ decoder \in Decoders /\ decoder.out = <<>>
         /\ \/ kept = <<>> /\ Match(SoFar, decoder) /\ ~decoder.finished
            \/ kept = <<Done>> /\ arrived = Len(sent)
<1>1. /\ SentInv /\ PhaseInv /\ path.entry \in {"claude", "responses"}
      /\ phase = "live" \/ (phase = "prelude" /\ PreludeInv)
  BY PathIs DEF ConversionInv, PhaseInv, Flowing
<1>2. /\ understood \in Clients /\ Live(understood, conv) /\ Fresh(conv) = conv
      /\ \/ kept = <<>> /\ ~decoder.finished
         \/ kept = <<Done>> /\ arrived = Len(sent)
  BY <1>1, LiveIs, NewIsLive DEF PreludeInv
<1>3. conv.out = <<>>
  <2>1. conv \in Converters /\ Fresh(conv).out = <<>>
    BY <1>2 DEF Live, Sound, Fresh, Converters
  <2> QED
    BY <1>2, <2>1
<1>4. TallyOf(understood, conv) = Tally(understood)
  BY <1>2, <1>3, EmptyIsRead DEF TallyOf
<1>5. Telling /\ decoder \in Decoders /\ decoder.out = <<>>
  BY <1>1 DEF AnswerInv, PhaseInv
<1> QED
  BY <1>1, <1>2, <1>4, <1>5 DEF Telling

LEMMA WaitingAnswers ==
  ASSUME ConversionInv, AnswerInv, Flowing, path.adapter = "command_code", kept = <<>>
  PROVE  LET d == Adapt(Waiting)
         IN  \/ HasError(d.out)
             \/ Proceeds(understood, conv, d, Whole(sent))
             \/ Completes(understood, conv, d, Whole(sent))
<1>1. /\ path.entry \in {"claude", "responses"}
      /\ understood \in Clients /\ Live(understood, Fresh(conv))
      /\ Says(SoFar, Fresh(conv), TallyOf(understood, Fresh(conv)))
      /\ decoder \in Decoders /\ decoder.out = <<>> /\ ~decoder.finished /\ Match(SoFar, decoder)
  BY TellingIs, DoneAlone
<1>2. SoFar \in Wholes /\ Whole(sent) = FoldLeft(WholeLine, SoFar, Waiting)
  BY SoFarIs DEF ConversionInv
<1>3. Waiting \in Seq(Sayings("command_code")) /\ OneEnd(Waiting)
  BY WaitingIs DEF ConversionInv
<1> QED
  BY <1>1, <1>2, <1>3, ChunkAnswers

(* What is delivered is what the client goes on from.                      *)
LEMMA DeliversTally ==
  ASSUME understood \in Clients, NEW c \in Converters, Deliver(c)
  PROVE  /\ understood' = Read(understood, c.out) /\ Tally(understood') = TallyOf(understood, c)
         /\ conv'.tools = c.tools /\ conv'.held = c.held
<1>1. understood' = Read(understood, c.out) /\ conv' = [c EXCEPT !.out = <<>>]
  BY DEF Deliver, Read
<1>2. conv'.tools = c.tools /\ conv'.held = c.held
  BY <1>1 DEF Converters
<1> QED
  BY <1>1, <1>2 DEF TallyOf

(* What the converter and the client say of an answer they say after it    *)
(* has been delivered.                                                     *)
LEMMA SaysDelivered ==
  ASSUME understood \in Clients, NEW c \in Converters, Deliver(c), path' = path,
         NEW v, Says(v, c, TallyOf(understood, c)), SoFar' = v
  PROVE  Says(SoFar, conv, Tally(understood))'
<1> DEFINE t == TallyOf(understood, c)
<1>1. Tally(understood') = t /\ conv'.tools = c.tools /\ conv'.held = c.held
  BY DeliversTally
<1>2. /\ Knows(v, c.tools, t.called)
      /\ t.text = Heard(v).text /\ c.held = Heard(v).held
      /\ IsFiniteSet(Found(t.called)) /\ Cardinality(Found(t.called)) = Heard(v).calls
      /\ t.think = IF path.entry = "claude" THEN v.think ELSE 0
  BY DEF Says
<1> HIDE DEF t
<1>3. Heard(SoFar)' = Heard(v)
  BY DEF Heard
<1> QED
  BY <1>1, <1>2, <1>3 DEF Says

(* What follows when all that was sent has arrived.                        *)
LEMMA AllArrived ==
  ASSUME SentInv, path.adapter = "command_code", arrived' = Len(sent), sent' = sent
  PROVE  SoFar' = Whole(sent)
<1>1. SubSeq(sent, 1, Len(sent)) = sent
  <2> DEFINE Y == Sayings(path.adapter)
  <2>1. sent \in Seq(Y)
    BY DEF SentInv
  <2> HIDE DEF Y
  <2> QED
    BY <2>1, SubSeqFull
<1> QED
  BY <1>1 DEF SoFar, Whole, NewWhole

(* What the client has of the whole answer it has after the step.          *)
LEMMA SameStays ==
  ASSUME path' = path, sent' = sent, NEW k, Same(k, Whole(sent)), understood' = k
  PROVE  Same(understood, Whole(sent))'
<1>1. /\ Answer(Whole(sent))' = Answer(Whole(sent))
      /\ Whole(sent)' = Whole(sent)
  BY DEF Answer, Whole, NewWhole, ToClaude, ToResponses
<1> QED
  BY <1>1 DEF Same

LEMMA SendsAnswers ==
  ASSUME ConversionInv, AnswerInv, Sends
  PROVE  AnswerInv'
<1>1. PICK e : sent' = Append(sent, e)
  BY DEF Sends
<1>2. Flowing /\ UNCHANGED <<path, arrived, phase, decoder, kept, conv, understood>>
  BY DEF Sends
<1>3. SubSeq(sent', 1, arrived) = SubSeq(sent, 1, arrived)
  <2> DEFINE Y == Sayings(path.adapter) \cup {e}
             n == Len(sent)
             f == SubSeq(sent, 1, arrived)
             g == SubSeq(sent', 1, arrived)
  <2>1. sent \in Seq(Y) /\ e \in Y /\ arrived \in 0..n
    <3>1. sent \in Seq(Sayings(path.adapter)) /\ arrived \in 0..n
      BY DEF ConversionInv, SentInv
    <3> HIDE DEF n
    <3>2. Sayings(path.adapter) \subseteq Y /\ e \in Y
      OBVIOUS
    <3> HIDE DEF Y
    <3> QED
      BY <3>1, <3>2, SeqMonotonic
  <2> HIDE DEF Y
  <2>2. /\ n \in Nat /\ sent' \in Seq(Y) /\ Len(sent') = n + 1
        /\ \A i \in 1..n : sent'[i] = sent[i] /\ sent[i] \in Y
    BY <1>1, <2>1
  <2> HIDE DEF n
  <2>3. /\ \A i \in 1..arrived : sent[i] \in Y /\ sent'[i] \in Y /\ sent'[i] = sent[i]
        /\ 1 \in Int /\ arrived \in Int
    BY <2>1, <2>2
  <2>4. /\ f \in Seq(Y) /\ Len(f) = (IF 1 <= arrived THEN arrived - 1 + 1 ELSE 0)
        /\ \A i \in 1..(arrived - 1 + 1) : f[i] = sent[1 + i - 1]
    BY <2>3, SubSeqProperties
  <2>5. /\ g \in Seq(Y) /\ Len(g) = (IF 1 <= arrived THEN arrived - 1 + 1 ELSE 0)
        /\ \A i \in 1..(arrived - 1 + 1) : g[i] = sent'[1 + i - 1]
    BY <2>3, SubSeqProperties
  <2> HIDE DEF f, g
  <2>6. Len(f) = Len(g) /\ \A i \in 1..Len(f) : i \in 1..arrived /\ i \in 1..(arrived - 1 + 1) /\ 1 + i - 1 = i
    BY <2>1, <2>4, <2>5
  <2>7. \A i \in 1..Len(f) : f[i] = g[i]
    BY <2>3, <2>4, <2>5, <2>6
  <2>8. f = g
    BY <2>4, <2>5, <2>6, <2>7, SeqEqual
  <2> QED
    BY <2>8 DEF f, g
<1>4. SoFar' = SoFar
  BY <1>2, <1>3 DEF SoFar, Whole, NewWhole
<1>5. ASSUME path.adapter = "command_code" PROVE Telling'
  <2>1. Telling /\ Heard(SoFar)' = Heard(SoFar)
    BY <1>2, <1>4, <1>5 DEF AnswerInv, Heard
  <2> QED
    BY <1>2, <1>4, <2>1 DEF Telling, Says, Match
<1> QED
  BY <1>2, <1>5 DEF AnswerInv, Flowing

(* An answer that goes on.                                                 *)
LEMMA ProceedsTold ==
  ASSUME understood \in Clients, NEW d, Proceeds(understood, conv, d, Whole(sent)), Adopt(d),
         Deliver(Convert(conv, d.out)), path' = path, SoFar' = Whole(sent)
  PROVE  Telling'
<1> DEFINE c == Convert(conv, d.out)
           v == Whole(sent)
<1>1. c \in Converters /\ Deliver(c) /\ Says(v, c, TallyOf(understood, c)) /\ Match(v, d) /\ d \in Decoders
  BY DEF Proceeds, Live, Sound
<1> HIDE DEF c, v
<1>2. SoFar' = v
  BY DEF v
<1>3. Says(SoFar, conv, Tally(understood))'
  BY <1>1, <1>2, SaysDelivered
<1>4. decoder'.emitted = d.emitted /\ decoder'.pending = d.pending
  BY <1>1 DEF Adopt, Decoders
<1>5. Match(SoFar, decoder)'
  BY <1>1, <1>2, <1>4 DEF Match
<1>6. ~SoFar'.failed
  BY <1>1, <1>2 DEF Match
<1> QED
  BY <1>3, <1>5, <1>6 DEF Telling

(* An answer that ends properly.                                           *)
LEMMA CompletesTold ==
  ASSUME understood \in Clients, Live(understood, Fresh(conv)), path.entry \in {"claude", "responses"},
         NEW d, Completes(understood, conv, d, Whole(sent))
  PROVE  LET c == Convert(conv, d.out)
         IN  c \in Converters /\ c.finished /\ Same(Read(understood, c.out), Whole(sent))
<1> DEFINE v == Whole(sent)
           c == Convert(conv, d.out)
<1>1. PICK f \in Seq(Contents) : d.out = Append(f, Done) /\ Says(v, Convert(conv, f), TallyOf(understood, Convert(conv, f)))
  BY DEF Completes
<1>2. v \in Wholes /\ ~v.failed
  BY DEF Completes
<1> HIDE DEF v
<1>3. Over(understood, Convert(conv, Append(f, Done))) /\ Same(Read(understood, Convert(conv, Append(f, Done)).out), v)
  BY <1>1, <1>2, EndSame, ConvertEnds
<1>4. Over(understood, c) /\ Same(Read(understood, c.out), v)
  BY <1>1, <1>3
<1> HIDE DEF c
<1> QED
  BY <1>4 DEF Over, v, c

(* A chunk of the answer that is kept, converted or fails.                 *)
LEMMA ArrivesAnswers ==
  ASSUME ConversionInv, AnswerInv, Arrives
  PROVE  AnswerInv'
<1> DEFINE d == Adapt(Waiting)
           c == Convert(conv, d.out)
           v == Whole(sent)
<1> SUFFICES ASSUME path.adapter = "command_code"
             PROVE  /\ Flowing' => Telling'
                    /\ phase' = "closed" => understood'.failed \/ Same(understood, Whole(sent))'
  BY DEF AnswerInv, Arrives
<1>1. /\ Flowing /\ SentInv /\ Adopt(d) /\ arrived < Len(sent) /\ arrived' = Len(sent)
      /\ path' = path /\ sent' = sent
      /\ IF phase = "prelude" THEN ArrivesInPrelude(d.out) ELSE ArrivesLive(d.out)
  BY DEF Arrives, ConversionInv
<1>2. arrived # Len(sent) /\ SoFar' = v
  BY <1>1, AllArrived DEF SentInv
<1>3. /\ path.entry \in {"claude", "responses"}
      /\ understood \in Clients /\ Live(understood, conv) /\ Fresh(conv) = conv
      /\ TallyOf(understood, conv) = Tally(understood)
      /\ kept = <<>>
  BY <1>1, <1>2, TellingIs
<1>4. \/ HasError(d.out)
      \/ Proceeds(understood, conv, d, v)
      \/ Completes(understood, conv, d, v)
  BY <1>1, <1>3, WaitingAnswers
<1> HIDE DEF d, v
<1>5. Proceeds(understood, conv, d, v) => c \in Converters /\ ~c.finished /\ ~HasError(d.out)
  BY DEF Proceeds, Live, Sound
<1>6. Completes(understood, conv, d, v) =>
        /\ c \in Converters /\ c.finished /\ ~HasError(d.out)
        /\ Same(Read(understood, c.out), v)
  <2> SUFFICES ASSUME Completes(understood, conv, d, v)
               PROVE  /\ c \in Converters /\ c.finished /\ ~HasError(d.out)
                      /\ Same(Read(understood, c.out), v)
    OBVIOUS
  <2>1. ~HasError(d.out)
    BY DEF Completes
  <2>2. c \in Converters /\ c.finished /\ Same(Read(understood, c.out), v)
    BY <1>3, CompletesTold DEF v
  <2> QED
    BY <2>1, <2>2
<1>7. ASSUME Proceeds(understood, conv, d, v), Deliver(c) PROVE Telling'
  BY <1>1, <1>2, <1>3, <1>7, ProceedsTold DEF v
<1>8. ASSUME Completes(understood, conv, d, v), Deliver(c) PROVE Same(understood, Whole(sent))'
  <2>1. understood' = Read(understood, c.out) /\ Same(Read(understood, c.out), v)
    BY <1>3, <1>6, <1>8, DeliversTally
  <2> HIDE DEF c
  <2> QED
    BY <1>1, <2>1, SameStays DEF v
<1>9. CASE phase = "prelude" /\ HasError(d.out)
  <2>1. phase' = "failed_over"
    BY <1>1, <1>9 DEF ArrivesInPrelude
  <2> QED
    BY <2>1 DEF Flowing
<1>10. CASE phase = "prelude" /\ ~HasError(d.out)
  <2>1. Adapted(FALSE, Waiting, d)
    <3>1. ~decoder.finished
      BY <1>1, <1>3, TellingIs, DoneAlone
    <3> QED
      BY <3>1, WaitingAdapted DEF d
  <2>2. kept \o d.out = d.out
    BY <1>3, <2>1, NothingKept
  <2>3. \/ FirstToken(d.out) /\ After(c) /\ Deliver(c) /\ kept' = <<>>
        \/ ~FirstToken(d.out) /\ kept' = d.out /\ UNCHANGED <<phase, conv, understood>>
    BY <1>1, <1>10, <2>2 DEF ArrivesInPrelude
  <2>4. CASE FirstToken(d.out)
    <3>1. After(c) /\ Deliver(c)
      BY <2>3, <2>4
    <3> HIDE DEF c
    <3>2. CASE Proceeds(understood, conv, d, v)
      <4>1. phase' = "live"
        BY <1>5, <3>1, <3>2 DEF After
      <4> QED
        BY <1>7, <3>1, <3>2, <4>1
    <3>3. CASE Completes(understood, conv, d, v)
      <4>1. phase' = "closed"
        BY <1>6, <3>1, <3>3 DEF After
      <4> QED
        BY <1>8, <3>1, <3>3, <4>1 DEF Flowing
    <3> QED
      BY <1>4, <1>10, <3>2, <3>3
  <2>5. CASE ~FirstToken(d.out)
    <3>1. /\ kept' = d.out /\ phase' = "prelude" /\ conv' = conv /\ understood' = understood
      BY <1>10, <2>3, <2>5
    <3>2. Convert(conv, <<>>) = conv
      <4>1. Convert(conv, <<>>) = Fresh(conv)
        BY <1>3, DoneAlone, ConvertGives
      <4> QED
        BY <1>3, <4>1
    <3>3. CASE Proceeds(understood, conv, d, v)
      <4>1. d.out = <<>>
        BY <2>5, <3>3, ContentsAreNoEnd DEF Proceeds
      <4>2. c = conv /\ c.out = <<>> /\ conv' = [c EXCEPT !.out = <<>>]
        <5>1. conv \in Converters
          BY <1>3 DEF Live, Sound
        <5>2. c = conv
          BY <3>2, <4>1
        <5>3. conv.out = <<>>
          <6>1. Fresh(conv).out = <<>>
            BY <5>1 DEF Fresh, Converters
          <6> QED
            BY <1>3, <6>1
        <5> HIDE DEF c
        <5> QED
          BY <1>3, <3>1, <5>2, <5>3 DEF Fresh
      <4>3. Deliver(c)
        <5>1. Read(understood, <<>>) = understood
          BY <1>3, EmptyIsRead
        <5> HIDE DEF c
        <5> QED
          BY <3>1, <4>2, <5>1 DEF Deliver, Read
      <4> HIDE DEF c
      <4> QED
        BY <1>7, <3>1, <3>3, <4>3
    <3>4. CASE Completes(understood, conv, d, v)
      <4>1. PICK f \in Seq(Contents) : d.out = Append(f, Done) /\ Says(v, Convert(conv, f), TallyOf(understood, Convert(conv, f)))
        BY <3>4 DEF Completes
      <4>2. f = <<>>
        <5>1. Done.type = "done"
          BY DEF Done, Ev
        <5> QED
          BY <2>5, <4>1, <5>1, ContentsAreNoEnd
      <4>3. ~v.failed /\ Says(v, conv, Tally(understood)) /\ kept' # <<>>
        BY <1>3, <3>1, <3>2, <3>4, <4>1, <4>2, DoneAlone DEF Completes
      <4>4. Heard(SoFar)' = Heard(v)
        BY <1>1, <1>2 DEF Heard
      <4>5. Telling'
        BY <1>1, <1>2, <3>1, <4>3, <4>4 DEF Telling, Says
      <4> QED
        BY <3>1, <4>5
    <3> QED
      BY <1>4, <1>10, <3>3, <3>4
  <2> QED
    BY <2>4, <2>5
<1>11. CASE phase # "prelude"
  <2> DEFINE x == IF HasError(d.out) THEN ErrorEvent(conv) ELSE c
  <2>1. After(x) /\ Deliver(x)
    BY <1>1, <1>11 DEF ArrivesLive
  <2>2. CASE HasError(d.out)
    <3> DEFINE y == ErrorEvent(conv)
    <3>1. After(y) /\ Deliver(y)
      BY <2>1, <2>2
    <3>2. Over(understood, y) /\ Read(understood, y.out).failed
      BY <1>3, ErrorEventIsOver DEF Live
    <3> HIDE DEF y
    <3>3. phase' = "closed" /\ understood' = Read(understood, y.out)
      BY <3>1, <3>2 DEF After, Over, Deliver, Read
    <3> QED
      BY <3>2, <3>3 DEF Flowing
  <2>3. CASE ~HasError(d.out)
    <3>1. After(c) /\ Deliver(c)
      BY <2>1, <2>3
    <3> HIDE DEF c
    <3>2. CASE Proceeds(understood, conv, d, v)
      <4>1. phase' = "live"
        BY <1>5, <3>1, <3>2 DEF After
      <4> QED
        BY <1>7, <3>1, <3>2, <4>1
    <3>3. CASE Completes(understood, conv, d, v)
      <4>1. phase' = "closed"
        BY <1>6, <3>1, <3>3 DEF After
      <4> QED
        BY <1>8, <3>1, <3>3, <4>1 DEF Flowing
    <3> QED
      BY <1>4, <2>3, <3>2, <3>3
  <2> QED
    BY <2>2, <2>3
<1> QED
  BY <1>9, <1>10, <1>11

(* The end of the upstream ends the answer with the whole of it.           *)
LEMMA ClosesAnswers ==
  ASSUME ConversionInv, AnswerInv, Closes
  PROVE  AnswerInv'
<1> DEFINE replayed == Convert(conv, kept)
           d        == Unfinished
           errs     == HasError(d.out)
           told     == Convert(replayed, d.out)
           last(c)  == [c EXCEPT !.out = replayed.out \o c.out]
           final    == CASE replayed.finished -> replayed
                         [] ~replayed.finished /\ errs ->
                              last(ErrorEvent([replayed EXCEPT !.out = <<>>]))
                         [] ~replayed.finished /\ ~errs /\ told.finished -> last(told)
                         [] OTHER -> last(Finish(told))
           v        == Whole(sent)
<1>1. /\ Deliver(final) /\ phase' = "closed" /\ Flowing
      /\ path' = path /\ sent' = sent /\ arrived' = arrived
  BY DEF Closes
<1> SUFFICES ASSUME path.adapter = "command_code"
             PROVE  understood'.failed \/ Same(understood, Whole(sent))'
  BY <1>1 DEF AnswerInv, Flowing
<1>2. /\ path.entry \in {"claude", "responses"}
      /\ understood \in Clients /\ Live(understood, conv) /\ Fresh(conv) = conv
      /\ ~SoFar.failed /\ Says(SoFar, conv, TallyOf(understood, conv))
      /\ (kept = <<>> \/ (kept = <<Done>> /\ arrived = Len(sent)))
  BY <1>1, TellingIs
<1>3. v \in Wholes /\ SoFar \in Wholes /\ (arrived = Len(sent) => SoFar = v)
  BY SoFarIs DEF ConversionInv
<1>4. Convert(conv, <<>>) = conv
  BY <1>2, DoneAlone, ConvertGives
<1>5. conv \in Converters /\ conv.out = <<>> /\ ~conv.finished /\ Sound(understood, conv)
  <2>1. conv \in Converters /\ Fresh(conv).out = <<>> /\ ~conv.finished /\ Sound(understood, conv)
    BY <1>2 DEF Live, Sound, Fresh, Converters
  <2> QED
    BY <1>2, <2>1
<1>6. Read(understood, final.out).failed \/ Same(Read(understood, final.out), v)
  <2>1. CASE kept = <<Done>> /\ arrived = Len(sent)
    <3> DEFINE x == Convert(conv, Append(<<>>, Done))
    <3>1. x.finished /\ Same(Read(understood, x.out), SoFar)
      <4>1. Live(understood, Fresh(conv)) /\ Says(SoFar, Convert(conv, <<>>), TallyOf(understood, Convert(conv, <<>>)))
        BY <1>2, <1>4
      <4> QED
        BY <1>2, <1>3, <4>1, DoneAlone, EndSame
    <3>2. replayed = x
      BY <2>1, DoneAlone
    <3>3. final = replayed
      <4> HIDE DEF replayed, last, told, errs, x
      <4> QED
        BY <3>1, <3>2
    <3> HIDE DEF final, replayed, x
    <3> QED
      BY <1>3, <2>1, <3>1, <3>2, <3>3
  <2>2. CASE kept = <<>>
    <3>1. replayed = conv /\ d = Adapt(Waiting)
      BY <1>4, <2>2 DEF Unfinished
    <3>2. \/ HasError(d.out)
          \/ Proceeds(understood, conv, d, v)
          \/ Completes(understood, conv, d, v)
      BY <1>1, <2>2, <3>1, WaitingAnswers
    <3> DEFINE failed == ErrorEvent([replayed EXCEPT !.out = <<>>])
               c      == Convert(conv, d.out)
    <3>3. failed \in Converters /\ Read(understood, failed.out).failed
      <4>1. failed = ErrorEvent(conv)
        BY <1>2, <3>1 DEF Fresh
      <4> HIDE DEF failed
      <4> QED
        BY <1>2, <1>5, <4>1, ErrorEventIsOver DEF Over
    <3>4. ASSUME NEW x \in Converters PROVE last(x) = x
      BY <1>5, <3>1, Prefixed
    <3>5. told = c
      BY <3>1
    <3> HIDE DEF d, v
    <3>6. CASE errs
      <4>1. final = last(failed)
        <5> HIDE DEF last, told, failed, replayed, c, errs
        <5>1. final = last(ErrorEvent([replayed EXCEPT !.out = <<>>]))
          BY <1>5, <3>1, <3>6
        <5> QED
          BY <5>1 DEF failed
      <4> HIDE DEF final, last, failed
      <4> QED
        BY <3>3, <3>4, <4>1
    <3>7. CASE Completes(understood, conv, d, v)
      <4>1. c \in Converters /\ c.finished /\ Same(Read(understood, c.out), v) /\ ~errs
        <5>1. ~errs
          BY <3>7 DEF Completes
        <5>2. Live(understood, Fresh(conv))
          BY <1>2
        <5> HIDE DEF errs
        <5>3. c \in Converters /\ c.finished /\ Same(Read(understood, c.out), v)
          BY <1>2, <3>7, <5>2, CompletesTold DEF v
        <5> QED
          BY <5>1, <5>3
      <4>2. final = last(told)
        <5> HIDE DEF last, told, errs, replayed, c
        <5> QED
          BY <1>5, <3>1, <3>5, <4>1
      <4> HIDE DEF final, last, told, c
      <4> QED
        BY <3>4, <3>5, <4>1, <4>2
    <3>8. CASE Proceeds(understood, conv, d, v)
      <4> DEFINE x == Finish(c)
      <4>1. /\ ~errs /\ Sound(understood, c) /\ ~c.finished /\ v \in Wholes /\ ~v.failed
            /\ Says(v, c, TallyOf(understood, c))
        BY <3>8 DEF Proceeds, Live, Match
      <4>2. final = last(x)
        <5> HIDE DEF last, told, errs, replayed, c
        <5> QED
          BY <1>5, <3>1, <3>5, <4>1
      <4> HIDE DEF c
      <4>3. x \in Converters
        BY <1>2, <4>1, FinishIsOver
      <4>4. Same(Read(understood, x.out), v)
        BY <1>2, <4>1, FinishSame
      <4> HIDE DEF final, last, x
      <4> QED
        BY <3>4, <4>2, <4>3, <4>4
    <3> HIDE DEF final
    <3> QED
      BY <3>2, <3>6, <3>7, <3>8
  <2> HIDE DEF final
  <2> QED
    BY <1>2, <2>1, <2>2
<1> HIDE DEF final, v
<1>7. understood' = Read(understood, final.out)
  BY <1>1 DEF Deliver, Read
<1> QED
  BY <1>1, <1>6, <1>7, SameStays DEF v

LEMMA UndecodableAnswers ==
  ASSUME ConversionInv, AnswerInv, Undecodable
  PROVE  AnswerInv'
<1> DEFINE c == ErrorEvent([conv EXCEPT !.out = <<>>])
<1>1. /\ path' = path /\ Flowing
      /\ phase' = "failed_over" \/ (phase' = "closed" /\ Deliver(c))
  BY DEF Undecodable
<1> SUFFICES ASSUME path.adapter = "command_code", phase' = "closed", Deliver(c)
             PROVE  understood'.failed
  BY <1>1 DEF AnswerInv, Flowing
<1>2. path.entry \in {"claude", "responses"} /\ understood \in Clients /\ Live(understood, conv) /\ Fresh(conv) = conv
  BY <1>1, TellingIs
<1>3. c = ErrorEvent(conv)
  BY <1>2 DEF Fresh
<1>4. Deliver(c)
  OBVIOUS
<1> HIDE DEF c
<1>5. Read(understood, c.out).failed
  BY <1>2, <1>3, ErrorEventIsOver DEF Live
<1> QED
  BY <1>4, <1>5 DEF Deliver, Read

LEMMA NextAnswers ==
  ASSUME ConversionInv, AnswerInv, [ConversionNext]_conversionVars
  PROVE  AnswerInv'
<1>1. CASE BreaksOff \/ PreludeTimesOut
  <2>1. path' = path /\ phase' \in {"cut", "failed_over"}
    BY <1>1 DEF BreaksOff, PreludeTimesOut
  <2> QED
    BY <2>1 DEF AnswerInv, Flowing
<1>2. CASE UNCHANGED conversionVars
  <2>1. UNCHANGED <<path, sent, arrived, phase, decoder, kept, conv, understood>>
    BY <1>2 DEF conversionVars
  <2>2. SoFar' = SoFar /\ Heard(SoFar)' = Heard(SoFar)
    BY <2>1 DEF SoFar, Heard, Whole, NewWhole
  <2>3. Telling => Telling'
    BY <2>1, <2>2 DEF Telling, Says, Match
  <2>4. Same(understood, Whole(sent)) => Same(understood, Whole(sent))'
    BY <2>1, SameStays
  <2> QED
    BY <2>1, <2>3, <2>4 DEF AnswerInv, Flowing
<1> QED
  BY <1>1, <1>2, SendsAnswers, ArrivesAnswers, ClosesAnswers, UndecodableAnswers DEF ConversionNext

LEMMA InitAnswers ==
  ASSUME ConversionInit
  PROVE  AnswerInv
<1>1. /\ path \in [adapter : AdapterKinds, entry : Entries]
      /\ sent = <<>> /\ arrived = 0 /\ phase = "prelude"
      /\ decoder = NewDecoder /\ conv = NewConverter /\ understood = NewClient
  BY DEF ConversionInit
<1>2. SoFar = NewWhole /\ NewWhole.text = <<>> /\ NewWhole.calls = {} /\ NewWhole.think = 0 /\ ~NewWhole.failed
      /\ NewWhole.pending = NewDecoder.pending /\ NewDecoder.emitted = {}
  <2>1. SubSeq(sent, 1, arrived) = <<>>
    BY <1>1, SubSeqEmpty
  <2>2. FoldLeft(WholeLine, NewWhole, <<>>) = NewWhole
    <3>1. WholeLineAsks({NewWhole}, {}, NewWhole, <<>>)
      BY DEF WholeLineAsks
    <3>2. WholeLineGives({NewWhole}, NewWhole, <<>>, 0)
      BY <3>1, WholeLineAppends
    <3> QED
      BY <3>2 DEF WholeLineGives
  <2> QED
    BY <2>1, <2>2 DEF SoFar, Whole, NewWhole, NewDecoder
<1>3. Heard(NewWhole) = [text |-> 0, calls |-> 0, held |-> 0]
  <2> DEFINE s0 == [text |-> 0, calls |-> 0, held |-> 0]
  <2>1. FoldLeft(SplitPiece, s0, <<>>) = s0
    <3>1. SplitPieceAsks({s0}, {}, s0, <<>>)
      BY DEF SplitPieceAsks
    <3> HIDE DEF s0
    <3>2. SplitPieceGives({s0}, s0, <<>>, 0)
      BY <3>1, SplitPieceAppends
    <3> QED
      BY <3>2 DEF SplitPieceGives
  <2>2. Split(<<>>) = s0
    BY <2>1 DEF Split
  <2>3. Len(<<>>) = 0
    OBVIOUS
  <2> QED
    BY <1>2, <2>2, <2>3 DEF Heard
<1>4. /\ Tally(NewClient).text = 0 /\ Tally(NewClient).think = 0
      /\ DOMAIN Tally(NewClient).called = {}
  <2>1. \A kind : OfKind(NewClient, kind) = {}
    BY DEF OfKind, NewClient
  <2>2. ASSUME NEW kind PROVE Amount(NewClient, kind) = 0
    <3> DEFINE S == OfKind(NewClient, kind)
               f == [at \in S |-> NewClient.blocks[at].n]
    <3>1. S = {}
      BY <2>1
    <3>2. f \in [S -> Int] /\ IsFiniteSet(S)
      BY <3>1, FS_EmptySet
    <3> HIDE DEF S, f
    <3>3. Total(f) = 0
      BY <3>1, <3>2, TotalTakes
    <3> QED
      BY <3>3 DEF Amount, S, f
  <2>3. DOMAIN Called(NewClient) = {}
    BY <2>1 DEF Called
  <2> QED
    BY <2>2, <2>3 DEF Tally
<1>5. NewConverter.held = 0 /\ \A i \in CallIds : NewConverter.tools[i] = NoInput
  BY DEF NewConverter
<1> DEFINE t == Tally(NewClient)
<1>6. Found(t.called) = {} /\ IsFiniteSet({}) /\ Cardinality({}) = 0
  BY <1>4, FS_EmptySet DEF Found
<1> HIDE DEF t
<1>7. Knows(NewWhole, NewConverter.tools, t.called)
  BY <1>2, <1>4, <1>5 DEF Knows, HasCall, t
<1>8. Says(NewWhole, NewConverter, t)
  BY <1>2, <1>3, <1>4, <1>5, <1>6, <1>7 DEF Says, t
<1>9. Match(NewWhole, NewDecoder)
  BY <1>2 DEF Match, HasCall
<1> QED
  BY <1>1, <1>2, <1>8, <1>9 DEF AnswerInv, Telling, t

(* What has been collected is what the tally counts.                       *)
LEMMA CollectedIs ==
  ASSUME NEW kind
  PROVE  Collected(kind) = Amount(understood, kind)
<1> DEFINE S    == OfKind(understood, kind)
           f    == [at \in S |-> understood.blocks[at].n]
           P(g) == g = [s \in SUBSET S |-> IF s = {} THEN 0
                                           ELSE understood.blocks[First(s)].n + g[s \ {First(s)}]]
           Q(g) == g = [s \in SUBSET S |-> IF s = {} THEN 0 ELSE f[First(s)] + g[s \ {First(s)}]]
<1>1. \A s \in SUBSET S : s # {} => f[First(s)] = understood.blocks[First(s)].n
  <2>1. \A s \in SUBSET S : s # {} => First(s) \in S
    BY DEF First
  <2> HIDE DEF S
  <2> QED
    BY <2>1
<1>2. \A g : P(g) <=> Q(g)
  <2> HIDE DEF S, f
  <2> QED
    BY <1>1
<1>3. Collected(kind) = (CHOOSE g : P(g))[S]
  BY Zenon DEF Collected, MapThenSumSet, MapThenFoldSet, First, OfKind
<1>4. Amount(understood, kind) = (CHOOSE g : Q(g))[S]
  <2>1. DOMAIN f = S /\ Amount(understood, kind) = Total(f)
    BY DEF Amount
  <2> HIDE DEF f
  <2>2. Total(f) = MapThenSumSet(LAMBDA x : f[x], S)
    BY <2>1 DEF Total
  <2>3. MapThenSumSet(LAMBDA x : f[x], S) = (CHOOSE g : Q(g))[S]
    BY Zenon DEF MapThenSumSet, MapThenFoldSet, First
  <2> QED
    BY <2>1, <2>2, <2>3
<1> HIDE DEF P, Q
<1>5. (CHOOSE g : P(g)) = (CHOOSE g : Q(g))
  BY <1>2, Zenon
<1> QED
  BY <1>3, <1>4, <1>5

(* A Command Code answer that was not cut and holds no error is the same   *)
(* streamed and not (CommandCodeDecoder and ndjson_to_chat_completion,     *)
(* convert/commandcode.rs; the converters in convert/stream): the same     *)
(* text and thinking, every call once and with the same arguments, however *)
(* many events it takes, in whatever order and chunks they come.           *)
THEOREM SameAnswers == ConversionSpec => []SameAnswer
<1>1. ConversionInit => ConversionInv /\ AnswerInv
  BY InitHolds, InitAnswers
<1>2. ConversionInv /\ AnswerInv /\ [ConversionNext]_conversionVars => (ConversionInv /\ AnswerInv)'
  BY NextHolds, NextAnswers
<1>3. AnswerInv => SameAnswer
  <2> SUFFICES ASSUME AnswerInv, phase = "closed", path.adapter = "command_code", ~understood.failed
               PROVE  SameAnswer
    BY DEF SameAnswer
  <2>1. Same(understood, Whole(sent))
    BY DEF AnswerInv
  <2>2. \A ids : ToolBlocks(ids) = ToolsOf(understood, ids)
    BY DEF ToolBlocks, ToolsOf, OfKind
  <2>3. Collected("text") = Amount(understood, "text") /\ Collected("think") = Amount(understood, "think")
    BY CollectedIs
  <2> QED
    BY <2>1, <2>2, <2>3, Zenon DEF Same, SameAnswer, Answer
<1> QED
  BY <1>1, <1>2, <1>3, PTL DEF ConversionSpec

-----------------------------------------------------------------------------
(* Part 4: CommandCodeHistory.                                             *)
PartKinds  == {"text", "reasoning", "call", "result", "missing"}
PartSet    == [kind : PartKinds, id : {NoCall} \cup HistoryCalls]
MessageSet == [role : {"assistant", "tool", "user"}, parts : Seq(PartSet)]
BuilderSet ==
  [out : Seq(MessageSet), results : SUBSET HistoryCalls, emitted : SUBSET HistoryCalls,
   reasoning : BOOLEAN, started : BOOLEAN]

(* One part more is one place more for it.                                 *)
LEMMA SpotsOfMore ==
  ASSUME NEW S, NEW s \in Seq(S), NEW a, NEW p
  PROVE  Spots(Append(s, a), p) = Spots(s, p) \cup (IF a = p THEN {Len(s) + 1} ELSE {})
BY DEF Spots

(* Numbers moved up by n.                                                  *)
Shift(n, S) == {n + j : j \in S}

(* The places in two sequences behind each other.                          *)
LEMMA SpotsOfBoth ==
  ASSUME NEW S, NEW s \in Seq(S), NEW t \in Seq(S), NEW p
  PROVE  Spots(s \o t, p) = Spots(s, p) \cup Shift(Len(s), Spots(t, p))
<1>1. /\ DOMAIN (s \o t) = 1..Len(s) + Len(t) /\ DOMAIN s = 1..Len(s) /\ DOMAIN t = 1..Len(t)
      /\ Len(s) \in Nat /\ Len(t) \in Nat
  OBVIOUS
<1>2. \A j \in 1..Len(s) + Len(t) : (s \o t)[j] = IF j <= Len(s) THEN s[j] ELSE t[j - Len(s)]
  OBVIOUS
<1>3. ASSUME NEW j \in Spots(s \o t, p), j \notin Spots(s, p)
      PROVE  j \in {Len(s) + i : i \in Spots(t, p)}
  <2>1. j \in 1..Len(s) + Len(t) /\ (s \o t)[j] = p
    BY <1>1, <1>3 DEF Spots
  <2>2. ~(j <= Len(s))
    BY <1>1, <1>2, <1>3, <2>1 DEF Spots
  <2>3. j - Len(s) \in 1..Len(t) /\ t[j - Len(s)] = p /\ j = Len(s) + (j - Len(s))
    BY <1>1, <1>2, <2>1, <2>2
  <2> QED
    BY <1>1, <2>3 DEF Spots
<1>4. \A j \in Spots(s, p) : j \in Spots(s \o t, p)
  BY <1>1, <1>2 DEF Spots
<1>5. \A i \in Spots(t, p) : Len(s) + i \in Spots(s \o t, p)
  BY <1>1, <1>2 DEF Spots
<1> QED
  BY <1>3, <1>4, <1>5 DEF Shift

(* Nothing is moved up to nothing.                                         *)
LEMMA NoneShifted == ASSUME NEW n, NEW S PROVE Shift(n, S) = {} <=> S = {}
BY DEF Shift

(* The places behind another part.                                         *)
LEMMA SpotsBehindOne ==
  ASSUME NEW S, NEW a \in S, NEW s \in Seq(S), NEW p, a # p
  PROVE  Spots(<<a>> \o s, p) = Shift(1, Spots(s, p)) /\ <<a>> \o s \in Seq(S) /\ <<a>> \o s # <<>>
<1>1. <<a>> \in Seq(S) /\ Len(<<a>>) = 1 /\ Spots(<<a>>, p) = {}
  BY DEF Spots
<1>2. \A h \in Seq(S) : Spots(h \o s, p) = Spots(h, p) \cup Shift(Len(h), Spots(s, p))
  BY SpotsOfBoth
<1>3. Spots(<<a>> \o s, p) = Shift(1, Spots(s, p))
  BY <1>1, <1>2
<1>4. Len(<<a>> \o s) = 1 + Len(s) /\ <<a>> \o s \in Seq(S)
  BY <1>1
<1>5. <<a>> \o s # <<>>
  BY <1>4
<1> QED
  BY <1>3, <1>4, <1>5

(* The places that parts land on: in message i, behind its first k parts.  *)
Land(i, k, parts, p)     == {<<i, k + j>> : j \in Spots(parts, p)}
Lands(m, n, i, k, parts) == \A p : Sites(n, p) = Sites(m, p) \cup Land(i, k, parts, p)

(* What a place among the messages is.                                     *)
LEMMA SitesIs ==
  ASSUME NEW m, NEW p
  PROVE  \A x : x \in Sites(m, p) <=> \E i \in DOMAIN m : \E j \in DOMAIN m[i].parts :
                         m[i].parts[j] = p /\ x = <<i, j>>
BY DEF Sites, Spots

(* A message more.                                                         *)
LEMMA SitesOfMore ==
  ASSUME NEW S, NEW m \in Seq(S), NEW a, NEW T, a.parts \in Seq(T)
  PROVE  Lands(m, Append(m, a), Len(m) + 1, 0, a.parts)
<1> SUFFICES ASSUME NEW p
             PROVE  Sites(Append(m, a), p) = Sites(m, p) \cup Land(Len(m) + 1, 0, a.parts, p)
  BY DEF Lands
<1> DEFINE n == Append(m, a)
<1>1. /\ DOMAIN m = 1..Len(m) /\ DOMAIN n = 1..Len(m) + 1 /\ Len(m) \in Nat
      /\ n[Len(m) + 1] = a /\ \A i \in DOMAIN m : n[i] = m[i] /\ i \in DOMAIN n
  OBVIOUS
<1> HIDE DEF n
<1>2. \A i \in DOMAIN n : i = Len(m) + 1 \/ i \in DOMAIN m
  BY <1>1
<1>3. ASSUME NEW j \in DOMAIN a.parts PROVE 0 + j = j
  OBVIOUS
<1>4. \A x : x \in Land(Len(m) + 1, 0, a.parts, p) <=>
               \E j \in DOMAIN a.parts : a.parts[j] = p /\ x = <<Len(m) + 1, j>>
  BY <1>3 DEF Land, Spots
<1>5. \A x : x \in Sites(n, p) => x \in Sites(m, p) \cup Land(Len(m) + 1, 0, a.parts, p)
  <2> SUFFICES ASSUME NEW x, NEW i \in DOMAIN n, NEW j \in DOMAIN n[i].parts,
                      n[i].parts[j] = p, x = <<i, j>>
               PROVE  x \in Sites(m, p) \cup Land(Len(m) + 1, 0, a.parts, p)
    BY SitesIs
  <2>1. CASE i = Len(m) + 1
    BY <1>1, <1>4, <2>1
  <2>2. CASE i \in DOMAIN m
    BY <1>1, <2>2, SitesIs
  <2> QED
    BY <1>2, <2>1, <2>2
<1>6. \A x : x \in Sites(m, p) => x \in Sites(n, p)
  <2> SUFFICES ASSUME NEW x, NEW i \in DOMAIN m, NEW j \in DOMAIN m[i].parts,
                      m[i].parts[j] = p, x = <<i, j>>
               PROVE  x \in Sites(n, p)
    BY SitesIs
  <2> QED
    BY <1>1, SitesIs
<1>7. \A x : x \in Land(Len(m) + 1, 0, a.parts, p) => x \in Sites(n, p)
  <2> SUFFICES ASSUME NEW j \in DOMAIN a.parts, a.parts[j] = p PROVE <<Len(m) + 1, j>> \in Sites(n, p)
    BY <1>4
  <2> QED
    BY <1>1, SitesIs
<1> QED
  BY <1>5, <1>6, <1>7 DEF n

(* Parts behind those of the last message.                                 *)
LEMMA SitesOfLonger ==
  ASSUME NEW m \in Seq(MessageSet), m # <<>>, NEW parts \in Seq(PartSet)
  PROVE  /\ Lands(m, [m EXCEPT ![Len(m)].parts = @ \o parts], Len(m), Len(m[Len(m)].parts), parts)
         /\ [m EXCEPT ![Len(m)].parts = @ \o parts] \in Seq(MessageSet)
         /\ Len(m[Len(m)].parts) \in Nat
<1> DEFINE l == Len(m)
           n == [m EXCEPT ![l].parts = @ \o parts]
           old == m[l].parts
<1>1. l \in Nat /\ l \in DOMAIN m /\ DOMAIN m = 1..l /\ \A i \in DOMAIN m : m[i] \in MessageSet
  OBVIOUS
<1>2. old \in Seq(PartSet) /\ Len(old) \in Nat
  <2>1. \A x \in MessageSet : x.parts \in Seq(PartSet)
    BY DEF MessageSet
  <2>2. old \in Seq(PartSet)
    BY <1>1, <2>1
  <2> HIDE DEF old
  <2> QED
    BY <2>2
<1>3. /\ DOMAIN n = DOMAIN m /\ n[l].parts = old \o parts /\ n[l].role = m[l].role
      /\ \A i \in DOMAIN m : i # l => n[i] = m[i]
  BY <1>1 DEF MessageSet
<1>4. n \in Seq(MessageSet)
  <2>1. n[l] \in MessageSet
    <3>1. n[l] = [m[l] EXCEPT !.parts = old \o parts]
      BY <1>1
    <3>2. old \o parts \in Seq(PartSet)
      BY <1>2
    <3> QED
      BY <1>1, <3>1, <3>2 DEF MessageSet
  <2> QED
    BY <1>1, <1>3, <2>1
<1> HIDE DEF n, l, old
<1>5. ASSUME NEW p PROVE Sites(n, p) = Sites(m, p) \cup Land(l, Len(old), parts, p)
  <2>1. Spots(old \o parts, p) = Spots(old, p) \cup Shift(Len(old), Spots(parts, p))
    BY <1>2, SpotsOfBoth
  <2>2. \A x : x \in Sites(n, p) <=> \E i \in DOMAIN m : \E j \in Spots(n[i].parts, p) : x = <<i, j>>
    BY <1>3, SitesIs DEF Spots
  <2>3. \A x : x \in Sites(m, p) <=> \E i \in DOMAIN m : \E j \in Spots(m[i].parts, p) : x = <<i, j>>
    BY SitesIs DEF Spots
  <2>4. ASSUME NEW x \in Sites(n, p) PROVE x \in Sites(m, p) \cup Land(l, Len(old), parts, p)
    <3>1. PICK i \in DOMAIN m : \E j \in Spots(n[i].parts, p) : x = <<i, j>>
      BY <2>2, <2>4
    <3>2. PICK j \in Spots(n[i].parts, p) : x = <<i, j>>
      BY <3>1
    <3>3. CASE i = l /\ j \in Spots(old, p)
      BY <1>1, <2>3, <3>2, <3>3 DEF old
    <3>4. CASE i = l /\ j \in Shift(Len(old), Spots(parts, p))
      BY <3>2, <3>4 DEF Land, Shift
    <3>5. CASE i # l
      BY <1>3, <2>3, <3>2, <3>5
    <3> QED
      BY <1>3, <2>1, <3>2, <3>3, <3>4, <3>5
  <2>5. ASSUME NEW x \in Sites(m, p) PROVE x \in Sites(n, p)
    <3>1. PICK i \in DOMAIN m : \E j \in Spots(m[i].parts, p) : x = <<i, j>>
      BY <2>3, <2>5
    <3>2. Spots(m[i].parts, p) \subseteq Spots(n[i].parts, p)
      BY <1>3, <2>1 DEF old
    <3> QED
      BY <2>2, <3>1, <3>2
  <2>6. ASSUME NEW x \in Land(l, Len(old), parts, p) PROVE x \in Sites(n, p)
    <3>1. PICK j \in Spots(parts, p) : x = <<l, Len(old) + j>>
      BY <2>6 DEF Land
    <3>2. Len(old) + j \in Spots(n[l].parts, p)
      BY <1>3, <2>1 DEF Shift
    <3> QED
      BY <1>1, <2>2, <3>1, <3>2
  <2> QED
    BY <2>4, <2>5, <2>6
<1> QED
  BY <1>2, <1>4, <1>5 DEF Lands, n, l, old

(* A part stands once in a set of places, or not at all.                   *)
Stands(S, yes) == IF yes THEN OneOf(S) ELSE S = {}

(* A part that stands once more, where it stood nowhere, stands once.      *)
LEMMA StandsLanded ==
  ASSUME NEW S, NEW parts, NEW p, NEW i, NEW k \in Nat, NEW C, NEW D, NEW id,
         Stands(S, id \in C), Stands(Spots(parts, p), id \in D), ~(id \in C /\ id \in D)
  PROVE  Stands(S \cup Land(i, k, parts, p), id \in C \cup D)
<1>1. CASE id \notin D
  <2>1. Land(i, k, parts, p) = {}
    BY <1>1 DEF Stands, Land
  <2>2. S \cup Land(i, k, parts, p) = S /\ (id \in C \cup D <=> id \in C)
    BY <1>1, <2>1
  <2> QED
    BY <2>2 DEF Stands
<1>2. CASE id \in D
  <2>1. PICK j : Spots(parts, p) = {j}
    BY <1>2 DEF Stands, OneOf
  <2>2. S = {} /\ Land(i, k, parts, p) = {<<i, k + j>>}
    BY <1>2, <2>1 DEF Stands, Land
  <2> QED
    BY <1>2, <2>2 DEF Stands, OneOf
<1> QED
  BY <1>1, <1>2

(* A sequence that is not empty is another one and a last member.          *)
LEMMA LastOff ==
  ASSUME NEW S, NEW n \in Nat, NEW s \in Seq(S), Len(s) = n + 1
  PROVE  \E t \in Seq(S) : \E a \in S : s = Append(t, a) /\ Len(t) = n
<1> DEFINE t == [i \in 1..n |-> s[i]]
<1>1. t \in Seq(S) /\ Len(t) = n /\ s[n + 1] \in S
  OBVIOUS
<1>2. s = Append(t, s[n + 1])
  OBVIOUS
<1> HIDE DEF t
<1> QED
  BY <1>1, <1>2

(* The ids of the calls and of the results among parts; calls of their own.*)
UsesIn(parts)    == {id \in HistoryCalls : Spots(parts, Use(id)) # {}}
ResultsIn(parts) == {id \in HistoryCalls : Spots(parts, Result(id)) # {}}
Singles(parts)   == \A id \in UsesIn(parts) : OneOf(Spots(parts, Use(id)))

(* What one part more adds to the calls and the results.                   *)
LEMMA OnePartMore ==
  ASSUME NEW s \in Seq(PartSet), NEW a \in PartSet
  PROVE  /\ UsesIn(Append(s, a)) = UsesIn(s) \cup {id \in HistoryCalls : a = Use(id)}
         /\ ResultsIn(Append(s, a)) = ResultsIn(s) \cup {id \in HistoryCalls : a = Result(id)}
         /\ Singles(Append(s, a)) => Singles(s) /\ \A id \in UsesIn(s) : a # Use(id)
<1>1. \A p : Spots(Append(s, a), p) = Spots(s, p) \cup (IF a = p THEN {Len(s) + 1} ELSE {})
  BY SpotsOfMore
<1>2. \A p : \A j \in Spots(s, p) : j # Len(s) + 1
  BY DEF Spots
<1>3. UsesIn(Append(s, a)) = UsesIn(s) \cup {id \in HistoryCalls : a = Use(id)}
  BY <1>1 DEF UsesIn
<1>4. ResultsIn(Append(s, a)) = ResultsIn(s) \cup {id \in HistoryCalls : a = Result(id)}
  BY <1>1 DEF ResultsIn
<1>5. ASSUME Singles(Append(s, a)), NEW id \in UsesIn(s) PROVE OneOf(Spots(s, Use(id))) /\ a # Use(id)
  <2>1. OneOf(Spots(Append(s, a), Use(id)))
    BY <1>3, <1>5 DEF Singles
  <2>2. PICK y : Spots(Append(s, a), Use(id)) = {y}
    BY <2>1 DEF OneOf
  <2>3. Spots(s, Use(id)) # {}
    BY DEF UsesIn
  <2>4. Spots(s, Use(id)) = {y}
    BY <1>1, <2>2, <2>3
  <2> QED
    BY <1>1, <1>2, <2>2, <2>4 DEF OneOf
<1> QED
  BY <1>3, <1>4, <1>5 DEF Singles

(* The replies that are made up for a message: one for each call that has  *)
(* no result.                                                              *)
MissingParts == [kind : {"missing"}, id : {NoCall} \cup HistoryCalls]

LEMMA RepliesAre ==
  ASSUME NEW R \in SUBSET HistoryCalls, NEW parts \in Seq(PartSet)
  PROVE  /\ Replies(R, parts) \in Seq(MissingParts)
         /\ Singles(parts) => \A id \in HistoryCalls :
              Stands(Spots(Replies(R, parts), Part("missing", id)), id \in UsesIn(parts) \ R)
<1> DEFINE b == [results |-> R, replies |-> <<>>]
           X == [results : {R}, replies : Seq(MissingParts)]
           F(s) == FoldLeft(Reply, b, s)
           Made(s) == \A id \in HistoryCalls :
                        Stands(Spots(F(s).replies, Part("missing", id)), id \in UsesIn(s) \ R)
           Q == {n \in Nat : \A s \in Seq(PartSet) : Len(s) = n /\ Singles(s) => Made(s)}
<1>1. \A x \in X, y \in PartSet : Reply(x, y) \in X
  <2> SUFFICES ASSUME NEW x \in X, NEW y \in PartSet PROVE Reply(x, y) \in X
    OBVIOUS
  <2>1. Part("missing", y.id) \in MissingParts
    BY DEF Part, MissingParts, PartSet
  <2>2. Append(x.replies, Part("missing", y.id)) \in Seq(MissingParts)
    BY <2>1
  <2> QED
    BY <2>2 DEF Reply
<1>2. b \in X
  OBVIOUS
<1>3. ASSUME NEW s \in Seq(PartSet), NEW a
      PROVE  F(<<>>) = b /\ F(s) \in X /\ F(Append(s, a)) = Reply(F(s), a)
  <2>1. ReplyAsks(X, PartSet, b, s)
    BY <1>1, <1>2 DEF ReplyAsks
  <2> HIDE DEF X, b
  <2>2. ReplyGives(X, b, s, a)
    BY <2>1, ReplyAppends
  <2> QED
    BY <2>2 DEF ReplyGives
<1> HIDE DEF F
<1>4. 0 \in Q
  <2> SUFFICES ASSUME NEW s \in Seq(PartSet), Len(s) = 0, NEW id \in HistoryCalls
               PROVE  Stands(Spots(F(s).replies, Part("missing", id)), id \in UsesIn(s) \ R)
    OBVIOUS
  <2>1. s = <<>> /\ F(s) = b
    BY <1>3
  <2>2. UsesIn(s) = {} /\ Spots(F(s).replies, Part("missing", id)) = {}
    BY <2>1 DEF UsesIn, Spots
  <2> QED
    BY <2>2 DEF Stands
<1>5. ASSUME NEW n \in Nat, n \in Q PROVE n + 1 \in Q
  <2> SUFFICES ASSUME NEW s \in Seq(PartSet), Len(s) = n + 1, Singles(s), NEW id \in HistoryCalls
               PROVE  Stands(Spots(F(s).replies, Part("missing", id)), id \in UsesIn(s) \ R)
    OBVIOUS
  <2>1. PICK t \in Seq(PartSet) : \E a \in PartSet : s = Append(t, a) /\ Len(t) = n
    BY LastOff
  <2>2. PICK a \in PartSet : s = Append(t, a) /\ Len(t) = n
    BY <2>1
  <2>3. /\ UsesIn(s) = UsesIn(t) \cup {i \in HistoryCalls : a = Use(i)}
        /\ Singles(t) /\ \A i \in UsesIn(t) : a # Use(i)
    BY <2>2, OnePartMore
  <2>4. Stands(Spots(F(t).replies, Part("missing", id)), id \in UsesIn(t) \ R)
    BY <1>5, <2>2, <2>3
  <2>5. F(s) = Reply(F(t), a) /\ F(t) \in X
    BY <1>3, <2>2
  <2>6. CASE a.kind = "call" /\ a.id \notin R
    <3> DEFINE p == Part("missing", id)
               r == F(t).replies
    <3>1. r \in Seq(MissingParts) /\ F(s).replies = Append(r, Part("missing", a.id))
      BY <2>5, <2>6 DEF Reply
    <3>2. Spots(F(s).replies, p) = Spots(r, p) \cup (IF Part("missing", a.id) = p THEN {Len(r) + 1} ELSE {})
      BY <3>1, SpotsOfMore
    <3>3. a = Use(a.id)
      BY <2>6 DEF Use, Part, PartSet
    <3>4. CASE a.id = id
      <4>1. id \in UsesIn(s) \ R /\ id \notin UsesIn(t)
        BY <2>3, <2>6, <3>3, <3>4
      <4>2. Spots(r, p) = {}
        BY <2>4, <4>1 DEF Stands
      <4>3. Spots(F(s).replies, p) = {Len(r) + 1}
        BY <3>2, <3>4, <4>2
      <4> HIDE DEF r, p
      <4> QED
        BY <4>1, <4>3 DEF Stands, OneOf, p
    <3>5. CASE a.id # id
      <4>1. Part("missing", a.id) # p /\ a # Use(id)
        BY <3>5 DEF Part, Use
      <4>2. (id \in UsesIn(s) \ R) <=> (id \in UsesIn(t) \ R)
        BY <2>3, <4>1
      <4> QED
        BY <2>4, <3>2, <4>1, <4>2 DEF Stands
    <3> QED
      BY <3>4, <3>5
  <2>7. CASE ~(a.kind = "call" /\ a.id \notin R)
    <3>1. F(s) = F(t)
      BY <2>5, <2>7 DEF Reply
    <3>2. (id \in UsesIn(s) \ R) <=> (id \in UsesIn(t) \ R)
      BY <2>3, <2>7 DEF Use, Part
    <3> QED
      BY <2>4, <3>1, <3>2 DEF Stands
  <2> QED
    BY <2>6, <2>7
<1> HIDE DEF Q
<1>6. Len(parts) \in Q
  BY <1>4, <1>5, Induction
<1>7. F(parts) \in X
  BY <1>3
<1> QED
  BY <1>6, <1>7 DEF Q, F, Replies

(* The results and texts of a user message: one result for each call that  *)
(* has none yet.                                                           *)
UserParts   == {Said} \cup {Result(id) : id \in HistoryCalls}
ResultParts == {Result(id) : id \in HistoryCalls}
NoBlocks(E) == [emitted |-> E, results |-> <<>>, texts |-> <<>>]
BlocksOf(E, s) == FoldLeft(TakeBlock, NoBlocks(E), s)

LEMMA BlocksAre ==
  ASSUME NEW E \in SUBSET HistoryCalls, NEW parts \in Seq(UserParts)
  PROVE  LET u == BlocksOf(E, parts)
         IN  /\ u.emitted = E \cup ResultsIn(parts)
             /\ u.results \in Seq(ResultParts) /\ u.texts \in Seq({Said})
             /\ \A id \in HistoryCalls :
                  Stands(Spots(u.results, Result(id)), id \in ResultsIn(parts) \ E)
<1> DEFINE b == NoBlocks(E)
           X == [emitted : SUBSET HistoryCalls, results : Seq(ResultParts), texts : Seq({Said})]
           F(s) == FoldLeft(TakeBlock, b, s)
           Right(s) == /\ F(s).emitted = E \cup ResultsIn(s)
                       /\ \A id \in HistoryCalls :
                            Stands(Spots(F(s).results, Result(id)), id \in ResultsIn(s) \ E)
           Q == {n \in Nat : \A s \in Seq(UserParts) : Len(s) = n => Right(s)}
<1>0. UserParts \subseteq PartSet /\ ResultParts \subseteq UserParts
  BY DEF UserParts, ResultParts, PartSet, PartKinds, Said, Result, Part
<1>1. \A x \in X, y \in UserParts : TakeBlock(x, y) \in X
  <2> SUFFICES ASSUME NEW x \in X, NEW y \in UserParts PROVE TakeBlock(x, y) \in X
    OBVIOUS
  <2>1. CASE y = Said
    <3>1. TakeBlock(x, y) = [x EXCEPT !.texts = Append(@, y)]
      BY <2>1 DEF TakeBlock, Said, Part
    <3>2. Append(x.texts, y) \in Seq({Said})
      BY <2>1
    <3> QED
      BY <3>1, <3>2
  <2>2. CASE y \in ResultParts
    <3>1. y.kind = "result" /\ y.id \in HistoryCalls
      BY <2>2 DEF ResultParts, Result, Part
    <3>2. CASE y.id \in x.emitted
      BY <3>1, <3>2 DEF TakeBlock
    <3>3. CASE y.id \notin x.emitted
      <4>1. TakeBlock(x, y) = [x EXCEPT !.emitted = @ \cup {y.id}, !.results = Append(@, y)]
        BY <3>1, <3>3 DEF TakeBlock
      <4>2. Append(x.results, y) \in Seq(ResultParts) /\ x.emitted \cup {y.id} \in SUBSET HistoryCalls
        BY <2>2, <3>1
      <4> QED
        BY <4>1, <4>2
    <3> QED
      BY <3>2, <3>3
  <2> QED
    BY <2>1, <2>2 DEF UserParts, ResultParts
<1>2. b \in X
  BY DEF NoBlocks
<1>3. ASSUME NEW s \in Seq(UserParts), NEW a
      PROVE  F(<<>>) = b /\ F(s) \in X /\ F(Append(s, a)) = TakeBlock(F(s), a)
  <2>1. TakeBlockAsks(X, UserParts, b, s)
    BY <1>1, <1>2 DEF TakeBlockAsks
  <2> HIDE DEF X, b
  <2>2. TakeBlockGives(X, b, s, a)
    BY <2>1, TakeBlockAppends
  <2> QED
    BY <2>2 DEF TakeBlockGives
<1> HIDE DEF F
<1>4. 0 \in Q
  <2> SUFFICES ASSUME NEW s \in Seq(UserParts), Len(s) = 0
               PROVE  Right(s)
    OBVIOUS
  <2>1. s = <<>> /\ F(s) = b
    BY <1>3
  <2>2. ResultsIn(s) = {} /\ \A p : Spots(F(s).results, p) = {}
    BY <2>1 DEF ResultsIn, Spots, NoBlocks
  <2> QED
    BY <2>1, <2>2 DEF Stands, NoBlocks
<1>5. ASSUME NEW n \in Nat, n \in Q PROVE n + 1 \in Q
  <2> SUFFICES ASSUME NEW s \in Seq(UserParts), Len(s) = n + 1 PROVE Right(s)
    OBVIOUS
  <2>1. PICK t \in Seq(UserParts) : \E a \in UserParts : s = Append(t, a) /\ Len(t) = n
    BY LastOff
  <2>2. PICK a \in UserParts : s = Append(t, a) /\ Len(t) = n
    BY <2>1
  <2>3. ResultsIn(s) = ResultsIn(t) \cup {i \in HistoryCalls : a = Result(i)}
    <3>1. t \in Seq(PartSet) /\ a \in PartSet
      BY <1>0
    <3> QED
      BY <2>2, <3>1, OnePartMore
  <2>4. Right(t)
    BY <1>5, <2>2
  <2>5. F(s) = TakeBlock(F(t), a) /\ F(t) \in X
    BY <1>3, <2>2
  <2> DEFINE r == F(t).results
             e == F(t).emitted
  <2>6. r \in Seq(ResultParts) /\ e = E \cup ResultsIn(t)
    BY <2>4, <2>5
  <2>7. CASE a = Said
    <3>1. F(s) = [F(t) EXCEPT !.texts = Append(@, a)]
      BY <2>5, <2>7 DEF TakeBlock, Said, Part
    <3>2. F(s).emitted = e /\ F(s).results = r
      BY <2>5, <3>1
    <3>3. ResultsIn(s) = ResultsIn(t)
      BY <2>3, <2>7 DEF Said, Result, Part
    <3> QED
      BY <2>4, <3>2, <3>3
  <2>8. CASE a # Said
    <3>1. PICK i \in HistoryCalls : a = Result(i)
      BY <2>8 DEF UserParts
    <3>2. a.kind = "result" /\ a.id = i /\ \A id : Result(id) = a <=> id = i
      BY <3>1 DEF Result, Part
    <3>3. ResultsIn(s) = ResultsIn(t) \cup {i}
      BY <2>3, <3>2
    <3>4. CASE i \in e
      <4>1. F(s) = F(t)
        BY <2>5, <3>2, <3>4 DEF TakeBlock
      <4>2. ResultsIn(s) \ E = ResultsIn(t) \ E /\ E \cup ResultsIn(s) = E \cup ResultsIn(t)
        BY <2>6, <3>3, <3>4
      <4> QED
        BY <2>4, <4>1, <4>2
    <3>5. CASE i \notin e
      <4>1. F(s) = [F(t) EXCEPT !.emitted = @ \cup {i}, !.results = Append(@, a)]
        BY <2>5, <3>2, <3>5 DEF TakeBlock
      <4>2. F(s).emitted = e \cup {i} /\ F(s).results = Append(r, a)
        BY <2>5, <4>1
      <4>3. ASSUME NEW id \in HistoryCalls
            PROVE  Stands(Spots(F(s).results, Result(id)), id \in ResultsIn(s) \ E)
        <5>1. Spots(F(s).results, Result(id)) = Spots(r, Result(id)) \cup (IF a = Result(id) THEN {Len(r) + 1} ELSE {})
          BY <2>6, <4>2, SpotsOfMore
        <5>2. Stands(Spots(r, Result(id)), id \in ResultsIn(t) \ E)
          BY <2>4
        <5>3. CASE id = i
          <6>1. id \in ResultsIn(s) \ E /\ id \notin ResultsIn(t) \ E
            BY <2>6, <3>3, <3>5, <5>3
          <6>2. Spots(F(s).results, Result(id)) = {Len(r) + 1}
            BY <3>1, <5>1, <5>2, <5>3, <6>1 DEF Stands
          <6> HIDE DEF r
          <6> QED
            BY <6>1, <6>2 DEF Stands, OneOf
        <5>4. CASE id # i
          <6>1. (id \in ResultsIn(s) \ E) <=> (id \in ResultsIn(t) \ E)
            BY <3>3, <5>4
          <6>2. Spots(F(s).results, Result(id)) = Spots(r, Result(id))
            BY <3>2, <5>1, <5>4
          <6> QED
            BY <5>2, <6>1, <6>2 DEF Stands
        <5> QED
          BY <5>3, <5>4
      <4> QED
        BY <2>6, <3>3, <4>2, <4>3
    <3> QED
      BY <3>4, <3>5
  <2> QED
    BY <2>7, <2>8
<1> HIDE DEF Q
<1>6. Len(parts) \in Q
  BY <1>4, <1>5, Induction
<1>7. F(parts) \in X
  BY <1>3
<1> QED
  BY <1>6, <1>7 DEF Q, F, BlocksOf

(* What is written for a conversation whose calls are A, whose results are *)
(* E, when the results R were noted.                                       *)
Kept(m, A, E, R) ==
  \A id \in HistoryCalls :
    /\ Stands(Sites(m, Use(id)), id \in A)
    /\ Stands(Sites(m, Result(id)), id \in E)
    /\ Stands(Sites(m, Part("missing", id)), id \in A \ R)
    /\ \A s \in Sites(m, Part("missing", id)) : \E c \in Sites(m, Use(id)) : s[1] = c[1] + 1

(* The kinds tell the parts of a call apart.                               *)
LEMMA KindsDiffer ==
  \A i, j : /\ Use(i) # Result(j) /\ Use(i) # Part("missing", j) /\ Result(i) # Part("missing", j)
            /\ Said # Use(i) /\ Said # Result(i) /\ Said # Part("missing", i)
            /\ Thought # Use(i) /\ Thought # Result(i) /\ Thought # Part("missing", i)
BY DEF Use, Result, Said, Thought, Part

(* Parts go into a message of their own, and nothing goes nowhere.         *)
Pushed(m, role, parts) ==
  IF parts = <<>> THEN m ELSE Append(m, [role |-> role, parts |-> parts])

LEMMA PushedLands ==
  ASSUME NEW m \in Seq(MessageSet), NEW role \in {"assistant", "tool", "user"},
         NEW parts \in Seq(PartSet)
  PROVE  /\ Lands(m, Pushed(m, role, parts), Len(m) + 1, 0, parts)
         /\ Pushed(m, role, parts) \in Seq(MessageSet)
         /\ parts # <<>> => Len(Pushed(m, role, parts)) = Len(m) + 1
<1>1. CASE parts = <<>>
  <2>1. \A p : Land(Len(m) + 1, 0, parts, p) = {}
    BY <1>1 DEF Land, Spots
  <2> QED
    BY <1>1, <2>1 DEF Pushed, Lands
<1>2. CASE parts # <<>>
  <2> DEFINE a == [role |-> role, parts |-> parts]
  <2>1. a \in MessageSet /\ a.parts = parts
    BY DEF MessageSet
  <2>2. Pushed(m, role, parts) = Append(m, a)
    BY <1>2 DEF Pushed
  <2> HIDE DEF a
  <2>3. Lands(m, Append(m, a), Len(m) + 1, 0, parts)
    BY <2>1, SitesOfMore
  <2> QED
    BY <2>1, <2>2, <2>3
<1> QED
  BY <1>1, <1>2

(* A message of results D, each once and none of them written before.      *)
LEMMA ResultsKept ==
  ASSUME NEW m \in Seq(MessageSet), NEW A, NEW E, NEW R, Kept(m, A, E, R),
         NEW role \in {"assistant", "tool", "user"}, NEW parts \in Seq(PartSet),
         NEW D, D \cap E = {},
         \A id \in HistoryCalls : /\ Spots(parts, Use(id)) = {}
                                  /\ Spots(parts, Part("missing", id)) = {}
                                  /\ Stands(Spots(parts, Result(id)), id \in D)
  PROVE  Kept(Pushed(m, role, parts), A, E \cup D, R)
<1> DEFINE n == Pushed(m, role, parts)
<1> SUFFICES ASSUME NEW id \in HistoryCalls
             PROVE  /\ Stands(Sites(n, Use(id)), id \in A)
                    /\ Stands(Sites(n, Result(id)), id \in E \cup D)
                    /\ Stands(Sites(n, Part("missing", id)), id \in A \ R)
                    /\ \A s \in Sites(n, Part("missing", id)) :
                         \E c \in Sites(n, Use(id)) : s[1] = c[1] + 1
  BY DEF Kept
<1>0. Lands(m, n, Len(m) + 1, 0, parts)
  BY PushedLands
<1> HIDE DEF n
<1>1. \A p : Sites(n, p) = Sites(m, p) \cup Land(Len(m) + 1, 0, parts, p)
  BY <1>0 DEF Lands
<1>2. Land(Len(m) + 1, 0, parts, Use(id)) = {} /\ Land(Len(m) + 1, 0, parts, Part("missing", id)) = {}
  BY DEF Land
<1>3. Sites(n, Use(id)) = Sites(m, Use(id)) /\ Sites(n, Part("missing", id)) = Sites(m, Part("missing", id))
  BY <1>1, <1>2
<1>4. Stands(Sites(n, Result(id)), id \in E \cup D)
  <2>1. Stands(Sites(m, Result(id)), id \in E) /\ Stands(Spots(parts, Result(id)), id \in D)
    BY DEF Kept
  <2>2. ~(id \in E /\ id \in D)
    OBVIOUS
  <2>3. Stands(Sites(m, Result(id)) \cup Land(Len(m) + 1, 0, parts, Result(id)), id \in E \cup D)
    BY <2>1, <2>2, StandsLanded
  <2> QED
    BY <1>1, <2>3
<1> QED
  BY <1>3, <1>4 DEF Kept, Stands

(* A message of text, or anything that has nothing to do with calls.       *)
LEMMA TextKept ==
  ASSUME NEW m \in Seq(MessageSet), NEW A, NEW E, NEW R, Kept(m, A, E, R),
         NEW role \in {"assistant", "tool", "user"}, NEW parts \in Seq({Said})
  PROVE  Pushed(m, role, parts) \in Seq(MessageSet) /\ Kept(Pushed(m, role, parts), A, E, R)
<1>0. Said \in PartSet
  BY DEF PartSet, PartKinds, Said, Part
<1>1. parts \in Seq(PartSet)
  BY <1>0
<1>2. \A id \in HistoryCalls : /\ Spots(parts, Use(id)) = {}
                               /\ Spots(parts, Part("missing", id)) = {}
                               /\ Stands(Spots(parts, Result(id)), id \in {})
  <2>1. \A j \in DOMAIN parts : parts[j] = Said
    OBVIOUS
  <2> QED
    BY <2>1, KindsDiffer DEF Spots, Stands
<1>3. Kept(Pushed(m, role, parts), A, E \cup {}, R)
  BY <1>1, <1>2, ResultsKept
<1> QED
  BY <1>1, <1>3, PushedLands

(* The parts of an assistant, wherever they land, and the replies behind   *)
(* them.                                                                   *)
LEMMA CallsKept ==
  ASSUME NEW m \in Seq(MessageSet), NEW A, NEW E, NEW R \in SUBSET HistoryCalls, Kept(m, A, E, R),
         NEW parts \in Seq(PartSet), Singles(parts), UsesIn(parts) \cap A = {},
         \A id \in HistoryCalls : /\ Spots(parts, Part("missing", id)) = {}
                                  /\ Spots(parts, Result(id)) = {},
         NEW n \in Seq(MessageSet), NEW k \in Nat, Lands(m, n, Len(n), k, parts)
  PROVE  LET o == Pushed(n, "tool", Replies(R, parts))
         IN  o \in Seq(MessageSet) /\ Kept(o, A \cup UsesIn(parts), E, R)
<1> DEFINE D == UsesIn(parts)
           q == Replies(R, parts)
           o == Pushed(n, "tool", q)
<1>1. /\ q \in Seq(MissingParts)
      /\ \A id \in HistoryCalls : Stands(Spots(q, Part("missing", id)), id \in D \ R)
  BY RepliesAre
<1> HIDE DEF q
<1>2. q \in Seq(PartSet) /\ \A j \in DOMAIN q : q[j].kind = "missing"
  <2>1. MissingParts \subseteq PartSet /\ \A x \in MissingParts : x.kind = "missing"
    BY DEF MissingParts, PartSet, PartKinds
  <2> QED
    BY <1>1, <2>1
<1>0. o \in Seq(MessageSet) /\ Lands(n, o, Len(n) + 1, 0, q)
  BY <1>2, PushedLands
<1> HIDE DEF o
<1>3. o \in Seq(MessageSet) /\ \A p : Sites(o, p) = Sites(n, p) \cup Land(Len(n) + 1, 0, q, p)
  BY <1>0 DEF Lands
<1>4. \A p : Sites(n, p) = Sites(m, p) \cup Land(Len(n), k, parts, p)
  BY DEF Lands
<1>5. ASSUME NEW id \in HistoryCalls
      PROVE  /\ Stands(Sites(o, Use(id)), id \in A \cup D)
             /\ Stands(Sites(o, Result(id)), id \in E)
             /\ Stands(Sites(o, Part("missing", id)), id \in (A \cup D) \ R)
             /\ \A s \in Sites(o, Part("missing", id)) :
                  \E c \in Sites(o, Use(id)) : s[1] = c[1] + 1
  <2> DEFINE u == Use(id)
             w == Part("missing", id)
  <2>1. Spots(q, u) = {} /\ Spots(q, Result(id)) = {}
    BY <1>2 DEF Spots, Use, Result, Part
  <2>2. /\ Sites(o, u) = Sites(m, u) \cup Land(Len(n), k, parts, u)
        /\ Sites(o, Result(id)) = Sites(m, Result(id))
        /\ Sites(o, w) = Sites(m, w) \cup Land(Len(n) + 1, 0, q, w)
    <3>1. Land(Len(n) + 1, 0, q, u) = {} /\ Land(Len(n) + 1, 0, q, Result(id)) = {}
      BY <2>1 DEF Land
    <3>2. Land(Len(n), k, parts, Result(id)) = {} /\ Land(Len(n), k, parts, w) = {}
      BY DEF Land
    <3> HIDE DEF u, w
    <3> QED
      BY <1>3, <1>4, <3>1, <3>2
  <2>3. /\ Stands(Sites(m, u), id \in A) /\ Stands(Sites(m, Result(id)), id \in E)
        /\ Stands(Sites(m, w), id \in A \ R)
        /\ \A s \in Sites(m, w) : \E c \in Sites(m, u) : s[1] = c[1] + 1
    BY DEF Kept
  <2>4. Stands(Spots(parts, u), id \in D)
    BY DEF Singles, UsesIn, Stands
  <2> HIDE DEF u, w
  <2>5. Stands(Sites(o, u), id \in A \cup D)
    <3>1. ~(id \in A /\ id \in D)
      OBVIOUS
    <3>2. Stands(Sites(m, u) \cup Land(Len(n), k, parts, u), id \in A \cup D)
      BY <2>3, <2>4, <3>1, StandsLanded
    <3> QED
      BY <2>2, <3>2
  <2>6. Stands(Sites(o, w), id \in (A \ R) \cup (D \ R))
    <3>1. ~(id \in A \ R /\ id \in D \ R)
      OBVIOUS
    <3>2. Stands(Spots(q, w), id \in D \ R)
      BY <1>1 DEF w
    <3>3. Stands(Sites(m, w) \cup Land(Len(n) + 1, 0, q, w), id \in (A \ R) \cup (D \ R))
      BY <2>3, <3>1, <3>2, StandsLanded
    <3> QED
      BY <2>2, <3>3
  <2>7. ASSUME NEW s \in Sites(o, w) PROVE \E c \in Sites(o, u) : s[1] = c[1] + 1
    <3>1. CASE s \in Sites(m, w)
      BY <2>2, <2>3, <3>1
    <3>2. CASE s \in Land(Len(n) + 1, 0, q, w)
      <4>1. s[1] = Len(n) + 1 /\ Spots(q, w) # {}
        BY <3>2 DEF Land
      <4>2. id \in D
        BY <1>1, <4>1 DEF Stands, w
      <4>3. PICK j \in Spots(parts, u) : TRUE
        BY <2>4, <4>2 DEF Stands, OneOf
      <4>4. <<Len(n), k + j>> \in Sites(o, u)
        BY <2>2, <4>3 DEF Land
      <4> QED
        BY <4>1, <4>4
    <3> QED
      BY <2>2, <3>1, <3>2
  <2>8. (A \ R) \cup (D \ R) = (A \cup D) \ R
    OBVIOUS
  <2> QED
    BY <2>2, <2>3, <2>5, <2>6, <2>7, <2>8 DEF u, w, Stands
<1> QED
  BY <1>3, <1>5 DEF Kept, o, q

(* A conversation that grows by an item.                                   *)
ItemSet ==
  [role : {"assistant", "user", "system", "tool", "call", "output", "reasoning"},
   parts : Seq(PartSet)]

LEMMA TalkGrows ==
  ASSUME NEW s \in Seq(ItemSet), NEW x \in ItemSet
  PROVE  /\ CalledIn(Append(s, x)) = CalledIn(s) \cup UsesIn(x.parts)
         /\ Noted(Append(s, x)) = Noted(s) \cup ResultsIn(x.parts)
         /\ Proper(Append(s, x)) => /\ Proper(s) /\ Singles(x.parts)
                                    /\ UsesIn(x.parts) \cap CalledIn(s) = {}
<1> DEFINE t == Append(s, x)
           l == Len(s) + 1
           ps == x.parts
<1>1. ps \in Seq(PartSet) /\ DOMAIN s = 1..Len(s) /\ Len(s) \in Nat
  BY DEF ItemSet
<1>2. Lands(s, t, l, 0, ps)
  BY <1>1, SitesOfMore
<1> HIDE DEF t
<1>3. \A p : Sites(t, p) = Sites(s, p) \cup Land(l, 0, ps, p)
  BY <1>2 DEF Lands
<1>4. \A p : Land(l, 0, ps, p) = {} <=> Spots(ps, p) = {}
  BY DEF Land
<1>5. \A p : Sites(s, p) \cap Land(l, 0, ps, p) = {}
  <2> SUFFICES ASSUME NEW p, NEW y \in Sites(s, p), y \in Land(l, 0, ps, p) PROVE FALSE
    OBVIOUS
  <2>1. y[1] = l
    BY DEF Land
  <2>2. y[1] \in 1..Len(s)
    BY <1>1, SitesIs
  <2> QED
    BY <1>1, <2>1, <2>2
<1> HIDE DEF l
<1>6. CalledIn(t) = CalledIn(s) \cup UsesIn(ps)
  BY <1>3, <1>4 DEF CalledIn, UsesIn
<1>7. Noted(t) = Noted(s) \cup ResultsIn(ps)
  BY <1>3, <1>4 DEF Noted, ResultsIn
<1>8. ASSUME Proper(t), NEW id \in CalledIn(t)
      PROVE  /\ id \in CalledIn(s) => OneOf(Sites(s, Use(id))) /\ id \notin UsesIn(ps)
             /\ id \in UsesIn(ps) => OneOf(Spots(ps, Use(id)))
  <2> DEFINE u == Use(id)
  <2>1. PICK y : Sites(t, u) = {y}
    BY <1>8 DEF Proper, OneOf
  <2>2. CASE id \in CalledIn(s)
    <3>1. Sites(s, u) # {}
      BY <2>2 DEF CalledIn
    <3>2. Sites(s, u) = {y} /\ Land(l, 0, ps, u) = {}
      BY <1>3, <1>5, <2>1, <3>1
    <3>3. Spots(ps, u) = {}
      BY <1>4, <3>2
    <3> QED
      BY <3>2, <3>3 DEF OneOf, UsesIn
  <2>3. CASE id \in UsesIn(ps)
    <3>1. PICK j \in Spots(ps, u) : TRUE
      BY <2>3 DEF UsesIn
    <3>2. \A i \in Spots(ps, u) : <<l, 0 + i>> = y /\ i \in Nat
      <4> SUFFICES ASSUME NEW i \in Spots(ps, u) PROVE <<l, 0 + i>> = y /\ i \in Nat
        OBVIOUS
      <4>1. <<l, 0 + i>> \in Land(l, 0, ps, u)
        BY DEF Land
      <4>2. i \in DOMAIN ps
        BY DEF Spots
      <4> HIDE DEF u
      <4> QED
        BY <1>1, <1>3, <2>1, <4>1, <4>2
    <3>3. \A i \in Spots(ps, u) : i = j
      BY <3>1, <3>2
    <3>4. Spots(ps, u) = {j}
      BY <3>1, <3>3
    <3>5. id \notin CalledIn(s)
      BY <2>2, <2>3
    <3> QED
      BY <3>4, <3>5 DEF OneOf
  <2> QED
    BY <2>2, <2>3
<1>9. ASSUME Proper(t) PROVE Proper(s) /\ Singles(ps) /\ UsesIn(ps) \cap CalledIn(s) = {}
  BY <1>6, <1>8, <1>9 DEF Proper, Singles
<1> QED
  BY <1>6, <1>7, <1>9 DEF t

(* The builder while the items of s are translated, when R was noted.      *)
Good(b, s, R) ==
  /\ b \in BuilderSet /\ b.results = R /\ b.emitted = Noted(s)
  /\ Kept(b.out, CalledIn(s), Noted(s), R)

(* What a message more does to the builder.                                *)
LEMMA PushIs ==
  ASSUME NEW b \in BuilderSet, NEW role, NEW parts
  PROVE  Push(b, role, parts) = [b EXCEPT !.out = Pushed(b.out, role, parts)]
BY DEF Push, Pushed, BuilderSet

(* It stays a builder.                                                     *)
LEMMA PushTyped ==
  ASSUME NEW b \in BuilderSet, NEW role \in {"assistant", "tool", "user"},
         NEW parts \in Seq(PartSet)
  PROVE  Push(b, role, parts) \in BuilderSet
<1> DEFINE o == Pushed(b.out, role, parts)
<1>1. b.out \in Seq(MessageSet)
  BY DEF BuilderSet
<1>2. o \in Seq(MessageSet) /\ Push(b, role, parts) = [b EXCEPT !.out = o]
  BY <1>1, PushedLands, PushIs
<1> HIDE DEF o
<1> QED
  BY <1>2 DEF BuilderSet

(* What an assistant says, and with the reasoning before it.               *)
LEMMA SpokenIs ==
  ASSUME NEW parts \in Seq(Spoken)
  PROVE  /\ parts \in Seq(PartSet) /\ ResultsIn(parts) = {}
         /\ \A id \in HistoryCalls : /\ Spots(parts, Part("missing", id)) = {}
                                     /\ Spots(parts, Result(id)) = {}
<1>1. Spoken \subseteq PartSet /\ \A p \in Spoken : p.kind \notin {"missing", "result"}
  BY DEF Spoken, PartSet, PartKinds, Thought, Said, Use, Part
<1>2. parts \in Seq(PartSet) /\ \A j \in DOMAIN parts : parts[j].kind \notin {"missing", "result"}
  BY <1>1
<1>3. \A id \in HistoryCalls : /\ Spots(parts, Part("missing", id)) = {}
                               /\ Spots(parts, Result(id)) = {}
  BY <1>2 DEF Spots, Result, Part
<1> QED
  BY <1>2, <1>3 DEF ResultsIn

(* The reasoning in front changes nothing about the calls.                 *)
LEMMA ReasonedIs ==
  ASSUME NEW b, NEW parts \in Seq(Spoken), parts # <<>>
  PROVE  LET q == WithReasoning(b, parts)
         IN  /\ q \in Seq(Spoken) /\ q # <<>> /\ UsesIn(q) = UsesIn(parts)
             /\ Singles(parts) => Singles(q)
<1> DEFINE q == <<Thought>> \o parts
<1>1. Thought \in Spoken /\ \A id : Thought # Use(id)
  BY KindsDiffer DEF Spoken
<1>2. \A id : Spots(q, Use(id)) = Shift(1, Spots(parts, Use(id)))
  BY <1>1, SpotsBehindOne
<1>3. q \in Seq(Spoken) /\ q # <<>>
  BY <1>1, SpotsBehindOne
<1> HIDE DEF q
<1>4. UsesIn(q) = UsesIn(parts)
  BY <1>2, NoneShifted DEF UsesIn
<1>5. \A id : OneOf(Spots(parts, Use(id))) => OneOf(Spots(q, Use(id)))
  <2> SUFFICES ASSUME NEW id, NEW j, Spots(parts, Use(id)) = {j} PROVE OneOf(Spots(q, Use(id)))
    BY DEF OneOf
  <2>1. Spots(q, Use(id)) = {1 + j}
    BY <1>2 DEF Shift
  <2> QED
    BY <2>1 DEF OneOf
<1> QED
  BY <1>3, <1>4, <1>5 DEF WithReasoning, Singles, q

(* The builder after an assistant's parts: in a message of their own, and  *)
(* behind those of the last message.                                       *)
LEMMA AssistantIs ==
  ASSUME NEW b \in BuilderSet, NEW parts \in Seq(PartSet), parts # <<>>
  PROVE  LET n == Pushed(b.out, "assistant", parts)
             l == [b.out EXCEPT ![Len(b.out)].parts = @ \o parts]
             q == Replies(b.results, parts)
         IN  /\ q \in Seq(PartSet)
             /\ n \in Seq(MessageSet) /\ Lands(b.out, n, Len(n), 0, parts)
             /\ PushAssistant(b, parts) = [b EXCEPT !.out = Pushed(n, "tool", q)]
             /\ PushAssistant(b, parts) \in BuilderSet
             /\ b.out # <<>> =>
                  /\ l \in Seq(MessageSet) /\ Len(b.out[Len(b.out)].parts) \in Nat
                  /\ Lands(b.out, l, Len(l), Len(b.out[Len(b.out)].parts), parts)
                  /\ AppendAssistant(b, parts) = [b EXCEPT !.out = Pushed(l, "tool", q)]
                  /\ AppendAssistant(b, parts) \in BuilderSet
<1> DEFINE m == b.out
           n == Pushed(m, "assistant", parts)
           l == [m EXCEPT ![Len(m)].parts = @ \o parts]
           q == Replies(b.results, parts)
<1>1. m \in Seq(MessageSet) /\ b.results \in SUBSET HistoryCalls
  BY DEF BuilderSet
<1>2. q \in Seq(PartSet)
  <2>1. MissingParts \subseteq PartSet
    BY DEF MissingParts, PartSet, PartKinds
  <2>2. q \in Seq(MissingParts)
    BY <1>1, RepliesAre
  <2> HIDE DEF q
  <2> QED
    BY <2>1, <2>2
<1>3. /\ n \in Seq(MessageSet) /\ Len(n) = Len(m) + 1
      /\ Lands(m, n, Len(m) + 1, 0, parts)
  BY <1>1, PushedLands
<1>4. ASSUME NEW o \in Seq(MessageSet)
      PROVE  [b EXCEPT !.out = o] \in BuilderSet
  BY DEF BuilderSet
<1>5. ASSUME NEW o \in Seq(MessageSet)
      PROVE  /\ Push([b EXCEPT !.out = o], "tool", q) = [b EXCEPT !.out = Pushed(o, "tool", q)]
             /\ [b EXCEPT !.out = Pushed(o, "tool", q)] \in BuilderSet
  <2> DEFINE c == [b EXCEPT !.out = o]
  <2>1. c \in BuilderSet /\ c.out = o
    BY <1>4 DEF BuilderSet
  <2> HIDE DEF q
  <2>2. Push(c, "tool", q) = [c EXCEPT !.out = Pushed(o, "tool", q)] /\ Push(c, "tool", q) \in BuilderSet
    <3> HIDE DEF c
    <3> QED
      BY <1>2, <2>1, PushIs, PushTyped
  <2> QED
    BY <2>2 DEF BuilderSet
<1>6. Push(b, "assistant", parts) = [b EXCEPT !.out = n]
  BY PushIs
<1>7. PushAssistant(b, parts) = [b EXCEPT !.out = Pushed(n, "tool", q)] /\ PushAssistant(b, parts) \in BuilderSet
  <2> HIDE DEF n
  <2> QED
    BY <1>3, <1>5, <1>6 DEF PushAssistant, Missing
<1>8. ASSUME m # <<>>
      PROVE  /\ l \in Seq(MessageSet) /\ Len(m[Len(m)].parts) \in Nat
             /\ Lands(m, l, Len(l), Len(m[Len(m)].parts), parts)
             /\ AppendAssistant(b, parts) = [b EXCEPT !.out = Pushed(l, "tool", q)]
             /\ AppendAssistant(b, parts) \in BuilderSet
  <2>1. /\ Lands(m, l, Len(m), Len(m[Len(m)].parts), parts) /\ l \in Seq(MessageSet)
        /\ Len(m[Len(m)].parts) \in Nat
    BY <1>1, <1>8, SitesOfLonger
  <2>2. Len(l) = Len(m)
    BY <1>1
  <2>3. [b EXCEPT !.out[Len(b.out)].parts = @ \o parts] = [b EXCEPT !.out = l]
    BY DEF BuilderSet
  <2> HIDE DEF l
  <2>4. AppendAssistant(b, parts) = Push([b EXCEPT !.out = l], "tool", q)
    BY <2>3 DEF AppendAssistant, Missing
  <2> QED
    BY <1>5, <2>1, <2>2, <2>4
<1>9. Lands(m, n, Len(n), 0, parts)
  BY <1>3
<1> HIDE DEF n, l, q
<1> QED
  BY <1>2, <1>3, <1>7, <1>8, <1>9 DEF n, l, q

(* It stays a builder there as well.                                       *)
LEMMA AssistantTyped ==
  ASSUME NEW b \in BuilderSet, NEW parts \in Seq(PartSet), parts # <<>>
  PROVE  /\ PushAssistant(b, parts) \in BuilderSet
         /\ b.out # <<>> => AppendAssistant(b, parts) \in BuilderSet
BY AssistantIs

(* An item of an assistant: its calls are sent, and answered if need be.   *)
LEMMA AssistantGood ==
  ASSUME NEW s \in Seq(ItemSet), NEW x \in ItemSet, NEW R \in SUBSET HistoryCalls,
         NEW b, Good(b, s, R), Proper(Append(s, x)), ResultsIn(x.parts) = {},
         NEW parts \in Seq(Spoken), parts # <<>>, UsesIn(parts) = UsesIn(x.parts),
         Singles(x.parts) => Singles(parts)
  PROVE  /\ Good(PushAssistant(b, parts), Append(s, x), R)
         /\ b.out # <<>> => Good(AppendAssistant(b, parts), Append(s, x), R)
<1> DEFINE m == b.out
           n == Pushed(m, "assistant", parts)
           l == [m EXCEPT ![Len(m)].parts = @ \o parts]
           q == Replies(R, parts)
           A == CalledIn(s)
           E == Noted(s)
<1>1. b \in BuilderSet /\ b.results = R /\ b.emitted = E /\ m \in Seq(MessageSet) /\ Kept(m, A, E, R)
  BY DEF Good, BuilderSet
<1>2. /\ parts \in Seq(PartSet)
      /\ \A id \in HistoryCalls : Spots(parts, Part("missing", id)) = {} /\ Spots(parts, Result(id)) = {}
  BY SpokenIs
<1>3. /\ CalledIn(Append(s, x)) = A \cup UsesIn(parts) /\ Noted(Append(s, x)) = E
      /\ Singles(parts) /\ UsesIn(parts) \cap A = {}
  <2>1. /\ CalledIn(Append(s, x)) = A \cup UsesIn(x.parts)
        /\ Noted(Append(s, x)) = E \cup ResultsIn(x.parts)
        /\ Singles(x.parts) /\ UsesIn(x.parts) \cap A = {}
    BY TalkGrows
  <2> HIDE DEF A, E
  <2> QED
    BY <2>1
<1>4. /\ n \in Seq(MessageSet) /\ Lands(m, n, Len(n), 0, parts)
      /\ PushAssistant(b, parts) = [b EXCEPT !.out = Pushed(n, "tool", q)]
      /\ PushAssistant(b, parts) \in BuilderSet
      /\ m # <<>> => /\ l \in Seq(MessageSet) /\ Len(m[Len(m)].parts) \in Nat
                     /\ Lands(m, l, Len(l), Len(m[Len(m)].parts), parts)
                     /\ AppendAssistant(b, parts) = [b EXCEPT !.out = Pushed(l, "tool", q)]
                     /\ AppendAssistant(b, parts) \in BuilderSet
  <2>1. Replies(b.results, parts) = q
    BY <1>1
  <2> HIDE DEF q
  <2> QED
    BY <1>1, <1>2, <2>1, AssistantIs
<1> HIDE DEF m, n, l, A, E
<1>5. ASSUME NEW o \in Seq(MessageSet), NEW k \in Nat, Lands(m, o, Len(o), k, parts)
      PROVE  Kept(Pushed(o, "tool", q), A \cup UsesIn(parts), E, R)
  BY <1>1, <1>2, <1>3, <1>5, CallsKept
<1> HIDE DEF q
<1>6. ASSUME NEW o, NEW c, c = [b EXCEPT !.out = o], c \in BuilderSet,
             Kept(o, A \cup UsesIn(parts), E, R)
      PROVE  Good(c, Append(s, x), R)
  <2>1. c.out = o /\ c.results = R /\ c.emitted = E
    BY <1>1, <1>6 DEF BuilderSet
  <2> QED
    BY <1>3, <1>6, <2>1 DEF Good
<1>7. Good(PushAssistant(b, parts), Append(s, x), R)
  <2>1. 0 \in Nat /\ Kept(Pushed(n, "tool", q), A \cup UsesIn(parts), E, R)
    BY <1>4, <1>5
  <2> QED
    BY <1>4, <1>6, <2>1
<1>8. ASSUME m # <<>> PROVE Good(AppendAssistant(b, parts), Append(s, x), R)
  <2>1. Kept(Pushed(l, "tool", q), A \cup UsesIn(parts), E, R)
    BY <1>4, <1>5, <1>8
  <2> QED
    BY <1>4, <1>6, <1>8, <2>1
<1> QED
  BY <1>7, <1>8 DEF m

(* What the locals of the translators hold makes no difference.            *)
LEMMA FlagsGood ==
  ASSUME NEW b \in BuilderSet
  PROVE  \A c \in {Begun(b), Pondering(b), Spent(b)} :
           c \in BuilderSet /\ c.out = b.out /\ \A s, R : Good(b, s, R) => Good(c, s, R)
<1>1. \A c \in {Begun(b), Pondering(b), Spent(b)} :
        c \in BuilderSet /\ c.out = b.out /\ c.results = b.results /\ c.emitted = b.emitted
  BY DEF Begun, Pondering, Spent, BuilderSet
<1> QED
  BY <1>1 DEF Good

(* An item without a call and a result.                                    *)
LEMMA OtherGood ==
  ASSUME NEW s \in Seq(ItemSet), NEW x \in ItemSet, NEW R, NEW b, Good(b, s, R),
         UsesIn(x.parts) = {}, ResultsIn(x.parts) = {}
  PROVE  Good(b, Append(s, x), R)
<1>1. /\ CalledIn(Append(s, x)) = CalledIn(s) \cup UsesIn(x.parts)
      /\ Noted(Append(s, x)) = Noted(s) \cup ResultsIn(x.parts)
  BY TalkGrows
<1>2. CalledIn(Append(s, x)) = CalledIn(s) /\ Noted(Append(s, x)) = Noted(s)
  BY <1>1
<1> QED
  BY <1>2 DEF Good

(* Words have no call and no result.                                       *)
LEMMA SaidIs ==
  ASSUME NEW parts \in Seq({Said, Thought})
  PROVE  parts \in Seq(PartSet) /\ UsesIn(parts) = {} /\ ResultsIn(parts) = {}
<1>1. {Said, Thought} \subseteq PartSet
  BY DEF PartSet, PartKinds, Said, Thought, Part
<1>2. \A j \in DOMAIN parts : parts[j] \in {Said, Thought}
  OBVIOUS
<1>3. \A id : Spots(parts, Use(id)) = {} /\ Spots(parts, Result(id)) = {}
  BY <1>2, KindsDiffer DEF Spots
<1> QED
  BY <1>1, <1>3 DEF UsesIn, ResultsIn

(* Text of a user.                                                         *)
LEMMA TextGood ==
  ASSUME NEW s, NEW R, NEW b, Good(b, s, R), NEW parts \in Seq({Said})
  PROVE  Good(Push(b, "user", parts), s, R)
<1> DEFINE n == Pushed(b.out, "user", parts)
<1>1. b \in BuilderSet /\ b.out \in Seq(MessageSet) /\ Kept(b.out, CalledIn(s), Noted(s), R)
  BY DEF Good, BuilderSet
<1>2. n \in Seq(MessageSet) /\ Kept(n, CalledIn(s), Noted(s), R)
  BY <1>1, TextKept
<1>3. Push(b, "user", parts) = [b EXCEPT !.out = n]
  BY <1>1, PushIs
<1> DEFINE c == [b EXCEPT !.out = n]
<1> HIDE DEF n
<1>4. c \in BuilderSet /\ c.out = n /\ c.results = b.results /\ c.emitted = b.emitted
  BY <1>1, <1>2 DEF BuilderSet
<1> QED
  BY <1>2, <1>3, <1>4 DEF Good

(* Results D, written in one message.                                      *)
LEMMA ResultsGood ==
  ASSUME NEW s \in Seq(ItemSet), NEW x \in ItemSet, NEW R, NEW b, Good(b, s, R),
         UsesIn(x.parts) = {}, NEW parts \in Seq(ResultParts),
         \A id \in HistoryCalls :
           Stands(Spots(parts, Result(id)), id \in ResultsIn(x.parts) \ b.emitted),
         NEW e, e = b.emitted \cup ResultsIn(x.parts)
  PROVE  Good(Push([b EXCEPT !.emitted = e], "tool", parts), Append(s, x), R)
<1> DEFINE D == ResultsIn(x.parts) \ b.emitted
           E == Noted(s)
           A == CalledIn(s)
           n == Pushed(b.out, "tool", parts)
           c == [b EXCEPT !.emitted = e]
<1>1. /\ b \in BuilderSet /\ b.out \in Seq(MessageSet) /\ b.results = R /\ b.emitted = E
      /\ Kept(b.out, A, E, R)
  BY DEF Good, BuilderSet
<1>2. CalledIn(Append(s, x)) = A /\ Noted(Append(s, x)) = E \cup ResultsIn(x.parts)
  <2>1. /\ CalledIn(Append(s, x)) = A \cup UsesIn(x.parts)
        /\ Noted(Append(s, x)) = E \cup ResultsIn(x.parts)
    BY TalkGrows
  <2> HIDE DEF A, E
  <2> QED
    BY <2>1
<1>3. parts \in Seq(PartSet) /\ \A id \in HistoryCalls : Spots(parts, Use(id)) = {} /\ Spots(parts, Part("missing", id)) = {}
  <2>1. ResultParts \subseteq PartSet
    BY DEF ResultParts, PartSet, PartKinds, Result, Part
  <2>2. \A p \in ResultParts : \A id : p # Use(id) /\ p # Part("missing", id)
    BY KindsDiffer DEF ResultParts
  <2>3. \A j \in DOMAIN parts : parts[j] \in ResultParts
    OBVIOUS
  <2> QED
    BY <2>1, <2>2, <2>3 DEF Spots
<1> HIDE DEF A, E
<1>4. D \cap E = {} /\ E \cup D = e /\ e \in SUBSET HistoryCalls
  BY <1>1 DEF ResultsIn, BuilderSet
<1>5. n \in Seq(MessageSet) /\ Kept(n, A, E \cup D, R)
  <2>1. \A id \in HistoryCalls : /\ Spots(parts, Use(id)) = {}
                                 /\ Spots(parts, Part("missing", id)) = {}
                                 /\ Stands(Spots(parts, Result(id)), id \in D)
    BY <1>3
  <2>2. n \in Seq(MessageSet)
    BY <1>1, <1>3, PushedLands
  <2> HIDE DEF D
  <2> QED
    BY <1>1, <1>3, <1>4, <2>1, <2>2, ResultsKept
<1>6. c \in BuilderSet /\ c.out = b.out
  BY <1>1, <1>4 DEF BuilderSet
<1>7. Push(c, "tool", parts) = [c EXCEPT !.out = n]
  <2> HIDE DEF c
  <2> QED
    BY <1>6, PushIs
<1> HIDE DEF n, D
<1> DEFINE d == [c EXCEPT !.out = n]
<1>8. d \in BuilderSet /\ d.out = n /\ d.results = R /\ d.emitted = e
  BY <1>1, <1>4, <1>5 DEF BuilderSet
<1>9. Noted(Append(s, x)) = e
  BY <1>1, <1>2
<1> HIDE DEF d
<1>10. Good(d, Append(s, x), R)
  BY <1>2, <1>4, <1>5, <1>8, <1>9 DEF Good
<1> QED
  BY <1>7, <1>10 DEF d

(* A message with one result.                                              *)
LEMMA OneResult ==
  ASSUME NEW id \in HistoryCalls
  PROVE  LET parts == <<Result(id)>>
         IN  /\ parts \in Seq(ResultParts) /\ UsesIn(parts) = {} /\ ResultsIn(parts) = {id}
             /\ parts \in Seq(PartSet)
             /\ \A j, E : Stands(Spots(parts, Result(j)), j \in {id} \ E) \/ id \in E
<1> DEFINE parts == <<Result(id)>>
<1>1. parts \in Seq(ResultParts) /\ DOMAIN parts = {1} /\ parts[1] = Result(id)
  BY DEF ResultParts
<1>2. Result(id) \in PartSet /\ \A j : Result(j) = Result(id) <=> j = id
  BY DEF Result, Part, PartSet, PartKinds
<1>3. parts \in Seq(PartSet)
  BY <1>2
<1> HIDE DEF parts
<1>4. \A j : Spots(parts, Use(j)) = {}
  BY <1>1, KindsDiffer DEF Spots
<1>5. \A j : Spots(parts, Result(j)) = IF j = id THEN {1} ELSE {}
  BY <1>1, <1>2 DEF Spots
<1>6. ASSUME NEW j, NEW E, id \notin E PROVE Stands(Spots(parts, Result(j)), j \in {id} \ E)
  <2>1. CASE j = id
    BY <1>5, <1>6, <2>1 DEF Stands, OneOf
  <2>2. CASE j # id
    BY <1>5, <2>2 DEF Stands
  <2> QED
    BY <2>1, <2>2
<1> QED
  BY <1>1, <1>3, <1>4, <1>5, <1>6 DEF UsesIn, ResultsIn, parts

(* An item that is one result: written unless it has been.                 *)
LEMMA AddResultGood ==
  ASSUME NEW s \in Seq(ItemSet), NEW x \in ItemSet, NEW R, NEW b, Good(b, s, R),
         NEW id \in HistoryCalls, x.parts = <<Result(id)>>
  PROVE  Good(AddResult(b, id), Append(s, x), R)
<1>1. /\ x.parts \in Seq(ResultParts) /\ UsesIn(x.parts) = {} /\ ResultsIn(x.parts) = {id}
      /\ \A j, E : Stands(Spots(x.parts, Result(j)), j \in {id} \ E) \/ id \in E
  BY OneResult
<1>2. CASE id \in b.emitted
  <2>1. /\ CalledIn(Append(s, x)) = CalledIn(s) \cup UsesIn(x.parts)
        /\ Noted(Append(s, x)) = Noted(s) \cup ResultsIn(x.parts)
    BY TalkGrows
  <2>2. id \in Noted(s)
    BY <1>2 DEF Good
  <2>3. CalledIn(Append(s, x)) = CalledIn(s) /\ Noted(Append(s, x)) = Noted(s)
    BY <1>1, <2>1, <2>2
  <2>4. AddResult(b, id) = b
    BY <1>2 DEF AddResult
  <2> QED
    BY <2>3, <2>4 DEF Good
<1>3. CASE id \notin b.emitted
  <2> DEFINE e == b.emitted \cup {id}
  <2>1. AddResult(b, id) = Push([b EXCEPT !.emitted = e], "tool", x.parts)
    BY <1>3 DEF AddResult
  <2>2. \A j \in HistoryCalls : Stands(Spots(x.parts, Result(j)), j \in ResultsIn(x.parts) \ b.emitted)
    <3> SUFFICES ASSUME NEW j \in HistoryCalls
                 PROVE  Stands(Spots(x.parts, Result(j)), j \in {id} \ b.emitted)
      BY <1>1
    <3>1. Stands(Spots(x.parts, Result(j)), j \in {id} \ b.emitted) \/ id \in b.emitted
      BY <1>1
    <3> QED
      BY <1>3, <3>1
  <2>3. e = b.emitted \cup ResultsIn(x.parts)
    BY <1>1
  <2> HIDE DEF e
  <2> QED
    <3>1. Good(Push([b EXCEPT !.emitted = e], "tool", x.parts), Append(s, x), R)
      BY <1>1, <2>2, <2>3, ResultsGood
    <3> QED
      BY <2>1, <3>1
<1> QED
  BY <1>2, <1>3

(* It stays a builder there as well.                                       *)
LEMMA AddResultTyped ==
  ASSUME NEW b \in BuilderSet, NEW id \in HistoryCalls
  PROVE  AddResult(b, id) \in BuilderSet
<1> DEFINE c == [b EXCEPT !.emitted = @ \cup {id}]
           parts == <<Result(id)>>
<1>1. c \in BuilderSet
  BY DEF BuilderSet
<1>2. parts \in Seq(PartSet)
  BY OneResult
<1>3. AddResult(b, id) = b \/ AddResult(b, id) = Push(c, "tool", parts)
  BY DEF AddResult
<1> HIDE DEF c, parts
<1> QED
  BY <1>1, <1>2, <1>3, PushTyped

(* A user message of the Claude protocol.                                  *)
LEMMA BlocksTyped ==
  ASSUME NEW b \in BuilderSet, NEW parts \in Seq(UserParts)
  PROVE  LET u == BlocksOf(b.emitted, parts)
             c == [b EXCEPT !.emitted = u.emitted]
         IN  /\ c \in BuilderSet /\ PushBlocks(b, parts) \in BuilderSet
             /\ PushBlocks(b, parts) = Push(Push(c, "tool", u.results), "user", u.texts)
<1> DEFINE u == BlocksOf(b.emitted, parts)
           c == [b EXCEPT !.emitted = u.emitted]
<1>1. b.emitted \in SUBSET HistoryCalls
  BY DEF BuilderSet
<1>2. /\ u.emitted = b.emitted \cup ResultsIn(parts)
      /\ u.results \in Seq(ResultParts) /\ u.texts \in Seq({Said})
  BY <1>1, BlocksAre
<1>3. PushBlocks(b, parts) = Push(Push(c, "tool", u.results), "user", u.texts)
  BY DEF PushBlocks, BlocksOf, NoBlocks
<1> HIDE DEF u
<1>4. c \in BuilderSet
  BY <1>1, <1>2 DEF BuilderSet, ResultsIn
<1>5. u.results \in Seq(PartSet) /\ u.texts \in Seq(PartSet)
  <2>1. ResultParts \subseteq PartSet /\ {Said} \subseteq PartSet
    BY DEF ResultParts, PartSet, PartKinds, Result, Said, Part
  <2> QED
    BY <1>2, <2>1
<1> HIDE DEF c
<1>6. Push(c, "tool", u.results) \in BuilderSet
  BY <1>4, <1>5, PushTyped
<1>7. Push(Push(c, "tool", u.results), "user", u.texts) \in BuilderSet
  BY <1>5, <1>6, PushTyped
<1> QED
  BY <1>3, <1>4, <1>7 DEF c, u

(* Its results are written unless they have been, and its text behind.     *)
LEMMA BlocksGood ==
  ASSUME NEW s \in Seq(ItemSet), NEW x \in ItemSet, NEW R, NEW b, Good(b, s, R),
         x.parts \in Seq(UserParts)
  PROVE  Good(PushBlocks(b, x.parts), Append(s, x), R)
<1> DEFINE u == BlocksOf(b.emitted, x.parts)
           c == [b EXCEPT !.emitted = u.emitted]
<1>1. b \in BuilderSet /\ b.emitted \in SUBSET HistoryCalls
  BY DEF Good, BuilderSet
<1>2. /\ u.emitted = b.emitted \cup ResultsIn(x.parts)
      /\ u.results \in Seq(ResultParts) /\ u.texts \in Seq({Said})
      /\ \A id \in HistoryCalls :
           Stands(Spots(u.results, Result(id)), id \in ResultsIn(x.parts) \ b.emitted)
  BY <1>1, BlocksAre
<1>3. PushBlocks(b, x.parts) = Push(Push(c, "tool", u.results), "user", u.texts)
  BY <1>1, BlocksTyped
<1> HIDE DEF u
<1>4. UsesIn(x.parts) = {}
  <2>1. \A j \in DOMAIN x.parts : x.parts[j] \in UserParts
    OBVIOUS
  <2>2. \A p \in UserParts : \A id : p # Use(id)
    BY KindsDiffer DEF UserParts
  <2> QED
    BY <2>1, <2>2 DEF UsesIn, Spots
<1>5. Good(Push(c, "tool", u.results), Append(s, x), R)
  BY <1>2, <1>4, ResultsGood
<1> HIDE DEF c
<1>6. Good(Push(Push(c, "tool", u.results), "user", u.texts), Append(s, x), R)
  BY <1>2, <1>5, TextGood
<1> QED
  BY <1>3, <1>6

-----------------------------------------------------------------------------
(* What the items of the three protocols are.                              *)
LEMMA ShortIs ==
  ASSUME NEW S, NEW ps \in Short(S)
  PROVE  ps \in Seq(S) /\ ps # <<>>
<1>1. PICK n \in 1..MaxParts : ps \in [1..n -> S]
  BY DEF Short
<1>2. n \in Nat /\ n # 0
  BY <1>1, HistoryAssumption
<1>3. ps \in Seq(S) /\ Len(ps) = n
  BY <1>1, <1>2
<1> QED
  BY <1>2, <1>3

Roles == {"assistant", "user", "system", "tool", "call", "output", "reasoning"}

(* An item has the role and the parts it is made of.                       *)
LEMMA ItemIs ==
  ASSUME NEW role \in Roles, NEW ps \in Seq(PartSet)
  PROVE  Item(role, ps) \in ItemSet /\ Item(role, ps).role = role /\ Item(role, ps).parts = ps
BY DEF Item, ItemSet, Roles

(* The roles of items.                                                     *)
LEMMA RolesAre ==
  \A r \in {"assistant", "user", "system", "tool", "call", "output", "reasoning"} : r \in Roles
BY DEF Roles

Talks(x)   == x.role = "assistant" /\ x.parts \in Seq(Spoken) /\ x.parts # <<>>
Returns(x) == \E id \in HistoryCalls : x.parts = <<Result(id)>>

(* A Claude message is an assistant's or a user's.                         *)
LEMMA ClaudeItemIs ==
  ASSUME NEW x \in ClaudeItems
  PROVE  x \in ItemSet /\ (Talks(x) \/ (x.role = "user" /\ x.parts \in Seq(UserParts)))
<1>1. UserParts \subseteq PartSet
  BY DEF UserParts, PartSet, PartKinds, Said, Result, Part
<1>2. CASE \E ps \in Short(Spoken) : x = Item("assistant", ps)
  <2>1. PICK ps \in Short(Spoken) : x = Item("assistant", ps)
    BY <1>2
  <2>2. ps \in Seq(Spoken) /\ ps # <<>> /\ ps \in Seq(PartSet)
    BY ShortIs, SpokenIs
  <2> QED
    BY <2>1, <2>2, RolesAre, ItemIs DEF Talks
<1>3. CASE \E ps \in Short(UserParts) : x = Item("user", ps)
  <2>1. PICK ps \in Short(UserParts) : x = Item("user", ps)
    BY <1>3
  <2>2. ps \in Seq(UserParts)
    BY ShortIs
  <2>3. ps \in Seq(PartSet)
    BY <1>1, <2>2
  <2> QED
    BY <2>1, <2>2, <2>3, RolesAre, ItemIs
<1> QED
  BY <1>2, <1>3 DEF ClaudeItems, UserParts

(* Messages of one part.                                                   *)
LEMMA OnePart ==
  /\ <<Said>> \in Seq({Said}) /\ <<Said>> \in Seq({Said, Thought}) /\ <<Said>> \in Seq(PartSet)
  /\ <<Said>> \in Seq(Spoken) /\ <<Said>> # <<>>
  /\ <<Thought>> \in Seq({Said, Thought}) /\ <<Thought>> \in Seq(PartSet)
  /\ \A id \in HistoryCalls : /\ <<Result(id)>> \in Seq(PartSet) /\ <<Use(id)>> \in Seq(PartSet)
                              /\ <<Use(id)>> \in Seq(Spoken) /\ <<Use(id)>> # <<>>
<1>1. /\ Said \in PartSet /\ Thought \in PartSet
      /\ \A id \in HistoryCalls : Result(id) \in PartSet /\ Use(id) \in PartSet
  BY DEF PartSet, PartKinds, Said, Thought, Result, Use, Part
<1>2. Said \in Spoken /\ \A id \in HistoryCalls : Use(id) \in Spoken
  BY DEF Spoken
<1> QED
  BY <1>1, <1>2

(* A chat message is an assistant's, a result or text.                     *)
LEMMA ChatItemIs ==
  ASSUME NEW x \in ChatItems
  PROVE  /\ x \in ItemSet
         /\ \/ Talks(x)
            \/ x.role = "tool" /\ Returns(x)
            \/ x.role \in {"user", "system"} /\ x.parts = <<Said>>
<1>1. CASE \E ps \in Short(Spoken) : x = Item("assistant", ps)
  <2>1. PICK ps \in Short(Spoken) : x = Item("assistant", ps)
    BY <1>1
  <2>2. ps \in Seq(Spoken) /\ ps # <<>> /\ ps \in Seq(PartSet)
    BY ShortIs, SpokenIs
  <2> QED
    BY <2>1, <2>2, RolesAre, ItemIs DEF Talks
<1>2. CASE \E id \in HistoryCalls : x = Item("tool", <<Result(id)>>)
  <2>1. PICK id \in HistoryCalls : x = Item("tool", <<Result(id)>>)
    BY <1>2
  <2>2. x \in ItemSet /\ x.role = "tool" /\ x.parts = <<Result(id)>>
    BY <2>1, OnePart, RolesAre, ItemIs
  <2> QED
    BY <2>2 DEF Returns
<1>3. CASE x = Item("user", <<Said>>) \/ x = Item("system", <<Said>>)
  <2>1. ASSUME NEW role \in {"user", "system"}
        PROVE  /\ Item(role, <<Said>>) \in ItemSet /\ Item(role, <<Said>>).role = role
               /\ Item(role, <<Said>>).parts = <<Said>>
    <3>1. role \in Roles /\ <<Said>> \in Seq(PartSet)
      BY RolesAre, OnePart
    <3> QED
      BY <3>1, ItemIs
  <2> QED
    BY <1>3, <2>1
<1> QED
  BY <1>1, <1>2, <1>3 DEF ChatItems

(* A Responses item is a call, a result, text or reasoning.                *)
LEMMA ResponsesItemIs ==
  ASSUME NEW x \in ResponsesItems
  PROVE  /\ x \in ItemSet
         /\ \/ x.role = "call" /\ x.parts \in Seq(Spoken) /\ x.parts # <<>>
            \/ x.role = "output" /\ Returns(x)
            \/ x.role \in {"user", "assistant"} /\ x.parts = <<Said>>
            \/ x.role = "reasoning" /\ x.parts = <<Thought>>
<1>1. CASE \E id \in HistoryCalls : x = Item("call", <<Use(id)>>)
  <2>1. PICK id \in HistoryCalls : x = Item("call", <<Use(id)>>)
    BY <1>1
  <2>2. x \in ItemSet /\ x.role = "call" /\ x.parts = <<Use(id)>>
    BY <2>1, OnePart, RolesAre, ItemIs
  <2> QED
    BY <2>2, OnePart
<1>2. CASE \E id \in HistoryCalls : x = Item("output", <<Result(id)>>)
  <2>1. PICK id \in HistoryCalls : x = Item("output", <<Result(id)>>)
    BY <1>2
  <2>2. x \in ItemSet /\ x.role = "output" /\ x.parts = <<Result(id)>>
    BY <2>1, OnePart, RolesAre, ItemIs
  <2> QED
    BY <2>2 DEF Returns
<1>3. CASE \E role \in {"user", "assistant"} : x = Item(role, <<Said>>)
  <2>1. ASSUME NEW role \in {"user", "assistant"}
        PROVE  /\ Item(role, <<Said>>) \in ItemSet /\ Item(role, <<Said>>).role = role
               /\ Item(role, <<Said>>).parts = <<Said>>
    <3>1. role \in Roles /\ <<Said>> \in Seq(PartSet)
      BY RolesAre, OnePart
    <3> QED
      BY <3>1, ItemIs
  <2> QED
    BY <1>3, <2>1
<1>4. CASE x = Item("reasoning", <<Thought>>)
  BY <1>4, OnePart, RolesAre, ItemIs
<1> QED
  BY <1>1, <1>2, <1>3, <1>4 DEF ResponsesItems

(* A Claude message leaves a builder.                                      *)
LEMMA ClaudeItemTyped ==
  ASSUME NEW b \in BuilderSet, NEW x \in ClaudeItems
  PROVE  ClaudeItem(b, x) \in BuilderSet
<1>1. CASE Talks(x)
  <2>1. x.parts \in Seq(PartSet) /\ x.parts # <<>> /\ ClaudeItem(b, x) = PushAssistant(b, x.parts)
    BY <1>1, SpokenIs DEF Talks, ClaudeItem
  <2> QED
    BY <2>1, AssistantTyped
<1>2. CASE x.role = "user" /\ x.parts \in Seq(UserParts)
  <2>1. ClaudeItem(b, x) = PushBlocks(b, x.parts)
    BY <1>2 DEF ClaudeItem
  <2> QED
    BY <1>2, <2>1, BlocksTyped
<1> QED
  BY <1>1, <1>2, ClaudeItemIs

(* A Claude message keeps what is written right.                           *)
LEMMA ClaudeItemGood ==
  ASSUME NEW s \in Seq(ItemSet), NEW x \in ClaudeItems, NEW R \in SUBSET HistoryCalls,
         NEW b, Good(b, s, R), Proper(Append(s, x))
  PROVE  Good(ClaudeItem(b, x), Append(s, x), R)
<1>0. x \in ItemSet
  BY ClaudeItemIs
<1>1. CASE Talks(x)
  <2>1. /\ x.parts \in Seq(Spoken) /\ x.parts # <<>> /\ ResultsIn(x.parts) = {}
        /\ ClaudeItem(b, x) = PushAssistant(b, x.parts)
    BY <1>1, SpokenIs DEF Talks, ClaudeItem
  <2> QED
    BY <1>0, <2>1, AssistantGood
<1>2. CASE x.role = "user" /\ x.parts \in Seq(UserParts)
  <2>1. ClaudeItem(b, x) = PushBlocks(b, x.parts)
    BY <1>2 DEF ClaudeItem
  <2> QED
    BY <1>0, <1>2, <2>1, BlocksGood
<1> QED
  BY <1>1, <1>2, ClaudeItemIs

(* A chat message leaves a builder.                                        *)
LEMMA ChatItemTyped ==
  ASSUME NEW b \in BuilderSet, NEW x \in ChatItems
  PROVE  ChatItem(b, x) \in BuilderSet
<1>0. Begun(b) \in BuilderSet
  BY FlagsGood
<1>1. CASE Talks(x)
  <2>1. x.parts \in Seq(PartSet) /\ x.parts # <<>> /\ ChatItem(b, x) = PushAssistant(Begun(b), x.parts)
    BY <1>1, SpokenIs DEF Talks, ChatItem
  <2> QED
    BY <1>0, <2>1, AssistantTyped
<1>2. CASE x.role = "tool" /\ Returns(x)
  <2>1. PICK id \in HistoryCalls : x.parts = <<Result(id)>>
    BY <1>2 DEF Returns
  <2>2. ChatItem(b, x) = AddResult(Begun(b), id)
    BY <1>2, <2>1 DEF ChatItem, Result, Part
  <2> QED
    BY <1>0, <2>2, AddResultTyped
<1>3. CASE x.role \in {"user", "system"} /\ x.parts = <<Said>>
  <2>1. ChatItem(b, x) = b \/ ChatItem(b, x) = Push(Begun(b), "user", <<Said>>)
    BY <1>3 DEF ChatItem
  <2>2. Push(Begun(b), "user", <<Said>>) \in BuilderSet
    BY <1>0, OnePart, PushTyped
  <2> QED
    BY <2>1, <2>2
<1> QED
  BY <1>1, <1>2, <1>3, ChatItemIs

(* A chat message keeps what is written right.                             *)
LEMMA ChatItemGood ==
  ASSUME NEW s \in Seq(ItemSet), NEW x \in ChatItems, NEW R \in SUBSET HistoryCalls,
         NEW b, Good(b, s, R), Proper(Append(s, x))
  PROVE  Good(ChatItem(b, x), Append(s, x), R)
<1>0. x \in ItemSet /\ Good(Begun(b), s, R)
  <2>1. b \in BuilderSet
    BY DEF Good
  <2> QED
    BY <2>1, ChatItemIs, FlagsGood
<1>1. CASE Talks(x)
  <2>1. /\ x.parts \in Seq(Spoken) /\ x.parts # <<>> /\ ResultsIn(x.parts) = {}
        /\ ChatItem(b, x) = PushAssistant(Begun(b), x.parts)
    BY <1>1, SpokenIs DEF Talks, ChatItem
  <2> QED
    BY <1>0, <2>1, AssistantGood
<1>2. CASE x.role = "tool" /\ Returns(x)
  <2>1. PICK id \in HistoryCalls : x.parts = <<Result(id)>>
    BY <1>2 DEF Returns
  <2>2. ChatItem(b, x) = AddResult(Begun(b), id)
    BY <1>2, <2>1 DEF ChatItem, Result, Part
  <2> QED
    BY <1>0, <2>1, <2>2, AddResultGood
<1>3. CASE x.role \in {"user", "system"} /\ x.parts = <<Said>>
  <2>1. ChatItem(b, x) = b \/ ChatItem(b, x) = Push(Begun(b), "user", <<Said>>)
    BY <1>3 DEF ChatItem
  <2>2. UsesIn(x.parts) = {} /\ ResultsIn(x.parts) = {}
    BY <1>3, OnePart, SaidIs
  <2>3. Good(b, Append(s, x), R) /\ Good(Begun(b), Append(s, x), R)
    BY <1>0, <2>2, OtherGood
  <2>4. Good(Push(Begun(b), "user", <<Said>>), Append(s, x), R)
    BY <2>3, OnePart, TextGood
  <2> QED
    BY <2>1, <2>3, <2>4
<1> QED
  BY <1>1, <1>2, <1>3, ChatItemIs

(* A Responses item leaves a builder.                                      *)
LEMMA ResponsesItemTyped ==
  ASSUME NEW b \in BuilderSet, NEW x \in ResponsesItems
  PROVE  ResponsesItem(b, x) \in BuilderSet
<1>0. Pondering(b) \in BuilderSet /\ Spent(b) \in BuilderSet /\ Spent(b).out = b.out
  BY FlagsGood
<1> DEFINE q == WithReasoning(b, x.parts)
<1>1. CASE x.role = "call" /\ x.parts \in Seq(Spoken) /\ x.parts # <<>>
  <2>1. q \in Seq(Spoken) /\ q # <<>>
    BY <1>1, ReasonedIs
  <2>2. q \in Seq(PartSet)
    BY <2>1, SpokenIs
  <2>3. /\ ResponsesItem(b, x) = IF BehindAssistant(b) THEN AppendAssistant(Spent(b), q)
                                                       ELSE PushAssistant(Spent(b), q)
        /\ BehindAssistant(b) => Spent(b).out # <<>>
    BY <1>0, <1>1 DEF ResponsesItem, BehindAssistant
  <2> HIDE DEF q
  <2> QED
    BY <1>0, <2>1, <2>2, <2>3, AssistantTyped
<1>2. CASE x.role = "output" /\ Returns(x)
  <2>1. PICK id \in HistoryCalls : x.parts = <<Result(id)>>
    BY <1>2 DEF Returns
  <2>2. ResponsesItem(b, x) = AddResult(b, id)
    BY <1>2, <2>1 DEF ResponsesItem, Result, Part
  <2> QED
    BY <2>2, AddResultTyped
<1>3. CASE x.role = "user" /\ x.parts = <<Said>>
  <2>1. ResponsesItem(b, x) = Push(b, "user", <<Said>>)
    BY <1>3 DEF ResponsesItem
  <2> QED
    BY <2>1, OnePart, PushTyped
<1>4. CASE x.role = "assistant" /\ x.parts = <<Said>>
  <2>1. q \in Seq(Spoken) /\ q # <<>>
    BY <1>4, OnePart, ReasonedIs
  <2>2. q \in Seq(PartSet)
    BY <2>1, SpokenIs
  <2>3. ResponsesItem(b, x) = PushAssistant(Spent(b), q)
    BY <1>4 DEF ResponsesItem
  <2> HIDE DEF q
  <2> QED
    BY <1>0, <2>1, <2>2, <2>3, AssistantTyped
<1>5. CASE x.role = "reasoning" /\ x.parts = <<Thought>>
  BY <1>0, <1>5 DEF ResponsesItem
<1> QED
  BY <1>1, <1>2, <1>3, <1>4, <1>5, ResponsesItemIs

(* A Responses item keeps what is written right.                           *)
LEMMA ResponsesItemGood ==
  ASSUME NEW s \in Seq(ItemSet), NEW x \in ResponsesItems, NEW R \in SUBSET HistoryCalls,
         NEW b, Good(b, s, R), Proper(Append(s, x))
  PROVE  Good(ResponsesItem(b, x), Append(s, x), R)
<1>0. /\ x \in ItemSet /\ Good(Spent(b), s, R) /\ Good(Pondering(b), s, R)
      /\ Spent(b).out = b.out
  <2>1. b \in BuilderSet
    BY DEF Good
  <2> QED
    BY <2>1, ResponsesItemIs, FlagsGood
<1> DEFINE q == WithReasoning(b, x.parts)
<1>1. ASSUME x.parts \in Seq(Spoken), x.parts # <<>>
      PROVE  /\ Good(PushAssistant(Spent(b), q), Append(s, x), R)
             /\ Spent(b).out # <<>> => Good(AppendAssistant(Spent(b), q), Append(s, x), R)
  <2>1. q \in Seq(Spoken) /\ q # <<>> /\ UsesIn(q) = UsesIn(x.parts) /\ (Singles(x.parts) => Singles(q))
    BY <1>1, ReasonedIs
  <2>2. ResultsIn(x.parts) = {}
    BY <1>1, SpokenIs
  <2> HIDE DEF q
  <2> QED
    BY <1>0, <2>1, <2>2, AssistantGood
<1>2. CASE x.role = "call" /\ x.parts \in Seq(Spoken) /\ x.parts # <<>>
  <2>1. /\ ResponsesItem(b, x) = IF BehindAssistant(b) THEN AppendAssistant(Spent(b), q)
                                                       ELSE PushAssistant(Spent(b), q)
        /\ BehindAssistant(b) => Spent(b).out # <<>>
    BY <1>0, <1>2 DEF ResponsesItem, BehindAssistant
  <2> HIDE DEF q
  <2> QED
    BY <1>1, <1>2, <2>1
<1>3. CASE x.role = "output" /\ Returns(x)
  <2>1. PICK id \in HistoryCalls : x.parts = <<Result(id)>>
    BY <1>3 DEF Returns
  <2>2. ResponsesItem(b, x) = AddResult(b, id)
    BY <1>3, <2>1 DEF ResponsesItem, Result, Part
  <2> QED
    BY <1>0, <2>1, <2>2, AddResultGood
<1>4. CASE x.role = "user" /\ x.parts = <<Said>>
  <2>1. ResponsesItem(b, x) = Push(b, "user", <<Said>>)
    BY <1>4 DEF ResponsesItem
  <2>2. UsesIn(x.parts) = {} /\ ResultsIn(x.parts) = {}
    BY <1>4, OnePart, SaidIs
  <2>3. Good(b, Append(s, x), R)
    BY <1>0, <2>2, OtherGood
  <2> QED
    BY <2>1, <2>3, OnePart, TextGood
<1>5. CASE x.role = "assistant" /\ x.parts = <<Said>>
  <2>1. ResponsesItem(b, x) = PushAssistant(Spent(b), q)
    BY <1>5 DEF ResponsesItem
  <2>2. x.parts \in Seq(Spoken) /\ x.parts # <<>>
    BY <1>5, OnePart
  <2> QED
    BY <1>1, <2>1, <2>2
<1>6. CASE x.role = "reasoning" /\ x.parts = <<Thought>>
  <2>1. ResponsesItem(b, x) = Pondering(b)
    BY <1>6 DEF ResponsesItem
  <2>2. UsesIn(x.parts) = {} /\ ResultsIn(x.parts) = {}
    BY <1>6, OnePart, SaidIs
  <2> QED
    BY <1>0, <2>1, <2>2, OtherGood
<1> QED
  BY <1>2, <1>3, <1>4, <1>5, <1>6, ResponsesItemIs

-----------------------------------------------------------------------------
(* A translator that keeps the builder what it should be item by item      *)
(* keeps it so over a whole conversation.                                  *)
LEMMA TranslatorGood ==
  ASSUME NEW Y \in SUBSET ItemSet, NEW R, NEW f, Good(f[<<>>], <<>>, R),
         \A s \in Seq(Y), x \in Y :
           Good(f[s], s, R) /\ Proper(Append(s, x)) => Good(f[Append(s, x)], Append(s, x), R)
  PROVE  \A s \in Seq(Y) : Proper(s) => Good(f[s], s, R)
<1> DEFINE Q == {n \in Nat : \A s \in Seq(Y) : Len(s) = n /\ Proper(s) => Good(f[s], s, R)}
<1>1. 0 \in Q
  <2>1. \A s \in Seq(Y) : Len(s) = 0 => s = <<>>
    OBVIOUS
  <2> QED
    BY <2>1
<1>2. ASSUME NEW n \in Nat, n \in Q PROVE n + 1 \in Q
  <2> SUFFICES ASSUME NEW s \in Seq(Y), Len(s) = n + 1, Proper(s) PROVE Good(f[s], s, R)
    OBVIOUS
  <2>1. PICK t \in Seq(Y) : \E x \in Y : s = Append(t, x) /\ Len(t) = n
    BY LastOff
  <2>2. PICK x \in Y : s = Append(t, x) /\ Len(t) = n
    BY <2>1
  <2>3. t \in Seq(ItemSet) /\ x \in ItemSet
    OBVIOUS
  <2>4. Proper(t)
    BY <2>2, <2>3, TalkGrows
  <2>5. Good(f[t], t, R)
    BY <1>2, <2>2, <2>4
  <2> QED
    BY <2>2, <2>5
<1> HIDE DEF Q
<1>3. Nat \subseteq Q
  BY <1>1, <1>2, Induction
<1> QED
  BY <1>3 DEF Q

(* Nothing is written at the start, and that is right.                     *)
LEMMA BuilderStarts ==
  ASSUME NEW items
  PROVE  /\ NewBuilder(items) \in BuilderSet /\ Noted(items) \in SUBSET HistoryCalls
         /\ Good(NewBuilder(items), <<>>, Noted(items))
<1> DEFINE b == NewBuilder(items)
<1>1. b \in BuilderSet /\ b.out = <<>> /\ b.results = Noted(items) /\ b.emitted = {}
  BY DEF NewBuilder, BuilderSet, Noted
<1>2. \A p : Sites(<<>>, p) = {}
  BY DEF Sites
<1>3. CalledIn(<<>>) = {} /\ Noted(<<>>) = {}
  BY <1>2 DEF CalledIn, Noted
<1>4. Kept(<<>>, {}, {}, Noted(items))
  BY <1>2 DEF Kept, Stands
<1> QED
  BY <1>1, <1>3, <1>4 DEF Good, Noted

(* A builder as it should be has answered every call of the conversation.  *)
LEMMA GoodAnswers ==
  ASSUME NEW items, NEW b, Good(b, items, Noted(items))
  PROVE  Answered(items, b.out)
<1> DEFINE m == b.out
           A == CalledIn(items)
           E == Noted(items)
<1> SUFFICES ASSUME NEW id \in HistoryCalls
             PROVE  /\ IF id \in A THEN OneOf(Sites(m, Use(id))) ELSE Sites(m, Use(id)) = {}
                    /\ IF id \in A \cup E THEN OneOf(Answers(m, id)) ELSE Answers(m, id) = {}
                    /\ Sites(m, Result(id)) = {} <=> id \notin E
                    /\ \A s \in Sites(m, Part("missing", id)) :
                         \E c \in Sites(m, Use(id)) : s[1] = c[1] + 1
  BY DEF Answered
<1> HIDE DEF m, A, E
<1>1. /\ Stands(Sites(m, Use(id)), id \in A)
      /\ Stands(Sites(m, Result(id)), id \in E)
      /\ Stands(Sites(m, Part("missing", id)), id \in A \ E)
      /\ \A s \in Sites(m, Part("missing", id)) : \E c \in Sites(m, Use(id)) : s[1] = c[1] + 1
  BY DEF Good, Kept, m, A, E
<1>2. IF id \in A \cup E THEN OneOf(Answers(m, id)) ELSE Answers(m, id) = {}
  <2>1. CASE id \in E
    <3>1. OneOf(Sites(m, Result(id))) /\ Sites(m, Part("missing", id)) = {}
      BY <1>1, <2>1 DEF Stands
    <3>2. Answers(m, id) = Sites(m, Result(id))
      BY <3>1 DEF Answers
    <3> QED
      BY <2>1, <3>1, <3>2
  <2>2. CASE id \notin E
    <3>1. Sites(m, Result(id)) = {} /\ (id \in A \ E <=> id \in A \cup E)
      BY <1>1, <2>2 DEF Stands
    <3>2. Answers(m, id) = Sites(m, Part("missing", id))
      BY <3>1 DEF Answers
    <3> QED
      BY <1>1, <3>1, <3>2 DEF Stands
  <2> QED
    BY <2>1, <2>2
<1>3. Sites(m, Result(id)) = {} <=> id \notin E
  BY <1>1 DEF Stands, OneOf
<1>4. IF id \in A THEN OneOf(Sites(m, Use(id))) ELSE Sites(m, Use(id)) = {}
  BY <1>1 DEF Stands
<1> QED
  BY <1>1, <1>2, <1>3, <1>4

(* The translator of Claude messages.                                      *)
LEMMA ClaudeAnswered ==
  ASSUME NEW items \in Seq(ClaudeItems), Proper(items)
  PROVE  Answered(items, FromClaude(items))
<1> DEFINE Y == ClaudeItems
           b == NewBuilder(items)
           R == Noted(items)
           F(s) == FoldLeft(ClaudeItem, b, s)
           f == [s \in Seq(Y) |-> F(s)]
<1>1. b \in BuilderSet /\ R \in SUBSET HistoryCalls /\ Good(b, <<>>, R)
  BY BuilderStarts
<1>2. Y \in SUBSET ItemSet
  BY ClaudeItemIs
<1> HIDE DEF b, R
<1>3. ASSUME NEW s \in Seq(Y), NEW x
      PROVE  F(<<>>) = b /\ F(Append(s, x)) = ClaudeItem(F(s), x)
  <2>1. ClaudeItemAsks(BuilderSet, Y, b, s)
    BY <1>1, ClaudeItemTyped DEF ClaudeItemAsks
  <2>2. ClaudeItemGives(BuilderSet, b, s, x)
    BY <2>1, ClaudeItemAppends
  <2> QED
    BY <2>2 DEF ClaudeItemGives
<1> HIDE DEF F
<1>4. <<>> \in Seq(Y) /\ F(<<>>) = b
  BY <1>3
<1>5. ASSUME NEW s \in Seq(Y), NEW x \in Y, Good(F(s), s, R), Proper(Append(s, x))
      PROVE  Good(F(Append(s, x)), Append(s, x), R)
  <2>1. s \in Seq(ItemSet) /\ F(Append(s, x)) = ClaudeItem(F(s), x)
    BY <1>2, <1>3
  <2> QED
    BY <1>1, <1>5, <2>1, ClaudeItemGood
<1>6. \A s \in Seq(Y) : f[s] = F(s)
  OBVIOUS
<1>7. \A s \in Seq(Y), x \in Y : Append(s, x) \in Seq(Y)
  OBVIOUS
<1> HIDE DEF f, Y
<1>8. Good(f[<<>>], <<>>, R)
  BY <1>1, <1>4, <1>6
<1>9. \A s \in Seq(Y), x \in Y :
        Good(f[s], s, R) /\ Proper(Append(s, x)) => Good(f[Append(s, x)], Append(s, x), R)
  BY <1>5, <1>6, <1>7
<1>10. items \in Seq(Y)
  BY DEF Y
<1>11. Good(F(items), items, R)
  BY <1>2, <1>6, <1>8, <1>9, <1>10, TranslatorGood
<1> QED
  BY <1>11, GoodAnswers DEF R, F, b, FromClaude

(* The translator of chat messages.                                        *)
LEMMA ChatAnswered ==
  ASSUME NEW items \in Seq(ChatItems), Proper(items)
  PROVE  Answered(items, FromChat(items))
<1> DEFINE Y == ChatItems
           b == NewBuilder(items)
           R == Noted(items)
           F(s) == FoldLeft(ChatItem, b, s)
           f == [s \in Seq(Y) |-> F(s)]
<1>1. b \in BuilderSet /\ R \in SUBSET HistoryCalls /\ Good(b, <<>>, R)
  BY BuilderStarts
<1>2. Y \in SUBSET ItemSet
  BY ChatItemIs
<1> HIDE DEF b, R
<1>3. ASSUME NEW s \in Seq(Y), NEW x
      PROVE  F(<<>>) = b /\ F(Append(s, x)) = ChatItem(F(s), x)
  <2>1. ChatItemAsks(BuilderSet, Y, b, s)
    BY <1>1, ChatItemTyped DEF ChatItemAsks
  <2>2. ChatItemGives(BuilderSet, b, s, x)
    BY <2>1, ChatItemAppends
  <2> QED
    BY <2>2 DEF ChatItemGives
<1> HIDE DEF F
<1>4. <<>> \in Seq(Y) /\ F(<<>>) = b
  BY <1>3
<1>5. ASSUME NEW s \in Seq(Y), NEW x \in Y, Good(F(s), s, R), Proper(Append(s, x))
      PROVE  Good(F(Append(s, x)), Append(s, x), R)
  <2>1. s \in Seq(ItemSet) /\ F(Append(s, x)) = ChatItem(F(s), x)
    BY <1>2, <1>3
  <2> QED
    BY <1>1, <1>5, <2>1, ChatItemGood
<1>6. \A s \in Seq(Y) : f[s] = F(s)
  OBVIOUS
<1>7. \A s \in Seq(Y), x \in Y : Append(s, x) \in Seq(Y)
  OBVIOUS
<1> HIDE DEF f, Y
<1>8. Good(f[<<>>], <<>>, R)
  BY <1>1, <1>4, <1>6
<1>9. \A s \in Seq(Y), x \in Y :
        Good(f[s], s, R) /\ Proper(Append(s, x)) => Good(f[Append(s, x)], Append(s, x), R)
  BY <1>5, <1>6, <1>7
<1>10. items \in Seq(Y)
  BY DEF Y
<1>11. Good(F(items), items, R)
  BY <1>2, <1>6, <1>8, <1>9, <1>10, TranslatorGood
<1> QED
  BY <1>11, GoodAnswers DEF R, F, b, FromChat

(* The translator of Responses items.                                      *)
LEMMA ResponsesAnswered ==
  ASSUME NEW items \in Seq(ResponsesItems), Proper(items)
  PROVE  Answered(items, FromResponses(items))
<1> DEFINE Y == ResponsesItems
           b == NewBuilder(items)
           R == Noted(items)
           F(s) == FoldLeft(ResponsesItem, b, s)
           f == [s \in Seq(Y) |-> F(s)]
<1>1. b \in BuilderSet /\ R \in SUBSET HistoryCalls /\ Good(b, <<>>, R)
  BY BuilderStarts
<1>2. Y \in SUBSET ItemSet
  BY ResponsesItemIs
<1> HIDE DEF b, R
<1>3. ASSUME NEW s \in Seq(Y), NEW x
      PROVE  F(<<>>) = b /\ F(Append(s, x)) = ResponsesItem(F(s), x)
  <2>1. ResponsesItemAsks(BuilderSet, Y, b, s)
    BY <1>1, ResponsesItemTyped DEF ResponsesItemAsks
  <2>2. ResponsesItemGives(BuilderSet, b, s, x)
    BY <2>1, ResponsesItemAppends
  <2> QED
    BY <2>2 DEF ResponsesItemGives
<1> HIDE DEF F
<1>4. <<>> \in Seq(Y) /\ F(<<>>) = b
  BY <1>3
<1>5. ASSUME NEW s \in Seq(Y), NEW x \in Y, Good(F(s), s, R), Proper(Append(s, x))
      PROVE  Good(F(Append(s, x)), Append(s, x), R)
  <2>1. s \in Seq(ItemSet) /\ F(Append(s, x)) = ResponsesItem(F(s), x)
    BY <1>2, <1>3
  <2> QED
    BY <1>1, <1>5, <2>1, ResponsesItemGood
<1>6. \A s \in Seq(Y) : f[s] = F(s)
  OBVIOUS
<1>7. \A s \in Seq(Y), x \in Y : Append(s, x) \in Seq(Y)
  OBVIOUS
<1> HIDE DEF f, Y
<1>8. Good(f[<<>>], <<>>, R)
  BY <1>1, <1>4, <1>6
<1>9. \A s \in Seq(Y), x \in Y :
        Good(f[s], s, R) /\ Proper(Append(s, x)) => Good(f[Append(s, x)], Append(s, x), R)
  BY <1>5, <1>6, <1>7
<1>10. items \in Seq(Y)
  BY DEF Y
<1>11. Good(F(items), items, R)
  BY <1>2, <1>6, <1>8, <1>9, <1>10, TranslatorGood
<1> QED
  BY <1>11, GoodAnswers DEF R, F, b, FromResponses

-----------------------------------------------------------------------------
(* What a client says is a conversation of its protocol.                   *)
TalkInv ==
  /\ Proper(talk.items) /\ talk.entry \in {"none", "claude", "chat", "responses"}
  /\ talk.entry = "none"      => talk.items = <<>>
  /\ talk.entry = "claude"    => talk.items \in Seq(ClaudeItems)
  /\ talk.entry = "chat"      => talk.items \in Seq(ChatItems)
  /\ talk.entry = "responses" => talk.items \in Seq(ResponsesItems)

(* Nothing has been said at the start.                                     *)
LEMMA InitTalk == HistoryInit => TalkInv
<1> SUFFICES ASSUME HistoryInit PROVE TalkInv
  OBVIOUS
<1>1. talk.entry = "none" /\ talk.items = <<>>
  BY DEF HistoryInit, Silence
<1>2. CalledIn(<<>>) = {}
  BY DEF CalledIn, Sites
<1> QED
  BY <1>1, <1>2 DEF TalkInv, Proper

(* What is said next goes on with the conversation.                        *)
LEMMA TalkGoesOn ==
  ASSUME TalkInv, NEW entry \in {"claude", "chat", "responses"}, NEW S, NEW n,
         talk.entry = entry => talk.items \in Seq(S), Grows(entry, S, n)
  PROVE  talk'.entry = entry /\ talk'.items \in Seq(S) /\ Proper(talk'.items)
<1>1. talk.items \in Seq(S)
  <2>1. talk.entry = "none" => talk.items = <<>>
    BY DEF TalkInv
  <2>2. talk.entry = "none" \/ talk.entry = entry
    BY DEF Grows
  <2>3. <<>> \in Seq(S)
    OBVIOUS
  <2> QED
    BY <2>1, <2>2, <2>3
<1>2. PICK x \in S : talk' = [entry |-> entry, items |-> Append(talk.items, x)]
  BY DEF Grows
<1> QED
  BY <1>1, <1>2 DEF Grows

(* Each step of a client goes on with its conversation.                    *)
LEMMA NextTalk == TalkInv /\ [HistoryNext]_talk => TalkInv'
<1> SUFFICES ASSUME TalkInv, [HistoryNext]_talk PROVE TalkInv'
  OBVIOUS
<1>1. CASE Grows("claude", ClaudeItems, MaxMessages)
  BY <1>1, TalkGoesOn DEF TalkInv
<1>2. CASE Grows("chat", ChatItems, MaxMessages)
  BY <1>2, TalkGoesOn DEF TalkInv
<1>3. CASE Grows("responses", ResponsesItems, MaxInput)
  BY <1>3, TalkGoesOn DEF TalkInv
<1>4. CASE UNCHANGED talk
  BY <1>4 DEF TalkInv
<1> QED
  BY <1>1, <1>2, <1>3, <1>4 DEF HistoryNext

(* Whatever a client says, in any of the three protocols and at any        *)
(* length, what is sent to Command Code answers each of its calls once     *)
(* (convert/commandcode.rs:215).                                           *)
THEOREM CallsAreAnswered == HistorySpec => []EveryCallAnsweredOnce
<1>1. HistoryInit => TalkInv
  BY InitTalk
<1>2. TalkInv /\ [HistoryNext]_talk => TalkInv'
  BY NextTalk
<1>3. TalkInv => EveryCallAnsweredOnce
  BY ClaudeAnswered, ChatAnswered, ResponsesAnswered DEF TalkInv, EveryCallAnsweredOnce
<1> QED
  BY <1>1, <1>2, <1>3, PTL DEF HistorySpec

=============================================================================

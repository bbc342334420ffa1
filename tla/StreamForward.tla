---------------------------- MODULE StreamForward ----------------------------
(***************************************************************************)
(* One streamed answer on its way to the client (proxy/stream.rs): the     *)
(* generator behind the response body, the upstream it reads, the client   *)
(* that takes what it is handed or hangs up, and CancelAware, the wrapper  *)
(* of the upstream stream whose Drop makes the record if nobody else has.  *)
(*                                                                         *)
(*   transparent  transparent_stream: pieces are forwarded as they are     *)
(*   chat         mapped_stream, ConverterKind::ChatPassthrough            *)
(*   converting   mapped_stream, ClaudeOpenai and ResponsesOpenai          *)
(*                                                                         *)
(* The generator runs without interruption from one suspension to the next *)
(* and is suspended only when it awaits the upstream or has yielded; there *)
(* the client can drop it.  A stretch between two suspensions is an action.*)
(* What the upstream is going to send and how it is going to end is chosen *)
(* in Init; a time limit is an upstream that falls silent.                 *)
(***************************************************************************)
EXTENDS Integers, Sequences, SequencesExt

CONSTANTS
  Kinds,      \* the paths of the instance, among those above
  Adapters,   \* "plain" (SSE) and "ndjson" (Command Code generate) upstreams
  MaxPieces   \* bound: pieces the upstream sends

ASSUME KindsAssumption == Kinds \subseteq {"transparent", "chat", "converting"}
ASSUME AdaptersAssumption == Adapters \subseteq {"plain", "ndjson"}
ASSUME PiecesAssumption == MaxPieces \in Nat

VARIABLES
  up,         \* the path taken and what the upstream does, fixed from the start
  pos,        \* pieces the generator has gone through
  pc,         \* where the generator is suspended
  completed,  \* CancelAware.completed
  responded,  \* CancelAware.responded
  records,    \* the terminal records made (AttemptFinalizer::finalize)
  received,   \* what was handed to the client
  client      \* is the client still there?

vars == <<up, pos, pc, completed, responded, records, received, client>>

-----------------------------------------------------------------------------
(* A piece is told by what the scanners see in it: ordinary bytes, the     *)
(* first tokens, the terminal marker, both, an in-band error; "corrupt" is *)
(* one the decoder rejects.                                                *)
Pieces == {"bytes", "token", "done", "all", "error", "corrupt"}
HasToken(p) == p \in {"token", "all"}
IsDone(p)   == p \in {"done", "all"}

(* The upstream ends the body, ends it inside a compressed frame, breaks   *)
(* off, or says nothing more until the deadline or the idle limit.         *)
Fates == {"eof", "truncated", "reset", "silent"}

Outcome(o, s, r) == [outcome |-> o, status |-> s, started |-> r]
Outcomes == [outcome : {"success", "gateway_error", "upstream_error",
                        "stream_interrupted", "cancelled"},
             status : {200, 504}, started : BOOLEAN]

(* A last line without its newline (open) is not seen when it arrives, and *)
(* after its finish event the Command Code decoder ignores what follows.   *)
Ignored(u, i) == u.adapter = "ndjson" /\ \E j \in 1..(i - 1) : IsDone(u.script[j])
Seen(u, i) ==
  IF (i = Len(u.script) /\ u.open) \/ Ignored(u, i) THEN "bytes" ELSE u.script[i]
TokenSeen(u, n) == \E i \in 1..n : HasToken(Seen(u, i))

(* mapped_prelude goes on to the streamed answer with the pieces up to the *)
(* first token, up to its 1 MiB limit, or with all the upstream had to     *)
(* send; an error or a silence before that has failed over to the next     *)
(* candidate.                                                              *)
PreludeReady(u) ==
  LET n == u.prelude
  IN  /\ \A i \in 1..n : Seen(u, i) \notin {"error", "corrupt"}
      /\ \A i \in 1..(n - 1) : ~HasToken(Seen(u, i))
      /\ n = 0 => u.script = <<>>
      /\ n = Len(u.script) /\ ~TokenSeen(u, n) => u.fate # "silent"

Upstreams ==
  {u \in [kind : Kinds, adapter : Adapters, fate : Fates, open : BOOLEAN,
          script : BoundedSeq(Pieces, MaxPieces), prelude : 0..MaxPieces] :
     /\ u.prelude <= Len(u.script)
     /\ IF u.kind = "transparent"
        THEN u.adapter = "plain" /\ u.prelude = 0
        ELSE PreludeReady(u)
     /\ u.open => u.script # <<>> /\ Last(u.script) # "corrupt"}

TypeOK ==
  /\ up \in [kind : Kinds, adapter : Adapters, fate : Fates, open : BOOLEAN,
             script : Seq(Pieces), prelude : Nat]
  /\ pos \in 0..Len(up.script)
  /\ pc \in {"running", "handing", "handingTail", "handingLast", "over"}
  /\ completed \in BOOLEAN /\ responded \in BOOLEAN /\ client \in BOOLEAN
  /\ records \in Seq(Outcomes)
  /\ received \in Seq(Pieces)

Init ==
  /\ up \in Upstreams
  /\ pos = 0 /\ pc = "running"
  /\ completed = FALSE /\ responded = FALSE /\ client = TRUE
  /\ records = <<>> /\ received = <<>>

-----------------------------------------------------------------------------
Piece  == up.script[pos + 1]
Unread == pc = "running" /\ pos < Len(up.script)
AtEnd  == pc = "running" /\ pos = Len(up.script)
Mapped == up.kind # "transparent"

(* finalize_stream_attempt *)
Record(o, s) == records' = Append(records, Outcome(o, s, TRUE))

(* Mutant: an upstream stream without CancelAware around it.               *)
DroppedSilently(done, recs) == recs

(* CancelAware::drop, when the generator returns or is dropped.            *)
Dropped(done, recs) ==
  IF done THEN recs ELSE Append(recs, Outcome("cancelled", 200, responded))

(* A yield: the piece is the client's, the generator is suspended at w.    *)
Hand(p, w) == received' = Append(received, p) /\ pc' = w

(* The record is made before the last piece is yielded.                    *)
RecordAndHand(o, p) ==
  /\ completed' = TRUE
  /\ Record(o, 200)
  /\ Hand(p, "handingLast")

(* Mutant: the generator does not tell CancelAware that it has recorded.   *)
RecordAndReturnUntold(o, s) ==
  /\ UNCHANGED <<completed, received>>
  /\ records' = Dropped(completed', Append(records, Outcome(o, s, TRUE)))
  /\ pc' = "over"

(* The record is made, nothing is left to yield: the generator returns.    *)
RecordAndReturn(o, s) ==
  /\ completed' = TRUE
  /\ records' = Dropped(completed', Append(records, Outcome(o, s, TRUE)))
  /\ pc' = "over"
  /\ UNCHANGED received

Advance ==
  /\ Unread
  /\ pos' = pos + 1
  /\ responded' = (responded \/ pos >= up.prelude)
  /\ UNCHANGED <<up, client>>

-----------------------------------------------------------------------------
(* transparent_stream *)
ForwardPiece ==
  /\ ~Mapped /\ Advance
  /\ Piece # "corrupt" /\ ~IsDone(Seen(up, pos + 1))
  /\ Hand(Piece, "handing")
  /\ UNCHANGED <<completed, records>>

(* Mutant: the last piece is yielded like any other.                       *)
ForwardLastUnrecorded ==
  /\ ~Mapped /\ Advance
  /\ IsDone(Seen(up, pos + 1))
  /\ Hand(Piece, "handing")
  /\ UNCHANGED <<completed, records>>

ForwardLast ==
  /\ ~Mapped /\ Advance
  /\ IsDone(Seen(up, pos + 1))
  /\ RecordAndHand("success", Piece)

ForwardCorrupt ==
  /\ ~Mapped /\ Advance
  /\ Piece = "corrupt"
  /\ RecordAndReturn("stream_interrupted", 200)

(* Mutant: an unfinished compressed frame is taken for a proper end.       *)
ForwardEndLenient ==
  /\ ~Mapped /\ AtEnd /\ up.fate \in {"eof", "truncated"}
  /\ LET tail == IF up.open THEN Last(up.script) ELSE "bytes"
         full == IsDone(tail) \/ TokenSeen(up, pos) \/ HasToken(tail)
     IN  RecordAndReturn(IF full THEN "success" ELSE "stream_interrupted", 200)
  /\ UNCHANGED <<up, pos, responded, client>>

ForwardEnd ==
  /\ ~Mapped /\ AtEnd /\ up.fate \in {"eof", "truncated"}
  /\ LET tail == IF up.open THEN Last(up.script) ELSE "bytes"
         full == \/ IsDone(tail)
                 \/ up.fate = "eof" /\ (TokenSeen(up, pos) \/ HasToken(tail))
     IN  RecordAndReturn(IF full THEN "success" ELSE "stream_interrupted", 200)
  /\ UNCHANGED <<up, pos, responded, client>>

(* The upstream body fails, for either path.                               *)
UpstreamBreaks ==
  /\ AtEnd /\ up.fate = "reset"
  /\ RecordAndReturn("stream_interrupted", 200)
  /\ responded' = TRUE
  /\ UNCHANGED <<up, pos, client>>

(* The deadline of the first token or the idle limit passes.               *)
TimesOut ==
  /\ AtEnd /\ up.fate = "silent"
  /\ RecordAndReturn("stream_interrupted", 504)
  /\ UNCHANGED <<up, pos, responded, client>>

-----------------------------------------------------------------------------
(* mapped_stream *)

(* The converter has finished: its kind has a terminal event of its own.   *)
Finishes(p) == up.kind = "converting" /\ IsDone(p)

(* The piece is kept back until the rest of its line or block arrives, or  *)
(* is ignored.                                                             *)
Withheld(i) ==
  \/ Ignored(up, i)
  \/ i = Len(up.script) /\ up.open /\ (up.adapter = "ndjson" \/ up.kind = "converting")

MapPiece ==
  /\ Mapped /\ Advance
  /\ Piece # "corrupt" /\ Seen(up, pos + 1) # "error"
  /\ ~Finishes(Seen(up, pos + 1))
  /\ IF Withheld(pos + 1) THEN UNCHANGED <<received, pc>> ELSE Hand(Piece, "handing")
  /\ UNCHANGED <<completed, records>>

MapLast ==
  /\ Mapped /\ Advance
  /\ Finishes(Seen(up, pos + 1))
  /\ RecordAndHand("success", Piece)

MapError ==
  /\ Mapped /\ Advance
  /\ Seen(up, pos + 1) = "error"
  /\ RecordAndHand("upstream_error", "error")

MapCorrupt ==
  /\ Mapped /\ Advance
  /\ Piece = "corrupt"
  /\ RecordAndHand("gateway_error", "error")

(* The line the adapter still holds at the end of the body (finish_input). *)
HasTail == /\ up.adapter = "ndjson" /\ up.open
           /\ ~Ignored(up, Len(up.script))
Held   == Last(up.script)
MappedToken == TokenSeen(up, Len(up.script)) \/ (HasTail /\ HasToken(Held))

(* A failure that mapped_prelude has met (617) is gone for the generator,  *)
(* which then finds the body at its end.                                   *)
PreludeSwallowed ==
  /\ up.fate = "reset"
  /\ up.prelude = Len(up.script) /\ ~TokenSeen(up, up.prelude)

BodyEnds ==
  /\ Mapped /\ AtEnd
  /\ up.fate \in {"eof", "truncated"} \/ PreludeSwallowed

MidFrame == up.fate = "truncated" /\ up.script # <<>>

MapMidFrame ==
  /\ BodyEnds /\ MidFrame
  /\ RecordAndReturn("gateway_error", 200)
  /\ UNCHANGED <<up, pos, responded, client>>

MapTail ==
  /\ BodyEnds /\ ~MidFrame /\ HasTail
  /\ \/ Held = "error" /\ RecordAndHand("upstream_error", "error")
     \/ Finishes(Held) /\ RecordAndHand("success", Held)
     \/ /\ Held # "error" /\ ~Finishes(Held)
        /\ Hand(Held, "handingTail")
        /\ completed' = TRUE   \* CancelAware has seen the end of the body
        /\ UNCHANGED records
  /\ UNCHANGED <<up, pos, responded, client>>

(* converter.flush and the final bookkeeping.                              *)
Flush ==
  LET o == IF MappedToken THEN "success" ELSE "stream_interrupted"
  IN  IF up.kind = "converting" THEN RecordAndHand(o, "done") ELSE RecordAndReturn(o, 200)

MapEnd ==
  /\ BodyEnds /\ ~MidFrame /\ ~HasTail
  /\ Flush
  /\ UNCHANGED <<up, pos, responded, client>>

-----------------------------------------------------------------------------
(* The client takes what it was handed and the generator goes on.          *)
Take ==
  /\ pc = "handing" /\ pc' = "running"
  /\ UNCHANGED <<up, pos, completed, responded, records, received, client>>

TakeTail ==
  /\ pc = "handingTail"
  /\ Flush
  /\ UNCHANGED <<up, pos, responded, client>>

TakeLast ==
  /\ pc = "handingLast" /\ pc' = "over"
  /\ records' = Dropped(completed, records)
  /\ UNCHANGED <<up, pos, completed, responded, received, client>>

(* The client hangs up; the generator is dropped where it is suspended.    *)
HangUp ==
  /\ pc # "over" /\ pc' = "over"
  /\ client' = FALSE
  /\ records' = Dropped(completed, records)
  /\ UNCHANGED <<up, pos, completed, responded, received>>

Generator ==
  \/ ForwardPiece \/ ForwardLast \/ ForwardCorrupt \/ ForwardEnd
  \/ UpstreamBreaks \/ TimesOut
  \/ MapPiece \/ MapLast \/ MapError \/ MapCorrupt
  \/ MapMidFrame \/ MapTail \/ MapEnd

Client == Take \/ TakeTail \/ TakeLast \/ HangUp

Next == Generator \/ Client

Spec == Init /\ [][Next]_vars

(* The runtime polls the generator, every wait of which is limited, and    *)
(* the client's connection takes what it is handed or is closed.           *)
FairSpec == Spec /\ WF_vars(Generator) /\ WF_vars(Client)

-----------------------------------------------------------------------------
(* Properties. *)

Has(o) == \E i \in 1..Len(records) : records[i].outcome = o

(* The terminal marker, once its line is complete, is only handed to the   *)
(* client when the success is on record, so that a client that hangs up    *)
(* after it does not turn a completed answer into a cancelled one          *)
(* (attempt.rs:369-370, stream.rs:346-380, 893-925, 1056-1087).  The       *)
(* pass-through converter is the exception: it is never finished, hands    *)
(* the marker over first and records at the end of the body.               *)
EndIsRecordedFirst ==
  up.kind # "chat" /\ (\E i \in 1..pos : IsDone(Seen(up, i))) =>
    records # <<>> /\ ~Has("cancelled")

(* A success is on record only if it is one at both ends.  The upstream    *)
(* sent the terminal marker, or tokens and a proper end of the body        *)
(* (stream.rs:486-520, 1243-1285); the exception is a failure the prelude  *)
(* swallowed, with a held-back line before it.  And a client that stayed   *)
(* to the end of a transparent stream has been handed all that was sent,   *)
(* as it was sent, up to the marker (stream.rs:197, 346-407).              *)
SuccessIsEarned ==
  Has("success") =>
    /\ \/ \E i \in 1..Len(up.script) : IsDone(up.script[i])
       \/ /\ up.fate = "eof" \/ PreludeSwallowed
          /\ \E i \in 1..Len(up.script) : HasToken(up.script[i])
    /\ pc = "over" /\ client /\ ~Mapped =>
         /\ received = SubSeq(up.script, 1, pos)
         /\ pos = Len(up.script) \/ IsDone(Seen(up, pos))

(* Whatever the upstream sends and whenever the client hangs up, an        *)
(* attempt is recorded once at most and its record never revised: those of *)
(* the generator and of CancelAware exclude each other (attempt.rs:23-29). *)
OneRecord == INSTANCE OneOutcome
RecordsOnce == OneRecord!Safe

(* ... and it is recorded in the end, the client that hangs up half-way    *)
(* included (attempt.rs:22).  The exception is a client that hangs up      *)
(* while it is handed the line the Command Code adapter still held at the  *)
(* end of the body: CancelAware has seen the end by then, and the          *)
(* generator has not made its record (stream.rs:1187-1239).                *)
RecordedInTheEnd == ~HasTail ~> records # <<>>
=============================================================================

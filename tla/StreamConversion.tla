--------------------------- MODULE StreamConversion ---------------------------
(***************************************************************************)
(* A streamed answer on its way from the upstream's events to the client's *)
(* (convert/stream/*, convert/commandcode.rs, the mapped path of           *)
(* proxy/stream.rs).                                                       *)
(*                                                                         *)
(*   upstream --chunk--> adapter --chat events--> converter --> client     *)
(*                                                                         *)
(* The adapter is CommandCodeDecoder ("command_code") or nothing ("plain", *)
(* an OpenAI chat stream); the converter writes Claude blocks ("claude") or*)
(* Responses items ("responses"), both called blocks here.  What a client  *)
(* makes of the events it gets is a state of its own, `understood`.        *)
(* Beside it, ndjson_to_chat_completion gives the answer the same events   *)
(* would have been for a client that does not stream.                      *)
(*                                                                         *)
(* Text is counted in pieces.  Usage, the stop reason and the limit of the *)
(* prelude in bytes are left out, noise lines of DSML too.                 *)
(***************************************************************************)
EXTENDS Integers, Sequences, FiniteSets, SequencesExt

CONSTANTS
  AdapterKinds,   \* among "plain" and "command_code"
  Entries,        \* among "claude" and "responses"
  CallIds,        \* 1..n: tool calls of the answer
  MaxEvents       \* bound: events the upstream sends

ASSUME ConversionAssumption ==
  /\ AdapterKinds \subseteq {"plain", "command_code"}
  /\ Entries \subseteq {"claude", "responses"}
  /\ CallIds \subseteq Nat \ {0} /\ MaxEvents \in Nat

VARIABLES
  path,         \* the adapter and the entry protocol of the attempt
  sent,         \* what the upstream has sent
  arrived,      \* how much of it has come in whole lines or blocks
  phase,        \* where mapped_stream is
  decoder,      \* CommandCodeDecoder
  kept,         \* the adapted events of the prelude
  conv,         \* MappedStreamConverter
  understood    \* the answer as the client has understood it

conversionVars == <<path, sent, arrived, phase, decoder, kept, conv, understood>>

-----------------------------------------------------------------------------
(* Arguments of a tool call: some number of deltas of input, or            *)
Inline == 100   \* the whole input in the call itself
Braces == 0     \* "{}"
Blank  == -1    \* the empty string
Dsml   == 0     \* the id of a call found in the text

Ev(type, id, n) == [type |-> type, id |-> id, n |-> n]

(* Text is ordinary or one of the markers a DSML tool call stands between. *)
Texts(entry) == IF entry = "responses" THEN {"text", "marker", "endmarker"} ELSE {"text"}

HasSent(type, id) == Ev(type, id, 0) \in Range(sent)
LastSent == HasSent("finish", 0) \/ HasSent("error", 0)

(* What an upstream may send next.  A Command Code stream brings a call as *)
(* its input piece by piece, as a whole event, which may hold the input or *)
(* leave it to the pieces, or as both; the whole event may come twice.     *)
CommandCodeEvents ==
  {Ev(t, 0, 0) : t \in Texts(path.entry) \cup {"think", "finish", "error"}}
  \cup UNION {
    {Ev("call", i, Inline), Ev("call", i, Blank)}
    \cup (CASE ~HasSent("input_start", i) -> {Ev("input_start", i, 0)}
            [] HasSent("input_end", i)    -> {}
            [] OTHER -> {Ev("input_delta", i, 0), Ev("input_end", i, 0)})
      : i \in {j \in CallIds : j = 1 \/ \E e \in Range(sent) : e.id = j - 1}}

PlainEvents ==
  {Ev(t, 0, 0) : t \in Texts(path.entry) \cup {"think", "finish", "error"}}
  \cup UNION {
    IF HasSent("begin", i) THEN {Ev("args", i, 0)} ELSE {Ev("begin", i, 0)}
      : i \in {j \in CallIds : j = 1 \/ HasSent("begin", j - 1)}}

-----------------------------------------------------------------------------
(* CommandCodeDecoder::handle_line: chat events out of one line.  A chat   *)
(* event is text, "think", "tool" (a delta of a call: its id, arguments),  *)
(* "done" (a finish chunk and [DONE]) or "error".                          *)
NoInput == -1

NewDecoder ==
  [pending |-> [i \in CallIds |-> NoInput], emitted |-> {}, finished |-> FALSE, out |-> <<>>]

(* Mutant: a call told twice is passed on twice.                           *)
EmitAgain(d, id, arguments) ==
  [d EXCEPT !.emitted = @ \cup {id}, !.out = Append(@, Ev("tool", id, arguments))]

(* emit_tool_call *)
EmitToolCall(d, id, arguments) ==
  IF id \in d.emitted THEN d
  ELSE [d EXCEPT !.emitted = @ \cup {id}, !.out = Append(@, Ev("tool", id, arguments))]

(* The input of a call whose own event holds none.                         *)
PendingInput(d, id) == IF d.pending[id] > 0 THEN d.pending[id] ELSE Braces
TakeInput(d, id)    == [d EXCEPT !.pending[id] = NoInput]

(* The arms of the event that holds a whole call, and of the last events.  *)
ToolCall(d, e) ==
  IF e.n = Inline THEN EmitToolCall(d, e.id, Inline)
  ELSE EmitToolCall(TakeInput(d, e.id), e.id, PendingInput(d, e.id))

LastLine(d, e) ==
  IF e.type = "finish"
  THEN [d EXCEPT !.finished = TRUE, !.out = Append(@, Ev("done", 0, 0))]
  ELSE [d EXCEPT !.out = Append(@, e)]

Line(d, e) ==
  CASE d.finished -> d
    [] e.type = "input_start" ->
         [d EXCEPT !.pending[e.id] = IF @ = NoInput THEN 0 ELSE @]
    [] e.type = "input_delta" ->
         [d EXCEPT !.pending[e.id] = IF @ = NoInput THEN 1 ELSE @ + 1]
    [] e.type = "input_end" ->
         IF d.pending[e.id] > 0 THEN EmitToolCall(TakeInput(d, e.id), e.id, d.pending[e.id])
         ELSE TakeInput(d, e.id)
    [] e.type = "call" -> ToolCall(d, e)
    [] e.type \in {"finish", "error"} -> LastLine(d, e)
    [] OTHER -> [d EXCEPT !.out = Append(@, e)]   \* text-delta, reasoning-delta

(* An OpenAI chat stream needs no adapting (UpstreamStreamAdapter::Plain). *)
PlainEvent(e) ==
  CASE e.type = "begin"  -> Ev("tool", e.id, Blank)
    [] e.type = "args"   -> Ev("tool", e.id, 1)
    [] e.type = "finish" -> Ev("done", 0, 0)
    [] OTHER             -> e

Adapt(events) ==
  IF path.adapter = "plain"
  THEN [decoder EXCEPT !.out = [i \in DOMAIN events |-> PlainEvent(events[i])]]
  ELSE FoldLeft(Line, [decoder EXCEPT !.out = <<>>], events)

(* ndjson_to_chat_completion, line by line.                                *)
NewWhole ==
  [text |-> <<>>, think |-> 0, calls |-> {}, failed |-> FALSE,
   pending |-> [i \in CallIds |-> NoInput]]

HasCall(w, id) == \E c \in w.calls : c.id = id
AddCall(w, id, arguments) == [w EXCEPT !.calls = @ \cup {[id |-> id, n |-> arguments]}]
CallInput(w, id) ==
  CASE w.pending[id] > 0       -> w.pending[id]
    [] w.pending[id] = 0       -> Blank
    [] w.pending[id] = NoInput -> Braces

WholeLine(w, e) ==
  CASE e.type \in {"text", "marker", "endmarker"} -> [w EXCEPT !.text = Append(@, e.type)]
    [] e.type = "think" -> [w EXCEPT !.think = @ + 1]
    [] e.type = "input_start" -> [w EXCEPT !.pending[e.id] = IF @ = NoInput THEN 0 ELSE @]
    [] e.type = "input_delta" -> [w EXCEPT !.pending[e.id] = IF @ = NoInput THEN 1 ELSE @ + 1]
    [] e.type \in {"input_end", "call"} /\ HasCall(w, e.id) -> w
    [] e.type = "input_end" /\ ~HasCall(w, e.id) ->
         IF w.pending[e.id] > 0 THEN AddCall(TakeInput(w, e.id), e.id, w.pending[e.id])
         ELSE TakeInput(w, e.id)
    [] e.type = "call" /\ ~HasCall(w, e.id) ->
         IF e.n = Inline THEN AddCall(w, e.id, Inline)
         ELSE AddCall(TakeInput(w, e.id), e.id, CallInput(w, e.id))
    [] e.type = "error" -> [w EXCEPT !.failed = TRUE]
    [] OTHER -> w

Whole(events) == FoldLeft(WholeLine, NewWhole, events)

(* split_dsml_content: the pieces of text left as text, and the calls.     *)
SplitPiece(s, t) ==
  CASE s.held = 0 /\ t = "marker" -> [s EXCEPT !.held = 1]
    [] s.held = 0 /\ t # "marker" -> [s EXCEPT !.text = @ + 1]
    [] s.held > 0 /\ t = "endmarker" -> [s EXCEPT !.held = 0, !.calls = @ + 1]
    [] OTHER -> [s EXCEPT !.held = @ + 1]

Split(texts) == FoldLeft(SplitPiece, [text |-> 0, calls |-> 0, held |-> 0], texts)

(* The whole answer in the client's protocol: text and thinking in pieces, *)
(* the calls, and those found in the text.                                 *)
(*                                                                         *)
(* openai_compatible_to_claude: arguments that are no object become {}.    *)
ToClaude(whole) ==
  [text |-> Len(whole.text), think |-> whole.think, found |-> 0, bare |-> FALSE,
   calls |-> {[c EXCEPT !.n = IF @ = Blank THEN Braces ELSE @] : c \in whole.calls}]

(* openai_compatible_to_responses: no thinking, and a marker without its   *)
(* end stays text; bare is a marker with nothing behind it.                *)
ToResponses(whole) ==
  LET split == Split(whole.text)
  IN  [text |-> split.text + split.held, think |-> 0, found |-> split.calls,
       bare |-> split.held = 1, calls |-> whole.calls]

-----------------------------------------------------------------------------
(* The converter.  open holds the blocks that are open; `held` is the text *)
(* behind a DSML marker, the marker included; out the events it writes.    *)
NewConverter ==
  [started |-> FALSE, finished |-> FALSE, open |-> {}, next |-> 0,
   tools |-> [i \in CallIds |-> NoInput], held |-> 0, out |-> <<>>]

OpenOf(c, kind) == {b \in c.open : b.kind = kind}
TheOpen(c, kind) == (CHOOSE b \in OpenOf(c, kind) : TRUE).at

Emit(c, type, at, n) ==
  [c EXCEPT !.out = Append(@, [type |-> type, at |-> at, kind |-> "", id |-> 0, n |-> n])]

(* ensure_start_claude, ensure_start_responses *)
EnsureStart(c) ==
  IF c.started THEN c ELSE Emit([c EXCEPT !.started = TRUE], "start", 0, 0)

(* Mutant: the index of a block that was closed is used again.             *)
OpenBlockReused(c, kind, id) ==
  LET at == Cardinality(c.open)
  IN  [c EXCEPT !.open = @ \cup {[at |-> at, kind |-> kind]},
         !.next = at + 1,
         !.out = Append(@, [type |-> "open", at |-> at, kind |-> kind, id |-> id, n |-> 0])]

(* next_block_index and start_block; open_text_item, open_function_item    *)
OpenBlock(c, kind, id) ==
  [c EXCEPT !.open = @ \cup {[at |-> c.next, kind |-> kind]},
     !.next = @ + 1,
     !.out = Append(@, [type |-> "open", at |-> c.next, kind |-> kind, id |-> id, n |-> 0])]

CloseBlock(c, b) == Emit([c EXCEPT !.open = @ \ {b}], "close", b.at, 0)
CloseKind(c, kind) == FoldSet(LAMBDA b, acc : CloseBlock(acc, b), c, OpenOf(c, kind))
CloseAll(c) == FoldSet(LAMBDA b, acc : CloseBlock(acc, b), c, c.open)
CloseText(c) == CloseKind(c, "text")        \* close_text_item
CloseFunctions(c) == CloseKind(c, "tool")   \* close_function_item, for every key

(* thinking_delta *)
Thinking(c) ==
  LET opened == IF OpenOf(c, "think") # {} THEN c ELSE OpenBlock(c, "think", 0)
  IN  Emit(opened, "delta", TheOpen(opened, "think"), 1)

(* The text arm of consume_claude_openai; append_text_delta                *)
Text(c, n) ==
  LET opened == IF OpenOf(c, "text") # {} THEN c
                ELSE OpenBlock(CloseKind(c, "think"), "text", 0)
  IN  IF n = 0 THEN c ELSE Emit(opened, "delta", TheOpen(opened, "text"), n)

(* The tool_calls arms: a delta finds its block by id or upstream index.   *)
Tool(c, id, arguments) ==
  LET opened == IF c.tools[id] # NoInput THEN c
                ELSE OpenBlock([CloseKind(c, "think") EXCEPT !.tools[id] = c.next], "tool", id)
  IN  IF arguments = Blank THEN opened
      ELSE Emit(opened, "delta", opened.tools[id], arguments)

(* drain_dsml_text: of the text behind a marker nothing is written until   *)
(* the end marker makes a call of it (emit_dsml_calls) ...                 *)
DsmlCall(c) ==
  LET opened == OpenBlock(CloseText(c), "tool", Dsml)
  IN  CloseBlock([opened EXCEPT !.held = 0], [at |-> opened.next - 1, kind |-> "tool"])

DsmlText(c, type) ==
  CASE c.held = 0 /\ type = "marker"    -> [c EXCEPT !.held = 1]
    [] c.held = 0 /\ type # "marker"    -> Text(c, 1)
    [] c.held > 0 /\ type = "endmarker" -> DsmlCall(c)
    [] OTHER                            -> [c EXCEPT !.held = @ + 1]

(* ... or the end of the stream writes it as it is; a marker with nothing  *)
(* behind it is not written.                                               *)
DsmlFinal(c) ==
  LET rest == [c EXCEPT !.held = 0] IN IF c.held > 1 THEN Text(rest, c.held) ELSE rest

FinishClaude(c) == Emit([CloseAll(c) EXCEPT !.finished = TRUE], "end", 0, 0)

FinishResponses(c) ==
  Emit(CloseFunctions(CloseText(EnsureStart([c EXCEPT !.finished = TRUE]))), "end", 0, 0)

(* flush, and the same at [DONE]                                           *)
Finish(c) ==
  IF path.entry = "claude" THEN FinishClaude(c) ELSE FinishResponses(DsmlFinal(c))

ErrorEventResponses(c) ==
  Emit(CloseFunctions(CloseText(EnsureStart([c EXCEPT !.finished = TRUE]))), "error", 0, 0)

(* error_event: the Claude side leaves its blocks open.                    *)
ErrorEvent(c) ==
  IF path.entry = "claude"
  THEN Emit([c EXCEPT !.started = TRUE, !.finished = TRUE], "error", 0, 0)
  ELSE ErrorEventResponses(DsmlFinal(c))

(* consume_claude_openai                                                   *)
ConsumeClaude(c, e) ==
  LET s == EnsureStart(c)
  IN  CASE e.type = "think" -> Thinking(s)
        [] e.type = "tool"  -> Tool(s, e.id, e.n)
        [] OTHER            -> Text(s, 1)

(* consume_responses_openai: it has no place for reasoning.                *)
ConsumeResponses(c, e) ==
  LET s == EnsureStart(c)
  IN  CASE e.type = "think" -> s
        [] e.type = "tool"  -> Tool(s, e.id, e.n)
        [] OTHER            -> DsmlText(s, e.type)

(* A "done" is a finish chunk, which starts the answer, and [DONE].        *)
Consume(c, e) ==
  CASE e.type = "done"        -> Finish(EnsureStart(c))
    [] e.type # "done" /\ path.entry = "claude" -> ConsumeClaude(c, e)
    [] OTHER                  -> ConsumeResponses(c, e)

Convert(c, events) == FoldLeft(Consume, [c EXCEPT !.out = <<>>], events)

-----------------------------------------------------------------------------
(* A client of the entry protocol: it collects the blocks by their index   *)
(* and notes what the protocol does not allow.                             *)
NewClient ==
  [begun |-> FALSE, ended |-> FALSE, failed |-> FALSE, blocks |-> <<>>, wrong |-> {}]

Wrong(k, e) ==
  {w \in {"late", "unstarted", "restart", "reuse", "stray", "dangling"} :
     CASE w = "late"      -> k.ended
       [] w = "unstarted" -> ~k.begun /\ e.type \notin {"start", "error"}
       [] w = "restart"   -> k.begun /\ e.type = "start"
       [] w = "reuse"     -> e.type = "open" /\ e.at \in DOMAIN k.blocks
       [] w = "stray"     -> /\ e.type \in {"delta", "close"}
                             /\ IF e.at \in DOMAIN k.blocks THEN ~k.blocks[e.at].open ELSE TRUE
       [] w = "dangling"  -> e.type = "end" /\ \E at \in DOMAIN k.blocks : k.blocks[at].open}

Understands(k, e) ==
  LET noted == [k EXCEPT !.wrong = @ \cup Wrong(k, e)]
  IN  CASE e.type = "start" -> [noted EXCEPT !.begun = TRUE]
        [] e.type = "open"  ->
             [noted EXCEPT !.blocks = [at \in DOMAIN @ \cup {e.at} |->
                IF at = e.at THEN [kind |-> e.kind, id |-> e.id, open |-> TRUE, n |-> 0] ELSE @[at]]]
        [] e.type = "delta" /\ e.at \in DOMAIN k.blocks ->
             [noted EXCEPT !.blocks[e.at].n = @ + e.n]
        [] e.type = "close" /\ e.at \in DOMAIN k.blocks ->
             [noted EXCEPT !.blocks[e.at].open = FALSE]
        [] e.type \in {"end", "error"} -> 
             [noted EXCEPT !.ended = TRUE, !.failed = (e.type = "error")]
        [] OTHER -> noted

(* The converted bytes go to the client.                                   *)
Deliver(c) ==
  /\ conv' = [c EXCEPT !.out = <<>>]
  /\ understood' = FoldLeft(Understands, understood, c.out)

-----------------------------------------------------------------------------
ConversionInit ==
  /\ path \in [adapter : AdapterKinds, entry : Entries]
  /\ sent = <<>> /\ arrived = 0
  /\ phase = "prelude"
  /\ decoder = NewDecoder /\ kept = <<>>
  /\ conv = NewConverter /\ understood = NewClient

Flowing == phase \in {"prelude", "live"}
Waiting == SubSeq(sent, arrived + 1, Len(sent))

(* Nothing comes after the finish or the error of an upstream.             *)
Sends ==
  /\ Flowing /\ Len(sent) < MaxEvents /\ ~LastSent
  /\ \E e \in IF path.adapter = "plain" THEN PlainEvents ELSE CommandCodeEvents :
       sent' = Append(sent, e)
  /\ UNCHANGED <<path, arrived, phase, decoder, kept, conv, understood>>

IsError(e)    == e.type = "error"
HasContent(e) == e.type \notin {"done", "error"}   \* chunk_has_content

(* StreamScan::feed over the events of a chunk.                            *)
HasError(events)   == \E i \in DOMAIN events : IsError(events[i])
FirstToken(events) == \E i \in DOMAIN events : HasContent(events[i])

Adopt(d) == decoder' = [d EXCEPT !.out = <<>>]

After(c) == phase' = IF c.finished THEN "closed" ELSE "live"

(* A chunk for mapped_prelude: an error sends the attempt to the next      *)
(* candidate, the first token opens the answer with all that was kept.     *)
ArrivesInPrelude(events) ==
  LET adapted == kept \o events
      c       == Convert(conv, adapted)
  IN  \/ /\ HasError(events)
         /\ phase' = "failed_over"
         /\ UNCHANGED <<kept, conv, understood>>
      \/ /\ ~HasError(events)
         /\ IF FirstToken(events)
            THEN After(c) /\ Deliver(c) /\ kept' = <<>>
            ELSE kept' = adapted /\ UNCHANGED <<phase, conv, understood>>

(* A chunk for the generator: of one with an error only the error is told. *)
ArrivesLive(events) ==
  LET c == IF HasError(events) THEN ErrorEvent(conv) ELSE Convert(conv, events)
  IN  After(c) /\ Deliver(c) /\ UNCHANGED kept

(* Everything sent so far arrives as one chunk.                            *)
Arrives ==
  /\ Flowing /\ arrived < Len(sent)
  /\ arrived' = Len(sent)
  /\ LET d == Adapt(Waiting)
     IN  /\ Adopt(d)
         /\ IF phase = "prelude" THEN ArrivesInPrelude(d.out) ELSE ArrivesLive(d.out)
  /\ UNCHANGED <<path, sent>>

(* finish_input: a last line without its newline counts for Command Code;  *)
(* the last block of a chat stream without its blank line is dropped.      *)
Unfinished ==
  IF path.adapter = "plain" THEN [decoder EXCEPT !.out = <<>>] ELSE Adapt(Waiting)

(* The upstream closes.  What the prelude has kept goes out first, then    *)
(* the unfinished line, then what the converter has to finish.  While the  *)
(* prelude lasts, an upstream that breaks off is taken for one that closes.*)
Closes ==
  /\ Flowing /\ Len(sent) <= arrived + 1
  /\ LET replayed == Convert(conv, kept)
         d        == Unfinished
         errs     == HasError(d.out)
         told     == Convert(replayed, d.out)
         last(c)  == [c EXCEPT !.out = replayed.out \o c.out]
     IN  /\ Adopt(d)
         /\ Deliver(CASE replayed.finished -> replayed
                      [] ~replayed.finished /\ errs ->
                           last(ErrorEvent([replayed EXCEPT !.out = <<>>]))
                      [] ~replayed.finished /\ ~errs /\ told.finished -> last(told)
                      [] OTHER -> last(Finish(told)))
  /\ phase' = "closed" /\ kept' = <<>>
  /\ UNCHANGED <<path, sent, arrived>>

(* The upstream breaks off or goes silent in the middle of the answer: the *)
(* client's stream ends without a word.                                    *)
BreaksOff ==
  /\ phase = "live" /\ phase' = "cut"
  /\ UNCHANGED <<path, sent, arrived, decoder, kept, conv, understood>>

(* No first token before the deadline.                                     *)
PreludeTimesOut ==
  /\ phase = "prelude" /\ phase' = "failed_over"
  /\ UNCHANGED <<path, sent, arrived, decoder, kept, conv, understood>>

(* A compressed body that cannot be decoded.                               *)
Undecodable ==
  /\ Flowing
  /\ IF phase = "prelude" THEN phase' = "failed_over" /\ UNCHANGED <<conv, understood>>
     ELSE phase' = "closed" /\ Deliver(ErrorEvent([conv EXCEPT !.out = <<>>]))
  /\ UNCHANGED <<path, sent, arrived, decoder, kept>>

ConversionNext ==
  \/ Sends \/ Arrives \/ Closes
  \/ BreaksOff \/ PreludeTimesOut \/ Undecodable

ConversionSpec == ConversionInit /\ [][ConversionNext]_conversionVars

-----------------------------------------------------------------------------
(* Properties. *)

ConversionTypeOK ==
  /\ path \in [adapter : AdapterKinds, entry : Entries]
  /\ arrived \in 0..Len(sent) /\ Len(sent) <= MaxEvents
  /\ phase \in {"prelude", "live", "closed", "cut", "failed_over"}

(* Whatever the upstream sends, in whatever chunks, and however it ends,   *)
(* the client gets a stream its protocol allows: one start before anything *)
(* else, every block under an index of its own, deltas and stops only for  *)
(* open blocks, all of them closed at the proper end, nothing behind it.   *)
(* A stream that was not cut has an end, and an attempt handed on to the   *)
(* next candidate has told the client nothing.  The one exception is the   *)
(* Claude side when the upstream closes without having sent anything.      *)
ClientUnderstands ==
  /\ \/ understood.wrong = {}
     \/ /\ understood.wrong = {"unstarted"} /\ path.entry = "claude"
        /\ \A e \in Range(SubSeq(sent, 1, arrived)) : e.type \in {"input_start", "input_delta", "input_end"}
  /\ understood.ended <=> phase = "closed"
  /\ phase \in {"prelude", "failed_over"} => understood = NewClient

(* What the client has collected.                                          *)
Collected(kind) ==
  MapThenSumSet(LAMBDA at : understood.blocks[at].n,
                {at \in DOMAIN understood.blocks : understood.blocks[at].kind = kind})
ToolBlocks(ids) ==
  {at \in DOMAIN understood.blocks : understood.blocks[at].kind = "tool" /\ understood.blocks[at].id \in ids}

UpToBlank(n) == IF n = Blank THEN Braces ELSE n

(* A Command Code answer that was not cut and holds no error is the same   *)
(* streamed and not: the same text and thinking, every call once, with the *)
(* same arguments (an empty string standing for no arguments), and the same*)
(* calls found in the text.  The text may lack a DSML marker with nothing  *)
(* behind it.                                                              *)
SameAnswer ==
  LET whole  == Whole(sent)
      answer == IF path.entry = "claude" THEN ToClaude(whole) ELSE ToResponses(whole)
      blocks == understood.blocks
  IN  phase = "closed" /\ path.adapter = "command_code" /\ ~understood.failed =>
      /\ ~whole.failed
      /\ Collected("text") = answer.text - (IF answer.bare THEN 1 ELSE 0)
      /\ Collected("think") = answer.think
      /\ Cardinality(ToolBlocks(CallIds)) = Cardinality(answer.calls)
      /\ {[id |-> blocks[at].id, n |-> blocks[at].n] : at \in ToolBlocks(CallIds)}
           = {[c EXCEPT !.n = UpToBlank(@)] : c \in answer.calls}
      /\ Cardinality(ToolBlocks({Dsml})) = answer.found

=============================================================================

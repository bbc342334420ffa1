-------------------------- MODULE CommandCodeHistory --------------------------
(***************************************************************************)
(* A client's conversation turned into the messages of a Command Code      *)
(* /alpha/generate request (convert/commandcode.rs): CcMessages and the    *)
(* three translators that feed it, from Claude messages, from OpenAI chat  *)
(* messages and from Responses items.                                      *)
(*                                                                         *)
(* A conversation is a sequence of items [role, parts]; a part is told by  *)
(* its kind and, for a call or a result, by the id of the call.  The words *)
(* of a part, pictures (text parts as far as order goes), names, and the   *)
(* rest of the request are left out.                                       *)
(***************************************************************************)
EXTENDS Naturals, Sequences, FiniteSets, SequencesExt

CONSTANTS
  HistoryCalls,   \* ids of tool calls, all non-empty strings
  MaxMessages,    \* bound: messages of a Claude or chat conversation
  MaxInput,       \* bound: items of a Responses conversation
  MaxParts        \* bound: parts of an item

NoCall == 0
ASSUME HistoryAssumption ==
  NoCall \notin HistoryCalls /\ MaxMessages \in Nat /\ MaxInput \in Nat /\ MaxParts \in Nat

Part(kind, id) == [kind |-> kind, id |-> id]
Said           == Part("text", NoCall)
Thought        == Part("reasoning", NoCall)
Use(id)        == Part("call", id)
Result(id)     == Part("result", id)

(* Where a part stands in a message, and where it stands in all of them.   *)
Spots(parts, part) == {j \in DOMAIN parts : parts[j] = part}
Sites(messages, part) ==
  UNION {{<<i, j>> : j \in Spots(messages[i].parts, part)} : i \in DOMAIN messages}

-----------------------------------------------------------------------------
(* CcMessages: `results` are the ids noted before the translation starts,  *)
(* `emitted` those whose result has been written; `reasoning` and          *)
(* `started` are the locals pending_reasoning and conversation_started.    *)
Noted(items) == {id \in HistoryCalls : Sites(items, Result(id)) # {}}

NewBuilder(items) ==
  [out |-> <<>>, results |-> Noted(items), emitted |-> {},
   reasoning |-> FALSE, started |-> FALSE]

(* push_user, push_tool *)
Push(b, role, parts) ==
  IF parts = <<>> THEN b
  ELSE [b EXCEPT !.out = Append(@, [role |-> role, parts |-> parts])]

(* The replies made up for the calls that have no result among `results`.  *)
Reply(m, part) ==
  IF part.kind = "call" /\ part.id \notin m.results
  THEN [m EXCEPT !.replies = Append(@, Part("missing", part.id))]
  ELSE m

Replies(results, parts) ==
  FoldLeft(Reply, [results |-> results, replies |-> <<>>], parts).replies

(* Mutant: a call whose result comes later in the conversation counts as   *)
(* one without a result.                                                   *)
MissingSoFar(b, parts) == Replies(b.emitted, parts)

Missing(b, parts) == Replies(b.results, parts)

PushAssistant(b, parts) ==
  Push(Push(b, "assistant", parts), "tool", Missing(b, parts))

BehindAssistant(b) == b.out # <<>> /\ b.out[Len(b.out)].role = "assistant"

AppendAssistant(b, parts) ==
  Push([b EXCEPT !.out[Len(b.out)].parts = @ \o parts], "tool", Missing(b, parts))

(* tool_result_part: a second result of one call is dropped.               *)
AddResult(b, id) ==
  IF id \in b.emitted THEN b
  ELSE Push([b EXCEPT !.emitted = @ \cup {id}], "tool", <<Result(id)>>)

(* The loop over the blocks of a Claude user message: its results go into  *)
(* one message, before one with its text.                                  *)
TakeBlock(u, part) ==
  CASE part.kind = "text" -> [u EXCEPT !.texts = Append(@, part)]
    [] part.kind = "result" /\ part.id \notin u.emitted ->
         [u EXCEPT !.emitted = @ \cup {part.id}, !.results = Append(@, part)]
    [] OTHER -> u

PushBlocks(b, parts) ==
  LET u == FoldLeft(TakeBlock, [emitted |-> b.emitted, results |-> <<>>, texts |-> <<>>], parts)
  IN  Push(Push([b EXCEPT !.emitted = u.emitted], "tool", u.results), "user", u.texts)

-----------------------------------------------------------------------------
(* claude_to_commandcode *)
ClaudeItem(b, item) ==
  IF item.role = "assistant" THEN PushAssistant(b, item.parts) ELSE PushBlocks(b, item.parts)

FromClaude(items) == FoldLeft(ClaudeItem, NewBuilder(items), items).out

(* openai_chat_to_commandcode: the instructions before the conversation    *)
(* become the request's system text, later ones are the user's.            *)
Begun(b) == [b EXCEPT !.started = TRUE]

ChatItem(b, item) ==
  CASE item.role = "system" /\ ~b.started -> b
    [] item.role = "assistant" -> PushAssistant(Begun(b), item.parts)
    [] item.role = "tool"      -> AddResult(Begun(b), item.parts[1].id)
    [] OTHER                   -> Push(Begun(b), "user", item.parts)

FromChat(items) == FoldLeft(ChatItem, NewBuilder(items), items).out

(* responses_to_commandcode: reasoning waits for the next assistant item.  *)
Pondering(b)              == [b EXCEPT !.reasoning = TRUE]
Spent(b)                  == [b EXCEPT !.reasoning = FALSE]
WithReasoning(b, parts)   == IF b.reasoning THEN <<Thought>> \o parts ELSE parts

ResponsesItem(b, item) ==
  CASE item.role = "reasoning" -> Pondering(b)
    [] item.role = "assistant" -> PushAssistant(Spent(b), WithReasoning(b, item.parts))
    [] item.role = "call"      ->
         IF BehindAssistant(b)
         THEN AppendAssistant(Spent(b), WithReasoning(b, item.parts))
         ELSE PushAssistant(Spent(b), WithReasoning(b, item.parts))
    [] item.role = "output"    -> AddResult(b, item.parts[1].id)
    [] OTHER                   -> Push(b, "user", item.parts)

FromResponses(items) == FoldLeft(ResponsesItem, NewBuilder(items), items).out

-----------------------------------------------------------------------------
(* The conversations of a client: it writes one item after the other, in   *)
(* one of the three protocols.  The id of a call names one call.           *)
VARIABLE talk   \* the conversation, and its protocol

Item(role, parts) == [role |-> role, parts |-> parts]
Short(parts)      == UNION {[1..n -> parts] : n \in 1..MaxParts}
Spoken            == {Thought, Said} \cup {Use(id) : id \in HistoryCalls}

ClaudeItems ==
  {Item("assistant", ps) : ps \in Short(Spoken)}
  \cup {Item("user", ps) : ps \in Short({Said} \cup {Result(id) : id \in HistoryCalls})}

(* The fields of a chat message: reasoning, then text, then calls.         *)
InFields(parts) ==
  \A j \in DOMAIN parts :
    \/ parts[j].kind = "call"
    \/ parts[j] = Thought /\ j = 1
    \/ parts[j] = Said /\ SubSeq(parts, 1, j - 1) \in {<<>>, <<Thought>>}

ChatItems ==
  {Item("assistant", ps) : ps \in {s \in Short(Spoken) : InFields(s)}}
  \cup {Item("tool", <<Result(id)>>) : id \in HistoryCalls}
  \cup {Item("user", <<Said>>), Item("system", <<Said>>)}

ResponsesItems ==
  {Item("call", <<Use(id)>>) : id \in HistoryCalls}
  \cup {Item("output", <<Result(id)>>) : id \in HistoryCalls}
  \cup {Item(role, <<Said>>) : role \in {"user", "assistant"}}
  \cup {Item("reasoning", <<Thought>>)}

CalledIn(items) == {id \in HistoryCalls : Sites(items, Use(id)) # {}}

OneOf(S)      == \E s \in S : S = {s}
Proper(items) == \A id \in CalledIn(items) : OneOf(Sites(items, Use(id)))

Silence == [entry |-> "none", items |-> <<>>]

Grows(entry, items, n) ==
  /\ talk.entry \in {"none", entry} /\ Len(talk.items) < n
  /\ \E item \in items : talk' = [entry |-> entry, items |-> Append(talk.items, item)]
  /\ Proper(talk'.items)

HistoryInit == talk = Silence

HistoryNext ==
  \/ Grows("claude", ClaudeItems, MaxMessages)
  \/ Grows("chat", ChatItems, MaxMessages)
  \/ Grows("responses", ResponsesItems, MaxInput)

HistorySpec == HistoryInit /\ [][HistoryNext]_talk

-----------------------------------------------------------------------------
(* No call is lost, doubled or left without an answer: every call of the   *)
(* conversation, and no other, is sent, once; it has one answer, the       *)
(* client's result if the conversation holds one, before or after the      *)
(* call, else the made-up reply in the message behind that of the call;    *)
(* and a result without a call is sent once all the same.                  *)
Answers(messages, id) ==
  Sites(messages, Result(id)) \cup Sites(messages, Part("missing", id))

Answered(items, messages) ==
  \A id \in HistoryCalls :
    /\ IF id \in CalledIn(items) THEN OneOf(Sites(messages, Use(id)))
                                 ELSE Sites(messages, Use(id)) = {}
    /\ IF id \in CalledIn(items) \cup Noted(items) THEN OneOf(Answers(messages, id))
                                                   ELSE Answers(messages, id) = {}
    /\ Sites(messages, Result(id)) = {} <=> id \notin Noted(items)
    /\ \A s \in Sites(messages, Part("missing", id)) :
         \E c \in Sites(messages, Use(id)) : s[1] = c[1] + 1

(* Every call of a client's conversation reaches Command Code with exactly  *)
(* one answer, whichever of the three protocols it was written in and in    *)
(* whatever order the conversation brings calls and results: the provider   *)
(* rejects any other (convert/commandcode.rs:215).                          *)
EveryCallAnsweredOnce ==
  /\ talk.entry = "claude"    => Answered(talk.items, FromClaude(talk.items))
  /\ talk.entry = "chat"      => Answered(talk.items, FromChat(talk.items))
  /\ talk.entry = "responses" => Answered(talk.items, FromResponses(talk.items))
=============================================================================

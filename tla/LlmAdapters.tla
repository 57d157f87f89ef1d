---------------------------- MODULE LlmAdapters ----------------------------
(***************************************************************************)
(* The chat turns of one session as the model vendors see them: how each   *)
(* of the five adapters turns the messages of the session into a request,  *)
(* how it puts the events of the vendor's stream together again, and what  *)
(* the step runner and the hot context keep of the answer.  Every turn may *)
(* go to another provider than the turns whose messages it replays.        *)
(***************************************************************************)
EXTENDS Integers, FiniteSets, SequencesExt, Lists

CONSTANT Loads      \* the loads to choose from

\* ProviderType, by the adapter that serves it.
Provider == {"litellm", "openai", "anthropic", "google", "alibaba"}
\* llm: a request fails.  cut: an answer stops early, at the limit of its length.
\* blank: calls come without an id.  garbled: arguments are not JSON.  bare: the done event
\* of an item comes without it.  misfit: a model is of another family than its provider.
FaultKind == {"llm", "cut", "blank", "garbled", "bare", "misfit"}

\* What the session asks of the vendors, and what bounds their answers.
Load == [
    providers : SUBSET Provider,    \* of the models the turns may use
    turns     : Nat,                \* bound: turns of the session
    steps     : Nat \ {0},          \* agent_max_iterations
    window    : Nat \ {0},          \* append_messages: max_length (50)
    summary   : SUBSET BOOLEAN,     \* whether a turn finds a summary of the session
    lists     : SUBSET Seq(Nat),    \* lists of tools an answer may call
    deltas    : Nat,                \* bound: text and reasoning deltas of an answer
    pieces    : Nat \ {0},          \* parts in which the arguments of a call are streamed
    reports   : Nat,                \* bound: how often an answer reports its usage
    faults    : SUBSET FaultKind]

ASSUME ConstantsAssumption == Loads \subseteq Load

VARIABLES
    load,           \* the load
    provider,       \* per turn, provider_type of its model; "none" before it starts
    history,        \* the hot context of the session
    turn,           \* the turns started
    step,           \* the iteration of the turn in progress
    phase,          \* where it is
    prompt,         \* messages, as they are given to the adapter
    record,         \* ctx.record_messages
    request,        \* the last request: [items, system, previous]
    responses,      \* what OpenAI remembers of each response, by turn and step
    answer,         \* what the vendor means to say: [calls, named, sound]
    sent,           \* what it has sent: [said, pieces, reports], and the items of OpenAI it
                    \* is done with: [done, whole], the message as 0 and calls by index
    acc,            \* the local variables of the adapter
    heard           \* what the interpreter and the step runner collected

talk == <<turn, step, provider>>
stores == <<history, responses>>
vars == <<load, provider, history, turn, step, phase, prompt, record, request, responses,
          answer, sent, acc, heard>>

Phase == {"idle", "ask", "stream", "heard"}
Kind == {"text", "reasoning"}
May(fault) == fault \in load.faults
Either(fault) == IF May(fault) THEN BOOLEAN ELSE {TRUE}

(***************************************************************************)
(* Data.  An id is the place of its call: turn, step, index; a generated   *)
(* one has a fourth part, a missing one is empty, and a tool's name stands *)
(* as <<tool>>.  A message knows where it was said and its ids or names.   *)
(* An item is a message the way a vendor is sent it.                       *)
(***************************************************************************)
Blank == <<>>
Id == Seq(Nat)
Message(role, t, s, ids, names) ==
    [role |-> role, turn |-> t, step |-> s, ids |-> ids, names |-> names]
System == Message("system", 0, 0, <<>>, <<>>)
Summary == Message("user", 0, 0, <<>>, <<>>)
Question(t) == Message("user", t, 0, <<>>, <<>>)
Item(kind, m, keys) == [kind |-> kind, turn |-> m.turn, step |-> m.step, keys |-> keys]
NoRequest == [items |-> <<>>, system |-> FALSE, previous |-> Blank]
NoAnswer == [calls |-> <<>>, named |-> TRUE, sound |-> TRUE]
Nothing == [text |-> <<>>, reasoning |-> <<>>, calls |-> <<>>, usage |-> 0,
            payload |-> [text |-> <<>>, calls |-> <<>>]]
Unsent(calls) == [said |-> <<>>, pieces |-> [i \in DOMAIN calls |-> 0], reports |-> 0,
                  done |-> {}, whole |-> {}]
Empty == [text |-> <<>>, calls |-> <<>>, current |-> <<>>, usage |-> 0]

P == provider[turn]
Made(m) == IF m.turn = 0 THEN "none" ELSE provider[m.turn]
Newest(s, n) == IF Len(s) <= n THEN s ELSE SubSeq(s, Len(s) - n + 1, Len(s))

Init ==
    /\ load \in Loads
    /\ provider = [t \in 1..load.turns |-> "none"]
    /\ history = <<>>
    /\ turn = 0
    /\ step = 0
    /\ phase = "idle"
    /\ prompt = <<>>
    /\ record = <<>>
    /\ request = NoRequest
    /\ responses = [t \in 1..load.turns |-> [s \in 1..load.steps |-> <<>>]]
    /\ answer = NoAnswer
    /\ sent = Unsent(<<>>)
    /\ acc = Empty
    /\ heard = Nothing

-----------------------------------------------------------------------------
(* The requests.  A provider is sent the native payload of the answers it  *)
(* gave itself, and of all others what was visible of them.                *)

Own(p, m) == m.role = "assistant" /\ Made(m) = p
Asides == {"openai", "anthropic"}     \* the vendors that take system messages apart

\* The keys by which a vendor tells calls apart, and finds the call a result answers.
KeysFor(p, m) == IF p = "google" THEN [i \in DOMAIN m.names |-> <<m.names[i]>>] ELSE m.ids

\* A message as one of the five formatters writes it.
ItemFor(p, m) ==
    CASE Own(p, m)       -> Item("native", m, KeysFor(p, m))
      [] m.role = "tool" -> Item("result", m, KeysFor(p, m))
      [] m.role = "system" /\ p = "google" -> Item("user", m, <<>>)
      [] OTHER           -> Item(m.role, m, <<>>)

Formatted(p, messages) ==
    LET shown == At(messages, {i \in DOMAIN messages :
                                  p \in Asides => messages[i].role # "system"})
    IN [i \in DOMAIN shown |-> ItemFor(p, shown[i])]

\* _litellm_, _anthropic_, _gemini_ and _qwen_messages_formatter.
WholeRequest(p, messages) ==
    [items |-> Formatted(p, messages), system |-> TRUE, previous |-> Blank]

LastOwn(p, messages) == SelectLastInSeq(messages, LAMBDA m : Own(p, m))

\* Mutant: the results of the whole conversation sent again.
AllOutputs(messages) ==
    IF LastOwn("openai", messages) = 0 THEN <<>>
    ELSE At(messages, {i \in DOMAIN messages : messages[i].role = "tool"})

\* Mutant: the first response of the conversation continued.
FirstResponse(messages) ==
    LET m == messages[SelectInSeq(messages, LAMBDA n : Own("openai", n))]
    IN <<m.turn, m.step>>

\* The tool results after the last response of OpenAI, and that response.
Outputs(messages) ==
    LET last == LastOwn("openai", messages) IN
    IF last = 0 THEN <<>>
    ELSE At(messages, {i \in (last + 1)..Len(messages) : messages[i].role = "tool"})
LastResponse(messages) ==
    LET m == messages[LastOwn("openai", messages)] IN <<m.turn, m.step>>

\* _openai_messages_formatter: results continue the last response, anything else is replayed.
OpenAIRequest(messages) ==
    IF Outputs(messages) = <<>> THEN WholeRequest("openai", messages)
    ELSE [items |-> Formatted("openai", Outputs(messages)), system |-> TRUE,
          previous |-> LastResponse(messages)]

\* What the model gets to read: the items, after what its vendor remembers.
Remembered(id) == IF id = Blank THEN <<>> ELSE responses[id[1]][id[2]]
Context == Remembered(request.previous) \o request.items

-----------------------------------------------------------------------------
(* A turn asks its model.                                                  *)

\* The turn's strategy assembles the prompt and records the question.
Begin(p, summarized) ==
    /\ phase = "idle" /\ turn < load.turns
    /\ phase' = "ask"
    /\ turn' = turn + 1
    /\ step' = 1
    /\ provider' = [provider EXCEPT ![turn + 1] = p]
    /\ prompt' = <<System>> \o (IF summarized THEN <<Summary>> ELSE <<>>)
                 \o history \o <<Question(turn + 1)>>
    /\ record' = <<Question(turn + 1)>>
    /\ UNCHANGED <<load, stores, request, answer, sent, acc, heard>>

\* The end of a turn; what it recorded is kept only when it ended well.
EndTurn ==
    /\ phase' = "idle"
    /\ prompt' = <<>> /\ record' = <<>> /\ request' = NoRequest
    /\ answer' = NoAnswer /\ sent' = Unsent(<<>>) /\ acc' = Empty /\ heard' = Nothing
    /\ UNCHANGED <<load, talk>>

\* LLMProviderResolver.resolve: only LiteLLM serves every family of models; a turn keeps
\* its model, so a misfit shows in its first step.
Unsupported ==
    /\ phase = "ask" /\ step = 1 /\ P # "litellm" /\ May("misfit")
    /\ EndTurn
    /\ UNCHANGED stores

\* stream_chat_completion up to its first event; the vendor decides what it will say.
Ask(calls, named, sound) ==
    /\ phase = "ask"
    /\ phase' = "stream"
    /\ request' = IF P = "openai" THEN OpenAIRequest(prompt) ELSE WholeRequest(P, prompt)
    /\ answer' = [calls |-> calls, named |-> named, sound |-> sound]
    /\ sent' = Unsent(calls)
    /\ acc' = Empty
    /\ heard' = Nothing
    /\ UNCHANGED <<load, talk, stores, prompt, record>>

\* The request is refused, or its stream breaks: the turn is over and nothing is kept.
StreamFails ==
    /\ phase = "stream" /\ May("llm")
    /\ EndTurn
    /\ UNCHANGED stores

-----------------------------------------------------------------------------
(* The events of the streams.                                              *)

Streaming(p) == phase = "stream" /\ P = p
Quiet == UNCHANGED <<load, talk, stores, phase, prompt, record, request, answer>>

\* A delta of the text or the reasoning, passed on to the interpreter.
Say(kind) ==
    LET n == Len(sent.said) + 1 IN
    /\ n <= load.deltas
    /\ sent' = [sent EXCEPT !.said = Append(@, kind)]
    /\ heard' = [heard EXCEPT ![kind] = Append(@, n)]
Collect(kind) ==
    acc' = IF kind = "text" THEN [acc EXCEPT !.text = Append(@, Len(sent.said) + 1)] ELSE acc

\* The vendor reports the tokens used so far.
Report ==
    /\ sent.reports < load.reports
    /\ sent' = [sent EXCEPT !.reports = @ + 1]
    /\ acc' = [acc EXCEPT !.usage = sent.reports + 1]

\* A call, its id and its arguments as far as they were sent.
Given(i) == IF answer.named THEN <<turn, step, i>> ELSE Blank
Part(i, n) == <<i, n>>
Entry(i, args) == [at |-> i, id |-> Given(i), tool |-> answer.calls[i], args |-> args]
WholeArgs(i) == [n \in 1..load.pieces |-> Part(i, n)]
SendPiece(i) == sent' = [sent EXCEPT !.pieces[i] = @ + 1]
SendCall(i) == sent' = [sent EXCEPT !.pieces[i] = load.pieces]
SentWhole(i) == sent.pieces[i] = load.pieces
NextCall(i) == ~SentWhole(i) /\ \A j \in 1..(i - 1) : SentWhole(j)

LiteLLMDelta(kind) == Streaming("litellm") /\ Say(kind) /\ Collect(kind) /\ Quiet
LiteLLMReport == Streaming("litellm") /\ Report /\ Quiet /\ UNCHANGED heard

Longer(entry, part) == [entry EXCEPT !.args = Append(@, part)]

\* Mutant: the fragments of all calls put into one.
OneFragment(i) ==
    /\ Streaming("litellm") /\ ~SentWhole(i)
    /\ SendPiece(i)
    /\ LET part == Part(i, sent.pieces[i] + 1) IN
       acc' = [acc EXCEPT !.calls =
                  IF @ = <<>> THEN <<Entry(i, <<part>>)>>
                  ELSE [@ EXCEPT ![1].args = Append(@, part)]]
    /\ Quiet /\ UNCHANGED heard

\* A fragment of a call, found again by its index; the fragments of several calls mix.
LiteLLMFragment(i) ==
    /\ Streaming("litellm") /\ ~SentWhole(i)
    /\ SendPiece(i)
    /\ LET part == Part(i, sent.pieces[i] + 1) IN
       acc' = [acc EXCEPT !.calls =
                  IF sent.pieces[i] = 0 THEN Append(@, Entry(i, <<part>>))
                  ELSE [k \in DOMAIN @ |-> IF @[k].at # i THEN @[k] ELSE Longer(@[k], part)]]
    /\ Quiet /\ UNCHANGED heard

\* Events of a response of OpenAI: the message item, then one item per call in turn.
Done(i, whole) ==
    sent' = [sent EXCEPT !.done = @ \cup {i}, !.whole = IF whole THEN @ \cup {i} ELSE @]
MessageOver == heard.text = <<>> \/ 0 \in sent.done

OpenAIDelta(kind) ==
    /\ Streaming("openai") /\ Say(kind)
    /\ 0 \notin sent.done /\ \A i \in DOMAIN sent.pieces : sent.pieces[i] = 0
    /\ Quiet /\ UNCHANGED acc

\* The item of a done event is taken, or without it the one put together from the deltas:
\* those of a call's arguments, none of the text.
OpenAIMessageDone(whole) ==
    /\ Streaming("openai") /\ ~MessageOver
    /\ Done(0, whole)
    /\ acc' = [acc EXCEPT !.text = IF whole THEN heard.text ELSE <<>>]
    /\ Quiet /\ UNCHANGED heard
OpenAIArguments(i) ==
    /\ Streaming("openai") /\ MessageOver
    /\ NextCall(i) /\ Len(acc.calls) = i - 1
    /\ SendPiece(i)
    /\ acc' = [acc EXCEPT !.current = Append(@, Part(i, sent.pieces[i] + 1))]
    /\ Quiet /\ UNCHANGED heard
OpenAICallDone(i, whole) ==
    /\ Streaming("openai") /\ SentWhole(i) /\ Len(acc.calls) = i - 1
    /\ Done(i, whole)
    /\ acc' = [acc EXCEPT !.calls = Append(@, Entry(i, IF whole THEN WholeArgs(i)
                                                       ELSE acc.current)),
                          !.current = <<>>]
    /\ Quiet /\ UNCHANGED heard

\* Anthropic: the code follows the deltas of text and thinking; the SDK keeps the blocks.
AnthropicDelta(kind) == Streaming("anthropic") /\ Say(kind) /\ Quiet /\ UNCHANGED acc
AnthropicBlock(i) ==
    Streaming("anthropic") /\ NextCall(i) /\ SendCall(i) /\ Quiet /\ UNCHANGED <<acc, heard>>

\* Gemini and Qwen: text in parts, every call as a whole, the usage whenever it is sent.
GeminiDelta(kind) == Streaming("google") /\ Say(kind) /\ Collect(kind) /\ Quiet
QwenDelta(kind) == Streaming("alibaba") /\ Say(kind) /\ Collect(kind) /\ Quiet
WholeCall(i) ==
    /\ NextCall(i) /\ SendCall(i)
    /\ acc' = [acc EXCEPT !.calls = Append(@, Entry(i, WholeArgs(i)))]
    /\ Quiet /\ UNCHANGED heard
GeminiCall(i) == Streaming("google") /\ WholeCall(i)
QwenCall(i) == Streaming("alibaba") /\ WholeCall(i)
GeminiReport == Streaming("google") /\ Report /\ Quiet /\ UNCHANGED heard
QwenReport == Streaming("alibaba") /\ Report /\ Quiet /\ UNCHANGED heard

-----------------------------------------------------------------------------
(* The end of a stream: usage, calls and payload are handed over.          *)

Complete == \A i \in DOMAIN answer.calls : SentWhole(i)

\* Mutant: arguments kept as far as they came.
AsReceived(entry) == entry.args

\* json_object: what is not a whole JSON object is read as an empty one.
JsonObject(entry) == IF answer.sound /\ entry.args = WholeArgs(entry.at) THEN entry.args
                     ELSE <<>>

\* ToolCallMessage: a call without an id is given a generated one.
ToolCall(entry) ==
    [id |-> IF entry.id = Blank THEN <<turn, step, entry.at, 0>> ELSE entry.id,
     tool |-> entry.tool, args |-> JsonObject(entry)]

\* The events USAGE, TOOL_CALLS and STATE, as the step runner and the interpreter take them.
HandOver(entries, text, usage) ==
    /\ heard' = [heard EXCEPT
           !.usage = usage,
           !.calls = [i \in DOMAIN entries |-> ToolCall(entries[i])],
           !.payload = [text |-> text, calls |-> [i \in DOMAIN entries |-> entries[i].id]]]
    /\ phase' = "heard"
    /\ UNCHANGED <<load, talk, history, prompt, record, request, answer, acc>>

Assistant(ids, calls) ==
    Message("assistant", turn, step, ids, [i \in DOMAIN calls |-> calls[i].tool])

ByIndex(entries) ==
    LET places == InOrder({e.at : e \in ToSet(entries)}, Len(answer.calls))
    IN [k \in DOMAIN places |-> CHOOSE e \in ToSet(entries) : e.at = places[k]]

LiteLLMEnd ==
    /\ Streaming("litellm") /\ (Complete \/ May("cut"))
    /\ HandOver(ByIndex(acc.calls), acc.text, acc.usage)
    /\ UNCHANGED <<sent, responses>>

\* response.completed brings the usage; an incomplete response just ends.
OpenAIEnd(reports) ==
    LET completed == Complete /\ Len(acc.calls) = Len(answer.calls) /\ MessageOver IN
    /\ Streaming("openai") /\ (completed \/ (May("cut") /\ reports = 0))
    /\ HandOver(acc.calls, acc.text, reports)
    /\ sent' = [sent EXCEPT !.reports = reports]
    /\ responses' = [responses EXCEPT ![turn][step] =
           Append(Context, ItemFor("openai", Assistant([i \in DOMAIN acc.calls |-> acc.calls[i].id],
                                                       acc.calls)))]

\* get_final_message: the blocks sent, and the tokens of input and output.
AnthropicEnd(reports) ==
    LET entries == [i \in 1..Cardinality({j \in DOMAIN answer.calls : SentWhole(j)}) |->
                       Entry(i, WholeArgs(i))]
    IN /\ Streaming("anthropic") /\ (Complete \/ May("cut"))
       /\ HandOver(entries, heard.text, reports)
       /\ sent' = [sent EXCEPT !.reports = reports]
       /\ UNCHANGED responses

GeminiEnd ==
    /\ Streaming("google") /\ (Complete \/ May("cut"))
    /\ HandOver(acc.calls, acc.text, acc.usage)
    /\ UNCHANGED <<sent, responses>>
QwenEnd ==
    /\ Streaming("alibaba") /\ (Complete \/ May("cut"))
    /\ HandOver(acc.calls, acc.text, acc.usage)
    /\ UNCHANGED <<sent, responses>>

-----------------------------------------------------------------------------
(* What the step runner and the strategy do with the answer.               *)

Said == Assistant(heard.payload.calls, heard.calls)

\* Mutant: the result of the last call left out.
ResultsButLast ==
    [i \in 1..(Len(heard.calls) - 1) |->
        Message("tool", turn, step, <<heard.calls[i].id>>, <<heard.calls[i].tool>>)]

\* One result per call, in the order of the calls.
Results == [i \in DOMAIN heard.calls |->
               Message("tool", turn, step, <<heard.calls[i].id>>, <<heard.calls[i].tool>>)]
StepMessages == <<Said>> \o Results

\* Mutant: RPUSH alone.
KeepAll(messages) == history' = history \o record \o messages

\* append_messages of what the turn recorded: RPUSH, LTRIM.
Keep(messages) == history' = Newest(history \o record \o messages, load.window)

Answered ==
    /\ phase = "heard" /\ heard.calls = <<>>
    /\ Keep(<<Said>>)
    /\ EndTurn /\ UNCHANGED responses

NextStep ==
    /\ phase = "heard" /\ heard.calls # <<>> /\ step < load.steps
    /\ phase' = "ask"
    /\ step' = step + 1
    /\ prompt' = prompt \o StepMessages
    /\ record' = record \o StepMessages
    /\ answer' = NoAnswer /\ sent' = Unsent(<<>>) /\ acc' = Empty /\ heard' = Nothing
    /\ UNCHANGED <<load, turn, provider, stores, request>>

\* The iterations are used up: a warning is shown, and nothing recorded for it.
Exhausted ==
    /\ phase = "heard" /\ heard.calls # <<>> /\ step = load.steps
    /\ Keep(StepMessages)
    /\ EndTurn /\ UNCHANGED responses

LiteLLM == \/ \E kind \in Kind : LiteLLMDelta(kind)
           \/ \E i \in DOMAIN answer.calls : LiteLLMFragment(i)
           \/ LiteLLMReport \/ LiteLLMEnd
OpenAI == \/ \E kind \in Kind : OpenAIDelta(kind)
          \/ \E whole \in Either("bare") : OpenAIMessageDone(whole)
          \/ \E i \in DOMAIN answer.calls : OpenAIArguments(i)
          \/ \E i \in DOMAIN answer.calls, whole \in Either("bare") : OpenAICallDone(i, whole)
          \/ \E reports \in 0..load.reports : OpenAIEnd(reports)
Anthropic == \/ \E kind \in Kind : AnthropicDelta(kind)
             \/ \E i \in DOMAIN answer.calls : AnthropicBlock(i)
             \/ \E reports \in 0..load.reports : AnthropicEnd(reports)
Gemini == \/ \E kind \in Kind : GeminiDelta(kind)
          \/ \E i \in DOMAIN answer.calls : GeminiCall(i)
          \/ GeminiReport \/ GeminiEnd
Qwen == \/ \E kind \in Kind : QwenDelta(kind)
        \/ \E i \in DOMAIN answer.calls : QwenCall(i)
        \/ QwenReport \/ QwenEnd

Step == \/ \E calls \in load.lists, named \in Either("blank"), sound \in Either("garbled") :
               Ask(calls, named, sound)
        \/ Unsupported \/ StreamFails
        \/ LiteLLM \/ OpenAI \/ Anthropic \/ Gemini \/ Qwen
        \/ Answered \/ NextStep \/ Exhausted

Next == (\E p \in load.providers, summarized \in load.summary : Begin(p, summarized)) \/ Step
Spec == Init /\ [][Next]_vars

-----------------------------------------------------------------------------
(* Properties.                                                             *)

MessageType(m) ==
    /\ DOMAIN m = {"role", "turn", "step", "ids", "names"}
    /\ m.role \in {"system", "user", "assistant", "tool"}
    /\ m.turn \in 0..turn /\ m.step \in 0..load.steps
    /\ m.ids \in Seq(Id) /\ m.names \in Seq(Nat)
ItemType(m) ==
    /\ DOMAIN m = {"kind", "turn", "step", "keys"}
    /\ m.kind \in {"system", "user", "assistant", "native", "result"}
    /\ m.turn \in 0..turn /\ m.step \in 0..load.steps
    /\ m.keys \in Seq(Id)
EntryType(e) ==
    /\ DOMAIN e = {"at", "id", "tool", "args"}
    /\ e.at \in DOMAIN answer.calls /\ e.id \in Id /\ e.tool \in Nat /\ e.args \in Seq(Seq(Nat))
CallType(c) ==
    DOMAIN c = {"id", "tool", "args"} /\ c.id \in Id /\ c.tool \in Nat /\ c.args \in Seq(Seq(Nat))

\* Every variable holds a value of its kind.
TypeOK ==
    /\ load \in Loads /\ phase \in Phase
    /\ turn \in 0..load.turns /\ step \in 0..load.steps
    /\ provider \in [1..load.turns -> Provider \cup {"none"}]
    /\ \A messages \in {history, prompt, record} :
          \A i \in DOMAIN messages : MessageType(messages[i])
    /\ Len(history) <= load.window
    /\ \A i \in DOMAIN request.items : ItemType(request.items[i])
    /\ request.system \in BOOLEAN /\ request.previous \in Id
    /\ \A t \in 1..load.turns : \A s \in 1..load.steps :
          \A i \in DOMAIN responses[t][s] : ItemType(responses[t][s][i])
    /\ answer.calls \in Seq(Nat) /\ answer.named \in BOOLEAN /\ answer.sound \in BOOLEAN
    /\ sent.said \in Seq(Kind) /\ sent.pieces \in Seq(0..load.pieces)
    /\ sent.reports \in 0..load.reports /\ sent.whole \subseteq sent.done
    /\ acc.text \in Seq(Nat) /\ acc.current \in Seq(Seq(Nat)) /\ acc.usage \in 0..load.reports
    /\ \A i \in DOMAIN acc.calls : EntryType(acc.calls[i])
    /\ heard.text \in Seq(Nat) /\ heard.reasoning \in Seq(Nat) /\ heard.usage \in 0..load.reports
    /\ \A i \in DOMAIN heard.calls : CallType(heard.calls[i])
    /\ heard.payload.text \in Seq(Nat) /\ heard.payload.calls \in Seq(Id)

\* The deltas of a kind, in the order they were sent.
SaidAs(kind) == InOrder({n \in DOMAIN sent.said : sent.said[n] = kind}, Len(sent.said))
TextKept ==
    /\ heard.text = SaidAs("text") /\ heard.reasoning = SaidAs("reasoning")
    /\ heard.payload.text = IF P = "openai" /\ 0 \notin sent.whole THEN <<>> ELSE heard.text
\* A call is kept from its first fragment, from its done event, or once it came as a whole.
Came(i) == CASE P = "litellm" -> sent.pieces[i] # 0
             [] P = "openai"  -> i \in sent.done
             [] OTHER         -> SentWhole(i)
CallsWhole ==
    /\ \A k \in DOMAIN heard.calls :
          LET place == heard.calls[k].id[3] IN
          /\ heard.calls[k].tool = answer.calls[place]
          /\ heard.calls[k].args = IF SentWhole(place) /\ answer.sound THEN WholeArgs(place)
                                  ELSE <<>>
          /\ \A j \in 1..(k - 1) : heard.calls[j].id[3] < place
    /\ \A i \in DOMAIN answer.calls :
          Came(i) <=> \E k \in DOMAIN heard.calls : heard.calls[k].id[3] = i
    /\ Len(heard.payload.calls) = Len(heard.calls)

\* However the events of a stream interleave, the message kept is what the vendor said: the
\* text as it was shown, in the payload too, unless OpenAI never sent the message's item as
\* a whole; every call that came and no other, in their order, under its tool with its own
\* whole arguments, or with none when they were cut off or are no JSON, never with parts of
\* another's; and the last usage it reported.
AnswerAsSent == phase = "heard" => TextKept /\ CallsWhole /\ heard.usage = sent.reports

\* Whatever provider answered before: in what a model reads, a native answer that calls
\* tools is followed at once by the results of all its calls, in their order.  (A call that
\* came without an id stays without one in the payload; its result has a generated one.)
CallsAnsweredInPlace ==
    phase = "stream" =>
        \A i \in DOMAIN Context : \A k \in DOMAIN Context[i].keys :
            Context[i].kind = "native" =>
                /\ i + k \in DOMAIN Context
                /\ Context[i + k].kind = "result"
                /\ Context[i].keys[k] \in {Blank, Context[i + k].keys[1]}

\* A result whose call the model does not read answers a call of another provider, or
\* it heads what the trimmed hot context still holds; no later message is ever separated
\* from its call.
Answers(i) == \E j \in 1..(i - 1) :
    /\ Context[j].kind = "native" /\ i - j \in DOMAIN Context[j].keys
    /\ <<Context[j].turn, Context[j].step>> = <<Context[i].turn, Context[i].step>>
AtHead(i) == \A j \in 1..(i - 1) : Context[j].turn = 0 \/ Context[j].kind = "result"
OrphansExplained ==
    phase = "stream" =>
        \A i \in DOMAIN Context :
            Context[i].kind = "result" =>
                Answers(i) \/ AtHead(i) \/ provider[Context[i].turn] # P

\* Each further request of a turn shows the model exactly what the one before did, then
\* its own answer and the results of its calls, whether the conversation is replayed or
\* continued from a response the vendor remembers.
Since == At(prompt, {i \in DOMAIN prompt : prompt[i].turn = turn /\ prompt[i].step = step - 1})
StepsBuildOn ==
    [][phase = "ask" /\ step > 1 /\ phase' = "stream" =>
          /\ Context' = Context \o Formatted(P, Since)
          /\ request'.system]_vars

\* The request a turn makes shows the model the question the user asked in it.
QuestionReachesModel ==
    phase = "stream" =>
        \E i \in DOMAIN Context : Context[i] = ItemFor(P, Question(turn))
=============================================================================

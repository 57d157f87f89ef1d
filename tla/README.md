# A verification development of chat-ai-service

TLA+ models of the chat service under `src/services/`, TLC configurations that check them on
small instances, and TLAPS proofs of the results that hold for every instance.  Paths below
are relative to `src/services/chat-service/src/chat/` (chat service) or
`src/services/common/src/common/` (marked *common*).

## 1. The system

One FastAPI process serves chat sessions; several such processes may share the stores.  A
chat request (`api/endpoints/chat.py`) drives an asynchronous generator,
`AgentTurnRuntime.handle_chat`, whose events are streamed to the browser.  Everything runs on
an event loop: a step is the code between two `await`s, and requests, background tasks and
callbacks interleave at each of them.

| component | state it keeps | operations | interacts with |
|---|---|---|---|
| Session memory (`application/runtime/context_provider.py`, `application/chat_turn_finalizer.py`, `core/persistence/redis/hot_context.py`, `core/persistence/mongo/message_repository.py`) | Redis list of recent messages with a 24 h expiry; Mongo message archive; rolling summary and its time on the session document | load a context, refill from the archive, window by tokens; after the answer: bill, append, archive, ingest, summarise and reload | called by the runtime at the start and the end of a turn; the end runs as FastAPI background tasks |
| Agent turn runtime and strategies (`application/runtime/`, `application/orchestration/`) | per turn: prompt messages, record messages, token usage, plan | ReAct iterations, plan-and-execute with sub-agents, synthesis | context provider, tool scope, LLM adapters, tools, finalizer |
| Stream interpretation (`application/orchestration/delta_interpreter.py`, `api/vercel_sse_mapper.py`) | open text/reasoning block, accumulated text and tool calls | provider deltas to stream events to SSE frames | step runner, endpoint |
| Tool scope and tool execution (`application/tools/`) | registry, per-turn view of it | derive a scope, run the calls of a step concurrently, hooks, rendering | runtime, skill assets, message archive, sub-agents |
| Sessions (`core/persistence/mongo/session_repository.py`, `api/endpoints/session.py`) | one document per session | create, rename, pin, bind an agent, delete, summary, automatic title | turns read it at their start and write it at their end |
| Models, providers, mappings (`core/persistence/mongo/model_repository.py`, `provider_repository.py`) | three collections linked by id | create, update, bind, unbind, prefer, remove, resolve for a chat, usage counters | runtime (resolve), finalizer (usage) |
| Message pages (`message_repository.py`, `api/converters/ui_message_converter.py`) | none | page of turns, conversion to UI messages | reads the archive while turns write it |
| Skill asset cache (`core/providers/skill_assets/oss_loader.py`, `application/tools/skill_tools/`) | files, per-key locks | check permission and manifest, load, download once, collect by age | skill tools, file storage, skill and permission services |
| Service discovery, RPC (*common* `cloud/`, `http/`) | instance cache, subscriptions, round-robin cursors | pick, refresh, push, retry on another instance | clients of other services |
| LLM adapters (`core/providers/llm/`) | per stream: text, calls and usage so far; per answer: a native payload in the message | build a vendor's request from the history, put its stream together, hand over text, calls, usage and payload | step runner, message archive, the vendors |
| Kafka (*common* `kafka/`) | none (no code constructs the consumer) | send a billing message, failures swallowed | finalizer |
| Prompt assembly, long-term memory adapter | none of their own | pure translations and calls | runtime |
| Security context, web layer, wiring, logging | per request | | |

What is hard to get right here, and hard to test: the end of a turn runs after its answer was
delivered and overlaps the next turns of the session; each of its steps may fail alone; the
hot context is a cache with three writers (append, refill, reload), two of which replace the
list by what was read earlier; session documents are read, changed and saved whole; checks are
separated from the writes they protect by awaits.  `PROJECT.json` lists each of these hazards
with its line and the property that covers it.

What makes each component correct:

- **Session memory**: nothing of a turn reaches another before it is complete; what is kept has
  been paid for; no list of messages holds one twice or has a hole; compression forgets nothing;
  an answer that was streamed gets archived.
- **Runtime and strategies**: every tool call of a recorded message is answered by exactly one
  result that follows it; all tokens used are billed; a turn ends with an assistant message.
- **Stream**: blocks open and close in pairs within their step, and every call is answered in it;
  what is kept is what was shown, or nothing.
- **Tool scope**: a denied tool is never callable; hidden tools appear only when exposed; a
  sub-agent cannot start another.
- **Sessions**: only the owner's tasks write; what the slow background of a turn saves undoes no
  request and revives no deleted session; the agent of a session with messages is fixed.
- **Models**: at most one preferred mapping per model; usage is counted exactly; no mapping
  refers to a missing provider.
- **Pages**: the pages of a moment are the archive, cut without gap or overlap; who scrolls through
  them misses nothing, whatever is archived meanwhile.
- **LLM adapters**: the message kept is what the vendor said, however its stream was mixed or cut;
  whichever vendor reads the history next finds every native call followed by its result; a
  conversation continued by reference is the one that would have been replayed.
- **Asset cache**: a call returns its own whole file, objects are downloaded once, files in use
  stay, no call waits for ever.
- **Discovery / RPC**: a request is not sent twice to an instance, stable instances are tried,
  a stale list is refreshed once.

## 2. Modules

| module | models | composes / refines |
|---|---|---|
| `TurnMemory` | session memory of overlapping turns | |
| `ToolScope` | registered tools, policies, derivation of a scope | used by `AgentTurn` |
| `ChatStream` | what a chat request promises to its client and to the history | abstract specification |
| `AgentTurn` | one request: stream frames, ReAct and plan-and-execute, concurrent tools, sub-agents, usage, and what a reload of the answer shows | extends `ToolScope`, implements `ChatStream` |
| `TurnPager`, `SessionStore` | the session document under overlapping requests and turns, title and agent; pages of turns while turns are archived | the second extends the first |
| `ModelRegistry` | models, providers, mappings under overlapping requests | |
| `ServiceDiscovery`, `RpcClient` | instance cache, pushes, retries | the second extends the first |
| `LlmAdapters` | the five adapters, their streams, and the history they replay to each other | |
| `SkillAssets` | skill tools, asset cache, locks, collector, restarts | |
| `Lists` | picking elements of a sequence by their places, as comprehensions and queries do | used by `TurnPager` and `LlmAdapters` |

Each has an `MC` module with its instances, one configuration per question, and, where a property
is proved for every instance, a `_proofs` module.  `Lists_proofs` holds what four of these need of
sequences: what `InOrder` and `At` of `Lists` compute, and `InsertAt` and `FlattenSeq` of the community
modules (`FlattenMapped`: what is made of two rows of elements is made of the one and then of the
other).  These are recursive functions, so the lemmas are inductions over the naturals done by hand:
a set of naturals without the least number that is missing (`Least`, `SetInduction`), with which
a function on an interval is defined step by step (`UpToExists`).

## 3. TurnMemory

### What is modelled

One session, any number of chat turns on it.  The stores are `hot` (the Redis list, empty when
the key is gone), `archive` (the session's documents in the order of the
`(session_id, created_at)` index), `summary` (text and `summary_updated_at`), `memories`
(long-term memory) and `ledger` (whether a turn was billed).  Each turn has its local
variables: `history` (`history_messages`), `seen` (`session_summary`), `mark` (the timestamp it
holds), `record` (`chat_record_messages`) and `tasks`, the background steps that remain.

A message is a record of its turn, its place in it, its creation tick and its `token_count`
(0 when absent); text is not modelled.  A summary is the set of messages it was generated from.

| actions | code |
|---|---|
| `Start` ... `ReadSummary` | `SessionContextProvider.load`, one action per await, with the fallbacks of its `except` clauses |
| `ResolveTools` | `ToolScopeProvider.resolve`, and the user message the strategy records first |
| `Answer`, `FinishRun`, `FailRun` | the strategy's loop as seen from the memory: a record that grows; then `finalize` registers the chain, or the stream ends in an error or with the client leaving |
| `Bill`, `AppendHot`, `Archive`, `Ingest`, `Summarize`, `SaveSummary`, `Reload` | the background tasks in the order `Plan` registers them; `Archive` stores one document at a time, as an ordered `insert_many` does |
| `Expire`, `Crash` | the 24 h of the key; the death of the process, which loses running turns and pending tasks |

The workload, `load`, is chosen at the start and never changes; it has the lengths, budgets and
faults below.  `load.faults` says which calls may fail; a call that may fail does so
nondeterministically at every use.  Abstracted: message text and roles (so splitting a tool call
from its result is not visible here), the placeholder swap of `messages_placeholder_handler`, Kafka
(the producer swallows its errors), `auto_generate_title` (it does not touch the memory), the
deletion of the session.  A client that leaves during the stream is `FailRun`.  `created_at` ticks
are distinct. Budgets are given in tokens (`load.high`, `load.low`) instead of a ratio of the
prompt budget. Since no code computes `token_count`, only archived documents that carry the field
(`load.legacy`) can trigger a compression; the runs use them for that.

### Properties and runs

| run | instance | properties |
|---|---|---|
| `turn_memory` | the three workloads of `Days`: 2 overlapping turns with all faults, expiry and crash; 3 turns one after the other whose list of 4 and refill of 3 both cut, with expiry at any time; 3 turns one after the other, each compressing, with a crash at any time | `TypeOK`, `ShownByAppend`, `BilledBeforeKept`, `NoMessageTwice`, `HotIsTailOfArchive`, `NothingForgotten`, `CoverageGrows` |
| `turn_liveness` | 2 overlapping turns under fairness; Redis, long-term memory, summary model and reads may fail for ever | `StreamedIsArchived` |

`ShownByAppend` and `BilledBeforeKept` depend on the order in which `finalize` registers the tasks;
`NoMessageTwice` on append coming before archive, which is what makes a refill that sees a turn's
documents always come after its append (and so replace it).  `HotIsTailOfArchive`,
`NothingForgotten` and `CoverageGrows` are claims about turns that do not overlap (`load.active =
1`, where the stores that carry messages hold); with overlap the code does lose messages from the
cache (a stale reload or refill replaces the list) and coverage from the summary, and nothing in
the code or its comments says otherwise.  Two of their conditions were found by trying to prove
them, and TLC confirms that neither can be left out: `NothingForgotten` holds until a list is cut
(`Uncut`), as an archive longer than a refill is read back without its oldest messages, and so is
a list trimmed while a record is on its way to the archive; and `HotIsTailOfArchive` needs a
policy that archives at all (`BothWritten`), since an agent with `persist` off still appends to the
hot context.  The compressing workload excludes the expiry, because a
refill after a compression is known to miss messages (below), and the failing writes of messages
and summary, after which there is nothing to find.

Bounds: two turns are enough for every pair of writers of the hot context to interleave, and the
third turn of the sequential runs sees the result of a second compression or refill.  Replies of
one or two messages, three legacy messages and lists of four to nine entries make every cut
happen.  `CHECK_DEADLOCK FALSE` because a
finite number of turns ends.

Fairness: `FairSpec` asks weak fairness of each turn's `Step`: the event loop runs every task
that can go on, and a turn waits for no other turn.  A new request (`Start`), an expiry and a
crash are not fair.

### Where the code does not do what its comments say

| run | comment | code |
|---|---|---|
| `refill_after_summary` | `context_provider.py:103`: the refill reads the messages that are not compressed | it lists by the time the summary was saved, later than the messages it keeps |
| `summary_without_skills` | `tool_scope_provider.py:11`: a summary unlocks the session tools | without a matched skill the set they are added to is `None`; the turn raises |

Two more have no run.  `chat_turn_finalizer.py:47` says that the background tasks bill and persist:
billing is the first of them and unguarded, so an error in it ends the chain and the streamed
answer is never kept (`Bill` models it; `StreamedIsArchived` holds where billing does not fail).
`app_settings.py:65` says that reaching the high watermark triggers the
summary and `message.py:71` that `token_count` is computed when a message is created.  Nothing
computes it, so new messages weigh 0 and never trigger one.

### What is proved

`TurnMemory_proofs`, for any set of turns, bounds, budgets, policy and faults, from
`ConstantsAssumption` (types of the constants; `Past` is not a turn; the policy is normalised as
`AgentMemoryPolicy` does):

- `TypeCorrect`: `Spec => []TypeOK`.  It needs lemmas about the operators on lists
  (`NewestIsPart`, `InsertAdds`, `ListAfterIsPart`, `WindowIsPart`), and these a count of
  positions (`IndexCount`).
- `ShownByAppendHolds` and `BilledBeforeKeptHolds`, from the inductive invariant
  `IInv == TypeOK /\ OwnRecord /\ ChainOrder /\ ShownByAppend /\ BilledBeforeKept`.  Neither
  property is inductive alone: that a step exposes only its own turn's messages rests on
  `OwnRecord` (a turn records its own messages), that it does so after billing and append on
  `ChainOrder` (in what remains of a chain, bill is first if at all, append is first but for
  bill, and a chain that is past bill has a settled ledger).  The proof first bounds what each
  step exposes (`LoadExposes`, `BackgroundExposes`, `OtherExposes`: loading moves messages but
  never exposes new ones; only `AppendHot`, `Archive` and `Reload` expose the record of their
  turn), then what it does to the chains (`BackgroundChain`, `BackgroundLedger`,
  `ForegroundChain`), and combines the two.

- `NoMessageTwiceHolds` from `OnceInv`, which adds to `IInv` that a record numbers its messages
  (`Numbered`) and that the history a turn is prompted with has none of its own
  (`OthersHistory`): with `ShownByAppend` this makes both lists that are put together, the hot
  context and a record on append, the kept history and a record on reload, disjoint.
- `CoverageGrowsHolds` from `CoverInv`.  The step `SaveSummary` writes what the turn read long
  before and a time it took earlier, so the invariant (`Fresh`) says of the turn in progress that,
  while it may still write a summary, it has read the one there is, and that its time is no
  earlier.  `Sequel` says how the end of a chain looks, `Alone` that one turn is in progress; since
  `load` limits a count of active turns, this needs the cardinality of `Active`.
- `NothingForgottenHolds` from `KeptInv`.  A reload drops what compression handed to the summary,
  so it follows what the turn in progress holds: what it reads from the archive is all of it
  (`Reading`), its history, the summary and its record together hold everything archived
  (`Working`), and an empty hot context means that nothing was compressed yet (`Stored`).
  `Recorded` bounds the messages there are, for `Uncut`.
- `HotIsTailOfArchiveHolds` from `TailInv`.  Besides the property, the turn in progress has a record
  whose times go up and whose first documents are stored (`Timed`), a chain in which archiving is
  ahead until they all are (`Chained`), and a history that, followed by its record, is a suffix
  of the archive followed by the rest of the record (`Tailing`).  A stored document then moves
  from the one to the other (`ArchiveOrder`, by `InsertLast`), and cuts by length, time or budget
  leave suffixes (`SuffixTrans`, `SuffixConcat`, `NewestSuffix`, `ListAfterSuffix`, `KeepSuffix`).

The last three are proved for the turn that takes the step only: `OnlyStepper` shows that no other
is in progress then.  The liveness property `StreamedIsArchived` is model-checked only.

## 4. ToolScope and AgentTurn

### What is modelled

One chat request, from the turn's preparation to the last frame the client is sent, together
with the turns of the sub-agents it runs.  `Root` is the session's own turn; a sub-agent is a
turn like it (the code runs both with `AgentTurnRuntime`), with a narrowed policy, always the
ReAct strategy, and nobody reading its events but its caller.  Per turn there are its place
(`phase`), `scope` (`tool_scope`), `iteration`, `prompt` (the messages appended after the
context), `record` (`ctx.record_messages`), `usage`, what it was `billed`, the delta
interpreter's `open` blocks, the blocks `said` in the step, and its `calls`.  Global are `plan`,
`facts` (the prior results given to each sub-agent) and `stream`, the frames sent.

| actions | code |
|---|---|
| `Prepare` | `handle_chat` up to the strategy; failures outside its `try` |
| `StartStep`, `Delta`, `StreamFails`, `EndAnswer`, `EndWithCalls`, `CollectResults` | one step of `AgentStepRunner.run` inside the loop of `ReActStrategy.run` |
| `DenyCall`, `BeginCall`, `EndCall`, `ReturnCall` | `ToolExecutor.execute_one` for each call that `ToolDispatcher` gathers, in any interleaving; a `call_subagent` runs the turn of a sub-agent in between |
| `Exhaust` | `_emit_exhausted_warning` |
| `MakePlan`, `StartPlanStep`, `CreateWorker`, `CallWorker`, `EndPlanStep`, `StartSynthesis`, `EndSynthesis` | `PlanAndExecuteStrategy` |
| `Finish`, `ReportError` | `finalize`, or the error event in its place |
| `Break`, `Leave` | the exception handlers of `_vercel_generator` |

`ToolScope` holds the pure part: `Derive` is `ToolRegistry.derive`, `Scope` is
`ToolScopeProvider.resolve`, `Narrow` is `build_subagent_info`.  `Replay` is the conversion of
an archived answer to UI message parts.

A frame is its type and what it is about; text, arguments and outputs are not modelled, nor
which model is called.  Usage is counted in model streams: a stream counts 1 (the estimate of
the step runner counts what is not reported), a planner or synthesizer stream that reports
nothing counts 0.  With the tools registered today the scope of a sub-agent is always empty:
the two visible tools are denied to it and the hidden ones are exposed by skills only.

### The abstract specification

`ChatStream` is what a client of the stream and a reader of the history may rely on, without
agents, tools or models: steps begin and end; in a step, blocks are opened by their content and
calls are announced together, once; a step does not end before its blocks are closed and its
calls answered; the statuses of a plan come in its order, each step completed before the next; and
the stream ends either with an answer that is kept with the parts that were shown, or in an error
or abort with nothing kept.  `AgentTurn` implements it: `Client` maps the abstract state to the
frames sent so far and to the record of a billed turn (`billed` is set where `finalize` registers
the background tasks), and `ServesChat == Client!Spec` is checked as a property and proved.  The mapping reads
only what the client got and what is kept, so every one of the turn's own variables is hidden
by it; the steps of sub-agents, the calls running and the prompts are stutters.

### Properties and runs

| run | instance | properties |
|---|---|---|
| `agent_tools` | ReAct turns of 2 iterations with up to 2 calls at once and 3 deltas per stream, plans of 1 or 2 steps, and ReAct turns that make and call sub-agents under several policies; all faults, under fairness | `EveryCallAnswered`, `BilledForEveryStream`, `SubAgentsDoNotSpawn`, `WorkersTakeTurns`, `StreamEnds`, `ServesChat` |

`EveryCallAnswered` is what providers demand of a prompt and rests on every outcome of a call
becoming a result.  `ServesChat` covers, among others, reasoning that starts again after the text,
where both blocks are open until the stream ends; that an answer is kept only if its stream
ended well, which rests on the early return of `handle_chat`; and that the record holds what was
shown.  The warning of a turn that exhausted its iterations is a `Notice`, a step that is
no part of the answer: it is streamed and not recorded.  `WorkersTakeTurns` relates the
sub-agents at work to the progress of the plan: `facts` is what each was told of the steps before.
`BilledForEveryStream` is checked for models that report their usage.

Bounds: `MaxIterations = 2` gives a step with tools, a step after it and the exhausted loop;
up to 3 deltas give every alternation of the two blocks that changes what is open; two
calls are what it takes for a denial, a failure and a result to interleave; two sub-agents run
concurrently or one after the other.  A sub-agent is called at most once, and plans have no more
steps than there are sub-agents.  What the models of a request may answer (the tools of a step,
the length of a plan, the deltas of a stream) is bounded in the request.  `CHECK_DEADLOCK FALSE`
because a request ends.

Fairness: `FairSpec` asks weak fairness of each turn's steps and of the plan: the event loop runs
every task that can go on, and model streams end (the deltas of one are bounded).  The client may
leave at any time or never.

### Where the code does not do what its comments say

Three disagreements were met that have no run of their own.  `call_subagent_tool.py:15` says that
a subtask is run to its end and its conclusion returned: a sub-agent whose model fails yields an
error event, which `SubAgentSpawner.call` ignores, so the tool returns the empty text and the plan
step is marked completed.  `ui_message_converter.py:67` says that the parts
of a reloaded answer are arranged as they were first streamed, but the text of a step that calls
tools was streamed before them and is put after them (`ChatStream` keeps the parts as a set).
`definition.py:88` has `allow_parallel = False`, which nothing reads: all calls of a step run
concurrently.

### What is proved

`AgentTurn_proofs`, for any set of sub-agents, requests, call lists and faults:
`NoNestedSpawn`, that is `Spec => []SubAgentsDoNotSpawn`.  The inductive invariant `SpawnInv`
adds to it that the scope of every sub-agent is free of the sub-agent tools, which follows from
`NarrowedScope`: whatever the parent's policy, deriving a scope from the narrowed one leaves
them out, because a request's own lists, which would go before the policy's, are not handed to
sub-agents.  (The code has a second guard, which the model does not need: the runtime of a
sub-agent gets no spawner, `agent_turn_runtime.py:223`, so the two tools would raise in it.)
`OneCall` then covers the steps that change one call; the others keep the calls,
replace them by pending ones or drop them.

- `EveryCallAnsweredHolds` from `AnswerInv`: `Dated` adds that the calls in a prompt are of steps
  before the one in progress, so that those of a step are new to it, and that the messages of other
  roles answer none.
- `WorkersTakeTurnsHolds` from `PlanInv`: only the plan starts a worker, in a phase of the session's
  own turn in which no other is at work (`OneWorker`, `PlansOnly`), and the facts it gets when it is
  made (`WorkerReady`) stay what they are until it ends.
- `BilledForEveryStreamHolds` from `BillInv`, for models that report their usage (`UsageReports =
  {TRUE}`, as in the run; a planner's stream that reports nothing is not estimated by the code).
  `Counted` is the heart of it: at every moment of a turn its usage is the number of its streams that
  ended, which counts the answers in its record and the planner's and synthesizer's streams by
  the phase of the turn; `BilledOnce` keeps it after the end.

- `ServesChatHolds`, that is `Spec => ServesChat`: the refinement of `ChatStream`, which has no
  fairness of its own, so that this is all of it.  What the mapping makes of the frames are counts, sets
  and flattened lists; `Tells(s, n, k, O, A, B, C, G)` names all that the frames `s` say: `n` steps begun and
  `k` finished, the open blocks, the calls announced and answered, the contents and the progress
  shown.  One group of lemmas (`TellsOne` to `TellsWarning`) computes what each group of frames the code
  sends together changes about it, a second (`ClientStart` to `ClientCalls`) which step of `ChatStream`
  that change is.  Between them stands the inductive invariant `StreamInv`: `Fits` relates what was
  told to the turn, as that the announced calls without an output are those of the current step,
  that what was shown is what `Replay` makes of the record and the blocks and calls of the current
  step, that the steps recorded are the steps finished, and that the plan's progress is twice the
  completed steps, and one more in a step; `StoppedTold` that a turn that failed has told nothing of its end
  yet.  It is needed because the abstract steps have guards (a step ends when no call waits, an answer is kept as it
  was shown) which the frames alone do not imply.  `ServedRoot`, `ServedStrategy`, `ServedOther`
  and `ServedEnd` go through the actions; TLC checked `StreamInv` before it was proved.

`StreamEnds` is liveness and stays with TLC.

## 5. ModelRegistry

### What is modelled

The three collections of one owner: `models` and `providers` (the status of each document, for
providers also `usage_tokens`) and `mappings`.  A request is a chain of database calls: `at` is
the call it makes next, `req` its arguments, `found` the mappings it read and still goes through,
`copy` the mapping it will write, `held` the usage counter in the provider document it holds.
The database is external and modelled from its use: `Saved` replaces all fields of the document
with the same id or inserts it, `Without` deletes by id, `Unique` are the two unique indexes of
the mappings, whose violation is the `DuplicateKeyError` that a bind turns into an error and a
promotion does not catch.

| actions | code |
|---|---|
| `CreateModel`, `CreateProvider` | `create_model`, `create_provider` |
| `Begin`, `GetModel`, `ReadProvider` | a request arrives; `get_model`, `get_provider` |
| `FindProvider`, `FindToBind`, `FindOthers`, `DemoteOther`, `WriteMapping` | `bind_model_to_provider` with `_clear_preferred_mappings` |
| `FindToUnbind`, `DeleteMapping`, `FindNext`, `Promote` | `unbind_model_from_provider` with `_promote_next_preferred_mapping` |
| `SaveModel`; `ListMappings`, `DropMapping`, `DropModel` | `update_model`; `delete_model` |
| `SaveProvider`; `CountMappings`, `RemoveProvider` | `update_provider`; `remove_provider` |
| `FindChatModel`, `FindChatMapping`, `FindChatProvider` | `resolve_model_for_chat` |
| `IncrementUsage`, `NoUsage` | `increment_usage`, called at the end of the turn by `send_token_billing` |
| `Abort` | a failed call, a refused argument (the type of a provider, a duplicate name), the end of the client or the process |

Left out: names, keys, addresses, capabilities, the fallback of a chat from the user's models to
the system's (another owner), `billable_usage_tokens` (moves with `usage_tokens`), the operations
that only list.  `created_at` ticks are distinct, and `priority` is always 0, as in the code.

### Properties and runs

`model_registry` runs one model, up to three providers and two concurrent requests, under the five
workloads of `Day`: which operations are requested and which of them may overlap.  Several
properties are claims about some workloads only, and say so by `load.together`:

- `AtMostOnePreferred` under all: the partial index ignores mappings that are preferred and
  inactive, so it rests on the normalisation at line 188 and on every stale copy being sound too.
- `SwitchKeepsServing` under all: `_clear_preferred_mappings` writes back whole mappings it read
  earlier; since those were preferred they were active, and so it never switches one off.
- `NoDangling` unless a write of a mapping overlaps a deletion.  With that overlap
  `remove_provider` counts no mapping, a bind adds one, and the provider is deleted.
- `UsageExact` unless an update of a provider overlaps: `update_provider` saves the counter it
  read and loses what chats added in between.  Chats alone are exact, because of the `$inc`.

No property says that an unbind promotes the right successor: binds and unbinds that overlap can
bring back a mapping that another request unbound.

Bounds: three mappings are created, so that a pair can be unbound and bound again while a request
holds its old copy; three providers, in the sequential workload, leave two candidates for a
promotion; two tokens per provider let two chats count at the same time.  Requests and providers
are symmetric.  `CHECK_DEADLOCK FALSE` because deleted ids are not used again and counters are
bounded.

### What is proved

`ModelRegistry_proofs`, for any models, providers, requests, workload and bounds: `TypeCorrect` and
`AtMostOnePreferredHolds`.  The property is not inductive: a request may hold a mapping it read
when that was preferred and save it later.  `Inv` adds that every mapping stored or held is
preferred only if it is active (`Sound`) and that the active preferred ones of a model have one id.
`Went` and `Left` say once what a request that goes on or leaves holds, `SavedOK` and `WithoutOK`
what a write does to the collection; each action then follows from two of them.

The other three rest on which requests are under way together (`FlowInv`: each is at a place of its
operation, and two that overlap are of operations that may).

- `UsageExactHolds` from `UsageInv`: the copy that an update of a provider holds counts what its
  chats used until it is written back, as no chat runs meanwhile.
- `NoDanglingHolds` from `LinkInv`: what a writer of mappings found to exist still does (`Checked`),
  every mapping it holds refers to what exists, and a deletion that is about to remove the document
  has all its mappings on its list, or found none.  With `Separate` no deletion and writer overlap
  (`ApartBy`).
- `SwitchKeepsServingHolds` from `DocsInv`: an id stays with the model it was given to, what a bind
  found was preferred, hence active by `Inv`, and what it writes last is as active as it was asked.

So every property of the run is proved.

## 6. ServiceDiscovery and RpcClient

### What is modelled

`ServiceDiscovery` holds the client-side list of the instances of other services: `cache`
(`_cache`), `age` (the time since `_fetched_at`, up to the TTL), `cursor` (`_rr_cursor`),
`subscribed`, and `closed`.  The registry is external: `registry` is the history of its listings,
`watched` the services it pushes, `pushes` what it has sent and the callback has not handled; a
push comes in order, late, or never.  `RpcClient` adds the requests: per request the await it is at
(`at`), the `answer` of the registry on its way, the instances it was `sent` to
(`tried_instances`, in order), what each replied, and the `result`; and the locks: `lock` per
service, `namingLock`, whether the discovery has its `naming` client, and how many `clients` the
process created.

| actions | code |
|---|---|
| `Begin` | `RpcClient.request` up to its first await |
| `Acquire` ... `SubscribeEnds` | `_ensure_ready`, `_refresh`, `_get_naming`, `get_naming_client`, one action per await |
| `PickFrom`, `Attempt` (in these) | the rest of `pick` and the head of the retry loop, which run without an await |
| `Answered`, `Breaks`, `FailsOver` | what becomes of the HTTP request |
| `Cancel` | the caller is cancelled at an await; `async with` releases the locks |
| `OnChange`, `Tick`, `Close` | the subscription's callback, time, `close()` |
| `RegistryChanges` | the registry (external) |

A workload says which services are called, for which developer, with which strategy, in whose
context, and what the registry may list.  A listing gives each instance a standing: absent, usable,
or unusable (unhealthy or disabled).  Addresses are numbers and a list is in their order.  Of a
weight only whether it is 0 matters for what can be drawn.  Left out: paths, bodies and headers but
the user's; the registration of the process and the configuration calls of `nacos_client.py`.

### Properties and runs

`rpc_failover` checks all of them on two requests, in the five workloads of `Day`:

- `SafeFailover`: no instance twice, `Retries + 1` attempts at most, each but the last lost.
- `StableInstancesTried`: with a list known, no request gives up for want of an instance while one
  that was there all along is untried.  An outage of the registry, lists that cross pushes, and
  empty pushes all pass through the same cache, and a single one that dropped a stable instance
  would show.
- `DeveloperStays`: the pool is selected before the tried instances are excluded, so that a failed
  instance of a developer is not replaced by one of the others.
- `OneRefresh`: the double-checked lock lets one request per service refresh, and only a stale list.
- `OneNamingClient`: `get_naming_client` checks and creates across an await without a lock;
  `_naming_lock` makes up for it as long as the discovery is its only concurrent caller.
- `EveryRequestEnds`: no lock is kept by a request that failed or was cancelled.

Bounds: two requests make every pair wait for the same lock or need the naming client together;
three instances (one of weight 0, one of a developer) and `Retries = 1` let the last attempt be
reached, the pool run out and the cursor wrap; a list lives for one tick, so each attempt may find it
stale.  One change of the registry per service is enough for a push and a list to cross.
`CHECK_DEADLOCK FALSE` because requests end.

Fairness: `FairSpec` asks weak fairness of each request's `Step`: the event loop runs every task
that can go on, and the timeouts of the HTTP client (`RPC_DEFAULT_TIMEOUT`) and of the registry's
client (5 s) end each call.  Cancellation, time, pushes and changes are not fair.

### Where the code does not do what its comments say

`user_call`: `exceptions.py:23` (*common* `core/`) says that `RpcError` is the one type of a failed
call.  In a user's context `rpc_client.py:93` calls the setters of the security context for their
getters, outside of any try: every such call ends in a `TypeError` and is never sent.

Seen while modelling, and not claimed otherwise by the code: a list call answered before a change
and arriving after its push puts the older list back until it is stale; while the registry is away,
every request takes the lock in turn and repeats the failing call, since a failure does not renew
`_fetched_at`; an empty push is ignored but an empty list is stored; an `RpcError` may carry the
status of one attempt with the message of another.

### What is proved

`RpcClient_proofs`, for any services, instances, requests, workloads, TTL, retries and number of
changes: `TypeCorrect` and every safety property of the run.

- `SafeFailoverHolds` from `FailoverInv`, which says for each place of a request how many replies
  and instances it has (`Good`); `GoodMoves`, `GoodReplies` and `GoodPick` are the ways to get on.
- `OneNamingClientHolds` and `OneRefreshHolds` from `LockInv`.  That a request may ask for the naming
  client without looking at the list again rests on its third part: without a naming client
  nothing is subscribed, and so no push makes the list fresh meanwhile.
- `DeveloperStaysHolds` needs no invariant but the types: every pick is from the list that the cache
  has after the step (`PicksFromCache`).
- `StableInstancesTriedHolds` from `ListInv`: an instance that was there all along is on every list
  that is known, on its way as a push, or on its way as an answer.

`EveryRequestEnds` is model-checked only, being a liveness property.

## 7. SessionStore and TurnPager

### What is modelled

One session: its document `doc` (`None` before it is created and once it is deleted) and its
`archive`.  Every query is by the id of the session, so other sessions are independent of it.
A task is a request of the session API, a chat turn, or a client that reads the session page
by page; `at` is the database or model call it makes next, `req` its operation and user, `copy`
the document it read and may save, `record` the messages it has yet to archive, and `view` the
page a client reads, what it was shown, and what was archived when it began.

| code | actions |
|---|---|
| `create_session` | `Create` |
| `get_session_for_user` at the start of an endpoint | `Begin`, `Check` |
| `has_session_messages` and the resolution of the agent in `set_session_agent` | `CheckMessages` |
| `_safe_get_session`, then `save` or `delete` | `Find`, `Save`, `Delete` |
| `SessionAgentProvider.resolve`, the strategy | `ReadAgent`, `Ask`, `Answer` |
| `insert_many` of `persist_messages` | `ArchiveNext` |
| `update_session_summary` | `FindForSummary`, `SaveSummary` |
| `auto_generate_title` | `ReadTitle`, `Generate`, then `Find` and `Save` of `rename_session` |
| `list_session_message_turns_page` | `CountTurns`, `FetchUsers`, `FetchWindow` |

`TurnPager` holds the queries of a page as operators on an archive.  Beanie's `save()` is external:
it writes every field of the document and inserts it if it is gone.  `is_pinned` stands for
`pinned_at` too, and the time of a summary for its text; `updated_at` and the order of the session
list, which is read only, are left out.  Any call may fail (`Abort`), which also stands for a
client that leaves and for the process that restarts.

### Properties and runs

| run | instance | properties |
|---|---|---|
| `session_store` | two users, two tasks at a time, pages of one and two turns; the workload is chosen at the start | `ScrollMissesNothing`, `PagesPartition`, `OnlyOwnerWrites`, `NoUpdateUndone`, `AgentStays` |

Two of the properties hold in some workloads only, and say so:

- `NoUpdateUndone` in those with `load.brief`, where no other save or delete falls between the
  read and the save of `update_session_summary`, `rename_session` and the like.  Everything else
  overlaps, in particular the seconds a model takes for a summary or a title.  Without that
  assumption the code loses updates and revives deleted sessions.
- `AgentStays` where a change of the agent overlaps no turn (`Apart`).

`OnlyOwnerWrites`, `ScrollMissesNothing` and `PagesPartition` hold in all.  `OnlyOwnerWrites` is not
obvious because `update_session_summary` and the archive use the id of the session alone, and
a deleted session may be written again.  `ScrollMissesNothing` is about a client that reads
until a page is empty.

Bounds: two tasks make every pair of operations overlap, and turns overlap in the workloads that
write; up to three turns are archived while one client reads pages of one turn, so that
pages shift between two requests and between two queries of one.  The workloads: any
requests but the change of the agent overlapping; all requests with brief saves; all, of
which the change of the agent and the rename run alone; reading while turns are archived; reading
while the session is deleted.  Tasks and users are symmetric.  `CHECK_DEADLOCK FALSE`: a deleted
session need not be used again.  No liveness is checked: nothing waits here.

### Where the code does not do what its comments say

No run shows these, but the excluded overlaps do:

- `error_codes.py:9` says that a session with messages cannot switch its agent.  The check
  (`session.py:121`) and the save are separate, and a turn that is being answered has archived
  nothing yet, so the agent of its session can be changed.
- `chat_turn_finalizer.py:212` says that titles are generated for 'New Chat' sessions.  The title is
  tested before the model is asked and overwritten after, whatever the user renamed it to.
- A page counts the turns before it fetches them: a turn archived in between is shown on page 1
  and not counted, so `total_page` may end one page before the oldest turn shown.
- When turns overlapped, the window of a page, which is cut by time, may show the answer of one
  turn with the page of the next one; no message is lost or shown twice (`PagesPartition`).

### What is proved

`SessionStore_proofs`, for any users, tasks, page sizes and workloads:

- `OnlyOwnerWritesHolds` from `OwnerInv`, which says that the document, and any copy a task holds, has
  the creator as owner, and that a task is the creator's once it is past the lookup by id and user
  (`Granted`).  The places at which an operation may be (`Suits`) are part of it, as what a save
  changes depends on the operation.
- `NoUpdateUndoneHolds` from `HoldInv`: with saves that follow their reads (`load.brief`) one task is
  between the two at a time, and its copy differs from the document in its own fields only.  That a
  turn asks a model for a summary or a title in between does not matter, since it reads again.
- `AgentStaysHolds` from `AgentInv`: a change of the agent is under way only while there are no
  messages, and once there are, or where such changes do not overlap, the copies that tasks will
  save agree with the document on the agent (`Agree`).

- `PagesPartitionHolds` from `ArchiveInv`: the archive is in the order of time, and none of its messages is
  older than every user message (`Anchored`), because a turn archives its user message first and in
  order, however turns overlap and whatever part of a turn is lost.  So the windows, cut at the
  user messages, leave nothing below the last one; `PageIs` says of each page that it is what
  `UpToPage` of it adds to that of the page before, and `PagesWhole` adds the pages up.
- `ScrollMissesNothingHolds` from `ScrollInv`.  A client that asks for page `k + 1` was shown all it is
  owed down to the user message in place `k * size` (`Reached`); one that has fetched its user messages
  was shown all from the newer end of the window on (`Windowed`).  What is archived in between only
  moves user messages to later places (`UsersGrow`), so that a page may repeat messages and never skips
  any, and the window is fetched by time, which does not shift.

## 8. LlmAdapters

### What is modelled

The turns of one session, one after the other, each with a model of any of the five providers.  A
turn begins with the messages `ChatContextAssembler` puts together, makes up to
`agent_max_iterations` requests, and keeps what it recorded in the hot context, which is trimmed.
Per request there are the `request` a formatter wrote, the `answer` the vendor means to give, what
it has `sent`, the local variables of the adapter's generator (`acc`), and what the delta interpreter
and the step runner collected (`heard`).  Of OpenAI, `sent` also has the items whose done event was
sent (`done`) and those of which this event brought the item (`whole`); 0 is the message.

| actions | code |
|---|---|
| `Begin`, `Ask` | `assemble_prompt`, and `stream_chat_completion` with the formatter of the provider (`WholeRequest`, `OpenAIRequest`) |
| `Unsupported` | `LLMProviderResolver.resolve` refuses a model of another family than its provider |
| `LiteLLM...`, `OpenAI...`, `Anthropic...`, `Gemini...`, `Qwen...` | the events of each adapter's stream, in every order its vendor may send them, and its end |
| `StreamFails` | the request is refused or the stream breaks; nothing of the turn is kept |
| `Answered`, `NextStep`, `Exhausted` | what the step runner and the ReAct loop do with the answer, and `append_messages` |

What the formatters have in common is stated once: a provider is sent the native payload of its own
answers (`Own`) and what was visible of all others, and results by the key their vendor knows them
by (`KeysFor`: names for Gemini, ids for the others).  `OpenAIRequest` is the one that differs:
results after the last response are sent alone, with `previous_response_id`, and `Remembered` is
OpenAI's memory of that response (external).  A done event without its item, of a message or of a
call, falls back to the item put together from the deltas (`openai_adapter.py:98`): that has the
arguments of a call, and none of the text.  A text delta is its number, a call the place it was
made at, arguments the list of their pieces.

`load.faults`: requests fail, answers stop early, calls come without an id, arguments are not JSON,
the done event of an item comes without it, a model does not fit its provider.  Assumed of the
vendors: Anthropic, Gemini and Qwen cut an answer between blocks; of OpenAI each call is an item that
follows the message.  The usage that is estimated when none was reported belongs to `AgentTurn`.
Left out: thinking options, images, the JSON schemas of tools, and the reload of the hot context.
Images and schemas are sequential translations; refills and reloads are `TurnMemory`.

### Properties and runs

`llm_adapters` runs four loads: one turn with every order of two calls, two deltas and one report;
three turns that go to any providers; calls without ids, cut and failing; a hot context of four
messages, cut inside older turns.

- `AnswerAsSent`: the message kept is what was said.  The text is what was shown, in the payload too,
  unless OpenAI never sent the message's item whole: then, whether the done event came without it or
  the answer was cut before, the payload has no text.  The calls kept are those that came (`Came`),
  no more and no fewer, whether or not the answer was cut.  For LiteLLM this rests on fragments being
  found by their index, for OpenAI on the item of the done event, for all on arguments that were cut
  becoming an empty object instead of half of one.
- `CallsAnsweredInPlace`: what vendors demand of a conversation, here of what the model reads,
  with what its vendor remembers.
- `OrphansExplained`: results without their call are read in two cases only: their answer was of
  another provider (its calls are not replayed, its results are), or the trim cut between them.
- `StepsBuildOn`: a continued conversation is the replayed one.

Bounds: two calls and two pieces are what it takes to mix fragments; three turns, to have another
provider's answer between two of one; a window of four cuts a step of three messages at each of its
places.  `CHECK_DEADLOCK FALSE`: the turns are bounded.  No liveness is checked, because a turn
waits for its vendor only.

### Where the code does not do what its comments say

`question_reaches_model`: `chat_context_assembler.py:21` calls the messages those "finally sent to
the model", and ends them with the user's newest question.  If results follow the last response of
OpenAI in them, `openai_adapter.py:142` sends these results alone.  That is meant for the steps of
a turn, but it is also the case at the start of one: after a turn of OpenAI that used up its
iterations, or a tool turn of another provider since.  The model then continues the old turn and
never reads the question.

Seen while modelling, and not claimed otherwise: a call without an id gets a generated one for its
result, while the native payload of LiteLLM and Qwen keeps the call without it; and an OpenAI message
whose done event has no item is replayed to OpenAI without the text the user was shown.

### What is proved

All of the run's properties, for any load: any providers, turns, steps, calls, deltas, pieces,
reports, windows and faults.  The first half of `LlmAdapters_proofs` is about the stream of one answer.

- `TypeCorrect` from `Shape`, `TypeOK` with the bounds that its parts need of each other (the entries
  of an adapter are of calls of the answer, what OpenAI remembers is of turns that were).
- `AnswerAsSentHolds` from `Streamed`, whose part `SoFar` says, per adapter, what it holds of what was
  sent up to now: each entry has the parts of its own call, as many as were sent, each call that
  came has one entry and no other has any, and the entries are in order, except for LiteLLM, where
  `ByIndex` sorts them in the end.  For OpenAI, `DoneSoFar` relates the items done to the calls kept,
  and the text kept to the message's item.

The second half is about what is read.

- `CallsAnsweredInPlaceHolds` and `OrphansExplainedHolds` from `Conversation`.  It says that history and
  record keep each answer with its results (`Intact`) and results with their answer, except at the
  head of what was trimmed (`Grouped`); that the prompt is a head of system messages and summary,
  then these two (`Placed`); that OpenAI remembers, for each answer of its own which is still in
  history or record, a context that ends with it and is answered up to it (`Kept`, `Memory`); and
  that calls, results and payload of the answer in progress agree (`Paired`).  The last two parts
  are what a model reads now.  The proof follows the messages through the trim (`NewestIntact`), the
  concatenations (`IntactCat`, `AllOwnedCat`) and the formatters (`PromptRead`, `ContinuedRead`): both
  ways to make a request preserve what was proved of the messages.
- `StepsBuildOnHolds` from `Bridge`: before a further request, the prompt is what the last request
  was made of and then the messages of the step, and OpenAI remembers that request with the answer
  at its end.  The formatters distribute over such a prompt (`FormattedCat`), and the outputs that
  `OpenAIRequest` finds in it are the results of the step (`EndTaken`).

## 9. SkillAssets

### What is modelled

The calls of `load_skill` and `load_skill_asset` made in one process, and in the next after it
ended.  Per call: where it is (`phase`), the `object` key it was given, its `result`.  Of the
process: the `lock` of each object, whether it is `running`, and when the collector wakes (`gc`).
The files survive it: `disk`, per object its file and its `.tmp` file.  Two history variables go with
it (`files`): `used`, the last time a file was written, or touched by a read; and `unread`, the calls
whose last look at the cache found a file that could not be read.

| actions | code |
|---|---|
| `Call`, `CheckPermission`, `FindObject` | the hooks `JsonSchemaCheck`, `AllowedSkillIdCheck`, `SkillPermissionCheck` and the reading of the manifest |
| `Open`, `Enter`, `GetUrl`, `Download` | `load_by_object_key`, cut at its awaits; `Read` and `Miss` are the two outcomes of `_read_if_fresh`, with `Touch` its `os.utime`; `Written`, `Unwritten` and `Torn` are those of `_atomic_write` |
| `Cancel` | `wait_for` times out, or the turn is cancelled |
| `Collect`, `Stop`, `Exit`, `Crash` | `_gc_loop`, `stop`, the end of the process and the start of the next one |
| `Tick` | the clock (external) |

There is one event loop, so what lies between two awaits is one action; in particular the collector
looks at and removes all files in one step, and a write is cut short by the disk or by the death of
the process.  With the fault `disk` every access to a file may fail where the code handles it: the
touch is swallowed and the file read as old as it was; a file that cannot be read counts as absent
(`Miss`), so that its object is downloaded again; a write that fails leaves the `.tmp` file or not
(`Torn`, `Unwritten`); the collector leaves what it cannot remove.  Not modelled: an error of the
listing itself (`oss_loader.py:144`), which ends the collector for the rest of the process.  A lock that is free may be taken by any call that
wants it, which includes the order of arrival that `asyncio.Lock` keeps.  The skill, permission and
file services are external: they answer or fail.  Given the finding of section 6 the permission
check of a call with a user always fails in the code as it is; the model lets it succeed too, as
the rest could not be reached otherwise.

### Properties and runs

`skill_assets` runs three calls under four loads: all of one object; of two objects and of one that
is not declared; of skills not granted and files that are no text; of a skill not matched.

- `OwnContent`: the content returned is whole and of the object the manifest declares.  It rests on
  the result of the hook being kept per call, and on the name a file gets only when it is whole.
- `OneDownload`: the lock, and the check under it.  A file that is there and cannot be read is
  downloaded over; the property asks that nothing else is, by the very call that could not read it.
- `StaysWhileUsed`: reading touches a file before the collector can look at its age.  A read whose
  touch failed is not counted as a use, because the code swallows that error and the file may then
  be collected although it was just read.
- `CallsEnd`: no lock stays behind with a call that failed, timed out or was cancelled.

Bounds: three calls put two behind one lock, of which one may be cancelled; a ttl of 1 in four days
lets a file be collected, downloaded again and touched; one restart shows what the last process
left. `CHECK_DEADLOCK FALSE`: calls are finite.  Fairness: `FairSpec` asks weak fairness of each
call's `Step`: the event loop runs every task that can go on, and the HTTP clients have timeouts.
Collection, stop, crash and cancellation are not fair.

### What is proved

`SkillAssets_proofs`, for any calls, skills, objects, loads and numbers of restarts: `SkillTypes`,
`ContentIsOwn`, `DownloadIsSingle` and `UsedFilesStay`, from the inductive invariant
`IInv == TypeOK /\ Whole /\ Checked /\ Locked`: a file under its final name is whole and as old
as its last use; a call past a hook was let through by it; a call that downloads holds its lock and
finds no file, or one it could not read.  `Locked` is what `OneDownload` follows from, and `Whole` is what makes `Collect`,
which goes by the age of a file, satisfy a property about its use.

## 10. Not modelled

- Kafka: no code of the repository constructs `KafkaConsumerClient`; the producer logs what fails,
  and sending is a part of billing in `TurnMemory`.
- The text search of the historical messages, the rendering and cutting of tool outputs, the sections
  and wording of prompts, the count of tokens, the thinking options and manifests of models: sequential
  transformations of text.
- Registration of the process with the registry, and the configuration it reads there.
- Security context and web layer (per-request variables and header checks), wiring, settings,
  logging, observability.
- Liveness and ENABLED are out of the prover's reach; `StreamedIsArchived`, `StreamEnds`,
  `EveryRequestEnds` and `CallsEnd` are model-checked only.

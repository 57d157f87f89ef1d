------------------------------ MODULE AgentTurn ------------------------------
(***************************************************************************)
(* One answered chat request: the stream of frames the client is sent, the *)
(* ReAct loop or the plan-and-execute strategy behind it, the concurrent   *)
(* tool calls of a step, and the sub-agents, each a turn of its own, that  *)
(* such a call or a plan step runs.                                        *)
(***************************************************************************)
EXTENDS Integers, Sequences, FiniteSets, SequencesExt, ToolScope

CONSTANTS
    Root,           \* the turn of the session
    SubAgents,      \* the sub-agents that can be created
    Requests,       \* what the turn may be asked for: see Request
    MaxIterations,  \* agent_max_iterations
    UsageReports,   \* whether a model stream reports its usage: {TRUE}, {FALSE} or both
    Faults          \* what may fail

\* A request, and what bounds the answers of its models: the lists of tools they may call
\* at the end of a step, the sizes of their plans, the deltas of one stream.
Request == [plan : BOOLEAN, matched : BOOLEAN, policy : ToolPolicy,
            allow : SUBSET Tool, deny : SUBSET Tool,
            lists : SUBSET Seq(Tool), sizes : SUBSET (Nat \ {0}), deltas : Nat]
FaultKind == {"prepare", "llm", "planner", "preflight", "tool", "spec", "billing", "leave"}

ASSUME ConstantsAssumption ==
    /\ Root \notin SubAgents
    /\ Requests \subseteq Request
    /\ MaxIterations \in Nat \ {0}
    /\ UsageReports \subseteq BOOLEAN
    /\ Faults \subseteq FaultKind

VARIABLES
    request,        \* the request, with the policy of the session's agent
    phase,          \* per turn, where it is or how it ended; a sub-agent is unborn, then saved
    scope,          \* per turn, tool_scope
    iteration,      \* per turn, the iteration of the loop
    prompt,         \* per turn, the messages sent to the model after the context
    record,         \* per turn, ctx.record_messages
    usage,          \* per turn, ctx.usage_tokens, in model streams counted
    billed,         \* per turn, the usage handed to the billing; -1 before
    open,           \* per turn, the blocks the delta interpreter has started
    said,           \* per turn, the blocks that have content in the current step
    deltas,         \* per turn, deltas of the current model stream
    calls,          \* per turn, the tool calls of the current step
    plan,           \* the statuses of the plan steps
    facts,          \* per sub-agent, the plan steps whose results it was given
    stream          \* the frames sent to the client

loop == <<iteration, prompt, record, usage>>
step == <<open, said, deltas, calls>>
vars == <<request, phase, scope, iteration, prompt, record, usage, billed, open, said,
          deltas, calls, plan, facts, stream>>

Runs == {Root} \cup SubAgents
May(fault) == fault \in Faults

(***************************************************************************)
(* Data.  A frame has the type of the stream protocol and what it is about:*)
(* the iteration, the call or the plan step.  A call is known by its       *)
(* iteration and place; a message by its role, what it says and calls.     *)
(***************************************************************************)
Block == {"reasoning", "text"}
StartOf == [reasoning |-> "reasoning-start", text |-> "text-start"]
DeltaOf == [reasoning |-> "reasoning-delta", text |-> "text-delta"]
EndOf == [reasoning |-> "reasoning-end", text |-> "text-end"]
Frame(type, of) == [type |-> type, of |-> of]
CallState == {"pending", "running", "ok", "error"}
Call == [tool : Tool, state : CallState, sub : SubAgents \cup {Root}]
NewCall(tool) == [tool |-> tool, state |-> "pending", sub |-> Root]

Message(role, blocks, called, answers) ==
    [role |-> role, blocks |-> blocks, calls |-> called, answers |-> answers]
UserMessage == Message("user", {"text"}, <<>>, <<>>)
CallId(r, i) == <<iteration[r], i>>
CallIds(r, list) == [i \in DOMAIN list |-> CallId(r, i)]
Assistant(r, list) == Message("assistant", said[r], CallIds(r, list), <<>>)
ToolResult(r, i) == Message("tool", {}, <<>>, CallId(r, i))

\* How a turn can be over.
Over(r) == phase[r] \in {"closed", "blank", "cancelled"}
           \/ (r # Root /\ phase[r] \in {"raised", "crashed"})

From(r, p) == phase[r] = p
To(r, p) == phase' = [phase EXCEPT ![r] = p]

\* Only the events of the session's own turn reach the client.
Send(r, frames) == stream' = IF r = Root THEN stream \o frames ELSE stream

Init ==
    /\ request \in Requests
    /\ phase = [r \in Runs |-> IF r = Root THEN "prepare" ELSE "unborn"]
    /\ scope = [r \in Runs |-> {}]
    /\ iteration = [r \in Runs |-> 0]
    /\ prompt = [r \in Runs |-> <<>>]
    /\ record = [r \in Runs |-> <<>>]
    /\ usage = [r \in Runs |-> 0]
    /\ billed = [r \in Runs |-> -1]
    /\ open = [r \in Runs |-> {}]
    /\ said = [r \in Runs |-> {}]
    /\ deltas = [r \in Runs |-> 0]
    /\ calls = [r \in Runs |-> <<>>]
    /\ plan = <<>>
    /\ facts = [r \in SubAgents |-> <<>>]
    /\ stream = <<Frame("start", <<>>)>>

-----------------------------------------------------------------------------
(* Preparing a turn.                                                       *)

Policy(r) == IF r = Root THEN request.policy ELSE Narrow(request.policy)

\* handle_chat up to the strategy: agent, model, context, scope; then the strategy seeds
\* the record and assembles the prompt.  A sub-agent always runs the ReAct loop, without
\* the lists of the request, and finds its spec in Redis or dies on its absence.
Prepare(r) ==
    /\ From(r, "prepare")
    /\ \/ /\ scope' = [scope EXCEPT ![r] =
                IF r = Root
                THEN Scope(Policy(r), request.allow, request.deny, request.matched, FALSE)
                ELSE Scope(Policy(r), {}, {}, FALSE, FALSE)]
          /\ prompt' = [prompt EXCEPT ![r] = <<UserMessage>>]
          /\ record' = [record EXCEPT ![r] = <<UserMessage>>]
          /\ To(r, IF r = Root /\ request.plan THEN "plan" ELSE "loop")
       \/ /\ May("prepare")
          /\ \E p \in {"raised", "crashed"} : To(r, p)
          /\ UNCHANGED <<scope, prompt, record>>
    /\ UNCHANGED <<request, iteration, usage, billed, step, plan, facts, stream>>

-----------------------------------------------------------------------------
(* A step: one model stream and the tools it calls (AgentStepRunner).      *)

StartStream(r, p) ==
    /\ To(r, p)
    /\ open' = [open EXCEPT ![r] = {}]
    /\ said' = [said EXCEPT ![r] = {}]
    /\ deltas' = [deltas EXCEPT ![r] = 0]
    /\ Send(r, <<Frame("start-step", <<iteration[r]>>)>>)
    /\ UNCHANGED <<request, scope, loop, billed, calls, plan, facts>>

\* Mutant: one iteration too many.
StartStepMore(r) ==
    /\ From(r, "loop")
    /\ iteration[r] <= MaxIterations
    /\ StartStream(r, "llm")

\* Within the range of iterations the next step starts.
StartStep(r) ==
    /\ From(r, "loop")
    /\ iteration[r] < MaxIterations
    /\ StartStream(r, "llm")

\* Mutant: the reasoning block is not closed when the text starts.
ConsumeOpen(r, block) ==
    [frames |-> (IF block \in open[r] THEN <<>> ELSE <<Frame(StartOf[block], <<iteration[r]>>)>>)
                \o <<Frame(DeltaOf[block], <<iteration[r]>>)>>,
     open |-> IF block = "text" THEN {"text"} ELSE open[r] \cup {block}]

\* StepDeltaInterpreter.consume: a block starts with its first delta; the text starting
\* ends the reasoning, while reasoning that comes after the text leaves it open.
Consume(r, block) ==
    IF block \in open[r]
    THEN [frames |-> <<Frame(DeltaOf[block], <<iteration[r]>>)>>, open |-> open[r]]
    ELSE [frames |-> (IF block = "text" /\ "reasoning" \in open[r]
                      THEN <<Frame("reasoning-end", <<iteration[r]>>)>> ELSE <<>>)
                     \o <<Frame(StartOf[block], <<iteration[r]>>),
                          Frame(DeltaOf[block], <<iteration[r]>>)>>,
          open |-> IF block = "text" THEN {"text"} ELSE open[r] \cup {block}]

\* StepDeltaInterpreter.close.
EndFrames(r) ==
    LET End(block) == IF block \in open[r] THEN <<Frame(EndOf[block], <<iteration[r]>>)>> ELSE <<>>
    IN  End("reasoning") \o End("text")

Delta(r) ==
    /\ phase[r] \in {"llm", "synth"}
    /\ deltas[r] < request.deltas
    /\ deltas' = [deltas EXCEPT ![r] = @ + 1]
    /\ \E block \in Block :
          /\ Send(r, Consume(r, block).frames)
          /\ open' = [open EXCEPT ![r] = Consume(r, block).open]
          /\ said' = [said EXCEPT ![r] = @ \cup {block}]
    /\ UNCHANGED <<request, phase, scope, loop, billed, calls, plan, facts>>

\* The stream breaks: a ServiceException, also for what is not one already.
StreamFails(r) ==
    /\ phase[r] \in {"llm", "synth"}
    /\ May("llm")
    /\ To(r, "failed")
    /\ UNCHANGED <<request, scope, loop, billed, step, plan, facts, stream>>

Add(messages, r, new) == [messages EXCEPT ![r] = @ \o new]

\* Mutant: the usage of the last step replaces that of the steps before.
CountLast(r, n) == usage' = [usage EXCEPT ![r] = n]
Count(r, n) == usage' = [usage EXCEPT ![r] = @ + n]

\* The stream ends without tool calls: the step is the last one.  Usage that is not
\* reported is estimated, so it always counts.
EndAnswer(r) ==
    /\ From(r, "llm")
    /\ <<>> \in request.lists
    /\ Send(r, EndFrames(r) \o <<Frame("finish-step", <<iteration[r]>>)>>)
    /\ record' = Add(record, r, <<Assistant(r, <<>>)>>)
    /\ Count(r, 1)
    /\ To(r, "finish")
    /\ UNCHANGED <<request, scope, iteration, prompt, billed, step, plan, facts>>

InputFrames(r, list) ==
    FlattenSeq([i \in DOMAIN list |-> <<Frame("tool-input-start", CallId(r, i)),
                                        Frame("tool-input-available", CallId(r, i))>>])

\* The stream ends with tool calls, which are announced and then dispatched together.
EndWithCalls(r) ==
    /\ From(r, "llm")
    /\ \E list \in request.lists \ {<<>>} :
          /\ Send(r, EndFrames(r) \o InputFrames(r, list))
          /\ calls' = [calls EXCEPT ![r] = [i \in DOMAIN list |-> NewCall(list[i])]]
    /\ To(r, "tools")
    /\ UNCHANGED <<request, scope, loop, billed, open, said, deltas, plan, facts>>

-----------------------------------------------------------------------------
(* The tool calls of a step, concurrent (ToolDispatcher, ToolExecutor).    *)

SetCall(r, i, call) == calls' = [calls EXCEPT ![r][i] = call]
CallIn(r, i, state) == /\ From(r, "tools")
                       /\ i \in DOMAIN calls[r]
                       /\ calls[r][i].state = state

\* A tool that is not in the scope, or that a preflight check turns down.
DenyCall(r, i) ==
    /\ CallIn(r, i, "pending")
    /\ calls[r][i].tool \notin scope[r] \/ May("preflight")
    /\ SetCall(r, i, [calls[r][i] EXCEPT !.state = "error"])
    /\ UNCHANGED <<request, phase, scope, loop, billed, open, said, deltas, plan, facts, stream>>

\* The tool starts.  call_subagent runs a created sub-agent that was not called before
\* (bound), or any other id, whose spec is not found (Root stands for it).
BeginCall(r, i) ==
    /\ CallIn(r, i, "pending")
    /\ calls[r][i].tool \in scope[r]
    /\ \/ /\ calls[r][i].tool = "call_subagent"
          /\ \E s \in {s \in SubAgents : From(s, "saved")} :
                /\ SetCall(r, i, [calls[r][i] EXCEPT !.state = "running", !.sub = s])
                /\ To(s, "prepare")
       \/ /\ SetCall(r, i, [calls[r][i] EXCEPT !.state = "running"])
          /\ UNCHANGED phase
    /\ UNCHANGED <<request, scope, loop, billed, open, said, deltas, plan, facts, stream>>

\* The tool that is no sub-agent returns or, by an exception or a timeout, does not;
\* create_subagent saves the spec of a new sub-agent.
EndCall(r, i) ==
    /\ CallIn(r, i, "running")
    /\ calls[r][i].sub = Root
    /\ \/ /\ calls[r][i].tool # "call_subagent"
          /\ SetCall(r, i, [calls[r][i] EXCEPT !.state = "ok"])
          /\ IF calls[r][i].tool = "create_subagent"
             THEN \E s \in SubAgents : From(s, "unborn") /\ To(s, "saved")
             ELSE UNCHANGED phase
       \/ /\ May("tool") \/ calls[r][i].tool = "call_subagent"
          /\ SetCall(r, i, [calls[r][i] EXCEPT !.state = "error"])
          /\ UNCHANGED phase
    /\ UNCHANGED <<request, scope, loop, billed, open, said, deltas, plan, facts, stream>>

\* Mutant: the exception of a sub-agent is not turned into an error result.
ReturnCallOk(r, i) ==
    /\ CallIn(r, i, "running")
    /\ \E s \in SubAgents :
          /\ s = calls[r][i].sub
          /\ phase[s] \in {"closed", "blank"}
          /\ SetCall(r, i, [calls[r][i] EXCEPT !.state = "ok"])
    /\ UNCHANGED <<request, phase, scope, loop, billed, open, said, deltas, plan, facts, stream>>

\* The sub-agent of a call_subagent is over: its text is the result, and an exception
\* that left its turn is an error result.
ReturnCall(r, i) ==
    /\ CallIn(r, i, "running")
    /\ \E s \in SubAgents :
          /\ s = calls[r][i].sub
          /\ Over(s)
          /\ SetCall(r, i, [calls[r][i] EXCEPT !.state =
                IF phase[s] \in {"raised", "crashed"} THEN "error" ELSE "ok"])
    /\ UNCHANGED <<request, phase, scope, loop, billed, open, said, deltas, plan, facts, stream>>

\* Mutant: only the results of the calls that succeeded are kept.
ResultsOk(r) ==
    LET Good == SelectSeq([i \in DOMAIN calls[r] |-> i], LAMBDA i : calls[r][i].state = "ok")
    IN  [k \in DOMAIN Good |-> ToolResult(r, Good[k])]

\* ToolBatchResult.results: one for each call, in the order of the calls.
Results(r) == [i \in DOMAIN calls[r] |-> ToolResult(r, i)]

\* Every call has its result: the outputs are sent, the step ends, and its messages go
\* to the record and into the prompt of the next iteration.
CollectResults(r) ==
    /\ From(r, "tools")
    /\ \A i \in DOMAIN calls[r] : calls[r][i].state \in {"ok", "error"}
    /\ LET made == <<Assistant(r, calls[r])>> \o Results(r) IN
          /\ record' = Add(record, r, made)
          /\ prompt' = Add(prompt, r, made)
    /\ Send(r, [k \in DOMAIN Results(r) |-> Frame("tool-output-available", Results(r)[k].answers)]
               \o <<Frame("finish-step", <<iteration[r]>>)>>)
    /\ Count(r, 1)
    /\ iteration' = [iteration EXCEPT ![r] = @ + 1]
    /\ calls' = [calls EXCEPT ![r] = <<>>]
    /\ To(r, "loop")
    /\ UNCHANGED <<request, scope, billed, open, said, deltas, plan, facts>>

\* _emit_exhausted_warning: a text of its own that is streamed but not recorded.
Exhaust(r) ==
    /\ From(r, "loop")
    /\ iteration[r] = MaxIterations
    /\ Send(r, [k \in 1..5 |->
                  Frame(<<"start-step", "text-start", "text-delta", "text-end", "finish-step">>[k],
                        <<iteration[r]>>)])
    /\ said' = [said EXCEPT ![r] = {"text"}]
    /\ To(r, "finish")
    /\ UNCHANGED <<request, scope, loop, billed, open, deltas, calls, plan, facts>>

-----------------------------------------------------------------------------
(* Plan and execute.                                                       *)

Statuses(n) == [k \in 1..n |-> "pending"]
NextStep == Cardinality({k \in DOMAIN plan : plan[k] = "completed"}) + 1
PlanFrame(k) == Frame("data-plan-step", <<k, plan'[k]>>)

\* _plan: both sub-agent tools must be in the scope; the planner's answer becomes a plan
\* of at least one step.  Its failure is a ServiceException, unless its JSON holds what
\* the parser does not expect.
MakePlan ==
    /\ From(Root, "plan")
    /\ \/ /\ SubAgentTools \subseteq scope[Root]
          /\ \E n \in request.sizes, reported \in UsageReports :
                /\ plan' = Statuses(n)
                /\ Count(Root, IF reported THEN 1 ELSE 0)
          /\ Send(Root, <<Frame("data-plan", <<>>)>>)
          /\ To(Root, "steps")
       \/ /\ \/ ~(SubAgentTools \subseteq scope[Root]) /\ To(Root, "failed")
             \/ /\ SubAgentTools \subseteq scope[Root]
                /\ May("planner")
                /\ \E p \in {"failed", "crashed"} : To(Root, p)
          /\ UNCHANGED <<plan, usage, stream>>
    /\ UNCHANGED <<request, scope, iteration, prompt, record, billed, step, facts>>

StartPlanStep ==
    /\ From(Root, "steps")
    /\ NextStep \in DOMAIN plan
    /\ plan' = [plan EXCEPT ![NextStep] = "in_progress"]
    /\ Send(Root, <<PlanFrame(NextStep)>>)
    /\ To(Root, "create")
    /\ UNCHANGED <<request, scope, loop, billed, step, facts>>

\* create_subagent, called by the strategy itself: nothing turns its exceptions into results.
CreateWorker ==
    /\ From(Root, "create")
    /\ \/ \E s \in SubAgents :
             /\ From(s, "unborn")
             /\ phase' = [phase EXCEPT ![s] = "saved", ![Root] = "call"]
             /\ calls' = [calls EXCEPT ![Root] =
                   <<[NewCall("call_subagent") EXCEPT !.state = "running", !.sub = s]>>]
       \/ May("spec") /\ To(Root, "crashed") /\ UNCHANGED calls
    /\ UNCHANGED <<request, scope, loop, billed, open, said, deltas, plan, facts, stream>>

Worker == calls[Root][1].sub

\* Mutant: the results are not handed on.
CallWorkerAlone ==
    /\ From(Root, "call")
    /\ phase' = [phase EXCEPT ![Worker] = "prepare", ![Root] = "await"]
    /\ UNCHANGED <<request, scope, loop, billed, step, plan, facts, stream>>

\* call_subagent, with the results of the steps before.
CallWorker ==
    /\ From(Root, "call")
    /\ phase' = [phase EXCEPT ![Worker] = "prepare", ![Root] = "await"]
    /\ facts' = [facts EXCEPT ![Worker] = [k \in 1..(NextStep - 1) |-> k]]
    /\ UNCHANGED <<request, scope, loop, billed, step, plan, stream>>

\* The sub-agent returns, with its text or without one, and the step is completed; an
\* exception of its turn ends the plan.
EndPlanStep ==
    /\ From(Root, "await")
    /\ Over(Worker)
    /\ IF phase[Worker] \in {"raised", "crashed"}
       THEN /\ To(Root, IF From(Worker, "raised") THEN "failed" ELSE "crashed")
            /\ UNCHANGED <<plan, stream>>
       ELSE /\ plan' = [plan EXCEPT ![NextStep] = "completed"]
            /\ Send(Root, <<PlanFrame(NextStep)>>)
            /\ To(Root, "steps")
    /\ UNCHANGED <<request, scope, loop, billed, step, facts>>

\* _synthesize: one more model stream, whose usage counts when it is reported.
StartSynthesis ==
    /\ From(Root, "steps")
    /\ NextStep \notin DOMAIN plan
    /\ StartStream(Root, "synth")

EndSynthesis ==
    /\ From(Root, "synth")
    /\ Send(Root, EndFrames(Root) \o <<Frame("finish-step", <<iteration[Root]>>)>>)
    /\ record' = Add(record, Root, <<Assistant(Root, <<>>)>>)
    /\ \E reported \in UsageReports : Count(Root, IF reported THEN 1 ELSE 0)
    /\ To(Root, "finish")
    /\ UNCHANGED <<request, scope, iteration, prompt, billed, step, plan, facts>>

-----------------------------------------------------------------------------
(* The end of a turn.                                                      *)

\* finalize: the session's turn registers its background tasks and the response ends (the
\* client does not leave between its last two frames); a sub-agent is billed at once, which
\* may raise, and then returns its final text.
Finish(r) ==
    /\ From(r, "finish")
    /\ \/ /\ billed' = [billed EXCEPT ![r] = usage[r]]
          /\ To(r, IF r = Root \/ "text" \in said[r] THEN "closed" ELSE "blank")
          /\ Send(r, <<Frame("finish", <<>>), Frame("done", <<>>)>>)
       \/ /\ r # Root
          /\ May("billing")
          /\ To(r, "raised")
          /\ UNCHANGED <<billed, stream>>
    /\ UNCHANGED <<request, scope, loop, step, plan, facts>>

\* Mutant: an error of the strategy is reported and then finalized all the same.
ReportErrorAndBill(r) ==
    /\ From(r, "failed")
    /\ Send(r, <<Frame("error", <<>>), Frame("finish", <<>>), Frame("done", <<>>)>>)
    /\ billed' = [billed EXCEPT ![r] = usage[r]]
    /\ To(r, IF r = Root THEN "closed" ELSE "blank")
    /\ UNCHANGED <<request, scope, loop, step, plan, facts>>

\* A ServiceException of the strategy: an error event, and the turn returns before
\* finalize; the spawner of a sub-agent ignores the event and has no text.
ReportError(r) ==
    /\ From(r, "failed")
    /\ Send(r, <<Frame("error", <<>>), Frame("finish", <<>>), Frame("done", <<>>)>>)
    /\ To(r, IF r = Root THEN "closed" ELSE "blank")
    /\ UNCHANGED <<request, scope, loop, billed, step, plan, facts>>

\* Any other exception of the session's turn is met by the generator of the response.
Break ==
    /\ phase[Root] \in {"raised", "crashed"}
    /\ Send(Root, <<Frame("error", <<>>), Frame("done", <<>>)>>)
    /\ To(Root, "closed")
    /\ UNCHANGED <<request, scope, loop, billed, step, plan, facts>>

\* The client leaves: the generator is cancelled, and with it all that it awaits.
Leave ==
    /\ May("leave")
    /\ ~Over(Root)
    /\ Send(Root, <<Frame("abort", <<>>), Frame("done", <<>>)>>)
    /\ phase' = [r \in Runs |-> IF Over(r) \/ phase[r] \in {"unborn", "saved"}
                                THEN phase[r] ELSE "cancelled"]
    /\ UNCHANGED <<request, scope, loop, billed, step, plan, facts>>

-----------------------------------------------------------------------------
CallStep(r) == \E i \in DOMAIN calls[r] :
                  DenyCall(r, i) \/ BeginCall(r, i) \/ EndCall(r, i) \/ ReturnCall(r, i)
PlanStep == \/ MakePlan \/ StartPlanStep \/ CreateWorker \/ CallWorker \/ EndPlanStep
            \/ StartSynthesis \/ EndSynthesis
Step(r) == \/ Prepare(r) \/ StartStep(r) \/ Delta(r) \/ StreamFails(r)
           \/ EndAnswer(r) \/ EndWithCalls(r) \/ CallStep(r) \/ CollectResults(r)
           \/ Exhaust(r) \/ Finish(r) \/ ReportError(r)

Next == (\E r \in Runs : Step(r)) \/ PlanStep \/ Break \/ Leave

Spec == Init /\ [][Next]_vars

\* The event loop runs every task that can go on, and every model stream ends.
FairSpec == Spec /\ (\A r \in Runs : WF_vars(Step(r))) /\ WF_vars(PlanStep \/ Break)
-----------------------------------------------------------------------------
(* What is left to read of a turn (convert_to_ui_messages).                *)

\* The parts of the answer's message: of each recorded step its reasoning, its tools
\* and its text.
Shown(n, part) == [step |-> n, part |-> part]
StepParts(n, m) ==
    LET Part(b) == IF b \in m.blocks THEN <<Shown(n, <<b>>)>> ELSE <<>>
    IN  Part("reasoning") \o [i \in DOMAIN m.calls |-> Shown(n, m.calls[i])] \o Part("text")
Answers(messages) ==
    FlattenSeq([i \in DOMAIN messages |->
        IF messages[i].role = "assistant" THEN <<messages[i]>> ELSE <<>>])
Replay(messages) ==
    FlattenSeq([j \in DOMAIN Answers(messages) |-> StepParts(j - 1, Answers(messages)[j])])

-----------------------------------------------------------------------------
(* The session's turn as a ChatStream: what the frames and the record say. *)

Sent(frames, type) == \E i \in DOMAIN frames : frames[i].type = type
Places(frames, type) == {i \in DOMAIN frames : frames[i].type = type}
Number(frames, type) == Cardinality(Places(frames, type))
About(frames, type) == {frames[i].of : i \in Places(frames, type)}

\* The parts whose content was sent, but for the warning that the iterations ran out.
Content(frame) == CASE frame.type = "reasoning-delta" -> Shown(frame.of[1], <<"reasoning">>)
                    [] frame.type = "text-delta" -> Shown(frame.of[1], <<"text">>)
                    [] OTHER -> Shown(frame.of[1], frame.of)
Contents(frames) ==
    FlattenSeq([i \in DOMAIN frames |->
        IF /\ frames[i].type \in {"reasoning-delta", "text-delta", "tool-input-available"}
           /\ frames[i].of[1] < MaxIterations
        THEN <<Content(frames[i])>> ELSE <<>>])

\* The statuses of the plan steps.
Progress(frames) ==
    FlattenSeq([i \in DOMAIN frames |->
        IF frames[i].type = "data-plan-step" THEN <<frames[i].of>> ELSE <<>>])

Status(frames) ==
    CASE Sent(frames, "done") /\ Sent(frames, "error") -> "error"
      [] Sent(frames, "done") /\ Sent(frames, "abort") -> "abort"
      [] Sent(frames, "done") /\ ~Sent(frames, "error") /\ ~Sent(frames, "abort") -> "finish"
      [] ~Sent(frames, "done") /\ Number(frames, "start-step") = Number(frames, "finish-step")
             -> "between"
      [] OTHER -> "step"

Client == INSTANCE ChatStream WITH
    MaxSteps <- MaxIterations,
    status   <- Status(stream),
    steps    <- Number(stream, "start-step"),
    blocks   <- {b \in Block : Number(stream, StartOf[b]) # Number(stream, EndOf[b])},
    waiting  <- About(stream, "tool-input-start") \ About(stream, "tool-output-available"),
    shown    <- Contents(stream),
    progress <- Progress(stream),
    history  <- IF billed[Root] = -1 THEN {} ELSE {ToSet(Replay(record[Root]))}

\* The turn serves its client as ChatStream says: whatever order reasoning, text and calls
\* come in, blocks nest in steps, each call is answered before its step ends, the steps of
\* a plan come one by one, no more steps are made than allowed, and a turn goes to the
\* billing and the background tasks if and only if its stream ended without an error or an
\* abort, recording the parts it showed.
ServesChat == Client!Spec

-----------------------------------------------------------------------------
(* Further properties.                                                     *)

\* In what a model is prompted with, the tool calls of an assistant message are followed
\* by exactly one result each, in the order of the calls, although the calls run
\* concurrently and are denied, fail or time out one by one.  A provider rejects anything else.
EveryCallAnswered ==
    \A r \in Runs :
        /\ \A i \in DOMAIN prompt[r] : \A k \in DOMAIN prompt[r][i].calls :
              /\ i + k <= Len(prompt[r])
              /\ prompt[r][i + k].answers = prompt[r][i].calls[k]
        /\ \A i, j \in DOMAIN prompt[r] :
              prompt[r][i].role = "tool" /\ prompt[r][i].answers = prompt[r][j].answers => i = j

\* The model streams of a turn: one for each assistant message it recorded, and the planner's.
Answered(messages) == Cardinality({i \in DOMAIN messages : messages[i].role = "assistant"})
Streams(r) == Answered(record[r]) + (IF r = Root /\ plan # <<>> THEN 1 ELSE 0)

\* The usage a turn is billed is that of all its model streams, the planner's and the
\* synthesizer's included and those of its sub-agents not: each of them is billed its own.
BilledForEveryStream ==
    \A r \in Runs : billed[r] # -1 => billed[r] = Streams(r)

\* Whatever tools a model asks for, a sub-agent runs none that makes or calls another
\* sub-agent, so sub-agents cannot multiply.
SubAgentsDoNotSpawn ==
    \A s \in SubAgents : \A i \in DOMAIN calls[s] :
        calls[s][i].tool \in SubAgentTools => calls[s][i].state \in {"pending", "error"}

Working == {s \in SubAgents : ~Over(s) /\ phase[s] \notin {"unborn", "saved"}}

\* The sub-agents of a plan work one after the other, whatever ends the one before, and
\* each was given the results of exactly the steps completed before.
WorkersTakeTurns ==
    request.plan =>
        /\ Cardinality(Working) <= 1
        /\ \A s \in Working : facts[s] = [k \in 1..(NextStep - 1) |-> k]

\* Every stream comes to its end, although model, tools, sub-agents and billing fail.
StreamEnds == <>(stream[Len(stream)].type = "done")
=============================================================================

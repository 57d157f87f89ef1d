-------------------------- MODULE AgentTurn_proofs --------------------------
(***************************************************************************)
(* Proofs about AgentTurn, for any set of sub-agents, any request and      *)
(* policy, any lists of calls a model may make and any set of faults.      *)
(***************************************************************************)
EXTENDS AgentTurn, Lists_proofs, FiniteSetTheorems, SequenceTheorems, TLAPS

-----------------------------------------------------------------------------
(* The scope of a sub-agent.                                               *)

\* Whatever the policy of the agent, the one its sub-agents get leaves no sub-agent tool
\* in their scope, as no list of the request is passed on to them.
LEMMA NarrowedScope ==
    ASSUME NEW policy \in ToolPolicy
    PROVE  Scope(Narrow(policy), {}, {}, FALSE, FALSE) \cap SubAgentTools = {}
<1> DEFINE denied == policy.deny \cup SubAgentTools
           narrow == [policy EXCEPT !.useSkill = FALSE, !.deny = @ \cup SubAgentTools]
<1>1. narrow.useTool = policy.useTool /\ narrow.deny = denied /\ narrow.allow = policy.allow
  BY DEF ToolPolicy
<1>2. Exposed(FALSE, FALSE) = {}
  BY DEF Exposed
<1>3. CASE policy.useTool
  <2>1. Narrow(policy) = narrow
    BY <1>1, <1>3 DEF Narrow, Normalize
  <2>2. Narrow(policy).deny = denied
    BY <1>1, <2>1
  <2>3. FirstGiven({}, Narrow(policy).deny) = denied
    BY <2>2 DEF FirstGiven
  <2> QED
    BY <1>2, <2>3 DEF Scope, Derive, SubAgentTools, ByDefault
<1>4. CASE ~policy.useTool
  <2>1. Narrow(policy) = [useTool |-> FALSE, useSkill |-> FALSE, allow |-> {}, deny |-> {}]
    BY <1>1, <1>4 DEF Narrow, Normalize
  <2>2. Narrow(policy).useTool = FALSE /\ Narrow(policy).allow = {}
    BY <2>1
  <2> QED
    BY <1>2, <2>2 DEF Scope, Derive, SubAgentTools, ByDefault
<1> QED
  BY <1>3, <1>4

-----------------------------------------------------------------------------
(* The tool calls of a step.                                               *)

CallsOK == calls \in [Runs -> Seq(Call)]

\* Sub-agents have no sub-agent tool in their scope, and none of their calls of one gets
\* further than its denial.
SpawnInv ==
    /\ request \in Requests
    /\ scope \in [Runs -> SUBSET Tool]
    /\ CallsOK
    /\ \A s \in SubAgents : scope[s] \cap SubAgentTools = {}
    /\ SubAgentsDoNotSpawn

\* Replacing one call of a step leaves the calls of every other turn and place as they are.
LEMMA ReplacedCall ==
    ASSUME CallsOK, NEW r \in Runs, NEW i \in DOMAIN calls[r], NEW call \in Call,
           SetCall(r, i, call)
    PROVE  /\ CallsOK'
           /\ \A q \in Runs : DOMAIN calls'[q] = DOMAIN calls[q]
           /\ \A q \in Runs : \A k \in DOMAIN calls[q] :
                 calls'[q][k] = IF q = r /\ k = i THEN call ELSE calls[q][k]
<1>1. calls[r] \in Seq(Call) /\ i \in 1..Len(calls[r])
  BY DEF CallsOK
<1>2. calls' = [calls EXCEPT ![r] = [calls[r] EXCEPT ![i] = call]]
  BY DEF SetCall
<1>3. [calls[r] EXCEPT ![i] = call] \in Seq(Call)
  BY <1>1
<1>4. calls'[r] = [calls[r] EXCEPT ![i] = call]
  BY <1>2 DEF CallsOK
<1>5. \A q \in Runs : q # r => calls'[q] = calls[q]
  BY <1>2 DEF CallsOK
<1> QED
  BY <1>1, <1>2, <1>3, <1>4, <1>5 DEF CallsOK

\* A step that changes one call keeps the invariant, unless the call is a sub-agent's of a
\* sub-agent tool and gets past its denial.
LEMMA OneCall ==
    ASSUME SpawnInv, UNCHANGED <<request, scope>>,
           NEW r \in Runs, NEW i \in DOMAIN calls[r], NEW call \in Call,
           SetCall(r, i, call),
           r \in SubAgents /\ call.tool \in SubAgentTools => call.state = "error"
    PROVE  SpawnInv'
<1>1. /\ CallsOK'
      /\ \A q \in Runs : DOMAIN calls'[q] = DOMAIN calls[q]
      /\ \A q \in Runs : \A k \in DOMAIN calls[q] :
            calls'[q][k] = IF q = r /\ k = i THEN call ELSE calls[q][k]
  BY ReplacedCall DEF SpawnInv
<1>2. SubAgentsDoNotSpawn'
  <2> SUFFICES ASSUME NEW s \in SubAgents, NEW k \in DOMAIN calls'[s],
                      calls'[s][k].tool \in SubAgentTools
               PROVE  calls'[s][k].state \in {"pending", "error"}
    BY DEF SubAgentsDoNotSpawn
  <2>1. s \in Runs /\ k \in DOMAIN calls[s]
    BY <1>1 DEF Runs
  <2>2. CASE s = r /\ k = i
    BY <1>1, <2>1, <2>2
  <2>3. CASE ~(s = r /\ k = i)
    BY <1>1, <2>1, <2>3 DEF SpawnInv, SubAgentsDoNotSpawn
  <2> QED
    BY <2>2, <2>3
<1> QED
  BY <1>1, <1>2 DEF SpawnInv

-----------------------------------------------------------------------------
(* Every step keeps the invariant.                                         *)

LEMMA SpawnInit == Init => SpawnInv
<1> SUFFICES ASSUME Init PROVE SpawnInv
  OBVIOUS
<1>1. <<>> \in Seq(Call)
  OBVIOUS
<1> QED
  BY <1>1 DEF Init, SpawnInv, CallsOK, SubAgentsDoNotSpawn, Runs

\* Steps that touch neither the scopes nor the calls.
LEMMA SpawnUnchanged ==
    ASSUME SpawnInv, UNCHANGED <<request, scope, calls>>
    PROVE  SpawnInv'
  BY DEF SpawnInv, CallsOK, SubAgentsDoNotSpawn

\* The scope of a sub-agent is derived from the narrowed policy.
LEMMA SpawnPrepare ==
    ASSUME SpawnInv, ConstantsAssumption, NEW r \in Runs, Prepare(r)
    PROVE  SpawnInv'
<1>1. request \in Request /\ request.policy \in ToolPolicy
  BY DEF SpawnInv, ConstantsAssumption, Request
<1>2. UNCHANGED <<request, calls>>
  BY DEF Prepare, step
<1>3. CASE UNCHANGED scope
  BY <1>2, <1>3, SpawnUnchanged
<1>4. ASSUME scope' = [scope EXCEPT ![r] =
                IF r = Root
                THEN Scope(Policy(r), request.allow, request.deny, request.matched, FALSE)
                ELSE Scope(Policy(r), {}, {}, FALSE, FALSE)]
      PROVE  SpawnInv'
  <2>1. \A p, a, d, m, h : Scope(p, a, d, m, h) \subseteq Tool
    BY DEF Scope, Derive, Tool, ByDefault, SubAgentTools
  <2>2. scope' \in [Runs -> SUBSET Tool]
    BY <1>4, <2>1 DEF SpawnInv
  <2>3. \A s \in SubAgents : scope'[s] \cap SubAgentTools = {}
    <3> TAKE s \in SubAgents
    <3>1. CASE s # r
      BY <1>4, <3>1 DEF SpawnInv, Runs
    <3>2. CASE s = r
      <4>1. s # Root /\ s \in Runs
        BY DEF ConstantsAssumption, Runs
      <4>2. scope'[s] = Scope(Narrow(request.policy), {}, {}, FALSE, FALSE)
        BY <1>4, <3>2, <4>1 DEF SpawnInv, Policy
      <4> QED
        BY <1>1, <4>2, NarrowedScope
    <3> QED
      BY <3>1, <3>2
  <2> QED
    BY <1>2, <2>2, <2>3 DEF SpawnInv, CallsOK, SubAgentsDoNotSpawn
<1> QED
  BY <1>3, <1>4 DEF Prepare

\* New calls are pending.
LEMMA SpawnEndWithCalls ==
    ASSUME SpawnInv, ConstantsAssumption, NEW r \in Runs, EndWithCalls(r)
    PROVE  SpawnInv'
<1>1. PICK list \in request.lists \ {<<>>} :
          calls' = [calls EXCEPT ![r] = [i \in DOMAIN list |-> NewCall(list[i])]]
  BY DEF EndWithCalls
<1>2. UNCHANGED <<request, scope>>
  BY DEF EndWithCalls
<1>3. list \in Seq(Tool) /\ DOMAIN list = 1..Len(list) /\ Len(list) \in Nat
  BY DEF SpawnInv, ConstantsAssumption, Request
<1> DEFINE new == [i \in DOMAIN list |-> NewCall(list[i])]
<1>4. \A i \in DOMAIN list : NewCall(list[i]) \in Call /\ NewCall(list[i]).state = "pending"
  BY <1>3 DEF NewCall, Call, CallState
<1>5. new \in Seq(Call)
  BY <1>3, <1>4
<1>6. calls' \in [Runs -> Seq(Call)] /\ \A q \in Runs : calls'[q] = IF q = r THEN new ELSE calls[q]
  BY <1>1, <1>5 DEF SpawnInv, CallsOK
<1>7. SubAgentsDoNotSpawn'
  <2> SUFFICES ASSUME NEW s \in SubAgents, NEW k \in DOMAIN calls'[s],
                      calls'[s][k].tool \in SubAgentTools
               PROVE  calls'[s][k].state \in {"pending", "error"}
    BY DEF SubAgentsDoNotSpawn
  <2>1. s \in Runs
    BY DEF Runs
  <2>2. CASE s = r
    BY <1>4, <1>6, <2>1, <2>2
  <2>3. CASE s # r
    BY <1>6, <2>1, <2>3 DEF SpawnInv, SubAgentsDoNotSpawn
  <2> QED
    BY <2>2, <2>3
<1> QED
  BY <1>2, <1>6, <1>7 DEF SpawnInv, CallsOK

\* A call that starts is of a tool in the scope; one that ends was running.
LEMMA SpawnCallStep ==
    ASSUME SpawnInv, ConstantsAssumption, NEW r \in Runs, CallStep(r)
    PROVE  SpawnInv'
<1>1. PICK i \in DOMAIN calls[r] : DenyCall(r, i) \/ BeginCall(r, i) \/ EndCall(r, i) \/ ReturnCall(r, i)
  BY DEF CallStep
<1>2. CallsOK /\ Root \in SubAgents \cup {Root} /\ {"pending", "running", "ok", "error"} \subseteq CallState
  BY DEF SpawnInv, CallState
<1>3. UNCHANGED <<request, scope>>
  BY <1>1 DEF DenyCall, BeginCall, EndCall, ReturnCall
<1> DEFINE In(state) == [calls[r][i] EXCEPT !.state = state]
<1>4. /\ \A state \in CallState : /\ In(state) \in Call
                                  /\ In(state).state = state
                                  /\ In(state).tool = calls[r][i].tool
      /\ \A s \in SubAgents : LET call == [calls[r][i] EXCEPT !.state = "running", !.sub = s] IN
                              call \in Call /\ call.tool = calls[r][i].tool
  <2>1. calls[r][i] \in Call
    BY <1>2 DEF CallsOK
  <2> QED
    BY <1>2, <2>1 DEF Call
<1>5. r \in SubAgents /\ calls[r][i].tool \in SubAgentTools => calls[r][i].state \in {"pending", "error"}
  BY DEF SpawnInv, SubAgentsDoNotSpawn
<1>6. CASE DenyCall(r, i)
  <2>1. SetCall(r, i, In("error"))
    BY <1>6 DEF DenyCall
  <2> QED
    BY <1>2, <1>3, <1>4, <2>1, OneCall
<1>7. CASE BeginCall(r, i)
  <2>1. ~(r \in SubAgents /\ calls[r][i].tool \in SubAgentTools)
    BY <1>7 DEF BeginCall, SpawnInv
  <2>2. \/ SetCall(r, i, In("running"))
        \/ \E s \in SubAgents : SetCall(r, i, [calls[r][i] EXCEPT !.state = "running", !.sub = s])
    BY <1>7 DEF BeginCall
  <2> QED
    BY <1>2, <1>3, <1>4, <2>1, <2>2, OneCall
<1>8. CASE EndCall(r, i) \/ ReturnCall(r, i)
  <2>1. calls[r][i].state = "running"
    BY <1>8 DEF EndCall, ReturnCall, CallIn
  <2>2. ~(r \in SubAgents /\ calls[r][i].tool \in SubAgentTools)
    BY <1>5, <2>1
  <2>3. SetCall(r, i, In("ok")) \/ SetCall(r, i, In("error"))
    BY <1>8 DEF EndCall, ReturnCall
  <2> QED
    BY <1>2, <1>3, <1>4, <2>2, <2>3, OneCall
<1> QED
  BY <1>1, <1>6, <1>7, <1>8

\* The calls of a step that ended are dropped.
LEMMA SpawnCollect ==
    ASSUME SpawnInv, NEW r \in Runs, CollectResults(r)
    PROVE  SpawnInv'
<1>1. calls' = [calls EXCEPT ![r] = <<>>] /\ UNCHANGED <<request, scope>>
  BY DEF CollectResults
<1>2. <<>> \in Seq(Call) /\ DOMAIN <<>> = {}
  OBVIOUS
<1>3. CallsOK' /\ \A q \in Runs : calls'[q] = IF q = r THEN <<>> ELSE calls[q]
  BY <1>1, <1>2 DEF SpawnInv, CallsOK
<1>4. SubAgentsDoNotSpawn'
  BY <1>2, <1>3 DEF SpawnInv, SubAgentsDoNotSpawn, Runs
<1> QED
  BY <1>1, <1>3, <1>4 DEF SpawnInv

\* The strategy's own call belongs to the session's turn.
LEMMA SpawnWorker ==
    ASSUME SpawnInv, ConstantsAssumption, CreateWorker
    PROVE  SpawnInv'
<1>1. UNCHANGED <<request, scope>>
  BY DEF CreateWorker
<1>2. CASE UNCHANGED calls
  BY <1>1, <1>2, SpawnUnchanged
<1>3. ASSUME NEW s \in SubAgents,
             calls' = [calls EXCEPT ![Root] =
                 <<[NewCall("call_subagent") EXCEPT !.state = "running", !.sub = s]>>]
      PROVE  SpawnInv'
  <2> DEFINE call == [NewCall("call_subagent") EXCEPT !.state = "running", !.sub = s]
  <2>1. call \in Call
    BY DEF NewCall, Call, CallState, Tool, SubAgentTools
  <2> HIDE DEF call
  <2>2. <<call>> \in Seq(Call)
    BY <2>1
  <2>3. CallsOK' /\ \A q \in Runs : q # Root => calls'[q] = calls[q]
    BY <1>3, <2>2 DEF SpawnInv, CallsOK, call
  <2>4. SubAgentsDoNotSpawn'
    BY <2>3 DEF SpawnInv, SubAgentsDoNotSpawn, Runs, ConstantsAssumption
  <2> QED
    BY <1>1, <2>3, <2>4 DEF SpawnInv
<1> QED
  BY <1>2, <1>3 DEF CreateWorker

\* Every step of the turns, and a stutter, keeps the invariant.
LEMMA SpawnNext == ConstantsAssumption /\ SpawnInv /\ [Next]_vars => SpawnInv'
<1> SUFFICES ASSUME ConstantsAssumption, SpawnInv, [Next]_vars PROVE SpawnInv'
  OBVIOUS
<1>1. CASE \E r \in Runs : Step(r)
  <2>1. PICK r \in Runs : Step(r)
    BY <1>1
  <2>2. CASE Prepare(r)
    BY <2>2, SpawnPrepare
  <2>3. CASE EndWithCalls(r)
    BY <2>3, SpawnEndWithCalls
  <2>4. CASE CallStep(r)
    BY <2>4, SpawnCallStep
  <2>5. CASE CollectResults(r)
    BY <2>5, SpawnCollect
  <2>6. CASE StartStep(r) \/ Delta(r) \/ StreamFails(r) \/ EndAnswer(r)
    <3>1. UNCHANGED <<request, scope, calls>>
      BY <2>6 DEF StartStep, StartStream, Delta, StreamFails, EndAnswer, step
    <3> QED
      BY <3>1, SpawnUnchanged
  <2>7. CASE Exhaust(r) \/ Finish(r) \/ ReportError(r)
    <3>1. UNCHANGED <<request, scope, calls>>
      BY <2>7 DEF Exhaust, Finish, ReportError, step
    <3> QED
      BY <3>1, SpawnUnchanged
  <2> QED
    BY <2>1, <2>2, <2>3, <2>4, <2>5, <2>6, <2>7 DEF Step
<1>2. CASE PlanStep
  <2>1. CASE CreateWorker
    BY <2>1, SpawnWorker
  <2>2. CASE MakePlan \/ StartPlanStep \/ CallWorker \/ EndPlanStep \/ StartSynthesis \/ EndSynthesis
    <3>1. UNCHANGED <<request, scope, calls>>
      BY <2>2 DEF MakePlan, StartPlanStep, CallWorker, EndPlanStep, StartSynthesis, StartStream,
                  EndSynthesis, step
    <3> QED
      BY <3>1, SpawnUnchanged
  <2> QED
    BY <1>2, <2>1, <2>2 DEF PlanStep
<1>3. CASE Break \/ Leave \/ UNCHANGED vars
  <2>1. UNCHANGED <<request, scope, calls>>
    BY <1>3 DEF Break, Leave, vars, step
  <2> QED
    BY <2>1, SpawnUnchanged
<1> QED
  BY <1>1, <1>2, <1>3 DEF Next

\* In every run, whatever tools the models ask for and however many sub-agents work at
\* the same time, no sub-agent makes or calls another one.
THEOREM NoNestedSpawn == Spec => []SubAgentsDoNotSpawn
<1>1. Init => SpawnInv
  BY SpawnInit
<1>2. SpawnInv /\ [Next]_vars => SpawnInv'
  BY SpawnNext, ConstantsAssumption
<1>3. SpawnInv => SubAgentsDoNotSpawn
  BY DEF SpawnInv
<1> QED
  BY <1>1, <1>2, <1>3, PTL DEF Spec

-----------------------------------------------------------------------------
(* Types of what the invariants below speak of; what is sent is left out.   *)

Phase == {"prepare", "unborn", "saved", "plan", "loop", "llm", "synth", "tools", "steps",
          "create", "call", "await", "finish", "failed", "raised", "crashed", "closed",
          "blank", "cancelled"}
PlanStatus == {"pending", "in_progress", "completed"}

\* A message of a prompt or a record: a call is known by its iteration and its place in it.
CallName == Nat \X (Nat \ {0})
ChatMessage == [role : {"user", "assistant", "tool"}, blocks : SUBSET Block,
                calls : Seq(CallName), answers : {<<>>} \cup CallName]

TypeInv ==
    /\ request \in Requests
    /\ phase \in [Runs -> Phase]
    /\ iteration \in [Runs -> Nat]
    /\ prompt \in [Runs -> Seq(ChatMessage)]
    /\ record \in [Runs -> Seq(ChatMessage)]
    /\ usage \in [Runs -> Nat]
    /\ billed \in [Runs -> Nat \cup {-1}]
    /\ said \in [Runs -> SUBSET Block]
    /\ calls \in [Runs -> Seq(Call)]
    /\ plan \in Seq(PlanStatus)
    /\ facts \in [SubAgents -> Seq(Nat)]

\* The messages that are made of a step.
LEMMA MadeMessages ==
    ASSUME TypeInv, NEW r \in Runs
    PROVE  /\ UserMessage \in ChatMessage
           /\ Assistant(r, <<>>) \in ChatMessage
           /\ Assistant(r, calls[r]) \in ChatMessage
           /\ Results(r) \in Seq(ChatMessage)
           /\ <<Assistant(r, calls[r])>> \o Results(r) \in Seq(ChatMessage)
<1>1. calls[r] \in Seq(Call) /\ DOMAIN calls[r] = 1..Len(calls[r]) /\ Len(calls[r]) \in Nat
  BY DEF TypeInv
<1>2. \A i \in DOMAIN calls[r] : CallId(r, i) \in CallName
  BY <1>1 DEF TypeInv, CallId, CallName
<1>3. said[r] \in SUBSET Block /\ <<>> \in Seq(CallName)
  BY DEF TypeInv
<1>4. CallIds(r, calls[r]) \in Seq(CallName)
  BY <1>1, <1>2 DEF CallIds
<1>5. CallIds(r, <<>>) \in Seq(CallName)
  BY DEF CallIds
<1>6. UserMessage \in ChatMessage
  BY <1>3 DEF UserMessage, Message, ChatMessage, Block
<1> HIDE DEF CallName
<1>7. Assistant(r, <<>>) \in ChatMessage /\ Assistant(r, calls[r]) \in ChatMessage
  BY <1>3, <1>4, <1>5 DEF Assistant, Message, ChatMessage
<1>8. \A i \in DOMAIN calls[r] : ToolResult(r, i) \in ChatMessage
  BY <1>2, <1>3 DEF ToolResult, Message, ChatMessage
<1>9. Results(r) \in Seq(ChatMessage)
  BY <1>1, <1>8 DEF Results
<1>10. <<Assistant(r, calls[r])>> \o Results(r) \in Seq(ChatMessage)
  BY <1>7, <1>9
<1> QED
  BY <1>6, <1>7, <1>9, <1>10

\* Messages added to those of a turn.
LEMMA AddTyped ==
    ASSUME NEW messages \in [Runs -> Seq(ChatMessage)], NEW r \in Runs,
           NEW new \in Seq(ChatMessage)
    PROVE  Add(messages, r, new) \in [Runs -> Seq(ChatMessage)]
<1>1. messages[r] \o new \in Seq(ChatMessage)
  OBVIOUS
<1> QED
  BY <1>1 DEF Add

\* Usage that is counted.
LEMMA CountTyped ==
    ASSUME TypeInv, NEW r \in Runs, NEW n \in Nat, Count(r, n)
    PROVE  usage' \in [Runs -> Nat]
<1>1. usage[r] + n \in Nat
  BY DEF TypeInv
<1> QED
  BY <1>1 DEF TypeInv, Count

\* A plan one of whose steps gets another status.
LEMMA PlanTyped ==
    ASSUME NEW p \in Seq(PlanStatus), NEW k, NEW status \in PlanStatus
    PROVE  [p EXCEPT ![k] = status] \in Seq(PlanStatus)
<1> DEFINE q == [p EXCEPT ![k] = status]
<1>1. DOMAIN q = 1..Len(p) /\ Len(p) \in Nat
  OBVIOUS
<1>2. \A i \in 1..Len(p) : q[i] \in PlanStatus
  OBVIOUS
<1>3. q = [i \in 1..Len(p) |-> q[i]]
  BY <1>1
<1> HIDE DEF q
<1>4. q \in Seq(PlanStatus)
  BY <1>1, <1>2, <1>3
<1> QED
  BY <1>4 DEF q

LEMMA TypeInit == Init => TypeInv
<1> SUFFICES ASSUME Init PROVE TypeInv
  OBVIOUS
<1>1. <<>> \in Seq(Call) /\ <<>> \in Seq(ChatMessage) /\ <<>> \in Seq(PlanStatus) /\ <<>> \in Seq(Nat)
  OBVIOUS
<1>2. phase \in [Runs -> Phase]
  BY DEF Init, Phase
<1>3. -1 \in Nat \cup {-1} /\ 0 \in Nat
  OBVIOUS
<1> HIDE DEF ChatMessage, Call, PlanStatus, Phase
<1> QED
  BY <1>1, <1>2, <1>3 DEF Init, TypeInv

\* The steps of the loop of a turn.
LEMMA TypeStep ==
    ASSUME TypeInv, SpawnInv', ConstantsAssumption, NEW r \in Runs, Step(r)
    PROVE  TypeInv'
<1> USE DEF TypeInv
<1>1. calls' \in [Runs -> Seq(Call)] /\ Root \in Runs
  BY DEF SpawnInv, CallsOK, Runs
<1>2. CASE Prepare(r)
  <2>1. <<UserMessage>> \in Seq(ChatMessage)
    BY MadeMessages
  <2>2. phase' \in [Runs -> Phase]
    BY <1>2 DEF Prepare, To, Phase
  <2>3. prompt' \in [Runs -> Seq(ChatMessage)] /\ record' \in [Runs -> Seq(ChatMessage)]
    <3>1. \/ UNCHANGED <<prompt, record>>
          \/ /\ prompt' = [prompt EXCEPT ![r] = <<UserMessage>>]
             /\ record' = [record EXCEPT ![r] = <<UserMessage>>]
      BY <1>2 DEF Prepare
    <3>2. \A f \in [Runs -> Seq(ChatMessage)], s \in Seq(ChatMessage) :
             [f EXCEPT ![r] = s] \in [Runs -> Seq(ChatMessage)]
      OBVIOUS
    <3>3. prompt \in [Runs -> Seq(ChatMessage)] /\ record \in [Runs -> Seq(ChatMessage)]
      OBVIOUS
    <3> HIDE DEF UserMessage
    <3> QED
      BY ONLY <2>1, <3>1, <3>2, <3>3
  <2> QED
    BY <1>1, <1>2, <2>2, <2>3 DEF Prepare, step
<1>3. CASE StartStep(r)
  BY <1>1, <1>3 DEF StartStep, StartStream, To, Phase, loop
<1>4. CASE Delta(r)
  BY <1>1, <1>4 DEF Delta, loop
<1>5. CASE StreamFails(r)
  BY <1>1, <1>5 DEF StreamFails, To, Phase, loop, step
<1>6. CASE EndAnswer(r)
  <2>1. <<Assistant(r, <<>>)>> \in Seq(ChatMessage)
    BY MadeMessages
  <2>2. record' \in [Runs -> Seq(ChatMessage)]
    BY <1>6, <2>1, AddTyped DEF EndAnswer
  <2>3. usage' \in [Runs -> Nat]
    BY <1>6, CountTyped, 1 \in Nat DEF EndAnswer
  <2> QED
    BY <1>1, <1>6, <2>2, <2>3 DEF EndAnswer, To, Phase, step
<1>7. CASE EndWithCalls(r)
  BY <1>1, <1>7 DEF EndWithCalls, To, Phase, loop
<1>8. CASE CallStep(r)
  <2>1. PICK i \in DOMAIN calls[r] : DenyCall(r, i) \/ BeginCall(r, i) \/ EndCall(r, i) \/ ReturnCall(r, i)
    BY <1>8 DEF CallStep
  <2>2. UNCHANGED <<request, loop, billed, said, plan, facts>>
    BY <2>1 DEF DenyCall, BeginCall, EndCall, ReturnCall
  <2>3. phase' \in [Runs -> Phase]
    BY <2>1 DEF DenyCall, BeginCall, EndCall, ReturnCall, To, Phase
  <2> QED
    BY <1>1, <2>2, <2>3 DEF loop
<1>9. CASE CollectResults(r)
  <2> DEFINE made == <<Assistant(r, calls[r])>> \o Results(r)
  <2>1. made \in Seq(ChatMessage)
    BY MadeMessages
  <2>2. record' = Add(record, r, made) /\ prompt' = Add(prompt, r, made)
    BY <1>9 DEF CollectResults
  <2> HIDE DEF made
  <2>3. record' \in [Runs -> Seq(ChatMessage)] /\ prompt' \in [Runs -> Seq(ChatMessage)]
    BY <2>1, <2>2, AddTyped
  <2>4. usage' \in [Runs -> Nat]
    BY <1>9, CountTyped, 1 \in Nat DEF CollectResults
  <2>5. iteration' \in [Runs -> Nat] /\ phase' \in [Runs -> Phase]
    BY <1>9 DEF CollectResults, To, Phase
  <2>6. UNCHANGED <<request, billed, said, plan, facts>>
    BY <1>9 DEF CollectResults
  <2> QED
    BY <1>1, <2>3, <2>4, <2>5, <2>6
<1>10. CASE Exhaust(r)
  BY <1>1, <1>10 DEF Exhaust, To, Phase, loop, Block
<1>11. CASE Finish(r)
  BY <1>1, <1>11 DEF Finish, To, Phase, loop, step
<1>12. CASE ReportError(r)
  BY <1>1, <1>12 DEF ReportError, To, Phase, loop, step
<1> QED
  BY <1>2, <1>3, <1>4, <1>5, <1>6, <1>7, <1>8, <1>9, <1>10, <1>11, <1>12 DEF Step

\* The steps of a plan.
LEMMA TypePlan ==
    ASSUME TypeInv, SpawnInv', ConstantsAssumption, PlanStep
    PROVE  TypeInv'
<1> USE DEF TypeInv
<1>1. calls' \in [Runs -> Seq(Call)] /\ Root \in Runs
  BY DEF SpawnInv, CallsOK, Runs
<1>2. CASE MakePlan
  <2>1. plan' \in Seq(PlanStatus)
    <3>1. \A n \in Nat : Statuses(n) \in Seq(PlanStatus)
      BY DEF Statuses, PlanStatus
    <3>2. request.sizes \subseteq Nat
      BY DEF ConstantsAssumption, Request
    <3> QED
      BY <1>2, <3>1, <3>2 DEF MakePlan
  <2>2. phase' \in [Runs -> Phase]
    BY <1>2 DEF MakePlan, To, Phase
  <2>3. usage' \in [Runs -> Nat]
    <3>1. UNCHANGED usage \/ \E n \in {0, 1} : Count(Root, n)
      BY <1>2 DEF MakePlan
    <3> QED
      BY <1>1, <3>1, CountTyped, 0 \in Nat, 1 \in Nat
  <2> QED
    BY <1>1, <1>2, <2>1, <2>2, <2>3 DEF MakePlan, step
<1>3. CASE StartPlanStep
  <2>1. plan' \in Seq(PlanStatus)
    BY <1>3, PlanTyped DEF StartPlanStep, PlanStatus
  <2> QED
    BY <1>1, <1>3, <2>1 DEF StartPlanStep, To, Phase, loop, step
<1>4. CASE CreateWorker
  <2>1. phase' \in [Runs -> Phase]
    BY <1>4 DEF CreateWorker, To, Phase
  <2> QED
    BY <1>1, <1>4, <2>1 DEF CreateWorker, loop
<1>5. CASE CallWorker
  <2>1. phase' \in [Runs -> Phase]
    BY <1>5 DEF CallWorker, Phase
  <2>2. facts' \in [SubAgents -> Seq(Nat)]
    <3>1. {k \in DOMAIN plan : plan[k] = "completed"} \in SUBSET (1..Len(plan)) /\ Len(plan) \in Nat
      OBVIOUS
    <3>2. Cardinality({k \in DOMAIN plan : plan[k] = "completed"}) \in Nat
      BY <3>1, FS_Interval, FS_Subset, FS_CardinalityType, 1 \in Int, Len(plan) \in Int
    <3>3. NextStep - 1 \in Nat
      BY <3>2 DEF NextStep
    <3>4. [k \in 1..(NextStep - 1) |-> k] \in Seq(Nat)
      BY <3>3
    <3> QED
      BY <1>5, <3>4 DEF CallWorker
  <2> QED
    BY <1>1, <1>5, <2>1, <2>2 DEF CallWorker, loop, step
<1>6. CASE EndPlanStep
  <2>1. phase' \in [Runs -> Phase]
    BY <1>6 DEF EndPlanStep, To, Phase
  <2>2. plan' \in Seq(PlanStatus)
    <3>1. plan' = plan \/ plan' = [plan EXCEPT ![NextStep] = "completed"]
      BY <1>6 DEF EndPlanStep
    <3>2. "completed" \in PlanStatus
      BY DEF PlanStatus
    <3>3. plan \in Seq(PlanStatus)
      OBVIOUS
    <3>4. [plan EXCEPT ![NextStep] = "completed"] \in Seq(PlanStatus)
      BY ONLY <3>2, <3>3, PlanTyped
    <3> QED
      BY ONLY <3>1, <3>3, <3>4
  <2> QED
    BY <1>1, <1>6, <2>1, <2>2 DEF EndPlanStep, loop, step
<1>7. CASE StartSynthesis
  BY <1>1, <1>7 DEF StartSynthesis, StartStream, To, Phase, loop
<1>8. CASE EndSynthesis
  <2>1. <<Assistant(Root, <<>>)>> \in Seq(ChatMessage)
    BY <1>1, MadeMessages
  <2>2. record' \in [Runs -> Seq(ChatMessage)]
    BY <1>1, <1>8, <2>1, AddTyped DEF EndSynthesis
  <2>3. usage' \in [Runs -> Nat]
    <3>1. \E n \in {0, 1} : Count(Root, n)
      BY <1>8 DEF EndSynthesis
    <3> QED
      BY <1>1, <3>1, CountTyped, 0 \in Nat, 1 \in Nat
  <2> QED
    BY <1>1, <1>8, <2>2, <2>3 DEF EndSynthesis, To, Phase, step
<1> QED
  BY <1>2, <1>3, <1>4, <1>5, <1>6, <1>7, <1>8 DEF PlanStep

LEMMA TypeNext == TypeInv /\ SpawnInv' /\ [Next]_vars => TypeInv'
<1> SUFFICES ASSUME TypeInv, SpawnInv', [Next]_vars PROVE TypeInv'
  OBVIOUS
<1>1. ASSUME NEW r \in Runs, Step(r) PROVE TypeInv'
  BY <1>1, TypeStep, ConstantsAssumption
<1>2. CASE PlanStep
  BY <1>2, TypePlan, ConstantsAssumption
<1>3. CASE Break
  BY <1>3 DEF Break, TypeInv, To, Phase, loop, step
<1>4. CASE Leave
  BY <1>4 DEF Leave, TypeInv, Phase, loop, step
<1>5. CASE UNCHANGED vars
  BY <1>5 DEF vars, TypeInv, loop, step
<1> QED
  BY <1>1, <1>2, <1>3, <1>4, <1>5 DEF Next

-----------------------------------------------------------------------------
(* Every call is answered.  That no result is given twice rests on the      *)
(* iterations the results were given in, all of them before the current.    *)

Dated ==
    \A r \in Runs : \A i \in DOMAIN prompt[r] :
        LET m == prompt[r][i] IN
        IF m.role = "tool" THEN m.answers # <<>> /\ m.answers[1] < iteration[r]
                           ELSE m.answers = <<>>

AnswerInv == TypeInv /\ Dated /\ EveryCallAnswered

\* The elements of one list followed by another.
LEMMA ConcatIndexed ==
    ASSUME NEW M, NEW a \in Seq(M), NEW b \in Seq(M)
    PROVE  /\ a \o b \in Seq(M) /\ Len(a \o b) = Len(a) + Len(b)
           /\ \A i \in 1..Len(a) : (a \o b)[i] = a[i]
           /\ \A k \in 1..Len(b) : (a \o b)[Len(a) + k] = b[k]
<1>1. Len(a) \in Nat /\ Len(b) \in Nat
  OBVIOUS
<1>2. /\ a \o b \in Seq(M) /\ Len(a \o b) = Len(a) + Len(b)
      /\ \A i \in 1..(Len(a) + Len(b)) :
            (a \o b)[i] = IF i <= Len(a) THEN a[i] ELSE b[i - Len(a)]
  BY ConcatProperties
<1>3. /\ \A i \in 1..Len(a) : i \in 1..(Len(a) + Len(b)) /\ i <= Len(a)
      /\ \A k \in 1..Len(b) : /\ Len(a) + k \in 1..(Len(a) + Len(b))
                              /\ ~(Len(a) + k <= Len(a)) /\ (Len(a) + k) - Len(a) = k
  BY <1>1
<1> QED
  BY <1>2, <1>3

\* The messages a step with tool calls makes.
LEMMA MadeOfStep ==
    ASSUME TypeInv, NEW r \in Runs
    PROVE  LET made == <<Assistant(r, calls[r])>> \o Results(r)
               n == Len(calls[r])
           IN  /\ n \in Nat /\ DOMAIN calls[r] = 1..n
               /\ made \in Seq(ChatMessage) /\ Len(made) = n + 1
               /\ made[1] = Assistant(r, calls[r])
               /\ \A k \in 1..n : made[k + 1] = ToolResult(r, k)
<1> DEFINE a == <<Assistant(r, calls[r])>>
           b == Results(r)
           n == Len(calls[r])
<1>1. n \in Nat /\ DOMAIN calls[r] = 1..n
  BY DEF TypeInv
<1>2. Results(r) \in Seq(ChatMessage) /\ a \in Seq(ChatMessage) /\ a \o b \in Seq(ChatMessage)
  BY MadeMessages
<1>3. Len(b) = n /\ \A k \in 1..n : b[k] = ToolResult(r, k)
  BY <1>1, <1>2 DEF Results
<1>4. Len(a) = 1 /\ a[1] = Assistant(r, calls[r])
  OBVIOUS
<1> HIDE DEF a, b, n
<1>5. /\ Len(a \o b) = n + 1
      /\ (a \o b)[1] = a[1]
      /\ \A k \in 1..n : (a \o b)[1 + k] = b[k]
  <2>1. b \in Seq(ChatMessage)
    BY <1>2 DEF b
  <2>2. /\ Len(a \o b) = Len(a) + Len(b)
        /\ \A i \in 1..Len(a) : (a \o b)[i] = a[i]
        /\ \A k \in 1..Len(b) : (a \o b)[Len(a) + k] = b[k]
    BY <1>2, <2>1, ConcatIndexed
  <2> QED
    BY <1>1, <1>3, <1>4, <2>2
<1>6. \A k \in 1..n : 1 + k = k + 1
  BY <1>1
<1> QED
  BY <1>1, <1>2, <1>3, <1>4, <1>5, <1>6 DEF a, b, n

\* The results are appended behind the message whose calls they answer.
LEMMA AnswerCollect ==
    ASSUME AnswerInv, NEW r \in Runs, CollectResults(r)
    PROVE  Dated' /\ EveryCallAnswered'
<1> DEFINE made == <<Assistant(r, calls[r])>> \o Results(r)
           p == prompt[r]
           q == p \o made
           L == Len(prompt[r])
           n == Len(calls[r])
<1>1. /\ TypeInv /\ p \in Seq(ChatMessage) /\ L \in Nat /\ DOMAIN p = 1..L /\ Len(p) = L
      /\ iteration[r] \in Nat
  BY DEF AnswerInv, TypeInv
<1>2. /\ n \in Nat /\ DOMAIN calls[r] = 1..n
      /\ made \in Seq(ChatMessage) /\ Len(made) = n + 1
      /\ made[1] = Assistant(r, calls[r])
      /\ \A k \in 1..n : made[k + 1] = ToolResult(r, k)
  BY <1>1, MadeOfStep
<1>3. prompt' = [prompt EXCEPT ![r] = q] /\ iteration' = [iteration EXCEPT ![r] = @ + 1]
  BY DEF CollectResults, Add
<1>4. /\ prompt'[r] = q /\ iteration'[r] = iteration[r] + 1
      /\ \A s \in Runs : s # r => prompt'[s] = prompt[s] /\ iteration'[s] = iteration[s]
  BY <1>1, <1>3 DEF TypeInv
<1> HIDE DEF made, p, L, n
<1>5. /\ q \in Seq(ChatMessage) /\ Len(q) = L + n + 1
      /\ \A i \in 1..L : q[i] = p[i]
      /\ \A k \in 1..(n + 1) : q[L + k] = made[k]
  <2>1. /\ q \in Seq(ChatMessage) /\ Len(q) = Len(p) + Len(made)
        /\ \A i \in 1..Len(p) : q[i] = p[i]
        /\ \A k \in 1..Len(made) : q[Len(p) + k] = made[k]
    <3>1. p \in Seq(ChatMessage) /\ made \in Seq(ChatMessage)
      BY <1>1, <1>2
    <3> QED
      BY ONLY <3>1, ConcatIndexed
  <2> HIDE DEF q
  <2> QED
    BY <1>1, <1>2, <2>1
<1>6. \A k \in 1..n : /\ ToolResult(r, k).role = "tool" /\ ToolResult(r, k).calls = <<>>
                      /\ ToolResult(r, k).answers = <<iteration[r], k>>
  BY DEF ToolResult, Message, CallId
<1>7. /\ Assistant(r, calls[r]).role = "assistant" /\ Assistant(r, calls[r]).answers = <<>>
      /\ DOMAIN Assistant(r, calls[r]).calls = 1..n
      /\ \A k \in 1..n : Assistant(r, calls[r]).calls[k] = <<iteration[r], k>>
  BY <1>2 DEF Assistant, Message, CallIds, CallId
<1> HIDE DEF q
\* Where a message of the new prompt comes from.
<1>8. ASSUME NEW i \in DOMAIN q
      PROVE  \/ i \in 1..L /\ q[i] = p[i]
             \/ i = L + 1 /\ q[i] = Assistant(r, calls[r])
             \/ \E k \in 1..n : i = L + k + 1 /\ q[i] = ToolResult(r, k)
  <2>1. CASE i <= L
    BY <1>1, <1>5, <2>1
  <2>2. CASE i = L + 1
    BY <1>1, <1>2, <1>5, <2>2
  <2>3. CASE i > L + 1
    <3>1. i - L - 1 \in 1..n /\ L + (i - L - 1) + 1 = i /\ (i - L - 1) + 1 \in 1..(n + 1)
      BY <1>1, <1>2, <1>5, <2>3
    <3>2. q[i] = made[(i - L - 1) + 1]
      BY <1>1, <1>5, <3>1
    <3> QED
      BY <1>2, <3>1, <3>2
  <2> QED
    BY <1>1, <1>5, <2>1, <2>2, <2>3
<1>9. ASSUME NEW i \in 1..L
      PROVE  IF p[i].role = "tool" THEN p[i].answers # <<>> /\ p[i].answers[1] < iteration[r]
                                   ELSE p[i].answers = <<>>
  BY <1>1, <1>9 DEF AnswerInv, Dated, p
<1>10. ASSUME NEW i \in DOMAIN q
       PROVE  IF q[i].role = "tool" THEN q[i].answers # <<>> /\ q[i].answers[1] < iteration[r] + 1
                                    ELSE q[i].answers = <<>>
  <2>1. CASE i \in 1..L /\ q[i] = p[i]
    <3>1. p[i].role = "tool" => p[i].answers[1] \in Nat
      <4>1. p[i] \in ChatMessage
        BY <1>1, <2>1
      <4>2. p[i].role = "tool" => p[i].answers \in CallName
        BY <1>9, <2>1, <4>1 DEF ChatMessage
      <4> QED
        BY <4>2 DEF CallName
    <3> QED
      BY <1>1, <1>9, <2>1, <3>1
  <2>2. CASE i = L + 1 /\ q[i] = Assistant(r, calls[r])
    BY <1>7, <2>2
  <2>3. ASSUME NEW k \in 1..n, q[i] = ToolResult(r, k)
        PROVE  q[i].role = "tool" /\ q[i].answers # <<>> /\ q[i].answers[1] < iteration[r] + 1
    BY <1>1, <1>6, <2>3
  <2> QED
    BY <1>8, <2>1, <2>2, <2>3
<1>11. Dated'
  BY <1>4, <1>10 DEF AnswerInv, Dated
<1>12. ASSUME NEW i \in DOMAIN q, NEW k \in DOMAIN q[i].calls
       PROVE  i + k <= Len(q) /\ q[i + k].answers = q[i].calls[k]
  <2>1. CASE i \in 1..L /\ q[i] = p[i]
    <3>1. k \in Nat \ {0}
      <4>1. p[i] \in ChatMessage
        BY <1>1, <2>1
      <4>2. p[i].calls \in Seq(CallName) /\ k \in DOMAIN p[i].calls
        BY <1>12, <2>1, <4>1 DEF ChatMessage
      <4> QED
        BY <4>2
    <3>2. i + k <= L /\ p[i + k].answers = p[i].calls[k]
      BY <1>1, <1>12, <2>1 DEF AnswerInv, EveryCallAnswered, p, L
    <3>3. i + k \in 1..L /\ i + k <= Len(q)
      BY <1>1, <1>2, <1>5, <2>1, <3>1, <3>2
    <3> QED
      BY <1>5, <2>1, <3>2, <3>3
  <2>2. CASE i = L + 1 /\ q[i] = Assistant(r, calls[r])
    <3>1. k \in 1..n /\ q[i].calls[k] = <<iteration[r], k>>
      BY <1>7, <1>12, <2>2
    <3>2. i + k = L + (k + 1) /\ k + 1 \in 1..(n + 1)
      BY <1>1, <1>2, <2>2, <3>1
    <3>3. q[i + k] = ToolResult(r, k)
      BY <1>2, <1>5, <3>1, <3>2
    <3> QED
      BY <1>1, <1>2, <1>5, <1>6, <3>1, <3>2, <3>3
  <2>3. ASSUME NEW x \in 1..n, q[i] = ToolResult(r, x)
        PROVE  FALSE
    BY <1>6, <1>12, <2>3
  <2> QED
    BY <1>8, <2>1, <2>2, <2>3
<1>13. ASSUME NEW i \in DOMAIN q, NEW j \in DOMAIN q,
              q[i].role = "tool", q[i].answers = q[j].answers
       PROVE  i = j
  <2>1. q[j].role = "tool"
    BY <1>10, <1>13
  <2>2. ASSUME NEW x \in DOMAIN q, q[x].role = "tool"
        PROVE  \/ x \in 1..L /\ q[x] = p[x] /\ q[x].answers[1] < iteration[r]
               \/ \E k \in 1..n : x = L + k + 1 /\ q[x].answers = <<iteration[r], k>>
    <3>1. CASE x \in 1..L /\ q[x] = p[x]
      BY <1>9, <2>2, <3>1
    <3>2. CASE q[x] = Assistant(r, calls[r])
      BY <1>7, <2>2, <3>2
    <3>3. ASSUME NEW k \in 1..n, x = L + k + 1, q[x] = ToolResult(r, k)
          PROVE  x = L + k + 1 /\ q[x].answers = <<iteration[r], k>>
      BY <1>6, <3>3
    <3> QED
      BY <1>8, <3>1, <3>2, <3>3
  <2>3. CASE i \in 1..L /\ q[i] = p[i] /\ q[i].answers[1] < iteration[r]
    <3>1. \A k \in 1..n : q[j].answers # <<iteration[r], k>>
      BY <1>1, <1>13, <2>3
    <3>2. j \in 1..L /\ q[j] = p[j]
      BY <1>13, <2>1, <2>2, <3>1
    <3> QED
      BY <1>1, <1>13, <2>3, <3>2 DEF AnswerInv, EveryCallAnswered, p
  <2>4. ASSUME NEW k \in 1..n, i = L + k + 1, q[i].answers = <<iteration[r], k>>
        PROVE  i = j
    <3>1. ~(q[j].answers[1] < iteration[r])
      BY <1>1, <1>13, <2>4
    <3>2. PICK x \in 1..n : j = L + x + 1 /\ q[j].answers = <<iteration[r], x>>
      BY <2>1, <2>2, <3>1
    <3>3. x = k
      BY <1>13, <2>4, <3>2
    <3> QED
      BY <2>4, <3>2, <3>3
  <2> QED
    BY <1>13, <2>2, <2>3, <2>4
<1>14. \A s \in Runs : prompt'[s] = IF s = r THEN q ELSE prompt[s]
  BY <1>4
<1>15. EveryCallAnswered'
  BY <1>12, <1>13, <1>14 DEF AnswerInv, EveryCallAnswered
<1> QED
  BY <1>11, <1>15

\* The first message of a prompt calls nothing and answers nothing.
LEMMA AnswerPrepare ==
    ASSUME AnswerInv, NEW r \in Runs, Prepare(r)
    PROVE  Dated' /\ EveryCallAnswered'
<1>1. UNCHANGED iteration
  BY DEF Prepare
<1>2. CASE UNCHANGED prompt
  BY <1>1, <1>2 DEF AnswerInv, Dated, EveryCallAnswered
<1>3. CASE prompt' = [prompt EXCEPT ![r] = <<UserMessage>>]
  <2>1. \A s \in Runs : prompt'[s] = IF s = r THEN <<UserMessage>> ELSE prompt[s]
    BY <1>3 DEF AnswerInv, TypeInv
  <2>2. /\ DOMAIN <<UserMessage>> = {1} /\ <<UserMessage>>[1].role = "user"
        /\ <<UserMessage>>[1].calls = <<>> /\ <<UserMessage>>[1].answers = <<>>
    BY DEF UserMessage, Message
  <2> HIDE DEF UserMessage
  <2>3. DOMAIN <<>> = {}
    OBVIOUS
  <2> QED
    BY <1>1, <2>1, <2>2, <2>3 DEF AnswerInv, Dated, EveryCallAnswered
<1> QED
  BY <1>2, <1>3 DEF Prepare

LEMMA AnswerNext == AnswerInv /\ [Next]_vars => Dated' /\ EveryCallAnswered'
<1> SUFFICES ASSUME AnswerInv, [Next]_vars PROVE Dated' /\ EveryCallAnswered'
  OBVIOUS
<1>1. ASSUME UNCHANGED <<prompt, iteration>> PROVE Dated' /\ EveryCallAnswered'
  BY <1>1 DEF AnswerInv, Dated, EveryCallAnswered
<1>2. ASSUME NEW r \in Runs, CallStep(r) PROVE UNCHANGED <<prompt, iteration>>
  BY <1>2 DEF CallStep, DenyCall, BeginCall, EndCall, ReturnCall, loop
<1>3. ASSUME NEW r \in Runs,
             \/ StartStep(r) \/ Delta(r) \/ StreamFails(r) \/ EndAnswer(r) \/ EndWithCalls(r)
             \/ Exhaust(r) \/ Finish(r) \/ ReportError(r)
      PROVE  UNCHANGED <<prompt, iteration>>
  BY <1>3 DEF StartStep, StartStream, Delta, StreamFails, EndAnswer, EndWithCalls, Exhaust,
              Finish, ReportError, loop
<1>4. ASSUME PlanStep PROVE UNCHANGED <<prompt, iteration>>
  BY <1>4 DEF PlanStep, MakePlan, StartPlanStep, CreateWorker, CallWorker, EndPlanStep,
              StartSynthesis, StartStream, EndSynthesis, loop
<1>5. ASSUME Break \/ Leave \/ UNCHANGED vars PROVE UNCHANGED <<prompt, iteration>>
  BY <1>5 DEF Break, Leave, vars, loop
<1> QED
  BY <1>1, <1>2, <1>3, <1>4, <1>5, AnswerPrepare, AnswerCollect DEF Next, Step

\* Whatever is denied, fails, times out or ends out of order, every tool call in the prompt of
\* every turn and sub-agent is followed by its one result, and by no other's.
THEOREM EveryCallAnsweredHolds == Spec => []EveryCallAnswered
<1> DEFINE Inv == SpawnInv /\ AnswerInv
<1>1. Init => Inv
  BY SpawnInit, TypeInit DEF Init, AnswerInv, Dated, EveryCallAnswered
<1>2. Inv /\ [Next]_vars => Inv'
  BY SpawnNext, TypeNext, AnswerNext, ConstantsAssumption DEF AnswerInv
<1>3. Inv => EveryCallAnswered
  BY DEF AnswerInv
<1> HIDE DEF Inv
<1> QED
  BY <1>1, <1>2, <1>3, PTL DEF Spec

-----------------------------------------------------------------------------
(* Who moves in a step.                                                     *)

Ended == {"unborn", "saved", "closed", "blank", "cancelled", "raised", "crashed"}

\* A step of a turn moves that turn, which has not ended, and no other; but the tool calls of
\* the session's turn make a sub-agent or start one that is saved.  Sub-agents do neither.
LEMMA StepMoves ==
    ASSUME TypeInv, SpawnInv, ConstantsAssumption, NEW r \in Runs, Step(r)
    PROVE  /\ UNCHANGED <<request, plan, facts>>
           /\ phase[r] \notin Ended
           /\ \A s \in Runs \ {r} : calls'[s] = calls[s]
           /\ \/ \A s \in Runs \ {r} : phase'[s] = phase[s]
              \/ /\ r = Root /\ phase[Root] = "tools" /\ phase'[Root] = "tools"
                 /\ \A s \in Runs : \/ phase'[s] = phase[s]
                                    \/ phase[s] = "unborn" /\ phase'[s] = "saved"
                                    \/ phase[s] = "saved" /\ phase'[s] = "prepare"
           /\ phase[r] \in {"llm", "tools"} \/ calls' = calls
<1>1. phase \in [Runs -> Phase] /\ calls \in [Runs -> Seq(Call)] /\ Root \in Runs
      /\ Root \notin SubAgents /\ SubAgents \subseteq Runs
  BY DEF TypeInv, ConstantsAssumption, Runs
<1>2. CASE Prepare(r)
  BY <1>1, <1>2 DEF Prepare, From, To, Ended, step
<1>3. CASE StartStep(r)
  BY <1>1, <1>3 DEF StartStep, StartStream, From, To, Ended
<1>4. CASE Delta(r)
  BY <1>1, <1>4 DEF Delta, Ended
<1>5. CASE StreamFails(r)
  BY <1>1, <1>5 DEF StreamFails, To, Ended, step
<1>6. CASE EndAnswer(r)
  BY <1>1, <1>6 DEF EndAnswer, From, To, Ended, step
<1>7. CASE EndWithCalls(r)
  BY <1>1, <1>7 DEF EndWithCalls, From, To, Ended
<1>8. CASE CallStep(r)
  <2>1. PICK i \in DOMAIN calls[r] : DenyCall(r, i) \/ BeginCall(r, i) \/ EndCall(r, i) \/ ReturnCall(r, i)
    BY <1>8 DEF CallStep
  <2>2. phase[r] = "tools" /\ UNCHANGED <<request, plan, facts>>
    BY <2>1 DEF DenyCall, BeginCall, EndCall, ReturnCall, CallIn, From
  <2>3. \E call : SetCall(r, i, call)
    BY <2>1 DEF DenyCall, BeginCall, EndCall, ReturnCall
  <2>4. \A s \in Runs \ {r} : calls'[s] = calls[s]
    BY <1>1, <2>3 DEF SetCall
  <2>5. \/ phase' = phase
        \/ /\ calls[r][i].tool \in SubAgentTools /\ calls[r][i].tool \in scope[r]
           /\ \E s \in SubAgents : phase[s] = "saved" /\ phase' = [phase EXCEPT ![s] = "prepare"]
        \/ /\ calls[r][i].tool \in SubAgentTools /\ calls[r][i].state = "running"
           /\ \E s \in SubAgents : phase[s] = "unborn" /\ phase' = [phase EXCEPT ![s] = "saved"]
    BY <2>1 DEF DenyCall, BeginCall, EndCall, ReturnCall, CallIn, From, To, SubAgentTools
  <2>6. phase' = phase \/ r = Root
    BY <2>5 DEF SpawnInv, SubAgentsDoNotSpawn, Runs
  <2>7. phase'[Root] = phase[Root]
    BY <1>1, <2>5
  <2>8. \A s \in Runs : \/ phase'[s] = phase[s]
                        \/ phase[s] = "unborn" /\ phase'[s] = "saved"
                        \/ phase[s] = "saved" /\ phase'[s] = "prepare"
    BY <1>1, <2>5
  <2> QED
    BY <2>2, <2>4, <2>6, <2>7, <2>8 DEF Ended
<1>9. CASE CollectResults(r)
  BY <1>1, <1>9 DEF CollectResults, From, To, Ended
<1>10. CASE Exhaust(r)
  BY <1>1, <1>10 DEF Exhaust, From, To, Ended
<1>11. CASE Finish(r)
  BY <1>1, <1>11 DEF Finish, From, To, Ended, step
<1>12. CASE ReportError(r)
  BY <1>1, <1>12 DEF ReportError, From, To, Ended, step
<1> QED
  BY <1>2, <1>3, <1>4, <1>5, <1>6, <1>7, <1>8, <1>9, <1>10, <1>11, <1>12 DEF Step

\* Where a planning turn gets to: it never enters the loop.
LEMMA PlanPhases ==
    ASSUME TypeInv, ConstantsAssumption, request.plan, phase[Root] \notin {"loop", "llm", "tools"},
           Step(Root)
    PROVE  phase'[Root] \notin {"loop", "llm", "tools", "create", "call", "await"}
<1>1. phase \in [Runs -> Phase] /\ Root \in Runs
  BY DEF TypeInv, Runs
<1>2. CASE Prepare(Root)
  BY <1>1, <1>2 DEF Prepare, To
<1>3. CASE Delta(Root)
  BY <1>1, <1>3 DEF Delta
<1>4. CASE StreamFails(Root)
  BY <1>1, <1>4 DEF StreamFails, To
<1>5. CASE Finish(Root)
  BY <1>1, <1>5 DEF Finish, To
<1>6. CASE ReportError(Root)
  BY <1>1, <1>6 DEF ReportError, To
<1>7. ~(StartStep(Root) \/ EndAnswer(Root) \/ EndWithCalls(Root) \/ CallStep(Root)
        \/ CollectResults(Root) \/ Exhaust(Root))
  BY DEF StartStep, EndAnswer, EndWithCalls, CallStep, DenyCall, BeginCall, EndCall, ReturnCall,
         CallIn, CollectResults, Exhaust, From
<1> QED
  BY <1>2, <1>3, <1>4, <1>5, <1>6, <1>7 DEF Step

-----------------------------------------------------------------------------
(* The sub-agents of a plan take turns.  The one that works is the worker   *)
(* of the step the strategy awaits, because nothing else can start one.     *)

WorkerReady == phase[Root] = "call" => Worker \in SubAgents /\ phase[Worker] = "saved"
NoLoop == request.plan => phase[Root] \notin {"loop", "llm", "tools"}
OneWorker ==
    request.plan =>
        \A s \in Working : /\ phase[Root] = "await" /\ s = Worker
                           /\ facts[s] = [k \in 1..(NextStep - 1) |-> k]
PlansOnly ==
    phase[Root] \in {"plan", "steps", "create", "call", "await", "synth"} => request.plan

PlanInv == TypeInv /\ SpawnInv /\ WorkerReady /\ NoLoop /\ OneWorker /\ PlansOnly

LEMMA PlanInit == Init => WorkerReady /\ NoLoop /\ OneWorker /\ PlansOnly
  BY ConstantsAssumption DEF Init, WorkerReady, NoLoop, OneWorker, PlansOnly, Working, Runs

\* The sub-agents' own steps, and those of the session's turn that are not the strategy's.
LEMMA PlanOfStep ==
    ASSUME PlanInv, ConstantsAssumption, NEW r \in Runs, Step(r)
    PROVE  WorkerReady' /\ NoLoop' /\ OneWorker' /\ PlansOnly'
<1>1. TypeInv /\ SpawnInv /\ Root \in Runs /\ Root \notin SubAgents /\ SubAgents \subseteq Runs
  BY DEF PlanInv, ConstantsAssumption, Runs
<1>2. /\ UNCHANGED <<request, plan, facts>>
      /\ phase[r] \notin Ended
      /\ \A s \in Runs \ {r} : calls'[s] = calls[s]
      /\ \/ \A s \in Runs \ {r} : phase'[s] = phase[s]
         \/ /\ r = Root /\ phase[Root] = "tools" /\ phase'[Root] = "tools"
            /\ \A s \in Runs : \/ phase'[s] = phase[s]
                               \/ phase[s] = "unborn" /\ phase'[s] = "saved"
                               \/ phase[s] = "saved" /\ phase'[s] = "prepare"
      /\ phase[r] \in {"llm", "tools"} \/ calls' = calls
  BY <1>1, StepMoves
<1>3. CASE r # Root
  <2>1. phase'[Root] = phase[Root] /\ calls'[Root] = calls[Root] /\ Worker' = Worker
    BY <1>1, <1>2, <1>3 DEF Worker
  <2>2. \A s \in SubAgents : s \in Working' => s \in Working
    BY <1>1, <1>2, <1>3 DEF Working, Over, Ended
  <2>3. phase[Root] = "call" => phase'[Worker] = phase[Worker]
    BY <1>1, <1>2, <1>3 DEF PlanInv, WorkerReady, Ended
  <2>4. NextStep' = NextStep
    BY <1>2 DEF NextStep
  <2> QED
    BY <1>2, <2>1, <2>2, <2>3, <2>4
       DEF PlanInv, WorkerReady, NoLoop, OneWorker, PlansOnly, Working
<1>4. CASE r = Root
  <2>1. phase'[Root] \in {"plan", "steps", "create", "call", "await", "synth"} =>
           request.plan /\ phase'[Root] \in {"plan", "synth"}
    <3>1. phase \in [Runs -> Phase]
      BY <1>1 DEF TypeInv
    <3>2. CASE CallStep(Root)
      <4>1. phase[Root] = "tools"
        BY <3>2 DEF CallStep, DenyCall, BeginCall, EndCall, ReturnCall, CallIn, From
      <4>2. phase'[Root] = "tools"
        BY <1>1, <1>2, <1>4, <3>1, <3>2, <4>1
           DEF CallStep, DenyCall, BeginCall, EndCall, ReturnCall, From, To
      <4> QED
        BY <4>2
    <3>3. CASE Prepare(Root)
      BY <1>1, <3>1, <3>3 DEF Prepare, To
    <3>4. CASE StartStep(Root) \/ Delta(Root) \/ StreamFails(Root) \/ EndAnswer(Root)
      BY <1>1, <3>1, <3>4
         DEF StartStep, StartStream, Delta, StreamFails, EndAnswer, To, PlanInv, PlansOnly
    <3>5. CASE EndWithCalls(Root) \/ CollectResults(Root) \/ Exhaust(Root)
      BY <1>1, <3>1, <3>5 DEF EndWithCalls, CollectResults, Exhaust, To
    <3>6. CASE Finish(Root) \/ ReportError(Root)
      BY <1>1, <3>1, <3>6 DEF Finish, ReportError, To
    <3> QED
      BY <1>4, <3>2, <3>3, <3>4, <3>5, <3>6 DEF Step
  <2>2. WorkerReady' /\ PlansOnly'
    BY <1>2, <2>1 DEF WorkerReady, PlansOnly
  <2>3. CASE ~request.plan
    BY <1>2, <2>2, <2>3 DEF NoLoop, OneWorker
  <2>4. CASE request.plan
    <3>1. phase[Root] \notin {"loop", "llm", "tools"}
      BY <2>4 DEF PlanInv, NoLoop
    <3>2. phase'[Root] \notin {"loop", "llm", "tools"}
      BY <1>1, <1>4, <2>4, <3>1, PlanPhases
    <3>3. phase[Root] # "await"
      BY <1>4 DEF Step, Prepare, StartStep, Delta, StreamFails, EndAnswer, EndWithCalls,
                  CallStep, DenyCall, BeginCall, EndCall, ReturnCall, CallIn, CollectResults,
                  Exhaust, Finish, ReportError, From
    <3>4. \A s \in SubAgents : phase'[s] = phase[s]
      BY <1>1, <1>2, <1>4, <3>1
    <3>5. \A s \in SubAgents : s \notin Working
      BY <2>4, <3>3 DEF PlanInv, OneWorker
    <3>6. Working' = {}
      BY <1>1, <3>4, <3>5 DEF Working, Over
    <3> QED
      BY <1>2, <2>2, <3>2, <3>6 DEF NoLoop, OneWorker
  <2> QED
    BY <2>3, <2>4
<1> QED
  BY <1>3, <1>4

\* The strategy's own steps.
LEMMA PlanOfPlan ==
    ASSUME PlanInv, ConstantsAssumption, PlanStep
    PROVE  WorkerReady' /\ NoLoop' /\ OneWorker' /\ PlansOnly'
<1>1. /\ Root \in Runs /\ Root \notin SubAgents /\ SubAgents \subseteq Runs
      /\ phase \in [Runs -> Phase] /\ calls \in [Runs -> Seq(Call)]
      /\ facts \in [SubAgents -> Seq(Nat)]
  BY DEF PlanInv, TypeInv, ConstantsAssumption, Runs
<1>2. UNCHANGED request /\ request.plan
  <2>1. UNCHANGED request
    BY DEF PlanStep, MakePlan, StartPlanStep, CreateWorker, CallWorker, EndPlanStep,
           StartSynthesis, StartStream, EndSynthesis
  <2>2. phase[Root] \in {"plan", "steps", "create", "call", "await", "synth"}
    BY DEF PlanStep, MakePlan, StartPlanStep, CreateWorker, CallWorker, EndPlanStep,
           StartSynthesis, EndSynthesis, From
  <2> QED
    BY <2>1, <2>2 DEF PlanInv, PlansOnly
<1>3. ASSUME NEW s \in SubAgents, s \in Working
      PROVE  phase[Root] = "await" /\ s = Worker /\ facts[s] = [k \in 1..(NextStep - 1) |-> k]
  BY <1>2, <1>3 DEF PlanInv, OneWorker
<1>4. SUFFICES /\ WorkerReady' /\ phase'[Root] \notin {"loop", "llm", "tools"}
               /\ \A s \in Working' : /\ phase'[Root] = "await" /\ s = Worker'
                                      /\ facts'[s] = [k \in 1..(NextStep' - 1) |-> k]
  BY <1>2 DEF NoLoop, OneWorker, PlansOnly
<1>5. CASE MakePlan \/ StartPlanStep \/ StartSynthesis \/ EndSynthesis
  <2>1. \E p \in {"steps", "failed", "crashed", "create", "synth", "finish"} : To(Root, p)
    BY <1>5 DEF MakePlan, StartPlanStep, StartSynthesis, StartStream, EndSynthesis
  <2>2. /\ phase'[Root] \in {"steps", "failed", "crashed", "create", "synth", "finish"}
        /\ \A s \in SubAgents : phase'[s] = phase[s]
    BY <1>1, <2>1 DEF To
  <2>3. phase[Root] # "await"
    BY <1>5 DEF MakePlan, StartPlanStep, StartSynthesis, EndSynthesis, From
  <2>4. Working' = {}
    BY <1>1, <1>3, <2>2, <2>3 DEF Working, Over
  <2> QED
    BY <2>2, <2>4 DEF WorkerReady
<1>6. CASE CreateWorker
  <2>1. Working = {}
    BY <1>3, <1>6 DEF CreateWorker, From, Working
  <2>2. CASE To(Root, "crashed")
    <3>1. phase'[Root] = "crashed" /\ \A s \in SubAgents : phase'[s] = phase[s]
      BY <1>1, <2>2 DEF To
    <3>2. Working' = {}
      BY <1>1, <2>1, <3>1 DEF Working, Over
    <3> QED
      BY <3>1, <3>2 DEF WorkerReady
  <2>3. ASSUME NEW s \in SubAgents, From(s, "unborn"),
               phase' = [phase EXCEPT ![s] = "saved", ![Root] = "call"],
               calls' = [calls EXCEPT ![Root] =
                   <<[NewCall("call_subagent") EXCEPT !.state = "running", !.sub = s]>>]
        PROVE  /\ WorkerReady' /\ phase'[Root] = "call" /\ Working' = {}
    <3>1. /\ phase'[Root] = "call" /\ phase'[s] = "saved"
          /\ \A u \in SubAgents \ {s} : phase'[u] = phase[u]
      BY <1>1, <2>3
    <3>2. Worker' = s
      BY <1>1, <2>3 DEF Worker, NewCall
    <3>3. Working' = {}
      BY <1>1, <2>1, <3>1 DEF Working, Over
    <3> QED
      BY <3>1, <3>2, <3>3 DEF WorkerReady
  <2> QED
    BY <1>6, <2>2, <2>3 DEF CreateWorker
<1>7. CASE CallWorker
  <2>1. /\ phase[Root] = "call" /\ Worker \in SubAgents /\ Working = {}
    BY <1>3, <1>7 DEF CallWorker, From, PlanInv, WorkerReady, Working
  <2>2. /\ phase'[Root] = "await" /\ phase'[Worker] = "prepare"
        /\ \A u \in SubAgents : u # Worker => phase'[u] = phase[u]
        /\ facts'[Worker] = [k \in 1..(NextStep - 1) |-> k]
    BY <1>1, <1>7, <2>1 DEF CallWorker
  <2>3. NextStep' = NextStep /\ Worker' = Worker
    BY <1>7 DEF CallWorker, NextStep, Worker, step
  <2>4. \A s \in Working' : s = Worker
    BY <1>1, <2>1, <2>2 DEF Working, Over
  <2> QED
    BY <2>2, <2>3, <2>4 DEF WorkerReady
<1>8. CASE EndPlanStep
  <2>1. \E p \in {"failed", "crashed", "steps"} : To(Root, p)
    BY <1>8 DEF EndPlanStep
  <2>2. /\ phase'[Root] \in {"failed", "crashed", "steps"}
        /\ \A s \in SubAgents : phase'[s] = phase[s]
    BY <1>1, <2>1 DEF To
  <2>3. Over(Worker)
    BY <1>8 DEF EndPlanStep
  <2>4. Working = {}
    BY <1>3, <2>3 DEF Working
  <2>5. Working' = {}
    BY <1>1, <2>2, <2>4 DEF Working, Over
  <2> QED
    BY <2>2, <2>5 DEF WorkerReady
<1> QED
  BY <1>5, <1>6, <1>7, <1>8 DEF PlanStep

LEMMA PlanNext == PlanInv /\ [Next]_vars => WorkerReady' /\ NoLoop' /\ OneWorker' /\ PlansOnly'
<1> SUFFICES ASSUME PlanInv, [Next]_vars
             PROVE  WorkerReady' /\ NoLoop' /\ OneWorker' /\ PlansOnly'
  OBVIOUS
<1>1. Root \in Runs /\ SubAgents \subseteq Runs /\ phase \in [Runs -> Phase] /\ Root \notin SubAgents
  BY ConstantsAssumption DEF PlanInv, TypeInv, Runs
<1>2. CASE Break
  <2>1. UNCHANGED request /\ phase[Root] \in {"raised", "crashed"}
    BY <1>2 DEF Break
  <2>2. phase'[Root] = "closed" /\ \A s \in SubAgents : phase'[s] = phase[s]
    BY <1>1, <1>2 DEF Break, To
  <2>3. request.plan => Working = {}
    BY <2>1 DEF PlanInv, OneWorker, Working
  <2>4. request.plan => Working' = {}
    BY <1>1, <2>2, <2>3 DEF Working, Over
  <2> QED
    BY <2>1, <2>2, <2>4 DEF WorkerReady, NoLoop, OneWorker, PlansOnly
<1>3. CASE Leave
  <2>1. /\ UNCHANGED request /\ ~Over(Root)
        /\ \A r \in Runs : phase'[r] = IF Over(r) \/ phase[r] \in {"unborn", "saved"}
                                       THEN phase[r] ELSE "cancelled"
    BY <1>3 DEF Leave
  <2>2. Working' = {}
    BY <1>1, <2>1 DEF Working, Over
  <2>3. phase'[Root] \in {"unborn", "saved", "cancelled"}
    BY <1>1, <2>1
  <2> QED
    BY <2>1, <2>2, <2>3 DEF WorkerReady, NoLoop, OneWorker, PlansOnly
<1>4. CASE UNCHANGED vars
  BY <1>4 DEF vars, step, loop, PlanInv, WorkerReady, NoLoop, OneWorker, PlansOnly, Working, Over,
              Worker, NextStep
<1> QED
  BY <1>2, <1>3, <1>4, PlanOfStep, PlanOfPlan, ConstantsAssumption DEF Next

\* Whatever ends the sub-agent of a plan step, no two of a plan ever work at the same time, and
\* the one that does was given the results of the steps before its own.
THEOREM WorkersTakeTurnsHolds == Spec => []WorkersTakeTurns
<1>1. Init => PlanInv
  BY SpawnInit, TypeInit, PlanInit DEF PlanInv
<1>2. PlanInv /\ [Next]_vars => PlanInv'
  BY SpawnNext, TypeNext, PlanNext, ConstantsAssumption DEF PlanInv
<1>3. PlanInv => WorkersTakeTurns
  <2> SUFFICES ASSUME PlanInv, request.plan PROVE WorkersTakeTurns
    BY DEF WorkersTakeTurns
  <2>1. Working \in SUBSET {Worker} /\ \A s \in Working : facts[s] = [k \in 1..(NextStep - 1) |-> k]
    BY DEF PlanInv, OneWorker
  <2>2. IsFiniteSet({Worker}) /\ Cardinality({Worker}) = 1
    BY FS_Singleton
  <2>3. Cardinality(Working) <= 1
    BY <2>1, <2>2, FS_Subset
  <2> QED
    BY <2>1, <2>3 DEF WorkersTakeTurns
<1> QED
  BY <1>1, <1>2, <1>3, PTL DEF Spec

-----------------------------------------------------------------------------
(* Billing.  What a turn is billed is fixed when it ends; until then its    *)
(* usage and its messages grow together, from nothing when it is prepared.   *)

Fresh ==
    /\ \A r \in Runs : phase[r] \in {"unborn", "saved", "prepare"} =>
          record[r] = <<>> /\ usage[r] = 0 /\ billed[r] = -1
    /\ phase[Root] \in {"prepare", "plan"} => plan = <<>>
Counted == \A r \in Runs : usage[r] = Streams(r)
BilledOnce ==
    \A r \in Runs : billed[r] # -1 => phase[r] \in {"closed", "blank"} /\ billed[r] = usage[r]

BillInv == PlanInv /\ Fresh /\ Counted /\ BilledOnce

\* A message with an answer counts once, whatever tool results follow it.
LEMMA AnsweredAdds ==
    ASSUME NEW s \in Seq(ChatMessage), NEW t \in Seq(ChatMessage), Len(t) >= 1,
           t[1].role = "assistant", \A k \in 2..Len(t) : t[k].role = "tool"
    PROVE  /\ Answered(s) \in Nat
           /\ Answered(s \o t) = Answered(s) + 1
<1> DEFINE A == {i \in DOMAIN s : s[i].role = "assistant"}
           B == {i \in DOMAIN (s \o t) : (s \o t)[i].role = "assistant"}
<1>1. Len(s) \in Nat /\ Len(t) \in Nat /\ DOMAIN s = 1..Len(s)
  OBVIOUS
<1>2. /\ s \o t \in Seq(ChatMessage) /\ Len(s \o t) = Len(s) + Len(t)
      /\ \A i \in 1..Len(s) : (s \o t)[i] = s[i]
      /\ \A k \in 1..Len(t) : (s \o t)[Len(s) + k] = t[k]
  BY ConcatIndexed
<1>3. DOMAIN (s \o t) = 1..(Len(s) + Len(t))
  BY <1>2
<1>4. \A i \in 1..(Len(s) + Len(t)) :
         \/ i \in 1..Len(s)
         \/ i = Len(s) + 1
         \/ i - Len(s) \in 2..Len(t) /\ i = Len(s) + (i - Len(s))
  BY <1>1
<1>5. (s \o t)[Len(s) + 1].role = "assistant" /\ Len(s) + 1 \in DOMAIN (s \o t)
  BY <1>1, <1>2, <1>3
<1>6. \A i \in DOMAIN (s \o t) :
         (s \o t)[i].role = "assistant" <=> i \in A \/ i = Len(s) + 1
  <2> SUFFICES ASSUME NEW i \in DOMAIN (s \o t)
               PROVE  (s \o t)[i].role = "assistant" <=> i \in A \/ i = Len(s) + 1
    OBVIOUS
  <2>1. CASE i \in 1..Len(s)
    BY <1>1, <1>2, <2>1
  <2>2. CASE i = Len(s) + 1
    BY <1>5, <2>2
  <2>3. CASE i - Len(s) \in 2..Len(t) /\ i = Len(s) + (i - Len(s))
    <3>1. (s \o t)[i] = t[i - Len(s)] /\ t[i - Len(s)].role = "tool"
      BY <1>1, <1>2, <2>3
    <3>2. i \notin 1..Len(s) /\ i # Len(s) + 1
      BY <1>1, <2>3
    <3> QED
      BY <1>1, <3>1, <3>2
  <2> QED
    BY <1>3, <1>4, <2>1, <2>2, <2>3
<1>7. B = A \cup {Len(s) + 1} /\ A \in SUBSET (1..Len(s)) /\ Len(s) + 1 \notin A
  <2>1. A \subseteq DOMAIN (s \o t)
    BY <1>1, <1>3
  <2> QED
    BY <1>1, <1>5, <1>6, <2>1
<1> HIDE DEF A, B
<1>8. IsFiniteSet(1..Len(s))
  BY <1>1, FS_Interval, 1 \in Int, Len(s) \in Int
<1>9. IsFiniteSet(A)
  BY <1>7, <1>8, FS_Subset
<1>10. Cardinality(A) \in Nat
  BY <1>9, FS_CardinalityType
<1>11. Cardinality(B) = Cardinality(A) + 1
  BY <1>7, <1>9, FS_AddElement
<1>12. Answered(s) = Cardinality(A) /\ Answered(s \o t) = Cardinality(B)
  BY DEF Answered, A, B
<1> QED
  BY <1>10, <1>11, <1>12

LEMMA AnsweredNat == ASSUME NEW s \in Seq(ChatMessage) PROVE Answered(s) \in Nat
<1>1. {i \in DOMAIN s : s[i].role = "assistant"} \in SUBSET (1..Len(s)) /\ Len(s) \in Int
  OBVIOUS
<1> QED
  BY <1>1, FS_Interval, FS_Subset, FS_CardinalityType, 1 \in Int DEF Answered

LEMMA AnsweredNone == Answered(<<>>) = 0 /\ Answered(<<UserMessage>>) = 0
<1>1. {i \in DOMAIN <<>> : <<>>[i].role = "assistant"} = {}
  OBVIOUS
<1>2. {i \in DOMAIN <<UserMessage>> : <<UserMessage>>[i].role = "assistant"} = {}
  BY DEF UserMessage, Message
<1> QED
  BY <1>1, <1>2, FS_EmptySet DEF Answered

\* What a model stream counts and what it leaves in the record.
LEMMA StreamCounts ==
    ASSUME TypeInv, Counted, NEW r \in Runs, NEW made \in Seq(ChatMessage), Len(made) >= 1,
           made[1].role = "assistant", \A k \in 2..Len(made) : made[k].role = "tool",
           record' = Add(record, r, made), Count(r, 1), UNCHANGED plan
    PROVE  Counted'
<1>1. /\ record[r] \in Seq(ChatMessage)
      /\ record'[r] = record[r] \o made /\ usage'[r] = usage[r] + 1
      /\ \A s \in Runs : s # r => record'[s] = record[s] /\ usage'[s] = usage[s]
  BY DEF TypeInv, Add, Count
<1>2. Answered(record[r]) \in Nat /\ Answered(record'[r]) = Answered(record[r]) + 1
  BY <1>1, AnsweredAdds
<1>3. \A s \in Runs : s # r => Streams(s)' = Streams(s)
  BY <1>1 DEF Streams
<1>4. usage'[r] = Streams(r)'
  BY <1>1, <1>2 DEF Counted, Streams
<1> QED
  BY <1>1, <1>3, <1>4 DEF Counted

\* Steps that neither record nor count.
LEMMA SameCounts ==
    ASSUME Counted, UNCHANGED <<record, usage>>, plan' # <<>> <=> plan # <<>>
    PROVE  Counted'
  BY DEF Counted, Streams

LEMMA BillInit == Init => Fresh /\ Counted /\ BilledOnce
<1> SUFFICES ASSUME Init PROVE Fresh /\ Counted /\ BilledOnce
  OBVIOUS
<1>1. Fresh /\ BilledOnce
  BY DEF Init, Fresh, BilledOnce
<1>2. Counted
  BY AnsweredNone DEF Init, Counted, Streams
<1> QED
  BY <1>1, <1>2

\* A step of a turn records, counts and bills for that turn only; only its end bills.
LEMMA StepLocal ==
    ASSUME TypeInv, NEW r \in Runs, Step(r)
    PROVE  /\ \A s \in Runs \ {r} :
                 record'[s] = record[s] /\ usage'[s] = usage[s] /\ billed'[s] = billed[s]
           /\ billed' = billed \/ Finish(r)
<1> USE DEF TypeInv, Add, Count
<1>1. CASE CallStep(r)
  BY <1>1 DEF CallStep, DenyCall, BeginCall, EndCall, ReturnCall, loop
<1>2. CASE Prepare(r)
  BY <1>2 DEF Prepare
<1>3. CASE StartStep(r) \/ Delta(r) \/ StreamFails(r) \/ EndWithCalls(r) \/ Exhaust(r) \/ ReportError(r)
  BY <1>3 DEF StartStep, StartStream, Delta, StreamFails, EndWithCalls, Exhaust, ReportError, loop
<1>4. CASE EndAnswer(r)
  BY <1>4 DEF EndAnswer
<1>5. CASE CollectResults(r)
  BY <1>5 DEF CollectResults
<1>6. CASE Finish(r)
  BY <1>6 DEF Finish, loop
<1> QED
  BY <1>1, <1>2, <1>3, <1>4, <1>5, <1>6 DEF Step

\* The counts of the loop's steps: one for each answer that is recorded.
LEMMA StepCounted ==
    ASSUME BillInv, NEW r \in Runs, Step(r)
    PROVE  Counted'
<1>1. TypeInv /\ Counted
  BY DEF BillInv, PlanInv
<1>2. CASE CallStep(r)
  BY <1>1, <1>2, SameCounts DEF CallStep, DenyCall, BeginCall, EndCall, ReturnCall, loop
<1>3. CASE Prepare(r)
  <2>1. CASE UNCHANGED record
    BY <1>1, <1>3, <2>1, SameCounts DEF Prepare
  <2>2. CASE record' = [record EXCEPT ![r] = <<UserMessage>>]
    <3>1. record[r] = <<>>
      BY <1>3 DEF BillInv, Fresh, Prepare, From
    <3>2. /\ record'[r] = <<UserMessage>>
          /\ \A s \in Runs : s # r => record'[s] = record[s]
          /\ UNCHANGED <<usage, plan>>
      BY <1>1, <1>3, <2>2 DEF TypeInv, Prepare
    <3>3. Answered(record'[r]) = Answered(record[r])
      BY <3>1, <3>2, AnsweredNone
    <3>4. \A s \in Runs : Streams(s)' = Streams(s)
      BY <3>2, <3>3 DEF Streams
    <3> QED
      BY <1>1, <3>2, <3>4 DEF Counted
  <2> QED
    BY <1>3, <2>1, <2>2 DEF Prepare
<1>4. CASE StartStep(r) \/ Delta(r) \/ StreamFails(r) \/ EndWithCalls(r) \/ Exhaust(r) \/ ReportError(r)
           \/ Finish(r)
  <2>1. UNCHANGED <<record, usage, plan>>
    BY <1>4 DEF StartStep, StartStream, Delta, StreamFails, EndWithCalls, Exhaust, ReportError,
                Finish, loop
  <2> QED
    BY <1>1, <2>1, SameCounts
<1>5. CASE EndAnswer(r)
  <2> DEFINE made == <<Assistant(r, <<>>)>>
  <2>1. made \in Seq(ChatMessage) /\ made[1].role = "assistant" /\ Len(made) = 1
    <3>1. Assistant(r, <<>>) \in ChatMessage
      BY ONLY <1>1, MadeMessages
    <3>2. Assistant(r, <<>>).role = "assistant"
      BY ONLY DEF Assistant, Message
    <3> QED
      BY ONLY <3>1, <3>2
  <2>2. record' = Add(record, r, made) /\ Count(r, 1) /\ UNCHANGED plan
    BY <1>5 DEF EndAnswer
  <2> HIDE DEF made
  <2>3. Len(made) >= 1 /\ \A k \in 2..Len(made) : made[k].role = "tool"
    BY <2>1
  <2> QED
    BY <1>1, <2>1, <2>2, <2>3, StreamCounts
<1>6. CASE CollectResults(r)
  <2> DEFINE made == <<Assistant(r, calls[r])>> \o Results(r)
             n == Len(calls[r])
  <2>1. /\ n \in Nat /\ made \in Seq(ChatMessage) /\ Len(made) = n + 1
        /\ made[1] = Assistant(r, calls[r])
        /\ \A k \in 1..n : made[k + 1] = ToolResult(r, k)
    BY <1>1, MadeOfStep
  <2>2. record' = Add(record, r, made) /\ Count(r, 1) /\ UNCHANGED plan
    BY <1>6 DEF CollectResults
  <2> HIDE DEF made, n
  <2>3. \A k \in 2..Len(made) : k - 1 \in 1..n /\ k = (k - 1) + 1
    BY <2>1
  <2>4. \A k \in 2..Len(made) : made[k].role = "tool"
    <3>1. \A k \in 1..n : ToolResult(r, k).role = "tool"
      BY ONLY DEF ToolResult, Message
    <3>2. \A k \in 2..Len(made) : made[k] = ToolResult(r, k - 1)
      BY ONLY <2>1, <2>3
    <3> QED
      BY ONLY <2>3, <3>1, <3>2
  <2>5. made[1].role = "assistant" /\ Len(made) >= 1
    BY <2>1 DEF Assistant, Message
  <2> QED
    BY <1>1, <2>1, <2>2, <2>4, <2>5, StreamCounts
<1> QED
  BY <1>2, <1>3, <1>4, <1>5, <1>6 DEF Step

LEMMA StepBill ==
    ASSUME BillInv, ConstantsAssumption, NEW r \in Runs, Step(r)
    PROVE  Fresh' /\ BilledOnce'
<1>1. TypeInv /\ SpawnInv /\ phase \in [Runs -> Phase] /\ Root \in Runs
  BY DEF BillInv, PlanInv, TypeInv, Runs
<1>2. /\ UNCHANGED <<request, plan, facts>>
      /\ phase[r] \notin Ended
      /\ \/ \A s \in Runs \ {r} : phase'[s] = phase[s]
         \/ /\ r = Root /\ phase[Root] = "tools" /\ phase'[Root] = "tools"
            /\ \A s \in Runs : \/ phase'[s] = phase[s]
                               \/ phase[s] = "unborn" /\ phase'[s] = "saved"
                               \/ phase[s] = "saved" /\ phase'[s] = "prepare"
  BY <1>1, StepMoves
<1>3. \A s \in Runs \ {r} :
         record'[s] = record[s] /\ usage'[s] = usage[s] /\ billed'[s] = billed[s]
  BY <1>1, StepLocal
<1>4. phase'[r] \notin {"unborn", "saved", "prepare"}
  <2>1. CASE CallStep(r)
    <3>1. phase[r] = "tools"
      BY <2>1 DEF CallStep, DenyCall, BeginCall, EndCall, ReturnCall, CallIn, From
    <3>2. phase'[r] = phase[r] \/ phase'[r] = "tools"
      BY <1>1, <1>2, <2>1, <3>1 DEF CallStep, DenyCall, BeginCall, EndCall, ReturnCall, From, To
    <3> QED
      BY <3>1, <3>2
  <2>2. CASE Delta(r)
    BY <1>1, <2>2 DEF Delta
  <2>3. CASE ~CallStep(r) /\ ~Delta(r)
    <3>1. \E p \in Phase \ {"unborn", "saved", "prepare"} : To(r, p)
      BY <2>3 DEF Step, Prepare, StartStep, StartStream, StreamFails, EndAnswer, EndWithCalls,
                  CollectResults, Exhaust, Finish, ReportError, Phase
    <3> QED
      BY <1>1, <3>1 DEF To
  <2> QED
    BY <2>1, <2>2, <2>3
<1>5. \A s \in Runs : phase'[s] \in {"unborn", "saved", "prepare"} =>
         s # r /\ phase[s] \in {"unborn", "saved", "prepare"}
  BY <1>2, <1>4
<1>6. phase'[Root] \in {"prepare", "plan"} => phase[Root] \in {"prepare", "plan"}
  <2>1. CASE r # Root
    BY <1>1, <1>2, <2>1
  <2>2. CASE r = Root /\ ~Prepare(r)
    <3>1. Delta(r) \/ CallStep(r) \/ phase'[r] # "plan"
      BY <1>1, <2>2 DEF Step, StartStep, StartStream, StreamFails, EndAnswer, EndWithCalls,
                  CollectResults, Exhaust, Finish, ReportError, To
    <3>2. Delta(r) => phase'[r] = phase[r]
      BY DEF Delta
    <3>3. CallStep(r) => phase'[r] # "plan"
      <4> SUFFICES ASSUME CallStep(r) PROVE phase'[r] # "plan"
        OBVIOUS
      <4>1. phase[r] = "tools"
        BY DEF CallStep, DenyCall, BeginCall, EndCall, ReturnCall, CallIn, From
      <4> QED
        BY <1>1, <4>1 DEF CallStep, DenyCall, BeginCall, EndCall, ReturnCall, From, To
    <3> QED
      BY <1>4, <2>2, <3>1, <3>2, <3>3
  <2>3. CASE r = Root /\ Prepare(r)
    BY <2>3 DEF Prepare, From
  <2> QED
    BY <2>1, <2>2, <2>3
<1>7. Fresh'
  BY <1>2, <1>3, <1>5, <1>6 DEF BillInv, Fresh
<1>8. ASSUME NEW s \in Runs, billed'[s] # -1
      PROVE  phase'[s] \in {"closed", "blank"} /\ billed'[s] = usage'[s]
  <2>1. CASE s # r
    <3>1. phase[s] \in {"closed", "blank"} /\ billed[s] = usage[s]
      BY <1>3, <1>8, <2>1 DEF BillInv, BilledOnce
    <3>2. phase'[s] = phase[s]
      BY <1>2, <2>1, <3>1
    <3> QED
      BY <1>3, <2>1, <3>1, <3>2
  <2>2. CASE s = r
    <3>1. billed[r] = -1
      BY <1>2 DEF BillInv, BilledOnce, Ended
    <3>2. Finish(r)
      BY <1>1, <1>8, <2>2, <3>1, StepLocal
    <3> QED
      BY <1>1, <1>8, <2>2, <3>1, <3>2 DEF Finish, To, TypeInv, loop
  <2> QED
    BY <2>1, <2>2
<1> QED
  BY <1>7, <1>8 DEF BilledOnce

\* The strategy's steps: the planner's stream counts once, and so does the synthesizer's.
LEMMA PlanCounted ==
    ASSUME BillInv, ConstantsAssumption, UsageReports = {TRUE}, PlanStep
    PROVE  Counted'
<1>1. TypeInv /\ Counted /\ Root \in Runs /\ plan \in Seq(PlanStatus)
  BY DEF BillInv, PlanInv, TypeInv, Runs
<1>2. CASE MakePlan
  <2>1. CASE UNCHANGED <<plan, usage>>
    BY <1>1, <1>2, <2>1, SameCounts DEF MakePlan
  <2>2. ASSUME NEW n \in request.sizes, plan' = Statuses(n), Count(Root, 1)
        PROVE  Counted'
    <3>1. n \in Nat \ {0}
      BY <1>1, <2>2 DEF TypeInv, ConstantsAssumption, Request
    <3>2. plan' # <<>> /\ plan = <<>>
      <4>1. 1 \in DOMAIN Statuses(n)
        BY <3>1 DEF Statuses
      <4> QED
        BY <1>2, <2>2, <4>1 DEF MakePlan, From, BillInv, Fresh
    <3>3. UNCHANGED record
      BY <1>2 DEF MakePlan
    <3>4. /\ usage'[Root] = usage[Root] + 1
          /\ \A s \in Runs : s # Root => usage'[s] = usage[s]
      BY <1>1, <2>2 DEF Count, TypeInv
    <3>5. usage[Root] = Answered(record[Root]) + 0 /\ Streams(Root)' = Answered(record[Root]) + 1
      BY <1>1, <3>2, <3>3 DEF Counted, Streams
    <3>6. usage[Root] \in Nat
      BY <1>1 DEF TypeInv
    <3>7. Answered(record[Root]) \in Nat
      <4>1. record[Root] \in Seq(ChatMessage)
        BY <1>1 DEF TypeInv
      <4> QED
        BY <1>1, <4>1, AnsweredNat
    <3>8. usage'[Root] = Streams(Root)'
      BY <3>4, <3>5, <3>7
    <3>9. \A s \in Runs : s # Root => Streams(s)' = Streams(s)
      BY <3>3 DEF Streams
    <3> QED
      BY <1>1, <3>4, <3>8, <3>9 DEF Counted
  <2> QED
    BY <1>2, <2>1, <2>2 DEF MakePlan
<1>3. CASE StartPlanStep
  <2>1. plan' # <<>> <=> plan # <<>>
    <3>1. DOMAIN plan' = DOMAIN plan /\ NextStep \in DOMAIN plan
      BY <1>3 DEF StartPlanStep
    <3> QED
      BY <3>1
  <2> QED
    BY <1>1, <1>3, <2>1, SameCounts DEF StartPlanStep, loop
<1>4. CASE CreateWorker \/ CallWorker \/ StartSynthesis
  <2>1. UNCHANGED <<record, usage, plan>>
    BY <1>4 DEF CreateWorker, CallWorker, StartSynthesis, StartStream, loop
  <2> QED
    BY <1>1, <2>1, SameCounts
<1>5. CASE EndPlanStep
  <2>1. DOMAIN plan' = DOMAIN plan
    BY <1>5 DEF EndPlanStep
  <2>2. plan' # <<>> <=> plan # <<>>
    <3>1. plan' \in Seq(PlanStatus)
      BY <1>1, <1>5, PlanTyped DEF EndPlanStep, PlanStatus
    <3> QED
      BY <1>1, <2>1, <3>1
  <2> QED
    BY <1>1, <1>5, <2>2, SameCounts DEF EndPlanStep, loop
<1>6. CASE EndSynthesis
  <2> DEFINE made == <<Assistant(Root, <<>>)>>
  <2>1. made \in Seq(ChatMessage) /\ made[1].role = "assistant" /\ Len(made) = 1
    <3>1. Assistant(Root, <<>>) \in ChatMessage
      BY ONLY <1>1, MadeMessages
    <3>2. Assistant(Root, <<>>).role = "assistant"
      BY ONLY DEF Assistant, Message
    <3> QED
      BY ONLY <3>1, <3>2
  <2>2. record' = Add(record, Root, made) /\ Count(Root, 1) /\ UNCHANGED plan
    BY <1>6 DEF EndSynthesis
  <2> HIDE DEF made
  <2>3. Len(made) >= 1 /\ \A k \in 2..Len(made) : made[k].role = "tool"
    BY <2>1
  <2> QED
    BY <1>1, <2>1, <2>2, <2>3, StreamCounts
<1> QED
  BY <1>2, <1>3, <1>4, <1>5, <1>6 DEF PlanStep

LEMMA PlanBill ==
    ASSUME BillInv, ConstantsAssumption, PlanStep
    PROVE  Fresh' /\ BilledOnce'
<1>1. /\ Root \in Runs /\ Root \notin SubAgents /\ SubAgents \subseteq Runs
      /\ phase \in [Runs -> Phase] /\ record \in [Runs -> Seq(ChatMessage)]
      /\ usage \in [Runs -> Nat]
  BY DEF BillInv, PlanInv, TypeInv, ConstantsAssumption, Runs
<1>2. /\ phase[Root] \in {"plan", "steps", "create", "call", "await", "synth"}
      /\ phase'[Root] \notin {"unborn", "saved", "prepare", "plan"}
      /\ \A s \in SubAgents : \/ phase'[s] = phase[s]
                              \/ phase[s] = "unborn" /\ phase'[s] = "saved"
                              \/ phase[s] = "saved" /\ phase'[s] = "prepare"
  <2>1. CASE MakePlan \/ StartPlanStep \/ EndPlanStep \/ StartSynthesis \/ EndSynthesis
    <3>1. \E p \in {"steps", "failed", "crashed", "create", "synth", "finish"} : To(Root, p)
      BY <2>1 DEF MakePlan, StartPlanStep, EndPlanStep, StartSynthesis, StartStream, EndSynthesis
    <3>2. phase[Root] \in {"plan", "steps", "await", "synth"}
      BY <2>1 DEF MakePlan, StartPlanStep, EndPlanStep, StartSynthesis, EndSynthesis, From
    <3> QED
      BY <1>1, <3>1, <3>2 DEF To
  <2>2. CASE CreateWorker
    BY <1>1, <2>2 DEF CreateWorker, From, To
  <2>3. CASE CallWorker
    <3>1. phase[Root] = "call" /\ Worker \in SubAgents /\ phase[Worker] = "saved"
      BY <2>3 DEF CallWorker, From, BillInv, PlanInv, WorkerReady
    <3> QED
      BY <1>1, <2>3, <3>1 DEF CallWorker
  <2> QED
    BY <2>1, <2>2, <2>3 DEF PlanStep
<1>3. /\ billed' = billed
      /\ \A s \in SubAgents : record'[s] = record[s] /\ usage'[s] = usage[s]
  BY <1>1 DEF PlanStep, MakePlan, StartPlanStep, CreateWorker, CallWorker, EndPlanStep,
              StartSynthesis, StartStream, EndSynthesis, Add, Count, loop
<1>4. \A s \in Runs : s = Root \/ s \in SubAgents
  BY DEF Runs
<1>5. billed[Root] = -1
  BY <1>1, <1>2 DEF BillInv, BilledOnce
<1>6. Fresh'
  BY <1>2, <1>3, <1>4 DEF BillInv, Fresh
<1>7. BilledOnce'
  BY <1>2, <1>3, <1>4, <1>5 DEF BillInv, BilledOnce
<1> QED
  BY <1>6, <1>7

LEMMA BillNext ==
    ASSUME BillInv, UsageReports = {TRUE}, [Next]_vars
    PROVE  Fresh' /\ Counted' /\ BilledOnce'
<1>1. Root \in Runs /\ phase \in [Runs -> Phase]
  BY DEF BillInv, PlanInv, TypeInv, Runs
<1>2. CASE Break
  <2>1. UNCHANGED <<record, usage, billed, plan>> /\ phase[Root] \in {"raised", "crashed"}
    BY <1>2 DEF Break, loop
  <2>2. phase' = [phase EXCEPT ![Root] = "closed"]
    BY <1>2 DEF Break, To
  <2>3. Counted'
    BY <2>1, SameCounts DEF BillInv
  <2> QED
    BY <1>1, <2>1, <2>2, <2>3 DEF BillInv, Fresh, BilledOnce
<1>3. CASE Leave
  <2>1. UNCHANGED <<record, usage, billed, plan>>
    BY <1>3 DEF Leave, loop
  <2>2. \A r \in Runs : phase'[r] = IF Over(r) \/ phase[r] \in {"unborn", "saved"}
                                     THEN phase[r] ELSE "cancelled"
    BY <1>3 DEF Leave
  <2>3. Counted'
    BY <2>1, SameCounts DEF BillInv
  <2>4. \A r \in Runs : phase[r] \in {"closed", "blank"} => Over(r)
    BY DEF Over
  <2> QED
    BY <1>1, <2>1, <2>2, <2>3, <2>4 DEF BillInv, Fresh, BilledOnce
<1>4. CASE UNCHANGED vars
  BY <1>4, SameCounts DEF vars, loop, BillInv, Fresh, BilledOnce
<1> QED
  BY <1>2, <1>3, <1>4, StepCounted, StepBill, PlanCounted, PlanBill, ConstantsAssumption DEF Next

\* When every model stream reports its usage, a turn that is billed is billed for each of its
\* streams once, the planner's and the synthesizer's too, however it got to its end.
THEOREM BilledForEveryStreamHolds ==
    UsageReports = {TRUE} => (Spec => []BilledForEveryStream)
<1> SUFFICES ASSUME UsageReports = {TRUE} PROVE Spec => []BilledForEveryStream
  OBVIOUS
<1>1. Init => BillInv
  BY SpawnInit, TypeInit, PlanInit, BillInit DEF BillInv, PlanInv
<1>2. BillInv /\ [Next]_vars => BillInv'
  BY SpawnNext, TypeNext, PlanNext, BillNext, ConstantsAssumption DEF BillInv, PlanInv
<1>3. BillInv => BilledForEveryStream
  BY DEF BillInv, Counted, BilledOnce, BilledForEveryStream
<1> QED
  BY <1>1, <1>2, <1>3, PTL DEF Spec

-----------------------------------------------------------------------------
(* The frames of a stream, one after the other, and what they add up to.   *)

\* What frames are about, their types, and the frames.
Subject == {<<>>} \cup {<<n>> : n \in Nat} \cup (Nat \X Nat) \cup (Nat \X PlanStatus)
FrameType == {"start", "finish", "done", "error", "abort", "start-step", "finish-step",
              "reasoning-start", "reasoning-delta", "reasoning-end",
              "text-start", "text-delta", "text-end", "data-plan", "data-plan-step",
              "tool-input-start", "tool-input-available", "tool-output-available"}
FrameSet == [type : FrameType, of : Subject]

\* What a frame adds to the contents and to the progress.
ContentOf(frame) ==
    IF /\ frame.type \in {"reasoning-delta", "text-delta", "tool-input-available"}
       /\ frame.of[1] < MaxIterations
    THEN <<Content(frame)>> ELSE <<>>
ProgressOf(frame) == IF frame.type = "data-plan-step" THEN <<frame.of>> ELSE <<>>

\* All contents, and all that progress can be.
FrameContent == {Content(f) : f \in FrameSet}
FrameSubject == {f.of : f \in FrameSet}

\* The types of what a frame adds.
LEMMA OfTyped ==
    ASSUME NEW f \in FrameSet
    PROVE  ContentOf(f) \in Seq(FrameContent) /\ ProgressOf(f) \in Seq(FrameSubject)
<1>1. Content(f) \in FrameContent /\ f.of \in FrameSubject
  BY DEF FrameContent, FrameSubject
<1>2. \A T : \A x \in T : <<x>> \in Seq(T) /\ <<>> \in Seq(T)
  OBVIOUS
<1>3. <<Content(f)>> \in Seq(FrameContent) /\ <<>> \in Seq(FrameContent)
          /\ <<f.of>> \in Seq(FrameSubject) /\ <<>> \in Seq(FrameSubject)
  BY ONLY <1>1, <1>2
<1> QED BY <1>3 DEF ContentOf, ProgressOf

\* The contents of frames and more frames.
LEMMA ContentsCat ==
    ASSUME NEW s \in Seq(FrameSet), NEW t \in Seq(FrameSet)
    PROVE  /\ Contents(s) \in Seq(FrameContent)
           /\ Contents(s \o t) = Contents(s) \o Contents(t)
<1> DEFINE g == [f \in FrameSet |-> ContentOf(f)]
<1>1. \A f \in FrameSet : ContentOf(f) \in Seq(FrameContent)
  BY OfTyped
<1>2. \A q \in Seq(FrameSet) : Contents(q) = Mapped(g, q)
  <2> SUFFICES ASSUME NEW q \in Seq(FrameSet)
               PROVE  Contents(q) = Mapped(g, q)
    OBVIOUS
  <2>1. \A i \in DOMAIN q : g[q[i]] = ContentOf(q[i])
    OBVIOUS
  <2>2. [i \in DOMAIN q |-> g[q[i]]] = [i \in DOMAIN q |-> ContentOf(q[i])]
    BY <2>1
  <2> QED BY <2>2 DEF Contents, ContentOf, Mapped
<1>0. g \in [FrameSet -> Seq(FrameContent)]
  BY <1>1
<1> HIDE DEF g
<1>4. Cat(Mapped(g, s), Mapped(g, t)) = Mapped(g, Cat(s, t)) /\ Mapped(g, s) \in Seq(FrameContent)
  BY <1>0, FlattenMapped
<1>3. s \o t \in Seq(FrameSet)
  OBVIOUS
<1> QED BY <1>2, <1>3, <1>4 DEF Cat

\* The progress of frames and more frames.
LEMMA ProgressCat ==
    ASSUME NEW s \in Seq(FrameSet), NEW t \in Seq(FrameSet)
    PROVE  /\ Progress(s) \in Seq(FrameSubject)
           /\ Progress(s \o t) = Progress(s) \o Progress(t)
<1> DEFINE g == [f \in FrameSet |-> ProgressOf(f)]
<1>1. \A f \in FrameSet : ProgressOf(f) \in Seq(FrameSubject)
  BY OfTyped
<1>2. \A q \in Seq(FrameSet) : Progress(q) = Mapped(g, q)
  <2> SUFFICES ASSUME NEW q \in Seq(FrameSet)
               PROVE  Progress(q) = Mapped(g, q)
    OBVIOUS
  <2>1. \A i \in DOMAIN q : g[q[i]] = ProgressOf(q[i])
    OBVIOUS
  <2>2. [i \in DOMAIN q |-> g[q[i]]] = [i \in DOMAIN q |-> ProgressOf(q[i])]
    BY <2>1
  <2> QED BY <2>2 DEF Progress, ProgressOf, Mapped
<1>0. g \in [FrameSet -> Seq(FrameSubject)]
  BY <1>1
<1> HIDE DEF g
<1>4. Cat(Mapped(g, s), Mapped(g, t)) = Mapped(g, Cat(s, t)) /\ Mapped(g, s) \in Seq(FrameSubject)
  BY <1>0, FlattenMapped
<1>3. s \o t \in Seq(FrameSet)
  OBVIOUS
<1> QED BY <1>2, <1>3, <1>4 DEF Cat

\* One frame.
LEMMA OfOne ==
    ASSUME NEW f \in FrameSet
    PROVE  Contents(<<f>>) = ContentOf(f) /\ Progress(<<f>>) = ProgressOf(f)
<1>1. <<ContentOf(f)>> = [i \in DOMAIN <<f>> |-> ContentOf(<<f>>[i])]
  OBVIOUS
<1>2. <<ProgressOf(f)>> = [i \in DOMAIN <<f>> |-> ProgressOf(<<f>>[i])]
  OBVIOUS
<1>3. ContentOf(f) \in Seq(FrameContent) /\ ProgressOf(f) \in Seq(FrameSubject)
  BY OfTyped
<1>4. Contents(<<f>>) = FlattenSeq(<<ContentOf(f)>>)
  BY <1>1 DEF Contents, ContentOf
<1>5. Progress(<<f>>) = FlattenSeq(<<ProgressOf(f)>>)
  BY <1>2 DEF Progress, ProgressOf
<1> QED BY <1>3, <1>4, <1>5, FlattenFew

\* The frames of a type, and what they are about.
LEMMA PlacesCat ==
    ASSUME NEW s \in Seq(FrameSet), NEW t \in Seq(FrameSet), NEW type
    PROVE  /\ Sent(s \o t, type) <=> Sent(s, type) \/ Sent(t, type)
           /\ About(s \o t, type) = About(s, type) \cup About(t, type)
           /\ Number(s, type) \in Nat
           /\ ~Sent(t, type) => Number(s \o t, type) = Number(s, type) /\ About(t, type) = {}
<1> DEFINE c == s \o t
<1>1. /\ DOMAIN c = 1..(Len(s) + Len(t)) /\ DOMAIN s = 1..Len(s) /\ DOMAIN t = 1..Len(t)
      /\ Len(s) \in Nat /\ Len(t) \in Nat
      /\ \A i \in 1..Len(s) : c[i] = s[i]
      /\ \A i \in 1..Len(t) : c[Len(s) + i] = t[i]
  BY CatElements
<1>2. \A i \in DOMAIN c : i \in 1..Len(s) \/ \E k \in 1..Len(t) : i = Len(s) + k
  BY CatIndex
<1> HIDE DEF c
<1>3. /\ \A i \in 1..Len(s) : i \in DOMAIN c
      /\ \A i \in 1..Len(t) : Len(s) + i \in DOMAIN c
  BY <1>1
<1>4. Sent(c, type) <=> Sent(s, type) \/ Sent(t, type)
  BY <1>1, <1>2, <1>3 DEF Sent
<1>5. About(c, type) = About(s, type) \cup About(t, type)
  <2>1. ASSUME NEW x \in About(c, type) PROVE x \in About(s, type) \cup About(t, type)
    <3>1. PICK i \in DOMAIN c : c[i].type = type /\ x = c[i].of
      BY <2>1 DEF About, Places
    <3> QED BY <1>1, <1>2, <3>1 DEF About, Places
  <2>2. ASSUME NEW x \in About(s, type) PROVE x \in About(c, type)
    <3>1. PICK i \in DOMAIN s : s[i].type = type /\ x = s[i].of
      BY <2>2 DEF About, Places
    <3> QED BY <1>1, <1>3, <3>1 DEF About, Places
  <2>3. ASSUME NEW x \in About(t, type) PROVE x \in About(c, type)
    <3>1. PICK i \in DOMAIN t : t[i].type = type /\ x = t[i].of
      BY <2>3 DEF About, Places
    <3> QED BY <1>1, <1>3, <3>1 DEF About, Places
  <2> QED BY <2>1, <2>2, <2>3
<1>6. Number(s, type) \in Nat
  <2>1. Places(s, type) \in SUBSET (1..Len(s))
    BY <1>1 DEF Places
  <2> QED BY <1>1, <2>1, IndexCount DEF Number
<1>7. ASSUME ~Sent(t, type) PROVE Number(c, type) = Number(s, type) /\ About(t, type) = {}
  <2>1. \A i \in DOMAIN c : c[i].type = type => i \in DOMAIN s
    BY <1>1, <1>2, <1>7 DEF Sent
  <2>2. Places(c, type) = Places(s, type)
    BY <1>1, <1>3, <2>1 DEF Places
  <2> QED BY <1>7, <2>2 DEF Number, About, Sent, Places
<1> QED BY <1>4, <1>5, <1>6, <1>7 DEF c

\* One frame more.
LEMMA OneMore ==
    ASSUME NEW s \in Seq(FrameSet), NEW f \in FrameSet
    PROVE  /\ s \o <<f>> \in Seq(FrameSet)
           /\ \A type : Sent(s \o <<f>>, type) <=> Sent(s, type) \/ f.type = type
           /\ \A type : Number(s, type) \in Nat
           /\ \A type : Number(s \o <<f>>, type) =
                            IF f.type = type THEN Number(s, type) + 1 ELSE Number(s, type)
           /\ \A type : About(s \o <<f>>, type) =
                            IF f.type = type THEN About(s, type) \cup {f.of} ELSE About(s, type)
           /\ Contents(s \o <<f>>) = Contents(s) \o ContentOf(f)
           /\ Progress(s \o <<f>>) = Progress(s) \o ProgressOf(f)
<1> DEFINE c == s \o <<f>>
<1>1. <<f>> \in Seq(FrameSet) /\ c \in Seq(FrameSet)
  OBVIOUS
<1>2. /\ DOMAIN c = 1..(Len(s) + 1) /\ DOMAIN s = 1..Len(s) /\ Len(s) \in Nat
      /\ c[Len(s) + 1] = f /\ \A i \in 1..Len(s) : c[i] = s[i]
  OBVIOUS
<1>3. \A type : /\ Sent(<<f>>, type) <=> f.type = type
                /\ About(<<f>>, type) = IF f.type = type THEN {f.of} ELSE {}
  <2>1. DOMAIN <<f>> = {1} /\ <<f>>[1] = f
    OBVIOUS
  <2> QED BY <2>1 DEF Sent, About, Places
<1>4. Contents(c) = Contents(s) \o ContentOf(f) /\ Progress(c) = Progress(s) \o ProgressOf(f)
  BY <1>1, ContentsCat, ProgressCat, OfOne
<1>5. \A type : /\ Sent(c, type) <=> Sent(s, type) \/ f.type = type
                /\ Number(s, type) \in Nat
                /\ About(c, type) = IF f.type = type THEN About(s, type) \cup {f.of} ELSE About(s, type)
                /\ f.type # type => Number(c, type) = Number(s, type)
  <2> SUFFICES ASSUME NEW type
               PROVE  /\ Sent(c, type) <=> Sent(s, type) \/ f.type = type
                      /\ Number(s, type) \in Nat
                      /\ About(c, type) = IF f.type = type THEN About(s, type)
                           \cup {f.of} ELSE About(s, type)
                      /\ f.type # type => Number(c, type) = Number(s, type)
    OBVIOUS
  <2>1. /\ Sent(c, type) <=> Sent(s, type) \/ Sent(<<f>>, type)
        /\ About(c, type) = About(s, type) \cup About(<<f>>, type)
        /\ Number(s, type) \in Nat
        /\ ~Sent(<<f>>, type) => Number(c, type) = Number(s, type)
    BY <1>1, PlacesCat
  <2> HIDE DEF c
  <2> QED BY <1>3, <2>1
<1>6. Number(c, f.type) = Number(s, f.type) + 1
  <2> DEFINE A == Places(s, f.type)
             B == Places(c, f.type)
  <2>1. A \in SUBSET (1..Len(s)) /\ Len(s) + 1 \notin A
    BY <1>2 DEF Places
  <2>2. B = A \cup {Len(s) + 1}
    <3>1. \A i \in 1..(Len(s) + 1) : i \in 1..Len(s) \/ i = Len(s) + 1
      BY <1>2
    <3> QED BY <1>2, <3>1 DEF Places
  <2>3. IsFiniteSet(A)
    <3>1. IsFiniteSet(1..Len(s))
      BY <1>2, FS_Interval, 1 \in Int, Len(s) \in Int
    <3> HIDE DEF A
    <3> QED BY <2>1, <3>1, FS_Subset
  <2> HIDE DEF A, B
  <2>4. Cardinality(B) = Cardinality(A) + 1
    BY <2>1, <2>2, <2>3, FS_AddElement
  <2> QED BY <2>4 DEF Number, A, B
<1> HIDE DEF c
<1>7. c \in Seq(FrameSet)
  BY <1>1 DEF c
<1> QED BY <1>4, <1>5, <1>6, <1>7 DEF c

-----------------------------------------------------------------------------
(* What the frames of a stream that goes on tell of the turn, and what one *)
(* more frame changes about it.                                            *)

\* The types that tell how a stream ended.
Ends == {"done", "error", "abort"}

\* What the frames s that end nothing tell: n steps begun and k finished, the open blocks O,
\* the calls A announced and B answered, the contents C and the progress G.
Tells(s, n, k, O, A, B, C, G) ==
    /\ s \in Seq(FrameSet)
    /\ Number(s, "start-step") = n
    /\ Number(s, "finish-step") = k
    /\ \A b \in Block : Number(s, StartOf[b]) = Number(s, EndOf[b]) + (IF b \in O THEN 1 ELSE 0)
    /\ About(s, "tool-input-start") = A
    /\ About(s, "tool-output-available") = B
    /\ Contents(s) = C
    /\ Progress(s) = G
    /\ \A type \in Ends : ~Sent(s, type)

\* A frame has the type and the subject it is made of.
LEMMA FrameTyped ==
    ASSUME NEW type \in FrameType, NEW of \in Subject
    PROVE  Frame(type, of) \in FrameSet /\ Frame(type, of).type = type /\ Frame(type, of).of = of
  BY DEF Frame, FrameSet

\* Frames that are neither contents nor progress.
LEMMA OfOther ==
    ASSUME NEW f
    PROVE  /\ f.type \notin {"reasoning-delta", "text-delta", "tool-input-available"} => ContentOf(f) = <<>>
           /\ f.type # "data-plan-step" => ProgressOf(f) = <<>>
  BY DEF ContentOf, ProgressOf

\* The blocks and the types of their frames.
LEMMA BlockTypes ==
    /\ Block = {"reasoning", "text"}
    /\ StartOf["reasoning"] = "reasoning-start" /\ StartOf["text"] = "text-start"
    /\ EndOf["reasoning"] = "reasoning-end" /\ EndOf["text"] = "text-end"
    /\ DeltaOf["reasoning"] = "reasoning-delta" /\ DeltaOf["text"] = "text-delta"
  BY DEF Block, StartOf, EndOf, DeltaOf

\* One frame more, in the words of Tells.
LEMMA TellsOne ==
    ASSUME NEW s \in Seq(FrameSet), NEW f \in FrameSet
    PROVE  /\ Cat(s, <<f>>) \in Seq(FrameSet)
           /\ \A type : Sent(Cat(s, <<f>>), type) <=> Sent(s, type) \/ f.type = type
           /\ \A type : Number(s, type) \in Nat
           /\ \A type : f.type # type => /\ Number(Cat(s, <<f>>), type) = Number(s, type)
                                         /\ About(Cat(s, <<f>>), type) = About(s, type)
           /\ Number(Cat(s, <<f>>), f.type) = Number(s, f.type) + 1
           /\ About(Cat(s, <<f>>), f.type) = About(s, f.type) \cup {f.of}
           /\ Contents(Cat(s, <<f>>)) = Cat(Contents(s), ContentOf(f))
           /\ Progress(Cat(s, <<f>>)) = Cat(Progress(s), ProgressOf(f))
  BY OneMore DEF Cat

\* Types that none of what Tells speaks of depends on, but the contents and the progress.
Quiet == {"start", "finish", "data-plan", "data-plan-step", "reasoning-delta", "text-delta",
          "tool-input-available"}

\* A frame that neither begins nor ends anything tells its content and its progress.
LEMMA TellsQuiet ==
    ASSUME NEW s, NEW n, NEW k, NEW O, NEW A, NEW B, NEW C, NEW G, Tells(s, n, k, O, A, B, C, G),
           NEW f \in FrameSet, f.type \in Quiet
    PROVE  Tells(Cat(s, <<f>>), n, k, O, A, B, Cat(C, ContentOf(f)), Cat(G, ProgressOf(f)))
<1> DEFINE c == Cat(s, <<f>>)
<1>0. s \in Seq(FrameSet)
  BY DEF Tells
<1>1. /\ c \in Seq(FrameSet)
      /\ \A type : Sent(c, type) <=> Sent(s, type) \/ f.type = type
      /\ \A type : f.type # type => Number(c, type) = Number(s, type) /\ About(c, type) = About(s, type)
      /\ Contents(c) = Cat(Contents(s), ContentOf(f))
      /\ Progress(c) = Cat(Progress(s), ProgressOf(f))
  BY <1>0, TellsOne
<1> HIDE DEF c
<1>2. f.type \notin Ends \cup {"start-step", "finish-step", "tool-input-start", "tool-output-available"}
  BY DEF Quiet, Ends
<1>3. \A b \in Block : f.type # StartOf[b] /\ f.type # EndOf[b]
  BY BlockTypes DEF Quiet
<1>4. \A b \in Block : Number(c, StartOf[b]) = Number(s, StartOf[b])
          /\ Number(c, EndOf[b]) = Number(s, EndOf[b])
  BY <1>1, <1>3
<1>5. Contents(c) = Cat(C, ContentOf(f)) /\ Progress(c) = Cat(G, ProgressOf(f))
  BY <1>1 DEF Tells
<1> QED BY <1>1, <1>2, <1>4, <1>5 DEF Tells, c

\* What a frame without contents and progress leaves alone.
LEMMA TellsBut ==
    ASSUME NEW s, NEW n, NEW k, NEW O, NEW A, NEW B, NEW C, NEW G, Tells(s, n, k, O, A, B, C, G),
           NEW f \in FrameSet, f.type \notin Ends,
           f.type \notin {"reasoning-delta", "text-delta", "tool-input-available", "data-plan-step"}
    PROVE  /\ s \in Seq(FrameSet) /\ Cat(s, <<f>>) \in Seq(FrameSet)
           /\ \A type \in Ends : ~Sent(Cat(s, <<f>>), type)
           /\ \A type : Number(s, type) \in Nat
           /\ \A type : f.type # type => /\ Number(Cat(s, <<f>>), type) = Number(s, type)
                                         /\ About(Cat(s, <<f>>), type) = About(s, type)
           /\ Number(Cat(s, <<f>>), f.type) = Number(s, f.type) + 1
           /\ About(Cat(s, <<f>>), f.type) = About(s, f.type) \cup {f.of}
           /\ Contents(Cat(s, <<f>>)) = C
           /\ Progress(Cat(s, <<f>>)) = G
<1>1. s \in Seq(FrameSet) /\ C = Contents(s) /\ G = Progress(s) /\ \A type \in Ends : ~Sent(s, type)
  BY DEF Tells
<1>2. C \in Seq(FrameContent) /\ G \in Seq(FrameSubject)
  BY <1>1, ContentsCat, ProgressCat
<1>3. Cat(C, <<>>) = C /\ Cat(G, <<>>) = G
  BY <1>2 DEF Cat
<1>4. ContentOf(f) = <<>> /\ ProgressOf(f) = <<>>
  BY OfOther
<1>5. Contents(Cat(s, <<f>>)) = Cat(Contents(s), ContentOf(f))
          /\ Progress(Cat(s, <<f>>)) = Cat(Progress(s), ProgressOf(f))
  BY <1>1, TellsOne
<1>6. Contents(Cat(s, <<f>>)) = C /\ Progress(Cat(s, <<f>>)) = G
  BY <1>1, <1>3, <1>4, <1>5
<1>7. /\ Cat(s, <<f>>) \in Seq(FrameSet)
      /\ \A type : Sent(Cat(s, <<f>>), type) <=> Sent(s, type) \/ f.type = type
      /\ \A type : Number(s, type) \in Nat
      /\ \A type : f.type # type => /\ Number(Cat(s, <<f>>), type) = Number(s, type)
                                    /\ About(Cat(s, <<f>>), type) = About(s, type)
      /\ Number(Cat(s, <<f>>), f.type) = Number(s, f.type) + 1
      /\ About(Cat(s, <<f>>), f.type) = About(s, f.type) \cup {f.of}
  BY <1>1, TellsOne
<1> QED BY <1>1, <1>6, <1>7

\* A step begins, and a step is finished.
LEMMA TellsStep ==
    ASSUME NEW s, NEW n, NEW k, NEW O, NEW A, NEW B, NEW C, NEW G, Tells(s, n, k, O, A, B, C, G),
           NEW f \in FrameSet
    PROVE  /\ f.type = "start-step" => Tells(Cat(s, <<f>>), n + 1, k, O, A, B, C, G)
           /\ f.type = "finish-step" => Tells(Cat(s, <<f>>), n, k + 1, O, A, B, C, G)
<1> DEFINE c == Cat(s, <<f>>)
<1>1. SUFFICES ASSUME f.type \in {"start-step", "finish-step"}
               PROVE  /\ f.type = "start-step" => Tells(c, n + 1, k, O, A, B, C, G)
                      /\ f.type = "finish-step" => Tells(c, n, k + 1, O, A, B, C, G)
  OBVIOUS
<1>2. f.type \notin Ends
      /\ f.type \notin {"reasoning-delta", "text-delta", "tool-input-available", "data-plan-step"}
  BY <1>1 DEF Ends
<1>3. /\ c \in Seq(FrameSet)
      /\ \A type \in Ends : ~Sent(c, type)
      /\ \A type : f.type # type => Number(c, type) = Number(s, type) /\ About(c, type) = About(s, type)
      /\ Number(c, f.type) = Number(s, f.type) + 1
      /\ Contents(c) = C /\ Progress(c) = G
  BY <1>2, TellsBut
<1> HIDE DEF c
<1>4. \A b \in Block : f.type # StartOf[b] /\ f.type # EndOf[b]
  BY <1>1, BlockTypes
<1>5. \A b \in Block : Number(c, StartOf[b]) = Number(s, StartOf[b])
          /\ Number(c, EndOf[b]) = Number(s, EndOf[b])
  BY <1>3, <1>4
<1> QED BY <1>1, <1>3, <1>5 DEF Tells, c

\* A block is opened, and an open block closed.
LEMMA TellsBlock ==
    ASSUME NEW s, NEW n, NEW k, NEW O, NEW A, NEW B, NEW C, NEW G, Tells(s, n, k, O, A, B, C, G),
           NEW f \in FrameSet, NEW b \in Block
    PROVE  /\ f.type = StartOf[b] /\ b \notin O => Tells(Cat(s, <<f>>), n, k, O \cup {b}, A, B, C, G)
           /\ f.type = EndOf[b] /\ b \in O => Tells(Cat(s, <<f>>), n, k, O \ {b}, A, B, C, G)
<1> DEFINE c == Cat(s, <<f>>)
<1>1. SUFFICES ASSUME f.type \in {StartOf[b], EndOf[b]}
               PROVE  /\ f.type = StartOf[b] /\ b \notin O => Tells(c, n, k, O \cup {b}, A, B, C, G)
                      /\ f.type = EndOf[b] /\ b \in O => Tells(c, n, k, O \ {b}, A, B, C, G)
  OBVIOUS
<1>2. f.type \in {"reasoning-start", "text-start", "reasoning-end", "text-end"}
  BY <1>1, BlockTypes
<1>3. f.type \notin Ends
      /\ f.type \notin {"reasoning-delta", "text-delta", "tool-input-available", "data-plan-step"}
  BY <1>2 DEF Ends
<1>4. /\ c \in Seq(FrameSet)
      /\ \A type \in Ends : ~Sent(c, type)
      /\ \A type : f.type # type => Number(c, type) = Number(s, type) /\ About(c, type) = About(s, type)
      /\ \A type : Number(s, type) \in Nat
      /\ Number(c, f.type) = Number(s, f.type) + 1
      /\ Contents(c) = C /\ Progress(c) = G
  BY <1>3, TellsBut
<1> HIDE DEF c
<1>5. /\ Number(c, "start-step") = n /\ Number(c, "finish-step") = k
      /\ About(c, "tool-input-start") = A /\ About(c, "tool-output-available") = B
  BY <1>2, <1>4 DEF Tells
<1>6. \A a \in Block : Number(s, StartOf[a]) = Number(s, EndOf[a]) + (IF a \in O THEN 1 ELSE 0)
  BY DEF Tells
<1>7. \A a \in Block : StartOf[a] # EndOf[a]
                       /\ (a # b => StartOf[a] \notin {StartOf[b], EndOf[b]} /\ EndOf[a] \notin {StartOf[b], EndOf[b]})
  BY BlockTypes
<1>8. ASSUME f.type = StartOf[b], b \notin O
      PROVE  Tells(c, n, k, O \cup {b}, A, B, C, G)
  <2>1. \A a \in Block : Number(c, StartOf[a]) = Number(c, EndOf[a]) + (IF a \in O \cup {b} THEN 1 ELSE 0)
    <3> SUFFICES ASSUME NEW a \in Block
                 PROVE  Number(c, StartOf[a]) = Number(c, EndOf[a]) + (IF a \in O \cup {b} THEN 1 ELSE 0)
      OBVIOUS
    <3>1. Number(c, EndOf[a]) = Number(s, EndOf[a]) /\ Number(s, EndOf[a]) \in Nat
      BY <1>4, <1>7, <1>8
    <3>2. CASE a = b
      BY <1>4, <1>6, <1>8, <3>1, <3>2
    <3>3. CASE a # b
      BY <1>4, <1>6, <1>7, <1>8, <3>1, <3>3
    <3> QED BY <3>2, <3>3
  <2> QED BY <1>4, <1>5, <2>1 DEF Tells
<1>9. ASSUME f.type = EndOf[b], b \in O
      PROVE  Tells(c, n, k, O \ {b}, A, B, C, G)
  <2>1. \A a \in Block : Number(c, StartOf[a]) = Number(c, EndOf[a]) + (IF a \in O \ {b} THEN 1 ELSE 0)
    <3> SUFFICES ASSUME NEW a \in Block
                 PROVE  Number(c, StartOf[a]) = Number(c, EndOf[a]) + (IF a \in O \ {b} THEN 1 ELSE 0)
      OBVIOUS
    <3>1. Number(c, StartOf[a]) = Number(s, StartOf[a]) /\ Number(s, EndOf[a]) \in Nat
      BY <1>4, <1>7, <1>9
    <3>2. CASE a = b
      BY <1>4, <1>6, <1>9, <3>1, <3>2
    <3>3. CASE a # b
      BY <1>4, <1>6, <1>7, <1>9, <3>1, <3>3
    <3> QED BY <3>2, <3>3
  <2> QED BY <1>4, <1>5, <2>1 DEF Tells
<1> QED BY <1>8, <1>9

\* A call is announced, and a call is answered.
LEMMA TellsCall ==
    ASSUME NEW s, NEW n, NEW k, NEW O, NEW A, NEW B, NEW C, NEW G, Tells(s, n, k, O, A, B, C, G),
           NEW f \in FrameSet
    PROVE  /\ f.type = "tool-input-start" => Tells(Cat(s, <<f>>), n, k, O, A \cup {f.of}, B, C, G)
           /\ f.type = "tool-output-available" => Tells(Cat(s, <<f>>), n, k, O, A, B \cup {f.of}, C, G)
<1> DEFINE c == Cat(s, <<f>>)
<1>1. SUFFICES ASSUME f.type \in {"tool-input-start", "tool-output-available"}
               PROVE  /\ f.type = "tool-input-start" => Tells(c, n, k, O, A \cup {f.of}, B, C, G)
                      /\ f.type = "tool-output-available" => Tells(c, n, k, O, A, B \cup {f.of}, C, G)
  OBVIOUS
<1>2. f.type \notin Ends
      /\ f.type \notin {"reasoning-delta", "text-delta", "tool-input-available", "data-plan-step"}
  BY <1>1 DEF Ends
<1>3. /\ c \in Seq(FrameSet)
      /\ \A type \in Ends : ~Sent(c, type)
      /\ \A type : f.type # type => Number(c, type) = Number(s, type) /\ About(c, type) = About(s, type)
      /\ About(c, f.type) = About(s, f.type) \cup {f.of}
      /\ Contents(c) = C /\ Progress(c) = G
  BY <1>2, TellsBut
<1> HIDE DEF c
<1>4. \A b \in Block : f.type # StartOf[b] /\ f.type # EndOf[b]
  BY <1>1, BlockTypes
<1>5. \A b \in Block : Number(c, StartOf[b]) = Number(s, StartOf[b])
          /\ Number(c, EndOf[b]) = Number(s, EndOf[b])
  BY <1>3, <1>4
<1> QED BY <1>1, <1>3, <1>5 DEF Tells, c

-----------------------------------------------------------------------------
(* The frames that one step sends together.                                *)

\* The laws of Cat.
LEMMA CatAll ==
    ASSUME NEW T
    PROVE  /\ \A x, y \in Seq(T) : Cat(x, y) \in Seq(T)
           /\ \A x, y, z \in Seq(T) : Cat(x, Cat(y, z)) = Cat(Cat(x, y), z)
           /\ \A x \in Seq(T) : Cat(x, <<>>) = x /\ Cat(<<>>, x) = x
           /\ \A x \in T : <<x>> \in Seq(T)
<1>1. \A x, y, z \in Seq(T) : Cat(x, Cat(y, z)) = Cat(Cat(x, y), z)
  BY ConcatAssociative DEF Cat
<1>2. \A x, y \in Seq(T) : Cat(x, y) \in Seq(T)
  BY DEF Cat
<1>3. \A x \in Seq(T) : Cat(x, <<>>) = x /\ Cat(<<>>, x) = x
  BY DEF Cat
<1>4. \A x \in T : <<x>> \in Seq(T)
  OBVIOUS
<1> QED BY <1>1, <1>2, <1>3, <1>4

\* Two elements are added one after the other.
LEMMA CatTwo ==
    ASSUME NEW T, NEW s \in Seq(T), NEW x \in T, NEW y \in T
    PROVE  Cat(s, <<x, y>>) = Cat(Cat(s, <<x>>), <<y>>)
<1>1. <<x>> \in Seq(T) /\ <<y>> \in Seq(T)
  OBVIOUS
<1>2. <<x, y>> = <<x>> \o <<y>>
  <2>1. Len(<<x>> \o <<y>>) = 2 /\ (<<x>> \o <<y>>)[1] = x /\ (<<x>> \o <<y>>)[2] = y
    OBVIOUS
  <2>2. <<x>> \o <<y>> \in Seq(T)
    BY <1>1
  <2>3. \A q \in Seq(T) : Len(q) = 2 => q = <<q[1], q[2]>>
    OBVIOUS
  <2> QED BY <2>1, <2>2, <2>3
<1>3. \A a, b, c \in Seq(T) : a \o (b \o c) = (a \o b) \o c
  BY ConcatAssociative
<1> QED BY <1>1, <1>2, <1>3 DEF Cat

\* The iteration of the session's turn.
Its == iteration[Root]

\* One delta: what it adds to the contents, and what it opens and closes.
LEMMA TellsConsume ==
    ASSUME NEW s, NEW n, NEW k, NEW A, NEW B, NEW C, NEW G, NEW b \in Block,
           Tells(s, n, k, open[Root], A, B, C, G), open[Root] \subseteq Block,
           Its \in Nat, Its < MaxIterations
    PROVE  Tells(Cat(s, Consume(Root, b).frames), n, k, Consume(Root, b).open, A, B,
                 Cat(C, <<Shown(Its, <<b>>)>>), G)
<1> DEFINE O == open[Root]
           st == Frame(StartOf[b], <<Its>>)
           de == Frame(DeltaOf[b], <<Its>>)
           en == Frame("reasoning-end", <<Its>>)
           D == Cat(C, <<Shown(Its, <<b>>)>>)
<1>0. <<Its>> \in Subject /\ "reasoning-end" \in FrameType /\ StartOf[b] \in FrameType
          /\ DeltaOf[b] \in FrameType
  BY BlockTypes DEF Subject, FrameType
<1>1. /\ st \in FrameSet /\ de \in FrameSet /\ en \in FrameSet
      /\ st.type = StartOf[b] /\ de.type = DeltaOf[b] /\ en.type = "reasoning-end" /\ de.of = <<Its>>
  <2> HIDE DEF Its
  <2> QED BY <1>0, FrameTyped
<1> HIDE DEF st, de, en
<1>2. ContentOf(de) = <<Shown(Its, <<b>>)>> /\ ProgressOf(de) = <<>> /\ de.type \in Quiet
  <2>1. de.of[1] = Its /\ de.type \in {"reasoning-delta", "text-delta"}
    BY <1>1, BlockTypes
  <2>2. Content(de) = Shown(Its, <<b>>)
    BY <1>1, <2>1, BlockTypes DEF Content
  <2>3. ContentOf(de) = <<Content(de)>>
    BY <2>1 DEF ContentOf
  <2>4. ProgressOf(de) = <<>> /\ de.type \in Quiet
    BY <2>1 DEF ProgressOf, Quiet
  <2> QED BY <2>2, <2>3, <2>4
<1>3. ASSUME NEW t, NEW P, Tells(t, n, k, P, A, B, C, G)
      PROVE  Tells(Cat(t, <<de>>), n, k, P, A, B, D, G)
  <2>1. Tells(Cat(t, <<de>>), n, k, P, A, B, Cat(C, ContentOf(de)), Cat(G, ProgressOf(de)))
    BY <1>1, <1>2, <1>3, TellsQuiet
  <2>2. Cat(G, <<>>) = G
    <3>1. t \in Seq(FrameSet) /\ G = Progress(t)
      BY <1>3 DEF Tells
    <3>2. G \in Seq(FrameSubject)
      BY <3>1, ProgressCat
    <3> QED BY <3>2, CatAll
  <2> QED BY <1>2, <2>1, <2>2
<1>4. s \in Seq(FrameSet)
  BY DEF Tells
<1>5. CASE b \in O
  <2>1. Consume(Root, b).frames = <<de>> /\ Consume(Root, b).open = O
    BY <1>5 DEF Consume, de, Its
  <2> QED BY <1>3, <2>1
<1>6. CASE b \notin O /\ b = "text" /\ "reasoning" \in O
  <2>1. Consume(Root, b).frames = Cat(<<en>>, <<st, de>>) /\ Consume(Root, b).open = {"text"}
    BY <1>6 DEF Consume, de, en, st, Its, Cat
  <2>2. Cat(s, Cat(<<en>>, <<st, de>>)) = Cat(Cat(Cat(s, <<en>>), <<st>>), <<de>>)
    <3>1. <<en>> \in Seq(FrameSet) /\ <<st, de>> \in Seq(FrameSet)
      BY <1>1
    <3>2. Cat(s, Cat(<<en>>, <<st, de>>)) = Cat(Cat(s, <<en>>), <<st, de>>)
              /\ Cat(s, <<en>>) \in Seq(FrameSet)
      <4> DEFINE x == <<en>>
                 y == <<st, de>>
      <4> HIDE DEF x, y
      <4>1. x \in Seq(FrameSet) /\ y \in Seq(FrameSet)
        BY <3>1 DEF x, y
      <4>2. Cat(s, Cat(x, y)) = Cat(Cat(s, x), y) /\ Cat(s, x) \in Seq(FrameSet)
        BY <1>4, <4>1, CatAll
      <4> QED BY <4>2 DEF x, y
    <3> QED BY <1>1, <3>2, CatTwo
  <2>3. Tells(Cat(s, <<en>>), n, k, O \ {"reasoning"}, A, B, C, G)
    BY <1>1, <1>6, TellsBlock, BlockTypes
  <2>4. Tells(Cat(Cat(s, <<en>>), <<st>>), n, k, (O \ {"reasoning"}) \cup {"text"}, A, B, C, G)
    BY <1>1, <1>6, <2>3, TellsBlock, BlockTypes
  <2>5. (O \ {"reasoning"}) \cup {"text"} = {"text"}
    BY BlockTypes
  <2> QED BY <1>3, <2>1, <2>2, <2>4, <2>5
<1>7. CASE b \notin O /\ ~(b = "text" /\ "reasoning" \in O)
  <2>1. Consume(Root, b).frames = Cat(<<>>, <<st, de>>)
    BY <1>7 DEF Consume, de, st, Its, Cat
  <2>2. Consume(Root, b).open = O \cup {b}
    BY <1>7, BlockTypes DEF Consume
  <2>3. Cat(s, Cat(<<>>, <<st, de>>)) = Cat(Cat(s, <<st>>), <<de>>)
    <3>1. <<st, de>> \in Seq(FrameSet)
      BY <1>1
    <3>2. Cat(<<>>, <<st, de>>) = <<st, de>>
      BY <3>1, CatAll
    <3> QED BY <1>1, <1>4, <3>2, CatTwo
  <2>4. Tells(Cat(s, <<st>>), n, k, O \cup {b}, A, B, C, G)
    BY <1>1, <1>7, TellsBlock
  <2> QED BY <1>3, <2>1, <2>2, <2>3, <2>4
<1> QED BY <1>5, <1>6, <1>7

\* The blocks that are open are closed.
LEMMA TellsEndFrames ==
    ASSUME NEW s, NEW n, NEW k, NEW A, NEW B, NEW C, NEW G,
           Tells(s, n, k, open[Root], A, B, C, G), open[Root] \subseteq Block, Its \in Nat
    PROVE  Tells(Cat(s, EndFrames(Root)), n, k, {}, A, B, C, G) /\ EndFrames(Root) \in Seq(FrameSet)
<1> DEFINE O == open[Root]
           e1 == IF "reasoning" \in O THEN <<Frame("reasoning-end", <<Its>>)>> ELSE <<>>
           e2 == IF "text" \in O THEN <<Frame("text-end", <<Its>>)>> ELSE <<>>
<1>1. EndFrames(Root) = Cat(e1, e2)
  BY BlockTypes DEF EndFrames, Cat, Its
<1>2. s \in Seq(FrameSet)
  BY DEF Tells
<1>0. /\ Frame("reasoning-end", <<Its>>) \in FrameSet
           /\ Frame("reasoning-end", <<Its>>).type = "reasoning-end"
      /\ Frame("text-end", <<Its>>) \in FrameSet /\ Frame("text-end", <<Its>>).type = "text-end"
  <2>1. <<Its>> \in Subject
    BY DEF Subject
  <2>2. "reasoning-end" \in FrameType /\ "text-end" \in FrameType
    BY DEF FrameType
  <2> HIDE DEF Its
  <2> QED BY <2>1, <2>2, FrameTyped
<1>3. \A T : <<>> \in Seq(T)
  OBVIOUS
<1>4. e1 \in Seq(FrameSet) /\ e2 \in Seq(FrameSet)
  <2>1. Frame("reasoning-end", <<Its>>) \in FrameSet /\ Frame("text-end", <<Its>>) \in FrameSet
    BY <1>0
  <2> QED BY <1>3, <2>1, CatAll
<1>5. Tells(Cat(s, e1), n, k, O \ {"reasoning"}, A, B, C, G)
  <2>1. CASE "reasoning" \in O
    <3>1. Frame("reasoning-end", <<Its>>) \in FrameSet
              /\ Frame("reasoning-end", <<Its>>).type = "reasoning-end"
      BY <1>0
    <3> QED BY <2>1, <3>1, TellsBlock, BlockTypes
  <2>2. CASE "reasoning" \notin O
    <3>1. O \ {"reasoning"} = O /\ e1 = <<>>
      BY <2>2
    <3>2. Cat(s, e1) = s
      BY <1>2, <3>1, CatAll
    <3> QED BY <3>1, <3>2
  <2> QED BY <2>1, <2>2
<1>6. Tells(Cat(Cat(s, e1), e2), n, k, {}, A, B, C, G)
  <2>1. CASE "text" \in O
    <3>1. Frame("text-end", <<Its>>) \in FrameSet /\ Frame("text-end", <<Its>>).type = "text-end"
      BY <1>0
    <3>2. (O \ {"reasoning"}) \ {"text"} = {} /\ "text" \in O \ {"reasoning"}
              /\ e2 = <<Frame("text-end", <<Its>>)>>
      BY <2>1, BlockTypes
    <3> HIDE DEF e1
    <3>3. Tells(Cat(Cat(s, e1), <<Frame("text-end", <<Its>>)>>), n, k, (O \ {"reasoning"}) \ {"text"}, A, B, C, G)
      BY <1>5, <3>1, <3>2, TellsBlock, BlockTypes
    <3> QED BY <3>2, <3>3
  <2>2. CASE "text" \notin O
    <3>1. O \ {"reasoning"} = {} /\ e2 = <<>>
      BY <2>2, BlockTypes
    <3> HIDE DEF e1
    <3>2. Cat(Cat(s, e1), <<>>) = Cat(s, e1)
      BY <1>2, <1>4, CatAll
    <3> QED BY <1>5, <3>1, <3>2
  <2> QED BY <2>1, <2>2
<1> HIDE DEF e1, e2
<1>7. Cat(Cat(s, e1), e2) = Cat(s, Cat(e1, e2)) /\ Cat(e1, e2) \in Seq(FrameSet)
  BY <1>2, <1>4, CatAll
<1> QED BY <1>1, <1>6, <1>7

\* The calls of the first m places, and what is shown of them.
Ids(m) == {CallId(Root, i) : i \in 1..m}
ShownCalls(m) == [i \in 1..m |-> Shown(Its, CallId(Root, i))]

\* A list of values by place, one place longer.
LEMMA ExtendedList ==
    ASSUME NEW T, NEW m \in Nat, NEW f, \A i \in 1..(m + 1) : f[i] \in T
    PROVE  /\ [i \in 1..m |-> f[i]] \in Seq(T)
           /\ [i \in 1..(m + 1) |-> f[i]] = Cat([i \in 1..m |-> f[i]], <<f[m + 1]>>)
<1> DEFINE a == [i \in 1..m |-> f[i]]
           c == [i \in 1..(m + 1) |-> f[i]]
           b == <<f[m + 1]>>
<1>1. a \in Seq(T) /\ Len(a) = m /\ \A i \in 1..m : a[i] = f[i]
  OBVIOUS
<1>2. b \in Seq(T) /\ Len(b) = 1 /\ b[1] = f[m + 1]
  <2>1. m + 1 \in 1..(m + 1)
    OBVIOUS
  <2> QED BY <2>1
<1>3. \A i \in 1..(m + 1) : i \in 1..m \/ i = m + 1
  OBVIOUS
<1> HIDE DEF a, b
<1>4. /\ a \o b \in Seq(T) /\ Len(a \o b) = m + 1
      /\ \A i \in 1..m : (a \o b)[i] = a[i]
      /\ (a \o b)[m + 1] = b[1]
  <2>1. /\ a \o b \in Seq(T) /\ Len(a \o b) = Len(a) + Len(b)
        /\ \A i \in 1..Len(a) : (a \o b)[i] = a[i]
        /\ \A i \in 1..Len(b) : (a \o b)[Len(a) + i] = b[i]
    BY <1>1, <1>2, CatElements
  <2> QED BY <1>1, <1>2, <2>1, 1 \in 1..1
<1>5. a \o b = [i \in 1..(m + 1) |-> (a \o b)[i]]
  <2> DEFINE d == a \o b
  <2>1. d \in Seq(T) /\ Len(d) = m + 1
    BY <1>4
  <2> HIDE DEF d
  <2>2. d = [i \in 1..(m + 1) |-> d[i]]
    BY <2>1
  <2> QED BY <2>2 DEF d
<1>6. \A i \in 1..(m + 1) : (a \o b)[i] = f[i]
  BY <1>1, <1>2, <1>3, <1>4
<1>7. c = a \o b
  BY <1>5, <1>6
<1> HIDE DEF c
<1> QED BY <1>1, <1>7 DEF a, b, c, Cat

\* The frames of a call of the current step, and what they tell.
LEMMA CallTyped ==
    ASSUME Its \in Nat, Its < MaxIterations, NEW i \in Nat
    PROVE  LET a == Frame("tool-input-start", CallId(Root, i))
               b == Frame("tool-input-available", CallId(Root, i))
               c == Frame("tool-output-available", CallId(Root, i))
           IN  /\ a \in FrameSet /\ a.type = "tool-input-start" /\ a.of = CallId(Root, i)
               /\ b \in FrameSet /\ b.type = "tool-input-available"
               /\ c \in FrameSet /\ c.type = "tool-output-available" /\ c.of = CallId(Root, i)
               /\ ContentOf(b) = <<Shown(Its, CallId(Root, i))>>
               /\ ProgressOf(b) = <<>>
               /\ Shown(Its, CallId(Root, i)) \in FrameContent
<1> DEFINE x == CallId(Root, i)
           a == Frame("tool-input-start", x)
           b == Frame("tool-input-available", x)
           c == Frame("tool-output-available", x)
<1>1. x \in Subject /\ x[1] = Its
  BY DEF CallId, Subject, Its
<1>2. {"tool-input-start", "tool-input-available", "tool-output-available"} \subseteq FrameType
  BY DEF FrameType
<1> HIDE DEF x
<1>3. /\ a \in FrameSet /\ a.type = "tool-input-start" /\ a.of = x
      /\ b \in FrameSet /\ b.type = "tool-input-available" /\ b.of = x
      /\ c \in FrameSet /\ c.type = "tool-output-available" /\ c.of = x
  BY <1>1, <1>2, FrameTyped
<1> HIDE DEF a, b, c
<1>4. Content(b) = Shown(Its, x)
  BY <1>1, <1>3 DEF Content
<1>5. ContentOf(b) = <<Shown(Its, x)>> /\ ProgressOf(b) = <<>> /\ Shown(Its, x) \in FrameContent
  BY <1>1, <1>3, <1>4 DEF ContentOf, ProgressOf, FrameContent
<1> QED BY <1>3, <1>5 DEF a, b, c, x

\* The calls of a step are announced.
LEMMA TellsInput ==
    ASSUME NEW s, NEW n, NEW k, NEW O, NEW A, NEW B, NEW C, NEW G, Tells(s, n, k, O, A, B, C, G),
           NEW list \in Seq(Tool), Its \in Nat, Its < MaxIterations
    PROVE  /\ InputFrames(Root, list) \in Seq(FrameSet)
           /\ Tells(Cat(s, InputFrames(Root, list)), n, k, O, A \cup Ids(Len(list)), B,
                    Cat(C, ShownCalls(Len(list))), G)
<1> DEFINE N == Len(list)
           a(i) == Frame("tool-input-start", CallId(Root, i))
           b(i) == Frame("tool-input-available", CallId(Root, i))
           pairs == [i \in DOMAIN list |-> <<a(i), b(i)>>]
<1>1. N \in Nat /\ DOMAIN list = 1..N
  OBVIOUS
<1>2. ASSUME NEW i \in Nat
      PROVE  /\ a(i) \in FrameSet /\ a(i).type = "tool-input-start" /\ a(i).of = CallId(Root, i)
             /\ b(i) \in FrameSet /\ b(i).type = "tool-input-available"
             /\ ContentOf(b(i)) = <<Shown(Its, CallId(Root, i))>> /\ ProgressOf(b(i)) = <<>>
             /\ Shown(Its, CallId(Root, i)) \in FrameContent
  BY CallTyped
<1>3. s \in Seq(FrameSet) /\ C \in Seq(FrameContent) /\ G \in Seq(FrameSubject)
  <2>1. s \in Seq(FrameSet) /\ C = Contents(s) /\ G = Progress(s)
    BY DEF Tells
  <2> QED BY <2>1, ContentsCat, ProgressCat
<1> HIDE DEF N, a, b
<1>4. pairs \in Seq(Seq(FrameSet)) /\ Len(pairs) = N /\ \A i \in 1..N : pairs[i] = <<a(i), b(i)>>
  <2>1. \A i \in 1..N : <<a(i), b(i)>> \in Seq(FrameSet)
    BY <1>1, <1>2
  <2> QED BY <1>1, <2>1
<1> HIDE DEF pairs
<1>5. PICK P : Grows(FrameSet, P, pairs)
  BY <1>4, GrowsExists
<1>6. /\ P[0] = <<>> /\ \A m \in 0..N : P[m] \in Seq(FrameSet)
      /\ \A m \in 0..(N - 1) : P[m + 1] = Cat(P[m], <<a(m + 1), b(m + 1)>>)
  <2>1. \A m \in 0..(N - 1) : m + 1 \in 1..N
    BY <1>1
  <2> QED BY <1>4, <1>5, <2>1 DEF Grows, Cat
<1>7. InputFrames(Root, list) = P[N]
  <2>1. InputFrames(Root, list) = FlattenSeq(pairs)
    BY DEF InputFrames, pairs, a, b
  <2> QED BY <1>4, <1>5, <2>1, FlattenSteps
<1> DEFINE Done(m) == Tells(Cat(s, P[m]), n, k, O, A \cup Ids(m), B, Cat(C, ShownCalls(m)), G)
           S == {m \in Nat : m <= N => Done(m)}
<1>8. Done(0)
  <2>1. Ids(0) = {}
    BY DEF Ids
  <2>2. ShownCalls(0) = <<>>
    BY DEF ShownCalls
  <2>3. Cat(s, <<>>) = s /\ Cat(C, <<>>) = C /\ A \cup {} = A
    BY <1>3, CatAll
  <2> QED BY <1>6, <2>1, <2>2, <2>3
<1>9. ASSUME NEW m \in Nat, m + 1 <= N, Done(m) PROVE Done(m + 1)
  <2>1. m \in 0..N /\ m \in 0..(N - 1) /\ m + 1 \in Nat
    BY <1>1, <1>9
  <2> DEFINE c == Cat(s, P[m])
             x == a(m + 1)
             y == b(m + 1)
             e == Shown(Its, CallId(Root, m + 1))
  <2>2. P[m] \in Seq(FrameSet) /\ P[m + 1] = Cat(P[m], <<x, y>>)
    BY <1>6, <2>1
  <2>3. /\ x \in FrameSet /\ x.type = "tool-input-start" /\ x.of = CallId(Root, m + 1)
        /\ y \in FrameSet /\ y.type = "tool-input-available"
        /\ ContentOf(y) = <<e>> /\ ProgressOf(y) = <<>> /\ e \in FrameContent
    BY <1>2, <2>1
  <2> HIDE DEF x, y, e
  <2>4. Cat(s, P[m + 1]) = Cat(Cat(c, <<x>>), <<y>>)
    <3> DEFINE z == <<x, y>>
    <3>1. z \in Seq(FrameSet)
      BY <2>3
    <3> HIDE DEF z
    <3>2. Cat(s, Cat(P[m], z)) = Cat(c, z) /\ c \in Seq(FrameSet)
      <4> DEFINE p == P[m]
      <4>1. p \in Seq(FrameSet)
        BY <2>2
      <4> HIDE DEF p
      <4>2. Cat(s, Cat(p, z)) = Cat(Cat(s, p), z) /\ Cat(s, p) \in Seq(FrameSet)
        BY <1>3, <3>1, <4>1, CatAll
      <4> QED BY <4>2 DEF p
    <3>3. Cat(c, <<x, y>>) = Cat(Cat(c, <<x>>), <<y>>)
      BY <2>3, <3>2, CatTwo
    <3> QED BY <2>2, <3>2, <3>3 DEF z
  <2> HIDE DEF c
  <2>5. Tells(Cat(c, <<x>>), n, k, O, (A \cup Ids(m)) \cup {x.of}, B, Cat(C, ShownCalls(m)), G)
    BY <1>9, <2>3, TellsCall DEF c
  <2>6. (A \cup Ids(m)) \cup {x.of} = A \cup Ids(m + 1)
    <3>1. \A i \in 1..(m + 1) : i \in 1..m \/ i = m + 1
      OBVIOUS
    <3>2. m + 1 \in 1..(m + 1) /\ \A i \in 1..m : i \in 1..(m + 1)
      OBVIOUS
    <3> QED BY <2>3, <3>1, <3>2 DEF Ids
  <2>7. y.type \in Quiet
    BY <2>3 DEF Quiet
  <2>8. Tells(Cat(Cat(c, <<x>>), <<y>>), n, k, O, A \cup Ids(m + 1), B,
              Cat(Cat(C, ShownCalls(m)), ContentOf(y)), Cat(G, ProgressOf(y)))
    BY <2>3, <2>5, <2>6, <2>7, TellsQuiet
  <2>9. Cat(G, ProgressOf(y)) = G
    BY <1>3, <2>3, CatAll
  <2>10. Cat(Cat(C, ShownCalls(m)), ContentOf(y)) = Cat(C, ShownCalls(m + 1))
    <3> DEFINE f == [i \in 1..(m + 1) |-> Shown(Its, CallId(Root, i))]
    <3>1. \A i \in 1..(m + 1) : f[i] = Shown(Its, CallId(Root, i)) /\ f[i] \in FrameContent
      BY <1>2
    <3>2. m + 1 \in 1..(m + 1) /\ \A i \in 1..m : i \in 1..(m + 1)
      OBVIOUS
    <3> HIDE DEF f
    <3>3. ShownCalls(m) = [i \in 1..m |-> f[i]] /\ ShownCalls(m + 1) = [i \in 1..(m + 1) |-> f[i]]
              /\ f[m + 1] = e
      BY <3>1, <3>2 DEF ShownCalls, e
    <3>4. /\ [i \in 1..m |-> f[i]] \in Seq(FrameContent)
          /\ [i \in 1..(m + 1) |-> f[i]] = Cat([i \in 1..m |-> f[i]], <<f[m + 1]>>)
      BY <3>1, ExtendedList
    <3>5. ShownCalls(m) \in Seq(FrameContent) /\ ShownCalls(m + 1) = Cat(ShownCalls(m), <<e>>)
      BY <3>3, <3>4
    <3> DEFINE z == <<e>>
    <3>6. z \in Seq(FrameContent)
      BY <2>3
    <3> HIDE DEF z
    <3>7. Cat(Cat(C, ShownCalls(m)), z) = Cat(C, Cat(ShownCalls(m), z))
      BY <1>3, <3>5, <3>6, CatAll
    <3> QED BY <2>3, <3>5, <3>7 DEF z
  <2> QED BY <2>4, <2>8, <2>9, <2>10
<1> HIDE DEF Done
<1>10. 0 \in S /\ \A m \in Nat : m \in S => m + 1 \in S
  <2>1. \A m \in Nat : m + 1 <= N => m <= N
    BY <1>1
  <2> QED BY <1>8, <1>9, <2>1
<1>11. Nat \subseteq S
  <2> HIDE DEF S
  <2> QED BY <1>10, SetInduction
<1>12. Done(N)
  <2>1. N \in S /\ N <= N
    BY <1>1, <1>11
  <2> QED BY <2>1
<1>13. N \in 0..N
  BY <1>1
<1> QED BY <1>6, <1>7, <1>12, <1>13 DEF Done, N

\* The outputs of the calls of a step.
Outputs(m) == [i \in 1..m |-> Frame("tool-output-available", CallId(Root, i))]

\* The outputs of the calls of a step are sent, in whatever order they came.
LEMMA TellsOutputs ==
    ASSUME NEW s, NEW n, NEW k, NEW O, NEW A, NEW B, NEW C, NEW G, Tells(s, n, k, O, A, B, C, G),
           NEW N \in Nat, Its \in Nat, Its < MaxIterations
    PROVE  /\ Outputs(N) \in Seq(FrameSet)
           /\ Tells(Cat(s, Outputs(N)), n, k, O, A, B \cup Ids(N), C, G)
<1>1. s \in Seq(FrameSet)
  BY DEF Tells
<1>2. ASSUME NEW m \in Nat
      PROVE  /\ Frame("tool-output-available", CallId(Root, m)) \in FrameSet
             /\ Frame("tool-output-available", CallId(Root, m)).type = "tool-output-available"
             /\ Frame("tool-output-available", CallId(Root, m)).of = CallId(Root, m)
  BY CallTyped
<1>3. ASSUME NEW m \in Nat
      PROVE  /\ Outputs(m) \in Seq(FrameSet)
             /\ Outputs(m + 1) = Cat(Outputs(m), <<Frame("tool-output-available", CallId(Root, m + 1))>>)
  <2> DEFINE f == [i \in 1..(m + 1) |-> Frame("tool-output-available", CallId(Root, i))]
  <2>1. \A i \in 1..(m + 1) : f[i] = Frame("tool-output-available", CallId(Root, i)) /\ f[i] \in FrameSet
    BY <1>2
  <2>2. m + 1 \in 1..(m + 1) /\ \A i \in 1..m : i \in 1..(m + 1)
    OBVIOUS
  <2> HIDE DEF f
  <2>3. /\ Outputs(m) = [i \in 1..m |-> f[i]]
        /\ Outputs(m + 1) = [i \in 1..(m + 1) |-> f[i]]
        /\ f[m + 1] = Frame("tool-output-available", CallId(Root, m + 1))
    BY <2>1, <2>2 DEF Outputs
  <2>4. /\ [i \in 1..m |-> f[i]] \in Seq(FrameSet)
        /\ [i \in 1..(m + 1) |-> f[i]] = Cat([i \in 1..m |-> f[i]], <<f[m + 1]>>)
    BY <2>1, ExtendedList
  <2> QED BY <2>3, <2>4
<1> DEFINE Done(m) == Tells(Cat(s, Outputs(m)), n, k, O, A, B \cup Ids(m), C, G)
           S == {m \in Nat : Done(m)}
<1>4. Done(0)
  <2>1. Ids(0) = {} /\ Outputs(0) = <<>>
    BY DEF Ids, Outputs
  <2>2. Cat(s, <<>>) = s /\ B \cup {} = B
    BY <1>1, CatAll
  <2> QED BY <2>1, <2>2
<1>5. ASSUME NEW m \in Nat, Done(m) PROVE Done(m + 1)
  <2> DEFINE x == Frame("tool-output-available", CallId(Root, m + 1))
             p == Outputs(m)
             z == <<x>>
  <2>1. x \in FrameSet /\ x.type = "tool-output-available" /\ x.of = CallId(Root, m + 1)
    BY <1>2
  <2>2. p \in Seq(FrameSet) /\ Outputs(m + 1) = Cat(p, z)
    BY <1>3
  <2> HIDE DEF x
  <2>3. z \in Seq(FrameSet)
    BY <2>1
  <2>4. Tells(Cat(Cat(s, p), z), n, k, O, A, (B \cup Ids(m)) \cup {x.of}, C, G)
    BY <1>5, <2>1, TellsCall
  <2> HIDE DEF z, p
  <2>5. Cat(Cat(s, p), z) = Cat(s, Outputs(m + 1))
    BY <1>1, <2>2, <2>3, CatAll
  <2>6. (B \cup Ids(m)) \cup {x.of} = B \cup Ids(m + 1)
    <3>1. \A i \in 1..(m + 1) : i \in 1..m \/ i = m + 1
      OBVIOUS
    <3>2. m + 1 \in 1..(m + 1) /\ \A i \in 1..m : i \in 1..(m + 1)
      OBVIOUS
    <3> QED BY <2>1, <3>1, <3>2 DEF Ids
  <2> QED BY <2>4, <2>5, <2>6
<1> HIDE DEF Done
<1>6. Nat \subseteq S
  <2>1. 0 \in S /\ \A m \in Nat : m \in S => m + 1 \in S
    BY <1>4, <1>5
  <2> HIDE DEF S
  <2> QED BY <2>1, SetInduction
<1>7. Done(N)
  BY <1>6
<1> QED BY <1>3, <1>7 DEF Done

\* The warning that the iterations ran out.
WarningTypes == <<"start-step", "text-start", "text-delta", "text-end", "finish-step">>
Warning == [i \in 1..5 |-> Frame(WarningTypes[i], <<Its>>)]

\* The warning begins and ends a step of its own and tells nothing of the answer.
LEMMA TellsWarning ==
    ASSUME NEW s, NEW n, NEW k, NEW A, NEW B, NEW C, NEW G, Tells(s, n, k, {}, A, B, C, G),
           Its \in Nat, ~(Its < MaxIterations)
    PROVE  Tells(Cat(s, Warning), n + 1, k + 1, {}, A, B, C, G)
<1> DEFINE E(m) == [i \in 1..m |-> Warning[i]]
<1>1. s \in Seq(FrameSet) /\ C \in Seq(FrameContent) /\ G \in Seq(FrameSubject)
  <2>1. s \in Seq(FrameSet) /\ C = Contents(s) /\ G = Progress(s)
    BY DEF Tells
  <2> QED BY <2>1, ContentsCat, ProgressCat
<1>2. /\ \A i \in 1..5 : Warning[i] \in FrameSet
      /\ Warning[1].type = "start-step" /\ Warning[2].type = "text-start"
      /\ Warning[3].type = "text-delta" /\ Warning[4].type = "text-end"
      /\ Warning[5].type = "finish-step" /\ Warning[3].of[1] = Its
  <2>1. <<Its>> \in Subject
    BY DEF Subject
  <2>2. \A i \in 1..5 : WarningTypes[i] \in FrameType /\ Warning[i] = Frame(WarningTypes[i], <<Its>>)
    BY DEF Warning, WarningTypes, FrameType
  <2>3. \A i \in 1..5 : Warning[i] \in FrameSet /\ Warning[i].type = WarningTypes[i]
            /\ Warning[i].of = <<Its>>
    BY <2>1, <2>2, FrameTyped
  <2> QED BY <2>3 DEF WarningTypes
<1>3. ASSUME NEW m \in 0..4
      PROVE  Cat(s, E(m + 1)) = Cat(Cat(s, E(m)), <<Warning[m + 1]>>)
  <2>1. \A i \in 1..(m + 1) : Warning[i] \in FrameSet
    BY <1>2
  <2>2. E(m) \in Seq(FrameSet) /\ E(m + 1) = Cat(E(m), <<Warning[m + 1]>>)
    BY <2>1, ExtendedList
  <2> DEFINE p == E(m)
             z == <<Warning[m + 1]>>
  <2>3. z \in Seq(FrameSet)
    BY <2>1, m + 1 \in 1..(m + 1)
  <2> HIDE DEF p, z
  <2>4. p \in Seq(FrameSet) /\ E(m + 1) = Cat(p, z)
    BY <2>2 DEF p, z
  <2> HIDE DEF E
  <2>5. Cat(s, Cat(p, z)) = Cat(Cat(s, p), z)
    BY <1>1, <2>3, <2>4, CatAll
  <2> QED BY <2>4, <2>5 DEF p, z
<1>4. E(0) = <<>> /\ Warning = E(5)
  BY DEF Warning
<1> HIDE DEF E
<1>5. Cat(s, E(0)) = s
  BY <1>1, <1>4, CatAll
<1>6. Cat(s, E(1)) = Cat(s, <<Warning[1]>>)
  BY <1>3, <1>5, 0 \in 0..4, 0 + 1 = 1
<1>7. /\ Cat(s, E(2)) = Cat(Cat(s, E(1)), <<Warning[2]>>)
      /\ Cat(s, E(3)) = Cat(Cat(s, E(2)), <<Warning[3]>>)
      /\ Cat(s, E(4)) = Cat(Cat(s, E(3)), <<Warning[4]>>)
      /\ Cat(s, E(5)) = Cat(Cat(s, E(4)), <<Warning[5]>>)
  BY <1>3, 1 \in 0..4, 2 \in 0..4, 3 \in 0..4, 4 \in 0..4, 1 + 1 = 2, 2 + 1 = 3, 3 + 1 = 4, 4 + 1 = 5
<1>8. Tells(Cat(s, E(1)), n + 1, k, {}, A, B, C, G)
  BY <1>2, <1>6, TellsStep, 1 \in 1..5
<1>9. Tells(Cat(s, E(2)), n + 1, k, {} \cup {"text"}, A, B, C, G)
  <2>1. Warning[2] \in FrameSet /\ Warning[2].type = StartOf["text"] /\ "text" \in Block /\ "text" \notin {}
    BY <1>2, BlockTypes, 2 \in 1..5
  <2>2. Tells(Cat(Cat(s, E(1)), <<Warning[2]>>), n + 1, k, {} \cup {"text"}, A, B, C, G)
    BY <1>8, <2>1, TellsBlock
  <2> QED BY <1>7, <2>2
<1>10. Tells(Cat(s, E(3)), n + 1, k, {} \cup {"text"}, A, B, C, G)
  <2>1. Warning[3] \in FrameSet /\ Warning[3].type \in Quiet
    BY <1>2, 3 \in 1..5 DEF Quiet
  <2>2. ContentOf(Warning[3]) = <<>> /\ ProgressOf(Warning[3]) = <<>>
    BY <1>2 DEF ContentOf, ProgressOf
  <2>3. Tells(Cat(Cat(s, E(2)), <<Warning[3]>>), n + 1, k, {} \cup {"text"}, A, B, Cat(C, <<>>), Cat(G, <<>>))
    BY <1>9, <2>1, <2>2, TellsQuiet
  <2>4. Cat(C, <<>>) = C /\ Cat(G, <<>>) = G
    BY <1>1, CatAll
  <2> QED BY <1>7, <2>3, <2>4
<1>11. Tells(Cat(s, E(4)), n + 1, k, ({} \cup {"text"}) \ {"text"}, A, B, C, G)
  <2>1. Warning[4] \in FrameSet /\ Warning[4].type = EndOf["text"] /\ "text" \in Block
            /\ "text" \in {} \cup {"text"}
    BY <1>2, BlockTypes, 4 \in 1..5
  <2>2. Tells(Cat(Cat(s, E(3)), <<Warning[4]>>), n + 1, k, ({} \cup {"text"}) \ {"text"}, A, B, C, G)
    BY <1>10, <2>1, TellsBlock
  <2> QED BY <1>7, <2>2
<1>12. ({} \cup {"text"}) \ {"text"} = {}
  OBVIOUS
<1>13. Tells(Cat(s, E(5)), n + 1, k + 1, {}, A, B, C, G)
  BY <1>2, <1>7, <1>11, <1>12, TellsStep, 5 \in 1..5
<1> QED BY <1>4, <1>13

-----------------------------------------------------------------------------
(* What is replayed of the record.                                         *)

\* The elements of two lists.
LEMMA ToSetCat ==
    ASSUME NEW T, NEW a \in Seq(T), NEW b \in Seq(T)
    PROVE  ToSet(Cat(a, b)) = ToSet(a) \cup ToSet(b)
<1> DEFINE c == a \o b
<1>1. /\ DOMAIN c = 1..(Len(a) + Len(b)) /\ DOMAIN a = 1..Len(a) /\ DOMAIN b = 1..Len(b)
      /\ Len(a) \in Nat /\ Len(b) \in Nat
      /\ \A i \in 1..Len(a) : c[i] = a[i]
      /\ \A i \in 1..Len(b) : c[Len(a) + i] = b[i]
  BY CatElements
<1>2. \A i \in DOMAIN c : i \in 1..Len(a) \/ \E k \in 1..Len(b) : i = Len(a) + k
  BY CatIndex
<1> HIDE DEF c
<1>3. (\A i \in 1..Len(a) : i \in DOMAIN c) /\ \A i \in 1..Len(b) : Len(a) + i \in DOMAIN c
  BY <1>1
<1>4. ToSet(c) = ToSet(a) \cup ToSet(b)
  <2>1. ASSUME NEW x \in ToSet(c) PROVE x \in ToSet(a) \cup ToSet(b)
    <3>1. PICK i \in DOMAIN c : x = c[i]
      BY <2>1 DEF ToSet
    <3> QED BY <1>1, <1>2, <3>1 DEF ToSet
  <2>2. ASSUME NEW x \in ToSet(a) PROVE x \in ToSet(c)
    <3>1. PICK i \in DOMAIN a : x = a[i]
      BY <2>2 DEF ToSet
    <3> QED BY <1>1, <1>3, <3>1 DEF ToSet
  <2>3. ASSUME NEW x \in ToSet(b) PROVE x \in ToSet(c)
    <3>1. PICK i \in DOMAIN b : x = b[i]
      BY <2>3 DEF ToSet
    <3> QED BY <1>1, <1>3, <3>1 DEF ToSet
  <2> QED BY <2>1, <2>2, <2>3
<1> QED BY <1>4 DEF Cat, c

\* The parts a recorded message can have.
Kept == {Shown(n, x) : n \in Nat, x \in {<<b>> : b \in Block} \cup CallName}

\* The parts that are replayed of a recorded message: its blocks and its calls.
LEMMA StepPartsAre ==
    ASSUME NEW n \in Nat, NEW m \in ChatMessage
    PROVE  /\ StepParts(n, m) \in Seq(Kept)
           /\ ToSet(StepParts(n, m)) = {Shown(n, <<b>>) : b \in m.blocks}
                                           \cup {Shown(n, m.calls[i]) : i \in DOMAIN m.calls}
<1> DEFINE p(b) == IF b \in m.blocks THEN <<Shown(n, <<b>>)>> ELSE <<>>
           q == [i \in DOMAIN m.calls |-> Shown(n, m.calls[i])]
<1>1. m.blocks \subseteq Block /\ m.calls \in Seq(CallName)
  BY DEF ChatMessage
<1>2. StepParts(n, m) = Cat(Cat(p("reasoning"), q), p("text"))
  BY DEF StepParts, Cat
<1>3. \A b \in Block : p(b) \in Seq(Kept)
  <2> SUFFICES ASSUME NEW b \in Block PROVE p(b) \in Seq(Kept)
    OBVIOUS
  <2>1. Shown(n, <<b>>) \in Kept
    BY DEF Kept
  <2>2. \A x \in Kept : <<x>> \in Seq(Kept)
    OBVIOUS
  <2>3. <<>> \in Seq(Kept)
    OBVIOUS
  <2> QED BY <2>1, <2>2, <2>3
<1>4. q \in Seq(Kept)
  <2>1. \A x \in CallName : Shown(n, x) \in Kept
    BY DEF Kept
  <2>2. Len(m.calls) \in Nat /\ DOMAIN m.calls = 1..Len(m.calls)
            /\ \A i \in 1..Len(m.calls) : m.calls[i] \in CallName
    BY <1>1
  <2>3. \A i \in 1..Len(m.calls) : Shown(n, m.calls[i]) \in Kept
    BY <2>1, <2>2
  <2> QED BY <2>2, <2>3
<1>5. \A b \in Block : ToSet(p(b)) = {Shown(n, <<x>>) : x \in m.blocks \cap {b}}
  <2> SUFFICES ASSUME NEW b \in Block PROVE ToSet(p(b)) = {Shown(n, <<x>>) : x \in m.blocks \cap {b}}
    OBVIOUS
  <2>1. CASE b \in m.blocks
    <3> DEFINE e == Shown(n, <<b>>)
    <3>1. p(b) = <<e>>
      BY <2>1
    <3> HIDE DEF e
    <3>2. ToSet(<<e>>) = {e}
      BY DEF ToSet
    <3> QED BY <2>1, <3>1, <3>2 DEF e
  <2>2. CASE b \notin m.blocks
    <3>1. ToSet(<<>>) = {}
      BY DEF ToSet
    <3> QED BY <2>2, <3>1
  <2> QED BY <2>1, <2>2
<1>6. ToSet(q) = {Shown(n, m.calls[i]) : i \in DOMAIN m.calls}
  BY DEF ToSet
<1> HIDE DEF p, q
<1>7. /\ "reasoning" \in Block /\ "text" \in Block
      /\ \A b \in Block : b = "reasoning" \/ b = "text"
  BY DEF Block
<1>8. /\ Cat(p("reasoning"), q) \in Seq(Kept)
      /\ Cat(Cat(p("reasoning"), q), p("text")) \in Seq(Kept)
  BY <1>3, <1>4, <1>7, CatAll
<1>9. ToSet(Cat(Cat(p("reasoning"), q), p("text"))) = ToSet(p("reasoning")) \cup ToSet(q)
          \cup ToSet(p("text"))
  <2> DEFINE x == p("reasoning")
             y == p("text")
  <2>1. x \in Seq(Kept) /\ y \in Seq(Kept) /\ Cat(x, q) \in Seq(Kept)
    BY <1>3, <1>7, <1>8
  <2> HIDE DEF x, y
  <2>2. ToSet(Cat(x, q)) = ToSet(x) \cup ToSet(q)
    BY <1>4, <2>1, ToSetCat
  <2>3. ToSet(Cat(Cat(x, q), y)) = ToSet(Cat(x, q)) \cup ToSet(y)
    BY <2>1, ToSetCat
  <2> QED BY <2>2, <2>3 DEF x, y
<1>10. {Shown(n, <<x>>) : x \in m.blocks \cap {"reasoning"}}
           \cup {Shown(n, <<x>>) : x \in m.blocks \cap {"text"}}
           = {Shown(n, <<b>>) : b \in m.blocks}
  BY <1>1, <1>7
<1> QED BY <1>2, <1>5, <1>6, <1>7, <1>8, <1>9, <1>10

\* The answers among messages.
LEMMA AnswersCat ==
    ASSUME NEW s \in Seq(ChatMessage), NEW t \in Seq(ChatMessage)
    PROVE  /\ Answers(s) \in Seq(ChatMessage)
           /\ Answers(Cat(s, t)) = Cat(Answers(s), Answers(t))
<1> DEFINE g == [m \in ChatMessage |-> IF m.role = "assistant" THEN <<m>> ELSE <<>>]
<1>0. g \in [ChatMessage -> Seq(ChatMessage)]
  OBVIOUS
<1>2. \A q \in Seq(ChatMessage) : Answers(q) = Mapped(g, q)
  <2> SUFFICES ASSUME NEW q \in Seq(ChatMessage) PROVE Answers(q) = Mapped(g, q)
    OBVIOUS
  <2>1. \A i \in DOMAIN q : g[q[i]] = IF q[i].role = "assistant" THEN <<q[i]>> ELSE <<>>
    OBVIOUS
  <2>2. [i \in DOMAIN q |-> g[q[i]]]
            = [i \in DOMAIN q |-> IF q[i].role = "assistant" THEN <<q[i]>> ELSE <<>>]
    BY <2>1
  <2> QED BY <2>2 DEF Answers, Mapped
<1> HIDE DEF g
<1>4. Cat(Mapped(g, s), Mapped(g, t)) = Mapped(g, Cat(s, t)) /\ Mapped(g, s) \in Seq(ChatMessage)
  BY <1>0, FlattenMapped
<1>3. Cat(s, t) \in Seq(ChatMessage)
  BY CatAll
<1> QED BY <1>2, <1>3, <1>4

\* The answers in no message, in one, and in messages that are none.
LEMMA AnswersFew ==
    /\ Answers(<<>>) = <<>>
    /\ \A m \in ChatMessage : Answers(<<m>>) = IF m.role = "assistant" THEN <<m>> ELSE <<>>
    /\ \A s \in Seq(ChatMessage) :
          (\A i \in DOMAIN s : s[i].role # "assistant") => Answers(s) = <<>>
<1>1. ASSUME NEW s \in Seq(ChatMessage), \A i \in DOMAIN s : s[i].role # "assistant"
      PROVE  Answers(s) = <<>>
  <2> DEFINE x == [i \in DOMAIN s |-> IF s[i].role = "assistant" THEN <<s[i]>> ELSE <<>>]
             n == Len(s)
  <2>1. n \in Nat /\ DOMAIN x = 1..n /\ x = [i \in 1..n |-> <<>>]
    BY <1>1
  <2>2. Answers(s) = FlattenSeq(x)
    BY DEF Answers
  <2> HIDE DEF x, n
  <2> QED BY <2>1, <2>2, FlattenEmpty
<1>2. ASSUME NEW m \in ChatMessage, m.role = "assistant" PROVE Answers(<<m>>) = <<m>>
  <2>1. [i \in DOMAIN <<m>> |-> IF <<m>>[i].role = "assistant" THEN <<<<m>>[i]>> ELSE <<>>] = <<<<m>>>>
    BY <1>2
  <2>2. Answers(<<m>>) = FlattenSeq(<<<<m>>>>)
    BY <2>1 DEF Answers
  <2> DEFINE x == <<m>>
  <2>3. x \in Seq(ChatMessage)
    OBVIOUS
  <2> HIDE DEF x
  <2>4. FlattenSeq(<<x>>) = x
    BY <2>3, FlattenFew
  <2> QED BY <2>2, <2>4 DEF x
<1>3. ASSUME NEW m \in ChatMessage, m.role # "assistant" PROVE Answers(<<m>>) = <<>>
  <2>1. <<m>> \in Seq(ChatMessage) /\ \A i \in DOMAIN <<m>> : <<m>>[i] = m
    OBVIOUS
  <2> QED BY <1>1, <1>3, <2>1
<1>4. Answers(<<>>) = <<>>
  <2>1. <<>> \in Seq(ChatMessage) /\ DOMAIN <<>> = {}
    OBVIOUS
  <2> QED BY <1>1, <2>1
<1> QED BY <1>1, <1>2, <1>3, <1>4

\* What is replayed of the messages of one more step.
LEMMA ReplayMore ==
    ASSUME NEW s \in Seq(ChatMessage), NEW t \in Seq(ChatMessage), NEW m \in ChatMessage,
           Answers(t) = <<m>>
    PROVE  /\ Len(Answers(Cat(s, t))) = Len(Answers(s)) + 1
           /\ ToSet(Replay(Cat(s, t))) = ToSet(Replay(s)) \cup ToSet(StepParts(Len(Answers(s)), m))
<1> DEFINE a == Answers(s)
           n == Len(a)
           b == Cat(a, <<m>>)
           x == [j \in DOMAIN a |-> StepParts(j - 1, a[j])]
           y == [j \in DOMAIN b |-> StepParts(j - 1, b[j])]
           e == StepParts(n, m)
<1>1. a \in Seq(ChatMessage) /\ Answers(Cat(s, t)) = b
  BY AnswersCat
<1> HIDE DEF a
<1>2. n \in Nat /\ DOMAIN a = 1..n /\ \A i \in 1..n : a[i] \in ChatMessage
  BY <1>1
<1>3. /\ Len(b) = n + 1 /\ DOMAIN b = 1..(n + 1) /\ b[n + 1] = m
      /\ \A i \in 1..n : b[i] = a[i]
  BY <1>1 DEF Cat
<1>4. Replay(s) = FlattenSeq(x) /\ Replay(Cat(s, t)) = FlattenSeq(y)
  BY <1>1 DEF Replay, a
<1> DEFINE f == [j \in 1..(n + 1) |-> StepParts(j - 1, b[j])]
<1>5. \A j \in 1..(n + 1) : f[j] \in Seq(Kept)
  <2> SUFFICES ASSUME NEW j \in 1..(n + 1) PROVE f[j] \in Seq(Kept)
    OBVIOUS
  <2>1. j - 1 \in Nat
    BY <1>2
  <2>2. b[j] \in ChatMessage
    <3>1. j \in 1..n \/ j = n + 1
      BY <1>2
    <3> QED BY <1>2, <1>3, <3>1
  <2>3. StepParts(j - 1, b[j]) \in Seq(Kept)
    BY <2>1, <2>2, StepPartsAre
  <2> QED BY <2>3
<1>6. /\ y = [j \in 1..(n + 1) |-> f[j]]
      /\ x = [j \in 1..n |-> f[j]]
      /\ f[n + 1] = e
  <2>1. \A j \in 1..n : j \in 1..(n + 1)
    BY <1>2
  <2>2. n + 1 \in 1..(n + 1) /\ (n + 1) - 1 = n
    BY <1>2
  <2> QED BY <1>2, <1>3, <2>1, <2>2
<1> DEFINE U == Seq(Kept)
<1> HIDE DEF f, x, y, e, n, b, U
<1>7. x \in Seq(U) /\ y = Cat(x, <<e>>)
  <2>1. \A j \in 1..(n + 1) : f[j] \in U
    BY <1>5 DEF U
  <2>2. /\ [j \in 1..n |-> f[j]] \in Seq(U)
        /\ [j \in 1..(n + 1) |-> f[j]] = Cat([j \in 1..n |-> f[j]], <<f[n + 1]>>)
    BY <1>2, <2>1, ExtendedList
  <2> QED BY <1>6, <2>2
<1>8. e \in Seq(Kept)
  BY <1>2, StepPartsAre DEF e
<1>9. FlattenSeq(y) = Cat(FlattenSeq(x), e) /\ FlattenSeq(x) \in Seq(Kept)
  <2> DEFINE z == <<e>>
  <2>1. x \in Seq(Seq(Kept)) /\ z \in Seq(Seq(Kept))
    BY <1>7, <1>8 DEF U
  <2>2. FlattenSeq(z) = e
    BY <1>8, FlattenFew
  <2> HIDE DEF z
  <2>3. FlattenSeq(x) \in Seq(Kept) /\ FlattenSeq(x \o z) = FlattenSeq(x) \o FlattenSeq(z)
    BY <2>1, FlattenCat
  <2> QED BY <1>7, <2>2, <2>3 DEF Cat, z
<1>10. ToSet(FlattenSeq(y)) = ToSet(FlattenSeq(x)) \cup ToSet(e)
  BY <1>8, <1>9, ToSetCat
<1> QED BY <1>1, <1>3, <1>4, <1>10 DEF e, n, a

-----------------------------------------------------------------------------
(* What the client sees in frames that tell this, and which of the steps of*)
(* ChatStream it sees being made.                                          *)

\* What a client sees that was sent s.
Views(s, st, n, O, W, C, G) ==
    /\ Status(s) = st
    /\ Number(s, "start-step") = n
    /\ {b \in Block : Number(s, StartOf[b]) # Number(s, EndOf[b])} = O
    /\ About(s, "tool-input-start") \ About(s, "tool-output-available") = W
    /\ Contents(s) = C
    /\ Progress(s) = G

\* What the client sees in frames that tell this.
LEMMA Viewed ==
    ASSUME NEW s, NEW n \in Nat, NEW k \in Nat, NEW O, NEW A, NEW B, NEW C, NEW G,
           Tells(s, n, k, O, A, B, C, G), O \subseteq Block
    PROVE  /\ Views(s, IF n = k THEN "between" ELSE "step", n, O, A \ B, C, G)
           /\ C \in Seq(FrameContent) /\ G \in Seq(FrameSubject)
<1>1. s \in Seq(FrameSet)
  BY DEF Tells
<1>2. \A b \in Block : Number(s, EndOf[b]) \in Nat
  BY <1>1, OneMore, PlacesCat
<1>3. ~Sent(s, "done")
  BY DEF Tells, Ends
<1>4. Status(s) = IF n = k THEN "between" ELSE "step"
  BY <1>3 DEF Status, Tells
<1>5. \A b \in Block : Number(s, StartOf[b]) = Number(s, EndOf[b]) + (IF b \in O THEN 1 ELSE 0)
  BY DEF Tells
<1>6. \A b \in Block : Number(s, StartOf[b]) # Number(s, EndOf[b]) <=> b \in O
  BY <1>2, <1>5
<1>7. {b \in Block : Number(s, StartOf[b]) # Number(s, EndOf[b])} = O
  BY <1>6
<1>8. Contents(s) \in Seq(FrameContent) /\ Progress(s) \in Seq(FrameSubject)
  BY <1>1, ContentsCat, ProgressCat
<1> QED BY <1>4, <1>7, <1>8 DEF Tells, Views, Views

\* The view between two steps.
LEMMA ViewedBetween ==
    ASSUME NEW s, NEW n \in Nat, NEW O, NEW A, NEW B, NEW C, NEW G,
           Tells(s, n, n, O, A, B, C, G), O \subseteq Block
    PROVE  Views(s, "between", n, O, A \ B, C, G) /\ C \in Seq(FrameContent) /\ G \in Seq(FrameSubject)
  BY Viewed

\* The view in a step.
LEMMA ViewedStep ==
    ASSUME NEW s, NEW n, NEW k \in Nat, NEW O, NEW A, NEW B, NEW C, NEW G,
           Tells(s, n, k, O, A, B, C, G), n = k + 1, O \subseteq Block
    PROVE  Views(s, "step", n, O, A \ B, C, G) /\ C \in Seq(FrameContent) /\ G \in Seq(FrameSubject)
<1>1. n \in Nat /\ n # k
  OBVIOUS
<1> QED BY <1>1, Viewed

\* Frames that tell the same show the client the same.
LEMMA ClientStutter ==
    ASSUME NEW n \in Nat, NEW k \in Nat, NEW O, NEW A, NEW B, NEW C, NEW G, O \subseteq Block,
           Tells(stream, n, k, O, A, B, C, G), Tells(stream', n, k, O, A, B, C, G),
           billed[Root] = -1, billed'[Root] = -1
    PROVE  UNCHANGED Client!vars
<1>1. Views(stream, IF n = k THEN "between" ELSE "step", n, O, A \ B, C, G)
  BY Viewed
<1>2. Views(stream', IF n = k THEN "between" ELSE "step", n, O, A \ B, C, G)
  BY Viewed
<1> QED BY <1>1, <1>2 DEF Client!vars, Views

\* A step more begun is StartStep to the client.
LEMMA ClientStart ==
    ASSUME NEW n \in Nat, n < MaxIterations, NEW A, NEW B, NEW C, NEW G,
           Tells(stream, n, n, {}, A, B, C, G), Tells(stream', n + 1, n, {}, A, B, C, G),
           billed[Root] = -1, billed'[Root] = -1
    PROVE  Client!StartStep
<1>0. n + 1 \in Nat /\ {} \subseteq Block
  OBVIOUS
<1>1. Views(stream, "between", n, {}, A \ B, C, G)
  BY <1>0, ViewedBetween
<1>2. Views(stream', "step", n + 1, {}, A \ B, C, G)
  BY <1>0, ViewedStep
<1> QED BY <1>1, <1>2 DEF Client!StartStep, Views

\* A delta is Say to the client.
LEMMA ClientSay ==
    ASSUME NEW n \in Nat, NEW O, NEW P, NEW A, NEW B, NEW C, NEW G, NEW b \in P,
           Tells(stream, n + 1, n, O, A, B, C, G),
           Tells(stream', n + 1, n, P, A, B, Cat(C, <<Shown(n, <<b>>)>>), G),
           A \ B = {}, O \subseteq Block, P \subseteq Block, P \subseteq O \cup {b},
           billed[Root] = -1, billed'[Root] = -1
    PROVE  Client!Say
<1>0. n + 1 \in Nat /\ {} \subseteq Block
  OBVIOUS
<1>1. Views(stream, "step", n + 1, O, {}, C, G) /\ C \in Seq(FrameContent)
  BY <1>0, ViewedStep
<1>2. Views(stream', "step", n + 1, P, {}, Cat(C, <<Shown(n, <<b>>)>>), G)
  BY <1>0, ViewedStep
<1> QED BY <1>1, <1>2 DEF Client!Say, Client!Content, Cat, Shown, Views

\* A step finished with its calls answered is EndStep to the client.
LEMMA ClientEnd ==
    ASSUME NEW n \in Nat, NEW O, NEW A, NEW B, NEW B2, NEW C, NEW G, O \subseteq Block,
           Tells(stream, n + 1, n, O, A, B, C, G), Tells(stream', n + 1, n + 1, {}, A, B2, C, G),
           A \ B2 = {},
           billed[Root] = -1, billed'[Root] = -1
    PROVE  Client!EndStep
<1>0. n + 1 \in Nat /\ {} \subseteq Block
  OBVIOUS
<1>1. Views(stream, "step", n + 1, O, A \ B, C, G)
  BY <1>0, ViewedStep
<1>2. Views(stream', "between", n + 1, {}, {}, C, G)
  BY <1>0, ViewedBetween
<1> QED BY <1>1, <1>2 DEF Client!EndStep, Views

\* A step begun and finished at once is Notice to the client.
LEMMA ClientNotice ==
    ASSUME NEW n \in Nat, NEW A, NEW B, NEW C, NEW G,
           Tells(stream, n, n, {}, A, B, C, G), Tells(stream', n + 1, n + 1, {}, A, B, C, G),
           billed[Root] = -1, billed'[Root] = -1
    PROVE  Client!Notice
<1>0. n + 1 \in Nat /\ {} \subseteq Block
  OBVIOUS
<1>1. Views(stream, "between", n, {}, A \ B, C, G)
  BY <1>0, ViewedBetween
<1>2. Views(stream', "between", n + 1, {}, A \ B, C, G)
  BY <1>0, ViewedBetween
<1> QED BY <1>1, <1>2 DEF Client!Notice, Views

\* A status of the next plan step is Advance to the client.
LEMMA ClientAdvance ==
    ASSUME NEW n \in Nat, NEW A, NEW B, NEW C, NEW G, NEW e,
           Tells(stream, n, n, {}, A, B, C, G), Tells(stream', n, n, {}, A, B, C, Cat(G, <<e>>)),
           e = <<Len(G) \div 2 + 1, IF Len(G) % 2 = 0 THEN "in_progress" ELSE "completed">>,
           billed[Root] = -1, billed'[Root] = -1
    PROVE  Client!Advance
<1>0. n + 1 \in Nat /\ {} \subseteq Block
  OBVIOUS
<1>1. Views(stream, "between", n, {}, A \ B, C, G) /\ G \in Seq(FrameSubject)
  BY <1>0, ViewedBetween
<1>2. Views(stream', "between", n, {}, A \ B, C, Cat(G, <<e>>))
  BY <1>0, ViewedBetween
<1> QED BY <1>1, <1>2 DEF Client!Advance, Cat, Views

\* What is added to a list can be read from it.
LEMMA Suffix ==
    ASSUME NEW T, NEW a \in Seq(T), NEW b \in Seq(T)
    PROVE  /\ IsPrefix(a, Cat(a, b))
           /\ SubSeq(Cat(a, b), Len(a) + 1, Len(Cat(a, b))) = b
<1> DEFINE c == a \o b
           d == SubSeq(c, Len(a) + 1, Len(c))
<1>1. /\ c \in Seq(T) /\ Len(c) = Len(a) + Len(b)
      /\ DOMAIN a = 1..Len(a) /\ DOMAIN b = 1..Len(b)
      /\ Len(a) \in Nat /\ Len(b) \in Nat
      /\ \A i \in 1..Len(a) : c[i] = a[i]
      /\ \A i \in 1..Len(b) : c[Len(a) + i] = b[i]
  BY CatElements
<1> HIDE DEF c
<1>2. Len(a) <= Len(c) /\ Len(c) \in Nat
  BY <1>1
<1>3. /\ SubSeq(c, 1, Len(a)) = [i \in 1..Len(a) |-> c[i]]
      /\ SubSeq(a, 1, Len(a)) = [i \in 1..Len(a) |-> a[i]]
  <2>1. \A q \in Seq(T) : \A n \in 0..Len(q) : SubSeq(q, 1, n) = [i \in 1..n |-> q[i]]
    OBVIOUS
  <2>2. Len(a) \in 0..Len(c) /\ Len(a) \in 0..Len(a)
    BY <1>1, <1>2
  <2> QED BY <1>1, <2>1, <2>2
<1>4. SubSeq(a, 1, Len(a)) = SubSeq(c, 1, Len(a))
  BY <1>1, <1>3
<1>5. IsPrefix(a, c)
  BY <1>2, <1>4 DEF IsPrefix
<1>6. d \in Seq(T) /\ Len(d) = Len(b) /\ \A i \in 1..Len(b) : d[i] = b[i]
  <2>1. Len(c) - (Len(a) + 1) + 1 = Len(b)
    BY <1>1
  <2>2. \A i \in 1..Len(b) : (Len(a) + 1) + i - 1 = Len(a) + i
    BY <1>1
  <2>3. /\ d \in Seq(T)
        /\ Len(d) = IF Len(a) + 1 <= Len(c) THEN Len(c) - (Len(a) + 1) + 1 ELSE 0
        /\ \A i \in 1..Len(d) : d[i] = c[(Len(a) + 1) + i - 1]
    <3>1. Len(a) + 1 \in 1..(Len(c) + 1) /\ Len(c) \in Nat
      BY <1>1, <1>2
    <3> QED BY <1>1, <3>1
  <2>4. Len(d) = Len(b)
    BY <1>1, <2>1, <2>3
  <2> QED BY <1>1, <2>2, <2>3, <2>4
<1>7. d = b
  <2> HIDE DEF d
  <2>1. \A q \in Seq(T) : q = [i \in 1..Len(q) |-> q[i]]
    OBVIOUS
  <2> QED BY <1>6, <2>1
<1> QED BY <1>5, <1>7 DEF Cat, c, d

\* The calls of a step are shown once each.
LEMMA ShownCallsAre ==
    ASSUME NEW N \in Nat, Its \in Nat, Its < MaxIterations
    PROVE  /\ ShownCalls(N) \in Seq(FrameContent)
           /\ IsInjective(ShownCalls(N))
           /\ ToSet(ShownCalls(N)) = {Shown(Its, x) : x \in Ids(N)}
<1>1. \A i \in 1..N : Shown(Its, CallId(Root, i)) \in FrameContent
  BY CallTyped
<1>2. ShownCalls(N) \in Seq(FrameContent)
  BY <1>1 DEF ShownCalls
<1>3. DOMAIN ShownCalls(N) = 1..N /\ \A i \in 1..N : ShownCalls(N)[i] = Shown(Its, <<Its, i>>)
  BY DEF ShownCalls, CallId, Its
<1>4. \A i, j : Shown(Its, <<Its, i>>) = Shown(Its, <<Its, j>>) => i = j
  <2> SUFFICES ASSUME NEW i, NEW j, Shown(Its, <<Its, i>>) = Shown(Its, <<Its, j>>) PROVE i = j
    OBVIOUS
  <2>1. Shown(Its, <<Its, i>>).part = <<Its, i>> /\ Shown(Its, <<Its, j>>).part = <<Its, j>>
    BY DEF Shown
  <2>2. <<Its, i>> = <<Its, j>>
    BY <2>1
  <2> QED BY <2>2
<1>5. IsInjective(ShownCalls(N))
  BY <1>3, <1>4 DEF IsInjective
<1>6. ToSet(ShownCalls(N)) = {Shown(Its, x) : x \in Ids(N)}
  BY <1>3 DEF ToSet, Ids, CallId, Its
<1> QED BY <1>2, <1>5, <1>6

\* The calls of a step, announced together, are CallTools to the client.
LEMMA ClientCalls ==
    ASSUME NEW n \in Nat, NEW O, NEW A, NEW B, NEW C, NEW G, NEW N \in Nat, N # 0,
           Its = n, n < MaxIterations,
           Tells(stream, n + 1, n, O, A, B, C, G),
           Tells(stream', n + 1, n, {}, A \cup Ids(N), B, Cat(C, ShownCalls(N)), G),
           A \ B = {}, O \subseteq Block,
           \A x \in B : x[1] < n,
           \A x \in ToSet(C) : x.step < n \/ \E b \in Block : x = Shown(n, <<b>>),
           billed[Root] = -1, billed'[Root] = -1
    PROVE  Client!CallTools
<1>0. n + 1 \in Nat /\ {} \subseteq Block
  OBVIOUS
<1>1. (A \cup Ids(N)) \ B = Ids(N)
  <2>1. \A x \in Ids(N) : x[1] = n
    BY DEF Ids, CallId, Its
  <2>2. \A x \in Ids(N) : x \notin B
    BY <2>1
  <2> QED BY <2>2
<1>2. Views(stream, "step", n + 1, O, {}, C, G) /\ C \in Seq(FrameContent)
  BY <1>0, ViewedStep
<1>3. Views(stream', "step", n + 1, {}, Ids(N), Cat(C, ShownCalls(N)), G)
  BY <1>0, <1>1, ViewedStep
<1>4. /\ ShownCalls(N) \in Seq(FrameContent)
      /\ IsInjective(ShownCalls(N))
      /\ ToSet(ShownCalls(N)) = {Shown(n, x) : x \in Ids(N)}
  BY ShownCallsAre
<1> DEFINE D == Cat(C, ShownCalls(N))
           new == SubSeq(D, Len(C) + 1, Len(D))
<1>5. IsPrefix(C, D) /\ new = ShownCalls(N)
  BY <1>2, <1>4, Suffix
<1>6. Ids(N) # {}
  <2>1. 1 \in 1..N
    OBVIOUS
  <2> QED BY <2>1 DEF Ids
<1>7. ToSet(new) \cap ToSet(C) = {}
  <2> SUFFICES ASSUME NEW x \in Ids(N), Shown(n, x) \in ToSet(C) PROVE FALSE
    BY <1>4, <1>5
  <2>1. Shown(n, x).step = n /\ Shown(n, x).part = x
    BY DEF Shown
  <2>2. PICK b \in Block : Shown(n, x) = Shown(n, <<b>>)
    BY <2>1
  <2>3. x = <<b>>
    BY <2>1, <2>2 DEF Shown
  <2>4. PICK i \in 1..N : x = <<iteration[Root], i>>
    BY DEF Ids, CallId
  <2> QED BY <2>3, <2>4
<1>9. IsInjective(new) /\ ToSet(new) = {Shown(n, x) : x \in Ids(N)}
  BY <1>4, <1>5
<1> HIDE DEF D, new
<1>8. {Shown(n, x) : x \in Ids(N)} = {[step |-> (n + 1) - 1, part |-> x] : x \in Ids(N)}
  <2>1. (n + 1) - 1 = n
    OBVIOUS
  <2>2. \A x : Shown(n, x) = [step |-> (n + 1) - 1, part |-> x]
    BY <2>1 DEF Shown
  <2> QED BY <2>2
<1>10. /\ Status(stream) = "step" /\ Number(stream, "start-step") = n + 1
       /\ About(stream, "tool-input-start") \ About(stream, "tool-output-available") = {}
       /\ Contents(stream) = C /\ Progress(stream) = G
  BY <1>2 DEF Views
<1>11. /\ Status(stream') = "step" /\ Number(stream', "start-step") = n + 1
       /\ {b \in Block : Number(stream', StartOf[b]) # Number(stream', EndOf[b])} = {}
       /\ About(stream', "tool-input-start") \ About(stream', "tool-output-available") = Ids(N)
       /\ Contents(stream') = D /\ Progress(stream') = G
  BY <1>3 DEF Views, D
<1>12. SubSeq(Contents(stream'), Len(Contents(stream)) + 1, Len(Contents(stream'))) = new
  BY <1>10, <1>11 DEF new
<1>13. {Client!Content(x) : x \in Ids(N)} = {Shown(n, x) : x \in Ids(N)}
  <2>1. \A x : Client!Content(x) = [step |-> (n + 1) - 1, part |-> x]
    BY <1>10 DEF Client!Content
  <2> QED BY <1>8, <2>1
<1>14. ToSet(new) = {Client!Content(x) : x \in Ids(N)}
  BY <1>9, <1>13
<1> DEFINE seen == Contents(stream')
           before == Contents(stream)
<1>15. IsPrefix(before, seen) /\ ToSet(new) \cap ToSet(before) = {}
  BY <1>5, <1>7, <1>10, <1>11
<1>16. /\ Client!IsPrefix(before, seen) /\ Client!IsInjective(new)
       /\ Client!ToSet(new) = ToSet(new) /\ Client!ToSet(before) = ToSet(before)
  <2>1. Client!IsPrefix(before, seen)
    BY <1>15 DEF IsPrefix, Client!IsPrefix
  <2>2. Client!IsInjective(new)
    BY <1>9 DEF IsInjective, Client!IsInjective
  <2>3. \A q : Client!ToSet(q) = ToSet(q)
    BY DEF ToSet, Client!ToSet
  <2> QED BY <2>1, <2>2, <2>3
<1> QED BY <1>6, <1>10, <1>11, <1>12, <1>14, <1>15, <1>16 DEF Client!CallTools

\* The turn is over: its last frames tell how.
Silent(s) == s \in Seq(FrameSet) /\ \A type \in Ends : ~Sent(s, type)

-----------------------------------------------------------------------------
(* The invariant behind the refinement: while the session's turn goes on,  *)
(* what its frames told fits what it is doing and what it has recorded.    *)

\* The phases of the session's turn: between two steps, in a step, stopped by a failure;
\* and those of a plan.
Between == {"prepare", "plan", "steps", "create", "call", "await", "loop", "finish"}
InStep == {"llm", "synth", "tools"}
Stopped == {"failed", "raised", "crashed"}
Planning == {"prepare", "plan", "steps", "create", "call", "await", "synth"}

\* The blocks that are open, the parts of the current step, and the number of plan steps shown.
Opens == IF phase[Root] \in {"llm", "synth"} THEN open[Root] ELSE {}
Current == IF phase[Root] \in InStep
           THEN {Shown(Its, <<b>>) : b \in said[Root]}
                    \cup (IF phase[Root] = "tools" THEN {Shown(Its, x) : x \in Ids(Len(calls[Root]))}
                                                   ELSE {})
           ELSE {}
Advanced == IF phase[Root] \in {"prepare", "plan"} THEN 0
            ELSE 2 * (NextStep - 1) + (IF phase[Root] = "steps" THEN 0 ELSE 1)

\* How what was told fits the turn.
FitsSteps(n, k) ==
    /\ k \in Nat /\ n = (IF phase[Root] \in InStep THEN k + 1 ELSE k)
    /\ phase[Root] # "finish" => k = Its
    /\ phase[Root] \in InStep => k < MaxIterations
    /\ phase[Root] \in Planning => k = 0
FitsCalls(k, A, B) ==
    /\ A \ B = (IF phase[Root] = "tools" THEN Ids(Len(calls[Root])) ELSE {})
    /\ phase[Root] # "finish" => \A x \in B : x[1] \in Nat /\ x[1] < k
FitsRecord(k, C) ==
    /\ ToSet(C) = ToSet(Replay(record[Root])) \cup Current
    /\ phase[Root] # "finish" => /\ Len(Answers(record[Root])) = k
                                 /\ \A x \in ToSet(C) : (x.step \in Nat /\ x.step < k) \/ x \in Current
FitsPlan(G) == phase[Root] \in Planning \ {"synth"} => Len(G) = Advanced

Fits(n, k, O, A, B, C, G) ==
    /\ O = Opens
    /\ FitsSteps(n, k)
    /\ FitsCalls(k, A, B)
    /\ FitsRecord(k, C)
    /\ FitsPlan(G)

\* What was told.
Finished == Number(stream, "finish-step")
Begun == Number(stream, "start-step")
Asked == About(stream, "tool-input-start")
Given == About(stream, "tool-output-available")

\* The conjuncts of the invariant: the steps of a plan are completed in order; a turn is
\* billed when it ends; what it told while it goes on, and while it has yet to say that it
\* stopped.
PlanOrdered ==
    /\ \A k \in DOMAIN plan : plan[k] = "completed" <=> k < NextStep
    /\ phase[Root] \in {"create", "call", "await"} => NextStep \in DOMAIN plan
OpenTyped == open \in [Runs -> SUBSET Block]
NotBilled == phase[Root] \notin {"closed", "cancelled"} => billed[Root] = -1
StoppedTold == phase[Root] \in Stopped => Silent(stream)
LiveTold ==
    phase[Root] \in Between \cup InStep =>
        /\ Tells(stream, Begun, Finished, Opens, Asked, Given, Contents(stream), Progress(stream))
        /\ Fits(Begun, Finished, Opens, Asked, Given, Contents(stream), Progress(stream))
RootPhases == phase[Root] \in Between \cup InStep \cup Stopped \cup {"closed", "cancelled"}
StreamInv == PlanOrdered /\ OpenTyped /\ NotBilled /\ StoppedTold /\ LiveTold /\ RootPhases

-----------------------------------------------------------------------------
(* Each step of the session's turn keeps frames and turn together, and is  *)
(* a step of ChatStream or none.                                           *)

\* The part of the invariant that speaks of frames.
Served == StoppedTold /\ LiveTold /\ RootPhases

\* What is known of the session's turn while it can go on.
LEMMA RootFacts ==
    ASSUME PlanInv, ConstantsAssumption
    PROVE  /\ Root \in Runs /\ TypeInv /\ phase \in [Runs -> Phase] /\ Its \in Nat /\ MaxIterations \in Nat
           /\ 0 < MaxIterations
           /\ record \in [Runs -> Seq(ChatMessage)] /\ record[Root] \in Seq(ChatMessage)
           /\ billed \in [Runs -> Nat \cup {-1}] /\ said \in [Runs -> SUBSET Block]
           /\ said[Root] \subseteq Block /\ iteration \in [Runs -> Nat]
           /\ calls \in [Runs -> Seq(Call)] /\ Len(calls[Root]) \in Nat
           /\ plan \in Seq(PlanStatus)
  BY DEF PlanInv, TypeInv, Its, Runs, ConstantsAssumption

\* What the frames tell is known by their telling it.
LEMMA LiveAgain ==
    ASSUME NEW n, NEW k, NEW O, NEW A, NEW B, NEW C, NEW G,
           Tells(stream', n, k, O, A, B, C, G), Fits(n, k, O, A, B, C, G)',
           phase'[Root] \in Between \cup InStep
    PROVE  Served'
<1>1. /\ n = Number(stream', "start-step") /\ k = Number(stream', "finish-step")
      /\ A = About(stream', "tool-input-start") /\ B = About(stream', "tool-output-available")
      /\ C = Contents(stream') /\ G = Progress(stream')
  BY DEF Tells
<1>2. O = Opens'
  BY DEF Fits
<1>3. LiveTold'
  BY <1>1, <1>2 DEF LiveTold, Begun, Finished, Asked, Given
<1>4. StoppedTold' /\ RootPhases'
  BY DEF StoppedTold, RootPhases, Stopped, Between, InStep
<1> QED BY <1>3, <1>4 DEF Served

\* A step that starts a model stream.
LEMMA ServedStart ==
    ASSUME PlanInv, ConstantsAssumption, NEW p \in {"llm", "synth"}, StartStream(Root, p),
           phase[Root] = (IF p = "llm" THEN "loop" ELSE "steps"), Its < MaxIterations,
           OpenTyped, billed[Root] = -1,
           NEW k, NEW A, NEW B, NEW C, NEW G,
           Tells(stream, k, k, {}, A, B, C, G), Fits(k, k, {}, A, B, C, G)
    PROVE  Served' /\ Client!StartStep
<1>1. Root \in Runs /\ phase \in [Runs -> Phase] /\ Its \in Nat /\ said \in [Runs -> SUBSET Block]
  BY RootFacts
<1>2. k = Its /\ A \ B = {}
  BY DEF Fits, FitsSteps, FitsCalls
<1> DEFINE f == Frame("start-step", <<Its>>)
<1>3. f \in FrameSet /\ f.type = "start-step"
  <2>1. <<Its>> \in Subject /\ "start-step" \in FrameType
    BY <1>1 DEF Subject, FrameType
  <2> HIDE DEF Its
  <2> QED BY <2>1, FrameTyped
<1>4. stream' = Cat(stream, <<f>>)
  BY DEF StartStream, Send, Cat, Its
<1> HIDE DEF f
<1>5. Tells(stream', k + 1, k, {}, A, B, C, G)
  BY <1>3, <1>4, TellsStep
<1>6. /\ phase'[Root] = p /\ open'[Root] = {} /\ said'[Root] = {} /\ billed'[Root] = -1
      /\ UNCHANGED <<record, iteration, calls, billed>>
  BY <1>1 DEF StartStream, To, loop, OpenTyped
<1>7. Fits(k + 1, k, {}, A, B, C, G)'
  <2>1. Opens' = {}
    BY <1>6 DEF Opens
  <2>2. Current' = {} /\ Current = {}
    BY <1>6 DEF Current, InStep
  <2>3. FitsSteps(k + 1, k)'
    BY <1>1, <1>2, <1>6 DEF Fits, FitsSteps, InStep, Planning, Its
  <2>4. FitsCalls(k, A, B)'
    BY <1>2, <1>6 DEF Fits, FitsCalls
  <2>5. FitsRecord(k, C)'
    BY <1>6, <2>2 DEF Fits, FitsRecord
  <2>6. FitsPlan(G)'
    BY <1>6 DEF FitsPlan, Planning
  <2> QED BY <2>1, <2>3, <2>4, <2>5, <2>6 DEF Fits
<1>8. Served'
  BY <1>5, <1>6, <1>7, LiveAgain DEF InStep
<1>9. k \in Nat /\ k < MaxIterations
  BY <1>1, <1>2
<1> QED BY <1>5, <1>6, <1>8, <1>9, ClientStart

\* What a delta opens.
LEMMA ConsumeOpens ==
    ASSUME NEW b \in Block, NEW r, open[r] \subseteq Block
    PROVE  /\ b \in Consume(r, b).open
           /\ Consume(r, b).open \subseteq open[r] \cup {b}
           /\ Consume(r, b).open \subseteq Block
  BY DEF Consume, Block

\* A delta.
LEMMA ServedDelta ==
    ASSUME PlanInv, ConstantsAssumption, Delta(Root), OpenTyped, billed[Root] = -1,
           NEW k, NEW A, NEW B, NEW C, NEW G,
           Tells(stream, k + 1, k, open[Root], A, B, C, G), Fits(k + 1, k, open[Root], A, B, C, G)
    PROVE  Served' /\ Client!Say
<1>1. Root \in Runs /\ phase \in [Runs -> Phase] /\ Its \in Nat /\ said \in [Runs -> SUBSET Block]
  BY RootFacts
<1>2. phase[Root] \in {"llm", "synth"} /\ k = Its /\ A \ B = {} /\ k < MaxIterations
  BY DEF Fits, FitsSteps, FitsCalls, Delta, InStep
<1>3. PICK b \in Block : /\ stream' = Cat(stream, Consume(Root, b).frames)
                         /\ open'[Root] = Consume(Root, b).open
                         /\ said'[Root] = said[Root] \cup {b}
  BY <1>1 DEF Delta, Send, Cat, OpenTyped
<1>4. open[Root] \subseteq Block
  BY <1>1 DEF OpenTyped
<1>6. PICK P \in SUBSET Block : P = Consume(Root, b).open /\ b \in P /\ P \subseteq open[Root] \cup {b}
  BY <1>4, ConsumeOpens
<1> DEFINE D == Cat(C, <<Shown(k, <<b>>)>>)
<1>5. Tells(stream', k + 1, k, P, A, B, D, G)
  <2>1. Tells(Cat(stream, Consume(Root, b).frames), k + 1, k, Consume(Root, b).open, A, B,
              Cat(C, <<Shown(Its, <<b>>)>>), G)
    BY <1>1, <1>2, <1>4, TellsConsume
  <2> QED BY <1>2, <1>3, <1>6, <2>1
<1>7. UNCHANGED <<phase, record, iteration, calls, billed>>
  BY DEF Delta, loop
<1>8. C \in Seq(FrameContent) /\ ToSet(D) = ToSet(C) \cup {Shown(k, <<b>>)}
  <2> DEFINE e == Shown(k, <<b>>)
             f == Frame(DeltaOf[b], <<Its>>)
  <2>1. C \in Seq(FrameContent)
    <3>1. C = Contents(stream) /\ stream \in Seq(FrameSet)
      BY DEF Tells
    <3> QED BY <3>1, ContentsCat
  <2>2. e \in FrameContent
    <3>1. <<Its>> \in Subject /\ DeltaOf[b] \in FrameType
      BY <1>1, BlockTypes DEF Subject, FrameType
    <3>2. f \in FrameSet /\ f.type = DeltaOf[b] /\ f.of = <<Its>>
      <4> HIDE DEF Its
      <4> QED BY <3>1, FrameTyped
    <3> HIDE DEF f
    <3>3. Content(f) = e
      BY <1>2, <3>2, BlockTypes DEF Content
    <3> QED BY <3>2, <3>3 DEF FrameContent
  <2> HIDE DEF e
  <2>3. <<e>> \in Seq(FrameContent) /\ ToSet(<<e>>) = {e}
    BY <2>2 DEF ToSet
  <2> DEFINE z == <<e>>
  <2> HIDE DEF z
  <2>4. ToSet(Cat(C, z)) = ToSet(C) \cup ToSet(z)
    BY <2>1, <2>3, ToSetCat DEF z
  <2> QED BY <2>1, <2>2, <2>3, <2>4 DEF z, e
<1> HIDE DEF D
<1>9. Fits(k + 1, k, P, A, B, D, G)'
  <2>1. P = Opens'
    BY <1>2, <1>3, <1>6, <1>7 DEF Opens
  <2>2. /\ Current = {Shown(Its, <<x>>) : x \in said[Root]}
        /\ Current' = {Shown(Its, <<x>>) : x \in said[Root] \cup {b}}
    <3>1. Its' = Its /\ phase'[Root] = phase[Root] /\ phase[Root] \in InStep /\ phase[Root] # "tools"
      BY <1>2, <1>7 DEF Its, InStep
    <3> QED BY <1>3, <3>1 DEF Current
  <2>3. Current' = Current \cup {Shown(k, <<b>>)}
    BY <1>2, <2>2
  <2>4. FitsSteps(k + 1, k)' /\ FitsCalls(k, A, B)'
    BY <1>2, <1>7 DEF Fits, FitsSteps, FitsCalls, Its
  <2>5. FitsRecord(k, D)'
    BY <1>2, <1>7, <1>8, <2>3 DEF Fits, FitsRecord
  <2>6. FitsPlan(G)'
    BY <1>2, <1>7 DEF FitsPlan, Planning
  <2> QED BY <2>1, <2>4, <2>5, <2>6 DEF Fits
<1>10. Served'
  BY <1>2, <1>5, <1>7, <1>9, LiveAgain DEF InStep
<1>11. Client!Say
  <2>1. k \in Nat /\ billed'[Root] = -1
    BY <1>1, <1>2, <1>7
  <2>2. Tells(stream', k + 1, k, P, A, B, Cat(C, <<Shown(k, <<b>>)>>), G)
    BY <1>2, <1>5 DEF D
  <2> QED BY <1>2, <1>4, <1>6, <2>1, <2>2, ClientSay
<1> QED BY <1>10, <1>11

\* A model stream ends with no calls, of the loop or of the synthesizer.
LEMMA ServedAnswer ==
    ASSUME PlanInv, ConstantsAssumption, OpenTyped, billed[Root] = -1,
           phase[Root] \in {"llm", "synth"}, To(Root, "finish"),
           Send(Root, EndFrames(Root) \o <<Frame("finish-step", <<iteration[Root]>>)>>),
           record' = Add(record, Root, <<Assistant(Root, <<>>)>>),
           UNCHANGED <<iteration, billed, open, said, calls>>,
           NEW k, NEW A, NEW B, NEW C, NEW G,
           Tells(stream, k + 1, k, open[Root], A, B, C, G), Fits(k + 1, k, open[Root], A, B, C, G)
    PROVE  Served' /\ Client!EndStep
<1>1. /\ Root \in Runs /\ phase \in [Runs -> Phase] /\ Its \in Nat /\ TypeInv
      /\ record \in [Runs -> Seq(ChatMessage)] /\ record[Root] \in Seq(ChatMessage)
  BY RootFacts
<1>2. k = Its /\ A \ B = {} /\ k < MaxIterations
  BY DEF Fits, FitsSteps, FitsCalls, InStep
<1> DEFINE f == Frame("finish-step", <<Its>>)
           t == EndFrames(Root)
           m == Assistant(Root, <<>>)
<1>3. f \in FrameSet /\ f.type = "finish-step"
  <2>1. <<Its>> \in Subject /\ "finish-step" \in FrameType
    BY <1>1 DEF Subject, FrameType
  <2> HIDE DEF Its
  <2> QED BY <2>1, FrameTyped
<1>4. open[Root] \subseteq Block /\ stream \in Seq(FrameSet)
  BY <1>1 DEF OpenTyped, Tells
<1>5. stream' = Cat(stream, Cat(t, <<f>>))
  BY DEF Send, Cat, Its
<1> HIDE DEF f
<1>6. Tells(Cat(stream, t), k + 1, k, {}, A, B, C, G) /\ t \in Seq(FrameSet)
  BY <1>1, <1>4, TellsEndFrames
<1> HIDE DEF t
<1>7. stream' = Cat(Cat(stream, t), <<f>>)
  <2> DEFINE z == <<f>>
  <2>1. z \in Seq(FrameSet)
    BY <1>3
  <2> HIDE DEF z
  <2>2. Cat(stream, Cat(t, z)) = Cat(Cat(stream, t), z)
    BY <1>4, <1>6, <2>1, CatAll
  <2> QED BY <1>5, <2>2 DEF z
<1>8. Tells(stream', k + 1, k + 1, {}, A, B, C, G)
  BY <1>3, <1>6, <1>7, TellsStep
<1>9. m \in ChatMessage /\ m.role = "assistant" /\ m.blocks = said[Root] /\ m.calls = <<>>
  <2>1. m \in ChatMessage
    BY <1>1, MadeMessages
  <2> QED BY <2>1 DEF Assistant, Message, CallIds
<1> HIDE DEF m
<1>10. ToSet(Replay(record'[Root])) = ToSet(Replay(record[Root])) \cup {Shown(k, <<b>>) : b \in said[Root]}
  <2>1. record'[Root] = Cat(record[Root], <<m>>)
    BY <1>1 DEF Add, Cat, m
  <2>2. <<m>> \in Seq(ChatMessage) /\ Answers(<<m>>) = <<m>>
    BY <1>9, AnswersFew
  <2> DEFINE z == <<m>>
  <2> HIDE DEF z
  <2>3. ToSet(Replay(Cat(record[Root], z))) = ToSet(Replay(record[Root]))
            \cup ToSet(StepParts(Len(Answers(record[Root])), m))
    BY <1>1, <1>9, <2>2, ReplayMore DEF z
  <2>4. Len(Answers(record[Root])) = k /\ k \in Nat
    BY <1>1, <1>2 DEF Fits, FitsRecord
  <2>5. ToSet(StepParts(k, m)) = {Shown(k, <<b>>) : b \in said[Root]}
    <3>1. ToSet(StepParts(k, m)) = {Shown(k, <<b>>) : b \in m.blocks}
              \cup {Shown(k, m.calls[i]) : i \in DOMAIN m.calls}
      BY <1>9, <2>4, StepPartsAre
    <3>2. DOMAIN m.calls = {}
      BY <1>9
    <3> QED BY <1>9, <3>1, <3>2
  <2> QED BY <2>1, <2>3, <2>4, <2>5 DEF z
<1>11. phase'[Root] = "finish"
  BY <1>1 DEF To
<1>12. Fits(k + 1, k + 1, {}, A, B, C, G)'
  <2>1. Opens' = {} /\ Current' = {}
    BY <1>11 DEF Opens, Current, InStep
  <2>2. Current = {Shown(k, <<b>>) : b \in said[Root]}
    BY <1>2 DEF Current, InStep
  <2>3. FitsSteps(k + 1, k + 1)'
    BY <1>1, <1>2, <1>11 DEF FitsSteps, InStep, Planning
  <2>4. FitsCalls(k + 1, A, B)'
    BY <1>2, <1>11 DEF FitsCalls
  <2>5. FitsRecord(k + 1, C)'
    BY <1>10, <1>11, <2>1, <2>2 DEF Fits, FitsRecord
  <2>6. FitsPlan(G)'
    BY <1>11 DEF FitsPlan, Planning
  <2> QED BY <2>1, <2>3, <2>4, <2>5, <2>6 DEF Fits
<1>13. Served'
  BY <1>8, <1>11, <1>12, LiveAgain DEF Between
<1>14. Client!EndStep
  <2>1. k \in Nat /\ billed'[Root] = -1
    BY <1>1, <1>2
  <2> QED BY <1>2, <1>4, <1>8, <2>1, ClientEnd
<1> QED BY <1>13, <1>14

\* The calls of a step by the number of the step.
CallsOf(k, m) == {<<k, i>> : i \in 1..m}

\* The names of the calls of the iteration.
LEMMA IdsAre ==
    ASSUME NEW k, NEW m, k = Its
    PROVE  /\ Ids(m) = CallsOf(k, m)
           /\ ShownCalls(m) = [i \in 1..m |-> Shown(k, <<k, i>>)]
  BY DEF Ids, CallsOf, CallId, Its, ShownCalls

\* What a frame told is known by the sequences it is told in.
LEMMA ToldTyped ==
    ASSUME NEW s, NEW n, NEW k, NEW O, NEW A, NEW B, NEW C, NEW G, Tells(s, n, k, O, A, B, C, G)
    PROVE  s \in Seq(FrameSet) /\ C \in Seq(FrameContent) /\ G \in Seq(FrameSubject)
<1>1. s \in Seq(FrameSet) /\ C = Contents(s) /\ G = Progress(s)
  BY DEF Tells
<1> QED BY <1>1, ContentsCat, ProgressCat

\* A model stream ends with calls.
LEMMA ServedCalls ==
    ASSUME PlanInv, ConstantsAssumption, EndWithCalls(Root), OpenTyped, billed[Root] = -1,
           NEW k, NEW A, NEW B, NEW C, NEW G,
           Tells(stream, k + 1, k, open[Root], A, B, C, G), Fits(k + 1, k, open[Root], A, B, C, G)
    PROVE  Served' /\ Client!CallTools
<1>1. /\ Root \in Runs /\ phase \in [Runs -> Phase] /\ Its \in Nat /\ TypeInv
      /\ calls \in [Runs -> Seq(Call)]
  BY RootFacts
<1>2. phase[Root] = "llm" /\ k = Its /\ A \ B = {} /\ k < MaxIterations
  BY DEF Fits, FitsSteps, FitsCalls, InStep, EndWithCalls, From
<1>3. PICK list \in request.lists \ {<<>>} :
         /\ Send(Root, EndFrames(Root) \o InputFrames(Root, list))
         /\ calls' = [calls EXCEPT ![Root] = [i \in DOMAIN list |-> NewCall(list[i])]]
  BY DEF EndWithCalls
<1>4. list \in Seq(Tool)
  BY <1>1, <1>3 DEF TypeInv, ConstantsAssumption, Request
<1> DEFINE N == Len(list)
<1>5. N \in Nat /\ N # 0 /\ Len(calls'[Root]) = N
  <2>1. N \in Nat /\ DOMAIN list = 1..N
    BY <1>4
  <2>2. N # 0
    BY <1>3, <1>4
  <2>3. calls'[Root] = [i \in 1..N |-> NewCall(list[i])]
    BY <1>1, <1>3, <2>1
  <2> QED BY <2>1, <2>2, <2>3
<1> HIDE DEF N
<1>6. open[Root] \subseteq Block /\ stream \in Seq(FrameSet)
  BY <1>1 DEF OpenTyped, Tells
<1> DEFINE t == EndFrames(Root)
           u == InputFrames(Root, list)
           E == A \cup CallsOf(k, N)
           q == [i \in 1..N |-> Shown(k, <<k, i>>)]
           D == Cat(C, q)
<1>7. stream' = Cat(stream, Cat(t, u))
  BY <1>3 DEF Send, Cat
<1>8. Tells(Cat(stream, t), k + 1, k, {}, A, B, C, G) /\ t \in Seq(FrameSet)
  BY <1>1, <1>6, TellsEndFrames
<1>9. Ids(N) = CallsOf(k, N) /\ ShownCalls(N) = q
  BY <1>2, IdsAre
<1>10. Tells(stream', k + 1, k, {}, E, B, D, G)
  <2>1. /\ u \in Seq(FrameSet)
        /\ Tells(Cat(Cat(stream, t), u), k + 1, k, {}, A \cup Ids(N), B, Cat(C, ShownCalls(N)), G)
    BY <1>1, <1>2, <1>4, <1>8, TellsInput DEF N
  <2> HIDE DEF t, u
  <2>2. Cat(stream, Cat(t, u)) = Cat(Cat(stream, t), u)
    BY <1>6, <1>8, <2>1, CatAll
  <2> QED BY <1>7, <1>9, <2>1, <2>2
<1>11. C \in Seq(FrameContent) /\ q \in Seq(FrameContent) /\ ToSet(q) = {Shown(k, x) : x \in CallsOf(k, N)}
  <2>1. C \in Seq(FrameContent)
    BY ToldTyped
  <2>2. q \in Seq(FrameContent) /\ ToSet(q) = {Shown(k, x) : x \in CallsOf(k, N)}
    <3>1. Its < MaxIterations
      BY <1>2
    <3>2. /\ ShownCalls(N) \in Seq(FrameContent)
          /\ ToSet(ShownCalls(N)) = {Shown(Its, x) : x \in Ids(N)}
      BY <1>1, <1>5, <3>1, ShownCallsAre
    <3>3. {Shown(Its, x) : x \in Ids(N)} = {Shown(k, x) : x \in CallsOf(k, N)}
      BY <1>2, <1>9
    <3> HIDE DEF q
    <3> QED BY <1>9, <3>2, <3>3
  <2> QED BY <2>1, <2>2
<1> HIDE DEF q, D, E, t, u
<1>12. ToSet(D) = ToSet(C) \cup {Shown(k, x) : x \in CallsOf(k, N)}
  BY <1>11, ToSetCat DEF D
<1>13. UNCHANGED <<record, iteration, said, billed>> /\ phase'[Root] = "tools" /\ Its' = Its
  BY <1>1 DEF EndWithCalls, loop, To, Its
<1>14. Ids(N)' = CallsOf(k, N)
  BY <1>2, <1>13, <1>9 DEF Ids, CallsOf, CallId, Its
<1>15. (A \cup CallsOf(k, N)) \ B = CallsOf(k, N)
  <2>1. \A x \in CallsOf(k, N) : x[1] = k
    BY DEF CallsOf
  <2>2. \A x \in CallsOf(k, N) : x \notin B
    <3>1. \A x \in B : x[1] \in Nat /\ x[1] < k
      BY <1>2 DEF Fits, FitsCalls
    <3> QED BY <1>1, <1>2, <2>1, <3>1
  <2> QED BY <1>2, <2>2
<1>16. /\ Current = {Shown(k, <<b>>) : b \in said[Root]}
       /\ Current' = {Shown(k, <<b>>) : b \in said[Root]} \cup {Shown(k, x) : x \in CallsOf(k, N)}
  <2>1. Current = {Shown(k, <<b>>) : b \in said[Root]}
    BY <1>2 DEF Current, InStep
  <2>2. Current' = {Shown(k, <<b>>) : b \in said[Root]} \cup {Shown(k, x) : x \in Ids(N)'}
    <3>1. Ids(Len(calls[Root]))' = Ids(N)'
      BY <1>5, <1>14 DEF Ids
    <3> QED BY <1>2, <1>13, <3>1 DEF Current, InStep
  <2> QED BY <1>14, <2>1, <2>2
<1>17. Fits(k + 1, k, {}, E, B, D, G)'
  <2>1. Opens' = {}
    BY <1>13 DEF Opens
  <2>2. FitsSteps(k + 1, k)'
    BY <1>1, <1>2, <1>13 DEF FitsSteps, InStep, Planning
  <2>3. FitsCalls(k, E, B)'
    <3>1. Ids(Len(calls[Root]))' = CallsOf(k, N)
      BY <1>5, <1>14 DEF Ids
    <3> QED BY <1>2, <1>13, <1>15, <3>1 DEF Fits, FitsCalls, E
  <2>4. FitsRecord(k, D)'
    <3>1. /\ ToSet(C) = ToSet(Replay(record[Root])) \cup Current /\ Len(Answers(record[Root])) = k
          /\ \A x \in ToSet(C) : (x.step \in Nat /\ x.step < k) \/ x \in Current
      BY <1>2 DEF Fits, FitsRecord
    <3>2. ToSet(D) = ToSet(Replay(record[Root])) \cup Current'
      BY <1>12, <1>16, <3>1
    <3>3. \A x \in ToSet(D) : (x.step \in Nat /\ x.step < k) \/ x \in Current'
      BY <1>12, <1>16, <3>1
    <3> QED BY <1>13, <3>1, <3>2, <3>3 DEF FitsRecord
  <2>5. FitsPlan(G)'
    BY <1>13 DEF FitsPlan, Planning
  <2> QED BY <2>1, <2>2, <2>3, <2>4, <2>5 DEF Fits
<1>18. Served'
  BY <1>10, <1>13, <1>17, LiveAgain DEF InStep
<1>19. Client!CallTools
  <2>1. k \in Nat /\ billed'[Root] = -1 /\ Its = k
    BY <1>1, <1>2, <1>13
  <2>2. Tells(stream', k + 1, k, {}, A \cup Ids(N), B, Cat(C, ShownCalls(N)), G)
    BY <1>9, <1>10 DEF D, E
  <2>3. \A x \in B : x[1] < k
    BY <1>2 DEF Fits, FitsCalls
  <2>4. \A x \in ToSet(C) : x.step < k \/ \E b \in Block : x = Shown(k, <<b>>)
    <3>1. \A x \in ToSet(C) : (x.step \in Nat /\ x.step < k) \/ x \in Current
      BY <1>2 DEF Fits, FitsRecord
    <3>2. said[Root] \subseteq Block
      BY RootFacts
    <3> QED BY <1>16, <3>1, <3>2
  <2> QED BY <1>2, <1>5, <1>6, <2>1, <2>2, <2>3, <2>4, ClientCalls
<1> QED BY <1>18, <1>19

\* What is replayed of a step with calls.
LEMMA ReplayCalls ==
    ASSUME PlanInv, ConstantsAssumption, NEW k \in Nat, k = Its, NEW N, N = Len(calls[Root]),
           Len(Answers(record[Root])) = k
    PROVE  LET made == <<Assistant(Root, calls[Root])>> \o Results(Root)
               more == Cat(record[Root], made)
           IN  /\ Len(Answers(more)) = k + 1
               /\ ToSet(Replay(more)) = ToSet(Replay(record[Root]))
                      \cup {Shown(k, <<b>>) : b \in said[Root]}
                      \cup {Shown(k, x) : x \in CallsOf(k, N)}
<1> DEFINE m == Assistant(Root, calls[Root])
           R == Results(Root)
           made == Cat(<<m>>, R)
<1>1. /\ Root \in Runs /\ TypeInv /\ record[Root] \in Seq(ChatMessage)
      /\ calls[Root] \in Seq(Call) /\ N \in Nat /\ DOMAIN calls[Root] = 1..N
  BY RootFacts
<1>2. m \in ChatMessage /\ R \in Seq(ChatMessage)
  BY <1>1, MadeMessages
<1>3. /\ m.role = "assistant" /\ m.blocks = said[Root]
      /\ m.calls = [i \in 1..N |-> <<k, i>>]
  BY <1>1 DEF Assistant, Message, CallIds, CallId, Its
<1>4. \A i \in DOMAIN R : R[i].role # "assistant"
  BY DEF Results, ToolResult, Message
<1> HIDE DEF m, R
<1>5. <<m>> \in Seq(ChatMessage) /\ Answers(<<m>>) = <<m>> /\ Answers(R) = <<>>
  BY <1>2, <1>3, <1>4, AnswersFew
<1>6. made \in Seq(ChatMessage) /\ Answers(made) = <<m>>
  <2> DEFINE z == <<m>>
  <2>1. z \in Seq(ChatMessage) /\ Answers(z) = z
    BY <1>5
  <2> HIDE DEF z
  <2>2. Answers(Cat(z, R)) = Cat(Answers(z), Answers(R)) /\ Cat(z, R) \in Seq(ChatMessage)
    BY <1>2, <2>1, AnswersCat, CatAll
  <2>3. Cat(z, <<>>) = z
    BY <2>1, CatAll
  <2> QED BY <1>5, <2>1, <2>2, <2>3 DEF z
<1> HIDE DEF made
<1>7. /\ Len(Answers(Cat(record[Root], made))) = k + 1
      /\ ToSet(Replay(Cat(record[Root], made))) = ToSet(Replay(record[Root])) \cup ToSet(StepParts(k, m))
  BY <1>1, <1>2, <1>6, ReplayMore
<1>8. ToSet(StepParts(k, m)) = {Shown(k, <<b>>) : b \in said[Root]} \cup {Shown(k, x) : x \in CallsOf(k, N)}
  <2>1. ToSet(StepParts(k, m)) = {Shown(k, <<b>>) : b \in m.blocks}
            \cup {Shown(k, m.calls[i]) : i \in DOMAIN m.calls}
    BY <1>2, StepPartsAre
  <2>2. DOMAIN m.calls = 1..N /\ \A i \in 1..N : m.calls[i] = <<k, i>>
    BY <1>3
  <2>3. {Shown(k, m.calls[i]) : i \in DOMAIN m.calls} = {Shown(k, x) : x \in CallsOf(k, N)}
    BY <2>2 DEF CallsOf
  <2> QED BY <1>3, <2>1, <2>3
<1>9. <<m>> \o R = made
  BY DEF made, Cat
<1> QED BY <1>7, <1>8, <1>9 DEF m, R

\* A step with calls ends.
LEMMA ServedCollect ==
    ASSUME PlanInv, ConstantsAssumption, CollectResults(Root), billed[Root] = -1,
           NEW k, NEW A, NEW B, NEW C, NEW G,
           Tells(stream, k + 1, k, {}, A, B, C, G), Fits(k + 1, k, {}, A, B, C, G)
    PROVE  Served' /\ Client!EndStep
<1> DEFINE N == Len(calls[Root])
           made == <<Assistant(Root, calls[Root])>> \o Results(Root)
           f == Frame("finish-step", <<Its>>)
<1>1. /\ Root \in Runs /\ phase \in [Runs -> Phase] /\ Its \in Nat /\ TypeInv
      /\ iteration \in [Runs -> Nat] /\ N \in Nat /\ calls[Root] \in Seq(Call)
      /\ record \in [Runs -> Seq(ChatMessage)] /\ record[Root] \in Seq(ChatMessage)
  BY RootFacts
<1>2. phase[Root] = "tools" /\ k = Its /\ k < MaxIterations /\ A \ B = Ids(N)
  BY DEF Fits, FitsSteps, FitsCalls, InStep, CollectResults, From
<1>3. f \in FrameSet /\ f.type = "finish-step"
  <2>1. <<Its>> \in Subject /\ "finish-step" \in FrameType
    BY <1>1 DEF Subject, FrameType
  <2> HIDE DEF Its
  <2> QED BY <2>1, FrameTyped
<1>4. stream' = Cat(stream, Cat(Outputs(N), <<f>>))
  <2>1. DOMAIN Results(Root) = 1..N /\ \A i \in 1..N : Results(Root)[i].answers = CallId(Root, i)
    BY <1>1 DEF Results, ToolResult, Message
  <2>2. [i \in DOMAIN Results(Root) |-> Frame("tool-output-available", Results(Root)[i].answers)]
            = Outputs(N)
    BY <2>1 DEF Outputs
  <2>3. Send(Root, [i \in DOMAIN Results(Root) |-> Frame("tool-output-available", Results(Root)[i].answers)]
                        \o <<Frame("finish-step", <<iteration[Root]>>)>>)
    BY DEF CollectResults
  <2>4. Send(Root, Outputs(N) \o <<Frame("finish-step", <<iteration[Root]>>)>>)
    BY <2>2, <2>3
  <2> QED BY <2>4 DEF Send, Cat, Its
<1>5. Ids(N) = CallsOf(k, N) /\ k \in Nat
  BY <1>1, <1>2, IdsAre
<1>6. /\ iteration'[Root] = k + 1 /\ phase'[Root] = "loop" /\ UNCHANGED billed
      /\ record'[Root] = Cat(record[Root], made)
  BY <1>1, <1>2 DEF CollectResults, To, Add, Cat, Its
<1>7. /\ Len(Answers(record'[Root])) = k + 1
      /\ ToSet(Replay(record'[Root])) = ToSet(Replay(record[Root]))
             \cup {Shown(k, <<b>>) : b \in said[Root]} \cup {Shown(k, x) : x \in CallsOf(k, N)}
  <2>1. Len(Answers(record[Root])) = k
    BY <1>2 DEF Fits, FitsRecord
  <2> QED BY <1>2, <1>5, <1>6, <2>1, ReplayCalls
<1>15. Current = {Shown(k, <<b>>) : b \in said[Root]} \cup {Shown(k, x) : x \in CallsOf(k, N)}
  <2>1. {Shown(k, x) : x \in Ids(N)} = {Shown(k, x) : x \in CallsOf(k, N)}
    BY <1>5
  <2> QED BY <1>2, <2>1 DEF Current, InStep
<1> HIDE DEF f, made
<1>8. Tells(Cat(stream, Outputs(N)), k + 1, k, {}, A, B \cup CallsOf(k, N), C, G)
          /\ Outputs(N) \in Seq(FrameSet)
  <2>1. Its < MaxIterations
    BY <1>2
  <2> HIDE DEF N
  <2> QED BY <1>1, <1>5, <2>1, TellsOutputs
<1>9. PICK M \in Nat : M = N
  BY <1>1
<1> HIDE DEF N
<1>10. stream' = Cat(Cat(stream, Outputs(N)), <<f>>)
  <2> DEFINE z == <<f>>
             u == Outputs(N)
  <2>1. z \in Seq(FrameSet) /\ stream \in Seq(FrameSet) /\ u \in Seq(FrameSet)
    BY <1>3, <1>8 DEF Tells
  <2> HIDE DEF z, u
  <2>2. Cat(stream, Cat(u, z)) = Cat(Cat(stream, u), z)
    BY <2>1, CatAll
  <2> QED BY <1>4, <2>2 DEF z, u
<1> DEFINE D == B \cup CallsOf(k, M)
<1>11. Tells(stream', k + 1, k + 1, {}, A, D, C, G)
  BY <1>3, <1>8, <1>9, <1>10, TellsStep
<1>12. Fits(k + 1, k + 1, {}, A, D, C, G)'
  <2>1. Opens' = {} /\ Current' = {}
    BY <1>6 DEF Opens, Current, InStep
  <2>2. FitsSteps(k + 1, k + 1)'
    BY <1>5, <1>6 DEF FitsSteps, InStep, Planning, Its
  <2>3. FitsCalls(k + 1, A, D)'
    <3>1. A \ D = {}
      BY <1>2, <1>5, <1>9
    <3>2. \A x \in D : x[1] \in Nat /\ x[1] < k + 1
      <4>1. \A x \in B : x[1] \in Nat /\ x[1] < k
        BY <1>2 DEF Fits, FitsCalls
      <4>2. \A x \in CallsOf(k, M) : x[1] = k
        BY DEF CallsOf
      <4>3. \A j \in Nat : j < k => j < k + 1
        BY <1>5
      <4>4. \A x \in D : x \in B \/ x \in CallsOf(k, M)
        OBVIOUS
      <4>5. k < k + 1
        BY <1>5
      <4> QED BY <1>5, <4>1, <4>2, <4>3, <4>4, <4>5
    <3> HIDE DEF D
    <3> QED BY <1>6, <3>1, <3>2 DEF FitsCalls
  <2>4. FitsRecord(k + 1, C)'
    <3>1. /\ ToSet(C) = ToSet(Replay(record[Root])) \cup Current
          /\ \A x \in ToSet(C) : (x.step \in Nat /\ x.step < k) \/ x \in Current
      BY <1>2 DEF Fits, FitsRecord
    <3>2. ToSet(C) = ToSet(Replay(record'[Root]))
      BY <1>7, <1>15, <3>1
    <3>3. \A x \in Current : x.step = k
      <4>1. \A x : Shown(k, x).step = k
        BY DEF Shown
      <4> QED BY <1>15, <4>1
    <3>4. \A x \in ToSet(C) : x.step \in Nat /\ x.step < k + 1
      <4>1. (\A j \in Nat : j < k => j < k + 1) /\ k < k + 1
        BY <1>5
      <4> QED BY <1>5, <3>1, <3>3, <4>1
    <3> QED BY <1>6, <1>7, <2>1, <3>2, <3>4 DEF FitsRecord
  <2>5. FitsPlan(G)'
    BY <1>6 DEF FitsPlan, Planning
  <2> QED BY <2>1, <2>2, <2>3, <2>4, <2>5 DEF Fits
<1>13. Served'
  BY <1>6, <1>11, <1>12, LiveAgain DEF Between
<1>14. Client!EndStep
  <2>1. billed'[Root] = -1 /\ {} \subseteq Block /\ A \ D = {}
    BY <1>2, <1>5, <1>6, <1>9
  <2> HIDE DEF D
  <2> QED BY <1>5, <1>11, <2>1, ClientEnd
<1> QED BY <1>13, <1>14

\* The iterations ran out.
LEMMA ServedExhaust ==
    ASSUME PlanInv, ConstantsAssumption, Exhaust(Root), billed[Root] = -1,
           NEW k, NEW A, NEW B, NEW C, NEW G,
           Tells(stream, k, k, {}, A, B, C, G), Fits(k, k, {}, A, B, C, G)
    PROVE  Served' /\ Client!Notice
<1>1. Root \in Runs /\ phase \in [Runs -> Phase] /\ Its \in Nat /\ MaxIterations \in Nat
  BY RootFacts
<1>2. phase[Root] = "loop" /\ k = Its /\ A \ B = {} /\ ~(Its < MaxIterations)
  BY <1>1 DEF Fits, FitsSteps, FitsCalls, Exhaust, From, Its
<1>3. stream' = Cat(stream, Warning)
  BY DEF Exhaust, Send, Cat, Warning, WarningTypes, Its
<1>4. Tells(stream', k + 1, k + 1, {}, A, B, C, G)
  BY <1>1, <1>2, <1>3, TellsWarning
<1>5. phase'[Root] = "finish" /\ UNCHANGED <<record, billed>>
  BY <1>1 DEF Exhaust, To, loop
<1>6. Fits(k + 1, k + 1, {}, A, B, C, G)'
  <2>1. Opens' = {} /\ Current' = {} /\ Current = {}
    BY <1>2, <1>5 DEF Opens, Current, InStep
  <2>2. FitsSteps(k + 1, k + 1)' /\ FitsCalls(k + 1, A, B)' /\ FitsPlan(G)'
    BY <1>1, <1>2, <1>5 DEF FitsSteps, FitsCalls, FitsPlan, InStep, Planning
  <2>3. FitsRecord(k + 1, C)'
    BY <1>5, <2>1 DEF Fits, FitsRecord
  <2> QED BY <2>1, <2>2, <2>3 DEF Fits
<1>7. Served'
  BY <1>4, <1>5, <1>6, LiveAgain DEF Between
<1>8. Client!Notice
  <2>1. k \in Nat /\ billed'[Root] = -1
    BY <1>1, <1>2, <1>5
  <2> QED BY <1>4, <2>1, ClientNotice
<1> QED BY <1>7, <1>8

-----------------------------------------------------------------------------
(* The steps that the client does not see, and those of a plan.            *)

\* The turn stops where it is.
LEMMA ServedStop ==
    ASSUME stream' = stream, billed[Root] = -1, billed'[Root] = -1, phase'[Root] \in Stopped,
           NEW n, NEW k, NEW O, NEW A, NEW B, NEW C, NEW G, Tells(stream, n, k, O, A, B, C, G)
    PROVE  Served' /\ UNCHANGED Client!vars
<1>1. Silent(stream)
  BY DEF Tells, Silent
<1>2. Served'
  BY <1>1 DEF Served, StoppedTold, LiveTold, RootPhases, Stopped, Between, InStep
<1> QED BY <1>2 DEF Client!vars

\* The turn goes on and the client sees nothing of it.
LEMMA ServedSame ==
    ASSUME NEW n \in Nat, NEW k \in Nat, NEW O, NEW A, NEW B, NEW C, NEW G, O \subseteq Block,
           Tells(stream, n, k, O, A, B, C, G), Tells(stream', n, k, O, A, B, C, G),
           Fits(n, k, O, A, B, C, G)', phase'[Root] \in Between \cup InStep,
           billed[Root] = -1, billed'[Root] = -1
    PROVE  Served' /\ UNCHANGED Client!vars
<1>1. Served'
  BY LiveAgain
<1>2. UNCHANGED Client!vars
  BY ClientStutter
<1> QED BY <1>1, <1>2

\* The turn is prepared.
LEMMA ServedPrepare ==
    ASSUME PlanInv, ConstantsAssumption, Prepare(Root), billed[Root] = -1,
           NEW k, NEW A, NEW B, NEW C, NEW G,
           Tells(stream, k, k, {}, A, B, C, G), Fits(k, k, {}, A, B, C, G)
    PROVE  Served' /\ UNCHANGED Client!vars
<1>1. /\ Root \in Runs /\ phase \in [Runs -> Phase] /\ Its \in Nat
      /\ record \in [Runs -> Seq(ChatMessage)] /\ record[Root] \in Seq(ChatMessage) /\ TypeInv
      /\ MaxIterations \in Nat
  BY RootFacts
<1>2. /\ phase[Root] = "prepare" /\ k = Its /\ k = 0 /\ A \ B = {} /\ k \in Nat
      /\ Len(Answers(record[Root])) = 0 /\ Len(G) = 0 /\ \A x \in B : x[1] \in Nat /\ x[1] < k
  BY <1>1 DEF Fits, FitsSteps, FitsCalls, FitsRecord, FitsPlan, Planning, Advanced, Prepare, From
<1>3. stream' = stream /\ billed'[Root] = -1 /\ Its' = Its
  BY DEF Prepare, Its
<1>4. CASE phase'[Root] \in {"raised", "crashed"}
  BY <1>3, <1>4, ServedStop DEF Stopped
<1>5. CASE phase'[Root] \in {"plan", "loop"} /\ record' = [record EXCEPT ![Root] = <<UserMessage>>]
  <2>1. Answers(<<UserMessage>>) = <<>>
    <3>1. UserMessage \in ChatMessage /\ UserMessage.role # "assistant"
      <4>1. UserMessage \in ChatMessage
        BY <1>1, MadeMessages
      <4> QED BY <4>1 DEF UserMessage, Message
    <3> QED BY <3>1, AnswersFew
  <2>2. Answers(record[Root]) = <<>>
    <3>1. Answers(record[Root]) \in Seq(ChatMessage)
      BY <1>1, AnswersCat
    <3> QED BY <1>2, <3>1
  <2>3. record'[Root] = <<UserMessage>>
    BY <1>1, <1>5
  <2>4. Answers(record'[Root]) = <<>> /\ Replay(record'[Root]) = Replay(record[Root])
    BY <2>1, <2>2, <2>3 DEF Replay
  <2>5. Opens' = {} /\ Current = {} /\ Current' = {}
    BY <1>2, <1>5 DEF Opens, Current, InStep
  <2>6. FitsSteps(k, k)' /\ FitsCalls(k, A, B)' /\ FitsPlan(G)'
    BY <1>2, <1>3, <1>5 DEF FitsSteps, FitsCalls, FitsPlan, InStep, Planning, Advanced, Its
  <2>7. FitsRecord(k, C)'
    BY <1>2, <2>4, <2>5 DEF Fits, FitsRecord
  <2>8. Fits(k, k, {}, A, B, C, G)'
    BY <2>5, <2>6, <2>7 DEF Fits
  <2>9. {} \subseteq Block /\ phase'[Root] \in Between \cup InStep
    BY <1>5 DEF Between
  <2> QED BY <1>2, <1>3, <2>8, <2>9, ServedSame
<1>6. \/ phase'[Root] \in {"raised", "crashed"}
      \/ phase'[Root] \in {"plan", "loop"} /\ record' = [record EXCEPT ![Root] = <<UserMessage>>]
  BY <1>1 DEF Prepare, To
<1> QED BY <1>4, <1>5, <1>6

\* The steps of a plan that are completed.
LEMMA NextStepIs == ASSUME plan \in Seq(PlanStatus) PROVE NextStep \in Nat /\ NextStep >= 1
<1> DEFINE S == {k \in DOMAIN plan : plan[k] = "completed"}
<1>1. S \in SUBSET (1..Len(plan)) /\ Len(plan) \in Nat
  OBVIOUS
<1> HIDE DEF S
<1>2. Cardinality(S) \in Nat
  BY <1>1, IndexCount
<1> QED BY <1>2 DEF NextStep, S

\* A plan is made: none of its steps is completed.
LEMMA PlanMade ==
    ASSUME NEW n \in Nat, plan' = Statuses(n), phase'[Root] \notin {"create", "call", "await"}
    PROVE  PlanOrdered' /\ NextStep' = 1
<1>1. DOMAIN plan' = 1..n /\ \A k \in 1..n : plan'[k] = "pending"
  BY DEF Statuses
<1>2. {k \in DOMAIN plan' : plan'[k] = "completed"} = {}
  BY <1>1
<1>3. NextStep' = 1
  BY <1>2, FS_EmptySet DEF NextStep
<1> QED BY <1>1, <1>3 DEF PlanOrdered

\* The next step of a plan starts.
LEMMA PlanStarts ==
    ASSUME plan \in Seq(PlanStatus), PlanOrdered, NextStep \in DOMAIN plan,
           plan' = [plan EXCEPT ![NextStep] = "in_progress"]
    PROVE  PlanOrdered' /\ NextStep' = NextStep /\ plan'[NextStep] = "in_progress"
<1>1. NextStep \in Nat /\ plan[NextStep] # "completed"
  BY NextStepIs DEF PlanOrdered
<1>2. /\ DOMAIN plan' = DOMAIN plan /\ plan'[NextStep] = "in_progress"
      /\ \A k \in DOMAIN plan : k # NextStep => plan'[k] = plan[k]
  OBVIOUS
<1>3. \A k \in DOMAIN plan : plan'[k] = "completed" <=> plan[k] = "completed"
  BY <1>1, <1>2
<1>4. NextStep' = NextStep
  BY <1>2, <1>3 DEF NextStep
<1> QED BY <1>2, <1>3, <1>4 DEF PlanOrdered

\* The next step of a plan is completed.
LEMMA PlanCompletes ==
    ASSUME plan \in Seq(PlanStatus), PlanOrdered, NextStep \in DOMAIN plan,
           plan' = [plan EXCEPT ![NextStep] = "completed"],
           phase'[Root] \notin {"create", "call", "await"}
    PROVE  PlanOrdered' /\ NextStep' = NextStep + 1 /\ plan'[NextStep] = "completed"
<1> DEFINE S == {k \in DOMAIN plan : plan[k] = "completed"}
<1>1. NextStep \in Nat /\ plan[NextStep] # "completed" /\ \A k \in DOMAIN plan : k \in Int
  BY NextStepIs DEF PlanOrdered
<1>2. /\ DOMAIN plan' = DOMAIN plan /\ plan'[NextStep] = "completed"
      /\ \A k \in DOMAIN plan : k # NextStep => plan'[k] = plan[k]
  OBVIOUS
<1>3. {k \in DOMAIN plan' : plan'[k] = "completed"} = S \cup {NextStep} /\ NextStep \notin S
  BY <1>1, <1>2
<1>4. S \in SUBSET (1..Len(plan)) /\ Len(plan) \in Nat
  OBVIOUS
<1> HIDE DEF S
<1>5. IsFiniteSet(S) /\ Cardinality(S) \in Nat
  <2>1. IsFiniteSet(1..Len(plan))
    BY <1>4, FS_Interval, 1 \in Int, Len(plan) \in Int
  <2> QED BY <1>4, <2>1, FS_Subset, IndexCount
<1>6. Cardinality(S \cup {NextStep}) = Cardinality(S) + 1
  BY <1>3, <1>5, FS_AddElement
<1>7. NextStep' = NextStep + 1
  <2>1. NextStep' = Cardinality(S \cup {NextStep}) + 1
    BY <1>3 DEF NextStep
  <2>2. NextStep = Cardinality(S) + 1
    BY DEF NextStep, S
  <2> QED BY <1>6, <2>1, <2>2
<1>8. \A k \in DOMAIN plan : plan'[k] = "completed" <=> k < NextStep + 1
  <2>1. \A j, k \in Int : j < k + 1 <=> j < k \/ j = k
    OBVIOUS
  <2>2. \A k \in DOMAIN plan : plan'[k] = "completed" <=> plan[k] = "completed" \/ k = NextStep
    BY <1>2
  <2> QED BY <1>1, <2>1, <2>2 DEF PlanOrdered
<1> QED BY <1>2, <1>7, <1>8 DEF PlanOrdered

\* What a turn that plans still has from its preparation.
LEMMA PlanningFits ==
    ASSUME PlanInv, ConstantsAssumption, phase[Root] \in Planning \ {"synth", "prepare"},
           NEW k, NEW A, NEW B, NEW C, NEW G, Fits(k, k, {}, A, B, C, G),
           UNCHANGED <<record, iteration, billed>>, phase'[Root] \in Planning \ {"synth", "prepare"}
    PROVE  /\ k = 0 /\ FitsSteps(k, k)' /\ FitsCalls(k, A, B)' /\ FitsRecord(k, C)' /\ Opens' = {}
           /\ Len(G) = Advanced
<1>1. Its \in Nat /\ MaxIterations \in Nat
  BY RootFacts
<1>2. /\ phase[Root] \notin InStep \cup {"finish"} /\ phase'[Root] \notin InStep \cup {"finish"}
      /\ phase[Root] # "tools" /\ phase'[Root] # "tools"
      /\ phase'[Root] \notin {"llm", "synth"}
  BY DEF Planning, InStep
<1>3. Current = {} /\ Current' = {} /\ Opens' = {}
  BY <1>2 DEF Current, Opens
<1>4. k = 0 /\ FitsSteps(k, k)'
  BY <1>1, <1>2 DEF Fits, FitsSteps, Its
<1>5. FitsCalls(k, A, B)' /\ FitsRecord(k, C)'
  BY <1>2, <1>3 DEF Fits, FitsCalls, FitsRecord
<1>6. Len(G) = Advanced
  BY DEF Fits, FitsPlan
<1> QED BY <1>3, <1>4, <1>5, <1>6

\* A plan is made, or cannot be.
LEMMA ServedPlan ==
    ASSUME PlanInv, ConstantsAssumption, MakePlan, billed[Root] = -1, PlanOrdered,
           NEW k, NEW A, NEW B, NEW C, NEW G,
           Tells(stream, k, k, {}, A, B, C, G), Fits(k, k, {}, A, B, C, G)
    PROVE  Served' /\ UNCHANGED Client!vars /\ PlanOrdered'
<1>1. Root \in Runs /\ phase \in [Runs -> Phase] /\ TypeInv
  BY RootFacts
<1>2. phase[Root] = "plan" /\ UNCHANGED <<record, iteration, billed>> /\ billed'[Root] = -1
  BY DEF MakePlan, From
<1>3. CASE phase'[Root] \in {"failed", "crashed"} /\ UNCHANGED <<plan, stream>>
  <2>1. PlanOrdered'
    BY <1>3 DEF PlanOrdered, NextStep
  <2> QED BY <1>2, <1>3, <2>1, ServedStop DEF Stopped
<1>4. ASSUME NEW n \in request.sizes, plan' = Statuses(n), Send(Root, <<Frame("data-plan", <<>>)>>),
             phase'[Root] = "steps"
      PROVE  Served' /\ UNCHANGED Client!vars /\ PlanOrdered'
  <2>1. n \in Nat
    BY <1>1 DEF TypeInv, ConstantsAssumption, Request
  <2>2. PlanOrdered' /\ NextStep' = 1
    BY <1>4, <2>1, PlanMade
  <2>3. /\ k = 0 /\ FitsSteps(k, k)' /\ FitsCalls(k, A, B)' /\ FitsRecord(k, C)' /\ Opens' = {}
        /\ Len(G) = 0
    BY <1>2, <1>4, PlanningFits DEF Planning, Advanced
  <2>4. FitsPlan(G)'
    BY <1>4, <2>2, <2>3 DEF FitsPlan, Advanced
  <2>5. Fits(k, k, {}, A, B, C, G)'
    BY <2>3, <2>4 DEF Fits
  <2> DEFINE f == Frame("data-plan", <<>>)
  <2>6. f \in FrameSet /\ f.type = "data-plan"
    <3>1. <<>> \in Subject /\ "data-plan" \in FrameType
      BY DEF Subject, FrameType
    <3> QED BY <3>1, FrameTyped
  <2>7. stream' = Cat(stream, <<f>>)
    BY <1>4 DEF Send, Cat
  <2> HIDE DEF f
  <2>8. ContentOf(f) = <<>> /\ ProgressOf(f) = <<>> /\ f.type \in Quiet
    BY <2>6 DEF ContentOf, ProgressOf, Quiet
  <2>9. C \in Seq(FrameContent) /\ G \in Seq(FrameSubject)
    BY ToldTyped
  <2>10. Cat(C, <<>>) = C /\ Cat(G, <<>>) = G
    BY <2>9, CatAll
  <2>11. Tells(stream', k, k, {}, A, B, Cat(C, ContentOf(f)), Cat(G, ProgressOf(f)))
    BY <2>6, <2>7, <2>8, TellsQuiet
  <2>12. Tells(stream', k, k, {}, A, B, C, G)
    BY <2>8, <2>10, <2>11
  <2>13. k \in Nat /\ {} \subseteq Block /\ phase'[Root] \in Between \cup InStep
    BY <1>4, <2>3 DEF Between
  <2> QED BY <1>2, <2>2, <2>5, <2>12, <2>13, ServedSame
<1>5. \/ phase'[Root] \in {"failed", "crashed"} /\ UNCHANGED <<plan, stream>>
      \/ \E n \in request.sizes : /\ plan' = Statuses(n) /\ Send(Root, <<Frame("data-plan", <<>>)>>)
                                  /\ phase'[Root] = "steps"
  BY <1>1 DEF MakePlan, To
<1> QED BY <1>3, <1>4, <1>5

\* The number of plan steps that were shown, and the next of them.
LEMMA Halves ==
    ASSUME NEW j \in Nat, j >= 1
    PROVE  /\ (2 * (j - 1) + 0) \div 2 + 1 = j /\ (2 * (j - 1) + 0) % 2 = 0
           /\ (2 * (j - 1) + 1) \div 2 + 1 = j /\ (2 * (j - 1) + 1) % 2 = 1
           /\ 2 * (j - 1) + 0 + 1 = 2 * (j - 1) + 1
           /\ 2 * (j - 1) + 1 + 1 = 2 * ((j + 1) - 1) + 0
  OBVIOUS

\* The frame of a plan step.
LEMMA ServedAdvance ==
    ASSUME PlanInv, ConstantsAssumption, billed[Root] = -1, UNCHANGED <<record, iteration, billed>>,
           phase[Root] \in Planning \ {"synth", "prepare"},
           phase'[Root] \in Planning \ {"synth", "prepare"},
           NEW j \in Nat, NEW s \in {"in_progress", "completed"},
           Send(Root, <<Frame("data-plan-step", <<j, s>>)>>),
           NEW k, NEW A, NEW B, NEW C, NEW G,
           Tells(stream, k, k, {}, A, B, C, G), Fits(k, k, {}, A, B, C, G),
           Advanced' = Advanced + 1, Advanced \in Nat,
           j = Advanced \div 2 + 1, s = IF Advanced % 2 = 0 THEN "in_progress" ELSE "completed"
    PROVE  Served' /\ Client!Advance
<1> DEFINE e == <<j, s>>
           f == Frame("data-plan-step", e)
           H == Cat(G, <<e>>)
<1>1. e \in Subject /\ "data-plan-step" \in FrameType
  BY DEF Subject, FrameType, PlanStatus
<1>2. stream' = Cat(stream, <<f>>)
  BY DEF Send, Cat
<1>0. e = <<Advanced \div 2 + 1, IF Advanced % 2 = 0 THEN "in_progress" ELSE "completed">>
  OBVIOUS
<1> HIDE DEF e
<1>3. f \in FrameSet /\ f.type = "data-plan-step" /\ f.of = e
  BY <1>1, FrameTyped
<1> HIDE DEF f
<1>4. ContentOf(f) = <<>> /\ ProgressOf(f) = <<e>> /\ f.type \in Quiet
  BY <1>3 DEF ContentOf, ProgressOf, Quiet
<1>5. C \in Seq(FrameContent) /\ G \in Seq(FrameSubject)
  BY ToldTyped
<1>6. Cat(C, <<>>) = C
  BY <1>5, CatAll
<1>7. Tells(stream', k, k, {}, A, B, C, H)
  <2>1. Tells(stream', k, k, {}, A, B, Cat(C, ContentOf(f)), Cat(G, ProgressOf(f)))
    BY <1>2, <1>3, <1>4, TellsQuiet
  <2> QED BY <1>4, <1>6, <2>1
<1>8. Len(H) = Len(G) + 1
  BY <1>5 DEF Cat
<1>9. /\ k = 0 /\ FitsSteps(k, k)' /\ FitsCalls(k, A, B)' /\ FitsRecord(k, C)' /\ Opens' = {}
      /\ Len(G) = Advanced
  BY PlanningFits
<1> HIDE DEF H
<1>10. Fits(k, k, {}, A, B, C, H)'
  BY <1>8, <1>9 DEF Fits, FitsPlan
<1>11. Served'
  BY <1>7, <1>10, LiveAgain DEF Between, Planning
<1>12. Client!Advance
  <2>1. k \in Nat /\ billed'[Root] = -1
    BY <1>9
  <2>2. e = <<Len(G) \div 2 + 1, IF Len(G) % 2 = 0 THEN "in_progress" ELSE "completed">>
    BY <1>0, <1>9
  <2>3. Tells(stream', k, k, {}, A, B, C, Cat(G, <<e>>))
    BY <1>7 DEF H
  <2> QED BY <2>1, <2>2, <2>3, ClientAdvance
<1> QED BY <1>11, <1>12

-----------------------------------------------------------------------------
(* The end of the stream.                                                  *)

\* What a client sees of frames but for their end.
Seen(s) == [steps |-> Number(s, "start-step"),
            blocks |-> {b \in Block : Number(s, StartOf[b]) # Number(s, EndOf[b])},
            waiting |-> About(s, "tool-input-start") \ About(s, "tool-output-available"),
            shown |-> Contents(s),
            progress |-> Progress(s)]

\* The frames that end a stream show nothing.
LEMMA SeenLast ==
    ASSUME NEW s \in Seq(FrameSet), NEW type \in {"finish", "done", "error", "abort"}
    PROVE  LET t == Cat(s, <<Frame(type, <<>>)>>)
           IN  /\ t \in Seq(FrameSet) /\ Seen(t) = Seen(s)
               /\ \A x : Sent(t, x) <=> Sent(s, x) \/ x = type
<1> DEFINE f == Frame(type, <<>>)
           t == Cat(s, <<f>>)
<1>1. f \in FrameSet /\ f.type = type
  <2>1. <<>> \in Subject /\ type \in FrameType
    BY DEF Subject, FrameType
  <2> QED BY <2>1, FrameTyped
<1> HIDE DEF f
<1>2. ContentOf(f) = <<>> /\ ProgressOf(f) = <<>>
  BY <1>1, OfOther
<1>3. /\ t \in Seq(FrameSet)
      /\ \A x : Sent(t, x) <=> Sent(s, x) \/ f.type = x
      /\ \A x : f.type # x => Number(t, x) = Number(s, x) /\ About(t, x) = About(s, x)
      /\ Contents(t) = Cat(Contents(s), ContentOf(f))
      /\ Progress(t) = Cat(Progress(s), ProgressOf(f))
  BY <1>1, TellsOne
<1> HIDE DEF t
<1>4. Contents(t) = Contents(s) /\ Progress(t) = Progress(s)
  <2>1. Contents(s) \in Seq(FrameContent) /\ Progress(s) \in Seq(FrameSubject)
    BY ContentsCat, ProgressCat
  <2>2. Cat(Contents(s), <<>>) = Contents(s) /\ Cat(Progress(s), <<>>) = Progress(s)
    BY <2>1, CatAll
  <2> QED BY <1>2, <1>3, <2>2
<1>5. \A b \in Block : Number(t, StartOf[b]) = Number(s, StartOf[b])
          /\ Number(t, EndOf[b]) = Number(s, EndOf[b])
  <2>1. \A b \in Block : f.type # StartOf[b] /\ f.type # EndOf[b]
    BY <1>1, BlockTypes
  <2> QED BY <1>3, <2>1
<1>6. {b \in Block : Number(t, StartOf[b]) # Number(t, EndOf[b])}
          = {b \in Block : Number(s, StartOf[b]) # Number(s, EndOf[b])}
  BY <1>5
<1>7. Number(t, "start-step") = Number(s, "start-step")
      /\ About(t, "tool-input-start") = About(s, "tool-input-start")
      /\ About(t, "tool-output-available") = About(s, "tool-output-available")
  BY <1>1, <1>3
<1>8. Seen(t) = Seen(s)
  BY <1>4, <1>6, <1>7 DEF Seen
<1> QED BY <1>1, <1>3, <1>8 DEF t, f

\* The turn ends and is recorded.
LEMMA ServedFinish ==
    ASSUME PlanInv, ConstantsAssumption, Finish(Root), billed[Root] = -1,
           NEW k, NEW A, NEW B, NEW C, NEW G,
           Tells(stream, k, k, {}, A, B, C, G), Fits(k, k, {}, A, B, C, G)
    PROVE  Served' /\ Client!Keep
<1>1. Root \in Runs /\ phase \in [Runs -> Phase] /\ TypeInv
  BY RootFacts
<1>2. /\ phase[Root] = "finish" /\ phase'[Root] = "closed" /\ record' = record
      /\ billed' = [billed EXCEPT ![Root] = usage[Root]]
      /\ stream' = stream \o <<Frame("finish", <<>>), Frame("done", <<>>)>>
  BY <1>1 DEF Finish, From, To, Send, loop
<1>3. billed'[Root] # -1
  <2>1. usage[Root] \in Nat /\ billed'[Root] = usage[Root]
    BY <1>1, <1>2 DEF TypeInv
  <2> QED BY <2>1
<1> DEFINE t == Cat(stream, <<Frame("finish", <<>>)>>)
<1>4. stream \in Seq(FrameSet)
  BY ToldTyped
<1>5. stream' = Cat(t, <<Frame("done", <<>>)>>)
  <2> DEFINE x == Frame("finish", <<>>)
             y == Frame("done", <<>>)
  <2>1. x \in FrameSet /\ y \in FrameSet
    BY DEF Frame, FrameSet, Subject, FrameType
  <2> HIDE DEF x, y
  <2>2. Cat(stream, <<x, y>>) = Cat(Cat(stream, <<x>>), <<y>>)
    BY <1>4, <2>1, CatTwo
  <2>3. stream' = Cat(stream, <<x, y>>)
    BY <1>2 DEF Cat, x, y
  <2> QED BY <2>2, <2>3 DEF x, y
<1>6. /\ t \in Seq(FrameSet) /\ Seen(t) = Seen(stream)
      /\ \A x : Sent(t, x) <=> Sent(stream, x) \/ x = "finish"
  BY <1>4, SeenLast
<1>7. /\ Seen(stream') = Seen(t)
      /\ \A x : Sent(stream', x) <=> Sent(t, x) \/ x = "done"
  BY <1>5, <1>6, SeenLast
<1>8. ~Sent(stream, "done") /\ ~Sent(stream, "error") /\ ~Sent(stream, "abort")
  BY DEF Tells, Ends
<1>9. Sent(stream', "done") /\ ~Sent(stream', "error") /\ ~Sent(stream', "abort")
  BY <1>6, <1>7, <1>8
<1>10. Status(stream) = "between" /\ Status(stream') = "finish"
  BY <1>8, <1>9 DEF Status, Tells
<1>11. Seen(stream') = Seen(stream)
  BY <1>6, <1>7
<1>12. /\ Number(stream', "start-step") = Number(stream, "start-step")
       /\ {b \in Block : Number(stream', StartOf[b]) # Number(stream', EndOf[b])}
              = {b \in Block : Number(stream, StartOf[b]) # Number(stream, EndOf[b])}
       /\ About(stream', "tool-input-start") \ About(stream', "tool-output-available")
              = About(stream, "tool-input-start") \ About(stream, "tool-output-available")
       /\ Contents(stream') = Contents(stream) /\ Progress(stream') = Progress(stream)
  BY <1>11 DEF Seen
<1>13. ToSet(Contents(stream)) = ToSet(Replay(record'[Root]))
  <2>1. Current = {}
    BY <1>2 DEF Current, InStep
  <2> QED BY <1>2, <2>1 DEF Fits, FitsRecord, Tells
<1>14. Client!ToSet(Contents(stream)) = ToSet(Contents(stream))
  BY DEF ToSet, Client!ToSet
<1>15. Client!Keep
  BY <1>3, <1>10, <1>12, <1>13, <1>14 DEF Client!Keep
<1>16. Served'
  BY <1>2 DEF Served, StoppedTold, LiveTold, RootPhases, Stopped, Between, InStep
<1> QED BY <1>15, <1>16

\* The turn ends without having finished.
LEMMA ServedGiveUp ==
    ASSUME Silent(stream), billed[Root] = -1, billed'[Root] = -1,
           phase'[Root] \in {"closed", "cancelled"},
           NEW t \in Seq(FrameSet), Seen(t) = Seen(stream), stream' = Cat(t, <<Frame("done", <<>>)>>),
           NEW type \in {"error", "abort"},
           \A x \in {"error", "abort"} : Sent(t, x) <=> x = type
    PROVE  Served' /\ Client!GiveUp
<1>1. /\ Seen(stream') = Seen(stream)
      /\ \A x : Sent(stream', x) <=> Sent(t, x) \/ x = "done"
  BY SeenLast
<1>2. ~Sent(stream, "done")
  BY DEF Silent, Ends
<1>3. Status(stream) \in {"between", "step"}
  BY <1>2 DEF Status
<1>4. Sent(stream', "done") /\ (Sent(stream', "error") <=> type = "error")
          /\ (Sent(stream', "abort") <=> type = "abort")
  BY <1>1
<1>5. Status(stream') \in {"error", "abort"}
  BY <1>4 DEF Status
<1>6. /\ Number(stream', "start-step") = Number(stream, "start-step")
      /\ {b \in Block : Number(stream', StartOf[b]) # Number(stream', EndOf[b])}
             = {b \in Block : Number(stream, StartOf[b]) # Number(stream, EndOf[b])}
      /\ About(stream', "tool-input-start") \ About(stream', "tool-output-available")
             = About(stream, "tool-input-start") \ About(stream, "tool-output-available")
      /\ Contents(stream') = Contents(stream) /\ Progress(stream') = Progress(stream)
  BY <1>1 DEF Seen
<1>7. Client!GiveUp
  BY <1>3, <1>5, <1>6 DEF Client!GiveUp
<1>8. Served'
  BY DEF Served, StoppedTold, LiveTold, RootPhases, Stopped, Between, InStep
<1> QED BY <1>7, <1>8

-----------------------------------------------------------------------------
(* All steps together.                                                     *)

\* What the invariant says of a turn that goes on.
LEMMA Now ==
    ASSUME StreamInv, phase[Root] \in Between \cup InStep
    PROVE  LET k == Finished
               A == Asked
               B == Given
               C == Contents(stream)
               G == Progress(stream)
           IN  /\ billed[Root] = -1
               /\ \E n, O : Tells(stream, n, k, O, A, B, C, G)
               /\ phase[Root] \in Between => /\ Tells(stream, k, k, {}, A, B, C, G)
                                             /\ Fits(k, k, {}, A, B, C, G)
               /\ phase[Root] \in {"llm", "synth"} => /\ Tells(stream, k + 1, k, open[Root], A, B, C, G)
                                                      /\ Fits(k + 1, k, open[Root], A, B, C, G)
               /\ phase[Root] = "tools" => /\ Tells(stream, k + 1, k, {}, A, B, C, G)
                                           /\ Fits(k + 1, k, {}, A, B, C, G)
<1>1. billed[Root] = -1
  BY DEF StreamInv, NotBilled, Between, InStep
<1>2. /\ Tells(stream, Begun, Finished, Opens, Asked, Given, Contents(stream), Progress(stream))
      /\ Fits(Begun, Finished, Opens, Asked, Given, Contents(stream), Progress(stream))
  BY DEF StreamInv, LiveTold
<1>3. /\ Begun = IF phase[Root] \in InStep THEN Finished + 1 ELSE Finished
      /\ phase[Root] \in {"llm", "synth"} => Opens = open[Root]
      /\ phase[Root] \notin {"llm", "synth"} => Opens = {}
  BY <1>2 DEF Fits, FitsSteps, Opens
<1>4. CASE phase[Root] \in Between
  <2>1. Begun = Finished /\ Opens = {} /\ phase[Root] \notin {"llm", "synth", "tools"}
    BY <1>3, <1>4 DEF Between, InStep
  <2> QED BY <1>1, <1>2, <2>1
<1>5. CASE phase[Root] \in {"llm", "synth"}
  <2>1. Begun = Finished + 1 /\ Opens = open[Root] /\ phase[Root] \notin Between /\ phase[Root] # "tools"
    BY <1>3, <1>5 DEF Between, InStep
  <2> QED BY <1>1, <1>2, <2>1
<1>6. CASE phase[Root] = "tools"
  <2>1. Begun = Finished + 1 /\ Opens = {} /\ phase[Root] \notin Between
    BY <1>3, <1>6 DEF Between, InStep
  <2> QED BY <1>1, <1>2, <1>6, <2>1
<1> QED BY <1>4, <1>5, <1>6 DEF InStep

\* What the client sees is a step of ChatStream or none.
Viewing == [Client!Next]_(Client!vars)

\* What the client may see.
LEMMA ClientSteps ==
    ASSUME \/ Client!StartStep \/ Client!Say \/ Client!CallTools \/ Client!EndStep
           \/ Client!Notice \/ Client!Advance \/ Client!Keep \/ Client!GiveUp
           \/ UNCHANGED Client!vars
    PROVE  Viewing
  BY DEF Viewing, Client!Next

\* A step of a tool call.
LEMMA ServedCallStep ==
    ASSUME PlanInv, StreamInv, ConstantsAssumption, SpawnInv', CallStep(Root)
    PROVE  Served' /\ UNCHANGED Client!vars
<1>1. /\ Root \in Runs /\ phase \in [Runs -> Phase] /\ TypeInv /\ calls \in [Runs -> Seq(Call)]
      /\ Root \notin SubAgents
  BY RootFacts DEF ConstantsAssumption
<1>2. PICK i \in DOMAIN calls[Root] :
         DenyCall(Root, i) \/ BeginCall(Root, i) \/ EndCall(Root, i) \/ ReturnCall(Root, i)
  BY DEF CallStep
<1>3. /\ UNCHANGED <<record, iteration, said, open, billed, stream, plan>> /\ phase[Root] = "tools"
      /\ \E call : SetCall(Root, i, call)
  BY <1>2 DEF DenyCall, BeginCall, EndCall, ReturnCall, CallIn, From, loop
<1>4. phase'[Root] = "tools"
  BY <1>1, <1>2, <1>3 DEF DenyCall, BeginCall, EndCall, ReturnCall, From, To
<1>5. Len(calls'[Root]) = Len(calls[Root])
  <2>1. DOMAIN calls'[Root] = DOMAIN calls[Root]
    BY <1>1, <1>3 DEF SetCall
  <2>2. calls'[Root] \in Seq(Call) /\ calls[Root] \in Seq(Call)
    BY <1>1 DEF SpawnInv, CallsOK
  <2>3. \A s, t \in Seq(Call) : DOMAIN s = DOMAIN t => Len(s) = Len(t)
    <3> SUFFICES ASSUME NEW s \in Seq(Call), NEW t \in Seq(Call), DOMAIN s = DOMAIN t PROVE Len(s) = Len(t)
      OBVIOUS
    <3>1. /\ Len(s) \in Nat /\ Len(t) \in Nat /\ DOMAIN s = 1..Len(s) /\ DOMAIN t = 1..Len(t)
      OBVIOUS
    <3>2. \A m, n \in Nat : 1..m = 1..n => m = n
      <4> SUFFICES ASSUME NEW m \in Nat, NEW n \in Nat, 1..m = 1..n PROVE m = n
        OBVIOUS
      <4>1. m <= n
        <5>1. m = 0 \/ m \in 1..n
          OBVIOUS
        <5> QED BY <5>1
      <4>2. n <= m
        <5>1. n = 0 \/ n \in 1..m
          OBVIOUS
        <5> QED BY <5>1
      <4> QED BY <4>1, <4>2
    <3> QED BY <3>1, <3>2
  <2> QED BY <2>1, <2>2, <2>3
<1>6. Served
  BY DEF StreamInv, Served
<1>7. Served'
  <2>1. Opens' = Opens /\ Current' = Current
    BY <1>3, <1>4, <1>5 DEF Opens, Current, Ids, CallId, Its
  <2>2. /\ Begun' = Begun /\ Finished' = Finished /\ Asked' = Asked /\ Given' = Given
    BY <1>3 DEF Begun, Finished, Asked, Given
  <2>3. Ids(Len(calls[Root]))' = Ids(Len(calls[Root]))
    BY <1>3, <1>5 DEF Ids, CallId
  <2>4. /\ Tells(stream, Begun, Finished, Opens, Asked, Given, Contents(stream), Progress(stream))
        /\ Fits(Begun, Finished, Opens, Asked, Given, Contents(stream), Progress(stream))
    BY <1>3, <1>6 DEF Served, LiveTold, InStep
  <2>5. Fits(Begun, Finished, Opens, Asked, Given, Contents(stream), Progress(stream))'
    <3>1. FitsSteps(Begun, Finished)'
      BY <1>3, <1>4, <2>2, <2>4 DEF Fits, FitsSteps, Its
    <3>2. FitsCalls(Finished, Asked, Given)'
      BY <1>3, <1>4, <2>2, <2>3, <2>4 DEF Fits, FitsCalls
    <3>3. FitsRecord(Finished, Contents(stream))'
      BY <1>3, <1>4, <2>1, <2>2, <2>4 DEF Fits, FitsRecord
    <3>4. FitsPlan(Progress(stream))'
      BY <1>4 DEF FitsPlan, Planning
    <3> QED BY <3>1, <3>2, <3>3, <3>4 DEF Fits
  <2>6. Tells(stream, Begun, Finished, Opens, Asked, Given, Contents(stream), Progress(stream))'
    BY <1>3, <2>1, <2>2, <2>4 DEF Tells
  <2>7. LiveTold'
    BY <2>5, <2>6 DEF LiveTold
  <2> QED BY <1>4, <2>7 DEF Served, StoppedTold, RootPhases, InStep, Stopped
<1> QED BY <1>3, <1>7 DEF Client!vars

\* A step of another turn.
LEMMA ServedOther ==
    ASSUME PlanInv, StreamInv, ConstantsAssumption, NEW r \in SubAgents, Step(r)
    PROVE  StreamInv' /\ Viewing
<1>1. /\ Root \in Runs /\ r \in Runs /\ r # Root /\ TypeInv /\ SpawnInv
      /\ phase \in [Runs -> Phase] /\ said \in [Runs -> SUBSET Block] /\ iteration \in [Runs -> Nat]
      /\ open \in [Runs -> SUBSET Block]
  BY RootFacts DEF ConstantsAssumption, Runs, PlanInv, StreamInv, OpenTyped
<1>2. /\ phase'[Root] = phase[Root] /\ calls'[Root] = calls[Root] /\ UNCHANGED plan
  <2>1. Root \in Runs \ {r} /\ r # Root
    BY <1>1
  <2> QED BY <1>1, <2>1, StepMoves
<1>3. record'[Root] = record[Root] /\ billed'[Root] = billed[Root]
  <2>1. Root \in Runs \ {r}
    BY <1>1
  <2> QED BY <1>1, <2>1, StepLocal
<1>4. /\ stream' = stream /\ iteration'[Root] = iteration[Root] /\ open'[Root] = open[Root]
      /\ said'[Root] = said[Root] /\ open' \in [Runs -> SUBSET Block]
  <2>1. CASE Prepare(r) \/ StreamFails(r) \/ Finish(r) \/ ReportError(r) \/ EndAnswer(r)
    BY <1>1, <2>1 DEF Prepare, StreamFails, Finish, ReportError, EndAnswer, Send, step, loop
  <2>2. CASE StartStep(r)
    BY <1>1, <2>2 DEF StartStep, StartStream, Send, loop
  <2>3. CASE Delta(r)
    <3>1. PICK b \in Block : /\ open' = [open EXCEPT ![r] = Consume(r, b).open]
                             /\ said' = [said EXCEPT ![r] = @ \cup {b}]
                             /\ Send(r, Consume(r, b).frames)
      BY <2>3 DEF Delta
    <3>2. open[r] \subseteq Block /\ UNCHANGED iteration
      BY <1>1, <2>3 DEF Delta, loop
    <3>3. Consume(r, b).open \subseteq Block
      BY <3>2, ConsumeOpens
    <3> QED BY <1>1, <3>1, <3>2, <3>3 DEF Send
  <2>4. CASE EndWithCalls(r) \/ Exhaust(r)
    BY <1>1, <2>4 DEF EndWithCalls, Exhaust, Send, loop
  <2>5. CASE CollectResults(r)
    BY <1>1, <2>5 DEF CollectResults, Send
  <2>6. CASE CallStep(r)
    BY <1>1, <2>6 DEF CallStep, DenyCall, BeginCall, EndCall, ReturnCall, loop
  <2> QED BY <2>1, <2>2, <2>3, <2>4, <2>5, <2>6 DEF Step
<1>5. /\ Opens' = Opens /\ Current' = Current /\ Advanced' = Advanced /\ NextStep' = NextStep
      /\ Begun' = Begun /\ Finished' = Finished /\ Asked' = Asked /\ Given' = Given
      /\ Ids(Len(calls[Root]))' = Ids(Len(calls[Root]))
  BY <1>2, <1>4 DEF Opens, Current, Advanced, NextStep, Begun, Finished, Asked, Given, Ids, CallId, Its
<1>6. Tells(stream, Begun, Finished, Opens, Asked, Given, Contents(stream), Progress(stream)) =>
      Tells(stream, Begun, Finished, Opens, Asked, Given, Contents(stream), Progress(stream))'
  BY <1>4, <1>5 DEF Tells
<1>7. Fits(Begun, Finished, Opens, Asked, Given, Contents(stream), Progress(stream)) =>
      Fits(Begun, Finished, Opens, Asked, Given, Contents(stream), Progress(stream))'
  BY <1>2, <1>3, <1>4, <1>5 DEF Fits, FitsSteps, FitsCalls, FitsRecord, FitsPlan, Its
<1>8. Served'
  BY <1>2, <1>4, <1>6, <1>7 DEF StreamInv, Served, StoppedTold, LiveTold, RootPhases
<1>9. PlanOrdered' /\ OpenTyped' /\ NotBilled'
  BY <1>2, <1>3, <1>4, <1>5 DEF StreamInv, PlanOrdered, OpenTyped, NotBilled
<1>10. UNCHANGED Client!vars
  BY <1>3, <1>4 DEF Client!vars
<1> QED BY <1>8, <1>9, <1>10, ClientSteps DEF StreamInv, Served

\* A step of the session's turn, but for the strategy's.
LEMMA ServedRoot ==
    ASSUME PlanInv, StreamInv, ConstantsAssumption, SpawnInv', Step(Root)
    PROVE  Served' /\ Viewing
<1> DEFINE k == Finished
           A == Asked
           B == Given
           C == Contents(stream)
           G == Progress(stream)
<1>1. /\ Root \in Runs /\ phase \in [Runs -> Phase] /\ OpenTyped /\ TypeInv
      /\ Its \in Nat /\ MaxIterations \in Nat
  BY RootFacts DEF StreamInv
<1>2. phase[Root] \in Between \cup InStep =>
          /\ billed[Root] = -1
          /\ \E n, O : Tells(stream, n, k, O, A, B, C, G)
          /\ phase[Root] \in Between => /\ Tells(stream, k, k, {}, A, B, C, G)
                                        /\ Fits(k, k, {}, A, B, C, G)
          /\ phase[Root] \in {"llm", "synth"} => /\ Tells(stream, k + 1, k, open[Root], A, B, C, G)
                                                 /\ Fits(k + 1, k, open[Root], A, B, C, G)
          /\ phase[Root] = "tools" => /\ Tells(stream, k + 1, k, {}, A, B, C, G)
                                      /\ Fits(k + 1, k, {}, A, B, C, G)
  BY Now
<1> HIDE DEF k, A, B, C, G
<1>3. CASE Prepare(Root)
  <2>1. phase[Root] \in Between
    BY <1>3 DEF Prepare, From, Between
  <2> QED BY <1>2, <1>3, <2>1, ServedPrepare, ClientSteps
<1>4. CASE StartStep(Root)
  <2>1. phase[Root] = "loop" /\ phase[Root] \in Between /\ Its < MaxIterations /\ StartStream(Root, "llm")
    BY <1>4 DEF StartStep, From, Between, Its
  <2> QED BY <1>1, <1>2, <2>1, ServedStart, ClientSteps
<1>5. CASE Delta(Root)
  <2>1. phase[Root] \in {"llm", "synth"} /\ phase[Root] \in InStep
    BY <1>5 DEF Delta, InStep
  <2> QED BY <1>1, <1>2, <1>5, <2>1, ServedDelta, ClientSteps
<1>6. CASE StreamFails(Root)
  <2>1. phase[Root] \in InStep /\ phase'[Root] \in Stopped /\ stream' = stream /\ billed' = billed
    BY <1>1, <1>6 DEF StreamFails, InStep, To, Stopped
  <2>2. PICK n : \E O : Tells(stream, n, k, O, A, B, C, G)
    BY <1>2, <2>1
  <2>3. PICK O : Tells(stream, n, k, O, A, B, C, G)
    BY <2>2
  <2> QED BY <1>2, <2>1, <2>3, ServedStop, ClientSteps
<1>7. CASE EndAnswer(Root)
  <2>1. /\ phase[Root] \in {"llm", "synth"} /\ phase[Root] \in InStep /\ To(Root, "finish")
        /\ Send(Root, EndFrames(Root) \o <<Frame("finish-step", <<iteration[Root]>>)>>)
        /\ record' = Add(record, Root, <<Assistant(Root, <<>>)>>)
        /\ UNCHANGED <<iteration, billed, open, said, calls>>
    BY <1>7 DEF EndAnswer, InStep, From, step
  <2> QED BY <1>1, <1>2, <2>1, ServedAnswer, ClientSteps
<1>8. CASE EndWithCalls(Root)
  <2>1. phase[Root] \in {"llm", "synth"} /\ phase[Root] \in InStep
    BY <1>8 DEF EndWithCalls, From, InStep
  <2> QED BY <1>1, <1>2, <1>8, <2>1, ServedCalls, ClientSteps
<1>9. CASE CallStep(Root)
  BY <1>9, ServedCallStep, ClientSteps
<1>10. CASE CollectResults(Root)
  <2>1. phase[Root] = "tools" /\ phase[Root] \in InStep
    BY <1>10 DEF CollectResults, From, InStep
  <2> QED BY <1>1, <1>2, <1>10, <2>1, ServedCollect, ClientSteps
<1>11. CASE Exhaust(Root)
  <2>1. phase[Root] \in Between
    BY <1>11 DEF Exhaust, From, Between
  <2> QED BY <1>2, <1>11, <2>1, ServedExhaust, ClientSteps
<1>12. CASE Finish(Root)
  <2>1. phase[Root] \in Between
    BY <1>12 DEF Finish, From, Between
  <2> QED BY <1>2, <1>12, <2>1, ServedFinish, ClientSteps
<1>13. CASE ReportError(Root)
  <2> DEFINE x == Frame("error", <<>>)
             y == Frame("finish", <<>>)
             z == Frame("done", <<>>)
  <2>1. /\ phase[Root] \in Stopped /\ phase'[Root] = "closed" /\ UNCHANGED billed
        /\ stream' = stream \o <<x, y, z>>
    BY <1>1, <1>13 DEF ReportError, From, To, Send, Stopped
  <2>2. Silent(stream) /\ billed[Root] = -1
    BY <2>1 DEF StreamInv, StoppedTold, NotBilled, Stopped
  <2>3. stream \in Seq(FrameSet) /\ x \in FrameSet /\ y \in FrameSet /\ z \in FrameSet
    BY <2>2 DEF Silent, Frame, FrameSet, Subject, FrameType
  <2> DEFINE s == Cat(stream, <<x>>)
             t == Cat(s, <<y>>)
  <2>4. stream' = Cat(t, <<z>>)
    <3> HIDE DEF x, y, z
    <3>1. <<x, y, z>> = Cat(<<x>>, <<y, z>>)
      BY DEF Cat
    <3> DEFINE v == <<x>>
               w == <<y, z>>
    <3>2. v \in Seq(FrameSet) /\ w \in Seq(FrameSet)
      BY <2>3
    <3> HIDE DEF v, w
    <3>3. Cat(stream, Cat(v, w)) = Cat(Cat(stream, v), w) /\ Cat(stream, v) \in Seq(FrameSet)
      BY <2>3, <3>2, CatAll
    <3>4. stream' = Cat(stream, Cat(v, w))
      BY <2>1, <3>1 DEF Cat, v, w
    <3>5. s \in Seq(FrameSet) /\ stream' = Cat(s, w)
      BY <3>3, <3>4 DEF v
    <3> HIDE DEF s
    <3>6. Cat(s, <<y, z>>) = Cat(Cat(s, <<y>>), <<z>>)
      BY <2>3, <3>5, CatTwo
    <3> QED BY <3>5, <3>6 DEF w
  <2>5. /\ s \in Seq(FrameSet) /\ Seen(s) = Seen(stream)
        /\ \A e : Sent(s, e) <=> Sent(stream, e) \/ e = "error"
    BY <2>3, SeenLast
  <2>6. /\ t \in Seq(FrameSet) /\ Seen(t) = Seen(s)
        /\ \A e : Sent(t, e) <=> Sent(s, e) \/ e = "finish"
    BY <2>5, SeenLast
  <2> HIDE DEF s, t
  <2>7. \A e \in {"error", "abort"} : Sent(t, e) <=> e = "error"
    BY <2>2, <2>5, <2>6 DEF Silent, Ends
  <2>8. Served' /\ Client!GiveUp
    BY <2>1, <2>2, <2>4, <2>5, <2>6, <2>7, ServedGiveUp
  <2> QED BY <2>8, ClientSteps
<1> QED BY <1>3, <1>4, <1>5, <1>6, <1>7, <1>8, <1>9, <1>10, <1>11, <1>12, <1>13 DEF Step

\* The strategy's steps.
LEMMA ServedStrategy ==
    ASSUME PlanInv, StreamInv, ConstantsAssumption, PlanStep
    PROVE  Served' /\ PlanOrdered' /\ Viewing
<1> DEFINE k == Finished
           A == Asked
           B == Given
           C == Contents(stream)
           G == Progress(stream)
<1>1. /\ Root \in Runs /\ phase \in [Runs -> Phase] /\ OpenTyped /\ TypeInv /\ PlanOrdered
      /\ Its \in Nat /\ MaxIterations \in Nat /\ Root \notin SubAgents /\ plan \in Seq(PlanStatus)
      /\ 0 < MaxIterations
  BY RootFacts DEF StreamInv, ConstantsAssumption
<1>2. phase[Root] \in Between \cup InStep =>
          /\ billed[Root] = -1
          /\ \E n, O : Tells(stream, n, k, O, A, B, C, G)
          /\ phase[Root] \in Between => /\ Tells(stream, k, k, {}, A, B, C, G)
                                        /\ Fits(k, k, {}, A, B, C, G)
          /\ phase[Root] \in {"llm", "synth"} => /\ Tells(stream, k + 1, k, open[Root], A, B, C, G)
                                                 /\ Fits(k + 1, k, open[Root], A, B, C, G)
          /\ phase[Root] = "tools" => /\ Tells(stream, k + 1, k, {}, A, B, C, G)
                                      /\ Fits(k + 1, k, {}, A, B, C, G)
  BY Now
<1> HIDE DEF k, A, B, C, G
<1>3. NextStep \in Nat /\ NextStep >= 1
  BY <1>1, NextStepIs
<1>4. CASE MakePlan
  <2>1. phase[Root] \in Between
    BY <1>4 DEF MakePlan, From, Between
  <2> QED BY <1>1, <1>2, <1>4, <2>1, ServedPlan, ClientSteps
<1>5. CASE StartPlanStep
  <2>1. /\ phase[Root] = "steps" /\ phase'[Root] = "create" /\ NextStep \in DOMAIN plan
        /\ plan' = [plan EXCEPT ![NextStep] = "in_progress"]
        /\ Send(Root, <<PlanFrame(NextStep)>>)
        /\ UNCHANGED <<record, iteration, billed>>
    BY <1>1, <1>5 DEF StartPlanStep, From, To, loop
  <2>2. PlanOrdered' /\ NextStep' = NextStep /\ plan'[NextStep] = "in_progress"
    BY <1>1, <2>1, PlanStarts
  <2>3. Send(Root, <<Frame("data-plan-step", <<NextStep, "in_progress">>)>>)
    BY <2>1, <2>2 DEF PlanFrame
  <2>4. PICK j \in Nat : j = NextStep /\ j >= 1
    BY <1>3
  <2>5. Advanced = 2 * (j - 1) + 0 /\ Advanced' = 2 * (j - 1) + 1
    BY <2>1, <2>2, <2>4 DEF Advanced
  <2>6. /\ (2 * (j - 1) + 0) \div 2 + 1 = j /\ (2 * (j - 1) + 0) % 2 = 0
        /\ 2 * (j - 1) + 0 + 1 = 2 * (j - 1) + 1 /\ 2 * (j - 1) + 0 \in Nat
    BY <2>4, Halves
  <2>7. /\ Advanced' = Advanced + 1 /\ Advanced \in Nat /\ j = Advanced \div 2 + 1
        /\ "in_progress" = IF Advanced % 2 = 0 THEN "in_progress" ELSE "completed"
    BY <2>5, <2>6
  <2>8. /\ phase[Root] \in Planning \ {"synth", "prepare"}
             /\ phase'[Root] \in Planning \ {"synth", "prepare"}
        /\ phase[Root] \in Between
    BY <2>1 DEF Planning, Between
  <2>9. Served' /\ Client!Advance
    BY <1>2, <2>1, <2>3, <2>4, <2>7, <2>8, ServedAdvance
  <2> QED BY <2>2, <2>9, ClientSteps
<1>6. CASE CreateWorker \/ CallWorker
  <2>1. /\ stream' = stream /\ UNCHANGED <<record, iteration, billed, plan>>
        /\ phase[Root] \in {"create", "call"}
    BY <1>6 DEF CreateWorker, CallWorker, From, loop
  <2>2. phase'[Root] \in {"call", "await", "crashed"}
    BY <1>1, <1>6 DEF CreateWorker, CallWorker, To
  <2>3. PlanOrdered'
    BY <1>1, <2>1, <2>2 DEF PlanOrdered, NextStep
  <2>4. phase[Root] \in Between
    BY <2>1 DEF Between
  <2>5. CASE phase'[Root] = "crashed"
    <3>1. phase'[Root] \in Stopped /\ billed'[Root] = -1 /\ billed[Root] = -1
      BY <1>2, <2>1, <2>4, <2>5 DEF Stopped
    <3> QED BY <1>2, <2>1, <2>3, <2>4, <3>1, ServedStop, ClientSteps
  <2>6. CASE phase'[Root] \in {"call", "await"}
    <3>1. /\ phase[Root] \in Planning \ {"synth", "prepare"}
               /\ phase'[Root] \in Planning \ {"synth", "prepare"}
          /\ phase'[Root] \in Between
      BY <2>1, <2>6 DEF Planning, Between
    <3>2. Advanced' = Advanced
      BY <2>1, <2>6 DEF Advanced, NextStep
    <3>3. ASSUME NEW kk, NEW AA, NEW BB, NEW CC, NEW GG,
                 Tells(stream, kk, kk, {}, AA, BB, CC, GG), Fits(kk, kk, {}, AA, BB, CC, GG)
          PROVE  Served' /\ UNCHANGED Client!vars
      <4>1. /\ kk = 0 /\ FitsSteps(kk, kk)' /\ FitsCalls(kk, AA, BB)' /\ FitsRecord(kk, CC)' /\ Opens' = {}
            /\ Len(GG) = Advanced
        BY <2>1, <3>1, <3>3, PlanningFits
      <4>2. Fits(kk, kk, {}, AA, BB, CC, GG)'
        BY <3>2, <4>1 DEF Fits, FitsPlan
      <4>3. Tells(stream', kk, kk, {}, AA, BB, CC, GG)
        BY <2>1, <3>3
      <4>4. kk \in Nat /\ {} \subseteq Block /\ billed[Root] = -1 /\ billed'[Root] = -1
        BY <1>2, <2>1, <2>4, <4>1
      <4> QED BY <3>1, <3>3, <4>2, <4>3, <4>4, ServedSame
    <3> QED BY <1>2, <2>3, <2>4, <3>3, ClientSteps
  <2> QED BY <2>2, <2>5, <2>6
<1>7. CASE EndPlanStep
  <2>1. phase[Root] = "await" /\ UNCHANGED <<record, iteration, billed>> /\ phase[Root] \in Between
    BY <1>7 DEF EndPlanStep, From, loop, Between
  <2>2. CASE phase'[Root] \in {"failed", "crashed"} /\ UNCHANGED <<plan, stream>>
    <3>1. PlanOrdered'
      BY <1>1, <2>2 DEF PlanOrdered, NextStep
    <3>2. phase'[Root] \in Stopped /\ billed'[Root] = -1 /\ billed[Root] = -1
      BY <1>2, <2>1, <2>2 DEF Stopped
    <3> QED BY <1>2, <2>1, <2>2, <3>1, <3>2, ServedStop, ClientSteps
  <2>3. CASE /\ phase'[Root] = "steps" /\ plan' = [plan EXCEPT ![NextStep] = "completed"]
             /\ Send(Root, <<PlanFrame(NextStep)>>)
    <3>1. NextStep \in DOMAIN plan
      BY <1>1, <2>1 DEF PlanOrdered
    <3>2. PlanOrdered' /\ NextStep' = NextStep + 1 /\ plan'[NextStep] = "completed"
      BY <1>1, <2>3, <3>1, PlanCompletes
    <3>3. Send(Root, <<Frame("data-plan-step", <<NextStep, "completed">>)>>)
      BY <2>3, <3>2 DEF PlanFrame
    <3>4. PICK j \in Nat : j = NextStep /\ j >= 1
      BY <1>3
    <3>5. Advanced = 2 * (j - 1) + 1 /\ Advanced' = 2 * ((j + 1) - 1) + 0
      BY <2>1, <2>3, <3>2, <3>4 DEF Advanced
    <3>6. /\ (2 * (j - 1) + 1) \div 2 + 1 = j /\ (2 * (j - 1) + 1) % 2 = 1
          /\ 2 * (j - 1) + 1 + 1 = 2 * ((j + 1) - 1) + 0 /\ 2 * (j - 1) + 1 \in Nat
      BY <3>4, Halves
    <3>7. /\ Advanced' = Advanced + 1 /\ Advanced \in Nat /\ j = Advanced \div 2 + 1
          /\ "completed" = IF Advanced % 2 = 0 THEN "in_progress" ELSE "completed"
      BY <3>5, <3>6
    <3>8. phase[Root] \in Planning \ {"synth", "prepare"}
              /\ phase'[Root] \in Planning \ {"synth", "prepare"}
      BY <2>1, <2>3 DEF Planning
    <3>9. Served' /\ Client!Advance
      BY <1>2, <2>1, <3>3, <3>4, <3>7, <3>8, ServedAdvance
    <3> QED BY <3>2, <3>9, ClientSteps
  <2>4. \/ phase'[Root] \in {"failed", "crashed"} /\ UNCHANGED <<plan, stream>>
        \/ /\ phase'[Root] = "steps" /\ plan' = [plan EXCEPT ![NextStep] = "completed"]
           /\ Send(Root, <<PlanFrame(NextStep)>>)
    BY <1>1, <1>7 DEF EndPlanStep, To
  <2> QED BY <2>2, <2>3, <2>4
<1>8. CASE StartSynthesis
  <2>1. phase[Root] = "steps" /\ phase[Root] \in Between /\ StartStream(Root, "synth") /\ UNCHANGED plan
    BY <1>8 DEF StartSynthesis, StartStream, From, Between
  <2>2. Its < MaxIterations
    BY <1>1, <1>2, <2>1 DEF Fits, FitsSteps, Planning
  <2>3. phase'[Root] = "synth"
    BY <1>1, <2>1 DEF StartStream, To
  <2>4. PlanOrdered'
    BY <1>1, <2>1, <2>3 DEF PlanOrdered, NextStep
  <2> QED BY <1>1, <1>2, <2>1, <2>2, <2>4, ServedStart, ClientSteps
<1>9. CASE EndSynthesis
  <2>1. /\ phase[Root] \in {"llm", "synth"} /\ phase[Root] \in InStep /\ To(Root, "finish")
        /\ Send(Root, EndFrames(Root) \o <<Frame("finish-step", <<iteration[Root]>>)>>)
        /\ record' = Add(record, Root, <<Assistant(Root, <<>>)>>)
        /\ UNCHANGED <<iteration, billed, open, said, calls, plan>>
    BY <1>9 DEF EndSynthesis, InStep, From, step
  <2>2. phase'[Root] = "finish"
    BY <1>1, <2>1 DEF To
  <2>3. PlanOrdered'
    BY <1>1, <2>1, <2>2 DEF PlanOrdered, NextStep
  <2> QED BY <1>1, <1>2, <2>1, <2>3, ServedAnswer, ClientSteps
<1> QED BY <1>4, <1>5, <1>6, <1>7, <1>8, <1>9 DEF PlanStep

\* The session's turn: what a step of its own leaves of the rest of the invariant.
LEMMA ServedOwn ==
    ASSUME PlanInv, StreamInv, ConstantsAssumption, SpawnInv', Step(Root)
    PROVE  StreamInv' /\ Viewing
<1>1. /\ Root \in Runs /\ phase \in [Runs -> Phase] /\ TypeInv /\ SpawnInv
      /\ open \in [Runs -> SUBSET Block]
  BY RootFacts DEF PlanInv, StreamInv, OpenTyped
<1>2. Served' /\ Viewing
  BY ServedRoot
<1>3. UNCHANGED plan /\ phase[Root] \notin Ended
  BY <1>1, StepMoves
<1>4. phase'[Root] \notin {"create", "call", "await"}
  <2>1. CASE CallStep(Root)
    <3>1. PICK i \in DOMAIN calls[Root] :
             DenyCall(Root, i) \/ BeginCall(Root, i) \/ EndCall(Root, i) \/ ReturnCall(Root, i)
      BY <2>1 DEF CallStep
    <3>2. phase[Root] = "tools"
      BY <3>1 DEF DenyCall, BeginCall, EndCall, ReturnCall, CallIn, From
    <3> QED BY <1>1, <3>1, <3>2 DEF DenyCall, BeginCall, EndCall, ReturnCall, From, To
  <2>2. CASE Prepare(Root) \/ StreamFails(Root) \/ EndAnswer(Root) \/ Finish(Root) \/ ReportError(Root)
    BY <1>1, <2>2 DEF Prepare, StreamFails, EndAnswer, Finish, ReportError, To
  <2>3. CASE StartStep(Root) \/ EndWithCalls(Root) \/ CollectResults(Root) \/ Exhaust(Root)
    BY <1>1, <2>3 DEF StartStep, StartStream, EndWithCalls, CollectResults, Exhaust, To
  <2>4. CASE Delta(Root)
    BY <2>4 DEF Delta
  <2> QED BY <2>1, <2>2, <2>3, <2>4 DEF Step
<1>5. PlanOrdered'
  BY <1>3, <1>4 DEF StreamInv, PlanOrdered, NextStep
<1>6. OpenTyped'
  <2>1. CASE Prepare(Root) \/ StreamFails(Root) \/ EndAnswer(Root) \/ Finish(Root) \/ ReportError(Root)
    BY <1>1, <2>1 DEF Prepare, StreamFails, EndAnswer, Finish, ReportError, step, OpenTyped
  <2>2. CASE EndWithCalls(Root) \/ CollectResults(Root) \/ Exhaust(Root)
    BY <1>1, <2>2 DEF EndWithCalls, CollectResults, Exhaust, OpenTyped
  <2>3. CASE CallStep(Root)
    BY <1>1, <2>3 DEF CallStep, DenyCall, BeginCall, EndCall, ReturnCall, OpenTyped
  <2>4. CASE StartStep(Root)
    BY <1>1, <2>4 DEF StartStep, StartStream, OpenTyped
  <2>5. CASE Delta(Root)
    <3>1. PICK b \in Block : open' = [open EXCEPT ![Root] = Consume(Root, b).open]
      BY <2>5 DEF Delta
    <3>2. Consume(Root, b).open \subseteq Block
      BY <1>1, ConsumeOpens
    <3> QED BY <1>1, <3>1, <3>2 DEF OpenTyped
  <2> QED BY <2>1, <2>2, <2>3, <2>4, <2>5 DEF Step
<1>7. NotBilled'
  <2>1. CASE billed' = billed
    <3>1. billed[Root] = -1
      BY <1>3 DEF StreamInv, NotBilled, Ended
    <3> QED BY <2>1, <3>1 DEF NotBilled
  <2>2. CASE Finish(Root)
    BY <1>1, <2>2 DEF Finish, To, NotBilled
  <2> QED BY <1>1, <2>1, <2>2, StepLocal
<1> QED BY <1>2, <1>5, <1>6, <1>7 DEF StreamInv, Served

\* The same of the strategy's steps.
LEMMA ServedPlanStep ==
    ASSUME PlanInv, StreamInv, ConstantsAssumption, PlanStep
    PROVE  StreamInv' /\ Viewing
<1>1. /\ Root \in Runs /\ phase \in [Runs -> Phase] /\ open \in [Runs -> SUBSET Block]
  BY RootFacts DEF StreamInv, OpenTyped
<1>2. Served' /\ PlanOrdered' /\ Viewing
  BY ServedStrategy
<1>3. UNCHANGED billed /\ phase[Root] \notin {"closed", "cancelled"}
  BY DEF PlanStep, MakePlan, StartPlanStep, CreateWorker, CallWorker, EndPlanStep, StartSynthesis,
         StartStream, EndSynthesis, From
<1>4. NotBilled'
  BY <1>3 DEF StreamInv, NotBilled
<1>5. OpenTyped'
  <2>1. CASE StartSynthesis
    BY <1>1, <2>1 DEF StartSynthesis, StartStream, OpenTyped
  <2>2. CASE MakePlan \/ StartPlanStep \/ CreateWorker \/ CallWorker \/ EndPlanStep \/ EndSynthesis
    BY <1>1, <2>2 DEF MakePlan, StartPlanStep, CreateWorker, CallWorker, EndPlanStep, EndSynthesis,
                      step, OpenTyped
  <2> QED BY <2>1, <2>2 DEF PlanStep
<1> QED BY <1>2, <1>4, <1>5 DEF StreamInv, Served

\* A turn that ends with two frames, the first of which tells why.
LEMMA ServedCut ==
    ASSUME Silent(stream), billed[Root] = -1, billed'[Root] = -1,
           phase'[Root] \in {"closed", "cancelled"}, NEW type \in {"error", "abort"},
           stream' = stream \o <<Frame(type, <<>>), Frame("done", <<>>)>>
    PROVE  Served' /\ Client!GiveUp
<1> DEFINE x == Frame(type, <<>>)
           z == Frame("done", <<>>)
           t == Cat(stream, <<x>>)
<1>1. stream \in Seq(FrameSet) /\ x \in FrameSet /\ z \in FrameSet
  BY DEF Silent, Frame, FrameSet, Subject, FrameType
<1>2. /\ t \in Seq(FrameSet) /\ Seen(t) = Seen(stream)
      /\ \A e : Sent(t, e) <=> Sent(stream, e) \/ e = type
  BY <1>1, SeenLast
<1>3. stream' = Cat(t, <<z>>)
  <2> HIDE DEF x, z
  <2>1. Cat(stream, <<x, z>>) = Cat(Cat(stream, <<x>>), <<z>>)
    BY <1>1, CatTwo
  <2>2. stream' = Cat(stream, <<x, z>>)
    BY DEF Cat, x, z
  <2> QED BY <2>1, <2>2
<1> HIDE DEF t, x
<1>4. \A e \in {"error", "abort"} : Sent(t, e) <=> e = type
  BY <1>2 DEF Silent, Ends
<1> QED BY <1>2, <1>3, <1>4, ServedGiveUp

\* What breaks and who leaves.
LEMMA ServedEnd ==
    ASSUME PlanInv, StreamInv, ConstantsAssumption, Break \/ Leave
    PROVE  StreamInv' /\ Viewing
<1>1. /\ Root \in Runs /\ phase \in [Runs -> Phase]
  BY RootFacts
<1>2. UNCHANGED <<plan, open, billed>>
  BY DEF Break, Leave, step
<1>3. /\ phase'[Root] \in {"closed", "cancelled"}
      /\ phase[Root] \in Between \cup InStep \cup Stopped
      /\ \E type \in {"error", "abort"} : stream' = stream \o <<Frame(type, <<>>), Frame("done", <<>>)>>
  <2>1. phase[Root] \in Between \cup InStep \cup Stopped \cup {"closed", "cancelled"}
    BY DEF StreamInv, RootPhases
  <2>2. phase[Root] \notin {"unborn", "saved"}
    BY <2>1 DEF Between, InStep, Stopped
  <2>3. CASE Break
    <3>1. phase'[Root] = "closed" /\ phase[Root] \in Stopped
      BY <1>1, <2>3 DEF Break, To, Stopped
    <3>2. stream' = stream \o <<Frame("error", <<>>), Frame("done", <<>>)>>
      BY <2>3 DEF Break, Send
    <3> QED BY <3>1, <3>2
  <2>4. CASE Leave
    <3>1. phase[Root] \notin {"closed", "cancelled"} /\ phase'[Root] = "cancelled"
      BY <1>1, <2>2, <2>4 DEF Leave, Over
    <3>2. stream' = stream \o <<Frame("abort", <<>>), Frame("done", <<>>)>>
      BY <2>4 DEF Leave, Send
    <3> QED BY <2>1, <3>1, <3>2
  <2> QED BY <2>3, <2>4
<1>4. Silent(stream) /\ billed[Root] = -1 /\ billed'[Root] = -1
  <2>1. billed[Root] = -1
    BY <1>3 DEF StreamInv, NotBilled, Between, InStep, Stopped
  <2>2. CASE phase[Root] \in Stopped
    BY <1>2, <2>1, <2>2 DEF StreamInv, StoppedTold
  <2>3. CASE phase[Root] \in Between \cup InStep
    BY <1>2, <2>1, <2>3 DEF StreamInv, LiveTold, Tells, Silent
  <2> QED BY <1>3, <2>2, <2>3
<1>5. Served' /\ Client!GiveUp
  BY <1>3, <1>4, ServedCut
<1>6. PlanOrdered' /\ OpenTyped' /\ NotBilled'
  BY <1>2, <1>3 DEF StreamInv, PlanOrdered, OpenTyped, NotBilled, NextStep
<1> QED BY <1>5, <1>6, ClientSteps DEF StreamInv, Served

\* Nothing happens.
LEMMA ServedStill ==
    ASSUME StreamInv, UNCHANGED vars
    PROVE  StreamInv' /\ Viewing
<1>1. /\ phase' = phase /\ calls' = calls /\ plan' = plan /\ record' = record /\ billed' = billed
      /\ stream' = stream /\ iteration' = iteration /\ open' = open /\ said' = said
  BY DEF vars
<1>2. /\ Opens' = Opens /\ Current' = Current /\ Advanced' = Advanced /\ NextStep' = NextStep
      /\ Begun' = Begun /\ Finished' = Finished /\ Asked' = Asked /\ Given' = Given
      /\ Ids(Len(calls[Root]))' = Ids(Len(calls[Root]))
  BY <1>1 DEF Opens, Current, Advanced, NextStep, Begun, Finished, Asked, Given, Ids, CallId, Its
<1>3. Tells(stream, Begun, Finished, Opens, Asked, Given, Contents(stream), Progress(stream)) =>
      Tells(stream, Begun, Finished, Opens, Asked, Given, Contents(stream), Progress(stream))'
  BY <1>1, <1>2 DEF Tells
<1>4. Fits(Begun, Finished, Opens, Asked, Given, Contents(stream), Progress(stream)) =>
      Fits(Begun, Finished, Opens, Asked, Given, Contents(stream), Progress(stream))'
  BY <1>1, <1>2 DEF Fits, FitsSteps, FitsCalls, FitsRecord, FitsPlan, Its
<1>5. Served'
  BY <1>1, <1>3, <1>4 DEF StreamInv, Served, StoppedTold, LiveTold, RootPhases
<1>6. PlanOrdered' /\ OpenTyped' /\ NotBilled'
  BY <1>1, <1>2 DEF StreamInv, PlanOrdered, OpenTyped, NotBilled
<1>7. UNCHANGED Client!vars
  BY <1>1 DEF Client!vars
<1> QED BY <1>5, <1>6, <1>7, ClientSteps DEF StreamInv, Served

\* The frame a stream starts with.
LEMMA ServedInit ==
    ASSUME Init, ConstantsAssumption
    PROVE  StreamInv /\ Client!Init
<1>1. /\ Root \in Runs /\ phase[Root] = "prepare" /\ billed[Root] = -1 /\ record[Root] = <<>>
      /\ iteration[Root] = 0 /\ plan = <<>> /\ stream = <<Frame("start", <<>>)>>
      /\ open \in [Runs -> SUBSET Block]
  BY DEF Init, Runs
<1> DEFINE f == Frame("start", <<>>)
<1>2. f \in FrameSet /\ f.type = "start"
  BY DEF Frame, FrameSet, Subject, FrameType
<1> HIDE DEF f
<1>3. stream = <<f>>
  BY <1>1 DEF f
<1>4. stream \in Seq(FrameSet) /\ Contents(stream) = <<>> /\ Progress(stream) = <<>>
  BY <1>2, <1>3, OfOne, OfOther
<1>5. \A type : type # "start" => /\ ~Sent(stream, type) /\ Places(stream, type) = {}
                                  /\ Number(stream, type) = 0 /\ About(stream, type) = {}
  <2> SUFFICES ASSUME NEW type, type # "start"
               PROVE  /\ ~Sent(stream, type) /\ Places(stream, type) = {}
                      /\ Number(stream, type) = 0 /\ About(stream, type) = {}
    OBVIOUS
  <2>1. DOMAIN stream = {1} /\ stream[1] = f
    BY <1>3
  <2>2. ~Sent(stream, type) /\ Places(stream, type) = {}
    BY <1>2, <2>1 DEF Sent, Places
  <2> QED BY <2>2, FS_EmptySet DEF Number, About
<1>6. \A b \in Block : Number(stream, StartOf[b]) = 0 /\ Number(stream, EndOf[b]) = 0
  BY <1>5, BlockTypes
<1>7. /\ Begun = 0 /\ Finished = 0 /\ Asked = {} /\ Given = {} /\ Opens = {} /\ Current = {}
  BY <1>1, <1>5 DEF Begun, Finished, Asked, Given, Opens, Current, InStep
<1>8. Tells(stream, 0, 0, {}, {}, {}, <<>>, <<>>)
  BY <1>4, <1>5, <1>6 DEF Tells, Ends
<1>9. Fits(0, 0, {}, {}, {}, <<>>, <<>>)
  <2>1. FitsSteps(0, 0)
    BY <1>1 DEF FitsSteps, InStep, Its
  <2>2. FitsCalls(0, {}, {})
    BY <1>1 DEF FitsCalls
  <2>3. FitsRecord(0, <<>>)
    <3>1. Answers(record[Root]) = <<>> /\ Replay(record[Root]) = <<>>
      <4>1. Answers(record[Root]) = <<>>
        BY <1>1, AnswersFew
      <4>2. Replay(record[Root]) = FlattenSeq([j \in {} |-> StepParts(j - 1, <<>>[j])])
        BY <4>1 DEF Replay
      <4>3. [j \in {} |-> StepParts(j - 1, <<>>[j])] = <<>>
        OBVIOUS
      <4> QED BY <4>1, <4>2, <4>3, FlattenFew
    <3>2. ToSet(<<>>) = {}
      BY DEF ToSet
    <3> QED BY <1>7, <3>1, <3>2 DEF FitsRecord
  <2>4. FitsPlan(<<>>)
    BY <1>1 DEF FitsPlan, Advanced
  <2> QED BY <1>7, <2>1, <2>2, <2>3, <2>4 DEF Fits
<1>10. LiveTold
  BY <1>4, <1>7, <1>8, <1>9 DEF LiveTold
<1>11. PlanOrdered
  BY <1>1 DEF PlanOrdered
<1>12. OpenTyped /\ NotBilled /\ StoppedTold /\ RootPhases
  BY <1>1 DEF OpenTyped, NotBilled, StoppedTold, RootPhases, Stopped, Between
<1>13. Status(stream) = "between"
  BY <1>5 DEF Status
<1>14. Client!Init
  BY <1>1, <1>4, <1>5, <1>6, <1>13 DEF Client!Init
<1> QED BY <1>10, <1>11, <1>12, <1>14 DEF StreamInv

\* A step of the system is a step of the stream, or none.
LEMMA ServedNext ==
    ASSUME PlanInv, StreamInv, ConstantsAssumption, SpawnInv', [Next]_vars
    PROVE  StreamInv' /\ Viewing
<1>1. CASE \E r \in Runs : Step(r)
  <2>1. PICK r \in Runs : Step(r)
    BY <1>1
  <2>2. r = Root \/ r \in SubAgents
    BY DEF Runs
  <2> QED BY <2>1, <2>2, ServedOwn, ServedOther
<1> QED BY <1>1, ServedPlanStep, ServedEnd, ServedStill DEF Next

\* The session's turn serves its client as ChatStream says.
THEOREM ServesChatHolds == Spec => ServesChat
<1> DEFINE Inv == PlanInv /\ StreamInv
<1>1. Init => Inv /\ Client!Init
  BY SpawnInit, TypeInit, PlanInit, ServedInit, ConstantsAssumption DEF PlanInv
<1>2. Inv /\ [Next]_vars => Inv' /\ [Client!Next]_(Client!vars)
  <2> SUFFICES ASSUME PlanInv, StreamInv, [Next]_vars
               PROVE  PlanInv' /\ StreamInv' /\ [Client!Next]_(Client!vars)
    OBVIOUS
  <2>1. SpawnInv'
    BY SpawnNext, ConstantsAssumption DEF PlanInv
  <2>2. PlanInv'
    BY <2>1, TypeNext, PlanNext DEF PlanInv
  <2>3. StreamInv' /\ Viewing
    BY <2>1, ServedNext, ConstantsAssumption
  <2> QED BY <2>2, <2>3 DEF Viewing
<1> QED
  BY <1>1, <1>2, PTL DEF Spec, ServesChat, Client!Spec
=============================================================================

--------------------------- MODULE MCAgentTurn ---------------------------
(* Instances of AgentTurn for TLC. *)
EXTENDS AgentTurn

CONSTANTS root, s1, s2

TwoAgents == {s1, s2}

\* The policy of the default agent; policies that forbid the sub-agent tools.
DefaultPolicy == [useTool |-> TRUE, useSkill |-> TRUE, allow |-> {}, deny |-> {}]
NoCreatePolicy == [DefaultPolicy EXCEPT !.deny = {"create_subagent"}]
NoToolPolicy == Normalize([DefaultPolicy EXCEPT !.useTool = FALSE])

Skill == <<"load_skill">>
SkillAndHistory == <<"load_skill", "get_historical_chat_messages">>
Create2 == <<"create_subagent", "create_subagent">>
CallTwo == <<"call_subagent", "call_subagent">>
CallAndCreate == <<"call_subagent", "create_subagent">>

Ask(planned, policy, deny, lists, size) ==
    [plan |-> planned, matched |-> TRUE, policy |-> policy, allow |-> {}, deny |-> deny,
     lists |-> lists, sizes |-> {1, 2}, deltas |-> size]

\* Tools: two calls at once, and enough deltas for the blocks to alternate.
\* Plans, and ReAct turns that make and call sub-agents, whatever the policy.
\* Spawning: two sub-agents made in one step and run concurrently in the next.
ToolLists == {<<>>, Skill, SkillAndHistory}
MixedLists == {<<>>, Skill, CallAndCreate}
ToolRequests == {Ask(FALSE, DefaultPolicy, {}, ToolLists, 3),
                 [Ask(TRUE, DefaultPolicy, {}, ToolLists, 3) EXCEPT !.sizes = {1}]}
MixedRequests ==
    {Ask(planned, DefaultPolicy, {}, MixedLists, 0) : planned \in BOOLEAN}
    \cup {Ask(TRUE, NoCreatePolicy, {}, MixedLists, 0),
          Ask(FALSE, NoToolPolicy, {}, MixedLists, 0),
          Ask(FALSE, NoCreatePolicy, {"load_skill"}, MixedLists, 0)}
SpawnRequests == {Ask(FALSE, DefaultPolicy, {}, {<<>>, Create2, CallTwo}, 0)}
TurnRequests == ToolRequests \cup MixedRequests \cup SpawnRequests
=============================================================================

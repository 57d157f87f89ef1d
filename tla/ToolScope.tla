------------------------------ MODULE ToolScope ------------------------------
(***************************************************************************)
(* Which tools a turn may call: the registered tools, the policy of an     *)
(* agent and of the sub-agents made from it, and the scope derived from a  *)
(* policy and from the lists a request brings along.  A list of names that *)
(* is absent and one that is empty are the same to the code (x or y or     *)
(* None), and are both {} here.                                            *)
(***************************************************************************)

SkillTools == {"load_skill", "load_skill_asset"}
SessionTools == {"get_historical_chat_messages"}
SubAgentTools == {"create_subagent", "call_subagent"}
Tool == SkillTools \cup SessionTools \cup SubAgentTools

\* policy.expose_by_default of the registered tools.
ByDefault == SubAgentTools

\* AgentToolAndSkillPolicy, and what its validator makes of it.
ToolPolicy == [useTool : BOOLEAN, useSkill : BOOLEAN, allow : SUBSET Tool, deny : SUBSET Tool]
Normalize(policy) ==
    IF policy.useTool
    THEN policy
    ELSE [useTool |-> FALSE, useSkill |-> FALSE, allow |-> {}, deny |-> {}]

\* Mutant: a sub-agent keeps the parent's lists as they are.
NarrowSkills(policy) == Normalize([policy EXCEPT !.useSkill = FALSE])

\* build_subagent_info: the parent's lists, without the sub-agent tools and without skills.
Narrow(policy) ==
    Normalize([policy EXCEPT !.useSkill = FALSE, !.deny = @ \cup SubAgentTools])

FirstGiven(names, preset) == IF names # {} THEN names ELSE preset

\* The hidden tools a turn is shown: the skill tools when a skill matched, and then the
\* session tools when the session has a summary (one without a matched skill raises, as
\* TurnMemory's ResolveTools has it).
Exposed(skills, summary) ==
    (IF skills THEN SkillTools ELSE {}) \cup (IF skills /\ summary THEN SessionTools ELSE {})

\* ToolRegistry.derive: hidden tools only follow the exposure; the others must be allowed,
\* by the absence of a list or by being on it, and not denied.
Derive(expose, allowAll, allow, deny) ==
    {n \in Tool \ ByDefault : n \in expose}
    \cup {n \in ByDefault : (allowAll \/ n \in allow) /\ n \notin deny}

\* ToolScopeProvider.resolve: the lists of the request go before those of the agent.
Scope(policy, userAllow, userDeny, matched, summary) ==
    LET allow == FirstGiven(userAllow, policy.allow)
        skills == policy.useTool /\ policy.useSkill /\ matched
    IN  Derive(Exposed(skills, summary),
               policy.useTool /\ allow = {},
               IF policy.useTool THEN allow ELSE {},
               FirstGiven(userDeny, policy.deny))
=============================================================================

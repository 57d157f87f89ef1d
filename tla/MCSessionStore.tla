--------------------------- MODULE MCSessionStore ---------------------------
(* An instance of SessionStore for TLC. *)
EXTENDS SessionStore, TLC

CONSTANTS u1, u2, t1, t2

TwoUsers == {u1, u2}
TwoTasks == {t1, t2}
OneOrTwo == {1, 2}

Writes == Ops \ {"scroll"}
Both == {"summary", "title"}

Load(offered, together, brief, made, titles, agents, until) ==
    [offered |-> offered, together |-> together, brief |-> brief, made |-> made,
     titles |-> titles, agents |-> agents, until |-> until]

\* Requests and turns that overlap at will; the same with saves that follow their reads; then
\* neither a change of the agent nor of the title overlaps anything; reading while turns
\* are archived; reading while the session is deleted.
Day == {Load(Writes \ {"setAgent"}, Ops, FALSE, Both, GivenTitle, {None}, 1),
        Load(Writes, Ops, TRUE, Both, GivenTitle, Agent, 1),
        Load(Writes, Ops \ {"setAgent", "rename"}, FALSE, Both, GivenTitle, Agent, 1),
        Load({"scroll", "turn"}, Ops, FALSE, {}, {"chosen"}, {None}, 4),
        Load({"scroll", "delete"}, Ops, FALSE, {}, {"chosen"}, {None}, 0)}

SessionSymmetry == Permutations(TwoUsers) \cup Permutations(TwoTasks)
=============================================================================

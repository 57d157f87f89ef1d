\* Turns of two iterations whose steps call up to two tools at once, plans of one or two
\* steps, and ReAct turns that make two sub-agents and
\* run them concurrently or in turn, under fair scheduling; every call
\* may fail and the client may leave.
CONSTANTS
    root = root
    s1 = s1
    s2 = s2
    Root <- root
    SubAgents <- TwoAgents
    Requests <- TurnRequests
    MaxIterations = 2
    UsageReports = {TRUE}
    Faults = {"prepare", "llm", "planner", "preflight", "tool", "spec", "billing", "leave"}
SPECIFICATION FairSpec
CHECK_DEADLOCK FALSE
INVARIANTS
    EveryCallAnswered
    BilledForEveryStream
    SubAgentsDoNotSpawn
    WorkersTakeTurns
PROPERTIES
    StreamEnds
    ServesChat

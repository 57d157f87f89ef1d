\* One session, two users and two tasks at a time; the workload is chosen at the start.
CONSTANTS
    u1 = u1
    u2 = u2
    t1 = t1
    t2 = t2
    None = None
    Users <- TwoUsers
    Tasks <- TwoTasks
    PageSizes <- OneOrTwo
    Workloads <- Day
SPECIFICATION Spec
SYMMETRY SessionSymmetry
CHECK_DEADLOCK FALSE
INVARIANTS
    ScrollMissesNothing
    PagesPartition
PROPERTIES
    OnlyOwnerWrites
    NoUpdateUndone
    AgentStays

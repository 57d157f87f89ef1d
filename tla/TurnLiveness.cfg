\* Two overlapping turns under fair scheduling.
CONSTANTS
    t1 = t1
    t2 = t2
    t3 = t3
    past = past
    Past <- past
    Turns <- TwoTurns
    Policy <- FullPolicy
    Loads <- LastingOnly
SPECIFICATION FairSpec
CHECK_DEADLOCK FALSE
PROPERTIES
    StreamedIsArchived

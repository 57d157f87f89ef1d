\* Two turns, no failure; no skill matches the second one's query.
CONSTANTS
    t1 = t1
    t2 = t2
    t3 = t3
    past = past
    Past <- past
    Turns <- TwoTurns
    Policy <- FullPolicy
    Loads <- UnskilledOnly
SPECIFICATION Spec
CHECK_DEADLOCK FALSE
PROPERTIES
    SummaryUnlocksSessionTools

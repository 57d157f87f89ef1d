\* Overlapping turns under every fault; turns one after the other whose list is cut, or compressed.
CONSTANTS
    t1 = t1
    t2 = t2
    t3 = t3
    past = past
    Past <- past
    Turns <- ThreeTurns
    Policy <- FullPolicy
    Loads <- Days
SPECIFICATION Spec
SYMMETRY TurnSymmetry
CHECK_DEADLOCK FALSE
INVARIANTS
    TypeOK
    ShownByAppend
    BilledBeforeKept
    NoMessageTwice
    HotIsTailOfArchive
    NothingForgotten
PROPERTIES
    CoverageGrows

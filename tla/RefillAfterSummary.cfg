\* Two turns, no failure; the key expires after the first one compressed.
CONSTANTS
    t1 = t1
    t2 = t2
    t3 = t3
    past = past
    Past <- past
    Turns <- TwoTurns
    Policy <- FullPolicy
    Loads <- ExpiringOnly
SPECIFICATION Spec
CHECK_DEADLOCK FALSE
PROPERTIES
    RefillIsUncompressed

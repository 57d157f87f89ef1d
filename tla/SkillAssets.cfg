\* Three calls of load_skill and load_skill_asset, in one process and the next.
CONSTANTS
    c1 = c1
    c2 = c2
    c3 = c3
    s1 = s1
    s2 = s2
    o1 = o1
    o2 = o2
    Calls <- ThreeCalls
    NoCall = NoCall
    Skills <- TwoSkills
    Objects <- TwoObjects
    Loads <- CacheLoads
SPECIFICATION FairSpec
CHECK_DEADLOCK FALSE
INVARIANTS
    OwnContent
    OneDownload
PROPERTIES
    StaysWhileUsed
    CallsEnd

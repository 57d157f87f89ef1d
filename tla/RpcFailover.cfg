\* Two requests to one or two services; the registry changes once, its calls and the
\* instances fail at will, a list lives for one tick.
CONSTANTS
    s1 = s1
    s2 = s2
    r1 = r1
    r2 = r2
    dev = dev
    nobody = nobody
    NoRequest = NoRequest
    Services <- TwoServices
    Requests <- TwoRequests
    Addresses <- ThreeAddresses
    Developer <- Owners
    Baseline <- nobody
    Drained <- SecondDrained
    TTL = 1
    Workloads <- Day
    MaxChanges = 1
    Retries = 1
SPECIFICATION FairSpec
CHECK_DEADLOCK FALSE
INVARIANTS
    TypeOK
    SafeFailover
    OneNamingClient
PROPERTIES
    StableInstancesTried
    DeveloperStays
    OneRefresh
    EveryRequestEnds

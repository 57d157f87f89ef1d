\* A request made while a user is served.
CONSTANTS
    s1 = s1
    s2 = s2
    r1 = r1
    r2 = r2
    dev = dev
    nobody = nobody
    NoRequest = NoRequest
    Services <- TwoServices
    Requests <- TwoRequests
    Addresses <- ThreeAddresses
    Developer <- Owners
    Baseline <- nobody
    Drained <- SecondDrained
    TTL = 1
    Workloads <- Day
    MaxChanges = 1
    Retries = 1
SPECIFICATION Spec
CHECK_DEADLOCK FALSE
INVARIANTS
    OneErrorType

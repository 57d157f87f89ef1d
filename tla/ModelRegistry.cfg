\* One model, up to three providers, two requests; the workload is chosen at the start.
CONSTANTS
    m1 = m1
    p1 = p1
    p2 = p2
    p3 = p3
    r1 = r1
    r2 = r2
    None = None
    Models <- OneModel
    Providers <- ThreeProviders
    Requests <- TwoRequests
    Workloads <- Day
    MaxBinds = 3
    MaxSpent = 2
SPECIFICATION Spec
SYMMETRY RegistrySymmetry
CHECK_DEADLOCK FALSE
INVARIANTS
    TypeOK
    AtMostOnePreferred
    NoDangling
    UsageExact
PROPERTIES
    SwitchKeepsServing

SPECIFICATION FairSpec
CONSTANTS
    Runs = {r1, r2}
    Submitters = {s1}
    Cancellers = {c1}
    Attachers = {a1}
    Stop = Stop
    None = None
    MaxChunks = 0
    MaxRestarts = 1
    DbFaults = 0
    RedisFaults = 0
INVARIANTS
    ManagerTypeOK
    AnnouncementsAreRight
    CloseLeavesOnlyLateArrivals
PROPERTIES
    ImplementsLifecycle
    AdmittedRunsEnd

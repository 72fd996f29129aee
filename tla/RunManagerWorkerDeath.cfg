SPECIFICATION Spec
CONSTANTS
    Runs = {r1}
    Submitters = {s1}
    Cancellers = {c1}
    Attachers = {a1}
    Stop = Stop
    None = None
    MaxChunks = 0
    MaxRestarts = 0
    DbFaults = 2
    RedisFaults = 0
INVARIANT
    AcceptingMeansWorking

SPECIFICATION Spec
CONSTANTS
    Runs = {r1}
    Submitters = {s1, s2}
    Cancellers = {c1, c2}
    Attachers = {a1, a2}
    Stop = Stop
    None = None
    MaxChunks = 1
    MaxRestarts = 1
    DbFaults = 2
    RedisFaults = 1
SYMMETRY Symmetry
INVARIANTS
    AgentRunsOnce
    EventsAreOrdered
    AnnouncementsAreRight

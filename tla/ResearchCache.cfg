SPECIFICATION Spec
CONSTANTS
    Requests = {a1, a2}
    Queries <- MCQueries
    Earlier <- MCEarlier
    Retention <- MCRetention
    Answers <- MCAnswers
    SourceFreeTtl = 2
    RelativeTtl = 1
    FillLock = 1
    FillWait = 1
    Second = 2
    Horizon = 4
    MaxRequests = 2
    MaxFaults = 1
    None = None
SYMMETRY Symmetry
CHECK_DEADLOCK FALSE
INVARIANTS
    CacheTypeOK
    HitsAreSound
    FillsAreExclusive
    ReservationsAreReturned

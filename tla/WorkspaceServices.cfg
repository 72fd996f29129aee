SPECIFICATION FairSpec
CONSTANTS
    Slots = {x, y}
    MaxRequests = 2
    PoolSize = 1
    Emails = {e}
    Malformed = Malformed
    Local = Local
    Passwords = {p, q}
    Random = Random
    MaxFailures = 1
    Scrypt = Scrypt
    Absent = Absent
    ShortWindow = 2
    LongWindow = 3
    None = None
    AAPL = AAPL
    MSFT = MSFT
    Symbols = {AAPL, MSFT}
    Invalid = Invalid
    NormalForm <- MCNormalForm
    Asks <- MCAsks
    Concurrency = 1
    Histories <- MCHistories
    Samples <- MCSamples
    StatementPeriods = 2
    Queries <- MCQueries
    Datasets <- MCDatasets
CHECK_DEADLOCK FALSE
INVARIANTS
    IdentitiesAreSound
    BatchesAnswerEverySymbol
    ReportsMatchTheirSources
PROPERTY
    MarketRequestsEnd

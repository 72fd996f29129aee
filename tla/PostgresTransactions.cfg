SPECIFICATION TxSpec
CONSTANTS
    Threads = {t1, t2}
    Runs = {r1, r2}
    Keys = {k1}
    Messages = {m1}
    Checkpoints = {c1, c2}
    ErrorCodes = {"process_interrupted"}
    Sessions = {x, y, z}
    None = None
SYMMETRY Symmetry
INVARIANTS
    LocksAreSound
    ThreadLockDecides
    WaitersReadAgain
    ThreadsConsistent
    HeadsConsistent
    RowsConsistent
PROPERTIES
    ImplementsRepository
    HistoryIsKept

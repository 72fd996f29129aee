SPECIFICATION Spec
CONSTANTS
    Runs = {r1, r2, r3}
    Readers = {x}
    None = None
    MaxStreams = 2
    MaxEvents = 2
    MaxLive = 2
    Replayed = {r3}
    MaxId = 3
    Failures = 1
SYMMETRY Symmetry
CHECK_DEADLOCK FALSE
INVARIANTS
    BufferIsBounded
    ReadersMissNothing
    EndIsNeverHidden

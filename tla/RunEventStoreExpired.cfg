SPECIFICATION Spec
CONSTANTS
    Runs = {r1}
    Readers = {x}
    None = None
    MaxStreams = 2
    MaxEvents = 2
    MaxLive = 2
    Replayed = {}
    MaxId = 3
    Failures = 0
CHECK_DEADLOCK FALSE
INVARIANT
    ExpiredStreamsAreRefused

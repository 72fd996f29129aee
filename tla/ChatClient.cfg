SPECIFICATION FairSpec
CONSTANTS
    Threads = {t1, t2}
    MaxSends = 2
    MaxChunks = 1
    MaxBreaks = 1
    Asked = Asked
    None = None
CHECK_DEADLOCK FALSE
INVARIANTS
    ChatTypeOK
    EventsReducedInOrder
    ViewShowsTranscript
PROPERTIES
    StreamingEnds

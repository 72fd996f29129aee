SPECIFICATION Spec
CONSTANTS
    Threads = {t1}
    Runs = {r1, r2}
    Keys = {k1}
    Messages = {m1, m2}
    Checkpoints = {c1, c2}
    ErrorCodes = {"process_interrupted", "thread_conflict", "research_failed"}
    AgentErrors = {"research_failed"}
    Callers = {a, b, c}
    Processes = {p, q}
    None = None
SYMMETRY Symmetry
INVARIANTS
    CallsTypeOK
    ExecutionIsExclusive
    RepliesAreKept
    NoStrandedRun

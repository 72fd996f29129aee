SPECIFICATION Spec
CONSTANTS
    Tools = {volatility}
    Renamed = {volatility}
    Unregistered = other
    MaxAttempts = 2
    Outcomes = {"ok", "financial_data_error", "provider_unavailable", "deadline", "raises_internal"}
    None = None
    Ids = {i1, i2}
    ModelAttempts = 2
    RecursionLimit = 6
    MaxCalls = 2
    MaxTurns = 2
SYMMETRY Symmetry
CHECK_DEADLOCK FALSE
INVARIANTS
    ModelSeesAnsweredCalls
    BudgetsHold
    ResultMatchesStream
PROPERTIES
    TurnsSpendBudgets

SPECIFICATION Spec
CONSTANTS
    Calls = {c1, c2, c3}
    Callers <- Numbered
    bulk_enroll = bulk_enroll
    unenroll_user = unenroll_user
    Tools = {bulk_enroll, unenroll_user}
    Limit <- MCLimit
    MaxWindow = 1
    MaxEvictions = 1
    None = None
SYMMETRY CallSymmetry
INVARIANTS
    RateTypeOK
    WindowBudget
    LossBudget
    DeniedByOwnCalls
CHECK_DEADLOCK FALSE

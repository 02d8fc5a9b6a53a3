SPECIFICATION Spec
CONSTANTS
    Calls = {c1, c2}
    Accounts = {u1, u2}
    Levels = {course_staff}
INVARIANTS
    AccountsTypeOK
    StandingAsAsked
PROPERTIES
    RisesByScope
SYMMETRY AccountsSymmetry
CHECK_DEADLOCK FALSE

SPECIFICATION Spec
CONSTANTS
    CourseIds <- MCCourseIds
    Usernames = {"u", "roles"}
    Bodies <- MCBodies
    MaxSample = 1
    Lower <- MCLower
    Values <- MCValues
    Depth <- MCDepth
    Rows = {r1, r2, r3}
    Limits = {1, 2}
    PageCap = 1
    MaxMoves = 2
    None = None
INVARIANTS
    FacadeTypeOK
    OwnView
    SecretsKeptOut
    WalkMissesNoMore
    RepeatsForArrivals
SYMMETRY RowSymmetry
CHECK_DEADLOCK FALSE

SPECIFICATION Spec
CONSTANTS
    Requests = {r1, r2, r3}
    k1 = k1
    k2 = k2
    s1 = s1
    u1 = u1
    u2 = u2
    Keys = {k1}
    Sessions = {s1}
    Users = {u1}
    Owner <- MCOwner
    Granted <- MCGranted
    Tools = {unenroll_user, bulk_enroll}
    Payloads = {p1}
    Gated = {unenroll_user, bulk_enroll}
    External = {}
    Lenient = {bulk_enroll}
    Parts = 2
    AtomicTools = {unenroll_user, bulk_enroll}
    None = None
SYMMETRY RequestSymmetry
INVARIANTS
    TypeOK
    AnswerTrue
    PreviewedFirst
    OneWritePerToken
PROPERTIES
    KeepsPromise
    UsesRail
CHECK_DEADLOCK FALSE

SPECIFICATION FairSpec
CONSTANTS
    Requests = {r1, r2}
    k1 = k1
    k2 = k2
    s1 = s1
    u1 = u1
    u2 = u2
    Keys = {k1, k2}
    Sessions = {s1}
    Users = {u1, u2}
    Owner <- MCOwner
    Granted <- MCGranted
    Tools = {unenroll_user, unenroll_user_auto, bulk_enroll, bulk_enroll_auto, create_xblock, create_xblock_auto, publish_xblock, publish_xblock_auto}
    Payloads = {p1}
    Gated = {unenroll_user, unenroll_user_auto, bulk_enroll, bulk_enroll_auto, publish_xblock, publish_xblock_auto}
    External = {create_xblock, create_xblock_auto, publish_xblock, publish_xblock_auto}
    Lenient = {bulk_enroll, bulk_enroll_auto, create_xblock, create_xblock_auto}
    Parts = 2
    AtomicTools = {unenroll_user, bulk_enroll, create_xblock, publish_xblock}
    None = None
INVARIANTS
    IntentOnRecord
    OutcomeTrue
PROPERTIES
    EveryCallEnds
CHECK_DEADLOCK FALSE

SPECIFICATION Spec
CONSTANTS
    Requests = {r1}
    k1 = k1
    k2 = k2
    s1 = s1
    u1 = u1
    u2 = u2
    Keys = {k1}
    Sessions = {}
    Users = {u1}
    Owner <- MCOwner
    Granted <- MCGranted
    Tools = {create_xblock}
    Payloads = {p1}
    Gated = {}
    External = {create_xblock}
    Lenient = {create_xblock}
    Parts = 2
    AtomicTools = {create_xblock}
    None = None
INVARIANTS
    EffectsAudited
CHECK_DEADLOCK FALSE

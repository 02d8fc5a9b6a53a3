SPECIFICATION Spec
CONSTANTS
    Calls = {c1}
    Keys = {k1}
    Users = {u1}
    Admins = {a1}
    Tools = {analytics, set_superuser}
    AdminTools = {set_superuser}
    Needs <- MCNeeds
    Scopes <- MCScopes
    DefaultScopes <- MCDefaultScopes
    Choices <- MCChoices
    DefaultTTL = 1
    MaxTime = 1
    None = None
INVARIANTS
    KeyTypeOK
    AuthorityMoment
    RevocationSticks
CHECK_DEADLOCK FALSE

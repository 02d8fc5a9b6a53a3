SPECIFICATION TokenSpec
CONSTANTS
    Calls = {c1, c2}
    Tokens = {t1}
    Fingerprints = {f1}
    None = None
INVARIANT
    SingleUse
CHECK_DEADLOCK FALSE

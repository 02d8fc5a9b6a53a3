SPECIFICATION TokenSpec
CONSTANTS
    Calls = {c1, c2, c3}
    Tokens = {t1, t2}
    Fingerprints = {f1, f2}
    None = None
SYMMETRY Symmetry
INVARIANTS
    TokenTypeOK
    PreviewBinding
    RetryIsRefused
CHECK_DEADLOCK FALSE

SPECIFICATION Spec
CONSTANTS
    Calls = {c1, c2}
    Blocks = {b1, b2}
    Root = root
    Fields <- MCFields
    Checked <- MCChecked
    Sections <- MCSections
    Values = {v}
    Trees <- MCTrees
    None = None
SYMMETRY AuthoringSymmetry
INVARIANTS
    AuthoringTypeOK
    TreeAsAsked
    AnswerWhole
    EditsKept
CHECK_DEADLOCK FALSE

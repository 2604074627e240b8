CONSTANTS
    Keys = {a, b}
    Verbs = {p}
    NoVerb = NoVerb
    NoRecord = NoRecord
    HandEdits = {"accept", "revoke"}
    VerbKinds = {"commit"}
    MayDie = TRUE
    MaxVersion = 2
    MaxHandEdits = 2
    LockAttempts = 1
SPECIFICATION Spec
SYMMETRY Symmetric
INVARIANTS
    NeverALostRecord
CHECK_DEADLOCK FALSE

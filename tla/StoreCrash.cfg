CONSTANTS
    Keys = {a, b}
    Verbs = {p, q}
    NoVerb = NoVerb
    NoRecord = NoRecord
    HandEdits = {"accept"}
    VerbKinds = {"commit", "prune"}
    MayDie = TRUE
    MaxVersion = 2
    MaxHandEdits = 1
    LockAttempts = 2
SPECIFICATION Spec
SYMMETRY Symmetric
PROPERTIES
    KeysAreRegisters
CHECK_DEADLOCK FALSE

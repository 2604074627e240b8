CONSTANTS
    Keys = {a, b}
    Verbs = {p}
    NoVerb = NoVerb
    NoRecord = NoRecord
    HandEdits = {"accept", "revoke", "tear"}
    VerbKinds = {"commit", "attest", "reconcile", "prune", "retarget"}
    MayDie = TRUE
    MaxVersion = 2
    MaxHandEdits = 1
    LockAttempts = 1
SPECIFICATION Spec
SYMMETRY Symmetric
INVARIANTS
    CommittedSurvives
CHECK_DEADLOCK FALSE

CONSTANTS
    Keys = {a, b}
    Verbs = {p, q}
    NoVerb = NoVerb
    NoRecord = NoRecord
    HandEdits = {"accept", "revoke", "tear"}
    VerbKinds = {"commit", "attest", "reconcile"}
    MayDie = FALSE
    MaxVersion = 2
    MaxHandEdits = 2
    LockAttempts = 2
SPECIFICATION Spec
SYMMETRY Symmetric
PROPERTIES
    DocumentPortable
    DocumentNeverRegresses
CHECK_DEADLOCK FALSE

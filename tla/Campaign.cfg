CONSTANTS
    N = 4
    Size <- MCSize
    Tests <- MCTests
    Cost <- MCCost
    Unpriced = Unpriced
    Units = {"u", "v"}
    Unit <- MCUnit
    Ceiling = 2
    Minimum = 1
    ExecutionBudget = 3
SPECIFICATION FairSpec
INVARIANTS
    ProofsCounted
    HeldWindowSafe
    NeverTruncated
    WindowsFixed
PROPERTIES
    RunEnds
CHECK_DEADLOCK FALSE

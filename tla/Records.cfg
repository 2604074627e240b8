CONSTANTS
    Sides = {"ledger", "serving", "selections", "document", "inspection"}
    Mutants = {m1, m2}
    Reasons = {r1, r2}
    Sites = {s1, s2}
    NoSite = NoSite
    Gone = Gone
    NoAtt = NoAtt
    Withdrew = Withdrew
    MaxRuns = 2
    MaxActs = 2
    Inputs = {x}
    Size = 2
    Memory <- MCMemory
    Duration <- MCDuration
    Unlimited = 3
    Budgets = {1, 2}
    Answers = {"survived", "discarded"}
    Setups <- MCSetups
    Selections = {default, tagged}
    Default = default
    Points = {m}
    Bodies = {b1, b2}
    NoneSuch = NoneSuch
    MaxSteps = 4
    Documents <- MCDocuments
    Trees <- MCTrees
    Pool <- MCPool
    MaxRecords = 2
    MaxMishaps = 1
SPECIFICATION MCSpec
INVARIANTS
    SitesAgree
    WithdrawalStands
    ReviewerWins
    StripsAccounted
    OneTree
    RecordStands
    BatchAgrees
    CleanNamesItsCommit
    ReadsBack
    DamageShows
PROPERTIES
    SelectionsApart
CHECK_DEADLOCK FALSE

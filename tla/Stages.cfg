CONSTANTS
    Total = 5
    NWorks = 3
    Work <- MCWork
    Executes = {1, 2, 3, 5}
    Indivisible = {2}
    Workers = {w1, w2, w3}
    None = None
    NKills = 5
    NTargets = 3
    ConfirmStreak = 1
    ConfirmStride = 3
    Requests <- MCRequests
    Groups = {1, 2}
    MaxFaults = 2
    Campaigns = {c1, c2}
    Baselines = {1, 2, 3}
    Ceiling = 2
    Keep = 1
    MaxClock = 2
    MaxDeposits = 2
    Nobody = Nobody
    Sides = {"window", "confirmation", "preparation", "cache"}
SPECIFICATION StagesSpec
INVARIANTS
    NothingPartial
    AdmissionStops
    ConfirmsAll
    SamplingSound
    RowsAreTrue
    BaselinesOnce
PROPERTIES
    BankOnlyAges
    StagesEnd
CHECK_DEADLOCK FALSE

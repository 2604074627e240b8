CONSTANTS
    Campaigns = {c1}
    Baselines = {1, 2}
    Ceiling = 1
    Keep = 1
    MaxClock = 1
    MaxDeposits = 1
    Nobody = Nobody
SPECIFICATION CacheSpec
PROPERTIES
    DispositionsSurvive
CHECK_DEADLOCK FALSE

SPECIFICATION FacesSpec
CONSTANTS
    list = list
    explain = explain
    mcprun = mcprun
    cli = cli
    Calls = {list, explain, mcprun}
    Verbs = {mcprun, cli}
    Cli = {cli}
    NoCall = NoCall
    NoVerb = NoVerb
    Files <- TwoFiles
    Selections <- TwoSelections
    Casts <- SevenCasts
    Windows = 1
    MaxSignals = 2
    MaxCalls = 2
    MaxEdits = 2
    Undoing = "between"
INVARIANTS HitsAreTrue HeapReturnStands
PROPERTIES MergeUntimed IdleDropsTree FacesEnd
CHECK_DEADLOCK FALSE

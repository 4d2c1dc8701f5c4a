SPECIFICATION FairSpec
CONSTANTS
    MCCount = 2
    MCMaxCases = 1
    Scripts <- MCScripts
    MaxCases <- MCCases
    Jobs = {1, 2}
    MessageBurst = 2
    Timeout = 0
    Returns = {"Ok", "Error", "Rejected"}
    Panics = TRUE
    WriteFaults = TRUE
    Fuel = TRUE
    None = None
INVARIANTS
    ThreadsBounded
    FinishedAlwaysArrives
    ReportTruthful
PROPERTIES
    RunEnds

SPECIFICATION Spec
CONSTANTS
    MCCount = 1
    MCMaxCases = 1
    Scripts <- MCScripts
    MaxCases <- MCCases
    Jobs = {1}
    MessageBurst = 2
    Timeout = 1
    Returns = {"Runtime"}
    Panics = FALSE
    WriteFaults = FALSE
    Fuel = TRUE
    None = None
INVARIANTS TimeoutMeansDeadline

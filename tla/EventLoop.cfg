SPECIFICATION Spec
CONSTANTS
    Displays = {3, 4}
    Blanks = {1, 2}
    MousePeriods = {2, 3}
    DrawTimes = {0, 2}
    MpuPeriod = 2
    MpuUsed = TRUE
    Drawers = {"slave"}
    LongestStep = 4
    MaxCycle = 18
    Never = 99
CHECK_DEADLOCK FALSE
INVARIANTS
    NothingOverdue
    TimersRun
PROPERTIES
    VsyncAlternates

SPECIFICATION Spec
CONSTANTS
    Displays = {3, 4}
    Blanks = {1, 2}
    MousePeriods = {2}
    DrawTimes = {0, 2}
    MpuPeriod = 2
    MpuUsed = TRUE
    Drawers = {"slave"}
    LongestStep = 1
    MaxCycle = 6
    Never = 99
CHECK_DEADLOCK FALSE
INVARIANTS
    MpuOnTime

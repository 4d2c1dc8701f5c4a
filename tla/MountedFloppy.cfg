SPECIFICATION FloppySpec
CONSTANTS
    FloppySectors = {1, 2}
    Offsets = {0, 1, 2, 3, 4, 5, 6}
    Values = {0, 1}
    Shapes = {0, 1, 2}
    Representable = {0, 1}
    Fill = 0
    Copies = 1
    Faults = {"write", "seek", "replace", "open", "reopen"}
    Modes = {"file", "unwritable", "ram", "readonly"}
    None = None
INVARIANTS FloppyFileIsRecent FloppyFlushIsHonest

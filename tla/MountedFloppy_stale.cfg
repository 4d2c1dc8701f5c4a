SPECIFICATION FloppySpec
CONSTANTS
    FloppySectors = {1, 2}
    Offsets = {0, 1, 2, 3, 4}
    Values = {0, 1, 2}
    Shapes = {0, 1}
    Fill = 0
    Copies = 0
    Representable = {0, 1}
    Faults = {"replace", "reopen"}
    Modes = {"file"}
    None = None
INVARIANTS OffsetsStayValid

SPECIFICATION Spec
CONSTANTS
    SynthStates = 1
    Synth <- MCSynth
    Synth0 = 0
    Midi = {0}
    Advance <- MCAdvance
    None = None
    CommandCapacity = 2
    ResponseCapacity = 2
    Late = TRUE
    Panics = TRUE
INVARIANTS TypeOK BuffersAccounted CaptureFindsBuffers NoSendDeadlock
PROPERTIES CallsReturn DropReturns
CHECK_DEADLOCK FALSE

SPECIFICATION Spec
CONSTANTS
    SynthStates = 3
    Synth <- MCSynth
    Synth0 = 0
    Midi = {1}
    Advance <- MCAdvance
    None = None
    CommandCapacity = 2
    ResponseCapacity = 2
    Late = TRUE
    Panics = FALSE
INVARIANT OkMeansAnswered
CHECK_DEADLOCK FALSE

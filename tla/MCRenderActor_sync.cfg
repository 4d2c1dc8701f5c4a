SPECIFICATION Spec
CONSTANTS
    SynthStates = 4
    Synth <- MCSynth
    Synth0 = 0
    Midi = {1, 2}
    Advance <- MCAdvance
    None = None
    CommandCapacity = 2
    ResponseCapacity = 2
    Late = FALSE
    Panics = FALSE
INVARIANTS SnapshotCoherent OkMeansAnswered
PROPERTIES ImplementsService

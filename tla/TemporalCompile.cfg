SPECIFICATION TimelineSpec
CONSTANTS
    Inputs <- MCInputs
    MaxFrame <- MCMaxFrame
    MaxRatePart <- MCMaxRatePart
    NoPlan = NoPlan
    Canvas = 4
    SampleRate = 3
    Search = 2
    Microfade = 2
    LongFade = 4
INVARIANTS
    DivergenceIsReal
    GroupsTileSentences
    NothingIsLeftOut
    SpansNest
    PictureFits
    AudioNeverPilesUp
CHECK_DEADLOCK FALSE

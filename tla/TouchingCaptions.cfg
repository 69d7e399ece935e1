SPECIFICATION TimelineSpec
CONSTANTS
    Inputs <- MCPreviews
    MaxFrame <- MCMaxFrame
    MaxRatePart <- MCMaxRatePart
    NoPlan = NoPlan
    Canvas = 4
    SampleRate = 3
    Search = 2
    Microfade = 2
    LongFade = 4
INVARIANT PreviewIsReported
CHECK_DEADLOCK FALSE

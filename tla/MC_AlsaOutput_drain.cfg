CONSTANTS
    BufferFrames = 4
    PeriodSizes <- MCPeriodSizes
    MaxChunk = 3
    MaxFrames = 7
    MaxFaults = 1
    Dop = TRUE
SPECIFICATION Spec

INVARIANT DrainPlaysAll

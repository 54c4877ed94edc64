SPECIFICATION Spec
CONSTANTS
    Interval = 2
    MaxGap = 7
    Scale = 100
    NaN = NaN
    MinStdev = 50
    MinRss = 10000
    TruncateAbove = 10
    AutoStdev = 20
    ConfidentDuration = 6
    Window = 2
    MinSegmentLength = 2
    ChangeRatio = 5
    Width = 7
    Inputs <- MCInputs
    FreedBlocks <- MCFreedBlocks
INVARIANTS
    NoThirdStart
    SegmentsTile
    NeverBreaksTwice
    DurationsAddUp
    ConfidentIsMeasured
CHECK_DEADLOCK FALSE

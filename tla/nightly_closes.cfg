\* A split after the import, which the first run applies to the older closes.
SPECIFICATION Spec
CONSTANTS
    spy = spy
    goog = goog
    Ticker = {spy, goog}
    Benchmark = spy
    Stock = {goog}
    Sorted <- Alphabet
    Inflated = {goog}
    ImportDay = 2
    LastDay = 4
    SplitDays <- LaterSplits
    GapDays <- NoGaps
    History = 9
    Window = 4
    SplitGaps = FALSE
PROPERTIES
    ClosesStayAdjusted

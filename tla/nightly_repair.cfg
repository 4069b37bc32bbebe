\* A workbook stock that was never inflated splits after the import.
SPECIFICATION Spec
CONSTANTS
    spy = spy
    goog = goog
    Ticker = {spy, goog}
    Benchmark = spy
    Stock = {goog}
    Sorted <- Alphabet
    Inflated = {}
    ImportDay = 2
    LastDay = 4
    SplitDays <- LaterSplits
    GapDays <- NoGaps
    History = 9
    Window = 4
    SplitGaps = FALSE
PROPERTIES
    RepairOnlyInflated

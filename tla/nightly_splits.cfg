\* An index ETF and a stock that was inflated, over two sessions after the import.
\* Runs fail, are cancelled, repeated or backfill; the stock is sold and bought again.
SPECIFICATION Spec
CONSTANTS
    spy = spy
    goog = goog
    Ticker = {spy, goog}
    Benchmark = spy
    Stock = {goog}
    Sorted <- Alphabet
    Inflated = {goog}
    ImportDay = 2
    LastDay = 4
    SplitDays <- Splits
    GapDays <- Gaps
    History = 9
    Window = 2
    SplitGaps = FALSE
INVARIANTS
    TypeOK
    SplitsCountedOnce
    ClosesNotOverAdjusted
    AsOfIsFresh
PROPERTIES
    RepairOnlyInflated

--------------------------- MODULE NightlyRefresh ---------------------------
(***************************************************************************)
(* The nightly job (.github/workflows/refresh.yml): the repair of holdings *)
(* that an older refresh had inflated, then the refresh of prices and      *)
(* holdings in one transaction, while admins buy and sell.                 *)
(*                                                                         *)
(* Every split is 2:1.  A number of shares or a price is represented by    *)
(* its scale: how many of the ticker's splits it takes into account.  What *)
(* a company split by day d is worth is stated on scale Scale(t, d).       *)
(***************************************************************************)
EXTENDS Integers, FiniteSets, Sequences, FiniteSetsExt

CONSTANTS
    Ticker,
    Benchmark,   \* the ticker of the funds' benchmark, always refreshed
    Stock,       \* the tickers that are stocks, the others are index ETFs
    Sorted,      \* the tickers in the order in which they are refreshed
    Inflated,    \* positions whose splits an older refresh had counted twice
    ImportDay,   \* import_date
    LastDay,     \* bound on the calendar
    SplitDays,   \* SplitDays[t]: bound on the days on which t may split
    GapDays,     \* GapDays[t]: bound on the days whose close may be missing
    History,     \* history_years, in days
    Window,      \* the trailing days that are downloaded again
    SplitGaps    \* TRUE: the provider may lack the close of the day of a split

ASSUME TickersAssumption ==
    /\ Benchmark \in Ticker \ Stock /\ Stock \subseteq Ticker
    /\ Inflated \subseteq Stock
    /\ Sorted \in Seq(Ticker) /\ \A t \in Ticker : \E i \in DOMAIN Sorted : Sorted[i] = t
ASSUME DaysAssumption ==
    /\ ImportDay \in Nat \ {0} /\ LastDay \in Nat /\ ImportDay <= LastDay
    /\ {SplitDays, GapDays} \subseteq [Ticker -> SUBSET (1..LastDay)]
    /\ History \in Nat /\ Window \in Nat
    /\ SplitGaps \in BOOLEAN

Day == 1..(LastDay + 1)

VARIABLES
    day,      \* the last closed session
    hour,     \* in the session after it, in the night before, or earlier
    split,    \* split[t]: the days on which t splits
    gap,      \* gap[t]: the days whose close the provider does not have
    workbook, \* the tickers of the positions of the source workbook
    holding,  \* the holdings table
    price,    \* price[t][d]: the scale of the close of day d in the prices table
    marker,   \* import_meta: the positions that were repaired
    stamp,    \* import_meta: the day of last_refresh
    job       \* the nightly job

history == <<split, gap, workbook>>
world == <<hour, history>>
vars == <<day, world, holding, price, marker, stamp, job>>

NoClose == -1
Never == 0
Scale(t, d) == Cardinality({s \in split[t] : s <= d})

(* The UTC date: that of the next session from midnight on, a weekend is    *)
(* part of the evening before.                                              *)
Today == IF hour = "evening" THEN day ELSE day + 1

(* since: the session as of which the shares were counted when they were    *)
(* entered, which the table does not have.                                  *)
NotHeld == [held |-> FALSE]
Position(entry, since, scale, bench, traded) ==
    [held |-> TRUE, entry |-> entry, since |-> since, scale |-> scale, bench |-> bench, traded |-> traded]
Held(t) == holding[t].held

(* MAX(date) of the stored closes of a ticker, Never if there is none. *)
Last(t) == Max({Never} \cup {d \in Day : price[t][d] # NoClose})

NoJob == [stage |-> "idle"]
Repaired == [stage |-> "repaired"]

(* The workbook was just imported into an empty store.  Its positions were *)
(* bought before the import, or at no known date.                          *)
Init ==
    /\ day = ImportDay /\ hour = "evening"
    /\ split \in {f \in [Ticker -> SUBSET Day] : \A t \in Ticker : f[t] \subseteq SplitDays[t]}
    /\ gap \in {f \in [Ticker -> SUBSET Day] : \A t \in Ticker : f[t] \subseteq GapDays[t]}
    /\ SplitGaps \/ \A t \in Ticker : gap[t] \cap split[t] = {}
    /\ workbook \in {w \in SUBSET Ticker : Benchmark \in w}
    /\ holding = [t \in Ticker |->
         IF t \in workbook
         THEN Position(Never, Never,
                       Scale(t, ImportDay) + (IF t \in Inflated THEN 1 ELSE 0),
                       IF t \in Stock THEN Scale(Benchmark, ImportDay) ELSE 0, FALSE)
         ELSE NotHeld]
    /\ price = [t \in Ticker |-> [d \in Day |-> NoClose]]
    /\ marker = {}
    /\ stamp = Never
    /\ job = NoJob

-----------------------------------------------------------------------------
(* repair_split_inflation --apply: a stock of the workbook, not repaired    *)
(* before, whose shares are a whole multiple of the workbook's at the same  *)
(* cost basis, gets the workbook's numbers back.  A traded position has     *)
(* another cost basis.                                                      *)
SuspectTwice(t) ==
    /\ t \in workbook \cap Stock /\ Held(t)
    /\ ~holding[t].traded
    /\ holding[t].scale > Scale(t, ImportDay)
SuspectAnyKind(t) ==
    /\ t \in workbook \ marker /\ Held(t)
    /\ ~holding[t].traded
    /\ holding[t].scale > Scale(t, ImportDay)
Suspect(t) ==
    /\ t \in (workbook \cap Stock) \ marker /\ Held(t)
    /\ ~holding[t].traded
    /\ holding[t].scale > Scale(t, ImportDay)

Repair ==
    /\ job = NoJob
    /\ holding' = [t \in Ticker |->
         IF Suspect(t) THEN [holding[t] EXCEPT !.scale = Scale(t, ImportDay)] ELSE holding[t]]
    /\ marker' = marker \cup {t \in Ticker : Suspect(t)}
    /\ job' = Repaired
    /\ UNCHANGED <<day, world, price, stamp>>

-----------------------------------------------------------------------------
Universe == {t \in Ticker : Held(t)} \cup {Benchmark}

(* The first day to download: a backfill takes the whole history.           *)
Start(t, full) ==
    LET default == Max({1, day - History})
    IN  IF full \/ Last(t) = Never THEN default
        ELSE Max({default, Last(t) - Window})

(* refresh() reads the universe and the last date of every ticker.          *)
Begin ==
    /\ job = Repaired
    /\ \E full \in BOOLEAN :
        job' = [stage |-> "fetching", todo |-> Universe, failed |-> {},
                last |-> [t \in Ticker |-> Last(t)],
                start |-> [t \in Ticker |-> Start(t, full)],
                rows |-> [t \in Ticker |-> [d \in Day |-> NoClose]],
                new |-> [t \in Ticker |-> {}]]
    /\ UNCHANGED <<day, world, holding, price, marker, stamp>>

(* What the provider has: closed sessions only. *)
Downloaded(t) == {d \in Day \ gap[t] : job.start[t] <= d /\ d <= day}

(* The splits to apply: those after the last stored close and the import.   *)
BoundaryWithoutImport(t) == job.last[t]
BoundaryInclusive(t) == Max({job.last[t], ImportDay}) - 1
Boundary(t) == Max({job.last[t], ImportDay})
NewSplits(t) == {s \in split[t] : job.start[t] <= s /\ s <= day /\ s > Boundary(t)}

(* The tickers are fetched one after the other, in their order. *)
Turn(t) ==
    /\ job.stage = "fetching" /\ t \in job.todo
    /\ \E i \in DOMAIN Sorted : Sorted[i] = t /\ \A j \in 1..(i - 1) : Sorted[j] \notin job.todo

Raw(t, d) == IF d \in Downloaded(t) THEN Scale(t, d) ELSE price[t][d]

(* The closes are upserted as downloaded, then the older ones adjusted.     *)
Fetch(t) ==
    /\ Turn(t)
    /\ Downloaded(t) # {}
    /\ job' = [job EXCEPT
         !.todo = @ \ {t},
         !.new[t] = NewSplits(t),
         !.rows[t] = [d \in Day |->
             IF Raw(t, d) = NoClose THEN NoClose
             ELSE Raw(t, d) + Cardinality({s \in NewSplits(t) : d < s})]]
    /\ UNCHANGED <<day, world, holding, price, marker, stamp>>

(* The provider answers nothing, after its retries. *)
FetchFails(t) ==
    /\ Turn(t)
    /\ job' = [job EXCEPT !.todo = @ \ {t}, !.failed = @ \cup {t}]
    /\ UNCHANGED <<day, world, holding, price, marker, stamp>>

SplitsAfter(s, entry) == Cardinality({x \in s : entry < x})

(* An index ETF has no benchmark entry price. *)
AdjustedRegardless(t) ==
    [holding[t] EXCEPT
        !.scale = @ + Cardinality(job.new[t]),
        !.bench = @ + IF t \in Stock THEN Cardinality(job.new[Benchmark]) ELSE 0]
Adjusted(t) ==
    [holding[t] EXCEPT
        !.scale = @ + SplitsAfter(job.new[t], holding[t].entry),
        !.bench = @ + IF t \in Stock THEN SplitsAfter(job.new[Benchmark], holding[t].entry) ELSE 0]

StampedAnyway == day
Stamped == IF job.failed = {} THEN day ELSE stamp

(* The end of the transaction.  last_refresh is only set by a full run.     *)
Commit ==
    /\ job.stage = "fetching" /\ job.todo = {}
    /\ holding' = [t \in Ticker |-> IF Held(t) THEN Adjusted(t) ELSE NotHeld]
    /\ price' = [t \in Ticker |-> [d \in Day |->
         IF job.rows[t][d] # NoClose THEN job.rows[t][d] ELSE price[t][d]]]
    /\ stamp' = Stamped
    /\ job' = NoJob
    /\ UNCHANGED <<day, world, marker>>

(* The job is cancelled, times out or raises: the transaction is undone. *)
Abort ==
    /\ job # NoJob
    /\ job' = NoJob
    /\ UNCHANGED <<day, world, holding, price, marker, stamp>>

-----------------------------------------------------------------------------
(* The transaction holds the rows it has changed. *)
Locked(t) ==
    /\ job.stage = "fetching"
    /\ Held(t)
    /\ SplitsAfter(job.new[t] \cup job.new[Benchmark], holding[t].entry) > 0

(* The latest stored close, or else the price in the workbook. *)
LatestBenchmark ==
    IF Last(Benchmark) = Never THEN Scale(Benchmark, ImportDay) ELSE price[Benchmark][Last(Benchmark)]

(* A purchase of shares as they are traded in session d, entered at the     *)
(* date of today.  A ticker without any price gets the price paid as its    *)
(* first close, at that date.                                               *)
BuyNew(t, d) ==
    /\ t \in Stock /\ ~Held(t)
    /\ holding' = [holding EXCEPT ![t] = Position(Today, d, Scale(t, d), LatestBenchmark, TRUE)]
    /\ price' = IF Last(t) = Never /\ t \notin workbook
                THEN [price EXCEPT ![t][Today] = Scale(t, d)] ELSE price
    /\ UNCHANGED <<day, world, marker, stamp, job>>

BuyDuringSession(t) == hour = "session" /\ BuyNew(t, day + 1)
BuyAfterClose(t) == hour # "session" /\ BuyNew(t, day)

SellAll(t) ==
    /\ t \in Stock /\ Held(t) /\ ~Locked(t)
    /\ holding' = [holding EXCEPT ![t] = NotHeld]
    /\ UNCHANGED <<day, world, price, marker, stamp, job>>

UtcMidnight ==
    /\ hour = "evening" /\ hour' = "night"
    /\ UNCHANGED <<day, history, holding, price, marker, stamp, job>>

SessionOpens ==
    /\ hour = "night" /\ hour' = "session"
    /\ UNCHANGED <<day, history, holding, price, marker, stamp, job>>

(* A job is over before the session closes: it starts at 06:00 UTC and has  *)
(* thirty minutes.                                                          *)
SessionCloses ==
    /\ hour = "session" /\ day < LastDay
    /\ job = NoJob
    /\ day' = day + 1 /\ hour' = "evening"
    /\ UNCHANGED <<history, holding, price, marker, stamp, job>>

Next ==
    \/ Repair \/ Begin \/ Commit \/ Abort
    \/ \E t \in Ticker :
        \/ Fetch(t) \/ FetchFails(t)
        \/ BuyDuringSession(t) \/ BuyAfterClose(t) \/ SellAll(t)
    \/ UtcMidnight \/ SessionOpens \/ SessionCloses

Spec == Init /\ [][Next]_vars

-----------------------------------------------------------------------------
Closes == [Day -> Nat \cup {NoClose}]
Run == [stage : {"fetching"}, todo : SUBSET Ticker, failed : SUBSET Ticker,
        start : [Ticker -> Day], last : [Ticker -> Day \cup {Never}],
        rows : [Ticker -> Closes], new : [Ticker -> SUBSET Day]]

(* Types of the calendar, the tables and the job. *)
TypeOK ==
    /\ day \in ImportDay..LastDay /\ hour \in {"evening", "night", "session"}
    /\ split \in [Ticker -> SUBSET Day] /\ gap \in [Ticker -> SUBSET Day]
    /\ workbook \subseteq Ticker
    /\ holding \in [Ticker -> {NotHeld} \cup
         [held : {TRUE}, entry : Day \cup {Never}, since : Day \cup {Never}, scale : Nat, bench : Nat, traded : BOOLEAN]]
    /\ price \in [Ticker -> Closes]
    /\ marker \subseteq workbook \cap Stock
    /\ stamp \in Day \cup {Never}
    /\ job \in {NoJob, Repaired} \cup Run

(* What a position should take into account: the splits up to the last      *)
(* stored close, the import and the purchase.                               *)
Seen(t) == Max({Last(t), ImportDay, holding[t].entry})

AwaitsRepair(t) == t \in Inflated \ marker /\ ~holding[t].traded

(* The splits that took effect after the shares were counted, but not after *)
(* the date of the entry: that of the session after a purchase that was     *)
(* entered past midnight UTC (trades.py:71).                                *)
Missed(t) == {s \in split[t] : holding[t].since < s /\ s <= holding[t].entry}

(* Shares and entry prices are split-adjusted (schema.py:38): whatever runs *)
(* fail, are repeated or backfill everything, and whenever positions were   *)
(* bought, a position counts each split since its purchase or the import    *)
(* once, but for those it missed, which the refresh takes for earlier than  *)
(* the purchase (refresh.py:94) and never makes up for.  The benchmark's    *)
(* entry price of a workbook position counts each once.                     *)
SplitsCountedOnce ==
    \A t \in Ticker : Held(t) =>
        /\ holding[t].scale + Cardinality(Missed(t))
              = Scale(t, Seen(t)) + (IF AwaitsRepair(t) THEN 1 ELSE 0)
        /\ t \in Stock /\ ~holding[t].traded =>
              holding[t].bench = Scale(Benchmark, Max({Last(Benchmark), ImportDay}))

(* No close is adjusted for the same split twice ("each split adjusts       *)
(* once", refresh.py:114) or for one after the data of its ticker.          *)
ClosesNotOverAdjusted ==
    \A t \in Ticker, d \in Day : price[t][d] <= Scale(t, Last(t))

(* last_refresh marks the last fully successful run (refresh.py:137-140):   *)
(* every position that was there has the close of that day, unless the      *)
(* provider has none.                                                       *)
AsOfIsFresh ==
    stamp # Never =>
        \A t \in Ticker \ {u \in Ticker : stamp \in gap[u]} :
            Held(t) /\ holding[t].entry < stamp => price[t][stamp] # NoClose

(* The repair corrects positions that were multiplied by splits already     *)
(* reflected in the workbook (refresh.yml:59-61): it changes no position    *)
(* that counts no split twice.                                              *)
RepairOnlyInflated ==
    [][job = NoJob /\ job' = Repaired =>
         \A t \in Ticker : holding'[t] # holding[t] =>
             holding[t].scale > Scale(t, Seen(t))]_vars

(* The refresh brings "pre-split closes onto the post-split scale ... so    *)
(* each split adjusts once" (refresh.py:112-114): a close that was adjusted *)
(* for a split is not put back on the scale before it.                      *)
ClosesStayAdjusted ==
    [][\A t \in Ticker, d \in Day : price'[t][d] >= price[t][d]]_vars
=============================================================================

------------------------ MODULE NightlyRefreshProofs ------------------------
(***************************************************************************)
(* Proofs about NightlyRefresh for every calendar, set of tickers, history *)
(* of splits and missing closes, and every order of nights and trades.     *)
(***************************************************************************)
EXTENDS NightlyRefresh, FiniteSetTheorems, WellFoundedInduction, TLAPS

(* The repair takes a stock that was never inflated for an inflated one as  *)
(* soon as it has split after the import (nightly_repair shows it): what is *)
(* proved of positions excludes it.                                         *)
NoneMistaken == \A t \in Stock \ Inflated : SplitDays[t] \subseteq 1..ImportDay

(* A night downloads everything since the import.                           *)
HistoryCovers == LastDay <= ImportDay + History + 1

-----------------------------------------------------------------------------
Hours == {"evening", "night", "session"}
Later(a, b) == IF a < b THEN b ELSE a
LastOf(closes) == Max({Never} \cup {d \in Day : closes[d] # NoClose})

(* What never changes. *)
HistoryOK ==
    /\ Benchmark \in workbook
    /\ \A t \in Ticker :
        /\ split[t] \subseteq SplitDays[t]
        /\ SplitGaps \/ gap[t] \cap split[t] = {}

(* A position that was not bought is the workbook's; one that was bought    *)
(* has a close.                                                             *)
PositionOK(t) ==
    /\ holding[t].entry <= Today
    /\ ~holding[t].traded => t \in workbook /\ holding[t].entry = Never
    /\ t \in workbook \/ Last(t) # Never

(* A position is repaired before anything is fetched for it. *)
RepairedFirst ==
    \A t \in Ticker : Held(t) /\ AwaitsRepair(t) => job = NoJob /\ Last(t) = Never

Base ==
    /\ TypeOK /\ HistoryOK
    /\ \A t \in Ticker : Last(t) <= Today /\ (Held(t) => PositionOK(t))

(* The closes of t as they will be when the job commits. *)
Resulting(t) == [d \in Day |-> IF job.rows[t][d] # NoClose THEN job.rows[t][d] ELSE price[t][d]]
NextLast(t) == LastOf(Resulting(t))
Fetched(t) == \E d \in Day : job.rows[t][d] # NoClose

(* The job remembers what it read, which nobody has changed since. *)
ReadOK(t) ==
    /\ t \in job.todo \/ Fetched(t) => t \in workbook \/ Last(t) # Never
    /\ t \in job.todo =>
        /\ ~Fetched(t) /\ job.new[t] = {}
        /\ job.last[t] = Last(t)
        /\ HistoryCovers => job.start[t] <= Later(Last(t), ImportDay) + 1
    /\ NextLast(t) <= Today

(* The splits it will apply are those that the new closes reveal.           *)
NewOK(t) ==
    job.new[t] = {s \in split[t] : /\ Later(Last(t), ImportDay) < s
                                   /\ s <= Later(NextLast(t), ImportDay)}

ResultOK(t) == \A d \in Day : Resulting(t)[d] <= Scale(t, NextLast(t))

Fetching == job.stage = "fetching"
JobOK == Fetching => \A t \in Ticker : ReadOK(t)

(* Whoever was held when the job began is fetched or has failed. *)
FreshOK ==
    Fetching => \A t \in Ticker :
        Held(t) /\ holding[t].entry < day /\ day \notin gap[t] =>
            t \in job.todo \cup job.failed \/ job.rows[t][day] # NoClose

FreshInv == Base /\ JobOK /\ FreshOK /\ stamp <= day /\ AsOfIsFresh
ClosesInv == Base /\ JobOK /\ ClosesNotOverAdjusted /\ (Fetching => \A t \in Ticker : ResultOK(t))
SplitsInv ==
    /\ Base /\ JobOK /\ RepairedFirst /\ SplitsCountedOnce
    /\ Fetching => \A t \in Ticker : NewOK(t)

-----------------------------------------------------------------------------
(* A bounded, nonempty set of integers has a greatest element: the smallest *)
(* distance to the bound.                                                   *)
Below == {p \in Nat \X Nat : p[1] < p[2]}

LEMMA BelowIsWellFounded == IsWellFoundedOn(Below, Nat)
<1>1. OpToRel(<, Nat) = Below
  BY DEF OpToRel, Below
<1> QED
  BY <1>1, NatLessThanWellFounded

LEMMA MaxOf ==
  ASSUME NEW S \in SUBSET Int, S # {}, NEW b \in Int, \A x \in S : x <= b
  PROVE  Max(S) \in S /\ \A y \in S : y <= Max(S)
<1> DEFINE T == {b - x : x \in S}
<1>1. \A x \in S : b - x \in Nat
  OBVIOUS
<1>2. T \subseteq Nat /\ T # {}
  BY <1>1
<1>3. PICK m \in T : \A n \in T : <<n, m>> \notin Below
  BY <1>2, BelowIsWellFounded, WFMin
<1>4. PICK x \in S : m = b - x
  OBVIOUS
<1>5. ASSUME NEW y \in S  PROVE x >= y
  <2>1. b - y \in T /\ b - y \in Nat /\ m \in Nat
    BY <1>1
  <2>2. ~ (b - y < m)
    BY <1>3, <2>1 DEF Below
  <2> QED
    BY <1>4, <2>2
<1> QED
  BY <1>5 DEF Max

(* The later of two days ... *)
LEMMA MaxOfTwo ==
  ASSUME NEW a \in Int, NEW b \in Int
  PROVE  Max({a, b}) = Later(a, b)
<1>1. Max({a, b}) \in {a, b} /\ \A y \in {a, b} : y <= Max({a, b})
  <2>1. Later(a, b) \in Int /\ \A y \in {a, b} : y <= Later(a, b)
    BY DEF Later
  <2> QED
    BY <2>1, MaxOf
<1> QED
  BY <1>1 DEF Later

(* ... or of three. *)
LEMMA MaxOfThree ==
  ASSUME NEW a \in Int, NEW b \in Int, NEW c \in Int
  PROVE  Max({a, b, c}) = Later(Later(a, b), c)
<1> DEFINE m == Later(Later(a, b), c)
<1>1. m \in {a, b, c} /\ \A y \in {a, b, c} : y <= m
  BY DEF Later
<1>2. Max({a, b, c}) \in {a, b, c} /\ \A y \in {a, b, c} : y <= Max({a, b, c})
  <2> HIDE DEF m
  <2> QED
    BY <1>1, MaxOf
<1> QED
  BY <1>1, <1>2

(* The last stored close of a table. *)
LEMMA LastClose ==
  ASSUME NEW c \in Closes
  PROVE  /\ LastOf(c) \in Day \cup {Never} /\ LastOf(c) \in Int
         /\ LastOf(c) # Never => c[LastOf(c)] # NoClose
         /\ \A d \in Day : c[d] # NoClose => d <= LastOf(c)
<1> DEFINE S == {Never} \cup {d \in Day : c[d] # NoClose}
<1>1. S \in SUBSET Int /\ S # {} /\ LastDay + 1 \in Int /\ \A x \in S : x <= LastDay + 1
  BY DaysAssumption DEF Day, Never
<1>2. Max(S) \in S /\ \A y \in S : y <= Max(S)
  <2> HIDE DEF S
  <2> QED
    BY <1>1, MaxOf
<1> QED
  BY <1>1, <1>2 DEF LastOf

(* The last stored close is that of the table of prices. *)
LEMMA LastStored == \A t \in Ticker : Last(t) = LastOf(price[t])
  BY DEF Last, LastOf

(* Closes that are added make the last one later. *)
LEMMA LastGrows ==
  ASSUME NEW b \in Closes, NEW c \in Closes, \A d \in Day : b[d] # NoClose => c[d] # NoClose
  PROVE  LastOf(b) <= LastOf(c)
<1>1. CASE LastOf(b) = Never
  BY <1>1, LastClose DEF Day, Never
<1>2. CASE LastOf(b) # Never
  <2>1. LastOf(b) \in Day /\ c[LastOf(b)] # NoClose
    BY <1>2, LastClose
  <2> QED
    BY <2>1, LastClose
<1> QED
  BY <1>1, <1>2

-----------------------------------------------------------------------------
(* Sets of days are finite, and counted by parts. *)
LEMMA DaysFinite ==
  ASSUME NEW S \in SUBSET Day
  PROVE  IsFiniteSet(S) /\ Cardinality(S) \in Nat
<1>1. IsFiniteSet(Day)
  BY DaysAssumption, FS_Interval DEF Day
<1> QED
  BY <1>1, FS_Subset, FS_CardinalityType

(* Disjoint sets of days are counted one after the other, ... *)
LEMMA CountedByParts ==
  ASSUME NEW A \in SUBSET Day, NEW B \in SUBSET Day, A \cap B = {}
  PROVE  Cardinality(A \cup B) = Cardinality(A) + Cardinality(B)
<1>1. Cardinality(A \cap B) = 0
  BY FS_EmptySet
<1>2. Cardinality(A \cup B) = Cardinality(A) + Cardinality(B) - Cardinality(A \cap B)
  BY DaysFinite, FS_Union
<1> QED
  BY <1>1, <1>2, DaysFinite

(* ... and a part has no more days than the whole. *)
LEMMA CountedWithin ==
  ASSUME NEW C \in SUBSET Day, NEW A \in SUBSET C
  PROVE  Cardinality(A) \in Nat /\ Cardinality(A) <= Cardinality(C)
  BY DaysFinite, FS_Subset

(* A scale grows with its day by the splits in between. *)
LEMMA ScaleGrows ==
  ASSUME TypeOK, NEW t \in Ticker, NEW a \in Int, NEW b \in Int, a <= b
  PROVE  /\ Scale(t, a) \in Nat /\ Scale(t, b) \in Nat /\ Scale(t, a) <= Scale(t, b)
         /\ \A N : N = {s \in split[t] : a < s /\ s <= b} =>
               /\ N \in SUBSET Day /\ Cardinality(N) \in Nat
               /\ Scale(t, b) = Scale(t, a) + Cardinality(N)
<1> DEFINE A == {s \in split[t] : s <= a}
           B == {s \in split[t] : s <= b}
           M == {s \in split[t] : a < s /\ s <= b}
<1>1. split[t] \in SUBSET Day
  BY DEF TypeOK
<1>2. A \in SUBSET Day /\ B \in SUBSET Day /\ M \in SUBSET Day /\ A \cap M = {} /\ B = A \cup M
  BY <1>1, DaysAssumption DEF Day
<1>3. /\ Cardinality(B) = Cardinality(A) + Cardinality(M)
      /\ Cardinality(A) \in Nat /\ Cardinality(B) \in Nat /\ Cardinality(M) \in Nat
  <2> HIDE DEF A, B, M
  <2> QED
    BY <1>2, CountedByParts, DaysFinite
<1>4. Scale(t, a) = Cardinality(A) /\ Scale(t, b) = Cardinality(B)
  BY DEF Scale
<1>5. ASSUME NEW N, N = {s \in split[t] : a < s /\ s <= b}
      PROVE  N \in SUBSET Day /\ Cardinality(N) \in Nat /\ Scale(t, b) = Scale(t, a) + Cardinality(N)
  <2>1. N = M
    BY <1>5
  <2> QED
    BY <1>2, <1>3, <1>4, <2>1
<1>6. Scale(t, a) \in Nat /\ Scale(t, b) \in Nat /\ Scale(t, a) <= Scale(t, b)
  <2> HIDE DEF A, B, M
  <2> QED
    BY <1>3, <1>4
<1> HIDE DEF A, B, M
<1> QED
  BY <1>5, <1>6, Zenon

-----------------------------------------------------------------------------
(* The calendar. *)
LEMMA Calendar ==
  ASSUME TypeOK
  PROVE  /\ day \in Day /\ day \in Int /\ Today \in Day /\ Today \in Int
         /\ ImportDay \in Day /\ ImportDay \in Int /\ ImportDay <= day /\ day <= Today
         /\ Never \in Int /\ \A d \in Day : d \in Int /\ Never < d
  BY DaysAssumption DEF TypeOK, Day, Today, Never

Positions == [held : {TRUE}, entry : Day \cup {Never}, since : Day \cup {Never},
              scale : Nat, bench : Nat, traded : BOOLEAN]

(* What a position and the last stored close of a ticker can be. *)
LEMMA PositionFields ==
  ASSUME TypeOK, NEW t \in Ticker
  PROVE  /\ holding[t] \in {NotHeld} \cup Positions
         /\ Held(t) => /\ holding[t] \in Positions
                       /\ holding[t].entry \in Day \cup {Never} /\ holding[t].entry \in Int
                       /\ holding[t].scale \in Nat /\ holding[t].bench \in Nat
                       /\ holding[t].traded \in BOOLEAN
         /\ Last(t) \in Day \cup {Never} /\ Last(t) \in Int
<1>1. holding[t] \in {NotHeld} \cup Positions
  BY DEF TypeOK, Positions
<1>2. Last(t) \in Day \cup {Never} /\ Last(t) \in Int
  <2>1. price[t] \in Closes
    BY DEF TypeOK
  <2> QED
    BY <2>1, LastClose, LastStored
<1>3. ASSUME Held(t)  PROVE holding[t] \in Positions
  BY <1>1, <1>3 DEF Held, NotHeld
<1>4. \A d \in Day \cup {Never} : d \in Int
  BY Calendar
<1> QED
  BY <1>1, <1>2, <1>3, <1>4 DEF Positions

(* What the job knows while it fetches. *)
LEMMA RunFields ==
  ASSUME TypeOK, Fetching
  PROVE  /\ job \in Run /\ job.todo \in SUBSET Ticker /\ job.failed \in SUBSET Ticker
         /\ \A t \in Ticker : /\ job.rows[t] \in Closes /\ job.new[t] \in SUBSET Day
                             /\ job.start[t] \in Day
                             /\ job.last[t] \in Day \cup {Never} /\ job.last[t] \in Int
<1>1. job \in Run
  BY DEF TypeOK, Fetching, NoJob, Repaired
<1> QED
  BY <1>1, Calendar DEF Run

(* Every step is one of these; a purchase is of the last session or of the  *)
(* one that is open.                                                        *)
Clock == UtcMidnight \/ SessionOpens \/ SessionCloses
Buy(t) == \E bought \in {day, Today} : BuyNew(t, bought)

LEMMA Steps ==
  ASSUME TypeOK, [Next]_vars
  PROVE  \/ Clock \/ Repair \/ Begin \/ Commit \/ Abort \/ UNCHANGED vars
         \/ \E t \in Ticker : Fetch(t) \/ FetchFails(t) \/ Buy(t) \/ SellAll(t)
<1>1. ASSUME NEW t \in Ticker, BuyDuringSession(t) \/ BuyAfterClose(t)
      PROVE  Buy(t)
  <2>1. CASE BuyDuringSession(t)
    <3>1. BuyNew(t, day + 1) /\ Today = day + 1
      BY <2>1 DEF BuyDuringSession, Today
    <3>2. BuyNew(t, Today)
      BY <3>1
    <3> QED
      BY <3>2 DEF Buy
  <2>2. CASE BuyAfterClose(t)
    BY <2>2 DEF BuyAfterClose, Buy
  <2> QED
    BY <1>1, <2>1, <2>2
<1> QED
  BY <1>1 DEF Next, Clock

(* The clock moves no table, and no session closes while the job runs. *)
LEMMA ClockMoves ==
  ASSUME TypeOK, Clock
  PROVE  /\ UNCHANGED <<history, holding, price, marker, stamp, job>>
         /\ day' \in ImportDay..LastDay /\ hour' \in Hours
         /\ day <= day' /\ Today <= Today'
         /\ day' = day \/ job = NoJob
<1>1. CASE UtcMidnight \/ SessionOpens
  <2>1. /\ UNCHANGED <<day, history, holding, price, marker, stamp, job>>
        /\ \/ hour = "evening" /\ hour' = "night"
           \/ hour = "night" /\ hour' = "session"
    BY <1>1 DEF UtcMidnight, SessionOpens
  <2>2. day \in ImportDay..LastDay /\ day \in Int
    BY Calendar DEF TypeOK
  <2>3. Today <= Today'
    BY <2>1, <2>2 DEF Today
  <2> QED
    BY <2>1, <2>2, <2>3 DEF Hours
<1>2. CASE SessionCloses
  <2>1. /\ UNCHANGED <<history, holding, price, marker, stamp, job>> /\ job = NoJob
        /\ hour = "session" /\ hour' = "evening" /\ day' = day + 1 /\ day < LastDay
    BY <1>2 DEF SessionCloses
  <2>2. Today = day + 1 /\ Today' = day'
    BY <2>1, Calendar DEF Today, TypeOK
  <2>3. day \in ImportDay..LastDay /\ ImportDay \in Int /\ LastDay \in Int
    BY DaysAssumption DEF TypeOK
  <2>4. day' \in ImportDay..LastDay /\ day <= day' /\ Today <= Today'
    <3>1. /\ day' = day + 1 /\ day < LastDay /\ Today = day + 1 /\ Today' = day'
      BY <2>1, <2>2
    <3> QED
      BY <2>3, <3>1
  <2>5. hour' \in Hours
    BY <2>1 DEF Hours
  <2> QED
    BY <2>1, <2>4, <2>5
<1> QED
  BY <1>1, <1>2 DEF Clock

-----------------------------------------------------------------------------
(* Types. *)
LEMMA TypeInit == Init => TypeOK
<1> SUFFICES ASSUME Init  PROVE TypeOK
  OBVIOUS
<1>1. /\ day \in ImportDay..LastDay /\ hour \in Hours
      /\ split \in [Ticker -> SUBSET Day] /\ gap \in [Ticker -> SUBSET Day]
      /\ workbook \subseteq Ticker
  <2>1. day = ImportDay /\ hour = "evening" /\ workbook \in SUBSET Ticker
    BY DEF Init
  <2>4. hour \in Hours
    BY <2>1 DEF Hours
  <2>2. split \in [Ticker -> SUBSET Day] /\ gap \in [Ticker -> SUBSET Day]
    BY DEF Init
  <2>3. ImportDay \in ImportDay..LastDay
    BY DaysAssumption
  <2> QED
    BY <2>1, <2>2, <2>3, <2>4, Zenon
<1>2. \A t \in Ticker, d \in Int : Scale(t, d) \in Nat
  <2> TAKE t \in Ticker, d \in Int
  <2>1. {s \in split[t] : s <= d} \in SUBSET Day
    BY <1>1
  <2> QED
    BY <2>1, DaysFinite DEF Scale
<1>3. Benchmark \in Ticker /\ ImportDay \in Int
  BY TickersAssumption, DaysAssumption
<1>4. \A t \in Ticker : holding[t] \in {NotHeld} \cup Positions
  BY <1>2, <1>3 DEF Init, Position, Positions
<1>5. holding \in [Ticker -> {NotHeld} \cup Positions]
  <2>1. holding = [t \in Ticker |-> holding[t]]
    BY DEF Init
  <2> QED
    BY <1>4, <2>1
<1>6. price \in [Ticker -> Closes]
  BY DEF Init, Closes
<1> QED
  BY <1>1, <1>5, <1>6 DEF Init, TypeOK, Positions

(* The repair keeps the types, ... *)
LEMMA RepairType ==
  ASSUME TypeOK, Repair
  PROVE  TypeOK'
<1>1. \A t \in Ticker : (IF Suspect(t) THEN [holding[t] EXCEPT !.scale = Scale(t, ImportDay)] ELSE holding[t])
                         \in {NotHeld} \cup Positions
  <2> TAKE t \in Ticker
  <2>1. Scale(t, ImportDay) \in Nat
    BY Calendar, ScaleGrows
  <2>2. Suspect(t) => Held(t)
    BY DEF Suspect
  <2> QED
    BY <2>1, <2>2, PositionFields DEF Positions
<1>2. holding' \in [Ticker -> {NotHeld} \cup Positions]
  BY <1>1 DEF Repair
<1>3. marker' \subseteq workbook' \cap Stock
  BY DEF Repair, world, history, Suspect, TypeOK
<1> QED
  BY <1>2, <1>3 DEF Repair, world, history, TypeOK, Positions

(* ... and so does the beginning of the refresh. *)
LEMMA BeginType ==
  ASSUME TypeOK, Begin
  PROVE  TypeOK' /\ job'.stage = "fetching" /\ job \in {Repaired} /\ UNCHANGED <<day, world, holding, price, marker, stamp>>
<1>1. \A t \in Ticker, full \in BOOLEAN : Start(t, full) \in Day
  <2> TAKE t \in Ticker, full \in BOOLEAN
  <2> DEFINE default == Max({1, day - History})
  <2>1. day - History \in Int /\ day - History <= LastDay + 1 /\ LastDay + 1 \in Nat /\ 1 <= LastDay + 1
    BY DaysAssumption DEF TypeOK
  <2>2. default = Later(1, day - History)
    BY <2>1, MaxOfTwo
  <2>3. default \in Day /\ default \in Int
    BY <2>1, <2>2 DEF Later, Day
  <2> HIDE DEF default
  <2>4. Last(t) - Window \in Int /\ Last(t) - Window <= LastDay + 1
    BY PositionFields, DaysAssumption DEF Day, Never
  <2>5. Max({default, Last(t) - Window}) = Later(default, Last(t) - Window)
    BY <2>3, <2>4, MaxOfTwo
  <2>6. Later(default, Last(t) - Window) \in Day
    BY <2>1, <2>3, <2>4 DEF Later, Day
  <2> QED
    BY <2>3, <2>5, <2>6 DEF Start, default
<1>2. \A t \in Ticker : Last(t) \in Day \cup {Never}
  BY PositionFields
<1>3. Universe \subseteq Ticker
  BY TickersAssumption DEF Universe
<1>4. [d \in Day |-> NoClose] \in Closes
  BY DEF Closes
<1>5. job' \in Run /\ job'.stage = "fetching"
  BY <1>1, <1>2, <1>3, <1>4 DEF Begin, Run
<1> QED
  BY <1>5 DEF Begin, TypeOK, world, history

(* What fetching a ticker adds to the job. *)
FetchedCloses(t) ==
    [d \in Day |-> IF Raw(t, d) = NoClose THEN NoClose
                   ELSE Raw(t, d) + Cardinality({s \in NewSplits(t) : d < s})]

LEMMA FetchAdds ==
  ASSUME TypeOK, NEW t \in Ticker, Fetch(t)
  PROVE  /\ Fetching /\ t \in job.todo /\ UNCHANGED <<day, world, holding, price, marker, stamp>>
         /\ Downloaded(t) # {}
         /\ \A d \in Day : Raw(t, d) \in Nat \cup {NoClose}
         /\ FetchedCloses(t) \in Closes /\ NewSplits(t) \in SUBSET Day
         /\ job' \in Run /\ job'.stage = "fetching"
         /\ job'.todo = job.todo \ {t} /\ job'.failed = job.failed
         /\ job'.start = job.start /\ job'.last = job.last
         /\ job'.new = [job.new EXCEPT ![t] = NewSplits(t)]
         /\ job'.rows = [job.rows EXCEPT ![t] = FetchedCloses(t)]
<1>1. Fetching /\ t \in job.todo /\ job \in Run
  BY RunFields DEF Fetch, Turn, Fetching
<1>2. NewSplits(t) \in SUBSET Day
  BY DEF NewSplits, TypeOK
<1>3. \A d \in Day : Raw(t, d) \in Nat \cup {NoClose}
  <2> TAKE d \in Day
  <2>1. d \in Int
    BY Calendar
  <2>2. Scale(t, d) \in Nat
    BY <2>1, ScaleGrows
  <2>3. price[t][d] \in Nat \cup {NoClose}
    BY DEF TypeOK, Closes
  <2> QED
    BY <2>2, <2>3 DEF Raw
<1>4. FetchedCloses(t) \in Closes
  <2>1. ASSUME NEW d \in Day  PROVE Cardinality({s \in NewSplits(t) : d < s}) \in Nat
    <3>1. {s \in NewSplits(t) : d < s} \in SUBSET Day
      BY <1>2
    <3> QED
      BY <3>1, DaysFinite
  <2>2. ASSUME NEW d \in Day
        PROVE  (IF Raw(t, d) = NoClose THEN NoClose
                ELSE Raw(t, d) + Cardinality({s \in NewSplits(t) : d < s})) \in Nat \cup {NoClose}
    BY <1>3, <2>1
  <2> QED
    BY <2>2 DEF FetchedCloses, Closes
<1>5. /\ job' = [job EXCEPT !.todo = @ \ {t}, !.new[t] = NewSplits(t), !.rows[t] = FetchedCloses(t)]
      /\ Downloaded(t) # {} /\ UNCHANGED <<day, world, holding, price, marker, stamp>>
  BY DEF Fetch, FetchedCloses
<1>6. /\ job' \in Run /\ job'.stage = "fetching"
      /\ job'.todo = job.todo \ {t} /\ job'.failed = job.failed
      /\ job'.start = job.start /\ job'.last = job.last
      /\ job'.new = [job.new EXCEPT ![t] = NewSplits(t)]
      /\ job'.rows = [job.rows EXCEPT ![t] = FetchedCloses(t)]
  BY <1>1, <1>2, <1>4, <1>5 DEF Run
<1> QED
  BY <1>1, <1>2, <1>3, <1>4, <1>5, <1>6

(* A fetch that fails adds nothing but the failure. *)
LEMMA FailureAdds ==
  ASSUME TypeOK, NEW t \in Ticker, FetchFails(t)
  PROVE  /\ Fetching /\ t \in job.todo /\ UNCHANGED <<day, world, holding, price, marker, stamp>>
         /\ job' \in Run /\ job'.stage = "fetching"
         /\ job'.todo = job.todo \ {t} /\ job'.failed = job.failed \cup {t}
         /\ job'.start = job.start /\ job'.last = job.last
         /\ job'.new = job.new /\ job'.rows = job.rows
<1>1. Fetching /\ t \in job.todo /\ job \in Run
  BY RunFields DEF FetchFails, Turn, Fetching
<1> QED
  BY <1>1 DEF FetchFails, Run

(* What the transaction writes. *)
WrittenOK(t) ==
    /\ Held(t)' <=> Held(t)
    /\ Held(t) => holding'[t] = Adjusted(t)
    /\ price'[t] \in Closes /\ price'[t] = Resulting(t)

LEMMA CommitWrites ==
  ASSUME TypeOK, Commit
  PROVE  /\ Fetching /\ job.todo = {} /\ job' = NoJob /\ UNCHANGED <<day, world, marker>>
         /\ stamp' \in Day \cup {Never} /\ stamp' = (IF job.failed = {} THEN day ELSE stamp)
         /\ holding' \in [Ticker -> {NotHeld} \cup Positions]
         /\ price' \in [Ticker -> Closes]
         /\ \A t \in Ticker : WrittenOK(t)
<1>1. Fetching /\ job.todo = {} /\ job' = NoJob /\ UNCHANGED <<day, world, marker>>
  BY DEF Commit, Fetching
<1>2. stamp' \in Day \cup {Never} /\ stamp' = (IF job.failed = {} THEN day ELSE stamp)
  BY Calendar DEF Commit, Stamped, TypeOK
<1>3. ASSUME NEW t \in Ticker, Held(t)  PROVE Adjusted(t) \in Positions
  <2> DEFINE n == SplitsAfter(job.new[t], holding[t].entry)
             b == IF t \in Stock THEN SplitsAfter(job.new[Benchmark], holding[t].entry) ELSE 0
  <2>1. \A S \in SUBSET Day : SplitsAfter(S, holding[t].entry) \in Nat
    <3> TAKE S \in SUBSET Day
    <3>1. {x \in S : holding[t].entry < x} \in SUBSET Day
      OBVIOUS
    <3> QED
      BY <3>1, DaysFinite DEF SplitsAfter
  <2>2. job.new[t] \in SUBSET Day /\ job.new[Benchmark] \in SUBSET Day
    BY <1>1, RunFields, TickersAssumption
  <2>3. n \in Nat /\ b \in Nat
    BY <2>1, <2>2
  <2>4. Adjusted(t) = [holding[t] EXCEPT !.scale = @ + n, !.bench = @ + b]
    BY DEF Adjusted
  <2> HIDE DEF n, b
  <2>5. holding[t] \in Positions /\ holding[t].scale + n \in Nat /\ holding[t].bench + b \in Nat
    BY <1>3, <2>3, PositionFields
  <2>6. Adjusted(t) = [holding[t] EXCEPT !.scale = holding[t].scale + n, !.bench = holding[t].bench + b]
    BY <2>4, <2>5 DEF Positions
  <2> QED
    BY <2>5, <2>6 DEF Positions
<1>4. /\ holding' \in [Ticker -> {NotHeld} \cup Positions]
      /\ \A t \in Ticker : holding'[t] = IF Held(t) THEN Adjusted(t) ELSE NotHeld
  BY <1>3 DEF Commit
<1>5. \A t \in Ticker : (Held(t)' <=> Held(t)) /\ (Held(t) => holding'[t] = Adjusted(t))
  <2> TAKE t \in Ticker
  <2>1. CASE Held(t)
    <3>1. holding'[t] = Adjusted(t) /\ Adjusted(t) \in Positions
      BY <1>3, <1>4, <2>1
    <3>2. holding'[t].held = TRUE
      BY <3>1 DEF Positions
    <3> QED
      BY <2>1, <3>1, <3>2 DEF Held
  <2>2. CASE ~Held(t)
    BY <1>4, <2>2 DEF Held, NotHeld
  <2> QED
    BY <2>1, <2>2
<1>6. \A t \in Ticker : Resulting(t) \in Closes
  <2> TAKE t \in Ticker
  <2>1. job.rows[t] \in Closes /\ price[t] \in Closes
    BY <1>1, RunFields DEF TypeOK
  <2> QED
    BY <2>1 DEF Resulting, Closes
<1>7. price' = [t \in Ticker |-> Resulting(t)]
  BY DEF Commit, Resulting
<1>8. ASSUME NEW t \in Ticker  PROVE WrittenOK(t)
  BY <1>5, <1>6, <1>7 DEF WrittenOK
<1> QED
  BY <1>1, <1>2, <1>4, <1>6, <1>7, <1>8

(* A purchase. *)
FirstClose(t) == Last(t) = Never /\ t \notin workbook

(* The benchmark's entry price is one. *)
LEMMA LatestBenchmarkIsScale == TypeOK => LatestBenchmark \in Nat
<1> SUFFICES ASSUME TypeOK  PROVE LatestBenchmark \in Nat
  OBVIOUS
<1>1. Benchmark \in Ticker /\ price[Benchmark] \in Closes
  BY TickersAssumption DEF TypeOK
<1>2. Last(Benchmark) # Never => price[Benchmark][Last(Benchmark)] \in Nat
  <2>1. Last(Benchmark) = LastOf(price[Benchmark])
    BY <1>1, LastStored
  <2> QED
    BY <1>1, <2>1, LastClose DEF Closes
<1>3. Scale(Benchmark, ImportDay) \in Nat
  BY <1>1, Calendar, ScaleGrows
<1> QED
  BY <1>2, <1>3 DEF LatestBenchmark

(* What a purchase writes: a position and sometimes a first close. *)
LEMMA BuyWrites ==
  ASSUME TypeOK, NEW t \in Ticker, NEW bought \in {day, Today}, BuyNew(t, bought)
  PROVE  /\ t \in Stock /\ ~Held(t) /\ UNCHANGED <<day, world, marker, stamp, job>>
         /\ holding' \in [Ticker -> {NotHeld} \cup Positions]
         /\ \A u \in Ticker \ {t} : holding'[u] = holding[u] /\ price'[u] = price[u]
         /\ holding'[t] = Position(Today, bought, Scale(t, bought), LatestBenchmark, TRUE)
         /\ price' \in [Ticker -> Closes]
         /\ ~FirstClose(t) => price' = price
         /\ FirstClose(t) => /\ price'[t][Today] = Scale(t, bought)
                             /\ \A d \in Day \ {Today} : price'[t][d] = price[t][d]
<1>1. Today \in Day /\ Today \in Int /\ bought \in Day /\ bought \in Int
  BY Calendar
<1>2. Scale(t, bought) \in Nat
  BY <1>1, ScaleGrows
<1>3. Position(Today, bought, Scale(t, bought), LatestBenchmark, TRUE) \in Positions
  BY <1>1, <1>2, LatestBenchmarkIsScale DEF Position, Positions
<1>4. holding \in [Ticker -> {NotHeld} \cup Positions] /\ price \in [Ticker -> Closes]
  BY DEF TypeOK, Positions
<1>5. /\ t \in Stock /\ ~Held(t) /\ UNCHANGED <<day, world, marker, stamp, job>>
      /\ holding' = [holding EXCEPT ![t] = Position(Today, bought, Scale(t, bought), LatestBenchmark, TRUE)]
      /\ price' = IF FirstClose(t) THEN [price EXCEPT ![t][Today] = Scale(t, bought)] ELSE price
  BY DEF BuyNew, FirstClose
<1>6. /\ holding' \in [Ticker -> {NotHeld} \cup Positions]
      /\ \A u \in Ticker \ {t} : holding'[u] = holding[u]
      /\ holding'[t] = Position(Today, bought, Scale(t, bought), LatestBenchmark, TRUE)
  BY <1>3, <1>4, <1>5
<1>7. CASE FirstClose(t)
  <2>1. price[t] \in [Day -> Nat \cup {NoClose}]
    BY <1>4 DEF Closes
  <2>2. /\ price' \in [Ticker -> Closes] /\ price'[t][Today] = Scale(t, bought)
        /\ \A d \in Day \ {Today} : price'[t][d] = price[t][d]
        /\ \A u \in Ticker \ {t} : price'[u] = price[u]
    BY <1>1, <1>2, <1>4, <1>5, <1>7, <2>1 DEF Closes
  <2> QED
    BY <1>5, <1>6, <1>7, <2>2
<1>8. CASE ~FirstClose(t)
  BY <1>4, <1>5, <1>6, <1>8
<1> QED
  BY <1>7, <1>8

(* A sale removes a position. *)
LEMMA SellWrites ==
  ASSUME TypeOK, NEW t \in Ticker, SellAll(t)
  PROVE  /\ UNCHANGED <<day, world, price, marker, stamp, job>>
         /\ holding' \in [Ticker -> {NotHeld} \cup Positions]
         /\ ~Held(t)' /\ \A u \in Ticker \ {t} : holding'[u] = holding[u]
<1>1. holding \in [Ticker -> {NotHeld} \cup Positions]
  BY DEF TypeOK, Positions
<1> QED
  BY <1>1 DEF SellAll, Held, NotHeld

(* Every step keeps the types. *)
LEMMA TypeStep == TypeOK /\ [Next]_vars => TypeOK'
<1> SUFFICES ASSUME TypeOK, [Next]_vars  PROVE TypeOK'
  OBVIOUS
<1>1. ASSUME Clock  PROVE TypeOK'
  BY <1>1, ClockMoves DEF TypeOK, history, Hours
<1>2. ASSUME NEW t \in Ticker, Fetch(t)  PROVE TypeOK'
  BY <1>2, FetchAdds DEF TypeOK, world, history
<1>3. ASSUME NEW t \in Ticker, FetchFails(t)  PROVE TypeOK'
  BY <1>3, FailureAdds DEF TypeOK, world, history
<1>4. ASSUME NEW t \in Ticker, NEW bought \in {day, Today}, BuyNew(t, bought)  PROVE TypeOK'
  BY <1>4, BuyWrites DEF TypeOK, world, history, Positions
<1>5. ASSUME NEW t \in Ticker, SellAll(t)  PROVE TypeOK'
  BY <1>5, SellWrites DEF TypeOK, world, history, Positions
<1>6. ASSUME Commit  PROVE TypeOK'
  BY <1>6, CommitWrites DEF TypeOK, world, history, Positions
<1>7. ASSUME Abort  PROVE TypeOK'
  BY <1>7 DEF Abort, TypeOK, world, history
<1>8. ASSUME UNCHANGED vars  PROVE TypeOK'
  BY <1>8 DEF vars, TypeOK, world, history
<1> QED
  BY <1>1, <1>2, <1>3, <1>4, <1>5, <1>6, <1>7, <1>8, Steps, RepairType, BeginType DEF Buy

(* The calendar, the tables and the job keep their types, and nothing is    *)
(* ever marked as repaired but a stock of the workbook.                     *)
THEOREM TypeCorrect == Spec => []TypeOK
  BY TypeInit, TypeStep, PTL DEF Spec

-----------------------------------------------------------------------------
(* What a fetch has read stays true of the tables until the job is over.    *)
Core == Base /\ JobOK

(* The splits, the missing closes and the workbook never change. *)
LEMMA HistoryStays == TypeOK /\ [Next]_vars => UNCHANGED history
<1> SUFFICES ASSUME TypeOK, [Next]_vars  PROVE UNCHANGED history
  OBVIOUS
<1> QED
  BY Steps, ClockMoves, FetchAdds, FailureAdds, BuyWrites, SellWrites, CommitWrites, BeginType
     DEF Buy, Repair, Abort, world, vars

(* What is true of the tables and the job at the start. *)
LEMMA CoreInit == Init => Core
<1> SUFFICES ASSUME Init  PROVE Core
  OBVIOUS
<1>1. TypeOK
  BY TypeInit
<1>2. HistoryOK
  <2>1. Benchmark \in workbook
    BY DEF Init
  <2>2. \A t \in Ticker : split[t] \subseteq SplitDays[t]
    BY DEF Init
  <2>3. SplitGaps \/ \A t \in Ticker : gap[t] \cap split[t] = {}
    BY DEF Init
  <2> QED
    BY <2>1, <2>2, <2>3 DEF HistoryOK
<1>3. \A t \in Ticker : Last(t) = Never
  <2> TAKE t \in Ticker
  <2>1. price[t] \in Closes /\ \A d \in Day : price[t][d] = NoClose
    BY <1>1 DEF Init, TypeOK
  <2> QED
    BY <2>1, LastStored, LastClose
<1>4. ASSUME NEW t \in Ticker, Held(t)  PROVE PositionOK(t)
  <2>1. t \in workbook /\ holding[t].entry = Never
    BY <1>4 DEF Init, Held, NotHeld, Position
  <2> QED
    BY <1>1, <2>1, Calendar DEF PositionOK, Never, Day
<1>5. ~Fetching
  BY DEF Init, NoJob, Fetching
<1>6. Never <= Today
  BY <1>1, Calendar DEF Never, Day
<1> QED
  BY <1>1, <1>2, <1>3, <1>4, <1>5, <1>6 DEF Core, Base, JobOK

(* A position that keeps its entry keeps what is true of it. *)
LEMMA PositionsStay ==
  ASSUME Core, TypeOK', UNCHANGED history, Today <= Today', NEW t \in Ticker,
         Held(t)' => Held(t) /\ holding'[t].entry = holding[t].entry
                             /\ holding'[t].traded = holding[t].traded,
         Last(t)' <= Today', Last(t) # Never => Last(t)' # Never
  PROVE  Last(t)' <= Today' /\ (Held(t) => PositionOK(t))'
<1> SUFFICES ASSUME Held(t)'  PROVE PositionOK(t)'
  OBVIOUS
<1>1. PositionOK(t) /\ TypeOK /\ Held(t)
  BY DEF Core, Base
<1>2. holding[t].entry <= Today /\ holding[t].entry \in Int /\ Today \in Int /\ Today' \in Int
  <2>1. day' \in Int /\ Today' \in Int
    BY DaysAssumption DEF TypeOK, Today
  <2> QED
    BY <1>1, <2>1, PositionFields, Calendar DEF PositionOK
<1>3. holding'[t].entry <= Today'
  BY <1>2
<1> QED
  BY <1>1, <1>3 DEF PositionOK, history

(* What the job read of a ticker stays true when neither changes. *)
LEMMA ReadStays ==
  ASSUME NEW t \in Ticker, ReadOK(t), price'[t] = price[t], workbook' = workbook, Today' = Today,
         t \in job'.todo => t \in job.todo,
         job'.rows[t] = job.rows[t], job'.new[t] = job.new[t],
         job'.start[t] = job.start[t], job'.last[t] = job.last[t]
  PROVE  ReadOK(t)'
<1>1. Last(t)' = Last(t) /\ Resulting(t)' = Resulting(t) /\ Fetched(t)' = Fetched(t)
  BY DEF Last, Resulting, Fetched
<1> QED
  BY <1>1 DEF ReadOK, NextLast

(* A fetch changes nothing but what will result for its ticker: the closes  *)
(* downloaded, up to the last closed session, over those stored.            *)
FetchedOK(t) ==
    /\ \A d \in Day : price[t][d] \in Nat \cup {NoClose} /\ (price[t][d] # NoClose => d <= Last(t))
    /\ \A d \in Day : /\ Resulting(t)'[d] = FetchedCloses(t)[d]
                      /\ Resulting(t)'[d] # NoClose <=> d \in Downloaded(t) \/ price[t][d] # NoClose
    /\ Resulting(t)' \in Closes /\ NextLast(t)' = LastOf(Resulting(t)')
    /\ \A d \in Downloaded(t) : d \in Day /\ d <= day
    /\ Last(t) <= NextLast(t)'

(* The closes that will result from a fetch. *)
LEMMA FetchedResult ==
  ASSUME Core, NEW t \in Ticker, Fetch(t)
  PROVE  FetchedOK(t)
<1>0. TypeOK
  BY DEF Core, Base
<1>1. /\ price' = price /\ job'.rows = [job.rows EXCEPT ![t] = FetchedCloses(t)] /\ job \in Run
      /\ FetchedCloses(t) \in Closes /\ NewSplits(t) \in SUBSET Day
      /\ \A d \in Day : Raw(t, d) \in Nat \cup {NoClose}
  BY <1>0, FetchAdds, RunFields
<1>2. job'.rows[t] = FetchedCloses(t)
  BY <1>1 DEF Run
<1>3. price[t] \in Closes
  BY <1>0 DEF TypeOK
<1>4. \A d \in Day : price[t][d] \in Nat \cup {NoClose} /\ (price[t][d] # NoClose => d <= Last(t))
  BY <1>3, LastClose, LastStored DEF Closes
<1>5. ASSUME NEW d \in Day
      PROVE  /\ FetchedCloses(t)[d] # NoClose <=> Raw(t, d) # NoClose
             /\ Raw(t, d) # NoClose <=> d \in Downloaded(t) \/ price[t][d] # NoClose
  <2>1. Cardinality({s \in NewSplits(t) : d < s}) \in Nat
    <3>1. {s \in NewSplits(t) : d < s} \in SUBSET Day
      BY <1>1
    <3> QED
      BY <3>1, DaysFinite
  <2>2. FetchedCloses(t)[d] # NoClose <=> Raw(t, d) # NoClose
    BY <1>1, <2>1 DEF FetchedCloses, NoClose
  <2>3. Scale(t, d) \in Nat
    BY <1>0, Calendar, ScaleGrows
  <2> QED
    BY <2>2, <2>3 DEF Raw, NoClose
<1>6. \A d \in Day : Resulting(t)'[d] = FetchedCloses(t)[d]
  BY <1>1, <1>2, <1>5 DEF Resulting, Raw
<1>7. Resulting(t)' \in Closes
  <2>1. \A d \in Day : FetchedCloses(t)[d] \in Nat \cup {NoClose}
    BY <1>1 DEF Closes
  <2>2. Resulting(t)' = [d \in Day |-> Resulting(t)'[d]]
    BY DEF Resulting
  <2> QED
    BY <1>6, <2>1, <2>2 DEF Closes
<1>8. \A d \in Downloaded(t) : d \in Day /\ d <= day
  BY DEF Downloaded
<1>9. NextLast(t)' = LastOf(Resulting(t)')
  BY DEF NextLast
<1>10. Last(t) <= LastOf(Resulting(t)')
  BY <1>3, <1>5, <1>6, <1>7, LastGrows, LastStored
<1> QED
  BY <1>4, <1>5, <1>6, <1>7, <1>8, <1>9, <1>10 DEF FetchedOK

(* A fetch keeps the reads of every ticker true, ... *)
LEMMA CoreFetch ==
  ASSUME Core, TypeOK', NEW t \in Ticker, Fetch(t)
  PROVE  Core'
<1>0. TypeOK /\ Fetching /\ \A u \in Ticker : ReadOK(u)
  BY FetchAdds DEF Core, Base, JobOK
<1>1. /\ UNCHANGED <<day, world, holding, price, marker, stamp>> /\ t \in job.todo /\ job \in Run
      /\ job'.todo = job.todo \ {t} /\ job'.start = job.start /\ job'.last = job.last
      /\ job'.new = [job.new EXCEPT ![t] = NewSplits(t)]
      /\ job'.rows = [job.rows EXCEPT ![t] = FetchedCloses(t)]
  BY <1>0, FetchAdds, RunFields
<1>2. Base'
  BY <1>1 DEF Core, Base, HistoryOK, PositionOK, world, history, Last, Held, Today
<1>3. ASSUME NEW u \in Ticker \ {t}  PROVE ReadOK(u)'
  <2>1. job'.rows[u] = job.rows[u] /\ job'.new[u] = job.new[u]
    BY <1>1 DEF Run
  <2>2. price'[u] = price[u] /\ workbook' = workbook /\ Today' = Today
    BY <1>1 DEF world, history, Today
  <2> QED
    BY <1>0, <1>1, <2>1, <2>2, ReadStays
<1>4. ReadOK(t)'
  <2>1. t \in workbook' \/ Last(t)' # Never
    BY <1>0, <1>1 DEF ReadOK, Last, world, history
  <2>2. NextLast(t)' <= Today'
    <3>1. Resulting(t)' \in Closes /\ NextLast(t)' = LastOf(Resulting(t)')
      BY FetchedResult DEF FetchedOK
    <3>2. ASSUME NEW d \in Day, Resulting(t)'[d] # NoClose  PROVE d <= Today
      <4>1. Last(t) <= Today /\ Last(t) \in Int /\ Today \in Int /\ day <= Today /\ day \in Int /\ d \in Int
        BY <1>0, PositionFields, Calendar DEF Core, Base
      <4>2. d \in Downloaded(t) \/ price[t][d] # NoClose
        BY <3>2, FetchedResult DEF FetchedOK
      <4>3. d <= day \/ d <= Last(t)
        BY <4>2, FetchedResult DEF FetchedOK
      <4> QED
        BY <4>1, <4>3
    <3>3. Never <= Today /\ Today' = Today
      BY <1>0, <1>1, Calendar DEF Today, world, Never, Day
    <3> QED
      BY <3>1, <3>2, <3>3, LastClose
  <2> QED
    BY <1>1, <2>1, <2>2 DEF ReadOK
<1> QED
  BY <1>2, <1>3, <1>4 DEF Core, JobOK

(* ... and so does one that fails. *)
LEMMA CoreFailure ==
  ASSUME Core, TypeOK', NEW t \in Ticker, FetchFails(t)
  PROVE  Core'
<1>0. TypeOK /\ Fetching /\ \A u \in Ticker : ReadOK(u)
  BY FailureAdds DEF Core, Base, JobOK
<1>1. /\ UNCHANGED <<day, world, holding, price, marker, stamp>>
      /\ job'.todo = job.todo \ {t} /\ job'.start = job.start /\ job'.last = job.last
      /\ job'.new = job.new /\ job'.rows = job.rows
  BY <1>0, FailureAdds
<1>2. Base'
  BY <1>1 DEF Core, Base, HistoryOK, PositionOK, world, history, Last, Held, Today
<1>3. price' = price /\ workbook' = workbook /\ Today' = Today
  BY <1>1 DEF world, history, Today
<1> QED
  BY <1>0, <1>1, <1>2, <1>3, ReadStays DEF Core, JobOK

(* The job begins with nothing fetched and a first day no later than the    *)
(* day after the last close or the import.                                  *)
LEMMA CoreBegin ==
  ASSUME Core, TypeOK', Begin
  PROVE  /\ Core'
         /\ \A t \in Ticker : Resulting(t)' = price[t] /\ NextLast(t)' = Last(t) /\ job'.new[t] = {}
                            /\ (Held(t) => t \in job'.todo)
<1>0. TypeOK
  BY DEF Core, Base
<1>1. /\ UNCHANGED <<day, world, holding, price, marker, stamp>>
      /\ job'.todo = Universe /\ job'.last = [t \in Ticker |-> Last(t)]
      /\ job'.new = [t \in Ticker |-> {}]
      /\ job'.rows = [t \in Ticker |-> [d \in Day |-> NoClose]]
      /\ \E full \in BOOLEAN : job'.start = [t \in Ticker |-> Start(t, full)]
  BY DEF Begin
<1>2. Base'
  BY <1>1 DEF Core, Base, HistoryOK, PositionOK, world, history, Last, Held, Today
<1>3. workbook' = workbook /\ Today' = Today /\ \A t \in Ticker : Last(t)' = Last(t)
  BY <1>1 DEF world, history, Today, Last
<1>4. ASSUME NEW t \in Ticker
      PROVE  Resulting(t)' = price[t] /\ NextLast(t)' = Last(t) /\ job'.new[t] = {} /\ ~Fetched(t)'
  <2>1. price[t] = [d \in Day |-> price[t][d]]
    BY <1>0 DEF TypeOK, Closes
  <2>2. Resulting(t)' = price[t]
    BY <1>1, <2>1 DEF Resulting
  <2> QED
    BY <1>1, <2>2, LastStored DEF NextLast, Fetched
<1>5. ASSUME NEW t \in Ticker, HistoryCovers  PROVE job'.start[t] <= Later(Last(t), ImportDay) + 1
  <2>1. PICK full \in BOOLEAN : job'.start[t] = Start(t, full)
    BY <1>1
  <2> DEFINE default == Max({1, day - History})
  <2>2. /\ day \in Int /\ History \in Int /\ Window \in Nat /\ ImportDay \in Int /\ 1 <= ImportDay
        /\ day <= ImportDay + History + 1 /\ Last(t) \in Int
    <3>1. /\ day \in Int /\ day <= LastDay /\ History \in Int /\ Window \in Nat
          /\ ImportDay \in Int /\ 1 <= ImportDay /\ LastDay \in Int
      BY <1>0, DaysAssumption DEF TypeOK
    <3>2. Last(t) \in Int
      BY <1>0, PositionFields
    <3> QED
      BY <1>5, <3>1, <3>2 DEF HistoryCovers
  <2>3. default = Later(1, day - History)
    BY <2>2, MaxOfTwo
  <2>4. default \in Int /\ default <= ImportDay + 1
    BY <2>2, <2>3 DEF Later
  <2>5. Max({default, Last(t) - Window}) = Later(default, Last(t) - Window)
    <3> HIDE DEF default
    <3> QED
      BY <2>2, <2>4, MaxOfTwo
  <2>6. Start(t, full) = default \/ Start(t, full) = Later(default, Last(t) - Window)
    BY <2>5 DEF Start
  <2> HIDE DEF default
  <2> QED
    BY <2>1, <2>2, <2>4, <2>6 DEF Later
<1>6. ASSUME NEW t \in Ticker, t \in Universe  PROVE t \in workbook \/ Last(t) # Never
  BY <1>6 DEF Universe, Core, Base, HistoryOK, PositionOK
<1>7. ASSUME NEW t \in Ticker  PROVE ReadOK(t)'
  <2>1. NextLast(t)' <= Today'
    BY <1>3, <1>4 DEF Core, Base
  <2> QED
    BY <1>1, <1>3, <1>4, <1>5, <1>6, <2>1 DEF ReadOK
<1> QED
  BY <1>1, <1>2, <1>4, <1>7 DEF Core, JobOK, Universe

(* A first close is bought outside what the job fetches. *)
LEMMA CoreBuy ==
  ASSUME Core, TypeOK', NEW t \in Ticker, NEW bought \in {day, Today}, BuyNew(t, bought)
  PROVE  /\ Core' /\ Today' = Today
         /\ \A u \in Ticker \ {t} : Last(u)' = Last(u)
         /\ FirstClose(t) => Last(t)' = Today
         /\ FirstClose(t) /\ Fetching => ~Fetched(t) /\ t \notin job.todo /\ NextLast(t)' = Today
         /\ ~FirstClose(t) => Last(t)' = Last(t)
<1>0. TypeOK /\ Today \in Day /\ Today \in Int /\ Last(t) \in Int
  BY Calendar, PositionFields DEF Core, Base
<1>1. /\ t \in Stock /\ ~Held(t) /\ UNCHANGED <<day, world, marker, stamp, job>>
      /\ \A u \in Ticker \ {t} : holding'[u] = holding[u] /\ price'[u] = price[u]
      /\ holding'[t] = Position(Today, bought, Scale(t, bought), LatestBenchmark, TRUE)
      /\ price' \in [Ticker -> Closes]
      /\ ~FirstClose(t) => price' = price
      /\ FirstClose(t) => /\ price'[t][Today] = Scale(t, bought)
                          /\ \A d \in Day \ {Today} : price'[t][d] = price[t][d]
  BY <1>0, BuyWrites
<1>2. UNCHANGED history /\ Today' = Today /\ job' = job
  BY <1>1 DEF world, Today
<1>3. \A u \in Ticker : price'[u] = price[u] => Last(u)' = Last(u)
  BY DEF Last
<1>4. ASSUME FirstClose(t)
      PROVE  /\ price'[t][Today] # NoClose
             /\ \A d \in Day \ {Today} : price[t][d] = NoClose /\ price'[t][d] = NoClose
  <2>1. price[t] \in Closes /\ Last(t) = LastOf(price[t]) /\ Last(t) = Never
    BY <1>0, <1>4, LastStored DEF TypeOK, FirstClose
  <2>2. \A d \in Day : price[t][d] = NoClose
    <3> TAKE d \in Day
    <3>1. Never < d /\ d \in Int /\ Never \in Int
      BY <1>0, Calendar
    <3>2. price[t][d] # NoClose => d <= LastOf(price[t])
      BY <2>1, LastClose
    <3> QED
      BY <2>1, <3>1, <3>2
  <2>3. Scale(t, bought) \in Nat
    BY <1>0, Calendar, ScaleGrows
  <2> QED
    BY <1>1, <1>4, <2>2, <2>3 DEF NoClose
<1>5. ASSUME NEW c \in Closes, c[Today] # NoClose, \A d \in Day \ {Today} : c[d] = NoClose
      PROVE  LastOf(c) = Today
  <2>1. Today <= LastOf(c) /\ LastOf(c) \in Int
    BY <1>0, <1>5, LastClose
  <2>2. LastOf(c) # Never
    <3>1. Never < Today /\ Never \in Int
      BY <1>0, Calendar
    <3> QED
      BY <1>0, <2>1, <3>1
  <2>3. LastOf(c) \in Day /\ c[LastOf(c)] # NoClose
    BY <2>2, LastClose
  <2> QED
    BY <1>5, <2>3
<1>6. FirstClose(t) => Last(t)' = Today
  <2>1. Last(t)' = LastOf(price'[t]) /\ price'[t] \in Closes
    BY <1>1 DEF Last, LastOf
  <2> QED
    BY <1>4, <1>5, <2>1
<1>7. FirstClose(t) /\ Fetching => ~Fetched(t) /\ t \notin job.todo
  BY DEF FirstClose, Core, JobOK, ReadOK
<1>8. ASSUME FirstClose(t), Fetching  PROVE NextLast(t)' = Today
  <2>1. \A d \in Day : Resulting(t)'[d] = price'[t][d]
    BY <1>2, <1>7, <1>8 DEF Fetched, Resulting
  <2>2. Resulting(t)' \in Closes
    <3>1. Resulting(t)' = [d \in Day |-> Resulting(t)'[d]]
      BY DEF Resulting
    <3>2. price'[t] \in Closes
      BY <1>1
    <3> QED
      BY <2>1, <3>1, <3>2 DEF Closes
  <2> QED
    BY <1>0, <1>4, <1>5, <1>8, <2>1, <2>2 DEF NextLast
<1>9. Base'
  <2>1. HistoryOK'
    BY <1>2 DEF Core, Base, HistoryOK, history
  <2>2. ASSUME NEW u \in Ticker \ {t}  PROVE Last(u)' <= Today' /\ (Held(u) => PositionOK(u))'
    BY <1>1, <1>2, <1>3 DEF Core, Base, PositionOK, Held, history
  <2>3. Last(t)' <= Today'
    BY <1>0, <1>1, <1>2, <1>3, <1>6 DEF Core, Base
  <2>4. t \in workbook \/ Last(t)' # Never
    BY <1>0, <1>1, <1>3, <1>6, Calendar DEF FirstClose
  <2>5. PositionOK(t)'
    <3>1. holding'[t].entry = Today /\ holding'[t].traded = TRUE
      BY <1>1 DEF Position
    <3> QED
      BY <1>0, <1>2, <2>4, <3>1 DEF PositionOK, history
  <2> QED
    BY <2>1, <2>2, <2>3, <2>5 DEF Base
<1>10. JobOK'
  <2> SUFFICES ASSUME Fetching, NEW u \in Ticker  PROVE ReadOK(u)'
    BY <1>2 DEF JobOK, Fetching
  <2>1. ReadOK(u)
    BY DEF Core, JobOK
  <2>2. CASE price'[u] = price[u]
    BY <1>2, <2>1, <2>2, ReadStays DEF history
  <2>3. CASE u = t /\ FirstClose(t)
    BY <1>0, <1>2, <1>7, <1>8, <2>3, Calendar DEF ReadOK, Fetched
  <2> QED
    BY <1>1, <2>2, <2>3
<1> QED
  BY <1>1, <1>2, <1>3, <1>6, <1>7, <1>8, <1>9, <1>10 DEF Core

(* Once committed, what was to result is what is stored. *)
LEMMA CoreCommit ==
  ASSUME Core, TypeOK', Commit
  PROVE  Core' /\ \A t \in Ticker : Last(t)' = NextLast(t) /\ Last(t) <= NextLast(t)
<1>0. TypeOK /\ Fetching /\ \A u \in Ticker : ReadOK(u)
  BY CommitWrites DEF Core, Base, JobOK
<1>1. /\ job' = NoJob /\ UNCHANGED <<day, world, marker>>
      /\ \A t \in Ticker : WrittenOK(t)
  BY <1>0, CommitWrites
<1>2. UNCHANGED history /\ Today' = Today
  BY <1>1 DEF world, Today
<1>3. ASSUME NEW t \in Ticker  PROVE Last(t)' = NextLast(t) /\ Last(t) <= NextLast(t)
  <2>1. Last(t)' = LastOf(price'[t])
    BY DEF Last, LastOf
  <2>2. price[t] \in Closes /\ Resulting(t) \in Closes /\ price'[t] = Resulting(t)
    BY <1>0, <1>1 DEF TypeOK, WrittenOK
  <2>3. \A d \in Day : price[t][d] # NoClose => Resulting(t)[d] # NoClose
    BY DEF Resulting
  <2> QED
    BY <2>1, <2>2, <2>3, LastStored, LastGrows DEF NextLast
<1>4. ASSUME NEW t \in Ticker  PROVE Last(t)' <= Today' /\ (Held(t) => PositionOK(t))'
  <2>1. ASSUME Held(t)
        PROVE  holding'[t].entry = holding[t].entry /\ holding'[t].traded = holding[t].traded
    <3>1. holding'[t] = Adjusted(t) /\ holding[t] \in Positions
      BY <1>0, <1>1, <2>1, PositionFields DEF WrittenOK
    <3> QED
      BY <3>1 DEF Adjusted, Positions
  <2>2. Last(t)' <= Today'
    BY <1>0, <1>2, <1>3 DEF ReadOK
  <2>3. Last(t) # Never => Last(t)' # Never
    <3>1. Last(t) \in Day \cup {Never} /\ Last(t) \in Int
      BY <1>0, PositionFields
    <3>2. Last(t)' \in Int
      <4>1. price'[t] \in Closes /\ Last(t)' = LastOf(price'[t])
        BY <1>1 DEF Last, LastOf, WrittenOK
      <4> QED
        BY <4>1, LastClose
    <3> QED
      BY <1>0, <1>3, <3>1, <3>2, Calendar
  <2>4. Today <= Today'
    BY <1>0, <1>2, Calendar
  <2>5. Held(t)' => Held(t)
    BY <1>1 DEF WrittenOK
  <2> QED
    BY <1>2, <2>1, <2>2, <2>3, <2>4, <2>5, PositionsStay
<1>5. HistoryOK'
  BY <1>2 DEF Core, Base, HistoryOK, history
<1>6. JobOK'
  BY <1>1 DEF JobOK, Fetching, NoJob
<1> QED
  BY <1>3, <1>4, <1>5, <1>6 DEF Core, Base

(* A sale leaves what the job read alone. *)
LEMMA CoreSell ==
  ASSUME Core, TypeOK', NEW t \in Ticker, SellAll(t)
  PROVE  Core'
<1>1. /\ UNCHANGED <<day, world, price, marker, stamp, job>>
      /\ ~Held(t)' /\ \A u \in Ticker \ {t} : holding'[u] = holding[u]
  BY SellWrites DEF Core, Base
<1>2. Base'
  BY <1>1 DEF Core, Base, HistoryOK, PositionOK, world, history, Last, Held, Today
<1>3. price' = price /\ workbook' = workbook /\ Today' = Today /\ job' = job
  BY <1>1 DEF world, history, Today
<1> QED
  BY <1>2, <1>3, ReadStays DEF Core, JobOK, Fetching

(* Every step keeps what is true of the tables and the job. *)
LEMMA CoreStep == Core /\ [Next]_vars => Core'
<1> SUFFICES ASSUME Core, [Next]_vars  PROVE Core'
  OBVIOUS
<1>0. TypeOK /\ TypeOK'
  BY TypeStep DEF Core, Base
<1>1. ASSUME Clock  PROVE Core'
  <2>1. /\ UNCHANGED <<history, holding, price, marker, stamp, job>>
        /\ Today <= Today' /\ day <= day' /\ (day' = day \/ job = NoJob)
    BY <1>0, <1>1, ClockMoves
  <2>2. \A t \in Ticker : Last(t)' = Last(t) /\ Last(t) \in Int /\ Last(t) <= Today
    BY <1>0, <2>1, PositionFields DEF Last, Core, Base
  <2>3. Today \in Int /\ Today' \in Int
    BY <1>0, Calendar, DaysAssumption DEF TypeOK, Today
  <2>4. ASSUME NEW t \in Ticker  PROVE Last(t)' <= Today' /\ (Held(t) => PositionOK(t))'
    <3>1. Last(t)' <= Today' /\ Last(t)' = Last(t) /\ holding'[t] = holding[t] /\ Held(t)' = Held(t)
      BY <2>1, <2>2, <2>3 DEF Held
    <3> QED
      BY <1>0, <2>1, <3>1, PositionsStay
  <2>5. ASSUME Fetching, NEW t \in Ticker  PROVE ReadOK(t)'
    <3>1. ReadOK(t) /\ UNCHANGED <<price, workbook, job>>
      BY <2>1, <2>5 DEF Core, JobOK, history
    <3>2. Last(t)' = Last(t) /\ NextLast(t)' = NextLast(t) /\ Fetched(t)' = Fetched(t)
      BY <3>1 DEF Last, NextLast, Resulting, Fetched
    <3>3. NextLast(t) \in Int
      <4>1. Resulting(t) \in Closes
        <5>1. job.rows[t] \in Closes /\ price[t] \in Closes
          BY <1>0, <2>5, RunFields DEF TypeOK
        <5> QED
          BY <5>1 DEF Resulting, Closes
      <4> QED
        BY <4>1, LastClose DEF NextLast
    <3>4. NextLast(t)' <= Today'
      BY <2>1, <2>3, <3>1, <3>2, <3>3 DEF ReadOK
    <3> QED
      BY <3>1, <3>2, <3>4 DEF ReadOK
  <2> QED
    BY <1>0, <2>1, <2>4, <2>5 DEF Core, Base, HistoryOK, JobOK, Fetching, history
<1>2. ASSUME Repair  PROVE Core'
  <2>1. /\ UNCHANGED <<day, world, price, stamp>> /\ job' = Repaired
        /\ holding' = [t \in Ticker |->
             IF Suspect(t) THEN [holding[t] EXCEPT !.scale = Scale(t, ImportDay)] ELSE holding[t]]
    BY <1>2 DEF Repair
  <2>2. UNCHANGED history /\ Today' = Today /\ ~Fetching'
    BY <2>1 DEF world, Today, Fetching, Repaired
  <2>3. ASSUME NEW t \in Ticker  PROVE Last(t)' <= Today' /\ (Held(t) => PositionOK(t))'
    <3>1. Last(t)' = Last(t) /\ Last(t) <= Today
      BY <2>1 DEF Last, Core, Base
    <3>2. Held(t)' = Held(t) /\ (Held(t) => /\ holding'[t].entry = holding[t].entry
                                           /\ holding'[t].traded = holding[t].traded)
      <4>1. CASE Suspect(t)
        <5>1. holding[t] \in Positions /\ Held(t)
          BY <1>0, <4>1, PositionFields DEF Suspect
        <5> QED
          BY <2>1, <4>1, <5>1 DEF Positions, Held
      <4>2. CASE ~Suspect(t)
        BY <2>1, <4>2 DEF Held
      <4> QED
        BY <4>1, <4>2
    <3> QED
      BY <2>2, <3>1, <3>2 DEF Core, Base, PositionOK, history
  <2> QED
    BY <1>0, <2>2, <2>3 DEF Core, Base, HistoryOK, JobOK, history
<1>3. ASSUME Abort  PROVE Core'
  <2>1. UNCHANGED <<day, world, holding, price, marker, stamp>> /\ ~Fetching'
    BY <1>3 DEF Abort, Fetching, NoJob
  <2> QED
    BY <1>0, <2>1 DEF Core, Base, HistoryOK, PositionOK, JobOK, world, history, Last, Held, Today
<1>4. ASSUME UNCHANGED vars  PROVE Core'
  <2>1. UNCHANGED <<day, hour, split, gap, workbook, holding, price, marker, stamp, job>>
    BY <1>4 DEF vars, world, history
  <2>2. Base'
    BY <1>0, <2>1 DEF Core, Base, HistoryOK, PositionOK, Last, Held, Today
  <2>3. ASSUME NEW t \in Ticker, ReadOK(t)  PROVE ReadOK(t)'
    <3>1. Today' = Today
      BY <2>1 DEF Today
    <3> QED
      BY <2>1, <2>3, <3>1, ReadStays
  <2> QED
    BY <2>1, <2>2, <2>3 DEF Core, JobOK, Fetching
<1> QED
  BY <1>0, <1>1, <1>2, <1>3, <1>4, Steps, CoreBegin, CoreFetch, CoreFailure, CoreBuy, CoreCommit, CoreSell DEF Buy

(* So it is always true. *)
LEMMA AlwaysCore == Spec => []Core
  BY CoreInit, CoreStep, PTL DEF Spec

-----------------------------------------------------------------------------
(* The stamp and the closes of the session it names. *)
LEMMA FreshInit == Init => FreshInv
<1> SUFFICES ASSUME Init  PROVE FreshInv
  OBVIOUS
<1>1. Core /\ TypeOK
  BY CoreInit DEF Core, Base
<1>2. stamp = Never /\ ~Fetching
  BY DEF Init, Fetching, NoJob
<1>3. stamp <= day
  BY <1>1, <1>2, Calendar DEF Never, Day
<1> QED
  BY <1>1, <1>2, <1>3 DEF FreshInv, Core, FreshOK, AsOfIsFresh

(* The tables that AsOfIsFresh is about, and what can be said of a step     *)
(* that does not commit: no stored close is lost, no position is older.     *)
LEMMA FreshStays ==
  ASSUME FreshInv, TypeOK', UNCHANGED <<gap, stamp>>, day <= day',
         \A t \in Ticker : Held(t)' /\ holding'[t].entry < day => Held(t) /\ holding'[t].entry = holding[t].entry,
         \A t \in Ticker, d \in Day : price[t][d] # NoClose => price'[t][d] # NoClose
  PROVE  AsOfIsFresh' /\ stamp' <= day'
<1>1. /\ stamp <= day /\ stamp \in Day \cup {Never} /\ TypeOK /\ AsOfIsFresh
      /\ day \in Int /\ day' \in Int /\ stamp \in Int
  <2>1. TypeOK /\ stamp <= day /\ AsOfIsFresh
    BY DEF FreshInv, Base
  <2>2. day' \in Int
    BY DaysAssumption DEF TypeOK
  <2> QED
    BY <2>1, <2>2, Calendar DEF TypeOK
<1>2. stamp' <= day'
  BY <1>1
<1>3. ASSUME stamp # Never, NEW t \in Ticker, stamp \notin gap[t], Held(t)', holding'[t].entry < stamp
      PROVE  price'[t][stamp] # NoClose
  <2>1. holding'[t].entry \in Int
    <3>1. holding'[t] \in {NotHeld} \cup Positions
      BY DEF TypeOK, Positions
    <3>2. holding'[t] \in Positions
      BY <1>3, <3>1 DEF Held, NotHeld
    <3> QED
      BY <1>1, <3>2, Calendar DEF Positions
  <2>2. holding'[t].entry < day
    BY <1>1, <1>3, <2>1
  <2>3. Held(t) /\ holding[t].entry < stamp
    BY <1>3, <2>2
  <2> QED
    BY <1>1, <1>3, <2>3 DEF AsOfIsFresh
<1> QED
  BY <1>2, <1>3 DEF AsOfIsFresh

(* Every step keeps the closes as fresh as last_refresh says. *)
LEMMA FreshStep == FreshInv /\ [Next]_vars => FreshInv'
<1> SUFFICES ASSUME FreshInv, [Next]_vars  PROVE FreshInv'
  OBVIOUS
<1>0. TypeOK /\ Core /\ Core' /\ TypeOK' /\ day \in Int /\ UNCHANGED gap /\ day <= day
  BY CoreStep, HistoryStays, Calendar DEF FreshInv, Core, Base, history
<1> SUFFICES FreshOK' /\ AsOfIsFresh' /\ stamp' <= day'
  BY <1>0 DEF FreshInv, Core
<1>1. ASSUME Clock  PROVE FreshOK' /\ AsOfIsFresh' /\ stamp' <= day'
  <2>1. UNCHANGED <<holding, price, stamp, job>> /\ day <= day' /\ (day' = day \/ job = NoJob)
    BY <1>0, <1>1, ClockMoves
  <2>2. FreshOK'
    BY <1>0, <2>1 DEF FreshInv, FreshOK, Fetching, NoJob, Held
  <2> QED
    BY <1>0, <2>1, <2>2, FreshStays DEF Held
<1>2. ASSUME Repair  PROVE FreshOK' /\ AsOfIsFresh' /\ stamp' <= day'
  <2>1. /\ UNCHANGED <<day, price, stamp>> /\ job' = Repaired
        /\ \A t \in Ticker : holding'[t] =
             IF Suspect(t) THEN [holding[t] EXCEPT !.scale = Scale(t, ImportDay)] ELSE holding[t]
    BY <1>2 DEF Repair
  <2>2. ASSUME NEW t \in Ticker, Held(t)'  PROVE Held(t) /\ holding'[t].entry = holding[t].entry
    <3>1. CASE Suspect(t)
      <4>1. holding[t] \in Positions /\ Held(t)
        BY <1>0, <3>1, PositionFields DEF Suspect
      <4> QED
        BY <2>1, <3>1, <4>1 DEF Positions
    <3>2. CASE ~Suspect(t)
      BY <2>1, <2>2, <3>2 DEF Held
    <3> QED
      BY <3>1, <3>2
  <2>3. FreshOK'
    BY <2>1 DEF FreshOK, Fetching, Repaired
  <2>4. AsOfIsFresh' /\ stamp' <= day'
    BY <1>0, <2>1, <2>2, FreshStays
  <2> QED
    BY <2>3, <2>4
<1>3. ASSUME Begin  PROVE FreshOK' /\ AsOfIsFresh' /\ stamp' <= day'
  <2>1. UNCHANGED <<day, holding, price, stamp>> /\ job'.todo = Universe
    BY <1>3 DEF Begin
  <2>2. FreshOK'
    BY <2>1 DEF FreshOK, Universe, Held
  <2> QED
    BY <1>0, <2>1, <2>2, FreshStays DEF Held
<1>4. ASSUME NEW t \in Ticker, Fetch(t)  PROVE FreshOK' /\ AsOfIsFresh' /\ stamp' <= day'
  <2>1. /\ UNCHANGED <<day, holding, price, stamp>> /\ Fetching /\ job \in Run
        /\ job'.todo = job.todo \ {t} /\ job'.failed = job.failed /\ Downloaded(t) # {}
        /\ job'.rows = [job.rows EXCEPT ![t] = FetchedCloses(t)]
    BY <1>0, <1>4, FetchAdds, RunFields
  <2>2. ASSUME NEW u \in Ticker, Held(u)', holding'[u].entry < day', day' \notin gap'[u]
        PROVE  u \in job'.todo \cup job'.failed \/ job'.rows[u][day'] # NoClose
    <3>1. u \in job.todo \cup job.failed \/ job.rows[u][day] # NoClose
      BY <1>0, <2>1, <2>2 DEF FreshInv, FreshOK, Held
    <3>2. CASE u # t
      BY <2>1, <3>1, <3>2 DEF Run
    <3>3. CASE u = t
      <4>1. day \in Downloaded(t)
        <5>1. day \notin gap[t] /\ day \in Day
          BY <1>0, <2>1, <2>2, <3>3, Calendar
        <5>2. PICK d \in Day : job.start[t] <= d /\ d <= day
          BY <2>1 DEF Downloaded
        <5>3. job.start[t] \in Int /\ d \in Int
          BY <1>0, <2>1, RunFields, Calendar
        <5> QED
          BY <1>0, <5>1, <5>2, <5>3 DEF Downloaded
      <4>2. FetchedCloses(t)[day] # NoClose
        BY <1>0, <1>4, <4>1, FetchedResult, Calendar DEF FetchedOK
      <4> QED
        BY <2>1, <3>3, <4>2 DEF Run
    <3> QED
      BY <3>2, <3>3
  <2>3. FreshOK'
    BY <2>2 DEF FreshOK
  <2> QED
    BY <1>0, <2>1, <2>3, FreshStays DEF Held
<1>5. ASSUME NEW t \in Ticker, FetchFails(t)  PROVE FreshOK' /\ AsOfIsFresh' /\ stamp' <= day'
  <2>1. /\ UNCHANGED <<day, holding, price, stamp>> /\ Fetching
        /\ job'.todo = job.todo \ {t} /\ job'.failed = job.failed \cup {t} /\ job'.rows = job.rows
    BY <1>0, <1>5, FailureAdds
  <2>2. FreshOK'
    BY <1>0, <2>1 DEF FreshInv, FreshOK, Held
  <2> QED
    BY <1>0, <2>1, <2>2, FreshStays DEF Held
<1>6. ASSUME NEW t \in Ticker, NEW bought \in {day, Today}, BuyNew(t, bought)
      PROVE  FreshOK' /\ AsOfIsFresh' /\ stamp' <= day'
  <2>1. /\ UNCHANGED <<day, stamp, job>>
        /\ \A u \in Ticker \ {t} : holding'[u] = holding[u] /\ price'[u] = price[u]
        /\ holding'[t] = Position(Today, bought, Scale(t, bought), LatestBenchmark, TRUE)
        /\ ~FirstClose(t) => price' = price
        /\ FirstClose(t) => /\ price'[t][Today] = Scale(t, bought)
                            /\ \A d \in Day \ {Today} : price'[t][d] = price[t][d]
    BY <1>0, <1>6, BuyWrites
  <2>2. holding'[t].entry = Today /\ ~(Today < day)
    BY <1>0, <2>1, Calendar DEF Position
  <2>3. \A u \in Ticker : Held(u)' /\ holding'[u].entry < day => u # t /\ Held(u) /\ holding'[u] = holding[u]
    BY <2>1, <2>2 DEF Held
  <2>4. \A u \in Ticker, d \in Day : price[u][d] # NoClose => price'[u][d] # NoClose
    <3>1. Scale(t, bought) # NoClose
      BY <1>0, Calendar, ScaleGrows DEF NoClose
    <3> QED
      BY <2>1, <3>1
  <2>5. FreshOK'
    BY <1>0, <2>1, <2>3 DEF FreshInv, FreshOK, Fetching
  <2> QED
    BY <1>0, <2>1, <2>3, <2>4, <2>5, FreshStays
<1>7. ASSUME NEW t \in Ticker, SellAll(t)  PROVE FreshOK' /\ AsOfIsFresh' /\ stamp' <= day'
  <2>1. /\ UNCHANGED <<day, price, stamp, job>>
        /\ ~Held(t)' /\ \A u \in Ticker \ {t} : holding'[u] = holding[u]
    BY <1>0, <1>7, SellWrites
  <2>2. \A u \in Ticker : Held(u)' => Held(u) /\ holding'[u] = holding[u]
    BY <2>1 DEF Held
  <2>3. FreshOK'
    BY <1>0, <2>1, <2>2 DEF FreshInv, FreshOK, Fetching
  <2> QED
    BY <1>0, <2>1, <2>2, <2>3, FreshStays
<1>8. ASSUME Commit  PROVE FreshOK' /\ AsOfIsFresh' /\ stamp' <= day'
  <2>1. /\ Fetching /\ job.todo = {} /\ job' = NoJob /\ UNCHANGED day
        /\ stamp' = (IF job.failed = {} THEN day ELSE stamp)
        /\ \A t \in Ticker : WrittenOK(t)
    BY <1>0, <1>8, CommitWrites
  <2>2. FreshOK'
    BY <2>1 DEF FreshOK, Fetching, NoJob
  <2>3. ASSUME NEW t \in Ticker, Held(t)'
        PROVE  Held(t) /\ holding'[t].entry = holding[t].entry
    <3>1. Held(t) /\ holding'[t] = Adjusted(t)
      BY <2>1, <2>3 DEF WrittenOK
    <3>2. holding[t] \in Positions
      BY <1>0, <3>1, PositionFields
    <3> QED
      BY <3>1, <3>2 DEF Adjusted, Positions
  <2>4. \A t \in Ticker, d \in Day :
           /\ price[t][d] # NoClose => price'[t][d] # NoClose
           /\ job.rows[t][d] # NoClose => price'[t][d] # NoClose
    BY <2>1 DEF WrittenOK, Resulting
  <2>5. CASE job.failed # {}
    <3>1. stamp' = stamp
      BY <2>1, <2>5
    <3>2. AsOfIsFresh' /\ stamp' <= day'
      BY <1>0, <2>1, <2>3, <2>4, <3>1, FreshStays
    <3> QED
      BY <2>2, <3>2
  <2>6. CASE job.failed = {}
    <3>1. stamp' = day /\ day \in Day /\ stamp' <= day'
      BY <1>0, <2>1, <2>6, Calendar
    <3>2. ASSUME NEW t \in Ticker, day \notin gap[t], Held(t)', holding'[t].entry < day
          PROVE  price'[t][day] # NoClose
      <4>1. job.rows[t][day] # NoClose
        BY <2>1, <2>3, <2>6, <3>2 DEF FreshInv, FreshOK
      <4> QED
        BY <2>4, <3>1, <4>1
    <3>3. AsOfIsFresh'
      BY <1>0, <3>1, <3>2 DEF AsOfIsFresh
    <3> QED
      BY <2>2, <3>1, <3>3
  <2> QED
    BY <2>5, <2>6
<1>9. ASSUME Abort \/ UNCHANGED vars  PROVE FreshOK' /\ AsOfIsFresh' /\ stamp' <= day'
  <2>1. UNCHANGED <<day, holding, price, stamp>> /\ (job' = NoJob \/ job' = job)
    BY <1>9 DEF Abort, vars
  <2>2. FreshOK'
    BY <1>0, <2>1 DEF FreshInv, FreshOK, Fetching, NoJob, Held
  <2> QED
    BY <1>0, <2>1, <2>2, FreshStays DEF Held
<1> QED
  BY <1>0, <1>1, <1>2, <1>3, <1>4, <1>5, <1>6, <1>7, <1>8, <1>9, Steps DEF Buy

(* The inductive invariant behind last_refresh. *)
THEOREM FreshInvariance == Spec => []FreshInv
  BY FreshInit, FreshStep, PTL DEF Spec

(* last_refresh marks a fully successful run: every position that was there *)
(* on its day has the close of that day, unless the provider has none,      *)
(* whatever runs fail, abort or race with trades.                           *)
THEOREM Fresh == Spec => []AsOfIsFresh
<1>1. FreshInv => AsOfIsFresh
  BY DEF FreshInv
<1> QED
  BY <1>1, FreshInvariance, PTL

-----------------------------------------------------------------------------
(* When no close is missing on the day of a split, the splits a fetch finds *)
(* are new to the stored closes and visible in the new ones; and when it    *)
(* goes back far enough, they are all of these.                             *)
Found(t) ==
    /\ NewSplits(t) \in SUBSET split[t] /\ split[t] \in SUBSET Day
    /\ \A s \in NewSplits(t) : Later(Last(t), ImportDay) < s /\ s <= NextLast(t)'
    /\ HistoryCovers => NewSplits(t) = {s \in split[t] : /\ Later(Last(t), ImportDay) < s
                                                     /\ s <= Later(NextLast(t)', ImportDay)}
    /\ Last(t) \in Int /\ NextLast(t)' \in Int /\ Last(t) <= NextLast(t)'

(* A fetch finds exactly those splits. *)
LEMMA FetchFinds ==
  ASSUME Core, ~SplitGaps, NEW t \in Ticker, Fetch(t)
  PROVE  Found(t)
<1>0. TypeOK /\ ReadOK(t) /\ t \in job.todo /\ Fetching
  BY FetchAdds DEF Core, Base, JobOK
<1>1. /\ split[t] \in SUBSET Day /\ gap[t] \cap split[t] = {}
      /\ Last(t) \in Int /\ ImportDay \in Int /\ day \in Int /\ \A d \in Day : d \in Int
      /\ job.start[t] \in Int
  BY <1>0, Calendar, PositionFields, RunFields DEF TypeOK, Core, Base, HistoryOK
<1>2. Boundary(t) = Later(Last(t), ImportDay)
  BY <1>0, <1>1, MaxOfTwo DEF Boundary, ReadOK
<1>3. /\ \A d \in Day : Resulting(t)'[d] # NoClose <=> d \in Downloaded(t) \/ price[t][d] # NoClose
      /\ Resulting(t)' \in Closes /\ NextLast(t)' = LastOf(Resulting(t)')
      /\ Last(t) <= NextLast(t)'
      /\ \A d \in Day : price[t][d] # NoClose => d <= Last(t)
  BY FetchedResult DEF FetchedOK
<1>4. /\ NextLast(t)' \in Int
      /\ NextLast(t)' # Never => NextLast(t)' \in Day /\ Resulting(t)'[NextLast(t)'] # NoClose
      /\ \A d \in Day : Resulting(t)'[d] # NoClose => d <= NextLast(t)'
  BY <1>3, LastClose
<1>5. ASSUME NEW s \in NewSplits(t)
      PROVE  s \in split[t] /\ Later(Last(t), ImportDay) < s /\ s <= NextLast(t)'
  <2>1. s \in split[t] /\ s \in Downloaded(t) /\ Later(Last(t), ImportDay) < s
    BY <1>1, <1>2, <1>5 DEF NewSplits, Downloaded
  <2> QED
    BY <1>1, <1>3, <1>4, <2>1
<1>6. ASSUME HistoryCovers, NEW s \in split[t],
             Later(Last(t), ImportDay) < s, s <= Later(NextLast(t)', ImportDay)
      PROVE  s \in NewSplits(t)
  <2>1. s \in Int /\ Last(t) < s /\ ImportDay < s /\ s <= NextLast(t)'
    BY <1>1, <1>4, <1>6 DEF Later
  <2>2. job.start[t] <= s
    BY <1>0, <1>1, <1>6, <2>1 DEF ReadOK, Later
  <2>3. NextLast(t)' # Never
    BY <1>1, <1>4, <2>1, DaysAssumption DEF Never
  <2>4. NextLast(t)' \in Downloaded(t)
    <3>1. NextLast(t)' \in Day /\ ~(NextLast(t)' <= Last(t))
      BY <1>1, <1>4, <2>1, <2>3
    <3> QED
      BY <1>3, <1>4, <2>3, <3>1
  <2>5. s <= day
    BY <1>1, <1>4, <2>1, <2>4 DEF Downloaded
  <2> QED
    BY <1>2, <1>6, <2>2, <2>5 DEF NewSplits
<1>7. NewSplits(t) \in SUBSET split[t]
  BY <1>5
<1>8. ASSUME HistoryCovers
      PROVE  NewSplits(t) = {s \in split[t] : /\ Later(Last(t), ImportDay) < s
                                            /\ s <= Later(NextLast(t)', ImportDay)}
  <2>1. ASSUME NEW s \in NewSplits(t)  PROVE s <= Later(NextLast(t)', ImportDay)
    <3>1. s \in Int /\ s <= NextLast(t)'
      BY <1>1, <1>5
    <3> QED
      BY <1>1, <1>4, <3>1 DEF Later
  <2> HIDE DEF NextLast
  <2> QED
    BY <1>5, <1>6, <1>8, <2>1
<1> QED
  BY <1>1, <1>3, <1>4, <1>5, <1>7, <1>8 DEF Found

(* No close is adjusted for more splits than the fetch can see. *)
LEMMA FetchedWithinScale ==
  ASSUME Core, ~SplitGaps, ClosesNotOverAdjusted, NEW t \in Ticker, Fetch(t)
  PROVE  ResultOK(t)'
<1>0. TypeOK /\ Found(t) /\ split' = split
  BY FetchFinds, FetchAdds DEF Core, Base, world, history
<1>1. ASSUME NEW d \in Day  PROVE FetchedCloses(t)[d] <= Scale(t, NextLast(t)')
  <2> DEFINE B == {s \in NewSplits(t) : d < s}
             C == {s \in split[t] : s <= NextLast(t)'}
  <2>1. B \in SUBSET C /\ C \in SUBSET Day /\ d \in Int
    BY <1>0, Calendar DEF Found
  <2>2. Cardinality(B) \in Nat /\ Cardinality(C) \in Nat /\ Scale(t, NextLast(t)') = Cardinality(C)
    <3> HIDE DEF B
    <3> QED
      BY <2>1, DaysFinite, CountedWithin DEF Scale
  <2>3. ASSUME NEW a \in Int, a <= NextLast(t)', \A s \in B : a < s
        PROVE  Scale(t, a) + Cardinality(B) <= Cardinality(C)
    <3> DEFINE A == {s \in split[t] : s <= a}
    <3>1. A \in SUBSET C /\ A \cap B = {}
      BY <1>0, <2>3, Calendar DEF Found
    <3> HIDE DEF A, B, C
    <3>2. A \cup B \in SUBSET C /\ A \in SUBSET Day /\ B \in SUBSET Day
      BY <2>1, <3>1
    <3>3. Cardinality(A \cup B) = Cardinality(A) + Cardinality(B) /\ Cardinality(A \cup B) <= Cardinality(C)
      BY <2>1, <3>1, <3>2, CountedByParts, CountedWithin
    <3> QED
      BY <3>3 DEF Scale, A
  <2>4. CASE Raw(t, d) = NoClose
    <3>1. FetchedCloses(t)[d] = -1
      BY <2>4 DEF FetchedCloses, NoClose
    <3> HIDE DEF C
    <3> QED
      BY <2>2, <3>1
  <2>5. CASE Raw(t, d) # NoClose
    <3>1. FetchedCloses(t)[d] = Raw(t, d) + Cardinality(B)
      BY <2>5 DEF FetchedCloses
    <3>2. \E a \in Int : Raw(t, d) <= Scale(t, a) /\ a <= NextLast(t)' /\ \A s \in B : a < s
      <4>1. CASE d \in Downloaded(t)
        <5>1. Raw(t, d) = Scale(t, d) /\ Scale(t, d) \in Nat
          BY <1>0, <2>1, <4>1, ScaleGrows DEF Raw
        <5>2. d <= NextLast(t)'
          <6>1. /\ Resulting(t)'[d] # NoClose /\ Resulting(t)' \in Closes
                /\ NextLast(t)' = LastOf(Resulting(t)')
            BY <4>1, FetchedResult DEF FetchedOK
          <6> QED
            BY <6>1, LastClose
        <5> QED
          BY <2>1, <5>1, <5>2
      <4>2. CASE d \notin Downloaded(t)
        <5>1. Raw(t, d) <= Scale(t, Last(t))
          BY <4>2 DEF Raw, ClosesNotOverAdjusted
        <5>2. \A s \in B : Last(t) < s
          BY <1>0, Calendar DEF Found, Later
        <5> QED
          BY <1>0, <5>1, <5>2 DEF Found
      <4> QED
        BY <4>1, <4>2
    <3>3. PICK a \in Int : Raw(t, d) <= Scale(t, a) /\ a <= NextLast(t)' /\ \A s \in B : a < s
      BY <3>2
    <3>4. Scale(t, a) + Cardinality(B) <= Cardinality(C)
      BY <2>3, <3>3
    <3>5. Scale(t, a) \in Nat
      BY <1>0, <3>3, ScaleGrows
    <3>6. Raw(t, d) \in Int
      <4>1. \A e \in Day : Raw(t, e) \in Nat \cup {NoClose}
        BY <1>0, FetchAdds
      <4>2. Raw(t, d) \in Nat
        BY <2>5, <4>1
      <4> QED
        BY <4>2
    <3> HIDE DEF B, C
    <3> QED
      BY <2>2, <3>1, <3>3, <3>4, <3>5, <3>6
  <2> QED
    BY <2>4, <2>5
<1>2. \A d \in Day : Resulting(t)'[d] = FetchedCloses(t)[d]
  BY FetchedResult DEF FetchedOK
<1>3. Scale(t, NextLast(t))' = Scale(t, NextLast(t)')
  BY <1>0 DEF Scale
<1> QED
  BY <1>1, <1>2, <1>3 DEF ResultOK

(* No close is stored at the start, ... *)
LEMMA ClosesInit == Init => ClosesInv
<1> SUFFICES ASSUME Init  PROVE ClosesInv
  OBVIOUS
<1>1. Core /\ TypeOK
  BY CoreInit DEF Core, Base
<1>2. ASSUME NEW t \in Ticker, NEW d \in Day  PROVE price[t][d] <= Scale(t, Last(t))
  <2>1. price[t][d] = -1
    BY DEF Init, NoClose
  <2>2. Scale(t, Last(t)) \in Nat
    BY <1>1, PositionFields, ScaleGrows
  <2> QED
    BY <2>1, <2>2
<1> QED
  BY <1>1, <1>2 DEF ClosesInv, Core, ClosesNotOverAdjusted, Init, NoJob, Fetching

(* ... and every step keeps the closes within their scale. *)
LEMMA ClosesStep ==
  ASSUME ~SplitGaps, ClosesInv, [Next]_vars
  PROVE  ClosesInv'
<1>0. TypeOK /\ Core /\ Core' /\ TypeOK' /\ split' = split
  BY CoreStep, HistoryStays DEF ClosesInv, Core, Base, history
<1> SUFFICES ClosesNotOverAdjusted' /\ (Fetching' => \A t \in Ticker : ResultOK(t)')
  BY <1>0 DEF ClosesInv, Core
<1>1. ASSUME NEW t \in Ticker, price'[t] = price[t]
      PROVE  /\ Last(t)' = Last(t) /\ \A d \in Day : price'[t][d] <= Scale(t, Last(t))'
             /\ Fetching /\ job'.rows[t] = job.rows[t] => ResultOK(t)'
  <2>1. Last(t)' = Last(t) /\ Scale(t, Last(t))' = Scale(t, Last(t))
    BY <1>0, <1>1 DEF Last, Scale
  <2>2. \A d \in Day : price'[t][d] <= Scale(t, Last(t))'
    BY <1>1, <2>1 DEF ClosesInv, ClosesNotOverAdjusted
  <2>3. ASSUME Fetching, job'.rows[t] = job.rows[t]  PROVE ResultOK(t)'
    <3>1. Resulting(t)' = Resulting(t) /\ NextLast(t)' = NextLast(t)
      BY <1>1, <2>3 DEF Resulting, NextLast
    <3>2. Scale(t, NextLast(t))' = Scale(t, NextLast(t))
      BY <1>0, <3>1 DEF Scale
    <3> QED
      BY <2>3, <3>1, <3>2 DEF ClosesInv, ResultOK
  <2> QED
    BY <2>1, <2>2, <2>3
<1>2. price' = price => ClosesNotOverAdjusted'
  BY <1>1 DEF ClosesNotOverAdjusted
<1>3. ASSUME price' = price, Fetching' => Fetching /\ job'.rows = job.rows
      PROVE  ClosesNotOverAdjusted' /\ (Fetching' => \A t \in Ticker : ResultOK(t)')
  BY <1>1, <1>2, <1>3
<1>4. ASSUME Clock \/ Repair \/ Abort \/ UNCHANGED vars
      PROVE  ClosesNotOverAdjusted' /\ (Fetching' => \A t \in Ticker : ResultOK(t)')
  <2>1. price' = price /\ (job' = job \/ job' = Repaired \/ job' = NoJob)
    BY <1>0, <1>4, ClockMoves DEF Repair, Abort, vars
  <2> QED
    BY <1>3, <2>1 DEF Fetching, Repaired, NoJob
<1>5. ASSUME NEW t \in Ticker, FetchFails(t) \/ SellAll(t)
      PROVE  ClosesNotOverAdjusted' /\ (Fetching' => \A u \in Ticker : ResultOK(u)')
  <2>1. price' = price /\ (Fetching' => Fetching /\ job'.rows = job.rows)
    BY <1>0, <1>5, FailureAdds, SellWrites DEF Fetching
  <2> QED
    BY <1>3, <2>1
<1>6. ASSUME Begin
      PROVE  ClosesNotOverAdjusted' /\ (Fetching' => \A t \in Ticker : ResultOK(t)')
  <2>1. price' = price
    BY <1>6 DEF Begin
  <2>2. ASSUME NEW t \in Ticker  PROVE ResultOK(t)'
    <3>1. Resulting(t)' = price[t] /\ NextLast(t)' = Last(t)
      BY <1>0, <1>6, CoreBegin
    <3>2. Scale(t, NextLast(t))' = Scale(t, Last(t))
      BY <1>0, <3>1 DEF Scale
    <3> QED
      BY <3>1, <3>2 DEF ResultOK, ClosesInv, ClosesNotOverAdjusted
  <2> QED
    BY <1>2, <2>1, <2>2
<1>7. ASSUME NEW t \in Ticker, Fetch(t)
      PROVE  ClosesNotOverAdjusted' /\ (Fetching' => \A u \in Ticker : ResultOK(u)')
  <2>1. price' = price /\ Fetching /\ job \in Run /\ job'.rows = [job.rows EXCEPT ![t] = FetchedCloses(t)]
    BY <1>0, <1>7, FetchAdds, RunFields
  <2>2. ResultOK(t)'
    BY <1>0, <1>7, FetchedWithinScale DEF ClosesInv
  <2>3. \A u \in Ticker \ {t} : ResultOK(u)'
    BY <1>1, <2>1 DEF Run
  <2> QED
    BY <1>2, <2>1, <2>2, <2>3
<1>8. ASSUME Commit
      PROVE  ClosesNotOverAdjusted' /\ (Fetching' => \A t \in Ticker : ResultOK(t)')
  <2>1. Fetching /\ job' = NoJob /\ \A t \in Ticker : WrittenOK(t)
    BY <1>0, <1>8, CommitWrites
  <2>2. ASSUME NEW t \in Ticker, NEW d \in Day  PROVE price'[t][d] <= Scale(t, Last(t))'
    <3>1. Last(t)' = NextLast(t) /\ price'[t] = Resulting(t)
      BY <1>0, <1>8, <2>1, CoreCommit DEF WrittenOK
    <3>2. Scale(t, Last(t))' = Scale(t, NextLast(t))
      BY <1>0, <3>1 DEF Scale
    <3> QED
      BY <2>1, <3>1, <3>2 DEF ClosesInv, ResultOK
  <2> QED
    BY <2>1, <2>2 DEF ClosesNotOverAdjusted, Fetching, NoJob
<1>9. ASSUME NEW t \in Ticker, NEW bought \in {day, Today}, BuyNew(t, bought)
      PROVE  ClosesNotOverAdjusted' /\ (Fetching' => \A u \in Ticker : ResultOK(u)')
  <2>1. job' = job /\ \A u \in Ticker \ {t} : price'[u] = price[u]
    BY <1>0, <1>9, BuyWrites
  <2>2. CASE ~FirstClose(t)
    BY <1>0, <1>3, <1>9, <2>1, <2>2, BuyWrites DEF Fetching
  <2>3. CASE FirstClose(t)
    <3>1. /\ price'[t][Today] = Scale(t, bought) /\ \A d \in Day \ {Today} : price'[t][d] = price[t][d]
          /\ Last(t)' = Today
      BY <1>0, <1>9, <2>3, BuyWrites, CoreBuy
    <3>0. Scale(t, bought) \in Nat /\ Scale(t, Today) \in Nat /\ Scale(t, bought) <= Scale(t, Today)
      <4>1. bought \in Int /\ Today \in Int /\ bought <= Today
        BY <1>0, Calendar
      <4> QED
        BY <1>0, <4>1, ScaleGrows
    <3>2. \A d \in Day \ {Today} : price[t][d] = NoClose
      <4>1. price[t] \in Closes /\ LastOf(price[t]) = Never
        BY <1>0, <2>3, LastStored DEF TypeOK, FirstClose
      <4> TAKE d \in Day \ {Today}
      <4>2. price[t][d] # NoClose => d <= LastOf(price[t])
        BY <4>1, LastClose
      <4>3. Never < d /\ Never \in Int /\ d \in Int
        BY <1>0, Calendar
      <4> QED
        BY <4>1, <4>2, <4>3
    <3>3. ASSUME NEW d \in Day  PROVE price'[t][d] <= Scale(t, Today)
      BY <3>0, <3>1, <3>2, <3>3 DEF NoClose
    <3>4. Scale(t, Last(t))' = Scale(t, Today)
      BY <1>0, <3>1 DEF Scale
    <3>5. \A u \in Ticker, d \in Day : price'[u][d] <= Scale(u, Last(u))'
      <4> TAKE u \in Ticker, d \in Day
      <4>1. CASE u = t
        BY <3>3, <3>4, <4>1
      <4>2. CASE u # t
        BY <1>1, <2>1, <4>2
      <4> QED
        BY <4>1, <4>2
    <3>6. ASSUME Fetching  PROVE ResultOK(t)'
      <4>1. NextLast(t)' = Today /\ ~Fetched(t)
        BY <1>0, <1>9, <2>3, <3>6, CoreBuy
      <4>2. \A d \in Day : Resulting(t)'[d] = price'[t][d]
        BY <2>1, <4>1 DEF Resulting, Fetched
      <4>3. Scale(t, NextLast(t))' = Scale(t, Today)
        BY <1>0, <4>1 DEF Scale
      <4> QED
        BY <3>3, <4>2, <4>3 DEF ResultOK
    <3>7. \A u \in Ticker \ {t} : Fetching => ResultOK(u)'
      BY <1>1, <2>1
    <3> QED
      BY <2>1, <3>5, <3>6, <3>7 DEF ClosesNotOverAdjusted, Fetching
  <2> QED
    BY <2>2, <2>3
<1> QED
  BY <1>0, <1>4, <1>5, <1>6, <1>7, <1>8, <1>9, Steps DEF Buy

(* When the provider has the close of the day of every split, no stored     *)
(* close is ever adjusted for a split twice, or for one after the data of   *)
(* its ticker, whatever is repeated, backfilled or bought meanwhile.        *)
THEOREM NotOverAdjusted ==
  ASSUME ~SplitGaps
  PROVE  Spec => []ClosesNotOverAdjusted
<1>1. Init => ClosesInv
  BY ClosesInit
<1>2. ClosesInv /\ [Next]_vars => ClosesInv'
  BY ClosesStep
<1>3. ClosesInv => ClosesNotOverAdjusted
  BY DEF ClosesInv
<1> QED
  BY <1>1, <1>2, <1>3, PTL DEF Spec

-----------------------------------------------------------------------------
(* What SplitsCountedOnce says of one position. *)
SharesOK(t) ==
    holding[t].scale + Cardinality(Missed(t)) = Scale(t, Seen(t)) + (IF AwaitsRepair(t) THEN 1 ELSE 0)
BenchOK(t) ==
    t \in Stock /\ ~holding[t].traded =>
        holding[t].bench = Scale(Benchmark, Max({Last(Benchmark), ImportDay}))
CountedOK(t) == Held(t) => SharesOK(t) /\ BenchOK(t)

(* Position by position, it is the same. *)
LEMMA CountedOneByOne == SplitsCountedOnce <=> \A t \in Ticker : CountedOK(t)
  BY DEF SplitsCountedOnce, CountedOK, SharesOK, BenchOK

(* The splits that a position missed are a number of days, none for those   *)
(* that were not bought, ...                                                *)
LEMMA MissedCounted ==
  ASSUME TypeOK, NEW t \in Ticker, Held(t)
  PROVE  /\ Missed(t) \in SUBSET Day /\ Cardinality(Missed(t)) \in Nat
         /\ holding[t].entry = Never => Cardinality(Missed(t)) = 0
<1>1. split[t] \in SUBSET Day
  BY DEF TypeOK
<1>2. Missed(t) \in SUBSET Day
  BY <1>1 DEF Missed
<1>3. holding[t].entry = Never => Missed(t) = {}
  BY <1>1, Calendar DEF Missed
<1> QED
  BY <1>2, <1>3, DaysFinite, FS_EmptySet

(* ... and they stay the same. *)
LEMMA MissedStays ==
  ASSUME NEW t \in Ticker, split' = split,
         holding'[t].since = holding[t].since, holding'[t].entry = holding[t].entry
  PROVE  Missed(t)' = Missed(t)
  BY DEF Missed

(* The day up to which a position has seen its splits. *)
LEMMA SeenIs ==
  ASSUME TypeOK, NEW t \in Ticker, Held(t)
  PROVE  /\ Seen(t) = Later(Later(Last(t), ImportDay), holding[t].entry) /\ Seen(t) \in Int
         /\ ImportDay \in Int /\ ImportDay <= Seen(t)
<1>1. Last(t) \in Int /\ ImportDay \in Int /\ holding[t].entry \in Int
  BY PositionFields, Calendar
<1>2. Seen(t) = Later(Later(Last(t), ImportDay), holding[t].entry)
  BY <1>1, MaxOfThree DEF Seen
<1> QED
  BY <1>1, <1>2 DEF Later

(* The same day for the benchmark, which is no stock. *)
LEMMA BenchmarkSeen ==
  ASSUME TypeOK
  PROVE  /\ Benchmark \in Ticker /\ Benchmark \notin Stock
         /\ Last(Benchmark) \in Int /\ ImportDay \in Int
         /\ Max({Last(Benchmark), ImportDay}) = Later(Last(Benchmark), ImportDay)
  BY TickersAssumption, PositionFields, Calendar, MaxOfTwo

(* A position stays right when neither it nor the last closes change. *)
LEMMA CountedStays ==
  ASSUME NEW t \in Ticker, CountedOK(t), split' = split, marker' = marker,
         Last(t)' = Last(t), Last(Benchmark)' = Last(Benchmark), holding'[t] = holding[t]
  PROVE  CountedOK(t)'
<1>1. Seen(t)' = Seen(t) /\ (AwaitsRepair(t)' <=> AwaitsRepair(t)) /\ Held(t)' = Held(t)
  BY DEF Seen, AwaitsRepair, Held
<1>2. Scale(t, Seen(t))' = Scale(t, Seen(t))
  BY <1>1 DEF Scale
<1>3. SharesOK(t) => SharesOK(t)'
  BY <1>1, <1>2, MissedStays DEF SharesOK
<1>4. BenchOK(t) => BenchOK(t)'
  BY DEF BenchOK, Scale
<1> QED
  BY <1>1, <1>3, <1>4 DEF CountedOK

(* The splits to apply stay right when nothing of the ticker changes. *)
LEMMA NewStays ==
  ASSUME NEW t \in Ticker, NewOK(t), split' = split, price'[t] = price[t],
         job'.rows[t] = job.rows[t], job'.new[t] = job.new[t]
  PROVE  NewOK(t)'
<1>1. Last(t)' = Last(t) /\ NextLast(t)' = NextLast(t)
  BY DEF Last, NextLast, Resulting
<1> QED
  BY <1>1 DEF NewOK

(* Nothing awaits its repair once the job has begun. *)
LEMMA NoneAwait ==
  ASSUME RepairedFirst, job # NoJob, NEW t \in Ticker, Held(t)
  PROVE  ~AwaitsRepair(t)
  BY DEF RepairedFirst

(* The repair changes inflated positions, by the splits counted twice. *)
LEMMA RepairIsRight ==
  ASSUME NoneMistaken, SplitsInv, NEW t \in Ticker, Suspect(t)
  PROVE  /\ AwaitsRepair(t) /\ Seen(t) = ImportDay
         /\ holding[t].scale > Scale(t, Seen(t))
<1>0. TypeOK /\ Core /\ t \in Stock /\ Held(t) /\ holding[t].scale > Scale(t, ImportDay) /\ SharesOK(t)
  BY CountedOneByOne DEF SplitsInv, Core, Base, Suspect, CountedOK
<1>1. PositionOK(t) /\ ~holding[t].traded /\ t \notin marker
  BY <1>0 DEF Core, Base, Suspect
<1>2. AwaitsRepair(t)
  <2> SUFFICES ASSUME t \notin Inflated  PROVE FALSE
    BY <1>1 DEF AwaitsRepair
  <2>1. holding[t].scale + Cardinality(Missed(t)) = Scale(t, Seen(t)) + 0
        /\ Cardinality(Missed(t)) \in Nat
    BY <1>0, MissedCounted DEF SharesOK, AwaitsRepair
  <2>2. ImportDay \in Int /\ Seen(t) \in Int /\ ImportDay <= Seen(t)
    BY <1>0, SeenIs
  <2>3. \A s \in split[t] : s <= ImportDay
    <3>1. split[t] \subseteq SplitDays[t]
      BY <1>0 DEF Core, Base, HistoryOK
    <3>2. SplitDays[t] \subseteq 1..ImportDay
      BY <1>0 DEF NoneMistaken
    <3> QED
      BY <2>2, <3>1, <3>2
  <2>4. {s \in split[t] : s <= Seen(t)} = {s \in split[t] : s <= ImportDay}
    <3>1. \A s \in split[t] : s \in Int
      BY <1>0, Calendar DEF TypeOK
    <3> QED
      BY <2>2, <2>3, <3>1
  <2>5. Scale(t, Seen(t)) = Scale(t, ImportDay) /\ Scale(t, ImportDay) \in Nat
    BY <1>0, <2>2, <2>4, ScaleGrows DEF Scale
  <2>6. holding[t].scale \in Nat
    BY <1>0, PositionFields
  <2> QED
    BY <1>0, <2>1, <2>5, <2>6
<1>3. Last(t) = Never /\ holding[t].entry = Never
  BY <1>0, <1>1, <1>2 DEF SplitsInv, RepairedFirst, PositionOK
<1>4. Seen(t) = ImportDay
  <2>1. Seen(t) = Later(Later(Never, ImportDay), Never) /\ Never \in Int /\ Never < ImportDay
    BY <1>0, <1>3, SeenIs, Calendar
  <2> QED
    BY <1>0, <2>1, Calendar DEF Later
<1> QED
  BY <1>0, <1>2, <1>4

(* The part of SplitsInv that a step has to keep. *)
SplitsOK ==
    /\ RepairedFirst
    /\ \A t \in Ticker : CountedOK(t)
    /\ Fetching => \A t \in Ticker : NewOK(t)

(* Together with what is true of the tables and the job, it is SplitsInv. *)
LEMMA SplitsByParts == SplitsInv <=> Core /\ SplitsOK
  BY CountedOneByOne DEF SplitsInv, SplitsOK, Core

(* The workbook counts every split up to the import. *)
LEMMA SplitsInit == Init => SplitsInv
<1> SUFFICES ASSUME Init  PROVE SplitsOK
  BY CoreInit, SplitsByParts
<1>0. TypeOK /\ Core
  BY CoreInit DEF Core, Base
<1>1. \A t \in Ticker : Last(t) = Never
  <2> TAKE t \in Ticker
  <2>1. price[t] \in Closes /\ \A d \in Day : price[t][d] = NoClose
    BY <1>0 DEF Init, TypeOK
  <2> QED
    BY <2>1, LastStored, LastClose
<1>2. job = NoJob /\ marker = {} /\ ~Fetching
  BY DEF Init, NoJob, Fetching
<1>3. ASSUME NEW t \in Ticker, Held(t)  PROVE SharesOK(t) /\ BenchOK(t)
  <2>1. holding[t] = Position(Never, Never, Scale(t, ImportDay) + (IF t \in Inflated THEN 1 ELSE 0),
                       IF t \in Stock THEN Scale(Benchmark, ImportDay) ELSE 0, FALSE)
    BY <1>3 DEF Init, Held, NotHeld
  <2>2. /\ holding[t].entry = Never /\ ~holding[t].traded
        /\ holding[t].scale = Scale(t, ImportDay) + (IF t \in Inflated THEN 1 ELSE 0)
        /\ t \in Stock => holding[t].bench = Scale(Benchmark, ImportDay)
    BY <2>1 DEF Position
  <2>3. AwaitsRepair(t) <=> t \in Inflated
    BY <1>2, <2>2 DEF AwaitsRepair
  <2>4. Later(Never, ImportDay) = ImportDay /\ Later(ImportDay, Never) = ImportDay
    BY <1>0, Calendar DEF Later
  <2>5. Seen(t) = ImportDay
    BY <1>0, <1>1, <1>3, <2>2, <2>4, SeenIs
  <2>6. Max({Last(Benchmark), ImportDay}) = ImportDay
    BY <1>0, <1>1, <2>4, BenchmarkSeen
  <2>7. Cardinality(Missed(t)) = 0 /\ Scale(t, ImportDay) \in Nat
    BY <1>0, <1>3, <2>2, Calendar, MissedCounted, ScaleGrows
  <2> QED
    BY <2>2, <2>3, <2>5, <2>6, <2>7 DEF SharesOK, BenchOK
<1>4. RepairedFirst
  BY <1>1, <1>2 DEF RepairedFirst
<1> QED
  BY <1>2, <1>3, <1>4 DEF SplitsOK, CountedOK

(* A step that leaves the tables alone. *)
LEMMA SplitsStay ==
  ASSUME SplitsInv, UNCHANGED <<split, holding, price, marker>>,
         job' = NoJob \/ job' = job \/ (job # NoJob /\ (Fetching' => \A t \in Ticker : NewOK(t)'))
  PROVE  SplitsOK'
<1>1. /\ \A t \in Ticker : Last(t)' = Last(t) /\ (AwaitsRepair(t)' <=> AwaitsRepair(t))
                          /\ (Held(t)' <=> Held(t))
      /\ Last(Benchmark)' = Last(Benchmark)
  BY DEF Last, AwaitsRepair, Held
<1>2. \A t \in Ticker : CountedOK(t)'
  BY <1>1, CountedStays, CountedOneByOne DEF SplitsInv
<1>3. RepairedFirst'
  <2> SUFFICES ASSUME NEW t \in Ticker, Held(t), AwaitsRepair(t)  PROVE job' = NoJob /\ Last(t)' = Never
    BY <1>1 DEF RepairedFirst
  <2> QED
    BY <1>1 DEF SplitsInv, RepairedFirst
<1>4. Fetching' => \A t \in Ticker : NewOK(t)'
  <2>1. CASE job' = NoJob
    BY <2>1 DEF Fetching, NoJob
  <2>2. CASE job' = job
    BY <2>2, NewStays DEF SplitsInv, Fetching
  <2> QED
    BY <2>1, <2>2
<1> QED
  BY <1>2, <1>3, <1>4 DEF SplitsOK

(* The repair takes away what was counted twice, ... *)
LEMMA SplitsRepair ==
  ASSUME NoneMistaken, SplitsInv, Repair
  PROVE  SplitsOK'
<1>0. Core /\ TypeOK /\ \A t \in Ticker : CountedOK(t)
  BY CountedOneByOne DEF SplitsInv, Core, Base
<1>1. /\ holding' = [t \in Ticker |->
            IF Suspect(t) THEN [holding[t] EXCEPT !.scale = Scale(t, ImportDay)] ELSE holding[t]]
      /\ marker' = marker \cup {t \in Ticker : Suspect(t)}
      /\ split' = split /\ price' = price /\ job' = Repaired
  BY DEF Repair, world, history
<1>2. ~Fetching'
  BY <1>1 DEF Fetching, Repaired
<1>3. \A t \in Ticker : Last(t)' = Last(t)
  BY <1>1 DEF Last
<1>4. ASSUME NEW t \in Ticker, Suspect(t)
      PROVE  /\ Held(t) /\ Held(t)' /\ t \in marker'
             /\ holding'[t].entry = holding[t].entry /\ holding'[t].traded = holding[t].traded
             /\ holding'[t].since = holding[t].since
             /\ holding'[t].bench = holding[t].bench /\ holding'[t].scale = Scale(t, ImportDay)
  <2>1. Held(t) /\ holding[t] \in Positions
    BY <1>0, <1>4, PositionFields DEF Suspect
  <2>2. holding'[t] = [holding[t] EXCEPT !.scale = Scale(t, ImportDay)] /\ t \in marker'
    BY <1>1, <1>4
  <2> QED
    BY <2>1, <2>2 DEF Positions, Held
<1>5. ASSUME NEW t \in Ticker, ~Suspect(t)
      PROVE  holding'[t] = holding[t] /\ (Held(t)' <=> Held(t)) /\ (AwaitsRepair(t)' <=> AwaitsRepair(t))
  BY <1>1, <1>5 DEF Held, AwaitsRepair
<1>6. ASSUME NEW t \in Ticker  PROVE CountedOK(t)'
  <2>0. Last(t)' = Last(t) /\ Last(Benchmark)' = Last(Benchmark)
    BY <1>1 DEF Last
  <2>1. CASE Suspect(t)
    <3>1. AwaitsRepair(t) /\ Seen(t) = ImportDay /\ SharesOK(t) /\ BenchOK(t)
      BY <1>0, <1>4, <2>1, RepairIsRight DEF CountedOK
    <3>2. Seen(t)' = ImportDay /\ ~AwaitsRepair(t)'
      BY <1>4, <2>0, <2>1, <3>1 DEF Seen, AwaitsRepair
    <3>3. Scale(t, Seen(t))' = Scale(t, ImportDay) /\ Scale(t, ImportDay) \in Nat
      BY <1>0, <1>1, <3>2, Calendar, ScaleGrows DEF Scale
    <3>6. Cardinality(Missed(t))' = 0
      <4>1. holding[t].entry = Never
        BY <1>0, <1>4, <2>1 DEF Core, Base, PositionOK, Suspect
      <4> QED
        BY <1>0, <1>1, <1>4, <2>1, <4>1, MissedCounted, MissedStays
    <3>4. SharesOK(t)'
      BY <1>4, <2>1, <3>2, <3>3, <3>6 DEF SharesOK
    <3>5. BenchOK(t)'
      BY <1>1, <1>4, <2>0, <2>1, <3>1 DEF BenchOK, Scale
    <3> QED
      BY <3>4, <3>5 DEF CountedOK
  <2>2. CASE ~Suspect(t)
    <3>1. Seen(t)' = Seen(t)
      BY <1>5, <2>0, <2>2 DEF Seen
    <3>2. Scale(t, Seen(t))' = Scale(t, Seen(t))
      BY <1>1, <3>1 DEF Scale
    <3>3. SharesOK(t) => SharesOK(t)'
      BY <1>1, <1>5, <2>2, <3>2, MissedStays DEF SharesOK
    <3>4. BenchOK(t) => BenchOK(t)'
      BY <1>1, <1>5, <2>0, <2>2 DEF BenchOK, Scale
    <3> QED
      BY <1>0, <1>5, <2>2, <3>3, <3>4 DEF CountedOK
  <2> QED
    BY <2>1, <2>2
<1>7. RepairedFirst'
  <2> SUFFICES ASSUME NEW t \in Ticker, Held(t)', AwaitsRepair(t)'  PROVE FALSE
    BY DEF RepairedFirst
  <2>1. ~Suspect(t)
    BY <1>4 DEF AwaitsRepair
  <2>2. Held(t) /\ AwaitsRepair(t) /\ SharesOK(t) /\ PositionOK(t)
    BY <1>0, <1>5, <2>1 DEF CountedOK, Core, Base
  <2>3. Last(t) = Never /\ ~holding[t].traded /\ t \in workbook /\ holding[t].entry = Never
        /\ t \in Stock /\ t \notin marker
    BY <2>2, TickersAssumption DEF SplitsInv, RepairedFirst, PositionOK, AwaitsRepair
  <2>4. Seen(t) = ImportDay
    <3>1. Later(Later(Never, ImportDay), Never) = ImportDay
      BY <1>0, Calendar DEF Later
    <3> QED
      BY <1>0, <2>2, <2>3, <3>1, SeenIs
  <2>5. Scale(t, ImportDay) \in Nat
    BY <1>0, Calendar, ScaleGrows
  <2>7. Cardinality(Missed(t)) = 0 /\ holding[t].scale \in Nat
    BY <1>0, <2>2, <2>3, MissedCounted, PositionFields
  <2>6. holding[t].scale = Scale(t, ImportDay) + 1
    BY <2>2, <2>4, <2>7 DEF SharesOK
  <2> QED
    BY <2>1, <2>2, <2>3, <2>5, <2>6 DEF Suspect
<1> QED
  BY <1>2, <1>6, <1>7 DEF SplitsOK

(* ... a fetch finds the splits that its closes reveal, ... *)
LEMMA SplitsFetch ==
  ASSUME ~SplitGaps, HistoryCovers, SplitsInv, NEW t \in Ticker, Fetch(t)
  PROVE  SplitsOK'
<1>0. Core /\ TypeOK
  BY DEF SplitsInv, Core, Base
<1>1. /\ UNCHANGED <<split, holding, price, marker>> /\ Fetching /\ job \in Run
      /\ job'.new = [job.new EXCEPT ![t] = NewSplits(t)]
      /\ job'.rows = [job.rows EXCEPT ![t] = FetchedCloses(t)]
  BY <1>0, FetchAdds, RunFields DEF world, history
<1>2. \A u \in Ticker \ {t} : NewOK(u)'
  BY <1>1, NewStays DEF SplitsInv, Run
<1>3. NewOK(t)'
  <2>1. job'.new[t] = NewSplits(t) /\ Last(t)' = Last(t) /\ Found(t)
    BY <1>0, <1>1, FetchFinds DEF Run, Last
  <2> QED
    BY <1>1, <2>1 DEF Found, NewOK
<1>4. job # NoJob
  BY <1>1 DEF Fetching, NoJob
<1> QED
  BY <1>1, <1>2, <1>3, <1>4, SplitsStay

(* ... a job begins with none to apply ... *)
LEMMA SplitsBegin ==
  ASSUME SplitsInv, Begin
  PROVE  SplitsOK'
<1>0. Core /\ TypeOK /\ TypeOK'
  BY BeginType DEF SplitsInv, Core, Base
<1>1. UNCHANGED <<split, holding, price, marker>> /\ job # NoJob
  BY DEF Begin, world, history, Repaired, NoJob
<1>2. ASSUME NEW t \in Ticker  PROVE NewOK(t)'
  <2>1. job'.new[t] = {} /\ NextLast(t)' = Last(t) /\ Last(t)' = Last(t)
    BY <1>0, <1>1, CoreBegin DEF Last
  <2>2. Later(Last(t), ImportDay) \in Int /\ \A s \in split[t] : s \in Int
    BY <1>0, PositionFields, Calendar DEF TypeOK, Later
  <2>3. {s \in split[t] : Later(Last(t), ImportDay) < s /\ s <= Later(Last(t), ImportDay)} = {}
    BY <2>2
  <2> QED
    BY <1>1, <2>1, <2>3 DEF NewOK
<1> QED
  BY <1>1, <1>2, SplitsStay

(* The splits a commit adds to what has seen those up to a day, from where  *)
(* the closes were to where they will be.                                   *)
LEMMA SplitsAdded ==
  ASSUME TypeOK, NEW t \in Ticker, NewOK(t), NEW e \in Int,
         Last(t) \in Int, NextLast(t) \in Int, Last(t) <= NextLast(t)
  PROVE  /\ SplitsAfter(job.new[t], e) \in Nat
         /\ Scale(t, Later(Later(NextLast(t), ImportDay), e))
              = Scale(t, Later(Later(Last(t), ImportDay), e)) + SplitsAfter(job.new[t], e)
<1> DEFINE from == Later(Later(Last(t), ImportDay), e)
           to == Later(Later(NextLast(t), ImportDay), e)
<1>1. ImportDay \in Int /\ \A s \in split[t] : s \in Int
  BY Calendar DEF TypeOK
<1>2. from \in Int /\ to \in Int /\ from <= to
  BY <1>1 DEF Later
<1>3. {x \in job.new[t] : e < x} = {s \in split[t] : from < s /\ s <= to}
  <2>1. ASSUME NEW s \in split[t]
        PROVE  /\ Later(Last(t), ImportDay) < s /\ s <= Later(NextLast(t), ImportDay) /\ e < s
                    <=> from < s /\ s <= to
    BY <1>1 DEF Later
  <2> HIDE DEF from, to
  <2> QED
    BY <2>1 DEF NewOK
<1> HIDE DEF from, to
<1>4. \A N : N = {s \in split[t] : from < s /\ s <= to} =>
               /\ N \in SUBSET Day /\ Cardinality(N) \in Nat
               /\ Scale(t, to) = Scale(t, from) + Cardinality(N)
  BY <1>2, ScaleGrows
<1>5. SplitsAfter(job.new[t], e) = Cardinality({x \in job.new[t] : e < x})
  BY DEF SplitsAfter
<1> QED
  BY <1>3, <1>4, <1>5 DEF from, to

(* ... and applies each to the positions bought before it. *)
LEMMA SplitsCommit ==
  ASSUME SplitsInv, Commit
  PROVE  SplitsOK'
<1>0. /\ Core /\ TypeOK /\ TypeOK' /\ Fetching /\ job' = NoJob /\ split' = split /\ marker' = marker
      /\ \A t \in Ticker : WrittenOK(t) /\ NewOK(t) /\ CountedOK(t)
  BY TypeStep, CommitWrites, CountedOneByOne DEF SplitsInv, Core, Base, Next, world, history
<1>1. \A t \in Ticker : Last(t)' = NextLast(t) /\ Last(t) <= NextLast(t)
  BY <1>0, CoreCommit
<1>2. \A t \in Ticker : Last(t) \in Int /\ NextLast(t) \in Int
  <2> TAKE t \in Ticker
  <2>1. price'[t] \in Closes /\ price'[t] = Resulting(t)
    BY <1>0 DEF WrittenOK
  <2> QED
    BY <1>0, <2>1, PositionFields, LastClose DEF NextLast
<1>3. job # NoJob /\ ~Fetching'
  BY <1>0 DEF Fetching, NoJob
<1>4. ASSUME NEW t \in Ticker, Held(t)
      PROVE  /\ holding'[t].entry = holding[t].entry /\ holding'[t].traded = holding[t].traded
             /\ holding'[t].since = holding[t].since
             /\ holding'[t].scale = holding[t].scale + SplitsAfter(job.new[t], holding[t].entry)
             /\ t \in Stock =>
                  holding'[t].bench = holding[t].bench + SplitsAfter(job.new[Benchmark], holding[t].entry)
  <2>1. holding'[t] = Adjusted(t) /\ holding[t] \in Positions
    BY <1>0, <1>4, PositionFields DEF WrittenOK
  <2> QED
    BY <2>1 DEF Adjusted, Positions
<1>5. ASSUME NEW t \in Ticker, Held(t)  PROVE ~AwaitsRepair(t) /\ ~AwaitsRepair(t)'
  <2>1. ~AwaitsRepair(t)
    BY <1>3, <1>5, NoneAwait DEF SplitsInv
  <2> QED
    BY <1>0, <1>4, <1>5, <2>1 DEF AwaitsRepair
<1>6. ASSUME NEW t \in Ticker, Held(t)  PROVE SharesOK(t)'
  <2> DEFINE e == holding[t].entry
  <2>1. e \in Int /\ holding[t].scale \in Nat /\ Held(t)'
    BY <1>0, <1>6, PositionFields DEF WrittenOK
  <2>2. Seen(t) = Later(Later(Last(t), ImportDay), e)
    BY <1>0, <1>6, SeenIs
  <2>3. Seen(t)' = Later(Later(NextLast(t), ImportDay), e)
    <3>1. Seen(t)' = Max({NextLast(t), ImportDay, e})
      BY <1>1, <1>4, <1>6 DEF Seen
    <3>2. ImportDay \in Int
      BY <1>0, Calendar
    <3> HIDE DEF e
    <3> QED
      BY <1>2, <2>1, <3>1, <3>2, MaxOfThree
  <2>4. Scale(t, Seen(t))' = Scale(t, Later(Later(NextLast(t), ImportDay), e))
    BY <1>0, <2>3 DEF Scale
  <2>5. /\ holding[t].scale + Cardinality(Missed(t)) = Scale(t, Seen(t)) + 0
        /\ Cardinality(Missed(t)) \in Nat /\ Scale(t, Seen(t)) \in Nat
    <3>1. Seen(t) \in Int
      BY <1>0, <1>6, SeenIs
    <3> QED
      BY <1>0, <1>5, <1>6, <3>1, ScaleGrows, MissedCounted DEF CountedOK, SharesOK
  <2>8. Cardinality(Missed(t))' = Cardinality(Missed(t))
    BY <1>0, <1>4, <1>6, MissedStays
  <2>6. Scale(t, Later(Later(NextLast(t), ImportDay), e)) = Scale(t, Seen(t)) + SplitsAfter(job.new[t], e)
        /\ SplitsAfter(job.new[t], e) \in Nat
    BY <1>0, <1>1, <1>2, <2>1, <2>2, SplitsAdded
  <2>7. holding'[t].scale + Cardinality(Missed(t))' = Scale(t, Seen(t))' + 0
    BY <1>4, <1>6, <2>1, <2>4, <2>5, <2>6, <2>8
  <2> QED
    BY <1>5, <1>6, <2>7 DEF SharesOK
<1>7. ASSUME NEW t \in Ticker, Held(t)  PROVE BenchOK(t)'
  <2> SUFFICES ASSUME t \in Stock, ~holding[t].traded
               PROVE  holding'[t].bench = Scale(Benchmark, Max({Last(Benchmark), ImportDay}))'
    BY <1>4, <1>7 DEF BenchOK
  <2> DEFINE from == Later(Last(Benchmark), ImportDay)
             to == Later(NextLast(Benchmark), ImportDay)
  <2>1. Benchmark \in Ticker /\ holding[t].entry = Never /\ Never \in Int
    BY <1>0, <1>7, BenchmarkSeen, Calendar DEF Core, Base, PositionOK
  <2>2. holding[t].bench = Scale(Benchmark, from)
    BY <1>0, <1>7, BenchmarkSeen DEF CountedOK, BenchOK
  <2>3. Max({Last(Benchmark), ImportDay})' = to
    BY <1>0, <1>1, <2>1, BenchmarkSeen, <1>2, MaxOfTwo
  <2>4. Later(from, Never) = from /\ Later(to, Never) = to
    BY <1>0, <1>2, <2>1, Calendar DEF Later
  <2>5. Scale(Benchmark, to) = Scale(Benchmark, from) + SplitsAfter(job.new[Benchmark], Never)
    BY <1>0, <1>1, <1>2, <2>1, <2>4, SplitsAdded
  <2>6. Scale(Benchmark, Max({Last(Benchmark), ImportDay}))' = Scale(Benchmark, to)
    BY <1>0, <2>3 DEF Scale
  <2> HIDE DEF from, to
  <2> QED
    BY <1>4, <1>7, <2>1, <2>2, <2>5, <2>6
<1>8. ASSUME NEW t \in Ticker  PROVE CountedOK(t)'
  BY <1>0, <1>6, <1>7 DEF CountedOK, WrittenOK
<1>9. RepairedFirst'
  BY <1>0, <1>5 DEF RepairedFirst, WrittenOK
<1> QED
  BY <1>3, <1>8, <1>9 DEF SplitsOK

(* A purchase counts the splits up to the session it is made in, and misses *)
(* those between it and the date of the entry.                              *)
LEMMA SplitsBuy ==
  ASSUME SplitsInv, NEW t \in Ticker, NEW bought \in {day, Today}, BuyNew(t, bought)
  PROVE  SplitsOK'
<1>0. /\ Core /\ TypeOK /\ TypeOK' /\ \A u \in Ticker : CountedOK(u)
      /\ Today \in Int /\ Today \in Day /\ ImportDay \in Int /\ ImportDay <= Today
  <2>1. TypeOK
    BY DEF SplitsInv, Base
  <2>2. TypeOK'
    BY <2>1, BuyWrites DEF TypeOK, world, history, Positions
  <2> QED
    BY <2>1, <2>2, CountedOneByOne, Calendar DEF SplitsInv, Core
<1>1. /\ t \in Stock /\ ~Held(t) /\ marker' = marker /\ job' = job /\ split' = split
      /\ \A u \in Ticker \ {t} : holding'[u] = holding[u] /\ price'[u] = price[u]
      /\ holding'[t] = Position(Today, bought, Scale(t, bought), LatestBenchmark, TRUE)
      /\ ~FirstClose(t) => price' = price
  BY <1>0, BuyWrites DEF world, history
<1>2. /\ Core' /\ Today' = Today /\ \A u \in Ticker \ {t} : Last(u)' = Last(u)
      /\ FirstClose(t) => Last(t)' = Today
      /\ ~FirstClose(t) => Last(t)' = Last(t)
      /\ FirstClose(t) /\ Fetching => ~Fetched(t) /\ NextLast(t)' = Today
  BY <1>0, CoreBuy
<1>3. Benchmark # t /\ Benchmark \in Ticker /\ Last(Benchmark)' = Last(Benchmark)
  BY <1>1, <1>2, TickersAssumption
<1>4. /\ holding'[t].entry = Today /\ holding'[t].since = bought
      /\ holding'[t].scale = Scale(t, bought) /\ holding'[t].traded = TRUE
  BY <1>1 DEF Position
<1>5. ASSUME NEW u \in Ticker \ {t}
      PROVE  CountedOK(u)' /\ (Held(u)' <=> Held(u)) /\ (AwaitsRepair(u)' <=> AwaitsRepair(u))
  BY <1>0, <1>1, <1>2, <1>3, CountedStays DEF Held, AwaitsRepair
<1>6. ~AwaitsRepair(t)'
  BY <1>4 DEF AwaitsRepair
<1>7. CountedOK(t)'
  <2>1. Last(t)' \in Int /\ Last(t)' <= Today
    <3>1. Last(t) \in Int /\ Last(t) <= Today
      BY <1>0, PositionFields DEF Core, Base
    <3> QED
      BY <1>0, <1>2, <3>1
  <2>2. Seen(t)' = Today
    <3>1. Seen(t)' = Max({Last(t)', ImportDay, Today})
      BY <1>4 DEF Seen
    <3>2. Later(Later(Last(t)', ImportDay), Today) = Today
      BY <1>0, <2>1 DEF Later
    <3> HIDE DEF Last
    <3> QED
      BY <1>0, <2>1, <3>1, <3>2, MaxOfThree
  <2>3. Scale(t, Seen(t))' = Scale(t, Today) /\ Scale(t, Today) \in Nat
    BY <1>0, <1>1, <2>2, ScaleGrows DEF Scale
  <2>5. /\ Scale(t, bought) \in Nat /\ Cardinality(Missed(t))' \in Nat
        /\ Scale(t, Today) = Scale(t, bought) + Cardinality(Missed(t))'
    <3>1. bought \in Int /\ bought <= Today
      BY <1>0, Calendar
    <3>2. Missed(t)' = {s \in split[t] : bought < s /\ s <= Today}
      BY <1>1, <1>4 DEF Missed
    <3>3. \A N : N = {s \in split[t] : bought < s /\ s <= Today} =>
               /\ N \in SUBSET Day /\ Cardinality(N) \in Nat
               /\ Scale(t, Today) = Scale(t, bought) + Cardinality(N)
      <4>1. \A a, b \in Int : a <= b =>
              \A N : N = {s \in split[t] : a < s /\ s <= b} =>
                 /\ N \in SUBSET Day /\ Cardinality(N) \in Nat
                 /\ Scale(t, b) = Scale(t, a) + Cardinality(N)
        BY <1>0, ScaleGrows
      <4> QED
        BY <1>0, <3>1, <4>1
    <3>4. Scale(t, bought) \in Nat
      BY <1>0, <3>1, ScaleGrows
    <3> QED
      BY <3>2, <3>3, <3>4
  <2>4. holding'[t].scale + Cardinality(Missed(t))' = Scale(t, Seen(t))' + 0
    BY <1>4, <2>3, <2>5
  <2> QED
    BY <1>4, <1>6, <2>4 DEF CountedOK, SharesOK, BenchOK
<1>8. RepairedFirst'
  BY <1>1, <1>2, <1>5, <1>6 DEF SplitsInv, RepairedFirst
<1>9. ASSUME Fetching, NEW u \in Ticker  PROVE NewOK(u)'
  <2>1. NewOK(u)
    BY <1>9 DEF SplitsInv
  <2>2. CASE price'[u] = price[u]
    BY <1>1, <2>1, <2>2, NewStays
  <2>3. CASE u = t /\ FirstClose(t)
    <3>1. Resulting(t) = price[t]
      <4>1. price[t] = [d \in Day |-> price[t][d]]
        BY <1>0 DEF TypeOK, Closes
      <4> QED
        BY <1>2, <1>9, <2>3, <4>1 DEF Resulting, Fetched
    <3>2. NextLast(t) = Last(t)
      BY <3>1, LastStored DEF NextLast
    <3>3. \A s \in split[t] : s \in Int
      BY <1>0, Calendar DEF TypeOK
    <3>4. \A a \in Int : {s \in split[t] : a < s /\ s <= a} = {}
      BY <3>3
    <3>5. Later(Last(t), ImportDay) \in Int /\ Later(Today, ImportDay) \in Int
      BY <1>0, PositionFields DEF Later
    <3>6. job.new[t] = {}
      BY <2>1, <2>3, <3>2, <3>4, <3>5 DEF NewOK
    <3>7. job'.new[t] = {} /\ NextLast(t)' = Today /\ Last(t)' = Today /\ split'[t] = split[t]
      BY <1>1, <1>2, <1>9, <2>3, <3>6
    <3> QED
      BY <2>3, <3>4, <3>5, <3>7 DEF NewOK
  <2> QED
    BY <1>1, <2>2, <2>3
<1> QED
  BY <1>1, <1>5, <1>7, <1>8, <1>9 DEF SplitsOK, Fetching

(* A sale changes no other position. *)
LEMMA SplitsSell ==
  ASSUME SplitsInv, NEW t \in Ticker, SellAll(t)
  PROVE  SplitsOK'
<1>0. TypeOK /\ \A u \in Ticker : CountedOK(u)
  BY CountedOneByOne DEF SplitsInv, Base
<1>1. /\ UNCHANGED <<split, price, marker, job>> /\ ~Held(t)'
      /\ \A u \in Ticker \ {t} : holding'[u] = holding[u]
  BY <1>0, SellWrites DEF world, history
<1>2. \A u \in Ticker : Last(u)' = Last(u)
  BY <1>1 DEF Last
<1>3. Last(Benchmark)' = Last(Benchmark)
  BY <1>1 DEF Last
<1>4. ASSUME NEW u \in Ticker  PROVE CountedOK(u)'
  BY <1>0, <1>1, <1>2, <1>3, CountedStays DEF CountedOK
<1>5. RepairedFirst'
  BY <1>1, <1>2 DEF SplitsInv, RepairedFirst, Held, AwaitsRepair
<1>6. Fetching' => \A u \in Ticker : NewOK(u)'
  BY <1>1, NewStays DEF SplitsInv, Fetching
<1> QED
  BY <1>4, <1>5, <1>6 DEF SplitsOK

(* Every step keeps the splits counted once. *)
LEMMA SplitsStep ==
  ASSUME ~SplitGaps, HistoryCovers, NoneMistaken, SplitsInv, [Next]_vars
  PROVE  SplitsInv'
<1>0. TypeOK /\ Core /\ Core'
  BY CoreStep DEF SplitsInv, Core, Base
<1>1. ASSUME Clock \/ Abort \/ UNCHANGED vars  PROVE SplitsOK'
  <2>1. UNCHANGED <<split, holding, price, marker>> /\ (job' = NoJob \/ job' = job)
    BY <1>0, <1>1, ClockMoves DEF Abort, vars, world, history
  <2> QED
    BY <2>1, SplitsStay
<1>2. ASSUME NEW t \in Ticker, FetchFails(t)  PROVE SplitsOK'
  <2>1. /\ UNCHANGED <<split, holding, price, marker>> /\ Fetching
        /\ job'.rows = job.rows /\ job'.new = job.new
    BY <1>0, <1>2, FailureAdds DEF world, history
  <2>2. \A u \in Ticker : NewOK(u)'
    BY <2>1, NewStays DEF SplitsInv
  <2>3. job # NoJob
    BY <2>1 DEF Fetching, NoJob
  <2> QED
    BY <2>1, <2>2, <2>3, SplitsStay
<1>3. SplitsOK'
  BY <1>0, <1>1, <1>2, Steps, SplitsRepair, SplitsBegin, SplitsFetch, SplitsCommit, SplitsBuy, SplitsSell DEF Buy
<1>4. (SplitsInv <=> Core /\ SplitsOK)'
  BY SplitsByParts, PTL
<1> QED
  BY <1>0, <1>3, <1>4

(* So they always are, under the conditions below. *)
LEMMA AlwaysSplits ==
  ASSUME ~SplitGaps, HistoryCovers, NoneMistaken
  PROVE  Spec => []SplitsInv
<1>1. SplitsInv /\ [Next]_vars => SplitsInv'
  BY SplitsStep
<1> QED
  BY <1>1, SplitsInit, PTL DEF Spec

(* When the provider has the close of the day of every split, a night       *)
(* downloads everything since the import and no position that was not       *)
(* inflated can be taken for an inflated one, each position counts each     *)
(* split since its purchase or the import once, save those it missed        *)
(* because its entry date, in UTC, is later than the session of its shares, *)
(* and the benchmark's entry prices of the workbook's positions count each  *)
(* once: whatever runs fail, are repeated, abort or backfill, and whenever  *)
(* positions are bought and sold.                                           *)
THEOREM CountedOnce ==
  ASSUME ~SplitGaps, HistoryCovers, NoneMistaken
  PROVE  Spec => []SplitsCountedOnce
<1>1. SplitsInv => SplitsCountedOnce
  BY DEF SplitsInv
<1> QED
  BY <1>1, AlwaysSplits, PTL

(* Under the same conditions the repair changes no position that counts its *)
(* splits once.                                                             *)
THEOREM OnlyInflatedRepaired ==
  ASSUME ~SplitGaps, HistoryCovers, NoneMistaken
  PROVE  Spec => RepairOnlyInflated
<1> DEFINE Right == job = NoJob /\ job' = Repaired =>
                      \A t \in Ticker : holding'[t] # holding[t] => holding[t].scale > Scale(t, Seen(t))
<1>1. SplitsInv /\ [Next]_vars => Right
  <2> SUFFICES ASSUME SplitsInv, [Next]_vars, job = NoJob, job' = Repaired,
                      NEW t \in Ticker, holding'[t] # holding[t]
               PROVE  holding[t].scale > Scale(t, Seen(t))
    OBVIOUS
  <2>1. TypeOK /\ ~Fetching
    BY DEF SplitsInv, Base, Fetching, NoJob
  <2>2. Repair
    <3>1. NoJob # Repaired
      BY DEF NoJob, Repaired
    <3>2. ~Clock /\ ~Abort /\ ~UNCHANGED vars
      BY <2>1, <3>1, ClockMoves DEF Abort, vars
    <3>3. ~Begin /\ ~Commit
      BY <3>1 DEF Begin, Commit
    <3>4. ASSUME NEW u \in Ticker
          PROVE  ~Fetch(u) /\ ~FetchFails(u) /\ ~Buy(u) /\ ~SellAll(u)
      BY <2>1, <3>1, FetchAdds, FailureAdds, BuyWrites, SellWrites DEF Buy
    <3> QED
      BY <2>1, <3>2, <3>3, <3>4, Steps
  <2>3. Suspect(t)
    BY <2>2 DEF Repair
  <2> QED
    BY <2>3, RepairIsRight
<1>2. SplitsInv /\ [Next]_vars => [Right]_vars
  BY <1>1
<1>3. RepairOnlyInflated <=> [][Right]_vars
  BY DEF RepairOnlyInflated
<1> QED
  BY <1>2, <1>3, AlwaysSplits, PTL DEF Spec
=============================================================================

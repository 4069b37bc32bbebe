---------------------------- MODULE TradesProofs ----------------------------
(***************************************************************************)
(* Proofs about the batches of admins, for every fund, every batch and any *)
(* number of requests at once, and the types of the whole server.          *)
(***************************************************************************)
EXTENDS AgentRunsProofs, CachesProofs, OnboardingProofs, WellFoundedInduction

Below == {p \in Nat \X Nat : p[1] < p[2]}

(* A nonempty set of numbers has a least one. *)
LEMMA Least ==
  ASSUME NEW T \in SUBSET Nat, T # {}
  PROVE  \E m \in T : \A n \in T : m <= n
<1>1. OpToRel(<, Nat) = Below
  BY DEF OpToRel, Below
<1>2. IsWellFoundedOn(Below, Nat)
  BY <1>1, NatLessThanWellFounded
<1>3. PICK m \in T : \A n \in T : <<n, m>> \notin Below
  BY <1>2, WFMin
<1>4. ASSUME NEW n \in T  PROVE m <= n
  <2>1. n \in Nat /\ m \in Nat /\ ~(n < m)
    BY <1>3 DEF Below
  <2> QED
    BY <2>1
<1> QED
  BY <1>4

-----------------------------------------------------------------------------
(* The fold over a batch.  It is defined by a recursive function on the     *)
(* sets of positions; such a function exists, ...                           *)
Step(b, q, g, s) == IF s = {} THEN b ELSE Replayed(g[s \ {Max(s)}], q[Max(s)])
IsReplay(g, b, q, n) == g = [s \in SUBSET (1..n) |-> Step(b, q, g, s)]

(* The latest of the positions up to n is n, if it is one. *)
LEMMA LatestPosition ==
  ASSUME NEW n \in Nat, NEW s \in SUBSET (1..n), n \in s
  PROVE  Max(s) = n
<1>1. \A y \in s : n >= y
  OBVIOUS
<1>2. \E x \in s : \A y \in s : x >= y
  BY <1>1
<1>3. Max(s) \in s /\ \A y \in s : Max(s) >= y
  BY <1>2 DEF Max
<1>4. PICK x \in 1..n : x = Max(s) /\ x >= n
  BY <1>3
<1> QED
  BY <1>4

(* ... because a fold over n - 1 positions extends to one over n, ... *)
LEMMA ReplayExtends ==
  ASSUME NEW b, NEW q, NEW n \in Nat \ {0}, NEW g, IsReplay(g, b, q, n - 1)
  PROVE  \E h : IsReplay(h, b, q, n)
<1> DEFINE S == SUBSET (1..n)
           h == [s \in S |-> IF n \in s THEN Replayed(g[s \ {n}], q[n]) ELSE g[s]]
<1>1. ASSUME NEW s \in S  PROVE h[s] = Step(b, q, h, s)
  <2>1. CASE n \in s
    <3>1. Max(s) = n /\ s # {}
      BY <2>1, LatestPosition
    <3>2. s \ {n} \in S /\ n \notin s \ {n}
      OBVIOUS
    <3>3. h[s \ {n}] = g[s \ {n}]
      BY <3>2
    <3>4. h[s] = Replayed(g[s \ {n}], q[n])
      BY <2>1
    <3> HIDE DEF h
    <3> QED
      BY <3>1, <3>3, <3>4 DEF Step
  <2>2. CASE n \notin s
    <3>1. s \in SUBSET (1..(n - 1))
      BY <2>2
    <3>2. s \ {Max(s)} \in S /\ n \notin s \ {Max(s)}
      BY <2>2
    <3>3. h[s] = g[s] /\ h[s \ {Max(s)}] = g[s \ {Max(s)}]
      BY <2>2, <3>2
    <3>4. g[s] = Step(b, q, g, s)
      BY <3>1 DEF IsReplay
    <3> HIDE DEF h
    <3> QED
      BY <3>3, <3>4 DEF Step
  <2> QED
    BY <2>1, <2>2
<1>2. h = [s \in S |-> h[s]]
  OBVIOUS
<1> HIDE DEF h
<1>3. h = [s \in S |-> Step(b, q, h, s)]
  BY <1>1, <1>2
<1> QED
  BY <1>3 DEF IsReplay

(* ... and there is one over none. *)
LEMMA ReplayExists ==
  ASSUME NEW b, NEW q, NEW n \in Nat
  PROVE  \E g : IsReplay(g, b, q, n)
<1> DEFINE T == {m \in Nat : ~\E g : IsReplay(g, b, q, m)}
<1> SUFFICES ASSUME T # {}  PROVE FALSE
  OBVIOUS
<1>1. PICK m \in T : \A k \in T : m <= k
  <2>1. T \in SUBSET Nat
    OBVIOUS
  <2> HIDE DEF T
  <2> QED
    BY <2>1, Least
<1>2. m \in Nat /\ ~\E g : IsReplay(g, b, q, m)
  BY <1>1
<1>3. CASE m = 0
  <2> DEFINE g == [s \in SUBSET (1..0) |-> b]
  <2>1. \A s \in SUBSET (1..0) : s = {}
    OBVIOUS
  <2>2. \A s \in SUBSET (1..0) : Step(b, q, g, s) = b
    BY <2>1 DEF Step
  <2>3. g = [s \in SUBSET (1..0) |-> Step(b, q, g, s)]
    BY <2>2
  <2> HIDE DEF g
  <2> QED
    BY <1>2, <1>3, <2>3 DEF IsReplay
<1>4. CASE m # 0
  <2>1. m - 1 \in Nat /\ m \in Nat \ {0} /\ ~(m <= m - 1)
    BY <1>2, <1>4
  <2>2. m - 1 \notin T
    BY <1>1, <2>1
  <2>3. PICK g : IsReplay(g, b, q, m - 1)
    BY <2>1, <2>2
  <2> QED
    BY <1>2, <2>1, <2>3, ReplayExtends
<1> QED
  BY <1>3, <1>4

(* ... so that what every change keeps, a batch keeps. *)
LEMMA BatchKeeps ==
  ASSUME NEW G, NEW b \in G, NEW C, NEW q \in Seq(C),
         \A s \in G, c \in C : Replayed(s, c) \in G
  PROVE  FoldLeft(Replayed, b, q) \in G
<1> DEFINE n == Len(q)
           f == CHOOSE g : IsReplay(g, b, q, n)
<1>1. n \in Nat /\ DOMAIN q = 1..n /\ \A i \in 1..n : q[i] \in C
  OBVIOUS
<1>2. IsReplay(f, b, q, n)
  BY <1>1, ReplayExists
<1>3. FoldLeft(Replayed, b, q) = f[1..n]
  <2>1. FoldLeft(Replayed, b, q) =
          (CHOOSE g : g = [s \in SUBSET DOMAIN q |->
             IF s = {} THEN b ELSE Replayed(g[s \ {Max(s)}], q[Max(s)])])[DOMAIN q]
    BY DEF FoldLeft, MapThenFoldSet
  <2>2. f = CHOOSE g : g = [s \in SUBSET (1..n) |->
             IF s = {} THEN b ELSE Replayed(g[s \ {Max(s)}], q[Max(s)])]
    BY DEF IsReplay, Step
  <2> HIDE DEF f
  <2> QED
    BY <1>1, <2>1, <2>2
<1> HIDE DEF f, n
<1>4. \A s \in SUBSET (1..n) : f[s] = Step(b, q, f, s)
  BY <1>2 DEF IsReplay
<1> DEFINE T == {m \in Nat : m <= n /\ f[1..m] \notin G}
<1> SUFFICES ASSUME T # {}  PROVE FALSE
  BY <1>1, <1>3
<1>5. PICK m \in T : \A k \in T : m <= k
  <2>1. T \in SUBSET Nat
    OBVIOUS
  <2> HIDE DEF T
  <2> QED
    BY <2>1, Least
<1>6. m \in Nat /\ m <= n /\ f[1..m] \notin G
  BY <1>5
<1>7. 1..m \in SUBSET (1..n)
  BY <1>1, <1>6
<1>8. m # 0
  <2>1. ASSUME m = 0  PROVE f[1..m] = b
    <3>1. 1..m = {}
      BY <2>1
    <3> QED
      BY <1>4, <1>7, <3>1 DEF Step
  <2> QED
    BY <1>6, <2>1
<1>9. m - 1 \in Nat /\ m - 1 <= n /\ ~(m <= m - 1) /\ m \in 1..m /\ m \in 1..n
  BY <1>1, <1>6, <1>8
<1>10. f[1..(m - 1)] \in G
  BY <1>5, <1>9
<1>11. Max(1..m) = m /\ (1..m) \ {m} = 1..(m - 1)
  BY <1>6, <1>9, LatestPosition
<1>12. f[1..m] = Replayed(f[1..(m - 1)], q[m])
  BY <1>4, <1>7, <1>9, <1>11 DEF Step
<1>13. q[m] \in C
  BY <1>1, <1>9
<1> QED
  BY <1>6, <1>10, <1>12, <1>13

-----------------------------------------------------------------------------
(* The states of a replay that began with the rows b: every movement is     *)
(* posted, no row disappears, and a stock without shares is closed.         *)
Rows == [Asset -> Nat \cup {Absent}]
State == [ok : BOOLEAN, rows : Rows, closed : SUBSET Stock, posted : [Asset -> Int]]
Posted(b, s) == \A a \in Asset : s.posted[a] = Units(s.rows, a) - Units(b, a)
RowsStay(b, s) == \A a \in Asset : b[a] # Absent => s.rows[a] # Absent
EmptyClosed(s) == \A a \in Stock : s.rows[a] = 0 => a \in s.closed
Replays(b) == {s \in State : Posted(b, s) /\ RowsStay(b, s) /\ EmptyClosed(s)}

(* The same of a position that is being sold out. *)
EmptyClosedBut(s, x) == \A a \in Stock \ {x} : s.rows[a] = 0 => a \in s.closed
ReplaysBut(b, x) == {s \in State : Posted(b, s) /\ RowsStay(b, s) /\ EmptyClosedBut(s, x)}

(* The kinds of assets. *)
LEMMA Assets ==
    /\ Cash \in Asset /\ Etf \in Asset /\ Stock \in SUBSET Asset
    /\ Cash \notin Stock /\ Etf \notin Stock
    /\ \A a \in Asset : Price[a] \in Nat \ {0}
    /\ Opening \in Rows /\ \A a \in Stock : Opening[a] # 0
  BY TradesAssumption DEF Asset, Rows

(* What is held of an asset. *)
LEMMA UnitsHeld ==
  ASSUME NEW b \in Rows, NEW a \in Asset
  PROVE  /\ Units(b, a) \in Nat /\ b[a] \in Nat \cup {Absent} /\ Absent \notin Nat
         /\ b[a] # Absent => Units(b, a) = b[a]
         /\ b[a] = Absent => Units(b, a) = 0
  BY DEF Rows, Units, Absent

(* A movement that leaves something, or nothing of the position x that is   *)
(* sold out, keeps them.                                                    *)
LEMMA MoveKeeps ==
  ASSUME NEW b \in Rows, NEW x, NEW s \in ReplaysBut(b, x), NEW a \in Asset, NEW units \in Int,
         Units(s.rows, a) + units >= 0, Units(s.rows, a) + units > 0 \/ a \notin Stock \/ a = x
  PROVE  Moved(s, a, units) \in ReplaysBut(b, x)
<1> DEFINE m == Moved(s, a, units)
           n == Units(s.rows, a) + units
<1>1. s \in State /\ s.rows \in Rows /\ s.posted \in [Asset -> Int]
  BY DEF ReplaysBut, State
<1>2. n \in Nat /\ Units(s.rows, a) \in Nat
  BY <1>1, UnitsHeld
<1>3. /\ m.rows = [s.rows EXCEPT ![a] = n] /\ m.posted = [s.posted EXCEPT ![a] = s.posted[a] + units]
      /\ m.ok = s.ok /\ m.closed = s.closed
  BY <1>1 DEF Moved, State
<1>4. m.rows \in Rows /\ m.rows[a] = n /\ \A c \in Asset \ {a} : m.rows[c] = s.rows[c]
  BY <1>1, <1>2, <1>3 DEF Rows
<1>5. m.posted \in [Asset -> Int] /\ m.posted[a] = s.posted[a] + units
      /\ \A c \in Asset \ {a} : m.posted[c] = s.posted[c]
  BY <1>1, <1>3
<1>6. m \in State
  <2>1. m = [s EXCEPT !.rows = m.rows, !.posted = m.posted]
    BY <1>1 DEF Moved, State
  <2> HIDE DEF m
  <2> QED
    BY <1>1, <1>4, <1>5, <2>1 DEF State
<1> HIDE DEF m
<1>7. Posted(b, m)
  <2>1. ASSUME NEW c \in Asset \ {a}  PROVE m.posted[c] = Units(m.rows, c) - Units(b, c)
    BY <1>4, <1>5 DEF ReplaysBut, Posted, Units
  <2>2. m.posted[a] = Units(m.rows, a) - Units(b, a)
    <3>1. s.posted[a] = Units(s.rows, a) - Units(b, a)
      BY DEF ReplaysBut, Posted
    <3>2. Units(m.rows, a) = n
      BY <1>2, <1>4 DEF Units, Absent
    <3>3. Units(b, a) \in Nat
      BY UnitsHeld
    <3> QED
      BY <1>2, <1>5, <3>1, <3>2, <3>3
  <2> QED
    BY <2>1, <2>2 DEF Posted
<1>8. RowsStay(b, m)
  BY <1>2, <1>4 DEF RowsStay, ReplaysBut, Absent
<1>9. EmptyClosedBut(m, x)
  <2>1. n > 0 \/ a \notin Stock \/ a = x
    OBVIOUS
  <2> HIDE DEF n
  <2>2. ASSUME NEW c \in Stock \ {x}, m.rows[c] = 0  PROVE c \in m.closed
    <3>1. c # a
      BY <1>2, <1>4, <2>1, <2>2
    <3> QED
      BY <1>3, <1>4, <2>2, <3>1, Assets DEF ReplaysBut, EmptyClosedBut
  <2> QED
    BY <2>2 DEF EmptyClosedBut
<1> QED
  BY <1>6, <1>7, <1>8, <1>9 DEF ReplaysBut, m

(* A refusal keeps them, ... *)
LEMMA RefusalKeeps ==
  ASSUME NEW b, NEW x, NEW s \in ReplaysBut(b, x)
  PROVE  Refused(s) \in ReplaysBut(b, x)
<1>1. /\ Refused(s) \in State /\ Refused(s).rows = s.rows /\ Refused(s).posted = s.posted
      /\ Refused(s).closed = s.closed
  BY DEF Refused, ReplaysBut, State
<1> QED
  BY <1>1 DEF ReplaysBut, Posted, RowsStay, EmptyClosedBut

(* ... and so does the other side of a trade. *)
LEMMA SettlementKeeps ==
  ASSUME NEW b \in Rows, NEW x, NEW s \in ReplaysBut(b, x), NEW amount \in Int, NEW c \in Changes
  PROVE  Settled(s, amount, c) \in ReplaysBut(b, x)
<1>1. ASSUME NEW a \in {Cash, Etf}, NEW units \in Int
      PROVE  MovedIfEnough(s, a, units) \in ReplaysBut(b, x)
  <2>1. a \in Asset /\ a \notin Stock
    BY Assets
  <2>2. CASE s.rows[a] # Absent /\ s.rows[a] + units >= 0
    <3>1. s.rows \in Rows
      BY DEF ReplaysBut, State
    <3>2. Units(s.rows, a) + units >= 0
      BY <2>1, <2>2, <3>1, UnitsHeld
    <3>3. Moved(s, a, units) \in ReplaysBut(b, x)
      BY <2>1, <3>2, MoveKeeps
    <3> QED
      BY <2>2, <3>3 DEF MovedIfEnough
  <2>3. CASE ~(s.rows[a] # Absent /\ s.rows[a] + units >= 0)
    BY <2>3, RefusalKeeps DEF MovedIfEnough
  <2> QED
    BY <2>2, <2>3
<1>2. amount \div Price[Etf] \in Int
  BY Assets
<1>3. MovedIfEnough(s, Cash, amount) \in ReplaysBut(b, x)
  BY <1>1
<1>4. MovedIfEnough(s, Etf, amount \div Price[Etf]) \in ReplaysBut(b, x)
  BY <1>1, <1>2
<1> QED
  BY <1>3, <1>4, RefusalKeeps DEF Settled

(* Every change keeps them. *)
LEMMA ChangeKeeps ==
  ASSUME NEW b \in Rows, NEW s \in Replays(b), NEW c \in Changes
  PROVE  Replayed(s, c) \in Replays(b)
<1>1. s \in State /\ s.rows \in Rows
  BY DEF Replays, State
<1>2. \A x : s \in ReplaysBut(b, x)
  BY DEF Replays, ReplaysBut, EmptyClosed, EmptyClosedBut
<1>3. \A t \in ReplaysBut(b, Cash) : t \in Replays(b)
  BY Assets DEF Replays, ReplaysBut, EmptyClosed, EmptyClosedBut
<1>4. CASE ~s.ok
  BY <1>4 DEF Replayed
<1>5. Refused(s) \in Replays(b)
  BY <1>2, <1>3, RefusalKeeps
<1>6. CASE s.ok /\ c.kind = "cash"
  <2>1. c.units \in Int
    BY <1>6 DEF Changes
  <2>2. CASE s.rows[Cash] # Absent /\ s.rows[Cash] + c.units >= 0
    <3>1. Units(s.rows, Cash) + c.units >= 0
      BY <1>1, <2>2, Assets, UnitsHeld
    <3>2. Moved(s, Cash, c.units) \in Replays(b)
      BY <1>2, <1>3, <2>1, <3>1, Assets, MoveKeeps
    <3> QED
      BY <1>6, <2>2, <3>2 DEF Replayed, Changed, MovedIfEnough
  <2>3. CASE ~(s.rows[Cash] # Absent /\ s.rows[Cash] + c.units >= 0)
    BY <1>5, <1>6, <2>3 DEF Replayed, Changed, MovedIfEnough
  <2> QED
    BY <2>2, <2>3
<1>7. ASSUME NEW a \in Asset, c.asset = a, NEW units \in Int, Units(s.rows, a) + units > 0
      PROVE  Traded(s, c, units) \in Replays(b)
  <2>1. Moved(s, a, units) \in ReplaysBut(b, Cash)
    <3>1. Units(s.rows, a) + units >= 0
      BY <1>1, <1>7, UnitsHeld
    <3> QED
      BY <1>2, <1>7, <3>1, MoveKeeps
  <2>2. -(units * Price[a]) \in Int
    BY Assets
  <2>3. Traded(s, c, units) \in ReplaysBut(b, Cash)
    BY <1>7, <2>1, <2>2, SettlementKeeps DEF Traded
  <2> QED
    BY <1>3, <2>3
<1>8. CASE c.kind \in {"buy_new", "buy", "trim"}
  <2>1. c.units \in Nat \ {0} /\ c.asset \in Asset
    BY <1>8 DEF Changes
  <2>2. Units(s.rows, c.asset) \in Nat /\ (s.rows[c.asset] # Absent => Units(s.rows, c.asset) = s.rows[c.asset])
    BY <1>1, <2>1, UnitsHeld
  <2>3. Traded(s, c, c.units) \in Replays(b)
    BY <1>7, <2>1, <2>2
  <2>4. ASSUME Trims(s, c)  PROVE Traded(s, c, -c.units) \in Replays(b)
    <3>1. -c.units \in Int /\ Units(s.rows, c.asset) + -c.units > 0
      BY <2>1, <2>2, <2>4 DEF Trims, Buys
    <3> QED
      BY <1>7, <2>1, <3>1
  <2>5. \/ Replayed(s, c) = s \/ Replayed(s, c) = Refused(s) \/ Replayed(s, c) = Traded(s, c, c.units)
        \/ Trims(s, c) /\ Replayed(s, c) = Traded(s, c, -c.units)
    BY <1>8 DEF Replayed, Changed
  <2> QED
    BY <1>5, <2>3, <2>4, <2>5
<1>9. CASE c.kind = "sell_all"
  <2>1. CASE s.ok /\ SellsAll(s, c)
    <3> DEFINE a == c.asset
               u == -s.rows[a]
               m == Moved(s, a, u)
               t == Traded(s, c, u)
    <3>1. a \in Stock /\ a \in Asset /\ s.rows[a] # Absent
      BY <2>1, Assets DEF SellsAll, Buys
    <3>2. u \in Int /\ Units(s.rows, a) + u = 0
      BY <1>1, <3>1, UnitsHeld
    <3>3. m \in ReplaysBut(b, a)
      <4>1. Units(s.rows, a) + u >= 0
        BY <3>2
      <4> QED
        BY <1>2, <3>1, <3>2, <4>1, MoveKeeps
    <3>4. t \in ReplaysBut(b, a)
      <4>1. -(u * Price[a]) \in Int
        BY <3>1, <3>2, Assets
      <4> HIDE DEF m, u
      <4>2. t = Settled(m, -(u * Price[a]), c)
        BY DEF Traded, m
      <4> HIDE DEF t
      <4> QED
        BY <3>3, <4>1, <4>2, SettlementKeeps
    <3> HIDE DEF t
    <3> DEFINE w == [t EXCEPT !.closed = @ \cup {a}]
    <3>5. w \in State /\ w.rows = t.rows /\ w.posted = t.posted /\ w.closed = t.closed \cup {a}
      <4>1. t \in State
        BY <3>4 DEF ReplaysBut
      <4> QED
        BY <3>1, <4>1 DEF State
    <3>6. w \in Replays(b)
      <4> HIDE DEF w
      <4> QED
        BY <3>4, <3>5 DEF Replays, ReplaysBut, Posted, RowsStay, EmptyClosed, EmptyClosedBut
    <3>7. Replayed(s, c) = w
      BY <1>9, <2>1 DEF Replayed, Changed, t
    <3> QED
      BY <3>6, <3>7
  <2>2. CASE ~(s.ok /\ SellsAll(s, c))
    BY <1>4, <1>5, <1>9, <2>2 DEF Replayed, Changed
  <2> QED
    BY <2>1, <2>2
<1>10. c.kind \in {"cash", "buy_new", "buy", "trim", "sell_all"}
  BY DEF Changes
<1> QED
  BY <1>4, <1>6, <1>8, <1>9, <1>10

-----------------------------------------------------------------------------
(* The batch of a request replays what the request read.                    *)
Batched(t) == OfATrade(t) => Batch(t) \in Seq(Changes)

(* Every batch holds changes that the routes accept. *)
LEMMA BatchesInit == Init => \A t \in Thread : Batched(t)
<1> SUFFICES ASSUME Init, NEW t \in Thread, OfATrade(t)  PROVE Batch(t) \in Seq(Changes)
  BY DEF Batched
<1>1. handler \in Workloads \cup ColdStarts
  BY DEF Init
<1> QED
  BY <1>1, BatchAssumption DEF Batch, OfATrade, Kind

(* The outcome of a batch is a replay on the rows that were read. *)
LEMMA OutcomeOf ==
  ASSUME NEW t \in Thread, Batched(t), OfATrade(t), loaded[t] \in Rows,
         \A a \in Stock : loaded[t][a] # 0
  PROVE  Outcome(t) \in Replays(loaded[t])
<1> DEFINE b == loaded[t]
<1>1. Start(b) \in State /\ Start(b).rows = b /\ Start(b).posted = [a \in Asset |-> 0]
  BY DEF Start, State
<1>2. Posted(b, Start(b))
  BY <1>1, UnitsHeld DEF Posted
<1>3. Start(b) \in Replays(b)
  BY <1>1, <1>2 DEF Replays, RowsStay, EmptyClosed
<1>4. \A s \in Replays(b), c \in Changes : Replayed(s, c) \in Replays(b)
  BY ChangeKeeps
<1>5. Batch(t) \in Seq(Changes)
  BY DEF Batched
<1> HIDE DEF b
<1>6. FoldLeft(Replayed, Start(b), Batch(t)) \in Replays(b)
  BY <1>3, <1>4, <1>5, BatchKeeps
<1> QED
  BY <1>6 DEF Outcome, b

(* The inductive invariant of the trades: types, and neither the fund nor   *)
(* what a request read of it has a stock without shares.                    *)
NoEmptyRow(b) == \A a \in Stock : b[a] # 0
TradeInv ==
    /\ Placed
    /\ book \in Rows /\ NoEmptyRow(book)
    /\ ledger \in [Asset -> Int]
    /\ loaded \in [Thread -> Rows]
    /\ \A t \in Thread : NoEmptyRow(loaded[t]) /\ Batched(t)

(* The opening rows are in order. *)
LEMMA TradeInitially == Init => TradeInv
<1> SUFFICES ASSUME Init  PROVE TradeInv
  OBVIOUS
<1>1. book = Opening /\ ledger = [a \in Asset |-> 0] /\ loaded = [t \in Thread |-> Opening]
  BY DEF Init, TradeInit
<1>2. ledger \in [Asset -> Int]
  BY <1>1
<1> QED
  BY <1>1, <1>2, BatchesInit, PlacedInit, Assets DEF TradeInv, NoEmptyRow

(* The steps that concern the trades: of all threads but the one that moves *)
(* the place stays.                                                         *)
LEMMA TradeFrame ==
  ASSUME Placed, [Next]_serverVars
  PROVE  \/ \E t \in Thread : /\ TradeStep(t) /\ OfATrade(t)
                              /\ \A s \in Thread \ {t} : Stays(s)
         \/ UNCHANGED tradeVars
<1>1. ASSUME NEW t \in Thread, ThreadStep(t)
      PROVE  \A s \in Thread \ {t} : Stays(s)
  BY <1>1, ThreadMoves DEF Placed, Stays
<1>2. ASSUME NEW t \in Thread, ThreadStep(t)
      PROVE  (TradeStep(t) /\ OfATrade(t)) \/ UNCHANGED tradeVars
  BY <1>2 DEF ThreadStep, Pool, Agents, Lookups, Organization, Tours, Admins, OfATrade
<1>3. ASSUME NEW t \in Thread, AgentsOutside(t)
      PROVE  UNCHANGED tradeVars
  BY <1>3 DEF AgentsOutside
<1>4. CASE Night \/ Ownership \/ NewMember \/ Tick \/ UNCHANGED serverVars
  BY <1>4 DEF Night, Ownership, NewMember, Tick, serverVars
<1> QED
  BY <1>1, <1>2, <1>3, <1>4 DEF Next

(* What a commit writes.  A position that was read keeps a row in the       *)
(* outcome, so that a row is written or left as it is.                      *)
LEMMA WrittenRow ==
  ASSUME NEW t \in Thread, TradeInv, OfATrade(t), NEW a \in Asset
  PROVE  /\ Written(t, a) \in Nat \cup {Absent}
         /\ a \in Stock => Written(t, a) # 0
         /\ loaded[t] = book /\ a \notin Outcome(t).closed =>
              Written(t, a) = Outcome(t).rows[a]
         /\ a \in Outcome(t).closed => Written(t, a) = Absent
         /\ Outcome(t).posted[a] \in Int
         /\ Outcome(t).posted[a] = Units(Outcome(t).rows, a) - Units(loaded[t], a)
<1> DEFINE o == Outcome(t)
<1>1. loaded[t] \in Rows /\ NoEmptyRow(loaded[t]) /\ Batched(t) /\ book \in Rows /\ NoEmptyRow(book)
  BY DEF TradeInv
<1>2. o \in Replays(loaded[t])
  BY <1>1, OutcomeOf DEF NoEmptyRow
<1> HIDE DEF o
<1>3. /\ o.rows \in Rows /\ o.posted[a] \in Int /\ Posted(loaded[t], o) /\ RowsStay(loaded[t], o)
      /\ EmptyClosed(o)
  BY <1>2 DEF Replays, State
<1>4. o.rows[a] \in Nat \cup {Absent} /\ book[a] \in Nat \cup {Absent}
  BY <1>1, <1>3 DEF Rows
<1>5. a \in Stock => book[a] # 0 /\ (o.rows[a] = 0 => a \in o.closed)
  BY <1>1, <1>3 DEF NoEmptyRow, EmptyClosed
<1>6. Written(t, a) = IF a \in o.closed THEN Absent
                      ELSE IF a \in New(t) \/ (o.rows[a] # loaded[t][a] /\ book[a] # Absent)
                      THEN o.rows[a] ELSE book[a]
  BY DEF Written, o
<1>7. loaded[t] = book /\ a \notin o.closed => Written(t, a) = o.rows[a]
  <2>1. a \in New(t) <=> loaded[t][a] = Absent /\ o.rows[a] # Absent /\ a \notin o.closed
    BY DEF New, o
  <2>2. loaded[t][a] # Absent => o.rows[a] # Absent
    BY <1>3 DEF RowsStay
  <2> QED
    BY <1>6, <2>1, <2>2
<1>8. o.posted[a] = Units(o.rows, a) - Units(loaded[t], a)
  BY <1>3 DEF Posted
<1>9. Absent # 0
  BY DEF Absent
<1> QED
  BY <1>3, <1>4, <1>5, <1>6, <1>7, <1>8, <1>9 DEF o

(* Only loading and committing change what the invariant speaks of. *)
LEMMA TradeInvStep == TradeInv /\ [Next]_serverVars => TradeInv'
<1> SUFFICES ASSUME TradeInv, [Next]_serverVars  PROVE TradeInv'
  OBVIOUS
<1>1. Placed /\ Placed'
  BY PlacedStep DEF TradeInv
<1>2. \A t \in Thread : Batched(t)'
  BY HandlerStays DEF TradeInv, Batched, Batch, OfATrade, Kind
<1>3. CASE UNCHANGED tradeVars
  BY <1>1, <1>2, <1>3 DEF TradeInv, tradeVars, NoEmptyRow
<1>4. ASSUME NEW t \in Thread, TradeStep(t), OfATrade(t)  PROVE TradeInv'
  <2>1. CASE TradeLoad(t)
    <3>1. loaded' \in [Thread -> Rows] /\ \A s \in Thread : loaded'[s] = IF s = t THEN book ELSE loaded[s]
      BY <2>1 DEF TradeLoad, TradeInv
    <3>2. book' = book /\ ledger' = ledger
      BY <2>1 DEF TradeLoad
    <3> QED
      BY <1>1, <1>2, <3>1, <3>2 DEF TradeInv, NoEmptyRow
  <2>2. CASE TradeCommit(t)
    <3>1. \A a \in Asset : /\ Written(t, a) \in Nat \cup {Absent} /\ (a \in Stock => Written(t, a) # 0)
                           /\ Outcome(t).posted[a] \in Int
      BY <1>4, WrittenRow
    <3>2. book' = [a \in Asset |-> Written(t, a)] /\ loaded' = loaded
          /\ ledger' = [a \in Asset |-> ledger[a] + Outcome(t).posted[a]]
      BY <2>2 DEF TradeCommit
    <3>3. book' \in Rows
      BY <3>1, <3>2 DEF Rows
    <3>4. NoEmptyRow(book')
      BY <3>1, <3>2, Assets DEF NoEmptyRow
    <3>5. ledger' \in [Asset -> Int]
      <4>1. \A a \in Asset : ledger[a] \in Int
        BY DEF TradeInv
      <4>2. \A a \in Asset : ledger[a] + Outcome(t).posted[a] \in Int
        BY <3>1, <4>1
      <4> QED
        BY <3>2, <4>2
    <3> QED
      BY <1>1, <1>2, <3>2, <3>3, <3>4, <3>5 DEF TradeInv
  <2>3. CASE ~TradeLoad(t) /\ ~TradeCommit(t)
    <3>1. UNCHANGED tradeVars
      BY <1>4, <2>3 DEF TradeStep, TradeBegin, TradeNoConnection, TradeConnected, TradeAnswer
    <3> QED
      BY <1>3, <3>1
  <2> QED
    BY <2>1, <2>2, <2>3
<1> QED
  BY <1>1, <1>3, <1>4, TradeFrame

(* The types and the rows of the fund are always in order.                  *)
THEOREM TradeInvariance == Spec => []TradeInv
  BY TradeInitially, TradeInvStep, PTL DEF Spec

(* Whatever batches are applied, one after the other or at once on rows     *)
(* that another one changed since, no stock is left without shares.         *)
THEOREM Positions == Spec => []PositionsPositive
<1>1. TradeInv => PositionsPositive
  BY DEF TradeInv, NoEmptyRow, PositionsPositive
<1> QED
  BY <1>1, TradeInvariance, PTL

(* A batch on rows that nobody changed since it read them moves each        *)
(* position by what it enters in the ledger for it.                         *)
THEOREM LedgerMatches == Spec => CommitMatchesLedger
<1> DEFINE P(t) ==
      loaded[t] = book /\ ledger' # ledger /\ at'[t] # at[t] /\ ~SoldAndBought(t) =>
        \A a \in Asset : Units(book', a) - Units(book, a) = ledger'[a] - ledger[a]
<1>1. TradeInv /\ [Next]_serverVars => [\A t \in Thread : P(t)]_tradeVars
  <2> SUFFICES ASSUME TradeInv, [Next]_serverVars, NEW t \in Thread,
                      loaded[t] = book, ledger' # ledger, at'[t] # at[t], ~SoldAndBought(t),
                      NEW a \in Asset
               PROVE  Units(book', a) - Units(book, a) = ledger'[a] - ledger[a]
    OBVIOUS
  <2>1. TradeStep(t) /\ OfATrade(t)
    <3>1. ~UNCHANGED tradeVars
      BY DEF tradeVars
    <3>2. PICK u \in Thread : TradeStep(u) /\ OfATrade(u) /\ \A s \in Thread \ {u} : Stays(s)
      BY <3>1, TradeFrame DEF TradeInv
    <3>3. ~Stays(t)
      BY DEF Stays
    <3> QED
      BY <3>2, <3>3
  <2>2. TradeCommit(t)
    BY <2>1 DEF TradeStep, TradeBegin, TradeNoConnection, TradeConnected, TradeLoad, TradeAnswer, tradeVars
  <2>3. book'[a] = Written(t, a) /\ ledger'[a] = ledger[a] + Outcome(t).posted[a]
    BY <2>2 DEF TradeCommit
  <2>4. /\ Written(t, a) \in Nat \cup {Absent}
        /\ a \notin Outcome(t).closed => Written(t, a) = Outcome(t).rows[a]
        /\ a \in Outcome(t).closed => Written(t, a) = Absent
        /\ Outcome(t).posted[a] \in Int
        /\ Outcome(t).posted[a] = Units(Outcome(t).rows, a) - Units(book, a)
    BY <2>1, WrittenRow
  <2>5. ledger[a] \in Int /\ Units(book, a) \in Nat
    BY UnitsHeld DEF TradeInv
  <2>6. ledger'[a] - ledger[a] = Outcome(t).posted[a]
    BY <2>3, <2>4, <2>5
  <2>7. CASE a \notin Outcome(t).closed
    <3>1. Units(book', a) = Units(Outcome(t).rows, a)
      BY <2>3, <2>4, <2>7 DEF Units
    <3> QED
      BY <2>4, <2>6, <3>1
  <2>8. CASE a \in Outcome(t).closed
    <3>1. Units(book', a) = 0
      BY <2>3, <2>4, <2>8 DEF Units
    <3>2. Units(book, a) + Outcome(t).posted[a] = 0
      BY <2>8 DEF SoldAndBought
    <3> QED
      BY <2>4, <2>5, <2>6, <3>1, <3>2
  <2> QED
    BY <2>7, <2>8
<1> QED
  BY <1>1, TradeInvariance, PTL DEF Spec, CommitMatchesLedger

-----------------------------------------------------------------------------
(* The types of the whole server.  The invariants of the components say     *)
(* almost all; what they do not need is here: the bounds of the caches, and *)
(* that nobody is shown a tour where no request runs.                       *)
CopyBounds(n) ==
    copy[n] # Nothing => copy[n].value.at <= now /\ copy[n].stamp >= -SnapshotTtl
CacheBounds ==
    /\ owned \in BOOLEAN /\ trades \in 0..MaxTrades
    /\ good # NoSnapshot => good <= now
    /\ \A n \in Namespace : CopyBounds(n)
ShownByRequests == \A u \in User : shows[u] > 0 => Thread # {}
Loaded == handler \in Workloads \cup ColdStarts

(* At start nothing is cached and no trade has happened.                    *)
LEMMA CacheBoundsInit == Init => CacheBounds
<1> SUFFICES ASSUME Init  PROVE CacheBounds
  OBVIOUS
<1>1. CacheInit
  BY DEF Init
<1>2. owned \in BOOLEAN /\ trades \in 0..MaxTrades
  <2>1. owned = FALSE /\ trades = 0
    BY <1>1 DEF CacheInit
  <2>2. 0 \in 0..MaxTrades
    BY CacheAssumption
  <2> QED
    BY <2>1, <2>2
<1>3. good = NoSnapshot
  BY <1>1 DEF CacheInit
<1>4. \A n \in Namespace : copy[n] = Nothing
  BY <1>1 DEF CacheInit
<1>5. \A n \in Namespace : CopyBounds(n)
  BY <1>4 DEF CopyBounds
<1> QED
  BY <1>2, <1>3, <1>5 DEF CacheBounds

(* What a lookup puts into memory is of now or of a row that is not         *)
(* expired.                                                                 *)
LEMMA LookupBounds ==
  ASSUME CacheInv, CacheBounds, NEW t \in Thread, LookupStep(t), now' = now
  PROVE  CacheBounds'
<1>0. now \in Nat /\ CachesTyped /\ SnapshotTtl \in Nat /\ LookupOK(t)
  BY CacheAssumption DEF CacheInv, CachesTyped
<1>1. PICK n \in Namespace : n = Of(t)
  BY DEF Of, Namespace
<1>2. /\ owned' = owned /\ trades' = trades /\ (good' = good \/ good' = NoSnapshot)
      /\ copy' = copy \/ GetHit(t) \/ Fetched(t)
  BY DEF LookupStep, cacheVars, HoldersBegin, HoldersConnected, SnapshotBegin,
         WatchBegin, WatchConnected, WatchLeave, NoConnection,
         LookInMemory, LookFurther, GetConnected, GetHit, GetMiss, GetFails,
         Fetched, FetchRaises, FetchedNone, PeekConnected, Peeked, SetConnected, SetRow, StoreFails
<1>3. ASSUME NEW c, copy' = [copy EXCEPT ![n] = c], c.value.at <= now, c.stamp >= -SnapshotTtl
      PROVE  \A m \in Namespace : CopyBounds(m)'
  <2>1. copy'[n] = c /\ \A m \in Namespace \ {n} : copy'[m] = copy[m]
    BY <1>0, <1>3 DEF CachesTyped
  <2> QED
    BY <1>3, <2>1 DEF CacheBounds, CopyBounds
<1>4. \A m \in Namespace : CopyBounds(m)'
  <2>1. CASE copy' = copy
    BY <2>1 DEF CacheBounds, CopyBounds
  <2>2. ASSUME at[t] \in Asks  PROVE lookup[t].at \in Nat
    <3>1. lookup[t] # Nothing /\ lookup[t] \in {Nothing} \cup ValueType
      BY <1>0, <2>2 DEF LookupOK, CachesTyped
    <3> QED
      BY <3>1, ValueFields
  <2>3. CASE GetHit(t)
    <3>1. /\ row[n] # Nothing /\ ~Expired(n) /\ at[t] = "getting"
          /\ copy' = [copy EXCEPT ![n] = Seeded(n, lookup[t].at)]
      BY <1>1, <2>3 DEF GetHit, At
    <3>2. row[n].value \in ValueType /\ row[n].stored \in Nat /\ row[n].value.at = row[n].stored
          /\ row[n].stored <= now
      BY <1>0, <3>1, RowFields DEF CachesTyped, CacheInv, RowOK
    <3>3. row[n].value.ttl \in Nat /\ row[n].value.ttl <= SnapshotTtl /\ row[n].value.at <= now
      BY <3>2, ValueFields
    <3>4. now - row[n].stored <= row[n].value.ttl
      BY <1>0, <3>1, <3>2, <3>3 DEF Expired, RowAge
    <3>5. lookup[t].at \in Nat
      BY <2>2, <3>1 DEF Asks
    <3>6. /\ Seeded(n, lookup[t].at).value = row[n].value
          /\ Seeded(n, lookup[t].at).stamp = lookup[t].at - (now - row[n].stored)
      BY DEF Seeded, Copy, RowAge
    <3>7. lookup[t].at - (now - row[n].stored) >= -SnapshotTtl
      BY <1>0, <3>2, <3>3, <3>4, <3>5
    <3> QED
      BY <1>3, <3>1, <3>3, <3>6, <3>7
  <2>4. CASE Fetched(t)
    <3>1. at[t] = "fetch" /\ copy' = [copy EXCEPT ![n] = Copy(Value(now, LookupTtl), lookup[t].at)]
      BY <1>1, <2>4 DEF Fetched, At
    <3>2. lookup[t].at \in Nat
      BY <2>2, <3>1 DEF Asks
    <3>3. /\ Copy(Value(now, LookupTtl), lookup[t].at).value.at = now
          /\ Copy(Value(now, LookupTtl), lookup[t].at).stamp = lookup[t].at
      BY DEF Copy, Value
    <3>4. now <= now /\ lookup[t].at >= -SnapshotTtl
      BY <1>0, <3>2
    <3> QED
      BY <1>3, <3>1, <3>3, <3>4
  <2> QED
    BY <1>2, <2>1, <2>3, <2>4
<1> QED
  BY <1>2, <1>4 DEF CacheBounds

(* Every step of the caches keeps to their bounds. *)
LEMMA CacheBoundsStep == CacheInv /\ CacheBounds /\ [Next]_serverVars => CacheBounds'
<1> SUFFICES ASSUME CacheInv, CacheBounds, [Next]_serverVars  PROVE CacheBounds'
  OBVIOUS
<1>0. now \in Nat /\ Homes /\ CachesTyped
  BY DEF CacheInv, CachesTyped
<1>1. CASE UNCHANGED cacheVars /\ (now' = now \/ now' = now + 1)
  <2>1. UNCHANGED <<copy, owned, trades, good>>
    BY <1>1 DEF cacheVars
  <2>2. good # NoSnapshot => good \in Nat
    BY <1>0 DEF CachesTyped
  <2>3. ASSUME NEW n \in Namespace  PROVE CopyBounds(n)'
    <3>1. copy[n] # Nothing => copy[n].value.at \in Nat
      BY <1>0, CopyFields, ValueFields DEF CachesTyped
    <3>2. CopyBounds(n)
      BY DEF CacheBounds
    <3> QED
      BY <1>0, <1>1, <2>1, <3>1, <3>2 DEF CopyBounds
  <2> QED
    BY <1>0, <1>1, <2>1, <2>2, <2>3 DEF CacheBounds
<1>2. CASE NightStep /\ now' = now
  <2>1. UNCHANGED <<copy, owned, trades>> /\ (good' = good \/ good' = now)
    BY <1>2 DEF NightStep, NightBegins, PurgeDeletes, Snapshot, NightEnds
  <2> QED
    BY <1>0, <1>2, <2>1 DEF CacheBounds, CopyBounds
<1>3. CASE Trade /\ now' = now
  <2>1. copy' = copy /\ owned' = ~owned /\ good' = NoSnapshot /\ trades' = trades + 1 /\ trades < MaxTrades
    BY <1>3 DEF Trade
  <2>2. trades' \in 0..MaxTrades
    BY <2>1, CacheAssumption DEF CacheBounds
  <2>3. \A n \in Namespace : CopyBounds(n)'
    BY <1>3, <2>1 DEF CacheBounds, CopyBounds
  <2>4. owned' \in BOOLEAN
    BY <2>1
  <2> QED
    BY <2>1, <2>2, <2>3, <2>4 DEF CacheBounds
<1>4. ASSUME NEW t \in Thread, LookupStep(t), now' = now  PROVE CacheBounds'
  BY <1>4, LookupBounds
<1> QED
  BY <1>0, <1>1, <1>2, <1>3, <1>4, CacheFrame

(* Nobody has been shown a tour at the start. *)
LEMMA ShownInit == Init => ShownByRequests
  BY DEF Init, TourInit, ShownByRequests

(* Only a request shows a tour. *)
LEMMA ShownStep == Placed /\ ShownByRequests /\ [Next]_serverVars => ShownByRequests'
<1> SUFFICES ASSUME Placed, ShownByRequests, [Next]_serverVars, Thread = {}  PROVE shows' = shows
  BY DEF ShownByRequests
<1>1. \/ \E u \in Newcomer : Join(u)
      \/ UNCHANGED tourVars
  BY TourFrame
<1> QED
  BY <1>1 DEF Join, tourVars

(* The types of the components follow from their invariants. *)
LEMMA PoolTyped == PoolInv => PoolTypeOK
<1> SUFFICES ASSUME PoolInv  PROVE PoolTypeOK
  OBVIOUS
<1>1. PoolTypes /\ MaxConns \in Nat
  BY PoolAssumption DEF PoolInv
<1>2. ASSUME NEW p \in Maker  PROVE idle[p] \in 0..MaxConns
  <2>1. idle[p] \in Nat /\ Cardinality(HeldOf(p)) \in Nat
    BY <1>1, FS_CardinalityType DEF PoolInv, TotalsOK, PoolTypes
  <2>2. idle[p] + Cardinality(HeldOf(p)) = MaxConns \/ idle[p] + Cardinality(HeldOf(p)) = 0
    BY DEF PoolInv, TotalsOK, Total
  <2> QED
    BY <1>1, <2>1, <2>2
<1>3. idle \in [Maker -> 0..MaxConns]
  BY <1>1, <1>2 DEF PoolTypes
<1> QED
  BY <1>1, <1>3 DEF PoolTypes, PoolTypeOK, AcqType

(* What is cached and looked up is of now or before. *)
LEMMA CacheTyped == CacheInv /\ CacheBounds => CacheTypeOK
<1> SUFFICES ASSUME CacheInv, CacheBounds  PROVE CacheTypeOK
  OBVIOUS
<1> DEFINE Values == [kind : {"value"}, at : 0..now, ttl : {LookupTtl, SnapshotTtl}]
<1>0. now \in Nat /\ CachesTyped /\ SnapshotTtl \in Nat
  BY CacheAssumption DEF CacheInv, CachesTyped
<1>1. ASSUME NEW v \in ValueType, v.at <= now  PROVE v \in Values
  BY <1>0, <1>1 DEF ValueType
<1> HIDE DEF Values
<1>2. ASSUME NEW n \in Namespace, row[n] # Nothing
      PROVE  row[n] \in [kind : {"row"}, value : Values, stored : 0..now]
  <2>1. row[n] \in RowType /\ row[n].value.at = row[n].stored /\ row[n].stored <= now
    BY <1>0, <1>2 DEF CachesTyped, CacheInv, RowOK
  <2>2. row[n].value \in Values /\ row[n].stored \in 0..now
    BY <1>0, <1>1, <2>1 DEF RowType
  <2> QED
    BY <2>1, <2>2 DEF RowType
<1>3. ASSUME NEW n \in Namespace, copy[n] # Nothing
      PROVE  copy[n] \in [kind : {"copy"}, value : Values, stamp : (-SnapshotTtl)..now]
  <2>1. copy[n] \in CopyType /\ copy[n].stamp <= copy[n].value.at
        /\ copy[n].value.at <= now /\ copy[n].stamp >= -SnapshotTtl
    BY <1>0, <1>3 DEF CachesTyped, CacheInv, CopyOK, CacheBounds, CopyBounds
  <2>2. copy[n].value \in ValueType /\ copy[n].stamp \in Int /\ copy[n].value.at \in Nat
    BY <1>0, <1>3, CopyFields, ValueFields DEF CachesTyped
  <2>3. copy[n].value \in Values /\ copy[n].stamp \in (-SnapshotTtl)..now
    BY <1>0, <1>1, <2>1, <2>2
  <2> QED
    BY <2>1, <2>3 DEF CopyType
<1>4. ASSUME NEW t \in Thread, lookup[t] # Nothing  PROVE lookup[t] \in Values
  BY <1>0, <1>1, <1>4 DEF CachesTyped, CacheInv, LookupOK
<1>5. good \in (0..now) \cup {NoSnapshot}
  BY <1>0 DEF CachesTyped, CacheBounds
<1>6. /\ row \in [Namespace -> {Nothing} \cup [kind : {"row"}, value : Values, stored : 0..now]]
      /\ copy \in [Namespace -> {Nothing} \cup
            [kind : {"copy"}, value : Values, stamp : (-SnapshotTtl)..now]]
      /\ lookup \in [Thread -> {Nothing} \cup Values]
  BY <1>0, <1>2, <1>3, <1>4 DEF CachesTyped
<1> QED
  BY <1>0, <1>5, <1>6 DEF CacheTypeOK, CachesTyped, NightType, CacheBounds, Values

(* Copies of the organization and its edits are of now or before. *)
LEMMA MemberTyped == MemberInv => MemberTypeOK
<1> SUFFICES ASSUME MemberInv  PROVE MemberTypeOK
  OBVIOUS
<1>0. now \in Nat /\ MembersTyped /\ TimesPast
  BY DEF MemberInv, MembersTyped
<1>1. ASSUME NEW t \in Thread  PROVE seen[t] \in [meta : Metadata, asked : 0..now]
  <2>1. seen[t] \in [meta : Metadata, asked : Nat] /\ seen[t].asked <= now
    BY <1>0 DEF MembersTyped, TimesPast
  <2> QED
    BY <1>0, <2>1
<1>2. entry \in {NoEntry} \cup [kind : {"entry"}, coverage : Version, stamp : 0..now]
  <2>1. CASE entry = NoEntry
    BY <2>1
  <2>2. CASE entry # NoEntry
    <3>1. entry \in [kind : {"entry"}, coverage : Version, stamp : Nat] /\ entry.stamp <= now
      BY <1>0, <2>2 DEF MembersTyped, TimesPast
    <3> QED
      BY <1>0, <3>1
  <2> QED
    BY <2>1, <2>2
<1>3. ASSUME NEW v \in Version  PROVE ended[v] \in (0..now) \cup {NotEnded}
  <2>1. ended[v] \in Nat \cup {NotEnded} /\ ended[v] <= now
    BY <1>0, <1>3 DEF MembersTyped, TimesPast
  <2> QED
    BY <1>0, <2>1
<1>4. seen \in [Thread -> [meta : Metadata, asked : 0..now]]
  BY <1>0, <1>1 DEF MembersTyped
<1>5. ended \in [Version -> (0..now) \cup {NotEnded}]
  BY <1>0, <1>3 DEF MembersTyped
<1> QED
  BY <1>0, <1>2, <1>4, <1>5 DEF MemberTypeOK, MembersTyped, Metadata

(* A user is shown the tour once at most, if there are requests at all. *)
LEMMA TourTyped == TourInv /\ ShownByRequests => TourTypeOK
<1> SUFFICES ASSUME TourInv, ShownByRequests  PROVE TourTypeOK
  OBVIOUS
<1>1. ASSUME NEW u \in User  PROVE shows[u] \in 0..Cardinality(Thread)
  <2>1. shows[u] \in Nat /\ shows[u] <= 1 /\ (shows[u] > 0 => Thread # {})
    BY DEF TourInv, TourTypes, TourRowsOK, ShownByRequests
  <2>2. Cardinality(Thread) \in Nat /\ (Cardinality(Thread) = 0 <=> Thread = {})
    BY ThreadsAssumption, FS_CardinalityType, FS_EmptySet
  <2> QED
    BY <2>1, <2>2
<1>2. shows \in [User -> 0..Cardinality(Thread)]
  BY <1>1 DEF TourInv, TourTypes
<1> QED
  BY <1>2 DEF TourInv, TourTypes, TourTypeOK

(* The rows of the fund and its ledger. *)
LEMMA TradesTyped == TradeInv => TradeTypeOK
  BY DEF TradeInv, TradeTypeOK, Rows

(* Every table, cache, counter and thread of the server keeps its type, in  *)
(* any mix of requests.                                                     *)
THEOREM TypeCorrect == Spec => []TypeOK
<1>1. Init => Loaded
  BY DEF Init, Loaded
<1>2. Loaded /\ [Next]_serverVars => Loaded'
  BY HandlerStays DEF Loaded
<1>3. Loaded /\ PoolInv /\ AgentTypeOK /\ CacheInv /\ CacheBounds /\ MemberInv
        /\ TourInv /\ ShownByRequests /\ TradeInv
      => TypeOK
  <2> SUFFICES ASSUME Loaded, PoolInv, AgentTypeOK, CacheInv, CacheBounds, MemberInv,
                      TourInv, ShownByRequests, TradeInv
               PROVE  TypeOK
    OBVIOUS
  <2>1. PoolTypeOK
    BY PoolTyped
  <2>2. CacheTypeOK
    BY CacheTyped
  <2>3. MemberTypeOK
    BY MemberTyped
  <2>4. TourTypeOK
    BY TourTyped
  <2>5. TradeTypeOK
    BY TradesTyped
  <2>6. DOMAIN at = Thread
    BY DEF TradeInv, Placed
  <2>7. now \in Nat
    BY DEF MemberInv, MembersTyped
  <2> QED
    BY <2>1, <2>2, <2>3, <2>4, <2>5, <2>6, <2>7 DEF TypeOK, Loaded
<1>4. CacheInv /\ CacheBounds /\ [Next]_serverVars => CacheBounds'
  BY CacheBoundsStep
<1>5. Placed /\ ShownByRequests /\ [Next]_serverVars => ShownByRequests'
  BY ShownStep
<1>6. Spec => [](CacheInv /\ Placed)
  BY CacheInvariance, AlwaysPlaced, PTL
<1>7. Spec => []CacheBounds
  BY <1>4, <1>6, CacheBoundsInit, PTL DEF Spec
<1>8. Spec => []ShownByRequests
  BY <1>5, <1>6, ShownInit, PTL DEF Spec
<1>9. Spec => []Loaded
  BY <1>1, <1>2, PTL DEF Spec
<1> QED
  BY <1>3, <1>7, <1>8, <1>9, PoolInvariance, AgentsTyped, CacheInvariance, MemberInvariance,
     TourInvariance, TradeInvariance, PTL
=============================================================================

------------------------------- MODULE Trades -------------------------------
(***************************************************************************)
(* Batches of position changes by admins (model/trades.py,                 *)
(* api/admin_holdings.py): a batch is replayed on the rows of the fund as  *)
(* they were read, without a lock, and its outcome is written in one       *)
(* transaction with an entry of the ledger for each movement.              *)
(*                                                                         *)
(* There is one fund.  Amounts are multiples of the price of the index.    *)
(***************************************************************************)
EXTENDS ConnectionPool, SequencesExt

CONSTANTS
    Stock, Cash, Etf, \* what the fund may hold
    Price,            \* Price[a]: what a unit of a costs
    Opening           \* Opening[a]: the units held before the first batch

Asset == Stock \cup {Cash, Etf}
Absent == -1 \* no row in holdings

ASSUME TradesAssumption ==
    /\ Price \in [Asset -> Nat \ {0}]
    /\ Opening \in [Asset -> Nat \cup {Absent}] /\ Opening[Cash] # Absent
    /\ \A s \in Stock : Opening[s] # 0 /\ Price[s] % Price[Etf] = 0
    /\ Cash \notin Stock /\ Etf \notin Stock /\ Cash # Etf

(* What an admin may ask for: _num refuses amounts that are not positive.   *)
Route == {"none", "cash", "etf"}
Changes ==
    [kind : {"cash"}, asset : {Cash}, units : Int \ {0}, route : Route]
    \cup [kind : {"buy_new", "buy", "trim"}, asset : Asset, units : Nat \ {0}, route : Route]
    \cup [kind : {"sell_all"}, asset : Asset, units : {0}, route : Route]

VARIABLES
    book,   \* book[a]: the shares of a in holdings
    ledger, \* ledger[a]: the sum of its transactions, sales negative
    loaded  \* loaded[t]: the rows that request t read

tradeVars == <<book, ledger, loaded>>

TradeInit ==
    /\ book = Opening
    /\ ledger = [a \in Asset |-> 0]
    /\ loaded = [t \in Thread |-> Opening]

Batch(t) == handler[t].batch
Units(b, a) == IF b[a] = Absent THEN 0 ELSE b[a]

-----------------------------------------------------------------------------
(* run() replays a change c, a record of its kind, asset, units and route,  *)
(* on a state s: the rows, the positions closed and what to enter in the    *)
(* ledger.                                                                  *)
Start(b) == [ok |-> TRUE, rows |-> b, closed |-> {}, posted |-> [a \in Asset |-> 0]]
Refused(s) == [s EXCEPT !.ok = FALSE]

Moved(s, a, units) == [s EXCEPT !.rows[a] = Units(s.rows, a) + units, !.posted[a] = @ + units]
MovedIfEnough(s, a, units) ==
    IF s.rows[a] # Absent /\ s.rows[a] + units >= 0 THEN Moved(s, a, units) ELSE Refused(s)

(* settle(): the other side of a trade.  The position's own units were      *)
(* moved before; any refusal undoes the whole batch.                        *)
SettledUnposted(s, amount, c) ==
    IF c.route = "cash" THEN [MovedIfEnough(s, Cash, amount) EXCEPT !.posted = s.posted] ELSE s
Settled(s, amount, c) ==
    CASE c.route = "none" -> s
      [] c.route = "cash" -> MovedIfEnough(s, Cash, amount)
      [] c.route = "etf" /\ c.asset # Etf -> MovedIfEnough(s, Etf, amount \div Price[Etf])
      [] OTHER -> Refused(s)

Traded(s, c, units) == Settled(Moved(s, c.asset, units), -(units * Price[c.asset]), c)

BuysNew(s, c) == c.asset \in Stock /\ s.rows[c.asset] = Absent
Buys(s, c) == c.asset # Cash /\ s.rows[c.asset] # Absent
TrimsAtMost(s, c) == Buys(s, c) /\ c.units <= s.rows[c.asset]
Trims(s, c) == Buys(s, c) /\ c.units < s.rows[c.asset]
SellsAll(s, c) == Buys(s, c) /\ c.asset \in Stock

Changed(s, c) ==
    CASE c.kind = "cash" -> MovedIfEnough(s, Cash, c.units)
      [] c.kind = "buy_new" /\ BuysNew(s, c) -> Traded(s, c, c.units)
      [] c.kind = "buy" /\ Buys(s, c) -> Traded(s, c, c.units)
      [] c.kind = "trim" /\ Trims(s, c) -> Traded(s, c, -c.units)
      [] c.kind = "sell_all" /\ SellsAll(s, c) ->
            [Traded(s, c, -s.rows[c.asset]) EXCEPT !.closed = @ \cup {c.asset}]
      [] OTHER -> Refused(s)
Replayed(s, c) == IF s.ok THEN Changed(s, c) ELSE s

Outcome(t) == FoldLeft(Replayed, Start(loaded[t]), Batch(t))

(* A batch that changes no position is refused, too. *)
Accepted(t) == Outcome(t).ok /\ (Outcome(t).rows # loaded[t] \/ Outcome(t).closed # {})

-----------------------------------------------------------------------------
(* POST /api/admin/holdings/preview and /apply *)
TradeBegin(t) ==
    /\ Kind(t) \in {"preview", "apply"} /\ At(t, "begin")
    /\ GoTo(t, "trade connect") /\ Want(t)
    /\ UNCHANGED tradeVars

TradeNoConnection(t) ==
    /\ At(t, "trade connect") /\ GaveUp(t)
    /\ Finish(t)
    /\ UNCHANGED tradeVars

TradeConnected(t) ==
    /\ At(t, "trade connect") /\ Got(t)
    /\ GoTo(t, "trade load")
    /\ UNCHANGED tradeVars

TradeLoad(t) ==
    /\ At(t, "trade load")
    /\ loaded' = [loaded EXCEPT ![t] = book]
    /\ GoTo(t, "trade replay")
    /\ UNCHANGED <<poolVars, book, ledger>>

(* A refusal, a preview or an exception. *)
TradeAnswer(t) ==
    /\ At(t, "trade replay") /\ Put(t)
    /\ Finish(t)
    /\ UNCHANGED tradeVars

(* _commit: rows are written by key, whatever they have become meanwhile.   *)
New(t) == {a \in Asset : loaded[t][a] = Absent /\ Outcome(t).rows[a] # Absent} \ Outcome(t).closed
Written(t, a) ==
    IF a \in Outcome(t).closed THEN Absent
    ELSE IF a \in New(t) \/ (Outcome(t).rows[a] # loaded[t][a] /\ book[a] # Absent)
    THEN Outcome(t).rows[a] ELSE book[a]

TradeCommit(t) ==
    /\ At(t, "trade replay") /\ Kind(t) = "apply"
    /\ Accepted(t)
    /\ \A a \in New(t) : book[a] = Absent \* the primary key
    /\ book' = [a \in Asset |-> Written(t, a)]
    /\ ledger' = [a \in Asset |-> ledger[a] + Outcome(t).posted[a]]
    /\ Put(t) /\ Finish(t)
    /\ UNCHANGED loaded

-----------------------------------------------------------------------------
TradeStep(t) ==
    \/ TradeBegin(t) \/ TradeNoConnection(t) \/ TradeConnected(t)
    \/ TradeLoad(t) \/ TradeAnswer(t) \/ TradeCommit(t)

TradeTypeOK ==
    /\ book \in [Asset -> Nat \cup {Absent}]
    /\ ledger \in [Asset -> Int]
    /\ loaded \in [Thread -> [Asset -> Nat \cup {Absent}]]

(* Whatever batches are applied, one after the other or at once, a stock    *)
(* that is held is held with shares: a position sold down to nothing is     *)
(* closed (trades.py:185, 234), never left as an empty row.                 *)
PositionsPositive == \A s \in Stock : book[s] # 0

SoldAndBought(t) ==
    \E s \in Outcome(t).closed : Units(loaded[t], s) + Outcome(t).posted[s] # 0

(* A batch on rows that nobody changed since it read them moves each        *)
(* position by what it enters in the ledger for it, through every route and *)
(* order of changes, unless it buys what it sold out of before.             *)
CommitMatchesLedger ==
    [][\A t \in Thread :
         loaded[t] = book /\ ledger' # ledger /\ at'[t] # at[t] /\ ~SoldAndBought(t) =>
           \A a \in Asset : Units(book', a) - Units(book, a) = ledger'[a] - ledger[a]]_tradeVars

(* "the ledger captures trades going forward" (DESIGN.md:129): what the     *)
(* fund holds is what it held before and what the ledger says it traded.    *)
LedgerExplainsBook == \A a \in Asset : Units(book, a) = Units(Opening, a) + ledger[a]
=============================================================================

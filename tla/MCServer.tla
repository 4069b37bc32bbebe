------------------------------ MODULE MCServer ------------------------------
(* Small instances of Server for TLC. *)
EXTENDS Server

CONSTANTS t1, t2, t3, f1, n1, s1, s2

Load(first, second, third) == t1 :> first @@ t2 :> second @@ t3 :> third
Idle == [kind |-> "idle"]
Ask(kind) == [kind |-> kind]
Tour(u) == [kind |-> "tour", user |-> u]
Apply(batch) == [kind |-> "apply", batch |-> batch]
Preview(batch) == [kind |-> "preview", batch |-> batch]

Change(kind, asset, units, route) ==
    [kind |-> kind, asset |-> asset, units |-> units, route |-> route]

Prices == s1 :> 2 @@ s2 :> 2 @@ "cash" :> 1 @@ "etf" :> 2
OpeningBook == s1 :> 2 @@ s2 :> Absent @@ "cash" :> 4 @@ "etf" :> 1

BuyNew == <<Change("buy_new", s2, 1, "cash")>>
BuyNewFromIndex == <<Change("cash", "cash", 2, "none"), Change("buy_new", s2, 1, "etf")>>
TrimAll == <<Change("trim", s1, 1, "etf"), Change("trim", s1, 1, "cash")>>
Rotate == <<Change("sell_all", s1, 0, "cash"), Change("buy", "etf", 1, "cash")>>
AddAndTrim == <<Change("buy", s1, 1, "cash"), Change("trim", s1, 2, "etf"), Change("trim", "etf", 1, "none")>>
SellAndRebuy == <<Change("sell_all", s1, 0, "cash"), Change("buy", s1, 1, "cash")>>

(* One batch at a time. *)
OneBatch == {Load(Apply(b), Idle, Idle) : b \in {BuyNew, BuyNewFromIndex, TrimAll, Rotate, AddAndTrim, SellAndRebuy}}

Clocks == "run" :> 3 @@ "holders" :> 4 @@ "watch" :> 3 @@ "me" :> 3

ColdLoads == {
    Load(Ask("chat"), Ask("chat"), Ask("chat")) }

Everything == {
    Load(Ask("chat"), Ask("chat"), Ask("chat")),
    Load(Ask("run"), Ask("run"), Ask("run")),
    Load(Ask("holders"), Ask("holders"), Idle),
    Load(Ask("holders"), Ask("watch"), Idle),
    Load(Ask("watch"), Ask("watch"), Ask("watch")),
    Load(Ask("me"), Ask("me"), Idle),
    Load(Ask("me"), Ask("cover"), Ask("lead")),
    Load(Tour(f1), Tour(n1), Tour(n1)),
    Load(Tour(f1), Tour(f1), Tour(n1)),
    Load(Apply(BuyNew), Apply(BuyNewFromIndex), Preview(TrimAll)),
    Load(Apply(TrimAll), Apply(Rotate), Apply(AddAndTrim)),
    Load(Apply(SellAndRebuy), Ask("chat"), Ask("watch")) }
=============================================================================

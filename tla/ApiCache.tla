------------------------------ MODULE ApiCache ------------------------------
(***************************************************************************)
(* The durable cache of provider data (model/cache.py) and the copy that   *)
(* the server keeps in memory (ingest/lookup.py): on-demand lookups of the *)
(* holders of a ticker and of its quote, and the nightly job that purges   *)
(* the table and stores the holders of the tickers the funds own.          *)
(*                                                                         *)
(* There is one ticker.  A value is known by when it was fetched and how   *)
(* long it may be used.                                                    *)
(***************************************************************************)
EXTENDS ConnectionPool

CONSTANTS
    LookupTtl,   \* _TTL of lookup.py
    SnapshotTtl, \* _SNAPSHOT_TTL of snapshots.py
    MaxTrades    \* bound on how often the ticker is bought or sold

ASSUME CacheAssumption ==
    /\ LookupTtl \in Nat \ {0} /\ SnapshotTtl \in Nat /\ LookupTtl <= SnapshotTtl
    /\ MaxTrades \in Nat

Namespace == {"holders", "quote"}

VARIABLES
    row,     \* row[n]: the row of api_cache for the ticker
    copy,    \* copy[n]: _HOLDERS_CACHE, _QUOTE_CACHE
    lookup,  \* lookup[t]: when the lookup of t began, or what it fetched
    owned,   \* whether a fund holds the ticker
    trades,  \* how often that has changed
    night,   \* the nightly job
    good     \* when the snapshot of the owned ticker in the table was stored

cacheVars == <<row, copy, lookup, owned, trades, night, good>>

Nothing == [kind |-> "nothing"]
Value(time, ttl) == [kind |-> "value", at |-> time, ttl |-> ttl]
Row(value, time) == [kind |-> "row", value |-> value, stored |-> time]
Copy(value, stamp) == [kind |-> "copy", value |-> value, stamp |-> stamp]
NoSnapshot == -1
Asleep == [stage |-> "asleep"]

CacheInit ==
    /\ row = [n \in Namespace |-> Nothing]
    /\ copy = [n \in Namespace |-> Nothing]
    /\ lookup = [t \in Thread |-> Nothing]
    /\ owned = FALSE /\ trades = 0
    /\ night = Asleep
    /\ good = NoSnapshot

Of(t) == IF Kind(t) = "watch" THEN "quote" ELSE "holders"
RowAge(n) == now - row[n].stored

(* purge_expired and get agree on what is expired. *)
Expired(n) == row[n] # Nothing /\ RowAge(n) > row[n].value.ttl

-----------------------------------------------------------------------------
(* GET /api/holders: an owned ticker is answered from its snapshot.         *)
HoldersBegin(t) ==
    /\ Kind(t) = "holders" /\ At(t, "begin")
    /\ GoTo(t, "owned?") /\ Want(t)
    /\ UNCHANGED cacheVars

HoldersConnected(t) ==
    /\ At(t, "owned?") /\ Got(t)
    /\ GoTo(t, IF owned THEN "snapshot" ELSE "look")
    /\ UNCHANGED cacheVars

SnapshotBegin(t) ==
    /\ At(t, "snapshot") /\ PutAndWant(t)
    /\ GoTo(t, "peek")
    /\ UNCHANGED cacheVars

(* GET /api/watchlist keeps its connection while it looks up a quote.       *)
WatchBegin(t) ==
    /\ Kind(t) = "watch" /\ At(t, "begin")
    /\ GoTo(t, "list") /\ Want(t)
    /\ UNCHANGED cacheVars

WatchConnected(t) ==
    /\ At(t, "list") /\ Got(t)
    /\ GoTo(t, "look")
    /\ UNCHANGED cacheVars

WatchLeave(t) ==
    /\ At(t, "leave") /\ Put(t)
    /\ Finish(t)
    /\ UNCHANGED cacheVars

(* The response: a watchlist still has its connection to give back.         *)
Reply(t) == IF Kind(t) = "watch" THEN GoTo(t, "leave") ELSE Finish(t)
Remember(t, value) == lookup' = [lookup EXCEPT ![t] = value]
Forget(t) == Remember(t, Nothing)

NoConnection(t) ==
    /\ at[t] \in {"owned?", "list"} /\ GaveUp(t)
    /\ Finish(t)
    /\ UNCHANGED cacheVars

(* A route that asked for holders still has the connection of its query.    *)
Released(t) == IF Kind(t) = "holders" THEN Put(t) ELSE UNCHANGED poolVars
ReleasedAndWants(t) == IF Kind(t) = "holders" THEN PutAndWant(t) ELSE Want(t)

(* quote_overview and institutional_holders: the copy in memory, ...        *)
CopyValid(n) == copy[n] # Nothing /\ now - copy[n].stamp < LookupTtl

LookInMemory(t) ==
    /\ At(t, "look")
    /\ CopyValid(Of(t))
    /\ Released(t) /\ Reply(t)
    /\ UNCHANGED cacheVars

LookFurther(t) ==
    /\ At(t, "look")
    /\ ~CopyValid(Of(t))
    /\ Remember(t, Value(now, LookupTtl))
    /\ ReleasedAndWants(t) /\ GoTo(t, "get")
    /\ UNCHANGED <<row, copy, owned, trades, night, good>>

(* ... get(): a fresh row, whose age goes with it, or any failure a miss,   *)
SeededAsNew(n, start) == Copy(row[n].value, start)
Seeded(n, start) == Copy(row[n].value, start - RowAge(n))

GetConnected(t) ==
    /\ At(t, "get") /\ Got(t)
    /\ GoTo(t, "getting")
    /\ UNCHANGED cacheVars

GetHit(t) ==
    /\ At(t, "getting") /\ Put(t)
    /\ LET n == Of(t)
       IN  /\ row[n] # Nothing /\ ~Expired(n)
           /\ copy' = [copy EXCEPT ![n] = Seeded(n, lookup[t].at)]
    /\ Forget(t) /\ Reply(t)
    /\ UNCHANGED <<row, owned, trades, night, good>>

GetMiss(t) ==
    /\ At(t, "getting") /\ Put(t)
    /\ row[Of(t)] = Nothing \/ Expired(Of(t))
    /\ GoTo(t, "fetch")
    /\ UNCHANGED cacheVars

GetFails(t) ==
    /\ At(t, "get") /\ GaveUp(t)
    /\ GoTo(t, "fetch")
    /\ UNCHANGED cacheVars

(* ... the provider, whose answer goes to memory and then to the table.     *)
Fetched(t) ==
    /\ At(t, "fetch")
    /\ LET value == Value(now, LookupTtl)
       IN  copy' = [copy EXCEPT ![Of(t)] = Copy(value, lookup[t].at)] /\ Remember(t, value)
    /\ GoTo(t, "set") /\ Want(t)
    /\ UNCHANGED <<row, owned, trades, night, good>>

FetchRaises(t) ==
    /\ At(t, "fetch")
    /\ Forget(t) /\ Reply(t)
    /\ UNCHANGED <<poolVars, row, copy, owned, trades, night, good>>

(* No holders table at all: the last known one is better than none.         *)
FetchedNone(t) ==
    /\ At(t, "fetch") /\ Of(t) = "holders"
    /\ Forget(t)
    /\ GoTo(t, "peek") /\ Want(t)
    /\ UNCHANGED <<row, copy, owned, trades, night, good>>

PeekConnected(t) ==
    /\ At(t, "peek") /\ Got(t)
    /\ GoTo(t, "peeking")
    /\ UNCHANGED cacheVars

Peeked(t) ==
    /\ At(t, "peeking") /\ Put(t)
    /\ Reply(t)
    /\ UNCHANGED cacheVars

SetConnected(t) ==
    /\ At(t, "set") /\ Got(t)
    /\ GoTo(t, "setting")
    /\ UNCHANGED cacheVars

(* A lookup that began before the ticker was bought replaces its snapshot.  *)
SetRow(t) ==
    /\ At(t, "setting") /\ Put(t)
    /\ row' = [row EXCEPT ![Of(t)] = Row(lookup[t], now)]
    /\ good' = IF Of(t) = "holders" THEN NoSnapshot ELSE good
    /\ Forget(t) /\ Reply(t)
    /\ UNCHANGED <<copy, owned, trades, night>>

(* set() and peek() skip what they cannot do. *)
StoreFails(t) ==
    /\ at[t] \in {"set", "peek"} /\ GaveUp(t)
    /\ Forget(t) /\ Reply(t)
    /\ UNCHANGED <<row, copy, owned, trades, night, good>>

-----------------------------------------------------------------------------
(* The nightly job: purge_expired() selects rows, then deletes them by key, *)
PurgeAfterAnHour == {n \in Namespace : row[n] # Nothing /\ RowAge(n) > LookupTtl}
PurgeSelection == {n \in Namespace : Expired(n)}

NightBegins ==
    /\ night = Asleep
    /\ night' = [stage |-> "purging", doomed |-> PurgeSelection]
    /\ UNCHANGED <<row, copy, lookup, owned, trades, good>>

PurgeDeletes ==
    /\ night.stage = "purging"
    /\ row' = [n \in Namespace |-> IF n \in night.doomed THEN Nothing ELSE row[n]]
    /\ night' = [stage |-> "snapshots"]
    /\ UNCHANGED <<copy, lookup, owned, trades, good>>

(* then the holders of an owned ticker are fetched and stored ... *)
Snapshot ==
    /\ night.stage = "snapshots" /\ owned
    /\ row' = [row EXCEPT !["holders"] = Row(Value(now, SnapshotTtl), now)]
    /\ good' = now
    /\ night' = Asleep
    /\ UNCHANGED <<copy, lookup, owned, trades>>

(* ... unless a step raises, the provider has nothing or nobody owns it.    *)
NightEnds ==
    /\ night # Asleep
    /\ night' = Asleep
    /\ UNCHANGED <<row, copy, lookup, owned, trades, good>>

(* An admin buys or sells the ticker. *)
Trade ==
    /\ trades < MaxTrades
    /\ trades' = trades + 1
    /\ owned' = ~owned
    /\ good' = NoSnapshot
    /\ UNCHANGED <<row, copy, lookup, night>>

-----------------------------------------------------------------------------
(* Lookups end in the next tick at the latest, and what was fetched is      *)
(* stored, or not, in the tick in which it was fetched.                     *)
LookupsOnTime ==
    \A t \in Thread : at[t] \notin {"set", "setting"} /\ (lookup[t] # Nothing => lookup[t].at = now)

LookupStep(t) ==
    \/ HoldersBegin(t) \/ HoldersConnected(t) \/ SnapshotBegin(t)
    \/ WatchBegin(t) \/ WatchConnected(t) \/ WatchLeave(t) \/ NoConnection(t)
    \/ LookInMemory(t) \/ LookFurther(t) \/ GetConnected(t) \/ GetHit(t) \/ GetMiss(t) \/ GetFails(t)
    \/ Fetched(t) \/ FetchRaises(t) \/ FetchedNone(t)
    \/ PeekConnected(t) \/ Peeked(t) \/ SetConnected(t) \/ SetRow(t) \/ StoreFails(t)

NightStep == NightBegins \/ PurgeDeletes \/ Snapshot \/ NightEnds

CacheTypeOK ==
    LET Values == [kind : {"value"}, at : 0..now, ttl : {LookupTtl, SnapshotTtl}]
    IN  /\ row \in [Namespace -> {Nothing} \cup [kind : {"row"}, value : Values, stored : 0..now]]
        /\ copy \in [Namespace -> {Nothing} \cup
              [kind : {"copy"}, value : Values, stamp : (-SnapshotTtl)..now]]
        /\ lookup \in [Thread -> {Nothing} \cup Values]
        /\ owned \in BOOLEAN /\ trades \in 0..MaxTrades
        /\ night \in {Asleep} \cup [stage : {"purging"}, doomed : SUBSET Namespace]
              \cup [stage : {"snapshots"}]
        /\ good \in (0..now) \cup {NoSnapshot}

(* "The age lets callers seed their in-memory copy with the true remaining  *)
(* freshness" (cache.py:68): through memory, the table and the nightly job, *)
(* nothing that would be given out as fresh is older than the lifetime it   *)
(* was stored with.                                                         *)
FreshWithinLifetime ==
    LET Lives(value) == now - value.at <= value.ttl
    IN  \A n \in Namespace :
            /\ CopyValid(n) => Lives(copy[n].value)
            /\ row[n] # Nothing /\ ~Expired(n) => Lives(row[n].value)

(* "if tonight's upstream refresh fails, the application should keep        *)
(* serving yesterday's snapshot" (cache.py:103): as long as a ticker stays  *)
(* owned its last snapshot survives the purges of its lifetime, also when   *)
(* they race with lookups, unless a lookup from before the purchase         *)
(* overwrites it.                                                           *)
LastKnownGood ==
    owned /\ good # NoSnapshot /\ now - good <= SnapshotTtl => row["holders"] # Nothing
=============================================================================

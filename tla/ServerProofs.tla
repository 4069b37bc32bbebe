----------------------------- MODULE ServerProofs -----------------------------
(***************************************************************************)
(* What the proofs about the components of a server share: a step of one   *)
(* request leaves the places of all others alone, and a step of one        *)
(* component leaves alone what the others keep.                            *)
(***************************************************************************)
EXTENDS Server, FiniteSetTheorems, TLAPS

(* Where the requests are, as far as every component relies on it. *)
Placed == DOMAIN at = Thread

Stays(s) == at'[s] = at[s]

(* Every request has a place from the start. *)
LEMMA PlacedInit == Init => Placed
  BY DEF Init, Placed

(* What a handler is asked never changes. *)
LEMMA HandlerStays == [Next]_serverVars => handler' = handler
  BY DEF Next, serverVars, ThreadStep, AgentsOutside, Pool, Agents, Lookups, Organization,
         Tours, Admins, Night, Ownership, NewMember, Tick

(* The places of a request by its kind. *)
ChatPlaces == {"chat connect", "chat prompt", "chat answer", "chat leave"}
RunPlaces == {"run connect", "run build", "run start"}
LookupPlaces == {"owned?", "snapshot", "peek", "peeking", "list", "leave", "look",
                 "get", "getting", "fetch", "set", "setting"}
MemberPlaces == {"me get", "me store", "me connect", "me read", "edit put", "edit pop"}
TourPlaces == {"tour connect", "tour directory", "tour backfilled?", "tour backfill", "tour claim"}
TradePlaces == {"trade connect", "trade load", "trade replay"}

OfAChat(t) == Kind(t) = "chat"
OfARun(t) == Kind(t) = "run"
OfALookup(t) == Kind(t) \in {"holders", "watch"}
OfAMember(t) == Kind(t) \in {"me", "cover", "lead"}
OfATour(t) == Kind(t) = "tour"
OfATrade(t) == Kind(t) \in {"preview", "apply"}

AtHome(t) ==
    \/ at[t] \in {"begin", "done"}
    \/ OfAChat(t) /\ at[t] \in ChatPlaces
    \/ OfARun(t) /\ at[t] \in RunPlaces
    \/ OfALookup(t) /\ at[t] \in LookupPlaces
    \/ OfAMember(t) /\ at[t] \in MemberPlaces
    \/ OfATour(t) /\ at[t] \in TourPlaces
    \/ OfATrade(t) /\ at[t] \in TradePlaces

(* A thread moves nobody but itself. *)
LEMMA ChatMoves ==
  ASSUME NEW t \in Thread, ChatStep(t)
  PROVE  \E p \in ChatPlaces \cup {"done"} : at' = [at EXCEPT ![t] = p]
  BY DEF ChatStep, GoTo, Finish, ChatPlaces,
         ChatEnter, ChatBusy, ChatConnected, ChatPrompt, ChatAnswered, ChatNoConnection, ChatLeave

LEMMA RunMoves ==
  ASSUME NEW t \in Thread, RunStep(t)
  PROVE  \E p \in RunPlaces \cup {"done"} : at' = [at EXCEPT ![t] = p]
  BY DEF RunStep, GoTo, Finish, RunPlaces,
         RunEnter, RunBusy, RunConnected, RunNoConnection, RunBuildFails, RunBuilt, RunStart

LEMMA LookupMoves ==
  ASSUME NEW t \in Thread, LookupStep(t)
  PROVE  \E p \in LookupPlaces \cup {"done"} : at' = [at EXCEPT ![t] = p]
  BY DEF LookupStep, GoTo, LookupPlaces, Finish, Reply, HoldersBegin, HoldersConnected, SnapshotBegin,
         WatchBegin, WatchConnected, WatchLeave, NoConnection,
         LookInMemory, LookFurther, GetConnected, GetHit, GetMiss, GetFails,
         Fetched, FetchRaises, FetchedNone, PeekConnected, Peeked, SetConnected, SetRow, StoreFails

LEMMA MemberMoves ==
  ASSUME NEW t \in Thread, MemberStep(t)
  PROVE  \E p \in MemberPlaces \cup {"done"} : at' = [at EXCEPT ![t] = p]
  BY DEF MemberStep, GoTo, MemberPlaces, Finish, MeCached, MeAsks, MeGot, MeStores, MeConnected, MeAnswered,
         MeNoConnection, EditGot, EditPut, EditPutLost, EditPop, WorkOSFails

LEMMA TourMoves ==
  ASSUME NEW t \in Thread, TourStep(t)
  PROVE  at' = at \/ \E p \in TourPlaces \cup {"done"} : at' = [at EXCEPT ![t] = p]
  BY DEF TourStep, GoTo, TourPlaces, Finish, TourBegin, TourRefused, TourConnected, TourNoConnection, TourListed,
         TourDirectoryDown, TourBackfilled, TourMarks, TourMarkedAll, TourClaims, TourFails

LEMMA TradeMoves ==
  ASSUME NEW t \in Thread, TradeStep(t)
  PROVE  \E p \in TradePlaces \cup {"done"} : at' = [at EXCEPT ![t] = p]
  BY DEF TradeStep, GoTo, TradePlaces, Finish, TradeBegin, TradeNoConnection, TradeConnected, TradeLoad,
         TradeAnswer, TradeCommit

LEMMA OutsideMoves ==
  ASSUME NEW t \in Thread, AgentsOutside(t)
  PROVE  at' = at
  BY DEF AgentsOutside, WorkerEnds, PollStep, Poll, PollLost, PollStops

(* A step of a thread moves that thread alone, ... *)
LEMMA ThreadMoves ==
  ASSUME NEW t \in Thread, ThreadStep(t)
  PROVE  at' = at \/ \E p : at' = [at EXCEPT ![t] = p]
  BY ChatMoves, RunMoves, LookupMoves, MemberMoves, TourMoves, TradeMoves
     DEF ThreadStep, Pool, Agents, Lookups, Organization, Tours, Admins

(* So every thread keeps its place but for the one that moves, ...          *)
LEMMA Moves ==
  ASSUME Placed, [Next]_serverVars
  PROVE  /\ Placed'
         /\ \/ \A s \in Thread : Stays(s)
            \/ \E t \in Thread : ThreadStep(t) /\ \A s \in Thread \ {t} : Stays(s)
<1>1. ASSUME NEW t \in Thread, ThreadStep(t)
      PROVE  Placed' /\ \A s \in Thread \ {t} : Stays(s)
  BY <1>1, ThreadMoves DEF Placed, Stays
<1>2. CASE at' = at
  BY <1>2 DEF Placed, Stays
<1>3. at' = at \/ \E t \in Thread : ThreadStep(t)
  BY OutsideMoves DEF Next, Night, Ownership, NewMember, Tick, serverVars
<1> QED
  BY <1>1, <1>2, <1>3

(* ... everyone keeps a place, ... *)
LEMMA PlacedStep == Placed /\ [Next]_serverVars => Placed'
  BY Moves

LEMMA AlwaysPlaced == Spec => []Placed
  BY PlacedInit, PlacedStep, PTL DEF Spec

(* ... everyone is at a place of its kind, ...                              *)
Homes == Placed /\ \A t \in Thread : AtHome(t)

(* ... everyone starts at home, ... *)
LEMMA HomesInit == Init => Homes
  BY PlacedInit DEF Init, Homes, AtHome

(* ... a step leads to a place of the thread's own kind, ... *)
LEMMA ThreadAtHome ==
  ASSUME Homes, handler' = handler, NEW t \in Thread, ThreadStep(t)
  PROVE  AtHome(t)'
<1>1. Placed /\ AtHome(t)
  BY DEF Homes
<1>2. CASE at' = at
  BY <1>1, <1>2 DEF AtHome, Kind, OfAChat, OfARun, OfALookup, OfAMember, OfATour, OfATrade
<1>3. ASSUME NEW p, at' = [at EXCEPT ![t] = p]  PROVE at'[t] = p
  BY <1>1, <1>3 DEF Placed
<1>4. CASE Pool(t)
  BY <1>2, <1>4 DEF Pool
<1>5. CASE Agents(t)
  <2>1. at[t] \in ChatPlaces \cup {"begin"} \/ ~ChatStep(t)
    BY DEF ChatStep, ChatPlaces, At, ChatEnter, ChatBusy, ChatConnected, ChatPrompt, ChatAnswered,
           ChatNoConnection, ChatLeave
  <2>2. at[t] \in RunPlaces \cup {"begin"} \/ ~RunStep(t)
    BY DEF RunStep, RunPlaces, At, RunEnter, RunBusy, RunConnected, RunNoConnection, RunBuildFails,
           RunBuilt, RunStart
  <2>3. at[t] = "begin" => (ChatStep(t) => OfAChat(t)) /\ (RunStep(t) => OfARun(t))
    BY DEF ChatStep, RunStep, At, OfAChat, OfARun, ChatEnter, ChatBusy, ChatConnected, ChatPrompt,
           ChatAnswered, ChatNoConnection, ChatLeave, RunEnter, RunBusy, RunConnected,
           RunNoConnection, RunBuildFails, RunBuilt, RunStart
  <2>4. (ChatStep(t) /\ OfAChat(t)) \/ (RunStep(t) /\ OfARun(t))
    BY <1>1, <1>5, <2>1, <2>2, <2>3
       DEF Agents, AtHome, OfAChat, OfARun, OfALookup, OfAMember, OfATour, OfATrade, ChatPlaces, RunPlaces
  <2>5. (OfAChat(t) /\ at'[t] \in ChatPlaces \cup {"done"}) \/ (OfARun(t) /\ at'[t] \in RunPlaces \cup {"done"})
    BY <1>3, <2>4, ChatMoves, RunMoves
  <2> QED
    BY <2>5 DEF AtHome, OfAChat, OfARun, Kind
<1>6. CASE Lookups(t)
  <2>1. OfALookup(t) /\ at'[t] \in LookupPlaces \cup {"done"}
    BY <1>3, <1>6, LookupMoves DEF Lookups, OfALookup
  <2> QED
    BY <2>1 DEF AtHome, OfALookup, Kind
<1>7. CASE Organization(t)
  <2>1. OfAMember(t) /\ at'[t] \in MemberPlaces \cup {"done"}
    BY <1>3, <1>7, MemberMoves DEF Organization, OfAMember
  <2> QED
    BY <2>1 DEF AtHome, OfAMember, Kind
<1>8. CASE Tours(t)
  <2>1. at' = at \/ (OfATour(t) /\ at'[t] \in TourPlaces \cup {"done"})
    BY <1>3, <1>8, TourMoves DEF Tours, OfATour
  <2> QED
    BY <1>2, <2>1 DEF AtHome, OfATour, Kind
<1>9. CASE Admins(t)
  <2>1. OfATrade(t) /\ at'[t] \in TradePlaces \cup {"done"}
    BY <1>3, <1>9, TradeMoves DEF Admins, OfATrade
  <2> QED
    BY <2>1 DEF AtHome, OfATrade, Kind
<1> QED
  BY <1>4, <1>5, <1>6, <1>7, <1>8, <1>9 DEF ThreadStep

(* ... so no step takes a request to a place of another kind, ... *)
LEMMA HomesStep == Homes /\ [Next]_serverVars => Homes'
<1> SUFFICES ASSUME Homes, [Next]_serverVars  PROVE Homes'
  OBVIOUS
<1>1. Placed' /\ handler' = handler
  BY PlacedStep, HandlerStays DEF Homes
<1>2. ASSUME NEW s \in Thread, Stays(s)  PROVE AtHome(s)'
  BY <1>1, <1>2 DEF Homes, AtHome, Stays, Kind, OfAChat, OfARun, OfALookup, OfAMember, OfATour, OfATrade
<1>3. \A s \in Thread : AtHome(s)'
  BY <1>1, <1>2, Moves, ThreadAtHome DEF Homes
<1> QED
  BY <1>1, <1>3 DEF Homes

LEMMA AlwaysHome == Spec => []Homes
  BY HomesInit, HomesStep, PTL DEF Spec

(* ... and one who is answered stays so.                                    *)
LEMMA DoneStays ==
  ASSUME Placed, [Next]_serverVars, NEW t \in Thread, At(t, "done")
  PROVE  At(t, "done")'
  BY Moves DEF ThreadStep, At, Stays

-----------------------------------------------------------------------------
(* The steps that concern the welcome tour. *)
LEMMA TourFrame ==
  ASSUME Placed, [Next]_serverVars
  PROVE  \/ \E t \in Thread : /\ Kind(t) = "tour" /\ ~At(t, "done") /\ TourStep(t)
                              /\ \A s \in Thread \ {t} : Stays(s)
         \/ (\E u \in Newcomer : Join(u)) /\ \A s \in Thread : Stays(s)
         \/ UNCHANGED tourVars /\ \A s \in Thread : Kind(s) = "tour" => Stays(s)
<1>1. ASSUME NEW t \in Thread, ThreadStep(t)
      PROVE  \/ Kind(t) = "tour" /\ ~At(t, "done") /\ TourStep(t)
             \/ UNCHANGED tourVars /\ (Kind(t) = "tour" => Stays(t))
  BY <1>1 DEF ThreadStep, Pool, Agents, Lookups, Organization, Tours, Admins, Stays
<1>2. ASSUME NEW t \in Thread, AgentsOutside(t)
      PROVE  UNCHANGED tourVars
  BY <1>2 DEF AgentsOutside
<1>3. ASSUME NEW t \in Thread, ThreadStep(t)
      PROVE  \A s \in Thread \ {t} : Stays(s)
  BY <1>3, ThreadMoves DEF Placed, Stays
<1> QED
  BY <1>1, <1>2, <1>3, OutsideMoves
     DEF Next, Night, Ownership, NewMember, Tick, serverVars, Stays

-----------------------------------------------------------------------------
(* The pool of connections.  How many connections a request holds is known  *)
(* from its place.                                                          *)
OneHeld == {"chat prompt", "run build", "me read", "look", "snapshot", "leave", "peeking",
            "tour directory", "tour backfilled?", "tour backfill", "tour claim",
            "trade load", "trade replay"}
Base(t) == IF Kind(t) = "watch" THEN 1 ELSE 0
CountAt(point, base) ==
    CASE point \in OneHeld -> 1
      [] point \in {"get", "fetch", "set"} -> base
      [] point \in {"getting", "setting"} -> base + 1
      [] OTHER -> 0
Count(t) == CountAt(at[t], Base(t))

HoldersOnly == {"owned?", "snapshot", "peek", "peeking"}
Holding(t) ==
    /\ Len(held[t]) = Count(t)
    /\ at[t] \in HoldersOnly => Kind(t) # "watch"

AcqType == {NotAsking, Wanting, Unlocked, Locking}
             \cup [step : {"entering", "making", "leaving"}, lock : Maker]
             \cup [step : {"waiting"}, pool : Maker]

PoolTypes ==
    /\ lock \in Maker \cup {Nobody} /\ pool \in Maker \cup {Nobody}
    /\ idle \in [Maker -> Nat]
    /\ acq \in [Thread -> AcqType]
    /\ held \in [Thread -> Seq(Maker)]

Total(p) == idle[p] + Cardinality(HeldOf(p))

(* A pool has all its connections once it was made, and none before; a      *)
(* request that is about to make one has not made one before.               *)
TotalsOK ==
    /\ \A p \in Maker : IsFiniteSet(HeldOf(p))
    /\ \A p \in Maker : Total(p) = MaxConns \/ (Total(p) = 0 /\ p # pool)
    /\ pool = Nobody => \A p \in Maker : Total(p) = 0
    /\ \A t \in Thread : acq[t].step = "making" => Total(t) = 0
    /\ \A t \in Thread : acq[t].step = "leaving" => pool # Nobody
    /\ \A t \in Thread : acq[t].step = "locking" => lock # Nobody
    /\ lock = Startup => pool # Nobody

PoolInv == Placed /\ PoolTypes /\ TotalsOK /\ \A t \in Thread : Holding(t)

-----------------------------------------------------------------------------
(* What HeldOf counts when the requests hold h: the places in h with p,     *)
(* one more for a connection taken and one less for one given back.         *)
Places(h, p) == {c \in UNION {{t} \X DOMAIN h[t] : t \in Thread} : h[c[1]][c[2]] = p}

(* A place is a thread and a position of its stack. *)
LEMMA PlacesOf ==
  ASSUME NEW h, NEW p, NEW t \in Thread, NEW i
  PROVE  <<t, i>> \in Places(h, p) <=> i \in DOMAIN h[t] /\ h[t][i] = p
  BY DEF Places

LEMMA PlacesArePairs ==
  ASSUME NEW h, NEW p, NEW c \in Places(h, p)
  PROVE  \E t, i : t \in Thread /\ c = <<t, i>>
  BY DEF Places

Adds(h, k, t, p) ==
    /\ h \in [Thread -> Seq(Maker)]
    /\ k = [h EXCEPT ![t] = Append(h[t], p)]
Drops(h, k, t, p) ==
    /\ h \in [Thread -> Seq(Maker)] /\ Len(h[t]) > 0 /\ p = h[t][Len(h[t])]
    /\ k = [h EXCEPT ![t] = SubSeq(h[t], 1, Len(h[t]) - 1)]

Added(h, k, t, p) ==
    /\ <<t, Len(h[t]) + 1>> \notin Places(h, p)
    /\ Places(k, p) = Places(h, p) \cup {<<t, Len(h[t]) + 1>>}
    /\ \A q : q # p => Places(k, q) = Places(h, q)
Dropped(h, k, t, p) ==
    /\ <<t, Len(h[t])>> \in Places(h, p)
    /\ Places(k, p) = Places(h, p) \ {<<t, Len(h[t])>>}
    /\ \A q : q # p => Places(k, q) = Places(h, q)

(* A connection that is taken adds one place, ... *)
LEMMA PlaceAdded ==
  ASSUME NEW h, NEW k, NEW t \in Thread, NEW p \in Maker, Adds(h, k, t, p)
  PROVE  Added(h, k, t, p)
<1> DEFINE n == Len(h[t])
           m == n + 1
<1>1. /\ n \in Nat /\ m = n + 1 /\ DOMAIN h[t] = 1..n /\ DOMAIN k[t] = 1..m
      /\ k[t][m] = p /\ \A i \in 1..n : k[t][i] = h[t][i]
      /\ \A s \in Thread \ {t} : k[s] = h[s]
  BY DEF Adds
<1> HIDE DEF n, m
<1>2. <<t, m>> \notin Places(h, p)
  BY <1>1 DEF Places
<1>3. \A q : q # p =>
        \A s \in Thread : \A i : <<s, i>> \in Places(k, q) <=> <<s, i>> \in Places(h, q)
  <2> SUFFICES ASSUME NEW q, q # p, NEW s \in Thread, NEW i
               PROVE  <<s, i>> \in Places(k, q) <=> <<s, i>> \in Places(h, q)
    OBVIOUS
  <2>1. /\ <<s, i>> \in Places(k, q) <=> i \in DOMAIN k[s] /\ k[s][i] = q
        /\ <<s, i>> \in Places(h, q) <=> i \in DOMAIN h[s] /\ h[s][i] = q
    BY DEF Places
  <2>2. CASE s # t
    BY <2>1, <2>2, <1>1
  <2>3. CASE s = t
    BY <2>1, <2>3, <1>1
  <2> QED
    BY <2>2, <2>3
<1>4. ASSUME NEW q, q # p  PROVE Places(k, q) = Places(h, q)
  <2>1. \A s \in Thread : \A i : <<s, i>> \in Places(k, q) <=> <<s, i>> \in Places(h, q)
    BY <1>3, <1>4
  <2>2. ASSUME NEW c \in Places(k, q)  PROVE c \in Places(h, q)
    <3>1. PICK s, i : s \in Thread /\ c = <<s, i>>
      BY PlacesArePairs
    <3> QED
      BY <3>1, <2>1
  <2>3. ASSUME NEW c \in Places(h, q)  PROVE c \in Places(k, q)
    <3>1. PICK s, i : s \in Thread /\ c = <<s, i>>
      BY PlacesArePairs
    <3> QED
      BY <3>1, <2>1
  <2> QED
    BY <2>2, <2>3
<1>5. Places(k, p) = Places(h, p) \cup {<<t, m>>}
  <2>1. \A s \in Thread : \A i :
          <<s, i>> \in Places(k, p) <=> <<s, i>> \in Places(h, p) \cup {<<t, m>>}
    <3> TAKE s \in Thread
    <3> TAKE i
    <3>1. <<s, i>> = <<t, m>> <=> s = t /\ i = m
      OBVIOUS
    <3>2. /\ <<s, i>> \in Places(k, p) <=> i \in DOMAIN k[s] /\ k[s][i] = p
          /\ <<s, i>> \in Places(h, p) <=> i \in DOMAIN h[s] /\ h[s][i] = p
      BY DEF Places
    <3>3. CASE s # t
      BY <3>1, <3>2, <3>3, <1>1
    <3>4. CASE s = t
      BY <3>1, <3>2, <3>4, <1>1
    <3> QED
      BY <3>3, <3>4
  <2>2. ASSUME NEW c \in Places(k, p)  PROVE c \in Places(h, p) \cup {<<t, m>>}
    <3>1. PICK s, i : s \in Thread /\ c = <<s, i>>
      BY PlacesArePairs
    <3> QED
      BY <3>1, <2>1
  <2>3. ASSUME NEW c \in Places(h, p) \cup {<<t, m>>}  PROVE c \in Places(k, p)
    <3>1. PICK s, i : s \in Thread /\ c = <<s, i>>
      BY PlacesArePairs
    <3> QED
      BY <3>1, <2>1
  <2> QED
    BY <2>2, <2>3
<1> QED
  BY <1>2, <1>4, <1>5 DEF n, m, Added

(* ... and one that is given back removes one. *)
LEMMA PlaceRemoved ==
  ASSUME NEW h, NEW k, NEW t \in Thread, NEW p \in Maker, Drops(h, k, t, p)
  PROVE  Dropped(h, k, t, p)
<1> DEFINE n == Len(h[t])
<1>1. /\ n \in Nat \ {0} /\ DOMAIN h[t] = 1..n /\ DOMAIN k[t] = 1..(n - 1)
      /\ h[t][n] = p /\ \A i \in 1..(n - 1) : k[t][i] = h[t][i]
      /\ \A s \in Thread \ {t} : k[s] = h[s]
  BY DEF Drops
<1> HIDE DEF n
<1>2. <<t, n>> \in Places(h, p)
  BY <1>1 DEF Places
<1>3. \A q : \A s \in Thread : \A i :
        <<s, i>> \in Places(k, q) <=> <<s, i>> \in Places(h, q) /\ ~(s = t /\ i = n)
  <2> SUFFICES ASSUME NEW q, NEW s \in Thread, NEW i
               PROVE  <<s, i>> \in Places(k, q) <=> <<s, i>> \in Places(h, q) /\ ~(s = t /\ i = n)
    OBVIOUS
  <2>1. /\ <<s, i>> \in Places(k, q) <=> i \in DOMAIN k[s] /\ k[s][i] = q
        /\ <<s, i>> \in Places(h, q) <=> i \in DOMAIN h[s] /\ h[s][i] = q
    BY DEF Places
  <2>2. CASE s # t
    BY <2>1, <2>2, <1>1
  <2>3. CASE s = t
    BY <2>1, <2>3, <1>1
  <2> QED
    BY <2>2, <2>3
<1>4. \A q : q # p => <<t, n>> \notin Places(h, q)
  BY <1>1 DEF Places
<1>5. ASSUME NEW q, q # p  PROVE Places(k, q) = Places(h, q)
  <2>1. \A s \in Thread : \A i : <<s, i>> \in Places(k, q) <=> <<s, i>> \in Places(h, q)
    BY <1>3, <1>4, <1>5
  <2>2. ASSUME NEW c \in Places(k, q)  PROVE c \in Places(h, q)
    <3>1. PICK s, i : s \in Thread /\ c = <<s, i>>
      BY PlacesArePairs
    <3> QED
      BY <3>1, <2>1
  <2>3. ASSUME NEW c \in Places(h, q)  PROVE c \in Places(k, q)
    <3>1. PICK s, i : s \in Thread /\ c = <<s, i>>
      BY PlacesArePairs
    <3> QED
      BY <3>1, <2>1
  <2> QED
    BY <2>2, <2>3
<1>6. Places(k, p) = Places(h, p) \ {<<t, n>>}
  <2>1. \A s \in Thread : \A i :
          <<s, i>> \in Places(k, p) <=> <<s, i>> \in Places(h, p) \ {<<t, n>>}
    BY <1>3
  <2>2. ASSUME NEW c \in Places(k, p)  PROVE c \in Places(h, p) \ {<<t, n>>}
    <3>1. PICK s, i : s \in Thread /\ c = <<s, i>>
      BY PlacesArePairs
    <3> QED
      BY <3>1, <2>1
  <2>3. ASSUME NEW c \in Places(h, p) \ {<<t, n>>}  PROVE c \in Places(k, p)
    <3>1. PICK s, i : s \in Thread /\ c = <<s, i>>
      BY PlacesArePairs
    <3> QED
      BY <3>1, <2>1
  <2> QED
    BY <2>2, <2>3
<1> QED
  BY <1>2, <1>5, <1>6 DEF n, Dropped

(* The places are those of the model. *)
LEMMA HeldPlaces == \A p : HeldOf(p) = Places(held, p)
  BY DEF HeldOf, Places

(* The pool starts with every connection in it or not made. *)
LEMMA PoolInitially == Init => PoolInv
<1> SUFFICES ASSUME Init  PROVE PoolInv
  OBVIOUS
<1>1. /\ lock = pool /\ pool \in {Startup, Nobody}
      /\ idle = [p \in Maker |-> IF p = pool THEN MaxConns ELSE 0]
      /\ acq = [t \in Thread |-> NotAsking]
      /\ held = [t \in Thread |-> <<>>]
  BY DEF Init, PoolInit
<1>2. \A p : HeldOf(p) = {}
  BY <1>1 DEF HeldOf
<1>3. \A p \in Maker : IsFiniteSet(HeldOf(p)) /\ Total(p) = idle[p]
  <2>1. IsFiniteSet({}) /\ Cardinality({}) = 0
    BY FS_EmptySet
  <2>2. \A p \in Maker : idle[p] \in Nat
    BY <1>1, PoolAssumption
  <2> SUFFICES ASSUME NEW p \in Maker
               PROVE  IsFiniteSet(HeldOf(p)) /\ Total(p) = idle[p]
    OBVIOUS
  <2>3. HeldOf(p) = {}
    BY <1>2
  <2> QED
    BY <2>1, <2>2, <2>3 DEF Total
<1>4. PoolTypes
  BY <1>1, PoolAssumption DEF PoolTypes, AcqType, Maker
<1>5. TotalsOK
  BY <1>1, <1>3, PoolAssumption DEF TotalsOK, Maker, NotAsking
<1>6. \A t \in Thread : at[t] \in {"begin", "done"}
  BY DEF Init
<1>7. \A t \in Thread : Holding(t)
  BY <1>1, <1>6 DEF Holding, Count, CountAt, OneHeld, HoldersOnly
<1> QED
  BY <1>4, <1>5, <1>7, PlacedInit DEF PoolInv

(* What a request that asks for a connection knows of the pool. *)
LEMMA AcqFields ==
  ASSUME NEW a \in AcqType
  PROVE  /\ a.step = "waiting" => a.pool \in Maker
         /\ a.step \in {"entering", "making", "leaving"} => a.lock \in Maker
<1>1. CASE a \in {NotAsking, Wanting, Unlocked, Locking}
  BY <1>1 DEF NotAsking, Wanting, Unlocked, Locking
<1>2. CASE a \in [step : {"entering", "making", "leaving"}, lock : Maker]
  BY <1>2
<1>3. CASE a \in [step : {"waiting"}, pool : Maker]
  BY <1>3
<1> QED
  BY <1>1, <1>2, <1>3 DEF AcqType

(* What requests do to the pool, and what a request holds afterwards. *)
Uses(t) ==
    \/ UNCHANGED poolVars \/ Want(t) \/ GaveUp(t) \/ Got(t)
    \/ Len(held[t]) > 0 /\ (Put(t) \/ PutAndWant(t))

Takes(t, n) ==
    /\ Uses(t)
    /\ Len(held'[t]) = Len(held[t]) + n
    /\ \A s \in Thread \ {t} : held'[s] = held[s]

Proceeds(t) == Holding(t)' /\ \E n \in {0, 1, -1} : Takes(t, n)

(* How many connections each call of the pool gives or takes. *)
LEMMA PoolCalls ==
  ASSUME PoolTypes, NEW t \in Thread
  PROVE  /\ Want(t) \/ GaveUp(t) \/ UNCHANGED poolVars => Takes(t, 0)
         /\ Got(t) => Takes(t, 1)
         /\ Len(held[t]) > 0 /\ (Put(t) \/ PutAndWant(t)) => Takes(t, -1)
<1>0. held \in [Thread -> Seq(Maker)]
  BY DEF PoolTypes
<1>1. Want(t) \/ GaveUp(t) \/ UNCHANGED poolVars => Takes(t, 0)
  <2>1. Want(t) \/ GaveUp(t) \/ UNCHANGED poolVars => held' = held
    BY DEF Want, GaveUp, poolVars
  <2> QED
    BY <1>0, <2>1 DEF Takes, Uses
<1>2. ASSUME Got(t)  PROVE Takes(t, 1)
  <2>1. acq[t].pool \in Maker
    BY <1>2, AcqFields DEF Got, PoolTypes
  <2>2. held' = [held EXCEPT ![t] = Append(held[t], acq[t].pool)]
    BY <1>2 DEF Got
  <2> QED
    BY <1>0, <1>2, <2>1, <2>2 DEF Takes, Uses
<1>3. ASSUME Len(held[t]) > 0, Put(t) \/ PutAndWant(t)  PROVE Takes(t, -1)
  <2>1. held' = [held EXCEPT ![t] = SubSeq(held[t], 1, Len(held[t]) - 1)]
    BY <1>3 DEF Put, PutAndWant
  <2>2. held[t] \in Seq(Maker)
    BY <1>0
  <2>3. /\ SubSeq(held[t], 1, Len(held[t]) - 1) \in Seq(Maker)
        /\ Len(SubSeq(held[t], 1, Len(held[t]) - 1)) = Len(held[t]) - 1
    BY <2>2, <1>3
  <2> QED
    BY <1>0, <1>3, <2>1, <2>3 DEF Takes, Uses
<1> QED
  BY <1>1, <1>2, <1>3

(* A request at p that takes n connections, or gives them back, and goes on *)
(* to q.                                                                    *)
Goes(t, p, n, q) == at[t] = p /\ Takes(t, n) /\ GoTo(t, q)

(* A request that arrives at q with as many connections as q needs proceeds. *)
LEMMA Arrives ==
  ASSUME PoolTypes, Placed, handler' = handler, NEW t \in Thread, Holding(t),
         NEW n \in {0, 1, -1}, NEW p, NEW q, Goes(t, p, n, q),
         CountAt(q, Base(t)) = CountAt(p, Base(t)) + n,
         q \in HoldersOnly => Kind(t) # "watch"
  PROVE  Proceeds(t)
<1>1. at'[t] = q
  BY DEF Goes, GoTo, Placed
<1>2. Kind(t)' = Kind(t) /\ Base(t)' = Base(t)
  BY DEF Kind, Base
<1>3. Count(t)' = CountAt(q, Base(t))
  BY <1>1, <1>2 DEF Count
<1>4. Len(held'[t]) = CountAt(q, Base(t))
  BY DEF Goes, Takes, Holding, Count
<1> QED
  BY <1>1, <1>2, <1>3, <1>4 DEF Proceeds, Holding, Goes

(* The places of the requests by what they hold there. *)
Unconnected ==
    {"begin", "done", "chat connect", "chat answer", "chat leave", "run connect", "run start",
     "owned?", "list", "peek", "me get", "me store", "me connect", "edit put", "edit pop",
     "tour connect", "trade connect"}

(* How many connections a request holds at each place. *)
LEMMA Counts ==
  ASSUME NEW b
  PROVE  /\ \A p \in Unconnected : CountAt(p, b) = 0
         /\ \A p \in OneHeld : CountAt(p, b) = 1
         /\ \A p \in {"get", "fetch", "set"} : CountAt(p, b) = b
         /\ \A p \in {"getting", "setting"} : CountAt(p, b) = b + 1
  BY DEF CountAt, OneHeld, Unconnected

(* A component without lookups: it connects, gives back, or does neither.   *)
Simple == (Unconnected \cup OneHeld) \ HoldersOnly
SimplyGoes(t) ==
    \/ \E p \in Unconnected, q \in Simple \cap Unconnected : Goes(t, p, 0, q)
    \/ \E p \in OneHeld, q \in Simple \cap OneHeld : Goes(t, p, 0, q)
    \/ \E p \in Unconnected, q \in Simple \cap OneHeld : Goes(t, p, 1, q)
    \/ \E p \in OneHeld, q \in Simple \cap Unconnected : Goes(t, p, -1, q)

(* At the places of these requests it is one connection or none. *)
LEMMA SimplyArrives ==
  ASSUME PoolTypes, Placed, handler' = handler, NEW t \in Thread, Holding(t), SimplyGoes(t)
  PROVE  Proceeds(t)
<1>1. PICK n, p, q :
        /\ n \in {0, 1, -1}
        /\ Goes(t, p, n, q) /\ q \notin HoldersOnly
        /\ p \in Unconnected \cup OneHeld /\ q \in Unconnected \cup OneHeld
        /\ (IF q \in OneHeld THEN 1 ELSE 0) = (IF p \in OneHeld THEN 1 ELSE 0) + n
  <2>1. Unconnected \cap OneHeld = {}
    BY DEF Unconnected, OneHeld
  <2> QED
    BY <2>1 DEF SimplyGoes, Simple
<1>2. CountAt(q, Base(t)) = CountAt(p, Base(t)) + n
  <2>1. \A r \in Unconnected \cup OneHeld : CountAt(r, Base(t)) = IF r \in OneHeld THEN 1 ELSE 0
    BY Counts DEF Unconnected, OneHeld
  <2> QED
    BY <1>1, <2>1
<1> QED
  BY <1>1, <1>2, Arrives

(* At these places there is a connection to give back. *)
LEMMA OneHeldHolds ==
  ASSUME NEW t \in Thread, Holding(t), at[t] \in OneHeld
  PROVE  Len(held[t]) > 0
<1>1. CountAt(at[t], Base(t)) = 1
  BY Counts
<1> QED
  BY <1>1 DEF Holding, Count

(* Each kind of request takes and gives back connections as its places say. *)
LEMMA ChatHolds ==
  ASSUME PoolTypes, NEW t \in Thread, Holding(t), ChatStep(t)
  PROVE  SimplyGoes(t)
<1>1. at[t] = "chat prompt" => Len(held[t]) > 0
  BY OneHeldHolds DEF OneHeld
<1>2. \/ Goes(t, "begin", 0, "chat connect") \/ Goes(t, "begin", 0, "chat leave")
      \/ Goes(t, "begin", 0, "done") \/ Goes(t, "chat connect", 1, "chat prompt")
      \/ Goes(t, "chat prompt", -1, "chat answer") \/ Goes(t, "chat prompt", -1, "chat leave")
      \/ Goes(t, "chat answer", 0, "chat leave") \/ Goes(t, "chat connect", 0, "chat leave")
      \/ Goes(t, "chat leave", 0, "done")
  BY <1>1, PoolCalls DEF Goes, At, Finish, poolVars, ChatStep, ChatEnter, ChatBusy, ChatConnected,
         ChatPrompt, ChatAnswered, ChatNoConnection, ChatLeave
<1> QED
  BY <1>2 DEF SimplyGoes, Simple, Unconnected, OneHeld, HoldersOnly

LEMMA RunHolds ==
  ASSUME PoolTypes, NEW t \in Thread, Holding(t), RunStep(t)
  PROVE  SimplyGoes(t)
<1>1. at[t] = "run build" => Len(held[t]) > 0
  BY OneHeldHolds DEF OneHeld
<1>2. \/ Goes(t, "begin", 0, "run connect") \/ Goes(t, "begin", 0, "done")
      \/ Goes(t, "run connect", 1, "run build") \/ Goes(t, "run connect", 0, "done")
      \/ Goes(t, "run build", -1, "run start") \/ Goes(t, "run build", -1, "done")
      \/ Goes(t, "run start", 0, "done")
  BY <1>1, PoolCalls DEF Goes, At, Finish, poolVars, RunStep, RunEnter, RunBusy, RunConnected,
         RunNoConnection, RunBuildFails, RunBuilt, RunStart
<1> QED
  BY <1>2 DEF SimplyGoes, Simple, Unconnected, OneHeld, HoldersOnly

LEMMA MemberHolds ==
  ASSUME PoolTypes, NEW t \in Thread, Holding(t), MemberStep(t)
  PROVE  SimplyGoes(t)
<1>1. at[t] = "me read" => Len(held[t]) > 0
  BY OneHeldHolds DEF OneHeld
<1>2. \/ Goes(t, "begin", 0, "me connect") \/ Goes(t, "begin", 0, "me get")
      \/ Goes(t, "me get", 0, "me store") \/ Goes(t, "me store", 0, "me connect")
      \/ Goes(t, "me connect", 1, "me read") \/ Goes(t, "me connect", 0, "done")
      \/ Goes(t, "me read", -1, "done")
      \/ Goes(t, "begin", 0, "edit put") \/ Goes(t, "edit put", 0, "edit pop")
      \/ Goes(t, "edit pop", 0, "done") \/ Goes(t, "edit put", 0, "done")
      \/ Goes(t, "me get", 0, "done") \/ Goes(t, "begin", 0, "done")
  BY <1>1, PoolCalls DEF Goes, At, Finish, poolVars, MemberStep, MeCached, MeAsks, MeGot, MeStores,
         MeConnected, MeAnswered, MeNoConnection, EditGot, EditPut, EditPutLost, EditPop, WorkOSFails
<1>3. /\ {"begin", "me get", "me store", "me connect", "edit put", "edit pop", "done"}
            \subseteq Simple \cap Unconnected
      /\ "me read" \in Simple \cap OneHeld
  BY DEF Simple, Unconnected, OneHeld, HoldersOnly
<1> QED
  BY <1>2, <1>3 DEF SimplyGoes

LEMMA TourHolds ==
  ASSUME PoolTypes, NEW t \in Thread, Holding(t), TourStep(t)
  PROVE  SimplyGoes(t) \/ (at' = at /\ Takes(t, 0))
<1> DEFINE held1 == {"tour directory", "tour backfilled?", "tour backfill", "tour claim"}
<1>1. at[t] \in held1 => Len(held[t]) > 0
  BY OneHeldHolds DEF OneHeld
<1>2. \/ Goes(t, "begin", 0, "tour connect") \/ Goes(t, "begin", 0, "done")
      \/ Goes(t, "tour connect", 1, "tour directory") \/ Goes(t, "tour connect", 0, "done")
      \/ Goes(t, "tour directory", 0, "tour backfilled?")
      \/ Goes(t, "tour backfilled?", 0, "tour claim") \/ Goes(t, "tour backfilled?", 0, "tour backfill")
      \/ Goes(t, "tour backfill", 0, "tour claim")
      \/ \E p \in held1 : Goes(t, p, -1, "done")
      \/ at' = at /\ Takes(t, 0)
  BY <1>1, PoolCalls DEF Goes, At, Finish, poolVars, TourStep, TourBegin, TourRefused, TourConnected,
         TourNoConnection, TourListed, TourDirectoryDown, TourBackfilled, TourMarks, TourMarkedAll,
         TourClaims, TourFails
<1>3. {"begin", "tour connect", "done"} \subseteq Simple \cap Unconnected
      /\ held1 \subseteq Simple \cap OneHeld
  BY DEF Simple, Unconnected, OneHeld, HoldersOnly
<1> QED
  BY <1>2, <1>3 DEF SimplyGoes

LEMMA TradeHolds ==
  ASSUME PoolTypes, NEW t \in Thread, Holding(t), TradeStep(t)
  PROVE  SimplyGoes(t)
<1>1. at[t] = "trade replay" => Len(held[t]) > 0
  BY OneHeldHolds DEF OneHeld
<1>2. \/ Goes(t, "begin", 0, "trade connect") \/ Goes(t, "trade connect", 0, "done")
      \/ Goes(t, "trade connect", 1, "trade load") \/ Goes(t, "trade load", 0, "trade replay")
      \/ Goes(t, "trade replay", -1, "done")
  BY <1>1, PoolCalls DEF Goes, At, Finish, poolVars, TradeStep, TradeBegin, TradeNoConnection,
         TradeConnected, TradeLoad, TradeAnswer, TradeCommit
<1> QED
  BY <1>2 DEF SimplyGoes, Simple, Unconnected, OneHeld, HoldersOnly

(* A lookup: a watchlist has one connection throughout, a route that asks   *)
(* for holders has none.                                                    *)
LookupGoes(t) ==
    \E n, p, q :
        /\ n \in {0, 1, -1}
        /\ Goes(t, p, n, q)
        /\ CountAt(q, Base(t)) = CountAt(p, Base(t)) + n
        /\ q \in HoldersOnly => Kind(t) # "watch"

LEMMA WatchHolds ==
  ASSUME PoolTypes, NEW t \in Thread, Holding(t), Kind(t) = "watch", LookupStep(t)
  PROVE  LookupGoes(t)
<1>1. Base(t) = 1 /\ at[t] \notin HoldersOnly
  BY DEF Base, Holding
<1>2. at[t] \in {"look", "leave", "getting", "setting"} => Len(held[t]) > 0
  <2>1. at[t] \in {"getting", "setting"} => CountAt(at[t], Base(t)) = 2
    BY <1>1, Counts
  <2>2. at[t] \in {"getting", "setting"} => Len(held[t]) > 0
    BY <2>1 DEF Holding, Count
  <2> QED
    BY <2>2, OneHeldHolds DEF OneHeld
<1>3. \/ Goes(t, "begin", 0, "list") \/ Goes(t, "list", 0, "done") \/ Goes(t, "list", 1, "look")
      \/ Goes(t, "leave", -1, "done")
      \/ Goes(t, "look", 0, "leave") \/ Goes(t, "look", 0, "get")
      \/ Goes(t, "get", 1, "getting") \/ Goes(t, "get", 0, "fetch")
      \/ Goes(t, "getting", -1, "leave") \/ Goes(t, "getting", -1, "fetch")
      \/ Goes(t, "fetch", 0, "set") \/ Goes(t, "fetch", 0, "leave")
      \/ Goes(t, "set", 1, "setting") \/ Goes(t, "set", 0, "leave")
      \/ Goes(t, "setting", -1, "leave")
  BY <1>1, <1>2, PoolCalls
     DEF Goes, At, Finish, poolVars, LookupStep, Reply, Released, ReleasedAndWants, HoldersOnly, Of,
         HoldersBegin, HoldersConnected, SnapshotBegin, WatchBegin, WatchConnected, WatchLeave,
         NoConnection, LookInMemory, LookFurther, GetConnected, GetHit, GetMiss, GetFails, Fetched,
         FetchRaises, FetchedNone, PeekConnected, Peeked, SetConnected, SetRow, StoreFails
<1>4. /\ \A p \in {"begin", "list", "done"} : CountAt(p, 1) = 0
      /\ \A p \in {"look", "leave", "get", "fetch", "set"} : CountAt(p, 1) = 1
      /\ \A p \in {"getting", "setting"} : CountAt(p, 1) = 2
  <2>1. {"begin", "list", "done"} \subseteq Unconnected /\ {"look", "leave"} \subseteq OneHeld
    BY DEF Unconnected, OneHeld
  <2> QED
    BY <2>1, Counts
<1>5. \A q \in {"list", "done", "look", "leave", "get", "getting", "fetch", "set", "setting"} :
        q \notin HoldersOnly
  BY DEF HoldersOnly
<1> QED
  BY <1>1, <1>3, <1>4, <1>5 DEF LookupGoes

LEMMA HoldersHolds ==
  ASSUME PoolTypes, NEW t \in Thread, Holding(t), Kind(t) = "holders", LookupStep(t)
  PROVE  LookupGoes(t)
<1>1. Base(t) = 0
  BY DEF Base
<1>2. at[t] \in {"look", "leave", "snapshot", "peeking", "getting", "setting"} => Len(held[t]) > 0
  <2>1. at[t] \in {"getting", "setting"} => CountAt(at[t], Base(t)) = 1
    BY <1>1, Counts
  <2>2. at[t] \in {"getting", "setting"} => Len(held[t]) > 0
    BY <2>1 DEF Holding, Count
  <2> QED
    BY <2>2, OneHeldHolds DEF OneHeld
<1>3. \/ Goes(t, "begin", 0, "owned?") \/ Goes(t, "owned?", 1, "snapshot")
      \/ Goes(t, "owned?", 1, "look") \/ Goes(t, "owned?", 0, "done") \/ Goes(t, "snapshot", -1, "peek")
      \/ Goes(t, "list", 0, "done") \/ Goes(t, "list", 1, "look") \/ Goes(t, "leave", -1, "done")
      \/ Goes(t, "look", -1, "done") \/ Goes(t, "look", -1, "get")
      \/ Goes(t, "get", 1, "getting") \/ Goes(t, "get", 0, "fetch")
      \/ Goes(t, "getting", -1, "done") \/ Goes(t, "getting", -1, "fetch")
      \/ Goes(t, "fetch", 0, "set") \/ Goes(t, "fetch", 0, "done") \/ Goes(t, "fetch", 0, "peek")
      \/ Goes(t, "peek", 1, "peeking") \/ Goes(t, "peek", 0, "done") \/ Goes(t, "peeking", -1, "done")
      \/ Goes(t, "set", 1, "setting") \/ Goes(t, "set", 0, "done")
      \/ Goes(t, "setting", -1, "done")
  BY <1>1, <1>2, PoolCalls
     DEF Goes, At, Finish, poolVars, LookupStep, Reply, Released, ReleasedAndWants, Of,
         HoldersBegin, HoldersConnected, SnapshotBegin, WatchBegin, WatchConnected, WatchLeave,
         NoConnection, LookInMemory, LookFurther, GetConnected, GetHit, GetMiss, GetFails, Fetched,
         FetchRaises, FetchedNone, PeekConnected, Peeked, SetConnected, SetRow, StoreFails
<1>4. /\ \A p \in {"begin", "list", "done", "owned?", "peek", "get", "fetch", "set"} : CountAt(p, 0) = 0
      /\ \A p \in {"look", "leave", "snapshot", "peeking", "getting", "setting"} : CountAt(p, 0) = 1
  <2>1. /\ {"begin", "list", "done", "owned?", "peek"} \subseteq Unconnected
        /\ {"look", "leave", "snapshot", "peeking"} \subseteq OneHeld
    BY DEF Unconnected, OneHeld
  <2> QED
    BY <2>1, Counts
<1> QED
  BY <1>1, <1>3, <1>4 DEF LookupGoes

LEMMA LookupHolds ==
  ASSUME PoolTypes, Placed, handler' = handler, NEW t \in Thread, Holding(t),
         Kind(t) \in {"holders", "watch"}, LookupStep(t)
  PROVE  Proceeds(t)
<1>1. PICK n, p, q :
        /\ n \in {0, 1, -1}
        /\ Goes(t, p, n, q)
        /\ CountAt(q, Base(t)) = CountAt(p, Base(t)) + n
        /\ q \in HoldersOnly => Kind(t) # "watch"
  BY WatchHolds, HoldersHolds DEF LookupGoes
<1> QED
  BY <1>1, Arrives

-----------------------------------------------------------------------------
(* No use of the pool loses a connection, ...                               *)
LEMMA UsesType ==
  ASSUME PoolTypes, TotalsOK, NEW t \in Thread, Uses(t)
  PROVE  PoolTypes'
<1>1. Latest(t) \in Maker \/ Len(held[t]) = 0
  BY DEF Latest, PoolTypes
<1>2. acq[t].step = "waiting" => acq[t].pool \in Maker
  BY AcqFields DEF PoolTypes
<1>3. Asking \in AcqType /\ NotAsking \in AcqType
  BY DEF Asking, Waiting, AcqType, TotalsOK, PoolTypes
<1>4. CASE UNCHANGED poolVars
  BY <1>4 DEF poolVars, PoolTypes
<1>5. CASE Want(t) \/ GaveUp(t)
  BY <1>3, <1>5 DEF Want, GaveUp, Acq, PoolTypes
<1>6. CASE Got(t)
  <2>1. Append(held[t], acq[t].pool) \in Seq(Maker) /\ idle[acq[t].pool] - 1 \in Nat
    BY <1>2, <1>6 DEF Got, PoolTypes
  <2> QED
    BY <1>2, <1>3, <1>6, <2>1 DEF Got, Acq, PoolTypes
<1>7. CASE Len(held[t]) > 0 /\ (Put(t) \/ PutAndWant(t))
  <2>1. SubSeq(held[t], 1, Len(held[t]) - 1) \in Seq(Maker) /\ idle[Latest(t)] + 1 \in Nat
    BY <1>1, <1>7 DEF PoolTypes
  <2> QED
    BY <1>1, <1>3, <1>7, <2>1 DEF Put, PutAndWant, Acq, PoolTypes
<1> QED
  BY <1>4, <1>5, <1>6, <1>7 DEF Uses

(* ... nor adds one to a pool, ...                                          *)
LEMMA UsesTotals ==
  ASSUME PoolTypes, TotalsOK, NEW t \in Thread, Uses(t), NEW p \in Maker
  PROVE  IsFiniteSet(HeldOf(p))' /\ Total(p)' = Total(p)
<1>0. PICK h, k : h = held /\ k = held'
  OBVIOUS
<1> DEFINE A == Places(h, p)
           B == Places(k, p)
<1>1. /\ IsFiniteSet(A) /\ Cardinality(A) \in Nat
      /\ Total(p) = idle[p] + Cardinality(A)
      /\ IsFiniteSet(HeldOf(p))' <=> IsFiniteSet(B)
      /\ Total(p)' = idle'[p] + Cardinality(B)
  BY <1>0, FS_CardinalityType DEF TotalsOK, Total, HeldOf, Places
<1>2. held \in [Thread -> Seq(Maker)] /\ idle \in [Maker -> Nat]
  BY DEF PoolTypes
<1> SUFFICES IsFiniteSet(B) /\ idle'[p] + Cardinality(B) = idle[p] + Cardinality(A)
  BY <1>1
<1>3. CASE idle' = idle /\ held' = held
  BY <1>0, <1>1, <1>3
<1>4. CASE Got(t)
  <2>1. PICK q \in Maker :
          /\ idle' = [idle EXCEPT ![q] = idle[q] - 1]
          /\ held' = [held EXCEPT ![t] = Append(held[t], q)]
    BY <1>4, AcqFields DEF Got, PoolTypes
  <2>4. Adds(h, k, t, q)
    BY <1>0, <1>2, <2>1 DEF Adds
  <2>5. q \in Maker
    BY <2>1
  <2>6. Added(h, k, t, q)
    BY <2>4, <2>5, PlaceAdded
  <2>2. CASE p # q
    <3>1. A = B
      BY <2>2, <2>6 DEF Added
    <3> QED
      BY <1>1, <1>2, <2>1, <2>2, <3>1
  <2>3. CASE p = q
    <3>1. PICK c : c \notin A /\ B = A \cup {c}
      BY <2>3, <2>6 DEF Added
    <3> HIDE DEF A, B
    <3>2. IsFiniteSet(B) /\ Cardinality(B) = Cardinality(A) + 1
      BY <1>1, <3>1, FS_AddElement
    <3>3. idle'[p] = idle[p] - 1 /\ idle[p] \in Nat
      BY <1>2, <2>1, <2>3
    <3> QED
      BY <1>1, <3>2, <3>3
  <2> QED
    BY <2>2, <2>3
<1>5. CASE Len(held[t]) > 0 /\ (Put(t) \/ PutAndWant(t))
  <2>1. PICK q \in Maker :
          /\ q = held[t][Len(held[t])]
          /\ idle' = [idle EXCEPT ![q] = idle[q] + 1]
          /\ held' = [held EXCEPT ![t] = SubSeq(held[t], 1, Len(held[t]) - 1)]
    BY <1>2, <1>5 DEF Put, PutAndWant, Latest
  <2>4. Drops(h, k, t, q)
    BY <1>0, <1>2, <1>5, <2>1 DEF Drops
  <2>5. q \in Maker
    BY <2>1
  <2>6. Dropped(h, k, t, q)
    BY <2>4, <2>5, PlaceRemoved
  <2>2. CASE p # q
    <3>1. A = B
      BY <2>2, <2>6 DEF Dropped
    <3> QED
      BY <1>1, <1>2, <2>1, <2>2, <3>1
  <2>3. CASE p = q
    <3>1. PICK c \in A : B = A \ {c}
      BY <2>3, <2>6 DEF Dropped
    <3> HIDE DEF A, B
    <3>2. IsFiniteSet(B) /\ Cardinality(B) = Cardinality(A) - 1
      BY <1>1, <3>1, FS_RemoveElement
    <3>3. idle'[p] = idle[p] + 1 /\ idle[p] \in Nat
      BY <1>2, <2>1, <2>3
    <3> QED
      BY <1>1, <3>2, <3>3
  <2> QED
    BY <2>2, <2>3
<1> QED
  BY <1>3, <1>4, <1>5 DEF Uses, Want, GaveUp, poolVars

(* ... nor starts to make one.                                              *)
LEMMA UsesKeep ==
  ASSUME PoolTypes, TotalsOK, NEW t \in Thread, Uses(t)
  PROVE  PoolTypes' /\ TotalsOK'
<1>1. lock' = lock /\ pool' = pool
  BY DEF Uses, poolVars, Want, GaveUp, Got, Put, PutAndWant
<1>2. Asking.step \notin {"locking", "making", "leaving"} /\ NotAsking.step = "none"
  BY DEF Asking, Wanting, Waiting, NotAsking
<1>3. acq' = acq \/ \E a : a.step \notin {"locking", "making", "leaving"} /\ acq' = [acq EXCEPT ![t] = a]
  BY <1>2 DEF Uses, poolVars, Want, GaveUp, Got, Put, PutAndWant, Acq
<1>4. \A s \in Thread : acq'[s].step \in {"locking", "making", "leaving"} => acq'[s].step = acq[s].step
  BY <1>3 DEF PoolTypes
<1>5. \A p \in Maker : IsFiniteSet(HeldOf(p))' /\ Total(p)' = Total(p)
  BY UsesTotals
<1>6. TotalsOK'
  BY <1>1, <1>4, <1>5 DEF TotalsOK, Maker
<1> QED
  BY <1>6, UsesType

(* The steps of _get_pool. *)
LEMMA PoolStepKeeps ==
  ASSUME PoolTypes, TotalsOK, NEW t \in Thread, PoolStep(t)
  PROVE  PoolTypes' /\ TotalsOK' /\ held' = held
<1>1. held' = held
  BY DEF PoolStep, FindNoLock, MakeLock, PickLock, EnterLock, MakePool, LeaveLock
<1>2. \A p \in Maker : HeldOf(p)' = HeldOf(p)
  BY <1>1 DEF HeldOf
<1>3. /\ t \in Maker /\ t # Startup /\ t # Nobody /\ Nobody \notin Maker
      /\ {Wanting, Unlocked, Locking} \subseteq AcqType
      /\ \A m \in Maker : {Entering(m), Making(m), Leaving(m), Waiting(m)} \subseteq AcqType
      /\ \A m : Entering(m).step = "entering" /\ Making(m).step = "making"
               /\ Leaving(m).step = "leaving" /\ Waiting(m).step = "waiting"
      /\ Wanting.step = "wanting" /\ Unlocked.step = "unlocked" /\ Locking.step = "locking"
  BY PoolAssumption DEF Maker, AcqType, Wanting, Unlocked, Locking, Entering, Making, Leaving, Waiting
<1>4. CASE MakePool(t)
  <2>1. /\ acq[t].step = "making" /\ acq[t].lock \in Maker
        /\ acq' = [acq EXCEPT ![t] = Leaving(acq[t].lock)]
        /\ pool' = t /\ lock' = lock
        /\ idle' = [idle EXCEPT ![t] = MaxConns]
    BY <1>4, AcqFields DEF MakePool, Acq, PoolTypes
  <2>2. PoolTypes'
    BY <1>1, <1>3, <2>1, PoolAssumption DEF PoolTypes
  <2>3. Total(t) = 0 /\ Cardinality(HeldOf(t)) \in Nat /\ idle[t] \in Nat
    BY <1>3, <2>1, FS_CardinalityType DEF TotalsOK, PoolTypes
  <2>4. idle'[t] = MaxConns /\ \A p \in Maker \ {t} : idle'[p] = idle[p]
    BY <1>3, <2>1 DEF PoolTypes
  <2>5. Total(t)' = MaxConns /\ \A p \in Maker \ {t} : Total(p)' = Total(p)
    BY <1>2, <1>3, <2>3, <2>4, PoolAssumption DEF Total
  <2>6. \A s \in Thread : /\ acq'[s].step = "making" => s # t /\ acq[s].step = "making"
                          /\ acq'[s].step = "locking" => acq[s].step = "locking"
    BY <1>3, <2>1 DEF PoolTypes
  <2>7. TotalsOK'
    BY <1>2, <1>3, <2>1, <2>5, <2>6 DEF TotalsOK, Maker
  <2> QED
    BY <1>1, <2>2, <2>7
<1>5. ASSUME ~MakePool(t)  PROVE PoolTypes' /\ TotalsOK'
  <2>1. pool' = pool /\ idle' = idle /\ (lock' = lock \/ lock' = t)
    BY <1>5 DEF PoolStep, FindNoLock, MakeLock, PickLock, EnterLock, LeaveLock
  <2>2. PICK a \in AcqType :
          /\ acq' = [acq EXCEPT ![t] = a]
          /\ a.step = "making" => pool = Nobody
          /\ a.step # "leaving"
          /\ a.step = "locking" => lock' # Nobody
    <3>1. CASE FindNoLock(t)
      BY <1>3, <3>1 DEF FindNoLock, Acq
    <3>2. CASE MakeLock(t)
      BY <1>3, <3>2 DEF MakeLock, Acq
    <3>3. CASE PickLock(t)
      BY <1>3, <3>3 DEF PickLock, Acq, PoolTypes, TotalsOK
    <3>4. CASE EnterLock(t)
      <4>1. acq[t].lock \in Maker
        BY <3>4, AcqFields DEF EnterLock, PoolTypes
      <4> QED
        BY <1>3, <3>4, <4>1 DEF EnterLock, Acq, PoolTypes
    <3>5. CASE LeaveLock(t)
      BY <1>3, <3>5 DEF LeaveLock, Acq, PoolTypes, TotalsOK
    <3> QED
      BY <1>5, <3>1, <3>2, <3>3, <3>4, <3>5 DEF PoolStep
  <2>3. PoolTypes'
    BY <1>1, <1>3, <2>1, <2>2 DEF PoolTypes
  <2>4. \A p \in Maker : Total(p)' = Total(p)
    BY <1>2, <2>1 DEF Total
  <2>5. \A s \in Thread : /\ acq'[s].step = "making" => acq[s].step = "making" \/ pool = Nobody
                          /\ acq'[s].step = "leaving" => acq[s].step = "leaving"
                          /\ acq'[s].step = "locking" => lock' # Nobody
    BY <1>3, <2>1, <2>2 DEF PoolTypes, TotalsOK
  <2>6. TotalsOK'
    BY <1>2, <1>3, <2>1, <2>4, <2>5 DEF TotalsOK, Maker
  <2> QED
    BY <2>3, <2>6
<1> QED
  BY <1>1, <1>4, <1>5

(* So a step of the server is one of _get_pool, one of a request that       *)
(* afterwards holds what its place says, or leaves the pool alone.          *)
LEMMA ThreadHolds ==
  ASSUME PoolInv, handler' = handler, NEW t \in Thread, ThreadStep(t)
  PROVE  Proceeds(t) \/ (PoolStep(t) /\ at' = at)
<1>1. PoolTypes /\ Placed /\ Holding(t)
  BY DEF PoolInv
<1>2. ASSUME SimplyGoes(t)  PROVE Proceeds(t)
  BY <1>1, <1>2, SimplyArrives
<1>3. ASSUME at' = at, Takes(t, 0)  PROVE Proceeds(t)
  <2>1. Holding(t)'
    BY <1>1, <1>3 DEF Takes, Holding, Count, Kind, Base
  <2> QED
    BY <1>3, <2>1 DEF Proceeds
<1>4. CASE Pool(t)
  BY <1>4 DEF Pool
<1>5. CASE Agents(t)
  BY <1>1, <1>2, <1>5, ChatHolds, RunHolds DEF Agents
<1>6. CASE Lookups(t)
  BY <1>1, <1>6, LookupHolds DEF Lookups
<1>7. CASE Organization(t)
  BY <1>1, <1>2, <1>7, MemberHolds DEF Organization
<1>8. CASE Tours(t)
  BY <1>1, <1>2, <1>3, <1>8, TourHolds DEF Tours
<1>9. CASE Admins(t)
  BY <1>1, <1>2, <1>9, TradeHolds DEF Admins
<1> QED
  BY <1>4, <1>5, <1>6, <1>7, <1>8, <1>9 DEF ThreadStep

(* Nobody but a request touches the pool. *)
LEMMA PoolOutside ==
  ASSUME [Next]_serverVars, ~ \E t \in Thread : ThreadStep(t)
  PROVE  UNCHANGED poolVars /\ at' = at
<1>1. ASSUME NEW t \in Thread, AgentsOutside(t)
      PROVE  UNCHANGED poolVars
  BY <1>1 DEF AgentsOutside, WorkerEnds, PollStep, Poll, PollLost, PollStops
<1> QED
  BY <1>1, OutsideMoves DEF Next, Night, Ownership, NewMember, Tick, serverVars

(* Every step of the server keeps the invariant of the pool. *)
LEMMA PoolInvStep == PoolInv /\ [Next]_serverVars => PoolInv'
<1> SUFFICES ASSUME PoolInv, [Next]_serverVars  PROVE PoolInv'
  OBVIOUS
<1>1. Placed' /\ handler' = handler
  BY PlacedStep, HandlerStays DEF PoolInv
<1>2. ASSUME NEW s \in Thread, Stays(s), held'[s] = held[s]  PROVE Holding(s)'
  BY <1>1, <1>2 DEF PoolInv, Holding, Count, Kind, Base, Stays
<1>3. ASSUME NEW t \in Thread, ThreadStep(t)  PROVE PoolInv'
  <2>1. \A s \in Thread \ {t} : Stays(s)
    BY <1>3, ThreadMoves DEF PoolInv, Placed, Stays
  <2>2. CASE Proceeds(t)
    <3>1. Uses(t) /\ \A s \in Thread \ {t} : held'[s] = held[s]
      BY <2>2 DEF Proceeds, Takes
    <3>2. PoolTypes' /\ TotalsOK'
      BY <3>1, UsesKeep DEF PoolInv
    <3>3. \A s \in Thread : Holding(s)'
      BY <1>2, <2>1, <2>2, <3>1 DEF Proceeds
    <3> QED
      BY <1>1, <3>2, <3>3 DEF PoolInv
  <2>3. CASE PoolStep(t) /\ at' = at
    <3>1. PoolTypes' /\ TotalsOK' /\ held' = held
      BY <2>3, PoolStepKeeps DEF PoolInv
    <3>2. \A s \in Thread : Holding(s)'
      BY <1>2, <2>3, <3>1 DEF Stays
    <3> QED
      BY <1>1, <3>1, <3>2 DEF PoolInv
  <2> QED
    BY <1>1, <1>3, <2>2, <2>3, ThreadHolds
<1>4. CASE ~ \E t \in Thread : ThreadStep(t)
  <2>1. UNCHANGED poolVars /\ at' = at
    BY <1>4, PoolOutside
  <2>2. PoolTypes'
    BY <2>1 DEF PoolInv, PoolTypes, poolVars
  <2>3. TotalsOK'
    BY <2>1 DEF PoolInv, TotalsOK, Total, HeldOf, poolVars
  <2>4. \A s \in Thread : Holding(s)'
    BY <1>2, <2>1 DEF Stays, poolVars
  <2> QED
    BY <1>1, <2>2, <2>3, <2>4 DEF PoolInv
<1> QED
  BY <1>3, <1>4

(* The inductive invariant of the pool: what it has, and what each request  *)
(* holds at its place.                                                      *)
THEOREM PoolInvariance == Spec => []PoolInv
  BY PoolInitially, PoolInvStep, PTL DEF Spec

(* Each pool that was made has all its connections, idle or held, and an    *)
(* answered request holds none, though the lock of _get_pool does not guard *)
(* its own creation: for any number of threads, connections and requests.   *)
THEOREM Conserved == Spec => []ConnectionsConserved
<1>1. PoolInv => ConnectionsConserved
  <2> SUFFICES ASSUME PoolInv  PROVE ConnectionsConserved
    OBVIOUS
  <2>1. \A p \in Maker : LET n == idle[p] + Cardinality(HeldOf(p))
                        IN  n = MaxConns \/ (n = 0 /\ p # pool)
    BY DEF PoolInv, TotalsOK, Total
  <2>2. ASSUME NEW t \in Thread, At(t, "done")  PROVE held[t] = <<>>
    <3>1. Len(held[t]) = CountAt("done", Base(t))
      BY <2>2 DEF PoolInv, Holding, Count, At
    <3>2. CountAt("done", Base(t)) = 0
      BY DEF CountAt, OneHeld
    <3>3. held[t] \in Seq(Maker)
      BY DEF PoolInv, PoolTypes
    <3> QED
      BY <3>1, <3>2, <3>3
  <2> QED
    BY <2>1, <2>2 DEF ConnectionsConserved
<1> QED
  BY <1>1, PoolInvariance, PTL
=============================================================================

----------------------------- MODULE CachesProofs -----------------------------
(***************************************************************************)
(* Proofs about what the server keeps in memory: the coverage of a member  *)
(* (Members) and the data of the providers (ApiCache).  What is given out  *)
(* was true when its lifetime began to count.                              *)
(***************************************************************************)
EXTENDS ServerProofs

(* Coverage v is the current one or was replaced at since or later. *)
CurrentSince(v, since) == v = meta.coverage \/ ended[v] >= since

Metadata == [coverage : Version, leads : Version]
MembersTyped ==
    /\ now \in Nat
    /\ meta \in Metadata
    /\ seen \in [Thread -> [meta : Metadata, asked : Nat]]
    /\ entry = NoEntry \/ entry \in [kind : {"entry"}, coverage : Version, stamp : Nat]
    /\ ended \in [Version -> Nat \cup {NotEnded}]

(* No time lies in the future. *)
TimesPast ==
    /\ \A t \in Thread : seen[t].asked <= now
    /\ entry # NoEntry => entry.stamp <= now
    /\ \A v \in Version : ended[v] <= now

MemberInv ==
    /\ Homes /\ MembersTyped /\ TimesPast
    /\ \A t \in Thread : At(t, "me store") => CurrentSince(seen[t].meta.coverage, seen[t].asked)
    /\ entry # NoEntry => CurrentSince(entry.coverage, entry.stamp)

-----------------------------------------------------------------------------
(* A version that has not ended is told apart from every time. *)
LEMMA NotEndedIsEarly == NotEnded \in Int /\ NotEnded < 0
  BY DEF NotEnded

(* The first version of the metadata is current and nothing is cached. *)
LEMMA MemberInitially == Init => MemberInv
<1> SUFFICES ASSUME Init  PROVE MemberInv
  OBVIOUS
<1>1. /\ now = 0 /\ entry = NoEntry
      /\ meta = [coverage |-> Startup, leads |-> Startup]
      /\ seen = [t \in Thread |-> [meta |-> meta, asked |-> 0]]
      /\ ended = [v \in Version |-> NotEnded]
      /\ \A t \in Thread : at[t] \in {"begin", "done"}
  BY DEF Init, MemberInit
<1>2. meta \in Metadata
  BY <1>1 DEF Metadata, Version
<1>3. MembersTyped
  BY <1>1, <1>2 DEF MembersTyped
<1>4. TimesPast
  BY <1>1 DEF TimesPast, NotEnded
<1> QED
  BY <1>1, <1>3, <1>4, HomesInit DEF MemberInv, At

(* The steps that concern the metadata of the member. *)
LEMMA MemberFrame ==
  ASSUME Homes, [Next]_serverVars
  PROVE  \/ \E t \in Thread : /\ MemberStep(t) /\ OfAMember(t) /\ now' = now
                              /\ \A s \in Thread \ {t} : Stays(s)
         \/ /\ UNCHANGED memberVars /\ (now' = now \/ now' = now + 1)
            /\ \A s \in Thread : OfAMember(s) => Stays(s)
<1>1. ASSUME NEW t \in Thread, ThreadStep(t)
      PROVE  \A s \in Thread \ {t} : Stays(s)
  BY <1>1, ThreadMoves DEF Homes, Placed, Stays
<1>2. ASSUME NEW t \in Thread, ThreadStep(t)
      PROVE  \/ MemberStep(t) /\ OfAMember(t) /\ now' = now
             \/ UNCHANGED memberVars /\ now' = now /\ (OfAMember(t) => Stays(t))
  BY <1>2 DEF ThreadStep, Pool, Agents, Lookups, Organization, Tours, Admins, OfAMember, Stays
<1>3. ASSUME NEW t \in Thread, AgentsOutside(t)
      PROVE  UNCHANGED memberVars /\ at' = at /\ now' = now
  BY <1>3, OutsideMoves DEF AgentsOutside
<1>4. CASE Night \/ Ownership \/ NewMember \/ Tick \/ UNCHANGED serverVars
  BY <1>4 DEF Night, Ownership, NewMember, Tick, serverVars, Stays
<1> QED
  BY <1>1, <1>2, <1>3, <1>4 DEF Next, Stays

(* An edit replaces the coverage now, or keeps it. *)
LEMMA PutsKeep ==
  ASSUME MembersTyped, TimesPast, NEW t \in Thread, WorkOSPuts(t), now' = now, seen' = seen, entry' = entry
  PROVE  /\ MembersTyped' /\ TimesPast'
         /\ \A v \in Version : \A since \in Nat :
              since <= now /\ CurrentSince(v, since) => CurrentSince(v, since)'
<1>1. Edited(t) \in Metadata
  BY DEF Edited, MembersTyped, Metadata, Version
<1>2. /\ meta' \in Metadata /\ meta.coverage \in Version /\ meta'.coverage \in Version
      /\ ended \in [Version -> Nat \cup {NotEnded}] /\ now \in Nat
  BY <1>1 DEF WorkOSPuts, MembersTyped, Metadata
<1>3. CASE meta'.coverage = meta.coverage
  <2>1. ended' = ended
    BY <1>3 DEF WorkOSPuts
  <2> QED
    BY <1>2, <1>3, <2>1 DEF MembersTyped, TimesPast, CurrentSince
<1>4. CASE meta'.coverage # meta.coverage
  <2>1. PICK old, new \in Version : old = meta.coverage /\ new = meta'.coverage
    BY <1>2
  <2>2. ended' = [[ended EXCEPT ![old] = now] EXCEPT ![new] = NotEnded]
    BY <1>4, <2>1 DEF WorkOSPuts
  <2>3. /\ ended' \in [Version -> Nat \cup {NotEnded}]
        /\ ended'[new] = NotEnded /\ ended'[old] = now
        /\ \A v \in Version \ {old, new} : ended'[v] = ended[v]
    BY <1>2, <1>4, <2>1, <2>2
  <2>4. MembersTyped' /\ TimesPast'
    BY <1>2, <2>3 DEF MembersTyped, TimesPast, NotEnded
  <2>5. ASSUME NEW v \in Version, NEW since \in Nat, since <= now, CurrentSince(v, since)
        PROVE  CurrentSince(v, since)'
    BY <1>2, <2>1, <2>3, <2>5 DEF CurrentSince
  <2> QED
    BY <2>4, <2>5
<1> QED
  BY <1>3, <1>4

(* The steps of a request about members. *)
LEMMA MemberKeeps ==
  ASSUME MemberInv, Homes', NEW t \in Thread, MemberStep(t), OfAMember(t), now' = now,
         \A s \in Thread \ {t} : Stays(s)
  PROVE  MemberInv'
<1>0. /\ MembersTyped /\ TimesPast /\ Placed /\ now \in Nat
      /\ \A s \in Thread : At(s, "me store") => CurrentSince(seen[s].meta.coverage, seen[s].asked)
      /\ entry # NoEntry => CurrentSince(entry.coverage, entry.stamp)
      /\ \A s \in Thread : seen[s].meta.coverage \in Version /\ seen[s].asked \in Nat /\ seen[s].asked <= now
      /\ entry # NoEntry => entry.coverage \in Version /\ entry.stamp \in Nat /\ entry.stamp <= now
  BY DEF MemberInv, Homes, MembersTyped, TimesPast, Metadata
<1>1. CASE EditPut(t) \/ EditPutLost(t)
  <2>1. WorkOSPuts(t) /\ UNCHANGED <<seen, entry>> /\ ~At(t, "me store")'
    BY <1>0, <1>1 DEF EditPut, EditPutLost, At, GoTo, Finish, Placed
  <2>2. /\ MembersTyped' /\ TimesPast'
        /\ \A v \in Version : \A since \in Nat :
             since <= now /\ CurrentSince(v, since) => CurrentSince(v, since)'
    BY <1>0, <2>1, PutsKeep
  <2>3. ASSUME NEW s \in Thread, At(s, "me store")'
        PROVE  CurrentSince(seen[s].meta.coverage, seen[s].asked)'
    <3>1. At(s, "me store")
      BY <2>1, <2>3 DEF Stays, At
    <3>2. PICK v \in Version, since \in Nat : v = seen[s].meta.coverage /\ since = seen[s].asked
      BY <1>0
    <3>3. CurrentSince(v, since)'
      BY <1>0, <2>2, <3>1, <3>2
    <3> QED
      BY <2>1, <3>2, <3>3 DEF CurrentSince
  <2>4. entry' # NoEntry => CurrentSince(entry.coverage, entry.stamp)'
    <3> SUFFICES ASSUME entry # NoEntry  PROVE CurrentSince(entry.coverage, entry.stamp)'
      BY <2>1
    <3>2. PICK v \in Version, since \in Nat : v = entry.coverage /\ since = entry.stamp
      BY <1>0
    <3>3. CurrentSince(v, since)'
      BY <1>0, <2>2, <3>2
    <3> QED
      BY <2>1, <3>2, <3>3 DEF CurrentSince
  <2> QED
    BY <2>2, <2>3, <2>4 DEF MemberInv, NoEntry
<1>2. CASE MeStores(t)
  <2>1. /\ UNCHANGED <<meta, seen, ended>> /\ At(t, "me store") /\ ~At(t, "me store")'
        /\ entry' = [kind |-> "entry", coverage |-> seen[t].meta.coverage, stamp |-> seen[t].asked]
    BY <1>0, <1>2 DEF MeStores, At, GoTo, Placed, Entry, Stamp
  <2>2. MembersTyped' /\ TimesPast'
    BY <1>0, <2>1 DEF MembersTyped, TimesPast
  <2>3. \A s \in Thread : At(s, "me store")' => CurrentSince(seen[s].meta.coverage, seen[s].asked)'
    BY <1>0, <2>1 DEF Stays, At, CurrentSince
  <2>4. CurrentSince(entry.coverage, entry.stamp)'
    BY <1>0, <2>1 DEF CurrentSince
  <2> QED
    BY <2>2, <2>3, <2>4 DEF MemberInv
<1>3. ASSUME NEW m \in Metadata, NEW a, a = seen[t].asked \/ a = now,
             UNCHANGED <<meta, entry, ended>>, seen' = [seen EXCEPT ![t] = [meta |-> m, asked |-> a]],
             At(t, "me store")' => m = meta
      PROVE  MemberInv'
  <2>1. seen'[t].meta = m /\ seen'[t].asked = a /\ \A s \in Thread \ {t} : seen'[s] = seen[s]
    BY <1>0, <1>3 DEF MembersTyped
  <2>2. MembersTyped' /\ TimesPast'
    <3>1. a \in Nat /\ a <= now
      <4>1. seen[t].asked \in Nat /\ seen[t].asked <= now /\ now \in Nat
        BY <1>0
      <4>2. a = seen[t].asked \/ a = now
        BY <1>3
      <4> QED
        BY <4>1, <4>2
    <3>2. MembersTyped'
      BY <1>0, <1>3, <3>1 DEF MembersTyped
    <3> QED
      BY <1>0, <1>3, <2>1, <3>1, <3>2 DEF TimesPast
  <2>3. ASSUME NEW s \in Thread, At(s, "me store")'
        PROVE  CurrentSince(seen[s].meta.coverage, seen[s].asked)'
    <3>1. CASE s = t
      BY <1>3, <2>1, <2>3, <3>1 DEF CurrentSince
    <3>2. CASE s # t
      BY <1>0, <1>3, <2>1, <2>3, <3>2 DEF CurrentSince, Stays, At
    <3> QED
      BY <3>1, <3>2
  <2>4. entry' # NoEntry => CurrentSince(entry.coverage, entry.stamp)'
    BY <1>0, <1>3 DEF CurrentSince
  <2> QED
    BY <2>2, <2>3, <2>4 DEF MemberInv, NoEntry
<1>4. CASE MeAsks(t) \/ MeGot(t) \/ EditGot(t)
  <2>1. seen[t] = [meta |-> seen[t].meta, asked |-> seen[t].asked] /\ seen[t].meta \in Metadata
        /\ meta \in Metadata
    BY <1>0 DEF MembersTyped
  <2>2. CASE MeAsks(t)
    <3>1. ~At(t, "me store")' /\ UNCHANGED <<meta, entry, ended>>
      BY <1>0, <2>2 DEF MeAsks, At, GoTo, Placed
    <3>2. seen' = [seen EXCEPT ![t] = [meta |-> seen[t].meta, asked |-> now]]
      <4>1. \A r \in [meta : Metadata, asked : Nat] :
              [r EXCEPT !.asked = now] = [meta |-> r.meta, asked |-> now]
        OBVIOUS
      <4>2. seen[t] \in [meta : Metadata, asked : Nat]
        BY <1>0 DEF MembersTyped
      <4>3. seen' = [seen EXCEPT ![t] = [seen[t] EXCEPT !.asked = now]]
        BY <2>2 DEF MeAsks
      <4> QED
        BY <4>1, <4>2, <4>3
    <3> QED
      BY <1>3, <2>1, <3>1, <3>2
  <2>3. CASE MeGot(t) \/ EditGot(t)
    <3>1. UNCHANGED <<meta, entry, ended>>
      BY <2>3 DEF MeGot, EditGot
    <3>2. seen' = [seen EXCEPT ![t] = [meta |-> meta, asked |-> seen[t].asked]]
      BY <2>1, <2>3 DEF MeGot, EditGot
    <3> QED
      BY <1>3, <2>1, <3>1, <3>2
  <2> QED
    BY <1>4, <2>2, <2>3
<1>5. ASSUME UNCHANGED <<meta, seen, ended>>, entry' = entry \/ entry' = NoEntry, ~At(t, "me store")'
      PROVE  MemberInv'
  <2>1. MembersTyped' /\ TimesPast'
    BY <1>0, <1>5 DEF MembersTyped, TimesPast
  <2>2. \A s \in Thread : At(s, "me store")' => CurrentSince(seen[s].meta.coverage, seen[s].asked)'
    BY <1>0, <1>5 DEF Stays, At, CurrentSince
  <2>3. entry' # NoEntry => CurrentSince(entry.coverage, entry.stamp)'
    BY <1>0, <1>5 DEF CurrentSince
  <2> QED
    BY <2>1, <2>2, <2>3 DEF MemberInv, NoEntry
<1>6. CASE EditPop(t)
  BY <1>0, <1>5, <1>6 DEF EditPop, At, Finish, GoTo, Placed
<1>7. CASE MeCached(t) \/ MeConnected(t) \/ MeAnswered(t) \/ MeNoConnection(t) \/ WorkOSFails(t)
  BY <1>0, <1>5, <1>7 DEF MeCached, MeConnected, MeAnswered, MeNoConnection, WorkOSFails, memberVars,
     At, Finish, GoTo, Placed
<1> QED
  BY <1>1, <1>2, <1>4, <1>6, <1>7 DEF MemberStep

(* Every step of the server keeps the invariant of the coverage cache. *)
LEMMA MemberInvStep == MemberInv /\ [Next]_serverVars => MemberInv'
<1> SUFFICES ASSUME MemberInv, [Next]_serverVars  PROVE MemberInv'
  OBVIOUS
<1>1. Homes /\ Homes' /\ handler' = handler
  BY HomesStep, HandlerStays DEF MemberInv
<1>2. ASSUME UNCHANGED memberVars, (now' = now \/ now' = now + 1), \A s \in Thread : OfAMember(s) => Stays(s)
      PROVE  MemberInv'
  <2>1. UNCHANGED <<meta, seen, entry, ended>>
    BY <1>2 DEF memberVars
  <2>7. now \in Nat /\ now' \in Nat /\ now' >= now
    <3>1. now \in Nat
      BY DEF MemberInv, MembersTyped
    <3> QED
      BY <1>2, <3>1
  <2>2. MembersTyped'
    BY <2>1, <2>7 DEF MemberInv, MembersTyped
  <2>3. TimesPast'
    <3>1. /\ \A t \in Thread : seen[t].asked \in Nat /\ seen[t].asked <= now
          /\ entry # NoEntry => entry.stamp \in Nat /\ entry.stamp <= now
          /\ \A v \in Version : ended[v] \in Int /\ ended[v] <= now
      <4>1. ended \in [Version -> Nat \cup {NotEnded}] /\ seen \in [Thread -> [meta : Metadata, asked : Nat]]
        BY DEF MemberInv, MembersTyped
      <4>2. \A v \in Version : ended[v] \in Int
        BY <4>1, NotEndedIsEarly
      <4> QED
        BY <4>1, <4>2 DEF MemberInv, MembersTyped, TimesPast
    <3> QED
      BY <2>1, <2>7, <3>1 DEF TimesPast
  <2>4. ASSUME NEW s \in Thread, At(s, "me store")'  PROVE At(s, "me store")
    <3>1. OfAMember(s)'
      BY <1>1, <2>4 DEF Homes, AtHome, At, ChatPlaces, RunPlaces, LookupPlaces, TourPlaces, TradePlaces
    <3>2. OfAMember(s)
      BY <1>1, <3>1 DEF OfAMember, Kind
    <3> QED
      BY <1>2, <2>4, <3>2 DEF Stays, At
  <2>5. \A s \in Thread : At(s, "me store")' => CurrentSince(seen[s].meta.coverage, seen[s].asked)'
    BY <2>1, <2>4 DEF MemberInv, CurrentSince
  <2>6. entry' # NoEntry => CurrentSince(entry.coverage, entry.stamp)'
    BY <2>1 DEF MemberInv, CurrentSince
  <2> QED
    BY <1>1, <2>2, <2>3, <2>5, <2>6 DEF MemberInv, NoEntry
<1> QED
  BY <1>1, <1>2, MemberFrame, MemberKeeps

(* The inductive invariant of the metadata of a member: what is about to be *)
(* stored, and what is stored, was current when WorkOS was asked, or later. *)
THEOREM MemberInvariance == Spec => []MemberInv
  BY MemberInitially, MemberInvStep, PTL DEF Spec

(* No coverage is given out that was replaced longer ago than its lifetime, *)
(* whatever edits and reads overlap.                                        *)
THEOREM Coverage == Spec => []CoverageWithinTtl
<1>1. MemberInv => CoverageWithinTtl
  <2> SUFFICES ASSUME MemberInv, EntryValid, entry.coverage # meta.coverage
               PROVE  now - ended[entry.coverage] < CoverageTtl
    BY DEF CoverageWithinTtl
  <2>1. /\ entry # NoEntry /\ now - entry.stamp < CoverageTtl
        /\ entry.coverage \in Version /\ entry.stamp \in Nat /\ now \in Nat
    BY DEF EntryValid, MemberInv, MembersTyped
  <2>2. ended[entry.coverage] >= entry.stamp
    BY <2>1 DEF MemberInv, CurrentSince
  <2>3. ended[entry.coverage] \in Int
    <3>1. ended \in [Version -> Nat \cup {NotEnded}]
      BY DEF MemberInv, MembersTyped
    <3> QED
      BY <2>1, <3>1, NotEndedIsEarly
  <2> QED
    BY <2>1, <2>2, <2>3, MembersAssumption
<1> QED
  BY <1>1, MemberInvariance, PTL

-----------------------------------------------------------------------------
(* The data of the providers.  A row was stored when its value was fetched, *)
(* a copy counts from no later; a lookup knows when it began until it has   *)
(* fetched a value, which it stores at once.                                *)
ValueType == [kind : {"value"}, at : Nat, ttl : {LookupTtl, SnapshotTtl}]
RowType == [kind : {"row"}, value : ValueType, stored : Nat]
CopyType == [kind : {"copy"}, value : ValueType, stamp : Int]
NightType == {Asleep} \cup [stage : {"purging"}, doomed : SUBSET Namespace] \cup [stage : {"snapshots"}]

CachesTyped ==
    /\ now \in Nat
    /\ row \in [Namespace -> {Nothing} \cup RowType]
    /\ copy \in [Namespace -> {Nothing} \cup CopyType]
    /\ lookup \in [Thread -> {Nothing} \cup ValueType]
    /\ night \in NightType
    /\ good \in Nat \cup {NoSnapshot}

RowOK(n) == row[n] # Nothing => row[n].value.at = row[n].stored /\ row[n].stored <= now
CopyOK(n) == copy[n] # Nothing => copy[n].stamp <= copy[n].value.at

Asks == {"get", "getting", "fetch", "set", "setting"}
Stores == {"set", "setting"}
LookupOK(t) ==
    /\ lookup[t] # Nothing => lookup[t].at <= now
    /\ at[t] \in Asks => lookup[t] # Nothing
    /\ at[t] \in Stores => lookup[t].at = now

(* The last snapshot is in the table, and no purge is about to delete it,   *)
(* until it expires.                                                        *)
SnapshotOK ==
    good # NoSnapshot /\ now - good <= SnapshotTtl =>
        /\ good <= now
        /\ row["holders"] # Nothing
        /\ row["holders"].stored = good /\ row["holders"].value.ttl = SnapshotTtl
        /\ night.stage = "purging" => "holders" \notin night.doomed

CacheInv ==
    /\ Homes /\ CachesTyped
    /\ \A n \in Namespace : RowOK(n) /\ CopyOK(n)
    /\ \A t \in Thread : LookupOK(t)
    /\ SnapshotOK

(* The caches are empty at the start. *)
LEMMA CacheInitially == Init => CacheInv
<1> SUFFICES ASSUME Init  PROVE CacheInv
  OBVIOUS
<1>1. /\ now = 0 /\ good = NoSnapshot /\ night = Asleep
      /\ row = [n \in Namespace |-> Nothing]
      /\ copy = [n \in Namespace |-> Nothing]
      /\ lookup = [t \in Thread |-> Nothing]
      /\ \A t \in Thread : at[t] \in {"begin", "done"}
  BY DEF Init, CacheInit
<1>2. CachesTyped
  BY <1>1 DEF CachesTyped, NightType
<1>3. \A n \in Namespace : RowOK(n) /\ CopyOK(n)
  BY <1>1 DEF RowOK, CopyOK
<1>4. \A t \in Thread : LookupOK(t)
  BY <1>1 DEF LookupOK, Asks, Stores
<1>5. SnapshotOK
  BY <1>1 DEF SnapshotOK
<1> QED
  BY <1>2, <1>3, <1>4, <1>5, HomesInit DEF CacheInv

(* The steps that concern the caches. *)
LEMMA CacheFrame ==
  ASSUME Homes, [Next]_serverVars
  PROVE  \/ \E t \in Thread : /\ LookupStep(t) /\ OfALookup(t) /\ now' = now
                              /\ \A s \in Thread \ {t} : Stays(s)
         \/ (NightStep \/ Trade) /\ at' = at /\ now' = now
         \/ LookupsOnTime /\ UNCHANGED cacheVars /\ at' = at /\ now' = now + 1
         \/ /\ UNCHANGED cacheVars /\ now' = now
            /\ \A s \in Thread : OfALookup(s) => Stays(s)
<1>1. ASSUME NEW t \in Thread, ThreadStep(t)
      PROVE  \A s \in Thread \ {t} : Stays(s)
  BY <1>1, ThreadMoves DEF Homes, Placed, Stays
<1>2. ASSUME NEW t \in Thread, ThreadStep(t)
      PROVE  \/ LookupStep(t) /\ OfALookup(t) /\ now' = now
             \/ UNCHANGED cacheVars /\ now' = now /\ (OfALookup(t) => Stays(t))
  BY <1>2 DEF ThreadStep, Pool, Agents, Lookups, Organization, Tours, Admins, OfALookup, Stays
<1>3. ASSUME NEW t \in Thread, AgentsOutside(t)
      PROVE  UNCHANGED cacheVars /\ at' = at /\ now' = now
  BY <1>3, OutsideMoves DEF AgentsOutside
<1>4. CASE Night \/ Ownership \/ NewMember \/ Tick \/ UNCHANGED serverVars
  BY <1>4 DEF Night, Ownership, NewMember, Tick, serverVars, Stays
<1> QED
  BY <1>1, <1>2, <1>3, <1>4 DEF Next, Stays

-----------------------------------------------------------------------------
(* What a value, a row and a copy are made of. *)
LEMMA ValueFields ==
  ASSUME NEW v \in ValueType
  PROVE  /\ v.at \in Nat /\ v.ttl \in Nat /\ LookupTtl <= v.ttl /\ v.ttl <= SnapshotTtl
         /\ v # Nothing
  BY CacheAssumption DEF ValueType, Nothing

(* The fields of a row, of a copy in memory, and of the values made of them. *)
LEMMA RowFields ==
  ASSUME NEW r \in {Nothing} \cup RowType, r # Nothing
  PROVE  r.value \in ValueType /\ r.stored \in Nat
  BY DEF RowType

LEMMA CopyFields ==
  ASSUME NEW c \in {Nothing} \cup CopyType, c # Nothing
  PROVE  c.value \in ValueType /\ c.stamp \in Int
  BY DEF CopyType

LEMMA Made ==
  ASSUME NEW v \in ValueType, NEW n \in Nat, NEW i \in Int
  PROVE  /\ Value(n, LookupTtl) \in ValueType /\ Value(n, SnapshotTtl) \in ValueType
         /\ Row(v, n) \in RowType /\ Copy(v, i) \in CopyType
         /\ Value(n, LookupTtl).at = n /\ Value(n, SnapshotTtl).at = n
         /\ Value(n, SnapshotTtl).ttl = SnapshotTtl
         /\ Row(v, n).value = v /\ Row(v, n).stored = n /\ Row(v, n) # Nothing
         /\ Copy(v, i).value = v /\ Copy(v, i).stamp = i
  BY DEF Value, Row, Copy, ValueType, RowType, CopyType, Nothing

(* What the parts of the invariant rest on. *)
LEMMA LookupsKept ==
  ASSUME CacheInv, Placed', now' = now, NEW t \in Thread, \A s \in Thread \ {t} : Stays(s),
         NEW v \in {Nothing} \cup ValueType, lookup' = [lookup EXCEPT ![t] = v],
         v # Nothing => v.at <= now,
         at'[t] \in Asks => v # Nothing, at'[t] \in Stores => v.at = now
  PROVE  /\ lookup' \in [Thread -> {Nothing} \cup ValueType]
         /\ \A s \in Thread : LookupOK(s)'
<1>1. lookup \in [Thread -> {Nothing} \cup ValueType] /\ \A s \in Thread : LookupOK(s)
  BY DEF CacheInv, CachesTyped
<1>2. lookup'[t] = v /\ \A s \in Thread \ {t} : lookup'[s] = lookup[s]
  BY <1>1
<1>3. LookupOK(t)'
  BY <1>2 DEF LookupOK
<1>4. \A s \in Thread \ {t} : LookupOK(s)'
  BY <1>1, <1>2 DEF LookupOK, Stays
<1> QED
  BY <1>1, <1>3, <1>4

(* A step that writes no row leaves what is true of the rows. *)
LEMMA RowsKept ==
  ASSUME CacheInv, now' = now, UNCHANGED <<row, night, good>>
  PROVE  (\A n \in Namespace : RowOK(n)') /\ SnapshotOK'
  BY DEF CacheInv, RowOK, SnapshotOK

(* The steps of a lookup that change nothing but its place. *)
LEMMA LookupProceeds ==
  ASSUME CacheInv, Homes', NEW t \in Thread, UNCHANGED cacheVars, now' = now,
         \A s \in Thread \ {t} : Stays(s),
         \/ at'[t] \notin Asks
         \/ at[t] \in Asks /\ at'[t] \notin Stores
         \/ at[t] \in Stores
  PROVE  CacheInv'
<1>1. UNCHANGED <<row, copy, lookup, night, good>>
  BY DEF cacheVars
<1>2. CachesTyped' /\ \A n \in Namespace : RowOK(n)' /\ CopyOK(n)'
  BY <1>1 DEF CacheInv, CachesTyped, RowOK, CopyOK
<1>3. SnapshotOK'
  BY <1>1 DEF CacheInv, SnapshotOK
<1>4. \A s \in Thread : LookupOK(s)
  BY DEF CacheInv
<1>5. LookupOK(t)'
  BY <1>1, <1>4 DEF LookupOK, Asks, Stores
<1>6. \A s \in Thread \ {t} : LookupOK(s)'
  BY <1>1, <1>4 DEF LookupOK, Stays
<1> QED
  BY <1>2, <1>3, <1>5, <1>6 DEF CacheInv

(* The steps of a lookup. *)
LEMMA LookupKeeps ==
  ASSUME CacheInv, Homes', NEW t \in Thread, LookupStep(t), OfALookup(t), now' = now,
         \A s \in Thread \ {t} : Stays(s)
  PROVE  CacheInv'
<1>0. /\ CachesTyped /\ Placed /\ Placed' /\ now \in Nat
      /\ LookupOK(t)
  BY DEF CacheInv, Homes, CachesTyped
<1>9. PICK n \in Namespace : n = Of(t)
  BY DEF Of, Namespace
<1>1. ASSUME UNCHANGED <<row, copy, night, good>>, NEW v \in {Nothing} \cup ValueType,
             lookup' = [lookup EXCEPT ![t] = v],
             v # Nothing => v.at <= now,
             at'[t] \in Asks => v # Nothing, at'[t] \notin Stores
      PROVE  CacheInv'
  <2>1. /\ lookup' \in [Thread -> {Nothing} \cup ValueType]
        /\ \A s \in Thread : LookupOK(s)'
    BY <1>0, <1>1, LookupsKept
  <2>2. (\A m \in Namespace : RowOK(m)') /\ SnapshotOK'
    BY <1>1, RowsKept
  <2>3. CachesTyped'
    BY <1>0, <1>1, <2>1 DEF CachesTyped
  <2> QED
    BY <1>1, <2>1, <2>2, <2>3 DEF CacheInv, CopyOK
<1>2. CASE LookFurther(t)
  <2>1. PICK v : v = Value(now, LookupTtl)
    OBVIOUS
  <2>2. v \in {Nothing} \cup ValueType /\ v.at = now /\ v # Nothing
    BY <1>0, <2>1 DEF Value, ValueType, Nothing
  <2>3. UNCHANGED <<row, copy, night, good>> /\ lookup' = [lookup EXCEPT ![t] = v] /\ at'[t] = "get"
    BY <1>0, <1>2, <2>1 DEF LookFurther, Remember, GoTo, Placed
  <2>4. v.at <= now /\ at'[t] \notin Stores
    BY <1>0, <2>2, <2>3 DEF Stores
  <2> QED
    BY <1>1, <2>2, <2>3, <2>4
<1>3. CASE FetchRaises(t) \/ FetchedNone(t) \/ StoreFails(t)
  <2>1. at'[t] \in {"leave", "done", "peek"}
    BY <1>0, <1>3 DEF FetchRaises, FetchedNone, StoreFails, Reply, GoTo, Finish, Placed
  <2>2. UNCHANGED <<row, copy, night, good>> /\ lookup' = [lookup EXCEPT ![t] = Nothing]
    BY <1>3 DEF FetchRaises, FetchedNone, StoreFails, Forget, Remember
  <2> QED
    BY <1>1, <2>1, <2>2 DEF Asks, Stores
<1>8. ASSUME NEW c \in CopyType, c.stamp <= c.value.at, copy' = [copy EXCEPT ![n] = c],
             UNCHANGED <<row, night, good>>,
             lookup' \in [Thread -> {Nothing} \cup ValueType], \A s \in Thread : LookupOK(s)'
      PROVE  CacheInv'
  <2>1. /\ copy' \in [Namespace -> {Nothing} \cup CopyType]
        /\ copy'[n] = c /\ \A m \in Namespace \ {n} : copy'[m] = copy[m]
    BY <1>0, <1>8 DEF CachesTyped
  <2>2. CopyOK(n)'
    BY <1>8, <2>1 DEF CopyOK
  <2>3. \A m \in Namespace \ {n} : CopyOK(m)'
    BY <2>1 DEF CacheInv, CopyOK
  <2>4. (\A m \in Namespace : RowOK(m)') /\ SnapshotOK'
    BY <1>8, RowsKept
  <2>5. CachesTyped'
    BY <1>0, <1>8, <2>1 DEF CachesTyped
  <2> QED
    BY <1>8, <2>2, <2>3, <2>4, <2>5 DEF CacheInv
<1>4. CASE Fetched(t)
  <2>1. PICK v : v = Value(now, LookupTtl)
    OBVIOUS
  <2>2. v \in ValueType /\ v.at = now /\ v # Nothing
    BY <1>0, <2>1 DEF Value, ValueType, Nothing
  <2>3. /\ copy' = [copy EXCEPT ![n] = Copy(v, lookup[t].at)]
        /\ lookup' = [lookup EXCEPT ![t] = v]
        /\ UNCHANGED <<row, night, good>> /\ at[t] = "fetch"
    BY <1>4, <1>9, <2>1 DEF Fetched, Remember, At
  <2>4. lookup[t].at \in Nat /\ lookup[t].at <= now
    <3>1. lookup[t] # Nothing /\ lookup[t] \in {Nothing} \cup ValueType
      BY <1>0, <2>3 DEF LookupOK, Asks, CachesTyped
    <3> QED
      BY <1>0, <3>1, ValueFields DEF LookupOK
  <2>5. PICK c : c = Copy(v, lookup[t].at)
    OBVIOUS
  <2>6. c \in CopyType /\ c.stamp <= c.value.at
    BY <2>2, <2>4, <2>5 DEF Copy, CopyType
  <2>7. /\ lookup' \in [Thread -> {Nothing} \cup ValueType]
        /\ \A s \in Thread : LookupOK(s)'
    <3>1. v \in {Nothing} \cup ValueType /\ v.at <= now
      BY <1>0, <2>2
    <3>2. lookup' = [lookup EXCEPT ![t] = v]
      BY <2>3
    <3> QED
      BY <1>0, <2>2, <3>1, <3>2, LookupsKept
  <2> QED
    BY <1>8, <2>3, <2>5, <2>6, <2>7
<1>5. CASE GetHit(t)
  <2>1. /\ copy' = [copy EXCEPT ![n] = Seeded(n, lookup[t].at)]
        /\ lookup' = [lookup EXCEPT ![t] = Nothing]
        /\ UNCHANGED <<row, night, good>> /\ at[t] = "getting" /\ row[n] # Nothing
        /\ at'[t] \in {"leave", "done"}
    BY <1>0, <1>5, <1>9 DEF GetHit, Remember, Forget, At, Reply, GoTo, Finish, Placed
  <2>2. lookup[t].at \in Nat /\ lookup[t].at <= now
    <3>1. lookup[t] # Nothing /\ lookup[t] \in {Nothing} \cup ValueType
      BY <1>0, <2>1 DEF LookupOK, Asks, CachesTyped
    <3> QED
      BY <1>0, <3>1, ValueFields DEF LookupOK
  <2>3. PICK r : r = row[n]
    OBVIOUS
  <2>4. /\ r \in {Nothing} \cup RowType /\ r # Nothing
        /\ r.value.at = r.stored /\ r.stored <= now
    BY <1>0, <2>1, <2>3 DEF CachesTyped, CacheInv, RowOK
  <2>5. r.value \in ValueType /\ r.stored \in Nat
    BY <2>4, RowFields
  <2>6. PICK c : c = Copy(r.value, lookup[t].at - (now - r.stored))
    OBVIOUS
  <2>7. copy' = [copy EXCEPT ![n] = c]
    BY <2>1, <2>3, <2>6 DEF Seeded, RowAge
  <2>8. c \in CopyType /\ c.stamp <= c.value.at
    <3>1. PICK i : i = lookup[t].at - (now - r.stored)
      OBVIOUS
    <3>2. i \in Int /\ i <= r.value.at
      BY <1>0, <2>2, <2>4, <2>5, <3>1
    <3> QED
      BY <2>5, <2>6, <3>1, <3>2 DEF Copy, CopyType
  <2>9. /\ lookup' \in [Thread -> {Nothing} \cup ValueType]
        /\ \A s \in Thread : LookupOK(s)'
    BY <1>0, <2>1, LookupsKept DEF Asks, Stores
  <2> QED
    BY <1>8, <2>1, <2>7, <2>8, <2>9
<1>6. CASE SetRow(t)
  <2>1. /\ row' = [row EXCEPT ![n] = Row(lookup[t], now)]
        /\ good' = IF n = "holders" THEN NoSnapshot ELSE good
        /\ lookup' = [lookup EXCEPT ![t] = Nothing]
        /\ UNCHANGED <<copy, night>> /\ at[t] = "setting"
        /\ at'[t] \in {"leave", "done"}
    BY <1>0, <1>6, <1>9 DEF SetRow, Remember, Forget, At, Reply, GoTo, Finish, Placed
  <2>2. PICK v : v = lookup[t]
    OBVIOUS
  <2>3. v \in ValueType /\ v.at = now
    BY <1>0, <2>1, <2>2 DEF LookupOK, Asks, Stores, CachesTyped
  <2>4. PICK r : r = Row(v, now)
    OBVIOUS
  <2>5. r \in RowType /\ r.value.at = r.stored /\ r.stored = now
    BY <1>0, <2>3, <2>4 DEF Row, RowType
  <2>6. row' = [row EXCEPT ![n] = r]
    BY <2>1, <2>2, <2>4
  <2>7. /\ row' \in [Namespace -> {Nothing} \cup RowType]
        /\ row'[n] = r /\ \A m \in Namespace \ {n} : row'[m] = row[m]
    BY <1>0, <2>5, <2>6 DEF CachesTyped
  <2>8. RowOK(n)' /\ \A m \in Namespace \ {n} : RowOK(m)'
    BY <1>0, <2>5, <2>7 DEF CacheInv, RowOK
  <2>9. SnapshotOK'
    <3>1. CASE n = "holders"
      BY <2>1, <3>1 DEF SnapshotOK
    <3>2. CASE n # "holders"
      <4>1. row'["holders"] = row["holders"] /\ good' = good
        BY <2>1, <2>7, <3>2 DEF Namespace
      <4> QED
        BY <2>1, <4>1 DEF CacheInv, SnapshotOK
    <3> QED
      BY <3>1, <3>2
  <2>10. /\ lookup' \in [Thread -> {Nothing} \cup ValueType]
         /\ \A s \in Thread : LookupOK(s)'
    BY <1>0, <2>1, LookupsKept DEF Asks, Stores
  <2>11. CachesTyped'
    BY <1>0, <2>1, <2>7, <2>10 DEF CachesTyped
  <2>12. \A m \in Namespace : CopyOK(m)'
    BY <2>1 DEF CacheInv, CopyOK
  <2> QED
    BY <2>8, <2>9, <2>10, <2>11, <2>12 DEF CacheInv
<1>7. CASE \/ HoldersBegin(t) \/ HoldersConnected(t) \/ SnapshotBegin(t)
           \/ WatchBegin(t) \/ WatchConnected(t) \/ WatchLeave(t) \/ NoConnection(t)
           \/ LookInMemory(t) \/ GetConnected(t) \/ GetMiss(t) \/ GetFails(t)
           \/ PeekConnected(t) \/ Peeked(t) \/ SetConnected(t)
  <2>1. /\ UNCHANGED cacheVars
        /\ \/ at'[t] \notin Asks
           \/ at[t] \in Asks /\ at'[t] \notin Stores
           \/ at[t] \in Stores
    BY <1>0, <1>7
       DEF HoldersBegin, HoldersConnected, SnapshotBegin, WatchBegin, WatchConnected, WatchLeave,
           NoConnection, LookInMemory, GetConnected, GetMiss, GetFails, PeekConnected, Peeked,
           SetConnected, At, GoTo, Finish, Reply, Placed, Asks, Stores
  <2> QED
    BY <2>1, LookupProceeds
<1> QED
  BY <1>2, <1>3, <1>4, <1>5, <1>6, <1>7 DEF LookupStep

-----------------------------------------------------------------------------
(* The steps of the night's refresh, and a trade. *)
LEMMA NightKeeps ==
  ASSUME CacheInv, Homes', NightStep \/ Trade, at' = at, now' = now
  PROVE  CacheInv'
<1>0. CachesTyped /\ now \in Nat /\ "holders" \in Namespace
  BY DEF CacheInv, CachesTyped, Namespace
<1>1. UNCHANGED <<copy, lookup>>
  BY DEF NightStep, NightBegins, PurgeDeletes, Snapshot, NightEnds, Trade
<1>2. (\A t \in Thread : LookupOK(t)') /\ \A n \in Namespace : CopyOK(n)'
  BY <1>1 DEF CacheInv, LookupOK, CopyOK
<1>3. ASSUME row' \in [Namespace -> {Nothing} \cup RowType], night' \in NightType,
             good' \in Nat \cup {NoSnapshot}
      PROVE  CachesTyped'
  BY <1>0, <1>1, <1>3 DEF CachesTyped
<1>4. CASE NightBegins
  <2>1. row' = row /\ good' = good /\ night' = [stage |-> "purging", doomed |-> PurgeSelection]
    BY <1>4 DEF NightBegins
  <2>2. night' \in NightType
    BY <2>1 DEF NightType, PurgeSelection
  <2>3. CachesTyped' /\ \A n \in Namespace : RowOK(n)'
    BY <1>0, <1>3, <2>1, <2>2 DEF CachesTyped, CacheInv, RowOK
  <2>4. SnapshotOK'
    <3> SUFFICES ASSUME good # NoSnapshot, now - good <= SnapshotTtl
                 PROVE  SnapshotOK'
      BY <2>1 DEF SnapshotOK
    <3>1. /\ good <= now /\ row["holders"] # Nothing /\ row["holders"].stored = good
          /\ row["holders"].value.ttl = SnapshotTtl
      BY DEF CacheInv, SnapshotOK
    <3>2. good \in Nat
      BY <1>0 DEF CachesTyped
    <3>3. "holders" \notin PurgeSelection
      BY <1>0, <3>1, <3>2, CacheAssumption DEF PurgeSelection, Expired, RowAge
    <3>4. night'.stage = "purging" => "holders" \notin night'.doomed
      BY <2>1, <3>3
    <3> QED
      BY <2>1, <3>1, <3>4 DEF SnapshotOK
  <2> QED
    BY <1>2, <2>3, <2>4 DEF CacheInv
<1>5. CASE PurgeDeletes
  <2>1. /\ good' = good /\ night.stage = "purging" /\ night' = [stage |-> "snapshots"]
        /\ row' = [n \in Namespace |-> IF n \in night.doomed THEN Nothing ELSE row[n]]
    BY <1>5 DEF PurgeDeletes
  <2>2. row' \in [Namespace -> {Nothing} \cup RowType] /\ night' \in NightType /\ night'.stage = "snapshots"
    BY <1>0, <2>1 DEF CachesTyped, NightType
  <2>3. CachesTyped'
    BY <1>0, <1>3, <2>1, <2>2 DEF CachesTyped
  <2>4. \A n \in Namespace : RowOK(n)'
    BY <2>1 DEF CacheInv, RowOK
  <2>5. "holders" \notin night.doomed => row'["holders"] = row["holders"]
    BY <1>0, <2>1
  <2>6. SnapshotOK'
    BY <2>1, <2>2, <2>5 DEF CacheInv, SnapshotOK
  <2> QED
    BY <1>2, <2>3, <2>4, <2>6 DEF CacheInv
<1>6. CASE Snapshot
  <2>1. PICK r : r = Row(Value(now, SnapshotTtl), now)
    OBVIOUS
  <2>2. /\ r \in RowType /\ r # Nothing /\ r.value.at = r.stored /\ r.stored = now
        /\ r.value.ttl = SnapshotTtl
    BY <1>0, <2>1 DEF Value, Row, ValueType, RowType, Nothing
  <2>3. row' = [row EXCEPT !["holders"] = r] /\ good' = now /\ night' = Asleep
    BY <1>6, <2>1 DEF Snapshot
  <2>4. /\ row' \in [Namespace -> {Nothing} \cup RowType] /\ row'["holders"] = r
        /\ \A n \in Namespace \ {"holders"} : row'[n] = row[n]
    BY <1>0, <2>2, <2>3 DEF CachesTyped
  <2>5. night' \in NightType /\ night'.stage = "asleep"
    BY <2>3 DEF NightType, Asleep
  <2>6. CachesTyped'
    BY <1>0, <1>3, <2>3, <2>4, <2>5
  <2>7. \A n \in Namespace : RowOK(n)'
    BY <1>0, <2>2, <2>4 DEF CacheInv, RowOK
  <2>8. SnapshotOK'
    BY <1>0, <2>2, <2>3, <2>4, <2>5 DEF SnapshotOK
  <2> QED
    BY <1>2, <2>6, <2>7, <2>8 DEF CacheInv
<1>7. CASE NightEnds
  <2>1. row' = row /\ good' = good /\ night' = Asleep /\ night'.stage = "asleep"
    BY <1>7 DEF NightEnds, Asleep
  <2>2. CachesTyped'
    BY <1>0, <1>3, <2>1 DEF CachesTyped, NightType
  <2>3. SnapshotOK' /\ \A n \in Namespace : RowOK(n)'
    BY <2>1 DEF CacheInv, SnapshotOK, RowOK
  <2> QED
    BY <1>2, <2>2, <2>3 DEF CacheInv
<1>8. CASE Trade
  <2>1. row' = row /\ good' = NoSnapshot /\ night' = night
    BY <1>8 DEF Trade
  <2>2. CachesTyped'
    BY <1>0, <1>3, <2>1 DEF CachesTyped
  <2>3. SnapshotOK' /\ \A n \in Namespace : RowOK(n)'
    BY <2>1 DEF CacheInv, SnapshotOK, RowOK
  <2> QED
    BY <1>2, <2>2, <2>3 DEF CacheInv
<1> QED
  BY <1>4, <1>5, <1>6, <1>7, <1>8 DEF NightStep

(* The clock waits for what was fetched to be stored. *)
LEMMA CacheTick ==
  ASSUME CacheInv, Homes', LookupsOnTime, UNCHANGED cacheVars, at' = at, now' = now + 1
  PROVE  CacheInv'
<1>1. UNCHANGED <<row, copy, lookup, night, good>> /\ now \in Nat
  BY DEF cacheVars, CacheInv, CachesTyped
<1>2. CachesTyped' /\ \A n \in Namespace : CopyOK(n)'
  BY <1>1 DEF CacheInv, CachesTyped, CopyOK
<1>3. \A n \in Namespace : RowOK(n)'
  <2> SUFFICES ASSUME NEW n \in Namespace, row[n] # Nothing
               PROVE  row[n].value.at = row[n].stored /\ row[n].stored <= now + 1
    BY <1>1 DEF RowOK
  <2>1. row[n].value.at = row[n].stored /\ row[n].stored <= now
    BY DEF CacheInv, RowOK
  <2>2. row[n].stored \in Nat
    BY RowFields DEF CacheInv, CachesTyped
  <2> QED
    BY <1>1, <2>1, <2>2
<1>4. \A t \in Thread : LookupOK(t)'
  <2> SUFFICES ASSUME NEW t \in Thread  PROVE LookupOK(t)'
    OBVIOUS
  <2>1. LookupOK(t) /\ at[t] \notin Stores /\ (lookup[t] # Nothing => lookup[t].at = now)
    BY DEF CacheInv, LookupsOnTime, Stores
  <2> QED
    BY <1>1, <2>1 DEF LookupOK
<1>5. SnapshotOK'
  <2> SUFFICES ASSUME good # NoSnapshot, (now + 1) - good <= SnapshotTtl
               PROVE  SnapshotOK'
    BY <1>1 DEF SnapshotOK
  <2>1. good \in Nat
    BY DEF CacheInv, CachesTyped
  <2>2. now - good <= SnapshotTtl
    BY <1>1, <2>1, CacheAssumption
  <2>3. /\ good <= now /\ row["holders"] # Nothing /\ row["holders"].stored = good
        /\ row["holders"].value.ttl = SnapshotTtl
        /\ night.stage = "purging" => "holders" \notin night.doomed
    BY <2>2 DEF CacheInv, SnapshotOK
  <2>4. good <= now + 1
    BY <1>1, <2>1, <2>3
  <2> QED
    BY <1>1, <2>3, <2>4 DEF SnapshotOK
<1> QED
  BY <1>2, <1>3, <1>4, <1>5 DEF CacheInv

(* Every step of the server keeps the invariant of the caches. *)
LEMMA CacheInvStep == CacheInv /\ [Next]_serverVars => CacheInv'
<1> SUFFICES ASSUME CacheInv, [Next]_serverVars  PROVE CacheInv'
  OBVIOUS
<1>1. Homes /\ Homes' /\ handler' = handler
  BY HomesStep, HandlerStays DEF CacheInv
<1>2. ASSUME UNCHANGED cacheVars, now' = now, \A s \in Thread : OfALookup(s) => Stays(s)
      PROVE  CacheInv'
  <2>1. UNCHANGED <<row, copy, lookup, night, good>>
    BY <1>2 DEF cacheVars
  <2>2. CachesTyped' /\ \A n \in Namespace : RowOK(n)' /\ CopyOK(n)'
    BY <1>2, <2>1 DEF CacheInv, CachesTyped, RowOK, CopyOK
  <2>3. SnapshotOK'
    BY <1>2, <2>1 DEF CacheInv, SnapshotOK
  <2>4. ASSUME NEW t \in Thread  PROVE LookupOK(t)'
    <3>1. LookupOK(t)
      BY DEF CacheInv
    <3>2. CASE Stays(t)
      BY <1>2, <2>1, <3>1, <3>2 DEF LookupOK, Stays
    <3>3. CASE ~OfALookup(t)
      <4>1. ~OfALookup(t)'
        BY <1>1, <3>3 DEF OfALookup, Kind
      <4>2. at'[t] \notin Asks \cup Stores
        BY <1>1, <4>1 DEF Homes, AtHome, ChatPlaces, RunPlaces, MemberPlaces, TourPlaces, TradePlaces,
                          Asks, Stores
      <4> QED
        BY <1>2, <2>1, <3>1, <4>2 DEF LookupOK
    <3> QED
      BY <1>2, <3>2, <3>3
  <2> QED
    BY <1>1, <2>2, <2>3, <2>4 DEF CacheInv
<1> QED
  BY <1>1, <1>2, CacheFrame, LookupKeeps, NightKeeps, CacheTick

(* The inductive invariant of the caches. *)
THEOREM CacheInvariance == Spec => []CacheInv
  BY CacheInitially, CacheInvStep, PTL DEF Spec

(* Nothing that memory or the table would give out as fresh is older than   *)
(* the lifetime it was stored with.                                         *)
THEOREM Fresh == Spec => []FreshWithinLifetime
<1>1. CacheInv => FreshWithinLifetime
  <2> SUFFICES ASSUME CacheInv, NEW n \in Namespace
               PROVE  /\ CopyValid(n) => now - copy[n].value.at <= copy[n].value.ttl
                      /\ row[n] # Nothing /\ ~Expired(n) => now - row[n].value.at <= row[n].value.ttl
    BY DEF FreshWithinLifetime
  <2>1. now \in Nat /\ RowOK(n) /\ CopyOK(n)
        /\ row[n] \in {Nothing} \cup RowType /\ copy[n] \in {Nothing} \cup CopyType
    BY DEF CacheInv, CachesTyped
  <2>2. CopyValid(n) => now - copy[n].value.at <= copy[n].value.ttl
    <3> SUFFICES ASSUME CopyValid(n)  PROVE now - copy[n].value.at <= copy[n].value.ttl
      OBVIOUS
    <3>1. copy[n] # Nothing /\ now - copy[n].stamp < LookupTtl
      BY DEF CopyValid
    <3>2. copy[n].value \in ValueType /\ copy[n].stamp \in Int
      BY <2>1, <3>1, CopyFields
    <3>3. copy[n].value.at \in Nat /\ copy[n].value.ttl \in Nat /\ LookupTtl <= copy[n].value.ttl
      BY <3>2, ValueFields
    <3>4. copy[n].stamp <= copy[n].value.at
      BY <2>1, <3>1 DEF CopyOK
    <3> QED
      BY <2>1, <3>1, <3>2, <3>3, <3>4, CacheAssumption
  <2>3. row[n] # Nothing /\ ~Expired(n) => now - row[n].value.at <= row[n].value.ttl
    <3> SUFFICES ASSUME row[n] # Nothing, ~Expired(n)  PROVE now - row[n].value.at <= row[n].value.ttl
      OBVIOUS
    <3>1. row[n].value \in ValueType /\ row[n].stored \in Nat
      BY <2>1, RowFields
    <3>2. row[n].value.at = row[n].stored
      BY <2>1 DEF RowOK
    <3>3. row[n].value.ttl \in Nat
      BY <3>1, ValueFields
    <3> QED
      BY <2>1, <3>1, <3>2, <3>3 DEF Expired, RowAge
  <2> QED
    BY <2>2, <2>3
<1> QED
  BY <1>1, CacheInvariance, PTL

(* The last snapshot of an owned ticker survives the purges of its lifetime,*)
(* however they race with lookups and the nightly job.                      *)
THEOREM Snapshots == Spec => []LastKnownGood
<1>1. CacheInv => LastKnownGood
  BY DEF CacheInv, SnapshotOK, LastKnownGood
<1> QED
  BY <1>1, CacheInvariance, PTL
=============================================================================

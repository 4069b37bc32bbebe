--------------------------- MODULE OnboardingProofs ---------------------------
(***************************************************************************)
(* Proofs about the welcome tour on a server, for every set of founders,   *)
(* newcomers and requests, whatever else the server does meanwhile.        *)
(***************************************************************************)
EXTENDS ServerProofs

TourTypes ==
    /\ member \in SUBSET User /\ Founder \subseteq member
    /\ rows \in SUBSET (User \cup {Backfill})
    /\ todo \in [Thread -> SUBSET User]
    /\ shows \in [User -> Nat]
    /\ told \in [Thread -> {"nothing", "refused", "failed", "cannot tell", "tour", "no tour"}]
    /\ late \in SUBSET member

(* The points of a request after TourBegin let it in. *)
TourPoints == {"tour connect", "tour directory", "tour backfilled?", "tour backfill", "tour claim"}

(* What a request knows.  The list of members that it marks is of a time    *)
(* before the backfill was complete, so nobody who joined later is on it.   *)
TourRequestOK(t) ==
    /\ at[t] \in TourPoints => Caller(t) \in member
    /\ told[t] # "nothing" => At(t, "done")
    /\ told[t] \notin {"nothing", "refused"} => Caller(t) \in member
    /\ At(t, "tour backfilled?") => Founder \subseteq todo[t] /\ todo[t] \subseteq member
    /\ At(t, "tour backfill") =>
          Founder \subseteq rows \cup todo[t] /\ todo[t] \subseteq member \ late
    /\ At(t, "tour claim") => Backfill \in rows

(* Whoever saw the tour has a row, the founders have one as soon as the     *)
(* backfill has, and who joined after it has none but by a request.         *)
TourRowsOK ==
    /\ rows \subseteq member \cup {Backfill}
    /\ Backfill \in rows => Founder \subseteq rows
    /\ \A u \in User : shows[u] <= 1 /\ (shows[u] > 0 => u \in rows)
    /\ \A u \in late : Backfill \in rows

ToldSo(u, outcome) ==
    \E t \in Thread : Kind(t) = "tour" /\ Caller(t) = u /\ told[t] = outcome

LateRowsOK == \A u \in late : u \in rows => ToldSo(u, "tour") \/ ToldSo(u, "failed")

NewcomersTold ==
    \A u \in late : ToldSo(u, "no tour") => ToldSo(u, "tour") \/ ToldSo(u, "failed")

TourInv ==
    /\ Placed /\ TourTypes /\ TourRowsOK /\ MembersNeverSeeTour /\ LateRowsOK
    /\ NewcomersTold
    /\ \A t \in Thread : Kind(t) = "tour" => TourRequestOK(t)

-----------------------------------------------------------------------------
(* Nobody has been told anything at first. *)
LEMMA TourInitially == Init => TourInv
<1> SUFFICES ASSUME Init  PROVE TourInv
  OBVIOUS
<1>1. \A t \in Thread : at[t] \in {"begin", "done"} /\ told[t] = "nothing"
  BY DEF Init, TourInit
<1> QED
  BY <1>1, PlacedInit, OnboardingAssumption
     DEF Init, TourInit, TourInv, TourTypes, TourRowsOK, MembersNeverSeeTour, LateRowsOK,
         NewcomersTold, ToldSo, TourRequestOK, TourPoints, At, User

(* A step keeps the outcomes that were told: a request tells one, at its    *)
(* end, and one that has ended does not go on.                              *)
LEMMA OutcomesKept ==
  ASSUME TourInv, handler' = handler, NEW t \in Thread, Kind(t) = "tour", told[t] = "nothing",
         \A s \in Thread \ {t} : told'[s] = told[s]
  PROVE  \A u, outcome : outcome # "nothing" /\ ToldSo(u, outcome) => ToldSo(u, outcome)'
  BY DEF ToldSo, Kind, Caller

(* The steps of a request other than the one that claims the tour. *)
LEMMA TourRequestKept ==
  ASSUME TourInv, handler' = handler, NEW s \in Thread, Kind(s) = "tour", Stays(s),
         told'[s] = told[s], todo'[s] = todo[s], rows \subseteq rows',
         member \subseteq member', late' \ late \subseteq member' \ member
  PROVE  TourRequestOK(s)'
<1>1. TourRequestOK(s) /\ todo[s] \subseteq User
  BY DEF TourInv, TourTypes
<1> QED
  BY <1>1 DEF TourRequestOK, At, Caller, Stays

(* A step that tells at most a refusal or a failure, marks nobody who       *)
(* joined late but the caller of a failed claim, and opens no tour.         *)
LEMMA TourSilentStep ==
  ASSUME TourInv, [Next]_serverVars, TourTypes', NEW t \in Thread, Kind(t) = "tour",
         ~At(t, "done"), TourRequestOK(t)',
         UNCHANGED <<member, late, shows>>, rows \subseteq rows',
         \A s \in Thread \ {t} : Stays(s) /\ told'[s] = told[s] /\ todo'[s] = todo[s],
         told'[t] \in {"nothing", "refused", "failed", "cannot tell"},
         rows' \subseteq rows \cup (member \ late) \cup {Backfill} \cup
                           (IF told'[t] = "failed" THEN {Caller(t)} ELSE {}),
         rows' \subseteq member \cup {Backfill},
         Backfill \in rows' => Founder \subseteq rows'
  PROVE  TourInv'
<1>1. handler' = handler /\ Placed'
  BY HandlerStays, PlacedStep DEF TourInv
<1>2. told[t] = "nothing"
  BY DEF TourInv, TourRequestOK
<1>3. \A u, outcome : outcome # "nothing" /\ ToldSo(u, outcome) => ToldSo(u, outcome)'
  BY <1>1, <1>2, OutcomesKept
<1>4. TourRowsOK' /\ MembersNeverSeeTour'
  BY DEF TourInv, TourRowsOK, MembersNeverSeeTour
<1>5. \A u : told'[t] = "failed" /\ u = Caller(t) => ToldSo(u, "failed")'
  BY <1>1 DEF ToldSo, Caller, Kind
<1>6. LateRowsOK'
  <2> SUFFICES ASSUME NEW u \in late, u \in rows'
               PROVE  ToldSo(u, "tour")' \/ ToldSo(u, "failed")'
    BY DEF LateRowsOK
  <2>1. u \in User /\ u # Backfill
    BY OnboardingAssumption DEF TourInv, TourTypes
  <2>2. CASE u \in rows
    BY <2>2, <1>3 DEF TourInv, LateRowsOK
  <2>3. CASE u \notin rows
    BY <2>1, <2>3, <1>5
  <2> QED
    BY <2>2, <2>3
<1>7. NewcomersTold'
  <2>1. \A u : ToldSo(u, "no tour")' => ToldSo(u, "no tour")
    BY <1>1 DEF ToldSo, Kind, Caller
  <2> QED
    BY <2>1, <1>3 DEF TourInv, NewcomersTold
<1>8. \A s \in Thread : Kind(s)' = "tour" => TourRequestOK(s)'
  BY <1>1, TourRequestKept DEF Kind
<1> QED
  BY <1>1, <1>4, <1>6, <1>7, <1>8 DEF TourInv

(* The claim of the tour: whoever finds no row sees the tour. *)
LEMMA TourClaimStep ==
  ASSUME TourInv, [Next]_serverVars, NEW t \in Thread, Kind(t) = "tour",
         TourClaims(t), \A s \in Thread \ {t} : Stays(s)
  PROVE  TourInv'
<1>1. handler' = handler /\ Placed'
  BY HandlerStays, PlacedStep DEF TourInv
<1> DEFINE c == Caller(t)
<1>2. /\ c \in member /\ c \in User /\ Backfill \in rows /\ told[t] = "nothing" /\ At(t, "done")'
  BY DEF TourClaims, TourInv, TourTypes, TourRequestOK, TourPoints, At, GoTo, Finish, Placed
<1>3. /\ UNCHANGED <<member, late, todo>>
      /\ rows' = rows \cup {c}
      /\ told' = [told EXCEPT ![t] = IF c \in rows THEN "no tour" ELSE "tour"]
      /\ shows' = [shows EXCEPT ![c] = IF c \in rows THEN @ ELSE @ + 1]
  BY DEF TourClaims, Tell, Won
<1>4. c' = c
  BY <1>1 DEF Caller
<1>5. \A u : u = c => IF u \in rows THEN ToldSo(u, "no tour")' ELSE ToldSo(u, "tour")'
  BY <1>1, <1>3, <1>4 DEF ToldSo, Kind, TourInv, TourTypes
<1> HIDE DEF c
<1>6. \A u, outcome : outcome # "nothing" /\ ToldSo(u, outcome) => ToldSo(u, outcome)'
  BY <1>1, <1>2, <1>3, OutcomesKept DEF TourInv, TourTypes
<1>7. TourTypes'
  <2>1. shows' \in [User -> Nat]
    <3>1. shows \in [User -> Nat] /\ shows[c] \in Nat
      BY <1>2 DEF TourInv, TourTypes
    <3>2. shows' = shows \/ shows' = [shows EXCEPT ![c] = shows[c] + 1]
      BY <1>3, <3>1
    <3> QED
      BY <3>1, <3>2
  <2>2. told' \in [Thread -> {"nothing", "refused", "failed", "cannot tell", "tour", "no tour"}]
    BY <1>3 DEF TourInv, TourTypes
  <2> QED
    BY <2>1, <2>2, <1>2, <1>3 DEF TourInv, TourTypes
<1>8. TourRowsOK'
  <2>1. \A u \in User : shows'[u] = IF u = c /\ u \notin rows THEN shows[u] + 1 ELSE shows[u]
    BY <1>2, <1>3 DEF TourInv, TourTypes
  <2>2. \A u \in User : shows[u] \in Nat /\ shows[u] <= 1 /\ (shows[u] > 0 => u \in rows)
    BY DEF TourInv, TourTypes, TourRowsOK
  <2>3. \A u \in User : shows'[u] <= 1 /\ (shows'[u] > 0 => u \in rows')
    <3> SUFFICES ASSUME NEW u \in User  PROVE shows'[u] <= 1 /\ (shows'[u] > 0 => u \in rows')
      OBVIOUS
    <3>1. CASE u \in rows
      BY <3>1, <2>1, <2>2, <1>3
    <3>2. CASE u \notin rows
      <4>1. shows[u] = 0 /\ rows' = rows \cup {c}
        <5>1. shows[u] = 0
          BY <3>2, <2>2
        <5> QED
          BY <5>1, <1>3
      <4> QED
        BY <4>1, <3>2, <2>1
    <3> QED
      BY <3>1, <3>2
  <2> QED
    BY <2>3, <1>2, <1>3 DEF TourInv, TourRowsOK
<1>9. MembersNeverSeeTour'
  BY <1>2, <1>3 DEF TourInv, TourTypes, TourRowsOK, MembersNeverSeeTour
<1>10. LateRowsOK'
  BY <1>3, <1>5, <1>6 DEF TourInv, LateRowsOK
<1>11. NewcomersTold'
  <2>1. \A u : u # c /\ ToldSo(u, "no tour")' => ToldSo(u, "no tour")
    BY <1>1, <1>3 DEF ToldSo, Kind, Caller, TourInv, TourTypes, c
  <2>2. \A u \in late : u \in rows => ToldSo(u, "tour")' \/ ToldSo(u, "failed")'
    BY <1>6 DEF TourInv, LateRowsOK
  <2>3. \A u : u = c /\ u \notin rows => ToldSo(u, "tour")'
    BY <1>5
  <2> QED
    BY <2>1, <2>2, <2>3, <1>3, <1>6 DEF TourInv, NewcomersTold
<1>12. \A s \in Thread : Kind(s)' = "tour" => TourRequestOK(s)'
  <2> SUFFICES ASSUME NEW s \in Thread, Kind(s) = "tour"  PROVE TourRequestOK(s)'
    BY <1>1 DEF Kind
  <2>1. CASE s = t
    BY <2>1, <1>2, <1>3, <1>4 DEF TourRequestOK, At, TourPoints, c
  <2>2. CASE s # t
    BY <2>2, <1>1, <1>3, TourRequestKept DEF TourInv, TourTypes
  <2> QED
    BY <2>1, <2>2
<1> QED
  BY <1>1, <1>7, <1>8, <1>9, <1>10, <1>11, <1>12 DEF TourInv

(* Somebody joins, and no request lists the new member as one to be marked. *)
LEMMA JoinStep ==
  ASSUME TourInv, [Next]_serverVars, NEW u \in Newcomer, Join(u), \A s \in Thread : Stays(s)
  PROVE  TourInv'
<1>1. handler' = handler /\ Placed'
  BY HandlerStays, PlacedStep DEF TourInv
<1>2. /\ u \notin member /\ member' = member \cup {u}
      /\ late' \subseteq late \cup {u} /\ late \subseteq late'
      /\ u \in late' => Backfill \in rows
      /\ UNCHANGED <<rows, todo, shows, told>>
  BY DEF Join, TourInv, TourTypes
<1>3. TourTypes'
  BY <1>2 DEF TourInv, TourTypes, User
<1>4. u \notin rows
  BY <1>2, OnboardingAssumption DEF TourInv, TourRowsOK, User
<1>5. \A v, outcome : ToldSo(v, outcome)' <=> ToldSo(v, outcome)
  BY <1>1, <1>2 DEF ToldSo, Kind, Caller
<1>6. ~ToldSo(u, "no tour")
  BY <1>2 DEF ToldSo, TourInv, TourRequestOK
<1>7. TourRowsOK' /\ MembersNeverSeeTour'
  BY <1>2 DEF TourInv, TourRowsOK, MembersNeverSeeTour
<1>8. LateRowsOK' /\ NewcomersTold'
  BY <1>2, <1>4, <1>5, <1>6 DEF TourInv, LateRowsOK, NewcomersTold
<1>9. \A s \in Thread : Kind(s)' = "tour" => TourRequestOK(s)'
  BY <1>1, <1>2, TourRequestKept DEF Kind
<1> QED
  BY <1>1, <1>3, <1>7, <1>8, <1>9 DEF TourInv

-----------------------------------------------------------------------------
(* The other steps of a request, which open no tour. *)
LEMMA TourOtherStep ==
  ASSUME TourInv, [Next]_serverVars, NEW t \in Thread, Kind(t) = "tour", ~At(t, "done"),
         TourStep(t), ~TourClaims(t), \A s \in Thread \ {t} : Stays(s)
  PROVE  TourInv'
<1>1. handler' = handler /\ Caller(t)' = Caller(t)
  BY HandlerStays DEF Caller
<1>2. UNCHANGED <<member, late, shows>> /\ \A s \in Thread \ {t} : told'[s] = told[s] /\ todo'[s] = todo[s]
  BY DEF TourStep, TourBegin, TourRefused, TourConnected, TourNoConnection, TourListed,
         TourDirectoryDown, TourBackfilled, TourMarks, TourMarkedAll, TourFails, MarkMember, Tell,
         tourVars, TourInv, TourTypes
<1>3. told[t] = "nothing" /\ TourRequestOK(t) /\ t \in DOMAIN at
  BY DEF TourInv, TourRequestOK, Placed
<1>4. /\ todo[t] \subseteq User /\ Backfill \notin User
      /\ todo \in [Thread -> SUBSET User] /\ told[t] = "nothing"
  BY <1>3, OnboardingAssumption DEF TourInv, TourTypes
<1>5. /\ TourTypes' /\ TourRequestOK(t)' /\ rows \subseteq rows'
      /\ told'[t] \in {"nothing", "refused", "failed", "cannot tell"}
      /\ rows' \subseteq rows \cup (member \ late) \cup {Backfill} \cup
                           (IF told'[t] = "failed" THEN {Caller(t)} ELSE {})
      /\ rows' \subseteq member \cup {Backfill}
      /\ Backfill \in rows' => Founder \subseteq rows'
  <2> USE <1>1, <1>2, <1>3, <1>4 DEF GoTo, Finish, At, Tell, tourVars, TourPoints
  <2>1. CASE TourBegin(t) \/ TourConnected(t)
    BY <2>1 DEF TourBegin, TourConnected, TourTypes, TourInv, TourRequestOK, TourRowsOK
  <2>2. CASE TourRefused(t) \/ TourNoConnection(t) \/ TourDirectoryDown(t)
    BY <2>2 DEF TourRefused, TourNoConnection, TourDirectoryDown, TourTypes, TourInv,
                TourRequestOK, TourRowsOK
  <2>3. CASE TourListed(t)
    BY <2>3 DEF TourListed, TourTypes, TourInv, TourRequestOK, TourRowsOK
  <2>4. CASE TourBackfilled(t)
    BY <2>4 DEF TourBackfilled, Backfilled, TourTypes, TourInv, TourRequestOK, TourRowsOK
  <2>5. CASE TourMarks(t)
    <3>1. PICK u \in todo[t] : rows' = rows \cup {u} /\ todo' = [todo EXCEPT ![t] = @ \ {u}]
      BY <2>5 DEF TourMarks, MarkMember
    <3>2. TourRequestOK(t)' /\ TourTypes'
      BY <2>5, <3>1 DEF TourMarks, TourTypes, TourInv, TourRequestOK
    <3>3. u \in member \ late /\ u # Backfill /\ told' = told
      BY <2>5, <3>1 DEF TourMarks, TourRequestOK
    <3>4. rows \subseteq member \cup {Backfill} /\ (Backfill \in rows => Founder \subseteq rows)
      BY DEF TourInv, TourRowsOK
    <3> QED
      BY <3>1, <3>2, <3>3, <3>4
  <2>6. CASE TourMarkedAll(t)
    BY <2>6 DEF TourMarkedAll, MarkedAll, TourTypes, TourInv, TourRequestOK, TourRowsOK
  <2>7. CASE TourFails(t)
    <3>1. /\ told' = [told EXCEPT ![t] = "failed"] /\ at' = [at EXCEPT ![t] = "done"]
          /\ Caller(t) \in member
      BY <2>7 DEF TourFails, TourRequestOK
    <3>2. /\ todo' \in [Thread -> SUBSET User]
          /\ \/ rows' = rows
             \/ At(t, "tour backfill") /\ \E u \in todo[t] : rows' = rows \cup {u}
             \/ At(t, "tour backfill") /\ todo[t] = {} /\ rows' = rows \cup {Backfill}
             \/ At(t, "tour claim") /\ rows' = rows \cup {Caller(t)}
      BY <2>7 DEF TourFails, MarkMember, MarkedAll
    <3>3. TourRequestOK(t)'
      BY <3>1 DEF TourRequestOK, TourInv, TourTypes
    <3>4. told'[t] = "failed"
      BY <3>1 DEF TourInv, TourTypes
    <3>5. /\ rows \subseteq rows' /\ rows' \subseteq member \cup {Backfill}
          /\ rows' \subseteq rows \cup (member \ late) \cup {Backfill} \cup {Caller(t)}
          /\ Backfill \in rows' => Founder \subseteq rows'
      BY <3>1, <3>2 DEF TourInv, TourTypes, TourRowsOK, TourRequestOK
    <3>6. TourTypes'
      BY <3>1, <3>2, <3>5 DEF TourInv, TourTypes
    <3> QED
      BY <3>3, <3>4, <3>5, <3>6
  <2> QED
    BY <2>1, <2>2, <2>3, <2>4, <2>5, <2>6, <2>7 DEF TourStep
<1> QED
  BY <1>2, <1>5, TourSilentStep

(* Every step of the server keeps the invariant of the tour. *)
LEMMA TourInvStep == TourInv /\ [Next]_serverVars => TourInv'
<1> SUFFICES ASSUME TourInv, [Next]_serverVars  PROVE TourInv'
  OBVIOUS
<1>1. CASE UNCHANGED tourVars /\ \A s \in Thread : Kind(s) = "tour" => Stays(s)
  <2>1. handler' = handler /\ Placed'
    BY HandlerStays, PlacedStep DEF TourInv
  <2>2. \A s \in Thread : Kind(s)' = "tour" => TourRequestOK(s)'
    BY <1>1, <2>1, TourRequestKept DEF Kind, tourVars
  <2>3. \A u, outcome : ToldSo(u, outcome)' <=> ToldSo(u, outcome)
    BY <1>1, <2>1 DEF ToldSo, Kind, Caller, tourVars
  <2> QED
    BY <1>1, <2>1, <2>2, <2>3
       DEF TourInv, TourTypes, TourRowsOK, MembersNeverSeeTour, LateRowsOK, NewcomersTold, tourVars
<1> QED
  BY <1>1, TourFrame, TourClaimStep, TourOtherStep, JoinStep DEF TourInv

-----------------------------------------------------------------------------
(* What is known of the rows, the lists and the outcomes in every reachable *)
(* state of a server.                                                       *)
THEOREM TourInvariance == Spec => []TourInv
  BY TourInitially, TourInvStep, PTL DEF Spec

(* Nobody sees the tour twice, whichever of several first requests fail.    *)
THEOREM TourOnce == Spec => []TourAtMostOnce
<1>1. TourInv => TourAtMostOnce
  BY DEF TourInv, TourRowsOK, TourAtMostOnce
<1> QED
  BY <1>1, TourInvariance, PTL

(* No member from before the table does, however far a backfill came before *)
(* it failed.                                                               *)
THEOREM FoundersSpared == Spec => []MembersNeverSeeTour
<1>1. TourInv => MembersNeverSeeTour
  BY DEF TourInv
<1> QED
  BY <1>1, TourInvariance, PTL

(* Who joined after the backfill is not denied the tour by one that runs    *)
(* again: a request that ends in no tour comes after one that opened it or  *)
(* failed.                                                                  *)
THEOREM NewcomersWelcome == Spec => []NewcomersSeeTour
<1>1. TourInv => NewcomersSeeTour
  BY DEF TourInv, NewcomersTold, NewcomersSeeTour, ToldSo
<1> QED
  BY <1>1, TourInvariance, PTL
=============================================================================

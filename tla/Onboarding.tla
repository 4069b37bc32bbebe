----------------------------- MODULE Onboarding -----------------------------
(***************************************************************************)
(* The welcome tour (api/onboarding.py, model/onboarding.py): each user    *)
(* gets a row of user_onboarding the first time, and who was a member when *)
(* the table was first used gets the row without the tour.                 *)
(***************************************************************************)
EXTENDS ConnectionPool

CONSTANTS
    Founder,  \* the members when the table is created
    Newcomer, \* who may join later
    Backfill  \* BACKFILL_KEY, the row that says everybody was marked

User == Founder \cup Newcomer
ASSUME OnboardingAssumption == Founder \cap Newcomer = {} /\ Backfill \notin User

VARIABLES
    member, \* the members of the organization
    rows,   \* the keys of user_onboarding
    todo,   \* todo[t]: the members that request t has still to mark
    shows,  \* shows[u]: how often the tour was opened for u
    told,   \* told[t]: what became of request t
    late    \* who joined after the backfill

tourVars == <<member, rows, todo, shows, told, late>>

TourInit ==
    /\ member = Founder
    /\ rows = {}
    /\ todo = [t \in Thread |-> {}]
    /\ shows = [u \in User |-> 0]
    /\ told = [t \in Thread |-> "nothing"]
    /\ late = {}

Caller(t) == handler[t].user
Tell(t, outcome) == told' = [told EXCEPT ![t] = outcome]

-----------------------------------------------------------------------------
(* POST /api/onboarding/start, by somebody who has signed in ... *)
TourBegin(t) ==
    /\ Kind(t) = "tour" /\ At(t, "begin")
    /\ Caller(t) \in member
    /\ GoTo(t, "tour connect") /\ Want(t)
    /\ UNCHANGED tourVars

(* ... or could not. *)
TourRefused(t) ==
    /\ Kind(t) = "tour" /\ At(t, "begin")
    /\ Caller(t) \notin member
    /\ Tell(t, "refused") /\ Finish(t)
    /\ UNCHANGED <<poolVars, member, rows, todo, shows, late>>

TourConnected(t) ==
    /\ At(t, "tour connect") /\ Got(t)
    /\ GoTo(t, "tour directory")
    /\ UNCHANGED tourVars

TourNoConnection(t) ==
    /\ At(t, "tour connect") /\ GaveUp(t)
    /\ Tell(t, "failed") /\ Finish(t)
    /\ UNCHANGED <<member, rows, todo, shows, late>>

(* The members are read while the connection is held. *)
TourListed(t) ==
    /\ At(t, "tour directory")
    /\ todo' = [todo EXCEPT ![t] = member]
    /\ GoTo(t, "tour backfilled?")
    /\ UNCHANGED <<poolVars, member, rows, shows, told, late>>

TourDirectoryDown(t) ==
    /\ At(t, "tour directory") /\ Put(t)
    /\ Tell(t, "cannot tell") /\ Finish(t)
    /\ UNCHANGED <<member, rows, todo, shows, late>>

(* ensure_backfilled: nothing if its row exists, otherwise each member ...  *)
NeverBackfilled == FALSE
Backfilled == Backfill \in rows

TourBackfilled(t) ==
    /\ At(t, "tour backfilled?")
    /\ GoTo(t, IF Backfilled THEN "tour claim" ELSE "tour backfill")
    /\ UNCHANGED <<poolVars, tourVars>>

MarkMember(t) ==
    \E u \in todo[t] : rows' = rows \cup {u} /\ todo' = [todo EXCEPT ![t] = @ \ {u}]

TourMarks(t) ==
    /\ At(t, "tour backfill") /\ MarkMember(t)
    /\ UNCHANGED <<at, poolVars, member, shows, told, late>>

(* ... and last its row. *)
MarkedFirst(t) == TRUE
MarkedAll(t) == todo[t] = {}
TourMarkedAll(t) ==
    /\ At(t, "tour backfill") /\ MarkedAll(t)
    /\ rows' = rows \cup {Backfill}
    /\ GoTo(t, "tour claim")
    /\ UNCHANGED <<poolVars, member, todo, shows, told, late>>

(* should_show: whoever inserts the user's row opens the tour. *)
WonAnyway(t) == TRUE
Won(t) == Caller(t) \notin rows
TourClaims(t) ==
    /\ At(t, "tour claim") /\ Put(t)
    /\ rows' = rows \cup {Caller(t)}
    /\ shows' = [shows EXCEPT ![Caller(t)] = IF Won(t) THEN @ + 1 ELSE @]
    /\ Tell(t, IF Won(t) THEN "tour" ELSE "no tour") /\ Finish(t)
    /\ UNCHANGED <<member, todo, late>>

(* A statement raises, or its commit is lost on the way back. *)
TourFails(t) ==
    /\ at[t] \in {"tour directory", "tour backfilled?", "tour backfill", "tour claim"} /\ Put(t)
    /\ \/ UNCHANGED <<rows, todo>>
       \/ At(t, "tour backfill") /\ MarkMember(t)
       \/ At(t, "tour backfill") /\ MarkedAll(t) /\ rows' = rows \cup {Backfill} /\ UNCHANGED todo
       \/ At(t, "tour claim") /\ rows' = rows \cup {Caller(t)} /\ UNCHANGED todo
    /\ Tell(t, "failed") /\ Finish(t)
    /\ UNCHANGED <<member, shows, late>>

(* Somebody accepts an invitation. *)
Join(u) ==
    /\ u \in Newcomer \ member
    /\ member' = member \cup {u}
    /\ late' = IF Backfill \in rows THEN late \cup {u} ELSE late
    /\ UNCHANGED <<rows, todo, shows, told>>

-----------------------------------------------------------------------------
TourStep(t) ==
    \/ TourBegin(t) \/ TourRefused(t) \/ TourConnected(t) \/ TourNoConnection(t)
    \/ TourListed(t) \/ TourDirectoryDown(t)
    \/ TourBackfilled(t) \/ TourMarks(t) \/ TourMarkedAll(t) \/ TourClaims(t) \/ TourFails(t)

TourTypeOK ==
    /\ {member, late} \subseteq SUBSET User
    /\ rows \subseteq User \cup {Backfill}
    /\ todo \in [Thread -> SUBSET User]
    /\ shows \in [User -> 0..Cardinality(Thread)]
    /\ told \in [Thread -> {"nothing", "refused", "failed", "cannot tell", "tour", "no tour"}]

(* "Returns {show: true} exactly once for a new user" (api/onboarding.py:13):*)
(* of several first requests at once, some of them failing, at most one     *)
(* opens the tour.                                                          *)
TourAtMostOnce == \A u \in User : shows[u] <= 1

(* "so only people who join afterwards get it" (model/onboarding.py:27):    *)
(* however far the backfills of the first requests came before they failed, *)
(* nobody who was a member from the start gets the tour.                    *)
MembersNeverSeeTour == \A u \in Founder : shows[u] = 0

(* A user who joins after the backfill is not taken for an existing member  *)
(* by a request that lists the members later: unless a request of the user  *)
(* failed, one that ends in no tour means another one opened it.            *)
NewcomersSeeTour ==
    \A u \in late :
        LET Told(outcome) == \E t \in Thread : Kind(t) = "tour" /\ Caller(t) = u /\ told[t] = outcome
        IN  Told("no tour") => Told("tour") \/ Told("failed")
=============================================================================

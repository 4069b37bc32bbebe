------------------------------ MODULE Members ------------------------------
(***************************************************************************)
(* The metadata of one member of the organization, kept by WorkOS and read *)
(* and written as a whole (auth/organization.py), and the copy of the      *)
(* member's coverage that the server keeps for a minute.                   *)
(*                                                                         *)
(* A version of a field is named after the request that wrote it, Startup  *)
(* for what was there before.                                              *)
(***************************************************************************)
EXTENDS ConnectionPool

CONSTANT CoverageTtl \* _COVERAGE_CACHE_TTL_SECONDS

ASSUME MembersAssumption == CoverageTtl \in Nat \ {0}

Version == Thread \cup {Startup}

VARIABLES
    meta,  \* the metadata: its coverage and lead_sectors
    seen,  \* seen[t]: the metadata as request t read it, and when it asked
    entry, \* the entry of _coverage_cache for the member
    ended  \* ended[v]: when coverage v was last replaced

memberVars == <<meta, seen, entry, ended>>

NoEntry == [kind |-> "none"]
Entry(version, stamp) == [kind |-> "entry", coverage |-> version, stamp |-> stamp]
NotEnded == -1

MemberInit ==
    /\ meta = [coverage |-> Startup, leads |-> Startup]
    /\ seen = [t \in Thread |-> [meta |-> meta, asked |-> 0]]
    /\ entry = NoEntry
    /\ ended = [v \in Version |-> NotEnded]

-----------------------------------------------------------------------------
EntryValid == entry # NoEntry /\ now - entry.stamp < CoverageTtl

(* GET /api/coverage/me: user_coverage, from memory or from WorkOS, ...     *)
MeCached(t) ==
    /\ Kind(t) = "me" /\ At(t, "begin")
    /\ EntryValid
    /\ GoTo(t, "me connect") /\ Want(t)
    /\ UNCHANGED memberVars

MeAsks(t) ==
    /\ Kind(t) = "me" /\ At(t, "begin")
    /\ ~EntryValid
    /\ seen' = [seen EXCEPT ![t].asked = now]
    /\ GoTo(t, "me get")
    /\ UNCHANGED <<poolVars, meta, entry, ended>>

MeGot(t) ==
    /\ At(t, "me get")
    /\ seen' = [seen EXCEPT ![t].meta = meta]
    /\ GoTo(t, "me store")
    /\ UNCHANGED <<poolVars, meta, entry, ended>>

StampWhenStored(t) == now
Stamp(t) == seen[t].asked
MeStores(t) ==
    /\ At(t, "me store")
    /\ entry' = Entry(seen[t].meta.coverage, Stamp(t))
    /\ GoTo(t, "me connect") /\ Want(t)
    /\ UNCHANGED <<meta, seen, ended>>

(* ... then the facts of the covered tickers. *)
MeConnected(t) ==
    /\ At(t, "me connect") /\ Got(t)
    /\ GoTo(t, "me read")
    /\ UNCHANGED memberVars

MeAnswered(t) ==
    /\ At(t, "me read") /\ Put(t)
    /\ Finish(t)
    /\ UNCHANGED memberVars

MeNoConnection(t) ==
    /\ At(t, "me connect") /\ GaveUp(t)
    /\ Finish(t)
    /\ UNCHANGED memberVars

-----------------------------------------------------------------------------
(* PUT .../coverage and PUT .../lead-sectors: an admin's edit reads the     *)
(* metadata, ...                                                            *)
EditGot(t) ==
    /\ Kind(t) \in {"cover", "lead"} /\ At(t, "begin")
    /\ seen' = [seen EXCEPT ![t].meta = meta]
    /\ GoTo(t, "edit put")
    /\ UNCHANGED <<poolVars, meta, entry, ended>>

(* ... and writes it back with one field replaced.                          *)
Edited(t) ==
    IF Kind(t) = "cover" THEN [seen[t].meta EXCEPT !.coverage = t]
    ELSE [seen[t].meta EXCEPT !.leads = t]

WorkOSPuts(t) ==
    /\ meta' = Edited(t)
    /\ ended' = IF meta'.coverage = meta.coverage THEN ended
                ELSE [ended EXCEPT ![meta.coverage] = now, ![meta'.coverage] = NotEnded]

EditPut(t) ==
    /\ At(t, "edit put") /\ WorkOSPuts(t)
    /\ IF Kind(t) = "cover" THEN GoTo(t, "edit pop") ELSE Finish(t)
    /\ UNCHANGED <<poolVars, seen, entry>>

(* The answer of WorkOS is lost: the edit is reported as failed. *)
EditPutLost(t) ==
    /\ At(t, "edit put") /\ WorkOSPuts(t)
    /\ Finish(t)
    /\ UNCHANGED <<poolVars, seen, entry>>

EditPop(t) ==
    /\ At(t, "edit pop")
    /\ entry' = NoEntry
    /\ Finish(t)
    /\ UNCHANGED <<poolVars, meta, seen, ended>>

(* WorkOS answers with an error or not at all. *)
WorkOSFails(t) ==
    /\ \/ at[t] \in {"me get", "edit put"}
       \/ Kind(t) \in {"cover", "lead"} /\ At(t, "begin")
    /\ Finish(t)
    /\ UNCHANGED <<poolVars, memberVars>>

-----------------------------------------------------------------------------
MemberStep(t) ==
    \/ MeCached(t) \/ MeAsks(t) \/ MeGot(t) \/ MeStores(t)
    \/ MeConnected(t) \/ MeAnswered(t) \/ MeNoConnection(t)
    \/ EditGot(t) \/ EditPut(t) \/ EditPutLost(t) \/ EditPop(t) \/ WorkOSFails(t)

MemberTypeOK ==
    LET Metadata == [coverage : Version, leads : Version]
    IN  /\ meta \in Metadata
        /\ seen \in [Thread -> [meta : Metadata, asked : 0..now]]
        /\ entry \in {NoEntry} \cup [kind : {"entry"}, coverage : Version, stamp : 0..now]
        /\ ended \in [Version -> (0..now) \cup {NotEnded}]

(* An edit empties the cache, but a request that read WorkOS before it may  *)
(* fill it afterwards with what was replaced, and a lost answer of WorkOS   *)
(* leaves it as it is.  Even so the minute counts from before the read      *)
(* (organization.py:130): a coverage that was replaced longer ago than that *)
(* is not given out.                                                        *)
CoverageWithinTtl ==
    EntryValid =>
        \/ entry.coverage = meta.coverage
        \/ now - ended[entry.coverage] < CoverageTtl
=============================================================================

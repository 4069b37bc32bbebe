--------------------------- MODULE ConnectionPool ---------------------------
(***************************************************************************)
(* The process-wide pool of database connections (model/db.py): it is      *)
(* created by the first request that needs it, under a lock that is itself *)
(* created on first use, and hands out a bounded number of connections.    *)
(***************************************************************************)
EXTENDS Requests

CONSTANTS
    MaxConns, \* max_size of a pool
    Nobody,   \* the lock or the pool does not exist yet
    Startup   \* the lock and the pool were made by an earlier request

ASSUME PoolAssumption ==
    MaxConns \in Nat \ {0} /\ {Nobody, Startup} \cap Thread = {} /\ Nobody # Startup

(* A lock or a pool is named after the thread that made it. *)
Maker == Thread \cup {Startup}

VARIABLES
    lock, \* the global _pool_lock
    pool, \* the global _pool
    idle, \* idle[p]: the connections that wait in pool p
    acq,  \* acq[t]: where thread t is in _get_pool and getconn
    held  \* held[t]: the pools of the connections that t holds, the latest last

poolVars == <<lock, pool, idle, acq, held>>

NotAsking == [step |-> "none"]
Wanting == [step |-> "wanting"]
Unlocked == [step |-> "unlocked"]
Locking == [step |-> "locking"]
Entering(l) == [step |-> "entering", lock |-> l]
Making(l) == [step |-> "making", lock |-> l]
Leaving(l) == [step |-> "leaving", lock |-> l]
Waiting(p) == [step |-> "waiting", pool |-> p]

PoolInit(maker) ==
    /\ lock = maker /\ pool = maker
    /\ idle = [p \in Maker |-> IF p = pool THEN MaxConns ELSE 0]
    /\ acq = [t \in Thread |-> NotAsking]
    /\ held = [t \in Thread |-> <<>>]

Acq(t, a) == acq' = [acq EXCEPT ![t] = a]

(* get_connection(): the thread goes on to its next point once it has the   *)
(* connection, see Got, or has been refused one, see GaveUp.  With a lock   *)
(* and a pool from an earlier request, _get_pool reads the one under the    *)
(* other and changes neither.                                               *)
Asking == IF lock = Startup THEN Waiting(pool) ELSE Wanting
Want(t) == Acq(t, Asking) /\ UNCHANGED <<lock, pool, idle, held>>

(* _pool_lock is None: the test and the assignment are two steps. *)
FindNoLock(t) ==
    /\ acq[t] = Wanting /\ lock = Nobody
    /\ Acq(t, Unlocked)
    /\ UNCHANGED <<lock, pool, idle, held>>

MakeLock(t) ==
    /\ acq[t] = Unlocked
    /\ lock' = t
    /\ Acq(t, Locking)
    /\ UNCHANGED <<pool, idle, held>>

(* with _pool_lock: the lock that the global names now ... *)
PickLock(t) ==
    /\ \/ acq[t] = Wanting /\ lock # Nobody
       \/ acq[t] = Locking
    /\ Acq(t, Entering(lock))
    /\ UNCHANGED <<lock, pool, idle, held>>

(* ... is entered once nobody is inside. *)
EnterLock(t) ==
    /\ acq[t].step = "entering"
    /\ \A u \in Thread : acq[u] \notin {Making(acq[t].lock), Leaving(acq[t].lock)}
    /\ Acq(t, IF pool = Nobody THEN Making(acq[t].lock) ELSE Waiting(pool))
    /\ UNCHANGED <<lock, pool, idle, held>>

MakePool(t) ==
    /\ acq[t].step = "making"
    /\ pool' = t
    /\ idle' = [idle EXCEPT ![t] = MaxConns]
    /\ Acq(t, Leaving(acq[t].lock))
    /\ UNCHANGED <<lock, held>>

(* return _pool: whichever pool the global names by now. *)
LeaveLock(t) ==
    /\ acq[t].step = "leaving"
    /\ Acq(t, Waiting(pool))
    /\ UNCHANGED <<lock, pool, idle, held>>

PoolStep(t) ==
    \/ FindNoLock(t) \/ MakeLock(t) \/ PickLock(t)
    \/ EnterLock(t) \/ MakePool(t) \/ LeaveLock(t)

(* getconn() returns a connection ... *)
GotBeyondMax(t) ==
    /\ acq[t].step = "waiting"
    /\ idle' = [idle EXCEPT ![acq[t].pool] = @ - 1]
    /\ held' = [held EXCEPT ![t] = Append(@, acq[t].pool)]
    /\ Acq(t, NotAsking)
    /\ UNCHANGED <<lock, pool>>
Got(t) ==
    /\ acq[t].step = "waiting"
    /\ LET p == acq[t].pool
       IN  /\ idle[p] > 0
           /\ idle' = [idle EXCEPT ![p] = @ - 1]
           /\ held' = [held EXCEPT ![t] = Append(@, p)]
    /\ Acq(t, NotAsking)
    /\ UNCHANGED <<lock, pool>>

(* ... or raises PoolTimeout after fifteen seconds in which all connections *)
(* were held or none could be made.                                         *)
NeverGivesUp(t) == FALSE /\ UNCHANGED poolVars
GaveUp(t) ==
    /\ acq[t].step = "waiting"
    /\ Acq(t, NotAsking)
    /\ UNCHANGED <<lock, pool, idle, held>>

Latest(t) == held[t][Len(held[t])]

(* close(): the proxy gives the connection back to the pool it came from.   *)
PutIntoGlobal(t) ==
    /\ idle' = [idle EXCEPT ![pool] = @ + 1]
    /\ held' = [held EXCEPT ![t] = SubSeq(@, 1, Len(@) - 1)]
    /\ UNCHANGED <<lock, pool, acq>>
Put(t) ==
    /\ idle' = [idle EXCEPT ![Latest(t)] = @ + 1]
    /\ held' = [held EXCEPT ![t] = SubSeq(@, 1, Len(@) - 1)]
    /\ UNCHANGED <<lock, pool, acq>>

(* close() followed by another get_connection(). *)
PutAndWant(t) ==
    /\ idle' = [idle EXCEPT ![Latest(t)] = @ + 1]
    /\ held' = [held EXCEPT ![t] = SubSeq(@, 1, Len(@) - 1)]
    /\ Acq(t, Asking)
    /\ UNCHANGED <<lock, pool>>

-----------------------------------------------------------------------------
PoolTypeOK ==
    /\ {lock, pool} \subseteq Maker \cup {Nobody}
    /\ idle \in [Maker -> 0..MaxConns]
    /\ acq \in [Thread -> {NotAsking, Wanting, Unlocked, Locking}
                   \cup [step : {"entering", "making", "leaving"}, lock : Maker] \cup [step : {"waiting"}, pool : Maker]]
    /\ held \in [Thread -> Seq(Maker)]

HeldOf(p) == {c \in UNION {{t} \X DOMAIN held[t] : t \in Thread} : held[c[1]][c[2]] = p}

(* The first requests of a process can make two pools, as the lock of       *)
(* _get_pool does not guard its own creation (db.py:119).  Even so no       *)
(* connection is lost or goes to the wrong pool: each pool that was made    *)
(* has all its connections, idle or held, and a finished request holds none.*)
ConnectionsConserved ==
    /\ \A p \in Maker :
          LET n == idle[p] + Cardinality(HeldOf(p)) IN n = MaxConns \/ (n = 0 /\ p # pool)
    /\ \A t \in Thread : At(t, "done") => held[t] = <<>>
=============================================================================

------------------------------- MODULE Server -------------------------------
(***************************************************************************)
(* One server process (api/main.py): requests of several components at     *)
(* once, on one pool of connections, with the workers of agent runs, the   *)
(* browsers that poll for them, the nightly job, the admins and the new    *)
(* members around it.                                                      *)
(***************************************************************************)
EXTENDS AgentRuns, ApiCache, Members, Onboarding, Trades

CONSTANTS
    Workloads,  \* what the threads may be asked to do, each a handler
    ColdStarts, \* the same, of a process that has just started
    LastTime    \* LastTime[k]: bound on the clock in a workload with requests of kind k

ASSUME ServerAssumption == \A k \in DOMAIN LastTime : LastTime[k] \in Nat
ASSUME BatchAssumption ==
    \A w \in Workloads \cup ColdStarts : \A t \in Thread :
        w[t].kind \in {"preview", "apply"} => w[t].batch \in Seq(Changes)

serverVars == <<handler, at, now, poolVars, agentVars, cacheVars, memberVars, tourVars, tradeVars>>

Init ==
    /\ \/ handler \in Workloads /\ PoolInit(Startup)
       \/ handler \in ColdStarts /\ PoolInit(Nobody)
    /\ at = [t \in Thread |-> IF Kind(t) = "idle" THEN "done" ELSE "begin"]
    /\ now = 0
    /\ AgentInit /\ CacheInit /\ MemberInit /\ TourInit /\ TradeInit

-----------------------------------------------------------------------------
Pool(t) ==
    /\ PoolStep(t)
    /\ UNCHANGED <<handler, at, now, agentVars, cacheVars, memberVars, tourVars, tradeVars>>

Agents(t) ==
    /\ Kind(t) \in {"chat", "run"}
    /\ ChatStep(t) \/ RunStep(t)
    /\ UNCHANGED <<handler, now, cacheVars, memberVars, tourVars, tradeVars>>

AgentsOutside(t) ==
    /\ Kind(t) = "run"
    /\ WorkerEnds(t) \/ PollStep(t)
    /\ UNCHANGED <<handler, now, cacheVars, memberVars, tourVars, tradeVars>>

Lookups(t) ==
    /\ Kind(t) \in {"holders", "watch"}
    /\ LookupStep(t)
    /\ UNCHANGED <<handler, now, agentVars, memberVars, tourVars, tradeVars>>

Organization(t) ==
    /\ Kind(t) \in {"me", "cover", "lead"}
    /\ MemberStep(t)
    /\ UNCHANGED <<handler, now, agentVars, cacheVars, tourVars, tradeVars>>

Tours(t) ==
    /\ Kind(t) = "tour"
    /\ TourStep(t)
    /\ UNCHANGED <<handler, now, agentVars, cacheVars, memberVars, tradeVars>>

Admins(t) ==
    /\ Kind(t) \in {"preview", "apply"}
    /\ TradeStep(t)
    /\ UNCHANGED <<handler, now, agentVars, cacheVars, memberVars, tourVars>>

ThreadStep(t) ==
    /\ ~At(t, "done")
    /\ Pool(t) \/ Agents(t) \/ Lookups(t) \/ Organization(t) \/ Tours(t) \/ Admins(t)

-----------------------------------------------------------------------------
(* The surroundings of a component matter to requests of that component:    *)
(* they stand still in a workload without one.                              *)
Asked(kinds) == \E t \in Thread : Kind(t) \in kinds

Night ==
    /\ Asked({"holders"}) /\ NightStep
    /\ UNCHANGED <<handler, at, now, poolVars, agentVars, memberVars, tourVars, tradeVars>>

Ownership ==
    /\ Asked({"holders"}) /\ Trade
    /\ UNCHANGED <<handler, at, now, poolVars, agentVars, memberVars, tourVars, tradeVars>>

NewMember ==
    /\ \E u \in Newcomer : Asked({"tour"}) /\ Join(u)
    /\ UNCHANGED <<handler, at, now, poolVars, agentVars, cacheVars, memberVars, tradeVars>>

(* The clock of the jobs and caches is slow compared with a request.        *)
Tick ==
    /\ \E t \in Thread : Kind(t) \in DOMAIN LastTime /\ now < LastTime[Kind(t)]
    /\ LookupsOnTime
    /\ now' = now + 1
    /\ UNCHANGED <<handler, at, poolVars, agentVars, cacheVars, memberVars, tourVars, tradeVars>>

Next ==
    \/ \E t \in Thread : ThreadStep(t) \/ AgentsOutside(t)
    \/ Night \/ Ownership \/ NewMember \/ Tick

(* Threads are scheduled, and every call they wait for has a timeout.       *)
Fairness == \A t \in Thread : WF_serverVars(ThreadStep(t))

Spec == Init /\ [][Next]_serverVars /\ Fairness

-----------------------------------------------------------------------------
TypeOK ==
    /\ handler \in Workloads \cup ColdStarts
    /\ DOMAIN at = Thread
    /\ now \in Nat
    /\ PoolTypeOK /\ AgentTypeOK /\ CacheTypeOK /\ MemberTypeOK /\ TourTypeOK /\ TradeTypeOK

(* Every request is answered, whatever the others hold or fail at: two      *)
(* watchlists that hold a connection each and wait for another one are      *)
(* freed by the timeout of the pool (db.py:132), no lock is kept, and no    *)
(* slot is waited for.                                                      *)
EveryRequestAnswered == \A t \in Thread : At(t, "begin") ~> At(t, "done")
=============================================================================

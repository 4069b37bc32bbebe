------------------------------ MODULE AgentRuns ------------------------------
(***************************************************************************)
(* Chat turns and the runs of the market agent (api/main.py).  At most     *)
(* MaxChats turns are under way; a run is a job in a table of the process, *)
(* a worker thread and a browser that polls for the answer.                *)
(***************************************************************************)
EXTENDS ConnectionPool

CONSTANTS
    MaxChats,   \* chat turns at a time
    MaxRuns,    \* _MAX_CONCURRENT_AGENT_RUNS
    JobTtl,     \* _AGENT_JOB_TTL: the age at which finished jobs are evicted
    StaleAfter  \* the age at which jobs that still run are evicted

ASSUME RunsAssumption == {MaxChats, MaxRuns, JobTtl, StaleAfter} \subseteq Nat \ {0}

VARIABLES
    chats,  \* _ACTIVE_CHATS
    job,    \* job[t]: the entry of _AGENT_JOBS for the run that thread t started
    worker, \* worker[t]: the worker thread of that run, and whether it ended in time
    client  \* client[t]: the browser that waits for its answer

agentVars == <<chats, job, worker, client>>

NoJob == [status |-> "none"]
Job(status, time) == [status |-> status, created |-> time]
Runs(t) == job[t].status = "running"
Finished(t) == job[t].status \in {"done", "error"}
Age(t) == now - job[t].created

AgentInit ==
    /\ chats = 0
    /\ job = [t \in Thread |-> NoJob]
    /\ worker = [t \in Thread |-> "none"]
    /\ client = [t \in Thread |-> "none"]

-----------------------------------------------------------------------------
(* POST /api/chat *)
ChatEnter(t) ==
    /\ Kind(t) = "chat" /\ At(t, "begin")
    /\ chats < MaxChats
    /\ chats' = chats + 1
    /\ \/ GoTo(t, "chat connect") /\ Want(t)
       \/ GoTo(t, "chat leave") /\ UNCHANGED poolVars \* no key for the model
    /\ UNCHANGED <<job, worker, client>>

ChatBusy(t) ==
    /\ Kind(t) = "chat" /\ At(t, "begin")
    /\ chats >= MaxChats
    /\ Finish(t)
    /\ UNCHANGED <<poolVars, agentVars>>

ChatConnected(t) ==
    /\ At(t, "chat connect") /\ Got(t)
    /\ GoTo(t, "chat prompt")
    /\ UNCHANGED agentVars

(* The prompt is built from the portfolio, or building it raises. *)
ChatPrompt(t) ==
    /\ At(t, "chat prompt") /\ Put(t)
    /\ \E next \in {"chat answer", "chat leave"} : GoTo(t, next)
    /\ UNCHANGED agentVars

ChatAnswered(t) ==
    /\ At(t, "chat answer") /\ GoTo(t, "chat leave")
    /\ UNCHANGED <<poolVars, agentVars>>

ChatNoConnectionLeak(t) ==
    /\ At(t, "chat connect") /\ GaveUp(t)
    /\ Finish(t)
    /\ UNCHANGED agentVars
ChatNoConnection(t) ==
    /\ At(t, "chat connect") /\ GaveUp(t)
    /\ GoTo(t, "chat leave")
    /\ UNCHANGED agentVars

(* The finally clause. *)
ChatLeave(t) ==
    /\ At(t, "chat leave")
    /\ chats' = chats - 1
    /\ Finish(t)
    /\ UNCHANGED <<poolVars, job, worker, client>>

-----------------------------------------------------------------------------
(* POST /api/agent/run.  Jobs are evicted before the running ones are       *)
(* counted.                                                                 *)
EvictedOverdue(t) ==
    \/ Finished(t) /\ Age(t) > JobTtl
    \/ Runs(t) /\ Age(t) >= StaleAfter
EvictedAlike(t) == (Runs(t) \/ Finished(t)) /\ Age(t) > StaleAfter
EvictedWhenDone(t) == Finished(t) /\ Age(t) > JobTtl
Evicted(t) ==
    \/ Finished(t) /\ Age(t) > JobTtl
    \/ Runs(t) /\ Age(t) > StaleAfter

Gone(t) == [job[t] EXCEPT !.status = "gone"]
AfterEviction == [t \in Thread |-> IF Evicted(t) THEN Gone(t) ELSE job[t]]
Running == {t \in Thread : Runs(t) /\ ~Evicted(t)}

RunEnter(t) ==
    /\ Kind(t) = "run" /\ At(t, "begin")
    /\ Cardinality(Running) < MaxRuns
    /\ job' = [AfterEviction EXCEPT ![t] = Job("running", now)]
    /\ GoTo(t, "run connect") /\ Want(t)
    /\ UNCHANGED <<chats, worker, client>>

RunBusy(t) ==
    /\ Kind(t) = "run" /\ At(t, "begin")
    /\ Cardinality(Running) >= MaxRuns
    /\ job' = AfterEviction
    /\ Finish(t)
    /\ UNCHANGED <<poolVars, chats, worker, client>>

RunConnected(t) ==
    /\ At(t, "run connect") /\ Got(t)
    /\ GoTo(t, "run build")
    /\ UNCHANGED agentVars

(* An exception here answers the request and leaves the job running. *)
RunNoConnection(t) ==
    /\ At(t, "run connect") /\ GaveUp(t)
    /\ Finish(t)
    /\ UNCHANGED agentVars

RunBuildFails(t) ==
    /\ At(t, "run build") /\ Put(t)
    /\ Finish(t)
    /\ UNCHANGED agentVars

RunBuilt(t) ==
    /\ At(t, "run build") /\ Put(t)
    /\ GoTo(t, "run start")
    /\ UNCHANGED agentVars

(* The worker is started and the browser told the id of the job. *)
RunStart(t) ==
    /\ At(t, "run start")
    /\ worker' = [worker EXCEPT ![t] = "working"]
    /\ client' = [client EXCEPT ![t] = "polling"]
    /\ Finish(t)
    /\ UNCHANGED <<poolVars, chats, job>>

(* The end of _worker.  Nothing bounds a run: its deadline starts after the *)
(* session was created, by calls with timeouts and retries of their own, and*)
(* is looked at when an event comes.  The job may have been evicted.        *)
WorkerEnds(t) ==
    /\ worker[t] = "working"
    /\ worker' = [worker EXCEPT ![t] = IF Age(t) <= StaleAfter THEN "ended" ELSE "late"]
    /\ \E status \in {"done", "error"} :
          job' = IF job[t].status = "gone" THEN job ELSE [job EXCEPT ![t].status = status]
    /\ UNCHANGED <<at, poolVars, chats, client>>

(* GET /api/agent/run/{job_id}: the first answer that is not "running"      *)
(* removes the job; the browser stops at any other outcome, and may stop    *)
(* asking or lose the answer on its way.                                    *)
Poll(t) ==
    /\ client[t] = "polling" /\ Finished(t)
    /\ job' = [job EXCEPT ![t] = Gone(t)]
    /\ client' = [client EXCEPT ![t] = "answered"]
    /\ UNCHANGED <<at, poolVars, chats, worker>>

PollLost(t) ==
    /\ client[t] = "polling" /\ Finished(t)
    /\ job' = [job EXCEPT ![t] = Gone(t)]
    /\ client' = [client EXCEPT ![t] = "stopped"]
    /\ UNCHANGED <<at, poolVars, chats, worker>>

PollStops(t) ==
    /\ client[t] = "polling"
    /\ client' = [client EXCEPT ![t] = "stopped"]
    /\ UNCHANGED <<at, poolVars, chats, job, worker>>

-----------------------------------------------------------------------------
Starting(t) == at[t] \in {"run connect", "run build", "run start"}

ChatStep(t) ==
    \/ ChatEnter(t) \/ ChatBusy(t) \/ ChatConnected(t) \/ ChatPrompt(t)
    \/ ChatAnswered(t) \/ ChatNoConnection(t) \/ ChatLeave(t)
RunStep(t) ==
    \/ RunEnter(t) \/ RunBusy(t) \/ RunConnected(t) \/ RunNoConnection(t)
    \/ RunBuildFails(t) \/ RunBuilt(t) \/ RunStart(t)
PollStep(t) == Poll(t) \/ PollLost(t) \/ PollStops(t)

AgentTypeOK ==
    /\ chats \in 0..MaxChats
    /\ job \in [Thread -> {NoJob} \cup
          [status : {"running", "done", "error", "gone"}, created : 0..now]]
    /\ worker \in [Thread -> {"none", "working", "ended", "late"}]
    /\ client \in [Thread -> {"none", "polling", "answered", "stopped"}]

(* "Chat service is busy" is said of turns that are under way: however a    *)
(* turn ends, without a connection, a prompt or an answer, its place is     *)
(* given back once.                                                         *)
ChatsCounted ==
    chats = Cardinality({t \in Thread :
        at[t] \in {"chat connect", "chat prompt", "chat answer", "chat leave"}})

(* _MAX_CONCURRENT_AGENT_RUNS holds for the runs of the last 30 minutes:    *)
(* whatever is evicted meanwhile, at most that many of them are starting or *)
(* at work.  Runs that take longer come on top of these: their jobs are     *)
(* evicted although their workers are alive (main.py:1413-1417), and what a *)
(* crashed worker leaves is counted with the others.                        *)
WorkersBounded ==
    Cardinality({t \in Thread :
        (Starting(t) \/ worker[t] = "working") /\ Age(t) <= StaleAfter}) <= MaxRuns

(* The answer of a run that ended within 30 minutes waits for its browser   *)
(* until the hour is over (main.py:1391), however many other runs start     *)
(* meanwhile and evict jobs, those of runs that are still at work included. *)
AnswersKept ==
    \A t \in Thread :
        client[t] = "polling" /\ worker[t] = "ended" /\ Age(t) <= JobTtl => Finished(t)

(* A run that failed before its worker started keeps its slot, but for no   *)
(* longer than a crashed worker would ("after 30 minutes", main.py:1413):   *)
(* who is refused is refused for jobs that are younger.                     *)
RefusedForYoungJobs ==
    [][\A t \in Thread :
         Kind(t) = "run" /\ At(t, "begin") /\ at'[t] = "done" =>
           Cardinality({u \in Thread : job'[u].status = "running" /\ now - job'[u].created <= StaleAfter})
             >= MaxRuns]_<<at, agentVars>>
=============================================================================

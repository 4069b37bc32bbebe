--------------------------- MODULE AgentRunsProofs ---------------------------
(***************************************************************************)
(* Proofs about the chat turns and agent runs of a server (AgentRuns): the *)
(* turns under way are counted, of the runs of the last 30 minutes no more *)
(* are at work than allowed, and their answers wait for their browsers,    *)
(* whether or not a run outlives its job.                                  *)
(***************************************************************************)
EXTENDS ServerProofs

Chatting == {t \in Thread : at[t] \in ChatPlaces}
Busy(t) == Starting(t) \/ worker[t] = "working"
AllRunning == {t \in Thread : Runs(t)}

JobStatus == {"running", "done", "error", "gone"}
JobsTyped ==
    /\ now \in Nat
    /\ job = [t \in Thread |-> job[t]] /\ worker \in [Thread -> {"none", "working", "ended", "late"}]
    /\ client \in [Thread -> {"none", "polling", "answered", "stopped"}]

(* A run has a worker and a browser only after its request was answered,    *)
(* and it has a job before.  As long as it is young its job says that it    *)
(* runs: only later may the job be evicted under it.                        *)
RunOK(t) ==
    /\ job[t] = NoJob \/ job[t] \in [status : JobStatus, created : 0..now]
    /\ worker[t] # "none" \/ client[t] # "none" => At(t, "done") /\ job[t] # NoJob
    /\ Busy(t) => job[t] # NoJob
    /\ Busy(t) /\ Age(t) <= StaleAfter => Runs(t)
    /\ client[t] = "polling" /\ worker[t] = "ended" /\ Age(t) <= JobTtl => Finished(t)

AgentInv ==
    /\ Homes /\ JobsTyped
    /\ chats \in 0..MaxChats
    /\ chats = Cardinality(Chatting)
    /\ \A t \in Thread : RunOK(t)
    /\ Cardinality(AllRunning) <= MaxRuns

-----------------------------------------------------------------------------
(* Who chats and whose job runs are finite sets of threads. *)
LEMMA Finite ==
  ASSUME NEW S, S \subseteq Thread
  PROVE  IsFiniteSet(S) /\ Cardinality(S) \in Nat
  BY ThreadsAssumption, FS_Subset, FS_CardinalityType

(* No chat, job or worker at the start. *)
LEMMA AgentInitially == Init => AgentInv
<1> SUFFICES ASSUME Init  PROVE AgentInv
  OBVIOUS
<1>1. /\ now = 0 /\ chats = 0
      /\ job = [t \in Thread |-> NoJob]
      /\ worker = [t \in Thread |-> "none"]
      /\ client = [t \in Thread |-> "none"]
      /\ \A t \in Thread : at[t] \in {"begin", "done"}
  BY DEF Init, AgentInit
<1>2. Chatting = {} /\ AllRunning = {}
  BY <1>1 DEF Chatting, AllRunning, Runs, NoJob, ChatPlaces
<1>3. Cardinality(Chatting) = 0 /\ Cardinality(AllRunning) = 0
  BY <1>2, FS_EmptySet
<1>4. JobsTyped
  BY <1>1 DEF JobsTyped
<1>5. \A t \in Thread : RunOK(t)
  BY <1>1 DEF RunOK, Busy, Starting
<1> QED
  BY <1>1, <1>3, <1>4, <1>5, HomesInit, RunsAssumption DEF AgentInv

(* The steps that concern chats and runs. *)
LEMMA AgentFrame ==
  ASSUME Homes, [Next]_serverVars
  PROVE  \/ \E t \in Thread : /\ ChatStep(t) /\ OfAChat(t) /\ now' = now
                              /\ \A s \in Thread \ {t} : Stays(s)
         \/ \E t \in Thread : /\ RunStep(t) /\ OfARun(t) /\ now' = now
                              /\ \A s \in Thread \ {t} : Stays(s)
         \/ \E t \in Thread : (WorkerEnds(t) \/ PollStep(t)) /\ at' = at /\ now' = now
         \/ UNCHANGED agentVars /\ at' = at /\ now' = now + 1
         \/ /\ UNCHANGED agentVars /\ now' = now
            /\ \A s \in Thread : OfAChat(s) \/ OfARun(s) => Stays(s)
<1>1. ASSUME NEW t \in Thread, ThreadStep(t)
      PROVE  \A s \in Thread \ {t} : Stays(s)
  BY <1>1, ThreadMoves DEF Homes, Placed, Stays
<1>2. ASSUME NEW t \in Thread, ThreadStep(t)
      PROVE  \/ ChatStep(t) /\ OfAChat(t) /\ now' = now
             \/ RunStep(t) /\ OfARun(t) /\ now' = now
             \/ /\ UNCHANGED agentVars /\ now' = now
                /\ OfAChat(t) \/ OfARun(t) => Stays(t)
  <2>1. CASE Agents(t)
    <3>1. ChatStep(t) => OfAChat(t)
      BY DEF Homes, AtHome, ChatStep, ChatPlaces, RunPlaces, LookupPlaces, MemberPlaces, TourPlaces,
             TradePlaces, At, OfAChat, ChatEnter, ChatBusy, ChatConnected, ChatPrompt, ChatAnswered,
             ChatNoConnection, ChatLeave
    <3>2. RunStep(t) => OfARun(t)
      BY DEF Homes, AtHome, RunStep, ChatPlaces, RunPlaces, LookupPlaces, MemberPlaces, TourPlaces,
             TradePlaces, At, OfARun, RunEnter, RunBusy, RunConnected, RunNoConnection, RunBuildFails,
             RunBuilt, RunStart
    <3> QED
      BY <2>1, <3>1, <3>2 DEF Agents
  <2>2. CASE Pool(t)
    BY <2>2 DEF Pool, Stays
  <2>3. CASE Lookups(t) \/ Organization(t) \/ Tours(t) \/ Admins(t)
    BY <2>3 DEF Lookups, Organization, Tours, Admins, OfAChat, OfARun
  <2> QED
    BY <1>2, <2>1, <2>2, <2>3 DEF ThreadStep
<1>3. ASSUME NEW t \in Thread, AgentsOutside(t)
      PROVE  (WorkerEnds(t) \/ PollStep(t)) /\ at' = at /\ now' = now
  BY <1>3, OutsideMoves DEF AgentsOutside
<1>4. CASE Tick
  BY <1>4 DEF Tick
<1>5. CASE Night \/ Ownership \/ NewMember \/ UNCHANGED serverVars
  BY <1>5 DEF Night, Ownership, NewMember, serverVars, Stays
<1> QED
  BY <1>1, <1>2, <1>3, <1>4, <1>5 DEF Next

-----------------------------------------------------------------------------
(* What a step leaves of RunOK for a thread it does not concern. *)
LEMMA RunOKStays ==
  ASSUME NEW t \in Thread, RunOK(t), Stays(t) \/ (~Starting(t) /\ ~Starting(t)' /\ ~At(t, "done")),
         now' = now, job'[t] = job[t], worker'[t] = worker[t], client'[t] = client[t]
  PROVE  RunOK(t)' /\ (Runs(t)' <=> Runs(t))
  BY DEF RunOK, Stays, Busy, Starting, Runs, Age, At, Finished

(* A chat counts itself in and out. *)
LEMMA ChatKeeps ==
  ASSUME AgentInv, Homes', NEW t \in Thread, ChatStep(t), OfAChat(t), now' = now,
         \A s \in Thread \ {t} : Stays(s)
  PROVE  AgentInv'
<1>1. /\ UNCHANGED <<job, worker, client>>
      /\ at[t] \in ChatPlaces \cup {"begin"} /\ at'[t] \in ChatPlaces \cup {"done"}
      /\ \/ at[t] = "begin" /\ at'[t] \in ChatPlaces /\ chats < MaxChats /\ chats' = chats + 1
         \/ at[t] \in ChatPlaces /\ at'[t] = "done" /\ chats' = chats - 1
         \/ (at[t] \in ChatPlaces <=> at'[t] \in ChatPlaces) /\ chats' = chats
  BY DEF AgentInv, Homes, Placed, agentVars, ChatStep, ChatPlaces, At, GoTo, Finish, ChatEnter, ChatBusy,
         ChatConnected, ChatPrompt, ChatAnswered, ChatNoConnection, ChatLeave
<1>2. ~Starting(t) /\ ~Starting(t)' /\ ~At(t, "done")
  BY <1>1 DEF Starting, ChatPlaces, At
<1>3. \A s \in Thread : RunOK(s)' /\ (Runs(s)' <=> Runs(s))
  BY <1>1, <1>2, RunOKStays DEF AgentInv
<1>4. AllRunning' = AllRunning
  BY <1>3 DEF AllRunning
<1>5. JobsTyped'
  BY <1>1 DEF AgentInv, JobsTyped
<1>6. IsFiniteSet(Chatting) /\ Cardinality(Chatting) \in Nat
  BY Finite DEF Chatting
<1>7. /\ t \in Chatting <=> at[t] \in ChatPlaces
      /\ t \in Chatting' <=> at'[t] \in ChatPlaces
      /\ \A s \in Thread \ {t} : s \in Chatting' <=> s \in Chatting
  BY DEF Chatting, Stays
<1>8. chats' \in 0..MaxChats /\ chats' = Cardinality(Chatting')
  <2>1. "begin" \notin ChatPlaces /\ "done" \notin ChatPlaces
    BY DEF ChatPlaces
  <2>2. CASE at[t] = "begin" /\ at'[t] \in ChatPlaces /\ chats < MaxChats /\ chats' = chats + 1
    <3>1. Chatting' = Chatting \cup {t} /\ t \notin Chatting
      BY <1>7, <2>1, <2>2 DEF Chatting
    <3>2. Cardinality(Chatting') = Cardinality(Chatting) + 1
      BY <1>6, <3>1, FS_AddElement
    <3> QED
      BY <2>2, <3>2, RunsAssumption DEF AgentInv
  <2>3. CASE at[t] \in ChatPlaces /\ at'[t] = "done" /\ chats' = chats - 1
    <3>1. Chatting' = Chatting \ {t} /\ t \in Chatting
      BY <1>7, <2>1, <2>3 DEF Chatting
    <3>2. Cardinality(Chatting') = Cardinality(Chatting) - 1
      BY <1>6, <3>1, FS_RemoveElement
    <3>3. Cardinality(Chatting') \in Nat
      BY Finite DEF Chatting
    <3> QED
      BY <1>6, <2>3, <3>2, <3>3, RunsAssumption DEF AgentInv
  <2>4. CASE (at[t] \in ChatPlaces <=> at'[t] \in ChatPlaces) /\ chats' = chats
    <3>1. Chatting' = Chatting
      BY <1>7, <2>4 DEF Chatting
    <3> QED
      BY <2>4, <3>1 DEF AgentInv
  <2> QED
    BY <1>1, <2>2, <2>3, <2>4
<1> QED
  BY <1>3, <1>4, <1>5, <1>8 DEF AgentInv

-----------------------------------------------------------------------------
(* The eviction leaves alone the jobs of young runs that are under way ...  *)
LEMMA YoungNotEvicted ==
  ASSUME JobsTyped, NEW t \in Thread, RunOK(t), Busy(t), Age(t) <= StaleAfter
  PROVE  Runs(t) /\ ~Evicted(t)
<1>1. Runs(t) /\ Age(t) \in Int
  BY DEF RunOK, JobsTyped, Runs, Age, NoJob
<1> QED
  BY <1>1, RunsAssumption DEF Evicted, Runs, Finished

(* ... and keeps answers that a browser waits for; it starts nothing.       *)
LEMMA EvictionKeeps ==
  ASSUME JobsTyped, NEW t \in Thread, RunOK(t), now' = now,
         Stays(t) \/ (~Starting(t) /\ ~Starting(t)' /\ ~At(t, "done")),
         job'[t] = (IF Evicted(t) THEN Gone(t) ELSE job[t]), worker'[t] = worker[t], client'[t] = client[t]
  PROVE  RunOK(t)' /\ (Runs(t)' <=> Runs(t) /\ ~Evicted(t))
<1>1. CASE ~Evicted(t)
  BY <1>1, RunOKStays
<1>2. CASE Evicted(t)
  <2>1. ~ (Busy(t) /\ Age(t) <= StaleAfter) /\ (Busy(t)' <=> Busy(t))
    BY <1>2, YoungNotEvicted DEF Busy, Stays, Starting
  <2>2. job[t] \in [status : JobStatus, created : 0..now] /\ job[t].created \in Int
    BY <1>2 DEF RunOK, Evicted, Finished, Runs, NoJob, JobsTyped
  <2>3. /\ job'[t] \in [status : JobStatus, created : 0..now] /\ job'[t].created = job[t].created
        /\ job'[t] # NoJob /\ job'[t].status = "gone"
    BY <1>2, <2>2 DEF Gone, JobStatus, NoJob
  <2>4. Age(t)' = Age(t) /\ Age(t) \in Int
    BY <2>2, <2>3 DEF Age, JobsTyped
  <2>5. Finished(t) /\ Age(t) <= JobTtl => ~Evicted(t)
    BY <2>4, RunsAssumption DEF Evicted, Finished, Runs
  <2>6. worker[t] # "none" \/ client[t] # "none" => At(t, "done") /\ At(t, "done")'
    BY DEF RunOK, Stays, At
  <2>7. ~Runs(t)'
    BY <2>3 DEF Runs
  <2> QED
    BY <1>2, <2>1, <2>3, <2>4, <2>5, <2>6, <2>7 DEF RunOK
<1> QED
  BY <1>1, <1>2

(* No step but a request for a run makes the jobs that run more. *)
LEMMA FewRunning ==
  ASSUME Cardinality(AllRunning) <= MaxRuns, AllRunning' \subseteq AllRunning
  PROVE  Cardinality(AllRunning)' <= MaxRuns
<1>1. PICK A, B : A = AllRunning /\ B = AllRunning'
  OBVIOUS
<1>2. IsFiniteSet(A) /\ Cardinality(A) \in Nat /\ B \subseteq A
  BY <1>1, Finite DEF AllRunning
<1>3. Cardinality(B) \in Nat /\ Cardinality(B) <= Cardinality(A)
  BY <1>2, FS_Subset, FS_CardinalityType
<1> QED
  BY <1>1, <1>2, <1>3, RunsAssumption

(* The steps of the request that starts a run. *)
LEMMA RunKeeps ==
  ASSUME AgentInv, Homes', NEW t \in Thread, RunStep(t), OfARun(t), now' = now,
         \A s \in Thread \ {t} : Stays(s)
  PROVE  AgentInv'
<1>0. JobsTyped /\ (\A s \in Thread : RunOK(s)) /\ Placed /\ now \in Nat
  BY DEF AgentInv, Homes, JobsTyped
<1>1. chats' = chats /\ Chatting' = Chatting
  <2>1. chats' = chats /\ at[t] \notin ChatPlaces /\ at'[t] \notin ChatPlaces
    BY <1>0 DEF Placed, agentVars, RunStep, ChatPlaces, At, GoTo, Finish, RunEnter, RunBusy,
           RunConnected, RunNoConnection, RunBuildFails, RunBuilt, RunStart
  <2> QED
    BY <2>1 DEF Chatting, Stays
<1>2. at[t] \in RunPlaces \cup {"begin"}
  BY DEF RunStep, RunPlaces, At, RunEnter, RunBusy, RunConnected, RunNoConnection, RunBuildFails,
         RunBuilt, RunStart
<1>3. ~At(t, "done") /\ worker[t] = "none" /\ client[t] = "none"
  <2>1. ~At(t, "done")
    BY <1>2 DEF RunPlaces, At
  <2> QED
    BY <1>0, <2>1 DEF RunOK
<1>4. CASE RunEnter(t)
  <2>1. /\ at[t] = "begin" /\ at'[t] = "run connect" /\ UNCHANGED <<worker, client>>
        /\ Cardinality(Running) < MaxRuns
        /\ job' = [s \in Thread |-> job'[s]] /\ job'[t] = Job("running", now)
        /\ \A s \in Thread \ {t} : job'[s] = IF Evicted(s) THEN Gone(s) ELSE job[s]
    BY <1>0, <1>4 DEF RunEnter, At, GoTo, Placed, AfterEviction
  <2>2. \A s \in Thread \ {t} : RunOK(s)' /\ (Runs(s)' <=> Runs(s) /\ ~Evicted(s))
    BY <1>0, <2>1, EvictionKeeps
  <2>3. RunOK(t)'
    <3>4. job'[t] = [status |-> "running", created |-> now'] /\ now' \in Nat
      BY <1>0, <2>1 DEF Job
    <3>1. /\ job'[t] \in [status : JobStatus, created : 0..now']
          /\ job'[t].status = "running" /\ job'[t].created = now' /\ now' \in Nat
      BY <3>4 DEF JobStatus
    <3>2. Runs(t)' /\ job'[t] # NoJob
      BY <3>1 DEF Runs, NoJob
    <3>3. worker'[t] = "none" /\ client'[t] = "none"
      BY <1>3, <2>1
    <3> QED
      BY <3>1, <3>2, <3>3 DEF RunOK
  <2>4. JobsTyped'
    BY <1>0, <2>1 DEF JobsTyped
  <2>5. AllRunning' \subseteq Running \cup {t}
    BY <2>2 DEF AllRunning, Running
  <2>6. Cardinality(AllRunning)' <= MaxRuns
    <3>1. PICK B, R : B = AllRunning' /\ R = Running
      OBVIOUS
    <3>2. IsFiniteSet(R) /\ Cardinality(R) \in Nat
      BY <3>1, Finite DEF Running
    <3>3. IsFiniteSet(R \cup {t}) /\ Cardinality(R \cup {t}) <= Cardinality(R) + 1
      BY <3>2, FS_AddElement
    <3>4. Cardinality(B) \in Nat /\ Cardinality(B) <= Cardinality(R \cup {t})
      BY <2>5, <3>1, <3>3, FS_Subset, FS_CardinalityType
    <3>5. Cardinality(R \cup {t}) \in Nat
      BY <3>3, FS_CardinalityType
    <3>6. Cardinality(R) < MaxRuns /\ MaxRuns \in Nat
      BY <2>1, <3>1, RunsAssumption
    <3>7. Cardinality(B) <= MaxRuns
      BY <3>2, <3>3, <3>4, <3>5, <3>6
    <3> QED
      BY <3>1, <3>7
  <2> QED
    BY <1>1, <2>2, <2>3, <2>4, <2>6 DEF AgentInv
<1>5. CASE RunBusy(t)
  <2>1. /\ at[t] = "begin" /\ at'[t] = "done" /\ UNCHANGED <<worker, client>>
        /\ job' = [s \in Thread |-> job'[s]]
        /\ \A s \in Thread : job'[s] = IF Evicted(s) THEN Gone(s) ELSE job[s]
    BY <1>0, <1>5 DEF RunBusy, At, GoTo, Finish, Placed, AfterEviction
  <2>2. ~Starting(t) /\ ~Starting(t)'
    BY <2>1 DEF Starting
  <2>3. \A s \in Thread : RunOK(s)' /\ (Runs(s)' <=> Runs(s) /\ ~Evicted(s))
    BY <1>0, <1>3, <2>1, <2>2, EvictionKeeps
  <2>4. JobsTyped'
    BY <1>0, <2>1 DEF JobsTyped
  <2>5. AllRunning' \subseteq AllRunning
    BY <2>3 DEF AllRunning
  <2> QED
    BY <1>1, <2>3, <2>4, <2>5, FewRunning DEF AgentInv
<1>6. CASE RunConnected(t) \/ RunBuilt(t) \/ RunNoConnection(t) \/ RunBuildFails(t)
  <2>1. UNCHANGED <<job, worker, client>> /\ Starting(t)
    BY <1>6 DEF RunConnected, RunBuilt, RunNoConnection, RunBuildFails, agentVars, At, Starting
  <2>2. \A s \in Thread \ {t} : RunOK(s)' /\ (Runs(s)' <=> Runs(s))
    BY <1>0, <2>1, RunOKStays
  <2>3. RunOK(t)' /\ (Runs(t)' <=> Runs(t))
    BY <1>0, <1>3, <2>1 DEF RunOK, Busy, Runs, Age, Finished
  <2>4. JobsTyped'
    BY <1>0, <2>1 DEF JobsTyped
  <2>5. AllRunning' \subseteq AllRunning
    BY <2>2, <2>3 DEF AllRunning
  <2> QED
    BY <1>1, <2>2, <2>3, <2>4, <2>5, FewRunning DEF AgentInv
<1>7. CASE RunStart(t)
  <2>1. /\ at'[t] = "done" /\ job' = job /\ Starting(t)
        /\ worker' = [worker EXCEPT ![t] = "working"]
        /\ client' = [client EXCEPT ![t] = "polling"]
    BY <1>0, <1>7 DEF RunStart, At, GoTo, Finish, Placed, Starting
  <2>2. /\ worker'[t] = "working" /\ client'[t] = "polling"
        /\ \A s \in Thread \ {t} : worker'[s] = worker[s] /\ client'[s] = client[s]
    BY <1>0, <2>1 DEF JobsTyped
  <2>3. \A s \in Thread \ {t} : RunOK(s)' /\ (Runs(s)' <=> Runs(s))
    BY <1>0, <2>1, <2>2, RunOKStays
  <2>4. RunOK(t)' /\ (Runs(t)' <=> Runs(t))
    BY <1>0, <2>1, <2>2 DEF RunOK, Busy, Runs, Age, Finished, At, NoJob
  <2>5. JobsTyped'
    BY <1>0, <2>1 DEF JobsTyped
  <2>6. AllRunning' \subseteq AllRunning
    BY <2>3, <2>4 DEF AllRunning
  <2> QED
    BY <1>1, <2>3, <2>4, <2>5, <2>6, FewRunning DEF AgentInv
<1> QED
  BY <1>4, <1>5, <1>6, <1>7 DEF RunStep

-----------------------------------------------------------------------------
(* The steps of the worker and of the browser that polls. *)
LEMMA OutsideKeeps ==
  ASSUME AgentInv, Homes', NEW t \in Thread, WorkerEnds(t) \/ PollStep(t), at' = at, now' = now
  PROVE  AgentInv'
<1>0. JobsTyped /\ (\A s \in Thread : RunOK(s)) /\ now \in Nat
  BY DEF AgentInv, JobsTyped
<1>1. chats' = chats /\ Chatting' = Chatting
  BY DEF WorkerEnds, PollStep, Poll, PollLost, PollStops, Chatting
<1>2. At(t, "done") /\ job[t] \in [status : JobStatus, created : 0..now] /\ job[t].created \in Int
  <2>1. worker[t] # "none" \/ client[t] # "none"
    BY DEF WorkerEnds, PollStep, Poll, PollLost, PollStops
  <2> QED
    BY <1>0, <2>1 DEF RunOK
<1>3. PICK status \in JobStatus :
        \/ /\ worker[t] = "working" /\ client' = client
           /\ worker' = [worker EXCEPT ![t] = IF Age(t) <= StaleAfter THEN "ended" ELSE "late"]
           /\ status \in {"done", "error"}
           /\ \/ job[t].status = "gone" /\ job' = job
              \/ job' = [job EXCEPT ![t] = [job[t] EXCEPT !.status = status]]
        \/ /\ client[t] = "polling" /\ worker' = worker
           /\ \E c \in {"answered", "stopped"} : client' = [client EXCEPT ![t] = c]
           /\ status = "gone"
           /\ \/ job' = job
              \/ Finished(t) /\ job' = [job EXCEPT ![t] = [job[t] EXCEPT !.status = status]]
  <2>1. CASE WorkerEnds(t)
    BY <2>1 DEF WorkerEnds, JobStatus
  <2>2. CASE PollStep(t)
    BY <2>2 DEF PollStep, Poll, PollLost, PollStops, Gone, JobStatus
  <2> QED
    BY <2>1, <2>2
<1>4. /\ JobsTyped'
      /\ \A s \in Thread \ {t} : job'[s] = job[s] /\ worker'[s] = worker[s] /\ client'[s] = client[s]
  BY <1>0, <1>3 DEF JobsTyped
<1>5. \A s \in Thread \ {t} : RunOK(s)' /\ (Runs(s)' <=> Runs(s))
  BY <1>0, <1>4, RunOKStays DEF Stays
<1>6. ~Starting(t) /\ ~Starting(t)' /\ At(t, "done")'
  BY <1>2 DEF At, Starting
<1>7. /\ job'[t] \in [status : JobStatus, created : 0..now] /\ job'[t].created = job[t].created
      /\ job'[t] # NoJob
      /\ job' = job \/ job'[t].status = status
      /\ job' = [job EXCEPT ![t] = [job[t] EXCEPT !.status = status]] => job'[t].status = status
      /\ Age(t)' = Age(t)
  BY <1>0, <1>2, <1>3 DEF JobsTyped, NoJob, Age
<1>8. RunOK(t)' /\ (Runs(t)' => Runs(t))
  <2>1. CASE /\ worker[t] = "working" /\ client' = client
             /\ worker' = [worker EXCEPT ![t] = IF Age(t) <= StaleAfter THEN "ended" ELSE "late"]
             /\ status \in {"done", "error"}
             /\ job[t].status = "gone" \/ job'[t].status = status
    <3>1. /\ worker'[t] \in {"ended", "late"} /\ (worker'[t] = "ended" => Age(t) <= StaleAfter)
          /\ ~Busy(t)'
      BY <1>0, <1>6, <2>1 DEF JobsTyped, Busy
    <3>2. worker'[t] = "ended" => Runs(t) /\ job'[t].status = status
      BY <1>0, <2>1, <3>1 DEF RunOK, Busy, Runs
    <3>3. Runs(t)' => Runs(t)
      BY <1>7, <2>1 DEF Runs
    <3> QED
      BY <1>6, <1>7, <2>1, <3>1, <3>2, <3>3 DEF RunOK, Finished
  <2>2. ASSUME NEW c \in {"answered", "stopped"}, client' = [client EXCEPT ![t] = c],
               worker' = worker, Finished(t) \/ job' = job, status = "gone"
        PROVE  RunOK(t)' /\ (Runs(t)' => Runs(t))
    <3>1. client'[t] = c /\ worker'[t] = worker[t]
      BY <1>0, <2>2 DEF JobsTyped
    <3>2. Busy(t)' <=> Busy(t)
      BY <1>6, <3>1 DEF Busy
    <3>3. Runs(t)' => Runs(t)
      BY <1>7, <2>2 DEF Runs
    <3>4. Busy(t)' /\ Age(t)' <= StaleAfter => Runs(t)'
      <4>1. Finished(t) => ~Runs(t)
        BY DEF Finished, Runs
      <4> QED
        BY <1>0, <1>7, <2>2, <3>2, <4>1 DEF RunOK, Runs
    <3> QED
      BY <1>6, <1>7, <3>1, <3>3, <3>4 DEF RunOK
  <2> QED
    BY <1>3, <1>7, <2>1, <2>2
<1>9. AllRunning' \subseteq AllRunning
  BY <1>5, <1>8 DEF AllRunning
<1> QED
  BY <1>1, <1>4, <1>5, <1>8, <1>9, FewRunning DEF AgentInv

(* Time passes, for runs that are under way as well. *)
LEMMA TickKeeps ==
  ASSUME AgentInv, Homes', UNCHANGED agentVars, at' = at, now' = now + 1
  PROVE  AgentInv'
<1>1. /\ Chatting' = Chatting /\ AllRunning' = AllRunning
      /\ \A t \in Thread : Busy(t)' <=> Busy(t)
  BY DEF Chatting, AllRunning, Runs, Busy, Starting, agentVars
<1>2. JobsTyped'
  BY DEF AgentInv, JobsTyped, agentVars
<1>3. ASSUME NEW t \in Thread  PROVE RunOK(t)'
  <2>1. RunOK(t) /\ now \in Nat /\ now' = now + 1 /\ UNCHANGED <<job, worker, client, at>>
    BY DEF AgentInv, JobsTyped, agentVars
  <2>2. job[t] # NoJob => /\ job[t] \in [status : JobStatus, created : 0..now']
                          /\ Age(t)' = Age(t) + 1 /\ Age(t) \in Int
    BY <2>1 DEF RunOK, Age
  <2>3. Busy(t) => job[t] # NoJob /\ (Age(t) <= StaleAfter => Runs(t))
    BY <2>1 DEF RunOK
  <2>4. Busy(t)' /\ Age(t)' <= StaleAfter => Runs(t)'
    BY <1>1, <2>1, <2>2, <2>3, RunsAssumption DEF Runs
  <2>5. client[t] = "polling" /\ worker[t] = "ended" /\ Age(t)' <= JobTtl => Finished(t)'
    BY <2>1, <2>2, RunsAssumption DEF RunOK, Finished
  <2> QED
    BY <1>1, <2>1, <2>2, <2>3, <2>4, <2>5 DEF RunOK, At
<1> QED
  BY <1>1, <1>2, <1>3 DEF AgentInv, agentVars

(* Requests of other kinds are at none of the places of chats and runs. *)
LEMMA OthersKeep ==
  ASSUME AgentInv, Homes', [Next]_serverVars, UNCHANGED agentVars, now' = now,
         \A s \in Thread : OfAChat(s) \/ OfARun(s) => Stays(s)
  PROVE  AgentInv'
<1>0. handler' = handler /\ Placed
  BY HandlerStays DEF AgentInv, Homes
<1>1. ASSUME NEW t \in Thread
      PROVE  /\ at[t] \in ChatPlaces <=> at'[t] \in ChatPlaces
             /\ Starting(t) <=> Starting(t)'
             /\ At(t, "done") => At(t, "done")'
  <2>1. CASE Stays(t)
    BY <2>1 DEF Stays, Starting, At
  <2>2. CASE ~OfAChat(t) /\ ~OfARun(t)
    <3>1. AtHome(t) /\ AtHome(t)'
      BY DEF AgentInv, Homes
    <3>2. at[t] \notin ChatPlaces \cup RunPlaces
      BY <2>2, <3>1 DEF AtHome, ChatPlaces, RunPlaces, LookupPlaces, MemberPlaces, TourPlaces, TradePlaces
    <3>3. ~OfAChat(t)' /\ ~OfARun(t)'
      BY <1>0, <2>2 DEF OfAChat, OfARun, Kind
    <3>4. at'[t] \notin ChatPlaces \cup RunPlaces
      BY <3>1, <3>3 DEF AtHome, ChatPlaces, RunPlaces, LookupPlaces, MemberPlaces, TourPlaces, TradePlaces
    <3>5. Starting(t) <=> at[t] \in RunPlaces
      BY DEF Starting, RunPlaces
    <3>6. Starting(t)' <=> at'[t] \in RunPlaces
      BY DEF Starting, RunPlaces
    <3> QED
      BY <1>0, <3>2, <3>4, <3>5, <3>6, DoneStays
  <2> QED
    BY <2>1, <2>2
<1>2. UNCHANGED <<chats, job, worker, client>>
  BY DEF agentVars
<1>3. Chatting' = Chatting /\ AllRunning' = AllRunning
  BY <1>1, <1>2 DEF Chatting, AllRunning, Runs
<1>4. \A t \in Thread : RunOK(t)'
  <2> SUFFICES ASSUME NEW t \in Thread  PROVE RunOK(t)'
    OBVIOUS
  <2>1. RunOK(t)
    BY DEF AgentInv
  <2> QED
    BY <1>1, <1>2, <2>1 DEF RunOK, Busy, Runs, Age, Finished
<1> QED
  BY <1>2, <1>3, <1>4 DEF AgentInv, JobsTyped

(* Every step of the server keeps the invariant of the agents. *)
LEMMA AgentInvStep == AgentInv /\ [Next]_serverVars => AgentInv'
<1> SUFFICES ASSUME AgentInv, [Next]_serverVars  PROVE AgentInv'
  OBVIOUS
<1>1. Homes /\ Homes'
  BY HomesStep DEF AgentInv
<1> QED
  BY <1>1, AgentFrame, ChatKeeps, RunKeeps, OutsideKeeps, TickKeeps, OthersKeep

-----------------------------------------------------------------------------
(* The inductive invariant of chats and runs. *)
THEOREM AgentInvariance == Spec => []AgentInv
  BY AgentInitially, AgentInvStep, PTL DEF Spec

(* The variables of chats and runs have their types. *)
THEOREM AgentsTyped == Spec => []AgentTypeOK
<1>1. AgentInv => AgentTypeOK
  BY DEF AgentInv, JobsTyped, RunOK, JobStatus, AgentTypeOK
<1> QED
  BY <1>1, AgentInvariance, PTL

(* _ACTIVE_CHATS is the number of turns under way, however they end. *)
THEOREM Counted == Spec => []ChatsCounted
<1>1. AgentInv => ChatsCounted
  BY DEF AgentInv, Chatting, ChatPlaces, ChatsCounted
<1> QED
  BY <1>1, AgentInvariance, PTL

(* At most _MAX_CONCURRENT_AGENT_RUNS of the runs of the last 30 minutes    *)
(* are starting or at work, whatever was evicted and however long older     *)
(* runs go on: each of them has a job that the next request counts.         *)
THEOREM Bounded == Spec => []WorkersBounded
<1>1. AgentInv => WorkersBounded
  <2> SUFFICES ASSUME AgentInv  PROVE WorkersBounded
    OBVIOUS
  <2> DEFINE Young == {t \in Thread : (Starting(t) \/ worker[t] = "working") /\ Age(t) <= StaleAfter}
  <2>1. Young \subseteq AllRunning
    BY DEF AgentInv, RunOK, Busy, AllRunning
  <2>2. IsFiniteSet(AllRunning) /\ Cardinality(AllRunning) \in Nat /\ Cardinality(AllRunning) <= MaxRuns
    BY Finite DEF AgentInv, AllRunning
  <2>3. Cardinality(Young) \in Nat /\ Cardinality(Young) <= Cardinality(AllRunning)
    <3> HIDE DEF Young
    <3> QED
      BY <2>1, <2>2, FS_Subset, FS_CardinalityType
  <2>4. Cardinality(Young) <= MaxRuns
    <3> HIDE DEF Young
    <3> QED
      BY <2>2, <2>3, RunsAssumption
  <2> QED
    BY <2>4 DEF WorkersBounded
<1> QED
  BY <1>1, AgentInvariance, PTL

(* The answer of a run that ended within 30 minutes waits for its browser,  *)
(* whatever other requests evict.                                           *)
THEOREM Kept == Spec => []AnswersKept
<1>1. AgentInv => AnswersKept
  BY DEF AgentInv, RunOK, AnswersKept
<1> QED
  BY <1>1, AgentInvariance, PTL

(* A run is refused for jobs that are no older than the age of eviction. *)
THEOREM Refusals == Spec => RefusedForYoungJobs
<1> DEFINE Step == \A t \in Thread :
                     Kind(t) = "run" /\ At(t, "begin") /\ at'[t] = "done" =>
                       Cardinality({u \in Thread : job'[u].status = "running" /\ now - job'[u].created <= StaleAfter})
                         >= MaxRuns
<1>1. AgentInv /\ [Next]_serverVars => [Step]_<<at, agentVars>>
  <2> SUFFICES ASSUME AgentInv, [Next]_serverVars, NEW t \in Thread,
                      Kind(t) = "run", At(t, "begin"), at'[t] = "done"
               PROVE  Cardinality({u \in Thread : job'[u].status = "running" /\ now - job'[u].created <= StaleAfter})
                        >= MaxRuns
    OBVIOUS
  <2>1. Homes /\ Placed
    BY DEF AgentInv, Homes
  <2>2. ~Stays(t)
    BY DEF Stays, At
  <2>3. ThreadStep(t)
    BY <2>1, <2>2, Moves
  <2>4. RunBusy(t)
    <3>1. ChatStep(t) \/ RunStep(t)
      BY <2>2, <2>3 DEF ThreadStep, Pool, Agents, Lookups, Organization, Tours, Admins, Stays
    <3>2. ~ChatStep(t)
      BY DEF ChatStep, At, ChatEnter, ChatBusy, ChatConnected, ChatPrompt, ChatAnswered,
             ChatNoConnection, ChatLeave
    <3>3. at'[t] # "run connect"
      OBVIOUS
    <3> QED
      BY <2>1, <3>1, <3>2, <3>3 DEF RunStep, At, GoTo, Placed, RunEnter, RunConnected, RunNoConnection,
             RunBuildFails, RunBuilt, RunStart
  <2>5. Cardinality(Running) >= MaxRuns /\ job' = AfterEviction
    BY <2>4 DEF RunBusy
  <2> DEFINE Y == {u \in Thread : job'[u].status = "running" /\ now - job'[u].created <= StaleAfter}
  <2>6. Running \subseteq Y
    <3> SUFFICES ASSUME NEW u \in Running  PROVE u \in Y
      OBVIOUS
    <3>1. u \in Thread /\ Runs(u) /\ ~Evicted(u)
      BY DEF Running
    <3>2. job'[u] = job[u]
      BY <2>5, <3>1 DEF AfterEviction
    <3>3. job[u].created \in Int /\ now \in Int
      BY <3>1 DEF AgentInv, RunOK, JobsTyped, Runs, NoJob
    <3>4. Age(u) <= StaleAfter
      BY <3>1, <3>3, RunsAssumption DEF Evicted, Age
    <3> QED
      BY <3>1, <3>2, <3>4 DEF Runs, Age
  <2>7. IsFiniteSet(Y) /\ Cardinality(Y) \in Nat
    BY Finite
  <2> HIDE DEF Y
  <2>8. Cardinality(Running) \in Nat /\ Cardinality(Running) <= Cardinality(Y)
    BY <2>6, <2>7, FS_Subset, FS_CardinalityType
  <2>9. Cardinality(Y) >= MaxRuns
    BY <2>5, <2>7, <2>8, RunsAssumption
  <2> QED
    BY <2>9 DEF Y
<1> QED
  BY <1>1, AgentInvariance, PTL DEF Spec, RefusedForYoungJobs
=============================================================================

---------------------------- MODULE NewsAnalysis ----------------------------
(***************************************************************************)
(* The durable news assessments of src/ingest/news_analysis.py: one row    *)
(* per assessment key in the shared database, claimed under a lease by a   *)
(* request thread of any server process, evaluated by that process's pool  *)
(* of workers, and written back under the token of the claim.              *)
(*                                                                         *)
(* Time.  The row's lease_until and retry_after are kept as the time LEFT  *)
(* until them (lease, retry), which Tick counts down and which saturate    *)
(* once the comparison of _claim can no longer tell the values apart:      *)
(*     lease_until < now    is    lease < 0                                *)
(*     retry_after <= now   is    retry <= 0                               *)
(* so no run needs a bound on the clock.                                   *)
(***************************************************************************)
EXTENDS Integers, Sequences, FiniteSets

CONSTANTS
    Proc,         \* server processes, each with its own _pool and _slots
    Viewer,       \* request threads inside enrich_news
    Home,         \* Home[v]: the process that runs request thread v
    Key,          \* assessment keys (_context): article, thesis, rubric, model
    Token,        \* claim tokens; uuid4 never draws the same one twice
    NoToken,
    NoKey,
    NoProc,
    Workers,      \* max_workers of _pool
    Cap,          \* permits of _slots
    Lease,        \* LEASE_SECONDS
    Retry,        \* RETRY_SECONDS
    MaxAttempts,  \* the bound on attempts in _claim
    Budget,       \* longest time one job occupies a worker, when Hangs is FALSE
    Hangs,        \* TRUE: a job may occupy a worker for any length of time
    Faults,       \* the storage calls that may raise
    MaxCrashes    \* bound on process crashes

FaultKinds ==
    {"claim",         \* _claim raises and nothing was committed
     "claim_commit",  \* _claim raises after its commit took effect
     "reread",        \* the _read after a lost claim raises
     "save",          \* _finish raises and nothing was committed
     "save_commit"}   \* _finish(result) raises after its commit took effect

ASSUME HomeAssumption == Home \in [Viewer -> Proc]
ASSUME NullAssumption == NoToken \notin Token /\ NoKey \notin Key /\ NoProc \notin Proc
ASSUME KindsAssumption == Viewer \cap Token = {}   \* a request is not a claim
ASSUME SizeAssumption ==
    /\ Workers \in Nat \ {0} /\ Cap \in Nat \ {0} /\ MaxAttempts \in Nat \ {0}
    /\ Lease \in Nat /\ Retry \in Nat \ {0} /\ Budget \in Nat \ {0}
    /\ MaxCrashes \in Nat /\ Hangs \in BOOLEAN /\ Faults \subseteq FaultKinds

VARIABLES
    row,      \* the news_analysis table
    slots,    \* slots[p]: free permits of _slots
    queue,    \* queue[p]: tokens of the jobs waiting in _pool, oldest first
    job,      \* job[t]: the life of the claim that drew token t
    viewer,   \* viewer[v]: where request thread v is in enrich_news
    crashes

vars == <<row, slots, queue, job, viewer, crashes>>

Expired == -1
Running == {"evaluating", "saving", "failing"}
Live == {"claimed", "queued"} \cup Running

NoRow == [status |-> "absent", token |-> NoToken, payload |-> NoToken,
          lease |-> Expired, retry |-> 0, attempts |-> 0]
NoJob == [stage |-> "unused", proc |-> NoProc, key |-> NoKey,
          lease |-> Expired, age |-> 0]
Looking(k) == [stage |-> "looking", key |-> k, token |-> NoToken]
Idle == [stage |-> "idle", key |-> NoKey, token |-> NoToken]

(* uuid4: a token nobody drew before.  Tokens are told apart only by        *)
(* equality, so which unused one is drawn makes no difference.              *)
Drawn(t) ==
    /\ job[t].stage = "unused"
    /\ t = CHOOSE u \in Token : job[u].stage = "unused"

InFlight == {t \in Token : job[t].stage \in Live}
Busy(p) == {t \in Token : job[t].stage \in Running /\ job[t].proc = p}

Init ==
    /\ row = [k \in Key |-> NoRow]
    /\ slots = [p \in Proc |-> Cap]
    /\ queue = [p \in Proc |-> <<>>]
    /\ job = [t \in Token |-> NoJob]
    /\ viewer = [v \in Viewer |-> Idle]
    /\ crashes = 0

-----------------------------------------------------------------------------
(* _slots is a BoundedSemaphore: a release above Cap raises ValueError,     *)
(* which enrich_news and the worker's future swallow, and adds no permit.   *)
ReleaseLost(p) == slots' = slots
ReleaseUnbounded(p) == slots' = [slots EXCEPT ![p] = @ + 1]
Release(p) == slots' = [slots EXCEPT ![p] = IF @ < Cap THEN @ + 1 ELSE @]

(* The WHERE clause of _claim's upsert. *)
ClaimableIgnoringLease(k) ==
    \/ row[k].status = "absent"
    \/ /\ row[k].status # "ready"
       /\ row[k].attempts < MaxAttempts
       /\ row[k].retry <= 0
ClaimableForever(k) ==
    \/ row[k].status = "absent"
    \/ row[k].status # "ready" /\ row[k].lease < 0 /\ row[k].retry <= 0
ClaimableWhenReady(k) ==
    row[k].attempts < MaxAttempts /\ row[k].lease < 0 /\ row[k].retry <= 0
Claimable(k) ==
    \/ row[k].status = "absent"
    \/ /\ row[k].status # "ready"
       /\ row[k].attempts < MaxAttempts
       /\ row[k].lease < 0
       /\ row[k].retry <= 0

(* What the upsert writes: payload and retry_after keep their values. *)
ClaimedBriefly(k, t) ==
    [status |-> "pending", token |-> t, payload |-> row[k].payload,
     lease |-> Lease - 1, retry |-> row[k].retry, attempts |-> row[k].attempts + 1]
ClaimedUncounted(k, t) ==
    [status |-> "pending", token |-> t, payload |-> row[k].payload,
     lease |-> Lease, retry |-> row[k].retry, attempts |-> row[k].attempts]
Claimed(k, t) ==
    [status |-> "pending", token |-> t, payload |-> row[k].payload,
     lease |-> Lease, retry |-> row[k].retry, attempts |-> row[k].attempts + 1]

(* _finish writes only under the token it was given. *)
OwnsAnything(t) == TRUE
Owns(t) == row[job[t].key].token = t

Saved(t, status, payload, retry) ==
    [status |-> status, token |-> row[job[t].key].token, payload |-> payload,
     lease |-> Expired, retry |-> retry, attempts |-> row[job[t].key].attempts]
GoodSave(t) == Saved(t, "ready", t, 0)
FailedSave(t) == Saved(t, "unavailable", NoToken, Retry)
Finish(t, saved) ==
    row' = IF Owns(t) THEN [row EXCEPT ![job[t].key] = saved] ELSE row

NewJob(p, k) == [stage |-> "claimed", proc |-> p, key |-> k, lease |-> Lease, age |-> 0]

(* A job leaves the system; its token and key are remembered, so that no    *)
(* later claim draws the token again.                                       *)
Ended(k) == [stage |-> "done", proc |-> NoProc, key |-> k, lease |-> Expired, age |-> 0]

-----------------------------------------------------------------------------
(* enrich_news, one article of the batch.  The stored rows were read at the *)
(* start of the request; only an article that was not ready then gets here. *)
Look(v, k) ==
    /\ viewer[v].stage = "idle"
    /\ row[k].status # "ready"
    /\ viewer' = [viewer EXCEPT ![v] = Looking(k)]
    /\ UNCHANGED <<row, slots, queue, job, crashes>>

(* _slots.acquire(blocking=False) finds no permit: the article stays queued *)
(* in the answer and nothing is scheduled.                                  *)
TurnedAway(v) ==
    /\ viewer[v].stage = "looking"
    /\ slots[Home[v]] = 0
    /\ viewer' = [viewer EXCEPT ![v] = Idle]
    /\ UNCHANGED <<row, slots, queue, job, crashes>>

AcquireBeyondCap(v) ==
    /\ viewer[v].stage = "looking"
    /\ viewer' = [viewer EXCEPT ![v].stage = "claiming"]
    /\ UNCHANGED <<row, slots, queue, job, crashes>>
Acquire(v) ==
    /\ viewer[v].stage = "looking"
    /\ slots[Home[v]] > 0
    /\ slots' = [slots EXCEPT ![Home[v]] = @ - 1]
    /\ viewer' = [viewer EXCEPT ![v].stage = "claiming"]
    /\ UNCHANGED <<row, queue, job, crashes>>

ClaimWins(v) ==
    /\ viewer[v].stage = "claiming"
    /\ Claimable(viewer[v].key)
    /\ \E t \in Token :
        /\ Drawn(t)
        /\ row' = [row EXCEPT ![viewer[v].key] = Claimed(viewer[v].key, t)]
        /\ job' = [job EXCEPT ![t] = NewJob(Home[v], viewer[v].key)]
        /\ viewer' = [viewer EXCEPT ![v].stage = "submitting", ![v].token = t]
    /\ UNCHANGED <<slots, queue, crashes>>

(* The upsert changed no row: somebody else owns the assessment. *)
ClaimLoses(v) ==
    /\ viewer[v].stage = "claiming"
    /\ ~Claimable(viewer[v].key)
    /\ Release(Home[v])
    /\ viewer' = [viewer EXCEPT ![v].stage = "rereading"]
    /\ UNCHANGED <<row, queue, job, crashes>>

(* _claim raises: the permit is given back and the article is shown as      *)
(* unavailable.                                                             *)
ClaimFails(v) ==
    /\ "claim" \in Faults
    /\ viewer[v].stage = "claiming"
    /\ Release(Home[v])
    /\ viewer' = [viewer EXCEPT ![v] = Idle]
    /\ UNCHANGED <<row, queue, job, crashes>>

(* _claim raises although the database committed the claim, and nobody      *)
(* knows the token any more, or the _pool.submit that follows it raises.    *)
ClaimUnacked(v) ==
    /\ "claim_commit" \in Faults
    /\ viewer[v].stage = "claiming"
    /\ Claimable(viewer[v].key)
    /\ \E t \in Token :
        /\ Drawn(t)
        /\ row' = [row EXCEPT ![viewer[v].key] = Claimed(viewer[v].key, t)]
        /\ job' = [job EXCEPT ![t] = Ended(viewer[v].key)]
    /\ Release(Home[v])
    /\ viewer' = [viewer EXCEPT ![v] = Idle]
    /\ UNCHANGED <<queue, crashes>>

(* _pool.submit(_run, ...). *)
Submit(v) ==
    /\ viewer[v].stage = "submitting"
    /\ queue' = [queue EXCEPT ![Home[v]] = Append(@, viewer[v].token)]
    /\ job' = [job EXCEPT ![viewer[v].token].stage = "queued"]
    /\ viewer' = [viewer EXCEPT ![v] = Idle]
    /\ UNCHANGED <<row, slots, crashes>>

Reread(v) ==
    /\ viewer[v].stage = "rereading"
    /\ viewer' = [viewer EXCEPT ![v] = Idle]
    /\ UNCHANGED <<row, slots, queue, job, crashes>>

(* _read raises after the permit of the lost claim was already given back:  *)
(* the except clause gives one back again.                                  *)
RereadFails(v) ==
    /\ "reread" \in Faults
    /\ viewer[v].stage = "rereading"
    /\ Release(Home[v])
    /\ viewer' = [viewer EXCEPT ![v] = Idle]
    /\ UNCHANGED <<row, queue, job, crashes>>

-----------------------------------------------------------------------------
(* An idle worker of _pool takes the oldest waiting job and runs _run. *)
Start(p) ==
    /\ queue[p] # <<>>
    /\ Cardinality(Busy(p)) < Workers
    /\ job' = [job EXCEPT ![Head(queue[p])].stage = "evaluating"]
    /\ queue' = [queue EXCEPT ![p] = Tail(@)]
    /\ UNCHANGED <<row, slots, viewer, crashes>>

(* _evaluate returns an assessment, or raises. *)
Evaluate(t) ==
    /\ job[t].stage = "evaluating"
    /\ \E next \in {"saving", "failing"} : job' = [job EXCEPT ![t].stage = next]
    /\ UNCHANGED <<row, slots, queue, viewer, crashes>>

EndJob(t) ==
    /\ job' = [job EXCEPT ![t] = Ended(job[t].key)]
    /\ Release(job[t].proc)
    /\ UNCHANGED <<queue, viewer, crashes>>

(* _finish(key, token, result), then the finally clause. *)
Save(t) ==
    /\ job[t].stage = "saving"
    /\ Finish(t, GoodSave(t))
    /\ EndJob(t)

(* _finish(key, token, result) raises: the except clause records a failure. *)
SaveFails(t) ==
    /\ "save" \in Faults
    /\ job[t].stage = "saving"
    /\ job' = [job EXCEPT ![t].stage = "failing"]
    /\ UNCHANGED <<row, slots, queue, viewer, crashes>>

SaveUnacked(t) ==
    /\ "save_commit" \in Faults
    /\ job[t].stage = "saving"
    /\ Finish(t, GoodSave(t))
    /\ job' = [job EXCEPT ![t].stage = "failing"]
    /\ UNCHANGED <<slots, queue, viewer, crashes>>

(* _finish(key, token, None), then the finally clause. *)
Fail(t) ==
    /\ job[t].stage = "failing"
    /\ Finish(t, FailedSave(t))
    /\ EndJob(t)

FailFails(t) ==
    /\ "save" \in Faults
    /\ job[t].stage = "failing"
    /\ row' = row
    /\ EndJob(t)

-----------------------------------------------------------------------------
(* Without hangs nothing waits for free: a claim is submitted at once, a    *)
(* worker never idles while a job waits, and no job outstays its budget.    *)
OnTime ==
    /\ \A t \in InFlight : job[t].stage # "claimed"
    /\ \A p \in Proc : queue[p] # <<>> => Cardinality(Busy(p)) >= Workers
    /\ \A p \in Proc : \A t \in Busy(p) : job[t].age < Budget

CountDown(n) == IF n > Expired THEN n - 1 ELSE Expired

Waited(r) ==
    [r EXCEPT !.lease = CountDown(@), !.retry = IF @ > 0 THEN @ - 1 ELSE @]

Aged(j) ==
    IF j.stage \in Live
    THEN [j EXCEPT !.lease = CountDown(@),
                   !.age = IF j.stage \in Running /\ ~Hangs THEN @ + 1 ELSE @]
    ELSE j

Tick ==
    /\ Hangs \/ OnTime
    /\ row' = [k \in Key |-> Waited(row[k])]
    /\ job' = [t \in Token |-> Aged(job[t])]
    /\ UNCHANGED <<slots, queue, viewer, crashes>>

(* A process dies and comes back: its pool, permits and requests are lost,  *)
(* the table is not.                                                        *)
Crash(p) ==
    /\ crashes < MaxCrashes
    /\ crashes' = crashes + 1
    /\ slots' = [slots EXCEPT ![p] = Cap]
    /\ queue' = [queue EXCEPT ![p] = <<>>]
    /\ job' = [t \in Token |->
                 IF job[t].stage \in Live /\ job[t].proc = p THEN Ended(job[t].key) ELSE job[t]]
    /\ viewer' = [v \in Viewer |-> IF Home[v] = p THEN Idle ELSE viewer[v]]
    /\ row' = row

ViewerStep(v) ==
    \/ \E k \in Key : Look(v, k)
    \/ TurnedAway(v) \/ Acquire(v)
    \/ ClaimWins(v) \/ ClaimLoses(v) \/ ClaimFails(v) \/ ClaimUnacked(v)
    \/ Submit(v) \/ Reread(v) \/ RereadFails(v)

JobStep(t) ==
    \/ Evaluate(t)
    \/ Save(t) \/ SaveFails(t) \/ SaveUnacked(t)
    \/ Fail(t) \/ FailFails(t)

Next ==
    \/ \E v \in Viewer : ViewerStep(v)
    \/ \E p \in Proc : Start(p) \/ Crash(p)
    \/ \E t \in Token : JobStep(t)
    \/ Tick

Spec == Init /\ [][Next]_vars

(* Every thread that can run eventually runs and time passes; somebody      *)
(* keeps opening the page of every article (the page polls while an         *)
(* assessment is pending, and users come back).  Faults and crashes are     *)
(* never forced.                                                            *)
Fairness ==
    /\ \A k \in Key : SF_vars(\E v \in Viewer : Look(v, k))
    /\ \A v \in Viewer :
        /\ WF_vars(TurnedAway(v) \/ Acquire(v))
        /\ WF_vars(ClaimWins(v) \/ ClaimLoses(v))
        /\ WF_vars(Submit(v))
        /\ WF_vars(Reread(v))
    /\ \A p \in Proc : WF_vars(Start(p))
    /\ \A t \in Token : WF_vars(Evaluate(t)) /\ WF_vars(Save(t)) /\ WF_vars(Fail(t))
    /\ WF_vars(Tick)

FairSpec == Spec /\ Fairness

-----------------------------------------------------------------------------
JobStages == {"unused", "done"} \cup Live
ViewerStages == {"idle", "looking", "claiming", "submitting", "rereading"}

Row == [status : {"absent", "pending", "ready", "unavailable"},
        token : Token \cup {NoToken}, payload : Token \cup {NoToken},
        lease : Int, retry : Nat, attempts : Nat]
Job == [stage : JobStages, proc : Proc \cup {NoProc}, key : Key \cup {NoKey},
        lease : Int, age : Nat]
Request == [stage : ViewerStages, key : Key \cup {NoKey}, token : Token \cup {NoToken}]

(* Types of the table, the permits, the queues, the jobs and the requests. *)
TypeOK ==
    /\ row \in [Key -> Row]
    /\ slots \in [Proc -> 0..Cap]
    /\ queue \in [Proc -> Seq(Token)]
    /\ job \in [Token -> Job]
    /\ viewer \in [Viewer -> Request]
    /\ crashes \in 0..MaxCrashes

Claims(k) == {t \in Token : job[t].key = k}

(* The attempts column counts every claim any process ever won, also those  *)
(* whose process died, and never passes the bound: at most three paid calls *)
(* per assessment (README.md:329).                                          *)
AttemptsCountClaims ==
    \A k \in Key : /\ row[k].attempts = Cardinality(Claims(k))
                   /\ row[k].attempts <= MaxAttempts

(* While the lease of a job lasts, the row is that job's alone: no other    *)
(* claim and no late answer of an earlier claim touches it                  *)
(* (test_news_analysis.py:117, test_old_claim_cannot_overwrite_recovered_claim). *)
LeaseProtectsClaim ==
    \A t \in InFlight : job[t].lease >= 0 =>
        row[job[t].key].token = t /\ row[job[t].key].status = "pending"

(* Two workers, of any processes, hold the same assessment only when one of *)
(* them outlived its lease.                                                 *)
OverlapOnlyAfterLease ==
    \A t, u \in InFlight : t # u /\ job[t].key = job[u].key =>
        job[t].lease < 0 \/ job[u].lease < 0

(* A ready result is the one of the latest claim, never of a worker that    *)
(* had been given up and came back late.                                    *)
ResultFromOwner ==
    \A k \in Key : row[k].status = "ready" =>
        row[k].payload = row[k].token /\ row[k].payload # NoToken

(* "Completed results do not expire" (news_analysis.py:4): no retry, crash, *)
(* late worker or failure ever changes a ready row.                         *)
ReadyIsFinal ==
    [][\A k \in Key : row[k].status = "ready" => row'[k] = row[k]]_vars

Holders(p) ==
    {t \in InFlight : job[t].proc = p}
        \cup {v \in Viewer : Home[v] = p /\ viewer[v].stage = "claiming"}

(* Every permit of _slots is free, or with a request that is claiming, or   *)
(* with a job that is queued or running: none leaks and none is given back  *)
(* twice.                                                                   *)
SlotsConserved == \A p \in Proc : slots[p] + Cardinality(Holders(p)) = Cap

(* "Workers are bounded to four, with a queue cap of forty" (README.md:327). *)
QueueWithinCap ==
    \A p \in Proc : Len(queue[p]) + Cardinality(Busy(p)) <= Cap

(* "Database claims prevent concurrent duplicate calls" (README.md:327):    *)
(* when no job outstays its budget, the lease covers the wait in a full     *)
(* queue (news_analysis.py:28) and no two workers hold the same assessment. *)
NoConcurrentCalls ==
    \A t, u \in InFlight : job[t].key = job[u].key => t = u

(* An article that is looked at again and again ends up assessed, or has    *)
(* used up its attempts, also when processes crash and saves fail.          *)
EventuallySettled ==
    \A k \in Key : <>[](row[k].status = "ready" \/ row[k].attempts = MaxAttempts)

(* "Abandoned claims recover after ten minutes" (README.md:329): no row     *)
(* stays pending for ever.                                                  *)
AbandonedClaimsRecover ==
    \A k \in Key : row[k].status = "pending" ~> row[k].status \in {"ready", "unavailable"}

(* The abstract specification: the row's status, result and attempts. *)
Assessment == INSTANCE NewsAssessment WITH
    Result <- Token, NoResult <- NoToken,
    status <- [k \in Key |-> row[k].status],
    result <- [k \in Key |-> row[k].payload],
    attempts <- [k \in Key |-> row[k].attempts]

AssessmentSpec == Assessment!ASpec
=============================================================================

------------------------- MODULE NewsAnalysisProofs -------------------------
(***************************************************************************)
(* Proofs about NewsAnalysis for every number of processes, requests,      *)
(* articles and workers, every lease and every combination of faults.      *)
(***************************************************************************)
EXTENDS NewsAnalysis, FiniteSetTheorems, WellFoundedInduction, TLAPS

(* A job that is under way knows its article and its process; a token that  *)
(* nobody drew has no job.                                                  *)
JobOK ==
    \A t \in Token :
        /\ job[t].stage \in Live => job[t].key \in Key /\ job[t].proc \in Proc
        /\ job[t].stage = "unused" => job[t].key = NoKey

(* A request that works on an article names it; one that is about to submit *)
(* holds a token of its own, claimed for its process.                       *)
ViewerOK ==
    \A v \in Viewer :
        /\ viewer[v].stage \in {"looking", "claiming"} => viewer[v].key \in Key
        /\ viewer[v].stage = "submitting" =>
            /\ viewer[v].token \in Token
            /\ job[viewer[v].token].stage = "claimed"
            /\ job[viewer[v].token].proc = Home[v]
            /\ \A w \in Viewer : viewer[w].stage = "submitting"
                                 /\ viewer[w].token = viewer[v].token => w = v

(* A queue holds each of its process's waiting jobs once. *)
QueueOK ==
    \A p \in Proc : \A i \in 1..Len(queue[p]) :
        /\ job[queue[p][i]].stage = "queued"
        /\ job[queue[p][i]].proc = p
        /\ \A j \in 1..Len(queue[p]) : queue[p][i] = queue[p][j] => i = j

(* Only a drawn token is ever written into a row, the row of its article. *)
RowOK ==
    \A k \in Key :
        /\ row[k].status = "absent" => row[k].attempts = 0
        /\ row[k].status = "absent" <=> row[k].token = NoToken
        /\ row[k].token # NoToken => job[row[k].token].key = k
        /\ row[k].status = "ready" =>
             row[k].payload = row[k].token /\ row[k].lease = Expired /\ row[k].retry = 0
        /\ row[k].status # "ready" => row[k].payload = NoToken

(* While a job's lease lasts, its row still carries its token and the very  *)
(* same lease, unless its result was saved already.                         *)
LeaseOK ==
    \A t \in InFlight : job[t].lease >= 0 =>
        /\ row[job[t].key].token = t
        /\ \/ row[job[t].key].status = "ready"
           \/ /\ row[job[t].key].status = "pending"
              /\ row[job[t].key].lease = job[t].lease

Base == TypeOK /\ JobOK /\ ViewerOK /\ QueueOK
Inv == Base /\ RowOK /\ LeaseOK

(* Without saves that commit and raise, a job that still owns its row finds *)
(* it pending.                                                              *)
OwnerPending ==
    \A t \in InFlight : row[job[t].key].token = t => row[job[t].key].status = "pending"

-----------------------------------------------------------------------------
(* Facts used by every step below. *)
LEMMA Constants ==
    /\ \A v \in Viewer : Home[v] \in Proc
    /\ NoToken \notin Token /\ NoKey \notin Key /\ NoProc \notin Proc
    /\ Cap \in Nat \ {0} /\ Lease \in Nat /\ Retry \in Nat \ {0} /\ MaxCrashes \in Nat
  BY HomeAssumption, NullAssumption, SizeAssumption

(* Head and Tail of a waiting queue. *)
LEMMA HeadTail ==
  ASSUME NEW q \in Seq(Token), q # <<>>
  PROVE  /\ Head(q) \in Token /\ Head(q) = q[1] /\ 1 \in 1..Len(q)
         /\ Tail(q) \in Seq(Token)
         /\ Len(Tail(q)) = Len(q) - 1
         /\ \A i \in 1..Len(Tail(q)) : i + 1 \in 1..Len(q) /\ Tail(q)[i] = q[i + 1]
  OBVIOUS

(* The records the actions build are rows, jobs and requests. *)
LEMMA RowRecords ==
  /\ NoRow \in Row
  /\ \A k \in Key, t \in Token : row[k] \in Row => Claimed(k, t) \in Row
  /\ \A t \in Token : row[job[t].key] \in Row => FailedSave(t) \in Row /\ GoodSave(t) \in Row
  /\ \A r \in Row : Waited(r) \in Row
<1> USE DEF Row, Expired
<1>1. NoRow \in Row
  BY DEF NoRow
<1>2. \A k \in Key, t \in Token : row[k] \in Row => Claimed(k, t) \in Row
  BY Constants DEF Claimed
<1>3. \A t \in Token : row[job[t].key] \in Row => FailedSave(t) \in Row
  BY Constants DEF FailedSave, Saved
<1>4. \A t \in Token : row[job[t].key] \in Row => GoodSave(t) \in Row
  BY DEF GoodSave, Saved
<1>5. ASSUME NEW r \in Row  PROVE Waited(r) \in Row
  <2>1. CountDown(r.lease) \in Int
    BY DEF CountDown
  <2>2. (IF r.retry > 0 THEN r.retry - 1 ELSE r.retry) \in Nat
    OBVIOUS
  <2> QED
    BY <2>1, <2>2 DEF Waited
<1> QED
  BY <1>1, <1>2, <1>3, <1>4, <1>5

(* The same for the records of jobs ... *)
LEMMA JobRecords ==
  /\ NoJob \in Job
  /\ \A j \in Job, s \in JobStages : [j EXCEPT !.stage = s] \in Job
  /\ \A p \in Proc, k \in Key : NewJob(p, k) \in Job
  /\ \A k \in Key \cup {NoKey} : Ended(k) \in Job
  /\ \A j \in Job : Aged(j) \in Job
<1> USE DEF Job, Expired, JobStages, Live, Running
<1>1. NoJob \in Job
  BY DEF NoJob
<1>2. \A j \in Job, s \in JobStages : [j EXCEPT !.stage = s] \in Job
  OBVIOUS
<1>3. \A p \in Proc, k \in Key : NewJob(p, k) \in Job
  BY Constants DEF NewJob
<1>4. \A k \in Key \cup {NoKey} : Ended(k) \in Job
  BY DEF Ended
<1>5. ASSUME NEW j \in Job  PROVE Aged(j) \in Job
  <2>1. CountDown(j.lease) \in Int
    BY DEF CountDown
  <2>2. (IF j.stage \in Running /\ ~Hangs THEN j.age + 1 ELSE j.age) \in Nat
    OBVIOUS
  <2> QED
    BY <2>1, <2>2 DEF Aged
<1> QED
  BY <1>1, <1>2, <1>3, <1>4, <1>5

(* Time leaves the stage, the process and the article of a job alone. *)
LEMMA AgedFields ==
  ASSUME NEW j \in Job
  PROVE  /\ Aged(j).stage = j.stage /\ Aged(j).proc = j.proc /\ Aged(j).key = j.key
         /\ j.stage \in Live => Aged(j).lease = CountDown(j.lease)
         /\ j.stage \notin Live => Aged(j) = j
<1>1. CASE j.stage \in Live
  <2> DEFINE older == IF j.stage \in Running /\ ~Hangs THEN j.age + 1 ELSE j.age
  <2>1. Aged(j) = [j EXCEPT !.lease = CountDown(j.lease), !.age = older]
    BY <1>1 DEF Aged
  <2> HIDE DEF older
  <2> QED
    BY <1>1, <2>1 DEF Job
<1>2. CASE j.stage \notin Live
  BY <1>2 DEF Aged
<1> QED
  BY <1>1, <1>2

(* ... and of requests. *)
LEMMA RequestRecords ==
  /\ Idle \in Request
  /\ \A k \in Key : Looking(k) \in Request
  /\ \A r \in Request, s \in ViewerStages : [r EXCEPT !.stage = s] \in Request
  /\ \A r \in Request, t \in Token :
        [r EXCEPT !.stage = "submitting", !.token = t] \in Request
<1> USE DEF Request, ViewerStages
<1>1. Idle \in Request
  BY DEF Idle
<1>2. \A k \in Key : Looking(k) \in Request
  BY DEF Looking
<1>3. \A r \in Request, s \in ViewerStages : [r EXCEPT !.stage = s] \in Request
  OBVIOUS
<1>4. \A r \in Request, t \in Token :
        [r EXCEPT !.stage = "submitting", !.token = t] \in Request
  OBVIOUS
<1> QED
  BY <1>1, <1>2, <1>3, <1>4

(* A release never passes the cap. *)
LEMMA ReleaseType ==
  ASSUME slots \in [Proc -> 0..Cap], NEW p \in Proc, Release(p)
  PROVE  slots' \in [Proc -> 0..Cap]
  BY Constants DEF Release

(* What an action leaves in the type, given what the base invariant knows. *)
LEMMA TypeStep ==
  ASSUME Base, [Next]_vars
  PROVE  TypeOK'
<1> USE DEF Base, TypeOK
<1>0. /\ \A u \in Token : \A s \in {"evaluating", "saving", "failing", "queued"} :
            [job[u] EXCEPT !.stage = s] \in Job
      /\ \A v \in Viewer : [viewer[v] EXCEPT !.stage = "claiming"] \in Request
      /\ \A v \in Viewer : [viewer[v] EXCEPT !.stage = "rereading"] \in Request
  BY JobRecords, RequestRecords DEF JobStages, Live, Running, ViewerStages
<1>1. ASSUME NEW v \in Viewer, NEW k \in Key, Look(v, k)  PROVE TypeOK'
  BY <1>1, RequestRecords DEF Look
<1>2. ASSUME NEW v \in Viewer, TurnedAway(v) \/ Reread(v)  PROVE TypeOK'
  BY <1>2, RequestRecords DEF TurnedAway, Reread
<1>3. ASSUME NEW v \in Viewer, Acquire(v)  PROVE TypeOK'
  <2>1. slots[Home[v]] - 1 \in 0..Cap /\ Home[v] \in Proc
    BY <1>3, Constants DEF Acquire
  <2> QED
    BY <1>0, <1>3, <2>1 DEF Acquire
<1>4. ASSUME NEW v \in Viewer, ClaimWins(v)  PROVE TypeOK'
  <2>1. viewer[v].key \in Key /\ Home[v] \in Proc
    BY <1>4, Constants DEF ClaimWins, ViewerOK
  <2>2. PICK t \in Token :
          /\ row' = [row EXCEPT ![viewer[v].key] = Claimed(viewer[v].key, t)]
          /\ job' = [job EXCEPT ![t] = NewJob(Home[v], viewer[v].key)]
          /\ viewer' = [viewer EXCEPT ![v] = [@ EXCEPT !.stage = "submitting",
                                                       !.token = t]]
    BY <1>4 DEF ClaimWins
  <2> QED
    BY <1>4, <2>1, <2>2, RowRecords, JobRecords, RequestRecords DEF ClaimWins
<1>5. ASSUME NEW v \in Viewer, ClaimUnacked(v)  PROVE TypeOK'
  <2>1. viewer[v].key \in Key /\ Home[v] \in Proc
    BY <1>5, Constants DEF ClaimUnacked, ViewerOK
  <2>2. slots' \in [Proc -> 0..Cap]
    BY <1>5, <2>1, ReleaseType DEF ClaimUnacked
  <2>3. PICK t \in Token :
          /\ row' = [row EXCEPT ![viewer[v].key] = Claimed(viewer[v].key, t)]
          /\ job' = [job EXCEPT ![t] = Ended(viewer[v].key)]
    BY <1>5 DEF ClaimUnacked
  <2>4. viewer' \in [Viewer -> Request]
    BY <1>5, RequestRecords DEF ClaimUnacked
  <2> QED
    BY <1>5, <2>1, <2>2, <2>3, <2>4, RowRecords, JobRecords DEF ClaimUnacked
<1>6. ASSUME NEW v \in Viewer, ClaimLoses(v) \/ ClaimFails(v) \/ RereadFails(v)
      PROVE  TypeOK'
  <2>1. slots' \in [Proc -> 0..Cap]
    BY <1>6, Constants, ReleaseType DEF ClaimLoses, ClaimFails, RereadFails
  <2>2. viewer' \in [Viewer -> Request]
    BY <1>0, <1>6, RequestRecords DEF ClaimLoses, ClaimFails, RereadFails
  <2> QED
    BY <1>6, <2>1, <2>2 DEF ClaimLoses, ClaimFails, RereadFails
<1>7. ASSUME NEW v \in Viewer, Submit(v)  PROVE TypeOK'
  <2>1. viewer[v].token \in Token
    BY <1>7 DEF Submit, ViewerOK
  <2>2. viewer' \in [Viewer -> Request]
    BY <1>7, RequestRecords DEF Submit
  <2>3. [job[viewer[v].token] EXCEPT !.stage = "queued"] \in Job
    BY <1>0, <2>1
  <2>4. job' \in [Token -> Job]
    BY <1>7, <2>3 DEF Submit
  <2>5. queue' \in [Proc -> Seq(Token)]
    BY <1>7, <2>1, Constants DEF Submit
  <2> QED
    BY <1>7, <2>2, <2>4, <2>5 DEF Submit
<1>8. ASSUME NEW p \in Proc, Start(p)  PROVE TypeOK'
  <2>1. Head(queue[p]) \in Token /\ Tail(queue[p]) \in Seq(Token)
    BY <1>8, HeadTail DEF Start
  <2> QED
    BY <1>0, <1>8, <2>1 DEF Start
<1>9. ASSUME NEW p \in Proc, Crash(p)  PROVE TypeOK'
  <2>1. \A t \in Token : job[t].key \in Key \cup {NoKey}
    BY DEF Job
  <2> QED
    <3>1. job' \in [Token -> Job]
      BY <1>9, <2>1, JobRecords DEF Crash
    <3>2. viewer' \in [Viewer -> Request]
      BY <1>9, RequestRecords DEF Crash
    <3>3. slots' \in [Proc -> 0..Cap] /\ crashes' \in 0..MaxCrashes
      BY <1>9, Constants DEF Crash
    <3>4. queue' \in [Proc -> Seq(Token)] /\ row' = row
      BY <1>9 DEF Crash
    <3> QED
      BY <3>1, <3>2, <3>3, <3>4
<1>10. ASSUME NEW t \in Token, Evaluate(t) \/ SaveFails(t)  PROVE TypeOK'
  BY <1>0, <1>10 DEF Evaluate, SaveFails
<1>11. ASSUME NEW t \in Token, Save(t) \/ SaveUnacked(t) \/ Fail(t) \/ FailFails(t)
       PROVE  TypeOK'
  <2>1. job[t].key \in Key /\ job[t].proc \in Proc
    BY <1>11 DEF JobOK, Live, Running, Save, SaveUnacked, Fail, FailFails
  <2>2. row' \in [Key -> Row]
    BY <1>11, <2>1, RowRecords DEF Save, SaveUnacked, Fail, FailFails, Finish
  <2>3. slots' \in [Proc -> 0..Cap]
    BY <1>11, <2>1, ReleaseType DEF Save, SaveUnacked, Fail, FailFails, EndJob
  <2>4. Ended(job[t].key) \in Job /\ [job[t] EXCEPT !.stage = "failing"] \in Job
    BY <1>0, <2>1, JobRecords
  <2>5. job' \in [Token -> Job]
    BY <1>11, <2>4 DEF Save, SaveUnacked, Fail, FailFails, EndJob
  <2> QED
    BY <1>11, <2>2, <2>3, <2>5 DEF Save, SaveUnacked, Fail, FailFails, EndJob
<1>12. CASE Tick
  BY <1>12, RowRecords, JobRecords DEF Tick
<1>13. CASE UNCHANGED vars
  BY <1>13 DEF vars
<1> QED
  BY <1>1, <1>2, <1>3, <1>4, <1>5, <1>6, <1>7, <1>8, <1>9, <1>10, <1>11, <1>12, <1>13
     DEF Next, ViewerStep, JobStep

(* How a step may change one job: it is drawn, it goes on, or it ends. *)
LEMMA JobFrame ==
  ASSUME Base, [Next]_vars, NEW u \in Token
  PROVE  \/ job'[u] = job[u]
         \/ /\ job[u].stage = "unused"
            /\ job'[u].stage \in {"claimed", "done"} /\ job'[u].key \in Key
            /\ job'[u].stage = "claimed" => job'[u].proc \in Proc
         \/ /\ job[u].stage \in Live /\ job'[u].key = job[u].key
            /\ \/ job'[u].stage = "done"
               \/ job'[u].stage \in Live /\ job'[u].proc = job[u].proc
<1> DEFINE Frame == \/ job'[u] = job[u]
                    \/ /\ job[u].stage = "unused"
                       /\ job'[u].stage \in {"claimed", "done"} /\ job'[u].key \in Key
                       /\ job'[u].stage = "claimed" => job'[u].proc \in Proc
                    \/ /\ job[u].stage \in Live /\ job'[u].key = job[u].key
                       /\ \/ job'[u].stage = "done"
                          \/ job'[u].stage \in Live /\ job'[u].proc = job[u].proc
<1> USE DEF Base, TypeOK, Job, Live, Running
<1>1. ASSUME NEW v \in Viewer, NEW k \in Key, Look(v, k)  PROVE Frame
  BY <1>1 DEF Look
<1>2. ASSUME NEW v \in Viewer,
             TurnedAway(v) \/ Acquire(v) \/ Reread(v) \/ ClaimLoses(v) \/ ClaimFails(v)
                \/ RereadFails(v)
      PROVE  Frame
  BY <1>2 DEF TurnedAway, Acquire, Reread, ClaimLoses, ClaimFails, RereadFails
<1>3. ASSUME NEW v \in Viewer, ClaimWins(v)  PROVE Frame
  <2>1. viewer[v].key \in Key /\ Home[v] \in Proc
    BY <1>3, Constants DEF ClaimWins, ViewerOK
  <2>2. PICK t \in Token : /\ job[t].stage = "unused"
                           /\ job' = [job EXCEPT ![t] = NewJob(Home[v], viewer[v].key)]
    BY <1>3 DEF ClaimWins, Drawn
  <2> QED
    BY <2>1, <2>2 DEF NewJob
<1>4. ASSUME NEW v \in Viewer, ClaimUnacked(v)  PROVE Frame
  <2>1. viewer[v].key \in Key
    BY <1>4 DEF ClaimUnacked, ViewerOK
  <2>2. PICK t \in Token : /\ job[t].stage = "unused"
                           /\ job' = [job EXCEPT ![t] = Ended(viewer[v].key)]
    BY <1>4 DEF ClaimUnacked, Drawn
  <2> QED
    BY <2>1, <2>2 DEF Ended
<1>5. ASSUME NEW v \in Viewer, Submit(v)  PROVE Frame
  BY <1>5 DEF Submit, ViewerOK
<1>6. ASSUME NEW p \in Proc, Start(p)  PROVE Frame
  <2>1. Head(queue[p]) \in Token /\ job[Head(queue[p])].stage = "queued"
    BY <1>6, HeadTail DEF Start, QueueOK
  <2> QED
    BY <1>6, <2>1 DEF Start
<1>7. ASSUME NEW p \in Proc, Crash(p)  PROVE Frame
  BY <1>7 DEF Crash, Ended
<1>8. ASSUME NEW t \in Token, Evaluate(t) \/ SaveFails(t) \/ SaveUnacked(t)  PROVE Frame
  BY <1>8 DEF Evaluate, SaveFails, SaveUnacked
<1>9. ASSUME NEW t \in Token, Save(t) \/ Fail(t) \/ FailFails(t)  PROVE Frame
  BY <1>9 DEF Save, Fail, FailFails, EndJob, Ended
<1>10. CASE Tick
  <2>1. job'[u] = Aged(job[u])
    BY <1>10 DEF Tick
  <2> QED
    BY <2>1 DEF Aged
<1>11. CASE UNCHANGED vars
  BY <1>11 DEF vars
<1>12. Frame
  BY <1>1, <1>2, <1>3, <1>4, <1>5, <1>6, <1>7, <1>8, <1>9, <1>10, <1>11
     DEF Next, ViewerStep, JobStep
<1> QED
  BY <1>12

(* Every step keeps what is true of the jobs. *)
LEMMA JobStepOK ==
  ASSUME Base, [Next]_vars
  PROVE  JobOK'
<1> SUFFICES ASSUME NEW u \in Token
             PROVE  /\ job'[u].stage \in Live => job'[u].key \in Key /\ job'[u].proc \in Proc
                    /\ job'[u].stage = "unused" => job'[u].key = NoKey
  BY DEF JobOK
<1>1. /\ job[u].stage \in Live => job[u].key \in Key /\ job[u].proc \in Proc
      /\ job[u].stage = "unused" => job[u].key = NoKey
  BY DEF Base, JobOK
<1> QED
  BY <1>1, JobFrame DEF Live, Running

(* The oldest job of a queue is waiting, and for that process. *)
LEMMA HeadQueued ==
  ASSUME Base, NEW p \in Proc, queue[p] # <<>>
  PROVE  /\ Head(queue[p]) \in Token
         /\ job[Head(queue[p])].stage = "queued" /\ job[Head(queue[p])].proc = p
<1>1. queue[p] \in Seq(Token)
  BY DEF Base, TypeOK
<1>2. Head(queue[p]) \in Token /\ Head(queue[p]) = queue[p][1] /\ 1 \in 1..Len(queue[p])
  BY <1>1, HeadTail
<1> QED
  BY <1>2 DEF Base, QueueOK

(* A step that gives no token to a request keeps ViewerOK, if the tokens    *)
(* that requests keep stay claimed for the same process.                    *)
LEMMA NoNewHolder ==
  ASSUME ViewerOK,
         \A w \in Viewer :
           \/ viewer'[w].stage \notin {"looking", "claiming", "submitting"}
           \/ viewer'[w].stage \in {"looking", "claiming"} /\ viewer'[w].key \in Key
           \/ /\ viewer'[w] = viewer[w]
              /\ viewer[w].stage = "submitting" =>
                   /\ job'[viewer[w].token].stage = job[viewer[w].token].stage
                   /\ job'[viewer[w].token].proc = job[viewer[w].token].proc
  PROVE  ViewerOK'
  BY DEF ViewerOK

(* The tokens held by requests stay claimed and stay apart. *)
LEMMA ViewerStepOK ==
  ASSUME Base, [Next]_vars
  PROVE  ViewerOK'
<1> USE DEF Base
<1>0. viewer \in [Viewer -> Request] /\ job \in [Token -> Job]
  BY DEF TypeOK
<1>1. ASSUME NEW v \in Viewer, NEW k \in Key, Look(v, k)  PROVE ViewerOK'
  <2>1. \A w \in Viewer : viewer'[w] = IF w = v THEN Looking(k) ELSE viewer[w]
    BY <1>0, <1>1 DEF Look
  <2>2. Looking(k).stage = "looking" /\ Looking(k).key = k
    BY DEF Looking
  <2>3. job' = job
    BY <1>1 DEF Look
  <2> QED
    BY <2>1, <2>2, <2>3, NoNewHolder
<1>2. ASSUME NEW v \in Viewer,
             TurnedAway(v) \/ Reread(v) \/ ClaimFails(v) \/ RereadFails(v)
      PROVE  ViewerOK'
  <2>1. \A w \in Viewer : viewer'[w] = IF w = v THEN Idle ELSE viewer[w]
    BY <1>0, <1>2 DEF TurnedAway, Reread, ClaimFails, RereadFails
  <2>2. job' = job
    BY <1>2 DEF TurnedAway, Reread, ClaimFails, RereadFails
  <2> QED
    BY <2>1, <2>2, NoNewHolder DEF Idle
<1>3. ASSUME NEW v \in Viewer, Acquire(v) \/ ClaimLoses(v)  PROVE ViewerOK'
  <2>1. /\ viewer'[v].stage \in {"claiming", "rereading"}
        /\ viewer'[v].key = viewer[v].key
        /\ viewer[v].stage \in {"looking", "claiming"}
        /\ \A w \in Viewer : w # v => viewer'[w] = viewer[w]
        /\ job' = job
    BY <1>0, <1>3 DEF Acquire, ClaimLoses, Request
  <2>2. viewer[v].key \in Key
    BY <2>1 DEF ViewerOK
  <2> QED
    BY <2>1, <2>2, NoNewHolder
<1>4. ASSUME NEW v \in Viewer, ClaimWins(v)  PROVE ViewerOK'
  <2>1. PICK t \in Token :
          /\ job[t].stage = "unused"
          /\ job' = [job EXCEPT ![t] = NewJob(Home[v], viewer[v].key)]
          /\ viewer' = [viewer EXCEPT ![v] = [@ EXCEPT !.stage = "submitting",
                                                       !.token = t]]
    BY <1>4 DEF ClaimWins, Drawn
  <2>2. viewer'[v].stage = "submitting" /\ viewer'[v].token = t
    BY <1>0, <2>1 DEF Request
  <2>3. \A w \in Viewer : w # v => viewer'[w] = viewer[w]
    BY <1>0, <2>1
  <2>4. job'[t].stage = "claimed" /\ job'[t].proc = Home[v]
    BY <1>0, <2>1 DEF NewJob
  <2>5. \A u \in Token : u # t => job'[u] = job[u]
    BY <1>0, <2>1
  <2>6. \A w \in Viewer : viewer[w].stage = "submitting" => viewer[w].token # t
    BY <2>1 DEF ViewerOK
  <2> QED
    BY <2>2, <2>3, <2>4, <2>5, <2>6 DEF ViewerOK
<1>5. ASSUME NEW v \in Viewer, ClaimUnacked(v)  PROVE ViewerOK'
  <2>1. PICK t \in Token : /\ job[t].stage = "unused"
                           /\ job' = [job EXCEPT ![t] = Ended(viewer[v].key)]
    BY <1>5 DEF ClaimUnacked, Drawn
  <2>2. \A w \in Viewer : viewer'[w] = IF w = v THEN Idle ELSE viewer[w]
    BY <1>0, <1>5 DEF ClaimUnacked
  <2>3. \A u \in Token : u # t => job'[u] = job[u]
    BY <1>0, <2>1
  <2>4. \A w \in Viewer : viewer[w].stage = "submitting" =>
           viewer[w].token # t /\ viewer[w].token \in Token
    BY <2>1 DEF ViewerOK
  <2> QED
    BY <2>2, <2>3, <2>4, NoNewHolder DEF Idle, ViewerOK
<1>6. ASSUME NEW v \in Viewer, Submit(v)  PROVE ViewerOK'
  <2>1. \A w \in Viewer : viewer'[w] = IF w = v THEN Idle ELSE viewer[w]
    BY <1>0, <1>6 DEF Submit
  <2>2. \A w \in Viewer : w # v /\ viewer[w].stage = "submitting" =>
           viewer[w].token \in Token /\ viewer[w].token # viewer[v].token
    BY <1>6 DEF Submit, ViewerOK
  <2>3. \A u \in Token : u # viewer[v].token => job'[u] = job[u]
    BY <1>0, <1>6 DEF Submit
  <2> QED
    BY <2>1, <2>2, <2>3, NoNewHolder DEF Idle, ViewerOK
<1>7. ASSUME NEW p \in Proc, Start(p)  PROVE ViewerOK'
  <2>1. Head(queue[p]) \in Token /\ job[Head(queue[p])].stage = "queued"
    BY <1>7, HeadQueued DEF Start
  <2>2. \A u \in Token : u # Head(queue[p]) => job'[u] = job[u]
    BY <1>0, <1>7 DEF Start
  <2>3. viewer' = viewer
    BY <1>7 DEF Start
  <2>4. \A w \in Viewer : viewer[w].stage = "submitting" =>
           viewer[w].token \in Token /\ viewer[w].token # Head(queue[p])
    BY <2>1 DEF ViewerOK
  <2> QED
    BY <2>2, <2>3, <2>4, NoNewHolder DEF ViewerOK
<1>8. ASSUME NEW p \in Proc, Crash(p)  PROVE ViewerOK'
  <2>1. \A w \in Viewer : viewer'[w] = IF Home[w] = p THEN Idle ELSE viewer[w]
    BY <1>8 DEF Crash
  <2>2. \A u \in Token : job[u].proc # p => job'[u] = job[u]
    BY <1>8 DEF Crash
  <2>3. \A w \in Viewer : viewer[w].stage = "submitting" =>
           viewer[w].token \in Token /\ job[viewer[w].token].proc = Home[w]
    BY DEF ViewerOK
  <2> QED
    BY <2>1, <2>2, <2>3, NoNewHolder DEF Idle, ViewerOK
<1>9. ASSUME NEW t \in Token, JobStep(t)  PROVE ViewerOK'
  <2>1. /\ job[t].stage \in {"evaluating", "saving", "failing"}
        /\ \A u \in Token : u # t => job'[u] = job[u]
        /\ viewer' = viewer
    BY <1>0, <1>9
       DEF JobStep, Evaluate, Save, SaveFails, SaveUnacked, Fail, FailFails, EndJob
  <2>2. \A w \in Viewer : viewer[w].stage = "submitting" =>
           viewer[w].token \in Token /\ viewer[w].token # t
    BY <2>1 DEF ViewerOK
  <2> QED
    BY <2>1, <2>2, NoNewHolder DEF ViewerOK
<1>10. CASE Tick
  <2>1. ASSUME NEW u \in Token
        PROVE  job'[u].stage = job[u].stage /\ job'[u].proc = job[u].proc
    BY <1>0, <1>10, AgedFields DEF Tick
  <2>2. viewer' = viewer
    BY <1>10 DEF Tick
  <2> QED
    BY <2>1, <2>2, NoNewHolder DEF ViewerOK
<1>11. CASE UNCHANGED vars
  BY <1>11 DEF vars, ViewerOK
<1> QED
  BY <1>1, <1>2, <1>3, <1>4, <1>5, <1>6, <1>7, <1>8, <1>9, <1>10, <1>11
     DEF Next, ViewerStep

(* A step that changes no queue and takes no job out of it. *)
LEMMA QueueKeep ==
  ASSUME Base, queue' = queue,
         \A u \in Token : job[u].stage = "queued" =>
            job'[u].stage = "queued" /\ job'[u].proc = job[u].proc
  PROVE  QueueOK'
<1>1. \A p \in Proc : \A i \in 1..Len(queue[p]) : queue[p][i] \in Token
  BY DEF Base, TypeOK
<1> QED
  BY <1>1 DEF Base, QueueOK

(* Every step keeps what is true of the queues. *)
LEMMA QueueStepOK ==
  ASSUME Base, [Next]_vars
  PROVE  QueueOK'
<1> USE DEF Base
<1>0. queue \in [Proc -> Seq(Token)] /\ job \in [Token -> Job]
  BY DEF TypeOK
<1>1. ASSUME NEW v \in Viewer,
             \/ \E k \in Key : Look(v, k)
             \/ TurnedAway(v) \/ Acquire(v) \/ ClaimLoses(v) \/ ClaimFails(v)
             \/ Reread(v) \/ RereadFails(v)
      PROVE  QueueOK'
  <2>1. queue' = queue /\ job' = job
    BY <1>1 DEF Look, TurnedAway, Acquire, ClaimLoses, ClaimFails, Reread, RereadFails
  <2> QED
    BY <2>1, QueueKeep
<1>2. ASSUME NEW v \in Viewer, ClaimWins(v) \/ ClaimUnacked(v)  PROVE QueueOK'
  <2>1. PICK t \in Token : /\ job[t].stage = "unused"
                           /\ \A u \in Token : u # t => job'[u] = job[u]
    BY <1>0, <1>2 DEF ClaimWins, ClaimUnacked, Drawn
  <2>2. queue' = queue
    BY <1>2 DEF ClaimWins, ClaimUnacked
  <2> QED
    BY <2>1, <2>2, QueueKeep
<1>3. ASSUME NEW v \in Viewer, Submit(v)  PROVE QueueOK'
  <2> DEFINE h == Home[v]
             t == viewer[v].token
  <2>1. h \in Proc /\ t \in Token /\ job[t].stage = "claimed" /\ job[t].proc = h
    BY <1>3, Constants DEF Submit, ViewerOK
  <2>2. \A q \in Proc : queue'[q] = IF q = h THEN Append(queue[h], t) ELSE queue[q]
    BY <1>0, <1>3 DEF Submit
  <2>3. \A u \in Token : u # t => job'[u] = job[u]
    BY <1>0, <1>3 DEF Submit
  <2>4. job'[t].stage = "queued" /\ job'[t].proc = h
    BY <1>0, <1>3, <2>1 DEF Submit, Job
  <2> HIDE DEF h, t
  <2>5. ASSUME NEW q \in Proc, NEW i \in 1..Len(queue[q])
        PROVE  /\ queue[q][i] \in Token /\ queue[q][i] # t
               /\ job'[queue[q][i]].stage = "queued" /\ job'[queue[q][i]].proc = q
    BY <1>0, <2>1, <2>3 DEF QueueOK
  <2>6. ASSUME NEW q \in Proc, q # h  PROVE QueueOK!(q)'
    BY <2>2, <2>5, <2>6 DEF QueueOK
  <2>7. QueueOK!(h)'
    <3> DEFINE old == queue[h]
    <3>1. /\ Append(old, t) \in Seq(Token) /\ Len(Append(old, t)) = Len(old) + 1
          /\ Len(old) \in Nat
          /\ \A i \in 1..Len(old) : Append(old, t)[i] = old[i]
          /\ Append(old, t)[Len(old) + 1] = t
      BY <1>0, <2>1
    <3>2. \A i, j \in 1..Len(old) : old[i] = old[j] => i = j
      BY <2>1 DEF QueueOK
    <3>3. \A i \in 1..(Len(old) + 1) : i \in 1..Len(old) \/ i = Len(old) + 1
      BY <3>1
    <3>4. queue'[h] = Append(old, t)
      BY <2>1, <2>2
    <3>5. \A i \in 1..Len(old) :
            /\ old[i] # t
            /\ job'[old[i]].stage = "queued" /\ job'[old[i]].proc = h
      BY <2>1, <2>5
    <3> HIDE DEF old
    <3> QED
      BY <2>4, <3>1, <3>2, <3>3, <3>4, <3>5
  <2> QED
    BY <2>6, <2>7 DEF QueueOK
<1>4. ASSUME NEW p \in Proc, Start(p)  PROVE QueueOK'
  <2> DEFINE old == queue[p]
  <2>1. /\ old \in Seq(Token) /\ old # <<>>
        /\ \A q \in Proc : queue'[q] = IF q = p THEN Tail(old) ELSE queue[q]
        /\ \A u \in Token : u # Head(old) => job'[u] = job[u]
    BY <1>0, <1>4 DEF Start
  <2>2. Head(old) = old[1] /\ job[Head(old)].proc = p
    BY <2>1, HeadTail, HeadQueued
  <2>3. ASSUME NEW q \in Proc, q # p  PROVE QueueOK!(q)'
    <3>1. \A i \in 1..Len(queue[q]) : queue[q][i] \in Token /\ queue[q][i] # Head(old)
      BY <1>0, <2>2, <2>3 DEF QueueOK
    <3> QED
      BY <2>1, <2>3, <3>1 DEF QueueOK
  <2>4. QueueOK!(p)'
    <3>1. /\ Len(old) \in Nat /\ Len(Tail(old)) = Len(old) - 1
          /\ \A i \in 1..Len(Tail(old)) : i + 1 \in 1..Len(old) /\ Tail(old)[i] = old[i + 1]
          /\ 1 \in 1..Len(old)
      BY <2>1, HeadTail
    <3>2. \A i \in 1..Len(old) : old[i] \in Token
      BY <2>1
    <3>3. \A i \in 1..Len(old) :
            /\ job[old[i]].stage = "queued" /\ job[old[i]].proc = p
            /\ \A j \in 1..Len(old) : old[i] = old[j] => i = j
      BY DEF QueueOK
    <3>4. queue'[p] = Tail(old)
      BY <2>1
    <3> HIDE DEF old
    <3>5. ASSUME NEW i \in 1..Len(Tail(old))
          PROVE  /\ job'[Tail(old)[i]].stage = "queued" /\ job'[Tail(old)[i]].proc = p
                 /\ \A j \in 1..Len(Tail(old)) : Tail(old)[i] = Tail(old)[j] => i = j
      <4>1. i + 1 \in 1..Len(old) /\ Tail(old)[i] = old[i + 1] /\ i + 1 # 1
        BY <3>1
      <4>2. old[i + 1] # Head(old) /\ old[i + 1] \in Token
        BY <2>2, <3>1, <3>2, <3>3, <4>1
      <4>3. job'[old[i + 1]] = job[old[i + 1]]
        BY <2>1, <4>2
      <4>4. ASSUME NEW j \in 1..Len(Tail(old)), Tail(old)[i] = Tail(old)[j]  PROVE i = j
        <5>1. j + 1 \in 1..Len(old) /\ Tail(old)[j] = old[j + 1]
          BY <3>1
        <5>2. i + 1 = j + 1
          BY <3>3, <4>1, <4>4, <5>1
        <5> QED
          BY <5>2
      <4> QED
        BY <3>3, <4>1, <4>3, <4>4
    <3> QED
      BY <3>4, <3>5
  <2> QED
    BY <2>3, <2>4 DEF QueueOK
<1>5. ASSUME NEW p \in Proc, Crash(p)  PROVE QueueOK'
  <2>1. /\ \A q \in Proc : queue'[q] = IF q = p THEN <<>> ELSE queue[q]
        /\ \A u \in Token : job[u].proc # p => job'[u] = job[u]
    BY <1>0, <1>5 DEF Crash
  <2>2. \A q \in Proc : \A i \in 1..Len(queue[q]) : queue[q][i] \in Token
    BY <1>0
  <2>3. 1..Len(<<>>) = {}
    OBVIOUS
  <2> QED
    BY <2>1, <2>2, <2>3 DEF QueueOK
<1>6. ASSUME NEW t \in Token, JobStep(t)  PROVE QueueOK'
  <2>1. /\ job[t].stage \in {"evaluating", "saving", "failing"}
        /\ \A u \in Token : u # t => job'[u] = job[u]
        /\ queue' = queue
    BY <1>0, <1>6
       DEF JobStep, Evaluate, Save, SaveFails, SaveUnacked, Fail, FailFails, EndJob
  <2> QED
    BY <2>1, QueueKeep
<1>7. CASE Tick
  <2>1. ASSUME NEW u \in Token
        PROVE  job'[u].stage = job[u].stage /\ job'[u].proc = job[u].proc
    BY <1>0, <1>7, AgedFields DEF Tick
  <2>2. queue' = queue
    BY <1>7 DEF Tick
  <2> QED
    BY <2>1, <2>2, QueueKeep
<1>8. CASE UNCHANGED vars
  <2>1. queue' = queue /\ job' = job
    BY <1>8 DEF vars
  <2> QED
    BY <2>1, QueueKeep
<1> QED
  BY <1>1, <1>2, <1>3, <1>4, <1>5, <1>6, <1>7, <1>8 DEF Next, ViewerStep

(* Together: every step keeps the base invariant. *)
LEMMA BaseStep ==
  ASSUME Base, [Next]_vars
  PROVE  Base'
  BY TypeStep, JobStepOK, ViewerStepOK, QueueStepOK DEF Base

-----------------------------------------------------------------------------
(* The steps that touch the table: a claim under a fresh token, a save by   *)
(* the owner, the passing of time.  A job that records a failure ends with  *)
(* it, and so does one that saves a result, unless the save was not         *)
(* acknowledged.                                                            *)
SameKeys(S) == \A u \in S : job'[u].key = job[u].key

ClaimStep(k, t) ==
    /\ Claimable(k)
    /\ row' = [row EXCEPT ![k] = Claimed(k, t)]
    /\ job[t].stage = "unused"
    /\ job'[t].key = k /\ job'[t].stage \in {"claimed", "done"}
    /\ SameKeys(Token \ {t})

SaveStep(t) ==
    /\ job[t].stage \in Running /\ job[t].key \in Key /\ Owns(t)
    /\ row' = [row EXCEPT ![job[t].key] = GoodSave(t)]
    /\ job'[t].stage = "done" \/ "save_commit" \in Faults
    /\ SameKeys(Token)

FailStep(t) ==
    /\ job[t].stage \in Running /\ job[t].key \in Key /\ Owns(t)
    /\ row' = [row EXCEPT ![job[t].key] = FailedSave(t)]
    /\ job'[t].stage = "done"
    /\ SameKeys(Token)

(* Every step is one of five as far as the table is concerned. *)
LEMMA TableSteps ==
  ASSUME Base, [Next]_vars
  PROVE  \/ row' = row /\ SameKeys(Token)
         \/ \E k \in Key, t \in Token : ClaimStep(k, t)
         \/ \E t \in Token : SaveStep(t) \/ FailStep(t)
         \/ Tick
<1> DEFINE Goal == \/ row' = row /\ SameKeys(Token)
                   \/ \E k \in Key, t \in Token : ClaimStep(k, t)
                   \/ \E t \in Token : SaveStep(t) \/ FailStep(t)
                   \/ Tick
<1> USE DEF Base
<1>0. job \in [Token -> Job]
  BY DEF TypeOK
<1>1. ASSUME NEW v \in Viewer,
             \/ \E k \in Key : Look(v, k)
             \/ TurnedAway(v) \/ Acquire(v) \/ ClaimLoses(v) \/ ClaimFails(v)
             \/ Reread(v) \/ RereadFails(v)
      PROVE  Goal
  BY <1>1 DEF Look, TurnedAway, Acquire, ClaimLoses, ClaimFails, Reread, RereadFails,
              SameKeys
<1>2. ASSUME NEW v \in Viewer, ClaimWins(v) \/ ClaimUnacked(v)  PROVE Goal
  <2> DEFINE k == viewer[v].key
  <2>1. k \in Key /\ Claimable(k)
    BY <1>2 DEF ClaimWins, ClaimUnacked, ViewerOK
  <2>2. PICK t \in Token :
          /\ job[t].stage = "unused"
          /\ row' = [row EXCEPT ![k] = Claimed(k, t)]
          /\ \/ job' = [job EXCEPT ![t] = NewJob(Home[v], k)]
             \/ job' = [job EXCEPT ![t] = Ended(k)]
    BY <1>2 DEF ClaimWins, ClaimUnacked, Drawn
  <2>3. job'[t].key = k /\ job'[t].stage \in {"claimed", "done"}
    BY <1>0, <2>2 DEF NewJob, Ended
  <2>4. SameKeys(Token \ {t})
    BY <1>0, <2>2 DEF SameKeys
  <2> QED
    BY <2>1, <2>2, <2>3, <2>4 DEF ClaimStep
<1>3. ASSUME NEW v \in Viewer, Submit(v)  PROVE Goal
  <2>1. row' = row
    BY <1>3 DEF Submit
  <2>2. job' = [job EXCEPT ![viewer[v].token] = [@ EXCEPT !.stage = "queued"]]
    BY <1>3 DEF Submit
  <2> QED
    BY <1>0, <2>1, <2>2 DEF Job, SameKeys
<1>4. ASSUME NEW p \in Proc, Start(p)  PROVE Goal
  <2>1. row' = row
    BY <1>4 DEF Start
  <2>2. job' = [job EXCEPT ![Head(queue[p])] = [@ EXCEPT !.stage = "evaluating"]]
    BY <1>4 DEF Start
  <2> QED
    BY <1>0, <2>1, <2>2 DEF Job, SameKeys
<1>5. ASSUME NEW p \in Proc, Crash(p)  PROVE Goal
  BY <1>5 DEF Crash, Ended, SameKeys
<1>6. ASSUME NEW t \in Token, Evaluate(t) \/ SaveFails(t)  PROVE Goal
  <2>1. row' = row
    BY <1>6 DEF Evaluate, SaveFails
  <2>2. \E s \in {"saving", "failing"} : job' = [job EXCEPT ![t] = [@ EXCEPT !.stage = s]]
    BY <1>6 DEF Evaluate, SaveFails
  <2> QED
    BY <1>0, <2>1, <2>2 DEF Job, SameKeys
<1>7. ASSUME NEW t \in Token, Save(t) \/ SaveUnacked(t) \/ Fail(t) \/ FailFails(t)
      PROVE  Goal
  <2>1. job[t].stage \in Running /\ job[t].key \in Key
    BY <1>7 DEF JobOK, Live, Running, Save, SaveUnacked, Fail, FailFails
  <2>2. \/ job' = [job EXCEPT ![t] = Ended(job[t].key)]
        \/ job' = [job EXCEPT ![t] = [@ EXCEPT !.stage = "failing"]]
    BY <1>7 DEF Save, SaveUnacked, Fail, FailFails, EndJob
  <2>3. SameKeys(Token)
    BY <1>0, <2>2 DEF Ended, Job, SameKeys
  <2>4. CASE Save(t)
    BY <1>0, <2>1, <2>3, <2>4 DEF Save, Finish, EndJob, Ended, SaveStep
  <2>5. CASE SaveUnacked(t)
    BY <2>1, <2>3, <2>5 DEF SaveUnacked, Finish, SaveStep
  <2>6. CASE Fail(t)
    BY <1>0, <2>1, <2>3, <2>6 DEF Fail, Finish, EndJob, Ended, FailStep
  <2>7. CASE FailFails(t)
    BY <2>3, <2>7 DEF FailFails
  <2> QED
    BY <1>7, <2>4, <2>5, <2>6, <2>7
<1>8. CASE UNCHANGED vars
  BY <1>8 DEF vars, SameKeys
<1> QED
  BY <1>1, <1>2, <1>3, <1>4, <1>5, <1>6, <1>7, <1>8 DEF Next, ViewerStep, JobStep

(* What time does to a row: nothing at all to one that is ready. *)
LEMMA WaitedFields ==
  ASSUME NEW r \in Row
  PROVE  /\ Waited(r).status = r.status /\ Waited(r).token = r.token
         /\ Waited(r).payload = r.payload /\ Waited(r).attempts = r.attempts
         /\ Waited(r).lease = CountDown(r.lease)
         /\ r.lease = Expired /\ r.retry = 0 => Waited(r) = r
<1> DEFINE left == IF r.retry > 0 THEN r.retry - 1 ELSE r.retry
<1>1. Waited(r) = [r EXCEPT !.lease = CountDown(r.lease), !.retry = left]
  BY DEF Waited
<1>2. r.lease = Expired /\ r.retry = 0 => CountDown(r.lease) = r.lease /\ left = r.retry
  BY DEF CountDown, Expired
<1> HIDE DEF left
<1> QED
  BY <1>1, <1>2 DEF Row

(* Every step keeps what is true of the rows. *)
LEMMA RowStepOK ==
  ASSUME Base, RowOK, [Next]_vars
  PROVE  RowOK'
<1>0. /\ row \in [Key -> Row] /\ job \in [Token -> Job] /\ row' \in [Key -> Row]
      /\ \A u \in Token : job[u].stage = "unused" => job[u].key = NoKey
  BY TypeStep DEF Base, TypeOK, JobOK
<1>1. CASE row' = row /\ SameKeys(Token)
  <2>1. \A k \in Key : row[k].token \in Token \cup {NoToken}
    BY <1>0 DEF Row
  <2> QED
    BY <1>1, <2>1 DEF RowOK, SameKeys
<1>2. ASSUME NEW k \in Key, NEW t \in Token, ClaimStep(k, t)  PROVE RowOK'
  <2>1. \A l \in Key : row'[l] = IF l = k THEN Claimed(k, t) ELSE row[l]
    BY <1>0, <1>2 DEF ClaimStep
  <2>2. /\ Claimed(k, t).status = "pending" /\ Claimed(k, t).token = t
        /\ Claimed(k, t).payload = NoToken
    BY <1>2 DEF ClaimStep, Claimed, Claimable, RowOK
  <2>3. /\ job'[t].key = k /\ t # NoToken
        /\ \A u \in Token : u # t => job'[u].key = job[u].key
        /\ job[t].key = NoKey
    BY <1>0, <1>2, Constants DEF ClaimStep, SameKeys
  <2>4. \A l \in Key : row[l].token # NoToken => row[l].token \in Token /\ row[l].token # t
    BY <1>0, <2>3, Constants DEF RowOK, Row
  <2> QED
    BY <2>1, <2>2, <2>3, <2>4 DEF RowOK
<1>3. ASSUME NEW t \in Token, SaveStep(t) \/ FailStep(t)  PROVE RowOK'
  <2> DEFINE k == job[t].key
  <2>1. k \in Key /\ row[k].token = t /\ SameKeys(Token)
    BY <1>3 DEF SaveStep, FailStep, Owns
  <2>2. \/ \A l \in Key : row'[l] = IF l = k THEN GoodSave(t) ELSE row[l]
        \/ \A l \in Key : row'[l] = IF l = k THEN FailedSave(t) ELSE row[l]
    BY <1>0, <1>3 DEF SaveStep, FailStep
  <2>3. /\ GoodSave(t).status = "ready" /\ GoodSave(t).token = t
        /\ GoodSave(t).payload = t /\ GoodSave(t).lease = Expired /\ GoodSave(t).retry = 0
        /\ FailedSave(t).status = "unavailable" /\ FailedSave(t).token = t
        /\ FailedSave(t).payload = NoToken
    BY <2>1 DEF GoodSave, FailedSave, Saved
  <2>4. \A l \in Key : row[l].token \in Token \cup {NoToken}
    BY <1>0 DEF Row
  <2> HIDE DEF k
  <2> QED
    BY <2>1, <2>2, <2>3, <2>4, Constants DEF RowOK, SameKeys
<1>4. CASE Tick
  <2>1. \A k \in Key : row'[k] = Waited(row[k])
    BY <1>4 DEF Tick
  <2>2. \A u \in Token : job'[u].key = job[u].key
    BY <1>0, <1>4, AgedFields DEF Tick
  <2>3. ASSUME NEW k \in Key
        PROVE  /\ row'[k].status = row[k].status /\ row'[k].token = row[k].token
               /\ row'[k].payload = row[k].payload /\ row'[k].attempts = row[k].attempts
               /\ row[k].lease = Expired /\ row[k].retry = 0 => row'[k] = row[k]
    BY <1>0, <2>1, WaitedFields
  <2>4. \A l \in Key : row[l].token \in Token \cup {NoToken}
    BY <1>0 DEF Row
  <2> QED
    BY <2>2, <2>3, <2>4 DEF RowOK
<1> QED
  BY <1>1, <1>2, <1>3, <1>4, TableSteps

(* The lease a job holds: fresh when it is claimed, then untouched but for  *)
(* the passing of time.                                                     *)
LEMMA JobLease ==
  ASSUME Base, [Next]_vars, ~Tick, NEW u \in Token, job'[u].stage \in Live
  PROVE  \/ job[u].stage \in Live /\ job'[u].lease = job[u].lease
         \/ /\ job[u].stage = "unused" /\ job'[u].key \in Key /\ job'[u].lease = Lease
            /\ row' = [row EXCEPT ![job'[u].key] = Claimed(job'[u].key, u)]
<1> DEFINE Goal == \/ job[u].stage \in Live /\ job'[u].lease = job[u].lease
                   \/ /\ job[u].stage = "unused" /\ job'[u].key \in Key
                      /\ job'[u].lease = Lease
                      /\ row' = [row EXCEPT ![job'[u].key] = Claimed(job'[u].key, u)]
<1>0. job \in [Token -> Job]
  BY DEF Base, TypeOK
<1>1. job[u].stage \in Live \/ job[u].stage = "unused" \/ job'[u] = job[u]
  BY JobFrame
<1>2. CASE job'[u] = job[u]
  BY <1>2
<1>3. CASE job'[u] # job[u]
  <2>1. ASSUME NEW v \in Viewer, ClaimWins(v)  PROVE Goal
    <3>1. PICK t \in Token :
            /\ job[t].stage = "unused"
            /\ row' = [row EXCEPT ![viewer[v].key] = Claimed(viewer[v].key, t)]
            /\ job' = [job EXCEPT ![t] = NewJob(Home[v], viewer[v].key)]
      BY <2>1 DEF ClaimWins, Drawn
    <3>2. t = u /\ job'[u] = NewJob(Home[v], viewer[v].key)
      BY <1>0, <1>3, <3>1
    <3>3. viewer[v].key \in Key
      BY <2>1 DEF Base, ViewerOK, ClaimWins
    <3>4. job'[u].key = viewer[v].key /\ job'[u].lease = Lease
      BY <3>2 DEF NewJob
    <3> QED
      BY <3>1, <3>2, <3>3, <3>4
  <2>2. ASSUME NEW v \in Viewer, ClaimUnacked(v)  PROVE Goal
    <3>1. PICK t \in Token : job' = [job EXCEPT ![t] = Ended(viewer[v].key)]
      BY <2>2 DEF ClaimUnacked
    <3>2. job'[u] = Ended(viewer[v].key)
      BY <1>0, <1>3, <3>1
    <3> QED
      BY <3>2 DEF Ended, Live, Running
  <2>3. ASSUME NEW v \in Viewer, Submit(v)  PROVE Goal
    <3>1. job' = [job EXCEPT ![viewer[v].token] = [@ EXCEPT !.stage = "queued"]]
      BY <2>3 DEF Submit
    <3>2. u = viewer[v].token /\ job[u].stage = "claimed"
      BY <1>0, <1>3, <2>3, <3>1 DEF Submit, Base, ViewerOK
    <3> QED
      BY <1>0, <3>1, <3>2 DEF Job, Live
  <2>4. ASSUME NEW p \in Proc, Start(p)  PROVE Goal
    <3>1. job' = [job EXCEPT ![Head(queue[p])] = [@ EXCEPT !.stage = "evaluating"]]
      BY <2>4 DEF Start
    <3>2. u = Head(queue[p]) /\ job[u].stage = "queued"
      BY <1>0, <1>3, <2>4, <3>1, HeadQueued DEF Start
    <3> QED
      BY <1>0, <3>1, <3>2 DEF Job, Live
  <2>5. ASSUME NEW p \in Proc, Crash(p)  PROVE Goal
    <3>1. job'[u] = Ended(job[u].key)
      BY <1>3, <2>5 DEF Crash
    <3> QED
      BY <3>1 DEF Ended, Live, Running
  <2>6. ASSUME NEW t \in Token, Evaluate(t) \/ SaveFails(t) \/ SaveUnacked(t)  PROVE Goal
    <3>1. /\ job[t].stage \in Running
          /\ \E s \in {"saving", "failing"} : job' = [job EXCEPT ![t] = [@ EXCEPT !.stage = s]]
      BY <2>6 DEF Evaluate, SaveFails, SaveUnacked, Running
    <3>2. u = t
      BY <1>0, <1>3, <3>1
    <3> QED
      BY <1>0, <3>1, <3>2 DEF Job, Live
  <2>7. ASSUME NEW t \in Token, Save(t) \/ Fail(t) \/ FailFails(t)  PROVE Goal
    <3>1. job' = [job EXCEPT ![t] = Ended(job[t].key)]
      BY <2>7 DEF Save, Fail, FailFails, EndJob
    <3>2. job'[u] = Ended(job[t].key)
      BY <1>0, <1>3, <3>1
    <3> QED
      BY <3>2 DEF Ended, Live, Running
  <2>8. ASSUME NEW v \in Viewer,
               \/ \E k \in Key : Look(v, k)
               \/ TurnedAway(v) \/ Acquire(v) \/ ClaimLoses(v) \/ ClaimFails(v)
               \/ Reread(v) \/ RereadFails(v)
        PROVE  Goal
    BY <1>3, <2>8
       DEF Look, TurnedAway, Acquire, ClaimLoses, ClaimFails, Reread, RereadFails
  <2>9. ~UNCHANGED vars
    BY <1>3 DEF vars
  <2> QED
    BY <2>1, <2>2, <2>3, <2>4, <2>5, <2>6, <2>7, <2>8, <2>9 DEF Next, ViewerStep, JobStep
<1> QED
  BY <1>2, <1>3

(* Every step keeps jobs and rows agreed on their leases. *)
LEMMA LeaseStepOK ==
  ASSUME Inv, [Next]_vars
  PROVE  LeaseOK'
<1> USE DEF Inv
<1>0. row \in [Key -> Row] /\ job \in [Token -> Job] /\ Lease \in Nat
  BY Constants DEF Base, TypeOK
<1>1. SUFFICES ASSUME NEW t \in Token, job'[t].stage \in Live, job'[t].lease >= 0
               PROVE  /\ row'[job'[t].key].token = t
                      /\ \/ row'[job'[t].key].status = "ready"
                         \/ /\ row'[job'[t].key].status = "pending"
                            /\ row'[job'[t].key].lease = job'[t].lease
  BY DEF LeaseOK, InFlight
<1>2. CASE Tick
  <2>1. job'[t] = Aged(job[t])
    BY <1>2 DEF Tick
  <2>2. /\ job[t].stage \in Live /\ job'[t].key = job[t].key
        /\ job'[t].lease = CountDown(job[t].lease) /\ job[t].lease \in Int
    BY <1>0, <1>1, <2>1, AgedFields DEF Job
  <2>3. job[t].key \in Key /\ job[t].lease >= 0
    BY <1>1, <2>2 DEF Base, JobOK, CountDown, Expired
  <2>4. LeaseOK!(t)
    BY <2>2, <2>3 DEF LeaseOK, InFlight
  <2>5. row'[job[t].key] = Waited(row[job[t].key]) /\ row[job[t].key] \in Row
    BY <1>0, <1>2, <2>3 DEF Tick
  <2> QED
    BY <1>0, <2>2, <2>3, <2>4, <2>5, WaitedFields
<1>3. CASE ~Tick
  <2>1. CASE job[t].stage = "unused"
    <3>1. /\ job'[t].key \in Key /\ job'[t].lease = Lease
          /\ row' = [row EXCEPT ![job'[t].key] = Claimed(job'[t].key, t)]
      BY <1>1, <1>3, <2>1, JobLease DEF Live, Running
    <3> QED
      BY <1>0, <3>1 DEF Claimed
  <2>2. CASE job[t].stage # "unused"
    <3> DEFINE k == job[t].key
    <3>1. job[t].stage \in Live /\ job'[t].lease = job[t].lease
      BY <1>1, <1>3, <2>2, JobLease
    <3>2. job'[t].key = k /\ k \in Key
      BY <2>2, <3>1, JobFrame DEF Base, JobOK
    <3>3. /\ row[k].token = t
          /\ \/ row[k].status = "ready"
             \/ row[k].status = "pending" /\ row[k].lease = job[t].lease
      BY <1>1, <3>1, <3>2 DEF LeaseOK, InFlight
    <3>4. CASE row' = row
      BY <3>1, <3>2, <3>3, <3>4
    <3>5. ASSUME NEW l \in Key, NEW u \in Token, ClaimStep(l, u)  PROVE row'[k] = row[k]
      <4>1. job[t].lease \in Int /\ job[t].lease >= 0
        BY <1>0, <1>1, <3>1 DEF Job
      <4>2. ~Claimable(k)
        BY <3>3, <4>1 DEF Claimable
      <4> QED
        BY <1>0, <3>2, <3>5, <4>2 DEF ClaimStep
    <3>6. ASSUME NEW u \in Token, SaveStep(u)
          PROVE  \/ row'[k] = row[k]
                 \/ row'[k].status = "ready" /\ row'[k].token = t
      BY <1>0, <3>2, <3>3, <3>6 DEF SaveStep, Owns, GoodSave, Saved
    <3>7. ASSUME NEW u \in Token, FailStep(u)  PROVE row'[k] = row[k]
      <4>1. u # t
        BY <1>1, <3>7 DEF FailStep, Live, Running
      <4>2. job[u].key # k
        BY <3>3, <3>7, <4>1 DEF FailStep, Owns
      <4> QED
        BY <1>0, <3>2, <3>7, <4>2 DEF FailStep
    <3> HIDE DEF k
    <3> QED
      BY <1>3, <3>1, <3>2, <3>3, <3>4, <3>5, <3>6, <3>7, TableSteps
  <2> QED
    BY <2>1, <2>2
<1> QED
  BY <1>2, <1>3

-----------------------------------------------------------------------------
(* The invariant holds at the start ... *)
LEMMA InitInv ==
  ASSUME Init
  PROVE  Inv
<1> USE DEF Init
<1>1. TypeOK
  <2>1. Cap \in 0..Cap /\ 0 \in 0..MaxCrashes /\ <<>> \in Seq(Token)
    BY Constants
  <2> QED
    BY <2>1, RowRecords, JobRecords, RequestRecords DEF TypeOK
<1>2. JobOK
  BY DEF JobOK, NoJob, Live, Running
<1>3. ViewerOK
  BY DEF ViewerOK, Idle
<1>4. QueueOK
  BY DEF QueueOK
<1>5. RowOK
  BY DEF RowOK, NoRow
<1>6. LeaseOK
  BY DEF LeaseOK, InFlight, NoJob, Live, Running
<1> QED
  BY <1>1, <1>2, <1>3, <1>4, <1>5, <1>6 DEF Inv, Base

(* ... and every step keeps it. *)
LEMMA InvStep ==
  ASSUME Inv, [Next]_vars
  PROVE  Inv'
  BY BaseStep, RowStepOK, LeaseStepOK DEF Inv

(* The invariant the safety theorems rest on. *)
THEOREM Invariance == Spec => []Inv
<1>1. Init => Inv
  BY InitInv
<1>2. Inv /\ [Next]_vars => Inv'
  BY InvStep
<1> QED
  BY <1>1, <1>2, PTL DEF Spec

(* Types hold along every behaviour. *)
THEOREM TypeCorrect == Spec => []TypeOK
<1>1. Inv => TypeOK
  BY DEF Inv, Base
<1> QED
  BY <1>1, Invariance, PTL

(* Two workers hold the same assessment only after one of them outlived its *)
(* lease, whatever fails and whoever crashes.                               *)
THEOREM OverlapSafe == Spec => []OverlapOnlyAfterLease
<1>1. Inv => OverlapOnlyAfterLease
  <2> SUFFICES ASSUME Inv, NEW t \in InFlight, NEW u \in InFlight,
                      t # u, job[t].key = job[u].key
               PROVE  job[t].lease < 0 \/ job[u].lease < 0
    BY DEF OverlapOnlyAfterLease
  <2>1. job[t].lease \in Int /\ job[u].lease \in Int
    BY DEF InFlight, Inv, Base, TypeOK, Job
  <2>2. job[t].lease >= 0 => row[job[t].key].token = t
    BY DEF Inv, LeaseOK
  <2>3. job[u].lease >= 0 => row[job[u].key].token = u
    BY DEF Inv, LeaseOK
  <2> QED
    BY <2>1, <2>2, <2>3
<1> QED
  BY <1>1, Invariance, PTL

(* A ready row always shows the result of its latest claim. *)
THEOREM ResultSafe == Spec => []ResultFromOwner
<1>1. Inv => ResultFromOwner
  BY DEF Inv, RowOK, ResultFromOwner
<1> QED
  BY <1>1, Invariance, PTL

-----------------------------------------------------------------------------
(* The attempts column.  A claim adds the fresh token to the claims of its  *)
(* article, and nothing else changes which tokens were drawn for what.      *)
AttemptsExact ==
    \A k \in Key : /\ IsFiniteSet(Claims(k))
                   /\ row[k].attempts = Cardinality(Claims(k))
                   /\ row[k].attempts <= MaxAttempts

(* Every step keeps the attempts equal to the claims. *)
LEMMA AttemptsStep ==
  ASSUME Inv, AttemptsExact, [Next]_vars
  PROVE  AttemptsExact'
<1>0. row \in [Key -> Row] /\ job \in [Token -> Job] /\ MaxAttempts \in Nat \ {0}
  BY SizeAssumption DEF Inv, Base, TypeOK
<1>1. ASSUME SameKeys(Token),
             \A k \in Key : row'[k].attempts = row[k].attempts
      PROVE  AttemptsExact'
  BY <1>1 DEF AttemptsExact, Claims, SameKeys
<1>2. ASSUME NEW k \in Key, NEW t \in Token, ClaimStep(k, t)  PROVE AttemptsExact'
  <2>1. job[t].key = NoKey
    BY <1>2 DEF ClaimStep, Inv, Base, JobOK
  <2>2. Claims(k)' = Claims(k) \cup {t} /\ t \notin Claims(k)
    BY <1>2, <2>1, Constants DEF ClaimStep, Claims, SameKeys
  <2>3. \A l \in Key \ {k} : Claims(l)' = Claims(l)
    BY <1>2, <2>1, Constants DEF ClaimStep, Claims, SameKeys
  <2>4. row'[k] = Claimed(k, t) /\ \A l \in Key \ {k} : row'[l] = row[l]
    BY <1>0, <1>2 DEF ClaimStep
  <2>5. row[k].attempts \in Nat /\ row[k].attempts < MaxAttempts
    <3>1. row[k].attempts \in Nat
      BY <1>0 DEF Row
    <3>2. row[k].status = "absent" => row[k].attempts = 0
      BY DEF Inv, RowOK
    <3> QED
      BY <1>0, <1>2, <3>1, <3>2 DEF ClaimStep, Claimable
  <2>6. row'[k].attempts = row[k].attempts + 1
    BY <2>4 DEF Claimed
  <2>7. /\ IsFiniteSet(Claims(k)')
        /\ Cardinality(Claims(k)') = Cardinality(Claims(k)) + 1
    BY <2>2, FS_AddElement DEF AttemptsExact
  <2> QED
    BY <1>0, <2>3, <2>4, <2>5, <2>6, <2>7 DEF AttemptsExact
<1>3. CASE row' = row /\ SameKeys(Token)
  BY <1>1, <1>3
<1>4. ASSUME NEW t \in Token, SaveStep(t) \/ FailStep(t)  PROVE AttemptsExact'
  <2>1. \A k \in Key : row'[k].attempts = row[k].attempts
    BY <1>0, <1>4 DEF SaveStep, FailStep, GoodSave, FailedSave, Saved
  <2> QED
    BY <1>1, <1>4, <2>1 DEF SaveStep, FailStep
<1>5. CASE Tick
  <2>1. \A k \in Key : row'[k].attempts = row[k].attempts
    BY <1>0, <1>5, WaitedFields DEF Tick
  <2>2. SameKeys(Token)
    BY <1>0, <1>5, AgedFields DEF Tick, SameKeys
  <2> QED
    BY <1>1, <2>1, <2>2
<1> QED
  BY <1>2, <1>3, <1>4, <1>5, TableSteps DEF Inv

(* At most MaxAttempts claims are ever won for an article, and the column   *)
(* counts them all, those of crashed processes included.                    *)
THEOREM AttemptsSafe == Spec => []AttemptsCountClaims
<1>1. Init => AttemptsExact
  <2> SUFFICES ASSUME Init  PROVE AttemptsExact
    OBVIOUS
  <2>1. \A k \in Key : Claims(k) = {}
    BY Constants DEF Init, Claims, NoJob
  <2> QED
    <3>1. \A k \in Key : row[k].attempts = 0
      BY DEF Init, NoRow
    <3>2. IsFiniteSet({}) /\ Cardinality({}) = 0
      BY FS_EmptySet
    <3> QED
      BY <2>1, <3>1, <3>2, SizeAssumption DEF AttemptsExact
<1>2. AttemptsExact /\ Inv /\ [Next]_vars => AttemptsExact'
  BY AttemptsStep
<1>3. AttemptsExact => AttemptsCountClaims
  BY DEF AttemptsExact, AttemptsCountClaims
<1> QED
  BY <1>1, <1>2, <1>3, Invariance, PTL DEF Spec

-----------------------------------------------------------------------------
(* From here on no save commits and raises.  A job that still owns its row  *)
(* then finds it pending.                                                   *)
LEMMA OwnerStep ==
  ASSUME Inv, OwnerPending, [Next]_vars, "save_commit" \notin Faults
  PROVE  OwnerPending'
<1>0. row \in [Key -> Row] /\ job \in [Token -> Job]
  BY DEF Inv, Base, TypeOK
<1>1. SUFFICES ASSUME NEW t \in Token, job'[t].stage \in Live,
                      row'[job'[t].key].token = t
               PROVE  row'[job'[t].key].status = "pending"
  BY DEF OwnerPending, InFlight
<1> DEFINE k == job'[t].key
<1>2. /\ k \in Key
      /\ \/ job[t].stage = "unused"
         \/ job[t].stage \in Live /\ job[t].key = k
  <2>1. JobOK /\ JobOK'
    BY JobStepOK DEF Inv, Base
  <2>2. k \in Key
    BY <1>1, <2>1 DEF JobOK
  <2>3. Base
    BY DEF Inv
  <2>4. job'[t].stage \notin {"unused", "done"}
    BY <1>1 DEF Live, Running
  <2> HIDE DEF k
  <2> QED
    BY <1>1, <2>2, <2>3, <2>4, JobFrame DEF k
<1>3. row[k].token = t => row[k].status = "pending"
  <2>1. job[t].stage = "unused" => row[k].token # t
    BY <1>2, Constants DEF Inv, Base, JobOK, RowOK
  <2> QED
    BY <1>2, <2>1 DEF OwnerPending, InFlight
<1> HIDE DEF k
<1>4. CASE row' = row
  BY <1>1, <1>3, <1>4 DEF k
<1>5. ASSUME NEW l \in Key, NEW u \in Token, ClaimStep(l, u)
      PROVE  row'[k] = row[k] \/ row'[k].status = "pending"
  BY <1>0, <1>2, <1>5 DEF ClaimStep, Claimed
<1>6. ASSUME NEW u \in Token, SaveStep(u) \/ FailStep(u)  PROVE row'[k] = row[k]
  <2>1. u # t
    BY <1>1, <1>6 DEF SaveStep, FailStep, Live, Running
  <2>2. /\ job[u].key \in Key /\ row[job[u].key].token = u
        /\ row' = [row EXCEPT ![job[u].key] = GoodSave(u)]
             \/ row' = [row EXCEPT ![job[u].key] = FailedSave(u)]
    BY <1>6 DEF SaveStep, FailStep, Owns
  <2>3. GoodSave(u).token = u /\ FailedSave(u).token = u
    BY <2>2 DEF GoodSave, FailedSave, Saved
  <2> QED
    BY <1>0, <1>1, <1>2, <2>1, <2>2, <2>3 DEF k
<1>7. ASSUME Tick  PROVE row'[k].token = row[k].token /\ row'[k].status = row[k].status
  BY <1>0, <1>2, <1>7, WaitedFields DEF Tick
<1> QED
  BY <1>1, <1>3, <1>4, <1>5, <1>6, <1>7, TableSteps DEF k, Inv

(* Nobody owns a row at the start. *)
LEMMA OwnerInit ==
  ASSUME Init
  PROVE  OwnerPending
  BY DEF Init, OwnerPending, InFlight, NoJob, Live, Running

(* While its lease lasts, the row belongs to the job that claimed it. *)
THEOREM LeaseSafe ==
  ASSUME "save_commit" \notin Faults
  PROVE  Spec => []LeaseProtectsClaim
<1>1. Init => OwnerPending
  BY OwnerInit
<1>2. OwnerPending /\ Inv /\ [Next]_vars => OwnerPending'
  BY OwnerStep
<1>3. OwnerPending /\ Inv => LeaseProtectsClaim
  BY DEF OwnerPending, Inv, LeaseOK, LeaseProtectsClaim
<1> QED
  BY <1>1, <1>2, <1>3, Invariance, PTL DEF Spec

(* The only steps that end an attempt find the row pending. *)
LEMMA SavesFindPending ==
  ASSUME OwnerPending, NEW t \in Token, SaveStep(t) \/ FailStep(t)
  PROVE  row[job[t].key].status = "pending"
  BY DEF OwnerPending, InFlight, SaveStep, FailStep, Owns, Live

(* Nothing ever changes a ready row. *)
THEOREM ReadyForever ==
  ASSUME "save_commit" \notin Faults
  PROVE  Spec => ReadyIsFinal
<1>1. Init => OwnerPending
  BY OwnerInit
<1>2. OwnerPending /\ Inv /\ [Next]_vars => OwnerPending'
  BY OwnerStep
<1>3. ASSUME OwnerPending, Inv, [Next]_vars, NEW k \in Key, row[k].status = "ready"
      PROVE  row'[k] = row[k]
  <2>0. row \in [Key -> Row]
    BY <1>3 DEF Inv, Base, TypeOK
  <2>1. ASSUME NEW l \in Key, NEW t \in Token, ClaimStep(l, t)  PROVE row'[k] = row[k]
    <3>1. l # k
      BY <1>3, <2>1 DEF ClaimStep, Claimable
    <3> QED
      BY <2>0, <2>1, <3>1 DEF ClaimStep
  <2>2. ASSUME NEW t \in Token, SaveStep(t) \/ FailStep(t)  PROVE row'[k] = row[k]
    <3>1. job[t].key # k
      BY <1>3, <2>2, SavesFindPending
    <3> QED
      BY <2>0, <2>2, <3>1 DEF SaveStep, FailStep
  <2>3. ASSUME Tick  PROVE row'[k] = row[k]
    <3>1. row'[k] = Waited(row[k]) /\ row[k] \in Row
      BY <2>0, <2>3 DEF Tick
    <3>2. row[k].lease = Expired /\ row[k].retry = 0
      BY <1>3 DEF Inv, RowOK
    <3> QED
      BY <3>1, <3>2, WaitedFields
  <2> QED
    BY <1>3, <2>1, <2>2, <2>3, TableSteps DEF Inv
<1>4. OwnerPending /\ Inv /\ [Next]_vars
        => [\A k \in Key : row[k].status = "ready" => row'[k] = row[k]]_vars
  BY <1>3
<1> QED
  BY <1>1, <1>2, <1>4, Invariance, PTL DEF Spec, ReadyIsFinal

-----------------------------------------------------------------------------
(* Every behaviour of the table is one of the abstract assessments: claims  *)
(* are attempts, a saved result completes the attempt, a recorded failure   *)
(* gives it up, and everything else is invisible.                           *)
THEOREM Refinement ==
  ASSUME "save_commit" \notin Faults
  PROVE  Spec => AssessmentSpec
<1>1. Init => OwnerPending
  BY OwnerInit
<1>2. OwnerPending /\ Inv /\ [Next]_vars => OwnerPending'
  BY OwnerStep
<1>3. Init => Assessment!AInit
  BY DEF Init, Assessment!AInit, NoRow
<1>4. ASSUME OwnerPending, Inv, [Next]_vars
      PROVE  [Assessment!ANext]_(Assessment!avars)
  <2>0. row \in [Key -> Row]
    BY <1>4 DEF Inv, Base, TypeOK
  <2>1. ASSUME NEW k \in Key, NEW t \in Token, ClaimStep(k, t)
        PROVE  Assessment!Attempt(k)
    <3>1. row' = [row EXCEPT ![k] = Claimed(k, t)]
      BY <2>1 DEF ClaimStep
    <3>2. /\ Claimed(k, t).status = "pending"
          /\ Claimed(k, t).payload = row[k].payload
          /\ Claimed(k, t).attempts = row[k].attempts + 1
      BY DEF Claimed
    <3>3. row[k].status # "ready" /\ row[k].attempts < MaxAttempts
      BY <1>4, <2>1, SizeAssumption DEF ClaimStep, Claimable, Inv, RowOK
    <3> QED
      BY <2>0, <3>1, <3>2, <3>3 DEF Assessment!Attempt
  <2>2. ASSUME NEW t \in Token, SaveStep(t), NEW k \in Key, k = job[t].key
        PROVE  Assessment!Complete(k)
    <3>1. row' = [row EXCEPT ![k] = GoodSave(t)]
      BY <2>2 DEF SaveStep
    <3>2. /\ GoodSave(t).status = "ready" /\ GoodSave(t).payload = t
          /\ GoodSave(t).attempts = row[k].attempts
      BY <2>2 DEF GoodSave, Saved
    <3>3. row[k].status = "pending"
      BY <1>4, <2>2, SavesFindPending
    <3>4. [l \in Key |-> row'[l].payload]
            = [[l \in Key |-> row[l].payload] EXCEPT ![k] = t]
      BY <2>0, <3>1, <3>2
    <3>5. \E r \in Token : [l \in Key |-> row'[l].payload]
                            = [[l \in Key |-> row[l].payload] EXCEPT ![k] = r]
      BY <3>4
    <3> QED
      BY <2>0, <3>1, <3>2, <3>3, <3>5 DEF Assessment!Complete
  <2>3. ASSUME NEW t \in Token, FailStep(t), NEW k \in Key, k = job[t].key
        PROVE  Assessment!GiveUp(k)
    <3>1. row' = [row EXCEPT ![k] = FailedSave(t)]
      BY <2>3 DEF FailStep
    <3>2. /\ FailedSave(t).status = "unavailable" /\ FailedSave(t).payload = NoToken
          /\ FailedSave(t).attempts = row[k].attempts
      BY <2>3 DEF FailedSave, Saved
    <3>3. row[k].status = "pending"
      BY <1>4, <2>3, SavesFindPending
    <3>4. row[k].payload = NoToken
      BY <1>4, <3>3 DEF Inv, RowOK
    <3> QED
      BY <2>0, <3>1, <3>2, <3>3, <3>4 DEF Assessment!GiveUp
  <2>4. CASE row' = row
    BY <2>4 DEF Assessment!avars
  <2>5. CASE Tick
    <3>1. \A k \in Key : /\ row'[k].status = row[k].status
                         /\ row'[k].payload = row[k].payload
                         /\ row'[k].attempts = row[k].attempts
      BY <2>0, <2>5, WaitedFields DEF Tick
    <3> QED
      BY <3>1 DEF Assessment!avars
  <2>6. ASSUME NEW k \in Key, NEW t \in Token, ClaimStep(k, t)  PROVE Assessment!ANext
    BY <2>1, <2>6 DEF Assessment!ANext
  <2>7. ASSUME NEW t \in Token, SaveStep(t) \/ FailStep(t)  PROVE Assessment!ANext
    <3>1. job[t].key \in Key
      BY <2>7 DEF SaveStep, FailStep
    <3>2. PICK k \in Key : k = job[t].key
      BY <3>1
    <3>3. Assessment!Complete(k) \/ Assessment!GiveUp(k)
      BY <2>2, <2>3, <2>7, <3>2
    <3> QED
      BY <3>3 DEF Assessment!ANext
  <2>8. \/ row' = row
        \/ \E k \in Key, t \in Token : ClaimStep(k, t)
        \/ \E t \in Token : SaveStep(t) \/ FailStep(t)
        \/ Tick
    BY <1>4, TableSteps DEF Inv
  <2> QED
    BY <2>4, <2>5, <2>6, <2>7, <2>8
<1> QED
  BY <1>1, <1>2, <1>3, <1>4, Invariance, PTL DEF Spec, AssessmentSpec, Assessment!ASpec

-----------------------------------------------------------------------------
(* The permits, the queue and the time that jobs spend in it, for every     *)
(* number of workers and permits, every budget and lease.                   *)

(* No answer about a lost claim gives its permit back twice (news_abandoned *)
(* shows what happens otherwise).                                           *)
RereadsSucceed == "reread" \notin Faults

-----------------------------------------------------------------------------
(* A permit is held for a job that is under way or a request that claims.   *)
JobHolders(p) == {t \in Token : job[t].stage \in Live /\ job[t].proc = p}
RequestHolders(p) == {v \in Viewer : Home[v] = p /\ viewer[v].stage = "claiming"}

(* The holders of the permits, one kind after the other. *)
LEMMA HoldersByKind ==
  ASSUME NEW p \in Proc
  PROVE  Holders(p) = JobHolders(p) \cup RequestHolders(p)
  BY DEF Holders, InFlight, JobHolders, RequestHolders

(* How a step changes the permits of a process: not at all, one is taken,   *)
(* one is given back, one passes from a request to its job, or the process  *)
(* starts anew.                                                             *)
Kept(p) == Holders(p)' = Holders(p) /\ slots'[p] = slots[p]
Taken(p) ==
    \E x : /\ x \notin Holders(p) /\ Holders(p)' = Holders(p) \cup {x}
           /\ slots[p] > 0 /\ slots'[p] = slots[p] - 1
GivenBack(p) ==
    \E x \in Holders(p) : /\ Holders(p)' = Holders(p) \ {x}
                          /\ slots'[p] = IF slots[p] < Cap THEN slots[p] + 1 ELSE slots[p]
Passed(p) ==
    /\ \E x \in Holders(p) : \E y :
         y \notin Holders(p) /\ Holders(p)' = (Holders(p) \ {x}) \cup {y}
    /\ slots'[p] = slots[p]
Emptied(p) == Holders(p)' = {} /\ slots'[p] = Cap

PermitMove(p) == Kept(p) \/ Taken(p) \/ GivenBack(p) \/ Passed(p) \/ Emptied(p)

(* Jobs that keep their process and stay under way, or stay out of it, keep *)
(* their permits.                                                           *)
SameLife(u) ==
    /\ job'[u].stage \in Live <=> job[u].stage \in Live
    /\ job[u].stage \in Live => job'[u].proc = job[u].proc

(* The jobs that hold permits stay, ... *)
LEMMA JobsKeep ==
  ASSUME NEW p \in Proc, \A u \in Token : SameLife(u)
  PROVE  JobHolders(p)' = JobHolders(p)
  BY DEF JobHolders, SameLife

(* ... or one more holds one, ... *)
LEMMA JobTaken ==
  ASSUME NEW p \in Proc, NEW t \in Token, \A u \in Token \ {t} : SameLife(u),
         job[t].stage \notin Live, job'[t].stage \in Live
  PROVE  /\ job'[t].proc = p => JobHolders(p)' = JobHolders(p) \cup {t} /\ t \notin JobHolders(p)
         /\ job'[t].proc # p => JobHolders(p)' = JobHolders(p)
  BY DEF JobHolders, SameLife

(* ... or one fewer. *)
LEMMA JobGivenBack ==
  ASSUME NEW p \in Proc, NEW t \in Token, \A u \in Token \ {t} : SameLife(u),
         job[t].stage \in Live, job'[t].stage \notin Live
  PROVE  /\ job[t].proc = p => JobHolders(p)' = JobHolders(p) \ {t} /\ t \in JobHolders(p)
         /\ job[t].proc # p => JobHolders(p)' = JobHolders(p)
  BY DEF JobHolders, SameLife

(* A request moves alone. *)
MovesAlone(v) == \A w \in Viewer \ {v} : viewer'[w] = viewer[w]

(* The requests that hold permits stay, ... *)
LEMMA RequestsKeep ==
  ASSUME NEW p \in Proc, NEW v \in Viewer, MovesAlone(v),
         viewer'[v].stage = "claiming" <=> viewer[v].stage = "claiming"
  PROVE  RequestHolders(p)' = RequestHolders(p)
  BY DEF RequestHolders, MovesAlone

(* ... or one more holds one, ... *)
LEMMA RequestTaken ==
  ASSUME NEW p \in Proc, NEW v \in Viewer, MovesAlone(v),
         viewer[v].stage # "claiming", viewer'[v].stage = "claiming"
  PROVE  /\ Home[v] = p => RequestHolders(p)' = RequestHolders(p) \cup {v} /\ v \notin RequestHolders(p)
         /\ Home[v] # p => RequestHolders(p)' = RequestHolders(p)
  BY DEF RequestHolders, MovesAlone

(* ... or one fewer. *)
LEMMA RequestGivenBack ==
  ASSUME NEW p \in Proc, NEW v \in Viewer, MovesAlone(v),
         viewer[v].stage = "claiming", viewer'[v].stage # "claiming"
  PROVE  /\ Home[v] = p => RequestHolders(p)' = RequestHolders(p) \ {v} /\ v \in RequestHolders(p)
         /\ Home[v] # p => RequestHolders(p)' = RequestHolders(p)
  BY DEF RequestHolders, MovesAlone

(* A request is not a job. *)
LEMMA Apart ==
  ASSUME NEW p \in Proc
  PROVE  /\ \A v \in Viewer : v \notin JobHolders(p)
         /\ \A t \in Token : t \notin RequestHolders(p)
  BY KindsAssumption DEF JobHolders, RequestHolders

(* Every step is one of these moves for every process. *)
LEMMA PermitsMove ==
  ASSUME Base, [Next]_vars, RereadsSucceed, NEW p \in Proc
  PROVE  PermitMove(p)
<1>0. /\ slots \in [Proc -> 0..Cap] /\ job \in [Token -> Job] /\ viewer \in [Viewer -> Request]
      /\ Cap \in Nat /\ \A v \in Viewer : Home[v] \in Proc
      /\ Holders(p) = JobHolders(p) \cup RequestHolders(p)
      /\ Holders(p)' = JobHolders(p)' \cup RequestHolders(p)'
  <2>1. Holders(p)' = JobHolders(p)' \cup RequestHolders(p)'
    BY DEF Holders, InFlight, JobHolders, RequestHolders
  <2> QED
    BY <2>1, HoldersByKind, Constants DEF Base, TypeOK
<1>1. ASSUME NEW v \in Viewer,
             \/ \E k \in Key : Look(v, k)
             \/ TurnedAway(v) \/ Reread(v) \/ RereadFails(v) \/ Submit(v)
      PROVE  PermitMove(p)
  <2>1. /\ MovesAlone(v) /\ slots' = slots
        /\ viewer[v].stage # "claiming" /\ viewer'[v].stage # "claiming"
    BY <1>0, <1>1
       DEF Look, Looking, TurnedAway, Reread, RereadFails, RereadsSucceed, Submit, MovesAlone, Idle
  <2>2. \A u \in Token : SameLife(u)
    <3>1. CASE Submit(v)
      <4>1. /\ viewer[v].token \in Token /\ job[viewer[v].token].stage = "claimed"
            /\ job' = [job EXCEPT ![viewer[v].token].stage = "queued"]
        BY <3>1 DEF Base, ViewerOK, Submit
      <4> QED
        BY <1>0, <4>1 DEF SameLife, Live, Job
    <3>2. CASE ~Submit(v)
      <4>1. job' = job
        BY <1>1, <3>2 DEF Look, TurnedAway, Reread, RereadFails
      <4> QED
        BY <4>1 DEF SameLife
    <3> QED
      BY <3>1, <3>2
  <2>3. JobHolders(p)' = JobHolders(p) /\ RequestHolders(p)' = RequestHolders(p)
    BY <2>1, <2>2, JobsKeep, RequestsKeep
  <2> QED
    BY <1>0, <2>1, <2>3 DEF PermitMove, Kept
<1>2. ASSUME NEW v \in Viewer, Acquire(v)  PROVE PermitMove(p)
  <2>1. /\ MovesAlone(v) /\ viewer[v].stage # "claiming" /\ viewer'[v].stage = "claiming"
        /\ job' = job /\ slots[Home[v]] > 0 /\ slots' = [slots EXCEPT ![Home[v]] = @ - 1]
    BY <1>0, <1>2 DEF Acquire, MovesAlone, Request
  <2>2. JobHolders(p)' = JobHolders(p)
    BY <2>1 DEF JobHolders
  <2>3. CASE Home[v] = p
    <3>1. RequestHolders(p)' = RequestHolders(p) \cup {v} /\ v \notin RequestHolders(p)
      BY <2>1, <2>3, RequestTaken
    <3>2. v \notin JobHolders(p)
      BY Apart
    <3>3. slots[p] > 0 /\ slots'[p] = slots[p] - 1
      BY <1>0, <2>1, <2>3
    <3>4. v \notin Holders(p) /\ Holders(p)' = Holders(p) \cup {v}
      BY <1>0, <2>2, <3>1, <3>2
    <3> QED
      BY <3>3, <3>4 DEF PermitMove, Taken
  <2>4. CASE Home[v] # p
    <3>1. RequestHolders(p)' = RequestHolders(p)
      BY <2>1, <2>4, RequestTaken
    <3> QED
      BY <1>0, <2>1, <2>2, <2>4, <3>1 DEF PermitMove, Kept
  <2> QED
    BY <2>3, <2>4
<1>3. ASSUME NEW v \in Viewer, ClaimWins(v)  PROVE PermitMove(p)
  <2>1. PICK t \in Token : /\ job[t].stage = "unused"
                           /\ job' = [job EXCEPT ![t] = NewJob(Home[v], viewer[v].key)]
                           /\ viewer' = [viewer EXCEPT ![v] = [@ EXCEPT !.stage = "submitting",
                                                                        !.token = t]]
    BY <1>3 DEF ClaimWins, Drawn
  <2>2. /\ MovesAlone(v) /\ viewer[v].stage = "claiming" /\ viewer'[v].stage # "claiming"
        /\ slots' = slots
    BY <1>0, <1>3, <2>1 DEF ClaimWins, MovesAlone, Request
  <2>3. /\ \A u \in Token \ {t} : SameLife(u)
        /\ job[t].stage \notin Live /\ job'[t].stage \in Live /\ job'[t].proc = Home[v]
    BY <1>0, <2>1 DEF SameLife, NewJob, Live, Running
  <2>4. CASE Home[v] = p
    <3>1. /\ RequestHolders(p)' = RequestHolders(p) \ {v} /\ v \in RequestHolders(p)
          /\ JobHolders(p)' = JobHolders(p) \cup {t} /\ t \notin JobHolders(p)
      BY <2>2, <2>3, <2>4, RequestGivenBack, JobTaken
    <3>2. v \notin JobHolders(p) /\ t \notin RequestHolders(p)
      BY Apart
    <3>3. /\ v \in Holders(p) /\ t \notin Holders(p)
          /\ Holders(p)' = (Holders(p) \ {v}) \cup {t}
      BY <1>0, <3>1, <3>2
    <3> QED
      BY <2>2, <3>3 DEF PermitMove, Passed
  <2>5. CASE Home[v] # p
    <3>1. RequestHolders(p)' = RequestHolders(p) /\ JobHolders(p)' = JobHolders(p)
      BY <2>2, <2>3, <2>5, RequestGivenBack, JobTaken
    <3> QED
      BY <1>0, <2>2, <3>1 DEF PermitMove, Kept
  <2> QED
    BY <2>4, <2>5
<1>4. ASSUME NEW v \in Viewer, ClaimLoses(v) \/ ClaimFails(v) \/ ClaimUnacked(v)
      PROVE  PermitMove(p)
  <2>1. /\ MovesAlone(v) /\ viewer[v].stage = "claiming" /\ viewer'[v].stage # "claiming"
        /\ Release(Home[v])
    BY <1>0, <1>4 DEF ClaimLoses, ClaimFails, ClaimUnacked, MovesAlone, Idle, Request
  <2>2. \A u \in Token : SameLife(u)
    <3>1. CASE ClaimUnacked(v)
      <4>1. PICK t \in Token : /\ job[t].stage = "unused"
                               /\ job' = [job EXCEPT ![t] = Ended(viewer[v].key)]
        BY <3>1 DEF ClaimUnacked, Drawn
      <4> QED
        BY <1>0, <4>1 DEF SameLife, Ended, Live, Running
    <3>2. CASE job' = job
      BY <3>2 DEF SameLife
    <3> QED
      BY <1>4, <3>1, <3>2 DEF ClaimLoses, ClaimFails
  <2>3. JobHolders(p)' = JobHolders(p)
    BY <2>2, JobsKeep
  <2>4. CASE Home[v] = p
    <3>1. RequestHolders(p)' = RequestHolders(p) \ {v} /\ v \in RequestHolders(p)
      BY <2>1, <2>4, RequestGivenBack
    <3>2. v \notin JobHolders(p)
      BY Apart
    <3>3. v \in Holders(p) /\ Holders(p)' = Holders(p) \ {v}
      BY <1>0, <2>3, <3>1, <3>2
    <3>4. slots'[p] = IF slots[p] < Cap THEN slots[p] + 1 ELSE slots[p]
      BY <1>0, <2>1, <2>4 DEF Release
    <3> QED
      BY <3>3, <3>4 DEF PermitMove, GivenBack
  <2>5. CASE Home[v] # p
    <3>1. RequestHolders(p)' = RequestHolders(p)
      BY <2>1, <2>5, RequestGivenBack
    <3>2. slots'[p] = slots[p]
      BY <1>0, <2>1, <2>5 DEF Release
    <3> QED
      BY <1>0, <2>3, <3>1, <3>2 DEF PermitMove, Kept
  <2> QED
    BY <2>4, <2>5
<1>5. ASSUME NEW q \in Proc, Start(q)  PROVE PermitMove(p)
  <2>1. /\ Head(queue[q]) \in Token /\ job[Head(queue[q])].stage = "queued"
        /\ job' = [job EXCEPT ![Head(queue[q])].stage = "evaluating"]
        /\ slots' = slots /\ viewer' = viewer
    BY <1>5, HeadQueued DEF Start
  <2>2. \A u \in Token : SameLife(u)
    BY <1>0, <2>1 DEF SameLife, Live, Running, Job
  <2>3. JobHolders(p)' = JobHolders(p) /\ RequestHolders(p)' = RequestHolders(p)
    BY <2>1, <2>2, JobsKeep DEF RequestHolders
  <2> QED
    BY <1>0, <2>1, <2>3 DEF PermitMove, Kept
<1>6. ASSUME NEW t \in Token, Evaluate(t) \/ SaveFails(t) \/ SaveUnacked(t)
      PROVE  PermitMove(p)
  <2>1. slots' = slots /\ viewer' = viewer
    BY <1>6 DEF Evaluate, SaveFails, SaveUnacked
  <2>2. \A u \in Token : SameLife(u)
    BY <1>0, <1>6 DEF Evaluate, SaveFails, SaveUnacked, SameLife, Live, Running, Job
  <2>3. JobHolders(p)' = JobHolders(p) /\ RequestHolders(p)' = RequestHolders(p)
    BY <2>1, <2>2, JobsKeep DEF RequestHolders
  <2> QED
    BY <1>0, <2>1, <2>3 DEF PermitMove, Kept
<1>7. ASSUME NEW t \in Token, Save(t) \/ Fail(t) \/ FailFails(t)  PROVE PermitMove(p)
  <2>1. /\ job[t].stage \in Live /\ job' = [job EXCEPT ![t] = Ended(job[t].key)]
        /\ Release(job[t].proc) /\ viewer' = viewer
    BY <1>7 DEF Save, Fail, FailFails, EndJob, Live, Running
  <2>2. /\ \A u \in Token \ {t} : SameLife(u)
        /\ job'[t].stage \notin Live
    BY <1>0, <2>1 DEF SameLife, Ended, Live, Running
  <2>3. RequestHolders(p)' = RequestHolders(p) /\ t \notin RequestHolders(p) /\ job[t].proc \in Proc
    BY <2>1, Apart DEF RequestHolders, Base, JobOK
  <2>4. CASE job[t].proc = p
    <3>1. JobHolders(p)' = JobHolders(p) \ {t} /\ t \in JobHolders(p)
      BY <2>1, <2>2, <2>4, JobGivenBack
    <3>2. t \in Holders(p) /\ Holders(p)' = Holders(p) \ {t}
      BY <1>0, <2>3, <3>1
    <3>3. slots'[p] = IF slots[p] < Cap THEN slots[p] + 1 ELSE slots[p]
      BY <1>0, <2>1, <2>4 DEF Release
    <3> QED
      BY <3>2, <3>3 DEF PermitMove, GivenBack
  <2>5. CASE job[t].proc # p
    <3>1. JobHolders(p)' = JobHolders(p)
      BY <2>1, <2>2, <2>5, JobGivenBack
    <3>2. slots'[p] = slots[p]
      BY <1>0, <2>1, <2>3, <2>5 DEF Release
    <3> QED
      BY <1>0, <2>3, <3>1, <3>2 DEF PermitMove, Kept
  <2> QED
    BY <2>4, <2>5
<1>8. ASSUME Tick  PROVE PermitMove(p)
  <2>1. \A u \in Token : SameLife(u)
    BY <1>0, <1>8, AgedFields DEF Tick, SameLife
  <2>2. slots' = slots /\ viewer' = viewer
    BY <1>8 DEF Tick
  <2>3. JobHolders(p)' = JobHolders(p) /\ RequestHolders(p)' = RequestHolders(p)
    BY <2>1, <2>2, JobsKeep DEF RequestHolders
  <2> QED
    BY <1>0, <2>2, <2>3 DEF PermitMove, Kept
<1>9. ASSUME NEW q \in Proc, Crash(q)  PROVE PermitMove(p)
  <2>1. /\ slots' = [slots EXCEPT ![q] = Cap]
        /\ \A u \in Token : job'[u] = IF job[u].stage \in Live /\ job[u].proc = q
                                     THEN Ended(job[u].key) ELSE job[u]
        /\ \A w \in Viewer : viewer'[w] = IF Home[w] = q THEN Idle ELSE viewer[w]
    BY <1>9 DEF Crash
  <2>2. \A k : Ended(k).stage \notin Live
    BY DEF Ended, Live, Running
  <2>3. CASE p = q
    <3>1. JobHolders(p)' = {}
      BY <2>1, <2>2, <2>3 DEF JobHolders
    <3>2. RequestHolders(p)' = {}
      BY <2>1, <2>3 DEF RequestHolders, Idle
    <3> QED
      BY <1>0, <2>1, <2>3, <3>1, <3>2 DEF PermitMove, Emptied
  <2>4. CASE p # q
    <3>1. JobHolders(p)' = JobHolders(p)
      BY <2>1, <2>2, <2>4 DEF JobHolders
    <3>2. RequestHolders(p)' = RequestHolders(p)
      BY <2>1, <2>4 DEF RequestHolders, Idle
    <3> QED
      BY <1>0, <2>1, <2>4, <3>1, <3>2 DEF PermitMove, Kept
  <2> QED
    BY <2>3, <2>4
<1>10. ASSUME UNCHANGED vars  PROVE PermitMove(p)
  <2>1. job' = job /\ viewer' = viewer /\ slots' = slots
    BY <1>10 DEF vars
  <2> QED
    BY <2>1 DEF PermitMove, Kept, Holders, InFlight
<1> QED
  BY <1>1, <1>2, <1>3, <1>4, <1>5, <1>6, <1>7, <1>8, <1>9, <1>10
     DEF Next, ViewerStep, JobStep

-----------------------------------------------------------------------------
(* The holders are finitely many and take up the permits that are not free. *)
PermitsOK ==
    \A p \in Proc : IsFiniteSet(Holders(p)) /\ slots[p] + Cardinality(Holders(p)) = Cap

(* At the start every permit is free. *)
LEMMA PermitsInit ==
  ASSUME Init
  PROVE  PermitsOK
<1> SUFFICES ASSUME NEW p \in Proc
             PROVE  IsFiniteSet(Holders(p)) /\ slots[p] + Cardinality(Holders(p)) = Cap
  BY DEF PermitsOK
<1>1. Holders(p) = {}
  BY DEF Init, Holders, InFlight, NoJob, Idle, Live, Running
<1>2. slots[p] = Cap /\ Cap \in Nat
  BY Constants DEF Init
<1> QED
  BY <1>1, <1>2, FS_EmptySet

(* No move loses a permit or gives one back twice: one that is given back   *)
(* was held, so the semaphore never refuses it.                             *)
LEMMA PermitsStep ==
  ASSUME Base, PermitsOK, [Next]_vars, RereadsSucceed
  PROVE  PermitsOK'
<1> SUFFICES ASSUME NEW p \in Proc
             PROVE  IsFiniteSet(Holders(p)') /\ slots'[p] + Cardinality(Holders(p)') = Cap
  BY DEF PermitsOK
<1> DEFINE H == Holders(p)
           G == Holders(p)'
<1>0. /\ IsFiniteSet(H) /\ slots[p] + Cardinality(H) = Cap
      /\ Cardinality(H) \in Nat /\ slots[p] \in Nat /\ Cap \in Nat
  BY FS_CardinalityType, Constants DEF PermitsOK, Base, TypeOK
<1>1. PermitMove(p)
  BY PermitsMove
<1>2. CASE Kept(p)
  BY <1>0, <1>2 DEF Kept
<1>3. CASE Taken(p)
  <2>1. PICK x : x \notin H /\ G = H \cup {x} /\ slots[p] > 0 /\ slots'[p] = slots[p] - 1
    BY <1>3 DEF Taken
  <2> HIDE DEF H, G
  <2>2. IsFiniteSet(G) /\ Cardinality(G) = Cardinality(H) + 1
    BY <1>0, <2>1, FS_AddElement
  <2> QED
    BY <1>0, <2>1, <2>2 DEF G
<1>4. CASE GivenBack(p)
  <2>1. PICK x : /\ x \in H /\ G = H \ {x}
                 /\ slots'[p] = IF slots[p] < Cap THEN slots[p] + 1 ELSE slots[p]
    BY <1>4 DEF GivenBack
  <2> HIDE DEF H, G
  <2>2. IsFiniteSet(G) /\ Cardinality(G) = Cardinality(H) - 1 /\ Cardinality(G) \in Nat
    BY <1>0, <2>1, FS_RemoveElement, FS_CardinalityType
  <2> QED
    BY <1>0, <2>1, <2>2 DEF G
<1>5. CASE Passed(p)
  <2>1. PICK x : x \in H /\ \E y : y \notin H /\ G = (H \ {x}) \cup {y}
    BY <1>5 DEF Passed
  <2>2. PICK y : y \notin H /\ G = (H \ {x}) \cup {y}
    BY <2>1
  <2>3. slots'[p] = slots[p]
    BY <1>5 DEF Passed
  <2> HIDE DEF H, G
  <2> DEFINE R == H \ {x}
  <2>4. IsFiniteSet(R) /\ Cardinality(R) = Cardinality(H) - 1 /\ y \notin R
    BY <1>0, <2>1, <2>2, FS_RemoveElement
  <2> HIDE DEF R
  <2>5. IsFiniteSet(R \cup {y}) /\ Cardinality(R \cup {y}) = Cardinality(R) + 1
    BY <2>4, FS_AddElement
  <2>6. G = R \cup {y}
    BY <2>2 DEF R
  <2> QED
    BY <1>0, <2>3, <2>4, <2>5, <2>6 DEF G
<1>6. CASE Emptied(p)
  <2>1. G = {} /\ slots'[p] = Cap
    BY <1>6 DEF Emptied
  <2> QED
    BY <1>0, <2>1, FS_EmptySet
<1> QED
  BY <1>1, <1>2, <1>3, <1>4, <1>5, <1>6 DEF PermitMove

(* So the permits are always accounted for. *)
LEMMA AlwaysPermits ==
  ASSUME RereadsSucceed
  PROVE  Spec => []PermitsOK
<1>1. Init => PermitsOK
  BY PermitsInit
<1>2. Inv /\ PermitsOK /\ [Next]_vars => PermitsOK'
  BY PermitsStep DEF Inv
<1> QED
  BY <1>1, <1>2, Invariance, PTL DEF Spec

(* Unless reading a row again fails, every permit is free or held by a      *)
(* request that claims or by a job: whatever else fails and whoever         *)
(* crashes, none leaks and none is given back twice.                        *)
THEOREM PermitsConserved ==
  ASSUME RereadsSucceed
  PROVE  Spec => []SlotsConserved
<1>1. PermitsOK => SlotsConserved
  BY DEF PermitsOK, SlotsConserved
<1> QED
  BY <1>1, AlwaysPermits, PTL

-----------------------------------------------------------------------------
(* The waiting jobs of a process, as a set. *)
Waiting(p) == {queue[p][i] : i \in 1..Len(queue[p])}

(* A queue names as many jobs as it is long; they and the running ones hold *)
(* permits, and nobody holds two.                                           *)
LEMMA QueueCounts ==
  ASSUME Base, PermitsOK, NEW p \in Proc
  PROVE  /\ IsFiniteSet(Busy(p)) /\ Cardinality(Busy(p)) \in Nat
         /\ IsFiniteSet(Waiting(p)) /\ Cardinality(Waiting(p)) = Len(queue[p])
         /\ Waiting(p) \cap Busy(p) = {}
         /\ Waiting(p) \cup Busy(p) \in SUBSET Holders(p)
         /\ Cardinality(Waiting(p) \cup Busy(p)) = Len(queue[p]) + Cardinality(Busy(p))
<1> DEFINE n == Len(queue[p])
           f == [i \in 1..n |-> queue[p][i]]
<1>1. queue[p] \in Seq(Token) /\ n \in Nat /\ \A i \in 1..n : queue[p][i] \in Token
  BY DEF Base, TypeOK
<1>2. \A i \in 1..n : job[queue[p][i]].stage = "queued" /\ job[queue[p][i]].proc = p
  BY DEF Base, QueueOK
<1>3. Waiting(p) \cup Busy(p) \in SUBSET Holders(p)
  BY <1>1, <1>2 DEF Waiting, Busy, Holders, InFlight, Live
<1>4. Waiting(p) \cap Busy(p) = {}
  BY <1>2 DEF Waiting, Busy, Running
<1>5. IsFiniteSet(Holders(p))
  BY DEF PermitsOK
<1>6. IsFiniteSet(Busy(p)) /\ IsFiniteSet(Waiting(p))
  BY <1>3, <1>5, FS_Subset
<1>7. f \in Bijection(1..n, Waiting(p))
  <2>1. f \in [1..n -> Waiting(p)]
    BY DEF Waiting
  <2>2. \A i, j \in 1..n : f[i] = f[j] => i = j
    BY DEF Base, QueueOK
  <2>3. \A x \in Waiting(p) : \E i \in 1..n : f[i] = x
    BY DEF Waiting
  <2> HIDE DEF f, n
  <2> QED
    BY <2>1, <2>2, <2>3 DEF Bijection, Injection, Surjection, IsInjective
<1> HIDE DEF f
<1>8. ExistsBijection(1..n, Waiting(p))
  BY <1>7 DEF ExistsBijection
<1>9. Cardinality(Waiting(p)) = n
  BY <1>1, <1>8, FS_CountingElements
<1>10. Cardinality(Waiting(p) \cup Busy(p))
        = Cardinality(Waiting(p)) + Cardinality(Busy(p)) - Cardinality(Waiting(p) \cap Busy(p))
  BY <1>6, FS_Union
<1>11. Cardinality(Waiting(p) \cap Busy(p)) = 0 /\ Cardinality(Busy(p)) \in Nat
  BY <1>4, <1>6, FS_EmptySet, FS_CardinalityType
<1> QED
  BY <1>1, <1>3, <1>4, <1>6, <1>9, <1>10, <1>11

(* Waiting and running jobs together never exceed the cap.                  *)
THEOREM QueueBounded ==
  ASSUME RereadsSucceed
  PROVE  Spec => []QueueWithinCap
<1>1. Inv /\ PermitsOK => QueueWithinCap
  <2> SUFFICES ASSUME Base, PermitsOK, NEW p \in Proc
               PROVE  Len(queue[p]) + Cardinality(Busy(p)) <= Cap
    BY DEF Inv, QueueWithinCap
  <2>1. Cardinality(Waiting(p) \cup Busy(p)) <= Cardinality(Holders(p))
    BY QueueCounts, FS_Subset DEF PermitsOK
  <2>2. /\ slots[p] \in Nat /\ Cardinality(Holders(p)) \in Nat /\ Cap \in Nat
        /\ slots[p] + Cardinality(Holders(p)) = Cap
    BY FS_CardinalityType, Constants DEF PermitsOK, Base, TypeOK
  <2>3. /\ Len(queue[p]) \in Nat /\ Cardinality(Busy(p)) \in Nat
        /\ Cardinality(Waiting(p) \cup Busy(p)) = Len(queue[p]) + Cardinality(Busy(p))
    <3>1. queue[p] \in Seq(Token)
      BY DEF Base, TypeOK
    <3>2. Len(queue[p]) \in Nat
      BY <3>1
    <3> QED
      BY <3>2, QueueCounts
  <2> QED
    BY <2>1, <2>2, <2>3
<1> QED
  BY <1>1, AlwaysPermits, Invariance, PTL

-----------------------------------------------------------------------------
(* The lease covers the wait in a full queue: so many rounds of a budget    *)
(* each empty it (news_analysis.py:28).                                     *)
LeaseCoversQueue == \E K \in Nat : Lease >= K * Budget /\ K * Workers >= Cap

(* The running jobs that may need their worker for longer than s. *)
Late(p, s) == {u \in Busy(p) : Budget - job[u].age > s}

(* The i-th waiting job is the r-th of the k-th round.  Its lease leaves    *)
(* time for k rounds, and by then, but for the time to spare, enough of the *)
(* workers are free to start the r-th job of a round.                       *)
InRound(p, i, k, r) ==
    /\ i = (k - 1) * Workers + r
    /\ k * Budget <= job[queue[p][i]].lease
    /\ Cardinality(Late(p, job[queue[p][i]].lease - k * Budget)) <= Workers - r
InTime(p, i) == \E k \in Nat \ {0} : \E r \in 1..Workers : InRound(p, i, k, r)

ClaimedFresh ==
    \A t \in Token : job[t].stage = "claimed" => job[t].lease = Lease /\ job[t].age = 0
Waits(t) == t \in Waiting(job[t].proc)
QueuedWaits == \A t \in Token : job[t].stage = "queued" => job[t].age = 0 /\ Waits(t)
RunningInTime ==
    \A p \in Proc : \A t \in Busy(p) :
        job[t].age <= Budget /\ job[t].lease >= Budget - job[t].age
QueueInTime == \A p \in Proc : \A i \in 1..Len(queue[p]) : InTime(p, i)

Schedule == ClaimedFresh /\ QueuedWaits /\ RunningInTime /\ QueueInTime

(* The sizes are positive numbers. *)
LEMMA Sizes ==
    /\ Workers \in Nat /\ Workers >= 1 /\ Budget \in Nat /\ Budget >= 1
    /\ Cap \in Nat /\ Cap >= 1 /\ Lease \in Nat
  BY SizeAssumption

(* What the fields of a job can be. *)
LEMMA JobFields ==
  ASSUME TypeOK, NEW t \in Token
  PROVE  job[t] \in Job /\ job[t].age \in Nat /\ job[t].lease \in Int /\ job[t].stage \in JobStages
  BY DEF TypeOK, Job

(* A nonempty set of numbers has a least one. *)
Smaller == {p \in Nat \X Nat : p[1] < p[2]}

LEMMA LeastNumber ==
  ASSUME NEW T \in SUBSET Nat, T # {}
  PROVE  \E m \in T : \A n \in T : m <= n
<1>1. OpToRel(<, Nat) = Smaller
  BY DEF OpToRel, Smaller
<1>2. IsWellFoundedOn(Smaller, Nat)
  BY <1>1, NatLessThanWellFounded
<1>3. PICK m \in T : \A n \in T : <<n, m>> \notin Smaller
  BY <1>2, WFMin
<1>4. ASSUME NEW n \in T  PROVE m <= n
  <2>1. n \in Nat /\ m \in Nat /\ ~(n < m)
    BY <1>3 DEF Smaller
  <2> QED
    BY <2>1
<1> QED
  BY <1>4

(* Products with a number keep the order. *)
LEMMA Product ==
  ASSUME NEW a \in Nat, NEW b \in Nat, NEW c \in Nat, a <= b
  PROVE  a * c \in Nat /\ b * c \in Nat /\ a * c <= b * c /\ (a < b => a * c + c <= b * c)
<1>1. PICK d \in Nat : b = a + d
  <2>1. b - a \in Nat /\ b = a + (b - a)
    OBVIOUS
  <2> QED
    BY <2>1
<1>2. b * c = a * c + d * c /\ a * c \in Nat /\ d * c \in Nat
  BY <1>1
<1>3. a < b => d >= 1 /\ d * c >= c
  BY <1>1
<1> QED
  BY <1>2, <1>3

(* Every place of a queue is in one round. *)
LEMMA Rounds ==
  ASSUME NEW n \in Nat \ {0}, NEW K \in Nat, n <= K * Workers
  PROVE  \E k \in Nat \ {0} : k <= K /\ \E r \in 1..Workers : n = (k - 1) * Workers + r
<1> DEFINE T == {k \in Nat : n <= k * Workers}
<1>1. T \in SUBSET Nat /\ K \in T
  OBVIOUS
<1>2. PICK k \in T : \A m \in T : k <= m
  <2> HIDE DEF T
  <2> QED
    BY <1>1, LeastNumber
<1>3. k \in Nat /\ n <= k * Workers /\ k <= K
  BY <1>1, <1>2
<1>4. k # 0
  BY <1>3, Sizes
<1>5. k - 1 \in Nat /\ ~(n <= (k - 1) * Workers)
  <2>1. k - 1 \in Nat /\ ~(k <= k - 1)
    BY <1>3, <1>4
  <2>2. k - 1 \notin T
    BY <1>2, <2>1
  <2> QED
    BY <2>1, <2>2
<1>6. (k - 1) * Workers \in Nat /\ k * Workers = (k - 1) * Workers + Workers
  BY <1>3, <1>5, Sizes
<1> DEFINE r == n - (k - 1) * Workers
<1>7. r \in 1..Workers /\ n = (k - 1) * Workers + r
  BY <1>3, <1>5, <1>6, Sizes
<1> QED
  BY <1>3, <1>4, <1>7

(* A late job is running, and within a budget nobody is late. *)
LEMMA LateJobs ==
  ASSUME Base, PermitsOK, NEW p \in Proc, NEW s \in Int
  PROVE  /\ IsFiniteSet(Late(p, s)) /\ Cardinality(Late(p, s)) \in Nat
         /\ Late(p, s) \in SUBSET Busy(p)
         /\ Cardinality(Late(p, s)) <= Cardinality(Busy(p)) /\ Cardinality(Busy(p)) \in Nat
         /\ s >= Budget => Late(p, s) = {} /\ Cardinality(Late(p, s)) = 0
<1>1. Late(p, s) \in SUBSET Busy(p)
  BY DEF Late
<1>2. IsFiniteSet(Busy(p)) /\ Cardinality(Busy(p)) \in Nat
  BY QueueCounts
<1>3. IsFiniteSet(Late(p, s)) /\ Cardinality(Late(p, s)) \in Nat
      /\ Cardinality(Late(p, s)) <= Cardinality(Busy(p))
  BY <1>1, <1>2, FS_Subset, FS_CardinalityType
<1>4. s >= Budget => Late(p, s) = {}
  <2>1. \A u \in Busy(p) : job[u].age \in Nat
    BY JobFields DEF Busy, Base
  <2> QED
    BY <2>1, Sizes DEF Late
<1> QED
  BY <1>1, <1>2, <1>3, <1>4, FS_EmptySet

-----------------------------------------------------------------------------
(* The steps that change no waiting job but by a crash. *)
QuietJob(u) ==
    \/ job'[u] = job[u]
    \/ /\ job[u].stage = "unused"
       /\ \/ job'[u].stage = "claimed" /\ job'[u].lease = Lease /\ job'[u].age = 0
          \/ job'[u].stage = "done"
    \/ job[u].stage \in Live /\ job'[u].stage = "done"
    \/ /\ job[u].stage \in Running /\ job'[u].stage \in Running
       /\ job'[u].proc = job[u].proc /\ job'[u].lease = job[u].lease /\ job'[u].age = job[u].age
QuietQueue(p) ==
    \/ /\ queue'[p] = queue[p]
       /\ \A u \in Token : job[u].stage = "queued" /\ job[u].proc = p => job'[u] = job[u]
    \/ /\ queue'[p] = <<>>
       /\ \A u \in Token : job[u].stage \in Live /\ job[u].proc = p => job'[u].stage = "done"
Quiet == (\A u \in Token : QuietJob(u)) /\ (\A p \in Proc : QuietQueue(p))

(* Every step is one of these, or submits, starts a job or lets time pass. *)
LEMMA QuietSteps ==
  ASSUME Base, [Next]_vars
  PROVE  Quiet \/ (\E v \in Viewer : Submit(v)) \/ (\E p \in Proc : Start(p)) \/ Tick
<1>0. job \in [Token -> Job] /\ queue \in [Proc -> Seq(Token)]
  BY DEF Base, TypeOK
<1>1. ASSUME job' = job, queue' = queue  PROVE Quiet
  BY <1>1 DEF Quiet, QuietJob, QuietQueue
<1>2. ASSUME NEW v \in Viewer, ViewerStep(v), ~Submit(v)  PROVE Quiet
  <2>1. CASE ClaimWins(v) \/ ClaimUnacked(v)
    <3>1. PICK t \in Token :
            /\ job[t].stage = "unused"
            /\ \/ job' = [job EXCEPT ![t] = NewJob(Home[v], viewer[v].key)]
               \/ job' = [job EXCEPT ![t] = Ended(viewer[v].key)]
      BY <2>1 DEF ClaimWins, ClaimUnacked, Drawn
    <3>2. queue' = queue
      BY <2>1 DEF ClaimWins, ClaimUnacked
    <3>3. \A u \in Token \ {t} : job'[u] = job[u]
      BY <1>0, <3>1
    <3>4. QuietJob(t)
      BY <1>0, <3>1 DEF QuietJob, NewJob, Ended
    <3> QED
      BY <3>1, <3>2, <3>3, <3>4 DEF Quiet, QuietJob, QuietQueue
  <2>2. CASE ~ClaimWins(v) /\ ~ClaimUnacked(v)
    <3>1. job' = job /\ queue' = queue
      BY <1>2, <2>2 DEF ViewerStep, Look, TurnedAway, Acquire, ClaimLoses, ClaimFails, Reread, RereadFails
    <3> QED
      BY <1>1, <3>1
  <2> QED
    BY <2>1, <2>2
<1>3. ASSUME NEW t \in Token, JobStep(t)  PROVE Quiet
  <2>1. /\ queue' = queue /\ job[t].stage \in Running
        /\ \A u \in Token \ {t} : job'[u] = job[u]
    BY <1>0, <1>3 DEF JobStep, Evaluate, Save, SaveFails, SaveUnacked, Fail, FailFails, EndJob, Running
  <2>2. QuietJob(t)
    <3>1. CASE Save(t) \/ Fail(t) \/ FailFails(t)
      BY <1>0, <3>1 DEF Save, Fail, FailFails, EndJob, Ended, QuietJob, Live, Running
    <3>2. CASE Evaluate(t) \/ SaveFails(t) \/ SaveUnacked(t)
      <4>1. \E s \in Running : job'[t] = [job[t] EXCEPT !.stage = s]
        BY <1>0, <3>2 DEF Evaluate, SaveFails, SaveUnacked, Running
      <4> QED
        BY <1>0, <2>1, <4>1 DEF QuietJob, Job
    <3> QED
      BY <1>3, <3>1, <3>2 DEF JobStep
  <2> QED
    BY <2>1, <2>2 DEF Quiet, QuietJob, QuietQueue, Running
<1>4. ASSUME NEW p \in Proc, Crash(p)  PROVE Quiet
  <2>1. /\ \A q \in Proc : queue'[q] = IF q = p THEN <<>> ELSE queue[q]
        /\ \A u \in Token : job'[u] = IF job[u].stage \in Live /\ job[u].proc = p
                                     THEN Ended(job[u].key) ELSE job[u]
    BY <1>0, <1>4 DEF Crash
  <2>2. \A k : Ended(k).stage = "done"
    BY DEF Ended
  <2> QED
    BY <2>1, <2>2 DEF Quiet, QuietJob, QuietQueue
<1> QED
  BY <1>1, <1>2, <1>3, <1>4 DEF Next, vars

(* A waiting job stays in time when its lease does not move and no more     *)
(* jobs run than before.                                                    *)
LEMMA InTimeKept ==
  ASSUME Base, PermitsOK, NEW p \in Proc, NEW i \in 1..Len(queue[p]), InTime(p, i),
         queue'[p][i] = queue[p][i], job'[queue[p][i]].lease = job[queue[p][i]].lease,
         \A u \in Token : u \in Busy(p)' => u \in Busy(p) /\ job'[u].age = job[u].age
  PROVE  InTime(p, i)'
<1> DEFINE l == job[queue[p][i]].lease
<1>1. l \in Int
  <2>1. queue[p][i] \in Token
    BY DEF Base, TypeOK
  <2> QED
    BY <2>1, JobFields DEF Base
<1>2. PICK k \in Nat \ {0} : \E r \in 1..Workers : InRound(p, i, k, r)
  BY DEF InTime
<1>3. PICK r \in 1..Workers : InRound(p, i, k, r)
  BY <1>2
<1>4. k * Budget \in Int /\ l - k * Budget \in Int
  BY <1>1, Sizes
<1> DEFINE s == l - k * Budget
<1>5. Late(p, s)' \in SUBSET Late(p, s)
  BY DEF Late, Busy
<1>6. Cardinality(Late(p, s)') <= Cardinality(Late(p, s)) /\ Cardinality(Late(p, s)') \in Nat
      /\ Cardinality(Late(p, s)) \in Nat
  <2>1. IsFiniteSet(Late(p, s)) /\ Cardinality(Late(p, s)) \in Nat
    BY <1>4, LateJobs
  <2> QED
    BY <1>5, <2>1, FS_Subset, FS_CardinalityType
<1>7. i = (k - 1) * Workers + r /\ k * Budget <= l /\ Cardinality(Late(p, s)) <= Workers - r
  BY <1>3 DEF InRound
<1>8. Cardinality(Late(p, s)') <= Workers - r
  <2> HIDE DEF s
  <2> QED
    BY <1>6, <1>7, Sizes
<1>9. Late(p, s)' = Late(p, job[queue[p][i]].lease - k * Budget)'
  BY DEF Late
<1> QED
  BY <1>7, <1>8, <1>9 DEF InTime, InRound

(* The quiet steps keep every job in time. *)
LEMMA QuietKeeps ==
  ASSUME Base, PermitsOK, Schedule, Quiet
  PROVE  Schedule'
<1>0. job \in [Token -> Job] /\ queue \in [Proc -> Seq(Token)]
  BY DEF Base, TypeOK
<1>1. ASSUME NEW u \in Token  PROVE QuietJob(u) /\ (job[u].stage \in Live => job[u].proc \in Proc)
  BY <1>1 DEF Quiet, Base, JobOK
<1>2. ClaimedFresh'
  <2> SUFFICES ASSUME NEW u \in Token, job'[u].stage = "claimed"
               PROVE  job'[u].lease = Lease /\ job'[u].age = 0
    BY DEF ClaimedFresh
  <2>1. CASE job'[u] = job[u]
    BY <2>1 DEF Schedule, ClaimedFresh
  <2>2. CASE job'[u] # job[u]
    BY <1>1, <2>2 DEF QuietJob, Running
  <2> QED
    BY <2>1, <2>2
<1>3. QueuedWaits'
  <2>1. ASSUME NEW u \in Token, job'[u].stage = "queued"
        PROVE  job'[u].age = 0 /\ Waits(u)'
    <3>1. job'[u] = job[u]
      BY <1>1, <2>1 DEF QuietJob, Running
    <3>2. job[u].age = 0 /\ Waits(u) /\ job[u].proc \in Proc /\ job[u].stage \in Live
      BY <1>1, <2>1, <3>1 DEF Schedule, QueuedWaits, Live
    <3>3. queue'[job[u].proc] = queue[job[u].proc]
      BY <2>1, <3>1, <3>2 DEF Quiet, QuietQueue
    <3> QED
      BY <3>1, <3>2, <3>3 DEF Waits, Waiting
  <2> QED
    BY <2>1 DEF QueuedWaits
<1>4. ASSUME NEW p \in Proc, NEW u \in Token, u \in Busy(p)'
      PROVE  u \in Busy(p) /\ job'[u].age = job[u].age /\ job'[u].lease = job[u].lease
  BY <1>1, <1>4 DEF Busy, QuietJob, Running
<1>5. RunningInTime'
  <2> SUFFICES ASSUME NEW p \in Proc, NEW u \in Busy(p)'
               PROVE  job'[u].age <= Budget /\ job'[u].lease >= Budget - job'[u].age
    BY DEF RunningInTime
  <2>1. u \in Token
    BY DEF Busy
  <2> QED
    BY <1>4, <2>1 DEF Schedule, RunningInTime
<1>6. QueueInTime'
  <2> SUFFICES ASSUME NEW p \in Proc, NEW i \in 1..Len(queue'[p])  PROVE InTime(p, i)'
    BY DEF QueueInTime
  <2>1. CASE queue'[p] = <<>>
    BY <2>1
  <2>2. CASE queue'[p] # <<>>
    <3>1. /\ queue'[p] = queue[p]
          /\ \A u \in Token : job[u].stage = "queued" /\ job[u].proc = p => job'[u] = job[u]
      BY <2>2 DEF Quiet, QuietQueue
    <3>2. /\ i \in 1..Len(queue[p]) /\ queue[p][i] \in Token
          /\ job[queue[p][i]].stage = "queued" /\ job[queue[p][i]].proc = p
      BY <1>0, <3>1 DEF Base, QueueOK
    <3>3. InTime(p, i)
      BY <3>2 DEF Schedule, QueueInTime
    <3>4. queue'[p][i] = queue[p][i] /\ job'[queue[p][i]].lease = job[queue[p][i]].lease
      BY <3>1, <3>2
    <3>5. \A u \in Token : u \in Busy(p)' => u \in Busy(p) /\ job'[u].age = job[u].age
      BY <1>4
    <3> QED
      BY <3>2, <3>3, <3>4, <3>5, InTimeKept
  <2> QED
    BY <2>1, <2>2
<1> QED
  BY <1>2, <1>3, <1>5, <1>6 DEF Schedule

(* A claimed job that is submitted finds room: with it the jobs of its      *)
(* process are at most Cap, which K rounds of all workers serve.            *)
LEMMA RoomInQueue ==
  ASSUME Base, PermitsOK, LeaseCoversQueue, NEW p \in Proc, NEW t \in Token,
         job[t].stage = "claimed", job[t].proc = p
  PROVE  \E k \in Nat \ {0} : \E r \in 1..Workers :
            /\ Len(queue[p]) + 1 = (k - 1) * Workers + r
            /\ k * Budget <= Lease
            /\ Cardinality(Late(p, Lease - k * Budget)) <= Workers - r
<1> DEFINE n == Len(queue[p]) + 1
           b == Cardinality(Busy(p))
           W == Waiting(p) \cup Busy(p)
<1>1. Len(queue[p]) \in Nat /\ n \in Nat \ {0} /\ b \in Nat
  <2>1. queue[p] \in Seq(Token)
    BY DEF Base, TypeOK
  <2>2. Len(queue[p]) \in Nat
    BY <2>1
  <2>3. b \in Nat
    BY QueueCounts
  <2> QED
    BY <2>2, <2>3
<1>2. n + b <= Cap
  <2>1. t \in Holders(p) /\ t \notin W
    <3>1. t \in Holders(p)
      BY DEF Holders, InFlight, Live
    <3>2. t \notin Busy(p)
      BY DEF Busy, Running
    <3>3. t \notin Waiting(p)
      BY DEF Waiting, Base, QueueOK
    <3> QED
      BY <3>1, <3>2, <3>3
  <2>2. W \in SUBSET Holders(p) /\ Cardinality(W) = Len(queue[p]) + b
        /\ IsFiniteSet(Holders(p)) /\ slots[p] + Cardinality(Holders(p)) = Cap
    BY QueueCounts DEF PermitsOK
  <2> HIDE DEF W, b
  <2>3. IsFiniteSet(W)
    BY <2>2, FS_Subset
  <2>4. Cardinality(W \cup {t}) = Cardinality(W) + 1
    BY <2>1, <2>3, FS_AddElement
  <2>5. Cardinality(W \cup {t}) <= Cardinality(Holders(p))
    <3>1. W \cup {t} \in SUBSET Holders(p)
      BY <2>1, <2>2
    <3> QED
      BY <2>2, <3>1, FS_Subset
  <2>6. Cardinality(Holders(p)) \in Nat /\ slots[p] \in Nat /\ Cap \in Nat
    BY <2>2, FS_CardinalityType, Constants DEF Base, TypeOK
  <2> QED
    BY <1>1, <2>2, <2>4, <2>5, <2>6
<1>3. PICK K \in Nat : Lease >= K * Budget /\ K * Workers >= Cap
  BY DEF LeaseCoversQueue
<1>4. n <= K * Workers /\ n + b <= K * Workers /\ K * Workers \in Nat
  <2>1. K * Workers \in Nat
    BY Sizes
  <2> HIDE DEF b
  <2> QED
    BY <1>1, <1>2, <1>3, <2>1, Sizes
<1> HIDE DEF n, b
<1>5. PICK k \in Nat \ {0} : k <= K /\ \E r \in 1..Workers : n = (k - 1) * Workers + r
  BY <1>1, <1>4, Rounds
<1>6. PICK r \in 1..Workers : n = (k - 1) * Workers + r
  BY <1>5
<1>7. /\ k * Budget \in Nat /\ K * Budget \in Nat /\ k * Budget <= K * Budget
      /\ k < K => k * Budget + Budget <= K * Budget
  BY <1>5, Sizes, Product
<1>8. k * Budget <= Lease /\ Lease - k * Budget \in Int
  BY <1>3, <1>7, Sizes
<1>9. /\ Cardinality(Late(p, Lease - k * Budget)) <= b
      /\ Lease - k * Budget >= Budget => Cardinality(Late(p, Lease - k * Budget)) = 0
      /\ Cardinality(Late(p, Lease - k * Budget)) \in Nat
  BY <1>8, LateJobs DEF b
<1>10. Cardinality(Late(p, Lease - k * Budget)) <= Workers - r
  <2>1. CASE k < K
    <3>1. Lease - k * Budget >= Budget
      BY <1>3, <1>7, <2>1, Sizes
    <3> QED
      BY <1>9, <3>1, Sizes
  <2>2. CASE k = K
    <3>1. K * Workers = (k - 1) * Workers + Workers
      BY <2>2, Sizes
    <3>2. b <= Workers - r
      BY <1>1, <1>4, <1>6, <3>1, Sizes
    <3> QED
      BY <1>1, <1>9, <3>2, Sizes
  <2> QED
    BY <1>5, <2>1, <2>2
<1> QED
  BY <1>6, <1>8, <1>10 DEF n

(* The job that is submitted is in time at the end of the queue. *)
LEMMA SubmitKeeps ==
  ASSUME Base, PermitsOK, Schedule, LeaseCoversQueue, NEW v \in Viewer, Submit(v)
  PROVE  Schedule'
<1> DEFINE h == Home[v]
<1>0. job \in [Token -> Job] /\ queue \in [Proc -> Seq(Token)]
  BY DEF Base, TypeOK
<1>a. h \in Proc
  BY Constants
<1> HIDE DEF h
<1>b. PICK t \in Token :
        /\ job[t].stage = "claimed" /\ job[t].proc = h
        /\ job' = [job EXCEPT ![t].stage = "queued"]
        /\ queue' = [queue EXCEPT ![h] = Append(queue[h], t)]
  BY DEF Submit, Base, ViewerOK, h
<1>1. /\ h \in Proc /\ t \in Token /\ job[t].stage = "claimed" /\ job[t].proc = h
      /\ job' = [job EXCEPT ![t].stage = "queued"]
      /\ queue' = [queue EXCEPT ![h] = Append(queue[h], t)]
  BY <1>a, <1>b
<1>c. PICK n \in Nat : n = Len(queue[h]) + 1
  <2>1. queue[h] \in Seq(Token)
    BY <1>0, <1>a
  <2> QED
    BY <2>1
<1>2. /\ \A u \in Token \ {t} : job'[u] = job[u]
      /\ job'[t].stage = "queued" /\ job'[t].proc = h
      /\ job'[t].lease = job[t].lease /\ job'[t].age = job[t].age
  BY <1>0, <1>1 DEF Job
<1>3. /\ queue[h] \in Seq(Token) /\ Len(queue[h]) \in Nat
      /\ \A q \in Proc \ {h} : queue'[q] = queue[q]
      /\ queue'[h] = Append(queue[h], t) /\ Len(queue'[h]) = n
      /\ \A i \in 1..Len(queue[h]) : queue'[h][i] = queue[h][i]
      /\ queue'[h][n] = t /\ n \in 1..Len(queue'[h])
  <2>1. queue[h] \in Seq(Token) /\ queue'[h] = Append(queue[h], t)
        /\ \A q \in Proc \ {h} : queue'[q] = queue[q]
    BY <1>0, <1>1
  <2> QED
    BY <1>1, <1>c, <2>1
<1>4. ASSUME NEW p \in Proc, NEW u \in Token
      PROVE  (u \in Busy(p)' <=> u \in Busy(p)) /\ job'[u].age = job[u].age /\ job'[u].lease = job[u].lease
  BY <1>1, <1>2 DEF Busy, Running
<1>5. ClaimedFresh'
  BY <1>2 DEF Schedule, ClaimedFresh
<1>6. QueuedWaits'
  <2>1. ASSUME NEW u \in Token \ {t}, job'[u].stage = "queued"  PROVE job'[u].age = 0 /\ Waits(u)'
    <3>1. job'[u] = job[u] /\ job[u].proc \in Proc /\ job[u].age = 0 /\ Waits(u)
      BY <1>2, <2>1 DEF Schedule, QueuedWaits, Base, JobOK, Live
    <3>2. PICK i \in 1..Len(queue[job[u].proc]) : queue[job[u].proc][i] = u
      BY <3>1 DEF Waits, Waiting
    <3>3. i \in 1..Len(queue'[job[u].proc]) /\ queue'[job[u].proc][i] = u
      BY <1>3, <3>1, <3>2
    <3> QED
      BY <3>1, <3>3 DEF Waits, Waiting
  <2>2. job'[t].age = 0 /\ Waits(t)'
    <3>1. job'[t].age = 0
      BY <1>1, <1>2 DEF Schedule, ClaimedFresh
    <3>2. \E i \in 1..Len(queue'[h]) : queue'[h][i] = t
      BY <1>3
    <3> QED
      BY <1>2, <3>1, <3>2 DEF Waits, Waiting
  <2> QED
    BY <2>1, <2>2 DEF QueuedWaits
<1>7. RunningInTime'
  <2> SUFFICES ASSUME NEW p \in Proc, NEW u \in Busy(p)'
               PROVE  job'[u].age <= Budget /\ job'[u].lease >= Budget - job'[u].age
    BY DEF RunningInTime
  <2>1. u \in Token
    BY DEF Busy
  <2> QED
    BY <1>4, <2>1 DEF Schedule, RunningInTime
<1>8. ASSUME NEW p \in Proc, NEW i \in 1..Len(queue[p]), queue'[p][i] = queue[p][i]
      PROVE  InTime(p, i)'
  <2>1. queue[p][i] \in Token
    BY <1>0
  <2>2. InTime(p, i) /\ job'[queue[p][i]].lease = job[queue[p][i]].lease
    BY <1>4, <2>1 DEF Schedule, QueueInTime
  <2> QED
    BY <1>4, <1>8, <2>2, InTimeKept
<1>9. InTime(h, n)'
  <2>1. PICK k \in Nat \ {0} : \E r \in 1..Workers :
            /\ n = (k - 1) * Workers + r
            /\ k * Budget <= Lease
            /\ Cardinality(Late(h, Lease - k * Budget)) <= Workers - r
    BY <1>1, <1>c, RoomInQueue
  <2>2. PICK r \in 1..Workers :
            /\ n = (k - 1) * Workers + r
            /\ k * Budget <= Lease
            /\ Cardinality(Late(h, Lease - k * Budget)) <= Workers - r
    BY <2>1
  <2>3. job'[queue'[h][n]].lease = Lease
    BY <1>1, <1>2, <1>3 DEF Schedule, ClaimedFresh
  <2>4. Late(h, Lease - k * Budget)' = Late(h, Lease - k * Budget)
    <3>1. \A u \in Token : (u \in Busy(h)' <=> u \in Busy(h)) /\ job'[u].age = job[u].age
      BY <1>1, <1>4
    <3>2. Busy(h) \in SUBSET Token /\ Busy(h)' \in SUBSET Token
      BY DEF Busy
    <3> QED
      BY <3>1, <3>2 DEF Late
  <2>5. Late(h, job[queue[h][n]].lease - k * Budget)' = Late(h, Lease - k * Budget)
    BY <2>3, <2>4 DEF Late
  <2>6. InRound(h, n, k, r)'
    BY <2>2, <2>3, <2>5 DEF InRound
  <2> QED
    BY <2>6 DEF InTime
<1>10. QueueInTime'
  <2> SUFFICES ASSUME NEW p \in Proc, NEW i \in 1..Len(queue'[p])  PROVE InTime(p, i)'
    BY DEF QueueInTime
  <2>1. CASE p # h
    BY <1>3, <1>8, <2>1
  <2>2. CASE p = h /\ i # n
    <3>1. i \in 1..Len(queue[h])
      BY <1>3, <2>2
    <3> QED
      BY <1>3, <1>8, <2>2, <3>1
  <2>3. CASE p = h /\ i = n
    BY <1>9, <2>3
  <2> QED
    BY <2>1, <2>2, <2>3
<1> QED
  BY <1>5, <1>6, <1>7, <1>10 DEF Schedule

(* Each job that starts brings the ones behind it one place nearer. *)
LEMMA StartKeeps ==
  ASSUME Base, PermitsOK, Schedule, NEW p \in Proc, Start(p)
  PROVE  Schedule'
<1>0. job \in [Token -> Job] /\ queue \in [Proc -> Seq(Token)]
  BY DEF Base, TypeOK
<1>a. queue[p] \in Seq(Token) /\ Head(queue[p]) \in Token
  BY <1>0, HeadQueued DEF Start
<1>b. PICK old \in Seq(Token) : old = queue[p]
  BY <1>a
<1>c. PICK t \in Token : t = Head(queue[p])
  BY <1>a
<1>1. /\ old \in Seq(Token) /\ old # <<>> /\ t \in Token
      /\ job[t].stage = "queued" /\ job[t].proc = p
      /\ job' = [job EXCEPT ![t].stage = "evaluating"]
      /\ queue' = [queue EXCEPT ![p] = Tail(old)]
  BY <1>0, <1>b, <1>c, HeadQueued DEF Start
<1>2. /\ t = old[1] /\ Len(old) \in Nat /\ 1 \in 1..Len(old)
      /\ Tail(old) \in Seq(Token) /\ Len(Tail(old)) = Len(old) - 1
      /\ \A i \in 1..Len(Tail(old)) : i + 1 \in 1..Len(old) /\ Tail(old)[i] = old[i + 1]
  BY <1>1, <1>b, <1>c, HeadTail
<1>3. \A i, j \in 1..Len(old) : old[i] = old[j] => i = j
  BY <1>b DEF Base, QueueOK
<1>4. \A i \in 1..Len(old) : old[i] \in Token
  BY <1>1
<1>5. /\ \A u \in Token \ {t} : job'[u] = job[u]
      /\ job'[t].stage = "evaluating" /\ job'[t].proc = p
      /\ job'[t].lease = job[t].lease /\ job'[t].age = job[t].age
      /\ \A u \in Token : job'[u].lease = job[u].lease /\ job'[u].age = job[u].age
                          /\ job'[u].proc = job[u].proc
  BY <1>0, <1>1 DEF Job
<1>6. queue'[p] = Tail(old) /\ \A q \in Proc \ {p} : queue'[q] = queue[q]
  BY <1>0, <1>1
<1>7. /\ \A q \in Proc, u \in Token : q # p \/ u # t => (u \in Busy(q)' <=> u \in Busy(q))
      /\ t \in Busy(p)' /\ job[t].age = 0
  <2>1. job[t].age = 0
    BY <1>1 DEF Schedule, QueuedWaits
  <2> QED
    BY <1>1, <1>5, <2>1 DEF Busy, Running
<1>8. ClaimedFresh'
  BY <1>5 DEF Schedule, ClaimedFresh
<1>9. QueuedWaits'
  <2>1. ASSUME NEW u \in Token, job'[u].stage = "queued"  PROVE job'[u].age = 0 /\ Waits(u)'
    <3>1. u # t
      BY <1>5, <2>1
    <3>2. job'[u] = job[u] /\ job[u].proc \in Proc /\ job[u].age = 0 /\ Waits(u)
      BY <1>5, <2>1, <3>1 DEF Schedule, QueuedWaits, Base, JobOK, Live
    <3>3. PICK i \in 1..Len(queue[job[u].proc]) : queue[job[u].proc][i] = u
      BY <3>2 DEF Waits, Waiting
    <3>4. CASE job[u].proc # p
      BY <1>6, <3>2, <3>3, <3>4 DEF Waits, Waiting
    <3>5. CASE job[u].proc = p
      <4>1. i \in 1..Len(old) /\ old[i] = u /\ i # 1
        BY <1>b, <1>2, <3>1, <3>3, <3>5
      <4>2. i - 1 \in 1..Len(Tail(old)) /\ Tail(old)[i - 1] = u
        <5>1. i - 1 \in 1..Len(Tail(old)) /\ (i - 1) + 1 = i
          BY <1>2, <4>1
        <5> QED
          BY <1>2, <4>1, <5>1
      <4> QED
        BY <1>6, <3>2, <3>5, <4>2 DEF Waits, Waiting
    <3> QED
      BY <3>2, <3>4, <3>5
  <2> QED
    BY <2>1 DEF QueuedWaits
<1>10. InTime(p, 1)
  BY <1>b, <1>2 DEF Schedule, QueueInTime
<1>11. job[t].lease >= Budget
  <2>1. PICK k \in Nat \ {0} : \E r \in 1..Workers : InRound(p, 1, k, r)
    BY <1>10 DEF InTime
  <2>2. k * Budget <= job[t].lease
    BY <1>b, <1>2, <2>1 DEF InRound
  <2>3. k * Budget >= Budget /\ k * Budget \in Nat
    <3>1. 1 \in Nat /\ k \in Nat /\ 1 <= k /\ 1 * Budget = Budget /\ Budget \in Nat
      BY Sizes
    <3>2. 1 * Budget <= k * Budget /\ k * Budget \in Nat
      BY <3>1, Product
    <3> QED
      BY <3>1, <3>2
  <2>4. job[t].lease \in Int
    BY <1>1, JobFields DEF Base
  <2> QED
    BY <2>2, <2>3, <2>4, Sizes
<1>12. RunningInTime'
  <2> SUFFICES ASSUME NEW q \in Proc, NEW u \in Busy(q)'
               PROVE  job'[u].age <= Budget /\ job'[u].lease >= Budget - job'[u].age
    BY DEF RunningInTime
  <2>1. u \in Token
    BY DEF Busy
  <2>2. CASE u = t
    BY <1>1, <1>5, <1>7, <1>11, <2>2, Sizes
  <2>3. CASE u # t
    BY <1>5, <1>7, <2>1, <2>3 DEF Schedule, RunningInTime
  <2> QED
    BY <2>2, <2>3
<1>13. ASSUME NEW i \in 1..Len(Tail(old))  PROVE InTime(p, i)'
  <2>a. i \in Int /\ i >= 1 /\ i + 1 \in 1..Len(old) /\ Tail(old)[i] = old[i + 1]
        /\ old[i + 1] \in Token /\ job[old[i + 1]].lease \in Int
    <3>1. i \in Int /\ i >= 1 /\ i + 1 \in 1..Len(old) /\ Tail(old)[i] = old[i + 1]
      BY <1>2, <1>13
    <3>2. old[i + 1] \in Token
      BY <1>4, <3>1
    <3>3. job[old[i + 1]].lease \in Int
      BY <3>2, JobFields DEF Base
    <3> QED
      BY <3>1, <3>2, <3>3
  <2>b. PICK l \in Int : l = job[old[i + 1]].lease
    BY <2>a
  <2>1. /\ i \in Int /\ i >= 1 /\ i + 1 \in 1..Len(old) /\ Tail(old)[i] = old[i + 1]
        /\ old[i + 1] \in Token /\ l \in Int
    BY <2>a, <2>b
  <2>2. InTime(p, i + 1)
    BY <1>b, <2>1 DEF Schedule, QueueInTime
  <2>3. PICK k \in Nat \ {0} : \E r \in 1..Workers : InRound(p, i + 1, k, r)
    BY <2>2 DEF InTime
  <2>4. PICK r \in 1..Workers : InRound(p, i + 1, k, r)
    BY <2>3
  <2>5. /\ i + 1 = (k - 1) * Workers + r /\ k * Budget <= l
        /\ Cardinality(Late(p, l - k * Budget)) <= Workers - r
    BY <1>b, <2>b, <2>4 DEF InRound
  <2>6. job'[queue'[p][i]].lease = l
    BY <1>5, <1>6, <2>1, <2>b
  <2>7. \A s : Late(p, s)' \in SUBSET (Late(p, s) \cup {t})
    BY <1>1, <1>5, <1>7 DEF Late, Busy
  <2>8. k * Budget \in Int /\ (k - 1) * Budget = k * Budget - Budget /\ (k - 1) * Workers \in Int
        /\ k - 1 \in Nat /\ (k - 2) * Workers + Workers = (k - 1) * Workers
    BY Sizes
  <2>9. CASE r # 1
    <3> DEFINE s == l - k * Budget
    <3>a. s \in Int
      BY <2>1, <2>8
    <3> HIDE DEF s
    <3>1. IsFiniteSet(Late(p, s)) /\ Cardinality(Late(p, s)) \in Nat
      BY <3>a, LateJobs
    <3>2. IsFiniteSet(Late(p, s) \cup {t}) /\ Cardinality(Late(p, s) \cup {t}) <= Cardinality(Late(p, s)) + 1
          /\ Cardinality(Late(p, s) \cup {t}) \in Nat
      <4>1. /\ IsFiniteSet(Late(p, s) \cup {t})
            /\ Cardinality(Late(p, s) \cup {t})
                 = IF t \in Late(p, s) THEN Cardinality(Late(p, s)) ELSE Cardinality(Late(p, s)) + 1
        BY <3>1, FS_AddElement
      <4> QED
        BY <3>1, <4>1
    <3>3. Cardinality(Late(p, s)') <= Cardinality(Late(p, s) \cup {t}) /\ Cardinality(Late(p, s)') \in Nat
      BY <2>7, <3>2, FS_Subset, FS_CardinalityType
    <3>4. Cardinality(Late(p, s)') <= Workers - (r - 1)
      BY <2>5, <3>1, <3>2, <3>3, Sizes DEF s
    <3>5. i = (k - 1) * Workers + (r - 1) /\ r - 1 \in 1..Workers
      <4> DEFINE m == (k - 1) * Workers
      <4>1. m \in Int /\ i + 1 = m + r /\ r \in Int
        BY <2>5, <2>8
      <4> HIDE DEF m
      <4>2. i = m + (r - 1)
        BY <2>1, <4>1
      <4>3. r - 1 \in 1..Workers
        BY <2>9, Sizes
      <4> QED
        BY <4>2, <4>3 DEF m
    <3>6. Late(p, job[queue[p][i]].lease - k * Budget)' = Late(p, s)'
      BY <2>6 DEF Late, s
    <3>7. InRound(p, i, k, r - 1)'
      BY <2>5, <2>6, <3>4, <3>5, <3>6 DEF InRound
    <3> QED
      BY <3>5, <3>7 DEF InTime
  <2>10. CASE r = 1
    <3> DEFINE s == l - (k - 1) * Budget
    <3>1. s \in Int /\ s >= Budget
      BY <2>1, <2>5, <2>8, Sizes
    <3>2. k - 1 \in Nat \ {0}
      <4>1. k = 1 => (k - 1) * Workers = 0
        BY Sizes
      <4> QED
        BY <2>1, <2>5, <2>8, <2>10, <4>1
    <3>3. i = ((k - 1) - 1) * Workers + Workers
      <4>1. (k - 1) - 1 = k - 2
        OBVIOUS
      <4> QED
        BY <2>1, <2>5, <2>8, <2>10, <4>1
    <3>4. Late(p, s)' = {}
      <4>1. \A u \in Token : job'[u].age = job[u].age /\ job[u].age \in Nat
        BY <1>5, JobFields DEF Base
      <4> HIDE DEF s
      <4> QED
        BY <3>1, <4>1, Sizes DEF Late, Busy
    <3>5. Late(p, job[queue[p][i]].lease - (k - 1) * Budget)' = Late(p, s)'
      BY <2>6 DEF Late
    <3>6. Cardinality(Late(p, job[queue[p][i]].lease - (k - 1) * Budget)') <= Workers - Workers
      <4>1. Cardinality({}) = 0 /\ Workers - Workers = 0
        BY FS_EmptySet, Sizes
      <4>2. Late(p, job[queue[p][i]].lease - (k - 1) * Budget)' = {}
        BY <3>4, <3>5
      <4>3. Cardinality(Late(p, job[queue[p][i]].lease - (k - 1) * Budget)') = 0
        BY <4>1, <4>2
      <4> QED
        BY <4>1, <4>3
    <3>7. (k - 1) * Budget <= l
      BY <2>1, <2>5, <2>8, Sizes
    <3>8. InRound(p, i, k - 1, Workers)'
      BY <2>6, <3>3, <3>6, <3>7 DEF InRound
    <3>9. Workers \in 1..Workers
      BY Sizes
    <3> QED
      BY <3>2, <3>8, <3>9 DEF InTime
  <2> QED
    BY <2>9, <2>10
<1>14. ASSUME NEW q \in Proc \ {p}, NEW i \in 1..Len(queue[q])  PROVE InTime(q, i)'
  <2>1. queue[q][i] \in Token /\ InTime(q, i) /\ queue'[q][i] = queue[q][i]
    BY <1>0, <1>6, <1>14 DEF Schedule, QueueInTime
  <2>2. job'[queue[q][i]].lease = job[queue[q][i]].lease
    BY <1>5, <2>1
  <2>3. \A u \in Token : u \in Busy(q)' => u \in Busy(q) /\ job'[u].age = job[u].age
    BY <1>5, <1>7
  <2> QED
    BY <2>1, <2>2, <2>3, InTimeKept
<1>15. QueueInTime'
  BY <1>6, <1>13, <1>14 DEF QueueInTime
<1> QED
  BY <1>8, <1>9, <1>12, <1>15 DEF Schedule

(* What a tick does to a job in flight, without hangs. *)
LEMMA TickAges ==
  ASSUME Base, ~Hangs, Tick, NEW u \in Token
  PROVE  /\ job'[u].stage = job[u].stage /\ job'[u].proc = job[u].proc
         /\ job[u].stage \in Live => job'[u].lease = CountDown(job[u].lease)
         /\ job[u].stage \in Running => job'[u].age = job[u].age + 1
         /\ job[u].stage \in Live \ Running => job'[u].age = job[u].age
<1>1. job[u] \in Job /\ job'[u] = Aged(job[u])
  BY DEF Tick, Base, TypeOK
<1> QED
  BY <1>1 DEF Aged, Job, Live

(* Time passes only while every worker of a process with waiting jobs is    *)
(* busy, so a job that has no time to spare is not kept waiting.            *)
LEMMA TickKeeps ==
  ASSUME Base, PermitsOK, Schedule, ~Hangs, Tick
  PROVE  Schedule'
<1>1. OnTime /\ queue' = queue
  BY DEF Tick
<1>2. ASSUME NEW p \in Proc  PROVE Busy(p)' = Busy(p)
  BY TickAges DEF Busy
<1>3. ClaimedFresh'
  <2> SUFFICES ASSUME NEW u \in Token, job'[u].stage = "claimed"  PROVE FALSE
    BY DEF ClaimedFresh
  <2>1. job[u].stage = "claimed"
    BY TickAges
  <2> QED
    BY <1>1, <2>1 DEF OnTime, InFlight, Live
<1>4. QueuedWaits'
  <2>1. ASSUME NEW u \in Token, job'[u].stage = "queued"  PROVE job'[u].age = 0 /\ Waits(u)'
    <3>1. job[u].stage = "queued" /\ job'[u].proc = job[u].proc
      BY <2>1, TickAges
    <3>2. job'[u].age = job[u].age
      BY <3>1, TickAges DEF Live, Running
    <3>3. job[u].age = 0 /\ Waits(u)
      BY <3>1 DEF Schedule, QueuedWaits
    <3> QED
      BY <1>1, <3>1, <3>2, <3>3 DEF Waits, Waiting
  <2> QED
    BY <2>1 DEF QueuedWaits
<1>5. ASSUME NEW p \in Proc, NEW u \in Busy(p)
      PROVE  /\ u \in Token /\ job[u].age \in Nat /\ job[u].age < Budget
             /\ job[u].lease \in Int /\ job[u].lease >= Budget - job[u].age
             /\ job'[u].age = job[u].age + 1 /\ job'[u].lease = CountDown(job[u].lease)
  <2>1. u \in Token /\ job[u].stage \in Running
    BY DEF Busy
  <2>2. job[u].age < Budget
    BY <1>1 DEF OnTime
  <2>3. job[u].lease >= Budget - job[u].age
    BY DEF Schedule, RunningInTime
  <2>4. job[u].age \in Nat /\ job[u].lease \in Int
    BY <2>1, JobFields DEF Base
  <2>5. job'[u].age = job[u].age + 1 /\ job'[u].lease = CountDown(job[u].lease)
    BY <2>1, TickAges DEF Live
  <2> QED
    BY <2>1, <2>2, <2>3, <2>4, <2>5
<1>6. RunningInTime'
  <2> SUFFICES ASSUME NEW p \in Proc, NEW u \in Busy(p)'
               PROVE  job'[u].age <= Budget /\ job'[u].lease >= Budget - job'[u].age
    BY DEF RunningInTime
  <2>1. u \in Busy(p)
    BY <1>2
  <2>2. job[u].age + 1 <= Budget /\ job[u].lease >= 1 /\ job[u].lease - 1 >= Budget - (job[u].age + 1)
    BY <1>5, <2>1, Sizes
  <2>3. job'[u].lease = job[u].lease - 1
    BY <1>5, <2>1, <2>2 DEF CountDown, Expired
  <2> QED
    BY <1>5, <2>1, <2>2, <2>3
<1>7. ASSUME NEW p \in Proc, NEW i \in 1..Len(queue[p])  PROVE InTime(p, i)'
  <2>1. /\ queue[p][i] \in Token /\ job[queue[p][i]].stage = "queued"
        /\ job[queue[p][i]].lease \in Int /\ queue[p] # <<>>
    <3>1. queue[p][i] \in Token /\ queue[p] # <<>>
      BY DEF Base, TypeOK
    <3>2. job[queue[p][i]].stage = "queued"
      BY DEF Base, QueueOK
    <3> QED
      BY <3>1, <3>2, JobFields DEF Base
  <2>2. PICK l \in Int : l = job[queue[p][i]].lease
    BY <2>1
  <2>3. InTime(p, i)
    BY DEF Schedule, QueueInTime
  <2>4. PICK k \in Nat \ {0} : \E r \in 1..Workers : InRound(p, i, k, r)
    BY <2>3 DEF InTime
  <2>5. PICK r \in 1..Workers : InRound(p, i, k, r)
    BY <2>4
  <2>6. /\ i = (k - 1) * Workers + r /\ k * Budget <= l
        /\ Cardinality(Late(p, l - k * Budget)) <= Workers - r
    BY <2>2, <2>5 DEF InRound
  <2>7. PICK d \in Nat : d = k * Budget
    BY Sizes
  <2>8. Cardinality(Late(p, l - d)) <= Workers - r
    BY <2>6, <2>7
  <2>9. l - d >= 1
    <3>1. CASE l - d = 0
      <4>1. Late(p, 0) = Busy(p)
        BY <1>5, Sizes DEF Late
      <4>2. Cardinality(Busy(p)) >= Workers /\ Cardinality(Busy(p)) \in Nat
        BY <1>1, <2>1, QueueCounts DEF OnTime
      <4>3. Cardinality(Busy(p)) <= Workers - r
        BY <2>8, <3>1, <4>1
      <4> QED
        BY <4>2, <4>3, Sizes
    <3>2. d <= l
      BY <2>6, <2>7
    <3> QED
      BY <3>1, <3>2
  <2>10. job'[queue[p][i]].lease = l - 1
    <3>1. job'[queue[p][i]].lease = CountDown(l)
      BY <2>1, <2>2, TickAges DEF Live
    <3>2. l >= 1
      BY <2>9
    <3> QED
      BY <3>1, <3>2 DEF CountDown, Expired
  <2>11. Late(p, (l - 1) - d)' = Late(p, l - d)
    <3>1. ASSUME NEW u \in Busy(p)
          PROVE  (Budget - job'[u].age > (l - 1) - d) <=> (Budget - job[u].age > l - d)
      <4>1. job[u].age \in Nat /\ job'[u].age = job[u].age + 1
        BY <1>5
      <4>2. \A a \in Nat : (Budget - (a + 1) > (l - 1) - d) <=> (Budget - a > l - d)
        BY Sizes
      <4> QED
        BY <4>1, <4>2
    <3>2. Late(p, (l - 1) - d)' = {u \in Busy(p)' : Budget - job'[u].age > (l - 1) - d}
      BY DEF Late
    <3> QED
      BY <1>2, <3>1, <3>2 DEF Late
  <2>12. Late(p, job[queue[p][i]].lease - k * Budget)' = Late(p, (l - 1) - d)'
    BY <1>1, <2>7, <2>10 DEF Late
  <2>13. k * Budget <= l - 1
    BY <2>7, <2>9
  <2>14. InRound(p, i, k, r)'
    <3>1. job'[queue'[p][i]].lease = l - 1
      BY <1>1, <2>10
    <3>2. Cardinality(Late(p, job[queue[p][i]].lease - k * Budget)') <= Workers - r
      BY <2>8, <2>11, <2>12
    <3> QED
      BY <2>6, <2>13, <3>1, <3>2 DEF InRound
  <2> QED
    BY <2>14 DEF InTime
<1>8. QueueInTime'
  BY <1>1, <1>7 DEF QueueInTime
<1> QED
  BY <1>3, <1>4, <1>6, <1>8 DEF Schedule

(* At the start nothing waits and nothing runs. *)
LEMMA ScheduleInit == Init => Schedule
<1> SUFFICES ASSUME Init PROVE Schedule
  OBVIOUS
<1>1. \A u \in Token : job[u].stage = "unused"
  BY DEF Init, NoJob
<1>2. \A p \in Proc : queue[p] = <<>> /\ Busy(p) = {}
  BY <1>1 DEF Init, Busy, Running
<1>3. ClaimedFresh /\ QueuedWaits
  BY <1>1 DEF ClaimedFresh, QueuedWaits
<1>4. RunningInTime /\ QueueInTime
  BY <1>2 DEF RunningInTime, QueueInTime
<1> QED
  BY <1>3, <1>4 DEF Schedule

(* Every step keeps every job in time. *)
LEMMA ScheduleStep ==
  ASSUME ~Hangs, LeaseCoversQueue, Base, PermitsOK, Schedule, [Next]_vars
  PROVE  Schedule'
<1>1. CASE Quiet
  BY <1>1, QuietKeeps
<1>2. ASSUME NEW v \in Viewer, Submit(v)  PROVE Schedule'
  BY <1>2, SubmitKeeps
<1>3. ASSUME NEW p \in Proc, Start(p)  PROVE Schedule'
  BY <1>3, StartKeeps
<1>4. CASE Tick
  BY <1>4, TickKeeps
<1> QED
  BY <1>1, <1>2, <1>3, <1>4, QuietSteps

(* So every job is always in time. *)
LEMMA AlwaysInTime ==
  ASSUME RereadsSucceed, ~Hangs, LeaseCoversQueue
  PROVE  Spec => []Schedule
<1>1. Init => Schedule
  BY ScheduleInit
<1>2. Inv /\ PermitsOK /\ Schedule /\ [Next]_vars => Schedule'
  BY ScheduleStep DEF Inv
<1> QED
  BY <1>1, <1>2, Invariance, AlwaysPermits, PTL DEF Spec

(* In time, no job in flight has lost its lease. *)
LEMMA LeaseLasts ==
  ASSUME Base, Schedule, NEW u \in InFlight
  PROVE  job[u].lease >= 0
<1>1. u \in Token /\ job[u].stage \in Live /\ job[u].proc \in Proc /\ job[u].lease \in Int
  BY JobFields DEF InFlight, Base, JobOK
<1>2. CASE job[u].stage = "claimed"
  BY <1>1, <1>2, Sizes DEF Schedule, ClaimedFresh
<1>3. CASE job[u].stage = "queued"
  <2>1. PICK i \in 1..Len(queue[job[u].proc]) : queue[job[u].proc][i] = u
    BY <1>1, <1>3 DEF Schedule, QueuedWaits, Waits, Waiting
  <2>2. InTime(job[u].proc, i)
    BY <1>1 DEF Schedule, QueueInTime
  <2>3. \E k \in Nat \ {0} : k * Budget <= job[u].lease
    BY <2>1, <2>2 DEF InTime, InRound
  <2>4. \A k \in Nat \ {0} : k * Budget \in Nat
    BY Sizes
  <2> QED
    BY <1>1, <2>3, <2>4
<1>4. CASE job[u].stage \in Running
  <2>1. u \in Busy(job[u].proc)
    BY <1>1, <1>4 DEF Busy
  <2>2. job[u].age <= Budget /\ job[u].lease >= Budget - job[u].age /\ job[u].age \in Nat
    BY <1>1, <2>1, JobFields DEF Schedule, RunningInTime, Base
  <2> QED
    BY <1>1, <2>2, Sizes
<1> QED
  BY <1>1, <1>2, <1>3, <1>4 DEF Live

(* "Database claims prevent concurrent duplicate calls" (README.md:327):    *)
(* when no job outstays its budget and the lease covers the wait in a full  *)
(* queue (news_analysis.py:28), no two workers of any processes ever hold   *)
(* the same assessment, whatever crashes and whichever save or claim fails. *)
THEOREM CallsNeverOverlap ==
  ASSUME RereadsSucceed, ~Hangs, LeaseCoversQueue
  PROVE  Spec => []NoConcurrentCalls
<1>1. Inv /\ Schedule => NoConcurrentCalls
  <2> SUFFICES ASSUME Inv, Schedule, NEW t \in InFlight, NEW u \in InFlight,
                      job[t].key = job[u].key
               PROVE  t = u
    BY DEF NoConcurrentCalls
  <2>1. job[t].lease >= 0 /\ job[u].lease >= 0
    BY LeaseLasts DEF Inv
  <2>2. row[job[t].key].token = t /\ row[job[u].key].token = u
    BY <2>1 DEF Inv, LeaseOK
  <2> QED
    BY <2>2
<1> QED
  BY <1>1, Invariance, AlwaysInTime, PTL
=============================================================================

--------------------------- MODULE NewsAssessment ---------------------------
(***************************************************************************)
(* What the news assessments promise their readers, whoever computes them: *)
(* an assessment is attempted at most MaxAttempts times, and once it is    *)
(* ready its result is final.  NewsAnalysis implements this specification. *)
(***************************************************************************)
EXTENDS Integers

CONSTANTS Key, Result, NoResult, MaxAttempts

VARIABLES status, result, attempts

avars == <<status, result, attempts>>

AInit ==
    /\ status = [k \in Key |-> "absent"]
    /\ result = [k \in Key |-> NoResult]
    /\ attempts = [k \in Key |-> 0]

(* A first attempt, a retry after a failure, or the takeover of an abandoned one. *)
Attempt(k) ==
    /\ status[k] # "ready"
    /\ attempts[k] < MaxAttempts
    /\ status' = [status EXCEPT ![k] = "pending"]
    /\ attempts' = [attempts EXCEPT ![k] = @ + 1]
    /\ result' = result

Complete(k) ==
    /\ status[k] = "pending"
    /\ status' = [status EXCEPT ![k] = "ready"]
    /\ \E r \in Result : result' = [result EXCEPT ![k] = r]
    /\ attempts' = attempts

GiveUp(k) ==
    /\ status[k] = "pending"
    /\ status' = [status EXCEPT ![k] = "unavailable"]
    /\ UNCHANGED <<result, attempts>>

ANext == \E k \in Key : Attempt(k) \/ Complete(k) \/ GiveUp(k)

ASpec == AInit /\ [][ANext]_avars
=============================================================================

---------------------------- MODULE WeeklyDigest ----------------------------
(***************************************************************************)
(* What the weekly submissions promise: a digest is edited freely while it *)
(* is open, is sent once and with something in it, never changes after     *)
(* that, and is acknowledged once, by somebody other than its author.      *)
(* Submissions implements this specification.                              *)
(***************************************************************************)
CONSTANTS Digest, User, NoUser

VARIABLES state, contents, reviewer

dvars == <<state, contents, reviewer>>

DInit ==
    /\ state = [d \in Digest |-> "open"]
    /\ contents = [d \in Digest |-> {}]
    /\ reviewer = [d \in Digest |-> NoUser]

Edit(d) ==
    /\ state[d] = "open"
    /\ contents' = [contents EXCEPT ![d] = contents'[d]]
    /\ UNCHANGED <<state, reviewer>>

Send(d) ==
    /\ state[d] = "open"
    /\ contents[d] # {}
    /\ state' = [state EXCEPT ![d] = "sent"]
    /\ UNCHANGED <<contents, reviewer>>

Acknowledge(d, u) ==
    /\ state[d] = "sent"
    /\ u # d.user
    /\ state' = [state EXCEPT ![d] = "acked"]
    /\ reviewer' = [reviewer EXCEPT ![d] = u]
    /\ contents' = contents

DNext == \E d \in Digest :
            \/ Edit(d) \/ Send(d)
            \/ \E u \in User : Acknowledge(d, u)

DSpec == DInit /\ [][DNext]_dvars
=============================================================================

--------------------------- MODULE MCNewsAnalysis ---------------------------
(* Small instances of NewsAnalysis for TLC. *)
EXTENDS NewsAnalysis, TLC

CONSTANTS p1, p2, v1, v2, v3

(* Two processes, one request thread each. *)
HomeApart == v1 :> p1 @@ v2 :> p2

(* Two processes, one of them with two request threads. *)
HomeMixed == v1 :> p1 @@ v2 :> p1 @@ v3 :> p2

(* One process. *)
HomeAlone == v1 :> p1
HomeTogether == v1 :> p1 @@ v2 :> p1

KeySymmetry == Permutations(Key)
=============================================================================

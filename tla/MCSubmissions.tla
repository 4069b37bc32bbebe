--------------------------- MODULE MCSubmissions ---------------------------
(* Small instances of Submissions for TLC. *)
EXTENDS Submissions, TLC

CONSTANTS u1, u2, u3, s1

(* One analyst. *)
CoversFirst == u1 :> {s1} @@ u2 :> {} @@ u3 :> {}

(* The sector has no lead, or a second user leads it. *)
BoardsOfSector == {{}, {u2}}

RequestSymmetry == Permutations(Request)
=============================================================================

-------------------------- MODULE MCNightlyRefresh --------------------------
(* Small instances of NightlyRefresh for TLC. *)
EXTENDS NightlyRefresh

CONSTANTS spy, goog

Alphabet == <<goog, spy>>

(* The stock may split on the day of the import and two sessions later, the *)
(* index two sessions later; in between, the close of the stock may be      *)
(* missing.                                                                 *)
Splits == [t \in {spy, goog} |-> IF t = goog THEN {ImportDay, ImportDay + 2} ELSE {ImportDay + 2}]
LaterSplits == [t \in {spy, goog} |-> IF t = goog THEN {ImportDay + 2} ELSE {}]
Gaps == [t \in {spy, goog} |-> IF t = goog THEN {ImportDay + 1} ELSE {}]
NoGaps == [t \in {spy, goog} |-> {}]
=============================================================================

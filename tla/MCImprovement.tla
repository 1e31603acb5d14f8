--------------------------- MODULE MCImprovement ---------------------------
(***************************************************************************)
(* Small instances of Improvement: a baseline, a candidate that improves   *)
(* it and one that fails a required check or gains nothing.                *)
(***************************************************************************)
EXTENDS Improvement, TLC

CONSTANTS base, good, poor, note

Scores == [t \in Texts |-> IF t = good THEN 3 ELSE 1]
=============================================================================

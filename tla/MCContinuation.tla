--------------------------- MODULE MCContinuation ---------------------------
(***************************************************************************)
(* Small instances of Continuation.                                        *)
(***************************************************************************)
EXTENDS Continuation, TLC

CONSTANTS p1, p2, r1, r2

Budget(calls, tokens) == [calls |-> calls, tokens |-> tokens, wall |-> 9, deadline |-> 9]

Small == Budget(2, 3)

(* A source with one call can be continued, two with a call each cannot.   *)
Tight == {Budget(2, 3)}

Generous == {Budget(2, 4)}

Symmetry == Permutations(Pruners) \union Permutations(Procs)
=============================================================================

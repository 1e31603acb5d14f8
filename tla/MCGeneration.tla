---------------------------- MODULE MCGeneration ----------------------------
(***************************************************************************)
(* Small instances of Generation: two measures, usage below and above the  *)
(* allowance, and figures that are not known.                              *)
(***************************************************************************)
EXTENDS Generation, TLC

CONSTANTS k1, k2, x, y, provider, none

Metered == {"tokens", "cost"}

Usage(t, c) == [m \in Metered |-> IF m = "tokens" THEN t ELSE c]

Allowances == {Usage(1, 1), Usage(2, 1)}

Budget == Usage(4, 3)

Reports ==
    {Usage(0, 0), Usage(2, 0), Usage(2, none), Usage(0, none), Usage(none, 2), Usage(none, none)}

KeySymmetry == Permutations({k1, k2})
=============================================================================

--------------------------- MODULE MCTaskHarness ---------------------------
(***************************************************************************)
(* Small instances of TaskHarness: one command, push, that a policy may    *)
(* put at a human boundary.                                                *)
(***************************************************************************)
EXTENDS TaskHarness, TLC

CONSTANTS push, n1, p1, v1

(* A push without a grant, or with one that permits writes. *)
PlainAccess  == push :> "none"
WritesAccess == push :> "writes"

(* The policies a project may have: the push needs a human, is free or is  *)
(* denied.                                                                 *)
Strict == push :> "human"
Free   == push :> "allow"
Closed == push :> "deny"

AnyPolicy == {Strict, Free, Closed}
RelaxingPolicy == {Strict, Free}
=============================================================================

--------------------------- MODULE ExternalAction ---------------------------
(***************************************************************************)
(* What the external-action protocol promises for the one-time nonces of a *)
(* task, without checkpoints, processes, crashes or evidence: an action is *)
(* staged while no other is open, started, launched at most once, and      *)
(* ends cancelled (never launched), verified (launched and returned        *)
(* successfully) or reconciled (its outcome was uncertain).                *)
(***************************************************************************)
CONSTANT Nonces

VARIABLE phase

Ended == {"cancelled", "verified", "reconciled"}

Open == {"pending", "started", "launched", "returned"}

TypeOK == phase \in [Nonces -> {"unused"} \union Open \union Ended]

Init == phase = [n \in Nonces |-> "unused"]

Move(n, from, to) == phase[n] = from /\ phase' = [phase EXCEPT ![n] = to]

Stage(n) ==
    /\ \A m \in Nonces : phase[m] \notin Open
    /\ Move(n, "unused", "pending")

Cancel(n) == Move(n, "pending", "cancelled")

Start(n) == Move(n, "pending", "started")

Launch(n) == Move(n, "started", "launched")

Return(n) == Move(n, "launched", "returned")

Verify(n) == Move(n, "returned", "verified")

Reconcile(n) ==
    \/ Move(n, "started", "reconciled")
    \/ Move(n, "launched", "reconciled")

Next ==
    \E n \in Nonces :
        \/ Stage(n) \/ Cancel(n) \/ Start(n) \/ Launch(n)
        \/ Return(n) \/ Verify(n) \/ Reconcile(n)

Spec == Init /\ [][Next]_phase
=============================================================================

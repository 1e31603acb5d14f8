----------------------------- MODULE TaskStatus -----------------------------
(***************************************************************************)
(* The status machine of a task checkpoint: the statuses, the terminal     *)
(* ones, and the transitions the checkpoint store accepts.  It has no      *)
(* variables; every module that keeps a task's status builds on it.        *)
(***************************************************************************)

Statuses == {"active", "paused", "escalated", "completed", "stopped", "failed"}

Terminal == {"completed", "stopped", "failed"}

(* ALLOWED_STATUS_TRANSITIONS. *)
Allowed ==
    [s \in Statuses |->
        CASE s = "active"    -> {"paused", "stopped", "completed", "escalated", "failed"}
          [] s = "paused"    -> {"active", "stopped", "escalated", "failed"}
          [] s = "escalated" -> {"active", "stopped", "failed"}
          [] OTHER           -> {}]

(* _validate_status_transition: staying put is always accepted, also for a *)
(* terminal status (the store then returns without saving).                *)
MayBecome(from, to) == from = to \/ to \in Allowed[from]
=============================================================================

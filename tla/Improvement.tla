---------------------------- MODULE Improvement ----------------------------
(***************************************************************************)
(* The improvement experiment of one task: evaluating candidates, the      *)
(* staged promotion of one into the target file, its rollback, the         *)
(* lock-free cancellation, resume, and the completion of the task.         *)
(*                                                                         *)
(* Promotion, evaluation, resume and completion hold the task's lock (pc   *)
(* says where the holder is); the canceller does not, and the user, the    *)
(* project's guidance and the stop file change at any time.  The           *)
(* experiment has begun and its candidates have been submitted.            *)
(***************************************************************************)
EXTENDS Naturals

CONSTANTS
    Candidates,   \* the submitted candidate texts, other than the baseline
    Base,         \* the baseline text
    UserTexts,    \* texts the user may put into the target file
    Absent,       \* the state of a target file that was deleted
    Score,        \* the evaluator's score of each text
    HardPass,     \* the texts that pass the evaluator's required checks
    MinGain,      \* min_gain
    MaxAttempts   \* bound: evaluations begun

Texts == Candidates \union {Base}

ASSUME ExperimentAssumption ==
    /\ Base \notin Candidates /\ Absent \notin Texts \union UserTexts
    /\ UserTexts \intersect Texts = {}
    /\ Score \in [Texts -> Nat] /\ HardPass \subseteq Texts
    /\ MinGain \in Nat /\ MaxAttempts \in Nat

VARIABLES
    (* the experiment and the status in the task's checkpoint *)
    task, status, selected, latest,
    (* the target file, the cancel and stop files, and whether the          *)
    (* configuration and the guidance are those the experiment began with   *)
    target, cancel, stop, fresh,
    (* the lock holder and the canceller *)
    pc, job, canceller,
    (* history, read by properties only *)
    trial, edited, unfinished, attempts

experiment == <<status, selected, latest>>
signals    == <<cancel, stop, fresh>>
history    == <<edited, unfinished, attempts>>
vars       == <<task, experiment, target, signals, pc, job, canceller, trial, history>>

ExperimentStatuses == {"active", "promoting", "promoted", "cancelled", "conflict"}

AttemptStatuses == {"none", "running", "passed", "failed", "interrupted", "spoiled"}

TaskStatuses == {"active", "paused", "escalated", "stopped", "completed"}

Operations == {"none", "evaluate", "promote", "resume", "abandon", "complete"}

Jobs == [op : Operations, text : Texts, failed : BOOLEAN]

NoJob == [op |-> "none", text |-> Base, failed |-> FALSE]

Pcs == {"idle", "evaluating", "preparing", "writing", "sensing", "judging", "adopting",
        "undoing", "restoring", "undone", "pausing", "resuming", "unlinking",
        "verifying", "finishing"}

TypeOK ==
    /\ task \in TaskStatuses /\ status \in ExperimentStatuses
    /\ selected \in Texts /\ latest \in [Texts -> AttemptStatuses]
    /\ target \in Texts \union UserTexts \union {Absent}
    /\ cancel \in BOOLEAN /\ stop \in BOOLEAN /\ fresh \in BOOLEAN
    /\ pc \in Pcs /\ job \in Jobs /\ canceller \in {"idle", "signalling"}
    /\ trial \in BOOLEAN /\ edited \in BOOLEAN /\ unfinished \subseteq Texts
    /\ attempts \in Nat

(* Without a selected candidate the record falls back on the baseline. *)
Init ==
    /\ task = "active" /\ status = "active" /\ selected = Base
    /\ latest = [t \in Texts |-> "none"] /\ target = Base
    /\ cancel = FALSE /\ stop = FALSE /\ fresh = TRUE
    /\ pc = "idle" /\ job = NoJob /\ canceller = "idle"
    /\ trial = FALSE /\ edited = FALSE /\ unfinished = {} /\ attempts = 0
-----------------------------------------------------------------------------
Idle == pc = "idle"

Goto(l) == pc' = l /\ job' = IF l = "idle" THEN NoJob ELSE job

Begin(l, op, t) ==
    Idle /\ pc' = l /\ job' = [NoJob EXCEPT !.op = op, !.text = t]

Stopped == stop \/ cancel

(* _ready, of a task without an external action and with its host usage    *)
(* reported.                                                               *)
Ready == fresh /\ task = "active" /\ status = "active" /\ ~Stopped

(* Evaluation and promotion first look at the task's budgets; a wire that  *)
(* fires escalates it.                                                     *)
BudgetTrips ==
    /\ Idle /\ Ready
    /\ task' = "escalated"
    /\ UNCHANGED <<experiment, target, signals, pc, job, canceller, trial, history>>

(* _current_attempt. *)
Compared(t) == latest[t] \in {"passed", "failed"}

(* Mutant: the result of an earlier attempt stays until there is a new one. *)
EvaluateKeepingOldResult(t) ==
    /\ Ready /\ attempts < MaxAttempts
    /\ Begin("evaluating", "evaluate", t)
    /\ latest' = [latest EXCEPT ![t] = IF Compared(t) THEN @ ELSE "running"]
    /\ unfinished' = unfinished \union {t} /\ attempts' = attempts + 1
    /\ UNCHANGED <<task, status, selected, target, signals, canceller, trial, edited>>

(* Evaluation: the attempt is saved as running before the text is scored,  *)
(* so it replaces the earlier one's result first.                          *)
EvaluateCandidate(t) ==
    /\ Ready /\ attempts < MaxAttempts
    /\ \A u \in Texts : latest[u] # "running"
    /\ Begin("evaluating", "evaluate", t)
    /\ latest' = [latest EXCEPT ![t] = "running"]
    /\ unfinished' = unfinished \union {t} /\ attempts' = attempts + 1
    /\ UNCHANGED <<task, status, selected, target, signals, canceller, trial, edited>>

FinishEvaluation ==
    /\ pc = "evaluating"
    /\ latest' = [latest EXCEPT ![job.text] =
                     IF Stopped THEN "interrupted"
                     ELSE IF job.text \in HardPass THEN "passed" ELSE "failed"]
    /\ unfinished' = IF Stopped THEN unfinished ELSE unfinished \ {job.text}
    /\ Goto("idle")
    /\ UNCHANGED <<task, status, selected, target, signals, canceller, trial, edited, attempts>>
-----------------------------------------------------------------------------
(* Promotion. *)

Improves(t) == Score[t] > Score[Base] /\ Score[t] >= Score[Base] + MinGain

(* The target is read and must be the baseline; observing the write that   *)
(* follows is a save of its own.                                           *)
PromoteCandidate(t) ==
    /\ Ready /\ Compared(Base) /\ latest[t] = "passed" /\ Improves(t)
    /\ target = Base
    /\ Begin("preparing", "promote", t)
    /\ edited' = FALSE
    /\ UNCHANGED <<task, experiment, target, signals, canceller, trial, unfinished, attempts>>

SavePrepared ==
    /\ pc = "preparing"
    /\ status' = "promoting" /\ selected' = job.text
    /\ Goto("writing")
    /\ UNCHANGED <<task, latest, target, signals, canceller, trial, history>>

(* A write that fails leaves the target as it was, and is rolled back.     *)
WriteTrial ==
    /\ pc = "writing"
    /\ \/ target' = job.text /\ trial' = TRUE /\ Goto("sensing")
       \/ Goto("undoing") /\ UNCHANGED <<target, trial>>
    /\ UNCHANGED <<task, experiment, signals, canceller, history>>

(* The project's sensors pass or fail; a stopped one pauses the task, a    *)
(* fired trip wire escalates it, and a stop file ends the suite.           *)
RunSensors ==
    /\ pc = "sensing"
    /\ \/ Goto("judging") /\ UNCHANGED task
       \/ Goto("undoing") /\ task' = "escalated"
       \/ Stopped /\ Goto("undoing") /\ task' = "paused"
       \/ stop /\ Goto("undoing") /\ UNCHANGED task
       \/ pc' = "undoing" /\ job' = [job EXCEPT !.failed = TRUE] /\ UNCHANGED task
    /\ UNCHANGED <<experiment, target, signals, canceller, trial, history>>

(* Mutant: what the target holds by now does not matter. *)
JudgeWithoutTarget ==
    /\ pc = "judging"
    /\ Goto(IF fresh /\ ~Stopped /\ Compared(Base) /\ latest[job.text] = "passed"
            THEN "adopting" ELSE "undoing")
    /\ edited' = FALSE
    /\ UNCHANGED <<task, experiment, target, signals, canceller, trial, unfinished, attempts>>

Judge ==
    /\ pc = "judging"
    /\ Goto(IF fresh /\ ~Stopped /\ target = job.text
                 /\ Compared(Base) /\ latest[job.text] = "passed"
            THEN "adopting" ELSE "undoing")
    /\ edited' = FALSE
    /\ UNCHANGED <<task, experiment, target, signals, canceller, trial, unfinished, attempts>>

SavePromoted ==
    /\ pc = "adopting"
    /\ status' = "promoted"
    /\ Goto("idle")
    /\ UNCHANGED <<task, selected, latest, target, signals, canceller, trial, history>>
-----------------------------------------------------------------------------
(* _rollback, of a failed promotion or of an interrupted one that is       *)
(* resumed.  A target that cannot be read leaves the record as it is.      *)

(* Mutant: a changed target is restored as well. *)
UndoAnything ==
    /\ pc = "undoing"
    /\ edited' = FALSE
    /\ \/ target = Absent /\ Goto("idle") /\ UNCHANGED status
       \/ target = Base /\ Goto("undone") /\ UNCHANGED status
       \/ target \notin {Absent, Base} /\ Goto("restoring") /\ UNCHANGED status
    /\ UNCHANGED <<task, selected, latest, target, signals, canceller, trial, unfinished, attempts>>

Undo ==
    /\ pc = "undoing"
    /\ edited' = FALSE
    /\ \/ target = Absent /\ Goto("idle") /\ UNCHANGED status
       \/ target = selected /\ Goto("restoring") /\ UNCHANGED status
       \/ target = Base /\ target # selected /\ Goto("undone") /\ UNCHANGED status
       \/ target \notin {Absent, Base, selected} /\ Goto("idle") /\ status' = "conflict"
    /\ UNCHANGED <<task, selected, latest, target, signals, canceller, trial, unfinished, attempts>>

RestoreBaseline ==
    /\ pc = "restoring"
    /\ target' = Base /\ trial' = FALSE
    /\ Goto("undone")
    /\ UNCHANGED <<task, experiment, signals, canceller, history>>

(* Mutant: the rolled-back record is saved before the file is restored. *)
SaveRolledBackEarly ==
    /\ pc \in {"restoring", "undone"}
    /\ status' = "active" /\ selected' = Base
    /\ Goto(IF job.op = "promote" THEN "pausing" ELSE "resuming")
    /\ UNCHANGED <<task, latest, target, signals, canceller, trial, history>>

SaveRolledBack ==
    /\ pc = "undone"
    /\ status' = "active" /\ selected' = Base
    /\ Goto(IF job.op = "promote" THEN "pausing" ELSE "resuming")
    /\ UNCHANGED <<task, latest, target, signals, canceller, trial, history>>

(* Failed required sensors may trip a wire, which pauses an active task.   *)
PauseAfterFailure ==
    /\ pc = "pausing"
    /\ task' \in IF job.failed /\ task = "active" THEN {"active", "paused"} ELSE {task}
    /\ Goto("idle")
    /\ UNCHANGED <<experiment, target, signals, canceller, trial, history>>

ResumeImprovement(op) ==
    /\ task = "active" /\ status # "promoted"
    /\ Begin(IF status \in {"promoting", "conflict"} THEN "undoing" ELSE "resuming", op, Base)
    /\ UNCHANGED <<task, experiment, target, signals, canceller, trial, history>>

SaveResumed ==
    /\ pc = "resuming"
    /\ latest' = [t \in Texts |-> IF latest[t] = "running" THEN "interrupted" ELSE latest[t]]
    /\ status' = IF job.op = "abandon" THEN "cancelled" ELSE "active"
    /\ Goto("unlinking")
    /\ UNCHANGED <<task, selected, target, signals, canceller, trial, history>>

ClearCancel ==
    /\ pc = "unlinking"
    /\ cancel' = FALSE
    /\ Goto("idle")
    /\ UNCHANGED <<task, experiment, target, stop, fresh, canceller, trial, history>>
-----------------------------------------------------------------------------
(* cancel_improvement holds no lock: it reads the record, then signals. *)

CancelImprovement ==
    /\ canceller = "idle" /\ status \in {"active", "promoting", "conflict"}
    /\ canceller' = "signalling"
    /\ UNCHANGED <<task, experiment, target, signals, pc, job, trial, history>>

Signal ==
    /\ canceller = "signalling"
    /\ cancel' = TRUE /\ canceller' = "idle"
    /\ UNCHANGED <<task, experiment, target, stop, fresh, pc, job, trial, history>>
-----------------------------------------------------------------------------
(* Completion of the task, as far as the experiment has a part in it.      *)

(* ensure_improvement_resolved. *)
Resolved ==
    /\ status \in {"cancelled", "promoted"}
    /\ status = "promoted" =>
          fresh /\ target = selected /\ Compared(Base) /\ latest[selected] = "passed"

CompleteTask ==
    /\ task = "active" /\ Resolved /\ ~stop
    /\ Begin("verifying", "complete", Base)
    /\ UNCHANGED <<task, experiment, target, signals, canceller, trial, history>>

(* A sensor that finds a signal pauses the task, as a failed one does. *)
VerifyCompletion ==
    /\ pc = "verifying"
    /\ \/ ~Stopped /\ Goto("finishing") /\ UNCHANGED task
       \/ Goto("idle") /\ task' = "paused"
    /\ UNCHANGED <<experiment, target, signals, canceller, trial, history>>

FinishCompletion ==
    /\ pc = "finishing"
    /\ task' = IF ~stop /\ Resolved THEN "completed" ELSE task
    /\ Goto("idle")
    /\ UNCHANGED <<experiment, target, signals, canceller, trial, history>>

StopTask ==
    /\ Idle /\ task \notin {"stopped", "completed"}
    /\ task' = "stopped"
    /\ UNCHANGED <<experiment, target, signals, pc, job, canceller, trial, history>>

ReactivateTask ==
    /\ Idle /\ task \in {"paused", "escalated"}
    /\ task' = "active"
    /\ UNCHANGED <<experiment, target, signals, pc, job, canceller, trial, history>>

(* The stop file appears, or is cleared by a resumed task. *)
ToggleStop ==
    /\ stop' = ~stop
    /\ UNCHANGED <<task, experiment, target, cancel, fresh, pc, job, canceller, trial, history>>

(* Guidance files change, or change back. *)
ToggleGuidance ==
    /\ fresh' = ~fresh
    /\ UNCHANGED <<task, experiment, target, cancel, stop, pc, job, canceller, trial, history>>

(* The retained report of a comparison is changed or removed. *)
SpoilReport(t) ==
    /\ Compared(t)
    /\ latest' = [latest EXCEPT ![t] = "spoiled"]
    /\ UNCHANGED <<task, status, selected, target, signals, pc, job, canceller, trial, history>>

UserEdits(c) ==
    /\ c # target
    /\ target' = c /\ trial' = FALSE /\ edited' = TRUE
    /\ UNCHANGED <<task, experiment, signals, pc, job, canceller, unfinished, attempts>>

Crash ==
    /\ ~Idle
    /\ Goto("idle")
    /\ UNCHANGED <<task, experiment, target, signals, canceller, trial, history>>
-----------------------------------------------------------------------------
HolderStep ==
    \/ FinishEvaluation \/ SavePrepared \/ WriteTrial \/ RunSensors \/ Judge \/ SavePromoted
    \/ Undo \/ RestoreBaseline \/ SaveRolledBack \/ PauseAfterFailure
    \/ SaveResumed \/ ClearCancel \/ VerifyCompletion \/ FinishCompletion

Call ==
    \/ \E t \in Texts : EvaluateCandidate(t)
    \/ \E t \in Candidates : PromoteCandidate(t)
    \/ \E op \in {"resume", "abandon"} : ResumeImprovement(op)
    \/ BudgetTrips \/ CompleteTask \/ StopTask \/ ReactivateTask

Environment ==
    \/ CancelImprovement \/ Signal \/ ToggleStop \/ ToggleGuidance \/ Crash
    \/ \E t \in Texts : SpoilReport(t)
    \/ \E c \in Texts \union UserTexts \union {Absent} : UserEdits(c)

Next == HolderStep \/ Call \/ Environment

Spec == Init /\ [][Next]_vars
-----------------------------------------------------------------------------
(* Properties. *)

(* A candidate the promotion put into the target is there only while the   *)
(* record says so: no crash, rollback, conflict or resume leaves an        *)
(* unadopted trial behind a record that no longer knows of it.             *)
NoTrialLeftBehind == trial => status \in {"promoting", "promoted"} /\ target = selected

(* A trial rests on finished comparisons of the baseline and the candidate *)
(* it selects: no attempt begun later and interrupted inherits the success *)
(* of an earlier one.                                                      *)
TrialIsCompared ==
    status \in {"promoting", "promoted", "conflict"} =>
        /\ selected \in Candidates /\ Improves(selected) /\ selected \in HardPass
        /\ {Base, selected} \intersect unfinished = {}

(* When a candidate is adopted its trial is in the target, unless the user *)
(* edited the file after the last look at it.                              *)
AdoptsItsTrial ==
    [][status # "promoted" /\ status' = "promoted" => target = selected' \/ edited]_vars

(* Promotion and rollback overwrite the text they read: the baseline, or   *)
(* the candidate being tried.  Anything else is overwritten only when the  *)
(* user wrote it between the look and the write.                           *)
OverwritesOnlyKnownText ==
    [][(pc \in {"writing", "restoring"}) /\ target' # target /\ pc' \in {"sensing", "undone"}
          => target \in {Base, selected} \/ edited]_vars

(* A task is completed only with its experiment resolved, and stays so. *)
CompletedIsResolved == task = "completed" => status \in {"cancelled", "promoted"}

(* cancel_improvement: "only an unresolved improvement can be cancelled".  *)
CancelIsForUnresolved == status = "promoted" => ~cancel
=============================================================================

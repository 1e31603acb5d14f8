-------------------------- MODULE Improvement_proofs --------------------------
(***************************************************************************)
(* Proofs about Improvement, for every set of texts and every scoring:     *)
(* the experiment's trial, its evidence and its target never come apart.   *)
(*                                                                         *)
(* The inductive invariant says what the lock holder of each program       *)
(* counter may rely on: which status the record has there (HolderInv),     *)
(* what its last look at the target showed (LookInv), that no trial is in  *)
(* the target once it was undone (TrialInv), and that a comparison that    *)
(* counts is one that was finished (EvidenceInv).                          *)
(***************************************************************************)
EXTENDS Improvement, TLAPS

HolderInv ==
    /\ pc = "preparing" => status = "active"
    /\ pc \in {"writing", "sensing", "judging", "adopting"} =>
          status = "promoting" /\ selected = job.text
    /\ pc \in {"undoing", "restoring", "undone"} => status \in {"promoting", "conflict"}
    /\ pc = "resuming" => status \in {"active", "cancelled"}
    /\ pc # "idle" => task # "completed"

LookInv ==
    /\ pc \in {"preparing", "writing"} => target = Base \/ edited
    /\ pc = "adopting" => target = job.text \/ edited
    /\ pc = "restoring" => target = selected \/ edited

TrialInv == NoTrialLeftBehind /\ (pc = "undone" => ~trial)

Proven(t) ==
    /\ t \in Candidates /\ Improves(t) /\ t \in HardPass
    /\ {Base, t} \intersect unfinished = {}

EvidenceInv ==
    /\ TrialIsCompared
    /\ \A t \in Texts : Compared(t) => t \notin unfinished
    /\ \A t \in Texts : latest[t] = "passed" => t \in HardPass
    /\ pc = "preparing" => Proven(job.text)

-----------------------------------------------------------------------------
(* The baseline is a text.                                                *)
LEMMA TextFacts == Base \in Texts /\ Candidates \subseteq Texts
BY DEF Texts

(* The job of an idle holder is a job.                                    *)
LEMMA NoJobFact == NoJob \in Jobs
BY TextFacts DEF NoJob, Jobs, Operations

(* So is one that an operation begins.                                    *)
LEMMA BeginFact ==
    ASSUME NEW op \in Operations, NEW t \in Texts
    PROVE  [NoJob EXCEPT !.op = op, !.text = t] \in Jobs
BY DEF NoJob, Jobs, Operations

(* So is one that has failed.                                             *)
LEMMA FailFact ==
    ASSUME NEW j \in Jobs
    PROVE  [j EXCEPT !.failed = TRUE] \in Jobs
BY DEF Jobs

(* A job is about a text.                                                 *)
LEMMA JobText == \A j \in Jobs : j.text \in Texts
BY DEF Jobs

(* Every step keeps the types.                                            *)
LEMMA TypeStep ==
  ASSUME TypeOK, [Next]_vars
  PROVE  TypeOK'
<1> USE JobText, TextFacts DEF TypeOK, vars, experiment, signals, history, Goto,
         ExperimentStatuses, AttemptStatuses, TaskStatuses, Pcs
<1>1. CASE HolderStep
  <2>FinishEvaluation. CASE FinishEvaluation
    BY <2>FinishEvaluation, NoJobFact DEF FinishEvaluation
  <2>SavePrepared. CASE SavePrepared
    BY <2>SavePrepared, NoJobFact DEF SavePrepared
  <2>WriteTrial. CASE WriteTrial
    BY <2>WriteTrial, NoJobFact DEF WriteTrial
  <2>RunSensors. CASE RunSensors
    BY <2>RunSensors, NoJobFact, FailFact DEF RunSensors
  <2>Judge. CASE Judge
    BY <2>Judge, NoJobFact DEF Judge
  <2>SavePromoted. CASE SavePromoted
    BY <2>SavePromoted, NoJobFact DEF SavePromoted
  <2>Undo. CASE Undo
    <3>1. pc' \in Pcs /\ job' \in Jobs /\ status' \in ExperimentStatuses /\ edited' \in
         BOOLEAN
      BY <2>Undo, NoJobFact DEF Undo
    <3>2. UNCHANGED <<task, selected, latest, target, signals, canceller, trial,
         unfinished,
                      attempts>>
      BY <2>Undo DEF Undo
    <3> QED BY <3>1, <3>2
  <2>RestoreBaseline. CASE RestoreBaseline
    BY <2>RestoreBaseline, NoJobFact DEF RestoreBaseline
  <2>SaveRolledBack. CASE SaveRolledBack
    BY <2>SaveRolledBack, NoJobFact DEF SaveRolledBack
  <2>PauseAfterFailure. CASE PauseAfterFailure
    BY <2>PauseAfterFailure, NoJobFact DEF PauseAfterFailure
  <2>SaveResumed. CASE SaveResumed
    BY <2>SaveResumed, NoJobFact DEF SaveResumed
  <2>ClearCancel. CASE ClearCancel
    BY <2>ClearCancel, NoJobFact DEF ClearCancel
  <2>VerifyCompletion. CASE VerifyCompletion
    BY <2>VerifyCompletion, NoJobFact DEF VerifyCompletion
  <2>FinishCompletion. CASE FinishCompletion
    BY <2>FinishCompletion, NoJobFact DEF FinishCompletion
  <2> QED BY ONLY <1>1, <2>FinishEvaluation, <2>SavePrepared, <2>WriteTrial,
           <2>RunSensors, <2>Judge, <2>SavePromoted, <2>Undo,
           <2>RestoreBaseline, <2>SaveRolledBack, <2>PauseAfterFailure,
           <2>SaveResumed, <2>ClearCancel, <2>VerifyCompletion,
           <2>FinishCompletion DEF HolderStep
<1>2. CASE Call
  <2>EvaluateCandidate. ASSUME NEW t \in Texts, EvaluateCandidate(t) PROVE TypeOK'
    <3>1. pc' \in Pcs /\ job' \in Jobs
      BY <2>EvaluateCandidate, BeginFact DEF EvaluateCandidate, Begin, Operations
    <3>2. latest' \in [Texts -> AttemptStatuses] /\ unfinished' \subseteq Texts /\
         attempts' \in Nat
      BY <2>EvaluateCandidate DEF EvaluateCandidate
    <3> QED BY <2>EvaluateCandidate, <3>1, <3>2 DEF EvaluateCandidate
  <2>PromoteCandidate. ASSUME NEW t \in Candidates, PromoteCandidate(t) PROVE TypeOK'
    BY <2>PromoteCandidate, BeginFact DEF PromoteCandidate, Begin, Operations
  <2>ResumeImprovement. ASSUME NEW op \in {"resume", "abandon"}, ResumeImprovement(op)
      PROVE TypeOK'
    BY <2>ResumeImprovement, BeginFact DEF ResumeImprovement, Begin, Operations
  <2>BudgetTrips. CASE BudgetTrips
    BY <2>BudgetTrips DEF BudgetTrips
  <2>CompleteTask. CASE CompleteTask
    BY <2>CompleteTask, BeginFact DEF CompleteTask, Begin, Operations
  <2>StopTask. CASE StopTask
    BY <2>StopTask DEF StopTask
  <2>ReactivateTask. CASE ReactivateTask
    BY <2>ReactivateTask DEF ReactivateTask
  <2> QED BY ONLY <1>2, <2>EvaluateCandidate, <2>PromoteCandidate,
           <2>ResumeImprovement, <2>BudgetTrips, <2>CompleteTask, <2>StopTask,
           <2>ReactivateTask DEF Call
<1>3. CASE Environment
  <2>CancelImprovement. CASE CancelImprovement
    BY <2>CancelImprovement DEF CancelImprovement
  <2>Signal. CASE Signal
    BY <2>Signal DEF Signal
  <2>ToggleStop. CASE ToggleStop
    BY <2>ToggleStop DEF ToggleStop
  <2>ToggleGuidance. CASE ToggleGuidance
    BY <2>ToggleGuidance DEF ToggleGuidance
  <2>Crash. CASE Crash
    BY <2>Crash, NoJobFact DEF Crash
  <2>SpoilReport. ASSUME NEW t \in Texts, SpoilReport(t) PROVE TypeOK'
    BY <2>SpoilReport DEF SpoilReport
  <2>UserEdits. ASSUME NEW c \in Texts \union UserTexts \union {Absent}, UserEdits(c)
      PROVE TypeOK'
    <3>1. /\ target' \in Texts \union UserTexts \union {Absent}
          /\ trial' \in BOOLEAN /\ edited' \in BOOLEAN
      BY <2>UserEdits DEF UserEdits
    <3>2. UNCHANGED <<task, experiment, signals, pc, job, canceller, unfinished,
         attempts>>
      BY <2>UserEdits DEF UserEdits
    <3> QED BY <3>1, <3>2
  <2> QED BY ONLY <1>3, <2>CancelImprovement, <2>Signal, <2>ToggleStop,
           <2>ToggleGuidance, <2>Crash, <2>SpoilReport, <2>UserEdits DEF
           Environment
<1>4. CASE UNCHANGED vars  BY <1>4
<1> QED BY <1>1, <1>2, <1>3, <1>4 DEF Next

(* The types at the start.                                                *)
LEMMA TypeAtStart == Init => TypeOK
<1> SUFFICES ASSUME Init PROVE TypeOK  OBVIOUS
<1>1. latest \in [Texts -> AttemptStatuses] /\ job \in Jobs
  BY NoJobFact DEF Init, AttemptStatuses
<1> QED BY <1>1, TextFacts DEF Init, TypeOK, ExperimentStatuses, TaskStatuses, Pcs

(* Type correctness of the experiment, the task and the lock holder. *)
THEOREM TypeCorrect == Spec => []TypeOK
BY TypeAtStart, TypeStep, PTL DEF Spec
-----------------------------------------------------------------------------
(* Every step keeps what the program counter says of the record.          *)
LEMMA HolderStepInv ==
  ASSUME TypeOK, HolderInv, [Next]_vars
  PROVE  HolderInv'
<1> USE DEF HolderInv, vars, experiment, signals, history, Goto, Begin, Idle, NoJob
<1>1. CASE HolderStep
  <2>FinishEvaluation. CASE FinishEvaluation
    BY <2>FinishEvaluation DEF FinishEvaluation
  <2>SavePrepared. CASE SavePrepared
    BY <2>SavePrepared DEF SavePrepared, TypeOK, Jobs
  <2>WriteTrial. CASE WriteTrial
    BY <2>WriteTrial DEF WriteTrial, TypeOK, Jobs
  <2>RunSensors. CASE RunSensors
    BY <2>RunSensors DEF RunSensors, TypeOK, Jobs
  <2>Judge. CASE Judge
    BY <2>Judge DEF Judge
  <2>SavePromoted. CASE SavePromoted
    BY <2>SavePromoted DEF SavePromoted
  <2>Undo. CASE Undo
    BY <2>Undo DEF Undo
  <2>RestoreBaseline. CASE RestoreBaseline
    BY <2>RestoreBaseline DEF RestoreBaseline
  <2>SaveRolledBack. CASE SaveRolledBack
    BY <2>SaveRolledBack DEF SaveRolledBack
  <2>PauseAfterFailure. CASE PauseAfterFailure
    BY <2>PauseAfterFailure DEF PauseAfterFailure
  <2>SaveResumed. CASE SaveResumed
    BY <2>SaveResumed DEF SaveResumed
  <2>ClearCancel. CASE ClearCancel
    BY <2>ClearCancel DEF ClearCancel
  <2>VerifyCompletion. CASE VerifyCompletion
    BY <2>VerifyCompletion DEF VerifyCompletion
  <2>FinishCompletion. CASE FinishCompletion
    BY <2>FinishCompletion DEF FinishCompletion
  <2> QED BY ONLY <1>1, <2>FinishEvaluation, <2>SavePrepared, <2>WriteTrial,
           <2>RunSensors, <2>Judge, <2>SavePromoted, <2>Undo,
           <2>RestoreBaseline, <2>SaveRolledBack, <2>PauseAfterFailure,
           <2>SaveResumed, <2>ClearCancel, <2>VerifyCompletion,
           <2>FinishCompletion DEF HolderStep
<1>2. CASE Call
  <2>EvaluateCandidate. ASSUME NEW t \in Texts, EvaluateCandidate(t) PROVE HolderInv'
    BY <2>EvaluateCandidate DEF EvaluateCandidate, Ready
  <2>PromoteCandidate. ASSUME NEW t \in Candidates, PromoteCandidate(t) PROVE HolderInv'
    BY <2>PromoteCandidate DEF PromoteCandidate, Ready
  <2>ResumeImprovement. ASSUME NEW op \in {"resume", "abandon"}, ResumeImprovement(op)
      PROVE HolderInv'
    BY <2>ResumeImprovement DEF ResumeImprovement, TypeOK, ExperimentStatuses
  <2>BudgetTrips. CASE BudgetTrips
    BY <2>BudgetTrips DEF BudgetTrips
  <2>CompleteTask. CASE CompleteTask
    BY <2>CompleteTask DEF CompleteTask
  <2>StopTask. CASE StopTask
    BY <2>StopTask DEF StopTask
  <2>ReactivateTask. CASE ReactivateTask
    BY <2>ReactivateTask DEF ReactivateTask
  <2> QED BY ONLY <1>2, <2>EvaluateCandidate, <2>PromoteCandidate,
           <2>ResumeImprovement, <2>BudgetTrips, <2>CompleteTask, <2>StopTask,
           <2>ReactivateTask DEF Call
<1>3. CASE Environment
  <2>CancelImprovement. CASE CancelImprovement
    BY <2>CancelImprovement DEF CancelImprovement
  <2>Signal. CASE Signal
    BY <2>Signal DEF Signal
  <2>ToggleStop. CASE ToggleStop
    BY <2>ToggleStop DEF ToggleStop
  <2>ToggleGuidance. CASE ToggleGuidance
    BY <2>ToggleGuidance DEF ToggleGuidance
  <2>Crash. CASE Crash
    BY <2>Crash DEF Crash
  <2>SpoilReport. ASSUME NEW t \in Texts, SpoilReport(t) PROVE HolderInv'
    BY <2>SpoilReport DEF SpoilReport
  <2>UserEdits. ASSUME NEW c \in Texts \union UserTexts \union {Absent}, UserEdits(c)
      PROVE HolderInv'
    BY <2>UserEdits DEF UserEdits
  <2> QED BY ONLY <1>3, <2>CancelImprovement, <2>Signal, <2>ToggleStop,
           <2>ToggleGuidance, <2>Crash, <2>SpoilReport, <2>UserEdits DEF
           Environment
<1>4. CASE UNCHANGED vars  BY <1>4
<1> QED BY <1>1, <1>2, <1>3, <1>4 DEF Next

(* Every step keeps what the last look at the target showed.              *)
LEMMA LookStep ==
  ASSUME TypeOK, HolderInv, LookInv, [Next]_vars
  PROVE  LookInv'
<1> USE DEF HolderInv, LookInv, vars, experiment, signals, history, Goto, Begin, Idle,
         NoJob
<1>1. CASE HolderStep
  <2>FinishEvaluation. CASE FinishEvaluation
    BY <2>FinishEvaluation DEF FinishEvaluation
  <2>SavePrepared. CASE SavePrepared
    BY <2>SavePrepared DEF SavePrepared
  <2>WriteTrial. CASE WriteTrial
    BY <2>WriteTrial DEF WriteTrial
  <2>RunSensors. CASE RunSensors
    BY <2>RunSensors DEF RunSensors, TypeOK, Jobs
  <2>Judge. CASE Judge
    BY <2>Judge DEF Judge, TypeOK, Jobs
  <2>SavePromoted. CASE SavePromoted
    BY <2>SavePromoted DEF SavePromoted
  <2>Undo. CASE Undo
    BY <2>Undo DEF Undo
  <2>RestoreBaseline. CASE RestoreBaseline
    BY <2>RestoreBaseline DEF RestoreBaseline
  <2>SaveRolledBack. CASE SaveRolledBack
    BY <2>SaveRolledBack DEF SaveRolledBack
  <2>PauseAfterFailure. CASE PauseAfterFailure
    BY <2>PauseAfterFailure DEF PauseAfterFailure
  <2>SaveResumed. CASE SaveResumed
    BY <2>SaveResumed DEF SaveResumed
  <2>ClearCancel. CASE ClearCancel
    BY <2>ClearCancel DEF ClearCancel
  <2>VerifyCompletion. CASE VerifyCompletion
    BY <2>VerifyCompletion DEF VerifyCompletion
  <2>FinishCompletion. CASE FinishCompletion
    BY <2>FinishCompletion DEF FinishCompletion
  <2> QED BY ONLY <1>1, <2>FinishEvaluation, <2>SavePrepared, <2>WriteTrial,
           <2>RunSensors, <2>Judge, <2>SavePromoted, <2>Undo,
           <2>RestoreBaseline, <2>SaveRolledBack, <2>PauseAfterFailure,
           <2>SaveResumed, <2>ClearCancel, <2>VerifyCompletion,
           <2>FinishCompletion DEF HolderStep
<1>2. CASE Call
  <2>EvaluateCandidate. ASSUME NEW t \in Texts, EvaluateCandidate(t) PROVE LookInv'
    BY <2>EvaluateCandidate DEF EvaluateCandidate
  <2>PromoteCandidate. ASSUME NEW t \in Candidates, PromoteCandidate(t) PROVE LookInv'
    BY <2>PromoteCandidate DEF PromoteCandidate
  <2>ResumeImprovement. ASSUME NEW op \in {"resume", "abandon"}, ResumeImprovement(op)
      PROVE LookInv'
    BY <2>ResumeImprovement DEF ResumeImprovement
  <2>BudgetTrips. CASE BudgetTrips
    BY <2>BudgetTrips DEF BudgetTrips
  <2>CompleteTask. CASE CompleteTask
    BY <2>CompleteTask DEF CompleteTask
  <2>StopTask. CASE StopTask
    BY <2>StopTask DEF StopTask
  <2>ReactivateTask. CASE ReactivateTask
    BY <2>ReactivateTask DEF ReactivateTask
  <2> QED BY ONLY <1>2, <2>EvaluateCandidate, <2>PromoteCandidate,
           <2>ResumeImprovement, <2>BudgetTrips, <2>CompleteTask, <2>StopTask,
           <2>ReactivateTask DEF Call
<1>3. CASE Environment
  <2>CancelImprovement. CASE CancelImprovement
    BY <2>CancelImprovement DEF CancelImprovement
  <2>Signal. CASE Signal
    BY <2>Signal DEF Signal
  <2>ToggleStop. CASE ToggleStop
    BY <2>ToggleStop DEF ToggleStop
  <2>ToggleGuidance. CASE ToggleGuidance
    BY <2>ToggleGuidance DEF ToggleGuidance
  <2>Crash. CASE Crash
    BY <2>Crash DEF Crash
  <2>SpoilReport. ASSUME NEW t \in Texts, SpoilReport(t) PROVE LookInv'
    BY <2>SpoilReport DEF SpoilReport
  <2>UserEdits. ASSUME NEW c \in Texts \union UserTexts \union {Absent}, UserEdits(c)
      PROVE LookInv'
    BY <2>UserEdits DEF UserEdits
  <2> QED BY ONLY <1>3, <2>CancelImprovement, <2>Signal, <2>ToggleStop,
           <2>ToggleGuidance, <2>Crash, <2>SpoilReport, <2>UserEdits DEF
           Environment
<1>4. CASE UNCHANGED vars  BY <1>4
<1> QED BY <1>1, <1>2, <1>3, <1>4 DEF Next

(* Every step keeps the trial and the record together.                    *)
LEMMA TrialStep ==
  ASSUME HolderInv, TrialInv, [Next]_vars
  PROVE  TrialInv'
<1> USE ExperimentAssumption DEF HolderInv, TrialInv, NoTrialLeftBehind, vars,
         experiment, signals, history, Goto, Begin, Idle, NoJob
<1>1. CASE HolderStep
  <2>FinishEvaluation. CASE FinishEvaluation
    BY <2>FinishEvaluation DEF FinishEvaluation
  <2>SavePrepared. CASE SavePrepared
    BY <2>SavePrepared DEF SavePrepared
  <2>WriteTrial. CASE WriteTrial
    BY <2>WriteTrial DEF WriteTrial
  <2>RunSensors. CASE RunSensors
    BY <2>RunSensors DEF RunSensors
  <2>Judge. CASE Judge
    BY <2>Judge DEF Judge
  <2>SavePromoted. CASE SavePromoted
    BY <2>SavePromoted DEF SavePromoted
  <2>Undo. CASE Undo
    BY <2>Undo DEF Undo
  <2>RestoreBaseline. CASE RestoreBaseline
    BY <2>RestoreBaseline DEF RestoreBaseline
  <2>SaveRolledBack. CASE SaveRolledBack
    BY <2>SaveRolledBack DEF SaveRolledBack
  <2>PauseAfterFailure. CASE PauseAfterFailure
    BY <2>PauseAfterFailure DEF PauseAfterFailure
  <2>SaveResumed. CASE SaveResumed
    BY <2>SaveResumed DEF SaveResumed
  <2>ClearCancel. CASE ClearCancel
    BY <2>ClearCancel DEF ClearCancel
  <2>VerifyCompletion. CASE VerifyCompletion
    BY <2>VerifyCompletion DEF VerifyCompletion
  <2>FinishCompletion. CASE FinishCompletion
    BY <2>FinishCompletion DEF FinishCompletion
  <2> QED BY ONLY <1>1, <2>FinishEvaluation, <2>SavePrepared, <2>WriteTrial,
           <2>RunSensors, <2>Judge, <2>SavePromoted, <2>Undo,
           <2>RestoreBaseline, <2>SaveRolledBack, <2>PauseAfterFailure,
           <2>SaveResumed, <2>ClearCancel, <2>VerifyCompletion,
           <2>FinishCompletion DEF HolderStep
<1>2. CASE Call
  <2>EvaluateCandidate. ASSUME NEW t \in Texts, EvaluateCandidate(t) PROVE TrialInv'
    BY <2>EvaluateCandidate DEF EvaluateCandidate
  <2>PromoteCandidate. ASSUME NEW t \in Candidates, PromoteCandidate(t) PROVE TrialInv'
    BY <2>PromoteCandidate DEF PromoteCandidate
  <2>ResumeImprovement. ASSUME NEW op \in {"resume", "abandon"}, ResumeImprovement(op)
      PROVE TrialInv'
    BY <2>ResumeImprovement DEF ResumeImprovement
  <2>BudgetTrips. CASE BudgetTrips
    BY <2>BudgetTrips DEF BudgetTrips
  <2>CompleteTask. CASE CompleteTask
    BY <2>CompleteTask DEF CompleteTask
  <2>StopTask. CASE StopTask
    BY <2>StopTask DEF StopTask
  <2>ReactivateTask. CASE ReactivateTask
    BY <2>ReactivateTask DEF ReactivateTask
  <2> QED BY ONLY <1>2, <2>EvaluateCandidate, <2>PromoteCandidate,
           <2>ResumeImprovement, <2>BudgetTrips, <2>CompleteTask, <2>StopTask,
           <2>ReactivateTask DEF Call
<1>3. CASE Environment
  <2>CancelImprovement. CASE CancelImprovement
    BY <2>CancelImprovement DEF CancelImprovement
  <2>Signal. CASE Signal
    BY <2>Signal DEF Signal
  <2>ToggleStop. CASE ToggleStop
    BY <2>ToggleStop DEF ToggleStop
  <2>ToggleGuidance. CASE ToggleGuidance
    BY <2>ToggleGuidance DEF ToggleGuidance
  <2>Crash. CASE Crash
    BY <2>Crash DEF Crash
  <2>SpoilReport. ASSUME NEW t \in Texts, SpoilReport(t) PROVE TrialInv'
    BY <2>SpoilReport DEF SpoilReport
  <2>UserEdits. ASSUME NEW c \in Texts \union UserTexts \union {Absent}, UserEdits(c)
      PROVE TrialInv'
    BY <2>UserEdits DEF UserEdits
  <2> QED BY ONLY <1>3, <2>CancelImprovement, <2>Signal, <2>ToggleStop,
           <2>ToggleGuidance, <2>Crash, <2>SpoilReport, <2>UserEdits DEF
           Environment
<1>4. CASE UNCHANGED vars  BY <1>4
<1> QED BY <1>1, <1>2, <1>3, <1>4 DEF Next

(* Every step keeps the evidence of a trial.                              *)
LEMMA EvidenceStep ==
  ASSUME TypeOK, HolderInv, EvidenceInv, [Next]_vars
  PROVE  EvidenceInv'
<1> USE DEF TypeOK, HolderInv, EvidenceInv, TrialIsCompared, Proven, Compared, vars,
         experiment, signals, history, Goto, Begin, Idle, NoJob
<1>1. CASE HolderStep
  <2>FinishEvaluation. CASE FinishEvaluation
    BY <2>FinishEvaluation DEF FinishEvaluation
  <2>SavePrepared. CASE SavePrepared
    BY <2>SavePrepared DEF SavePrepared
  <2>WriteTrial. CASE WriteTrial
    BY <2>WriteTrial DEF WriteTrial
  <2>RunSensors. CASE RunSensors
    BY <2>RunSensors DEF RunSensors
  <2>Judge. CASE Judge
    BY <2>Judge DEF Judge
  <2>SavePromoted. CASE SavePromoted
    BY <2>SavePromoted DEF SavePromoted
  <2>Undo. CASE Undo
    BY <2>Undo DEF Undo
  <2>RestoreBaseline. CASE RestoreBaseline
    BY <2>RestoreBaseline DEF RestoreBaseline
  <2>SaveRolledBack. CASE SaveRolledBack
    BY <2>SaveRolledBack DEF SaveRolledBack
  <2>PauseAfterFailure. CASE PauseAfterFailure
    BY <2>PauseAfterFailure DEF PauseAfterFailure
  <2>SaveResumed. CASE SaveResumed
    BY <2>SaveResumed DEF SaveResumed
  <2>ClearCancel. CASE ClearCancel
    BY <2>ClearCancel DEF ClearCancel
  <2>VerifyCompletion. CASE VerifyCompletion
    BY <2>VerifyCompletion DEF VerifyCompletion
  <2>FinishCompletion. CASE FinishCompletion
    BY <2>FinishCompletion DEF FinishCompletion
  <2> QED BY ONLY <1>1, <2>FinishEvaluation, <2>SavePrepared, <2>WriteTrial,
           <2>RunSensors, <2>Judge, <2>SavePromoted, <2>Undo,
           <2>RestoreBaseline, <2>SaveRolledBack, <2>PauseAfterFailure,
           <2>SaveResumed, <2>ClearCancel, <2>VerifyCompletion,
           <2>FinishCompletion DEF HolderStep
<1>2. CASE Call
  <2>EvaluateCandidate. ASSUME NEW t \in Texts, EvaluateCandidate(t) PROVE EvidenceInv'
    <3>1. pc' = "evaluating" /\ status' = "active"
      BY <2>EvaluateCandidate DEF EvaluateCandidate, Ready
    <3>2. latest' = [latest EXCEPT ![t] = "running"] /\ unfinished' = unfinished \union
         {t}
      BY <2>EvaluateCandidate DEF EvaluateCandidate
    <3> QED BY <3>1, <3>2
  <2>PromoteCandidate. ASSUME NEW t \in Candidates, PromoteCandidate(t) PROVE EvidenceInv'
    <3>1. job'.text = t
      BY <2>PromoteCandidate DEF PromoteCandidate
    <3>2. Proven(t)
      BY <2>PromoteCandidate, TextFacts DEF PromoteCandidate
    <3>3. UNCHANGED <<status, selected, latest, unfinished>>
      BY <2>PromoteCandidate DEF PromoteCandidate
    <3> QED BY <3>1, <3>2, <3>3 DEF Improves
  <2>ResumeImprovement. ASSUME NEW op \in {"resume", "abandon"}, ResumeImprovement(op)
      PROVE EvidenceInv'
    BY <2>ResumeImprovement DEF ResumeImprovement
  <2>BudgetTrips. CASE BudgetTrips
    BY <2>BudgetTrips DEF BudgetTrips
  <2>CompleteTask. CASE CompleteTask
    BY <2>CompleteTask DEF CompleteTask
  <2>StopTask. CASE StopTask
    BY <2>StopTask DEF StopTask
  <2>ReactivateTask. CASE ReactivateTask
    BY <2>ReactivateTask DEF ReactivateTask
  <2> QED BY ONLY <1>2, <2>EvaluateCandidate, <2>PromoteCandidate,
           <2>ResumeImprovement, <2>BudgetTrips, <2>CompleteTask, <2>StopTask,
           <2>ReactivateTask DEF Call
<1>3. CASE Environment
  <2>CancelImprovement. CASE CancelImprovement
    BY <2>CancelImprovement DEF CancelImprovement
  <2>Signal. CASE Signal
    BY <2>Signal DEF Signal
  <2>ToggleStop. CASE ToggleStop
    BY <2>ToggleStop DEF ToggleStop
  <2>ToggleGuidance. CASE ToggleGuidance
    BY <2>ToggleGuidance DEF ToggleGuidance
  <2>Crash. CASE Crash
    BY <2>Crash DEF Crash
  <2>SpoilReport. ASSUME NEW t \in Texts, SpoilReport(t) PROVE EvidenceInv'
    BY <2>SpoilReport DEF SpoilReport
  <2>UserEdits. ASSUME NEW c \in Texts \union UserTexts \union {Absent}, UserEdits(c)
      PROVE EvidenceInv'
    BY <2>UserEdits DEF UserEdits
  <2> QED BY ONLY <1>3, <2>CancelImprovement, <2>Signal, <2>ToggleStop,
           <2>ToggleGuidance, <2>Crash, <2>SpoilReport, <2>UserEdits DEF
           Environment
<1>4. CASE UNCHANGED vars  BY <1>4
<1> QED BY <1>1, <1>2, <1>3, <1>4 DEF Next

(* Every step keeps completed tasks resolved.                             *)
LEMMA CompletedStep ==
  ASSUME HolderInv, CompletedIsResolved, [Next]_vars
  PROVE  CompletedIsResolved'
<1> USE DEF HolderInv, CompletedIsResolved, vars, experiment, signals, history, Goto,
         Begin, Idle, NoJob
<1>1. CASE HolderStep
  <2>FinishEvaluation. CASE FinishEvaluation
    BY <2>FinishEvaluation DEF FinishEvaluation
  <2>SavePrepared. CASE SavePrepared
    BY <2>SavePrepared DEF SavePrepared
  <2>WriteTrial. CASE WriteTrial
    BY <2>WriteTrial DEF WriteTrial
  <2>RunSensors. CASE RunSensors
    BY <2>RunSensors DEF RunSensors
  <2>Judge. CASE Judge
    BY <2>Judge DEF Judge
  <2>SavePromoted. CASE SavePromoted
    BY <2>SavePromoted DEF SavePromoted
  <2>Undo. CASE Undo
    BY <2>Undo DEF Undo
  <2>RestoreBaseline. CASE RestoreBaseline
    BY <2>RestoreBaseline DEF RestoreBaseline
  <2>SaveRolledBack. CASE SaveRolledBack
    BY <2>SaveRolledBack DEF SaveRolledBack
  <2>PauseAfterFailure. CASE PauseAfterFailure
    BY <2>PauseAfterFailure DEF PauseAfterFailure
  <2>SaveResumed. CASE SaveResumed
    BY <2>SaveResumed DEF SaveResumed
  <2>ClearCancel. CASE ClearCancel
    BY <2>ClearCancel DEF ClearCancel
  <2>VerifyCompletion. CASE VerifyCompletion
    BY <2>VerifyCompletion DEF VerifyCompletion
  <2>FinishCompletion. CASE FinishCompletion
    BY <2>FinishCompletion DEF FinishCompletion, Resolved
  <2> QED BY ONLY <1>1, <2>FinishEvaluation, <2>SavePrepared, <2>WriteTrial,
           <2>RunSensors, <2>Judge, <2>SavePromoted, <2>Undo,
           <2>RestoreBaseline, <2>SaveRolledBack, <2>PauseAfterFailure,
           <2>SaveResumed, <2>ClearCancel, <2>VerifyCompletion,
           <2>FinishCompletion DEF HolderStep
<1>2. CASE Call
  <2>EvaluateCandidate. ASSUME NEW t \in Texts, EvaluateCandidate(t)
      PROVE CompletedIsResolved'
    BY <2>EvaluateCandidate DEF EvaluateCandidate, Ready
  <2>PromoteCandidate. ASSUME NEW t \in Candidates, PromoteCandidate(t)
      PROVE CompletedIsResolved'
    BY <2>PromoteCandidate DEF PromoteCandidate, Ready
  <2>ResumeImprovement. ASSUME NEW op \in {"resume", "abandon"}, ResumeImprovement(op)
      PROVE CompletedIsResolved'
    BY <2>ResumeImprovement DEF ResumeImprovement
  <2>BudgetTrips. CASE BudgetTrips
    BY <2>BudgetTrips DEF BudgetTrips, Ready
  <2>CompleteTask. CASE CompleteTask
    BY <2>CompleteTask DEF CompleteTask
  <2>StopTask. CASE StopTask
    BY <2>StopTask DEF StopTask
  <2>ReactivateTask. CASE ReactivateTask
    BY <2>ReactivateTask DEF ReactivateTask
  <2> QED BY ONLY <1>2, <2>EvaluateCandidate, <2>PromoteCandidate,
           <2>ResumeImprovement, <2>BudgetTrips, <2>CompleteTask, <2>StopTask,
           <2>ReactivateTask DEF Call
<1>3. CASE Environment
  <2>CancelImprovement. CASE CancelImprovement
    BY <2>CancelImprovement DEF CancelImprovement
  <2>Signal. CASE Signal
    BY <2>Signal DEF Signal
  <2>ToggleStop. CASE ToggleStop
    BY <2>ToggleStop DEF ToggleStop
  <2>ToggleGuidance. CASE ToggleGuidance
    BY <2>ToggleGuidance DEF ToggleGuidance
  <2>Crash. CASE Crash
    BY <2>Crash DEF Crash
  <2>SpoilReport. ASSUME NEW t \in Texts, SpoilReport(t) PROVE CompletedIsResolved'
    BY <2>SpoilReport DEF SpoilReport
  <2>UserEdits. ASSUME NEW c \in Texts \union UserTexts \union {Absent}, UserEdits(c)
      PROVE CompletedIsResolved'
    BY <2>UserEdits DEF UserEdits
  <2> QED BY ONLY <1>3, <2>CancelImprovement, <2>Signal, <2>ToggleStop,
           <2>ToggleGuidance, <2>Crash, <2>SpoilReport, <2>UserEdits DEF
           Environment
<1>4. CASE UNCHANGED vars  BY <1>4
<1> QED BY <1>1, <1>2, <1>3, <1>4 DEF Next
-----------------------------------------------------------------------------
ExperimentInv ==
    TypeOK /\ HolderInv /\ LookInv /\ TrialInv /\ EvidenceInv /\ CompletedIsResolved

(* The inductive invariant holds of every behaviour.                       *)
THEOREM ExperimentInvariant == Spec => []ExperimentInv
<1>1. ASSUME Init PROVE ExperimentInv
  <2>1. HolderInv /\ LookInv /\ TrialInv /\ CompletedIsResolved
    BY <1>1 DEF Init, HolderInv, LookInv, TrialInv, NoTrialLeftBehind, CompletedIsResolved
  <2>2. EvidenceInv
    BY <1>1 DEF Init, EvidenceInv, TrialIsCompared, Compared
  <2> QED BY <1>1, <2>1, <2>2, TypeAtStart DEF ExperimentInv
<1>2. ExperimentInv /\ [Next]_vars => ExperimentInv'
  BY TypeStep, HolderStepInv, LookStep, TrialStep, EvidenceStep, CompletedStep
     DEF ExperimentInv
<1> QED BY <1>1, <1>2, PTL DEF Spec

(* An unadopted candidate is in the target only while the record says so.  *)
THEOREM TrialsAreRecorded == Spec => []NoTrialLeftBehind
BY ExperimentInvariant, PTL DEF ExperimentInv, TrialInv

(* A trial rests on finished comparisons of the baseline and of itself.    *)
THEOREM TrialsAreCompared == Spec => []TrialIsCompared
BY ExperimentInvariant, PTL DEF ExperimentInv, EvidenceInv

(* No task is completed with its experiment unresolved.                    *)
THEOREM CompletionIsResolved == Spec => []CompletedIsResolved
BY ExperimentInvariant, PTL DEF ExperimentInv

(* An adopted candidate is in the target, unless the user edited the file  *)
(* after the last look at it.                                              *)
THEOREM AdoptionIsInPlace == Spec => AdoptsItsTrial
<1>1. ASSUME ExperimentInv, [Next]_vars
      PROVE  [status # "promoted" /\ status' = "promoted" => target = selected' \/
         edited]_vars
  <2>1. CASE SavePromoted
    BY <1>1, <2>1 DEF SavePromoted, ExperimentInv, HolderInv, LookInv
  <2>2. CASE UNCHANGED vars
    BY <2>2
  <2>3. CASE Next /\ ~SavePromoted /\ status # "promoted"
    <3>1. status' # "promoted"
      BY <1>1, <2>3 DEF Next, HolderStep, Call, Environment, experiment, history, Goto,
         Begin,
         FinishEvaluation, SavePrepared, WriteTrial, RunSensors, Judge, Undo,
         RestoreBaseline,
         SaveRolledBack, PauseAfterFailure, SaveResumed, ClearCancel, VerifyCompletion,
         FinishCompletion, EvaluateCandidate, PromoteCandidate, ResumeImprovement,
         BudgetTrips,
         CompleteTask, StopTask, ReactivateTask, CancelImprovement, Signal, ToggleStop,
         ToggleGuidance, Crash, SpoilReport, UserEdits
    <3> QED BY <3>1
  <2>4. CASE status = "promoted"
    BY <2>4
  <2> QED BY <1>1, <2>1, <2>2, <2>3, <2>4
<1> QED BY <1>1, ExperimentInvariant, PTL DEF Spec, AdoptsItsTrial

(* Promotion and rollback overwrite only the text they looked at, but for  *)
(* a user's edit between the look and the write.                           *)
THEOREM OverwritesAreOfKnownText == Spec => OverwritesOnlyKnownText
<1>1. ASSUME ExperimentInv, [Next]_vars
      PROVE  [(pc \in {"writing", "restoring"}) /\ target' # target
                /\ pc' \in {"sensing", "undone"}
                  => target \in {Base, selected} \/ edited]_vars
  BY <1>1 DEF ExperimentInv, LookInv
<1> QED BY <1>1, ExperimentInvariant, PTL DEF Spec, OverwritesOnlyKnownText
==============================================================================

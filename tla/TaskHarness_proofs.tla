------------------------ MODULE TaskHarness_proofs --------------------------
(***************************************************************************)
(* TaskHarness for every set of commands, nonces, paths and policies and   *)
(* every value of the bounds: type correctness and the safety of the       *)
(* external-action protocol; then evidence, receipts and releases, the     *)
(* tool-call budget, the stop file and the finality of ended tasks; last,  *)
(* that the harness implements the protocol of ExternalAction.             *)
(***************************************************************************)
EXTENDS TaskHarness, TLAPS

(* A run belongs to a sensor suite or to a command; a suite under way has  *)
(* a sensor left to account for.                                           *)
SensorsLeft ==
    /\ pc \in {"spawn", "popen", "running", "captured"} /\ job.cmd = NoCommand => job.left > 0
    /\ pc \in {"attempt", "returned", "halting", "failed"} => job.cmd # NoCommand

(* Types, strengthened so that the counter of sensors stays a number. *)
TypeInv == TypeOK /\ SensorsLeft

(* Where a run has not reached its launch. *)
BeforeLaunch == {"attempt", "spawn", "popen"}

(* The shape of the state the invariant speaks of. *)
Shape ==
    /\ status \in Statuses /\ step \in Steps
    /\ bound \in [Nonces -> Commands \union {NoCommand}]
    /\ launched \in [Nonces -> 0..2]
    /\ settled \in [Nonces -> {"open", "verified", "reconciled", "cancelled"}]
    /\ pc \in Pcs
    /\ job \in Jobs

(* A marker names a staged, unsettled action; it is the only such action;  *)
(* an action nobody staged has no past.                                    *)
MarkerNamesOpenAction ==
    /\ IsMarker(step) => /\ step.nonce \in Nonces
                         /\ bound[step.nonce] # NoCommand
                         /\ settled[step.nonce] = "open"
    /\ \A n \in Nonces : bound[n] # NoCommand /\ settled[n] = "open"
                            => IsMarker(step) /\ step.nonce = n
    /\ \A n \in Nonces : bound[n] = NoCommand => launched[n] = 0 /\ settled[n] = "open"

(* While a protected action is pending it has not been launched and no     *)
(* runner or completion is under way.                                      *)
PendingIsQuiet ==
    step.phase = "PENDING" /\ Protected(step.nonce) =>
        launched[step.nonce] = 0 /\ pc \notin RunnerPcs \union CompletionPcs

(* A human-gated run works on the reconciliation marker of a paused task,  *)
(* never retries, and has not launched before popen is over.               *)
GatedRun ==
    job.gated =>
        /\ pc \in RunnerPcs /\ job.cmd # NoCommand /\ job.left = 0
        /\ status = "paused" /\ step.phase = "RECONCILE"
        /\ pc \in BeforeLaunch /\ Protected(step.nonce) => launched[step.nonce] = 0

(* Completion, its sensors included, works on an active task without a     *)
(* next step.                                                              *)
CompletionRun ==
    pc \in CompletionPcs \/ (pc \in RunnerPcs /\ job.cmd = NoCommand) =>
        status = "active" /\ step = NoStep /\ ~job.gated

CompletedHasNoStep == status = "completed" => step = NoStep

ActionInv ==
    /\ Shape /\ MarkerNamesOpenAction /\ PendingIsQuiet /\ GatedRun
    /\ CompletionRun /\ CompletedHasNoStep /\ LaunchedAtMostOnce
-----------------------------------------------------------------------------
(* The values an operation starts and ends with have their types. *)
LEMMA EmptyValues ==
  /\ NoJob \in Jobs /\ NoStep \in Steps /\ PlainStep \in Steps
  /\ NoCandidate \in [Paths -> EvidenceItems]
  /\ NoJob.cmd = NoCommand
BY ConstantsAssumption
DEF NoJob, Jobs, Results, NoStep, PlainStep, Steps, Markers, NoCandidate,
    NoEvidence, EvidenceItems

(* The jobs operations begin with. *)
LEMMA JobStarts ==
  ASSUME NEW c \in Commands, NEW r \in 0..MaxRetries, NEW P \in SUBSET Paths
  PROVE  /\ [NoJob EXCEPT !.cmd = c, !.asked = r, !.left = r] \in Jobs
         /\ [NoJob EXCEPT !.cmd = c, !.asked = r, !.left = r].cmd = c
         /\ [NoJob EXCEPT !.cmd = c, !.gated = TRUE] \in Jobs
         /\ [NoJob EXCEPT !.cmd = c, !.gated = TRUE].cmd = c
         /\ [NoJob EXCEPT !.paths = P] \in Jobs
         /\ [NoJob EXCEPT !.left = Sensors] \in Jobs
<1>1. r \in Nat /\ 0 \in 0..MaxRetries  BY ConstantsAssumption
<1>2. [NoJob EXCEPT !.cmd = c, !.asked = r, !.left = r] \in Jobs
  BY <1>1, ConstantsAssumption DEF NoJob, Jobs, Results
<1>3. [NoJob EXCEPT !.cmd = c, !.asked = r, !.left = r].cmd = c  BY DEF NoJob
<1>4. [NoJob EXCEPT !.cmd = c, !.gated = TRUE] \in Jobs
  BY <1>1, ConstantsAssumption DEF NoJob, Jobs, Results
<1>5. [NoJob EXCEPT !.cmd = c, !.gated = TRUE].cmd = c  BY DEF NoJob
<1>6. [NoJob EXCEPT !.paths = P] \in Jobs
  BY <1>1, ConstantsAssumption DEF NoJob, Jobs, Results
<1>7. [NoJob EXCEPT !.left = Sensors] \in Jobs
  BY <1>1, ConstantsAssumption DEF NoJob, Jobs, Results
<1> QED BY <1>2, <1>3, <1>4, <1>5, <1>6, <1>7

(* A capture keeps the kind of run it belongs to. *)
LEMMA CaptureType ==
  ASSUME TypeInv, NEW r \in Results, Capture(r)
  PROVE  /\ job' \in Jobs /\ job'.cmd = job.cmd /\ job'.left = job.left
BY DEF Capture, TypeInv, TypeOK, Jobs

(* Evidence that is attached, and observations whose phase ends, keep their *)
(* types.                                                                  *)
LEMMA AttachType ==
  ASSUME TypeOK, NEW P \in SUBSET Paths
  PROVE  Attach(P) \in [Paths -> EvidenceItems]
BY DEF TypeOK, Attach, Observations, EvidenceItems

LEMMA ChangePhaseType ==
  ASSUME TypeOK, ChangePhase
  PROVE  obs' \in [Paths -> Observations] /\ written' \subseteq Paths
BY DEF TypeOK, ChangePhase, Observations

(* The type invariant holds initially and is kept by every step.           *)
LEMMA TypeInit == Init => TypeInv
<1> SUFFICES ASSUME Init PROVE TypeInv
  OBVIOUS
<1>1. NoObservation \in Observations /\ NoEvidence \in EvidenceItems
  BY DEF NoObservation, NoEvidence, Observations, EvidenceItems
<1>2. SensorsLeft  BY DEF Init, SensorsLeft
<1>3. obs \in [Paths -> Observations] /\ evid \in [Paths -> EvidenceItems]  BY <1>1 DEF Init
<1>4. launched \in [Nonces -> 0..2]  BY DEF Init
<1> QED BY <1>2, <1>3, <1>4, EmptyValues
    DEF Init, TypeInv, TypeOK, Statuses, Pcs

(* Every step keeps the type invariant. *)
LEMMA TypeStep ==
  ASSUME TypeInv, [Next]_vars
  PROVE  TypeInv'
<1> USE EmptyValues DEF TypeInv, TypeOK, SensorsLeft, vars, checkpoint, evidence,
        process, outside, history, Statuses, Pcs, RunnerPcs, CompletionPcs, Goto,
        Idle, Save, ThenCheckWires, Transition, RunsSensors, MayBecome, Allowed
<1>1. CASE ProcessStep
  <2>LogObservation. CASE LogObservation
    <3>1. obs' \in [Paths -> Observations]
      BY <2>LogObservation DEF LogObservation, Observations
    <3> QED BY <2>LogObservation, <3>1 DEF LogObservation
  <2>LogReceipt. CASE LogReceipt
    <3>1. receipts' \subseteq Paths \X Contents
      BY <2>LogReceipt DEF LogReceipt, Existing
    <3> QED BY <2>LogReceipt, <3>1 DEF LogReceipt
  <2>Escalate. CASE Escalate  BY <2>Escalate DEF Escalate
  <2>AttemptStopped. CASE AttemptStopped  BY <2>AttemptStopped DEF AttemptStopped
  <2>AttemptTripped. CASE AttemptTripped  BY <2>AttemptTripped DEF AttemptTripped
  <2>AttemptRefused. CASE AttemptRefused  BY <2>AttemptRefused DEF AttemptRefused
  <2>Attempt. CASE Attempt  BY <2>Attempt DEF Attempt
  <2>Spawn. CASE Spawn
    <3>1. CASE StopActive
      <4>1. job' \in Jobs /\ job'.cmd = job.cmd /\ job'.left = job.left
        BY <2>Spawn, <3>1, CaptureType DEF Spawn, Results
      <4> QED BY <2>Spawn, <3>1, <4>1 DEF Spawn, Capture
    <3>2. CASE ~StopActive BY <2>Spawn, <3>2 DEF Spawn
    <3> QED BY <3>1, <3>2
  <2>Launch. CASE Launch
    <3>1. CASE Capture("failed") /\ UNCHANGED history
      <4>1. job' \in Jobs /\ job'.cmd = job.cmd /\ job'.left = job.left
        BY <3>1, CaptureType DEF Results
      <4> QED BY <2>Launch, <3>1, <4>1 DEF Launch, Capture
    <3>2. CASE ~(Capture("failed") /\ UNCHANGED history)
      <4>1. LaunchNonce  BY <2>Launch, <3>2 DEF Launch
      <4>2. launched' \in [Nonces -> 0..2]
        <5>1. CASE step.nonce \in Nonces  BY <4>1, <5>1 DEF LaunchNonce
        <5>2. CASE step.nonce \notin Nonces  BY <4>1, <5>2 DEF LaunchNonce
        <5> QED BY <5>1, <5>2
      <4> QED BY <2>Launch, <3>2, <4>2 DEF Launch
    <3> QED BY <3>1, <3>2
  <2>SaveAttempt. CASE SaveAttempt  BY <2>SaveAttempt DEF SaveAttempt
  <2>MarkReturned. CASE MarkReturned
    BY <2>MarkReturned, ChangePhaseType, AttachType DEF MarkReturned, Markers, Marker, Steps
  <2>Halt. CASE Halt  BY <2>Halt DEF Halt
  <2>FailureTripped. CASE FailureTripped  BY <2>FailureTripped DEF FailureTripped
  <2>FailureRetried. CASE FailureRetried
    <3>1. job' \in Jobs /\ job'.cmd = job.cmd
      BY <2>FailureRetried DEF FailureRetried, Jobs
    <3> QED BY <2>FailureRetried, <3>1 DEF FailureRetried
  <2>FailureFinal. CASE FailureFinal  BY <2>FailureFinal DEF FailureFinal
  <2>NextSensor. CASE NextSensor  BY <2>NextSensor DEF NextSensor
  <2>SaveSensor. CASE SaveSensor
    <3>1. job' \in Jobs /\ job'.cmd = job.cmd
      BY <2>SaveSensor DEF SaveSensor, Jobs
    <3> QED BY <2>SaveSensor, <3>1 DEF SaveSensor
  <2>SensorsFailed. CASE SensorsFailed  BY <2>SensorsFailed DEF SensorsFailed
  <2>SaveCandidate. CASE SaveCandidate  BY <2>SaveCandidate DEF SaveCandidate
  <2>FinalCheck. CASE FinalCheck  BY <2>FinalCheck DEF FinalCheck
  <2>MarkCompleted. CASE MarkCompleted  BY <2>MarkCompleted DEF MarkCompleted
  <2>Exit. ASSUME NEW r \in Results, Exit(r) PROVE TypeInv'
    <3>1. job' \in Jobs /\ job'.cmd = job.cmd /\ job'.left = job.left
      BY <2>Exit, CaptureType DEF Exit
    <3> QED BY <2>Exit, <3>1 DEF Exit, Capture
  <2> QED BY ONLY <1>1, <2>LogObservation, <2>LogReceipt, <2>Escalate,
           <2>AttemptStopped, <2>AttemptTripped, <2>AttemptRefused,
           <2>Attempt, <2>Spawn, <2>Launch, <2>SaveAttempt, <2>MarkReturned,
           <2>Halt, <2>FailureTripped, <2>FailureRetried, <2>FailureFinal,
           <2>NextSensor, <2>SaveSensor, <2>SensorsFailed, <2>SaveCandidate,
           <2>FinalCheck, <2>MarkCompleted, <2>Exit DEF ProcessStep
<1>2. CASE Call
  <2>Observe. ASSUME NEW p \in Paths, Observe(p) PROVE TypeInv'
    <3>1. job' \in Jobs
      BY <2>Observe, ConstantsAssumption DEF Observe, NoJob, Jobs, Results
    <3>2. obs' \in [Paths -> Observations]
      BY <2>Observe DEF Observe, Observations, IsMarker
    <3> QED BY <2>Observe, <3>1, <3>2 DEF Observe
  <2>CheckpointNote. ASSUME NEW P \in SUBSET Paths, NEW d \in BOOLEAN, CheckpointNote(P, d)
                     PROVE TypeInv'
    BY <2>CheckpointNote, AttachType DEF CheckpointNote
  <2>CheckpointNext. ASSUME NEW P \in SUBSET Paths, NEW d \in BOOLEAN, CheckpointNext(P, d)
                     PROVE TypeInv'
    BY <2>CheckpointNext, AttachType DEF CheckpointNext
  <2>ClearNext. ASSUME NEW P \in SUBSET Paths, NEW d \in BOOLEAN, ClearNext(P, d)
                PROVE TypeInv'
    BY <2>ClearNext, AttachType DEF ClearNext
  <2>ClearVerification. ASSUME NEW P \in SUBSET Paths, ClearVerification(P)
                        PROVE TypeInv'
    BY <2>ClearVerification, ChangePhaseType, AttachType, ConstantsAssumption
    DEF ClearVerification, NoJob, Jobs, Results
  <2>ResolveExternalAction. ASSUME NEW P \in SUBSET Paths, ResolveExternalAction(P)
                            PROVE TypeInv'
    BY <2>ResolveExternalAction, ChangePhaseType, AttachType
    DEF ResolveExternalAction, Markers, Marker, Steps
  <2>CancelExternalAction. ASSUME NEW P \in SUBSET Paths, CancelExternalAction(P)
                           PROVE TypeInv'
    BY <2>CancelExternalAction, ChangePhaseType, AttachType
    DEF CancelExternalAction, Markers, Marker, Steps
  <2>Complete. ASSUME NEW P \in SUBSET Paths, Complete(P) PROVE TypeInv'
    <3>1. job' \in Jobs /\ candidate' \in [Paths -> EvidenceItems] /\ pc' = "sensing"
      BY <2>Complete, ConstantsAssumption, AttachType DEF Complete, Jobs, NoJob, Results
    <3> QED BY <2>Complete, <3>1 DEF Complete
  <2>StageExternalAction. ASSUME NEW n \in Nonces, NEW c \in Commands,
                                 StageExternalAction(n, c)
                          PROVE TypeInv'
    BY <2>StageExternalAction, ChangePhaseType, AttachType
    DEF StageExternalAction, Markers, Marker, Steps
  <2>RunExternalAction. ASSUME NEW c \in Commands, NEW a \in {"none", "reviewed", "approved"},
                               RunExternalAction(c, a)
                        PROVE TypeInv'
    <3>1. job' \in Jobs /\ job'.cmd = c /\ step' \in Steps
      <4>1. 0 \in 0..MaxRetries  BY ConstantsAssumption
      <4> QED
        BY <4>1, <2>RunExternalAction, JobStarts
        DEF RunExternalAction, Marker, Steps, Markers
    <3> QED
      BY <2>RunExternalAction, <3>1, ConstantsAssumption, ChangePhaseType
      DEF RunExternalAction
  <2>RunCommand. ASSUME NEW c \in Commands, NEW a \in {"none", "reviewed", "approved"},
                      NEW r \in 0..MaxRetries, RunCommand(c, a, r) PROVE TypeInv'
    <3>1. job' \in Jobs /\ job'.cmd = c  BY <2>RunCommand, JobStarts DEF RunCommand
    <3> QED BY <2>RunCommand, <3>1, ConstantsAssumption DEF RunCommand
  <2>RunEscalates. CASE RunEscalates  BY <2>RunEscalates DEF RunEscalates
  <2>StopTask. CASE StopTask  BY <2>StopTask DEF StopTask
  <2>Resume. ASSUME NEW clear \in BOOLEAN, NEW reactivate \in BOOLEAN,
                    Resume(clear, reactivate)
             PROVE TypeInv'
    BY <2>Resume DEF Resume
  <2> QED BY ONLY <1>2, <2>Observe, <2>CheckpointNote, <2>CheckpointNext,
           <2>ClearNext, <2>ClearVerification, <2>ResolveExternalAction,
           <2>CancelExternalAction, <2>Complete, <2>StageExternalAction,
           <2>RunExternalAction, <2>RunCommand, <2>RunEscalates, <2>StopTask,
           <2>Resume DEF Call
<1>3. CASE Environment
  <2>StopHarness. CASE StopHarness  BY <2>StopHarness DEF StopHarness
  <2>ClearStop. CASE ClearStop  BY <2>ClearStop DEF ClearStop
  <2>ChangePolicy. CASE ChangePolicy  BY <2>ChangePolicy DEF ChangePolicy
  <2>GrantExpires. CASE GrantExpires  BY <2>GrantExpires DEF GrantExpires
  <2>Crash. CASE Crash  BY <2>Crash DEF Crash
  <2>Write. ASSUME NEW p \in Paths, NEW c \in Contents \union {Absent}, Write(p, c)
            PROVE TypeInv'
    <3>1. evid' \in [Paths -> EvidenceItems] /\ candidate' \in [Paths -> EvidenceItems]
      BY <2>Write DEF Write, EvidenceItems
    <3> QED BY <2>Write, <3>1 DEF Write
  <2> QED BY ONLY <1>3, <2>StopHarness, <2>ClearStop, <2>ChangePolicy,
           <2>GrantExpires, <2>Crash, <2>Write DEF Environment
<1>4. CASE UNCHANGED vars  BY <1>4
<1> QED BY <1>1, <1>2, <1>3, <1>4 DEF Next

(* In every reachable state every variable has its type: TypeOK of the     *)
(* checkpoint store, the runner and the completion workflow.               *)
THEOREM TypeCorrect == Spec => []TypeOK
<1>1. TypeInv /\ [Next]_vars => TypeInv'  BY TypeStep
<1>2. TypeInv => TypeOK  BY DEF TypeInv
<1> QED BY <1>1, <1>2, TypeInit, PTL DEF Spec

-----------------------------------------------------------------------------
(* The invariant of the external-action protocol holds initially. *)
LEMMA ActionInvInit == Init => ActionInv
BY ConstantsAssumption
DEF Init, ActionInv, Shape, MarkerNamesOpenAction, PendingIsQuiet, GatedRun,
    CompletionRun, CompletedHasNoStep, LaunchedAtMostOnce, Protected, IsMarker,
    Markers, NoStep, Steps, NoJob, Jobs, Results, Statuses, Pcs, RunnerPcs,
    CompletionPcs, BeforeLaunch

(* Every step keeps it.  The steps that touch the marker, the launches or  *)
(* the run itself are split into the invariant's parts.                    *)
LEMMA ActionInvStep ==
  ASSUME ActionInv, Shape', [Next]_vars
  PROVE  ActionInv'
<1> USE DEF ActionInv, Shape, MarkerNamesOpenAction, PendingIsQuiet, GatedRun,
        CompletionRun, CompletedHasNoStep, LaunchedAtMostOnce, Protected, IsMarker,
        Markers, Marker, NoStep, PlainStep, Steps, NoJob, Statuses, Allowed,
        MayBecome, RunnerPcs, CompletionPcs, BeforeLaunch, Goto, Idle, Transition,
        RunsSensors, vars, checkpoint, evidence, process, outside, history
<1>1. CASE ProcessStep
  <2>LogObservation. CASE LogObservation  BY <2>LogObservation DEF LogObservation
  <2>LogReceipt. CASE LogReceipt  BY <2>LogReceipt DEF LogReceipt, Save, ThenCheckWires
  <2>Escalate. CASE Escalate  BY <2>Escalate DEF Escalate
  <2>AttemptStopped. CASE AttemptStopped  BY <2>AttemptStopped DEF AttemptStopped
  <2>AttemptTripped. CASE AttemptTripped  BY <2>AttemptTripped DEF AttemptTripped
  <2>AttemptRefused. CASE AttemptRefused  BY <2>AttemptRefused DEF AttemptRefused
  <2>Attempt. CASE Attempt  BY <2>Attempt DEF Attempt
  <2>Spawn. CASE Spawn
    <3>1. MarkerNamesOpenAction'  BY <2>Spawn DEF Spawn, Capture, Jobs
    <3>2. PendingIsQuiet'  BY <2>Spawn DEF Spawn, Capture, Jobs
    <3>3. GatedRun'  BY <2>Spawn DEF Spawn, Capture, Jobs
    <3>4. CompletionRun'  BY <2>Spawn DEF Spawn, Capture, Jobs
    <3>5. CompletedHasNoStep'  BY <2>Spawn DEF Spawn, Capture, Jobs
    <3>6. LaunchedAtMostOnce'  BY <2>Spawn DEF Spawn, Capture, Jobs
    <3> QED BY <3>1, <3>2, <3>3, <3>4, <3>5, <3>6
  <2>Launch. CASE Launch
    <3>1. MarkerNamesOpenAction'  BY <2>Launch DEF Launch, Capture, LaunchNonce, Jobs
    <3>2. PendingIsQuiet'  BY <2>Launch DEF Launch, Capture, LaunchNonce, Jobs
    <3>3. GatedRun'  BY <2>Launch DEF Launch, Capture, LaunchNonce, Jobs
    <3>4. CompletionRun'  BY <2>Launch DEF Launch, Capture, LaunchNonce, Jobs
    <3>5. CompletedHasNoStep'  BY <2>Launch DEF Launch, Capture, LaunchNonce, Jobs
    <3>6. LaunchedAtMostOnce'  BY <2>Launch DEF Launch, Capture, LaunchNonce, Jobs
    <3> QED BY <3>1, <3>2, <3>3, <3>4, <3>5, <3>6
  <2>SaveAttempt. CASE SaveAttempt  BY <2>SaveAttempt DEF SaveAttempt
  <2>MarkReturned. CASE MarkReturned  BY <2>MarkReturned DEF MarkReturned
  <2>Halt. CASE Halt  BY <2>Halt DEF Halt
  <2>FailureTripped. CASE FailureTripped  BY <2>FailureTripped DEF FailureTripped
  <2>FailureRetried. CASE FailureRetried  BY <2>FailureRetried DEF FailureRetried
  <2>FailureFinal. CASE FailureFinal  BY <2>FailureFinal DEF FailureFinal
  <2>NextSensor. CASE NextSensor  BY <2>NextSensor DEF NextSensor
  <2>SaveSensor. CASE SaveSensor  BY <2>SaveSensor DEF SaveSensor
  <2>SensorsFailed. CASE SensorsFailed  BY <2>SensorsFailed DEF SensorsFailed
  <2>SaveCandidate. CASE SaveCandidate  BY <2>SaveCandidate DEF SaveCandidate
  <2>FinalCheck. CASE FinalCheck  BY <2>FinalCheck DEF FinalCheck
  <2>MarkCompleted. CASE MarkCompleted  BY <2>MarkCompleted DEF MarkCompleted
  <2>Exit. ASSUME NEW r \in Results, Exit(r) PROVE ActionInv'
    BY <2>Exit DEF Exit, Capture
  <2> QED BY ONLY <1>1, <2>LogObservation, <2>LogReceipt, <2>Escalate,
           <2>AttemptStopped, <2>AttemptTripped, <2>AttemptRefused,
           <2>Attempt, <2>Spawn, <2>Launch, <2>SaveAttempt, <2>MarkReturned,
           <2>Halt, <2>FailureTripped, <2>FailureRetried, <2>FailureFinal,
           <2>NextSensor, <2>SaveSensor, <2>SensorsFailed, <2>SaveCandidate,
           <2>FinalCheck, <2>MarkCompleted, <2>Exit DEF ProcessStep
<1>2. CASE Call
  <2>Observe. ASSUME NEW p \in Paths, Observe(p) PROVE ActionInv'
    BY <2>Observe DEF Observe
  <2>CheckpointNote. ASSUME NEW P \in SUBSET Paths, NEW d \in BOOLEAN, CheckpointNote(P, d)
                     PROVE ActionInv'
    BY <2>CheckpointNote DEF CheckpointNote, Save, ThenCheckWires
  <2>CheckpointNext. ASSUME NEW P \in SUBSET Paths, NEW d \in BOOLEAN, CheckpointNext(P, d)
                     PROVE ActionInv'
    <3>1. MarkerNamesOpenAction'
      BY <2>CheckpointNext DEF CheckpointNext, Save, ThenCheckWires, Mutable, Terminal
    <3>2. PendingIsQuiet'
      BY <2>CheckpointNext DEF CheckpointNext, Save, ThenCheckWires, Mutable, Terminal
    <3>3. GatedRun'
      BY <2>CheckpointNext DEF CheckpointNext, Save, ThenCheckWires, Mutable, Terminal
    <3>4. CompletionRun'
      BY <2>CheckpointNext DEF CheckpointNext, Save, ThenCheckWires, Mutable, Terminal
    <3>5. CompletedHasNoStep'
      BY <2>CheckpointNext DEF CheckpointNext, Save, ThenCheckWires, Mutable, Terminal
    <3>6. LaunchedAtMostOnce'
      BY <2>CheckpointNext DEF CheckpointNext, Save, ThenCheckWires, Mutable, Terminal
    <3> QED BY <3>1, <3>2, <3>3, <3>4, <3>5, <3>6
  <2>ClearNext. ASSUME NEW P \in SUBSET Paths, NEW d \in BOOLEAN, ClearNext(P, d)
                PROVE ActionInv'
    BY <2>ClearNext DEF ClearNext, Save, ThenCheckWires
  <2>ClearVerification. ASSUME NEW P \in SUBSET Paths, ClearVerification(P)
                        PROVE ActionInv'
    BY <2>ClearVerification DEF ClearVerification, Save, ThenCheckWires
  <2>ResolveExternalAction. ASSUME NEW P \in SUBSET Paths, ResolveExternalAction(P)
                            PROVE ActionInv'
    BY <2>ResolveExternalAction DEF ResolveExternalAction, Save, ThenCheckWires
  <2>CancelExternalAction. ASSUME NEW P \in SUBSET Paths, CancelExternalAction(P)
                           PROVE ActionInv'
    BY <2>CancelExternalAction DEF CancelExternalAction, Save, ThenCheckWires
  <2>Complete. ASSUME NEW P \in SUBSET Paths, Complete(P) PROVE ActionInv'
    BY <2>Complete DEF Complete
  <2>StageExternalAction. ASSUME NEW n \in Nonces, NEW c \in Commands,
                                 StageExternalAction(n, c)
                          PROVE ActionInv'
    <3>1. MarkerNamesOpenAction'
      BY <2>StageExternalAction, ConstantsAssumption DEF StageExternalAction, Unused
    <3>2. PendingIsQuiet'
      BY <2>StageExternalAction, ConstantsAssumption DEF StageExternalAction, Unused
    <3>3. GatedRun'
      BY <2>StageExternalAction, ConstantsAssumption DEF StageExternalAction, Unused
    <3>4. CompletionRun'
      BY <2>StageExternalAction, ConstantsAssumption DEF StageExternalAction, Unused
    <3>5. CompletedHasNoStep'
      BY <2>StageExternalAction, ConstantsAssumption DEF StageExternalAction, Unused
    <3>6. LaunchedAtMostOnce'
      BY <2>StageExternalAction, ConstantsAssumption DEF StageExternalAction, Unused
    <3> QED BY <3>1, <3>2, <3>3, <3>4, <3>5, <3>6
  <2>RunExternalAction. ASSUME NEW c \in Commands, NEW a \in {"none", "reviewed", "approved"},
                               RunExternalAction(c, a)
                        PROVE ActionInv'
    <3>1. MarkerNamesOpenAction'
      BY <2>RunExternalAction, ConstantsAssumption
      DEF RunExternalAction, Admitted, HumanGated, Outcome, NeedsExternalCheckpoint
    <3>2. PendingIsQuiet'
      BY <2>RunExternalAction, ConstantsAssumption
      DEF RunExternalAction, Admitted, HumanGated, Outcome, NeedsExternalCheckpoint
    <3>3. GatedRun'
      BY <2>RunExternalAction, ConstantsAssumption
      DEF RunExternalAction, Admitted, HumanGated, Outcome, NeedsExternalCheckpoint
    <3>4. CompletionRun'
      BY <2>RunExternalAction, ConstantsAssumption
      DEF RunExternalAction, Admitted, HumanGated, Outcome, NeedsExternalCheckpoint
    <3>5. CompletedHasNoStep'
      BY <2>RunExternalAction, ConstantsAssumption
      DEF RunExternalAction, Admitted, HumanGated, Outcome, NeedsExternalCheckpoint
    <3>6. LaunchedAtMostOnce'
      BY <2>RunExternalAction, ConstantsAssumption
      DEF RunExternalAction, Admitted, HumanGated, Outcome, NeedsExternalCheckpoint
    <3> QED BY <3>1, <3>2, <3>3, <3>4, <3>5, <3>6
  <2>RunCommand. ASSUME NEW c \in Commands, NEW a \in {"none", "reviewed", "approved"},
                      NEW r \in 0..MaxRetries, RunCommand(c, a, r) PROVE ActionInv'
    <3>1. MarkerNamesOpenAction'
      BY <2>RunCommand, ConstantsAssumption
      DEF RunCommand, Admitted, HumanGated, Outcome, NeedsExternalCheckpoint
    <3>2. PendingIsQuiet'
      BY <2>RunCommand, ConstantsAssumption
      DEF RunCommand, Admitted, HumanGated, Outcome, NeedsExternalCheckpoint
    <3>3. GatedRun'
      BY <2>RunCommand, ConstantsAssumption
      DEF RunCommand, Admitted, HumanGated, Outcome, NeedsExternalCheckpoint
    <3>4. CompletionRun'
      BY <2>RunCommand, ConstantsAssumption
      DEF RunCommand, Admitted, HumanGated, Outcome, NeedsExternalCheckpoint
    <3>5. CompletedHasNoStep'
      BY <2>RunCommand, ConstantsAssumption
      DEF RunCommand, Admitted, HumanGated, Outcome, NeedsExternalCheckpoint
    <3>6. LaunchedAtMostOnce'
      BY <2>RunCommand, ConstantsAssumption
      DEF RunCommand, Admitted, HumanGated, Outcome, NeedsExternalCheckpoint
    <3> QED BY <3>1, <3>2, <3>3, <3>4, <3>5, <3>6
  <2>RunEscalates. CASE RunEscalates  BY <2>RunEscalates DEF RunEscalates
  <2>StopTask. CASE StopTask  BY <2>StopTask DEF StopTask
  <2>Resume. ASSUME NEW clear \in BOOLEAN, NEW reactivate \in BOOLEAN,
                    Resume(clear, reactivate)
             PROVE ActionInv'
    BY <2>Resume DEF Resume
  <2> QED BY ONLY <1>2, <2>Observe, <2>CheckpointNote, <2>CheckpointNext,
           <2>ClearNext, <2>ClearVerification, <2>ResolveExternalAction,
           <2>CancelExternalAction, <2>Complete, <2>StageExternalAction,
           <2>RunExternalAction, <2>RunCommand, <2>RunEscalates, <2>StopTask,
           <2>Resume DEF Call
<1>3. CASE Environment
  <2>StopHarness. CASE StopHarness  BY <2>StopHarness DEF StopHarness
  <2>ClearStop. CASE ClearStop  BY <2>ClearStop DEF ClearStop
  <2>ChangePolicy. CASE ChangePolicy  BY <2>ChangePolicy DEF ChangePolicy
  <2>GrantExpires. CASE GrantExpires  BY <2>GrantExpires DEF GrantExpires
  <2>Crash. CASE Crash  BY <2>Crash DEF Crash
  <2>Write. ASSUME NEW p \in Paths, NEW c \in Contents \union {Absent}, Write(p, c)
            PROVE ActionInv'
    BY <2>Write DEF Write
  <2> QED BY ONLY <1>3, <2>StopHarness, <2>ClearStop, <2>ChangePolicy,
           <2>GrantExpires, <2>Crash, <2>Write DEF Environment
<1>4. CASE UNCHANGED vars  BY <1>4
<1> QED BY <1>1, <1>2, <1>3, <1>4 DEF Next

(* Both invariants together are inductive. *)
LEMMA ActionInvariant == Spec => [](TypeInv /\ ActionInv)
<1>1. TypeInv => Shape  BY DEF TypeInv, TypeOK, Shape
<1>2. TypeInv /\ ActionInv /\ [Next]_vars => TypeInv' /\ ActionInv'
  <2>1. TypeInv /\ [Next]_vars => TypeInv' /\ Shape'
    BY TypeStep DEF TypeInv, TypeOK, Shape
  <2> QED BY <2>1, ActionInvStep
<1> QED BY <1>2, TypeInit, ActionInvInit, PTL DEF Spec

(* A protected staged action is launched at most once, whatever crashes,   *)
(* retries, reactivations and policy updates lie between staging and       *)
(* settling (runner.py, prepare_external_action before the first attempt). *)
THEOREM LaunchesOnce == Spec => []LaunchedAtMostOnce
<1>1. ActionInv => LaunchedAtMostOnce  BY DEF ActionInv
<1> QED BY <1>1, ActionInvariant, PTL

(* From its launch until evidence settles it, an action's reconciliation   *)
(* or verification marker is in the checkpoint on disk.                    *)
THEOREM LaunchStaysOnRecord == Spec => []LaunchIsOnRecord
<1>1. ActionInv => LaunchIsOnRecord
  <2> SUFFICES ASSUME ActionInv, NEW n \in Nonces, Protected(n), launched[n] > 0, settled[n] = "open"
               PROVE  step \in {Marker("RECONCILE", n), Marker("VERIFY", n)}
    BY DEF LaunchIsOnRecord
  <2>1. IsMarker(step) /\ step.nonce = n
    BY DEF ActionInv, MarkerNamesOpenAction, Protected
  <2>2. step.phase # "PENDING"
    BY <2>1 DEF ActionInv, PendingIsQuiet
  <2> QED BY <2>1, <2>2 DEF ActionInv, Shape, Steps, IsMarker, Markers, Marker
<1> QED BY <1>1, ActionInvariant, PTL

(* Nothing of a protected action runs while it waits for approval, which   *)
(* is what lets the store leave the wait out of the wall time.             *)
THEOREM WaitingIsQuiet == Spec => []NothingRunsWhilePending
<1>1. ActionInv => NothingRunsWhilePending
  BY DEF ActionInv, PendingIsQuiet, NothingRunsWhilePending, RunnerPcs
<1> QED BY <1>1, ActionInvariant, PTL

(* A task completes only when every action it ever staged is cancelled,    *)
(* verified or reconciled.                                                 *)
THEOREM CompletionIsSettled == Spec => []CompletedIsSettled
<1>1. ActionInv => CompletedIsSettled
  BY DEF ActionInv, CompletedHasNoStep, MarkerNamesOpenAction, CompletedIsSettled,
      IsMarker, Markers, NoStep
<1> QED BY <1>1, ActionInvariant, PTL
-----------------------------------------------------------------------------
(* Beyond the protocol: evidence, budget, stop file, ended tasks.          *)

(* While an external phase lasts, a file that differs from its observation *)
(* of this phase was written in this phase.                                *)
ObservedChangeIsWritten ==
    \A p \in Paths : IsMarker(step) /\ obs[p].inPhase /\ files[p] # obs[p].before => p \in written

(* An operation that ends a task ends with it. *)
TerminalIsIdle == status \in Terminal => pc = "idle"

(* Work under way has a call left in the budget, and every launch is       *)
(* charged, being captured, or lost in a crash.                            *)
ChargeInv ==
    /\ calls <= MaxCalls
    /\ pc \in {"spawn", "popen", "running", "captured"} => calls < MaxCalls
    /\ launches <= calls + lost + (IF pc \in {"running", "captured"} THEN 1 ELSE 0)

(* Completion is being marked only without a stop file; a stop file allows *)
(* one launch, of a process that was past its last check.                  *)
StopInv ==
    /\ pc = "marking" => ~stop
    /\ ~stop \/ pc = "popen" => sinceStop = 0
    /\ sinceStop <= 1

(* Some action was launched and verified. *)
VerifiedLaunch == \E n \in Nonces : settled[n] = "verified" /\ launched[n] > 0

(* A gated run that counts as returned did launch, a verification marker   *)
(* names a launched action, a receipt rests on a verified one, and a       *)
(* release that is being completed rests on a receipt.                     *)
(* Evidence E claims a logged content that is among the receipts R.        *)
Receipted(E, R) == \E p \in Paths : E[p].logged /\ <<p, E[p].sha>> \in R

ReleaseInv ==
    /\ pc = "returned" => job.gated
    /\ job.gated /\ (pc \in {"running", "returned"} \/ (pc = "captured" /\ job.result = "ok"))
          => launched[step.nonce] > 0
    /\ step.phase = "VERIFY" => launched[step.nonce] > 0
    /\ receipts # {} \/ pc = "receipt" => VerifiedLaunch
    /\ kind = "release" /\ (pc = "marking" \/ status = "completed")
          => Receipted(evid, receipts)

WorkInv ==
    ObservedChangeIsWritten /\ TerminalIsIdle /\ ChargeInv /\ StopInv /\ ReleaseInv

-----------------------------------------------------------------------------
(* The parts of the invariant hold initially. *)
LEMMA WorkInvInit == Init => WorkInv
BY ConstantsAssumption
DEF Init, WorkInv, ObservedChangeIsWritten, TerminalIsIdle, ChargeInv, StopInv,
    ReleaseInv, NoStep, IsMarker, Markers, Terminal, NoJob, NoObservation

(* A step keeps the relation of observations and writes. *)
LEMMA WrittenStep ==
  ASSUME ObservedChangeIsWritten, TypeOK, [Next]_vars
  PROVE  ObservedChangeIsWritten'
<1> USE DEF ObservedChangeIsWritten, TypeOK, IsMarker, Markers, Steps, Marker,
        NoStep, PlainStep, Observations, ChangePhase, vars, checkpoint, evidence,
        process, outside, history, Goto, Idle
<1>1. CASE ProcessStep
  <2>LogObservation. CASE LogObservation  BY <2>LogObservation DEF LogObservation
  <2>LogReceipt. CASE LogReceipt  BY <2>LogReceipt DEF LogReceipt, Save, ThenCheckWires
  <2>Escalate. CASE Escalate  BY <2>Escalate DEF Escalate
  <2>AttemptStopped. CASE AttemptStopped  BY <2>AttemptStopped DEF AttemptStopped
  <2>AttemptTripped. CASE AttemptTripped  BY <2>AttemptTripped DEF AttemptTripped
  <2>AttemptRefused. CASE AttemptRefused  BY <2>AttemptRefused DEF AttemptRefused
  <2>Attempt. CASE Attempt  BY <2>Attempt DEF Attempt
  <2>Spawn. CASE Spawn  BY <2>Spawn DEF Spawn, Capture
  <2>Launch. CASE Launch  BY <2>Launch DEF Launch, Capture, LaunchNonce
  <2>SaveAttempt. CASE SaveAttempt  BY <2>SaveAttempt DEF SaveAttempt
  <2>MarkReturned. CASE MarkReturned  BY <2>MarkReturned DEF MarkReturned
  <2>Halt. CASE Halt  BY <2>Halt DEF Halt
  <2>FailureTripped. CASE FailureTripped  BY <2>FailureTripped DEF FailureTripped
  <2>FailureRetried. CASE FailureRetried  BY <2>FailureRetried DEF FailureRetried
  <2>FailureFinal. CASE FailureFinal  BY <2>FailureFinal DEF FailureFinal
  <2>NextSensor. CASE NextSensor  BY <2>NextSensor DEF NextSensor
  <2>SaveSensor. CASE SaveSensor  BY <2>SaveSensor DEF SaveSensor
  <2>SensorsFailed. CASE SensorsFailed  BY <2>SensorsFailed DEF SensorsFailed
  <2>SaveCandidate. CASE SaveCandidate  BY <2>SaveCandidate DEF SaveCandidate
  <2>FinalCheck. CASE FinalCheck  BY <2>FinalCheck DEF FinalCheck
  <2>MarkCompleted. CASE MarkCompleted  BY <2>MarkCompleted DEF MarkCompleted
  <2>Exit. ASSUME NEW r \in Results, Exit(r) PROVE ObservedChangeIsWritten'
    BY <2>Exit DEF Exit, Capture
  <2> QED BY ONLY <1>1, <2>LogObservation, <2>LogReceipt, <2>Escalate,
           <2>AttemptStopped, <2>AttemptTripped, <2>AttemptRefused,
           <2>Attempt, <2>Spawn, <2>Launch, <2>SaveAttempt, <2>MarkReturned,
           <2>Halt, <2>FailureTripped, <2>FailureRetried, <2>FailureFinal,
           <2>NextSensor, <2>SaveSensor, <2>SensorsFailed, <2>SaveCandidate,
           <2>FinalCheck, <2>MarkCompleted, <2>Exit DEF ProcessStep
<1>2. CASE Call
  <2>Observe. ASSUME NEW p \in Paths, Observe(p)
              PROVE ObservedChangeIsWritten'
    BY <2>Observe DEF Observe
  <2>CheckpointNote. ASSUME NEW P \in SUBSET Paths, NEW d \in BOOLEAN, CheckpointNote(P, d)
                     PROVE ObservedChangeIsWritten'
    BY <2>CheckpointNote DEF CheckpointNote, Save, ThenCheckWires
  <2>CheckpointNext. ASSUME NEW P \in SUBSET Paths, NEW d \in BOOLEAN, CheckpointNext(P, d)
                     PROVE ObservedChangeIsWritten'
    BY <2>CheckpointNext DEF CheckpointNext, Save, ThenCheckWires
  <2>ClearNext. ASSUME NEW P \in SUBSET Paths, NEW d \in BOOLEAN, ClearNext(P, d)
                PROVE ObservedChangeIsWritten'
    BY <2>ClearNext DEF ClearNext, Save, ThenCheckWires
  <2>ClearVerification. ASSUME NEW P \in SUBSET Paths, ClearVerification(P)
                        PROVE ObservedChangeIsWritten'
    BY <2>ClearVerification DEF ClearVerification, Save, ThenCheckWires
  <2>ResolveExternalAction. ASSUME NEW P \in SUBSET Paths, ResolveExternalAction(P)
                            PROVE ObservedChangeIsWritten'
    BY <2>ResolveExternalAction DEF ResolveExternalAction, Save, ThenCheckWires
  <2>CancelExternalAction. ASSUME NEW P \in SUBSET Paths, CancelExternalAction(P)
                           PROVE ObservedChangeIsWritten'
    BY <2>CancelExternalAction DEF CancelExternalAction, Save, ThenCheckWires
  <2>Complete. ASSUME NEW P \in SUBSET Paths, Complete(P)
               PROVE ObservedChangeIsWritten'
    BY <2>Complete DEF Complete
  <2>StageExternalAction. ASSUME NEW n \in Nonces, NEW c \in Commands,
                                 StageExternalAction(n, c)
                          PROVE ObservedChangeIsWritten'
    BY <2>StageExternalAction DEF StageExternalAction
  <2>RunExternalAction. ASSUME NEW c \in Commands, NEW a \in {"none", "reviewed", "approved"},
                               RunExternalAction(c, a)
                        PROVE ObservedChangeIsWritten'
    BY <2>RunExternalAction DEF RunExternalAction
  <2>RunCommand. ASSUME NEW c \in Commands, NEW a \in {"none", "reviewed", "approved"},
                      NEW r \in 0..MaxRetries, RunCommand(c, a, r) PROVE ObservedChangeIsWritten'
    BY <2>RunCommand DEF RunCommand
  <2>RunEscalates. CASE RunEscalates  BY <2>RunEscalates DEF RunEscalates
  <2>StopTask. CASE StopTask  BY <2>StopTask DEF StopTask
  <2>Resume. ASSUME NEW clear \in BOOLEAN, NEW reactivate \in BOOLEAN,
                    Resume(clear, reactivate)
             PROVE ObservedChangeIsWritten'
    BY <2>Resume DEF Resume
  <2> QED BY ONLY <1>2, <2>Observe, <2>CheckpointNote, <2>CheckpointNext,
           <2>ClearNext, <2>ClearVerification, <2>ResolveExternalAction,
           <2>CancelExternalAction, <2>Complete, <2>StageExternalAction,
           <2>RunExternalAction, <2>RunCommand, <2>RunEscalates, <2>StopTask,
           <2>Resume DEF Call
<1>3. CASE Environment
  <2>StopHarness. CASE StopHarness  BY <2>StopHarness DEF StopHarness
  <2>ClearStop. CASE ClearStop  BY <2>ClearStop DEF ClearStop
  <2>ChangePolicy. CASE ChangePolicy  BY <2>ChangePolicy DEF ChangePolicy
  <2>GrantExpires. CASE GrantExpires  BY <2>GrantExpires DEF GrantExpires
  <2>Crash. CASE Crash  BY <2>Crash DEF Crash
  <2>Write. ASSUME NEW p \in Paths, NEW c \in Contents \union {Absent}, Write(p, c)
            PROVE ObservedChangeIsWritten'
    BY <2>Write DEF Write
  <2> QED BY ONLY <1>3, <2>StopHarness, <2>ClearStop, <2>ChangePolicy,
           <2>GrantExpires, <2>Crash, <2>Write DEF Environment
<1>4. CASE UNCHANGED vars  BY <1>4
<1> QED BY <1>1, <1>2, <1>3, <1>4 DEF Next

(* No operation goes on in a task that has ended. *)
LEMMA TerminalStep ==
  ASSUME TerminalIsIdle, ActionInv, Shape', [Next]_vars
  PROVE  TerminalIsIdle'
<1> USE DEF TerminalIsIdle, ActionInv, CompletionRun, Transition, Shape, Mutable,
        Statuses, Terminal, Allowed, MayBecome, vars, checkpoint, evidence, process,
        outside, history, Goto, Idle
<1>1. CASE ProcessStep
  <2>LogObservation. CASE LogObservation  BY <2>LogObservation DEF LogObservation
  <2>LogReceipt. CASE LogReceipt  BY <2>LogReceipt DEF LogReceipt, Save, ThenCheckWires
  <2>Escalate. CASE Escalate  BY <2>Escalate DEF Escalate
  <2>AttemptStopped. CASE AttemptStopped  BY <2>AttemptStopped DEF AttemptStopped
  <2>AttemptTripped. CASE AttemptTripped  BY <2>AttemptTripped DEF AttemptTripped
  <2>AttemptRefused. CASE AttemptRefused  BY <2>AttemptRefused DEF AttemptRefused
  <2>Attempt. CASE Attempt  BY <2>Attempt DEF Attempt
  <2>Spawn. CASE Spawn  BY <2>Spawn DEF Spawn, Capture
  <2>Launch. CASE Launch  BY <2>Launch DEF Launch, Capture, LaunchNonce
  <2>SaveAttempt. CASE SaveAttempt  BY <2>SaveAttempt DEF SaveAttempt
  <2>MarkReturned. CASE MarkReturned  BY <2>MarkReturned DEF MarkReturned
  <2>Halt. CASE Halt  BY <2>Halt DEF Halt
  <2>FailureTripped. CASE FailureTripped  BY <2>FailureTripped DEF FailureTripped
  <2>FailureRetried. CASE FailureRetried  BY <2>FailureRetried DEF FailureRetried
  <2>FailureFinal. CASE FailureFinal  BY <2>FailureFinal DEF FailureFinal
  <2>NextSensor. CASE NextSensor  BY <2>NextSensor DEF NextSensor
  <2>SaveSensor. CASE SaveSensor  BY <2>SaveSensor DEF SaveSensor
  <2>SensorsFailed. CASE SensorsFailed  BY <2>SensorsFailed DEF SensorsFailed
  <2>SaveCandidate. CASE SaveCandidate  BY <2>SaveCandidate DEF SaveCandidate
  <2>FinalCheck. CASE FinalCheck  BY <2>FinalCheck DEF FinalCheck
  <2>MarkCompleted. CASE MarkCompleted  BY <2>MarkCompleted DEF MarkCompleted
  <2>Exit. ASSUME NEW r \in Results, Exit(r) PROVE TerminalIsIdle'
    BY <2>Exit DEF Exit, Capture
  <2> QED BY ONLY <1>1, <2>LogObservation, <2>LogReceipt, <2>Escalate,
           <2>AttemptStopped, <2>AttemptTripped, <2>AttemptRefused,
           <2>Attempt, <2>Spawn, <2>Launch, <2>SaveAttempt, <2>MarkReturned,
           <2>Halt, <2>FailureTripped, <2>FailureRetried, <2>FailureFinal,
           <2>NextSensor, <2>SaveSensor, <2>SensorsFailed, <2>SaveCandidate,
           <2>FinalCheck, <2>MarkCompleted, <2>Exit DEF ProcessStep
<1>2. CASE Call
  <2>Observe. ASSUME NEW p \in Paths, Observe(p) PROVE TerminalIsIdle'
    BY <2>Observe DEF Observe
  <2>CheckpointNote. ASSUME NEW P \in SUBSET Paths, NEW d \in BOOLEAN, CheckpointNote(P, d)
                     PROVE TerminalIsIdle'
    BY <2>CheckpointNote DEF CheckpointNote, Save, ThenCheckWires
  <2>CheckpointNext. ASSUME NEW P \in SUBSET Paths, NEW d \in BOOLEAN, CheckpointNext(P, d)
                     PROVE TerminalIsIdle'
    BY <2>CheckpointNext DEF CheckpointNext, Save, ThenCheckWires
  <2>ClearNext. ASSUME NEW P \in SUBSET Paths, NEW d \in BOOLEAN, ClearNext(P, d)
                PROVE TerminalIsIdle'
    BY <2>ClearNext DEF ClearNext, Save, ThenCheckWires
  <2>ClearVerification. ASSUME NEW P \in SUBSET Paths, ClearVerification(P)
                        PROVE TerminalIsIdle'
    BY <2>ClearVerification DEF ClearVerification, Save, ThenCheckWires
  <2>ResolveExternalAction. ASSUME NEW P \in SUBSET Paths, ResolveExternalAction(P)
                            PROVE TerminalIsIdle'
    BY <2>ResolveExternalAction DEF ResolveExternalAction, Save, ThenCheckWires
  <2>CancelExternalAction. ASSUME NEW P \in SUBSET Paths, CancelExternalAction(P)
                           PROVE TerminalIsIdle'
    BY <2>CancelExternalAction DEF CancelExternalAction, Save, ThenCheckWires
  <2>Complete. ASSUME NEW P \in SUBSET Paths, Complete(P)
               PROVE TerminalIsIdle'
    BY <2>Complete DEF Complete
  <2>StageExternalAction. ASSUME NEW n \in Nonces, NEW c \in Commands,
                                 StageExternalAction(n, c)
                          PROVE TerminalIsIdle'
    BY <2>StageExternalAction DEF StageExternalAction
  <2>RunExternalAction. ASSUME NEW c \in Commands, NEW a \in {"none", "reviewed", "approved"},
                               RunExternalAction(c, a)
                        PROVE TerminalIsIdle'
    BY <2>RunExternalAction DEF RunExternalAction, Admitted
  <2>RunCommand. ASSUME NEW c \in Commands, NEW a \in {"none", "reviewed", "approved"},
                      NEW r \in 0..MaxRetries, RunCommand(c, a, r) PROVE TerminalIsIdle'
    BY <2>RunCommand DEF RunCommand, Admitted
  <2>RunEscalates. CASE RunEscalates  BY <2>RunEscalates DEF RunEscalates
  <2>StopTask. CASE StopTask  BY <2>StopTask DEF StopTask
  <2>Resume. ASSUME NEW clear \in BOOLEAN, NEW reactivate \in BOOLEAN,
                    Resume(clear, reactivate)
             PROVE TerminalIsIdle'
    BY <2>Resume DEF Resume
  <2> QED BY ONLY <1>2, <2>Observe, <2>CheckpointNote, <2>CheckpointNext,
           <2>ClearNext, <2>ClearVerification, <2>ResolveExternalAction,
           <2>CancelExternalAction, <2>Complete, <2>StageExternalAction,
           <2>RunExternalAction, <2>RunCommand, <2>RunEscalates, <2>StopTask,
           <2>Resume DEF Call
<1>3. CASE Environment
  <2>StopHarness. CASE StopHarness  BY <2>StopHarness DEF StopHarness
  <2>ClearStop. CASE ClearStop  BY <2>ClearStop DEF ClearStop
  <2>ChangePolicy. CASE ChangePolicy  BY <2>ChangePolicy DEF ChangePolicy
  <2>GrantExpires. CASE GrantExpires  BY <2>GrantExpires DEF GrantExpires
  <2>Crash. CASE Crash  BY <2>Crash DEF Crash
  <2>Write. ASSUME NEW p \in Paths, NEW c \in Contents \union {Absent}, Write(p, c)
            PROVE TerminalIsIdle'
    BY <2>Write DEF Write
  <2> QED BY ONLY <1>3, <2>StopHarness, <2>ClearStop, <2>ChangePolicy,
           <2>GrantExpires, <2>Crash, <2>Write DEF Environment
<1>4. CASE UNCHANGED vars  BY <1>4
<1> QED BY <1>1, <1>2, <1>3, <1>4 DEF Next

(* A step keeps the account of launches and the calls within their limit. *)
LEMMA ChargeStep ==
  ASSUME ChargeInv, TypeOK, TypeOK', [Next]_vars
  PROVE  ChargeInv'
<1> USE ConstantsAssumption DEF ChargeInv, TypeOK, MustTrip, vars, checkpoint,
        evidence, process, outside, history, Goto, Idle
<1>1. CASE ProcessStep
  <2>LogObservation. CASE LogObservation  BY <2>LogObservation DEF LogObservation
  <2>LogReceipt. CASE LogReceipt  BY <2>LogReceipt DEF LogReceipt, Save, ThenCheckWires
  <2>Escalate. CASE Escalate  BY <2>Escalate DEF Escalate
  <2>AttemptStopped. CASE AttemptStopped  BY <2>AttemptStopped DEF AttemptStopped
  <2>AttemptTripped. CASE AttemptTripped  BY <2>AttemptTripped DEF AttemptTripped
  <2>AttemptRefused. CASE AttemptRefused  BY <2>AttemptRefused DEF AttemptRefused
  <2>Attempt. CASE Attempt  BY <2>Attempt DEF Attempt
  <2>Spawn. CASE Spawn  BY <2>Spawn DEF Spawn, Capture
  <2>Launch. CASE Launch  BY <2>Launch DEF Launch, Capture, LaunchNonce
  <2>SaveAttempt. CASE SaveAttempt  BY <2>SaveAttempt DEF SaveAttempt
  <2>MarkReturned. CASE MarkReturned  BY <2>MarkReturned DEF MarkReturned
  <2>Halt. CASE Halt  BY <2>Halt DEF Halt
  <2>FailureTripped. CASE FailureTripped  BY <2>FailureTripped DEF FailureTripped
  <2>FailureRetried. CASE FailureRetried  BY <2>FailureRetried DEF FailureRetried
  <2>FailureFinal. CASE FailureFinal  BY <2>FailureFinal DEF FailureFinal
  <2>NextSensor. CASE NextSensor  BY <2>NextSensor DEF NextSensor
  <2>SaveSensor. CASE SaveSensor  BY <2>SaveSensor DEF SaveSensor
  <2>SensorsFailed. CASE SensorsFailed  BY <2>SensorsFailed DEF SensorsFailed
  <2>SaveCandidate. CASE SaveCandidate  BY <2>SaveCandidate DEF SaveCandidate
  <2>FinalCheck. CASE FinalCheck  BY <2>FinalCheck DEF FinalCheck
  <2>MarkCompleted. CASE MarkCompleted  BY <2>MarkCompleted DEF MarkCompleted
  <2>Exit. ASSUME NEW r \in Results, Exit(r) PROVE ChargeInv'
    BY <2>Exit DEF Exit, Capture
  <2> QED BY ONLY <1>1, <2>LogObservation, <2>LogReceipt, <2>Escalate,
           <2>AttemptStopped, <2>AttemptTripped, <2>AttemptRefused,
           <2>Attempt, <2>Spawn, <2>Launch, <2>SaveAttempt, <2>MarkReturned,
           <2>Halt, <2>FailureTripped, <2>FailureRetried, <2>FailureFinal,
           <2>NextSensor, <2>SaveSensor, <2>SensorsFailed, <2>SaveCandidate,
           <2>FinalCheck, <2>MarkCompleted, <2>Exit DEF ProcessStep
<1>2. CASE Call
  <2>Observe. ASSUME NEW p \in Paths, Observe(p) PROVE ChargeInv'
    BY <2>Observe DEF Observe
  <2>CheckpointNote. ASSUME NEW P \in SUBSET Paths, NEW d \in BOOLEAN, CheckpointNote(P, d)
                     PROVE ChargeInv'
    BY <2>CheckpointNote DEF CheckpointNote, Save, ThenCheckWires
  <2>CheckpointNext. ASSUME NEW P \in SUBSET Paths, NEW d \in BOOLEAN, CheckpointNext(P, d)
                     PROVE ChargeInv'
    BY <2>CheckpointNext DEF CheckpointNext, Save, ThenCheckWires
  <2>ClearNext. ASSUME NEW P \in SUBSET Paths, NEW d \in BOOLEAN, ClearNext(P, d)
                PROVE ChargeInv'
    BY <2>ClearNext DEF ClearNext, Save, ThenCheckWires
  <2>ClearVerification. ASSUME NEW P \in SUBSET Paths, ClearVerification(P)
                        PROVE ChargeInv'
    BY <2>ClearVerification DEF ClearVerification, Save, ThenCheckWires
  <2>ResolveExternalAction. ASSUME NEW P \in SUBSET Paths, ResolveExternalAction(P)
                            PROVE ChargeInv'
    BY <2>ResolveExternalAction DEF ResolveExternalAction, Save, ThenCheckWires
  <2>CancelExternalAction. ASSUME NEW P \in SUBSET Paths, CancelExternalAction(P)
                           PROVE ChargeInv'
    BY <2>CancelExternalAction DEF CancelExternalAction, Save, ThenCheckWires
  <2>Complete. ASSUME NEW P \in SUBSET Paths, Complete(P) PROVE ChargeInv'
    BY <2>Complete DEF Complete
  <2>StageExternalAction. ASSUME NEW n \in Nonces, NEW c \in Commands,
                                 StageExternalAction(n, c)
                          PROVE ChargeInv'
    BY <2>StageExternalAction DEF StageExternalAction
  <2>RunExternalAction. ASSUME NEW c \in Commands, NEW a \in {"none", "reviewed", "approved"},
                               RunExternalAction(c, a)
                        PROVE ChargeInv'
    BY <2>RunExternalAction DEF RunExternalAction, Admitted
  <2>RunCommand. ASSUME NEW c \in Commands, NEW a \in {"none", "reviewed", "approved"},
                      NEW r \in 0..MaxRetries, RunCommand(c, a, r) PROVE ChargeInv'
    BY <2>RunCommand DEF RunCommand, Admitted
  <2>RunEscalates. CASE RunEscalates  BY <2>RunEscalates DEF RunEscalates
  <2>StopTask. CASE StopTask  BY <2>StopTask DEF StopTask
  <2>Resume. ASSUME NEW clear \in BOOLEAN, NEW reactivate \in BOOLEAN,
                    Resume(clear, reactivate)
             PROVE ChargeInv'
    BY <2>Resume DEF Resume
  <2> QED BY ONLY <1>2, <2>Observe, <2>CheckpointNote, <2>CheckpointNext,
           <2>ClearNext, <2>ClearVerification, <2>ResolveExternalAction,
           <2>CancelExternalAction, <2>Complete, <2>StageExternalAction,
           <2>RunExternalAction, <2>RunCommand, <2>RunEscalates, <2>StopTask,
           <2>Resume DEF Call
<1>3. CASE Environment
  <2>StopHarness. CASE StopHarness  BY <2>StopHarness DEF StopHarness
  <2>ClearStop. CASE ClearStop  BY <2>ClearStop DEF ClearStop
  <2>ChangePolicy. CASE ChangePolicy  BY <2>ChangePolicy DEF ChangePolicy
  <2>GrantExpires. CASE GrantExpires  BY <2>GrantExpires DEF GrantExpires
  <2>Crash. CASE Crash  BY <2>Crash DEF Crash
  <2>Write. ASSUME NEW p \in Paths, NEW c \in Contents \union {Absent}, Write(p, c)
            PROVE ChargeInv'
    BY <2>Write DEF Write
  <2> QED BY ONLY <1>3, <2>StopHarness, <2>ClearStop, <2>ChangePolicy,
           <2>GrantExpires, <2>Crash, <2>Write DEF Environment
<1>4. CASE UNCHANGED vars  BY <1>4
<1> QED BY <1>1, <1>2, <1>3, <1>4 DEF Next

(* A step keeps the stop file's promises. *)
LEMMA StopStep ==
  ASSUME StopInv, TypeOK, TypeOK', [Next]_vars
  PROVE  StopInv'
<1> USE DEF StopInv, TypeOK, StopActive, HarnessLockFree, vars, checkpoint,
        evidence, process, outside, history, Goto, Idle
<1>1. CASE ProcessStep
  <2>LogObservation. CASE LogObservation  BY <2>LogObservation DEF LogObservation
  <2>LogReceipt. CASE LogReceipt  BY <2>LogReceipt DEF LogReceipt, Save, ThenCheckWires
  <2>Escalate. CASE Escalate  BY <2>Escalate DEF Escalate
  <2>AttemptStopped. CASE AttemptStopped  BY <2>AttemptStopped DEF AttemptStopped
  <2>AttemptTripped. CASE AttemptTripped  BY <2>AttemptTripped DEF AttemptTripped
  <2>AttemptRefused. CASE AttemptRefused  BY <2>AttemptRefused DEF AttemptRefused
  <2>Attempt. CASE Attempt  BY <2>Attempt DEF Attempt
  <2>Spawn. CASE Spawn  BY <2>Spawn DEF Spawn, Capture
  <2>Launch. CASE Launch  BY <2>Launch DEF Launch, Capture, LaunchNonce
  <2>SaveAttempt. CASE SaveAttempt  BY <2>SaveAttempt DEF SaveAttempt
  <2>MarkReturned. CASE MarkReturned  BY <2>MarkReturned DEF MarkReturned
  <2>Halt. CASE Halt  BY <2>Halt DEF Halt
  <2>FailureTripped. CASE FailureTripped  BY <2>FailureTripped DEF FailureTripped
  <2>FailureRetried. CASE FailureRetried  BY <2>FailureRetried DEF FailureRetried
  <2>FailureFinal. CASE FailureFinal  BY <2>FailureFinal DEF FailureFinal
  <2>NextSensor. CASE NextSensor  BY <2>NextSensor DEF NextSensor
  <2>SaveSensor. CASE SaveSensor  BY <2>SaveSensor DEF SaveSensor
  <2>SensorsFailed. CASE SensorsFailed  BY <2>SensorsFailed DEF SensorsFailed
  <2>SaveCandidate. CASE SaveCandidate  BY <2>SaveCandidate DEF SaveCandidate
  <2>FinalCheck. CASE FinalCheck  BY <2>FinalCheck DEF FinalCheck
  <2>MarkCompleted. CASE MarkCompleted  BY <2>MarkCompleted DEF MarkCompleted
  <2>Exit. ASSUME NEW r \in Results, Exit(r) PROVE StopInv'
    BY <2>Exit DEF Exit, Capture
  <2> QED BY ONLY <1>1, <2>LogObservation, <2>LogReceipt, <2>Escalate,
           <2>AttemptStopped, <2>AttemptTripped, <2>AttemptRefused,
           <2>Attempt, <2>Spawn, <2>Launch, <2>SaveAttempt, <2>MarkReturned,
           <2>Halt, <2>FailureTripped, <2>FailureRetried, <2>FailureFinal,
           <2>NextSensor, <2>SaveSensor, <2>SensorsFailed, <2>SaveCandidate,
           <2>FinalCheck, <2>MarkCompleted, <2>Exit DEF ProcessStep
<1>2. CASE Call
  <2>Observe. ASSUME NEW p \in Paths, Observe(p) PROVE StopInv'
    BY <2>Observe DEF Observe
  <2>CheckpointNote. ASSUME NEW P \in SUBSET Paths, NEW d \in BOOLEAN, CheckpointNote(P, d)
                     PROVE StopInv'
    BY <2>CheckpointNote DEF CheckpointNote, Save, ThenCheckWires
  <2>CheckpointNext. ASSUME NEW P \in SUBSET Paths, NEW d \in BOOLEAN, CheckpointNext(P, d)
                     PROVE StopInv'
    BY <2>CheckpointNext DEF CheckpointNext, Save, ThenCheckWires
  <2>ClearNext. ASSUME NEW P \in SUBSET Paths, NEW d \in BOOLEAN, ClearNext(P, d)
                PROVE StopInv'
    BY <2>ClearNext DEF ClearNext, Save, ThenCheckWires
  <2>ClearVerification. ASSUME NEW P \in SUBSET Paths, ClearVerification(P)
                        PROVE StopInv'
    BY <2>ClearVerification DEF ClearVerification, Save, ThenCheckWires
  <2>ResolveExternalAction. ASSUME NEW P \in SUBSET Paths, ResolveExternalAction(P)
                            PROVE StopInv'
    BY <2>ResolveExternalAction DEF ResolveExternalAction, Save, ThenCheckWires
  <2>CancelExternalAction. ASSUME NEW P \in SUBSET Paths, CancelExternalAction(P)
                           PROVE StopInv'
    BY <2>CancelExternalAction DEF CancelExternalAction, Save, ThenCheckWires
  <2>Complete. ASSUME NEW P \in SUBSET Paths, Complete(P) PROVE StopInv'
    BY <2>Complete DEF Complete
  <2>StageExternalAction. ASSUME NEW n \in Nonces, NEW c \in Commands,
                                 StageExternalAction(n, c)
                          PROVE StopInv'
    BY <2>StageExternalAction DEF StageExternalAction
  <2>RunExternalAction. ASSUME NEW c \in Commands, NEW a \in {"none", "reviewed", "approved"},
                               RunExternalAction(c, a)
                        PROVE StopInv'
    BY <2>RunExternalAction DEF RunExternalAction
  <2>RunCommand. ASSUME NEW c \in Commands, NEW a \in {"none", "reviewed", "approved"},
                      NEW r \in 0..MaxRetries, RunCommand(c, a, r) PROVE StopInv'
    BY <2>RunCommand DEF RunCommand
  <2>RunEscalates. CASE RunEscalates  BY <2>RunEscalates DEF RunEscalates
  <2>StopTask. CASE StopTask  BY <2>StopTask DEF StopTask
  <2>Resume. ASSUME NEW clear \in BOOLEAN, NEW reactivate \in BOOLEAN,
                    Resume(clear, reactivate)
             PROVE StopInv'
    BY <2>Resume DEF Resume
  <2> QED BY ONLY <1>2, <2>Observe, <2>CheckpointNote, <2>CheckpointNext,
           <2>ClearNext, <2>ClearVerification, <2>ResolveExternalAction,
           <2>CancelExternalAction, <2>Complete, <2>StageExternalAction,
           <2>RunExternalAction, <2>RunCommand, <2>RunEscalates, <2>StopTask,
           <2>Resume DEF Call
<1>3. CASE Environment
  <2>StopHarness. CASE StopHarness  BY <2>StopHarness DEF StopHarness
  <2>ClearStop. CASE ClearStop  BY <2>ClearStop DEF ClearStop
  <2>ChangePolicy. CASE ChangePolicy  BY <2>ChangePolicy DEF ChangePolicy
  <2>GrantExpires. CASE GrantExpires  BY <2>GrantExpires DEF GrantExpires
  <2>Crash. CASE Crash  BY <2>Crash DEF Crash
  <2>Write. ASSUME NEW p \in Paths, NEW c \in Contents \union {Absent}, Write(p, c)
            PROVE StopInv'
    BY <2>Write DEF Write
  <2> QED BY ONLY <1>3, <2>StopHarness, <2>ClearStop, <2>ChangePolicy,
           <2>GrantExpires, <2>Crash, <2>Write DEF Environment
<1>4. CASE UNCHANGED vars  BY <1>4
<1> QED BY <1>1, <1>2, <1>3, <1>4 DEF Next

(* A step keeps the chain from launch to receipt to completed release. *)
LEMMA ReleaseStep ==
  ASSUME ReleaseInv, ActionInv, TypeOK, TypeOK', [Next]_vars
  PROVE  ReleaseInv'
<1> USE ConstantsAssumption DEF ReleaseInv, VerifiedLaunch, TypeOK, Shape,
        ActionInv, GatedRun, MarkerNamesOpenAction, CompletionRun, IsMarker,
        Markers, Steps, Marker, NoStep, PlainStep, NoJob, Transition, RunsSensors,
        Statuses, RunnerPcs, CompletionPcs, BeforeLaunch, vars, checkpoint,
        evidence, process, outside, history, Goto, Idle
<1>1. CASE ProcessStep
  <2>LogObservation. CASE LogObservation  BY <2>LogObservation DEF LogObservation
  <2>LogReceipt. CASE LogReceipt
    <3>1. Receipted(evid, receipts) => Receipted(evid, receipts)'
      BY <2>LogReceipt DEF LogReceipt, Receipted
    <3> QED BY <2>LogReceipt, <3>1 DEF LogReceipt, Save, ThenCheckWires
  <2>Escalate. CASE Escalate  BY <2>Escalate DEF Escalate
  <2>AttemptStopped. CASE AttemptStopped  BY <2>AttemptStopped DEF AttemptStopped
  <2>AttemptTripped. CASE AttemptTripped  BY <2>AttemptTripped DEF AttemptTripped
  <2>AttemptRefused. CASE AttemptRefused  BY <2>AttemptRefused DEF AttemptRefused
  <2>Attempt. CASE Attempt  BY <2>Attempt DEF Attempt
  <2>Spawn. CASE Spawn  BY <2>Spawn DEF Spawn, Capture, Jobs
  <2>Launch. CASE Launch  BY <2>Launch DEF Launch, Capture, LaunchNonce, Jobs
  <2>SaveAttempt. CASE SaveAttempt  BY <2>SaveAttempt DEF SaveAttempt
  <2>MarkReturned. CASE MarkReturned  BY <2>MarkReturned DEF MarkReturned
  <2>Halt. CASE Halt  BY <2>Halt DEF Halt
  <2>FailureTripped. CASE FailureTripped  BY <2>FailureTripped DEF FailureTripped
  <2>FailureRetried. CASE FailureRetried  BY <2>FailureRetried DEF FailureRetried, Jobs
  <2>FailureFinal. CASE FailureFinal  BY <2>FailureFinal DEF FailureFinal
  <2>NextSensor. CASE NextSensor  BY <2>NextSensor DEF NextSensor
  <2>SaveSensor. CASE SaveSensor  BY <2>SaveSensor DEF SaveSensor, Jobs
  <2>SensorsFailed. CASE SensorsFailed  BY <2>SensorsFailed DEF SensorsFailed
  <2>SaveCandidate. CASE SaveCandidate  BY <2>SaveCandidate DEF SaveCandidate
  <2>FinalCheck. CASE FinalCheck
    <3>1. kind = "release" /\ Qualifying(evid) # {}
             => Receipted(evid, receipts)
      BY DEF Qualifying, Fresh, Receipted
    <3> QED BY <2>FinalCheck, <3>1 DEF FinalCheck
  <2>MarkCompleted. CASE MarkCompleted  BY <2>MarkCompleted DEF MarkCompleted
  <2>Exit. ASSUME NEW r \in Results, Exit(r) PROVE ReleaseInv'
    BY <2>Exit DEF Exit, Capture, Jobs
  <2> QED BY ONLY <1>1, <2>LogObservation, <2>LogReceipt, <2>Escalate,
           <2>AttemptStopped, <2>AttemptTripped, <2>AttemptRefused,
           <2>Attempt, <2>Spawn, <2>Launch, <2>SaveAttempt, <2>MarkReturned,
           <2>Halt, <2>FailureTripped, <2>FailureRetried, <2>FailureFinal,
           <2>NextSensor, <2>SaveSensor, <2>SensorsFailed, <2>SaveCandidate,
           <2>FinalCheck, <2>MarkCompleted, <2>Exit DEF ProcessStep
<1>2. CASE Call
  <2>Observe. ASSUME NEW p \in Paths, Observe(p) PROVE ReleaseInv'
    BY <2>Observe DEF Observe
  <2>CheckpointNote. ASSUME NEW P \in SUBSET Paths, NEW d \in BOOLEAN, CheckpointNote(P, d)
                     PROVE ReleaseInv'
    BY <2>CheckpointNote DEF CheckpointNote, Save, Mutable, Terminal, ThenCheckWires
  <2>CheckpointNext. ASSUME NEW P \in SUBSET Paths, NEW d \in BOOLEAN, CheckpointNext(P, d)
                     PROVE ReleaseInv'
    BY <2>CheckpointNext DEF CheckpointNext, Save, Mutable, Terminal, ThenCheckWires
  <2>ClearNext. ASSUME NEW P \in SUBSET Paths, NEW d \in BOOLEAN, ClearNext(P, d)
                PROVE ReleaseInv'
    BY <2>ClearNext DEF ClearNext, Save, Mutable, Terminal, ThenCheckWires
  <2>ClearVerification. ASSUME NEW P \in SUBSET Paths, ClearVerification(P)
                        PROVE ReleaseInv'
    BY <2>ClearVerification DEF ClearVerification, Save, Mutable, Terminal, ThenCheckWires
  <2>ResolveExternalAction. ASSUME NEW P \in SUBSET Paths, ResolveExternalAction(P)
                            PROVE ReleaseInv'
    BY <2>ResolveExternalAction DEF ResolveExternalAction, Save, ThenCheckWires
  <2>CancelExternalAction. ASSUME NEW P \in SUBSET Paths, CancelExternalAction(P)
                           PROVE ReleaseInv'
    BY <2>CancelExternalAction DEF CancelExternalAction, Save, ThenCheckWires
  <2>Complete. ASSUME NEW P \in SUBSET Paths, Complete(P) PROVE ReleaseInv'
    BY <2>Complete DEF Complete
  <2>StageExternalAction. ASSUME NEW n \in Nonces, NEW c \in Commands,
                                 StageExternalAction(n, c)
                          PROVE ReleaseInv'
    BY <2>StageExternalAction DEF StageExternalAction
  <2>RunExternalAction. ASSUME NEW c \in Commands, NEW a \in {"none", "reviewed", "approved"},
                               RunExternalAction(c, a)
                        PROVE ReleaseInv'
    BY <2>RunExternalAction DEF RunExternalAction
  <2>RunCommand. ASSUME NEW c \in Commands, NEW a \in {"none", "reviewed", "approved"},
                      NEW r \in 0..MaxRetries, RunCommand(c, a, r) PROVE ReleaseInv'
    BY <2>RunCommand DEF RunCommand
  <2>RunEscalates. CASE RunEscalates  BY <2>RunEscalates DEF RunEscalates
  <2>StopTask. CASE StopTask  BY <2>StopTask DEF StopTask
  <2>Resume. ASSUME NEW clear \in BOOLEAN, NEW reactivate \in BOOLEAN,
                    Resume(clear, reactivate)
             PROVE ReleaseInv'
    BY <2>Resume DEF Resume
  <2> QED BY ONLY <1>2, <2>Observe, <2>CheckpointNote, <2>CheckpointNext,
           <2>ClearNext, <2>ClearVerification, <2>ResolveExternalAction,
           <2>CancelExternalAction, <2>Complete, <2>StageExternalAction,
           <2>RunExternalAction, <2>RunCommand, <2>RunEscalates, <2>StopTask,
           <2>Resume DEF Call
<1>3. CASE Environment
  <2>StopHarness. CASE StopHarness  BY <2>StopHarness DEF StopHarness
  <2>ClearStop. CASE ClearStop  BY <2>ClearStop DEF ClearStop
  <2>ChangePolicy. CASE ChangePolicy  BY <2>ChangePolicy DEF ChangePolicy
  <2>GrantExpires. CASE GrantExpires  BY <2>GrantExpires DEF GrantExpires
  <2>Crash. CASE Crash  BY <2>Crash DEF Crash
  <2>Write. ASSUME NEW p \in Paths, NEW c \in Contents \union {Absent}, Write(p, c)
            PROVE ReleaseInv'
    <3>1. \A q \in Paths : evid'[q].logged = evid[q].logged /\ evid'[q].sha = evid[q].sha
      BY <2>Write DEF Write
    <3>2. receipts' = receipts  BY <2>Write DEF Write
    <3>3. Receipted(evid, receipts) => Receipted(evid, receipts)'
      BY ONLY <3>1, <3>2 DEF Receipted
    <3> QED BY <2>Write, <3>3 DEF Write
  <2> QED BY ONLY <1>3, <2>StopHarness, <2>ClearStop, <2>ChangePolicy,
           <2>GrantExpires, <2>Crash, <2>Write DEF Environment
<1>4. CASE UNCHANGED vars  BY <1>4
<1> QED BY <1>1, <1>2, <1>3, <1>4 DEF Next
-----------------------------------------------------------------------------
(* All invariants together are inductive. *)
LEMMA WorkInvariant == Spec => [](TypeInv /\ ActionInv /\ WorkInv)
<1>1. TypeInv => TypeOK /\ Shape  BY DEF TypeInv, TypeOK, Shape
<1>2. TypeInv /\ TypeInv' /\ ActionInv /\ WorkInv /\ [Next]_vars => WorkInv'
  <2> SUFFICES ASSUME TypeInv, TypeInv', ActionInv, WorkInv, [Next]_vars PROVE WorkInv'
    OBVIOUS
  <2>1. TypeOK /\ TypeOK' /\ Shape'  BY DEF TypeInv, TypeOK, Shape
  <2> QED BY <2>1, WrittenStep, TerminalStep, ChargeStep, StopStep, ReleaseStep DEF WorkInv
<1> QED BY <1>2, ActionInvariant, WorkInvInit, PTL DEF Spec

(* Tool calls stay within max_tool_calls, and every command or sensor ever *)
(* launched is charged, being captured, or lost with its process.          *)
THEOREM ChargesAreComplete == Spec => []LaunchesAreCharged
<1>1. WorkInv => LaunchesAreCharged  BY DEF WorkInv, ChargeInv, LaunchesAreCharged
<1> QED BY <1>1, WorkInvariant, PTL

(* The stop file lets at most one launch through until it is cleared. *)
THEOREM StopBoundsLaunches == Spec => []OneLaunchPerStop
<1>1. WorkInv => OneLaunchPerStop  BY DEF WorkInv, StopInv, OneLaunchPerStop
<1> QED BY <1>1, WorkInvariant, PTL

(* A completed release rests on an action that was launched, returned and  *)
(* was verified.                                                           *)
THEOREM ReleasesAreVerified == Spec => []ReleaseNeedsVerifiedAction
<1>1. WorkInv => ReleaseNeedsVerifiedAction
  <2>1. Receipted(evid, receipts) => receipts # {}  BY DEF Receipted
  <2> QED BY <2>1 DEF WorkInv, ReleaseInv, VerifiedLaunch, Receipted, ReleaseNeedsVerifiedAction
<1> QED BY <1>1, WorkInvariant, PTL

(* Only the last step of the completion workflow makes a task completed. *)
LEMMA CompletedByMarking ==
  ASSUME TypeOK, status # "completed", status' = "completed", [Next]_vars
  PROVE  MarkCompleted
<1> USE DEF TypeOK, Transition, vars, checkpoint, evidence, process, outside,
        history, Goto, Idle
<1>1. CASE ProcessStep
  <2>LogObservation. CASE LogObservation  BY <2>LogObservation DEF LogObservation
  <2>LogReceipt. CASE LogReceipt  BY <2>LogReceipt DEF LogReceipt, Save, ThenCheckWires
  <2>Escalate. CASE Escalate  BY <2>Escalate DEF Escalate
  <2>AttemptStopped. CASE AttemptStopped  BY <2>AttemptStopped DEF AttemptStopped
  <2>AttemptTripped. CASE AttemptTripped  BY <2>AttemptTripped DEF AttemptTripped
  <2>AttemptRefused. CASE AttemptRefused  BY <2>AttemptRefused DEF AttemptRefused
  <2>Attempt. CASE Attempt  BY <2>Attempt DEF Attempt
  <2>Spawn. CASE Spawn  BY <2>Spawn DEF Spawn, Capture
  <2>Launch. CASE Launch  BY <2>Launch DEF Launch, Capture, LaunchNonce
  <2>SaveAttempt. CASE SaveAttempt  BY <2>SaveAttempt DEF SaveAttempt
  <2>MarkReturned. CASE MarkReturned  BY <2>MarkReturned DEF MarkReturned
  <2>Halt. CASE Halt  BY <2>Halt DEF Halt
  <2>FailureTripped. CASE FailureTripped  BY <2>FailureTripped DEF FailureTripped
  <2>FailureRetried. CASE FailureRetried  BY <2>FailureRetried DEF FailureRetried
  <2>FailureFinal. CASE FailureFinal  BY <2>FailureFinal DEF FailureFinal
  <2>NextSensor. CASE NextSensor  BY <2>NextSensor DEF NextSensor
  <2>SaveSensor. CASE SaveSensor  BY <2>SaveSensor DEF SaveSensor
  <2>SensorsFailed. CASE SensorsFailed  BY <2>SensorsFailed DEF SensorsFailed
  <2>SaveCandidate. CASE SaveCandidate  BY <2>SaveCandidate DEF SaveCandidate
  <2>FinalCheck. CASE FinalCheck  BY <2>FinalCheck DEF FinalCheck
  <2>MarkCompleted. CASE MarkCompleted  BY <2>MarkCompleted
  <2>Exit. ASSUME NEW r \in Results, Exit(r) PROVE MarkCompleted
    BY <2>Exit DEF Exit, Capture
  <2> QED BY ONLY <1>1, <2>LogObservation, <2>LogReceipt, <2>Escalate,
           <2>AttemptStopped, <2>AttemptTripped, <2>AttemptRefused,
           <2>Attempt, <2>Spawn, <2>Launch, <2>SaveAttempt, <2>MarkReturned,
           <2>Halt, <2>FailureTripped, <2>FailureRetried, <2>FailureFinal,
           <2>NextSensor, <2>SaveSensor, <2>SensorsFailed, <2>SaveCandidate,
           <2>FinalCheck, <2>MarkCompleted, <2>Exit DEF ProcessStep
<1>2. CASE Call
  <2>Observe. ASSUME NEW p \in Paths, Observe(p) PROVE MarkCompleted
    BY <2>Observe DEF Observe
  <2>CheckpointNote. ASSUME NEW P \in SUBSET Paths, NEW d \in BOOLEAN, CheckpointNote(P, d)
                     PROVE MarkCompleted
    BY <2>CheckpointNote DEF CheckpointNote, Save, ThenCheckWires
  <2>CheckpointNext. ASSUME NEW P \in SUBSET Paths, NEW d \in BOOLEAN, CheckpointNext(P, d)
                     PROVE MarkCompleted
    BY <2>CheckpointNext DEF CheckpointNext, Save, ThenCheckWires
  <2>ClearNext. ASSUME NEW P \in SUBSET Paths, NEW d \in BOOLEAN, ClearNext(P, d)
                PROVE MarkCompleted
    BY <2>ClearNext DEF ClearNext, Save, ThenCheckWires
  <2>ClearVerification. ASSUME NEW P \in SUBSET Paths, ClearVerification(P)
                        PROVE MarkCompleted
    BY <2>ClearVerification DEF ClearVerification, Save, ThenCheckWires
  <2>ResolveExternalAction. ASSUME NEW P \in SUBSET Paths, ResolveExternalAction(P)
                            PROVE MarkCompleted
    BY <2>ResolveExternalAction DEF ResolveExternalAction, Save, ThenCheckWires
  <2>CancelExternalAction. ASSUME NEW P \in SUBSET Paths, CancelExternalAction(P)
                           PROVE MarkCompleted
    BY <2>CancelExternalAction DEF CancelExternalAction, Save, ThenCheckWires
  <2>Complete. ASSUME NEW P \in SUBSET Paths, Complete(P) PROVE MarkCompleted
    BY <2>Complete DEF Complete
  <2>StageExternalAction. ASSUME NEW n \in Nonces, NEW c \in Commands,
                                 StageExternalAction(n, c)
                          PROVE MarkCompleted
    BY <2>StageExternalAction DEF StageExternalAction
  <2>RunExternalAction. ASSUME NEW c \in Commands, NEW a \in {"none", "reviewed", "approved"},
                               RunExternalAction(c, a)
                        PROVE MarkCompleted
    BY <2>RunExternalAction DEF RunExternalAction
  <2>RunCommand. ASSUME NEW c \in Commands, NEW a \in {"none", "reviewed", "approved"},
                      NEW r \in 0..MaxRetries, RunCommand(c, a, r) PROVE MarkCompleted
    BY <2>RunCommand DEF RunCommand
  <2>RunEscalates. CASE RunEscalates  BY <2>RunEscalates DEF RunEscalates
  <2>StopTask. CASE StopTask  BY <2>StopTask DEF StopTask
  <2>Resume. ASSUME NEW clear \in BOOLEAN, NEW reactivate \in BOOLEAN,
                    Resume(clear, reactivate)
             PROVE MarkCompleted
    BY <2>Resume DEF Resume
  <2> QED BY ONLY <1>2, <2>Observe, <2>CheckpointNote, <2>CheckpointNext,
           <2>ClearNext, <2>ClearVerification, <2>ResolveExternalAction,
           <2>CancelExternalAction, <2>Complete, <2>StageExternalAction,
           <2>RunExternalAction, <2>RunCommand, <2>RunEscalates, <2>StopTask,
           <2>Resume DEF Call
<1>3. CASE Environment
  <2>StopHarness. CASE StopHarness  BY <2>StopHarness DEF StopHarness
  <2>ClearStop. CASE ClearStop  BY <2>ClearStop DEF ClearStop
  <2>ChangePolicy. CASE ChangePolicy  BY <2>ChangePolicy DEF ChangePolicy
  <2>GrantExpires. CASE GrantExpires  BY <2>GrantExpires DEF GrantExpires
  <2>Crash. CASE Crash  BY <2>Crash DEF Crash
  <2>Write. ASSUME NEW p \in Paths, NEW c \in Contents \union {Absent}, Write(p, c)
            PROVE MarkCompleted
    BY <2>Write DEF Write
  <2> QED BY ONLY <1>3, <2>StopHarness, <2>ClearStop, <2>ChangePolicy,
           <2>GrantExpires, <2>Crash, <2>Write DEF Environment
<1>4. CASE UNCHANGED vars  BY <1>4
<1> QED BY <1>1, <1>2, <1>3, <1>4 DEF Next

(* No step marks a task completed while the stop file exists. *)
THEOREM StopBlocksCompletion == Spec => NoCompletionUnderStop
<1>1. TypeOK /\ StopInv /\ [Next]_vars
        => (status # "completed" /\ status' = "completed" => ~stop)
  <2> SUFFICES ASSUME TypeOK, StopInv, [Next]_vars, status # "completed", status' = "completed"
               PROVE  ~stop
    OBVIOUS
  <2>1. MarkCompleted  BY CompletedByMarking
  <2> QED BY <2>1 DEF MarkCompleted, StopInv
<1>2. TypeInv /\ WorkInv => TypeOK /\ StopInv  BY DEF TypeInv, WorkInv
<1> QED BY <1>1, <1>2, WorkInvariant, PTL DEF Spec, NoCompletionUnderStop

-----------------------------------------------------------------------------
(* Nothing of a terminal checkpoint but the intactness of its files changes. *)
Frozen == UNCHANGED <<status, step, done, calls, bound, obs, receipts, Claims>>

(* An action that is verified or reconciled is so by a file that was       *)
(* written in its phase.                                                   *)
SettlesByWrite ==
    \A n \in Nonces :
        settled[n] = "open" /\ settled'[n] \in {"verified", "reconciled"} => written # {}

(* A terminal checkpoint is kept by every step. *)
LEMMA FrozenStep ==
  ASSUME TypeOK, TerminalIsIdle, status \in Terminal, [Next]_vars
  PROVE  Frozen
<1> USE DEF TypeOK, TerminalIsIdle, Terminal, Frozen, Claims, Statuses, Allowed,
        MayBecome, Mutable, Transition, vars, checkpoint, evidence, process,
        outside, history, Goto, Idle
<1>1. CASE ProcessStep
  <2>LogObservation. CASE LogObservation  BY <2>LogObservation DEF LogObservation
  <2>LogReceipt. CASE LogReceipt  BY <2>LogReceipt DEF LogReceipt, Save, ThenCheckWires
  <2>Escalate. CASE Escalate  BY <2>Escalate DEF Escalate
  <2>AttemptStopped. CASE AttemptStopped  BY <2>AttemptStopped DEF AttemptStopped
  <2>AttemptTripped. CASE AttemptTripped  BY <2>AttemptTripped DEF AttemptTripped
  <2>AttemptRefused. CASE AttemptRefused  BY <2>AttemptRefused DEF AttemptRefused
  <2>Attempt. CASE Attempt  BY <2>Attempt DEF Attempt
  <2>Spawn. CASE Spawn  BY <2>Spawn DEF Spawn, Capture
  <2>Launch. CASE Launch  BY <2>Launch DEF Launch, Capture, LaunchNonce
  <2>SaveAttempt. CASE SaveAttempt  BY <2>SaveAttempt DEF SaveAttempt
  <2>MarkReturned. CASE MarkReturned  BY <2>MarkReturned DEF MarkReturned
  <2>Halt. CASE Halt  BY <2>Halt DEF Halt
  <2>FailureTripped. CASE FailureTripped  BY <2>FailureTripped DEF FailureTripped
  <2>FailureRetried. CASE FailureRetried  BY <2>FailureRetried DEF FailureRetried
  <2>FailureFinal. CASE FailureFinal  BY <2>FailureFinal DEF FailureFinal
  <2>NextSensor. CASE NextSensor  BY <2>NextSensor DEF NextSensor
  <2>SaveSensor. CASE SaveSensor  BY <2>SaveSensor DEF SaveSensor
  <2>SensorsFailed. CASE SensorsFailed  BY <2>SensorsFailed DEF SensorsFailed
  <2>SaveCandidate. CASE SaveCandidate  BY <2>SaveCandidate DEF SaveCandidate
  <2>FinalCheck. CASE FinalCheck  BY <2>FinalCheck DEF FinalCheck
  <2>MarkCompleted. CASE MarkCompleted  BY <2>MarkCompleted DEF MarkCompleted
  <2>Exit. ASSUME NEW r \in Results, Exit(r) PROVE Frozen
    BY <2>Exit DEF Exit, Capture
  <2> QED BY ONLY <1>1, <2>LogObservation, <2>LogReceipt, <2>Escalate,
           <2>AttemptStopped, <2>AttemptTripped, <2>AttemptRefused,
           <2>Attempt, <2>Spawn, <2>Launch, <2>SaveAttempt, <2>MarkReturned,
           <2>Halt, <2>FailureTripped, <2>FailureRetried, <2>FailureFinal,
           <2>NextSensor, <2>SaveSensor, <2>SensorsFailed, <2>SaveCandidate,
           <2>FinalCheck, <2>MarkCompleted, <2>Exit DEF ProcessStep
<1>2. CASE Call
  <2>Observe. ASSUME NEW p \in Paths, Observe(p) PROVE Frozen
    BY <2>Observe DEF Observe
  <2>CheckpointNote. ASSUME NEW P \in SUBSET Paths, NEW d \in BOOLEAN, CheckpointNote(P, d)
                     PROVE Frozen
    BY <2>CheckpointNote DEF CheckpointNote, Save, ThenCheckWires
  <2>CheckpointNext. ASSUME NEW P \in SUBSET Paths, NEW d \in BOOLEAN, CheckpointNext(P, d)
                     PROVE Frozen
    BY <2>CheckpointNext DEF CheckpointNext, Save, ThenCheckWires
  <2>ClearNext. ASSUME NEW P \in SUBSET Paths, NEW d \in BOOLEAN, ClearNext(P, d)
                PROVE Frozen
    BY <2>ClearNext DEF ClearNext, Save, ThenCheckWires
  <2>ClearVerification. ASSUME NEW P \in SUBSET Paths, ClearVerification(P)
                        PROVE Frozen
    BY <2>ClearVerification DEF ClearVerification, Save, ThenCheckWires
  <2>ResolveExternalAction. ASSUME NEW P \in SUBSET Paths, ResolveExternalAction(P)
                            PROVE Frozen
    BY <2>ResolveExternalAction DEF ResolveExternalAction, Save, ThenCheckWires
  <2>CancelExternalAction. ASSUME NEW P \in SUBSET Paths, CancelExternalAction(P)
                           PROVE Frozen
    BY <2>CancelExternalAction DEF CancelExternalAction, Save, ThenCheckWires
  <2>Complete. ASSUME NEW P \in SUBSET Paths, Complete(P) PROVE Frozen
    BY <2>Complete DEF Complete
  <2>StageExternalAction. ASSUME NEW n \in Nonces, NEW c \in Commands,
                                 StageExternalAction(n, c)
                          PROVE Frozen
    BY <2>StageExternalAction DEF StageExternalAction
  <2>RunExternalAction. ASSUME NEW c \in Commands, NEW a \in {"none", "reviewed", "approved"},
                               RunExternalAction(c, a)
                        PROVE Frozen
    BY <2>RunExternalAction DEF RunExternalAction, Admitted
  <2>RunCommand. ASSUME NEW c \in Commands, NEW a \in {"none", "reviewed", "approved"},
                      NEW r \in 0..MaxRetries, RunCommand(c, a, r) PROVE Frozen
    BY <2>RunCommand DEF RunCommand, Admitted
  <2>RunEscalates. CASE RunEscalates  BY <2>RunEscalates DEF RunEscalates
  <2>StopTask. CASE StopTask  BY <2>StopTask DEF StopTask
  <2>Resume. ASSUME NEW clear \in BOOLEAN, NEW reactivate \in BOOLEAN,
                    Resume(clear, reactivate)
             PROVE Frozen
    BY <2>Resume DEF Resume
  <2> QED BY ONLY <1>2, <2>Observe, <2>CheckpointNote, <2>CheckpointNext,
           <2>ClearNext, <2>ClearVerification, <2>ResolveExternalAction,
           <2>CancelExternalAction, <2>Complete, <2>StageExternalAction,
           <2>RunExternalAction, <2>RunCommand, <2>RunEscalates, <2>StopTask,
           <2>Resume DEF Call
<1>3. CASE Environment
  <2>StopHarness. CASE StopHarness  BY <2>StopHarness DEF StopHarness
  <2>ClearStop. CASE ClearStop  BY <2>ClearStop DEF ClearStop
  <2>ChangePolicy. CASE ChangePolicy  BY <2>ChangePolicy DEF ChangePolicy
  <2>GrantExpires. CASE GrantExpires  BY <2>GrantExpires DEF GrantExpires
  <2>Crash. CASE Crash  BY <2>Crash DEF Crash
  <2>Write. ASSUME NEW p \in Paths, NEW c \in Contents \union {Absent}, Write(p, c)
            PROVE Frozen
    BY <2>Write DEF Write, EvidenceItems
  <2> QED BY ONLY <1>3, <2>StopHarness, <2>ClearStop, <2>ChangePolicy,
           <2>GrantExpires, <2>Crash, <2>Write DEF Environment
<1>4. CASE UNCHANGED vars  BY <1>4
<1> QED BY <1>1, <1>2, <1>3, <1>4 DEF Next

(* A terminal checkpoint never changes again: every operation on it is     *)
(* refused and none was under way when the task ended.                     *)
THEOREM TerminalStaysFrozen == Spec => TerminalIsFrozen
<1>1. TypeOK /\ TerminalIsIdle /\ [Next]_vars => (status \in Terminal => Frozen)
  BY FrozenStep
<1>2. TypeInv /\ WorkInv => TypeOK /\ TerminalIsIdle  BY DEF TypeInv, WorkInv
<1> QED BY <1>1, <1>2, WorkInvariant, PTL DEF Spec, TerminalIsFrozen, Frozen

(* A step that settles an action by evidence finds a written file. *)
LEMMA SettledStep ==
  ASSUME TypeOK, ObservedChangeIsWritten, [Next]_vars
  PROVE  SettlesByWrite
<1> USE DEF TypeOK, SettlesByWrite, vars, checkpoint, evidence, process, outside,
        history, Goto, Idle
<1>1. CASE ProcessStep
  <2>LogObservation. CASE LogObservation  BY <2>LogObservation DEF LogObservation
  <2>LogReceipt. CASE LogReceipt  BY <2>LogReceipt DEF LogReceipt, Save, ThenCheckWires
  <2>Escalate. CASE Escalate  BY <2>Escalate DEF Escalate
  <2>AttemptStopped. CASE AttemptStopped  BY <2>AttemptStopped DEF AttemptStopped
  <2>AttemptTripped. CASE AttemptTripped  BY <2>AttemptTripped DEF AttemptTripped
  <2>AttemptRefused. CASE AttemptRefused  BY <2>AttemptRefused DEF AttemptRefused
  <2>Attempt. CASE Attempt  BY <2>Attempt DEF Attempt
  <2>Spawn. CASE Spawn  BY <2>Spawn DEF Spawn, Capture
  <2>Launch. CASE Launch  BY <2>Launch DEF Launch, Capture, LaunchNonce
  <2>SaveAttempt. CASE SaveAttempt  BY <2>SaveAttempt DEF SaveAttempt
  <2>MarkReturned. CASE MarkReturned  BY <2>MarkReturned DEF MarkReturned
  <2>Halt. CASE Halt  BY <2>Halt DEF Halt
  <2>FailureTripped. CASE FailureTripped  BY <2>FailureTripped DEF FailureTripped
  <2>FailureRetried. CASE FailureRetried  BY <2>FailureRetried DEF FailureRetried
  <2>FailureFinal. CASE FailureFinal  BY <2>FailureFinal DEF FailureFinal
  <2>NextSensor. CASE NextSensor  BY <2>NextSensor DEF NextSensor
  <2>SaveSensor. CASE SaveSensor  BY <2>SaveSensor DEF SaveSensor
  <2>SensorsFailed. CASE SensorsFailed  BY <2>SensorsFailed DEF SensorsFailed
  <2>SaveCandidate. CASE SaveCandidate  BY <2>SaveCandidate DEF SaveCandidate
  <2>FinalCheck. CASE FinalCheck  BY <2>FinalCheck DEF FinalCheck
  <2>MarkCompleted. CASE MarkCompleted  BY <2>MarkCompleted DEF MarkCompleted
  <2>Exit. ASSUME NEW r \in Results, Exit(r) PROVE SettlesByWrite
    BY <2>Exit DEF Exit, Capture
  <2> QED BY ONLY <1>1, <2>LogObservation, <2>LogReceipt, <2>Escalate,
           <2>AttemptStopped, <2>AttemptTripped, <2>AttemptRefused,
           <2>Attempt, <2>Spawn, <2>Launch, <2>SaveAttempt, <2>MarkReturned,
           <2>Halt, <2>FailureTripped, <2>FailureRetried, <2>FailureFinal,
           <2>NextSensor, <2>SaveSensor, <2>SensorsFailed, <2>SaveCandidate,
           <2>FinalCheck, <2>MarkCompleted, <2>Exit DEF ProcessStep
<1>2. CASE Call
  <2>Observe. ASSUME NEW p \in Paths, Observe(p) PROVE SettlesByWrite
    BY <2>Observe DEF Observe
  <2>CheckpointNote. ASSUME NEW P \in SUBSET Paths, NEW d \in BOOLEAN, CheckpointNote(P, d)
                     PROVE SettlesByWrite
    BY <2>CheckpointNote DEF CheckpointNote, Save, ThenCheckWires
  <2>CheckpointNext. ASSUME NEW P \in SUBSET Paths, NEW d \in BOOLEAN, CheckpointNext(P, d)
                     PROVE SettlesByWrite
    BY <2>CheckpointNext DEF CheckpointNext, Save, ThenCheckWires
  <2>ClearNext. ASSUME NEW P \in SUBSET Paths, NEW d \in BOOLEAN, ClearNext(P, d)
                PROVE SettlesByWrite
    BY <2>ClearNext DEF ClearNext, Save, ThenCheckWires
  <2>ClearVerification. ASSUME NEW P \in SUBSET Paths, ClearVerification(P)
                        PROVE SettlesByWrite
    BY <2>ClearVerification
    DEF ClearVerification, Save, ThenCheckWires, PhaseFresh, Attach, Fresh,
        ObservedChangeIsWritten, IsMarker, Markers
  <2>ResolveExternalAction. ASSUME NEW P \in SUBSET Paths, ResolveExternalAction(P)
                            PROVE SettlesByWrite
    BY <2>ResolveExternalAction
    DEF ResolveExternalAction, Save, ThenCheckWires, PhaseFresh, Attach, Fresh,
        ObservedChangeIsWritten, IsMarker, Markers
  <2>CancelExternalAction. ASSUME NEW P \in SUBSET Paths, CancelExternalAction(P)
                           PROVE SettlesByWrite
    BY <2>CancelExternalAction DEF CancelExternalAction, Save, ThenCheckWires
  <2>Complete. ASSUME NEW P \in SUBSET Paths, Complete(P) PROVE SettlesByWrite
    BY <2>Complete DEF Complete
  <2>StageExternalAction. ASSUME NEW n \in Nonces, NEW c \in Commands,
                                 StageExternalAction(n, c)
                          PROVE SettlesByWrite
    BY <2>StageExternalAction DEF StageExternalAction
  <2>RunExternalAction. ASSUME NEW c \in Commands, NEW a \in {"none", "reviewed", "approved"},
                               RunExternalAction(c, a)
                        PROVE SettlesByWrite
    BY <2>RunExternalAction DEF RunExternalAction
  <2>RunCommand. ASSUME NEW c \in Commands, NEW a \in {"none", "reviewed", "approved"},
                      NEW r \in 0..MaxRetries, RunCommand(c, a, r) PROVE SettlesByWrite
    BY <2>RunCommand DEF RunCommand
  <2>RunEscalates. CASE RunEscalates  BY <2>RunEscalates DEF RunEscalates
  <2>StopTask. CASE StopTask  BY <2>StopTask DEF StopTask
  <2>Resume. ASSUME NEW clear \in BOOLEAN, NEW reactivate \in BOOLEAN,
                    Resume(clear, reactivate)
             PROVE SettlesByWrite
    BY <2>Resume DEF Resume
  <2> QED BY ONLY <1>2, <2>Observe, <2>CheckpointNote, <2>CheckpointNext,
           <2>ClearNext, <2>ClearVerification, <2>ResolveExternalAction,
           <2>CancelExternalAction, <2>Complete, <2>StageExternalAction,
           <2>RunExternalAction, <2>RunCommand, <2>RunEscalates, <2>StopTask,
           <2>Resume DEF Call
<1>3. CASE Environment
  <2>StopHarness. CASE StopHarness  BY <2>StopHarness DEF StopHarness
  <2>ClearStop. CASE ClearStop  BY <2>ClearStop DEF ClearStop
  <2>ChangePolicy. CASE ChangePolicy  BY <2>ChangePolicy DEF ChangePolicy
  <2>GrantExpires. CASE GrantExpires  BY <2>GrantExpires DEF GrantExpires
  <2>Crash. CASE Crash  BY <2>Crash DEF Crash
  <2>Write. ASSUME NEW p \in Paths, NEW c \in Contents \union {Absent}, Write(p, c)
            PROVE SettlesByWrite
    BY <2>Write DEF Write
  <2> QED BY ONLY <1>3, <2>StopHarness, <2>ClearStop, <2>ChangePolicy,
           <2>GrantExpires, <2>Crash, <2>Write DEF Environment
<1>4. CASE UNCHANGED vars  BY <1>4
<1> QED BY <1>1, <1>2, <1>3, <1>4 DEF Next
(* Evidence settles an action only by a file that changed in its phase. *)
THEOREM SettledByRealChange == Spec => SettledByChange
<1>1. TypeOK /\ ObservedChangeIsWritten /\ [Next]_vars => SettlesByWrite
  BY SettledStep
<1>2. TypeInv /\ WorkInv => TypeOK /\ ObservedChangeIsWritten  BY DEF TypeInv, WorkInv
<1> QED BY <1>1, <1>2, WorkInvariant, PTL DEF Spec, SettledByChange, SettlesByWrite
-----------------------------------------------------------------------------
(* The implementation of the protocol.                                     *)

(* The state the protocol phases are a function of. *)
actionState == <<step, bound, launched, settled>>

(* The abstract state. *)
phases == [n \in Nonces |-> ActionPhase(n)]

(* Steps that leave them alone are stutters. *)
LEMMA PhaseFrame ==
  ASSUME UNCHANGED actionState
  PROVE  UNCHANGED phases
BY DEF actionState, phases, ActionPhase, Protected

(* Only a nonce that is staged or named by the marker changes its phase. *)
LEMMA PhaseMoves ==
  ASSUME Shape, Shape', MarkerNamesOpenAction, MarkerNamesOpenAction',
         NEW n \in Nonces, IsMarker(step) => n = step.nonce, IsMarker(step') => n = step'.nonce,
         \A m \in Nonces \ {n} : bound'[m] = bound[m] /\ settled'[m] = settled[m]
  PROVE  phases' = [phases EXCEPT ![n] = ActionPhase(n)']
<1>1. ASSUME NEW m \in Nonces \ {n} PROVE ActionPhase(m)' = ActionPhase(m)
  <2>1. bound[m] = NoCommand \/ settled[m] # "open"
    BY DEF MarkerNamesOpenAction
  <2> QED BY <2>1 DEF ActionPhase, Protected
<1> QED BY <1>1 DEF phases

(* Every step is a step of the protocol or leaves its phases alone. *)
LEMMA ProtocolStep ==
  ASSUME ActionInv, ActionInv', ReleaseInv, [Next]_vars
  PROVE  [Protocol!Next]_phases
<1> USE DEF ActionInv, vars, checkpoint, evidence, process, outside, history, actionState
<1> DEFINE moved(n, from, to) == ActionPhase(n) = from /\ ActionPhase(n)' = to
<1>0. ASSUME NEW n \in Nonces, phases' = [phases EXCEPT ![n] = ActionPhase(n)'],
             NEW from, NEW to, ActionPhase(n) = from, ActionPhase(n)' = to
      PROVE Protocol!Move(n, from, to)
  BY <1>0 DEF Protocol!Move, phases
<1>1. CASE ProcessStep
  <2>LogObservation. CASE LogObservation
    BY <2>LogObservation, PhaseFrame DEF LogObservation
  <2>LogReceipt. CASE LogReceipt  BY <2>LogReceipt, PhaseFrame DEF LogReceipt
  <2>Escalate. CASE Escalate  BY <2>Escalate, PhaseFrame DEF Escalate
  <2>AttemptStopped. CASE AttemptStopped
    BY <2>AttemptStopped, PhaseFrame DEF AttemptStopped
  <2>AttemptTripped. CASE AttemptTripped
    BY <2>AttemptTripped, PhaseFrame DEF AttemptTripped
  <2>AttemptRefused. CASE AttemptRefused
    BY <2>AttemptRefused, PhaseFrame DEF AttemptRefused
  <2>Attempt. CASE Attempt  BY <2>Attempt, PhaseFrame DEF Attempt
  <2>Spawn. CASE Spawn  BY <2>Spawn, PhaseFrame DEF Spawn, Capture
  <2>Launch. CASE Launch
    <3>1. CASE Capture("failed") /\ UNCHANGED history
      BY <3>1, PhaseFrame DEF Capture
    <3>2. CASE LaunchNonce /\ UNCHANGED <<checkpoint, settled>> /\ ~job.gated /\ step.phase # "PENDING"
      BY <3>2, PhaseFrame DEF LaunchNonce
    <3>3. CASE LaunchNonce /\ UNCHANGED <<checkpoint, settled>>
               /\ (job.gated \/ step.phase = "PENDING")
      <4>1. PICK n \in Nonces : n = step.nonce /\ IsMarker(step)
        BY <3>3 DEF GatedRun, MarkerNamesOpenAction, IsMarker, Markers
      <4>2. phases' = [phases EXCEPT ![n] = ActionPhase(n)']
        BY <3>3, <4>1, PhaseMoves DEF checkpoint
      <4>3. CASE ~Protected(n)
        <5>1. ActionPhase(n)' = ActionPhase(n)
          BY <3>3, <4>1, <4>3 DEF ActionPhase, Protected
        <5> QED BY <4>1, <4>2, <5>1 DEF phases
      <4>4. CASE Protected(n)
        <5>1. job.gated /\ step.phase = "RECONCILE" /\ launched[n] = 0 /\ settled[n] = "open"
          BY <2>Launch, <3>3, <4>1, <4>4
          DEF Launch, GatedRun, PendingIsQuiet, RunnerPcs, BeforeLaunch,
              MarkerNamesOpenAction
        <5>2. launched'[n] = 1
          BY <3>3, <4>1, <5>1 DEF LaunchNonce, Shape
        <5>3. Protocol!Move(n, "started", "launched")
          <6>1. ActionPhase(n) = "started"  BY <4>1, <4>4, <5>1 DEF ActionPhase
          <6>2. ActionPhase(n)' = "launched"
            BY <3>3, <4>1, <4>4, <5>1, <5>2 DEF ActionPhase, Protected
          <6> QED BY <1>0, <4>1, <4>2, <6>1, <6>2
        <5> QED BY <4>1, <5>3 DEF Protocol!Next, Protocol!Launch
      <4> QED BY <4>3, <4>4
    <3> QED BY <2>Launch, <3>1, <3>2, <3>3 DEF Launch
  <2>SaveAttempt. CASE SaveAttempt  BY <2>SaveAttempt, PhaseFrame DEF SaveAttempt
  <2>MarkReturned. CASE MarkReturned
    <3>1. PICK n \in Nonces : n = step.nonce /\ IsMarker(step) /\ bound[n] # NoCommand
                             /\ settled[n] = "open"
      BY <2>MarkReturned DEF MarkReturned, MarkerNamesOpenAction, IsMarker, Markers
    <3>2. phases' = [phases EXCEPT ![n] = ActionPhase(n)']
      BY <2>MarkReturned, <3>1, PhaseMoves
      DEF MarkReturned, Shape, IsMarker, Markers, Marker, NoStep
    <3>3. CASE ~Protected(n)
      <4>1. ActionPhase(n)' = ActionPhase(n)
        BY <2>MarkReturned, <3>1, <3>3 DEF MarkReturned, ActionPhase, Protected
      <4> QED BY <3>1, <3>2, <4>1 DEF phases
    <3>4. CASE Protected(n)
      <4>1. ActionPhase(n) = "launched"
        BY <2>MarkReturned, <3>1, <3>4
        DEF MarkReturned, ReleaseInv, LaunchedAtMostOnce, Shape, ActionPhase
      <4>2. ActionPhase(n)' = "returned"
        BY <2>MarkReturned, <3>1, <3>4 DEF MarkReturned, Marker, ActionPhase, Protected
      <4> QED BY <1>0, <3>1, <3>2, <4>1, <4>2 DEF Protocol!Next, Protocol!Return
    <3> QED BY <3>3, <3>4
  <2>Halt. CASE Halt  BY <2>Halt, PhaseFrame DEF Halt
  <2>FailureTripped. CASE FailureTripped
    BY <2>FailureTripped, PhaseFrame DEF FailureTripped
  <2>FailureRetried. CASE FailureRetried
    BY <2>FailureRetried, PhaseFrame DEF FailureRetried
  <2>FailureFinal. CASE FailureFinal  BY <2>FailureFinal, PhaseFrame DEF FailureFinal
  <2>NextSensor. CASE NextSensor  BY <2>NextSensor, PhaseFrame DEF NextSensor
  <2>SaveSensor. CASE SaveSensor  BY <2>SaveSensor, PhaseFrame DEF SaveSensor
  <2>SensorsFailed. CASE SensorsFailed
    BY <2>SensorsFailed, PhaseFrame DEF SensorsFailed
  <2>SaveCandidate. CASE SaveCandidate
    BY <2>SaveCandidate, PhaseFrame DEF SaveCandidate
  <2>FinalCheck. CASE FinalCheck  BY <2>FinalCheck, PhaseFrame DEF FinalCheck
  <2>MarkCompleted. CASE MarkCompleted
    BY <2>MarkCompleted, PhaseFrame DEF MarkCompleted
  <2>Exit. ASSUME NEW r \in Results, Exit(r) PROVE [Protocol!Next]_phases
    BY <2>Exit, PhaseFrame DEF Exit, Capture
  <2> QED
    BY ONLY <1>1, <2>LogObservation, <2>LogReceipt, <2>Escalate, <2>AttemptStopped,
       <2>AttemptTripped, <2>AttemptRefused, <2>Attempt, <2>Spawn, <2>Launch,
       <2>SaveAttempt, <2>MarkReturned, <2>Halt, <2>FailureTripped, <2>FailureRetried,
       <2>FailureFinal, <2>NextSensor, <2>SaveSensor, <2>SensorsFailed, <2>SaveCandidate,
       <2>FinalCheck, <2>MarkCompleted, <2>Exit
    DEF ProcessStep
<1>2. CASE Call
  <2>Observe. ASSUME NEW p \in Paths, Observe(p) PROVE [Protocol!Next]_phases
    BY <2>Observe, PhaseFrame DEF Observe
  <2>CheckpointNote. ASSUME NEW P \in SUBSET Paths, NEW d \in BOOLEAN, CheckpointNote(P, d)
                     PROVE [Protocol!Next]_phases
    BY <2>CheckpointNote, PhaseFrame DEF CheckpointNote, Save
  <2>CheckpointNext. ASSUME NEW P \in SUBSET Paths, NEW d \in BOOLEAN, CheckpointNext(P, d)
                     PROVE [Protocol!Next]_phases
    <3>1. ASSUME NEW m \in Nonces PROVE ActionPhase(m)' = ActionPhase(m)
      <4>1. bound[m] = NoCommand \/ settled[m] # "open"
        BY <2>CheckpointNext DEF CheckpointNext, MarkerNamesOpenAction
      <4> QED BY <2>CheckpointNext, <4>1 DEF CheckpointNext, Save, ActionPhase, Protected
    <3> QED BY <3>1 DEF phases
  <2>ClearNext. ASSUME NEW P \in SUBSET Paths, NEW d \in BOOLEAN, ClearNext(P, d)
                PROVE [Protocol!Next]_phases
    <3>1. ASSUME NEW m \in Nonces PROVE ActionPhase(m)' = ActionPhase(m)
      <4>1. bound[m] = NoCommand \/ settled[m] # "open"
        BY <2>ClearNext DEF ClearNext, MarkerNamesOpenAction
      <4> QED BY <2>ClearNext, <4>1 DEF ClearNext, Save, ActionPhase, Protected
    <3> QED BY <3>1 DEF phases
  <2>ClearVerification. ASSUME NEW P \in SUBSET Paths, ClearVerification(P)
                        PROVE [Protocol!Next]_phases
    <3>1. PICK n \in Nonces : n = step.nonce /\ IsMarker(step) /\ bound[n] # NoCommand
                             /\ settled[n] = "open"
      BY <2>ClearVerification
      DEF ClearVerification, Save, MarkerNamesOpenAction, IsMarker, Markers
    <3>2. phases' = [phases EXCEPT ![n] = ActionPhase(n)']
      BY <2>ClearVerification, <3>1, PhaseMoves
      DEF ClearVerification, Save, Shape, IsMarker, Markers, Marker, NoStep
    <3>3. CASE ~Protected(n)
      <4>1. ActionPhase(n)' = ActionPhase(n)
        BY <2>ClearVerification, <3>1, <3>3
        DEF ClearVerification, Save, ActionPhase, Protected
      <4> QED BY <3>1, <3>2, <4>1 DEF phases
    <3>4. CASE Protected(n)
      <4>1. ActionPhase(n) = "returned"
        BY <2>ClearVerification, <3>1, <3>4 DEF ClearVerification, ActionPhase
      <4>2. ActionPhase(n)' = "verified"
        BY <2>ClearVerification, <3>1, <3>4
        DEF ClearVerification, Save, Shape, ActionPhase, Protected
      <4> QED BY <1>0, <3>1, <3>2, <4>1, <4>2 DEF Protocol!Next, Protocol!Verify
    <3> QED BY <3>3, <3>4
  <2>ResolveExternalAction. ASSUME NEW P \in SUBSET Paths, ResolveExternalAction(P)
                            PROVE [Protocol!Next]_phases
    <3>1. PICK n \in Nonces : n = step.nonce /\ IsMarker(step) /\ bound[n] # NoCommand
                             /\ settled[n] = "open"
      BY <2>ResolveExternalAction
      DEF ResolveExternalAction, Save, MarkerNamesOpenAction, IsMarker, Markers
    <3>2. phases' = [phases EXCEPT ![n] = ActionPhase(n)']
      BY <2>ResolveExternalAction, <3>1, PhaseMoves
      DEF ResolveExternalAction, Save, Shape, IsMarker, Markers, Marker, NoStep
    <3>3. CASE ~Protected(n)
      <4>1. ActionPhase(n)' = ActionPhase(n)
        BY <2>ResolveExternalAction, <3>1, <3>3
        DEF ResolveExternalAction, Save, ActionPhase, Protected
      <4> QED BY <3>1, <3>2, <4>1 DEF phases
    <3>4. CASE Protected(n)
      <4>1. ActionPhase(n) \in {"started", "launched"}
        BY <2>ResolveExternalAction, <3>1, <3>4
        DEF ResolveExternalAction, LaunchedAtMostOnce, Shape, ActionPhase
      <4>2. ActionPhase(n)' = "reconciled"
        BY <2>ResolveExternalAction, <3>1, <3>4
        DEF ResolveExternalAction, Save, Shape, ActionPhase, Protected
      <4> QED BY <1>0, <3>1, <3>2, <4>1, <4>2 DEF Protocol!Next, Protocol!Reconcile
    <3> QED BY <3>3, <3>4
  <2>CancelExternalAction. ASSUME NEW P \in SUBSET Paths, CancelExternalAction(P)
                           PROVE [Protocol!Next]_phases
    <3>1. PICK n \in Nonces : n = step.nonce /\ IsMarker(step) /\ bound[n] # NoCommand
                             /\ settled[n] = "open"
      BY <2>CancelExternalAction
      DEF CancelExternalAction, Save, MarkerNamesOpenAction, IsMarker, Markers
    <3>2. phases' = [phases EXCEPT ![n] = ActionPhase(n)']
      BY <2>CancelExternalAction, <3>1, PhaseMoves
      DEF CancelExternalAction, Save, Shape, IsMarker, Markers, Marker, NoStep
    <3>3. CASE ~Protected(n)
      <4>1. ActionPhase(n)' = ActionPhase(n)
        BY <2>CancelExternalAction, <3>1, <3>3
        DEF CancelExternalAction, Save, ActionPhase, Protected
      <4> QED BY <3>1, <3>2, <4>1 DEF phases
    <3>4. CASE Protected(n)
      <4>1. ActionPhase(n) = "pending"
        BY <2>CancelExternalAction, <3>1, <3>4 DEF CancelExternalAction, ActionPhase
      <4>2. ActionPhase(n)' = "cancelled"
        BY <2>CancelExternalAction, <3>1, <3>4
        DEF CancelExternalAction, Save, Shape, ActionPhase, Protected
      <4> QED BY <1>0, <3>1, <3>2, <4>1, <4>2 DEF Protocol!Next, Protocol!Cancel
    <3> QED BY <3>3, <3>4
  <2>Complete. ASSUME NEW P \in SUBSET Paths, Complete(P)
               PROVE [Protocol!Next]_phases
    BY <2>Complete, PhaseFrame DEF Complete
  <2>StageExternalAction. ASSUME NEW n \in Nonces, NEW c \in Commands, StageExternalAction(n, c)
                          PROVE [Protocol!Next]_phases
    <3>1. bound[n] = NoCommand /\ launched[n] = 0 /\ settled[n] = "open" /\ ~IsMarker(step)
      BY <2>StageExternalAction
      DEF StageExternalAction, Unused, MarkerNamesOpenAction, IsMarker, Markers,
          NoStep
    <3>2. phases' = [phases EXCEPT ![n] = ActionPhase(n)']
      BY <2>StageExternalAction, <3>1, PhaseMoves DEF StageExternalAction, Shape, Marker
    <3>3. ActionPhase(n) = "unused"  BY <3>1 DEF ActionPhase, Protected
    <3>4. ASSUME NEW m \in Nonces PROVE phases[m] \notin Protocol!Open
      BY <3>1
      DEF phases, ActionPhase, Protected, MarkerNamesOpenAction, Shape, Protocol!Open
    <3>5. CASE ~Protected(n)'
      <4>1. ActionPhase(n)' = "unused"  BY <3>5 DEF ActionPhase
      <4> QED BY <3>2, <3>3, <4>1 DEF phases
    <3>6. CASE Protected(n)'
      <4>1. ActionPhase(n)' = "pending"
        BY <2>StageExternalAction, <3>1, <3>6 DEF StageExternalAction, ActionPhase, Marker
      <4>2. Protocol!Move(n, "unused", "pending")  BY <1>0, <3>2, <3>3, <4>1
      <4> QED BY <3>4, <4>2 DEF Protocol!Next, Protocol!Stage, phases
    <3> QED BY <3>5, <3>6
  <2>RunExternalAction. ASSUME NEW c \in Commands, NEW a \in {"none", "reviewed", "approved"},
                               RunExternalAction(c, a)
                        PROVE [Protocol!Next]_phases
    <3>1. PICK n \in Nonces : n = step.nonce /\ IsMarker(step) /\ bound[n] # NoCommand
                             /\ settled[n] = "open"
      BY <2>RunExternalAction
      DEF RunExternalAction, MarkerNamesOpenAction, IsMarker, Markers
    <3>2. phases' = [phases EXCEPT ![n] = ActionPhase(n)']
      BY <2>RunExternalAction, <3>1, PhaseMoves
      DEF RunExternalAction, Shape, IsMarker, Markers, Marker, NoStep
    <3>3. CASE ~Protected(n)
      <4>1. ActionPhase(n)' = ActionPhase(n)
        BY <2>RunExternalAction, <3>1, <3>3 DEF RunExternalAction, ActionPhase, Protected
      <4> QED BY <3>1, <3>2, <4>1 DEF phases
    <3>4. CASE Protected(n)
      <4>1. ActionPhase(n) = "pending"
        BY <2>RunExternalAction, <3>1, <3>4 DEF RunExternalAction, ActionPhase
      <4>2. ActionPhase(n)' = "started"
        BY <2>RunExternalAction, <3>1, <3>4
        DEF RunExternalAction, PendingIsQuiet, Marker, ActionPhase, Protected
      <4> QED BY <1>0, <3>1, <3>2, <4>1, <4>2 DEF Protocol!Next, Protocol!Start
    <3> QED BY <3>3, <3>4
  <2>RunCommand. ASSUME NEW c \in Commands, NEW a \in {"none", "reviewed", "approved"},
                      NEW r \in 0..MaxRetries, RunCommand(c, a, r) PROVE [Protocol!Next]_phases
    BY <2>RunCommand, PhaseFrame DEF RunCommand
  <2>RunEscalates. CASE RunEscalates  BY <2>RunEscalates, PhaseFrame DEF RunEscalates
  <2>StopTask. CASE StopTask  BY <2>StopTask, PhaseFrame DEF StopTask
  <2>Resume. ASSUME NEW clear \in BOOLEAN, NEW reactivate \in BOOLEAN,
                    Resume(clear, reactivate)
             PROVE [Protocol!Next]_phases
    BY <2>Resume, PhaseFrame DEF Resume
  <2> QED
    BY ONLY <1>2, <2>Observe, <2>CheckpointNote, <2>CheckpointNext, <2>ClearNext,
       <2>ClearVerification, <2>ResolveExternalAction, <2>CancelExternalAction,
       <2>Complete, <2>StageExternalAction, <2>RunExternalAction, <2>RunCommand,
       <2>RunEscalates, <2>StopTask, <2>Resume
    DEF Call
<1>3. CASE Environment
  <2>StopHarness. CASE StopHarness  BY <2>StopHarness, PhaseFrame DEF StopHarness
  <2>ClearStop. CASE ClearStop  BY <2>ClearStop, PhaseFrame DEF ClearStop
  <2>ChangePolicy. CASE ChangePolicy  BY <2>ChangePolicy, PhaseFrame DEF ChangePolicy
  <2>GrantExpires. CASE GrantExpires  BY <2>GrantExpires, PhaseFrame DEF GrantExpires
  <2>Crash. CASE Crash  BY <2>Crash, PhaseFrame DEF Crash
  <2>Write. ASSUME NEW p \in Paths, NEW c \in Contents \union {Absent}, Write(p, c)
            PROVE [Protocol!Next]_phases
    BY <2>Write, PhaseFrame DEF Write
  <2> QED
    BY ONLY <1>3, <2>StopHarness, <2>ClearStop, <2>ChangePolicy, <2>GrantExpires, <2>Crash,
            <2>Write
    DEF Environment
<1>4. CASE UNCHANGED vars  BY <1>4, PhaseFrame
<1> QED BY ONLY [Next]_vars, <1>1, <1>2, <1>3, <1>4 DEF Next

(* The protocol starts with unused nonces. *)
LEMMA ProtocolInit == Init => Protocol!Init
BY DEF Init, Protocol!Init, ActionPhase, Protected

(* What the checkpoint store and the runner do to a nonce, with crashes    *)
(* between all of their steps, is the abstract protocol: staged alone,     *)
(* started, launched once, returned, and settled.                          *)
THEOREM HarnessImplementsProtocol == Spec => ImplementsProtocol
<1>1. TypeInv /\ ActionInv /\ ActionInv' /\ WorkInv /\ [Next]_vars => [Protocol!Next]_phases
  BY ProtocolStep DEF WorkInv
<1> QED
  BY <1>1, ProtocolInit, WorkInvariant, PTL
  DEF Spec, ImplementsProtocol, Protocol!Spec, phases
=============================================================================

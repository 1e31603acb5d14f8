---------------------------- MODULE TaskHarness ----------------------------
(***************************************************************************)
(* One task's durable checkpoint and the operations on it: checkpointing,  *)
(* write observation, staging an external action, the command runner, the  *)
(* completion workflow, stop and resume.                                   *)
(*                                                                         *)
(* Every operation holds the task's lock from its first read to its last   *)
(* write, so at most one is under way: pc says where it is, and the others *)
(* need pc = "idle".  A step of an operation is one durable write or one   *)
(* look at something another process changes without the lock (the stop    *)
(* file, project files, a grant's expiry), so those may happen between any *)
(* two steps, and so may a crash of the process, which frees the lock and  *)
(* leaves the checkpoint as last saved.                                    *)
(***************************************************************************)
EXTENDS Naturals, FiniteSets, TaskStatus

CONSTANTS
    Commands,    \* the argument vectors that are run
    NoCommand,
    Access,      \* the kind of access grant each command is run with
    Policies,    \* the policies a configuration update may install
    Nonces,      \* the one-time nonces of staged actions
    NoNonce,
    Paths,       \* the project files used as artifacts
    Contents,    \* what a project file may hold (its digest)
    Absent,      \* the state of a file that does not exist
    Kinds,       \* the task kinds explored
    Sensors,     \* how many computational sensors completion runs
    MaxCalls,    \* max_tool_calls
    MaxRetries,  \* max_retries_per_step
    MaxLost      \* bound: crashes that lose an unsaved tool call

Decisions == {"allow", "review", "human", "deny"}

ASSUME ConstantsAssumption ==
    /\ NoCommand \notin Commands /\ NoNonce \notin Nonces /\ Absent \notin Contents
    /\ Access \in [Commands -> {"none", "readonly", "writes"}]
    /\ Policies \subseteq [Commands -> Decisions] /\ Policies # {}
    /\ Kinds \subseteq {"change", "review", "release"} /\ Kinds # {}
    /\ Sensors \in Nat /\ MaxCalls \in Nat /\ MaxRetries \in Nat /\ MaxLost \in Nat

VARIABLES
    (* the checkpoint file *)
    kind, status, step, done, calls, bound, obs, evid,
    (* the event log, as far as a later decision reads it *)
    receipts,
    (* the process that holds the task lock *)
    pc, job, candidate,
    (* project files, stop file, configured policy, grant validity *)
    files, stop, policy, grantLive,
    (* history, read by properties only *)
    launched, settled, written, launches, lost, sinceStop

checkpoint == <<status, step, done, calls, bound>>
evidence   == <<obs, evid, receipts>>
process    == <<pc, job, candidate>>
outside    == <<files, stop, policy, grantLive>>
history    == <<launched, settled, written, launches, lost, sinceStop>>
vars       == <<kind, checkpoint, evidence, process, outside, history>>
-----------------------------------------------------------------------------
(* The values of the state. *)

Markers == {"PENDING", "RECONCILE", "VERIFY"}

Steps == [phase : Markers \union {"none", "plain"}, nonce : Nonces \union {NoNonce}]

NoStep == [phase |-> "none", nonce |-> NoNonce]

PlainStep == [phase |-> "plain", nonce |-> NoNonce]

Marker(m, n) == [phase |-> m, nonce |-> n]

(* Mutants: the verification or the reconciliation marker passes for an    *)
(* ordinary step.                                                          *)
IsMarkerButVerify(s) == s.phase \in Markers \ {"VERIFY"}
IsMarkerButReconcile(s) == s.phase \in Markers \ {"RECONCILE"}

(* is_external_action_marker. *)
IsMarker(s) == s.phase \in Markers

(* The latest write observation of a path: the file before the write,      *)
(* whether it was recorded since the current external phase began, and     *)
(* whether the event that pairs with it reached the log.                   *)
Observations == [before : Contents \union {Absent}, inPhase : BOOLEAN, logged : BOOLEAN]

NoObservation == [before |-> Absent, inPhase |-> FALSE, logged |-> FALSE]

(* Evidence for an artifact: its digest, the observation it cites, and     *)
(* whether the file is untouched (same size, times and digest) since.      *)
EvidenceItems ==
    [sha : Contents \union {Absent}, before : Contents \union {Absent},
     logged : BOOLEAN, intact : BOOLEAN]

NoEvidence == [sha |-> Absent, before |-> Absent, logged |-> FALSE, intact |-> FALSE]

NoCandidate == [p \in Paths |-> NoEvidence]

Results == {"ok", "failed", "timeout", "stopped"}

Jobs == [cmd : Commands \union {NoCommand}, gated : BOOLEAN, asked : 0..MaxRetries,
         left : Nat, result : Results, paths : SUBSET Paths]

NoJob == [cmd |-> NoCommand, gated |-> FALSE, asked |-> 0, left |-> 0,
          result |-> "ok", paths |-> {}]

RunnerPcs == {"attempt", "spawn", "popen", "running", "captured", "returned", "halting", "failed"}

CompletionPcs == {"sensing", "sensed", "commit", "marking"}

Pcs == RunnerPcs \union CompletionPcs \union {"idle", "observed", "receipt", "escalating"}

TypeOK ==
    /\ kind \in Kinds /\ status \in Statuses /\ step \in Steps
    /\ done \in BOOLEAN /\ calls \in Nat
    /\ bound \in [Nonces -> Commands \union {NoCommand}]
    /\ obs \in [Paths -> Observations] /\ evid \in [Paths -> EvidenceItems]
    /\ receipts \subseteq Paths \X Contents
    /\ pc \in Pcs /\ job \in Jobs /\ candidate \in [Paths -> EvidenceItems]
    /\ files \in [Paths -> Contents \union {Absent}]
    /\ stop \in BOOLEAN /\ policy \in Policies /\ grantLive \in BOOLEAN
    /\ launched \in [Nonces -> 0..2]
    /\ settled \in [Nonces -> {"open", "verified", "reconciled", "cancelled"}]
    /\ written \subseteq Paths
    /\ launches \in Nat /\ lost \in Nat /\ sinceStop \in Nat

(* A new change, review or release task in a project where some artifact   *)
(* files already exist.                                                    *)
Init ==
    /\ kind \in Kinds /\ status = "active" /\ step = NoStep /\ done = FALSE /\ calls = 0
    /\ bound = [n \in Nonces |-> NoCommand]
    /\ obs = [p \in Paths |-> NoObservation] /\ evid = [p \in Paths |-> NoEvidence]
    /\ receipts = {}
    /\ pc = "idle" /\ job = NoJob /\ candidate = NoCandidate
    /\ files \in [Paths -> Contents \union {Absent}]
    /\ stop = FALSE /\ policy \in Policies /\ grantLive = TRUE
    /\ launched = [n \in Nonces |-> 0] /\ settled = [n \in Nonces |-> "open"]
    /\ written = {} /\ launches = 0 /\ lost = 0 /\ sinceStop = 0
-----------------------------------------------------------------------------
(* Helpers of the checkpoint store. *)

Idle == pc = "idle"

Mutable == status \notin Terminal

(* The operation moves on to l; one that ends drops what it had in memory, *)
(* one that escalates needs none of it.                                    *)
Goto(l) ==
    /\ pc' = l
    /\ IF l \in {"idle", "escalating"}
       THEN job' = NoJob /\ candidate' = NoCandidate
       ELSE UNCHANGED <<job, candidate>>

(* Mutant: the wrong file is looked at. *)
StopActiveNever == FALSE

(* The stop file exists, as the runner, the sensors and execute_capture ask. *)
StopActive == stop

(* The paths validate_artifacts accepts. *)
Existing == {p \in Paths : files[p] # Absent}

(* attach_artifact_evidence: each path's evidence cites its latest write   *)
(* observation.                                                            *)
Attach(P) ==
    [p \in Paths |->
        IF p \in P
        THEN [sha |-> files[p], before |-> obs[p].before, logged |-> obs[p].logged, intact |-> TRUE]
        ELSE evid[p]]

(* artifact_evidence_is_current with require_fresh: a logged observation,  *)
(* a difference from what it saw, and an untouched file.                   *)
Fresh(e) == e.logged /\ e.intact /\ e.sha # e.before

(* Mutant: an observation made before the phase began counts. *)
PhaseFreshAnyTime(P) == \E p \in P : Fresh(Attach(P)[p])

(* _has_phase_fresh_artifact_evidence, over the evidence just attached. *)
PhaseFresh(P) ==
    \E p \in P : obs[p].inPhase /\ Fresh(Attach(P)[p])

(* Mutant: a release needs no receipt. *)
QualifyingWithoutReceipt(E) == {p \in Paths : Fresh(E[p]) /\ (kind # "change" => done)}

(* qualifying_task_outputs for the evidence E. *)
Qualifying(E) ==
    {p \in Paths :
        /\ Fresh(E[p])
        /\ kind # "change" => done
        /\ kind = "release" => <<p, E[p].sha>> \in receipts}

(* An external phase starts or ends: observations made so far do not count *)
(* for the next one.                                                       *)
ChangePhase ==
    /\ obs' = [p \in Paths |-> [obs[p] EXCEPT !.inPhase = FALSE]]
    /\ written' = {}

Transition(to) == MayBecome(status, to) /\ status' = to

(* active_trip_wires: the tool-call budget always fires at its limit; the  *)
(* wall-time, token, cost and deadline wires may fire at any check.  The   *)
(* mutant fires one call late.                                             *)
MustTripLate == calls > MaxCalls

MustTrip == calls >= MaxCalls
-----------------------------------------------------------------------------
(* Checkpoint operations. *)

(* record_write_observation saves the pre-write digest, then logs it. *)
Observe(p) ==
    /\ Idle
    /\ status = "active" \/ (status \in {"paused", "escalated"} /\ step.phase = "RECONCILE")
    /\ obs' = [obs EXCEPT ![p] = [before |-> files[p], inPhase |-> IsMarker(step), logged |-> FALSE]]
    /\ pc' = "observed" /\ job' = [NoJob EXCEPT !.paths = {p}]
    /\ UNCHANGED <<kind, checkpoint, evid, receipts, candidate, outside, history>>

LogObservation ==
    /\ pc = "observed"
    /\ obs' = [p \in Paths |-> IF p \in job.paths THEN [obs[p] EXCEPT !.logged = TRUE] ELSE obs[p]]
    /\ Goto("idle")
    /\ UNCHANGED <<kind, checkpoint, evid, receipts, outside, history>>

(* The part every checkpoint call shares: the artifacts exist, their       *)
(* evidence is refreshed, a completed step is recorded.  Afterwards the    *)
(* command may find a trip wire fired and escalate.                        *)
Save(P, d) ==
    /\ Idle /\ Mutable /\ P \subseteq Existing
    /\ evid' = Attach(P)
    /\ done' = (done \/ d)
    /\ UNCHANGED <<kind, calls, bound, receipts, outside>>

(* The trip-wire check that follows a checkpoint. *)
ThenCheckWires ==
    \/ Goto("escalating")
    \/ ~MustTrip /\ Goto("idle")

(* checkpoint with neither --next nor an external-action operation. *)
CheckpointNote(P, d) ==
    /\ Save(P, d) /\ ThenCheckWires
    /\ UNCHANGED <<status, step, obs, history>>

(* checkpoint --next: never names a marker and never replaces one. *)
CheckpointNext(P, d) ==
    /\ Save(P, d) /\ ThenCheckWires
    /\ ~IsMarker(step)
    /\ step' = PlainStep
    /\ UNCHANGED <<status, obs, history>>

(* checkpoint --clear-next on an ordinary step. *)
ClearNext(P, d) ==
    /\ Save(P, d) /\ ThenCheckWires
    /\ ~IsMarker(step) /\ (step # NoStep => d)
    /\ step' = NoStep
    /\ UNCHANGED <<status, obs, history>>

(* checkpoint --clear-next after the action returned; the receipt is       *)
(* logged by a later step.                                                 *)
ClearVerification(P) ==
    /\ Save(P, TRUE)
    /\ step.phase = "VERIFY" /\ PhaseFresh(P)
    /\ step' = NoStep
    /\ ChangePhase
    /\ settled' = [settled EXCEPT ![step.nonce] = "verified"]
    /\ pc' = "receipt" /\ job' = [NoJob EXCEPT !.paths = P]
    /\ UNCHANGED <<status, candidate, launched, launches, lost, sinceStop>>

(* The external-action.verified event digests the files anew. *)
LogReceipt ==
    /\ pc = "receipt"
    /\ receipts' = receipts \union {<<p, files[p]>> : p \in job.paths \intersect Existing}
    /\ ThenCheckWires
    /\ UNCHANGED <<kind, checkpoint, obs, evid, outside, history>>

ResolveExternalAction(P) ==
    /\ Save(P, TRUE) /\ ThenCheckWires
    /\ step.phase = "RECONCILE" /\ PhaseFresh(P)
    /\ Transition("active")
    /\ step' = NoStep
    /\ ChangePhase
    /\ settled' = [settled EXCEPT ![step.nonce] = "reconciled"]
    /\ UNCHANGED <<launched, launches, lost, sinceStop>>

CancelExternalAction(P) ==
    /\ Save(P, TRUE) /\ ThenCheckWires
    /\ step.phase = "PENDING"
    /\ Transition("active")
    /\ step' = NoStep
    /\ ChangePhase
    /\ settled' = [settled EXCEPT ![step.nonce] = "cancelled"]
    /\ UNCHANGED <<launched, launches, lost, sinceStop>>
-----------------------------------------------------------------------------
(* The policy boundary of the runner. *)

Outcome(c) ==
    IF Access[c] = "none" THEN policy[c]
    ELSE IF ~grantLive \/ policy[c] = "deny" THEN "deny" ELSE "human"

NeedsExternalCheckpoint(c) == Access[c] # "readonly" \/ policy[c] = "human"

(* Mutant: nonces are not remembered. *)
UnusedAlways(n) == TRUE

Unused(n) == bound[n] = NoCommand

(* prepare-external: stage exactly this command under an unused nonce. *)
StageExternalAction(n, c) ==
    /\ Idle /\ status = "active" /\ step = NoStep /\ Unused(n)
    /\ Outcome(c) = "human" /\ NeedsExternalCheckpoint(c)
    /\ Access[c] # "none" => ~StopActive
    /\ step' = Marker("PENDING", n)
    /\ bound' = [bound EXCEPT ![n] = c]
    /\ ChangePhase
    /\ UNCHANGED <<kind, status, done, calls, evid, receipts, process, outside,
                   launched, settled, launches, lost, sinceStop>>

(* What the runner demands of a command before its budgets are looked at:  *)
(* not denied, exactly the staged one while one is staged and still at a   *)
(* human boundary, and with the caller's assertion the boundary asks for.  *)
Admitted(c, asserted) ==
    /\ Idle /\ ~StopActive /\ status = "active"
    /\ Outcome(c) # "deny"
    /\ step.phase = "PENDING" => bound[step.nonce] = c /\ Outcome(c) = "human"
    /\ Outcome(c) = "human" => asserted = "approved"
    /\ Outcome(c) = "review" => asserted \in {"approved", "reviewed"}

HumanGated(c) == Outcome(c) = "human" /\ NeedsExternalCheckpoint(c)

(* More retries than the step budget allows, or a budget wire fired before *)
(* the first attempt: nothing runs and the task escalates.                 *)
RunEscalates ==
    /\ Idle /\ ~StopActive /\ status = "active"
    /\ Goto("escalating")
    /\ UNCHANGED <<kind, checkpoint, evidence, outside, history>>

(* An ordinary command starts its first attempt. *)
RunCommand(c, asserted, retries) ==
    /\ Admitted(c, asserted) /\ ~HumanGated(c) /\ ~MustTrip
    /\ pc' = "attempt"
    /\ job' = [NoJob EXCEPT !.cmd = c, !.asked = retries, !.left = retries]
    /\ UNCHANGED <<kind, checkpoint, evidence, candidate, outside, history>>

(* prepare_external_action: the pending marker becomes a reconciliation    *)
(* marker and the task pauses before the command can start.                *)
RunExternalAction(c, asserted) ==
    /\ Admitted(c, asserted) /\ HumanGated(c) /\ ~MustTrip
    /\ step.phase = "PENDING"
    /\ Transition("paused")
    /\ step' = Marker("RECONCILE", step.nonce)
    /\ ChangePhase
    /\ pc' = "attempt" /\ job' = [NoJob EXCEPT !.cmd = c, !.gated = TRUE]
    /\ UNCHANGED <<kind, done, calls, bound, evid, receipts, candidate, outside,
                   launched, settled, launches, lost, sinceStop>>
-----------------------------------------------------------------------------
(* The attempts of a command. *)

AttemptStopped ==
    /\ pc = "attempt" /\ StopActive
    /\ Transition("paused")
    /\ Goto("idle")
    /\ UNCHANGED <<kind, step, done, calls, bound, evidence, outside, history>>

AttemptTripped ==
    /\ pc = "attempt"
    /\ Goto("escalating")
    /\ UNCHANGED <<kind, checkpoint, evidence, outside, history>>

(* The grant is loaded again before each attempt; an expired one, or the   *)
(* stop file, ends the run with the checkpoint as it is.                   *)
AttemptRefused ==
    /\ pc = "attempt" /\ ~MustTrip
    /\ Access[job.cmd] # "none" /\ (~grantLive \/ StopActive)
    /\ Goto("idle")
    /\ UNCHANGED <<kind, checkpoint, evidence, outside, history>>

Attempt ==
    /\ pc = "attempt" /\ ~StopActive /\ ~MustTrip
    /\ Access[job.cmd] = "none" \/ grantLive
    /\ Goto("spawn")
    /\ UNCHANGED <<kind, checkpoint, evidence, outside, history>>

(* execute_capture, for commands and sensors alike, ends with a result; a  *)
(* suite keeps the worst result of its sensors.                            *)
RunsSensors == job.cmd = NoCommand

Capture(result) ==
    /\ pc' = "captured"
    /\ job' = [job EXCEPT !.result = IF RunsSensors /\ result = "ok" THEN @ ELSE result]
    /\ UNCHANGED <<kind, checkpoint, evidence, candidate, outside>>

(* The stop file is looked at once more before the launch. *)
Spawn ==
    /\ pc = "spawn"
    /\ IF StopActive THEN Capture("stopped")
       ELSE Goto("popen") /\ UNCHANGED <<kind, checkpoint, evidence, outside>>
    /\ UNCHANGED history

(* A launch of the staged action counts for its nonce, whether the runner  *)
(* moved it to reconciliation first or runs it from the pending marker.    *)
LaunchNonce ==
    launched' =
        IF job.gated \/ step.phase = "PENDING"
        THEN [launched EXCEPT ![step.nonce] = IF @ < 2 THEN @ + 1 ELSE 2]
        ELSE launched

(* Popen launches the command, or the executable is missing (exit 127). *)
Launch ==
    /\ pc = "popen"
    /\ \/ /\ Goto("running") /\ LaunchNonce
          /\ launches' = launches + 1
          /\ sinceStop' = IF stop THEN sinceStop + 1 ELSE sinceStop
          /\ UNCHANGED <<kind, checkpoint, evidence, outside, settled, written, lost>>
       \/ Capture("failed") /\ UNCHANGED history

(* The command exits or times out, or the polling loop sees the stop file. *)
Exit(result) ==
    /\ pc = "running" /\ (result = "stopped" => StopActive)
    /\ Capture(result)
    /\ UNCHANGED history

(* save_task charges the attempt whatever its result. *)
SaveAttempt ==
    /\ pc = "captured" /\ ~RunsSensors
    /\ calls' = calls + 1
    /\ Goto(CASE job.result = "ok"      -> IF job.gated THEN "returned" ELSE "idle"
              [] job.result = "stopped" -> "halting"
              [] OTHER                  -> "failed")
    /\ UNCHANGED <<kind, status, step, done, bound, evidence, outside, history>>

(* Mutant: the task is expected to have stayed active. *)
MarkReturnedWhileActive ==
    /\ pc = "returned" /\ status = "active" /\ step.phase = "RECONCILE"
    /\ Transition("active")
    /\ step' = Marker("VERIFY", step.nonce)
    /\ ChangePhase
    /\ Goto("idle")
    /\ UNCHANGED <<kind, done, calls, bound, evid, receipts, outside,
                   launched, settled, launches, lost, sinceStop>>

(* mark_external_action_returned. *)
MarkReturned ==
    /\ pc = "returned" /\ status = "paused" /\ step.phase = "RECONCILE"
    /\ Transition("active")
    /\ step' = Marker("VERIFY", step.nonce)
    /\ ChangePhase
    /\ Goto("idle")
    /\ UNCHANGED <<kind, done, calls, bound, evid, receipts, outside,
                   launched, settled, launches, lost, sinceStop>>

(* An interrupted command pauses the task. *)
Halt ==
    /\ pc = "halting"
    /\ Transition("paused")
    /\ Goto("idle")
    /\ UNCHANGED <<kind, step, done, calls, bound, evidence, outside, history>>

(* A failed attempt after which a wire fires pauses, then escalates. *)
FailureTripped ==
    /\ pc = "failed"
    /\ Transition("paused")
    /\ Goto("escalating")
    /\ UNCHANGED <<kind, step, done, calls, bound, evidence, outside, history>>

(* Mutant: the attempts are not counted. *)
FailureRetriedAlways ==
    /\ pc = "failed" /\ ~MustTrip
    /\ pc' = "attempt" /\ UNCHANGED job
    /\ UNCHANGED <<kind, checkpoint, evidence, candidate, outside, history>>

FailureRetried ==
    /\ pc = "failed" /\ ~MustTrip /\ job.left > 0
    /\ pc' = "attempt" /\ job' = [job EXCEPT !.left = @ - 1]
    /\ UNCHANGED <<kind, checkpoint, evidence, candidate, outside, history>>

(* A single failed local command is feedback and leaves the task active;   *)
(* an exhausted, timed-out or external one escalates.                      *)
FailureFinal ==
    /\ pc = "failed" /\ ~MustTrip /\ job.left = 0
    /\ Goto(IF job.gated \/ job.asked > 0 \/ job.result = "timeout" THEN "escalating" ELSE "idle")
    /\ UNCHANGED <<kind, checkpoint, evidence, outside, history>>

(* escalate_task: the packet, then the status. *)
Escalate ==
    /\ pc = "escalating"
    /\ Transition("escalated")
    /\ Goto("idle")
    /\ UNCHANGED <<kind, step, done, calls, bound, evidence, outside, history>>
-----------------------------------------------------------------------------
(* The completion workflow. *)

(* The artifacts recorded so far must still exist; the new evidence stays  *)
(* in memory until the sensors have passed.                                *)
Complete(P) ==
    /\ Idle /\ status = "active" /\ ~StopActive /\ step = NoStep
    /\ P \subseteq Existing /\ {p \in Paths : evid[p] # NoEvidence} \subseteq Existing
    /\ Qualifying(Attach(P)) # {}
    /\ pc' = "sensing" /\ job' = [NoJob EXCEPT !.left = Sensors]
    /\ candidate' = Attach(P)
    /\ UNCHANGED <<kind, checkpoint, evidence, outside, history>>

(* The loop over the sensors: the stop file, the status and the budgets    *)
(* come before each; after the last the suite is judged.                   *)
NextSensor ==
    /\ pc = "sensing"
    /\ UNCHANGED <<kind, checkpoint, evidence, outside, history>>
    /\ \/ StopActive /\ Goto("idle")
       \/ ~StopActive /\ job.left = 0 /\ Goto("sensed")
       \/ ~StopActive /\ job.left > 0 /\ Goto("escalating")
       \/ /\ ~StopActive /\ job.left > 0 /\ ~MustTrip /\ status = "active" /\ ~IsMarker(step)
          /\ Goto("spawn")

(* A failed sensor does not end the suite, an interrupted one does. *)
SaveSensor ==
    /\ pc = "captured" /\ RunsSensors
    /\ calls' = calls + 1
    /\ pc' = IF job.result = "stopped" THEN "sensed" ELSE "sensing"
    /\ job' = [job EXCEPT !.left = @ - 1]
    /\ UNCHANGED <<kind, status, step, done, bound, evidence, candidate, outside, history>>

(* Without a full set of passing results the task pauses. *)
SensorsFailed ==
    /\ pc = "sensed" /\ job.result # "ok"
    /\ Transition("paused")
    /\ Goto("idle")
    /\ UNCHANGED <<kind, step, done, calls, bound, evidence, outside, history>>

(* The artifacts are validated again and saved with their evidence. *)
SaveCandidate ==
    /\ pc = "sensed" /\ job.result = "ok"
    /\ \/ /\ {p \in Paths : candidate[p] # NoEvidence} \subseteq Existing
          /\ evid' = candidate /\ Goto("commit")
       \/ /\ ~({p \in Paths : candidate[p] # NoEvidence} \subseteq Existing)
          /\ UNCHANGED evid /\ Goto("idle")
    /\ UNCHANGED <<kind, checkpoint, obs, receipts, outside, history>>

(* The final checks run under the harness lock, which the stop file's      *)
(* writer needs too; the lock is held while pc = "marking".                *)
FinalCheck ==
    /\ pc = "commit"
    /\ Goto(IF ~StopActive /\ Qualifying(evid) # {} THEN "marking" ELSE "idle")
    /\ UNCHANGED <<kind, checkpoint, evidence, outside, history>>

MarkCompleted ==
    /\ pc = "marking"
    /\ Transition("completed")
    /\ Goto("idle")
    /\ UNCHANGED <<kind, step, done, calls, bound, evidence, outside, history>>
-----------------------------------------------------------------------------
(* Stop, resume, and what changes without the task lock. *)

StopTask ==
    /\ Idle /\ Mutable
    /\ Transition("stopped")
    /\ UNCHANGED <<kind, step, done, calls, bound, evidence, process, outside, history>>

(* Mutant: the stop file is written without the harness lock. *)
HarnessLockFreeAlways == TRUE

HarnessLockFree == pc # "marking"

StopHarness ==
    /\ HarnessLockFree /\ ~stop
    /\ stop' = TRUE
    /\ UNCHANGED <<kind, checkpoint, evidence, process, files, policy, grantLive, history>>

(* hexa resume with --clear-stop, --reactivate or both.                    *)
Resume(clear, reactivate) ==
    /\ Idle
    /\ stop' = (stop /\ ~clear)
    /\ sinceStop' = IF clear THEN 0 ELSE sinceStop
    /\ status' = IF reactivate /\ status \in {"paused", "escalated"} THEN "active" ELSE status
    /\ UNCHANGED <<kind, step, done, calls, bound, evidence, process, files, policy, grantLive,
                   launched, settled, written, launches, lost>>

(* So may a resume of another task, which has that task's lock, at any     *)
(* time.                                                                   *)
ClearStop ==
    /\ HarnessLockFree /\ stop
    /\ stop' = FALSE /\ sinceStop' = 0
    /\ UNCHANGED <<kind, checkpoint, evidence, process, files, policy, grantLive,
                   launched, settled, written, launches, lost>>

(* A host tool or the user changes a file; evidence about it is no longer  *)
(* current.                                                                *)
Write(p, c) ==
    /\ c # files[p]
    /\ files' = [files EXCEPT ![p] = c]
    /\ evid' = [evid EXCEPT ![p].intact = FALSE]
    /\ candidate' = [candidate EXCEPT ![p].intact = FALSE]
    /\ written' = IF IsMarker(step) THEN written \union {p} ELSE {}
    /\ UNCHANGED <<kind, checkpoint, obs, receipts, pc, job, stop, policy, grantLive,
                   launched, settled, launches, lost, sinceStop>>

(* A configuration update needs the configuration lock, which the runner   *)
(* and the sensor suite hold throughout.                                   *)
ChangePolicy ==
    /\ Idle
    /\ policy' \in Policies \ {policy}
    /\ UNCHANGED <<kind, checkpoint, evidence, process, files, stop, grantLive, history>>

GrantExpires ==
    /\ grantLive /\ \E c \in Commands : Access[c] # "none"
    /\ grantLive' = FALSE
    /\ UNCHANGED <<kind, checkpoint, evidence, process, files, stop, policy, history>>

(* The process dies: the lock is freed and what it had not saved is gone. *)
Crash ==
    /\ ~Idle
    /\ LET uncharged == pc \in {"running", "captured"}
       IN  /\ uncharged => lost < MaxLost
           /\ lost' = IF uncharged THEN lost + 1 ELSE lost
    /\ Goto("idle")
    /\ UNCHANGED <<kind, checkpoint, evidence, outside,
                   launched, settled, written, launches, sinceStop>>
-----------------------------------------------------------------------------
(* The steps of the process that holds the lock; a scheduler that runs     *)
(* processes and timeouts that end commands make them happen.              *)
ProcessStep ==
    \/ LogObservation \/ LogReceipt \/ Escalate
    \/ AttemptStopped \/ AttemptTripped \/ AttemptRefused \/ Attempt
    \/ Spawn \/ Launch \/ SaveAttempt \/ MarkReturned \/ Halt
    \/ FailureTripped \/ FailureRetried \/ FailureFinal
    \/ NextSensor \/ SaveSensor \/ SensorsFailed
    \/ SaveCandidate \/ FinalCheck \/ MarkCompleted
    \/ \E r \in Results : Exit(r)

(* Operations a caller may invoke when the lock is free. *)
Call ==
    \/ \E p \in Paths : Observe(p)
    \/ \E P \in SUBSET Paths :
        \/ \E d \in BOOLEAN : CheckpointNote(P, d) \/ CheckpointNext(P, d) \/ ClearNext(P, d)
        \/ ClearVerification(P) \/ ResolveExternalAction(P) \/ CancelExternalAction(P)
        \/ Complete(P)
    \/ \E c \in Commands :
        \/ \E n \in Nonces : StageExternalAction(n, c)
        \/ \E a \in {"none", "reviewed", "approved"} :
            \/ RunExternalAction(c, a)
            \/ \E r \in 0..MaxRetries : RunCommand(c, a, r)
    \/ RunEscalates \/ StopTask
    \/ \E clear, reactivate \in BOOLEAN : Resume(clear, reactivate)

Environment ==
    \/ StopHarness \/ ClearStop \/ ChangePolicy \/ GrantExpires \/ Crash
    \/ \E p \in Paths, c \in Contents \union {Absent} : Write(p, c)

Next == ProcessStep \/ Call \/ Environment

Spec == Init /\ [][Next]_vars

FairSpec == Spec /\ WF_vars(ProcessStep)
-----------------------------------------------------------------------------
(* Properties. *)

(* Actions under the whole protocol: those staged without a grant or with  *)
(* one that permits writes.                                                *)
Protected(n) == bound[n] # NoCommand /\ Access[bound[n]] # "readonly"

(* A staged action is launched at most once, whatever crashes, retries,    *)
(* reactivations and policy updates happen between staging and settling.   *)
LaunchedAtMostOnce == \A n \in Nonces : Protected(n) => launched[n] <= 1

(* An action that may have had its effect is never forgotten: from the     *)
(* launch until evidence settles it, the checkpoint on disk carries its    *)
(* reconciliation or verification marker, so a crash finds it there.       *)
LaunchIsOnRecord ==
    \A n \in Nonces :
        Protected(n) /\ launched[n] > 0 /\ settled[n] = "open"
            => step \in {Marker("RECONCILE", n), Marker("VERIFY", n)}

(* The wait for approval is not charged to wall time, so nothing may be    *)
(* running during it.                                                      *)
NothingRunsWhilePending ==
    pc = "running" /\ step.phase = "PENDING" => ~Protected(step.nonce)

(* A completed task has settled every action it ever staged. *)
CompletedIsSettled ==
    status = "completed" =>
        step = NoStep /\ \A n \in Nonces : bound[n] # NoCommand => settled[n] # "open"

(* A release completes only after an action was launched, returned         *)
(* successfully and was verified; cancelled and reconciled ones and notes  *)
(* do not stand in for it.  What it claims has the content that such an    *)
(* action was receipted for, and was observed with the event on record: a  *)
(* crash between an observation and its event leaves nothing to claim.     *)
ReleaseNeedsVerifiedAction ==
    status = "completed" /\ kind = "release" =>
        /\ \E n \in Nonces : settled[n] = "verified" /\ launched[n] > 0
        /\ \E p \in Paths : evid[p].logged /\ <<p, evid[p].sha>> \in receipts

(* Evidence that settles an action shows a project file that really        *)
(* changed after the phase being settled began.                            *)
SettledByChange ==
    [][\A n \in Nonces :
          settled[n] = "open" /\ settled'[n] \in {"verified", "reconciled"} => written # {}]_vars

(* What the checkpoint's evidence claims, whether or not it is current. *)
Claims == [p \in Paths |-> [evid[p] EXCEPT !.intact = FALSE]]

(* A terminal checkpoint never changes again, also not by an operation     *)
(* that was under way when the task ended.                                 *)
TerminalIsFrozen ==
    [][(status \in Terminal) =>
          UNCHANGED <<status, step, done, calls, bound, obs, receipts, Claims>>]_vars

(* Tool calls never exceed their limit, and every command or sensor that   *)
(* was launched is charged, is still being captured, or was lost with the  *)
(* process that ran it.                                                    *)
LaunchesAreCharged ==
    /\ calls <= MaxCalls
    /\ launches <= calls + lost
         + (IF pc \in {"running", "captured"} THEN 1 ELSE 0)

(* The emergency stop lets at most the one launch through that had passed  *)
(* its last check when the stop file appeared.                             *)
OneLaunchPerStop == sinceStop <= 1

(* No task becomes completed while the emergency stop is active. *)
NoCompletionUnderStop == [][status # "completed" /\ status' = "completed" => ~stop]_vars

(* Every operation ends and frees the task lock. *)
OperationsEnd == pc # "idle" ~> pc = "idle"

(* The protocol phase of a nonce, for the abstract specification.  Actions *)
(* outside the protocol stay unused there.                                 *)
ActionPhase(n) ==
    IF ~Protected(n) THEN "unused"
    ELSE IF settled[n] # "open" THEN settled[n]
    ELSE CASE step.phase = "PENDING" -> "pending"
           [] step.phase = "VERIFY"  -> "returned"
           [] OTHER -> CASE launched[n] = 0 -> "started"
                         [] launched[n] = 1 -> "launched"
                         [] OTHER           -> "launched twice"

Protocol == INSTANCE ExternalAction WITH phase <- [n \in Nonces |-> ActionPhase(n)]

(* The checkpoint, the runner and every crash between their steps          *)
(* implement the external-action protocol.                                 *)
ImplementsProtocol == Protocol!Spec
=============================================================================

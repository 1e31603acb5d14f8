# Verification of hexaharness in TLA+

hexaharness is a file-based harness around a coding agent: durable task
checkpoints, a guarded command runner, an approval protocol for external
actions, grants for directories outside the project, completion gated on sensors
and evidence, bounded improvement experiments, guide rules learned from observed
failures, and a launcher that installs a private runtime on first use. There
is no server. Every operation is a short-lived `hexa` process that takes file
locks, loads a checkpoint, changes it and saves it; between two saves anything
may happen: other processes, the user's editor, a stop file, the host that
answers late, or the death of the process itself. That is what the models here
are about.

Python sources named below without a directory are in
`src/src/hexaharness/`; the launcher is
`src/src/skills/hexaharness/scripts/hexa.py`.

## 1. The system

### Components, their state and their operations

| Component | State | Operations that change it |
|---|---|---|
| checkpoint store (`state.py`, `models.py`) | one JSON checkpoint per task: status, next step, completed steps, counters, used nonces, write observations, artifact evidence, sensor evidence | start, checkpoint (note, next, clear-next, resolve, cancel), observe a write, set status |
| locks (`state.py`) | advisory file locks: per task, one for the configuration, one for the harness | taken and released by every operation; freed by the operating system when a process dies |
| command runner (`runner.py`, `execution.py`) | nothing of its own; charges the checkpoint | prepare-external, run with retries, escalate |
| external action protocol (`runner.py`, `state.py`) | the marker in the next step (PENDING, RECONCILE, VERIFY) and its one-time nonce | stage, start, return, verify, reconcile, cancel |
| sensors (`sensors.py`) | results in the checkpoint | run a suite under the configuration lock |
| completion (`workflow.py`, `state.py`) | `completed` status | attach evidence, run sensors, final check under all locks, mark |
| stop and resume (`workflow.py`) | the stop file | stop one task or the harness, clear, reactivate |
| budgets (`tripwires.py`, `task_budget.py`) | counters and limits in the checkpoint | check wires, continue finished tasks under a new budget |
| retention (`retention.py`) | none | plan and delete old checkpoints, without a lock |
| improvement (`improvement.py`) | experiment record in the checkpoint, the target file, a cancel file | begin, evaluate, promote, roll back, resume, abandon, cancel (no lock) |
| host adapter (`host_adapter.py`) | generation requests, the bound host call, the retained receipt, the charged usage | prepare, receive, cancel |
| launcher (`hexa.py`) | an `O_EXCL` lock file, the runtime directory | look, lock, recover a stale lock, install, replace, run |
| external access grants (`external_access.py`) | the grants: task, command, roots, operations, expiry, revocation | grant, check (no lock), validate at every attempt, revoke |
| external transactions (`external_transactions.py`) | none of its own: the common lock, the scratch directory and the pair of names outside the project, as reviewed executors leave them | bind and validate a declared topology; the executor's contract |
| learning (`learning.py`) | guide rules, their rendering, the decision log, proposals | derive provenance, learn, audit |
| scaffold (`scaffold.py`), configuration (`config.py`) | the configuration and the files learning writes | initialize, update |
| event log (`state.py`) | one file of events per day | append, read, prune |
| policy, audit, paths, redaction, capabilities, command line, process supervisor | see section 7 | |

### How they interact

* All durable task state is in the checkpoint; an operation holds the task's
  lock from its first read to its last save. Runner, sensor suite and completion
  nest configuration lock inside task lock, and the final decision of a
  completion and the writer of the stop file also take the harness lock.
* Not under the task lock: project files, the stop file, the cancel file, the
  expiry of grants, the host's answers, directories outside the project, policy
  queries, and `prune`. These are read at certain points and may change right
  afterwards.
* Learning takes the harness lock for everything it writes; `initialize` rewrites
  the same files without it, and reads what it renders before it saves the
  configuration.
* A command under a grant is started by the runner, and works outside the project
  under a lock the harness never takes. It outlives a runner that is killed.
* Tasks meet in four places: the configuration, the stop file, the project files
  whose changes they claim as output, and the ancestry of continued tasks.
* The event log is appended after the save it belongs to, so the two may be
  separated by a crash.

### What is hard, and what makes each part correct

* *Crashes between two durable steps.* An external command may have run although
  nothing says it returned; a trial candidate may be in the target file; a call
  may be reserved and not bound. Correct: whatever may have happened is on record
  before it can happen, and is never repeated or forgotten.
* *Unlocked readers and writers.* Stop during completion, an edit between look
  and overwrite, cancellation during promotion, retention during continuation,
  `initialize` during learning, two `stat`s of names that are being linked.
* *Permission that lapses.* A grant expires or is revoked between its check, the
  start of its command and the end of it.
* *What was true once.* A rule rests on failures whose outputs change, change
  back, and whose events are pruned.
* *Late, duplicated or partial answers* of the host, also after the task ended:
  every call is charged exactly once and granted at most once.
* *Limits.* Tool calls in the middle of retries, reservations at the end of a
  budget, continuations with inherited usage.
* *Several tasks at once.* One project write must not complete two tasks; one
  source must not feed two successors; lock order must not deadlock.
* *Termination.* Operations end and free their locks; an abandoned installation
  lock does not block later launches for ever.

`PROJECT.json` lists each hazard at its line with the properties that would
catch it.

## 2. The modules

| Module | What it is | Extends / instantiates |
|---|---|---|
| `TaskStatus` | statuses and allowed transitions | |
| `ExternalAction` | abstract protocol of an external action | |
| `TaskHarness` | one task: store, runner, protocol, sensors, completion, stop | `TaskStatus`; refines `ExternalAction` |
| `Completion` | several tasks complete on shared files and configuration | |
| `Improvement` | one experiment: evaluation, promotion, rollback, cancellation | |
| `Generation` | the host's calls of one experiment and their ledger | |
| `Continuation` | task trees, budgets, concurrent continuation, retention | `TaskStatus` |
| `Learning` | learners, initializations and retention on the rules, the guides, the decision log and the proposals | |
| `ExternalAccess` | grants, the commands that run under them, and the directory those work in | |
| `Bootstrap` | launchers that share an installation lock | |
| `MC*` | small instances | the module of that name |
| `TaskHarness_proofs`, `Completion_proofs`, `Improvement_proofs`, `Generation_proofs`, `Continuation_proofs`, `Learning_proofs`, `ExternalAccess_proofs`, `Bootstrap_proofs` | theorems | the module, `TLAPS` |

## 3. How the models correspond to the code

`PROJECT.json` maps every definition to its lines. In outline:

### TaskHarness

One task. `pc` names where the process that holds the task lock is; every
operation starts only at `pc = "idle"`, which is what the lock means. A step is
one durable write, or one look at something that changes without the lock. Short
operations (checkpoint, cancel, resolve, stage) are single actions including the
evidence they attach; the runner (`RunCommand`, `RunExternalAction`, `Attempt`,
`Spawn`, `Launch`, `Exit`, `SaveAttempt`, `MarkReturned`, ...), the completion
(`Complete`, `NextSensor`, `SaveSensor`, `SaveCandidate`, `FinalCheck`,
`MarkCompleted`) and escalation are split at their saves, so a `Crash` or a
`StopHarness` can fall between any two; so can `ClearStop`, the resumption of
another task with `--clear-stop`, which holds that task's lock only. `kind`, `status`, `step`, `done`,
`calls`, `bound`, `obs`, `evid`, `receipts` are the checkpoint and log; `files`,
`stop`, `policy`, `grantLive` the outside world; `launched`, `settled`,
`written`, `launches`, `lost`, `sinceStop` are history variables no action reads.

Abstractions: the policy is a function from commands to its outcome, which a
configuration update replaces; the grant a command is run with is a constant
kind per command and may lapse at any time; evidence is a digest, the digest
before it, and whether the file was touched since. A wire other than the
tool-call budget (time, tokens, cost, deadline, custom) may fire at any check:
the disjunct that escalates is always enabled there, while the one that goes on
needs the tool-call budget not to be exhausted.

### Completion

Several change tasks, each at its own `pc` and under its own lock. It has what
`TaskHarness` cannot say: the configuration under which sensors passed
(`sensed`), the two shared locks, and the comparison of a task's claims with
those of completed tasks (`Check`, `CheckOthers`: the code reads its own
evidence first and the others' afterwards). `written` and `credit` record which
change of content each file stamp dates from and which changes each completion
was credited with. Everything about commands and external actions is left to
`TaskHarness`.

### Improvement

The experiment after its candidates were submitted. Evaluation saves the
attempt as running first; promotion looks at the target, saves `promoting`,
writes the trial (or fails to), runs sensors, judges, and adopts or undoes; undo looks,
restores, saves. Cancellation holds no lock and is two actions, its read of the
record (`CancelImprovement`) and its signal (`Signal`). The target file may be
edited or deleted at any time (`UserEdits`), guidance may change and change
back, comparisons may be spoiled, stops may come and go.

### Generation

Requests for candidates by key. `RequestCandidate` is the manual path,
`PrepareHostRequest`/`BindHostCall` the adapter's two saves, `Reply` the answer
that lets the host dispatch. `SubmitCandidate` and `ReceiveHostResult` accept
receipts at any time, with unknown figures, over the allowance, again. The digest
of the retained receipt is modelled by the receipt itself (`HostEvidence`
compares it with the one rebuilt from the record).

### Continuation

Checkpoints of several tasks with their ancestry. An ordinary operation is one
action that needs its task's lock free. `continue_task` takes its sources' locks
one by one in the order of their ids, then the configuration lock with its
checks, then saves. `prune` is a process of its own without locks, and any number
of them overlap: `BeginPrune` reads the clock and lists the checkpoints, `ReadTask`
reads one, `PlanPrune` reads the last one and plans, `ApplyPrune` deletes one file;
`LeavePrune` is the dry run, a failure, or the end of the process. `own` records
what was charged to a task itself, `uses` how often it was continued, `saved` when
completed tasks were saved last, `renewed` those saved after a prune read them.

### Learning

`Derive` to `Return` are one `record_learning`, split at its writes: rules, guides,
decision log, proposal; a learner may end (`EndLearner`) between any two. What it
has in memory (`claim`, `rule`, `next`) is in its state. `BeginSetup` to
`SetUpDecisions` are `initialize`, which takes no lock on what learning writes.
`RecordEvent` binds the content of an output at that moment; `PruneEvents` and
`PruneTask` are retention. `Evidenced` is the audit's judgement of a rule, written
from `learning_provenance_is_current`, while `Derivable` and `SourceKinds` are
written from the derivation. `learned`, `raced`, `overtaken` and `pruned` are
history. Abstractions: a digest is the content it stands for, a rule's id is the
time in it, and path rules, signatures and severities are left out.

### ExternalAccess

One directory outside the project with its common lock, one scratch directory and
one pair of names. A grant looks at the scratch directory by its name up to four
times, without a lock: whether it exists (`BeginGrant`), whether it has the
identity of a creation receipt (`Compare`), which identity to bind (`Bind`), and
whether it is that one (`Validate`). `Validate` / `BeginCheck` / `BeginRun` also
stat the first name, `StatDestination` the second; `RecordGrant`, `Attempt`,
`Launch`, `Returned`, `Failed` are what follows. `Attempt` loads the
grant again and limits the command to what is left of it; time is counted down
(`left`) so that only differences matter. At its timeout a watched command is
sent a SIGTERM, which it may ignore for `Grace` ticks, then a SIGKILL. The
executor's steps (`MakeScratch` to `Withdraw`) are the anchored contract of the
documented executors: what one creates it records (`Record`) before it goes on, and
it removes only what it finds in a receipt, whatever its grant binds; `OtherDirectory`
and `OtherFile` are other programs that obey the common lock. `EndClient` leaves
the executor running, unattended and without deadline. Roots, argument templates
and operation lists are reduced to four kinds of grant (create and publish,
recover the scratch directory, delete either name of the pair, inspect); the
markers a command goes through are `TaskHarness`'s.

### Bootstrap

Any number of launchers around one lock file. The lock has an identity (inode
and times), an owner and an age; creating it, writing the owner, reading,
comparing and unlinking are separate steps, and the removal of the old runtime
directory is visible half way. A launcher killed without its `finally` blocks
leaves its lock (`Crash`).

## 4. The runs

Every run explores its instance exhaustively.

| Run | Instance | Question |
|---|---|---|
| `action` | release task; one push under a writing grant; policies human / allow / deny; two sensors, three calls, one lost call | Does the task harness implement the external-action protocol through crashes, stops and policy updates, and does a release rest on a verified action? |
| `ends` | change task; policies human / allow; one retry, one sensor, two calls; fair holder | Are all actions settled at completion, does a stop let only one launch through, does every operation end? |
| `promote` | two candidates (one better, one failing a required check), three attempts, edits | Is a trial always on record, compared, adopted as tried, and is foreign text left alone? |
| `ledger` | two keys, two measures, two allowances, six usage reports | Is every call charged once, is at most one at risk, and does the evidence check accept what was recorded? |
| `race` | three tasks, two processes, one call each, limit 2; fair locks | Is each source consumed once, are inherited calls counted once, within authority, and does each continuation end? |
| `prune` | two tasks, two continuing processes, two prunes, a clock, receipts with overrun | Are continued sources frozen, are inherited tokens and starts counted once, and does no completed task go before one saved earlier, however prunes overlap? |
| `install` | two launchers, one crash, fair | One installer, no command on a directory that is cleared, no forgotten lock, launches end, a runtime arrives. |
| `credit` | two tasks, two files, two texts, two configurations | Does no write complete two tasks, is none refused that nobody else was credited with, and does each complete under the configuration of its sensors? |
| `learn` | one task, one output, two contents, two learners, one initialization, three stamps | Is what was learned in force, on record and shown; does no record precede what it records; do derivation and audit agree? |
| `access` | two processes, two grants, one foreign step, three inodes | Was a topology that is accepted really there; is a watched command covered by its grant and does it end with it, up to the start delay and the kill grace; are foreign files left alone, whatever a grant came to bind? |
| `latecancel`, `orphan` | small | Each finds one disagreement between code and documentation (section 6). |

### Bounds, and why they suffice

* `action`: with one nonce, an action that is restaged, run twice or settled
  twice is already visible, and the proofs (section 5) hold for any number. Two
  sensors make a suite that fails, stops or exhausts the budget between its
  parts; three calls allow an action and both sensors, and the limit in the
  middle of the suite. One lost call (`MaxLost`) is one crash between launch and
  charge; all other crashes are unlimited.
* `ends` has what `action` leaves out: retries, timeouts, failures of ordinary
  commands, plain runs of a command that once was staged. It has fewer calls
  because liveness is checked on it.
* `promote`: three attempts are the baseline, a candidate, and a second attempt
  that supersedes a result. Operations, edits, crashes and toggles are not
  bounded.
* `ledger`: two keys are the least that compete for one budget; usages are below,
  at and above the allowance and unknown in either or both measures.
  `MaxReported = 1` bounds the usage checkpoints report besides.
* `race`: three ids are two sources and a successor, or a chain of three; both
  processes may ask for the same or overlapping sources. Every task may run one
  command, so a successor inherits the call of its source, its own command brings it to the
  limit of 2, and two sources with a call each are refused. Two tasks are started
  afresh (`MaxFresh`). Pruning is off (`StateDays = 9` exceeds the clock): with
  it, `ConsumedOnce` fails (section 6).
* `prune`: two ids are a source and its successor, or two completed tasks of which
  one is kept (`Keep = 1`); at each of the two ticks (`MaxNow`) everything saved
  before expires (`StateDays = 0`), and a successor inherits a start before now
  and, by the call allowance and an overrun of 1, tokens. Usage per task is bounded
  by `MaxOwn`, tasks started afresh by `MaxFresh`, sources of a continuation by
  `MaxSources`, and the continuations and prunes that run at the same time by
  `MaxBusy = 2`: two prunes, or one against a continuation. A pending step
  (`Steps`) is left out of both runs; the proofs cover it.
* `install`: three numbers for lock files, so that there is a fresh one for every
  launcher while another is remembered. One crash is enough for a stale lock;
  `OneInstaller` and `RunsFromReady` are stated until the first one. `MayStall =
  FALSE` says that no launcher sleeps ten minutes between creating the lock file
  and writing its number into it.
* `credit`: two writes (`MaxStamp = 2`) on two files give each task a write of its
  own, a shared one, and a rewrite. `Touching = FALSE` says that a file a
  completed task still claims is not touched or rewritten with the same content:
  section 6 says what happens otherwise. `Quiet = TRUE` says that files are left
  alone during the two reads of the final decision (section 6).
* `learn`: with one output, a claim's types and its contents can already disagree:
  two failures see two contents, the output returns to the first. Three stamps
  (`MaxStamp`) are two events and a rule, an event after a rule, or two rules. Two
  learners are a learner and one that reads before or after it, one with a rule
  and one with a proposal. Initializations, edits, retention and ends of processes
  are not bounded. The proofs cover any number of each.
* `access`: two grants (`MaxGrants`) are a creation and a recovery or an
  inspection; three identities (`MaxIds`) a directory, a stage and one of another
  program, whose steps are bounded by `MaxForeign = 1`; a grant lives one tick
  (`MaxLife`), a command at most two (`MaxTimeout`), and may start one tick after
  the check of its grant (`Delay`) and ignore a SIGTERM for one (`Grace`), so that
  one that ignored its grant would be seen to run past it. Nothing else is bounded.

Symmetry is used in the runs of safety properties only.

Deadlock is checked where an operation can always be called (`TaskHarness`,
`Improvement`, `Bootstrap`, `Completion`) and off in `Generation`,
`Continuation`, `Learning` and `ExternalAccess`, whose bounds on usage, ids, stamps
and the clock let the system stop.

### Fairness, and what in the code justifies it

* `TaskHarness!FairSpec`: weak fairness of `ProcessStep`, the steps of the
  process that holds the lock. The operating system runs the process, a command
  ends or is killed at its timeout. No fairness for callers, for the user or
  against crashes.
* `Continuation!LiveSpec`: strong fairness for taking a lock (`LockSource`,
  `Decide`): `flock` queues its waiters, so a lock that becomes free again and
  again is eventually granted. Weak fairness for `SaveSuccessor` (or giving up
  once the ids of the instance are used up): a process that waits for nothing goes
  on.
* `Bootstrap!LaunchFairness`: weak fairness for a started launcher's steps and
  strong fairness for `GiveUp`, the loop's deadline. `UseFairness`, for
  `RuntimeArrives` only: the user tries again, time passes (`Age`), installations
  do not fail for ever, and the number of a dead process is not reused for ever.

## 5. What is proved

The theorems hold for every value of the constants that satisfies the modules'
named assumptions (types of the constants, distinctness of the special values,
finitely many keys and task ids, and, for Bootstrap, what is said below): any
number of nonces, tasks, processes, keys or launchers, any budgets and policies.
Every invariant and every action property that a passing run checks is a theorem
here. `NoWriteCreditedTwice`, `SourcesAreConsumedOnce`, `InstallersSerialized` and
`RuntimeStays` have a hypothesis, which is the one their run makes too.

**TaskHarness.** `TypeInv` (with `SensorsLeft`, which bounds the sensors a suite
has still to run) types every variable. `ActionInv` carries the protocol:

* `Shape`: the types of what the rest speaks of;
* `MarkerNamesOpenAction`: a marker names a bound, unsettled nonce, and it is the
  only such nonce;
* `PendingIsQuiet`: a protected action at PENDING was never launched, and no runner
  or completion is under way;
* `GatedRun`: a human-gated run works on the RECONCILE marker of a paused task, has
  no retries, and before its launch the action was never launched;
* `CompletionRun`, `CompletedHasNoStep`: a completion under way and a completed
  task have no next step.

`LaunchedAtMostOnce` alone is not inductive: nothing in it says that a second run
finds the marker the first one left. `WorkInv` adds `ChargeInv` (the launch being
captured is the only uncharged one that was not lost), `StopInv` (a launch after
the stop needs a process already past its check, and there is one process),
`ReleaseInv` (a receipt exists only after a verified launch, and a release that is being
completed claims a receipted content),
`ObservedChangeIsWritten` (a file that differs from its observation of this phase
was written in this phase) and `TerminalIsIdle` (an operation that ends a task
ends with it). `HarnessImplementsProtocol` proves
`Spec => ImplementsProtocol`: each step is a step of `ExternalAction` for one nonce
or changes no `ActionPhase`.

**Improvement.** `HolderInv` says what status, selection and job are at each
point of promotion and rollback; `LookInv` what the target was at the last look,
up to `edited`; `TrialInv` strengthens `NoTrialLeftBehind` by the moment between
restore and save; `EvidenceInv` ties results to attempts (a result in the record
belongs to the latest attempt, an unfinished text has none).

**Generation.** `Sound` says of one record what its status, figures, call and
receipt have to do with each other, and `HolderInv` what the lock holder has done
so far. `RequestEffect` describes every step by what it does to the records (a new
request of a ready experiment, a binding, a report, or nothing), so that each
property is proved once per kind of effect and not once per action. A new request
finds every other settled, which is `OneCallAtRisk`. `LedgerInv` adds that a
request that was never made costs nothing: then a step changes one summand, and
the ledger by the same amount, so `LedgerIsExact` is preserved. It needs finitely
many keys, since every request uses up a tool call of a finite budget.

**Continuation.** `Settled`: what is in a lineage and retained can be continued,
hence no operation changes it but late receipts, which change only the save
time. `Checked`: between its check and its save a continuation holds the
configuration lock, so no other one saves, and what it found about the lineages
of others still holds. These make `LineagesAreNested` inductive, with retention
deleting checkpoints at any moment. Three more invariants stand on it:

* `Accounts`: the counters of a checkpoint, and those of a successor that is about
  to be saved, are sums over everything it answers for, and stay within the limit.
  Work charges a task and its checkpoint alike (`Billed`) and nothing that is in a
  lineage (`Settled`). The check makes it true of a successor: the families of its
  sources are apart, so a sum of sums is one sum (`SumOfSums`). `UsageCountedOnce`
  and `CallsWithinAuthority` follow, with retention at any moment.
* `Fresh`: no retained lineage holds what a process has checked, until it saves.
  `OneSuccessorAtATime` follows without any hypothesis: a task is continued only
  when no retained checkpoint succeeds it. That it is continued *once*
  (`ConsumedOnce`) needs `NothingPruned`, and section 6 says what happens without.
* `Kept`: about `LatestKept` alone a deletion says nothing, since it follows a plan
  that is older than it. `Remembers` says that a save never lies before what a
  prune has read of it, `KnowLatest` that whoever was saved last of all is
  read, unread or was saved again (`KnowsLatest`), and that what a prune is about to
  delete has `Keep` others saved no earlier, whatever other prunes have deleted by
  then: it counts saves, not checkpoints, and `SavesStay` says that they only grow.

**Sums.** The models add up with `MapThenSumSet`, a recursive function whose
recursion takes any element of the set. That it has a solution, does not depend on
the order, and adds over sets that are apart is proved in `Continuation_proofs`
(and, as far as the ledger needs it, in `Generation_proofs`) without an induction
rule: among the subsets where a fact fails there is a least one, because strict
inclusion of finite sets is well-founded, and one element can be taken from it.

**Bootstrap.** `LocksAreHeld` and the types need no hypothesis: they hold under
stalls and crashes. `InstallersSerialized` and `RuntimeStays` assume
`MayStall = FALSE` and speak of behaviours until the first launcher is killed:
until then an old lock always has a living owner recorded (`OwnerLives`), so nobody
recovers it (`ReaderSawOwner`, `OnlyReleases`) and only its holder is past it
(`HolderOwns`).

**Learning.** `LearnedIsComplete` and `LogFollowsRules` rest on `Serialized` (only
the holder of the harness lock is learning) and `Steady`: `Knows` says of each
phase of a learner what it has written and that nobody wrote since, `Renders` that
an initialization on its way to the guides has read every rule but those that
raced with it. `SteadyInv` claims this until a first initialization empties what
was learned (`overtaken`). `ProvenanceHolds` and `NoLateProof` rest on `Provenance`:
events are not younger than the clock, and every claim and rule, in the files or
in a learner's memory, is covered by failures that came before it, until events
are pruned.

**Completion.** `LockInv` and `WorkInv` say which locks and which task an operation
holds at each place; that nothing it relies on changes under the configuration
and harness lock is `CompletesUnderItsConfig`. For credit, `SourceInv` ties stamps
to writes (a write is of one file, its content is that file's), `EvidenceInv` says
that evidence of a changed file names a write of it, and `DecidedInv` that the
claims being compared leave out nothing current. `UncreditedIsAccepted` follows
whatever is written and touched meanwhile. `CreditedOnce` holds under the two
hypotheses `Quiet` and `~Touching` only (section 6); `QuietInv` then says that a
completed task still claims what it was credited with, unless the file was
written since, so a second claim on the same write is seen.

**ExternalAccess.** `RunInv` says that a process with a command holds the locks of
its task and of the configuration from the check of the grant on, and that its
executor works under that grant; `CoverInv` that this grant is not revoked, since
`Revoke` needs the task's lock; `LateInv` that lateness and remaining timeout
together are at most what is left of the grant and `Delay`, where the remaining
timeout goes down to `-Grace`. `HoldInv` is the contract of the
common lock: one executor is past its first step, and what it made and staged is
still there and its own; with `ReceiptInv` (receipts hold only what executors
created) this gives `ForeignKept`, without a word about what grants bind: nothing
can be said of that. `SeenInv` is about two `stat`s without a lock: at every moment
between them, the second one would complete the first to a topology seen since, or
to one that is refused. It holds because the link count of the first name tells
apart what executors' steps could mix, and `IdsInv` because no identity is given
twice.

**No longer run, but proved.** The type invariants, and `TerminalIsFrozen`, `NothingRunsWhilePending`,
`GrantedOnce`, `ReportedIsFinal`, `LineagesAreNested` and `PrunedIsTerminal`: their
theorems hold for every instance, and the runs are kept for what needs them.

**Only model-checked.** Liveness (`OperationsEnd`, `ContinuationEnds`, `LaunchEnds`,
`RuntimeArrives`): it rests on fairness, and `ENABLED` is out of the prover's
reach. The two disagreements of section 6 are counterexamples and need no proof.
Where a theorem has a hypothesis, TLC's counterexample without it is in section 6.

## 6. What the checks found

Two runs end in a counterexample; each contradicts a sentence of the repository.

* `latecancel`: `cancel_improvement` (improvement.py:574) reads the record without
  the lock and signals later. If the promotion is saved in between, a promoted
  experiment has a cancel file. Resume refuses promoted experiments before it
  removes the file, and every later command and sensor of the task is
  interrupted by it.
* `orphan`: a process that dies between reserving and binding a host call leaves a
  record whose identical retry is refused as "another host intent"
  (host_adapter.py:69-77).

Further observations shaped the properties. They are not runs; those that name a
bound are found by TLC when it is changed.

* Once retention has deleted a stopped successor, its completed source can be
  continued a second time, without the successor's consumption
  (task_budget.py:80-84, retention.py:24-38). docs/task-budgets.md:36 advises to
  keep both checkpoints; nothing enforces it. With the bounds of `prune`, but one
  process, one prune, three ids, no `Allowances`, `MaxNow = 1`, a project limit of
  wall 2 and new limits of wall 3 and deadline 3, `ConsumedOnce` is violated.
* Two prunes that overlap may delete every completed checkpoint, although each of
  them keeps some (retention.py:24-29, cli.py:664-675, which takes no lock): tasks
  saved at the same time are kept by one plan and deleted by the other, or a task
  is saved again, by a late receipt, between the two plans. tests/test_retention.py:17
  says `keeps_latest_completed`; with one prune at a time that many stay, with two,
  the bounds of `prune` find none left. `LatestKept` is what holds: no completed
  task is deleted before one that was saved earlier, the saves since its reading
  apart.
* A completed task's claim on a file counts only while the file's modification time
  is what it was; touching the file lets the same write complete a second task
  (state.py:517, state.py:615). With `Touching = TRUE`, one file and one
  configuration, `CreditedOnce` is violated.
* A command under a *read-only* grant at a human boundary only by the grant runs
  from PENDING without moving the marker (runner.py:323), so after a policy
  update it can be launched again for the same nonce. README.md:231 of the
  repository promises more; the properties speak of `Protected` actions.
* An edit between the comparison and the replacement of a promotion or rollback
  is overwritten (improvement.py:475), which docs/improvement.md:64-65 excludes.
  `OverwritesOnlyKnownText` and `AdoptsItsTrial` state exactly this window
  (`edited`).
* Two launchers that both find the lock of a killed installer can each remove the
  lock, the second one removing the first one's new lock between comparison and
  `unlink` (hexa.py:206-215): both then install. `OneInstaller` is therefore
  stated with `crashes = 0`.
* A file written between the two reads of the final decision (state.py:610 and
  615) makes the claims compared belong to different moments, and one write may
  complete two tasks. `Quiet = TRUE` excludes it; with `Quiet = FALSE` TLC finds it.
* `initialize` runs without the harness lock (scaffold.py:412): a rule learned
  between its read and its rendering is in force and missing from GUIDES.md until
  the next one is learned, and a first initialization that finds no file may empty
  a rules file or a decision log that was just written. `LearnedIsComplete` states
  exactly these windows (`raced`, `overtaken`).
* A learner that ends between the rules and the decision log leaves a rule without
  its decision. Its retry is refused as a duplicate (learning.py:249), so the
  decision is never written. `LogFollowsRules` is the direction that holds.
* A process killed between the exclusive creation of the binding key and its write
  leaves an empty key, which every later grant refuses (external_access.py:57-70)
  until it is deleted by hand.
* A harness killed while its command runs leaves the command without a deadline;
  `EndsWithGrant` is therefore about commands that are watched. One that ignores
  SIGTERM outlives its grant by two seconds (execution.py:47) besides the time from
  the check of the grant to its start (runner.py:374): docs/external-transactions.md
  says that the runtime "bounds process time by expiry".
* A grant for the recovery of a scratch directory binds whatever has its name at
  the last of three looks (external_transactions.py:170, 180, 195), and validates
  it against itself (257): a foreign directory put there after the comparison with
  the receipt is bound. Nothing but the executor's own check of the receipt
  (docs/external-transactions.md:149-153) then protects it. With an executor that
  trusts its grant, `ForeignKept` is violated.

## 7. What is not modelled, and why

* **Policy evaluation** is a function from a command to an outcome here. The
  precedence of rules over parsed command lines (policy.py:937-1020) is a pure
  function of long text patterns: a model of it would restate the code.
* **Configuration, scaffold**: replacing the configuration is modelled
  (`ReplaceConfig`, `ChangePolicy`), and the writes of `initialize` to what learning
  shares with it; inferring and merging the text is not.
* **Learning**: rules that match paths, signatures, severities and the rendering of
  guides; an event whose output is gone.
* **External access**: scopes of roots and argument templates, the binding of a
  grant to a command's text by its key, the replacement of the parent directory or
  of the common lock, and identities that the file system gives out again after a
  removal (a grant bound to a removed directory would then accept a new one). The
  documentation names races outside the common lock as a limit of the contract.
  `Validate` and its like make their look at the scratch directory, its entries and
  the first `stat` in one step: the identity may in truth be older than the listing.
  The look at the pair in the middle of `normalize_transactions` (237) adds refusals
  only. An executor that creates a file directly under the published name does what
  another program does in `OtherFile`. What a command has detached from its process
  group is not watched, in the code and here. Exclusive creation of a grant's other
  files, and `replace`, concern children of the scratch directory, which are one
  entry here.
* **Event log** as far as a later decision reads it; its retention is modelled in
  `Learning`, its counting for trip wires is not.
* **Audit, capabilities, paths, redaction, command line**: they read, format or
  parse, and keep no state of their own; the audit's judgement of rules is
  `Evidenced`.
* **Windows**: job objects and bounded lock retries. All semantics are POSIX.
* **Smaller steps.** A checkpoint operation is one action in `Continuation`: a save
  whose load came before the deletion of its checkpoint writes it again in the code.
  `Learning!RecordEvent` takes the time and appends in one step (events.py:85-87);
  output paths are unique per capture. `Generation!ReceiveHostResult` knows the
  host's figures by one origin: a provider's request id that is first unknown and
  then set (host_adapter.py:137-143) changes nothing that is charged.
* **Command runner.** The improvement stop file interrupts the commands of its task
  as well (execution.py:98, 137): in `TaskHarness` that is one of the ways a command
  fails, in `Improvement` it is `cancel`. A sensor that is not required
  (sensors.py:153-159) is, to the suite, one that passes; one that policy blocks
  (sensors.py:67-81) ends the completion and leaves the checkpoint as a crash does. A nonce counts the launches of its staged action: the same
  command run plainly, which policy must allow without a human, is another launch.
* Within modelled parts: wall time as arithmetic (a wire may fire at any
  check), path escapes, guidance fingerprints except in `Improvement`, the
  temporary directories of an installation, which a killed launcher leaves behind
  (hexa.py:348), other fingerprints than one.

## 8. Plan

The order was: the task harness and its abstract protocol, since everything else
rests on it; then the parts where something runs without a task's lock
(improvement, host adapter, continuation with retention, launcher, several
completions), then learning and external access; then the proofs, component by
component. What is left:

1. An abstract specification of a durable budget (charged, reserved, spent within
   its limit) that `Generation` and `Continuation` both implement, proved from
   `LedgerInv` and `Accounts`.
2. An abstract specification of an executor's publication (nothing, staged,
   published) that `ExternalAccess` implements, proved from `HoldInv`.
3. The bound of the counters of `TaskHarness` under time and token wires, which now
   may fire at any check.

----------------------------- MODULE Completion -----------------------------
(***************************************************************************)
(* Several change tasks of one project complete.  Each runs its own        *)
(* operation under its own task lock; the configuration lock and the       *)
(* harness lock serialize the final decision, which looks at every other   *)
(* task's checkpoint so that one project write does not complete two tasks.*)
(* Project files belong to nobody: they change under all of them.          *)
(*                                                                         *)
(* TaskHarness has one task's operations in full; here a task does no more *)
(* than observe and complete, and what matters is what tasks share.        *)
(***************************************************************************)
EXTENDS Integers, Sequences, FiniteSets

CONSTANTS
    Tasks, Paths, Contents,
    Configs,      \* the configurations that are switched between
    None,         \* no observation, no evidence, no lock holder, no configuration
    MaxStamp,     \* bound: how often files are written or touched
    Touching,     \* may a file that a completed task claims be touched
    Quiet         \* are files left alone while a completion is being decided

ASSUME BoundsAreTyped == MaxStamp \in Nat /\ Touching \in BOOLEAN /\ Quiet \in BOOLEAN
ASSUME NoneIsApart == None \notin Tasks \cup Contents \cup Configs

VARIABLES
    status, seen, evid, sensed,              \* the checkpoints
    files, stamps, config, stop,             \* the project
    configLock, harnessLock,
    pc, used, candidate, mine,               \* the operation that holds a task's lock
    written, credit, order                   \* history: who wrote what, who was credited

checkpoints == <<status, seen, evid, sensed>>
project == <<files, stamps, config, stop, written>>
locks == <<configLock, harnessLock>>
operation == <<pc, used, candidate, mine>>
history == <<credit, order>>
vars == <<checkpoints, project, locks, operation, history>>

Deciding == {"check", "others", "mark"}
Places == Deciding \cup {"idle", "sense", "sensing", "save", "configure", "harness"}

Unwritten == [p \in Paths |-> None]
Evidence == [sha : Contents, stamp : Nat, before : Contents]

Goto(t, p) == pc' = [pc EXCEPT ![t] = p]

\* The operation ends or dies: its locks are released, its memory is gone.
Ends(t) ==
    /\ Goto(t, "idle")
    /\ used' = [used EXCEPT ![t] = None]
    /\ candidate' = [candidate EXCEPT ![t] = Unwritten]
    /\ mine' = [mine EXCEPT ![t] = {}]
    /\ configLock' = IF configLock = t THEN None ELSE configLock
    /\ harnessLock' = IF harnessLock = t THEN None ELSE harnessLock

----------------------------------------------------------------------------
\* attach_artifact_evidence: the paths given get the file as it is now and the
\* task's latest observation of it.
Attach(t, P) ==
    [p \in Paths |->
        IF p \in P /\ seen[t][p] # None
        THEN [sha |-> files[p].sha, stamp |-> files[p].stamp, before |-> seen[t][p]]
        ELSE evid[t][p]]

\* artifact_evidence_is_current, with a content delta since the observation.
Current(p, e) ==
    e # None => /\ e.before # e.sha
                /\ files[p].sha = e.sha
                /\ files[p].stamp = e.stamp

Qualifying(E) == {p \in Paths : E[p] # None /\ Current(p, E[p])}

\* fresh_completion_artifact_claims.
ClaimsOf(E) == {<<p, E[p].sha>> : p \in Qualifying(E)}

\* Mutant: the claims of every other task count, completed or not.
ElsewhereAnyStatus(t) == UNION {ClaimsOf(evid[u]) : u \in Tasks \ {t}}

\* completion_has_unclaimed_artifact: what other completed tasks claim by now.
Elsewhere(t) == UNION {ClaimsOf(evid[u]) : u \in {v \in Tasks \ {t} : status[v] = "completed"}}

----------------------------------------------------------------------------
\* record_write_observation.
Observe(t, p) ==
    /\ pc[t] = "idle" /\ status[t] = "active"
    /\ seen' = [seen EXCEPT ![t][p] = files[p].sha]
    /\ UNCHANGED <<status, evid, sensed, project, locks, operation, history>>

\* complete_task up to the sensors: refused without a qualifying output.
Begin(t, P) ==
    /\ pc[t] = "idle" /\ status[t] = "active" /\ ~stop
    /\ configLock = None
    /\ Qualifying(Attach(t, P)) # {}
    /\ used' = [used EXCEPT ![t] = config]
    /\ candidate' = [candidate EXCEPT ![t] = Attach(t, P)]
    /\ Goto(t, "sense")
    /\ UNCHANGED <<checkpoints, project, locks, mine, history>>

\* run_sensors holds the configuration lock until the last of them has ended.
StartSensors(t) ==
    /\ pc[t] = "sense"
    /\ configLock = None
    /\ config = used[t] /\ ~stop
    /\ configLock' = t
    /\ Goto(t, "sensing")
    /\ UNCHANGED <<checkpoints, project, harnessLock, used, candidate, mine, history>>

RefuseSensors(t) ==
    /\ pc[t] = "sense"
    /\ configLock = None
    /\ config # used[t] \/ stop
    /\ Ends(t)
    /\ UNCHANGED <<checkpoints, project, history>>

SensorsPass(t) ==
    /\ pc[t] = "sensing"
    /\ sensed' = [sensed EXCEPT ![t] = used[t]]
    /\ configLock' = None
    /\ Goto(t, "save")
    /\ UNCHANGED <<status, seen, evid, project, harnessLock, used, candidate, mine, history>>

\* A required sensor failed: the task is paused.
SensorsFail(t) ==
    /\ pc[t] = "sensing"
    /\ status' = [status EXCEPT ![t] = "paused"]
    /\ Ends(t)
    /\ UNCHANGED <<seen, evid, sensed, project, history>>

SaveCandidate(t) ==
    /\ pc[t] = "save"
    /\ evid' = [evid EXCEPT ![t] = candidate[t]]
    /\ Goto(t, "configure")
    /\ UNCHANGED <<status, seen, sensed, project, locks, used, candidate, mine, history>>

LockConfiguration(t) ==
    /\ pc[t] = "configure"
    /\ configLock = None
    /\ configLock' = t
    /\ Goto(t, "harness")
    /\ UNCHANGED <<checkpoints, project, harnessLock, used, candidate, mine, history>>

\* Mutant: the final decision is taken with neither lock held exclusively.
LockHarnessShared(t) ==
    /\ pc[t] = "harness"
    /\ harnessLock' = t
    /\ configLock' = IF configLock = t THEN None ELSE configLock
    /\ Goto(t, "check")
    /\ UNCHANGED <<checkpoints, project, used, candidate, mine, history>>

LockHarness(t) ==
    /\ pc[t] = "harness"
    /\ harnessLock = None
    /\ harnessLock' = t
    /\ Goto(t, "check")
    /\ UNCHANGED <<checkpoints, project, configLock, used, candidate, mine, history>>

\* Same configuration, no stop, outputs and sensor evidence still current.
StillValid(t) == /\ config = used[t] /\ sensed[t] = config /\ ~stop
                 /\ Qualifying(evid[t]) # {}

\* The final checks, and the task's own claims.
Check(t) ==
    /\ pc[t] = "check"
    /\ StillValid(t)
    /\ mine' = [mine EXCEPT ![t] = ClaimsOf(evid[t])]
    /\ Goto(t, "others")
    /\ UNCHANGED <<checkpoints, project, locks, used, candidate, history>>

\* The claims of the others are read after that.
CheckOthers(t) ==
    /\ pc[t] = "others"
    /\ mine[t] \ Elsewhere(t) # {}
    /\ Goto(t, "mark")
    /\ UNCHANGED <<checkpoints, project, locks, used, candidate, mine, history>>

Refuse(t) ==
    /\ \/ pc[t] = "check" /\ ~StillValid(t)
       \/ pc[t] = "others" /\ mine[t] \subseteq Elsewhere(t)
    /\ Ends(t)
    /\ UNCHANGED <<checkpoints, project, history>>

\* The writes that claims of t stand for: the last change of each file's content
\* before t's evidence was taken.
Writes(t, claims) == {written[evid[t][c[1]].stamp] : c \in claims}

MarkCompleted(t) ==
    /\ pc[t] = "mark"
    /\ status' = [status EXCEPT ![t] = "completed"]
    /\ credit' = [credit EXCEPT ![t] = Writes(t, mine[t])]
    /\ order' = Append(order, t)
    /\ Ends(t)
    /\ UNCHANGED <<seen, evid, sensed, project>>

Crash(t) ==
    /\ pc[t] # "idle"
    /\ Ends(t)
    /\ UNCHANGED <<checkpoints, project, history>>

----------------------------------------------------------------------------
\* set_task_status from the command line: resumed, or stopped for good.
Reactivate(t) ==
    /\ pc[t] = "idle" /\ status[t] = "paused"
    /\ status' = [status EXCEPT ![t] = "active"]
    /\ UNCHANGED <<seen, evid, sensed, project, locks, operation, history>>

StopTask(t) ==
    /\ pc[t] = "idle" /\ status[t] \in {"active", "paused"}
    /\ status' = [status EXCEPT ![t] = "stopped"]
    /\ UNCHANGED <<seen, evid, sensed, project, locks, operation, history>>

\* stop_task_or_harness and resume --clear-stop, under the harness lock.
SetStop(s) ==
    /\ harnessLock = None
    /\ stop # s /\ stop' = s
    /\ UNCHANGED <<checkpoints, files, stamps, config, written, locks, operation, history>>

\* Mutant: the configuration is replaced without its lock.
ReplaceConfigAnytime ==
    /\ \E c \in Configs : c # config /\ config' = c
    /\ UNCHANGED <<checkpoints, files, stamps, stop, written, locks, operation, history>>

\* initialize --force, under the configuration lock.
ReplaceConfig ==
    /\ configLock = None
    /\ \E c \in Configs : c # config /\ config' = c
    /\ UNCHANGED <<checkpoints, files, stamps, stop, written, locks, operation, history>>

\* A completed task still claims the file.
Claimed(p) == \E t \in Tasks : status[t] = "completed" /\ p \in Qualifying(evid[t])

\* Somebody writes a file.  A stamp is its size and times; written says which
\* change of content a stamp dates from.
WriteFile(p, c) ==
    /\ stamps < MaxStamp
    /\ Quiet => \A t \in Tasks : pc[t] \notin Deciding
    /\ c = files[p].sha => Touching \/ ~Claimed(p)
    /\ stamps' = stamps + 1
    /\ files' = [files EXCEPT ![p] = [sha |-> c, stamp |-> stamps + 1]]
    /\ written' = [written EXCEPT ![stamps + 1] =
                      IF c = files[p].sha THEN written[files[p].stamp] ELSE stamps + 1]
    /\ UNCHANGED <<checkpoints, config, stop, locks, operation, history>>

Init ==
    /\ status = [t \in Tasks |-> "active"]
    /\ seen = [t \in Tasks |-> Unwritten] /\ evid = [t \in Tasks |-> Unwritten]
    /\ sensed = [t \in Tasks |-> None]
    /\ files \in [Paths -> [sha : Contents, stamp : {0}]]
    /\ stamps = 0 /\ config \in Configs /\ stop = FALSE
    /\ configLock = None /\ harnessLock = None
    /\ pc = [t \in Tasks |-> "idle"] /\ used = [t \in Tasks |-> None]
    /\ candidate = [t \in Tasks |-> Unwritten] /\ mine = [t \in Tasks |-> {}]
    /\ written = [n \in 0 .. MaxStamp |-> 0]
    /\ credit = [t \in Tasks |-> {}] /\ order = <<>>

Step(t) == \/ StartSensors(t) \/ RefuseSensors(t) \/ SensorsPass(t) \/ SensorsFail(t)
           \/ SaveCandidate(t) \/ LockConfiguration(t) \/ LockHarness(t)
           \/ Check(t) \/ CheckOthers(t) \/ Refuse(t) \/ MarkCompleted(t)

Call(t) == \/ \E p \in Paths : Observe(t, p)
           \/ \E P \in SUBSET Paths : Begin(t, P)
           \/ Reactivate(t) \/ StopTask(t)

Next == \/ \E t \in Tasks : Step(t) \/ Call(t) \/ Crash(t)
        \/ \E s \in BOOLEAN : SetStop(s)
        \/ ReplaceConfig
        \/ \E p \in Paths, c \in Contents : WriteFile(p, c)

Spec == Init /\ [][Next]_vars
----------------------------------------------------------------------------
TypeOK ==
    /\ status \in [Tasks -> {"active", "paused", "stopped", "completed"}]
    /\ seen \in [Tasks -> [Paths -> Contents \cup {None}]]
    /\ evid \in [Tasks -> [Paths -> Evidence \cup {None}]]
    /\ {sensed, used} \subseteq [Tasks -> Configs \cup {None}]
    /\ files \in [Paths -> [sha : Contents, stamp : Nat]]
    /\ stamps \in 0 .. MaxStamp /\ config \in Configs /\ stop \in BOOLEAN
    /\ {configLock, harnessLock} \subseteq Tasks \cup {None}
    /\ pc \in [Tasks -> Places]
    /\ candidate \in [Tasks -> [Paths -> Evidence \cup {None}]]
    /\ mine \in [Tasks -> SUBSET (Paths \X Contents)]

\* state.py:609 "Prevent one project write from being credited as multiple
\* completed tasks": each completed task was credited with some write that no
\* task completed before it was credited with.
CreditedOnce ==
    \A i \in DOMAIN order :
        credit[order[i]] \ UNION {credit[order[j]] : j \in 1 .. i - 1} # {}

\* The converse: a task is not turned away at the last check for writes that no
\* completed task was credited with.
UncreditedIsAccepted ==
    \A t \in Tasks :
        pc[t] = "others" /\ Writes(t, mine[t]) \cap UNION {credit[u] : u \in Tasks} = {}
            => mine[t] \ Elsewhere(t) # {}

\* A task completes only while the configuration its sensors passed under is the
\* project's and no stop is in force, whoever replaces or stops meanwhile.
CompletesUnderItsConfig ==
    [][\A t \in Tasks : status[t] # "completed" /\ status'[t] = "completed"
                           => sensed[t] = config /\ ~stop]_vars
=============================================================================

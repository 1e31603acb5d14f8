----------------------------- MODULE Bootstrap -----------------------------
(***************************************************************************)
(* First use of the plugin: several launchers (skills/.../hexa.py) find no *)
(* private runtime and agree, through one lock file, on who installs it.   *)
(* The lock is a file made with O_EXCL; an old one whose recorded process  *)
(* is gone may be removed by anybody.  One fingerprint is modelled: another*)
(* has its own lock file and its own directory.  POSIX semantics.          *)
(*                                                                         *)
(* A step is one system call or one run of calls nobody else can disturb:  *)
(* comparing a lock's identity and unlinking its path are two.             *)
(***************************************************************************)
EXTENDS Integers, FiniteSets

CONSTANTS
    Launchers,     \* the processes a user starts; each may be started again
    Files,         \* numbers for the files the lock's path may name
    None,          \* no file, nothing remembered
    Dead,          \* the owner recorded in a lock whose process is gone
    MaxCrashes,    \* launchers killed without running their finally blocks
    MayStall       \* can a launcher sleep 10 minutes between creating and writing

ASSUME NamesAreApart == Dead \notin Launchers
ASSUME FilesAreNumbers == Files \subseteq Nat
ASSUME BoundsAreTyped == MaxCrashes \in Nat /\ MayStall \in BOOLEAN

VARIABLES
    lock,      \* the file at the lock's path: its identity, its owner, its age
    runtime,   \* what is at the runtime's path
    pc,        \* where each launcher is
    known,     \* the identity a launcher holds or means to remove
    after,     \* where it goes once that identity has been dealt with
    crashes

vars == <<lock, runtime, pc, known, after, crashes>>

\* A launcher between taking the lock and starting to release it.
Installing == {"locked", "building", "clear", "clearing", "rename"}
Places == Installing \cup {"idle", "check", "open", "write", "stale", "read",
                           "wait", "compare", "unlink", "run"}

\* Identity of a file: inode and times, and the times and size tell a written
\* lock from the empty one it was.
Identities == [file : Files, written : BOOLEAN]
Locks == [file : Files, written : BOOLEAN, owner : Launchers \cup {Dead}, old : BOOLEAN]
ASSUME NoneIsNoLock == None \notin Locks \cup Identities

FileIdentity(f) == [file |-> f.file, written |-> f.written]
AtPath(i) == lock # None /\ FileIdentity(lock) = i

\* What is at the runtime's path: nothing, a symbolic link, a directory without
\* its marker or interpreter, a complete one, or a complete one half removed.
Runtimes == {"absent", "link", "damaged", "ready", "gutted"}

\* _runtime_ready: marker and interpreter are there.  A directory half removed
\* may still have both.
LooksReady == CASE runtime = "ready" -> {TRUE}
                [] runtime = "gutted" -> BOOLEAN
                [] OTHER -> {FALSE}

Goto(l, p) == pc' = [pc EXCEPT ![l] = p]
Forget(l) == known' = [known EXCEPT ![l] = None] /\ after' = [after EXCEPT ![l] = "idle"]

\* A file that nobody remembers and no path names; a new one is the first of them.
Unused == {f \in Files : /\ lock # None => lock.file # f
                         /\ \A l \in Launchers : known[l] # None => known[l].file # f}
Fresh(f) == f \in Unused /\ \A g \in Unused : f <= g

----------------------------------------------------------------------------
\* resolve_runtime: the first look, outside the lock.
Launch(l) ==
    /\ pc[l] = "idle"
    /\ Goto(l, "check")
    /\ UNCHANGED <<lock, runtime, known, after, crashes>>

FirstCheck(l) ==
    /\ pc[l] = "check"
    /\ \E ready \in LooksReady : Goto(l, IF ready THEN "run" ELSE "open")
    /\ UNCHANGED <<lock, runtime, known, after, crashes>>

\* os.open(O_CREAT | O_EXCL): a fresh empty file, or FileExistsError.
Create(l) ==
    /\ pc[l] = "open"
    /\ lock = None
    /\ \E f \in Files :
        /\ Fresh(f)
        /\ lock' = [file |-> f, written |-> FALSE, owner |-> l, old |-> FALSE]
        /\ known' = [known EXCEPT ![l] = [file |-> f, written |-> FALSE]]
    /\ Goto(l, "write")
    /\ UNCHANGED <<runtime, after, crashes>>

Exists(l) ==
    /\ pc[l] = "open"
    /\ lock # None
    /\ Goto(l, "stale")
    /\ UNCHANGED <<lock, runtime, known, after, crashes>>

\* The process id goes through the open descriptor, wherever the path points by
\* now; the identity to hold is taken after it.
WriteOwner(l) ==
    /\ pc[l] = "write"
    /\ lock' = IF AtPath(known[l]) THEN [lock EXCEPT !.written = TRUE, !.old = FALSE] ELSE lock
    /\ known' = [known EXCEPT ![l] = [file |-> known[l].file, written |-> TRUE]]
    /\ Goto(l, "locked")
    /\ UNCHANGED <<runtime, after, crashes>>

\* The exception path of the same write: the empty file is removed again.
WriteFails(l) ==
    /\ pc[l] = "write"
    /\ Goto(l, "compare")
    /\ after' = [after EXCEPT ![l] = "idle"]
    /\ UNCHANGED <<lock, runtime, known, crashes>>

----------------------------------------------------------------------------
LockIsOld == IF lock = None THEN FALSE ELSE lock.old

\* _stale_lock_snapshot: only an old lock's identity is worth remembering.
StatLock(l) ==
    /\ pc[l] = "stale"
    /\ \/ /\ LockIsOld
          /\ known' = [known EXCEPT ![l] = FileIdentity(lock)]
          /\ Goto(l, "read")
       \/ /\ ~LockIsOld
          /\ Goto(l, "wait")
          /\ UNCHANGED known
    /\ UNCHANGED <<lock, runtime, after, crashes>>

\* Mutant: the recorded process is not looked at, an old lock is an abandoned one.
SeemsAliveByAge(owner) == {FALSE}

\* _process_is_alive, as far as it can tell: the number of a process that is
\* gone may be another's by now.
SeemsAlive(owner) == IF owner = Dead THEN BOOLEAN ELSE {TRUE}

\* Mutant: a lock that names no process is left alone.
MayRecoverNamed == lock.written /\ FALSE \in SeemsAlive(lock.owner)

\* A lock whose owner is gone, or that names none, is to be removed.
MayRecover == IF lock.written THEN FALSE \in SeemsAlive(lock.owner) ELSE TRUE
MustWait == ~MayRecover \/ (lock.written /\ TRUE \in SeemsAlive(lock.owner))

ReadAbandoned(l) ==
    /\ pc[l] = "read"
    /\ AtPath(known[l])
    /\ MayRecover
    /\ after' = [after EXCEPT ![l] = "open"]
    /\ Goto(l, "compare")
    /\ UNCHANGED <<lock, runtime, known, crashes>>

ReadHeld(l) ==
    /\ pc[l] = "read"
    /\ AtPath(known[l]) => MustWait
    /\ Goto(l, "wait")
    /\ Forget(l)
    /\ UNCHANGED <<lock, runtime, crashes>>

\* The loop of _install_lock: sleep and try again, or the deadline has passed.
Retry(l) ==
    /\ pc[l] = "wait"
    /\ Goto(l, "open")
    /\ UNCHANGED <<lock, runtime, known, after, crashes>>

\* Mutant: the loop has no deadline.
GiveUpNever(l) == FALSE /\ UNCHANGED vars

GiveUp(l) ==
    /\ pc[l] = "wait"
    /\ Goto(l, "idle")
    /\ UNCHANGED <<lock, runtime, known, after, crashes>>

\* _unlink_owned_lock, its first half: is the path still that file?
Compare(l) ==
    /\ pc[l] = "compare"
    /\ IF AtPath(known[l])
       THEN Goto(l, "unlink") /\ UNCHANGED <<known, after>>
       ELSE Goto(l, IF after[l] = "open" THEN "wait" ELSE after[l]) /\ Forget(l)
    /\ UNCHANGED <<lock, runtime, crashes>>

\* Its second half: whatever the path names now is removed.
Unlink(l) ==
    /\ pc[l] = "unlink"
    /\ lock' = None
    /\ Goto(l, IF after[l] = "open" /\ lock = None THEN "wait" ELSE after[l])
    /\ Forget(l)
    /\ UNCHANGED <<runtime, crashes>>

----------------------------------------------------------------------------
\* The body of the with statement is over; its finally block releases.
Release(l, p) ==
    /\ Goto(l, "compare")
    /\ after' = [after EXCEPT ![l] = p]

\* Mutant: the runtime is not looked at again under the lock.
SecondCheckSkipped(l) ==
    /\ pc[l] = "locked"
    /\ Goto(l, "building")
    /\ UNCHANGED <<lock, runtime, known, after, crashes>>

\* resolve_runtime: the second look, under the lock.
SecondCheck(l) ==
    /\ pc[l] = "locked"
    /\ \E ready \in LooksReady :
        IF ready THEN Release(l, "run") ELSE Goto(l, "building") /\ UNCHANGED after
    /\ UNCHANGED <<lock, runtime, known, crashes>>

\* _create_runtime: venv and pip fill a private temporary directory.
Build(l) ==
    /\ pc[l] = "building"
    /\ Goto(l, "clear")
    /\ UNCHANGED <<lock, runtime, known, after, crashes>>

\* Mutant: an installation that failed leaves its lock.
InstallFailsLocked(l) ==
    /\ pc[l] \in {"building", "clearing"}
    /\ Goto(l, "idle")
    /\ Forget(l)
    /\ UNCHANGED <<lock, runtime, crashes>>

\* mkdtemp, pip, the marker or the removal of what was there raised.
InstallFails(l) ==
    /\ pc[l] \in {"building", "clearing"}
    /\ Release(l, "idle")
    /\ UNCHANGED <<lock, runtime, known, crashes>>

\* What is at the runtime's path makes room: a link at once, a directory file by
\* file, so that others see it half removed.
ClearPath(l) ==
    /\ pc[l] = "clear"
    /\ \/ /\ runtime \in {"absent", "link"}
          /\ runtime' = "absent"
          /\ Goto(l, "rename")
       \/ /\ runtime \in {"damaged", "ready", "gutted"}
          /\ runtime' = IF runtime = "ready" THEN "gutted" ELSE runtime
          /\ Goto(l, "clearing")
    /\ UNCHANGED <<lock, known, after, crashes>>

Cleared(l) ==
    /\ pc[l] = "clearing"
    /\ runtime \in {"damaged", "gutted"}
    /\ runtime' = "absent"
    /\ Goto(l, "rename")
    /\ UNCHANGED <<lock, known, after, crashes>>

\* Path.replace: a directory does not replace one that is not empty.
Rename(l) ==
    /\ pc[l] = "rename"
    /\ \/ runtime = "absent" /\ runtime' = "ready" /\ Release(l, "run")
       \/ runtime # "absent" /\ UNCHANGED runtime /\ Release(l, "idle")
    /\ UNCHANGED <<lock, known, crashes>>

\* The command the launcher turned into, or the child it waited for, ends.
Exit(l) ==
    /\ pc[l] = "run"
    /\ Goto(l, "idle")
    /\ UNCHANGED <<lock, runtime, known, after, crashes>>

----------------------------------------------------------------------------
\* Ten minutes pass since the lock was last written.
Age ==
    /\ lock # None
    /\ ~lock.old
    /\ lock.written \/ MayStall \/ lock.owner = Dead
    /\ lock' = [lock EXCEPT !.old = TRUE]
    /\ UNCHANGED <<runtime, pc, known, after, crashes>>

\* The process is killed: no finally block runs, the lock keeps its number.
Crash(l) ==
    /\ pc[l] \notin {"idle", "run"}
    /\ crashes < MaxCrashes
    /\ crashes' = crashes + 1
    /\ lock' = IF lock # None /\ lock.owner = l THEN [lock EXCEPT !.owner = Dead] ELSE lock
    /\ Goto(l, "idle")
    /\ Forget(l)
    /\ UNCHANGED runtime

Init ==
    /\ lock = None
    /\ runtime \in {"absent", "link", "damaged"}
    /\ pc = [l \in Launchers |-> "idle"]
    /\ known = [l \in Launchers |-> None]
    /\ after = [l \in Launchers |-> "idle"]
    /\ crashes = 0

\* The steps a launcher takes by itself once it was started.
Recovering(l) == StatLock(l) \/ ReadAbandoned(l) \/ ReadHeld(l) \/ Retry(l) \/ GiveUp(l)
Locking(l) == Create(l) \/ Exists(l) \/ WriteOwner(l) \/ WriteFails(l) \/ Compare(l) \/ Unlink(l)
Working(l) == \/ FirstCheck(l) \/ SecondCheck(l) \/ Build(l) \/ InstallFails(l)
              \/ ClearPath(l) \/ Cleared(l) \/ Rename(l)
Step(l) == Recovering(l) \/ Locking(l) \/ Working(l)

Next == \/ \E l \in Launchers : Step(l) \/ Launch(l) \/ Exit(l) \/ Crash(l)
        \/ Age

Spec == Init /\ [][Next]_vars

\* A started process is scheduled, and the deadline of its loop passes.
LaunchFairness == \A l \in Launchers : WF_vars(Step(l)) /\ SF_vars(GiveUp(l))

\* The user tries again, time passes, an installation does not fail for ever and
\* the number of a dead owner is not taken for ever.
UseFairness == /\ WF_vars(Age)
               /\ \A l \in Launchers :
                    /\ WF_vars(Launch(l)) /\ SF_vars(ReadAbandoned(l))
                    /\ SF_vars(WriteOwner(l)) /\ SF_vars(Build(l)) /\ SF_vars(Cleared(l))

FairSpec == Spec /\ LaunchFairness
UseSpec == FairSpec /\ UseFairness

----------------------------------------------------------------------------
TypeOK ==
    /\ lock \in Locks \cup {None}
    /\ runtime \in Runtimes
    /\ pc \in [Launchers -> Places]
    /\ known \in [Launchers -> Identities \cup {None}]
    /\ after \in [Launchers -> {"idle", "open", "run"}]
    /\ crashes \in 0 .. MaxCrashes

\* hexa.py:305 "Serialize first-use installation with stale-lock recovery": two
\* launchers are never both between taking the lock and letting it go, unless a
\* killed one left a lock that several recover at once.
OneInstaller ==
    crashes = 0 =>
        \A l, m \in Launchers : pc[l] \in Installing /\ pc[m] \in Installing => l = m

\* A command runs from a complete runtime: nobody who was slower to look clears
\* the directory another launcher has already started from.
RunsFromReady == crashes = 0 => \A l \in Launchers : pc[l] = "run" => runtime = "ready"

\* A lock on disk is somebody's: its owner still holds it or means to remove it,
\* or was killed.  No failure of the installation leaves one behind.
LockHasHolder ==
    lock # None /\ lock.owner # Dead =>
        /\ pc[lock.owner] \in Installing \cup {"write", "compare", "unlink"}
        /\ known[lock.owner] = FileIdentity(lock)

\* A launch ends, in a command or in an error, whoever holds the lock.
LaunchEnds == \A l \in Launchers : pc[l] # "idle" ~> pc[l] \in {"idle", "run"}

\* An installer killed at any point, even between creating its lock and writing
\* into it, does not keep later launches from a runtime for ever.
RuntimeArrives == <>(runtime = "ready")

=============================================================================

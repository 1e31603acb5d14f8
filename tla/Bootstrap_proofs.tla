-------------------------- MODULE Bootstrap_proofs --------------------------
(***************************************************************************)
(* What the installation lock of the launcher guarantees.  Always: a lock  *)
(* on the path is the one its living owner holds.  As long as no launcher  *)
(* was killed and none sleeps ten minutes before it has written its process*)
(* id: nobody removes a lock but its owner, and one launcher at a time     *)
(* installs.                                                               *)
(***************************************************************************)
EXTENDS Bootstrap, TLAPS

\* Everybody between creating a lock and having removed it.
Holding == Installing \cup {"write", "compare", "unlink"}

\* The inductive invariant of the type: who writes a lock remembers its file.
WriterKnowsIts == \A l \in Launchers : pc[l] = "write" => known[l] \in Identities
TypeInv == TypeOK /\ WriterKnowsIts

\* The lock on the path is the holder's, and written once the holder installs.
HolderOwns == \A l \in Launchers : pc[l] \in Holding =>
    /\ lock # None
    /\ lock.owner = l
    /\ known[l] = FileIdentity(lock)
    /\ pc[l] \in Installing => lock.written

\* Only a release removes: recovery never gets that far.
OnlyReleases == \A l \in Launchers : pc[l] \in {"compare", "unlink"} => after[l] # "open"

\* Nobody has died, and an old lock names its owner.
OwnerLives == lock # None => lock.owner # Dead /\ (lock.old => lock.written)

\* Who reads a lock saw it old, hence written.
ReaderSawOwner == \A l \in Launchers : pc[l] = "read" =>
    known[l] \in Identities /\ known[l].written

\* Who installs found no complete runtime; who runs, or is about to, has one.
RuntimeIsSteady ==
    /\ runtime # "gutted"
    /\ \A l \in Launchers : pc[l] \in Installing \ {"locked"} => runtime # "ready"
    /\ \A l \in Launchers :
         pc[l] = "run" \/ (pc[l] \in {"compare", "unlink"} /\ after[l] = "run")
            => runtime = "ready"

\* A file that was just created is at the path under its creator's name or not
\* at all.
WriterOwns == \A l \in Launchers :
    pc[l] = "write" /\ lock # None => (lock.file = known[l].file => lock.owner = l)

\* What holds whatever happens, and what holds until a launcher is killed.
HoldInv == TypeInv /\ WriterOwns /\ LockHasHolder
Calm == HolderOwns /\ OnlyReleases /\ OwnerLives /\ ReaderSawOwner /\ RuntimeIsSteady
IInv == HoldInv /\ (crashes = 0 => Calm)

\* The lock, the runtime and what launchers remember keep their types.
LEMMA TypeStep == TypeInv /\ [Next]_vars => TypeInv'
<1> SUFFICES ASSUME TypeInv, [Next]_vars PROVE TypeInv'
  OBVIOUS
<1> USE BoundsAreTyped, NamesAreApart DEF TypeInv, TypeOK, WriterKnowsIts, Places, Installing, Runtimes
<1>1. ASSUME NEW l \in Launchers, Recovering(l) PROVE TypeInv'
  BY <1>1, SMTT(30) DEF Recovering, StatLock, LockIsOld, ReadAbandoned, ReadHeld, Retry, GiveUp,
     Goto, Forget, Identities, Locks, FileIdentity
<1>2. ASSUME NEW l \in Launchers, Create(l) PROVE TypeInv'
  BY <1>2 DEF Create, Goto, Fresh, Unused, Identities, Locks
<1>3. ASSUME NEW l \in Launchers, Exists(l) PROVE TypeInv'
  BY <1>3 DEF Exists, Goto
<1>4. ASSUME NEW l \in Launchers, WriteOwner(l) PROVE TypeInv'
  BY <1>4 DEF WriteOwner, Goto, AtPath, Identities, Locks
<1>5. ASSUME NEW l \in Launchers, WriteFails(l) \/ Compare(l) \/ Unlink(l) PROVE TypeInv'
  BY <1>5 DEF WriteFails, Compare, Unlink, Goto, Forget
<1>6. ASSUME NEW l \in Launchers, Working(l) PROVE TypeInv'
  <2>1. CASE FirstCheck(l)
    BY <2>1 DEF FirstCheck, Goto
  <2>2. CASE SecondCheck(l)
    BY <2>2 DEF SecondCheck, Release, Goto
  <2>3. CASE Build(l) \/ InstallFails(l)
    BY <2>3 DEF Build, InstallFails, Release, Goto
  <2>4. CASE ClearPath(l) \/ Cleared(l)
    BY <2>4 DEF ClearPath, Cleared, Goto
  <2>5. CASE Rename(l)
    BY <2>5 DEF Rename, Release, Goto
  <2> QED
    BY <1>6, <2>1, <2>2, <2>3, <2>4, <2>5 DEF Working
<1>7. ASSUME NEW l \in Launchers, Launch(l) \/ Exit(l) PROVE TypeInv'
  BY <1>7 DEF Launch, Exit, Goto
<1>8. ASSUME NEW l \in Launchers, Crash(l) PROVE TypeInv'
  BY <1>8 DEF Crash, Goto, Forget, Locks
<1>9. CASE Age
  BY <1>9 DEF Age, Locks
<1>10. CASE UNCHANGED vars
  BY <1>10 DEF vars
<1> QED
  BY <1>1, <1>2, <1>3, <1>4, <1>5, <1>6, <1>7, <1>8, <1>9, <1>10 DEF Next, Step, Locking

\* TypeOK, the type invariant of the launcher's lock and runtime, holds however
\* launchers crash and stall.
THEOREM TypeCorrect == Spec => []TypeOK
<1>1. Init => TypeInv
  BY BoundsAreTyped DEF Init, TypeInv, TypeOK, WriterKnowsIts, Places, Installing, Runtimes
<1> QED
  BY <1>1, TypeStep, PTL DEF Spec, TypeInv

----------------------------------------------------------------------------
\* A lock keeps its holder through every step, also of a launcher that is killed.
LEMMA HoldStep ==
    ASSUME HoldInv, [Next]_vars
    PROVE  HoldInv'
<1>t. TypeInv'
  BY TypeStep DEF HoldInv
<1>o. lock # None /\ lock.owner # Dead => lock.owner \in Launchers
  BY DEF HoldInv, TypeInv, TypeOK, Locks
<1> USE <1>t, <1>o, NamesAreApart, NoneIsNoLock
    DEF HoldInv, TypeInv, TypeOK, WriterOwns, LockHasHolder, Installing
<1>1. ASSUME NEW l \in Launchers, StatLock(l) PROVE HoldInv'
  BY <1>1 DEF StatLock, LockIsOld, Goto
<1>2. ASSUME NEW l \in Launchers, ReadAbandoned(l) \/ ReadHeld(l) PROVE HoldInv'
  BY <1>2 DEF ReadAbandoned, ReadHeld, Goto, Forget
<1>3. ASSUME NEW l \in Launchers, Retry(l) \/ GiveUp(l) \/ Exists(l) PROVE HoldInv'
  BY <1>3 DEF Retry, GiveUp, Exists, Goto
<1>4. ASSUME NEW l \in Launchers, Create(l) PROVE HoldInv'
  <2>1. PICK f \in Files :
          /\ Fresh(f)
          /\ lock' = [file |-> f, written |-> FALSE, owner |-> l, old |-> FALSE]
          /\ known' = [known EXCEPT ![l] = [file |-> f, written |-> FALSE]]
    BY <1>4 DEF Create
  <2>2. \A m \in Launchers : known[m] # None => known[m].file # f
    BY <2>1 DEF Fresh, Unused
  <2>3. pc[l] = "open" /\ pc' = [pc EXCEPT ![l] = "write"]
    BY <1>4 DEF Create, Goto
  <2>4. FileIdentity(lock') = known'[l]
    BY <2>1 DEF FileIdentity
  <2>5. \A m \in Launchers : pc[m] = "write" => known[m].file # f
    BY <2>2 DEF WriterKnowsIts
  <2> QED
    BY <2>1, <2>3, <2>4, <2>5
<1>5. ASSUME NEW l \in Launchers, WriteOwner(l) PROVE HoldInv'
  <2>1. /\ pc[l] = "write" /\ pc' = [pc EXCEPT ![l] = "locked"]
        /\ known' = [known EXCEPT ![l] = [file |-> known[l].file, written |-> TRUE]]
    BY <1>5 DEF WriteOwner, Goto
  <2>2. CASE AtPath(known[l])
    <3>1. lock # None /\ lock.owner = l /\ lock.file = known[l].file
      BY <2>1, <2>2 DEF AtPath, FileIdentity
    <3>2. /\ lock' # None /\ lock'.owner = l /\ lock'.file = lock.file /\ lock'.written = TRUE
      <4>1. lock' = [lock EXCEPT !.written = TRUE, !.old = FALSE]
        BY <1>5, <2>2 DEF WriteOwner
      <4>2. lock' \in Locks /\ lock'.owner = l /\ lock'.file = lock.file /\ lock'.written = TRUE
        BY <3>1, <4>1 DEF Locks
      <4> QED
        BY <4>2
    <3>3. FileIdentity(lock') = known'[l]
      BY <2>1, <3>1, <3>2 DEF FileIdentity
    <3> QED
      BY <2>1, <3>1, <3>2, <3>3
  <2>3. CASE ~AtPath(known[l])
    <3>1. lock' = lock
      BY <1>5, <2>3 DEF WriteOwner
    <3>2. lock # None => lock.owner # l
      BY <2>1, <2>3 DEF AtPath
    <3> QED
      BY <2>1, <3>1, <3>2
  <2> QED
    BY <2>2, <2>3
<1>6. ASSUME NEW l \in Launchers, WriteFails(l) PROVE HoldInv'
  BY <1>6 DEF WriteFails, Goto
<1>7. ASSUME NEW l \in Launchers, Compare(l) PROVE HoldInv'
  BY <1>7 DEF Compare, Goto, Forget, AtPath
<1>8. ASSUME NEW l \in Launchers, Unlink(l) PROVE HoldInv'
  BY <1>8 DEF Unlink, Goto, Forget
<1>9. ASSUME NEW l \in Launchers, Working(l) PROVE HoldInv'
  <2>1. CASE FirstCheck(l)
    BY <2>1 DEF FirstCheck, Goto
  <2>2. CASE SecondCheck(l)
    <3>1. /\ pc[l] = "locked" /\ UNCHANGED <<lock, known>>
          /\ pc' = [pc EXCEPT ![l] = "compare"] \/ pc' = [pc EXCEPT ![l] = "building"]
      BY <2>2 DEF SecondCheck, Release, Goto
    <3> QED
      BY <3>1
  <2>3. CASE Build(l) \/ InstallFails(l)
    BY <2>3 DEF Build, InstallFails, Release, Goto
  <2>4. CASE ClearPath(l) \/ Cleared(l)
    BY <2>4 DEF ClearPath, Cleared, Goto
  <2>5. CASE Rename(l)
    BY <2>5 DEF Rename, Release, Goto
  <2> QED
    BY <1>9, <2>1, <2>2, <2>3, <2>4, <2>5 DEF Working
<1>10. ASSUME NEW l \in Launchers, Launch(l) \/ Exit(l) PROVE HoldInv'
  BY <1>10 DEF Launch, Exit, Goto
<1>11. ASSUME NEW l \in Launchers, Crash(l) PROVE HoldInv'
  <2>1. /\ pc' = [pc EXCEPT ![l] = "idle"] /\ known' = [known EXCEPT ![l] = None]
    BY <1>11 DEF Crash, Goto, Forget
  <2>2. CASE lock # None /\ lock.owner = l
    <3>1. lock' # None /\ lock'.owner = Dead /\ lock'.file = lock.file
      <4>1. lock' = [lock EXCEPT !.owner = Dead]
        BY <1>11, <2>2 DEF Crash
      <4>2. lock' \in Locks /\ lock'.owner = Dead /\ lock'.file = lock.file
        BY <2>2, <4>1 DEF Locks
      <4> QED
        BY <4>2
    <3> QED
      BY <2>1, <2>2, <3>1
  <2>3. CASE ~(lock # None /\ lock.owner = l)
    <3>1. lock' = lock
      BY <1>11, <2>3 DEF Crash
    <3> QED
      BY <2>1, <2>3, <3>1
  <2> QED
    BY <2>2, <2>3
<1>12. CASE Age
  <2>1. /\ lock # None /\ lock' = [lock EXCEPT !.old = TRUE]
        /\ UNCHANGED <<pc, known>>
    BY <1>12 DEF Age
  <2>2. /\ lock'.file = lock.file /\ lock'.written = lock.written
        /\ lock'.owner = lock.owner /\ lock' # None
    <3>1. /\ lock' \in Locks /\ lock'.file = lock.file /\ lock'.written = lock.written
          /\ lock'.owner = lock.owner
      BY <2>1 DEF Locks
    <3> QED
      BY <3>1
  <2>3. FileIdentity(lock') = FileIdentity(lock)
    BY <2>2 DEF FileIdentity
  <2> QED
    BY <2>1, <2>2, <2>3
<1>13. CASE UNCHANGED vars
  BY <1>13 DEF vars
<1> QED
  BY <1>1, <1>2, <1>3, <1>4, <1>5, <1>6, <1>7, <1>8, <1>9, <1>10, <1>11, <1>12, <1>13
     DEF Next, Step, Recovering, Locking

----------------------------------------------------------------------------
\* A look at the runtime says what it is, but for one half removed.
LEMMA LooksSays ==
    ASSUME runtime # "gutted", NEW r \in LooksReady
    PROVE  r <=> runtime = "ready"
<1>1. CASE runtime = "ready"
  BY <1>1 DEF LooksReady
<1>2. CASE runtime # "ready"
  <2>1. LooksReady = {FALSE}
    BY <1>2 DEF LooksReady
  <2> QED
    BY <1>2, <2>1
<1> QED
  BY <1>1, <1>2

\* Nobody recovers a lock that names a living process.
LEMMA NamedIsKept ==
    ASSUME lock.written, lock.owner # Dead
    PROVE  ~MayRecover
<1>1. SeemsAlive(lock.owner) = {TRUE}
  BY DEF SeemsAlive
<1> QED
  BY <1>1, Zenon DEF MayRecover

\* Launchers and time, while none is killed and none stalls before writing.
LEMMA CalmStep ==
    ASSUME MayStall = FALSE, HoldInv, Calm, crashes' = 0, [Next]_vars
    PROVE  Calm'
<1>t. TypeInv'
  BY TypeStep DEF HoldInv
<1> USE <1>t, NamesAreApart DEF HoldInv, Calm, TypeInv, TypeOK, HolderOwns, LockHasHolder, OnlyReleases, OwnerLives,
      ReaderSawOwner, RuntimeIsSteady, Holding, Installing
<1>1. ASSUME NEW l \in Launchers, StatLock(l) PROVE Calm'
  BY <1>1 DEF StatLock, LockIsOld, Goto, FileIdentity, Identities, Locks
<1>2. ASSUME NEW l \in Launchers, ReadAbandoned(l) PROVE FALSE
  BY <1>2, NamedIsKept DEF ReadAbandoned, AtPath, FileIdentity, Identities, Locks
<1>3. ASSUME NEW l \in Launchers, ReadHeld(l) PROVE Calm'
  BY <1>3 DEF ReadHeld, Goto, Forget, FileIdentity
<1>4. ASSUME NEW l \in Launchers, Retry(l) \/ GiveUp(l) PROVE Calm'
  BY <1>4 DEF Retry, GiveUp, Goto, FileIdentity, Locks
<1>5. ASSUME NEW l \in Launchers, Create(l) PROVE Calm'
  <2>1. lock = None /\ \A m \in Launchers : pc[m] \notin Holding
    BY <1>5 DEF Create
  <2>2. PICK f \in Files :
          /\ lock' = [file |-> f, written |-> FALSE, owner |-> l, old |-> FALSE]
          /\ known' = [known EXCEPT ![l] = [file |-> f, written |-> FALSE]]
    BY <1>5 DEF Create
  <2>3. pc' = [pc EXCEPT ![l] = "write"] /\ UNCHANGED <<runtime, after>>
    BY <1>5 DEF Create, Goto
  <2>4. lock' # None
    <3>1. [file |-> f, written |-> FALSE, owner |-> l, old |-> FALSE] \in Locks
      BY DEF Locks
    <3> QED
      BY <2>2, <3>1, NoneIsNoLock
  <2>5. HolderOwns' /\ OwnerLives'
    BY <2>1, <2>2, <2>3, <2>4 DEF FileIdentity
  <2> QED
    BY <2>1, <2>2, <2>3, <2>5
<1>6. ASSUME NEW l \in Launchers, Exists(l) PROVE Calm'
  BY <1>6 DEF Exists, Goto, FileIdentity
<1>7. ASSUME NEW l \in Launchers, WriteOwner(l) PROVE Calm'
  <2>1. /\ lock # None /\ lock.owner = l /\ AtPath(known[l])
        /\ \A m \in Launchers \ {l} : pc[m] \notin Holding
    BY <1>7 DEF WriteOwner, AtPath
  <2>2. /\ lock' = [lock EXCEPT !.written = TRUE, !.old = FALSE]
        /\ known' = [known EXCEPT ![l] = [file |-> known[l].file, written |-> TRUE]]
        /\ pc' = [pc EXCEPT ![l] = "locked"]
        /\ UNCHANGED <<runtime, after>>
    BY <1>7, <2>1 DEF WriteOwner, Goto
  <2>3. /\ lock'.file = lock.file /\ lock'.written /\ lock'.owner = l /\ ~lock'.old
        /\ lock' \in Locks
    BY <2>1, <2>2 DEF Locks
  <2>4. known'[l] = FileIdentity(lock')
    <3>1. known[l] = [file |-> lock.file, written |-> lock.written]
      BY <2>1 DEF AtPath, FileIdentity
    <3>2. known'[l] = [file |-> lock.file, written |-> TRUE]
      BY <2>2, <3>1
    <3>3. lock'.file = lock.file /\ lock'.written = TRUE
      BY <2>1, <2>2 DEF Locks
    <3> QED
      BY <3>2, <3>3 DEF FileIdentity
  <2>5. HolderOwns' /\ OwnerLives'
    BY <2>1, <2>2, <2>3, <2>4, NoneIsNoLock
  <2>6. \A m \in Launchers \ {l} : known'[m] = known[m] /\ pc'[m] = pc[m]
    BY <2>2
  <2> QED
    BY <2>2, <2>5, <2>6
<1>8. ASSUME NEW l \in Launchers, WriteFails(l) PROVE Calm'
  BY <1>8 DEF WriteFails, Goto, FileIdentity
<1>9. ASSUME NEW l \in Launchers, Compare(l) PROVE Calm'
  BY <1>9 DEF Compare, Goto, Forget, AtPath, FileIdentity
<1>10. ASSUME NEW l \in Launchers, Unlink(l) PROVE Calm'
  BY <1>10 DEF Unlink, Goto, Forget, FileIdentity
<1>11. ASSUME NEW l \in Launchers, FirstCheck(l) PROVE Calm'
  <2>1. PICK r \in LooksReady : Goto(l, IF r THEN "run" ELSE "open")
    BY <1>11 DEF FirstCheck
  <2>2. \/ runtime = "ready" /\ pc' = [pc EXCEPT ![l] = "run"]
        \/ runtime # "ready" /\ pc' = [pc EXCEPT ![l] = "open"]
    BY <2>1, LooksSays DEF Goto
  <2> QED
    BY <1>11, <2>2 DEF FirstCheck, FileIdentity, Locks
<1>12. ASSUME NEW l \in Launchers, SecondCheck(l) PROVE Calm'
  <2>1. PICK r \in LooksReady :
          IF r THEN Release(l, "run") ELSE Goto(l, "building") /\ UNCHANGED after
    BY <1>12 DEF SecondCheck
  <2>2. \/ runtime = "ready" /\ Release(l, "run")
        \/ runtime # "ready" /\ Goto(l, "building") /\ UNCHANGED after
    BY <2>1, LooksSays
  <2>3. CASE runtime = "ready" /\ Release(l, "run")
    BY <1>12, <2>3 DEF SecondCheck, Release, Goto, FileIdentity, Locks
  <2>4. CASE runtime # "ready" /\ Goto(l, "building") /\ UNCHANGED after
    BY <1>12, <2>4 DEF SecondCheck, Goto, FileIdentity, Locks
  <2> QED
    BY <2>2, <2>3, <2>4
<1>13. ASSUME NEW l \in Launchers, Build(l) \/ InstallFails(l) PROVE Calm'
  BY <1>13 DEF Build, InstallFails, Release, Goto, FileIdentity
<1>14. ASSUME NEW l \in Launchers, ClearPath(l) \/ Cleared(l) PROVE Calm'
  BY <1>14 DEF ClearPath, Cleared, Goto, FileIdentity
<1>15. ASSUME NEW l \in Launchers, Rename(l) PROVE Calm'
  BY <1>15 DEF Rename, Release, Goto, FileIdentity
<1>16. ASSUME NEW l \in Launchers, Launch(l) \/ Exit(l) PROVE Calm'
  BY <1>16 DEF Launch, Exit, Goto, FileIdentity, Locks
<1>17. ASSUME NEW l \in Launchers, Crash(l) PROVE FALSE
  <2>1. crashes' = crashes + 1 /\ crashes \in Nat
    BY <1>17, BoundsAreTyped DEF Crash
  <2> QED
    BY <2>1
<1>18. CASE Age
  <2>1. /\ lock # None /\ lock.written
        /\ lock' = [lock EXCEPT !.old = TRUE]
        /\ UNCHANGED <<runtime, pc, known, after>>
    BY <1>18 DEF Age
  <2>2. /\ lock' \in Locks /\ lock'.file = lock.file /\ lock'.written = lock.written
        /\ lock'.owner = lock.owner /\ lock' # None
    BY <2>1, NoneIsNoLock DEF Locks
  <2>3. FileIdentity(lock') = FileIdentity(lock)
    BY <2>2 DEF FileIdentity
  <2> QED
    BY <2>1, <2>2, <2>3
<1>19. CASE UNCHANGED vars
  BY <1>19 DEF vars, FileIdentity
<1> QED
  BY <1>1, <1>2, <1>3, <1>4, <1>5, <1>6, <1>7, <1>8, <1>9, <1>10, <1>11, <1>12, <1>13, <1>14, <1>15,
     <1>16, <1>17, <1>18, <1>19 DEF Next, Step, Recovering, Locking, Working

\* Deaths are not undone.
LEMMA CrashesOnlyGrow ==
    ASSUME TypeInv, [Next]_vars, crashes' = 0
    PROVE  crashes = 0
<1>1. ASSUME NEW l \in Launchers, Crash(l) PROVE crashes' # 0
  BY <1>1, BoundsAreTyped DEF Crash, TypeInv, TypeOK
<1>2. ASSUME NEW l \in Launchers, Step(l) PROVE crashes' = crashes
  BY <1>2 DEF Step, Recovering, Locking, Working, StatLock, ReadAbandoned, ReadHeld, Retry, GiveUp,
     Create, Exists, WriteOwner, WriteFails, Compare, Unlink, FirstCheck, SecondCheck, Build,
     InstallFails, ClearPath, Cleared, Rename
<1>3. ASSUME NEW l \in Launchers, Launch(l) \/ Exit(l) PROVE crashes' = crashes
  BY <1>3 DEF Launch, Exit
<1>4. Age \/ UNCHANGED vars => crashes' = crashes
  BY DEF Age, vars
<1> QED
  BY <1>1, <1>2, <1>3, <1>4 DEF Next

\* The invariant holds of every behaviour in which nobody stalls.
LEMMA LockInvariant ==
    ASSUME MayStall = FALSE
    PROVE  Spec => []IInv
<1>1. Init => IInv
  BY BoundsAreTyped DEF Init, IInv, HoldInv, Calm, TypeInv, TypeOK, WriterKnowsIts, WriterOwns, HolderOwns,
     LockHasHolder, OnlyReleases, OwnerLives, ReaderSawOwner, RuntimeIsSteady, Holding, Installing, Places, Runtimes
<1>2. IInv /\ [Next]_vars => IInv'
  BY HoldStep, CalmStep, CrashesOnlyGrow DEF IInv, HoldInv
<1> QED
  BY <1>1, <1>2, PTL DEF Spec

\* OneInstaller, hexa.py:305: until a launcher is killed, any number of them
\* installs one at a time.
THEOREM InstallersSerialized ==
    ASSUME MayStall = FALSE
    PROVE  Spec => []OneInstaller
<1>1. IInv => OneInstaller
  BY DEF IInv, Calm, HolderOwns, Holding, OneInstaller
<1> QED
  BY <1>1, LockInvariant, PTL

\* RunsFromReady: under the same hypothesis no command loses the directory it runs
\* from to a launcher that looked before it was there.
THEOREM RuntimeStays ==
    ASSUME MayStall = FALSE
    PROVE  Spec => []RunsFromReady
<1>1. IInv => RunsFromReady
  BY DEF IInv, Calm, RuntimeIsSteady, RunsFromReady
<1> QED
  BY <1>1, LockInvariant, PTL

\* LockHasHolder: whoever is killed or stalls, a lock whose owner lives is the one
\* the owner holds; no failure leaves one behind.
THEOREM LocksAreHeld == Spec => []LockHasHolder
<1>1. Init => HoldInv
  BY BoundsAreTyped DEF Init, HoldInv, TypeInv, TypeOK, WriterKnowsIts, WriterOwns, LockHasHolder, Places,
     Installing, Runtimes
<1>2. HoldInv /\ [Next]_vars => HoldInv'
  BY HoldStep
<1>3. HoldInv => LockHasHolder
  BY DEF HoldInv
<1> QED
  BY <1>1, <1>2, <1>3, PTL DEF Spec
=============================================================================

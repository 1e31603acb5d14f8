------------------------- MODULE Completion_proofs --------------------------
(***************************************************************************)
(* Who is credited with what when several tasks complete, for any tasks,   *)
(* files, texts and configurations and any number of writes.               *)
(***************************************************************************)
EXTENDS Completion, TLAPS

USE BoundsAreTyped, NoneIsApart

TypeInv ==
    /\ TypeOK
    /\ written \in [0 .. MaxStamp -> Nat]
    /\ credit \in [Tasks -> SUBSET Nat] /\ order \in Seq(Tasks)

-----------------------------------------------------------------------------
(* The inductive invariant.                                                *)

(* What an operation holds follows from where it is.                       *)
ConfigPlaces == Deciding \cup {"sensing", "harness"}

LockInv ==
    \A t \in Tasks : /\ configLock = t <=> pc[t] \in ConfigPlaces
                     /\ harnessLock = t <=> pc[t] \in Deciding

(* Only active tasks have an operation; what it found last still holds.    *)
Decided == {"others", "mark"}

WorkInv ==
    \A t \in Tasks : /\ pc[t] # "idle" => status[t] = "active"
                     /\ pc[t] \in Decided => sensed[t] = config /\ ~stop

(* A write is no younger than its stamp; a content that nobody wrote is    *)
(* the one every task has seen; a write is of one file.                    *)
SourceInv ==
    /\ \A n \in 0 .. stamps : written[n] <= n
    /\ \A p \in Paths : files[p].stamp <= stamps
    /\ \A p, q \in Paths :
          written[files[p].stamp] # 0 /\ written[files[p].stamp] = written[files[q].stamp] => p = q
    /\ \A t \in Tasks, p \in Paths :
          seen[t][p] # None /\ written[files[p].stamp] = 0 => seen[t][p] = files[p].sha

(* Evidence of a file that changed names a write of it, and what was       *)
(* written.                                                                *)
Genuine(p, e) ==
    /\ e.stamp <= stamps
    /\ written[e.stamp] = 0 => e.before = e.sha
    /\ \A q \in Paths : written[e.stamp] # 0 /\ written[e.stamp] = written[files[q].stamp]
                            => q = p /\ files[p].sha = e.sha

EvidenceInv ==
    \A t \in Tasks, p \in Paths : /\ evid[t][p] # None => Genuine(p, evid[t][p])
                                  /\ candidate[t][p] # None => Genuine(p, candidate[t][p])

(* The claims of a task whose completion is decided are of its evidence,   *)
(* and none is missing that is still current.  A file that was written     *)
(* since is claimed by nobody.                                             *)
MineInv(t) ==
    /\ mine[t] # {}
    /\ \A c \in mine[t] :
          /\ evid[t][c[1]] # None /\ c[2] = evid[t][c[1]].sha
          /\ \A v \in Tasks :
                /\ status[v] = "completed" /\ evid[v][c[1]] # None
                /\ files[c[1]].stamp = evid[v][c[1]].stamp
                => files[c[1]].stamp = evid[t][c[1]].stamp
    /\ ClaimsOf(evid[t]) \subseteq mine[t]

DecidedInv == \A t \in Tasks : pc[t] \in Decided => MineInv(t)

(* What a completed task claims it was credited with.                      *)
CreditInv ==
    /\ \A u \in Tasks : status[u] # "completed" => credit[u] = {}
    /\ \A i \in DOMAIN order : status[order[i]] = "completed"
    /\ \A u \in Tasks : status[u] = "completed" =>
          \A p \in Qualifying(evid[u]) : written[evid[u][p].stamp] \in credit[u]

(* If files are left alone while a completion is decided and are not       *)
(* touched while they are claimed: what a task was credited with it still  *)
(* claims, or the file was written since.                                  *)
Kept(u, p) ==
    /\ evid[u][p] # None /\ evid[u][p].before # evid[u][p].sha
    /\ written[files[p].stamp] = written[evid[u][p].stamp]
            => files[p].stamp = evid[u][p].stamp

QuietInv ==
    /\ \A t \in Tasks : pc[t] \in Decided => mine[t] = ClaimsOf(evid[t])
    /\ \A t \in Tasks : pc[t] = "mark" => mine[t] \ Elsewhere(t) # {}
    /\ \A u \in Tasks : status[u] = "completed" =>
          \A w \in credit[u] : \E p \in Paths : Kept(u, p) /\ w = written[evid[u][p].stamp]
-----------------------------------------------------------------------------
(* Type correctness.                                                       *)

LEMMA InitType == Init => TypeInv
<1> SUFFICES ASSUME Init
             PROVE  TypeInv
  OBVIOUS
<1>1. Unwritten \in [Paths -> Contents \cup {None}] /\ Unwritten \in [Paths -> Evidence \cup {None}]
  BY DEF Unwritten
<1>2. {} \in SUBSET (Paths \X Contents) /\ {} \in SUBSET Nat /\ <<>> \in Seq(Tasks)
  OBVIOUS
<1>3. /\ seen \in [Tasks -> [Paths -> Contents \cup {None}]]
      /\ evid \in [Tasks -> [Paths -> Evidence \cup {None}]]
      /\ candidate \in [Tasks -> [Paths -> Evidence \cup {None}]]
      /\ mine \in [Tasks -> SUBSET (Paths \X Contents)] /\ credit \in [Tasks -> SUBSET Nat]
  BY <1>1, <1>2 DEF Init
<1>4. files \in [Paths -> [sha : Contents, stamp : Nat]]
  BY DEF Init
<1>5. written \in [0 .. MaxStamp -> Nat] /\ stamps \in 0 .. MaxStamp
  BY DEF Init
<1>6. /\ {sensed, used} \subseteq [Tasks -> Configs \cup {None}]
      /\ {configLock, harnessLock} \subseteq Tasks \cup {None}
  BY DEF Init
<1>7. /\ status \in [Tasks -> {"active", "paused", "stopped", "completed"}]
      /\ pc \in [Tasks -> Places] /\ config \in Configs /\ stop \in BOOLEAN /\ order \in Seq(Tasks)
  BY <1>2 DEF Init, Places
<1> QED
  BY <1>3, <1>4, <1>5, <1>6, <1>7 DEF TypeInv, TypeOK

LEMMA EndsType ==
    ASSUME TypeInv, NEW t \in Tasks, Ends(t)
    PROVE  /\ pc' \in [Tasks -> Places] /\ used' \in [Tasks -> Configs \cup {None}]
           /\ candidate' \in [Tasks -> [Paths -> Evidence \cup {None}]]
           /\ mine' \in [Tasks -> SUBSET (Paths \X Contents)]
           /\ configLock' \in Tasks \cup {None} /\ harnessLock' \in Tasks \cup {None}
<1>1. Unwritten \in [Paths -> Evidence \cup {None}] /\ {} \in SUBSET (Paths \X Contents)
  BY DEF Unwritten
<1> QED
  BY <1>1 DEF Ends, Goto, TypeInv, TypeOK, Places

LEMMA AttachType ==
    ASSUME TypeInv, NEW t \in Tasks, NEW P \in SUBSET Paths
    PROVE  Attach(t, P) \in [Paths -> Evidence \cup {None}]
<1>1. ASSUME NEW p \in Paths, seen[t][p] # None
      PROVE  [sha |-> files[p].sha, stamp |-> files[p].stamp, before |-> seen[t][p]] \in Evidence
  BY <1>1 DEF Evidence, TypeInv, TypeOK
<1>2. \A p \in Paths : evid[t][p] \in Evidence \cup {None}
  BY DEF TypeInv, TypeOK
<1> QED
  BY <1>1, <1>2 DEF Attach

LEMMA ClaimsType ==
    ASSUME TypeInv, NEW E \in [Paths -> Evidence \cup {None}]
    PROVE  ClaimsOf(E) \subseteq Paths \X Contents
BY DEF ClaimsOf, Qualifying, Evidence

LEMMA WritesType ==
    ASSUME TypeInv, NEW t \in Tasks, NEW claims \in SUBSET (Paths \X Contents),
           \A c \in claims : evid[t][c[1]] # None /\ evid[t][c[1]].stamp <= MaxStamp
    PROVE  Writes(t, claims) \subseteq Nat
<1>1. ASSUME NEW c \in claims
      PROVE  written[evid[t][c[1]].stamp] \in Nat
  <2>1. c[1] \in Paths
    OBVIOUS
  <2>2. evid[t][c[1]].stamp \in 0 .. MaxStamp
    BY <2>1 DEF TypeInv, TypeOK, Evidence
  <2> QED
    BY <2>2 DEF TypeInv
<1> QED
  BY <1>1 DEF Writes

LEMMA MovesType ==
    ASSUME TypeInv, NEW t \in Tasks, NEW place \in Places, Goto(t, place)
    PROVE  pc' \in [Tasks -> Places]
BY DEF Goto, TypeInv, TypeOK

(* What checkpoints and operations do; the rest keeps its values.          *)
LEMMA StepType ==
    ASSUME TypeInv, EvidenceInv, SourceInv, DecidedInv, NEW t \in Tasks,
           Step(t) \/ Call(t) \/ Crash(t)
    PROVE  TypeInv'
<1> USE DEF project, locks, operation, history, checkpoints
<1>1. ASSUME Ends(t), UNCHANGED <<seen, evid, sensed, project, history>>,
             status' \in [Tasks -> {"active", "paused", "stopped", "completed"}]
      PROVE  TypeInv'
  BY <1>1, EndsType DEF TypeInv, TypeOK
<1>2. ASSUME NEW p \in Paths, Observe(t, p)
      PROVE  TypeInv'
  <2>1. [seen EXCEPT ![t][p] = files[p].sha] \in [Tasks -> [Paths -> Contents \cup {None}]]
    BY DEF TypeInv, TypeOK
  <2> QED
    BY <1>2, <2>1 DEF Observe, TypeInv, TypeOK
<1>3. ASSUME NEW P \in SUBSET Paths, Begin(t, P)
      PROVE  TypeInv'
  <2>1. Attach(t, P) \in [Paths -> Evidence \cup {None}]
    BY AttachType
  <2>2. pc' \in [Tasks -> Places]
    BY <1>3, MovesType DEF Begin, Places
  <2>3. used' \in [Tasks -> Configs \cup {None}]
    BY <1>3 DEF Begin, TypeInv, TypeOK
  <2>4. candidate' \in [Tasks -> [Paths -> Evidence \cup {None}]]
    BY <1>3, <2>1 DEF Begin, TypeInv, TypeOK
  <2> QED
    BY <1>3, <2>2, <2>3, <2>4 DEF Begin, TypeInv, TypeOK
<1>4. CASE StartSensors(t)
  <2>1. pc' \in [Tasks -> Places]
    BY <1>4, MovesType DEF StartSensors, Places
  <2> QED
    BY <1>4, <2>1 DEF StartSensors, TypeInv, TypeOK
<1>5. CASE RefuseSensors(t)
  BY <1>1, <1>5 DEF RefuseSensors, TypeInv, TypeOK
<1>6. CASE SensorsPass(t)
  <2>1. pc' \in [Tasks -> Places]
    BY <1>6, MovesType DEF SensorsPass, Places
  <2>2. sensed' \in [Tasks -> Configs \cup {None}]
    BY <1>6 DEF SensorsPass, TypeInv, TypeOK
  <2> QED
    BY <1>6, <2>1, <2>2 DEF SensorsPass, TypeInv, TypeOK
<1>7. CASE SensorsFail(t)
  BY <1>1, <1>7 DEF SensorsFail, TypeInv, TypeOK
<1>8. CASE SaveCandidate(t)
  <2>1. pc' \in [Tasks -> Places]
    BY <1>8, MovesType DEF SaveCandidate, Places
  <2> QED
    BY <1>8, <2>1 DEF SaveCandidate, TypeInv, TypeOK
<1>9. CASE LockConfiguration(t)
  <2>1. pc' \in [Tasks -> Places]
    BY <1>9, MovesType DEF LockConfiguration, Places
  <2> QED
    BY <1>9, <2>1 DEF LockConfiguration, TypeInv, TypeOK
<1>10. CASE LockHarness(t)
  <2>1. pc' \in [Tasks -> Places]
    BY <1>10, MovesType DEF LockHarness, Places, Deciding
  <2> QED
    BY <1>10, <2>1 DEF LockHarness, TypeInv, TypeOK
<1>11. CASE Check(t)
  <2>1. pc' \in [Tasks -> Places]
    BY <1>11, MovesType DEF Check, Places, Deciding
  <2>2. ClaimsOf(evid[t]) \in SUBSET (Paths \X Contents)
    BY ClaimsType DEF TypeInv, TypeOK
  <2>3. mine' \in [Tasks -> SUBSET (Paths \X Contents)]
    BY <1>11, <2>2 DEF Check, TypeInv, TypeOK
  <2> QED
    BY <1>11, <2>1, <2>3 DEF Check, TypeInv, TypeOK
<1>12. CASE CheckOthers(t)
  <2>1. pc' \in [Tasks -> Places]
    BY <1>12, MovesType DEF CheckOthers, Places, Deciding
  <2> QED
    BY <1>12, <2>1 DEF CheckOthers, TypeInv, TypeOK
<1>13. CASE Refuse(t)
  BY <1>1, <1>13 DEF Refuse, TypeInv, TypeOK
<1>14. CASE MarkCompleted(t)
  <2>1. \A c \in mine[t] : c[1] \in Paths /\ evid[t][c[1]] # None
    BY <1>14 DEF MarkCompleted, DecidedInv, MineInv, Decided, TypeInv, TypeOK
  <2>2. ASSUME NEW c \in mine[t]
        PROVE  evid[t][c[1]].stamp <= MaxStamp
    <3>1. evid[t][c[1]] \in Evidence /\ evid[t][c[1]].stamp <= stamps
      BY <2>1 DEF EvidenceInv, Genuine, TypeInv, TypeOK
    <3>2. evid[t][c[1]].stamp \in Nat /\ stamps \in 0 .. MaxStamp
      BY <3>1 DEF Evidence, TypeInv, TypeOK
    <3> QED
      BY <3>1, <3>2
  <2>3. Writes(t, mine[t]) \subseteq Nat
    BY <2>1, <2>2, WritesType DEF TypeInv, TypeOK
  <2>4. credit' \in [Tasks -> SUBSET Nat] /\ order' \in Seq(Tasks)
    BY <1>14, <2>3 DEF MarkCompleted, TypeInv
  <2>5. status' \in [Tasks -> {"active", "paused", "stopped", "completed"}]
    BY <1>14 DEF MarkCompleted, TypeInv, TypeOK
  <2> QED
    BY <1>14, <2>4, <2>5, EndsType DEF MarkCompleted, TypeInv, TypeOK
<1>15. CASE Crash(t)
  BY <1>1, <1>15 DEF Crash, TypeInv, TypeOK
<1>16. CASE Reactivate(t) \/ StopTask(t)
  BY <1>16 DEF Reactivate, StopTask, TypeInv, TypeOK
<1> QED
  BY <1>2, <1>3, <1>4, <1>5, <1>6, <1>7, <1>8, <1>9, <1>10, <1>11, <1>12, <1>13, <1>14, <1>15,
     <1>16 DEF Step, Call

LEMMA WriteFileType ==
    ASSUME TypeInv, SourceInv, NEW p \in Paths, NEW c \in Contents, WriteFile(p, c)
    PROVE  TypeInv'
<1>1. stamps \in Nat /\ stamps < MaxStamp /\ stamps' = stamps + 1 /\ files[p].stamp \in Nat
  BY DEF WriteFile, TypeInv, TypeOK
<1>2. files[p].stamp \in 0 .. MaxStamp
  BY <1>1 DEF SourceInv
<1>3. written' \in [0 .. MaxStamp -> Nat]
  BY <1>1, <1>2 DEF WriteFile, TypeInv
<1>4. files' \in [Paths -> [sha : Contents, stamp : Nat]]
  BY <1>1 DEF WriteFile, TypeInv, TypeOK
<1>5. stamps' \in 0 .. MaxStamp
  BY <1>1
<1> QED
  BY <1>3, <1>4, <1>5
  DEF WriteFile, TypeInv, TypeOK, checkpoints, locks, operation, history

LEMMA ProjectType ==
    ASSUME TypeInv, ReplaceConfig \/ (\E s \in BOOLEAN : SetStop(s))
    PROVE  TypeInv'
BY DEF ReplaceConfig, SetStop, TypeInv, TypeOK, checkpoints, locks, operation, history
-----------------------------------------------------------------------------
(* An operation touches nothing of another task's, and no project file.    *)
LEMMA OthersUntouched ==
    ASSUME TypeInv, NEW t \in Tasks, NEW u \in Tasks, t # u, Step(t) \/ Call(t) \/ Crash(t)
    PROVE  /\ pc'[u] = pc[u] /\ status'[u] = status[u] /\ seen'[u] = seen[u]
           /\ evid'[u] = evid[u] /\ sensed'[u] = sensed[u] /\ candidate'[u] = candidate[u]
           /\ mine'[u] = mine[u] /\ credit'[u] = credit[u]
<1> USE DEF TypeInv, TypeOK, checkpoints, project, locks, operation, history, Goto, Ends
<1>1. CASE StartSensors(t) \/ RefuseSensors(t) \/ SensorsPass(t) \/ SensorsFail(t)
  BY <1>1 DEF StartSensors, RefuseSensors, SensorsPass, SensorsFail
<1>2. CASE SaveCandidate(t) \/ LockConfiguration(t) \/ LockHarness(t)
  BY <1>2 DEF SaveCandidate, LockConfiguration, LockHarness
<1>3. CASE Check(t) \/ CheckOthers(t) \/ Refuse(t)
  BY <1>3 DEF Check, CheckOthers, Refuse
<1>4. CASE MarkCompleted(t)
  BY <1>4 DEF MarkCompleted
<1>5. CASE Call(t) \/ Crash(t)
  BY <1>5 DEF Call, Crash, Observe, Begin, Reactivate, StopTask
<1> QED
  BY <1>1, <1>2, <1>3, <1>4, <1>5 DEF Step

LEMMA ProjectUntouched ==
    ASSUME NEW t \in Tasks, Step(t) \/ Call(t) \/ Crash(t)
    PROVE  UNCHANGED <<files, stamps, config, stop, written>>
<1> USE DEF project
<1>1. CASE Step(t)
  BY <1>1 DEF Step, StartSensors, RefuseSensors, SensorsPass, SensorsFail, SaveCandidate,
              LockConfiguration, LockHarness, Check, CheckOthers, Refuse, MarkCompleted
<1> QED
  BY <1>1 DEF Call, Crash, Observe, Begin, Reactivate, StopTask

(* What an operation does to its own task, by where it is.                 *)
LEMMA OwnCheckpoint ==
    ASSUME TypeInv, NEW t \in Tasks, Step(t) \/ Call(t) \/ Crash(t)
    PROVE  /\ status'[t] = "completed" => status[t] = "completed" \/ MarkCompleted(t)
           /\ status[t] = "completed" => status'[t] = "completed" \/ pc[t] # "idle"
           /\ evid'[t] = evid[t] \/ SaveCandidate(t)
           /\ credit'[t] = credit[t] \/ MarkCompleted(t)
           /\ pc'[t] \in Decided => Check(t) \/ CheckOthers(t) \/ (pc[t] = pc'[t] /\ Call(t))
           /\ pc'[t] # "idle" => \/ status'[t] = status[t] /\ pc[t] # "idle"
                                 \/ pc[t] = "idle" /\ status'[t] = "active"
                                 \/ pc'[t] = pc[t] /\ Call(t)
<1> USE DEF checkpoints, project, locks, operation, history
<1>1. CASE StartSensors(t) \/ RefuseSensors(t) \/ SensorsPass(t) \/ SensorsFail(t)
  BY <1>1 DEF Goto, Ends, Decided, TypeInv, TypeOK, StartSensors,
              RefuseSensors, SensorsPass, SensorsFail
<1>2. CASE SaveCandidate(t) \/ LockConfiguration(t) \/ LockHarness(t)
  BY <1>2 DEF Goto, Ends, Decided, TypeInv, TypeOK, SaveCandidate, LockConfiguration, LockHarness
<1>3. CASE Check(t) \/ CheckOthers(t)
  <2>1. pc[t] # "idle" /\ UNCHANGED <<status, evid, credit>>
    BY <1>3 DEF Check, CheckOthers
  <2> QED
    BY <1>3, <2>1 DEF Goto
<1>6. CASE Refuse(t)
  BY <1>6 DEF Goto, Ends, Decided, TypeInv, TypeOK, Refuse
<1>4. CASE MarkCompleted(t)
  BY <1>4 DEF Goto, Ends, Decided, TypeInv, TypeOK, MarkCompleted
<1>5. CASE Call(t) \/ Crash(t)
  BY <1>5 DEF Goto, Ends, Decided, TypeInv, TypeOK, Call, Crash, Observe, Begin, Reactivate, StopTask
<1> QED
  BY <1>1, <1>2, <1>3, <1>4, <1>5, <1>6 DEF Step
-----------------------------------------------------------------------------
(* The locks.                                                              *)
LEMMA LockStep ==
    ASSUME TypeInv, LockInv, NEW t \in Tasks, Step(t) \/ Call(t) \/ Crash(t)
    PROVE  LockInv'
<1> USE DEF TypeInv, TypeOK, checkpoints, project, locks, operation, history, Goto, Ends, Deciding,
        ConfigPlaces, LockInv
<1>1. ASSUME NEW u \in Tasks, u # t
      PROVE  (configLock' = u <=> configLock = u) /\ (harnessLock' = u <=> harnessLock = u)
  <2>1. CASE StartSensors(t) \/ RefuseSensors(t) \/ SensorsPass(t) \/ SensorsFail(t)
    BY <1>1, <2>1 DEF StartSensors, RefuseSensors, SensorsPass, SensorsFail
  <2>2. CASE SaveCandidate(t) \/ LockConfiguration(t) \/ LockHarness(t)
    BY <1>1, <2>2 DEF SaveCandidate, LockConfiguration, LockHarness
  <2>3. CASE Check(t) \/ CheckOthers(t) \/ Refuse(t) \/ MarkCompleted(t)
    BY <1>1, <2>3 DEF Check, CheckOthers, Refuse, MarkCompleted
  <2>4. CASE Call(t) \/ Crash(t)
    BY <1>1, <2>4 DEF Call, Crash, Observe, Begin, Reactivate, StopTask
  <2> QED
    BY <2>1, <2>2, <2>3, <2>4 DEF Step
<1>2. (configLock' = t <=> pc'[t] \in ConfigPlaces) /\ (harnessLock' = t <=> pc'[t] \in Deciding)
  <2>1. CASE StartSensors(t) \/ RefuseSensors(t) \/ SensorsPass(t) \/ SensorsFail(t)
    BY <2>1 DEF StartSensors, RefuseSensors, SensorsPass, SensorsFail
  <2>2. CASE SaveCandidate(t) \/ LockConfiguration(t) \/ LockHarness(t)
    BY <2>2 DEF SaveCandidate, LockConfiguration, LockHarness
  <2>3. CASE Check(t) \/ CheckOthers(t) \/ Refuse(t) \/ MarkCompleted(t)
    BY <2>3 DEF Check, CheckOthers, Refuse, MarkCompleted
  <2>4. CASE Call(t) \/ Crash(t)
    BY <2>4 DEF Call, Crash, Observe, Begin, Reactivate, StopTask
  <2> QED
    BY <2>1, <2>2, <2>3, <2>4 DEF Step
<1>3. \A u \in Tasks \ {t} : pc'[u] = pc[u]
  BY OthersUntouched
<1> QED
  BY <1>1, <1>2, <1>3

(* Two tasks are never at the final decision together.                     *)
LEMMA OneDecides ==
    ASSUME LockInv, NEW t \in Tasks, NEW u \in Tasks, pc[t] \in Deciding, pc[u] \in Deciding
    PROVE  t = u
BY DEF LockInv
-----------------------------------------------------------------------------
(* Work is an active task's, and what the last check found still holds.    *)
LEMMA WorkStep ==
    ASSUME TypeInv, LockInv, WorkInv, NEW t \in Tasks, Step(t) \/ Call(t) \/ Crash(t)
    PROVE  WorkInv'
<1>1. UNCHANGED <<config, stop>>
  BY ProjectUntouched
<1>2. ASSUME NEW u \in Tasks, u # t
      PROVE  pc'[u] = pc[u] /\ status'[u] = status[u] /\ sensed'[u] = sensed[u]
  BY <1>2, OthersUntouched
<1>3. pc'[t] # "idle" => status'[t] = "active"
  <2>1. pc[t] # "idle" => ~Call(t)
    BY DEF Call, Observe, Begin, Reactivate, StopTask
  <2>2. Call(t) /\ pc'[t] = pc[t] => pc'[t] = "idle"
    BY <2>1
  <2> QED
    BY <2>2, OwnCheckpoint DEF WorkInv
<1>4. pc'[t] \in Decided => sensed'[t] = config /\ ~stop
  <2>1. CASE Check(t)
    BY <2>1 DEF Check, StillValid, checkpoints, project
  <2>2. CASE CheckOthers(t)
    BY <2>2 DEF CheckOthers, checkpoints, project, WorkInv, Decided
  <2>3. CASE pc[t] = pc'[t] /\ Call(t)
    BY <2>3 DEF Call, Observe, Begin, Reactivate, StopTask, Decided, Goto, TypeInv, TypeOK
  <2> QED
    BY <2>1, <2>2, <2>3, OwnCheckpoint
<1> QED
  BY <1>1, <1>2, <1>3, <1>4 DEF WorkInv

(* While something is decided neither the configuration is replaced nor a  *)
(* stop raised.                                                            *)
LEMMA WorkProject ==
    ASSUME TypeInv, LockInv, WorkInv, ReplaceConfig \/ (\E s \in BOOLEAN : SetStop(s))
    PROVE  WorkInv'
<1>1. UNCHANGED <<checkpoints, operation>>
  BY DEF ReplaceConfig, SetStop
<1>2. configLock = None \/ harnessLock = None
  BY DEF ReplaceConfig, SetStop
<1>3. \A t \in Tasks : pc[t] \notin Decided
  BY <1>2 DEF LockInv, ConfigPlaces, Deciding, Decided
<1> QED
  BY <1>1, <1>3 DEF WorkInv, checkpoints, operation

LEMMA WorkWrite ==
    ASSUME WorkInv, LockInv, NEW p \in Paths, NEW c \in Contents, WriteFile(p, c)
    PROVE  WorkInv' /\ LockInv'
BY DEF WriteFile, WorkInv, LockInv, checkpoints, locks, operation

LEMMA LockProject ==
    ASSUME LockInv, ReplaceConfig \/ (\E s \in BOOLEAN : SetStop(s))
    PROVE  LockInv'
BY DEF ReplaceConfig, SetStop, LockInv, locks, operation
-----------------------------------------------------------------------------
(* What the project's files come from.                                     *)
LEMMA WrittenTyped ==
    ASSUME TypeInv, SourceInv
    PROVE  /\ \A n \in 0 .. stamps : written[n] \in Nat /\ written[n] <= n
           /\ \A p \in Paths : /\ files[p].stamp \in 0 .. stamps
                               /\ written[files[p].stamp] \in Nat
                               /\ written[files[p].stamp] <= stamps
<1>1. stamps \in Nat /\ stamps <= MaxStamp
  BY DEF TypeInv, TypeOK
<1>2. ASSUME NEW n \in 0 .. stamps
      PROVE  written[n] \in Nat /\ written[n] <= n
  BY <1>1 DEF TypeInv, SourceInv
<1>3. ASSUME NEW p \in Paths
      PROVE  files[p].stamp \in 0 .. stamps
  <2>1. files[p].stamp \in Nat
    BY DEF TypeInv, TypeOK
  <2> QED
    BY <1>1, <2>1 DEF SourceInv
<1>4. ASSUME NEW p \in Paths
      PROVE  written[files[p].stamp] \in Nat /\ written[files[p].stamp] <= stamps
  <2>1. /\ written[files[p].stamp] \in Nat /\ written[files[p].stamp] <= files[p].stamp
        /\ files[p].stamp \in Nat /\ files[p].stamp <= stamps
    BY <1>2, <1>3
  <2> QED
    BY <1>1, <2>1
<1> QED
  BY <1>2, <1>3, <1>4

(* A write gives the file a stamp nobody has seen, and a source of its own *)
(* unless the content is what it was.                                      *)
LEMMA FreshWrite ==
    ASSUME TypeInv, SourceInv, NEW p \in Paths, NEW c \in Contents, WriteFile(p, c)
    PROVE  /\ stamps \in Nat /\ stamps' = stamps + 1
           /\ files'[p].sha = c /\ files'[p].stamp = stamps + 1
           /\ \A q \in Paths : q # p => files'[q] = files[q]
           /\ \A n \in 0 .. stamps : written'[n] = written[n]
           /\ c = files[p].sha => written'[files'[p].stamp] = written[files[p].stamp]
           /\ c # files[p].sha => written'[files'[p].stamp] = stamps + 1
<1>1. /\ stamps \in Nat /\ stamps < MaxStamp /\ stamps' = stamps + 1
      /\ files' = [files EXCEPT ![p] = [sha |-> c, stamp |-> stamps + 1]]
      /\ written' = [written EXCEPT ![stamps + 1] =
                        IF c = files[p].sha THEN written[files[p].stamp] ELSE stamps + 1]
  BY DEF WriteFile, TypeInv, TypeOK
<1>2. files'[p].sha = c /\ files'[p].stamp = stamps + 1
  BY <1>1 DEF TypeInv, TypeOK
<1>3. \A q \in Paths : q # p => files'[q] = files[q]
  BY <1>1 DEF TypeInv, TypeOK
<1>4. \A n \in 0 .. stamps : written'[n] = written[n]
  BY <1>1 DEF TypeInv
<1>5. written'[stamps + 1] = IF c = files[p].sha THEN written[files[p].stamp] ELSE stamps + 1
  BY <1>1 DEF TypeInv
<1> QED
  BY <1>1, <1>2, <1>3, <1>4, <1>5

LEMMA SourceWrite ==
    ASSUME TypeInv, SourceInv, NEW p \in Paths, NEW c \in Contents, WriteFile(p, c)
    PROVE  SourceInv'
<1>1. /\ stamps \in Nat /\ stamps' = stamps + 1
      /\ files'[p].sha = c /\ files'[p].stamp = stamps + 1
      /\ \A q \in Paths : q # p => files'[q] = files[q]
      /\ \A n \in 0 .. stamps : written'[n] = written[n]
      /\ c = files[p].sha => written'[files'[p].stamp] = written[files[p].stamp]
      /\ c # files[p].sha => written'[files'[p].stamp] = stamps + 1
  BY FreshWrite
<1>2. /\ \A n \in 0 .. stamps : written[n] \in Nat /\ written[n] <= n
      /\ \A q \in Paths : /\ files[q].stamp \in 0 .. stamps
                          /\ written[files[q].stamp] \in Nat
                          /\ written[files[q].stamp] <= stamps
  BY WrittenTyped
<1>3. \A q \in Paths : q # p => written'[files'[q].stamp] = written[files[q].stamp]
  BY <1>1, <1>2
<1>4. ASSUME NEW n \in 0 .. stamps'
      PROVE  written'[n] <= n
  <2>1. CASE n \in 0 .. stamps
    BY <1>1, <1>2, <2>1
  <2>2. CASE n = stamps + 1
    <3>1. written'[n] = written[files[p].stamp] \/ written'[n] = stamps + 1
      BY <1>1, <2>2
    <3> QED
      BY <1>1, <1>2, <2>2, <3>1
  <2> QED
    BY <1>1, <2>1, <2>2
<1>5. ASSUME NEW q \in Paths
      PROVE  files'[q].stamp <= stamps'
  <2>1. files'[q].stamp = stamps + 1 \/ files'[q].stamp \in 0 .. stamps
    BY <1>1, <1>2
  <2> QED
    BY <1>1, <2>1
<1>6. ASSUME NEW q \in Paths, NEW r \in Paths,
             written'[files'[q].stamp] # 0,
             written'[files'[q].stamp] = written'[files'[r].stamp]
      PROVE  q = r
  <2>1. \A s \in Paths : written[files[s].stamp] # stamps + 1
    BY <1>1, <1>2
  <2>2. \A s \in Paths : \/ written'[files'[s].stamp] = written[files[s].stamp]
                         \/ s = p /\ written'[files'[s].stamp] = stamps + 1
    BY <1>1, <1>3
  <2> QED
    BY <1>6, <2>1, <2>2 DEF SourceInv
<1>7. ASSUME NEW t \in Tasks, NEW q \in Paths, seen'[t][q] # None, written'[files'[q].stamp] = 0
      PROVE  seen'[t][q] = files'[q].sha
  <2>1. seen' = seen
    BY DEF WriteFile, checkpoints
  <2>2. CASE q # p
    BY <1>1, <1>3, <1>7, <2>1, <2>2 DEF SourceInv
  <2>3. CASE q = p
    <3>1. c = files[p].sha
      BY <1>1, <1>7, <2>3
    <3> QED
      BY <1>1, <1>7, <2>1, <2>3, <3>1 DEF SourceInv
  <2> QED
    BY <2>2, <2>3
<1> QED
  BY <1>4, <1>5, <1>6, <1>7 DEF SourceInv

LEMMA SourceStep ==
    ASSUME TypeInv, SourceInv, NEW t \in Tasks, Step(t) \/ Call(t) \/ Crash(t)
    PROVE  SourceInv'
<1>1. UNCHANGED <<files, stamps, config, stop, written>>
  BY ProjectUntouched
<1>2. CASE seen' = seen
  BY <1>1, <1>2 DEF SourceInv
<1>3. ASSUME NEW p \in Paths, Observe(t, p)
      PROVE  SourceInv'
  <2>1. seen' = [seen EXCEPT ![t][p] = files[p].sha]
    BY <1>3 DEF Observe
  <2>2. \A u \in Tasks, q \in Paths : seen'[u][q] = seen[u][q] \/ seen'[u][q] = files[q].sha
    BY <2>1 DEF TypeInv, TypeOK
  <2> QED
    BY <1>1, <2>2 DEF SourceInv
<1>4. seen' = seen \/ \E p \in Paths : Observe(t, p)
  <2> USE DEF checkpoints
  <2>1. CASE Step(t)
    BY <2>1 DEF Step, StartSensors, RefuseSensors, SensorsPass, SensorsFail, SaveCandidate,
                LockConfiguration, LockHarness, Check, CheckOthers, Refuse, MarkCompleted
  <2> QED
    BY <2>1 DEF Call, Crash, Begin, Reactivate, StopTask
<1> QED
  BY <1>2, <1>3, <1>4
-----------------------------------------------------------------------------
(* Evidence of a changed file names a write of that file.                  *)

LEMMA AttachGenuine ==
    ASSUME TypeInv, SourceInv, EvidenceInv, NEW t \in Tasks, NEW P \in SUBSET Paths, NEW p \in Paths,
           Attach(t, P)[p] # None
    PROVE  Genuine(p, Attach(t, P)[p])
<1>1. CASE ~(p \in P /\ seen[t][p] # None)
  BY <1>1 DEF Attach, EvidenceInv
<1>2. CASE p \in P /\ seen[t][p] # None
  <2>1. Attach(t, P)[p] =
            [sha |-> files[p].sha, stamp |-> files[p].stamp, before |-> seen[t][p]]
    BY <1>2 DEF Attach
  <2>2. /\ Attach(t, P)[p].sha = files[p].sha /\ Attach(t, P)[p].stamp = files[p].stamp
        /\ Attach(t, P)[p].before = seen[t][p]
    BY <2>1
  <2> QED
    BY <1>2, <2>2 DEF Genuine, SourceInv
<1> QED
  BY <1>1, <1>2

LEMMA EvidenceStep ==
    ASSUME TypeInv, SourceInv, EvidenceInv, NEW t \in Tasks, Step(t) \/ Call(t) \/ Crash(t)
    PROVE  EvidenceInv'
<1>1. UNCHANGED <<files, stamps, config, stop, written>>
  BY ProjectUntouched
<1>2. \A p \in Paths : \A e : Genuine(p, e)' <=> Genuine(p, e)
  BY <1>1 DEF Genuine
<1>3. \A u \in Tasks \ {t} : evid'[u] = evid[u] /\ candidate'[u] = candidate[u]
  BY OthersUntouched
<1>4. evid'[t] = evid[t] \/ evid'[t] = candidate[t]
  BY OwnCheckpoint DEF SaveCandidate, TypeInv, TypeOK
<1>5. \/ candidate'[t] = candidate[t] \/ candidate'[t] = Unwritten
      \/ \E P \in SUBSET Paths : candidate'[t] = Attach(t, P)
  <2> USE DEF TypeInv, TypeOK, checkpoints, project, locks, operation, history, Ends
  <2>1. CASE StartSensors(t) \/ RefuseSensors(t) \/ SensorsPass(t) \/ SensorsFail(t)
    BY <2>1 DEF StartSensors, RefuseSensors, SensorsPass, SensorsFail
  <2>2. CASE SaveCandidate(t) \/ LockConfiguration(t) \/ LockHarness(t)
    BY <2>2 DEF SaveCandidate, LockConfiguration, LockHarness
  <2>3. CASE Check(t) \/ CheckOthers(t) \/ Refuse(t) \/ MarkCompleted(t) \/ Crash(t)
    BY <2>3 DEF Check, CheckOthers, Refuse, MarkCompleted, Crash
  <2>4. CASE Call(t)
    BY <2>4 DEF Call, Observe, Begin, Reactivate, StopTask
  <2> QED
    BY <2>1, <2>2, <2>3, <2>4 DEF Step
<1>6. \A p \in Paths : candidate'[t][p] # None => Genuine(p, candidate'[t][p])
  BY <1>5, AttachGenuine DEF EvidenceInv, Unwritten
<1>7. \A p \in Paths : evid'[t][p] # None => Genuine(p, evid'[t][p])
  BY <1>4 DEF EvidenceInv
<1>8. ASSUME NEW u \in Tasks, NEW p \in Paths
      PROVE  /\ evid'[u][p] # None => Genuine(p, evid'[u][p])
             /\ candidate'[u][p] # None => Genuine(p, candidate'[u][p])
  BY <1>3, <1>6, <1>7 DEF EvidenceInv
<1>9. ASSUME NEW u \in Tasks, NEW p \in Paths
      PROVE  /\ Genuine(p, evid'[u][p]) => Genuine(p, evid[u][p])'
             /\ Genuine(p, candidate'[u][p]) => Genuine(p, candidate[u][p])'
  BY <1>1 DEF Genuine
<1> QED
  BY <1>8, <1>9 DEF EvidenceInv

LEMMA EvidenceWrite ==
    ASSUME TypeInv, SourceInv, EvidenceInv, NEW p \in Paths, NEW c \in Contents, WriteFile(p, c)
    PROVE  EvidenceInv'
<1>1. /\ stamps \in Nat /\ stamps' = stamps + 1
      /\ files'[p].sha = c /\ files'[p].stamp = stamps + 1
      /\ \A q \in Paths : q # p => files'[q] = files[q]
      /\ \A n \in 0 .. stamps : written'[n] = written[n]
      /\ c = files[p].sha => written'[files'[p].stamp] = written[files[p].stamp]
      /\ c # files[p].sha => written'[files'[p].stamp] = stamps + 1
  BY FreshWrite
<1>2. /\ \A n \in 0 .. stamps : written[n] \in Nat /\ written[n] <= n
      /\ \A q \in Paths : files[q].stamp \in 0 .. stamps
  BY WrittenTyped
<1>3. ASSUME NEW q \in Paths, NEW e \in Evidence, Genuine(q, e)
      PROVE  /\ e.stamp <= stamps'
             /\ written'[e.stamp] = 0 => e.before = e.sha
             /\ \A r \in Paths :
                   written'[e.stamp] # 0 /\ written'[e.stamp] = written'[files'[r].stamp]
                      => r = q /\ files'[q].sha = e.sha
  <2>1. e.stamp \in 0 .. stamps
    BY <1>1, <1>3 DEF Genuine, Evidence
  <2>2. written'[e.stamp] = written[e.stamp] /\ written[e.stamp] # stamps + 1
    BY <1>1, <1>2, <2>1
  <2>3. ASSUME NEW r \in Paths,
               written'[e.stamp] # 0, written'[e.stamp] = written'[files'[r].stamp]
        PROVE  r = q /\ files'[q].sha = e.sha
    <3>1. CASE r # p
      <4>1. files'[r] = files[r] /\ written'[files'[r].stamp] = written[files[r].stamp]
        BY <1>1, <1>2, <3>1
      <4> QED
        BY <1>3, <2>2, <2>3, <4>1 DEF Genuine
    <3>2. CASE r = p
      <4>1. c = files[p].sha /\ written[e.stamp] = written[files[r].stamp]
        BY <1>1, <2>2, <2>3, <3>2
      <4> QED
        BY <1>1, <1>3, <2>2, <2>3, <3>2, <4>1 DEF Genuine
    <3> QED
      BY <3>1, <3>2
  <2> QED
    BY <1>1, <1>3, <2>1, <2>2, <2>3 DEF Genuine
<1>4. evid' = evid /\ candidate' = candidate
  BY DEF WriteFile, checkpoints, operation
<1>5. ASSUME NEW t \in Tasks, NEW q \in Paths
      PROVE  /\ evid[t][q] # None => evid[t][q] \in Evidence
             /\ candidate[t][q] # None => candidate[t][q] \in Evidence
  BY DEF TypeInv, TypeOK
<1> QED
  BY <1>3, <1>4, <1>5 DEF EvidenceInv, Genuine

LEMMA SourceProject ==
    ASSUME SourceInv, EvidenceInv, ReplaceConfig \/ (\E s \in BOOLEAN : SetStop(s))
    PROVE  SourceInv' /\ EvidenceInv'
BY DEF ReplaceConfig, SetStop, SourceInv, EvidenceInv, Genuine, checkpoints, operation
-----------------------------------------------------------------------------
(* The decision: what is claimed, by whom, and for which writes.           *)

LEMMA StaysCompleted ==
    ASSUME TypeInv, WorkInv, NEW t \in Tasks, Step(t) \/ Call(t) \/ Crash(t), NEW u \in Tasks
    PROVE  /\ status[u] = "completed" => status'[u] = "completed" /\ evid'[u] = evid[u]
           /\ status[u] = "completed" => credit'[u] = credit[u]
           /\ status'[u] = "completed" /\ status[u] # "completed" => u = t /\ MarkCompleted(t)
<1>1. CASE u # t
  BY <1>1, OthersUntouched
<1>2. CASE u = t
  <2>1. status[t] = "completed" => pc[t] = "idle"
    BY DEF WorkInv
  <2>2. ~MarkCompleted(t) \/ status[t] # "completed"
    BY <2>1 DEF MarkCompleted
  <2>3. ~SaveCandidate(t) \/ status[t] # "completed"
    BY <2>1 DEF SaveCandidate
  <2> QED
    BY <1>2, <2>1, <2>2, <2>3, OwnCheckpoint
<1> QED
  BY <1>1, <1>2

LEMMA DecidedStep ==
    ASSUME TypeInv, LockInv, WorkInv, DecidedInv, NEW t \in Tasks, Step(t) \/ Call(t) \/ Crash(t)
    PROVE  DecidedInv'
<1>1. UNCHANGED <<files, stamps, config, stop, written>>
  BY ProjectUntouched
<1>2. ASSUME NEW u \in Tasks, pc[u] \in Decided, pc'[u] \in Decided, ~MarkCompleted(t)
      PROVE  evid'[u] = evid[u] /\ mine'[u] = mine[u]
  <2>1. CASE u # t
    BY <2>1, OthersUntouched
  <2>2. CASE u = t
    <3>1. ~Check(t) /\ ~Call(t) /\ ~SaveCandidate(t)
      BY <1>2, <2>2 DEF Check, Call, Observe, Begin, Reactivate, StopTask, SaveCandidate, Decided
    <3>2. CheckOthers(t)
      BY <1>2, <2>2, <3>1, OwnCheckpoint
    <3> QED
      BY <2>2, <3>2 DEF CheckOthers, checkpoints
  <2> QED
    BY <2>1, <2>2
<1>3. ASSUME NEW u \in Tasks, pc[u] \in Decided, pc'[u] \in Decided
      PROVE  ~MarkCompleted(t)
  <2>1. CASE u = t
    BY <1>3, <2>1 DEF MarkCompleted, Ends, Goto, Decided, TypeInv, TypeOK
  <2>2. CASE u # t
    BY <1>3, <2>2, OneDecides DEF MarkCompleted, Decided, Deciding
  <2> QED
    BY <2>1, <2>2
<1>4. ASSUME NEW E
      PROVE  ClaimsOf(E)' = ClaimsOf(E)
  BY <1>1 DEF ClaimsOf, Qualifying, Current
<1>5. ASSUME NEW u \in Tasks, pc[u] \in Decided, pc'[u] \in Decided
      PROVE  MineInv(u)'
  <2>1. MineInv(u) /\ evid'[u] = evid[u] /\ mine'[u] = mine[u]
    BY <1>2, <1>3, <1>5 DEF DecidedInv
  <2>2. \A v \in Tasks : status'[v] = "completed" => status[v] = "completed" /\ evid'[v] = evid[v]
    BY <1>3, <1>5, StaysCompleted
  <2>3. ClaimsOf(evid[u])' = ClaimsOf(evid[u])
    BY <1>1, <2>1 DEF ClaimsOf, Qualifying, Current
  <2> QED
    BY <1>1, <2>1, <2>2, <2>3 DEF MineInv
<1>6. ASSUME Check(t)
      PROVE  MineInv(t)'
  <2>1. mine'[t] = ClaimsOf(evid[t]) /\ evid' = evid /\ Qualifying(evid[t]) # {}
    BY <1>6 DEF Check, StillValid, checkpoints, TypeInv, TypeOK
  <2>2. ClaimsOf(evid[t]) # {}
    BY <2>1 DEF ClaimsOf
  <2>3. \A c \in ClaimsOf(evid[t]) : /\ evid[t][c[1]] # None /\ c[2] = evid[t][c[1]].sha
                                     /\ files[c[1]].stamp = evid[t][c[1]].stamp
    BY DEF ClaimsOf, Qualifying, Current
  <2>4. ClaimsOf(evid[t])' = ClaimsOf(evid[t])
    BY <1>1, <2>1 DEF ClaimsOf, Qualifying, Current
  <2> QED
    BY <1>1, <2>1, <2>2, <2>3, <2>4 DEF MineInv
<1>7. ASSUME NEW u \in Tasks, pc'[u] \in Decided, pc[u] \notin Decided
      PROVE  u = t /\ Check(t)
  <2>1. u = t
    BY <1>7, OthersUntouched
  <2>2. ~CheckOthers(t)
    BY <1>7, <2>1 DEF CheckOthers, Decided
  <2> QED
    BY <1>7, <2>1, <2>2, OwnCheckpoint
<1> QED
  BY <1>5, <1>6, <1>7 DEF DecidedInv

LEMMA DecidedWrite ==
    ASSUME TypeInv, SourceInv, EvidenceInv, DecidedInv,
           NEW p \in Paths, NEW c \in Contents, WriteFile(p, c)
    PROVE  DecidedInv'
<1>1. /\ stamps \in Nat /\ files'[p].stamp = stamps + 1
      /\ \A q \in Paths : q # p => files'[q] = files[q]
  BY FreshWrite
<1>2. UNCHANGED <<status, seen, evid, pc, mine>>
  BY DEF WriteFile, checkpoints, operation
<1>3. \A u \in Tasks, q \in Paths : evid[u][q] # None => evid[u][q].stamp <= stamps
  BY DEF EvidenceInv, Genuine
<1>4. \A u \in Tasks, q \in Paths : evid[u][q] # None => evid[u][q].stamp \in Nat
  BY DEF TypeInv, TypeOK, Evidence
<1>5. \A u \in Tasks : evid[u][p] # None => files'[p].stamp # evid[u][p].stamp
  BY <1>1, <1>3, <1>4
<1>6. ASSUME NEW u \in Tasks
      PROVE  ClaimsOf(evid[u])' \subseteq ClaimsOf(evid[u])
  BY <1>1, <1>2, <1>5 DEF ClaimsOf, Qualifying, Current
<1>7. ASSUME NEW u \in Tasks, MineInv(u)
      PROVE  MineInv(u)'
  <2>1. ASSUME NEW d \in mine[u], NEW v \in Tasks, evid[v][d[1]] # None,
               files'[d[1]].stamp = evid[v][d[1]].stamp
        PROVE  d[1] # p /\ files'[d[1]] = files[d[1]]
    <3>1. d[1] \in Paths
      BY DEF TypeInv, TypeOK
    <3> QED
      BY <1>1, <1>5, <2>1, <3>1
  <2> QED
    BY <1>2, <1>6, <1>7, <2>1 DEF MineInv
<1> QED
  BY <1>2, <1>7 DEF DecidedInv

LEMMA DecidedProject ==
    ASSUME DecidedInv, ReplaceConfig \/ (\E s \in BOOLEAN : SetStop(s))
    PROVE  DecidedInv'
<1>1. UNCHANGED <<status, evid, pc, mine, files>>
  BY DEF ReplaceConfig, SetStop, checkpoints, operation
<1> QED
  BY <1>1 DEF DecidedInv, MineInv, ClaimsOf, Qualifying, Current

(* What is claimed after a completion was credited by it.                  *)
LEMMA CreditStep ==
    ASSUME TypeInv, LockInv, WorkInv, DecidedInv, CreditInv,
           NEW t \in Tasks, Step(t) \/ Call(t) \/ Crash(t)
    PROVE  CreditInv'
<1>1. UNCHANGED <<files, stamps, config, stop, written>>
  BY ProjectUntouched
<1>2. ASSUME NEW u \in Tasks
      PROVE  /\ status[u] = "completed" =>
                   status'[u] = "completed" /\ evid'[u] = evid[u] /\ credit'[u] = credit[u]
             /\ status'[u] = "completed" /\ status[u] # "completed" => u = t /\ MarkCompleted(t)
  BY StaysCompleted
<1>3. \A E : Qualifying(E)' = Qualifying(E)
  BY <1>1 DEF Qualifying, Current
<1>4. ASSUME NEW u \in Tasks, status'[u] # "completed"
      PROVE  credit'[u] = {}
  <2>1. status[u] # "completed"
    BY <1>2, <1>4
  <2>2. ~(u = t /\ MarkCompleted(t))
    BY <1>4 DEF MarkCompleted, TypeInv, TypeOK
  <2>3. credit'[u] = credit[u]
    BY <2>2, OthersUntouched, OwnCheckpoint
  <2> QED
    BY <2>1, <2>3 DEF CreditInv
<1>5. \A i \in DOMAIN order' : status'[order'[i]] = "completed"
  <2>1. CASE MarkCompleted(t)
    <3>1. order' = Append(order, t) /\ status'[t] = "completed"
      BY <2>1 DEF MarkCompleted, TypeInv, TypeOK
    <3>2. \A i \in DOMAIN order' : \/ order'[i] = t
                                   \/ i \in DOMAIN order /\ order'[i] = order[i]
      BY <3>1 DEF TypeInv
    <3>3. \A i \in DOMAIN order : order[i] \in Tasks
      BY DEF TypeInv
    <3> QED
      BY <1>2, <3>1, <3>2, <3>3 DEF CreditInv
  <2>2. CASE order' = order
    <3>1. \A i \in DOMAIN order : order[i] \in Tasks
      BY DEF TypeInv
    <3> QED
      BY <1>2, <2>2, <3>1 DEF CreditInv
  <2>3. order' = order \/ MarkCompleted(t)
    <3> USE DEF history
    <3>1. CASE Step(t)
      BY <3>1 DEF Step, StartSensors, RefuseSensors, SensorsPass, SensorsFail, SaveCandidate,
                  LockConfiguration, LockHarness, Check, CheckOthers, Refuse
    <3> QED
      BY <3>1 DEF Call, Crash, Observe, Begin, Reactivate, StopTask
  <2> QED
    BY <2>1, <2>2, <2>3
<1>6. ASSUME NEW u \in Tasks, status'[u] = "completed", NEW p \in Qualifying(evid'[u])
      PROVE  written[evid'[u][p].stamp] \in credit'[u]
  <2>1. CASE status[u] = "completed"
    BY <1>2, <1>6, <2>1 DEF CreditInv
  <2>2. CASE status[u] # "completed"
    <3>1. u = t /\ MarkCompleted(t)
      BY <1>2, <1>6, <2>2
    <3>2. evid' = evid /\ credit'[t] = Writes(t, mine[t])
      BY <3>1 DEF MarkCompleted, TypeInv, TypeOK
    <3>3. <<p, evid[t][p].sha>> \in mine[t]
      BY <1>6, <3>1, <3>2 DEF MarkCompleted, DecidedInv, Decided, MineInv, ClaimsOf
    <3> QED
      BY <3>1, <3>2, <3>3 DEF Writes
  <2> QED
    BY <2>1, <2>2
<1>7. ASSUME NEW u \in Tasks, NEW p \in Qualifying(evid[u])'
      PROVE  p \in Qualifying(evid'[u]) /\ written'[evid'[u][p].stamp] = written[evid'[u][p].stamp]
  BY <1>1 DEF Qualifying, Current
<1> QED
  BY <1>4, <1>5, <1>6, <1>7 DEF CreditInv

LEMMA CreditWrite ==
    ASSUME TypeInv, SourceInv, EvidenceInv, CreditInv,
           NEW p \in Paths, NEW c \in Contents, WriteFile(p, c)
    PROVE  CreditInv'
<1>1. /\ stamps \in Nat /\ files'[p].stamp = stamps + 1
      /\ \A q \in Paths : q # p => files'[q] = files[q]
      /\ \A n \in 0 .. stamps : written'[n] = written[n]
  BY FreshWrite
<1>2. UNCHANGED <<status, evid, credit, order>>
  BY DEF WriteFile, checkpoints, history
<1>3. ASSUME NEW u \in Tasks, NEW q \in Paths, evid[u][q] # None
      PROVE  evid[u][q].stamp \in 0 .. stamps
  <2>1. evid[u][q].stamp \in Nat
    BY <1>3 DEF TypeInv, TypeOK, Evidence
  <2> QED
    BY <1>1, <1>3, <2>1 DEF EvidenceInv, Genuine
<1>4. ASSUME NEW u \in Tasks, NEW q \in Qualifying(evid[u])'
      PROVE  q \in Qualifying(evid[u]) /\ written'[evid[u][q].stamp] = written[evid[u][q].stamp]
  <2>1. /\ q \in Paths /\ evid[u][q] # None /\ evid[u][q].before # evid[u][q].sha
        /\ files'[q].sha = evid[u][q].sha /\ files'[q].stamp = evid[u][q].stamp
    BY <1>2, <1>4 DEF Qualifying, Current
  <2>2. evid[u][q].stamp \in 0 .. stamps
    BY <1>3, <2>1
  <2>3. q # p
    BY <1>1, <2>1, <2>2
  <2> QED
    BY <1>1, <2>1, <2>2, <2>3 DEF Qualifying, Current
<1> QED
  BY <1>2, <1>4 DEF CreditInv

LEMMA CreditProject ==
    ASSUME CreditInv, ReplaceConfig \/ (\E s \in BOOLEAN : SetStop(s))
    PROVE  CreditInv'
<1>1. UNCHANGED <<status, evid, credit, order, files, written>>
  BY DEF ReplaceConfig, SetStop, checkpoints, history
<1> QED
  BY <1>1 DEF CreditInv, Qualifying, Current
-----------------------------------------------------------------------------
(* With the project left alone where Quiet and Touching say so: what was   *)
(* credited stays claimed, or a later write took its place.                *)

LEMMA QuietStep ==
    ASSUME TypeInv, LockInv, WorkInv, DecidedInv, QuietInv,
           NEW t \in Tasks, Step(t) \/ Call(t) \/ Crash(t)
    PROVE  QuietInv'
<1>1. UNCHANGED <<files, stamps, config, stop, written>>
  BY ProjectUntouched
<1>2. ASSUME NEW u \in Tasks
      PROVE  /\ status[u] = "completed" =>
                   status'[u] = "completed" /\ evid'[u] = evid[u] /\ credit'[u] = credit[u]
             /\ status'[u] = "completed" /\ status[u] # "completed" => u = t /\ MarkCompleted(t)
  BY StaysCompleted
<1>3. ASSUME NEW u \in Tasks, pc'[u] \in Decided
      PROVE  /\ mine'[u] = ClaimsOf(evid[u])' /\ evid'[u] = evid[u]
             /\ pc'[u] = "mark" => mine[u] \ Elsewhere(u) # {} /\ mine'[u] = mine[u]
  <2>1. CASE u # t
    <3>1. evid'[u] = evid[u] /\ mine'[u] = mine[u] /\ pc'[u] = pc[u]
      BY <2>1, OthersUntouched
    <3>2. ClaimsOf(evid[u])' = ClaimsOf(evid[u])
      BY <1>1, <3>1 DEF ClaimsOf, Qualifying, Current
    <3> QED
      BY <1>3, <3>1, <3>2 DEF QuietInv, Decided
  <2>2. CASE u = t /\ Check(t)
    <3>1. evid' = evid /\ mine'[t] = ClaimsOf(evid[t]) /\ pc'[t] = "others"
      BY <2>2 DEF Check, checkpoints, TypeInv, TypeOK, Goto
    <3>2. ClaimsOf(evid[t])' = ClaimsOf(evid[t])
      BY <1>1, <3>1 DEF ClaimsOf, Qualifying, Current
    <3> QED
      BY <2>2, <3>1, <3>2
  <2>3. CASE u = t /\ CheckOthers(t)
    <3>1. evid' = evid /\ mine' = mine /\ pc[t] = "others" /\ mine[t] \ Elsewhere(t) # {}
      BY <2>3 DEF CheckOthers, checkpoints
    <3>2. ClaimsOf(evid[t])' = ClaimsOf(evid[t])
      BY <1>1, <3>1 DEF ClaimsOf, Qualifying, Current
    <3> QED
      BY <2>3, <3>1, <3>2 DEF QuietInv, Decided
  <2>4. u = t => Check(t) \/ CheckOthers(t)
    BY <1>3, OwnCheckpoint DEF Call, Observe, Begin, Reactivate, StopTask, Decided
  <2> QED
    BY <2>1, <2>2, <2>3, <2>4
<1>4. ASSUME NEW u \in Tasks, pc'[u] = "mark"
      PROVE  (mine[u] \ Elsewhere(u) # {})'
  <2>1. pc[u] \in Deciding
    <3>1. CASE u # t
      BY <1>4, <3>1, OthersUntouched DEF Deciding
    <3>2. CASE u = t
      BY <1>4, <3>2, OwnCheckpoint
      DEF Call, Observe, Begin, Reactivate, StopTask, Decided, Check, CheckOthers, Deciding
    <3> QED
      BY <3>1, <3>2
  <2>2. ~MarkCompleted(t)
    <3>1. CASE u = t
      BY <1>4, <3>1 DEF MarkCompleted, Ends, Goto, TypeInv, TypeOK
    <3>2. CASE u # t
      BY <2>1, <3>2, OneDecides DEF MarkCompleted, Deciding
    <3> QED
      BY <3>1, <3>2
  <2>3. \A v \in Tasks : status'[v] = "completed" => status[v] = "completed" /\ evid'[v] = evid[v]
    BY <1>2, <2>2
  <2>4. \A v \in Tasks : status'[v] = "completed" => ClaimsOf(evid[v])' = ClaimsOf(evid[v])
    BY <1>1, <2>3 DEF ClaimsOf, Qualifying, Current
  <2>5. Elsewhere(u)' \subseteq Elsewhere(u)
    BY <2>3, <2>4 DEF Elsewhere
  <2>6. mine[u] \ Elsewhere(u) # {} /\ mine'[u] = mine[u]
    BY <1>3, <1>4 DEF Decided
  <2> QED
    BY <2>5, <2>6
<1>5. ASSUME NEW u \in Tasks, status'[u] = "completed", NEW w \in credit'[u]
      PROVE  \E p \in Paths : Kept(u, p)' /\ w = written'[evid'[u][p].stamp]
  <2>1. CASE status[u] = "completed"
    <3>1. evid'[u] = evid[u] /\ credit'[u] = credit[u]
      BY <1>2, <2>1
    <3>2. PICK p \in Paths : Kept(u, p) /\ w = written[evid[u][p].stamp]
      BY <1>5, <2>1, <3>1 DEF QuietInv
    <3> QED
      BY <1>1, <3>1, <3>2 DEF Kept
  <2>2. CASE status[u] # "completed"
    <3>1. u = t /\ MarkCompleted(t)
      BY <1>2, <1>5, <2>2
    <3>2. evid' = evid /\ credit'[t] = Writes(t, mine[t]) /\ mine[t] = ClaimsOf(evid[t])
      BY <3>1 DEF MarkCompleted, TypeInv, TypeOK, QuietInv, Decided
    <3>3. PICK d \in ClaimsOf(evid[t]) : w = written[evid[t][d[1]].stamp]
      BY <1>5, <3>1, <3>2 DEF Writes
    <3>4. d[1] \in Qualifying(evid[t])
      BY DEF ClaimsOf
    <3>5. d[1] \in Paths /\ Kept(t, d[1])
      BY <3>4 DEF Qualifying, Current, Kept
    <3> QED
      BY <1>1, <3>1, <3>2, <3>3, <3>5 DEF Kept
  <2> QED
    BY <2>1, <2>2
<1> QED
  BY <1>3, <1>4, <1>5 DEF QuietInv

LEMMA QuietWrite ==
    ASSUME Quiet, ~Touching, TypeInv, SourceInv, EvidenceInv, QuietInv,
           NEW p \in Paths, NEW c \in Contents, WriteFile(p, c)
    PROVE  QuietInv'
<1>1. /\ stamps \in Nat /\ files'[p].sha = c /\ files'[p].stamp = stamps + 1
      /\ \A q \in Paths : q # p => files'[q] = files[q]
      /\ \A n \in 0 .. stamps : written'[n] = written[n]
      /\ c = files[p].sha => written'[files'[p].stamp] = written[files[p].stamp]
      /\ c # files[p].sha => written'[files'[p].stamp] = stamps + 1
  BY FreshWrite
<1>2. UNCHANGED <<status, evid, credit, order, pc, mine>>
  BY DEF WriteFile, checkpoints, history, operation
<1>3. /\ \A n \in 0 .. stamps : written[n] \in Nat /\ written[n] <= n
      /\ \A q \in Paths : files[q].stamp \in 0 .. stamps
  BY WrittenTyped
<1>4. \A u \in Tasks : pc'[u] \notin Decided /\ pc'[u] # "mark"
  BY <1>2 DEF WriteFile, Decided, Deciding
<1>5. ASSUME NEW u \in Tasks, status[u] = "completed", NEW q \in Paths, Kept(u, q)
      PROVE  Kept(u, q)' /\ written'[evid[u][q].stamp] = written[evid[u][q].stamp]
  <2>1. evid[u][q] # None /\ evid[u][q].before # evid[u][q].sha
    BY <1>5 DEF Kept
  <2>2. evid[u][q].stamp \in 0 .. stamps
    <3>1. evid[u][q].stamp \in Nat
      BY <2>1 DEF TypeInv, TypeOK, Evidence
    <3> QED
      BY <1>1, <2>1, <3>1 DEF EvidenceInv, Genuine
  <2>3. written'[evid[u][q].stamp] = written[evid[u][q].stamp]
    BY <1>1, <2>2
  <2>4. CASE q # p
    <3>1. files'[q] = files[q] /\ written'[files'[q].stamp] = written[files[q].stamp]
      BY <1>1, <1>3, <2>4
    <3> QED
      BY <1>2, <1>5, <2>3, <3>1 DEF Kept
  <2>5. CASE q = p /\ c # files[p].sha
    <3>1. written'[files'[q].stamp] # written'[evid[u][q].stamp]
      BY <1>1, <1>3, <2>2, <2>3, <2>5
    <3> QED
      BY <1>2, <2>1, <2>3, <3>1 DEF Kept
  <2>6. CASE q = p /\ c = files[p].sha
    <3>1. ~Claimed(p)
      BY <2>6 DEF WriteFile
    <3>2. ~(written[files[p].stamp] = written[evid[u][p].stamp])
      <4> SUFFICES ASSUME written[files[p].stamp] = written[evid[u][p].stamp]
                   PROVE  FALSE
        OBVIOUS
      <4>1. files[p].stamp = evid[u][p].stamp
        BY <1>5, <2>6 DEF Kept
      <4>2. Genuine(p, evid[u][p])
        BY <2>1, <2>6 DEF EvidenceInv
      <4>3. written[evid[u][p].stamp] # 0
        BY <2>1, <2>6, <4>2 DEF Genuine
      <4>4. files[p].sha = evid[u][p].sha
        BY <4>2, <4>3 DEF Genuine
      <4>5. p \in Qualifying(evid[u])
        BY <2>1, <2>6, <4>1, <4>4 DEF Qualifying, Current
      <4> QED
        BY <1>5, <3>1, <4>5 DEF Claimed
    <3>3. written'[files'[q].stamp] # written'[evid[u][q].stamp]
      BY <1>1, <2>3, <2>6, <3>2
    <3> QED
      BY <1>2, <2>1, <2>3, <3>3 DEF Kept
  <2> QED
    BY <2>3, <2>4, <2>5, <2>6
<1>6. ASSUME NEW u \in Tasks, status'[u] = "completed", NEW w \in credit'[u]
      PROVE  \E q \in Paths : Kept(u, q)' /\ w = written'[evid'[u][q].stamp]
  <2>1. PICK q \in Paths : Kept(u, q) /\ w = written[evid[u][q].stamp]
    BY <1>2, <1>6 DEF QuietInv
  <2>2. Kept(u, q)' /\ written'[evid[u][q].stamp] = written[evid[u][q].stamp]
    BY <1>2, <1>5, <1>6, <2>1
  <2> QED
    BY <1>2, <2>1, <2>2
<1> QED
  BY <1>4, <1>6 DEF QuietInv

LEMMA QuietProject ==
    ASSUME QuietInv, ReplaceConfig \/ (\E s \in BOOLEAN : SetStop(s))
    PROVE  QuietInv'
<1>1. UNCHANGED <<status, evid, credit, pc, mine, files, written>>
  BY DEF ReplaceConfig, SetStop, checkpoints, history, operation
<1> QED
  BY <1>1 DEF QuietInv, Kept, Elsewhere, ClaimsOf, Qualifying, Current

(* A task that may complete now has a claim whose write nobody was         *)
(* credited with.                                                          *)
LEMMA UncreditedWrite ==
    ASSUME TypeInv, EvidenceInv, CreditInv, QuietInv, NEW t \in Tasks, pc[t] = "mark",
           status[t] # "completed"
    PROVE  \E w \in Writes(t, mine[t]) : \A u \in Tasks : w \notin credit[u]
<1>1. mine[t] = ClaimsOf(evid[t]) /\ mine[t] \ Elsewhere(t) # {}
  BY DEF QuietInv, Decided
<1>2. PICK d \in mine[t] : d \notin Elsewhere(t)
  BY <1>1
<1>3. PICK p \in Qualifying(evid[t]) : d = <<p, evid[t][p].sha>>
  BY <1>1, <1>2 DEF ClaimsOf
<1>4. /\ p \in Paths /\ evid[t][p] # None /\ evid[t][p].before # evid[t][p].sha
      /\ files[p].sha = evid[t][p].sha /\ files[p].stamp = evid[t][p].stamp
  BY <1>3 DEF Qualifying, Current
<1> DEFINE w == written[evid[t][p].stamp]
<1>5. w \in Writes(t, mine[t])
  BY <1>2, <1>3 DEF Writes
<1>6. w # 0
  BY <1>4 DEF EvidenceInv, Genuine
<1>7. ASSUME NEW u \in Tasks, w \in credit[u]
      PROVE  FALSE
  <2>1. status[u] = "completed" /\ u # t
    BY <1>7 DEF CreditInv
  <2>2. PICK q \in Paths : Kept(u, q) /\ w = written[evid[u][q].stamp]
    BY <1>7, <2>1 DEF QuietInv
  <2>3. evid[u][q] # None /\ evid[u][q].before # evid[u][q].sha
    BY <2>2 DEF Kept
  <2>4. Genuine(q, evid[u][q])
    BY <2>3 DEF EvidenceInv
  <2>5. p = q /\ files[q].sha = evid[u][q].sha
    BY <1>4, <1>6, <2>2, <2>4 DEF Genuine
  <2>6. files[q].stamp = evid[u][q].stamp
    BY <1>4, <2>2, <2>5 DEF Kept
  <2>7. q \in Qualifying(evid[u])
    BY <2>3, <2>5, <2>6 DEF Qualifying, Current
  <2>8. d \in ClaimsOf(evid[u])
    BY <1>3, <1>4, <2>5, <2>7 DEF ClaimsOf
  <2> QED
    BY <1>2, <2>1, <2>8 DEF Elsewhere
<1> QED
  BY <1>5, <1>7
-----------------------------------------------------------------------------
(* The theorems.                                                           *)
IInv ==
    TypeInv /\ LockInv /\ WorkInv /\ SourceInv /\ EvidenceInv /\ DecidedInv /\ CreditInv

LEMMA InitIInv == Init => IInv
<1> SUFFICES ASSUME Init
             PROVE  IInv
  OBVIOUS
<1>1. TypeInv
  BY InitType
<1>2. LockInv /\ WorkInv
  BY DEF Init, LockInv, WorkInv, ConfigPlaces, Deciding, Decided
<1>3. SourceInv
  BY DEF Init, SourceInv, Unwritten
<1>4. EvidenceInv
  BY DEF Init, EvidenceInv, Unwritten
<1>5. DecidedInv
  BY DEF Init, DecidedInv, Decided
<1>6. CreditInv
  <2>1. DOMAIN order = {}
    BY DEF Init
  <2> QED
    BY <2>1 DEF Init, CreditInv
<1> QED
  BY <1>1, <1>2, <1>3, <1>4, <1>5, <1>6 DEF IInv

LEMMA NextIInv == IInv /\ [Next]_vars => IInv'
<1> SUFFICES ASSUME IInv, [Next]_vars
             PROVE  IInv'
  OBVIOUS
<1> USE DEF IInv
<1>1. ASSUME NEW t \in Tasks, Step(t) \/ Call(t) \/ Crash(t)
      PROVE  IInv'
  BY <1>1, StepType, LockStep, WorkStep, SourceStep, EvidenceStep, DecidedStep, CreditStep
<1>2. ASSUME NEW p \in Paths, NEW c \in Contents, WriteFile(p, c)
      PROVE  IInv'
  BY <1>2, WriteFileType, WorkWrite, SourceWrite, EvidenceWrite, DecidedWrite, CreditWrite
<1>3. CASE ReplaceConfig \/ (\E s \in BOOLEAN : SetStop(s))
  BY <1>3, ProjectType, LockProject, WorkProject, SourceProject, DecidedProject, CreditProject
<1>4. CASE UNCHANGED vars
  <2> USE <1>4 DEF vars, checkpoints, project, locks, operation, history
  <2>1. TypeInv'
    BY DEF TypeInv, TypeOK
  <2>2. LockInv' /\ WorkInv' /\ SourceInv'
    BY DEF LockInv, WorkInv, SourceInv
  <2>3. EvidenceInv'
    BY DEF EvidenceInv, Genuine
  <2>4. DecidedInv' /\ CreditInv'
    BY DEF DecidedInv, MineInv, CreditInv, ClaimsOf, Qualifying, Current
  <2> QED
    BY <2>1, <2>2, <2>3, <2>4
<1> QED
  BY <1>1, <1>2, <1>3, <1>4 DEF Next

LEMMA Invariance == Spec => []IInv
BY InitIInv, NextIInv, PTL DEF Spec

(* Every variable keeps its type.                                          *)
THEOREM TypeCorrect == Spec => []TypeOK
<1>1. IInv => TypeOK
  BY DEF IInv, TypeInv
<1> QED
  BY <1>1, Invariance, PTL

(* A task whose writes nobody was credited with is not turned away at the  *)
(* last check, whatever the project's files go through meanwhile.          *)
THEOREM UncreditedAlwaysAccepted == Spec => []UncreditedIsAccepted
<1>1. IInv => UncreditedIsAccepted
  <2> SUFFICES ASSUME IInv, NEW t \in Tasks, pc[t] = "others",
                      Writes(t, mine[t]) \cap UNION {credit[u] : u \in Tasks} = {},
                      mine[t] \ Elsewhere(t) = {}
               PROVE  FALSE
    BY DEF UncreditedIsAccepted
  <2>1. MineInv(t)
    BY DEF IInv, DecidedInv, Decided
  <2>2. PICK d \in mine[t] : d \in Elsewhere(t)
    BY <2>1 DEF MineInv
  <2>3. PICK v \in Tasks : status[v] = "completed" /\ d \in ClaimsOf(evid[v])
    BY <2>2 DEF Elsewhere
  <2>4. PICK p \in Qualifying(evid[v]) : d = <<p, evid[v][p].sha>>
    BY <2>3 DEF ClaimsOf
  <2>5. p \in Paths /\ evid[v][p] # None /\ files[p].stamp = evid[v][p].stamp /\ d[1] = p
    BY <2>4 DEF Qualifying, Current
  <2>6. evid[v][p].stamp = evid[t][p].stamp
    BY <2>1, <2>3, <2>5 DEF MineInv
  <2>7. written[evid[t][p].stamp] \in credit[v]
    BY <2>3, <2>4, <2>6 DEF IInv, CreditInv
  <2>8. written[evid[t][p].stamp] \in Writes(t, mine[t])
    BY <2>5 DEF Writes
  <2> QED
    BY <2>7, <2>8
<1> QED
  BY <1>1, Invariance, PTL

(* A task completes only while the configuration its sensors passed under  *)
(* is the project's and no stop is in force.                               *)
THEOREM CompletesUnderTheConfig == Spec => CompletesUnderItsConfig
<1>1. ASSUME IInv, [Next]_vars
      PROVE  [\A t \in Tasks : status[t] # "completed" /\ status'[t] = "completed"
                                  => sensed[t] = config /\ ~stop]_vars
  <2> SUFFICES ASSUME Next, NEW t \in Tasks, status[t] # "completed", status'[t] = "completed"
               PROVE  sensed[t] = config /\ ~stop
    BY <1>1
  <2>1. status' # status
    OBVIOUS
  <2>2. PICK u \in Tasks : Step(u) \/ Call(u) \/ Crash(u)
    BY <2>1 DEF Next, SetStop, ReplaceConfig, WriteFile, checkpoints
  <2>3. MarkCompleted(t)
    BY <1>1, <2>2, StaysCompleted DEF IInv
  <2> QED
    BY <1>1, <2>3 DEF IInv, WorkInv, MarkCompleted, Decided
<1> QED
  BY <1>1, Invariance, PTL DEF Spec, CompletesUnderItsConfig

(* If files are left alone while a completion is decided, and a claimed    *)
(* file is not touched without a change, no write completes two tasks:     *)
(* every completed task was credited with one that no earlier one was.     *)
THEOREM NoWriteCreditedTwice ==
    ASSUME Quiet, ~Touching
    PROVE  Spec => []CreditedOnce
<1> DEFINE Inv == IInv /\ QuietInv /\ CreditedOnce
<1>1. Init => Inv
  <2> SUFFICES ASSUME Init
               PROVE  Inv
    OBVIOUS
  <2>1. QuietInv
    BY DEF Init, QuietInv, Decided
  <2>2. DOMAIN order = {}
    BY DEF Init
  <2> QED
    BY <2>1, <2>2, InitIInv DEF CreditedOnce
<1>2. Inv /\ [Next]_vars => Inv'
  <2> SUFFICES ASSUME Inv, [Next]_vars
               PROVE  Inv'
    OBVIOUS
  <2>1. IInv'
    BY NextIInv
  <2>2. QuietInv'
    <3>1. CASE \E t \in Tasks : Step(t) \/ Call(t) \/ Crash(t)
      BY <3>1, QuietStep DEF IInv
    <3>2. CASE \E p \in Paths, c \in Contents : WriteFile(p, c)
      BY <3>2, QuietWrite DEF IInv
    <3>3. CASE ReplaceConfig \/ (\E s \in BOOLEAN : SetStop(s))
      BY <3>3, QuietProject
    <3>4. CASE UNCHANGED vars
      BY <3>4 DEF vars, checkpoints, project, locks, operation, history,
                  QuietInv, Kept, Elsewhere, ClaimsOf, Qualifying, Current
    <3> QED
      BY <3>1, <3>2, <3>3, <3>4 DEF Next
  <2>3. order' = order \/ \E t \in Tasks : MarkCompleted(t)
    <3> USE DEF history, vars
    <3>1. CASE \E t \in Tasks : Step(t)
      BY <3>1 DEF Step, StartSensors, RefuseSensors, SensorsPass, SensorsFail, SaveCandidate,
                  LockConfiguration, LockHarness, Check, CheckOthers, Refuse
    <3> QED
      BY <3>1 DEF Next, Call, Crash, Observe, Begin, Reactivate, StopTask,
                  SetStop, ReplaceConfig, WriteFile
  <2>4. ASSUME NEW u \in Tasks, status[u] = "completed"
        PROVE  credit'[u] = credit[u]
    <3>1. CASE \E t \in Tasks : Step(t) \/ Call(t) \/ Crash(t)
      BY <2>4, <3>1, StaysCompleted DEF IInv
    <3> QED
      BY <3>1 DEF Next, SetStop, ReplaceConfig, WriteFile, vars, history
  <2>5. \A i \in DOMAIN order : order[i] \in Tasks /\ credit'[order[i]] = credit[order[i]]
    BY <2>4 DEF IInv, TypeInv, CreditInv
  <2>6. order \in Seq(Tasks) /\ Len(order) \in Nat /\ DOMAIN order = 1 .. Len(order)
    BY DEF IInv, TypeInv
  <2>7. CASE order' = order
    <3>1. ASSUME NEW i \in DOMAIN order
          PROVE  \A j \in 1 .. i - 1 : j \in DOMAIN order
      BY <2>6
    <3>2. ASSUME NEW i \in DOMAIN order
          PROVE  {credit'[order[j]] : j \in 1 .. i - 1} = {credit[order[j]] : j \in 1 .. i - 1}
      BY <2>5, <3>1
    <3>3. CreditedOnce'
      BY <2>5, <2>7, <3>2 DEF CreditedOnce
    <3> QED
      BY <2>1, <2>2, <3>3
  <2>8. ASSUME NEW t \in Tasks, MarkCompleted(t)
        PROVE  Inv'
    <3>1. /\ order' = Append(order, t) /\ credit'[t] = Writes(t, mine[t])
          /\ pc[t] = "mark" /\ status[t] # "completed"
      BY <2>8 DEF MarkCompleted, IInv, TypeInv, WorkInv
    <3>2. PICK w \in Writes(t, mine[t]) : \A u \in Tasks : w \notin credit[u]
      BY <3>1, UncreditedWrite DEF IInv
    <3>3. /\ DOMAIN order' = 1 .. Len(order) + 1 /\ order'[Len(order) + 1] = t
          /\ \A i \in 1 .. Len(order) : order'[i] = order[i]
      BY <2>6, <3>1
    <3>4. ASSUME NEW i \in DOMAIN order'
          PROVE  \A j \in 1 .. i - 1 :
                    order'[j] = order[j] /\ credit'[order'[j]] = credit[order[j]]
      <4>1. \A j \in 1 .. i - 1 : j \in 1 .. Len(order)
        BY <2>6, <3>3
      <4> QED
        BY <2>5, <2>6, <3>3, <4>1
    <3>5. ASSUME NEW i \in DOMAIN order'
          PROVE  UNION {credit'[order'[j]] : j \in 1 .. i - 1}
                    = UNION {credit[order[j]] : j \in 1 .. i - 1}
      <4>1. {credit'[order'[j]] : j \in 1 .. i - 1} = {credit[order[j]] : j \in 1 .. i - 1}
        BY <3>4
      <4> QED
        BY <4>1
    <3>6. ASSUME NEW i \in DOMAIN order'
          PROVE  credit'[order'[i]] \ UNION {credit[order[j]] : j \in 1 .. i - 1} # {}
      <4>1. CASE i \in DOMAIN order
        BY <2>5, <2>6, <3>3, <4>1 DEF CreditedOnce
      <4>2. CASE i = Len(order) + 1
        <5>1. \A j \in 1 .. i - 1 : order[j] \in Tasks
          BY <2>5, <2>6, <4>2
        <5> QED
          BY <3>1, <3>2, <3>3, <4>2, <5>1
      <4> QED
        BY <2>6, <3>3, <4>1, <4>2
    <3>7. CreditedOnce'
      BY <3>5, <3>6 DEF CreditedOnce
    <3> QED
      BY <2>1, <2>2, <3>7
  <2> QED
    BY <2>3, <2>7, <2>8
<1> QED
  BY <1>1, <1>2, PTL DEF Spec
=============================================================================

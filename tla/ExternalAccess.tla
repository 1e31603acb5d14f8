--------------------------- MODULE ExternalAccess ---------------------------
(***************************************************************************)
(* Grants for a directory outside the project, and the commands that run   *)
(* under them.  The directory holds a common lock, one scratch directory   *)
(* and one pair of names, the stage of a file and the file published by    *)
(* linking it.  The harness never takes the common lock: it inspects the   *)
(* names one after the other while reviewed executors create, link and     *)
(* remove them.  An executor follows the anchored-v1 contract; it may be   *)
(* killed between any two steps, and outlives the harness process that     *)
(* launched it.                                                            *)
(*                                                                         *)
(* A grant declares the pair and, if it says so, the scratch directory: it *)
(* is "create" (mkdir, rmdir, create, link, delete), "recover" (rmdir of   *)
(* one leftover), "pair" (delete of either name; no directory) or          *)
(* "inspect" (stat, read; with the directory or without).                  *)
(* Parent and lock keep their identity, and no identity is given twice.    *)
(* The staging and the recovery markers of a command are TaskHarness's:    *)
(* here every task may run one.  The emergency stop is there too; here it  *)
(* is one of the failures of a command.  Closing a task refuses its grants *)
(* as revoking them does, under the same lock, and is left out.            *)
(***************************************************************************)
EXTENDS Integers, FiniteSets

CONSTANTS
    Tasks, Clients,  \* tasks, and processes that use the harness
    Nobody, Absent,  \* no holder of a lock, nothing by that name
    MaxLife, MaxTimeout, MaxGrants, MaxIds, MaxForeign,  \* bounds
    Delay,           \* ticks from the check of a grant to the start of its command
    Grace            \* ticks from SIGTERM to SIGKILL

ASSUME ExternalAssumption ==
    /\ Nobody \notin Clients
    /\ Absent \notin Nat \union [id : Nat, links : Nat] \union [id : Nat, entry : BOOLEAN]
    /\ {MaxLife, MaxTimeout, MaxGrants, MaxIds, MaxForeign, Delay, Grace} \subseteq Nat

VARIABLES
    grants,     \* the external access on record
    taskLock, configLock,
    client,     \* what every process is about to do
    exec,       \* the executor it launched
    scratch,    \* the scratch directory
    name,       \* the inodes of the pair's names
    extra,      \* inodes with a link under a third name
    receipt,    \* the directories and files executors recorded as their own
    ids, foreign,    \* identities given out, steps of others taken
    own         \* history: what executors created

locks == <<taskLock, configLock>>
files == <<scratch, name, extra, receipt, ids, own>>
vars  == <<grants, locks, client, exec, files, foreign>>

Kinds == {"create", "recover", "pair", "inspect"}
Names == {"source", "destination"}
Ids   == 1..MaxIds
Stats == {Absent} \union [id : Ids, links : 1..3]
Pairs == {"absent", "source-only", "destination-only", "paired", "refused"}

Grants == [task : Tasks, kind : Kinds, bound : Ids \union {Absent}, revoked : BOOLEAN,
           left : 0..MaxLife]

NoGrant == 0

Idle == [phase |-> "idle"]
None == [step |-> "none"]

(* A process grants (what it is about to record), queries, or runs (a      *)
(* grant on record).  To grant, it finds the scratch directory, compares   *)
(* it with the identity of a receipt and binds it.  In every case it then  *)
(* inspects the directory and the first name, then the second.  History:   *)
(* the pair states since the first, empty once something else than an      *)
(* executor touched the names, and whether what it saw was among them; the *)
(* ticks that a command is late.                                           *)
ClientOK(q) ==
    \/ q = Idle
    \/ /\ q.phase \in {"found", "compared", "bound"} /\ q.op = "grant" /\ q.subject \in Grants
       /\ q.phase = "found" => q.made \in Ids
    \/ /\ q.phase \in {"half", "seen"}
       /\ \/ q.op = "grant" /\ q.subject \in Grants
          \/ q.op = "check" /\ q.subject = NoGrant
          \/ q.op = "run" /\ q.subject \in DOMAIN grants
       /\ q.phase = "half" => q.first \in Stats /\ q.since \subseteq Pairs
       /\ q.phase = "seen" => q.real \in BOOLEAN
    \/ q.phase = "ready" /\ q.subject \in DOMAIN grants
    \/ /\ q.phase = "timed" /\ q.subject \in DOMAIN grants
       /\ q.waited \in 0..Delay /\ q.allowed > 0 /\ q.over \in Nat
    \/ q.phase = "running" /\ q.subject \in DOMAIN grants /\ q.over \in Nat

Steps == {"waiting", "made", "recorded", "cleaned", "staged", "filed", "linked", "done"}

TypeOK ==
    /\ \E n \in 0..MaxGrants : grants \in [1..n -> Grants]
    /\ taskLock \in [Tasks -> Clients \union {Nobody}] /\ configLock \in Clients \union {Nobody}
    /\ \A c \in Clients : ClientOK(client[c])
    /\ exec \in [Clients -> {None} \union [step : Steps, id : 1..MaxGrants, left : Int,
                                           attended : BOOLEAN]]
    /\ scratch \in {Absent} \union [id : Ids, entry : BOOLEAN]
    /\ name \in [Names -> Ids \union {Absent}] /\ extra \subseteq Ids /\ receipt \subseteq Ids
    /\ ids \in 0..MaxIds /\ foreign \in 0..MaxForeign /\ own \subseteq Ids

Init ==
    /\ grants = [n \in {} |-> 0] /\ taskLock = [t \in Tasks |-> Nobody] /\ configLock = Nobody
    /\ client = [c \in Clients |-> Idle] /\ exec = [c \in Clients |-> None]
    /\ scratch = Absent /\ name = [n \in Names |-> Absent] /\ extra = {} /\ receipt = {}
    /\ ids = 0 /\ foreign = 0 /\ own = {}
-----------------------------------------------------------------------------
(* The pair of names.                                                      *)
Stat(n) ==
    IF name[n] = Absent THEN Absent
    ELSE [id |-> name[n],
          links |-> Cardinality({m \in Names : name[m] = name[n]})
                        + (IF name[n] \in extra THEN 1 ELSE 0)]

(* Mutant: the link count of a lone name is not looked at.                 *)
PairStateUncounted(first, second) ==
    IF first # Absent /\ second # Absent
    THEN IF first = second /\ first.links = 2 THEN "paired" ELSE "refused"
    ELSE IF first # Absent THEN "source-only"
    ELSE IF second # Absent THEN "destination-only" ELSE "absent"

(* What two stats amount to; any other topology is refused.                *)
PairState(first, second) ==
    IF first # Absent /\ second # Absent
    THEN IF first = second /\ first.links = 2 THEN "paired" ELSE "refused"
    ELSE IF \E s \in {first, second} : s # Absent /\ s.links # 1 THEN "refused"
    ELSE IF first # Absent THEN "source-only"
    ELSE IF second # Absent THEN "destination-only" ELSE "absent"

Real == PairState(Stat("source"), Stat("destination"))

(* Every process between its two stats has the names change under it.      *)
Observed(cooperative) ==
    client' = [c \in Clients |->
        IF client[c].phase = "half"
        THEN [client[c] EXCEPT !.since =
                 IF cooperative /\ @ # {} THEN @ \union {Real'} ELSE {}]
        ELSE client[c]]
-----------------------------------------------------------------------------
(* Grants.                                                                 *)
(* load_access_grant; checked again by every validation.                   *)
Valid(g) == ~g.revoked /\ g.left > 0

Release(c) ==
    /\ taskLock' = [t \in Tasks |-> IF taskLock[t] = c THEN Nobody ELSE taskLock[t]]
    /\ configLock' = IF configLock = c THEN Nobody ELSE configLock

Go(c, state) == client' = [client EXCEPT ![c] = state]

(* validate_transactions: the scratch directory is the bound one, with     *)
(* declared entries only; then pair_state stats one name, and the other.   *)
Matches(g) ==
    \/ g.bound = Absent /\ (g.kind = "create" => scratch = Absent)
    \/ scratch # Absent /\ g.bound = scratch.id /\ ~scratch.entry

StatSource(c, op, subject) ==
    Go(c, [phase |-> "half", op |-> op, subject |-> subject, first |-> Stat("source"),
           since |-> {Real}])

(* normalize_transactions looks at the scratch directory up to three times *)
(* and validate_transactions once more, each time by its name: whether it  *)
(* exists (one that is to be created may not, any other must; one that is  *)
(* to be removed needs the identity of a creation receipt), ...            *)
BeginGrant(c, t, k, life) ==
    /\ client[c] = Idle /\ taskLock[t] = Nobody /\ Cardinality(DOMAIN grants) < MaxGrants
    /\ taskLock' = [taskLock EXCEPT ![t] = c]
    /\ LET g == [task |-> t, kind |-> k, bound |-> Absent, revoked |-> FALSE, left |-> life]
           At(phase) == [phase |-> phase, op |-> "grant", subject |-> g]
       IN  \/ k = "create" /\ scratch = Absent /\ Go(c, At("bound"))
           \/ k \in {"pair", "inspect"} /\ Go(c, At("bound"))
           \/ k = "inspect" /\ scratch # Absent /\ Go(c, At("compared"))
           \/ /\ k = "recover" /\ scratch # Absent
              /\ \E id \in receipt :
                     Go(c, [phase |-> "found", op |-> "grant", subject |-> g, made |-> id])
    /\ UNCHANGED <<grants, configLock, exec, files, foreign>>

(* ... whether it has that identity, ...                                   *)
Compare(c) ==
    /\ client[c].phase = "found" /\ scratch # Absent /\ scratch.id = client[c].made
    /\ Go(c, [phase |-> "compared", op |-> "grant", subject |-> client[c].subject])
    /\ UNCHANGED <<grants, locks, exec, files, foreign>>

(* ... which identity to bind, and, in the end, whether it is that one.    *)
Bind(c) ==
    /\ client[c].phase = "compared" /\ scratch # Absent
    /\ Go(c, [phase |-> "bound", op |-> "grant",
              subject |-> [client[c].subject EXCEPT !.bound = scratch.id]])
    /\ UNCHANGED <<grants, locks, exec, files, foreign>>

Validate(c) ==
    /\ client[c].phase = "bound" /\ Matches(client[c].subject)
    /\ StatSource(c, "grant", client[c].subject)
    /\ UNCHANGED <<grants, locks, exec, files, foreign>>

(* A policy query takes no lock.                                           *)
BeginCheck(c, n) ==
    /\ client[c] = Idle /\ Valid(grants[n]) /\ Matches(grants[n])
    /\ StatSource(c, "check", NoGrant)
    /\ UNCHANGED <<grants, locks, exec, files, foreign>>

(* run holds the task's lock and the configuration's to its end.           *)
BeginRun(c, n) ==
    /\ client[c] = Idle /\ exec[c] = None
    /\ taskLock[grants[n].task] = Nobody /\ configLock = Nobody
    /\ Valid(grants[n]) /\ Matches(grants[n])
    /\ taskLock' = [taskLock EXCEPT ![grants[n].task] = c] /\ configLock' = c
    /\ StatSource(c, "run", n)
    /\ UNCHANGED <<grants, exec, files, foreign>>

StatDestination(c) ==
    /\ client[c].phase = "half"
    /\ LET seen == PairState(client[c].first, Stat("destination"))
       IN  /\ seen # "refused"
           /\ Go(c, [phase |-> "seen", op |-> client[c].op, subject |-> client[c].subject,
                     real |-> client[c].since # {} => seen \in client[c].since])
    /\ UNCHANGED <<grants, locks, exec, files, foreign>>

RecordGrant(c) ==
    /\ client[c].phase = "seen" /\ client[c].op = "grant"
    /\ LET n == Cardinality(DOMAIN grants) + 1
       IN  /\ n <= MaxGrants
           /\ grants' = [m \in 1..n |-> IF m = n THEN client[c].subject ELSE grants[m]]
    /\ Release(c) /\ Go(c, Idle)
    /\ UNCHANGED <<exec, files, foreign>>

(* Mutant: the grant is revoked under a running command.                   *)
RevokeUnlocked(n) ==
    /\ ~grants[n].revoked /\ grants' = [grants EXCEPT ![n].revoked = TRUE]
    /\ UNCHANGED <<locks, client, exec, files, foreign>>

Revoke(n) ==
    /\ taskLock[grants[n].task] = Nobody
    /\ ~grants[n].revoked /\ grants' = [grants EXCEPT ![n].revoked = TRUE]
    /\ UNCHANGED <<locks, client, exec, files, foreign>>

(* A query answers, a refusal raises, or the process is killed; a command  *)
(* it launched goes on.                                                    *)
EndClient(c) ==
    /\ client[c] # Idle /\ Go(c, Idle) /\ Release(c)
    /\ exec' = [exec EXCEPT ![c] =
           IF @ = None THEN None ELSE [@ EXCEPT !.attended = FALSE, !.left = 0]]
    /\ UNCHANGED <<grants, files, foreign>>
-----------------------------------------------------------------------------
(* Running a command.                                                      *)
Ready(c) ==
    /\ client[c].phase = "ready" \/ (client[c].phase = "seen" /\ client[c].op = "run")
    /\ Valid(grants[client[c].subject])

(* Mutant: the attempt runs for its timeout, whatever is left of the grant.*)
AttemptUnbounded(c, timeout) ==
    /\ Ready(c)
    /\ Go(c, [phase |-> "timed", subject |-> client[c].subject, waited |-> 0, over |-> 0,
              allowed |-> timeout])
    /\ UNCHANGED <<grants, locks, exec, files, foreign>>

(* Every attempt loads the grant again and runs no longer than it lasts.   *)
Attempt(c, timeout) ==
    /\ Ready(c)
    /\ LET left == grants[client[c].subject].left
       IN  Go(c, [phase |-> "timed", subject |-> client[c].subject, waited |-> 0, over |-> 0,
                  allowed |-> IF left < timeout THEN left ELSE timeout])
    /\ UNCHANGED <<grants, locks, exec, files, foreign>>

Launch(c) ==
    /\ client[c].phase = "timed"
    /\ exec' = [exec EXCEPT ![c] = [step |-> "waiting", id |-> client[c].subject,
                                    left |-> client[c].allowed, attended |-> TRUE]]
    /\ Go(c, [phase |-> "running", subject |-> client[c].subject, over |-> client[c].over])
    /\ UNCHANGED <<grants, locks, files, foreign>>

Returned(c) ==
    /\ client[c].phase = "running" /\ exec[c].step = "done"
    /\ exec' = [exec EXCEPT ![c] = None] /\ Go(c, Idle) /\ Release(c)
    /\ UNCHANGED <<grants, files, foreign>>

(* The command failed by itself, at its deadline or by the stop: one that  *)
(* only reads may be retried.  (Any other pauses its task, until someone   *)
(* reactivates it.)                                                        *)
Failed(c) ==
    /\ client[c].phase = "running" /\ exec' = [exec EXCEPT ![c] = None]
    /\ \/ /\ grants[client[c].subject].kind = "inspect"
          /\ Go(c, [phase |-> "ready", subject |-> client[c].subject])
          /\ UNCHANGED locks
       \/ Go(c, Idle) /\ Release(c)
    /\ UNCHANGED <<grants, files, foreign>>

(* One that outlived its process ends unseen.                              *)
Vanish(c) ==
    /\ exec[c] # None /\ ~exec[c].attended /\ exec' = [exec EXCEPT ![c] = None]
    /\ UNCHANGED <<grants, locks, client, files, foreign>>
-----------------------------------------------------------------------------
(* The executor: every step below holds the common lock of the directory.  *)
Holds(c) == exec[c].step \notin {"none", "waiting"}

Kind(c) == grants[exec[c].id].kind

Step(c, from, to) ==
    /\ exec[c].step = from
    /\ exec' = [exec EXCEPT ![c].step = to]

(* The lock is taken with the first step.                                  *)
First(c, kind, to) ==
    Step(c, "waiting", to) /\ Kind(c) = kind /\ \A d \in Clients : ~Holds(d)

Inspect(c) ==
    /\ First(c, "inspect", "done")
    /\ UNCHANGED <<grants, locks, client, files, foreign>>

(* The scratch directory is created exclusively, ...                       *)
MakeScratch(c) ==
    /\ First(c, "create", "made")
    /\ scratch = Absent /\ ids < MaxIds /\ ids' = ids + 1 /\ own' = own \union {ids'}
    /\ scratch' = [id |-> ids', entry |-> FALSE]
    /\ UNCHANGED <<grants, locks, client, name, extra, receipt, foreign>>

(* ... recorded, as the stage of the file is later, ...                    *)
Record(c) ==
    /\ \/ Step(c, "made", "recorded") /\ receipt' = receipt \union {scratch.id}
       \/ Step(c, "staged", "filed") /\ receipt' = receipt \union {name["source"]}
    /\ UNCHANGED <<grants, locks, client, scratch, name, extra, ids, own, foreign>>

(* ... and removed again when it holds nothing else.                       *)
CleanScratch(c) ==
    /\ Step(c, "recorded", "cleaned") /\ ~scratch.entry /\ scratch' = Absent
    /\ UNCHANGED <<grants, locks, client, name, extra, receipt, ids, own, foreign>>

(* Mutant: the executor trusts the identity that its grant binds.          *)
RecoverBound(c) ==
    /\ First(c, "recover", "done")
    /\ scratch # Absent /\ scratch.id = grants[exec[c].id].bound /\ ~scratch.entry
    /\ scratch' = Absent
    /\ UNCHANGED <<grants, locks, client, name, extra, receipt, ids, own, foreign>>

(* A recovery removes a directory that it finds in the creation receipt.   *)
RecoverScratch(c) ==
    /\ First(c, "recover", "done")
    /\ scratch # Absent /\ scratch.id \in receipt /\ ~scratch.entry
    /\ scratch' = Absent
    /\ UNCHANGED <<grants, locks, client, name, extra, receipt, ids, own, foreign>>

Stage(c) ==
    /\ Step(c, "cleaned", "staged") /\ name["source"] = Absent
    /\ ids < MaxIds /\ ids' = ids + 1 /\ own' = own \union {ids'}
    /\ name' = [name EXCEPT !["source"] = ids']
    /\ UNCHANGED <<grants, locks, scratch, extra, receipt, foreign>>
    /\ Observed(TRUE)

Link(c) ==
    /\ Step(c, "filed", "linked") /\ name["destination"] = Absent
    /\ name' = [name EXCEPT !["destination"] = name["source"]]
    /\ UNCHANGED <<grants, locks, scratch, extra, receipt, ids, own, foreign>>
    /\ Observed(TRUE)

(* The stage goes once both names are one recorded file: after the link,   *)
(* or under a grant for the pair.                                          *)
Unstage(c) ==
    /\ Step(c, "linked", "done") \/ First(c, "pair", "done")
    /\ Real = "paired" /\ name["source"] \in receipt
    /\ name' = [name EXCEPT !["source"] = Absent]
    /\ UNCHANGED <<grants, locks, scratch, extra, receipt, ids, own, foreign>>
    /\ Observed(TRUE)

(* Such a grant may also take back what was published.                     *)
Withdraw(c) ==
    /\ First(c, "pair", "done")
    /\ Real \in {"paired", "destination-only"} /\ name["destination"] \in receipt
    /\ name' = [name EXCEPT !["destination"] = Absent]
    /\ UNCHANGED <<grants, locks, scratch, extra, receipt, ids, own, foreign>>
    /\ Observed(TRUE)
-----------------------------------------------------------------------------
(* Others that use the directory take its lock too.                        *)
Elsewhere ==
    /\ foreign < MaxForeign /\ foreign' = foreign + 1 /\ \A c \in Clients : ~Holds(c)
    /\ UNCHANGED <<grants, locks, exec, receipt, own>>

NewId == ids < MaxIds /\ ids' = ids + 1

(* They put a directory of their own in the place of the scratch, or an    *)
(* entry into it, a file under a free name, or a third link to one.        *)
OtherDirectory ==
    /\ Elsewhere
    /\ \/ NewId /\ scratch' = [id |-> ids', entry |-> FALSE]
       \/ scratch # Absent /\ scratch' = [scratch EXCEPT !.entry = TRUE] /\ UNCHANGED ids
    /\ UNCHANGED <<client, name, extra>>

OtherFile(n) ==
    /\ Elsewhere /\ UNCHANGED scratch
    /\ \/ name[n] = Absent /\ NewId /\ name' = [name EXCEPT ![n] = ids'] /\ UNCHANGED extra
       \/ name[n] # Absent /\ extra' = extra \union {name[n]} /\ UNCHANGED <<ids, name>>
    /\ Observed(FALSE)
-----------------------------------------------------------------------------
(* A tick uses up what is left of grants and timeouts; it passes no launch *)
(* for more than Delay.  At its timeout a watched command gets a SIGTERM,  *)
(* which it may ignore, and Grace later a SIGKILL (what it has detached    *)
(* from its process group is not looked at).                               *)
Sooner(left) == IF left > 0 THEN left - 1 ELSE 0

Tick ==
    /\ \A c \in Clients : exec[c] # None /\ exec[c].attended => exec[c].left + Grace > 0
    /\ \A c \in Clients : client[c].phase = "timed" => client[c].waited < Delay
    /\ grants' = [n \in DOMAIN grants |-> [grants[n] EXCEPT !.left = Sooner(@)]]
    /\ exec' = [c \in Clients |-> IF exec[c] = None \/ ~exec[c].attended THEN exec[c]
                                  ELSE [exec[c] EXCEPT !.left = @ - 1]]
    /\ client' = [c \in Clients |->
           CASE client[c].phase \in {"found", "compared", "bound", "half", "seen"}
                     /\ client[c].op = "grant" ->
                    [client[c] EXCEPT !.subject.left = Sooner(@)]
             [] client[c].phase \in {"timed", "running"} ->
                    LET late == IF grants[client[c].subject].left = 0 THEN 1 ELSE 0
                    IN  IF client[c].phase = "timed"
                        THEN [client[c] EXCEPT !.over = @ + late, !.waited = @ + 1]
                        ELSE [client[c] EXCEPT !.over = @ + late]
             [] OTHER -> client[c]]
    /\ UNCHANGED <<locks, files, foreign>>

Ask(c) ==
    \/ \E t \in Tasks, k \in Kinds, life \in 1..MaxLife : BeginGrant(c, t, k, life)
    \/ \E n \in DOMAIN grants : BeginCheck(c, n) \/ BeginRun(c, n)
    \/ Compare(c) \/ Bind(c) \/ Validate(c) \/ StatDestination(c) \/ RecordGrant(c)
    \/ EndClient(c)

Run(c) ==
    \/ \E timeout \in 1..MaxTimeout : Attempt(c, timeout)
    \/ Launch(c) \/ Returned(c) \/ Failed(c) \/ Vanish(c)

Execute(c) ==
    \/ Inspect(c) \/ MakeScratch(c) \/ Record(c) \/ CleanScratch(c) \/ RecoverScratch(c)
    \/ Stage(c) \/ Link(c) \/ Unstage(c) \/ Withdraw(c)

Next ==
    \/ \E c \in Clients : Ask(c) \/ Run(c) \/ Execute(c)
    \/ \E n \in DOMAIN grants : Revoke(n)
    \/ OtherDirectory \/ \E n \in Names : OtherFile(n)
    \/ Tick

Spec == Init /\ [][Next]_vars
-----------------------------------------------------------------------------
(* The names are read one after the other and under no lock, yet a         *)
(* topology that is accepted was there at some moment of the read, if none *)
(* but executors touched the names: the order of their steps and the link  *)
(* counts rule out a mixture (external_transactions.py:62).                *)
SeenIsReal == \A c \in Clients : client[c].phase = "seen" => client[c].real

(* While the process that launches a command watches it, the command's     *)
(* grant is not revoked: a revocation waits for the lock of the task, from *)
(* the check of the grant to the end of the command                        *)
(* (external_access.py:265, runner.py:374, 556).                           *)
CoveredWhileRunning ==
    \A c \in Clients : client[c].phase \in {"timed", "running"} =>
        ~grants[client[c].subject].revoked

(* Such a command outlives its grant by no more than the time from the     *)
(* check of the grant to its start (runner.py:374) and the grace it is     *)
(* given to end by itself (execution.py:47), a retry included.             *)
EndsWithGrant ==
    \A c \in Clients : client[c].phase = "running" => client[c].over <= Delay + Grace

(* No executor removes or replaces what none of them created, even if it   *)
(* took the place of a recorded directory while the harness, which looks   *)
(* at the name again and again and under no lock, was granting that one's  *)
(* recovery (external_transactions.py:170, 180, 195, 257).                 *)
ForeignKept ==
    [][foreign' = foreign =>
          /\ scratch # Absent /\ scratch.id \notin own => scratch' = scratch
          /\ \A n \in Names : name[n] \notin own \union {Absent} => name'[n] = name[n]]_vars
=============================================================================

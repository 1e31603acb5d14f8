---------------------------- MODULE Continuation ----------------------------
(***************************************************************************)
(* Continuing finished work under a new authorised budget.  A successor    *)
(* takes over the consumption of its sources, several processes may ask    *)
(* for a successor of the same source at once, tasks that are not locked   *)
(* go on meanwhile, late receipts are charged to stopped tasks, and the    *)
(* retention command deletes old checkpoints without taking any lock.      *)
(*                                                                         *)
(* Every operation but the two that are split here holds its task's lock   *)
(* from load to save and is one action.  continue_task takes its locks one *)
(* by one; prune reads file by file, plans, and deletes file by file.  The     *)
(* emergency stop and a changed configuration only make an operation       *)
(* refuse.  The harness lock is taken last and held by nobody who waits,   *)
(* so it is left out.                                                      *)
(***************************************************************************)
EXTENDS Integers, FiniteSetsExt, TaskStatus

CONSTANTS
    Ids,            \* task ids, in the order in which they sort
    Procs, Nobody,  \* hexa processes that continue tasks, and no process
    Pruners,        \* hexa processes that prune
    ProjectLimits,  \* the project's budget
    Limits,         \* the budgets a user may authorise
    Allowances,     \* tokens a generation call may reserve
    Reports,        \* tokens a checkpoint may report
    Overruns,       \* tokens a generation call may overrun its allowance by
    Steps,          \* may a task have a next step?
    Pauses,         \* the statuses a task waits in: paused, escalated
    StateDays, Keep,\* retention: age limit, completed tasks always kept
    MaxNow, MaxOwn, \* bounds: the clock, the usage charged to one task,
    MaxFresh, MaxSources,  \* tasks started afresh, sources of one continuation,
    MaxBusy         \* continuations and prunes at the same time

Budgets == [calls : Nat, tokens : Nat, wall : Nat, deadline : Nat]

ASSUME ContinuationAssumption ==
    /\ Ids \subseteq Nat /\ IsFiniteSet(Ids) /\ Nobody \notin Procs
    /\ ProjectLimits \in Budgets /\ Limits \subseteq Budgets
    /\ Allowances \subseteq Nat /\ Reports \subseteq Nat /\ Overruns \subseteq Nat
    /\ Steps \subseteq BOOLEAN
    /\ Pauses \subseteq {"paused", "escalated"}
    /\ StateDays \in Nat /\ Keep \in Nat \ {0}
    /\ {MaxNow, MaxOwn, MaxFresh, MaxSources, MaxBusy} \subseteq Nat

VARIABLES
    task,     \* the retained checkpoints
    now,      \* the clock
    lock,     \* who holds a task's lock
    config,   \* who holds the configuration lock
    cont,     \* the continuation each process is at
    prune,    \* what each prune has read, and what it is about to delete
    (* history, read by properties only *)
    own,      \* what was charged to a task itself, and when it was started
    uses,     \* how often a task was continued
    saved,    \* when each task that was ever completed was last saved
    renewed   \* completed tasks saved again after a prune had read them

checkpoints == <<task, own, saved, renewed>>
locks       == <<lock, config, cont>>
vars        == <<task, now, lock, config, cont, prune, own, uses, saved, renewed>>

Tasks ==
    [status : Statuses, step : BOOLEAN, experiment : {"none", "active", "closed"},
     call : {"none", "pending", "settled"}, calls : Nat, tokens : Nat,
     started : Nat, updated : Nat, limits : Budgets,
     sources : SUBSET Ids, lineage : SUBSET Ids]

NoTask ==
    [status |-> "active", step |-> FALSE, experiment |-> "none", call |-> "none",
     calls |-> 0, tokens |-> 0, started |-> 0, updated |-> 0, limits |-> ProjectLimits,
     sources |-> {}, lineage |-> {}]

Idle == [phase |-> "idle", sources |-> {}, limits |-> ProjectLimits, successor |-> NoTask]

Continuations ==
    [phase : {"idle", "locking", "checked"}, sources : SUBSET Ids,
     limits : Budgets, successor : Tasks]

(* stamp holds the time of the last save of the completed tasks it read,   *)
(* old the tasks that ended and expired, then those that it deletes.       *)
Prunes ==
    [phase : {"idle", "reading", "deleting"}, since : Nat, unread : SUBSET Ids,
     stamp : UNION {[S -> Nat] : S \in SUBSET Ids}, old : SUBSET Ids]

NoPrune == [phase |-> "idle", since |-> 0, unread |-> {}, stamp |-> [t \in {} |-> 0], old |-> {}]

Retained == DOMAIN task

(* Ids given out so far; own records every task that was ever started. *)
Issued == DOMAIN own

TypeOK ==
    /\ Retained \subseteq Issued /\ Issued \subseteq Ids
    /\ task \in [Retained -> Tasks] /\ now \in Nat
    /\ lock \in [Ids -> Procs \union {Nobody}] /\ config \in Procs \union {Nobody}
    /\ cont \in [Procs -> Continuations] /\ prune \in [Pruners -> Prunes]
    /\ own \in [Issued -> [calls : Nat, tokens : Nat, started : Nat]]
    /\ uses \in [Ids -> Nat] /\ renewed \subseteq Ids
    /\ DOMAIN saved \subseteq Issued /\ saved \in [DOMAIN saved -> Nat]

Init ==
    /\ task = [t \in {} |-> NoTask] /\ now = 0
    /\ lock = [t \in Ids |-> Nobody] /\ config = Nobody
    /\ cont = [p \in Procs |-> Idle] /\ prune = [r \in Pruners |-> NoPrune]
    /\ own = [t \in {} |-> [calls |-> 0, tokens |-> 0, started |-> 0]]
    /\ uses = [t \in Ids |-> 0] /\ saved = [t \in {} |-> 0] /\ renewed = {}
-----------------------------------------------------------------------------
(* A task with everything whose consumption it answers for. *)
Family(t) == {t} \union task[t].lineage

(* Mutant: one call more than authorised. *)
ExhaustedLate(r) ==
    \/ r.calls > r.limits.calls \/ r.tokens >= r.limits.tokens
    \/ now - r.started >= r.limits.wall \/ now >= r.limits.deadline

Exhausted(r) ==
    \/ r.calls >= r.limits.calls \/ r.tokens >= r.limits.tokens
    \/ now - r.started >= r.limits.wall \/ now >= r.limits.deadline

(* ensure_improvement_resolved. *)
Resolved(r) == r.experiment = "none" \/ (r.experiment = "closed" /\ r.call # "pending")

First(t, S) == t \in S /\ \A u \in S : t <= u

Free(t) == t \in Retained /\ lock[t] = Nobody

Save(t, r) == task' = [task EXCEPT ![t] = [r EXCEPT !.updated = now]]

Charge(t, calls, tokens) ==
    own' = [own EXCEPT ![t].calls = @ + calls, ![t].tokens = @ + tokens]

(* Bounds: usage charged to one task. *)
Affordable(t, calls, tokens) ==
    own[t].calls + calls <= MaxOwn /\ own[t].tokens + tokens <= MaxOwn
-----------------------------------------------------------------------------
(* A task comes into being with the usage it inherits, none or its sources'. *)
(* make_task_id gives it the first unused id, as ids start with the time.  *)
Create(r) ==
    \E n \in Ids :
        /\ First(n, Ids \ Issued)
        /\ task' = [t \in Retained \union {n} |->
                        IF t = n THEN [r EXCEPT !.updated = now] ELSE task[t]]
        /\ own' = [t \in Issued \union {n} |->
                        IF t = n THEN [calls |-> 0, tokens |-> 0, started |-> now] ELSE own[t]]

StartTask ==
    /\ Cardinality({t \in Retained : task[t].sources = {}}) < MaxFresh  \* bound
    /\ Create([NoTask EXCEPT !.started = now])
    /\ UNCHANGED <<now, locks, prune, uses, saved, renewed>>

(* run_task_command charges its call before it launches the command. *)
RunCommand(t) ==
    /\ Free(t) /\ config = Nobody
    /\ task[t].status = "active" /\ ~Exhausted(task[t]) /\ Affordable(t, 1, 0)
    /\ Save(t, [task[t] EXCEPT !.calls = @ + 1]) /\ Charge(t, 1, 0)
    /\ UNCHANGED <<now, locks, prune, uses, saved, renewed>>

CheckpointTask(t, tokens, step) ==
    /\ Free(t) /\ task[t].status \notin Terminal /\ Affordable(t, 0, tokens)
    /\ Save(t, [task[t] EXCEPT !.tokens = @ + tokens, !.step = step])
    /\ Charge(t, 0, tokens)
    /\ UNCHANGED <<now, locks, prune, uses, saved, renewed>>

(* stop, pause, escalate, reactivate. *)
SetTaskStatus(t, s) ==
    /\ Free(t) /\ s \in Allowed[task[t].status]
    /\ Save(t, [task[t] EXCEPT !.status = s])
    /\ UNCHANGED <<now, locks, prune, own, uses, saved, renewed>>

CompleteTask(t) ==
    /\ Free(t) /\ config = Nobody
    /\ task[t].status = "active" /\ ~task[t].step /\ Resolved(task[t])
    /\ Save(t, [task[t] EXCEPT !.status = "completed"])
    /\ saved' = [u \in DOMAIN saved \union {t} |-> IF u = t THEN now ELSE saved[u]]
    /\ UNCHANGED <<now, locks, prune, own, uses, renewed>>
-----------------------------------------------------------------------------
BeginImprovement(t) ==
    /\ Free(t) /\ config = Nobody
    /\ Allowances # {}
    /\ task[t].status = "active" /\ task[t].experiment = "none" /\ ~Exhausted(task[t])
    /\ Save(t, [task[t] EXCEPT !.experiment = "active"])
    /\ UNCHANGED <<now, locks, prune, own, uses, saved, renewed>>

(* The call is charged in full before the host may dispatch it. *)
RequestCandidate(t, tokens) ==
    /\ Free(t) /\ config = Nobody
    /\ task[t].status = "active" /\ task[t].experiment = "active" /\ task[t].call = "none"
    /\ ~Exhausted(task[t]) /\ task[t].tokens + tokens <= task[t].limits.tokens
    /\ Affordable(t, 1, tokens)
    /\ Save(t, [task[t] EXCEPT !.call = "pending", !.calls = @ + 1, !.tokens = @ + tokens])
    /\ Charge(t, 1, tokens)
    /\ UNCHANGED <<now, locks, prune, uses, saved, renewed>>

(* The receipt is accepted whatever the task's status.  Its overrun is     *)
(* charged once; the same receipt again only saves the checkpoint again.   *)
ReceiveHostResult(t, overrun) ==
    /\ Free(t)
    /\ \/ /\ task[t].call = "pending"
          /\ Save(t, [task[t] EXCEPT !.call = "settled", !.tokens = @ + overrun])
          /\ Charge(t, 0, overrun)
       \/ task[t].call = "settled" /\ Save(t, task[t]) /\ UNCHANGED own
    /\ IF task[t].status = "completed"
       THEN /\ saved' = [saved EXCEPT ![t] = now]
            /\ renewed' = IF \E r \in Pruners : t \in DOMAIN prune[r].stamp \union prune[r].old
                          THEN renewed \union {t} ELSE renewed
       ELSE UNCHANGED <<saved, renewed>>
    /\ UNCHANGED <<now, locks, prune, uses>>

(* promote, abandon, and resume after an abandonment. *)
SettleImprovement(t, experiment) ==
    /\ Free(t) /\ config = Nobody
    /\ task[t].status = "active" /\ task[t].experiment # "none"
    /\ Save(t, [task[t] EXCEPT !.experiment = experiment])
    /\ UNCHANGED <<now, locks, prune, own, uses, saved, renewed>>
-----------------------------------------------------------------------------
(* continue_task. *)
CallsOf(record, tasks)  == MapThenSumSet(LAMBDA t : record[t].calls, tasks)
TokensOf(record, tasks) == MapThenSumSet(LAMBDA t : record[t].tokens, tasks)

Lineage(sources) == sources \union UNION {task[s].lineage : s \in sources}

(* Mutant: the counters start afresh. *)
RenewedSuccessor(sources, limits) ==
    [NoTask EXCEPT !.started = Min({task[s].started : s \in sources}), !.limits = limits,
                   !.sources = sources, !.lineage = Lineage(sources)]

Successor(sources, limits) ==
    [NoTask EXCEPT
        !.calls = CallsOf(task, sources),
        !.tokens = TokensOf(task, sources),
        !.started = Min({task[s].started : s \in sources}),
        !.limits = limits, !.sources = sources, !.lineage = Lineage(sources)]

Apart(sources) == \A s, t \in sources : s # t => Family(s) \intersect Family(t) = {}

Unused(sources) == \A t \in Retained : sources \intersect task[t].lineage = {}

(* Mutant: unreported usage of a stopped source does not matter. *)
ContinuableUnreported(s) == task[s].status \in Terminal /\ ~task[s].step

Continuable(s) == task[s].status \in Terminal /\ ~task[s].step /\ Resolved(task[s])

(* Bound: the operations that are split here and in progress.              *)
Spare ==
    Cardinality({p \in Procs : cont[p] # Idle}) + Cardinality({r \in Pruners : prune[r] # NoPrune})
        < MaxBusy

AskToContinue(p, sources, limits) ==
    /\ cont[p] = Idle /\ Spare /\ sources # {} /\ Cardinality(sources) <= MaxSources
    /\ cont' = [cont EXCEPT ![p] = [Idle EXCEPT !.phase = "locking", !.sources = sources,
                                                !.limits = limits]]
    /\ UNCHANGED <<checkpoints, now, lock, config, prune, uses>>

Unlocked(p) == {s \in cont[p].sources : lock[s] # p}

(* Mutant: the locks are taken in the order the caller named the sources. *)
LockInAnyOrder(p) ==
    /\ cont[p].phase = "locking"
    /\ \E s \in Unlocked(p) : lock[s] = Nobody /\ lock' = [lock EXCEPT ![s] = p]
    /\ UNCHANGED <<checkpoints, now, config, cont, prune, uses>>

LockSource(p) ==
    /\ cont[p].phase = "locking"
    /\ \E s \in Ids :
            First(s, Unlocked(p)) /\ lock[s] = Nobody /\ lock' = [lock EXCEPT ![s] = p]
    /\ UNCHANGED <<checkpoints, now, config, cont, prune, uses>>

(* Everything continue_task verifies about what it has read; TaskState and *)
(* TaskBudget validate what they are made of.                              *)
MayContinue(sources, limits) ==
    /\ sources \subseteq Retained /\ \A s \in sources : Continuable(s)
    /\ Apart(sources) /\ Unused(sources) /\ limits.deadline > now
    /\ Successor(sources, limits) \in Tasks /\ ~Exhausted(Successor(sources, limits))

(* Mutant: the sources are read before the locks are had. *)
CheckUnlocked(p) ==
    /\ cont[p].phase = "locking"
    /\ MayContinue(cont[p].sources, cont[p].limits)
    /\ cont' = [cont EXCEPT ![p].phase = "checked",
                            ![p].successor = Successor(cont[p].sources, cont[p].limits)]
    /\ UNCHANGED <<checkpoints, now, lock, config, prune, uses>>

(* With every lock held, the sources are read and the successor made up. *)
CheckSources(p) ==
    /\ cont[p].phase = "locking" /\ Unlocked(p) = {} /\ config = Nobody
    /\ MayContinue(cont[p].sources, cont[p].limits)
    /\ config' = p
    /\ cont' = [cont EXCEPT ![p].phase = "checked",
                            ![p].successor = Successor(cont[p].sources, cont[p].limits)]
    /\ UNCHANGED <<checkpoints, now, lock, prune, uses>>

Release(p) ==
    /\ lock' = [t \in Ids |-> IF lock[t] = p THEN Nobody ELSE lock[t]]
    /\ config' = IF config = p THEN Nobody ELSE config
    /\ cont' = [cont EXCEPT ![p] = Idle]

(* Mutant: the tokens are inherited at the check and again at the save. *)
SaveInheritingAgain(p) ==
    /\ cont[p].phase = "checked"
    /\ Create([cont[p].successor EXCEPT
                  !.tokens = @ + TokensOf(task, cont[p].sources \intersect Retained)])
    /\ Release(p)
    /\ uses' = [t \in Ids |-> IF t \in cont[p].sources THEN uses[t] + 1 ELSE uses[t]]
    /\ UNCHANGED <<now, prune, saved, renewed>>

SaveSuccessor(p) ==
    /\ cont[p].phase = "checked"
    /\ Create(cont[p].successor) /\ Release(p)
    /\ uses' = [t \in Ids |-> IF t \in cont[p].sources THEN uses[t] + 1 ELSE uses[t]]
    /\ UNCHANGED <<now, prune, saved, renewed>>

RefuseSources(p) ==
    /\ cont[p].phase = "locking" /\ Unlocked(p) = {} /\ config = Nobody
    /\ ~MayContinue(cont[p].sources, cont[p].limits)
    /\ Release(p)
    /\ UNCHANGED <<checkpoints, now, prune, uses>>

(* The emergency stop refuses it, or the process ends at any point before  *)
(* the save: the operating system releases the locks.                      *)
GiveUp(p) ==
    /\ cont[p] # Idle /\ Release(p)
    /\ UNCHANGED <<checkpoints, now, prune, uses>>
-----------------------------------------------------------------------------
(* prune, once by every process in Pruners: none of its steps takes a lock. *)
Went(r, plan) == prune' = [prune EXCEPT ![r] = plan]

(* The clock is read and the checkpoints are listed, ...                   *)
BeginPrune(r) ==
    /\ prune[r] = NoPrune /\ Spare /\ Retained # {}
    /\ Went(r, [NoPrune EXCEPT !.phase = "reading", !.since = now, !.unread = Retained])
    /\ UNCHANGED <<checkpoints, now, locks, uses>>

(* What a prune knows once it has read t, too.                             *)
Read(p, t) ==
    LET known == DOMAIN p.stamp \union (IF task[t].status = "completed" THEN {t} ELSE {})
    IN  [p EXCEPT
            !.unread = @ \ {t},
            !.stamp = [u \in known |-> IF u = t THEN task[t].updated ELSE p.stamp[u]],
            !.old = IF task[t].status \in Terminal /\ p.since - task[t].updated > StateDays
                    THEN @ \union {t} ELSE @]

(* ... then read one by one, ...                                           *)
ReadTask(r, t) ==
    /\ prune[r].phase = "reading" /\ t \in prune[r].unread \intersect Retained
    /\ prune[r].unread # {t}
    /\ Went(r, Read(prune[r], t))
    /\ UNCHANGED <<checkpoints, now, locks, uses>>

(* Mutant: the tasks saved longest ago are kept. *)
LeastRecent(recent, stamp) ==
    /\ recent \subseteq DOMAIN stamp
    /\ Cardinality(recent) = Min({Keep, Cardinality(DOMAIN stamp)})
    /\ \A t \in recent, u \in DOMAIN stamp \ recent : stamp[t] <= stamp[u]

(* list_tasks sorts by the time of the last save, ties in any order.       *)
MostRecent(recent, stamp) ==
    /\ recent \subseteq DOMAIN stamp
    /\ Cardinality(recent) = Min({Keep, Cardinality(DOMAIN stamp)})
    /\ \A t \in recent, u \in DOMAIN stamp \ recent : stamp[t] >= stamp[u]

Delete(S) == IF S = {} THEN NoPrune ELSE [NoPrune EXCEPT !.phase = "deleting", !.old = S]

(* ... and with the last of them the plan is made.                         *)
PlanPrune(r, t) ==
    /\ prune[r].phase = "reading" /\ t \in Retained /\ prune[r].unread = {t}
    /\ LET p == Read(prune[r], t)
       IN  \E recent \in SUBSET DOMAIN p.stamp :
               MostRecent(recent, p.stamp) /\ Went(r, Delete(p.old \ recent))
    /\ UNCHANGED <<checkpoints, now, locks, uses>>

(* A checkpoint that another prune deleted already is passed over.         *)
ApplyPrune(r) ==
    /\ \E t \in Ids :
            /\ prune[r].phase = "deleting" /\ First(t, prune[r].old)
            /\ Went(r, Delete(prune[r].old \ {t}))
            /\ task' = [u \in Retained \ {t} |-> task[u]]
    /\ UNCHANGED <<now, locks, own, uses, saved, renewed>>

(* Without --apply it only lists the plan; it fails when a checkpoint goes *)
(* before it is read or while it is deleted; or its process ends.          *)
LeavePrune(r) ==
    /\ prune[r] # NoPrune /\ Went(r, NoPrune)
    /\ UNCHANGED <<checkpoints, now, locks, uses>>

Tick ==
    /\ now < MaxNow /\ now' = now + 1
    /\ UNCHANGED <<checkpoints, locks, prune, uses>>
-----------------------------------------------------------------------------
Work ==
    \/ StartTask
    \/ \E t \in Retained :
          \/ RunCommand(t) \/ CompleteTask(t) \/ BeginImprovement(t)
          \/ \E n \in Reports \union {0}, s \in Steps : CheckpointTask(t, n, s)
          \/ \E s \in Pauses \union {"active", "stopped"} : SetTaskStatus(t, s)
          \/ \E n \in Allowances : RequestCandidate(t, n)
          \/ \E n \in Overruns \union {0} : ReceiveHostResult(t, n)
          \/ \E e \in {"active", "closed"} : SettleImprovement(t, e)

Decide(p) == CheckSources(p) \/ RefuseSources(p)

Continue(p) ==
    \/ \E sources \in SUBSET Issued, limits \in Limits : AskToContinue(p, sources, limits)
    \/ LockSource(p) \/ Decide(p) \/ SaveSuccessor(p) \/ GiveUp(p)

Prune(r) ==
    \/ BeginPrune(r) \/ ApplyPrune(r) \/ LeavePrune(r)
    \/ \E t \in Retained : ReadTask(r, t) \/ PlanPrune(r, t)

Next ==
    \/ Work \/ Tick
    \/ \E p \in Procs : Continue(p)
    \/ \E r \in Pruners : Prune(r)

Spec == Init /\ [][Next]_vars

(* A process that runs and is not waiting for a lock goes on.  flock hands *)
(* a lock to the processes that wait for it in turn: one that is free      *)
(* again and again is eventually had.                                      *)
Fairness ==
    \A p \in Procs :
        /\ SF_vars(LockSource(p)) /\ SF_vars(Decide(p))
        /\ WF_vars(SaveSuccessor(p) \/ (Issued = Ids /\ cont[p].phase = "checked" /\ GiveUp(p)))

LiveSpec == Spec /\ Fairness
-----------------------------------------------------------------------------
(* A task's counters and its start cover its whole ancestry: every unit    *)
(* charged to an ancestor is counted, once, also after its checkpoint is   *)
(* pruned, and whatever the ancestor was charged while stopped.            *)
UsageCountedOnce ==
    \A t \in Retained :
        /\ task[t].calls = CallsOf(own, Family(t))
        /\ task[t].tokens = TokensOf(own, Family(t))
        /\ task[t].started = Min({own[a].started : a \in Family(t)})

(* Two checkpoints never answer for the same consumption unless one of     *)
(* them succeeds the other: no source feeds two lines of work.             *)
LineagesAreNested ==
    \A t, u \in Retained :
        Family(t) \intersect Family(u) # {} => t \in Family(u) \/ u \in Family(t)

(* The commands and calls of a task together with those of all the tasks   *)
(* it succeeds never exceed the limit authorised for it.                   *)
CallsWithinAuthority ==
    \A t \in Retained : CallsOf(own, Family(t)) <= task[t].limits.calls

(* "continue ... consume a source at most once": two successors are never  *)
(* made of one source, by processes that race or one after the other.      *)
ConsumedOnce == \A t \in Ids : uses[t] <= 1

(* Once a task was continued nothing is charged to it any more, and its    *)
(* status, its pending step and its experiment stay what they were.        *)
ConsumedIsFrozen ==
    [][\A t \in Retained :
            (\E u \in Retained : t \in task[u].lineage) /\ t \in DOMAIN task'
                => task'[t] = [task[t] EXCEPT !.updated = task'[t].updated]]_vars

(* prune, which plans on checkpoints it does not lock and deletes them     *)
(* later, never deletes unfinished work.                                   *)
PrunedIsTerminal ==
    [][\A t \in Retained : t \notin DOMAIN task' => task[t].status \in Terminal]_vars

(* However many prunes overlap, and whatever is completed or saved again   *)
(* between their reads, their plans and their deletions, a completed task  *)
(* that is gone was not among the Keep that were saved last: as many others*)
(* were completed and saved at the same time or later, unless it was saved *)
(* again after the prune had read it (retention.py:24).                    *)
LatestKept ==
    \A t \in DOMAIN saved \ (Retained \union renewed) :
        Cardinality({u \in DOMAIN saved \ {t} : saved[u] >= saved[t]}) >= Keep

(* Every continuation ends: processes that take the locks of overlapping   *)
(* sources do not wait for each other for ever.                            *)
ContinuationEnds == \A p \in Procs : cont[p] # Idle ~> cont[p] = Idle
=============================================================================

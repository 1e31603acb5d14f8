----------------------------- MODULE Generation -----------------------------
(***************************************************************************)
(* Candidate generation by the host: the reservation of a call's full      *)
(* allowance before the host may dispatch it, the host's receipts, which   *)
(* come late, twice, in parts or never, and the ledger they are charged    *)
(* to.                                                                     *)
(*                                                                         *)
(* Every operation holds the task's lock from its load to its last save;   *)
(* a request made through the host adapter saves twice, and a process may  *)
(* die between the saves or before its answer reaches the host.  The       *)
(* emergency stop gates requests exactly as the cancel file does and is    *)
(* left out, as is the cancel_requested flag, which nothing reads.         *)
(***************************************************************************)
EXTENDS Integers, FiniteSetsExt

CONSTANTS
    Keys,          \* the host's idempotency keys
    Measures,      \* what is metered: tokens and cost
    Reservations,  \* the allowances a request may ask for
    Usages,        \* the figures a receipt may report
    Unknown,       \* a figure that was not measured
    Texts, NoText, \* the generated texts
    Origins,       \* provenance and provider identity of a receipt
    NoOrigin,
    Limit,         \* the task's budget
    MaxReported    \* bound: usage the task's checkpoints report besides

(* Every request uses up one of the calls the task was given, so there are *)
(* finitely many keys.                                                     *)
ASSUME GenerationAssumption ==
    /\ IsFiniteSet(Keys)
    /\ Reservations \subseteq [Measures -> Nat]
    /\ Usages \subseteq [Measures -> Nat \union {Unknown}] /\ Unknown \notin Nat
    /\ NoText \notin Texts /\ NoOrigin \notin Origins
    /\ Limit \in [Measures -> Nat] /\ MaxReported \in Nat

VARIABLES
    task, status,   \* the task's status and its experiment's
    req,            \* the experiment's generation requests
    spent,          \* tokens_used and cost_usd
    cancel,         \* the cancel file
    pc, key,        \* the operation that holds the task lock and its key
    (* history, read by properties only *)
    granted,        \* answers with "created": the host dispatches on those
    hosted,         \* keys reserved through the host adapter
    reported,       \* usage charged by checkpoints
    refusedOwn      \* a retry was refused as another intent though it was the same

history == <<granted, hosted, reported, refusedOwn>>
vars    == <<task, status, req, spent, cancel, pc, key, history>>

RequestStatuses == {"none", "pending", "unknown", "settled", "over-budget"}

Resolved == {"completed", "cancelled", "failed"}

CallStatuses == {"none", "requested", "unknown"} \union Resolved

Unmeasured == [m \in Measures |-> Unknown]

(* HostResult: only a completed call has a text. *)
Results ==
    {r \in [outcome : Resolved \union {"unknown"}, text : Texts \union {NoText},
            usage : Usages, origin : Origins] :
        (r.outcome = "completed") <=> r.text # NoText}

NoResult == [outcome |-> "none", text |-> NoText, usage |-> Unmeasured, origin |-> NoOrigin]

(* GenerationRequest with its HostCall; receipt stands for the retained    *)
(* receipt's digest, which identifies the receipt.                         *)
Requests ==
    [status : RequestStatuses, reserved : [Measures -> Nat],
     actual : [Measures -> Nat \union {Unknown}], text : Texts \union {NoText},
     call : CallStatuses, origin : Origins \union {NoOrigin}, receipt : Results \union {NoResult}]

NoRequest ==
    [status |-> "none", reserved |-> [m \in Measures |-> 0], actual |-> Unmeasured,
     text |-> NoText, call |-> "none", origin |-> NoOrigin, receipt |-> NoResult]

TypeOK ==
    /\ task \in {"active", "paused", "stopped", "completed"}
    /\ status \in {"active", "promoted", "cancelled"}
    /\ req \in [Keys -> Requests] /\ spent \in [Measures -> Nat] /\ cancel \in BOOLEAN
    /\ pc \in {"idle", "binding", "replying"} /\ key \in Keys
    /\ granted \in [Keys -> Nat] /\ hosted \subseteq Keys
    /\ reported \in [Measures -> Nat] /\ refusedOwn \in BOOLEAN

Init ==
    /\ task = "active" /\ status = "active" /\ req = [k \in Keys |-> NoRequest]
    /\ spent = [m \in Measures |-> 0] /\ cancel = FALSE
    /\ pc = "idle" /\ key \in Keys
    /\ granted = [k \in Keys |-> 0] /\ hosted = {}
    /\ reported = [m \in Measures |-> 0] /\ refusedOwn = FALSE
-----------------------------------------------------------------------------
Idle == pc = "idle"

(* _host_evidence: the retained receipt is the one that the request's text *)
(* and usage and the call's outcome and origin make up.                    *)
Rebuilt(r) == [outcome |-> r.call, text |-> r.text, usage |-> r.actual, origin |-> r.origin]

HostEvidence(r) ==
    CASE r.call = "none" -> TRUE
      [] r.call = "requested" -> r.status = "pending" /\ r.receipt = NoResult
      [] OTHER -> r.receipt = Rebuilt(r)

Exhausted ==
    \E m \in Measures : IF Limit[m] = 0 THEN spent[m] > 0 ELSE spent[m] >= Limit[m]

(* Mutant: a call that cost more than its allowance does not stop others. *)
ReadyAfterOverrun ==
    /\ task = "active" /\ status = "active" /\ ~cancel /\ ~Exhausted
    /\ \A k \in Keys : HostEvidence(req[k]) /\ req[k].status \notin {"pending", "unknown"}

(* _ready: every earlier request is settled. *)
Ready ==
    /\ task = "active" /\ status = "active" /\ ~cancel /\ ~Exhausted
    /\ \A k \in Keys : HostEvidence(req[k]) /\ req[k].status \in {"none", "settled"}
-----------------------------------------------------------------------------
(* request_candidate, called by the host or by its adapter. *)
Reserved(amount) == [NoRequest EXCEPT !.status = "pending", !.reserved = amount]

Reserve(k, amount) ==
    /\ \A m \in Measures : spent[m] + amount[m] <= Limit[m]
    /\ spent' = [m \in Measures |-> spent[m] + amount[m]]
    /\ req' = [req EXCEPT ![k] = Reserved(amount)]
    /\ key' = k

(* A key that has a request already is answered with that request and      *)
(* "created: false", or refused: neither changes anything.                 *)
RequestCandidate(k, amount) ==
    /\ Idle /\ Ready /\ req[k].status = "none"
    /\ Reserve(k, amount)
    /\ pc' = "replying"
    /\ UNCHANGED <<task, status, cancel, history>>

PrepareHostRequest(k, amount) ==
    /\ Idle /\ Ready /\ req[k].status = "none"
    /\ Reserve(k, amount)
    /\ pc' = "binding" /\ hosted' = hosted \union {k}
    /\ UNCHANGED <<task, status, cancel, granted, reported, refusedOwn>>

(* The second save ties the call's identity to the reservation. *)
BindHostCall ==
    /\ pc = "binding"
    /\ req' = [req EXCEPT ![key] = [@ EXCEPT !.call = "requested"]]
    /\ pc' = "replying"
    /\ UNCHANGED <<task, status, spent, cancel, key, history>>

(* The answer reaches the host. *)
Reply ==
    /\ pc = "replying"
    /\ granted' = [granted EXCEPT ![key] = @ + 1]
    /\ pc' = "idle"
    /\ UNCHANGED <<task, status, req, spent, cancel, key, hosted, reported, refusedOwn>>

Crash ==
    /\ ~Idle /\ pc' = "idle"
    /\ UNCHANGED <<task, status, req, spent, cancel, key, history>>

(* prepare_host_request for a key that has a request: it is answered with  *)
(* "created: false" only if a call is bound to it.                         *)
RetryHostRequest(k, amount) ==
    /\ Idle /\ req[k].status # "none"
    /\ refusedOwn' = (refusedOwn \/
                        (req[k].call = "none" /\ k \in hosted /\ amount = req[k].reserved))
    /\ UNCHANGED <<task, status, req, spent, cancel, pc, key, granted, hosted, reported>>
-----------------------------------------------------------------------------
(* record_generation_usage. *)
Excess(reserved, used) == IF used = Unknown \/ used <= reserved THEN 0 ELSE used - reserved

(* Mutant: what an earlier, partial report charged is charged again. *)
ChargeAgain(r, usage) ==
    [m \in Measures |-> spent[m] + Excess(r.reserved[m], usage[m])]

Charge(r, usage) ==
    [m \in Measures |-> spent[m] + Excess(r.reserved[m], usage[m])
                                 - Excess(r.reserved[m], r.actual[m])]

UsageStatus(r, usage) ==
    IF \E m \in Measures : usage[m] = Unknown THEN "unknown"
    ELSE IF \E m \in Measures : Excess(r.reserved[m], usage[m]) > 0 THEN "over-budget"
    ELSE "settled"

(* A figure once reported stays. *)
Agrees(r, usage) == \A m \in Measures : r.actual[m] # Unknown => usage[m] = r.actual[m]

(* submit_candidate_to_state: the same key always brings the same text. *)
SameText(r, text) == r.text # NoText => text = r.text

Submitted(r, text, usage) ==
    [r EXCEPT !.text = text, !.actual = usage, !.status = UsageStatus(r, usage)]

SubmitCandidate(k, text, usage) ==
    /\ Idle /\ req[k].status # "none" /\ req[k].call = "none"
    /\ Agrees(req[k], usage) /\ SameText(req[k], text)
    /\ req' = [req EXCEPT ![k] = Submitted(@, text, usage)]
    /\ spent' = Charge(req[k], usage)
    /\ UNCHANGED <<task, status, cancel, pc, key, history>>

Outcome(r, result) ==
    IF result.outcome = "unknown" THEN "unknown" ELSE UsageStatus(r, result.usage)

(* Mutant: the digest of the first receipt is kept. *)
ReceivedKeepingFirst(r, result) ==
    [r EXCEPT !.text = IF result.text # NoText THEN result.text ELSE @,
              !.actual = result.usage, !.status = Outcome(r, result),
              !.call = result.outcome, !.origin = result.origin,
              !.receipt = IF @ = NoResult THEN result ELSE @]

Received(r, result) ==
    [r EXCEPT !.text = IF result.text # NoText THEN result.text ELSE @,
              !.actual = result.usage, !.status = Outcome(r, result),
              !.call = result.outcome, !.origin = result.origin, !.receipt = result]

(* receive_host_result, at any time: the task may have ended, the receipt  *)
(* may be a duplicate or complete an earlier one.                          *)
ReceiveHostResult(k, result) ==
    /\ Idle /\ req[k].call # "none" /\ HostEvidence(req[k])
    /\ req[k].origin \in {NoOrigin, result.origin}
    /\ req[k].call \in Resolved => result.outcome = req[k].call
    /\ Agrees(req[k], result.usage)
    /\ result.text # NoText => SameText(req[k], result.text)
    /\ req' = [req EXCEPT ![k] = Received(@, result)]
    /\ spent' = Charge(req[k], result.usage)
    /\ UNCHANGED <<task, status, cancel, pc, key, history>>
-----------------------------------------------------------------------------
(* checkpoint_task reports usage of the host's own work. *)
CheckpointUsage(m) ==
    /\ Idle /\ task \in {"active", "paused"} /\ reported[m] < MaxReported
    /\ spent' = [spent EXCEPT ![m] = @ + 1]
    /\ reported' = [reported EXCEPT ![m] = @ + 1]
    /\ UNCHANGED <<task, status, req, cancel, pc, key, granted, hosted, refusedOwn>>

(* cancel_improvement, also on behalf of request_host_cancellation: no     *)
(* lock is taken.                                                          *)
Cancel ==
    /\ status = "active"
    /\ cancel' = TRUE
    /\ UNCHANGED <<task, status, req, spent, pc, key, history>>

ResumeImprovement(abandon) ==
    /\ Idle /\ task = "active" /\ status # "promoted"
    /\ status' = IF abandon THEN "cancelled" ELSE "active"
    /\ cancel' = FALSE
    /\ UNCHANGED <<task, req, spent, pc, key, history>>

(* The promotion itself is modelled in module Improvement. *)
PromoteCandidate ==
    /\ Idle /\ Ready /\ \E k \in Keys : req[k].text # NoText
    /\ status' = "promoted"
    /\ UNCHANGED <<task, req, spent, cancel, pc, key, history>>

(* complete_task as far as ensure_improvement_resolved decides it.  The    *)
(* sensors of a completion are interrupted by the cancel file.             *)
CompleteTask ==
    /\ Idle /\ task = "active" /\ status \in {"cancelled", "promoted"} /\ ~cancel
    /\ \A k \in Keys : req[k].status \notin {"pending", "unknown"}
    /\ status = "promoted" => \A k \in Keys : HostEvidence(req[k])
    /\ task' = "completed"
    /\ UNCHANGED <<status, req, spent, cancel, pc, key, history>>

(* Paused stands for escalated as well: a wire that fires, also during a   *)
(* request of the host, escalates the active task.                         *)
ChangeTask(to) ==
    /\ Idle
    /\ CASE to = "stopped" -> task \in {"active", "paused"}
         [] to = "paused"  -> task = "active"
         [] OTHER          -> task = "paused"
    /\ task' = to
    /\ UNCHANGED <<status, req, spent, cancel, pc, key, history>>
-----------------------------------------------------------------------------
HolderStep == BindHostCall \/ Reply \/ Crash

Call ==
    \/ \E k \in Keys, amount \in Reservations :
          RequestCandidate(k, amount) \/ PrepareHostRequest(k, amount)
             \/ RetryHostRequest(k, amount)
    \/ \E k \in Keys, text \in Texts, usage \in Usages : SubmitCandidate(k, text, usage)
    \/ \E k \in Keys, result \in Results : ReceiveHostResult(k, result)
    \/ \E m \in Measures : CheckpointUsage(m)
    \/ \E abandon \in BOOLEAN : ResumeImprovement(abandon)
    \/ \E to \in {"active", "paused", "stopped"} : ChangeTask(to)
    \/ PromoteCandidate \/ CompleteTask \/ Cancel

Next == HolderStep \/ Call

Spec == Init /\ [][Next]_vars
-----------------------------------------------------------------------------
(* Properties. *)

Charged(r) == [m \in Measures |-> r.reserved[m] + Excess(r.reserved[m], r.actual[m])]

Cost(requests, m) == MapThenSumSet(LAMBDA k : Charged(requests[k])[m], Keys)

(* Whatever order, number and completeness the receipts have, every        *)
(* request is charged once: its reservation, or what it really used if     *)
(* that is known to be more.                                               *)
LedgerIsExact ==
    \A m \in Measures : spent[m] = Cost(req, m) + reported[m]

Unfinished == {k \in Keys : req[k].status \in {"pending", "unknown", "over-budget"}}

(* At most one request at a time is unresolved or was overrun, so the      *)
(* calls exceed the task's budget by at most the excess of one of them.    *)
OneCallAtRisk == \A j, k \in Unfinished : j = k

(* The host is told to dispatch at most once for a key, and only after the *)
(* allowance was charged and, through the adapter, the call was bound.     *)
GrantedOnce ==
    \A k \in Keys :
        granted[k] > 0 =>
            /\ granted[k] = 1 /\ req[k].status # "none"
            /\ k \in hosted => req[k].call # "none"

(* What was reported is never taken back, also not after the task ended:   *)
(* known figures, the text, the outcome of a call, and settled requests.   *)
ReportedIsFinal ==
    [][\A k \in Keys :
          /\ \A m \in Measures :
                req[k].actual[m] # Unknown => req'[k].actual[m] = req[k].actual[m]
          /\ req[k].text # NoText => req'[k].text = req[k].text
          /\ req[k].call \in Resolved => req'[k].call = req[k].call
          /\ (req[k].status \in {"settled", "over-budget"}) =>
                req'[k].status = req[k].status]_vars

(* The evidence check never refuses a record that the operations wrote.    *)
EvidenceHolds == \A k \in Keys : HostEvidence(req[k])

(* A completed task, and one that gets late receipts afterwards, has no    *)
(* request whose usage is unknown.                                         *)
CompletedIsReconciled ==
    task = "completed" => \A k \in Keys : req[k].status \notin {"pending", "unknown"}

(* host_adapter.py refuses a key with "idempotency key already belongs to  *)
(* another host intent".                                                   *)
RefusesOnlyOtherIntents == ~refusedOwn
=============================================================================

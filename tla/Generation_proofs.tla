-------------------------- MODULE Generation_proofs --------------------------
(***************************************************************************)
(* Proofs about Generation, for any keys, measures, allowances and texts.  *)
(*                                                                         *)
(* The argument has two levels.  Sound says of one request what its fields *)
(* have to do with each other; the first lemmas show that a reservation, a *)
(* binding, a submission and a receipt make sound requests, and that the   *)
(* last two keep what was reported.  StepEffect then reduces every step to *)
(* one such change of one request, and the invariants about all requests   *)
(* follow from that.  The ledger is the sum of its requests (LedgerInv): a *)
(* step changes one summand and the ledger by as much.  The lemmas on sums *)
(* are proved by a least counterexample among the subsets of the keys.     *)
(***************************************************************************)
EXTENDS Generation, FiniteSetTheorems, WellFoundedInduction, TLAPS

(* What the fields of a request have to do with each other. *)
Sound(r) ==
    /\ r.status \in {"none", "pending"} =>
          r.text = NoText /\ r.actual = Unmeasured /\ r.call \in {"none", "requested"}
    /\ r.status = "none" => r.call = "none"
    /\ r.call = "none" => r.receipt = NoResult
    /\ r.call # "none" /\ r.text # NoText => r.call = "completed"
    /\ r.status \in {"settled", "over-budget"} =>
          r.status = UsageStatus(r, r.actual) /\ r.call \in Resolved \union {"none"}
    /\ HostEvidence(r)

(* A report on r makes n of it and takes nothing back. *)
Keeps(r, n) ==
    /\ \A m \in Measures : r.actual[m] # Unknown => n.actual[m] = r.actual[m]
    /\ r.text # NoText => n.text = r.text
    /\ r.call \in Resolved => n.call = r.call
    /\ (r.status \in {"settled", "over-budget"}) => n.status = r.status
    /\ r.call # "none" => n.call # "none"
    /\ n.status \in {"unknown", "settled", "over-budget"}

(* A reservation is a sound request. *)
LEMMA ReservedIsSound ==
    ASSUME NEW amount \in Reservations
    PROVE  /\ Reserved(amount) \in Requests /\ Sound(Reserved(amount))
           /\ Reserved(amount).status = "pending" /\ Reserved(amount).call = "none"
<1>1. Unmeasured \in [Measures -> Nat \union {Unknown}] /\ amount \in [Measures -> Nat]
  BY GenerationAssumption DEF Unmeasured
<1>2. NoRequest \in Requests
  <2>1. [m \in Measures |-> 0] \in [Measures -> Nat]
    OBVIOUS
  <2> QED BY <1>1, <2>1 DEF NoRequest, Requests, RequestStatuses, CallStatuses
<1>3. Reserved(amount) \in Requests
  BY <1>1, <1>2 DEF Reserved, Requests, RequestStatuses
<1>4. /\ Reserved(amount).status = "pending" /\ Reserved(amount).call = "none"
      /\ Reserved(amount).text = NoText /\ Reserved(amount).actual = Unmeasured
      /\ Reserved(amount).receipt = NoResult
  BY DEF Reserved, NoRequest
<1>5. Sound(Reserved(amount))
  BY <1>4 DEF Sound, HostEvidence
<1> QED BY <1>3, <1>4, <1>5

(* Binding the host's call keeps a pending request sound. *)
LEMMA BoundIsSound ==
    ASSUME NEW r \in Requests, Sound(r), r.status = "pending"
    PROVE  /\ [r EXCEPT !.call = "requested"] \in Requests
           /\ Sound([r EXCEPT !.call = "requested"])
<1> DEFINE n == [r EXCEPT !.call = "requested"]
<1>1. n \in Requests
  BY DEF Requests, CallStatuses
<1>2. /\ n.call = "requested" /\ n.status = "pending" /\ n.text = r.text
      /\ n.actual = r.actual /\ n.receipt = r.receipt
  BY DEF Requests
<1>3. n.receipt = NoResult
  BY <1>2 DEF Sound, HostEvidence
<1>4. Sound(n)
  BY <1>2, <1>3 DEF Sound, HostEvidence
<1> QED BY <1>1, <1>4

(* How a reported usage settles a request. *)
LEMMA UsageSettles ==
    ASSUME NEW r \in Requests, NEW usage \in Usages, Agrees(r, usage), Sound(r)
    PROVE  /\ UsageStatus(r, usage) \in {"unknown", "settled", "over-budget"}
           /\ (r.status \in {"settled", "over-budget"}) => UsageStatus(r, usage) = r.status
           /\ \A n : n.reserved = r.reserved => UsageStatus(n, usage) = UsageStatus(r, usage)
<1>1. UsageStatus(r, usage) \in {"unknown", "settled", "over-budget"}
  BY DEF UsageStatus
<1>2. ASSUME r.status \in {"settled", "over-budget"} PROVE UsageStatus(r, usage) = r.status
  <2>1. r.status = UsageStatus(r, r.actual)
    BY <1>2 DEF Sound
  <2>2. \A m \in Measures : r.actual[m] # Unknown
    BY <1>2, <2>1 DEF UsageStatus
  <2>3. \A m \in Measures : usage[m] = r.actual[m]
    BY <2>2 DEF Agrees
  <2> QED BY <2>1, <2>3 DEF UsageStatus
<1>3. \A n : n.reserved = r.reserved => UsageStatus(n, usage) = UsageStatus(r, usage)
  BY DEF UsageStatus
<1> QED BY <1>1, <1>2, <1>3

(* So does a submission, and it keeps what was reported. *)
LEMMA SubmittedIsSound ==
    ASSUME NEW r \in Requests, NEW text \in Texts, NEW usage \in Usages,
           Sound(r), r.status # "none", r.call = "none", Agrees(r, usage), SameText(r, text)
    PROVE  /\ Submitted(r, text, usage) \in Requests /\ Sound(Submitted(r, text, usage))
           /\ Keeps(r, Submitted(r, text, usage))
<1> DEFINE n == Submitted(r, text, usage)
<1>1. /\ n.text = text /\ n.actual = usage /\ n.status = UsageStatus(r, usage)
      /\ n.reserved = r.reserved /\ n.call = "none" /\ n.receipt = r.receipt
  BY DEF Submitted, Requests
<1>2. UsageStatus(n, usage) = n.status
  BY <1>1, UsageSettles
<1>3. n.status \in {"unknown", "settled", "over-budget"}
  BY <1>1, UsageSettles
<1>4. n \in Requests
  <2>1. usage \in [Measures -> Nat \union {Unknown}]
    BY GenerationAssumption
  <2> QED BY <2>1, <1>1, <1>3 DEF Submitted, Requests, RequestStatuses
<1>5. Sound(n)
  BY <1>1, <1>2, <1>3 DEF Sound, HostEvidence
<1>6. Keeps(r, n)
  BY <1>1, <1>3, UsageSettles DEF Keeps, Agrees, SameText, Resolved
<1> QED BY <1>4, <1>5, <1>6

(* So does a receipt. *)
LEMMA ReceivedIsSound ==
    ASSUME NEW r \in Requests, NEW result \in Results,
           Sound(r), r.call # "none", r.call \in Resolved => result.outcome = r.call,
           Agrees(r, result.usage), result.text # NoText => SameText(r, result.text)
    PROVE  /\ Received(r, result) \in Requests /\ Sound(Received(r, result))
           /\ Keeps(r, Received(r, result))
<1> DEFINE n == Received(r, result)
           text == IF result.text # NoText THEN result.text ELSE r.text
<1>0. /\ result.outcome \in Resolved \union {"unknown"} /\ result.text \in Texts \union
         {NoText}
      /\ result.usage \in Usages /\ result.origin \in Origins
      /\ (result.outcome = "completed") <=> result.text # NoText
  BY DEF Results
<1>1. /\ n.text = text /\ n.actual = result.usage /\ n.status = Outcome(r, result)
      /\ n.reserved = r.reserved /\ n.call = result.outcome /\ n.receipt = result
      /\ n.origin = result.origin
  BY DEF Received, Requests
<1>2. \/ n.status = "unknown"
      \/ n.status = UsageStatus(n, result.usage) /\ result.outcome \in Resolved
  <2>1. CASE result.outcome = "unknown"
    BY <1>1, <2>1 DEF Outcome
  <2>2. CASE result.outcome # "unknown"
    <3>1. n.status = UsageStatus(r, result.usage)
      BY <1>1, <2>2 DEF Outcome
    <3>2. UsageStatus(n, result.usage) = UsageStatus(r, result.usage)
      BY <1>0, <1>1, UsageSettles
    <3> QED BY <1>0, <2>2, <3>1, <3>2
  <2> QED BY <2>1, <2>2
<1>3. n.status \in {"unknown", "settled", "over-budget"}
  BY <1>0, <1>1, UsageSettles DEF Outcome
<1>4. n \in Requests
  <2>1. result.usage \in [Measures -> Nat \union {Unknown}]
    BY <1>0, GenerationAssumption
  <2>2. text \in Texts \union {NoText}
    BY <1>0 DEF Requests
  <2> QED BY <1>0, <2>1, <2>2, <1>1, <1>3 DEF Received, Requests, RequestStatuses,
         CallStatuses
<1>5. text = result.text
  <2>1. CASE result.text = NoText /\ r.text # NoText
    BY <1>0, <2>1 DEF Sound, Resolved
  <2> QED BY <2>1
<1>6. n.receipt = Rebuilt(n)
  BY <1>0, <1>1, <1>5 DEF Rebuilt, Results
<1>7. Sound(n)
  <2>1. n.call \notin {"none", "requested"}
    BY <1>0, <1>1 DEF Resolved
  <2>2. HostEvidence(n)
    BY <1>6, <2>1 DEF HostEvidence
  <2>3. n.text # NoText => n.call = "completed"
    BY <1>0, <1>1, <1>5
  <2> QED BY <1>0, <1>1, <1>2, <1>3, <2>1, <2>2, <2>3 DEF Sound
<1>8. Keeps(r, n)
  <2>1. (r.status \in {"settled", "over-budget"}) => n.status = r.status
    BY <1>0, <1>1, UsageSettles DEF Sound, Resolved, Outcome
  <2>2. r.text # NoText => n.text = r.text
    BY <1>1 DEF SameText
  <2> QED BY <1>0, <1>1, <1>3, <2>1, <2>2 DEF Keeps, Agrees, Resolved
<1> QED BY <1>4, <1>7, <1>8
-----------------------------------------------------------------------------
(* The ledger's figures stay natural numbers. *)
LEMMA ChargeType ==
    ASSUME TypeOK, NEW r \in Requests, NEW usage \in Usages, Agrees(r, usage)
    PROVE  Charge(r, usage) \in [Measures -> Nat]
<1> SUFFICES ASSUME NEW m \in Measures
             PROVE  spent[m] + Excess(r.reserved[m], usage[m])
                             - Excess(r.reserved[m], r.actual[m]) \in Nat
  BY DEF Charge
<1>1. /\ usage[m] \in Nat \union {Unknown} /\ r.actual[m] \in Nat \union {Unknown}
      /\ r.reserved[m] \in Nat /\ spent[m] \in Nat
  BY GenerationAssumption DEF TypeOK, Requests
<1>2. Excess(r.reserved[m], usage[m]) \in Nat /\ Excess(r.reserved[m], r.actual[m]) \in Nat
  BY <1>1, GenerationAssumption DEF Excess
<1>3. CASE r.actual[m] = Unknown
  <2>1. Excess(r.reserved[m], r.actual[m]) = 0
    BY <1>3 DEF Excess
  <2> QED BY <1>1, <1>2, <2>1
<1>4. CASE r.actual[m] # Unknown
  <2>1. usage[m] = r.actual[m]
    BY <1>4 DEF Agrees
  <2> QED BY <1>1, <1>2, <2>1
<1> QED BY <1>3, <1>4

SoundInv == \A k \in Keys : Sound(req[k])

HolderInv ==
    /\ pc # "idle" => granted[key] = 0 /\ req[key].status # "none"
    /\ pc = "binding" => req[key].status = "pending" /\ key \in hosted /\ req[key].call = "none"
    /\ pc = "replying" /\ key \in hosted => req[key].call # "none"
    /\ \A k \in Keys : req[k].status = "none" => granted[k] = 0 /\ k \notin hosted

ControlInv == TypeOK /\ SoundInv /\ HolderInv /\ GrantedOnce

(* What a step does to the requests: at most one of them changes, is added *)
(* by a ready experiment, is bound, or gets the usage of a report.         *)
NewRequest(k, amount) ==
    /\ Ready /\ req[k].status = "none" /\ amount \in Reservations
    /\ req' = [req EXCEPT ![k] = Reserved(amount)]

Bound == pc = "binding" /\ req' = [req EXCEPT ![key] = [@ EXCEPT !.call = "requested"]]

Report(k, n) ==
    /\ req[k].status # "none" /\ n \in Requests /\ Sound(n) /\ Keeps(req[k], n)
    /\ req' = [req EXCEPT ![k] = n]

RequestEffect ==
    \/ UNCHANGED req
    \/ \E k \in Keys, amount \in Reservations : NewRequest(k, amount) /\ UNCHANGED task
    \/ Bound
    \/ \E k \in Keys, n \in Requests : Report(k, n) /\ UNCHANGED task

(* A submission and a receipt are reports. *)
LEMMA SubmitReports ==
    ASSUME TypeOK, SoundInv, NEW k \in Keys, NEW text \in Texts, NEW usage \in Usages,
           SubmitCandidate(k, text, usage)
    PROVE  Report(k, Submitted(req[k], text, usage)) /\ spent' \in [Measures -> Nat]
<1>1. req[k] \in Requests /\ Sound(req[k])
  BY DEF TypeOK, SoundInv
<1>2. /\ req[k].status # "none" /\ req[k].call = "none"
      /\ Agrees(req[k], usage) /\ SameText(req[k], text)
      /\ req' = [req EXCEPT ![k] = Submitted(req[k], text, usage)]
      /\ spent' = Charge(req[k], usage)
  BY DEF SubmitCandidate
<1>3. Report(k, Submitted(req[k], text, usage))
  BY <1>1, <1>2, SubmittedIsSound DEF Report
<1> QED BY <1>1, <1>2, <1>3, ChargeType

(* See SubmitReports. *)
LEMMA ReceiptReports ==
    ASSUME TypeOK, SoundInv, NEW k \in Keys, NEW result \in Results,
           ReceiveHostResult(k, result)
    PROVE  Report(k, Received(req[k], result)) /\ spent' \in [Measures -> Nat]
<1>1. req[k] \in Requests /\ Sound(req[k]) /\ result.usage \in Usages
  BY DEF TypeOK, SoundInv, Results
<1>2. /\ req[k].call # "none" /\ Agrees(req[k], result.usage)
      /\ req[k].call \in Resolved => result.outcome = req[k].call
      /\ result.text # NoText => SameText(req[k], result.text)
      /\ req' = [req EXCEPT ![k] = Received(req[k], result)]
      /\ spent' = Charge(req[k], result.usage)
  BY DEF ReceiveHostResult
<1>3. req[k].status # "none"
  BY <1>1, <1>2 DEF Sound
<1>4. Report(k, Received(req[k], result))
  BY <1>1, <1>2, <1>3, ReceivedIsSound DEF Report
<1> QED BY <1>1, <1>2, <1>4, ChargeType

(* Every step has one of these effects on the requests. *)
LEMMA StepEffect ==
    ASSUME TypeOK, SoundInv, [Next]_vars
    PROVE  RequestEffect
<1>1. CASE HolderStep
  <2>1. CASE BindHostCall  BY <2>1 DEF BindHostCall, Bound, RequestEffect
  <2>2. CASE Reply  BY <2>2 DEF Reply, RequestEffect
  <2>3. CASE Crash  BY <2>3 DEF Crash, RequestEffect
  <2> QED BY <1>1, <2>1, <2>2, <2>3 DEF HolderStep
<1>2. CASE Call
  <2>1. ASSUME NEW k \in Keys, NEW amount \in Reservations,
               RequestCandidate(k, amount) \/ PrepareHostRequest(k, amount)
        PROVE  RequestEffect
    BY <2>1 DEF RequestCandidate, PrepareHostRequest, Reserve, NewRequest, RequestEffect
  <2>2. ASSUME NEW k \in Keys, NEW amount \in Reservations, RetryHostRequest(k, amount)
        PROVE  RequestEffect
    BY <2>2 DEF RetryHostRequest, RequestEffect
  <2>3. ASSUME NEW k \in Keys, NEW text \in Texts, NEW usage \in Usages,
               SubmitCandidate(k, text, usage)
        PROVE  RequestEffect
    <3>1. Report(k, Submitted(req[k], text, usage)) /\ UNCHANGED task
      BY <2>3, SubmitReports DEF SubmitCandidate
    <3> QED BY <3>1 DEF RequestEffect, Report
  <2>4. ASSUME NEW k \in Keys, NEW result \in Results, ReceiveHostResult(k, result)
        PROVE  RequestEffect
    <3>1. Report(k, Received(req[k], result)) /\ UNCHANGED task
      BY <2>4, ReceiptReports DEF ReceiveHostResult
    <3> QED BY <3>1 DEF RequestEffect, Report
  <2>5. ASSUME NEW m \in Measures, CheckpointUsage(m) PROVE RequestEffect
    BY <2>5 DEF CheckpointUsage, RequestEffect
  <2>6. ASSUME NEW abandon \in BOOLEAN, ResumeImprovement(abandon) PROVE RequestEffect
    BY <2>6 DEF ResumeImprovement, RequestEffect
  <2>7. ASSUME NEW to \in {"active", "paused", "stopped"}, ChangeTask(to) PROVE
         RequestEffect
    BY <2>7 DEF ChangeTask, RequestEffect
  <2>8. CASE PromoteCandidate  BY <2>8 DEF PromoteCandidate, RequestEffect
  <2>9. CASE CompleteTask  BY <2>9 DEF CompleteTask, RequestEffect
  <2>10. CASE Cancel  BY <2>10 DEF Cancel, RequestEffect
  <2> QED BY <1>2, <2>1, <2>2, <2>3, <2>4, <2>5, <2>6, <2>7, <2>8, <2>9, <2>10 DEF Call
<1>3. CASE UNCHANGED vars  BY <1>3 DEF vars, RequestEffect
<1> QED BY <1>1, <1>2, <1>3 DEF Next

(* A sound request table stays one. *)
LEMMA SoundStep ==
    ASSUME TypeOK, SoundInv, HolderInv, RequestEffect
    PROVE  req' \in [Keys -> Requests] /\ SoundInv'
<1> USE DEF TypeOK, SoundInv
<1>1. CASE UNCHANGED req  BY <1>1
<1>2. ASSUME NEW k \in Keys, NEW amount \in Reservations, NewRequest(k, amount)
      PROVE  req' \in [Keys -> Requests] /\ SoundInv'
  BY <1>2, ReservedIsSound DEF NewRequest
<1>3. CASE Bound
  BY <1>3, BoundIsSound DEF Bound, HolderInv
<1>4. ASSUME NEW k \in Keys, NEW n \in Requests, Report(k, n)
      PROVE  req' \in [Keys -> Requests] /\ SoundInv'
  BY <1>4 DEF Report
<1> QED BY <1>1, <1>2, <1>3, <1>4 DEF RequestEffect

(* Every step keeps the types. *)
LEMMA TypeStep ==
    ASSUME TypeOK, SoundInv, HolderInv, [Next]_vars
    PROVE  TypeOK'
<1>0. req' \in [Keys -> Requests]
  BY StepEffect, SoundStep
<1> USE <1>0 DEF TypeOK, history
<1>1. CASE HolderStep
  <2>1. CASE BindHostCall
    BY <2>1 DEF BindHostCall
  <2>2. CASE Reply
    BY <2>2 DEF Reply
  <2>3. CASE Crash
    BY <2>3 DEF Crash
  <2> QED BY <1>1, <2>1, <2>2, <2>3 DEF HolderStep
<1>2. CASE Call
  <2>1. ASSUME NEW k \in Keys, NEW amount \in Reservations, RequestCandidate(k, amount)
         PROVE TypeOK'
    BY <2>1, GenerationAssumption DEF RequestCandidate, Reserve
  <2>2. ASSUME NEW k \in Keys, NEW amount \in Reservations, PrepareHostRequest(k,
         amount) PROVE TypeOK'
    BY <2>2, GenerationAssumption DEF PrepareHostRequest, Reserve
  <2>3. ASSUME NEW k \in Keys, NEW amount \in Reservations, RetryHostRequest(k, amount)
         PROVE TypeOK'
    BY <2>3 DEF RetryHostRequest
  <2>4. ASSUME NEW k \in Keys, NEW text \in Texts, NEW usage \in Usages,
         SubmitCandidate(k, text, usage) PROVE TypeOK'
    BY <2>4, SubmitReports DEF SubmitCandidate
  <2>5. ASSUME NEW k \in Keys, NEW result \in Results, ReceiveHostResult(k, result)
         PROVE TypeOK'
    BY <2>5, ReceiptReports DEF ReceiveHostResult
  <2>6. ASSUME NEW m \in Measures, CheckpointUsage(m) PROVE TypeOK'
    BY <2>6 DEF CheckpointUsage
  <2>7. ASSUME NEW abandon \in BOOLEAN, ResumeImprovement(abandon) PROVE TypeOK'
    BY <2>7 DEF ResumeImprovement
  <2>8. ASSUME NEW to \in {"active", "paused", "stopped"}, ChangeTask(to) PROVE TypeOK'
    BY <2>8 DEF ChangeTask
  <2>9. CASE PromoteCandidate
    BY <2>9 DEF PromoteCandidate
  <2>10. CASE CompleteTask
    BY <2>10 DEF CompleteTask
  <2>11. CASE Cancel
    BY <2>11 DEF Cancel
  <2> QED BY <1>2, <2>1, <2>2, <2>3, <2>4, <2>5, <2>6, <2>7, <2>8, <2>9, <2>10, <2>11
         DEF Call
<1>3. CASE UNCHANGED vars  BY <1>3 DEF vars
<1> QED BY <1>1, <1>2, <1>3 DEF Next

(* Every step keeps what the holder of the lock relies on. *)
LEMMA HolderInvStep ==
    ASSUME TypeOK, SoundInv, HolderInv, GrantedOnce, [Next]_vars
    PROVE  HolderInv' /\ GrantedOnce'
<1> USE DEF TypeOK, HolderInv, GrantedOnce, history, Idle
<1>1. CASE HolderStep
  <2>1. CASE BindHostCall
    BY <2>1 DEF BindHostCall
  <2>2. CASE Reply
    BY <2>2 DEF Reply
  <2>3. CASE Crash
    BY <2>3 DEF Crash
  <2> QED BY <1>1, <2>1, <2>2, <2>3 DEF HolderStep
<1>2. CASE Call
  <2>1. ASSUME NEW k \in Keys, NEW amount \in Reservations, RequestCandidate(k, amount)
         PROVE HolderInv' /\ GrantedOnce'
    BY <2>1, ReservedIsSound DEF RequestCandidate, Reserve
  <2>2. ASSUME NEW k \in Keys, NEW amount \in Reservations, PrepareHostRequest(k,
         amount) PROVE HolderInv' /\ GrantedOnce'
    BY <2>2, ReservedIsSound DEF PrepareHostRequest, Reserve
  <2>3. ASSUME NEW k \in Keys, NEW amount \in Reservations, RetryHostRequest(k, amount)
         PROVE HolderInv' /\ GrantedOnce'
    BY <2>3 DEF RetryHostRequest
  <2>4. ASSUME NEW k \in Keys, NEW text \in Texts, NEW usage \in Usages,
         SubmitCandidate(k, text, usage) PROVE HolderInv' /\ GrantedOnce'
    BY <2>4, SubmitReports DEF SubmitCandidate, Report, Keeps
  <2>5. ASSUME NEW k \in Keys, NEW result \in Results, ReceiveHostResult(k, result)
         PROVE HolderInv' /\ GrantedOnce'
    BY <2>5, ReceiptReports DEF ReceiveHostResult, Report, Keeps
  <2>6. ASSUME NEW m \in Measures, CheckpointUsage(m) PROVE HolderInv' /\ GrantedOnce'
    BY <2>6 DEF CheckpointUsage
  <2>7. ASSUME NEW abandon \in BOOLEAN, ResumeImprovement(abandon) PROVE HolderInv' /\
         GrantedOnce'
    BY <2>7 DEF ResumeImprovement
  <2>8. ASSUME NEW to \in {"active", "paused", "stopped"}, ChangeTask(to) PROVE
         HolderInv' /\ GrantedOnce'
    BY <2>8 DEF ChangeTask
  <2>9. CASE PromoteCandidate
    BY <2>9 DEF PromoteCandidate
  <2>10. CASE CompleteTask
    BY <2>10 DEF CompleteTask
  <2>11. CASE Cancel
    BY <2>11 DEF Cancel
  <2> QED BY <1>2, <2>1, <2>2, <2>3, <2>4, <2>5, <2>6, <2>7, <2>8, <2>9, <2>10, <2>11
         DEF Call
<1>3. CASE UNCHANGED vars  BY <1>3 DEF vars
<1> QED BY <1>1, <1>2, <1>3 DEF Next

(* A step leaves at most one request unresolved or overrun. *)
LEMMA RiskStep ==
    ASSUME TypeOK, SoundInv, HolderInv, RequestEffect, OneCallAtRisk
    PROVE  OneCallAtRisk'
<1> USE DEF TypeOK, OneCallAtRisk, Unfinished
<1>1. CASE UNCHANGED req  BY <1>1
<1>2. ASSUME NEW k \in Keys, NEW amount \in Reservations, NewRequest(k, amount)
      PROVE  OneCallAtRisk'
  <2>1. \A j \in Keys : req[j].status \in {"none", "settled"}
    BY <1>2 DEF NewRequest, Ready
  <2>2. \A j \in Keys : j # k => req'[j] = req[j]
    BY <1>2 DEF NewRequest
  <2> QED BY <2>1, <2>2
<1>3. CASE Bound
  <2>1. \A j \in Keys : req'[j].status = req[j].status
    BY <1>3 DEF Bound, Requests
  <2> QED BY <2>1
<1>4. ASSUME NEW k \in Keys, NEW n \in Requests, Report(k, n) PROVE OneCallAtRisk'
  <2>1. n.status \in {"unknown", "over-budget"} => k \in Unfinished
    BY <1>4 DEF Report, Keeps, Requests, RequestStatuses
  <2>2. \A j \in Keys : j # k => req'[j] = req[j]
    BY <1>4 DEF Report
  <2>3. req'[k] = n /\ n.status \in {"unknown", "settled", "over-budget"}
    BY <1>4 DEF Report, Keeps
  <2>4. Unfinished' \subseteq Unfinished
    BY <2>1, <2>2, <2>3
  <2> QED BY <2>4
<1> QED BY <1>1, <1>2, <1>3, <1>4 DEF RequestEffect

(* A completed task stays reconciled, whatever reports arrive. *)
LEMMA CompletedStep ==
    ASSUME TypeOK, HolderInv, SoundInv, CompletedIsReconciled, [Next]_vars
    PROVE  CompletedIsReconciled'
<1>1. SUFFICES ASSUME task' = "completed", NEW j \in Keys
               PROVE  req'[j].status \notin {"pending", "unknown"}
  BY DEF CompletedIsReconciled
<1>2. CASE task # "completed"
  <2>1. CompleteTask
    BY <1>1, <1>2 DEF Next, HolderStep, Call, BindHostCall, Reply, Crash, RequestCandidate,
       PrepareHostRequest, RetryHostRequest, SubmitCandidate, ReceiveHostResult,
       CheckpointUsage, ResumeImprovement, ChangeTask, PromoteCandidate, Cancel, vars
  <2> QED BY <2>1 DEF CompleteTask
<1>3. CASE task = "completed"
  <2>1. req[j].status \notin {"pending", "unknown"}
    BY <1>3 DEF CompletedIsReconciled
  <2>2. CASE UNCHANGED req  BY <2>1, <2>2
  <2>3. ASSUME NEW k \in Keys, NEW amount \in Reservations, NewRequest(k, amount)
        PROVE  FALSE
    BY <1>3, <2>3 DEF NewRequest, Ready
  <2>4. CASE Bound
    BY <2>1, <2>4 DEF Bound, TypeOK, Requests
  <2>5. ASSUME NEW k \in Keys, NEW n \in Requests, Report(k, n)
        PROVE  req'[j].status \notin {"pending", "unknown"}
    <3>1. CASE j = k
      <4>1. req[k].status \in {"settled", "over-budget"}
        BY <2>1, <2>5, <3>1 DEF Report, TypeOK, Requests, RequestStatuses
      <4> QED BY <4>1, <2>5, <3>1 DEF Report, Keeps, TypeOK
    <3>2. CASE j # k
      BY <2>1, <2>5, <3>2 DEF Report, TypeOK
    <3> QED BY <3>1, <3>2
  <2> QED BY <2>2, <2>3, <2>4, <2>5, StepEffect DEF RequestEffect
<1> QED BY <1>2, <1>3
-----------------------------------------------------------------------------
(* Sums over the requests.  IsSum is the recursive function that the sum   *)
(* is defined by; what holds of it for every set is proved by taking a     *)
(* least set for which it would not.                                       *)
Any(S) == CHOOSE x \in S : TRUE

IsSum(g, f, D) ==
    g = [S \in D |-> IF S = {} THEN 0 ELSE f[Any(S)] + g[S \ {Any(S)}]]

(* For a finite set there is such a function: the least size for which none *)
(* exists would not be least.                                              *)
LEMMA SumFunctionExists ==
    ASSUME NEW T, IsFiniteSet(T), NEW f
    PROVE  \E g : IsSum(g, f, SUBSET T)
<1> DEFINE Upto(n) == {S \in SUBSET T : Cardinality(S) <= n}
           Bad == {n \in Nat : ~(\E g : IsSum(g, f, Upto(n)))}
<1>0. \A S \in SUBSET T : IsFiniteSet(S) /\ Cardinality(S) \in Nat
                          /\ Cardinality(S) <= Cardinality(T)
  BY FS_Subset, FS_CardinalityType
<1>1. Bad = {}
  <2> SUFFICES ASSUME Bad # {} PROVE FALSE
    OBVIOUS
  <2>0. Bad \subseteq Nat
    OBVIOUS
  <2>1. \A m : m \in Bad <=> m \in Nat /\ ~(\E g : IsSum(g, f, Upto(m)))
    OBVIOUS
  <2> HIDE DEF Bad
  <2>2. PICK n \in Bad : \A m \in Bad : <<m, n>> \notin OpToRel(<, Nat)
    BY <2>0, NatLessThanWellFounded, WFMin
  <2>5. n \in Nat /\ \A m \in Nat : m < n => \E g : IsSum(g, f, Upto(m))
    BY <2>0, <2>1, <2>2 DEF OpToRel
  <2>3. CASE n = 0
    <3> DEFINE g == [S \in Upto(n) |-> 0]
    <3>1. \A S \in Upto(n) : S = {}
      BY <1>0, <2>3, FS_EmptySet
    <3>2. IsSum(g, f, Upto(n))
      BY <3>1 DEF IsSum
    <3> QED
      BY <2>1, <2>2, <3>2
  <2>4. CASE n # 0
    <3>1. n - 1 \in Nat /\ n - 1 < n
      BY <2>5, <2>4
    <3>2. PICK h : IsSum(h, f, Upto(n - 1))
      BY <2>5, <3>1
    <3> DEFINE g == [S \in Upto(n) |->
                        IF S = {} THEN 0 ELSE f[Any(S)] + h[S \ {Any(S)}]]
    <3>3. \A S \in Upto(n - 1) : S \in Upto(n) /\ g[S] = h[S]
      <4> SUFFICES ASSUME NEW S \in Upto(n - 1)
                   PROVE  S \in Upto(n) /\ g[S] = h[S]
        OBVIOUS
      <4>1. S \in Upto(n)
        BY <1>0, <2>5, <3>1
      <4> HIDE DEF Upto
      <4>2. h[S] = IF S = {} THEN 0 ELSE f[Any(S)] + h[S \ {Any(S)}]
        BY <3>2 DEF IsSum
      <4> QED
        BY <4>1, <4>2
    <3>4. \A S \in Upto(n) : S # {} => S \ {Any(S)} \in Upto(n - 1)
      <4> SUFFICES ASSUME NEW S \in Upto(n), S # {}
                   PROVE  S \ {Any(S)} \in Upto(n - 1)
        OBVIOUS
      <4>1. Any(S) \in S
        BY DEF Any
      <4>2. Cardinality(S \ {Any(S)}) = Cardinality(S) - 1
        BY <1>0, <4>1, FS_RemoveElement
      <4> QED
        BY <1>0, <2>5, <4>2
    <3>5. g = [S \in Upto(n) |-> IF S = {} THEN 0 ELSE f[Any(S)] + g[S \ {Any(S)}]]
      <4> HIDE DEF Upto
      <4>1. \A S \in Upto(n) : S # {} => g[S \ {Any(S)}] = h[S \ {Any(S)}]
        BY <3>3, <3>4
      <4> QED
        BY <4>1
    <3>6. \E k : IsSum(k, f, Upto(n))
      BY <3>5 DEF IsSum
    <3> QED
      BY <2>1, <2>2, <3>6
  <2> QED
    BY <2>3, <2>4
<1>2. Cardinality(T) \in Nat /\ Upto(Cardinality(T)) = SUBSET T
  BY <1>0, FS_CardinalityType
<1> QED
  BY <1>1, <1>2

(* A family of subsets of a finite set has one that is minimal.            *)
LEMMA LeastSubset ==
    ASSUME NEW T, IsFiniteSet(T), NEW B, B \subseteq SUBSET T, B # {}
    PROVE  \E S \in B : \A x \in S : S \ {x} \notin B
<1>1. B \subseteq FiniteSubsetsOf(T)
  BY FS_FiniteSubsetsOfFinite
<1>2. PICK S \in B : \A R \in B : <<R, S>> \notin StrictSubsetOrdering(T)
  BY <1>1, FS_StrictSubsetOrderingWellFounded, WFMin
<1> QED
  BY <1>2 DEF StrictSubsetOrdering

(* Changing one summand changes the sums that contain it by as much.       *)
LEMMA SumMoves ==
    ASSUME NEW T, IsFiniteSet(T), NEW f \in [T -> Nat], NEW e \in [T -> Nat],
           NEW k \in T, \A x \in T : x # k => e[x] = f[x],
           NEW g, NEW h, IsSum(g, f, SUBSET T), IsSum(h, e, SUBSET T)
    PROVE  g[T] \in Nat /\ h[T] = g[T] + (e[k] - f[k])
<1> DEFINE Moved(S) == /\ g[S] \in Nat
                       /\ h[S] = IF k \in S THEN g[S] + (e[k] - f[k]) ELSE g[S]
           B == {S \in SUBSET T : ~Moved(S)}
<1>1. SUFFICES ASSUME B # {} PROVE FALSE
  OBVIOUS
<1>2. PICK S \in B : \A x \in S : S \ {x} \notin B
  <2>1. B \subseteq SUBSET T
    OBVIOUS
  <2> HIDE DEF B
  <2> QED
    BY <1>1, <2>1, LeastSubset
<1>3. S \in SUBSET T /\ ~Moved(S)
  BY <1>2
<1>4. /\ g[S] = IF S = {} THEN 0 ELSE f[Any(S)] + g[S \ {Any(S)}]
      /\ h[S] = IF S = {} THEN 0 ELSE e[Any(S)] + h[S \ {Any(S)}]
  BY <1>3 DEF IsSum
<1>5. S # {}
  BY <1>3, <1>4
<1>6. PICK x \in S : x = Any(S)
  BY <1>5 DEF Any
<1>7. Moved(S \ {x})
  BY <1>2, <1>3
<1>8. x # k => e[x] = f[x]
  BY <1>3
<1>9. e[x] \in Nat /\ f[x] \in Nat /\ f[k] \in Nat /\ (x = k => k \notin S \ {x}) /\ (x # k => (k \in S <=> k \in S \ {x}))
  BY <1>3
<1> HIDE DEF B
<1> QED
  BY <1>3, <1>4, <1>5, <1>6, <1>7, <1>8, <1>9

(* The sum of zeros is zero.                                               *)
LEMMA SumOfZeros ==
    ASSUME NEW T, IsFiniteSet(T), NEW f, \A x \in T : f[x] = 0, NEW g, IsSum(g, f, SUBSET T)
    PROVE  g[T] = 0
<1> DEFINE B == {S \in SUBSET T : g[S] # 0}
<1>1. SUFFICES ASSUME B # {} PROVE FALSE
  OBVIOUS
<1>2. PICK S \in B : \A x \in S : S \ {x} \notin B
  <2>1. B \subseteq SUBSET T
    OBVIOUS
  <2> HIDE DEF B
  <2> QED
    BY <1>1, <2>1, LeastSubset
<1>3. g[S] = IF S = {} THEN 0 ELSE f[Any(S)] + g[S \ {Any(S)}]
  BY <1>2 DEF IsSum
<1>4. S # {} => Any(S) \in S
  BY DEF Any
<1> QED
  BY <1>2, <1>3, <1>4

(* What the requests q cost in all is such a sum.                          *)
LEMMA CostIsSum ==
    ASSUME NEW q, NEW m
    PROVE  \E g : /\ IsSum(g, [k \in Keys |-> Charged(q[k])[m]], SUBSET Keys)
                  /\ Cost(q, m) = g[Keys]
<1> DEFINE F == [k \in Keys |-> Charged(q[k])[m]]
           Body(g) == [S \in SUBSET Keys |->
                          IF S = {} THEN 0 ELSE Charged(q[Any(S)])[m] + g[S \ {Any(S)}]]
<1>1. \A g : IsSum(g, F, SUBSET Keys) <=> g = Body(g)
  BY DEF IsSum, Any
<1>2. Cost(q, m) = (CHOOSE g : g = Body(g))[Keys]
  BY DEF Cost, MapThenSumSet, MapThenFoldSet, Any
<1>3. PICK h : h = Body(h)
  <2>1. \E g : IsSum(g, F, SUBSET Keys)
    BY GenerationAssumption, SumFunctionExists
  <2> QED
    BY <1>1, <2>1
<1>4. (CHOOSE g : g = Body(g)) = Body(CHOOSE g : g = Body(g))
  BY <1>3
<1> QED
  BY <1>1, <1>2, <1>4

(* Replacing one request changes the cost by the difference of the two.    *)
LEMMA CostMoves ==
    ASSUME NEW q \in [Keys -> Requests], NEW k \in Keys, NEW n \in Requests,
           NEW m \in Measures
    PROVE  /\ Cost(q, m) \in Nat
           /\ Cost([q EXCEPT ![k] = n], m) = Cost(q, m) + (Charged(n)[m] - Charged(q[k])[m])
<1> DEFINE F(p) == [j \in Keys |-> Charged(p[j])[m]]
           p == [q EXCEPT ![k] = n]
<1>1. ASSUME NEW r \in Requests PROVE Charged(r)[m] \in Nat
  <2>1. r.reserved[m] \in Nat /\ r.actual[m] \in Nat \union {Unknown}
    BY DEF Requests
  <2> QED
    BY <2>1, GenerationAssumption DEF Charged, Excess
<1>2. /\ F(q) \in [Keys -> Nat] /\ F(p) \in [Keys -> Nat]
      /\ F(q)[k] = Charged(q[k])[m] /\ F(p)[k] = Charged(n)[m]
      /\ \A j \in Keys : j # k => F(p)[j] = F(q)[j]
  BY <1>1
<1>3. PICK g : IsSum(g, F(q), SUBSET Keys) /\ Cost(q, m) = g[Keys]
  BY CostIsSum
<1>4. PICK h : IsSum(h, F(p), SUBSET Keys) /\ Cost(p, m) = h[Keys]
  <2> HIDE DEF p
  <2> QED BY CostIsSum
<1>5. g[Keys] \in Nat /\ h[Keys] = g[Keys] + (F(p)[k] - F(q)[k])
  <2> HIDE DEF F, p
  <2> QED
    BY <1>2, <1>3, <1>4, GenerationAssumption, SumMoves
<1> QED
  BY <1>2, <1>3, <1>4, <1>5
(* Requests that cost nothing. *)
LEMMA CostOfNothing ==
    ASSUME NEW q, NEW m, \A k \in Keys : Charged(q[k])[m] = 0
    PROVE  Cost(q, m) = 0
<1> DEFINE F == [k \in Keys |-> Charged(q[k])[m]]
<1>1. PICK g : IsSum(g, F, SUBSET Keys) /\ Cost(q, m) = g[Keys]
  BY CostIsSum
<1>2. \A k \in Keys : F[k] = 0
  OBVIOUS
<1> HIDE DEF F
<1> QED BY <1>1, <1>2, GenerationAssumption, SumOfZeros
-----------------------------------------------------------------------------
(* What has not been requested has reserved nothing. *)
Unreserved ==
    \A k \in Keys : req[k].status = "none" => \A m \in Measures : req[k].reserved[m] = 0

LEMMA UnreservedStep ==
    ASSUME TypeOK, HolderInv, Unreserved, RequestEffect
    PROVE  Unreserved'
<1> USE DEF TypeOK, Unreserved
<1>1. CASE UNCHANGED req  BY <1>1
<1>2. ASSUME NEW k \in Keys, NEW amount \in Reservations, NewRequest(k, amount)
      PROVE  Unreserved'
  BY <1>2, ReservedIsSound DEF NewRequest
<1>3. CASE Bound
  <2>1. req[key].status = "pending" /\ key \in Keys
    BY <1>3 DEF Bound, HolderInv
  <2>2. req'[key].status = "pending" /\ \A j \in Keys : j # key => req'[j] = req[j]
    BY <1>3, <2>1 DEF Bound, Requests
  <2> QED BY <2>2
<1>4. ASSUME NEW k \in Keys, NEW n \in Requests, Report(k, n)
      PROVE  Unreserved'
  BY <1>4 DEF Report, Keeps
<1> QED BY <1>1, <1>2, <1>3, <1>4 DEF RequestEffect

(* What a request costs: nothing before it is made, its reservation from   *)
(* then on, and after a report what that says is more.                     *)
LEMMA ChargedBefore ==
    ASSUME NEW r \in Requests, Sound(r), r.status \in {"none", "pending"}, NEW m \in Measures
    PROVE  Charged(r)[m] = r.reserved[m]
<1>1. r.actual[m] = Unknown /\ r.reserved[m] \in Nat
  BY DEF Sound, Unmeasured, Requests
<1> QED BY <1>1 DEF Charged, Excess

LEMMA ChargedReport ==
    ASSUME NEW r \in Requests, NEW usage \in Usages, NEW n \in Requests, NEW m \in Measures,
           n.reserved = r.reserved, n.actual = usage, spent[m] \in Nat
    PROVE  Charge(r, usage)[m] = spent[m] + (Charged(n)[m] - Charged(r)[m])
<1>1. /\ r.reserved[m] \in Nat /\ r.actual[m] \in Nat \union {Unknown}
      /\ usage[m] \in Nat \union {Unknown}
  BY GenerationAssumption DEF Requests
<1>2. /\ Excess(r.reserved[m], r.actual[m]) \in Nat
      /\ Excess(r.reserved[m], usage[m]) \in Nat
  BY <1>1, GenerationAssumption DEF Excess
<1>3. /\ Charged(n)[m] = r.reserved[m] + Excess(r.reserved[m], usage[m])
      /\ Charged(r)[m] = r.reserved[m] + Excess(r.reserved[m], r.actual[m])
      /\ Charge(r, usage)[m] = spent[m] + Excess(r.reserved[m], usage[m])
                                         - Excess(r.reserved[m], r.actual[m])
  BY DEF Charged, Charge
<1> HIDE DEF Excess
<1> QED BY <1>1, <1>2, <1>3

(* A step that replaces one request charges the difference it makes. *)
LEMMA OneCharge ==
    ASSUME TypeOK, LedgerIsExact, NEW k \in Keys, NEW n \in Requests,
           req' = [req EXCEPT ![k] = n], UNCHANGED reported,
           \A m \in Measures : spent'[m] = spent[m] + (Charged(n)[m] - Charged(req[k])[m])
    PROVE  LedgerIsExact'
<1> SUFFICES ASSUME NEW m \in Measures
             PROVE  spent'[m] = Cost(req', m) + reported'[m]
  BY DEF LedgerIsExact
<1>1. spent[m] = Cost(req, m) + reported[m]
  BY DEF LedgerIsExact
<1>2. /\ Cost(req, m) \in Nat
      /\ Cost(req', m) = Cost(req, m) + (Charged(n)[m] - Charged(req[k])[m])
  BY CostMoves DEF TypeOK
<1>3. reported[m] \in Nat /\ Charged(n)[m] \in Nat /\ Charged(req[k])[m] \in Nat
  <2>1. ASSUME NEW r \in Requests PROVE Charged(r)[m] \in Nat
    <3>1. r.reserved[m] \in Nat /\ r.actual[m] \in Nat \union {Unknown}
      BY DEF Requests
    <3> QED BY <3>1, GenerationAssumption DEF Charged, Excess
  <2> QED BY <2>1 DEF TypeOK
<1> QED BY <1>1, <1>2, <1>3

LEMMA Unmoved ==
    ASSUME LedgerIsExact, UNCHANGED <<req, spent, reported>>
    PROVE  LedgerIsExact'
BY DEF LedgerIsExact

(* The ledger stays the sum of what its requests cost.                     *)
LEMMA LedgerStep ==
    ASSUME TypeOK, SoundInv, HolderInv, Unreserved, LedgerIsExact, [Next]_vars
    PROVE  LedgerIsExact'
<1>1. ASSUME NEW k \in Keys, NEW amount \in Reservations, Reserve(k, amount),
             req[k].status = "none", UNCHANGED reported
      PROVE  LedgerIsExact'
  <2>1. /\ Reserved(amount) \in Requests /\ Sound(Reserved(amount))
        /\ Reserved(amount).status = "pending" /\ Reserved(amount).reserved = amount
    BY ReservedIsSound DEF Reserved, NoRequest
  <2>2. ASSUME NEW m \in Measures
        PROVE  spent'[m] = spent[m] + (Charged(Reserved(amount))[m] - Charged(req[k])[m])
    <3>1. Charged(Reserved(amount))[m] = amount[m] /\ amount[m] \in Nat
      BY <2>1, ChargedBefore, GenerationAssumption
    <3>2. Charged(req[k])[m] = 0
      BY <1>1, ChargedBefore DEF TypeOK, SoundInv, Unreserved
    <3>3. spent'[m] = spent[m] + amount[m] /\ spent[m] \in Nat
      BY <1>1 DEF Reserve, TypeOK
    <3> QED BY <3>1, <3>2, <3>3
  <2> QED BY <1>1, <2>1, <2>2, OneCharge DEF Reserve
<1>2. CASE BindHostCall
  <2> DEFINE n == [req[key] EXCEPT !.call = "requested"]
  <2>1. key \in Keys /\ n \in Requests /\ req' = [req EXCEPT ![key] = n]
    BY <1>2, BoundIsSound DEF BindHostCall, TypeOK, SoundInv, HolderInv
  <2>2. n.reserved = req[key].reserved /\ n.actual = req[key].actual
    BY <2>1 DEF TypeOK, Requests
  <2>3. ASSUME NEW m \in Measures
        PROVE  spent'[m] = spent[m] + (Charged(n)[m] - Charged(req[key])[m])
    <3>1. Charged(n)[m] = Charged(req[key])[m]
      BY <2>2 DEF Charged
    <3>2. Charged(n)[m] \in Nat /\ spent'[m] = spent[m] /\ spent[m] \in Nat
      <4>1. n.reserved[m] \in Nat /\ n.actual[m] \in Nat \union {Unknown}
        BY <2>1 DEF Requests
      <4>2. Charged(n)[m] \in Nat
        BY <4>1, GenerationAssumption DEF Charged, Excess
      <4> QED BY <1>2, <4>2 DEF BindHostCall, TypeOK
    <3> QED BY <3>1, <3>2
  <2> HIDE DEF n
  <2> QED BY <1>2, <2>1, <2>3, OneCharge DEF BindHostCall, history
<1>3. ASSUME NEW k \in Keys, NEW n \in Requests, NEW usage \in Usages,
             req' = [req EXCEPT ![k] = n], n.reserved = req[k].reserved, n.actual = usage,
             spent' = Charge(req[k], usage), UNCHANGED reported
      PROVE  LedgerIsExact'
  <2>1. \A m \in Measures : spent'[m] = spent[m] + (Charged(n)[m] - Charged(req[k])[m])
    BY <1>3, ChargedReport DEF TypeOK
  <2> QED BY <1>3, <2>1, OneCharge
<1>4. ASSUME NEW k \in Keys, NEW text \in Texts, NEW usage \in Usages,
             SubmitCandidate(k, text, usage)
      PROVE  LedgerIsExact'
  <2> DEFINE n == Submitted(req[k], text, usage)
  <2>1. n \in Requests
    BY <1>4, SubmittedIsSound DEF SubmitCandidate, TypeOK, SoundInv
  <2>2. n.reserved = req[k].reserved /\ n.actual = usage
    BY DEF Submitted, TypeOK, Requests
  <2>3. /\ req' = [req EXCEPT ![k] = n] /\ spent' = Charge(req[k], usage)
        /\ UNCHANGED reported
    BY <1>4 DEF SubmitCandidate, history
  <2> HIDE DEF n
  <2> QED BY <1>3, <2>1, <2>2, <2>3
<1>5. ASSUME NEW k \in Keys, NEW result \in Results, ReceiveHostResult(k, result)
      PROVE  LedgerIsExact'
  <2> DEFINE n == Received(req[k], result)
  <2>1. n \in Requests /\ result.usage \in Usages
    BY <1>5, ReceivedIsSound DEF ReceiveHostResult, TypeOK, SoundInv, Results
  <2>2. n.reserved = req[k].reserved /\ n.actual = result.usage
    BY DEF Received, TypeOK, Requests
  <2>3. /\ req' = [req EXCEPT ![k] = n] /\ spent' = Charge(req[k], result.usage)
        /\ UNCHANGED reported
    BY <1>5 DEF ReceiveHostResult, history
  <2> HIDE DEF n
  <2> QED BY <1>3, <2>1, <2>2, <2>3
<1>6. ASSUME NEW u \in Measures, CheckpointUsage(u)
      PROVE  LedgerIsExact'
  <2> SUFFICES ASSUME NEW m \in Measures
               PROVE  spent'[m] = Cost(req', m) + reported'[m]
    BY DEF LedgerIsExact
  <2>1. spent[m] = Cost(req, m) + reported[m] /\ req' = req
    BY <1>6 DEF LedgerIsExact, CheckpointUsage
  <2>2. /\ spent' = [spent EXCEPT ![u] = @ + 1]
        /\ reported' = [reported EXCEPT ![u] = @ + 1]
        /\ spent \in [Measures -> Nat] /\ reported \in [Measures -> Nat]
    BY <1>6 DEF CheckpointUsage, TypeOK
  <2>3. Cost(req, m) \in Nat
    BY CostMoves DEF TypeOK, Init
  <2> QED BY <2>1, <2>2, <2>3
<1>7. CASE Reply \/ Crash \/ PromoteCandidate \/ CompleteTask \/ Cancel
  BY <1>7, Unmoved
  DEF Reply, Crash, PromoteCandidate, CompleteTask, Cancel, history
<1>8. ASSUME NEW k \in Keys, NEW amount \in Reservations, RetryHostRequest(k, amount)
      PROVE  LedgerIsExact'
  BY <1>8, Unmoved DEF RetryHostRequest
<1>9. CASE (\E abandon \in BOOLEAN : ResumeImprovement(abandon))
           \/ (\E to \in {"active", "paused", "stopped"} : ChangeTask(to))
  BY <1>9, Unmoved DEF ResumeImprovement, ChangeTask, history
<1>10. ASSUME NEW k \in Keys, NEW amount \in Reservations,
              RequestCandidate(k, amount) \/ PrepareHostRequest(k, amount)
       PROVE  LedgerIsExact'
  BY <1>1, <1>10 DEF RequestCandidate, PrepareHostRequest, history
<1>11. CASE UNCHANGED vars
  BY <1>11, Unmoved DEF vars, history
<1> QED
  BY <1>2, <1>4, <1>5, <1>6, <1>7, <1>8, <1>9, <1>10, <1>11 DEF Next, HolderStep, Call
-----------------------------------------------------------------------------
LedgerInv ==
    /\ TypeOK /\ SoundInv /\ HolderInv /\ GrantedOnce /\ OneCallAtRisk
    /\ CompletedIsReconciled /\ Unreserved /\ LedgerIsExact

(* The inductive invariant holds of every behaviour. *)
THEOREM LedgerInvariant == Spec => []LedgerInv
<1>1. ASSUME Init PROVE LedgerInv
  <2>1. NoRequest \in Requests /\ Sound(NoRequest)
    <3>1. [m \in Measures |-> 0] \in [Measures -> Nat]
          /\ Unmeasured \in [Measures -> Nat \union {Unknown}]
      BY DEF Unmeasured
    <3> QED BY <3>1 DEF NoRequest, Requests, RequestStatuses, CallStatuses, Sound,
         HostEvidence
  <2>2. TypeOK
    BY <1>1, <2>1 DEF Init, TypeOK
  <2>3. SoundInv /\ HolderInv /\ GrantedOnce
    BY <1>1, <2>1 DEF Init, SoundInv, HolderInv, GrantedOnce, NoRequest
  <2>4. OneCallAtRisk /\ CompletedIsReconciled
    BY <1>1 DEF Init, OneCallAtRisk, Unfinished, CompletedIsReconciled, NoRequest
  <2>5. \A k \in Keys, m \in Measures : req[k] = NoRequest /\ NoRequest.reserved[m] = 0
    BY <1>1 DEF Init, NoRequest
  <2>6. Unreserved
    BY <2>5 DEF Unreserved
  <2>7. LedgerIsExact
    <3>1. \A k \in Keys, m \in Measures : Charged(req[k])[m] = 0
      BY <2>1, <2>5, ChargedBefore DEF NoRequest
    <3>2. \A m \in Measures : Cost(req, m) = 0 /\ spent[m] = 0 /\ reported[m] = 0
      BY <1>1, <3>1, CostOfNothing DEF Init
    <3> QED BY <3>2 DEF LedgerIsExact
  <2> QED BY <2>2, <2>3, <2>4, <2>6, <2>7 DEF LedgerInv
<1>2. LedgerInv /\ [Next]_vars => LedgerInv'
  BY StepEffect, SoundStep, TypeStep, HolderInvStep, RiskStep, CompletedStep,
     UnreservedStep, LedgerStep DEF LedgerInv
<1> QED BY <1>1, <1>2, PTL DEF Spec

(* Type correctness of the requests, the ledger and the lock holder. *)
THEOREM TypeCorrect == Spec => []TypeOK
BY LedgerInvariant, PTL DEF LedgerInv

(* Every request is charged once, whatever reports come in what order. *)
THEOREM LedgerIsAlwaysExact == Spec => []LedgerIsExact
BY LedgerInvariant, PTL DEF LedgerInv

(* At most one request at a time is unresolved or over its allowance. *)
THEOREM OneCallIsAtRisk == Spec => []OneCallAtRisk
BY LedgerInvariant, PTL DEF LedgerInv

(* No key is granted twice, and none before it was charged and bound. *)
THEOREM GrantsAreUnique == Spec => []GrantedOnce
BY LedgerInvariant, PTL DEF LedgerInv

(* The evidence check accepts every record that the operations wrote. *)
THEOREM EvidenceAlwaysHolds == Spec => []EvidenceHolds
<1>1. LedgerInv => EvidenceHolds
  BY DEF LedgerInv, SoundInv, Sound, EvidenceHolds
<1> QED BY <1>1, LedgerInvariant, PTL

(* A completed task has no request of unknown usage. *)
THEOREM CompletionIsReconciled == Spec => []CompletedIsReconciled
BY LedgerInvariant, PTL DEF LedgerInv

(* No report takes back what an earlier one said. *)
THEOREM ReportsAreFinal == Spec => ReportedIsFinal
<1> DEFINE Final(k) ==
       /\ \A m \in Measures :
             req[k].actual[m] # Unknown => req'[k].actual[m] = req[k].actual[m]
       /\ req[k].text # NoText => req'[k].text = req[k].text
       /\ req[k].call \in Resolved => req'[k].call = req[k].call
       /\ (req[k].status \in {"settled", "over-budget"}) => req'[k].status = req[k].status
<1>1. ASSUME LedgerInv, [Next]_vars PROVE [\A k \in Keys : Final(k)]_vars
  <2> USE <1>1 DEF LedgerInv, TypeOK, SoundInv
  <2>1. SUFFICES ASSUME NEW k \in Keys PROVE Final(k)
    OBVIOUS
  <2>2. CASE UNCHANGED req  BY <2>2
  <2>3. ASSUME NEW j \in Keys, NEW amount \in Reservations, NewRequest(j, amount)
        PROVE  Final(k)
    <3>1. CASE j = k
      BY <2>3, <3>1 DEF NewRequest, Sound, Unmeasured, Resolved
    <3>2. CASE j # k
      BY <2>3, <3>2 DEF NewRequest
    <3> QED BY <3>1, <3>2
  <2>4. CASE Bound
    <3>1. req'[k].actual = req[k].actual /\ req'[k].text = req[k].text
          /\ req'[k].status = req[k].status
      BY <2>4 DEF Bound, Requests
    <3>2. req[k].call \in Resolved => req'[k].call = req[k].call
      BY <2>4 DEF Bound, HolderInv, Requests, Resolved
    <3> QED BY <3>1, <3>2
  <2>5. ASSUME NEW j \in Keys, NEW n \in Requests, Report(j, n) PROVE Final(k)
    <3>1. CASE j = k
      BY <2>5, <3>1 DEF Report, Keeps
    <3>2. CASE j # k
      BY <2>5, <3>2 DEF Report
    <3> QED BY <3>1, <3>2
  <2> QED BY <2>2, <2>3, <2>4, <2>5, StepEffect DEF RequestEffect
<1> QED BY <1>1, LedgerInvariant, PTL DEF Spec, ReportedIsFinal
==============================================================================

------------------------------ MODULE Learning ------------------------------
(***************************************************************************)
(* Turning observed failures into guide rules.  A learner holds the        *)
(* harness lock while it derives the provenance of its evidence from the   *)
(* event log and writes, one after the other, the rules, the rendered      *)
(* guides, the decision log and a proposal.  initialize rewrites the same  *)
(* files without that lock, from what it read before it saved the          *)
(* configuration.  Outputs of commands are edited or deleted, retention    *)
(* removes events, checkpoints and proposals, and every process may end    *)
(* between two writes.                                                     *)
(*                                                                         *)
(* A file is replaced in one step (atomic_write_text); a digest stands for *)
(* the content, and a file that changes while it is hashed is refused      *)
(* (_stable_evidence_digest).  An event gets its time with its line in the *)
(* log.  learning.recorded and harness.initialized are no failures and are *)
(* left out of the log.                                                    *)
(***************************************************************************)
EXTENDS Integers

CONSTANTS
    Tasks, Paths,     \* tasks, and the output files of commands and sensors
    Owner,            \* the task a file is an output of
    Contents, Absent, \* what a file may hold, and no file
    Kinds, Failures,  \* types of events with an output, those of failures
    Texts, NoText,    \* texts of guide rules, and no rule wanted
    Requests,         \* what a learner may ask for: [layer, text]
    Learners, Setups, \* processes that learn, and that initialize
    Nobody,           \* no holder of the lock
    MaxStamp          \* bound: events and rules stamped

ASSUME LearningAssumption ==
    /\ Owner \in [Paths -> Tasks] /\ Failures \subseteq Kinds
    /\ Requests \subseteq [layer : {"guide", "other"}, text : Texts \union {NoText}]
    /\ Absent \notin Contents /\ NoText \notin Texts /\ Nobody \notin Learners
    /\ MaxStamp \in Nat

VARIABLES
    task,      \* is its checkpoint yet to come, kept or pruned?
    files,     \* the outputs as they are now
    events,    \* the retained events
    stamp,     \* timestamps given out
    config,    \* is there a configuration?
    made,      \* are the rules, is the log there?
    rules,     \* guide-rules.yaml
    guides,    \* GUIDES.md
    decisions, \* the decision log
    proposals, \* the proposals for the other layers
    lock,      \* who holds the harness lock
    learner, setup,
    (* history, read by properties only *)
    learned,   \* the rules whose learner returned
    raced,     \* those written between an initialization's read and write
    pruned,    \* were events deleted?
    overtaken  \* did a first initialization empty what was learned already?

outputs == <<task, files, events, pruned>>
written == <<made, rules, guides, decisions, proposals>>
history == <<learned, raced, overtaken>>
vars    == <<outputs, stamp, config, written, lock, learner, setup, history>>

Events == [task : Tasks, kind : Kinds, path : Paths, content : Contents, at : Nat]

(* A claim names its evidence with the content it had.                     *)
Evidence == UNION {[S -> Contents] : S \in (SUBSET Paths) \ {{}}}

Rules == [at : Nat, task : Tasks, digests : Evidence, kinds : SUBSET Failures, text : Texts]

NoRule == 0

Decisions == [at : Nat, task : Tasks, digests : Evidence, kinds : SUBSET Failures, rule : Nat,
              layer : {"guide", "other"}]

Claims == [task : Tasks, digests : Evidence, kinds : SUBSET Failures,
           layer : {"guide", "other"}, text : Texts \union {NoText}]

Idle == [phase |-> "idle"]

LearnerStates ==
    {Idle} \union [phase : {"derived"}, claim : Claims]
           \union [phase : {"read", "ruled", "shown"}, claim : Claims, rule : Rules,
                   next : SUBSET Rules]
           \union [phase : {"logged"}, claim : Claims, entry : Decisions]

SetupStates ==
    {Idle} \union [phase : {"read", "saved"}, read : SUBSET Rules, found : BOOLEAN]
           \union [phase : {"ruled"}, read : SUBSET Rules]
           \union [phase : {"shown", "empty"}]

TypeOK ==
    /\ task \in [Tasks -> {"new", "kept", "gone"}]
    /\ files \in [Paths -> Contents \union {Absent}]
    /\ events \subseteq Events /\ stamp \in Nat /\ config \in BOOLEAN
    /\ made \subseteq {"rules", "decisions"} /\ rules \subseteq Rules /\ guides \subseteq Rules
    /\ decisions \subseteq Decisions /\ proposals \subseteq Decisions
    /\ lock \in Learners \union {Nobody}
    /\ learner \in [Learners -> LearnerStates] /\ setup \in [Setups -> SetupStates]
    /\ learned \subseteq Rules /\ raced \subseteq Rules
    /\ pruned \in BOOLEAN /\ overtaken \in BOOLEAN

(* A project before it is initialized.                                     *)
Init ==
    /\ task = [t \in Tasks |-> "new"] /\ files = [p \in Paths |-> Absent]
    /\ events = {} /\ stamp = 0 /\ config = FALSE
    /\ made = {} /\ rules = {} /\ guides = {} /\ decisions = {} /\ proposals = {}
    /\ lock = Nobody /\ learner = [l \in Learners |-> Idle] /\ setup = [s \in Setups |-> Idle]
    /\ learned = {} /\ raced = {} /\ pruned = FALSE /\ overtaken = FALSE
-----------------------------------------------------------------------------
(* The tasks and what they leave behind.                                   *)
StartTask(t) ==
    /\ config /\ task[t] = "new" /\ task' = [task EXCEPT ![t] = "kept"]
    /\ UNCHANGED <<files, events, pruned, stamp, config, written, lock, learner, setup, history>>

(* A command writes its output; anyone edits or deletes it later.          *)
WriteFile(p, c) ==
    /\ task[Owner[p]] # "new" /\ files[p] # c /\ files' = [files EXCEPT ![p] = c]
    /\ UNCHANGED <<task, events, pruned, stamp, config, written, lock, learner, setup, history>>

(* record_event binds what the output holds at that moment.  (An event     *)
(* whose output is gone proves nothing and is left out.)                   *)
RecordEvent(k, p) ==
    /\ task[Owner[p]] = "kept" /\ files[p] # Absent /\ stamp < MaxStamp /\ stamp' = stamp + 1
    /\ events' = events \union
            {[task |-> Owner[p], kind |-> k, path |-> p, content |-> files[p], at |-> stamp']}
    /\ UNCHANGED <<task, files, pruned, config, written, lock, learner, setup, history>>

(* Retention deletes whole days of events, and checkpoints; it takes no    *)
(* lock.  (It deletes proposals too, which nothing reads again.)           *)
PruneEvents(n) ==
    /\ \E e \in events : e.at <= n
    /\ events' = {e \in events : e.at > n} /\ pruned' = TRUE
    /\ UNCHANGED <<task, files, stamp, config, written, lock, learner, setup, history>>

PruneTask(t) ==
    /\ task[t] = "kept" /\ task' = [task EXCEPT ![t] = "gone"]
    /\ UNCHANGED <<files, events, pruned, stamp, config, written, lock, learner, setup, history>>

-----------------------------------------------------------------------------
(* Failure events of a task whose output is part of the evidence.          *)
Contributing(t, S) ==
    {e \in events : e.task = t /\ e.kind \in Failures /\ e.path \in S}

(* Mutant: the claim names the types of all events with such an output,    *)
(* also of those that saw another content.                                 *)
SourceKindsOfPaths(t, digests) == {e.kind : e \in Contributing(t, DOMAIN digests)}

(* The event types a claim rests on: those that saw the same content.      *)
SourceKinds(t, digests) ==
    {e.kind : e \in {f \in Contributing(t, DOMAIN digests) : f.content = digests[f.path]}}

(* Every file must hold what a failure event of the task saw.              *)
Derivable(t, S) ==
    /\ task[t] = "kept" /\ S # {}
    /\ \A p \in S : \E e \in Contributing(t, S) : e.path = p /\ e.content = files[p]

Release(l) ==
    /\ lock' = IF lock = l THEN Nobody ELSE lock
    /\ learner' = [learner EXCEPT ![l] = Idle]

(* Mutant: provenance and outputs are not serialized.                      *)
DeriveUnlocked(l, t, S, q) ==
    /\ config /\ learner[l] = Idle
    /\ Derivable(t, S) /\ (q.text # NoText => q.layer = "guide")
    /\ LET digests == [p \in S |-> files[p]]
       IN  learner' = [learner EXCEPT ![l] =
              [phase |-> "derived",
               claim |-> [task |-> t, digests |-> digests, kinds |-> SourceKinds(t, digests),
                          layer |-> q.layer, text |-> q.text]]]
    /\ UNCHANGED <<outputs, stamp, config, written, lock, setup, history>>

(* record_learning takes the lock and derives the claim's provenance.      *)
Derive(l, t, S, q) ==
    /\ config /\ learner[l] = Idle /\ lock = Nobody
    /\ Derivable(t, S) /\ (q.text # NoText => q.layer = "guide")
    /\ lock' = l
    /\ LET digests == [p \in S |-> files[p]]
       IN  learner' = [learner EXCEPT ![l] =
              [phase |-> "derived",
               claim |-> [task |-> t, digests |-> digests, kinds |-> SourceKinds(t, digests),
                          layer |-> q.layer, text |-> q.text]]]
    /\ UNCHANGED <<outputs, stamp, config, written, setup, history>>

(* The rules are read, an identical active one refuses the claim.          *)
ReadRules(l) ==
    /\ learner[l].phase = "derived" /\ learner[l].claim.text # NoText
    /\ LET c == learner[l].claim
           r == [at |-> stamp + 1, task |-> c.task, digests |-> c.digests, kinds |-> c.kinds,
                 text |-> c.text]
       IN  IF \E q \in rules : q.text = c.text
           THEN Release(l) /\ UNCHANGED stamp
           ELSE /\ stamp < MaxStamp /\ stamp' = stamp + 1 /\ UNCHANGED lock
                /\ learner' = [learner EXCEPT ![l] =
                       [phase |-> "read", claim |-> c, rule |-> r,
                        next |-> rules \union {r}]]
    /\ UNCHANGED <<outputs, config, written, setup, history>>

(* An initialization that has read the rules and not rendered them yet.    *)
Rendering(s) == setup[s].phase \in {"read", "saved", "ruled"}

(* The learner goes on to a phase with what it has in memory.              *)
InPhase(l, phase) ==
    [phase |-> phase, claim |-> learner[l].claim, rule |-> learner[l].rule,
     next |-> learner[l].next]

WriteRules(l) ==
    /\ learner[l].phase = "read"
    /\ rules' = learner[l].next /\ made' = made \union {"rules"}
    /\ learner' = [learner EXCEPT ![l] = InPhase(l, "ruled")]
    /\ raced' = IF \E s \in Setups : Rendering(s) THEN raced \union {learner[l].rule} ELSE raced
    /\ UNCHANGED <<outputs, stamp, config, guides, decisions, proposals, lock, setup, learned,
                   overtaken>>

WriteGuides(l) ==
    /\ learner[l].phase = "ruled"
    /\ guides' = learner[l].next
    /\ learner' = [learner EXCEPT ![l] = InPhase(l, "shown")]
    /\ UNCHANGED <<outputs, stamp, config, made, rules, decisions, proposals, lock, setup, history>>

(* A record of the learner's claim; one without a rule has a stamp of its  *)
(* own, the time of one with a rule is not told from the rule's.           *)
Entry(l) ==
    LET c == learner[l].claim
        n == IF c.text = NoText THEN NoRule ELSE learner[l].rule.at
    IN  [at |-> IF n = NoRule THEN stamp + 1 ELSE n, task |-> c.task, digests |-> c.digests,
         kinds |-> c.kinds, layer |-> c.layer, rule |-> n]

StampEntry(l) ==
    IF learner[l].claim.text = NoText THEN stamp < MaxStamp /\ stamp' = stamp + 1
    ELSE UNCHANGED stamp

(* Mutant: the decision is logged before the rule is written.              *)
LogEarly(l) ==
    /\ \/ learner[l].phase \in {"read", "shown"}
       \/ learner[l].phase = "derived" /\ learner[l].claim.text = NoText
    /\ decisions' = decisions \union {Entry(l)} /\ made' = made \union {"decisions"}
    /\ StampEntry(l)
    /\ learner' = IF learner[l].phase = "read" THEN learner
                  ELSE [learner EXCEPT ![l] =
                           [phase |-> "logged", claim |-> learner[l].claim, entry |-> Entry(l)]]
    /\ UNCHANGED <<outputs, config, rules, guides, proposals, lock, setup, history>>

LogDecision(l) ==
    /\ \/ learner[l].phase = "shown"
       \/ learner[l].phase = "derived" /\ learner[l].claim.text = NoText
    /\ decisions' = decisions \union {Entry(l)} /\ made' = made \union {"decisions"}
    /\ StampEntry(l)
    /\ learner' = [learner EXCEPT ![l] =
           [phase |-> "logged", claim |-> learner[l].claim, entry |-> Entry(l)]]
    /\ learned' = IF learner[l].phase = "shown" THEN learned \union {learner[l].rule} ELSE learned
    /\ UNCHANGED <<outputs, config, rules, guides, proposals, lock, setup, raced, overtaken>>

(* Fixes for sensors, permissions and the like stay proposals.             *)
Return(l) ==
    /\ learner[l].phase = "logged"
    /\ proposals' = IF learner[l].claim.layer = "guide" THEN proposals
                    ELSE proposals \union {learner[l].entry}
    /\ Release(l)
    /\ UNCHANGED <<outputs, stamp, config, made, rules, guides, decisions, setup, history>>

(* The learner's process ends; the operating system releases the lock.     *)
EndLearner(l) ==
    /\ learner[l] # Idle /\ Release(l)
    /\ UNCHANGED <<outputs, stamp, config, written, setup, history>>
-----------------------------------------------------------------------------
(* initialize, with --force when there is a configuration.                 *)
At(s, state) == setup' = [setup EXCEPT ![s] = state]

BeginSetup(s, force) ==
    /\ setup[s] = Idle /\ (config => force)
    /\ At(s, [phase |-> "read", read |-> rules, found |-> "rules" \in made])
    /\ UNCHANGED <<outputs, stamp, config, written, lock, learner, history>>

SaveConfig(s) ==
    /\ setup[s].phase = "read" /\ config' = TRUE
    /\ At(s, [phase |-> "saved", read |-> setup[s].read, found |-> setup[s].found])
    /\ UNCHANGED <<outputs, stamp, written, lock, learner, history>>

(* An empty list of rules is written if there was no file at the read.     *)
SetUpRules(s) ==
    /\ setup[s].phase = "saved"
    /\ IF setup[s].found THEN UNCHANGED <<made, rules, overtaken>>
       ELSE /\ rules' = {} /\ made' = made \union {"rules"}
            /\ overtaken' = (overtaken \/ rules # {})
    /\ At(s, [phase |-> "ruled", read |-> setup[s].read])
    /\ UNCHANGED <<outputs, stamp, config, guides, decisions, proposals, lock, learner, learned,
                   raced>>

SetUpGuides(s) ==
    /\ setup[s].phase = "ruled" /\ guides' = setup[s].read
    /\ At(s, [phase |-> "shown"])
    /\ UNCHANGED <<outputs, stamp, config, made, rules, decisions, proposals, lock, learner,
                   history>>

(* Looking for the decision log and creating it are two steps.             *)
FindDecisions(s) ==
    /\ setup[s].phase = "shown"
    /\ At(s, IF "decisions" \notin made THEN [phase |-> "empty"] ELSE Idle)
    /\ UNCHANGED <<outputs, stamp, config, written, lock, learner, history>>

SetUpDecisions(s) ==
    /\ setup[s].phase = "empty" /\ decisions' = {} /\ made' = made \union {"decisions"}
    /\ overtaken' = (overtaken \/ decisions # {})
    /\ At(s, Idle)
    /\ UNCHANGED <<outputs, stamp, config, rules, guides, proposals, lock, learner, learned, raced>>

EndSetup(s) ==
    /\ setup[s] # Idle /\ At(s, Idle)
    /\ UNCHANGED <<outputs, stamp, config, written, lock, learner, history>>
-----------------------------------------------------------------------------
Learn(l) ==
    \/ \E t \in Tasks, S \in SUBSET Paths, q \in Requests : Derive(l, t, S, q)
    \/ ReadRules(l) \/ WriteRules(l) \/ WriteGuides(l) \/ LogDecision(l) \/ Return(l)
    \/ EndLearner(l)

Initialize(s) ==
    \/ \E force \in BOOLEAN : BeginSetup(s, force)
    \/ SaveConfig(s) \/ SetUpRules(s) \/ SetUpGuides(s) \/ FindDecisions(s) \/ SetUpDecisions(s)
    \/ EndSetup(s)

Observe ==
    \/ \E t \in Tasks : StartTask(t) \/ PruneTask(t)
    \/ \E p \in Paths : \/ \E c \in Contents \union {Absent} : WriteFile(p, c)
                        \/ \E k \in Kinds : RecordEvent(k, p)
    \/ \E n \in 1..MaxStamp : PruneEvents(n)

Next ==
    \/ \E l \in Learners : Learn(l)
    \/ \E s \in Setups : Initialize(s)
    \/ Observe

Spec == Init /\ [][Next]_vars
-----------------------------------------------------------------------------
(* learning_provenance_is_current: what the audit counts as evidenced.     *)
(* Mutant: failures that came after the rule count too.                    *)
SupportingEver(r) ==
    {e \in events : /\ e.task = r.task /\ e.kind \in r.kinds \intersect Failures
                    /\ e.path \in DOMAIN r.digests /\ e.content = r.digests[e.path]}

Supporting(r) ==
    {e \in events : /\ e.task = r.task /\ e.kind \in r.kinds \intersect Failures /\ e.at <= r.at
                    /\ e.path \in DOMAIN r.digests /\ e.content = r.digests[e.path]}

Intact(r) == \A p \in DOMAIN r.digests : files[p] = r.digests[p]

Evidenced(r) ==
    /\ task[r.task] = "kept" /\ r.kinds # {}
    /\ {e.kind : e \in Supporting(r)} = r.kinds
    /\ \A p \in DOMAIN r.digests : \E e \in Supporting(r) : e.path = p
    /\ Intact(r)
-----------------------------------------------------------------------------
(* Once a learner returned, its rule is in force, on record and, unless an *)
(* initialization had already read the rules it renders, shown to the      *)
(* agents; whatever other learners and initializations do or leave half    *)
(* done (learning.py:305, scaffold.py:412).                                *)
LearnedIsComplete ==
    ~overtaken =>
        \A r \in learned :
            /\ r \in rules
            /\ \E d \in decisions : d.rule = r.at
            /\ r \notin raced => r \in guides

(* A process that ends between two writes leaves no decision without its   *)
(* rule and no proposal without its decision (learning.py:267-303): what   *)
(* is missing is the later record, never the earlier one.                  *)
LogFollowsRules ==
    ~overtaken =>
        /\ \A d \in decisions : d.rule # NoRule => \E r \in rules : r.at = d.rule
        /\ proposals \subseteq decisions

(* Deriving a claim and checking it later are written separately           *)
(* (learning.py:162 and 112).  They agree: while the task, its events and  *)
(* the evidence are as they were, the audit counts every rule that was     *)
(* learned, whatever the task goes through afterwards.                     *)
ProvenanceHolds ==
    \A r \in rules :
        ~pruned /\ task[r.task] = "kept" /\ Intact(r) => Evidenced(r)

(* No event recorded later proves a rule that was not proved: only the     *)
(* return of the very content of its evidence may (learning.py:124).       *)
NoLateProof ==
    [][\A r \in rules \intersect rules' :
            ~Evidenced(r) /\ Evidenced(r)' => files' # files]_<<events, files, task, rules>>
=============================================================================

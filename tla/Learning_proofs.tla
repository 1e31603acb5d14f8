-------------------------- MODULE Learning_proofs --------------------------
(***************************************************************************)
(* Type correctness and the safety properties of Learning, for any tasks,  *)
(* outputs, learners and initializations and any number of events.         *)
(***************************************************************************)
EXTENDS Learning, TLAPS

-----------------------------------------------------------------------------
(* What the types say of the parts of claims, rules and states.            *)

LEMMA EvidenceIsMade ==
    ASSUME NEW S \in SUBSET Paths, S # {}, NEW d, d \in [S -> Contents]
    PROVE  d \in Evidence
BY DEF Evidence

LEMMA EvidenceIsOfPaths ==
    ASSUME NEW d \in Evidence
    PROVE  DOMAIN d \subseteq Paths /\ DOMAIN d # {} /\ d \in [DOMAIN d -> Contents]
BY DEF Evidence

LEMMA PhaseOfLearner ==
    ASSUME TypeOK, NEW l \in Learners
    PROVE  /\ learner[l].phase = "idle" => learner[l] = Idle
           /\ learner[l].phase = "derived" =>
                learner[l] = [phase |-> "derived", claim |-> learner[l].claim]
                /\ learner[l].claim \in Claims
           /\ learner[l].phase \in {"read", "ruled", "shown"} =>
                /\ learner[l].claim \in Claims /\ learner[l].rule \in Rules
                /\ learner[l].next \subseteq Rules
           /\ learner[l].phase = "logged" =>
                learner[l].claim \in Claims /\ learner[l].entry \in Decisions
           /\ learner[l].phase \in {"idle", "derived", "read", "ruled", "shown", "logged"}
<1>1. learner[l] \in LearnerStates
  BY DEF TypeOK
<1>2. CASE learner[l] = Idle
  BY <1>2 DEF Idle
<1>3. CASE learner[l] \in [phase : {"derived"}, claim : Claims]
  BY <1>3
<1>4. CASE learner[l] \in [phase : {"read", "ruled", "shown"}, claim : Claims, rule : Rules,
                           next : SUBSET Rules]
  BY <1>4
<1>5. CASE learner[l] \in [phase : {"logged"}, claim : Claims, entry : Decisions]
  BY <1>5
<1> QED
  BY <1>1, <1>2, <1>3, <1>4, <1>5 DEF LearnerStates

LEMMA PhaseOfSetup ==
    ASSUME TypeOK, NEW s \in Setups
    PROVE  /\ setup[s].phase = "idle" => setup[s] = Idle
           /\ setup[s].phase \in {"read", "saved"} =>
                setup[s].read \subseteq Rules /\ setup[s].found \in BOOLEAN
           /\ setup[s].phase = "ruled" => setup[s].read \subseteq Rules
<1>1. setup[s] \in SetupStates
  BY DEF TypeOK
<1>2. CASE setup[s] = Idle
  BY <1>2 DEF Idle
<1>3. CASE setup[s] \in [phase : {"read", "saved"}, read : SUBSET Rules, found : BOOLEAN]
  BY <1>3
<1>4. CASE setup[s] \in [phase : {"ruled"}, read : SUBSET Rules]
  BY <1>4
<1>5. CASE setup[s] \in [phase : {"shown", "empty"}]
  BY <1>5
<1> QED
  BY <1>1, <1>2, <1>3, <1>4, <1>5 DEF SetupStates

-----------------------------------------------------------------------------
(* Type correctness.                                                       *)

USE LearningAssumption

LEMMA InitType == Init => TypeOK
<1> SUFFICES ASSUME Init
             PROVE  TypeOK
  OBVIOUS
<1>1. Idle \in LearnerStates /\ Idle \in SetupStates
  BY DEF LearnerStates, SetupStates
<1>2. /\ learner \in [Learners -> LearnerStates]
      /\ setup \in [Setups -> SetupStates]
  BY <1>1 DEF Init
<1> QED
  BY <1>2 DEF Init, TypeOK

(* A claim that is derived, and what is made of it, has its type.          *)
LEMMA DeriveType ==
    ASSUME TypeOK, NEW l \in Learners, NEW t \in Tasks, NEW S \in SUBSET Paths,
           NEW q \in Requests, Derive(l, t, S, q)
    PROVE  TypeOK'
<1> DEFINE digests == [p \in S |-> files[p]]
           claim == [task |-> t, digests |-> digests, kinds |-> SourceKinds(t, digests),
                     layer |-> q.layer, text |-> q.text]
<1>1. S # {} /\ \A p \in S : files[p] \in Contents
  BY DEF Derive, Derivable, Contributing, TypeOK, Events
<1>2. digests \in Evidence
  BY <1>1, EvidenceIsMade
<1>3. SourceKinds(t, digests) \subseteq Failures
  BY DEF SourceKinds, Contributing
<1>4. q.layer \in {"guide", "other"} /\ q.text \in Texts \union {NoText}
  OBVIOUS
<1>5. claim \in Claims
  BY <1>2, <1>3, <1>4 DEF Claims
<1>6. learner' = [learner EXCEPT ![l] = [phase |-> "derived", claim |-> claim]]
  BY DEF Derive
<1>7. [phase |-> "derived", claim |-> claim] \in LearnerStates
  BY <1>5 DEF LearnerStates
<1>8. learner' \in [Learners -> LearnerStates]
  BY <1>6, <1>7 DEF TypeOK
<1> QED
  BY <1>8 DEF Derive, TypeOK, outputs, written, history

LEMMA ReleaseType ==
    ASSUME TypeOK, NEW l \in Learners, Release(l)
    PROVE  learner' \in [Learners -> LearnerStates] /\ lock' \in Learners \union {Nobody}
BY DEF TypeOK, Release, LearnerStates

LEMMA ReadRulesType ==
    ASSUME TypeOK, NEW l \in Learners, ReadRules(l)
    PROVE  TypeOK'
<1> DEFINE c == learner[l].claim
           r == [at |-> stamp + 1, task |-> c.task, digests |-> c.digests, kinds |-> c.kinds,
                 text |-> c.text]
<1>1. CASE Release(l) /\ stamp' = stamp
  BY <1>1, ReleaseType DEF ReadRules, TypeOK, outputs, written, history
<1>2. CASE /\ stamp' = stamp + 1 /\ lock' = lock
           /\ learner' = [learner EXCEPT ![l] =
                 [phase |-> "read", claim |-> c, rule |-> r, next |-> rules \union {r}]]
  <2>1. c \in Claims /\ c.text # NoText
    BY PhaseOfLearner DEF ReadRules
  <2>2. r \in Rules
    BY <2>1 DEF Claims, Rules, TypeOK
  <2>3. [phase |-> "read", claim |-> c, rule |-> r, next |-> rules \union {r}]
            \in LearnerStates
    BY <2>1, <2>2 DEF LearnerStates, TypeOK
  <2>4. learner' \in [Learners -> LearnerStates]
    BY <1>2, <2>3 DEF TypeOK
  <2> QED
    BY <1>2, <2>4 DEF ReadRules, TypeOK, outputs, written, history
<1> QED
  BY <1>1, <1>2 DEF ReadRules

LEMMA InPhaseType ==
    ASSUME TypeOK, NEW l \in Learners, NEW phase \in {"ruled", "shown"},
           learner[l].phase \in {"read", "ruled"}
    PROVE  InPhase(l, phase) \in LearnerStates
<1>1. /\ learner[l].claim \in Claims /\ learner[l].rule \in Rules
      /\ learner[l].next \in SUBSET Rules
  BY PhaseOfLearner
<1>2. InPhase(l, phase) \in [phase : {"read", "ruled", "shown"}, claim : Claims, rule : Rules,
                            next : SUBSET Rules]
  BY <1>1 DEF InPhase
<1> QED
  BY <1>2 DEF LearnerStates

LEMMA WriteRulesType ==
    ASSUME TypeOK, NEW l \in Learners, WriteRules(l)
    PROVE  TypeOK'
<1>1. learner[l].next \subseteq Rules /\ learner[l].rule \in Rules
  BY PhaseOfLearner DEF WriteRules
<1>2. learner' \in [Learners -> LearnerStates]
  BY InPhaseType DEF WriteRules, TypeOK
<1> QED
  BY <1>1, <1>2 DEF WriteRules, TypeOK, outputs

LEMMA WriteGuidesType ==
    ASSUME TypeOK, NEW l \in Learners, WriteGuides(l)
    PROVE  TypeOK'
<1>1. learner[l].next \subseteq Rules
  BY PhaseOfLearner DEF WriteGuides
<1>2. learner' \in [Learners -> LearnerStates]
  BY InPhaseType DEF WriteGuides, TypeOK
<1> QED
  BY <1>1, <1>2 DEF WriteGuides, TypeOK, outputs, history

(* Who is about to log a decision, and what it is.                         *)
LEMMA EntryType ==
    ASSUME TypeOK, NEW l \in Learners,
           \/ learner[l].phase = "shown"
           \/ learner[l].phase = "derived" /\ learner[l].claim.text = NoText
    PROVE  Entry(l) \in Decisions /\ learner[l].claim \in Claims
<1>1. learner[l].claim \in Claims
  BY PhaseOfLearner
<1>2. learner[l].claim.text # NoText => learner[l].rule.at \in Nat
  BY PhaseOfLearner DEF Rules
<1> QED
  BY <1>1, <1>2 DEF Entry, Decisions, Claims, TypeOK, NoRule

LEMMA LogDecisionType ==
    ASSUME TypeOK, NEW l \in Learners, LogDecision(l)
    PROVE  TypeOK'
<1>1. Entry(l) \in Decisions /\ learner[l].claim \in Claims
  BY EntryType DEF LogDecision
<1>2. [phase |-> "logged", claim |-> learner[l].claim, entry |-> Entry(l)] \in LearnerStates
  BY <1>1 DEF LearnerStates
<1>3. learner' \in [Learners -> LearnerStates]
  BY <1>2 DEF LogDecision, TypeOK
<1>4. decisions' \subseteq Decisions
  BY <1>1 DEF LogDecision, TypeOK
<1>5. stamp' \in Nat
  BY DEF LogDecision, StampEntry, TypeOK
<1>6. learned' \subseteq Rules
  BY PhaseOfLearner DEF LogDecision, TypeOK
<1> QED
  BY <1>3, <1>4, <1>5, <1>6 DEF LogDecision, TypeOK, outputs

LEMMA ReturnType ==
    ASSUME TypeOK, NEW l \in Learners, Return(l)
    PROVE  TypeOK'
<1>1. learner[l].entry \in Decisions
  BY PhaseOfLearner DEF Return
<1>2. learner' \in [Learners -> LearnerStates] /\ lock' \in Learners \union {Nobody}
  BY ReleaseType DEF Return
<1> QED
  BY <1>1, <1>2 DEF Return, TypeOK, outputs, history

LEMMA LearnType ==
    ASSUME TypeOK, NEW l \in Learners, Learn(l)
    PROVE  TypeOK'
<1>1. CASE EndLearner(l)
  BY <1>1, ReleaseType DEF EndLearner, TypeOK, outputs, written, history
<1> QED
  BY <1>1, DeriveType, ReadRulesType, WriteRulesType, WriteGuidesType, LogDecisionType,
     ReturnType DEF Learn

LEMMA AtType ==
    ASSUME TypeOK, NEW s \in Setups, NEW state \in SetupStates, At(s, state)
    PROVE  setup' \in [Setups -> SetupStates]
BY DEF TypeOK, At

LEMMA SetupType ==
    ASSUME TypeOK, NEW s \in Setups, Initialize(s)
    PROVE  TypeOK'
<1>1. /\ Idle \in SetupStates
      /\ [phase |-> "shown"] \in SetupStates /\ [phase |-> "empty"] \in SetupStates
  BY DEF SetupStates
<1>2. ASSUME NEW force \in BOOLEAN, BeginSetup(s, force)
      PROVE  TypeOK'
  <2>1. [phase |-> "read", read |-> rules, found |-> "rules" \in made] \in SetupStates
    BY DEF TypeOK, SetupStates
  <2> QED
    BY <1>2, <2>1, AtType DEF BeginSetup, TypeOK, outputs, written, history
<1>3. CASE SaveConfig(s)
  <2>1. [phase |-> "saved", read |-> setup[s].read, found |-> setup[s].found]
            \in SetupStates
    BY <1>3, PhaseOfSetup DEF SaveConfig, SetupStates
  <2> QED
    BY <1>3, <2>1, AtType DEF SaveConfig, TypeOK, outputs, written, history
<1>4. CASE SetUpRules(s)
  <2>1. setup[s].read \subseteq Rules
    BY <1>4, PhaseOfSetup DEF SetUpRules
  <2>2. [phase |-> "ruled", read |-> setup[s].read] \in SetupStates
    BY <2>1 DEF SetupStates
  <2>3. setup' \in [Setups -> SetupStates]
    BY <1>4, <2>2, AtType DEF SetUpRules
  <2>4. rules' = rules \/ rules' \subseteq Rules
    BY <1>4 DEF SetUpRules
  <2>5. overtaken' \in BOOLEAN
    BY <1>4 DEF SetUpRules, TypeOK
  <2> QED
    BY <1>4, <2>3, <2>4, <2>5 DEF SetUpRules, TypeOK, outputs
<1>5. CASE SetUpGuides(s)
  BY <1>1, <1>5, PhaseOfSetup, AtType DEF SetUpGuides, TypeOK, outputs, history
<1>6. CASE FindDecisions(s)
  BY <1>1, <1>6, AtType DEF FindDecisions, TypeOK, outputs, written, history
<1>7. CASE SetUpDecisions(s)
  BY <1>1, <1>7, AtType DEF SetUpDecisions, TypeOK, outputs
<1>8. CASE EndSetup(s)
  BY <1>1, <1>8, AtType DEF EndSetup, TypeOK, outputs, written, history
<1> QED
  BY <1>2, <1>3, <1>4, <1>5, <1>6, <1>7, <1>8 DEF Initialize

LEMMA ObserveType ==
    ASSUME TypeOK, Observe
    PROVE  TypeOK'
<1>1. ASSUME NEW t \in Tasks, StartTask(t) \/ PruneTask(t)
      PROVE  TypeOK'
  BY <1>1 DEF StartTask, PruneTask, TypeOK, written, history
<1>2. ASSUME NEW p \in Paths, NEW c \in Contents \union {Absent}, WriteFile(p, c)
      PROVE  TypeOK'
  BY <1>2 DEF WriteFile, TypeOK, written, history
<1>3. ASSUME NEW p \in Paths, NEW k \in Kinds, RecordEvent(k, p)
      PROVE  TypeOK'
  <2>1. files[p] \in Contents /\ Owner[p] \in Tasks /\ stamp' \in Nat
    BY <1>3 DEF RecordEvent, TypeOK
  <2>2. [task |-> Owner[p], kind |-> k, path |-> p, content |-> files[p], at |-> stamp']
            \in Events
    BY <2>1 DEF Events
  <2> QED
    BY <1>3, <2>1, <2>2 DEF RecordEvent, TypeOK, written, history
<1>4. ASSUME NEW n \in 1..MaxStamp, PruneEvents(n)
      PROVE  TypeOK'
  BY <1>4 DEF PruneEvents, TypeOK, written, history
<1> QED
  BY <1>1, <1>2, <1>3, <1>4 DEF Observe

LEMMA TypeStep == TypeOK /\ [Next]_vars => TypeOK'
<1> SUFFICES ASSUME TypeOK, [Next]_vars
             PROVE  TypeOK'
  OBVIOUS
<1>1. CASE Next
  BY <1>1, LearnType, SetupType, ObserveType DEF Next
<1>2. CASE UNCHANGED vars
  BY <1>2 DEF vars, TypeOK, outputs, written, history
<1> QED
  BY <1>1, <1>2

(* Every file, event, process and record keeps its type, for any number of *)
(* learners, outputs and events.                                           *)
THEOREM TypeCorrect == Spec => []TypeOK
BY InitType, TypeStep, PTL DEF Spec
-----------------------------------------------------------------------------
(* Only the holder of the harness lock learns.                             *)
Serialized == \A l \in Learners : learner[l].phase # "idle" => lock = l

LEMMA OthersIdle ==
    ASSUME Serialized, NEW l \in Learners, learner[l].phase # "idle",
           NEW m \in Learners, m # l
    PROVE  learner[m].phase = "idle"
BY DEF Serialized

LEMMA OneIsChanged ==
    ASSUME TypeOK, NEW l \in Learners, NEW state, learner' = [learner EXCEPT ![l] = state]
    PROVE  learner'[l] = state /\ \A m \in Learners \ {l} : learner'[m] = learner[m]
BY DEF TypeOK

LEMMA SerializedLearn ==
    ASSUME TypeOK, Serialized, NEW l \in Learners, Learn(l)
    PROVE  Serialized'
<1>1. ASSUME Release(l), learner[l].phase # "idle"
      PROVE  Serialized'
  <2>1. learner'[l] = Idle /\ \A m \in Learners \ {l} : learner'[m] = learner[m]
    BY <1>1 DEF Release, TypeOK
  <2>2. \A m \in Learners \ {l} : learner[m].phase = "idle"
    BY <1>1, OthersIdle
  <2>3. \A m \in Learners : learner'[m].phase = "idle"
    BY <2>1, <2>2 DEF Idle
  <2> QED
    BY <2>3 DEF Serialized
<1>2. ASSUME lock' = lock, NEW state, learner' = [learner EXCEPT ![l] = state],
             learner[l].phase # "idle"
      PROVE  Serialized'
  BY <1>2, OneIsChanged DEF Serialized
<1>3. ASSUME NEW t \in Tasks, NEW S \in SUBSET Paths, NEW q \in Requests, Derive(l, t, S, q)
      PROVE  Serialized'
  <2>1. lock' = l /\ lock = Nobody
    BY <1>3 DEF Derive
  <2>2. \A m \in Learners : m # l => learner'[m] = learner[m]
    BY <1>3 DEF Derive, TypeOK
  <2>3. \A m \in Learners : learner[m].phase = "idle"
    BY <2>1 DEF Serialized
  <2> QED
    BY <2>1, <2>2, <2>3 DEF Serialized
<1>4. CASE ReadRules(l)
  BY <1>1, <1>2, <1>4 DEF ReadRules
<1>5. CASE WriteRules(l) \/ WriteGuides(l) \/ LogDecision(l)
  BY <1>2, <1>5 DEF WriteRules, WriteGuides, LogDecision
<1>6. CASE Return(l)
  BY <1>1, <1>6 DEF Return
<1>7. CASE EndLearner(l)
  BY <1>1, <1>7, PhaseOfLearner DEF EndLearner
<1> QED
  BY <1>3, <1>4, <1>5, <1>6, <1>7 DEF Learn

LEMMA SerializedStep == TypeOK /\ Serialized /\ [Next]_vars => Serialized'
<1> SUFFICES ASSUME TypeOK, Serialized, [Next]_vars
             PROVE  Serialized'
  OBVIOUS
<1>1. ASSUME NEW s \in Setups, Initialize(s)
      PROVE  Serialized'
  BY <1>1 DEF Initialize, BeginSetup, SaveConfig, SetUpRules, SetUpGuides, FindDecisions,
              SetUpDecisions, EndSetup, Serialized
<1>2. CASE Observe
  BY <1>2 DEF Observe, StartTask, PruneTask, WriteFile, RecordEvent, PruneEvents, Serialized
<1>3. CASE UNCHANGED vars
  BY <1>3 DEF vars, Serialized
<1> QED
  BY <1>1, <1>2, <1>3, SerializedLearn DEF Next
-----------------------------------------------------------------------------
(* The rules, the guides and the records, until a first initialization     *)
(* empties what was learned already.                                       *)

(* What a learner has written so far, and that nobody else wrote since.    *)
Knows(l) ==
    /\ learner[l].phase \in {"read", "ruled", "shown"} => learner[l].claim.text # NoText
    /\ learner[l].phase = "read" => learner[l].next = rules \union {learner[l].rule}
    /\ learner[l].phase \in {"ruled", "shown"} =>
            rules = learner[l].next /\ learner[l].rule \in rules
    /\ learner[l].phase = "shown" => learner[l].rule \in raced \union guides
    /\ learner[l].phase = "logged" => learner[l].entry \in decisions

(* An initialization renders every rule but those that raced with it.      *)
Renders(s) == Rendering(s) => rules \ raced \subseteq setup[s].read

LearnedParts ==
    \A r \in learned :
        /\ r \in rules
        /\ \E d \in decisions : d.rule = r.at
        /\ r \notin raced => r \in guides

LogParts ==
    /\ \A d \in decisions : d.rule # NoRule => \E r \in rules : r.at = d.rule
    /\ proposals \subseteq decisions

Steady ==
    (\A l \in Learners : Knows(l)) /\ (\A s \in Setups : Renders(s)) /\ LearnedParts /\ LogParts

SteadyInv == ~overtaken => Steady

LEMMA SteadyInit == Init => SteadyInv
BY DEF Init, SteadyInv, Steady, Knows, Renders, Rendering, LearnedParts, LogParts, Idle

(* The others hold nothing; one learner's step is about that learner.      *)
LEMMA OthersKnow ==
    ASSUME TypeOK, Serialized, NEW l \in Learners, learner[l].phase # "idle",
           NEW state, learner' = [learner EXCEPT ![l] = state], Knows(l)'
    PROVE  \A m \in Learners : Knows(m)'
<1>1. \A m \in Learners \ {l} : learner'[m].phase = "idle"
  BY OthersIdle, OneIsChanged
<1>2. \A m \in Learners \ {l} : Knows(m)'
  BY <1>1 DEF Knows
<1> QED
  BY <1>2

LEMMA SteadyDerive ==
    ASSUME TypeOK, Serialized, Steady, NEW l \in Learners,
           NEW t \in Tasks, NEW S \in SUBSET Paths, NEW q \in Requests, Derive(l, t, S, q)
    PROVE  Steady'
<1>1. learner'[l].phase = "derived" /\ \A m \in Learners \ {l} : learner'[m] = learner[m]
  BY DEF Derive, TypeOK
<1>2. \A m \in Learners : Knows(m)'
  BY <1>1 DEF Steady, Knows, Derive, written, history
<1> QED
  BY <1>2 DEF Steady, Renders, Rendering, LearnedParts, LogParts, Derive, written, history

LEMMA SteadyRelease ==
    ASSUME TypeOK, Serialized, Steady, NEW l \in Learners, learner[l].phase # "idle",
           Release(l), UNCHANGED <<made, rules, guides, decisions, setup, history>>,
           proposals' \subseteq decisions
    PROVE  Steady'
<1>0. learner'[l] = Idle
  BY DEF Release, TypeOK
<1>1. Knows(l)'
  BY <1>0 DEF Idle, Knows
<1>2. \A m \in Learners : Knows(m)'
  BY <1>1, OthersKnow DEF Release
<1> QED
  BY <1>2 DEF Steady, Renders, Rendering, LearnedParts, LogParts, history

LEMMA SteadyReadRules ==
    ASSUME TypeOK, Serialized, Steady, NEW l \in Learners, ReadRules(l)
    PROVE  Steady'
<1> DEFINE c == learner[l].claim
           r == [at |-> stamp + 1, task |-> c.task, digests |-> c.digests, kinds |-> c.kinds,
                 text |-> c.text]
           state == [phase |-> "read", claim |-> c, rule |-> r, next |-> rules \union {r}]
<1>1. UNCHANGED <<written, setup, history>> /\ learner[l].phase # "idle"
  BY DEF ReadRules
<1>2. CASE Release(l)
  BY <1>1, <1>2, SteadyRelease DEF Steady, LogParts, written
<1>3. CASE learner' = [learner EXCEPT ![l] = state]
  <2>1. learner'[l] = state
    BY <1>3, OneIsChanged
  <2>2. Knows(l)'
    BY <1>1, <2>1 DEF Knows, ReadRules, written
  <2>3. \A m \in Learners : Knows(m)'
    BY <1>1, <1>3, <2>2, OthersKnow
  <2> QED
    BY <1>1, <2>3 DEF Steady, Renders, Rendering, LearnedParts, LogParts, written, history
<1> QED
  BY <1>2, <1>3 DEF ReadRules

LEMMA SteadyWriteRules ==
    ASSUME TypeOK, Serialized, Steady, NEW l \in Learners, WriteRules(l)
    PROVE  Steady'
<1>1. /\ learner[l].claim.text # NoText
      /\ learner[l].next = rules \union {learner[l].rule}
      /\ rules' = rules \union {learner[l].rule}
  BY DEF Steady, Knows, WriteRules
<1>2. learner'[l] = InPhase(l, "ruled")
  BY OneIsChanged DEF WriteRules
<1>3. Knows(l)'
  BY <1>1, <1>2 DEF Knows, InPhase
<1>4. \A m \in Learners : Knows(m)'
  BY <1>3, OthersKnow DEF WriteRules
<1>5. \A s \in Setups : Renders(s)'
  BY <1>1 DEF Steady, Renders, Rendering, WriteRules
<1>6. LearnedParts' /\ LogParts'
  BY <1>1 DEF Steady, LearnedParts, LogParts, WriteRules
<1> QED
  BY <1>4, <1>5, <1>6 DEF Steady

LEMMA SteadyWriteGuides ==
    ASSUME TypeOK, Serialized, Steady, NEW l \in Learners, WriteGuides(l)
    PROVE  Steady'
<1>1. /\ learner[l].claim.text # NoText
      /\ rules = learner[l].next /\ learner[l].rule \in rules /\ guides' = rules
  BY DEF Steady, Knows, WriteGuides
<1>2. learner'[l] = InPhase(l, "shown")
  BY OneIsChanged DEF WriteGuides
<1>3. Knows(l)'
  BY <1>1, <1>2 DEF Knows, InPhase, WriteGuides
<1>4. \A m \in Learners : Knows(m)'
  BY <1>3, OthersKnow DEF WriteGuides
<1> QED
  BY <1>1, <1>4 DEF Steady, Renders, Rendering, LearnedParts, LogParts, WriteGuides, history

LEMMA SteadyLogDecision ==
    ASSUME TypeOK, Serialized, Steady, NEW l \in Learners, LogDecision(l)
    PROVE  Steady'
<1>1. decisions' = decisions \union {Entry(l)}
  BY DEF LogDecision
<1>2. learner'[l] = [phase |-> "logged", claim |-> learner[l].claim, entry |-> Entry(l)]
  BY DEF LogDecision, TypeOK
<1>3. Knows(l)'
  BY <1>1, <1>2 DEF Knows
<1>4. \A m \in Learners : Knows(m)'
  BY <1>3, OthersKnow DEF LogDecision
<1>5. CASE learner[l].phase = "shown"
  <2>1. /\ learner[l].claim.text # NoText /\ learner[l].rule \in rules
        /\ learner[l].rule \in raced \union guides
    BY <1>5 DEF Steady, Knows
  <2>2. Entry(l).rule = learner[l].rule.at
    BY <2>1 DEF Entry
  <2>3. learned' = learned \union {learner[l].rule}
    BY <1>5 DEF LogDecision
  <2>4. LearnedParts' /\ LogParts'
    BY <1>1, <2>1, <2>2, <2>3 DEF Steady, LearnedParts, LogParts, LogDecision
  <2> QED
    BY <1>4, <2>4 DEF Steady, Renders, Rendering, LogDecision
<1>6. CASE learner[l].phase = "derived" /\ learner[l].claim.text = NoText
  <2>1. Entry(l).rule = NoRule
    BY <1>6 DEF Entry
  <2>2. learned' = learned
    BY <1>6 DEF LogDecision
  <2> QED
    BY <1>1, <1>4, <2>1, <2>2
    DEF Steady, Renders, Rendering, LearnedParts, LogParts, LogDecision
<1> QED
  BY <1>5, <1>6 DEF LogDecision

LEMMA SteadyLearn ==
    ASSUME TypeOK, Serialized, Steady, NEW l \in Learners, Learn(l)
    PROVE  Steady'
<1>1. CASE Return(l)
  <2>1. proposals' \subseteq decisions
    BY <1>1 DEF Return, Steady, Knows, LogParts
  <2> QED
    BY <1>1, <2>1, SteadyRelease DEF Return
<1>2. CASE EndLearner(l)
  <2>1. learner[l].phase # "idle"
    BY <1>2, PhaseOfLearner DEF EndLearner
  <2> QED
    BY <1>2, <2>1, SteadyRelease DEF EndLearner, Steady, LogParts, written
<1> QED
  BY <1>1, <1>2, SteadyDerive, SteadyReadRules, SteadyWriteRules, SteadyWriteGuides,
     SteadyLogDecision DEF Learn

LEMMA OneSetupIsChanged ==
    ASSUME TypeOK, NEW s \in Setups, NEW state, At(s, state)
    PROVE  setup'[s] = state /\ \A z \in Setups \ {s} : setup'[z] = setup[z]
BY DEF TypeOK, At

(* An initialization keeps what it has read until it has rendered it.      *)
LEMMA RendersStill ==
    ASSUME TypeOK, Steady, NEW s \in Setups, NEW state, At(s, state),
           UNCHANGED <<rules, raced>>,
           state.phase \in {"read", "saved", "ruled"} => rules \ raced \subseteq state.read
    PROVE  \A z \in Setups : Renders(z)'
<1>1. setup'[s] = state /\ \A z \in Setups \ {s} : setup'[z] = setup[z]
  BY OneSetupIsChanged
<1> QED
  BY <1>1 DEF Steady, Renders, Rendering

LEMMA SteadySetup ==
    ASSUME TypeOK, Steady, NEW s \in Setups, Initialize(s)
    PROVE  SteadyInv'
<1>1. ASSUME UNCHANGED <<rules, guides, decisions, proposals, learner, learned, raced>>,
             \A z \in Setups : Renders(z)'
      PROVE  Steady'
  BY <1>1 DEF Steady, Knows, LearnedParts, LogParts
<1>2. ASSUME NEW force \in BOOLEAN, BeginSetup(s, force)
      PROVE  Steady'
  <2>1. \A z \in Setups : Renders(z)'
    BY <1>2, RendersStill DEF BeginSetup, written, history
  <2> QED
    BY <1>1, <1>2, <2>1 DEF BeginSetup, written, history
<1>3. CASE SaveConfig(s)
  <2>1. rules \ raced \subseteq setup[s].read
    BY <1>3 DEF SaveConfig, Steady, Renders, Rendering
  <2>2. \A z \in Setups : Renders(z)'
    BY <1>3, <2>1, RendersStill DEF SaveConfig, written, history
  <2> QED
    BY <1>1, <1>3, <2>2 DEF SaveConfig, written, history, SteadyInv
<1>4. CASE SetUpRules(s)
  <2> SUFFICES ASSUME ~overtaken'
               PROVE  Steady'
    BY DEF SteadyInv
  <2>1. rules' = rules
    BY <1>4 DEF SetUpRules
  <2>2. rules \ raced \subseteq setup[s].read
    BY <1>4 DEF SetUpRules, Steady, Renders, Rendering
  <2>3. \A z \in Setups : Renders(z)'
    BY <1>4, <2>1, <2>2, RendersStill DEF SetUpRules
  <2> QED
    BY <1>1, <1>4, <2>1, <2>3 DEF SetUpRules
<1>5. CASE SetUpGuides(s)
  <2>1. rules \ raced \subseteq guides'
    BY <1>5 DEF SetUpGuides, Steady, Renders, Rendering
  <2>2. \A z \in Setups : Renders(z)'
    BY <1>5, RendersStill DEF SetUpGuides, history
  <2>3. \A l \in Learners : Knows(l)'
    BY <1>5, <2>1 DEF SetUpGuides, Steady, Knows, history
  <2>4. LearnedParts' /\ LogParts'
    BY <1>5, <2>1 DEF SetUpGuides, Steady, LearnedParts, LogParts, history
  <2> QED
    BY <2>2, <2>3, <2>4 DEF Steady, SteadyInv
<1>6. CASE FindDecisions(s)
  <2>1. \A z \in Setups : Renders(z)'
    BY <1>6, RendersStill DEF FindDecisions, Idle, written, history
  <2> QED
    BY <1>1, <1>6, <2>1 DEF FindDecisions, written, history, SteadyInv
<1>7. CASE SetUpDecisions(s)
  <2> SUFFICES ASSUME ~overtaken'
               PROVE  Steady'
    BY DEF SteadyInv
  <2>1. decisions' = decisions
    BY <1>7 DEF SetUpDecisions
  <2>2. \A z \in Setups : Renders(z)'
    BY <1>7, RendersStill DEF SetUpDecisions, Idle
  <2> QED
    BY <1>1, <1>7, <2>1, <2>2 DEF SetUpDecisions
<1>8. CASE EndSetup(s)
  <2>1. \A z \in Setups : Renders(z)'
    BY <1>8, RendersStill DEF EndSetup, Idle, written, history
  <2> QED
    BY <1>1, <1>8, <2>1 DEF EndSetup, written, history, SteadyInv
<1> QED
  BY <1>2, <1>3, <1>4, <1>5, <1>6, <1>7, <1>8 DEF Initialize, SteadyInv

(* Nothing undoes the emptying.                                            *)
LEMMA OvertakenStays ==
    ASSUME TypeOK, [Next]_vars, overtaken
    PROVE  overtaken'
<1>1. ASSUME NEW l \in Learners, Learn(l)
      PROVE  overtaken'
  BY <1>1 DEF Learn, Derive, ReadRules, WriteRules, WriteGuides, LogDecision, Return,
              EndLearner, history
<1>2. ASSUME NEW s \in Setups, Initialize(s)
      PROVE  overtaken'
  BY <1>2 DEF Initialize, BeginSetup, SaveConfig, SetUpRules, SetUpGuides, FindDecisions,
              SetUpDecisions, EndSetup, history
<1>3. CASE Observe
  BY <1>3 DEF Observe, StartTask, PruneTask, WriteFile, RecordEvent, PruneEvents, history
<1>4. CASE UNCHANGED vars
  BY <1>4 DEF vars, history
<1> QED
  BY <1>1, <1>2, <1>3, <1>4 DEF Next

LEMMA SteadyStep == TypeOK /\ Serialized /\ SteadyInv /\ [Next]_vars => SteadyInv'
<1> SUFFICES ASSUME TypeOK, Serialized, SteadyInv, [Next]_vars
             PROVE  SteadyInv'
  OBVIOUS
<1>1. CASE overtaken
  BY <1>1, OvertakenStays DEF SteadyInv
<1>2. CASE ~overtaken
  <2>1. Steady
    BY <1>2 DEF SteadyInv
  <2>2. ASSUME UNCHANGED <<rules, guides, decisions, proposals, learner, setup, learned, raced>>
        PROVE  Steady'
    BY <2>1, <2>2 DEF Steady, Knows, Renders, Rendering, LearnedParts, LogParts
  <2>3. CASE Observe
    BY <2>2, <2>3 DEF Observe, StartTask, PruneTask, WriteFile, RecordEvent, PruneEvents,
                      written, history, SteadyInv
  <2>4. CASE UNCHANGED vars
    BY <2>2, <2>4 DEF vars, written, history, SteadyInv
  <2>5. ASSUME NEW l \in Learners, Learn(l)
        PROVE  SteadyInv'
    BY <2>1, <2>5, SteadyLearn DEF SteadyInv
  <2>6. ASSUME NEW s \in Setups, Initialize(s)
        PROVE  SteadyInv'
    BY <2>1, <2>6, SteadySetup
  <2> QED
    BY <2>3, <2>4, <2>5, <2>6 DEF Next
<1> QED
  BY <1>1, <1>2 DEF SteadyInv

LEMMA SerializedInit == Init => Serialized
BY DEF Init, Serialized, Idle

LEMMA SteadyAlways == Spec => [](TypeOK /\ Serialized /\ SteadyInv)
BY InitType, SerializedInit, SteadyInit, TypeStep, SerializedStep, SteadyStep, PTL DEF Spec

(* A rule whose learner returned stays in force, on record and, unless it  *)
(* raced with an initialization's rendering, shown to the agents, until a  *)
(* first initialization empties what was learned before it.                *)
THEOREM LearnedStaysComplete == Spec => []LearnedIsComplete
<1>1. SteadyInv => LearnedIsComplete
  BY DEF SteadyInv, Steady, LearnedParts, LearnedIsComplete
<1> QED
  BY <1>1, SteadyAlways, PTL

(* Wherever a learner ends, no decision is on record without its rule and  *)
(* no proposal without its decision.                                       *)
THEOREM RecordsFollowRules == Spec => []LogFollowsRules
<1>1. SteadyInv => LogFollowsRules
  BY DEF SteadyInv, Steady, LogParts, LogFollowsRules
<1> QED
  BY <1>1, SteadyAlways, PTL
-----------------------------------------------------------------------------
(* What a claim and a rule rest on.                                        *)

(* The failures that saw what a claim names.                               *)
Witnesses(c) ==
    {e \in events : /\ e.task = c.task /\ e.kind \in c.kinds
                    /\ e.path \in DOMAIN c.digests /\ e.content = c.digests[e.path]}

Covered(c, W) ==
    /\ \A k \in c.kinds : \E e \in W : e.kind = k
    /\ \A p \in DOMAIN c.digests : \E e \in W : e.path = p

Sound(c) == task[c.task] # "new" /\ c.kinds # {}

(* Until retention deletes events, those of a claim are all there; a rule  *)
(* rests on events that came before it.                                    *)
ClaimOK(c) == Sound(c) /\ (~pruned => Covered(c, Witnesses(c)))

RuleOK(r) == Sound(r) /\ r.at <= stamp /\ (~pruned => Covered(r, Supporting(r)))

Provenance ==
    /\ \A e \in events : e.at <= stamp
    /\ \A r \in rules : RuleOK(r)
    /\ \A l \in Learners :
            /\ learner[l].phase = "derived" => ClaimOK(learner[l].claim)
            /\ learner[l].phase = "read" => \A r \in learner[l].next : RuleOK(r)

LEMMA ProvenanceInit == Init => Provenance
BY DEF Init, Provenance, Idle

(* More events, later stamps and the course of a task harm no rule.        *)
LEMMA SoundStays ==
    ASSUME NEW c, Sound(c), task[c.task] # "new" => task'[c.task] # "new"
    PROVE  Sound(c)'
BY DEF Sound

LEMMA RuleStays ==
    ASSUME TypeOK, NEW r \in Rules, RuleOK(r), Sound(r)', stamp \in Nat, stamp' \in Nat,
           stamp <= stamp', pruned' \/ (pruned' = pruned /\ events \subseteq events')
    PROVE  RuleOK(r)'
<1>1. r.at <= stamp'
  BY DEF RuleOK, Rules
<1>2. CASE pruned'
  BY <1>1, <1>2 DEF RuleOK
<1>3. CASE pruned' = pruned /\ events \subseteq events'
  <2>1. Supporting(r) \subseteq Supporting(r)'
    BY <1>3 DEF Supporting
  <2>2. Covered(r, Supporting(r)) => Covered(r, Supporting(r)')
    BY <2>1 DEF Covered
  <2> QED
    BY <1>1, <1>3, <2>2 DEF RuleOK, Covered
<1> QED
  BY <1>2, <1>3

LEMMA ClaimStays ==
    ASSUME NEW c, ClaimOK(c), Sound(c)',
           pruned' \/ (pruned' = pruned /\ events \subseteq events')
    PROVE  ClaimOK(c)'
<1>1. CASE pruned'
  BY <1>1 DEF ClaimOK
<1>2. CASE pruned' = pruned /\ events \subseteq events'
  <2>1. Witnesses(c) \subseteq Witnesses(c)'
    BY <1>2 DEF Witnesses
  <2>2. Covered(c, Witnesses(c)) => Covered(c, Witnesses(c)')
    BY <2>1 DEF Covered
  <2> QED
    BY <1>2, <2>2 DEF ClaimOK, Covered
<1> QED
  BY <1>1, <1>2

(* The steps that only add to what claims and rules rest on.               *)
LEMMA ProvenanceStays ==
    ASSUME TypeOK, TypeOK', Provenance, learner' = learner,
           rules' \subseteq rules, stamp <= stamp', \A e \in events' : e.at <= stamp',
           \A t \in Tasks : task[t] # "new" => task'[t] # "new",
           pruned' \/ (pruned' = pruned /\ events \subseteq events')
    PROVE  Provenance'
<1>1. stamp \in Nat /\ stamp' \in Nat
  BY DEF TypeOK
<1>2. ASSUME NEW r \in Rules, RuleOK(r)
      PROVE  RuleOK(r)'
  <2>1. Sound(r)'
    BY <1>2, SoundStays DEF RuleOK, Rules
  <2> QED
    BY <1>1, <1>2, <2>1, RuleStays
<1>3. \A r \in rules' : RuleOK(r)'
  BY <1>2 DEF Provenance, TypeOK
<1>4. ASSUME NEW l \in Learners, learner[l].phase = "derived"
      PROVE  ClaimOK(learner[l].claim)'
  <2>1. learner[l].claim \in Claims /\ ClaimOK(learner[l].claim)
    BY <1>4, PhaseOfLearner DEF Provenance
  <2>2. learner[l].claim.task \in Tasks
    BY <2>1 DEF Claims
  <2>3. PICK c : c = learner[l].claim
    OBVIOUS
  <2>4. ClaimOK(c)'
    BY <2>1, <2>2, <2>3, SoundStays, ClaimStays DEF ClaimOK
  <2>5. learner'[l].claim = c
    BY <2>3
  <2> QED
    BY <2>4, <2>5 DEF ClaimOK, Sound, Covered, Witnesses
<1>5. ASSUME NEW l \in Learners, learner[l].phase = "read"
      PROVE  \A r \in learner[l].next : RuleOK(r)'
  BY <1>2, <1>5, PhaseOfLearner DEF Provenance
<1> QED
  BY <1>3, <1>4, <1>5 DEF Provenance

LEMMA RuleStaysWithOutputs ==
    ASSUME TypeOK, NEW r \in Rules, RuleOK(r), UNCHANGED outputs, stamp' \in Nat, stamp <= stamp'
    PROVE  RuleOK(r)'
<1>1. Sound(r)'
  BY DEF RuleOK, Sound, outputs
<1>2. stamp \in Nat
  BY DEF TypeOK
<1> QED
  BY <1>1, <1>2, RuleStays DEF outputs

(* A learner's step disturbs no other learner.                             *)
LEMMA ProvenanceOfOthers ==
    ASSUME TypeOK, Provenance, NEW l \in Learners, UNCHANGED outputs,
           stamp' \in Nat, stamp <= stamp', \A r \in rules' : RuleOK(r)',
           \A m \in Learners \ {l} : learner'[m] = learner[m],
           learner'[l].phase = "derived" => ClaimOK(learner[l].claim)',
           learner'[l].phase = "read" => \A r \in learner'[l].next : RuleOK(r)'
    PROVE  Provenance'
<1>1. \A e \in events' : e.at <= stamp'
  <2>1. ASSUME NEW e \in events
        PROVE  e.at <= stamp'
    <3>1. e.at \in Nat /\ stamp \in Nat /\ e.at <= stamp
      BY DEF TypeOK, Events, Provenance
    <3> QED
      BY <3>1
  <2> QED
    BY <2>1 DEF outputs
<1>2. ASSUME NEW m \in Learners \ {l}, learner'[m].phase = "derived"
      PROVE  ClaimOK(learner[m].claim)'
  <2>1. ClaimOK(learner[m].claim) /\ learner'[m].claim = learner[m].claim
    BY <1>2 DEF Provenance
  <2> QED
    BY <2>1 DEF ClaimOK, Sound, Covered, Witnesses, outputs
<1>3. ASSUME NEW m \in Learners \ {l}, learner'[m].phase = "read"
      PROVE  \A r \in learner'[m].next : RuleOK(r)'
  <2>1. learner'[m].next = learner[m].next /\ learner[m].next \subseteq Rules
    BY <1>3, PhaseOfLearner
  <2>2. \A r \in learner[m].next : RuleOK(r)
    BY <1>3 DEF Provenance
  <2> QED
    BY <2>1, <2>2, RuleStaysWithOutputs
<1> QED
  BY <1>1, <1>2, <1>3 DEF Provenance

(* What a learner derives is covered: every file has a failure that saw    *)
(* what it holds, and only those are named.                                *)
LEMMA DerivedIsCovered ==
    ASSUME TypeOK, NEW t \in Tasks, NEW S \in SUBSET Paths, Derivable(t, S),
           NEW digests, digests = [p \in S |-> files[p]],
           NEW c, c.task = t, c.digests = digests, c.kinds = SourceKinds(t, digests)
    PROVE  Sound(c) /\ Covered(c, Witnesses(c))
<1> DEFINE W == {e \in Contributing(t, S) : e.content = digests[e.path]}
<1>1. DOMAIN digests = S /\ c.kinds = {e.kind : e \in W}
  BY DEF SourceKinds
<1>2. W \subseteq Witnesses(c)
  BY <1>1 DEF Contributing, Witnesses
<1>3. ASSUME NEW p \in S
      PROVE  \E e \in W : e.path = p
  <2>1. PICK e \in Contributing(t, S) : e.path = p /\ e.content = files[p]
    BY DEF Derivable
  <2>2. e.content = digests[e.path]
    BY <2>1
  <2> QED
    BY <2>1, <2>2
<1>4. S # {} /\ task[t] = "kept"
  BY DEF Derivable
<1> HIDE DEF W
<1>5. c.kinds # {}
  BY <1>1, <1>3, <1>4
<1>6. \A k \in c.kinds : \E e \in Witnesses(c) : e.kind = k
  BY <1>1, <1>2
<1>7. \A p \in DOMAIN c.digests : \E e \in Witnesses(c) : e.path = p
  BY <1>1, <1>2, <1>3
<1> QED
  BY <1>4, <1>5, <1>6, <1>7 DEF Sound, Covered

LEMMA ProvenanceDerive ==
    ASSUME TypeOK, TypeOK', Provenance, NEW l \in Learners,
           NEW t \in Tasks, NEW S \in SUBSET Paths, NEW q \in Requests, Derive(l, t, S, q)
    PROVE  Provenance'
<1> DEFINE digests == [p \in S |-> files[p]]
           claim == [task |-> t, digests |-> digests, kinds |-> SourceKinds(t, digests),
                     layer |-> q.layer, text |-> q.text]
<1>1. /\ learner'[l] = [phase |-> "derived", claim |-> claim]
      /\ \A m \in Learners \ {l} : learner'[m] = learner[m]
  BY DEF Derive, TypeOK
<1>2. UNCHANGED <<outputs, stamp, rules>> /\ stamp \in Nat
  BY DEF Derive, TypeOK, written
<1>3. PICK c : c = claim
  OBVIOUS
<1>4. c.task = t /\ c.digests = digests /\ c.kinds = SourceKinds(t, digests)
  BY <1>3
<1>5. Derivable(t, S)
  BY DEF Derive
<1>6. Sound(c) /\ Covered(c, Witnesses(c))
  BY <1>4, <1>5, DerivedIsCovered
<1>7. learner'[l].claim = c
  BY <1>1, <1>3
<1>8. ClaimOK(learner[l].claim)'
  BY <1>2, <1>6, <1>7 DEF ClaimOK, Sound, Covered, Witnesses, outputs
<1>9. \A r \in rules' : RuleOK(r)'
  BY <1>2, RuleStaysWithOutputs DEF Provenance, TypeOK
<1> QED
  BY <1>1, <1>2, <1>8, <1>9, ProvenanceOfOthers

LEMMA ProvenanceReadRules ==
    ASSUME TypeOK, TypeOK', Provenance, NEW l \in Learners, ReadRules(l)
    PROVE  Provenance'
<1> DEFINE c == learner[l].claim
           r == [at |-> stamp + 1, task |-> c.task, digests |-> c.digests, kinds |-> c.kinds,
                 text |-> c.text]
           state == [phase |-> "read", claim |-> c, rule |-> r, next |-> rules \union {r}]
<1>1. UNCHANGED <<outputs, rules>> /\ stamp \in Nat /\ stamp' \in Nat
  BY DEF ReadRules, TypeOK, written
<1>2. stamp <= stamp' => \A q \in rules : RuleOK(q)'
  BY <1>1, RuleStaysWithOutputs DEF Provenance, TypeOK
<1>3. CASE Release(l) /\ stamp' = stamp
  <2>1. learner'[l].phase = "idle" /\ \A m \in Learners \ {l} : learner'[m] = learner[m]
    BY <1>3 DEF Release, TypeOK, Idle
  <2> QED
    BY <1>1, <1>2, <1>3, <2>1, ProvenanceOfOthers
<1>4. CASE stamp' = stamp + 1 /\ learner' = [learner EXCEPT ![l] = state]
  <2>1. learner'[l] = state /\ \A m \in Learners \ {l} : learner'[m] = learner[m]
    BY <1>4, OneIsChanged
  <2>2. c \in Claims /\ ClaimOK(c)
    BY PhaseOfLearner DEF ReadRules, Provenance
  <2>3. PICK n : n = r
    OBVIOUS
  <2>4. n.task = c.task /\ n.kinds = c.kinds /\ n.digests = c.digests /\ n.at = stamp + 1
    BY <2>3
  <2>5. Witnesses(c) \subseteq Supporting(n)'
    <3>1. SUFFICES ASSUME NEW e \in Witnesses(c)
                   PROVE  e \in Supporting(n)'
      OBVIOUS
    <3>2. e.at \in Nat /\ e.at <= stamp /\ e \in events'
      BY <1>1 DEF Witnesses, Provenance, TypeOK, Events, outputs
    <3>3. e.at <= n.at
      BY <1>1, <2>4, <3>2
    <3>4. e.kind \in n.kinds \intersect Failures
      BY <2>2, <2>4 DEF Witnesses, Claims
    <3> QED
      BY <2>4, <3>2, <3>3, <3>4 DEF Witnesses, Supporting
  <2>6. Covered(c, Witnesses(c)) => Covered(n, Supporting(n)')
    BY <2>4, <2>5 DEF Covered
  <2>7. RuleOK(n)'
    BY <1>1, <1>4, <2>2, <2>4, <2>6 DEF RuleOK, ClaimOK, Sound, Covered, outputs
  <2>8. learner'[l].phase = "read" /\ learner'[l].next = rules \union {n}
    BY <2>1, <2>3
  <2>9. stamp <= stamp'
    BY <1>1, <1>4
  <2> QED
    BY <1>1, <1>2, <2>1, <2>7, <2>8, <2>9, ProvenanceOfOthers
<1> QED
  BY <1>3, <1>4 DEF ReadRules

LEMMA ProvenanceLearn ==
    ASSUME TypeOK, TypeOK', Provenance, NEW l \in Learners, Learn(l)
    PROVE  Provenance'
<1>1. stamp \in Nat /\ stamp' \in Nat
  BY DEF TypeOK
<1>2. ASSUME UNCHANGED <<outputs, rules>>, stamp <= stamp', NEW state,
             learner' = [learner EXCEPT ![l] = state], state.phase \notin {"derived", "read"}
      PROVE  Provenance'
  <2>1. \A r \in rules' : RuleOK(r)'
    BY <1>1, <1>2, RuleStaysWithOutputs DEF Provenance, TypeOK
  <2>2. learner'[l] = state /\ \A m \in Learners \ {l} : learner'[m] = learner[m]
    BY <1>2, OneIsChanged
  <2> QED
    BY <1>1, <1>2, <2>1, <2>2, ProvenanceOfOthers
<1>3. CASE WriteRules(l)
  <2>1. rules' \subseteq Rules /\ \A r \in rules' : RuleOK(r)
    BY <1>3, PhaseOfLearner DEF WriteRules, Provenance
  <2>2. UNCHANGED <<outputs, stamp>>
    BY <1>3 DEF WriteRules
  <2>3. \A r \in rules' : RuleOK(r)'
    BY <1>1, <2>1, <2>2, RuleStaysWithOutputs
  <2>4. learner' = [learner EXCEPT ![l] = InPhase(l, "ruled")]
    BY <1>3 DEF WriteRules
  <2>5. /\ learner'[l] = InPhase(l, "ruled")
        /\ \A m \in Learners \ {l} : learner'[m] = learner[m]
    BY <2>4, OneIsChanged
  <2>6. learner'[l].phase = "ruled"
    BY <2>5 DEF InPhase
  <2> QED
    BY <1>1, <2>2, <2>3, <2>5, <2>6, ProvenanceOfOthers
<1>4. CASE WriteGuides(l)
  <2>1. InPhase(l, "shown").phase \notin {"derived", "read"}
    BY DEF InPhase
  <2>2. UNCHANGED <<outputs, rules>> /\ stamp <= stamp'
    BY <1>1, <1>4 DEF WriteGuides
  <2>3. learner' = [learner EXCEPT ![l] = InPhase(l, "shown")]
    BY <1>4 DEF WriteGuides
  <2> QED
    BY <1>2, <2>1, <2>2, <2>3
<1>5. CASE LogDecision(l)
  <2>1. stamp <= stamp'
    BY <1>1, <1>5 DEF LogDecision, StampEntry
  <2> QED
    BY <1>2, <1>5, <2>1 DEF LogDecision
<1>6. CASE Return(l) \/ EndLearner(l)
  BY <1>1, <1>2, <1>6 DEF Return, EndLearner, Release, Idle, written
<1> QED
  BY <1>3, <1>4, <1>5, <1>6, ProvenanceDerive, ProvenanceReadRules DEF Learn

LEMMA ProvenanceStep == TypeOK /\ TypeOK' /\ Provenance /\ [Next]_vars => Provenance'
<1> SUFFICES ASSUME TypeOK, TypeOK', Provenance, [Next]_vars
             PROVE  Provenance'
  OBVIOUS
<1>1. stamp \in Nat /\ \A e \in events : e.at \in Nat /\ e.at <= stamp
  BY DEF TypeOK, Events, Provenance
<1>2. ASSUME UNCHANGED <<events, stamp, pruned, learner>>, rules' \subseteq rules,
             \A t \in Tasks : task[t] # "new" => task'[t] # "new"
      PROVE  Provenance'
  BY <1>1, <1>2, ProvenanceStays
<1>3. ASSUME NEW s \in Setups, Initialize(s)
      PROVE  Provenance'
  <2>1. UNCHANGED <<outputs, stamp, learner>>
    BY <1>3 DEF Initialize, BeginSetup, SaveConfig, SetUpRules, SetUpGuides, FindDecisions,
                SetUpDecisions, EndSetup
  <2>2. rules' \subseteq rules
    BY <1>3 DEF Initialize, BeginSetup, SaveConfig, SetUpRules, SetUpGuides, FindDecisions,
                SetUpDecisions, EndSetup, written
  <2> QED
    BY <1>2, <2>1, <2>2 DEF outputs
<1>4. ASSUME NEW t \in Tasks, StartTask(t) \/ PruneTask(t)
      PROVE  Provenance'
  <2>1. \A u \in Tasks : task[u] # "new" => task'[u] # "new"
    BY <1>4 DEF StartTask, PruneTask, TypeOK
  <2> QED
    BY <1>2, <1>4, <2>1 DEF StartTask, PruneTask, written
<1>5. ASSUME NEW p \in Paths, NEW c \in Contents \union {Absent}, WriteFile(p, c)
      PROVE  Provenance'
  BY <1>2, <1>5 DEF WriteFile, written
<1>6. ASSUME NEW p \in Paths, NEW k \in Kinds, RecordEvent(k, p)
      PROVE  Provenance'
  <2>1. \A e \in events' : e.at <= stamp'
    BY <1>1, <1>6 DEF RecordEvent
  <2>2. stamp <= stamp' /\ events \subseteq events'
    BY <1>1, <1>6 DEF RecordEvent
  <2> QED
    BY <1>6, <2>1, <2>2, ProvenanceStays DEF RecordEvent, written
<1>7. ASSUME NEW n \in 1..MaxStamp, PruneEvents(n)
      PROVE  Provenance'
  <2>1. \A e \in events' : e.at <= stamp'
    BY <1>1, <1>7 DEF PruneEvents
  <2> QED
    BY <1>1, <1>7, <2>1, ProvenanceStays DEF PruneEvents, written
<1>8. CASE UNCHANGED vars
  BY <1>2, <1>8 DEF vars, outputs, written
<1> QED
  BY <1>3, <1>4, <1>5, <1>6, <1>7, <1>8, ProvenanceLearn DEF Next, Observe

LEMMA ProvenanceAlways == Spec => [](TypeOK /\ Provenance)
BY InitType, ProvenanceInit, TypeStep, ProvenanceStep, PTL DEF Spec

LEMMA CoveredIsEvidenced ==
    ASSUME TypeOK, Provenance, NEW r \in rules, ~pruned, task[r.task] = "kept", Intact(r)
    PROVE  Evidenced(r)
<1>1. RuleOK(r)
  BY DEF Provenance
<1>2. {e.kind : e \in Supporting(r)} = r.kinds
  BY <1>1 DEF RuleOK, Covered, Supporting
<1> QED
  BY <1>1, <1>2 DEF RuleOK, Covered, Sound, Evidenced

(* What is derived for a claim is what the audit checks of its rule: while *)
(* the task and every event are retained and the evidence is as it was,    *)
(* the rule counts as evidenced.                                           *)
THEOREM ProvenanceAlwaysHolds == Spec => []ProvenanceHolds
<1>1. TypeOK /\ Provenance => ProvenanceHolds
  BY CoveredIsEvidenced DEF ProvenanceHolds
<1> QED
  BY <1>1, ProvenanceAlways, PTL

(* No step but one that changes the evidence proves a rule anew.           *)
LEMMA NothingNewSupports ==
    ASSUME TypeOK, Provenance, NEW r \in rules, Next
    PROVE  Supporting(r)' \subseteq Supporting(r)
<1>1. r.at \in Nat /\ stamp \in Nat /\ r.at <= stamp
  BY DEF TypeOK, Rules, Provenance, RuleOK
<1>2. events' \subseteq events => Supporting(r)' \subseteq Supporting(r)
  BY DEF Supporting
<1>3. ASSUME NEW l \in Learners, Learn(l)
      PROVE  events' = events
  BY <1>3 DEF Learn, Derive, ReadRules, WriteRules, WriteGuides, LogDecision, Return,
              EndLearner, outputs
<1>4. ASSUME NEW s \in Setups, Initialize(s)
      PROVE  events' = events
  BY <1>4 DEF Initialize, BeginSetup, SaveConfig, SetUpRules, SetUpGuides, FindDecisions,
              SetUpDecisions, EndSetup, outputs
<1>5. ASSUME NEW p \in Paths, NEW k \in Kinds, RecordEvent(k, p)
      PROVE  Supporting(r)' \subseteq Supporting(r)
  <2>1. \A e \in events' \ events : e.at = stamp + 1
    BY <1>5 DEF RecordEvent
  <2>2. \A e \in events' : e.at <= r.at => e \in events
    BY <1>1, <2>1
  <2> QED
    BY <2>2 DEF Supporting
<1>6. ASSUME NEW t \in Tasks, StartTask(t) \/ PruneTask(t)
      PROVE  events' = events
  BY <1>6 DEF StartTask, PruneTask
<1>7. ASSUME NEW p \in Paths, NEW c \in Contents \union {Absent}, WriteFile(p, c)
      PROVE  events' = events
  BY <1>7 DEF WriteFile
<1>8. ASSUME NEW n \in 1..MaxStamp, PruneEvents(n)
      PROVE  events' \subseteq events
  BY <1>8 DEF PruneEvents
<1> QED
  BY <1>2, <1>3, <1>4, <1>5, <1>6, <1>7, <1>8 DEF Next, Observe

(* A task that has a rule was started, and is not restored.                *)
LEMMA TaskIsNotRestored ==
    ASSUME TypeOK, Provenance, NEW r \in rules, Next, task'[r.task] = "kept"
    PROVE  task[r.task] = "kept"
<1>1. r.task \in Tasks /\ task[r.task] # "new"
  BY DEF TypeOK, Rules, Provenance, RuleOK, Sound
<1>2. ASSUME NEW l \in Learners, Learn(l)
      PROVE  task' = task
  BY <1>2 DEF Learn, Derive, ReadRules, WriteRules, WriteGuides, LogDecision, Return,
              EndLearner, outputs
<1>3. ASSUME NEW s \in Setups, Initialize(s)
      PROVE  task' = task
  BY <1>3 DEF Initialize, BeginSetup, SaveConfig, SetUpRules, SetUpGuides, FindDecisions,
              SetUpDecisions, EndSetup, outputs
<1>4. ASSUME NEW t \in Tasks, StartTask(t) \/ PruneTask(t)
      PROVE  task[r.task] = "kept"
  BY <1>1, <1>4 DEF StartTask, PruneTask, TypeOK
<1>5. ASSUME Observe, \A t \in Tasks : ~StartTask(t) /\ ~PruneTask(t)
      PROVE  task' = task
  BY <1>5 DEF Observe, WriteFile, RecordEvent, PruneEvents
<1> QED
  BY <1>2, <1>3, <1>4, <1>5 DEF Next

LEMMA NothingIsProved ==
    ASSUME TypeOK, Provenance, NEW r \in rules, Next, files' = files, Evidenced(r)'
    PROVE  Evidenced(r)
<1>1. Supporting(r)' \subseteq Supporting(r)
  BY NothingNewSupports
<1>2. task[r.task] = "kept"
  BY TaskIsNotRestored DEF Evidenced
<1>3. Intact(r)
  BY DEF Evidenced, Intact
<1>4. {e.kind : e \in Supporting(r)} = r.kinds
  BY <1>1 DEF Evidenced, Supporting
<1>5. \A p \in DOMAIN r.digests : \E e \in Supporting(r) : e.path = p
  BY <1>1 DEF Evidenced
<1> QED
  BY <1>2, <1>3, <1>4, <1>5 DEF Evidenced

(* A failure recorded after a rule proves nothing for it, and neither does *)
(* anything but a change of the outputs it names.                          *)
THEOREM NothingIsProvedLate == Spec => NoLateProof
<1>1. ASSUME TypeOK, Provenance, [Next]_vars
      PROVE  [\A r \in rules \intersect rules' :
                 ~Evidenced(r) /\ Evidenced(r)' => files' # files]_<<events, files, task, rules>>
  <2>1. CASE Next
    BY <1>1, <2>1, NothingIsProved
  <2>2. CASE UNCHANGED vars
    BY <2>2 DEF vars, outputs, written
  <2> QED
    BY <1>1, <2>1, <2>2
<1> QED
  BY <1>1, ProvenanceAlways, PTL DEF Spec, NoLateProof
=============================================================================

----------------------- MODULE ExternalAccess_proofs ------------------------
(***************************************************************************)
(* What a grant covers and what executors leave alone, for any tasks,      *)
(* processes, lifetimes and delays and any number of grants and files.     *)
(***************************************************************************)
EXTENDS ExternalAccess, FiniteSetTheorems, TLAPS

USE ExternalAssumption

-----------------------------------------------------------------------------
(* The inductive invariant.                                                *)

(* The states of a process as records.                                     *)
HalfStates(ops, subjects) ==
    [phase : {"half"}, op : ops, subject : subjects, first : Stats, since : SUBSET Pairs]
LookStates ==
    [phase : {"compared", "bound"}, op : {"grant"}, subject : Grants]
        \cup [phase : {"found"}, op : {"grant"}, subject : Grants, made : Ids]
SeenStates(ops, subjects) ==
    [phase : {"seen"}, op : ops, subject : subjects, real : BOOLEAN]
ReadyStates == [phase : {"ready"}, subject : Nat]
TimedStates ==
    [phase : {"timed"}, subject : Nat, waited : 0 .. Delay, over : Nat, allowed : Nat \ {0}]
RunningStates == [phase : {"running"}, subject : Nat, over : Nat]

Looking(q) == q.phase \in {"found", "compared", "bound"} /\ q.op = "grant"
Granting(q) == Looking(q) \/ (q.phase \in {"half", "seen"} /\ q.op = "grant")
Checking(q) == q.phase \in {"half", "seen"} /\ q.op = "check"
Runs(q) == q.phase \in {"ready", "timed", "running"} \/ (q.phase \in {"half", "seen"} /\ q.op = "run")

StateOK(q) ==
    \/ q = Idle
    \/ Granting(q) /\ q \in LookStates \cup HalfStates({"grant"}, Grants)
                              \cup SeenStates({"grant"}, Grants)
    \/ Checking(q) /\ q \in HalfStates({"check"}, {NoGrant}) \cup SeenStates({"check"}, {NoGrant})
    \/ Runs(q) /\ q \in HalfStates({"run"}, Nat) \cup SeenStates({"run"}, Nat) \cup ReadyStates
                           \cup TimedStates \cup RunningStates

Commands == [step : Steps, id : Nat, left : Int, attended : BOOLEAN]

DirectoryOK ==
    /\ scratch \in {Absent} \cup [id : Ids, entry : BOOLEAN]
    /\ name \in [Names -> Ids \cup {Absent}] /\ extra \subseteq Ids /\ receipt \subseteq Ids
    /\ ids \in 0 .. MaxIds /\ foreign \in 0 .. MaxForeign /\ own \subseteq Ids

TypeInv ==
    /\ \E n \in 0 .. MaxGrants : grants \in [1 .. n -> Grants]
    /\ taskLock \in [Tasks -> Clients \cup {Nobody}] /\ configLock \in Clients \cup {Nobody}
    /\ client \in [Clients -> {client[c] : c \in Clients}]
    /\ \A c \in Clients : StateOK(client[c])
    /\ exec \in [Clients -> {None} \cup Commands]
    /\ DirectoryOK

(* A process that runs a command holds the locks of its task and of the    *)
(* configuration from the check of the grant to the end; it has an         *)
(* executor from the launch on, and only then.                             *)
RunOf(c) ==
    /\ Runs(client[c]) => /\ client[c].subject \in DOMAIN grants
                          /\ taskLock[grants[client[c].subject].task] = c
                          /\ configLock = c
                          /\ client[c].phase # "running" => exec[c] = None
    /\ client[c].phase = "running" => /\ exec[c] # None /\ exec[c].attended
                                      /\ exec[c].id = client[c].subject
    /\ exec[c] # None => exec[c].id \in DOMAIN grants

(* The grant is in force when an attempt begins, and nobody revokes it.    *)
CoverOf(c) ==
    client[c].phase \in {"timed", "running"} => ~grants[client[c].subject].revoked

(* How late a command is, and how long it may still run.                   *)
LateOf(c) ==
    /\ client[c].phase = "timed" =>
          client[c].over + client[c].allowed <= grants[client[c].subject].left + client[c].waited
    /\ client[c].phase = "running" =>
          /\ client[c].over + exec[c].left <= grants[client[c].subject].left + Delay
          /\ exec[c].left + Grace >= 0
    /\ client[c].phase \in {"timed", "running"} /\ client[c].over # 0 =>
          grants[client[c].subject].left = 0

RunInv == \A c \in Clients : RunOf(c)
CoverInv == \A c \in Clients : CoverOf(c)
LateInv == \A c \in Clients : LateOf(c)

(* One executor holds the common lock; what it made and staged is there.   *)
HoldInv ==
    /\ \A c, d \in Clients : Holds(c) /\ Holds(d) => c = d
    /\ \A c \in Clients : exec[c].step \in {"made", "recorded"} =>
                              scratch # Absent /\ scratch.id \in own
    /\ \A c \in Clients : exec[c].step \in {"staged", "filed"} => name["source"] \in own

(* What a receipt names is an executor's own.                              *)
ReceiptInv == receipt \subseteq own

(* Identities are given out in order.                                      *)
IdsInv == \A n \in Names : name[n] # Absent => name[n] <= ids

(* A first stat of a lone name, or of none, was all there was, or another  *)
(* file still is under the second name.                                    *)
Apart == name["destination"] \notin {Absent, name["source"]}

Lone(first, since) ==
    /\ first = Absent => "absent" \in since \/ Apart
    /\ first # Absent /\ first.links = 1 =>
          "source-only" \in since \/ (name["source"] # Absent /\ Apart)

(* A second stat now would give a topology that was there, or be refused.  *)
SeenOf(c) ==
    /\ client[c].phase = "half" /\ client[c].since # {} =>
          /\ PairState(client[c].first, Stat("destination")) \in client[c].since \cup {"refused"}
          /\ Lone(client[c].first, client[c].since)
    /\ client[c].phase = "seen" => client[c].real

SeenInv == \A c \in Clients : SeenOf(c)

IInv ==
    TypeInv /\ RunInv /\ CoverInv /\ LateInv /\ HoldInv /\ ReceiptInv /\ IdsInv /\ SeenInv
-----------------------------------------------------------------------------
(* Types.                                                                  *)

LEMMA Bounds ==
    /\ MaxLife \in Nat /\ MaxTimeout \in Nat /\ MaxGrants \in Nat /\ MaxIds \in Nat
    /\ MaxForeign \in Nat /\ Delay \in Nat /\ Grace \in Nat
    /\ Ids \subseteq Nat /\ Absent \notin Ids
BY DEF Ids

LEMMA GrantsTyped ==
    ASSUME TypeInv
    PROVE  \A n \in DOMAIN grants : n \in 1 .. MaxGrants /\ n \in Nat /\ grants[n] \in Grants
BY Bounds DEF TypeInv

LEMMA GrantsCounted ==
    ASSUME TypeInv
    PROVE  \E n \in 0 .. MaxGrants : /\ Cardinality(DOMAIN grants) = n
                                     /\ grants \in [1 .. n -> Grants]
<1>1. PICK n \in 0 .. MaxGrants : grants \in [1 .. n -> Grants]
  BY DEF TypeInv
<1>2. DOMAIN grants = 1 .. n
  BY <1>1
<1>3. Cardinality(1 .. n) = n
  BY <1>1, FS_Interval, Bounds
<1> QED
  BY <1>1, <1>2, <1>3

LEMMA GrantFields ==
    ASSUME NEW g \in Grants
    PROVE  /\ g.task \in Tasks /\ g.kind \in Kinds /\ g.bound \in Ids \cup {Absent}
           /\ g.revoked \in BOOLEAN /\ g.left \in 0 .. MaxLife /\ g.left \in Nat
           /\ [g EXCEPT !.revoked = TRUE] \in Grants
           /\ [g EXCEPT !.left = Sooner(g.left)] \in Grants
<1>1. /\ g.task \in Tasks /\ g.kind \in Kinds /\ g.bound \in Ids \cup {Absent}
      /\ g.revoked \in BOOLEAN /\ g.left \in 0 .. MaxLife /\ g.left \in Nat
  BY Bounds DEF Grants
<1>2. [g EXCEPT !.revoked = TRUE] \in Grants
  BY DEF Grants
<1>3. Sooner(g.left) \in 0 .. MaxLife
  BY <1>1, Bounds DEF Sooner
<1>4. [g EXCEPT !.left = Sooner(g.left)] \in Grants
  BY <1>3 DEF Grants
<1> QED
  BY <1>1, <1>2, <1>4

(* What a state of a process is made of.                                   *)
LEMMA StateFields ==
    ASSUME NEW q, StateOK(q)
    PROVE  /\ q.phase \in {"idle", "found", "compared", "bound", "half", "seen", "ready", "timed",
                            "running"}
           /\ q.phase = "idle" <=> q = Idle
           /\ q.phase \in {"found", "compared", "bound"} => Looking(q) /\ q \in LookStates
           /\ q.phase = "half" =>
                 /\ q.op \in {"grant", "check", "run"} /\ q.first \in Stats /\ q.since \subseteq Pairs
                 /\ q \in HalfStates({q.op}, {q.subject})
           /\ q.phase = "seen" => /\ q.op \in {"grant", "check", "run"} /\ q.real \in BOOLEAN
                                  /\ q \in SeenStates({q.op}, {q.subject})
           /\ Granting(q) => q.subject \in Grants
           /\ Checking(q) => q.subject = NoGrant
           /\ Runs(q) => q.subject \in Nat
           /\ q.phase = "ready" => q \in ReadyStates
           /\ q.phase = "timed" => q \in TimedStates
           /\ q.phase = "running" => q \in RunningStates
<1>1. CASE q = Idle
  BY <1>1 DEF Idle, Granting, Looking, Checking, Runs
<1>2. CASE q \in HalfStates({"grant"}, Grants) \cup HalfStates({"check"}, {NoGrant})
                    \cup HalfStates({"run"}, Nat)
  BY <1>2 DEF HalfStates, Idle, Granting, Looking, Checking, Runs
<1>3. CASE q \in SeenStates({"grant"}, Grants) \cup SeenStates({"check"}, {NoGrant})
                    \cup SeenStates({"run"}, Nat)
  BY <1>3 DEF SeenStates, Idle, Granting, Looking, Checking, Runs
<1>4. CASE q \in ReadyStates \cup TimedStates \cup RunningStates
  BY <1>4 DEF ReadyStates, TimedStates, RunningStates, Idle, Granting, Looking, Checking, Runs
<1>5. CASE q \in LookStates
  BY <1>5 DEF LookStates, Idle, Granting, Looking, Checking, Runs
<1> QED
  BY <1>1, <1>2, <1>3, <1>4, <1>5 DEF StateOK

(* And what makes one.                                                     *)
LEMMA StateMade ==
    ASSUME NEW q
    PROVE  /\ q \in LookStates => StateOK(q)
           /\ q \in HalfStates({"grant"}, Grants) \cup SeenStates({"grant"}, Grants) => StateOK(q)
           /\ q \in HalfStates({"check"}, {NoGrant}) \cup SeenStates({"check"}, {NoGrant})
                 => StateOK(q)
           /\ q \in HalfStates({"run"}, Nat) \cup SeenStates({"run"}, Nat) => StateOK(q)
           /\ q \in ReadyStates \cup TimedStates \cup RunningStates => StateOK(q)
BY DEF StateOK, LookStates, HalfStates, SeenStates, ReadyStates, TimedStates, RunningStates,
       Granting, Looking, Checking, Runs

LEMMA CommandFields ==
    ASSUME TypeInv, NEW c \in Clients
    PROVE  /\ exec[c].step = "none" <=> exec[c] = None
           /\ exec[c] # None => /\ exec[c] \in Commands /\ exec[c].step \in Steps
                                /\ exec[c].id \in Nat /\ exec[c].left \in Int
                                /\ exec[c].attended \in BOOLEAN
<1>1. exec[c] \in {None} \cup Commands
  BY DEF TypeInv
<1>2. CASE exec[c] = None
  BY <1>2 DEF None
<1>3. CASE exec[c] \in Commands
  BY <1>3 DEF None, Commands, Steps
<1> QED
  BY <1>1, <1>2, <1>3

LEMMA CommandMade ==
    ASSUME NEW e \in Commands
    PROVE  /\ [e EXCEPT !.attended = FALSE, !.left = 0] \in Commands
           /\ [e EXCEPT !.attended = FALSE, !.left = 0].id = e.id
           /\ [e EXCEPT !.attended = FALSE, !.left = 0].step = e.step
<1>1. PICK f : f = [e EXCEPT !.attended = FALSE]
  OBVIOUS
<1>2. f \in Commands /\ f.id = e.id /\ f.step = e.step
  BY <1>1 DEF Commands
<1>3. [f EXCEPT !.left = 0] \in Commands
  BY <1>2 DEF Commands
<1>4. [f EXCEPT !.left = 0].id = e.id /\ [f EXCEPT !.left = 0].step = e.step
  BY <1>2 DEF Commands
<1>5. [e EXCEPT !.attended = FALSE, !.left = 0] = [f EXCEPT !.left = 0]
  BY <1>1, <1>2 DEF Commands
<1> QED
  BY <1>3, <1>4, <1>5

(* The stats.                                                              *)
LEMMA PairTyped ==
    ASSUME NEW first, NEW second
    PROVE  PairState(first, second) \in Pairs
BY DEF PairState, Pairs

LEMMA Linked ==
    ASSUME NEW f, NEW n \in Names, NEW m \in Names, n # m
    PROVE  Cardinality({k \in Names : f[k] = f[n]}) = IF f[m] = f[n] THEN 2 ELSE 1
<1>1. Names = {n, m}
  BY DEF Names
<1>2. CASE f[m] = f[n]
  <2>1. {k \in Names : f[k] = f[n]} = {n} \cup {m}
    BY <1>1, <1>2
  <2>2. IsFiniteSet({n}) /\ Cardinality({n}) = 1
    BY FS_Singleton
  <2>3. Cardinality({n} \cup {m}) = 2
    <3>1. m \notin {n}
      OBVIOUS
    <3>2. Cardinality({n} \cup {m}) = IF m \in {n} THEN Cardinality({n}) ELSE Cardinality({n}) + 1
      BY <2>2, FS_AddElement
    <3> QED
      BY <2>2, <3>1, <3>2
  <2> QED
    BY <1>2, <2>1, <2>3
<1>3. CASE f[m] # f[n]
  <2>1. {k \in Names : f[k] = f[n]} = {n}
    BY <1>1, <1>3
  <2>2. Cardinality({n}) = 1
    BY FS_Singleton
  <2> QED
    BY <1>3, <2>1, <2>2
<1> QED
  BY <1>2, <1>3

Other(n) == IF n = "source" THEN "destination" ELSE "source"

(* The stat of a name, for any state of the pair.                          *)
StatIn(f, e, n) ==
    IF f[n] = Absent THEN Absent
    ELSE [id |-> f[n],
          links |-> Cardinality({m \in Names : f[m] = f[n]}) + (IF f[n] \in e THEN 1 ELSE 0)]

LEMMA StatInIs ==
    ASSUME NEW f \in [Names -> Ids \cup {Absent}], NEW e, NEW n \in Names
    PROVE  /\ StatIn(f, e, n) \in Stats /\ (StatIn(f, e, n) = Absent <=> f[n] = Absent)
           /\ f[n] # Absent =>
                 StatIn(f, e, n) = [id |-> f[n],
                                    links |-> (IF f[Other(n)] = f[n] THEN 2 ELSE 1)
                                                  + (IF f[n] \in e THEN 1 ELSE 0)]
<1>1. Other(n) \in Names /\ Other(n) # n
  BY DEF Other, Names
<1>2. f[n] \in Ids \cup {Absent}
  OBVIOUS
<1>3. Cardinality({k \in Names : f[k] = f[n]}) = IF f[Other(n)] = f[n] THEN 2 ELSE 1
  BY <1>1, Linked
<1>4. CASE f[n] # Absent
  <2>1. StatIn(f, e, n) = [id |-> f[n],
                              links |-> (IF f[Other(n)] = f[n] THEN 2 ELSE 1)
                                            + (IF f[n] \in e THEN 1 ELSE 0)]
    BY <1>3, <1>4 DEF StatIn
  <2>2. StatIn(f, e, n) \in [id : Ids, links : 1 .. 3]
    BY <1>2, <1>4, <2>1
  <2>3. StatIn(f, e, n) \in [id : Nat, links : Nat]
    <3>1. f[n] \in Nat
      BY <1>2, <1>4, Bounds
    <3> QED
      BY <2>1, <3>1
  <2> QED
    BY <1>4, <2>1, <2>2, <2>3 DEF Stats
<1>5. CASE f[n] = Absent
  BY <1>5 DEF StatIn, Stats
<1> QED
  BY <1>4, <1>5

LEMMA StatIs ==
    ASSUME TypeInv, NEW n \in Names
    PROVE  Stat(n) \in Stats
<1>1. Stat(n) = StatIn(name, extra, n) /\ name \in [Names -> Ids \cup {Absent}]
  BY DEF Stat, StatIn, TypeInv, DirectoryOK
<1> QED
  BY <1>1, StatInIs

-----------------------------------------------------------------------------
(* What a step of a process changes.                                       *)

LEMMA GoIs ==
    ASSUME TypeInv, NEW c \in Clients, NEW state, Go(c, state)
    PROVE  /\ client'[c] = state /\ \A d \in Clients : d # c => client'[d] = client[d]
           /\ client' \in [Clients -> {client'[d] : d \in Clients}]
<1>1. client' = [client EXCEPT ![c] = state] /\ client \in [Clients -> {client[d] : d \in Clients}]
  BY DEF Go, TypeInv
<1>2. DOMAIN client' = Clients /\ client'[c] = state
  BY <1>1
<1>3. \A d \in Clients : d # c => client'[d] = client[d]
  BY <1>1
<1>4. client' = [d \in Clients |-> client'[d]]
  BY <1>1, <1>2
<1> QED
  BY <1>2, <1>3, <1>4

LEMMA ReleaseIs ==
    ASSUME TypeInv, NEW c \in Clients, Release(c)
    PROVE  /\ taskLock' \in [Tasks -> Clients \cup {Nobody}] /\ configLock' \in Clients \cup {Nobody}
           /\ \A t \in Tasks : taskLock[t] # c => taskLock'[t] = taskLock[t]
           /\ configLock # c => configLock' = configLock
BY DEF Release, TypeInv

ByExecutors == <<scratch, name, extra, receipt, ids, own, foreign>>

(* A process takes no lock that is held, and forgets no grant; it touches  *)
(* nothing in the directory.                                               *)
LEMMA Frame ==
    ASSUME TypeInv, NEW c \in Clients, Ask(c) \/ Run(c)
    PROVE  /\ UNCHANGED ByExecutors
           /\ \A d \in Clients : d # c => client'[d] = client[d] /\ exec'[d] = exec[d]
           /\ client' \in [Clients -> {client'[d] : d \in Clients}]
           /\ taskLock' \in [Tasks -> Clients \cup {Nobody}] /\ configLock' \in Clients \cup {Nobody}
           /\ \A t \in Tasks : taskLock[t] \notin {c, Nobody} => taskLock'[t] = taskLock[t]
           /\ configLock \notin {c, Nobody} => configLock' = configLock
<1> USE DEF files, locks, ByExecutors
<1> DEFINE Rest == /\ \A d \in Clients : d # c => client'[d] = client[d]
                   /\ client' \in [Clients -> {client'[d] : d \in Clients}]
<1> DEFINE Locks ==
      /\ taskLock' \in [Tasks -> Clients \cup {Nobody}] /\ configLock' \in Clients \cup {Nobody}
      /\ \A t \in Tasks : taskLock[t] \notin {c, Nobody} => taskLock'[t] = taskLock[t]
      /\ configLock \notin {c, Nobody} => configLock' = configLock
<1> DEFINE Execs == \A d \in Clients : d # c => exec'[d] = exec[d]
<1> HIDE DEF Rest, Locks, Execs
<1>1. \A state : Go(c, state) => Rest
  BY GoIs DEF Rest
<1>2. Release(c) => Locks
  BY ReleaseIs DEF Locks
<1>3. UNCHANGED locks => Locks
  BY DEF Locks, TypeInv
<1>4. exec' = exec => Execs
  BY DEF Execs
<1>5. ASSUME NEW t \in Tasks, NEW k \in Kinds, NEW life \in 1 .. MaxLife, BeginGrant(c, t, k, life)
      PROVE  UNCHANGED ByExecutors /\ Rest /\ Locks /\ Execs
  <2>1. Locks
    BY <1>5 DEF BeginGrant, Locks, TypeInv
  <2> QED
    BY <1>1, <1>4, <1>5, <2>1 DEF BeginGrant, StatSource
<1>6. ASSUME NEW n \in DOMAIN grants, BeginCheck(c, n)
      PROVE  UNCHANGED ByExecutors /\ Rest /\ Locks /\ Execs
  BY <1>1, <1>3, <1>4, <1>6 DEF BeginCheck, StatSource
<1>7. ASSUME NEW n \in DOMAIN grants, BeginRun(c, n)
      PROVE  UNCHANGED ByExecutors /\ Rest /\ Locks /\ Execs
  <2>1. grants[n].task \in Tasks
    BY GrantsTyped, GrantFields
  <2>2. Locks
    BY <1>7, <2>1 DEF BeginRun, Locks, TypeInv
  <2> QED
    BY <1>1, <1>4, <1>7, <2>2 DEF BeginRun, StatSource
<1>8. ASSUME Compare(c) \/ Bind(c) \/ Validate(c) \/ StatDestination(c) \/ RecordGrant(c)
      PROVE  UNCHANGED ByExecutors /\ Rest /\ Locks /\ Execs
  BY <1>1, <1>2, <1>3, <1>4, <1>8
  DEF Compare, Bind, Validate, StatSource, StatDestination, RecordGrant
<1>9. ASSUME EndClient(c)
      PROVE  UNCHANGED ByExecutors /\ Rest /\ Locks /\ Execs
  <2>1. Execs
    BY <1>9 DEF EndClient, Execs, TypeInv
  <2> QED
    BY <1>1, <1>2, <1>9, <2>1 DEF EndClient
<1>10. ASSUME NEW timeout \in 1 .. MaxTimeout, Attempt(c, timeout)
       PROVE  UNCHANGED ByExecutors /\ Rest /\ Locks /\ Execs
  BY <1>1, <1>3, <1>4, <1>10 DEF Attempt
<1>11. ASSUME Launch(c)
       PROVE  UNCHANGED ByExecutors /\ Rest /\ Locks /\ Execs
  <2>1. Execs
    BY <1>11 DEF Launch, Execs, TypeInv
  <2> QED
    BY <1>1, <1>3, <1>11, <2>1 DEF Launch
<1>12. ASSUME Returned(c) \/ Failed(c)
       PROVE  UNCHANGED ByExecutors /\ Rest /\ Locks /\ Execs
  <2>1. Execs
    BY <1>12 DEF Returned, Failed, Execs, TypeInv
  <2> QED
    BY <1>1, <1>2, <1>3, <1>12, <2>1 DEF Returned, Failed
<1>13. ASSUME Vanish(c)
       PROVE  UNCHANGED ByExecutors /\ Rest /\ Locks /\ Execs
  <2>1. Execs
    BY <1>13 DEF Vanish, Execs, TypeInv
  <2>2. Rest
    BY <1>13 DEF Vanish, Rest, TypeInv
  <2> QED
    BY <1>3, <1>13, <2>1, <2>2 DEF Vanish
<1>14. UNCHANGED ByExecutors /\ Rest /\ Locks /\ Execs
  BY <1>5, <1>6, <1>7, <1>8, <1>9, <1>10, <1>11, <1>12, <1>13 DEF Ask, Run
<1> QED
  BY <1>14 DEF Rest, Locks, Execs

(* Grants on record stay as they are; the new one was checked.             *)
LEMMA GrantsKept ==
    ASSUME TypeInv, NEW c \in Clients, Ask(c) \/ Run(c)
    PROVE  /\ \E n \in 0 .. MaxGrants : grants' \in [1 .. n -> Grants]
           /\ \A n \in DOMAIN grants : n \in DOMAIN grants' /\ grants'[n] = grants[n]
           /\ \A n \in DOMAIN grants' :
                 n \in DOMAIN grants \/ (Granting(client[c]) /\ grants'[n] = client[c].subject)
<1>1. CASE RecordGrant(c)
  <2>1. PICK n \in 0 .. MaxGrants : Cardinality(DOMAIN grants) = n /\ grants \in [1 .. n -> Grants]
    BY GrantsCounted
  <2>2. /\ n + 1 <= MaxGrants
        /\ grants' = [m \in 1 .. n + 1 |-> IF m = n + 1 THEN client[c].subject ELSE grants[m]]
    BY <1>1, <2>1 DEF RecordGrant
  <2>3. Granting(client[c]) /\ client[c].subject \in Grants
    BY <1>1, StateFields DEF RecordGrant, Granting, TypeInv
  <2>4. grants' \in [1 .. n + 1 -> Grants] /\ n + 1 \in 0 .. MaxGrants
    BY <2>1, <2>2, <2>3, Bounds
  <2>5. \A m \in 1 .. n : m \in 1 .. n + 1 /\ m # n + 1
    BY <2>1, Bounds
  <2> QED
    BY <2>1, <2>2, <2>3, <2>4, <2>5
<1>2. CASE grants' = grants
  BY <1>2 DEF TypeInv
<1>3. grants' = grants \/ RecordGrant(c)
  BY DEF Ask, Run, BeginGrant, Compare, Bind, Validate, BeginCheck, BeginRun, StatDestination,
         EndClient, Attempt, Launch, Returned, Failed, Vanish
<1> QED
  BY <1>1, <1>2, <1>3
-----------------------------------------------------------------------------
(* Grants cover the commands that run under them.                          *)

(* What a step makes of the state of its own process.                      *)
OwnInv(c) ==
    /\ StateOK(client[c]) /\ exec[c] \in {None} \cup Commands
    /\ RunOf(c) /\ CoverOf(c) /\ LateOf(c)

LEMMA IdleOwn ==
    ASSUME NEW c \in Clients, client'[c] = Idle, exec'[c] \in {None} \cup Commands,
           exec'[c] # None => exec'[c].id \in DOMAIN grants'
    PROVE  OwnInv(c)'
BY DEF OwnInv, RunOf, CoverOf, LateOf, StateOK, Idle, Runs

(* What a process looks at the scratch directory for.                      *)
LookMade(g, q) ==
    \/ q = [phase |-> "compared", op |-> "grant", subject |-> g]
    \/ q = [phase |-> "bound", op |-> "grant", subject |-> g]
    \/ \E id \in Ids : q = [phase |-> "found", op |-> "grant", subject |-> g, made |-> id]

LEMMA LookIs ==
    ASSUME NEW g \in Grants, NEW q, LookMade(g, q)
    PROVE  StateOK(q) /\ q.phase \in {"found", "compared", "bound"}
<1>1. CASE \/ q = [phase |-> "compared", op |-> "grant", subject |-> g]
           \/ q = [phase |-> "bound", op |-> "grant", subject |-> g]
  <2>1. q \in [phase : {"compared", "bound"}, op : {"grant"}, subject : Grants]
    BY <1>1
  <2> QED
    BY <1>1, <2>1, StateMade DEF LookStates
<1>2. CASE \E id \in Ids : q = [phase |-> "found", op |-> "grant", subject |-> g, made |-> id]
  <2>1. q \in [phase : {"found"}, op : {"grant"}, subject : Grants, made : Ids]
    BY <1>2
  <2>2. q.phase = "found"
    BY <1>2
  <2> QED
    BY <2>1, <2>2, StateMade DEF LookStates
<1> QED
  BY <1>1, <1>2 DEF LookMade

LEMMA LookPhase ==
    ASSUME NEW g, NEW q, LookMade(g, q)
    PROVE  q.phase \in {"found", "compared", "bound"}
<1>1. CASE \/ q = [phase |-> "compared", op |-> "grant", subject |-> g]
           \/ q = [phase |-> "bound", op |-> "grant", subject |-> g]
  BY <1>1
<1>2. CASE \E id \in Ids : q = [phase |-> "found", op |-> "grant", subject |-> g, made |-> id]
  BY <1>2
<1> QED
  BY <1>1, <1>2 DEF LookMade

LEMMA BeginGrantIs ==
    ASSUME TypeInv, NEW c \in Clients, NEW t \in Tasks, NEW k \in Kinds, NEW life \in 1 .. MaxLife,
           BeginGrant(c, t, k, life)
    PROVE  LookMade([task |-> t, kind |-> k, bound |-> Absent, revoked |-> FALSE, left |-> life],
                    client'[c])
<1> DEFINE g == [task |-> t, kind |-> k, bound |-> Absent, revoked |-> FALSE, left |-> life]
<1>1. receipt \subseteq Ids
  BY DEF TypeInv, DirectoryOK
<1>2. \/ Go(c, [phase |-> "compared", op |-> "grant", subject |-> g])
      \/ Go(c, [phase |-> "bound", op |-> "grant", subject |-> g])
      \/ \E id \in receipt :
            Go(c, [phase |-> "found", op |-> "grant", subject |-> g, made |-> id])
  BY DEF BeginGrant
<1> HIDE DEF g
<1>3. LookMade(g, client'[c])
  BY <1>1, <1>2, GoIs DEF LookMade
<1> QED
  BY <1>3 DEF g

LEMMA AskOwn ==
    ASSUME TypeInv, RunInv, NEW c \in Clients, Ask(c)
    PROVE  OwnInv(c)'
<1>1. /\ exec[c] \in {None} \cup Commands
      /\ exec[c] # None => exec[c].id \in DOMAIN grants /\ exec[c].id \in DOMAIN grants'
  BY GrantsKept DEF TypeInv, RunInv, RunOf
<1>2. Stat("source") \in Stats /\ Real \in Pairs
  BY StatIs, PairTyped DEF Names, Real
<1>3. StateOK(client[c])
  BY DEF TypeInv
<1>4. ASSUME StateOK(client'[c]), ~Runs(client'[c]), exec' = exec
      PROVE  OwnInv(c)'
  BY <1>1, <1>4 DEF OwnInv, RunOf, CoverOf, LateOf, Runs
<1>10. ASSUME NEW t \in Tasks, NEW k \in Kinds, NEW life \in 1 .. MaxLife, BeginGrant(c, t, k, life)
       PROVE  OwnInv(c)'
  <2>1. PICK g : g = [task |-> t, kind |-> k, bound |-> Absent, revoked |-> FALSE, left |-> life]
    OBVIOUS
  <2>2. g \in Grants
    BY <2>1, Bounds DEF Grants
  <2>3. LookMade(g, client'[c])
    BY <1>10, <2>1, BeginGrantIs
  <2>4. StateOK(client'[c]) /\ client'[c].phase \in {"found", "compared", "bound"}
    BY <2>2, <2>3, LookIs
  <2>5. ~Runs(client'[c])
    BY <2>4 DEF Runs
  <2>6. exec' = exec
    BY <1>10 DEF BeginGrant
  <2> QED
    BY <1>4, <2>4, <2>5, <2>6
<1>11. ASSUME Compare(c) \/ Bind(c)
       PROVE  OwnInv(c)'
  <2>1. client[c].phase \in {"found", "compared"}
    BY <1>11 DEF Compare, Bind
  <2>2. client[c].subject \in Grants
    BY <1>3, <2>1, StateFields DEF Granting
  <2>3. PICK g \in Grants, phase \in {"compared", "bound"} :
            client'[c] = [phase |-> phase, op |-> "grant", subject |-> g]
    <3>1. CASE Compare(c)
      BY <2>2, <3>1, GoIs DEF Compare
    <3>2. CASE Bind(c)
      <4>1. scratch.id \in Ids
        BY <3>2 DEF Bind, TypeInv, DirectoryOK
      <4>2. [client[c].subject EXCEPT !.bound = scratch.id] \in Grants
        BY <2>2, <4>1 DEF Grants
      <4> QED
        BY <3>2, <4>2, GoIs DEF Bind
    <3> QED
      BY <1>11, <3>1, <3>2
  <2>4. client'[c] \in LookStates
    BY <2>3 DEF LookStates
  <2>5. StateOK(client'[c]) /\ ~Runs(client'[c])
    <3>1. client'[c].phase \in {"compared", "bound"}
      BY <2>3
    <3> QED
      BY <2>4, <3>1, StateMade DEF Runs
  <2>6. exec' = exec
    BY <1>11 DEF Compare, Bind
  <2> QED
    BY <1>4, <2>5, <2>6
<1>12. ASSUME Validate(c)
       PROVE  OwnInv(c)'
  <2>1. client[c].phase = "bound"
    BY <1>12 DEF Validate
  <2>2. client[c].subject \in Grants
    BY <1>3, <2>1, StateFields DEF Granting
  <2>3. client'[c] = [phase |-> "half", op |-> "grant", subject |-> client[c].subject,
                      first |-> Stat("source"), since |-> {Real}]
    BY <1>12, GoIs DEF Validate, StatSource
  <2>4. client'[c] \in HalfStates({"grant"}, Grants)
    BY <1>2, <2>2, <2>3 DEF HalfStates
  <2>5. StateOK(client'[c]) /\ ~Runs(client'[c])
    <3>1. client'[c].phase = "half" /\ client'[c].op = "grant"
      BY <2>3
    <3> QED
      BY <2>4, <3>1, StateMade DEF Runs
  <2>6. exec' = exec
    BY <1>12 DEF Validate
  <2> QED
    BY <1>4, <2>5, <2>6
<1>5. ASSUME NEW n \in DOMAIN grants, BeginCheck(c, n)
      PROVE  OwnInv(c)'
  <2>1. client'[c] = [phase |-> "half", op |-> "check", subject |-> NoGrant,
                      first |-> Stat("source"), since |-> {Real}]
    BY <1>5, GoIs DEF BeginCheck, StatSource
  <2>2. client'[c] \in HalfStates({"check"}, {NoGrant})
    BY <1>2, <2>1 DEF HalfStates
  <2>3. StateOK(client'[c]) /\ ~Runs(client'[c]) /\ client'[c].phase = "half"
    <3>1. client'[c].phase = "half" /\ client'[c].op = "check"
      BY <2>1
    <3>2. StateOK(client'[c])
      BY <2>2, StateMade
    <3> QED
      BY <3>1, <3>2 DEF Runs
  <2>4. exec' = exec
    BY <1>5 DEF BeginCheck
  <2> QED
    BY <1>1, <2>3, <2>4 DEF OwnInv, RunOf, CoverOf, LateOf
<1>6. ASSUME NEW n \in DOMAIN grants, BeginRun(c, n)
      PROVE  OwnInv(c)'
  <2>1. client'[c] = [phase |-> "half", op |-> "run", subject |-> n,
                      first |-> Stat("source"), since |-> {Real}]
    BY <1>6, GoIs DEF BeginRun, StatSource
  <2>2. n \in Nat /\ grants[n].task \in Tasks
    BY GrantsTyped, GrantFields
  <2>3. client'[c] \in HalfStates({"run"}, Nat)
    BY <1>2, <2>1, <2>2 DEF HalfStates
  <2>4. StateOK(client'[c]) /\ client'[c].phase = "half" /\ client'[c].subject = n
    BY <2>1, <2>3, StateMade
  <2>5. exec' = exec /\ exec[c] = None /\ grants' = grants
    BY <1>6 DEF BeginRun
  <2>6. taskLock'[grants[n].task] = c /\ configLock' = c
    BY <1>6, <2>2 DEF BeginRun, TypeInv
  <2> QED
    BY <2>4, <2>5, <2>6 DEF OwnInv, RunOf, CoverOf, LateOf
<1>7. ASSUME StatDestination(c)
      PROVE  OwnInv(c)'
  <2>1. PICK b : client'[c] = [phase |-> "seen", op |-> client[c].op,
                               subject |-> client[c].subject, real |-> b] /\ b \in BOOLEAN
    <3>1. PICK seen : Go(c, [phase |-> "seen", op |-> client[c].op, subject |-> client[c].subject,
                             real |-> client[c].since # {} => seen \in client[c].since])
      BY <1>7 DEF StatDestination
    <3>2. PICK b : b = (client[c].since # {} => seen \in client[c].since)
      OBVIOUS
    <3> QED
      BY <3>1, <3>2, GoIs
  <2>2. client[c].phase = "half"
    BY <1>7 DEF StatDestination
  <2>3. client'[c].phase = "seen" /\ client'[c].op = client[c].op
        /\ client'[c].subject = client[c].subject
    BY <2>1
  <2>4. client'[c] \in SeenStates({client[c].op}, {client[c].subject})
    BY <2>1 DEF SeenStates
  <2>5. StateOK(client'[c])
    <3>1. CASE client[c].op = "grant"
      <4>1. client[c].subject \in Grants
        BY <1>3, <2>2, <3>1, StateFields DEF Granting
      <4>2. client'[c] \in SeenStates({"grant"}, Grants)
        BY <2>1, <3>1, <4>1 DEF SeenStates
      <4> QED
        BY <4>2, StateMade
    <3>2. CASE client[c].op = "check"
      <4>1. client[c].subject = NoGrant
        BY <1>3, <2>2, <3>2, StateFields DEF Checking
      <4>2. client'[c] \in SeenStates({"check"}, {NoGrant})
        BY <2>1, <3>2, <4>1 DEF SeenStates
      <4> QED
        BY <4>2, StateMade
    <3>3. CASE client[c].op = "run"
      <4>1. client[c].subject \in Nat
        BY <1>3, <2>2, <3>3, StateFields DEF Runs
      <4>2. client'[c] \in SeenStates({"run"}, Nat)
        BY <2>1, <3>3, <4>1 DEF SeenStates
      <4> QED
        BY <4>2, StateMade
    <3> QED
      BY <1>3, <2>2, <3>1, <3>2, <3>3, StateFields
  <2>6. UNCHANGED <<grants, exec, taskLock, configLock>>
    BY <1>7 DEF StatDestination, locks
  <2>7. Runs(client'[c]) => Runs(client[c])
    BY <2>2, <2>3 DEF Runs
  <2> QED
    BY <1>1, <2>2, <2>3, <2>5, <2>6, <2>7 DEF OwnInv, RunOf, CoverOf, LateOf, RunInv
<1>8. ASSUME RecordGrant(c)
      PROVE  OwnInv(c)'
  <2>1. client'[c] = Idle /\ exec' = exec
    BY <1>8, GoIs DEF RecordGrant
  <2> QED
    BY <1>1, <2>1, IdleOwn
<1>9. ASSUME EndClient(c)
      PROVE  OwnInv(c)'
  <2>1. client'[c] = Idle /\ grants' = grants
    BY <1>9, GoIs DEF EndClient
  <2>2. exec'[c] = IF exec[c] = None THEN None
                   ELSE [exec[c] EXCEPT !.attended = FALSE, !.left = 0]
    BY <1>9 DEF EndClient, TypeInv
  <2>3. exec[c] # None => /\ exec'[c] \in Commands /\ exec'[c].id = exec[c].id
    BY <1>1, <2>2, CommandMade
  <2> QED
    BY <1>1, <2>1, <2>2, <2>3, IdleOwn
<1> QED
  BY <1>5, <1>6, <1>7, <1>8, <1>9, <1>10, <1>11, <1>12 DEF Ask

LEMMA RunOwn ==
    ASSUME TypeInv, RunInv, CoverInv, LateInv, NEW c \in Clients, Run(c)
    PROVE  OwnInv(c)'
<1>1. /\ exec[c] \in {None} \cup Commands
      /\ exec[c] # None => exec[c].id \in DOMAIN grants
  BY DEF TypeInv, RunInv, RunOf
<1>2. StateOK(client[c]) /\ RunOf(c)
  BY DEF TypeInv, RunInv
<1>3. grants' = grants
  BY DEF Run, Attempt, Launch, Returned, Failed, Vanish
<1>4. ASSUME NEW timeout \in 1 .. MaxTimeout, Attempt(c, timeout)
      PROVE  OwnInv(c)'
  <2>1. Runs(client[c]) /\ client[c].phase \notin {"timed", "running"}
        /\ Valid(grants[client[c].subject])
    BY <1>4 DEF Attempt, Ready, Runs
  <2>2. client[c].subject \in DOMAIN grants /\ client[c].subject \in Nat /\ exec[c] = None
    BY <1>2, <2>1, StateFields DEF RunOf
  <2>3. PICK allowed : allowed = IF grants[client[c].subject].left < timeout
                                 THEN grants[client[c].subject].left ELSE timeout
    OBVIOUS
  <2>4. client'[c] = [phase |-> "timed", subject |-> client[c].subject, waited |-> 0, over |-> 0,
                      allowed |-> allowed]
    BY <1>4, <2>3, GoIs DEF Attempt
  <2>5. grants[client[c].subject].left \in Nat
    BY <2>2, GrantsTyped, GrantFields
  <2>6. allowed \in Nat \ {0} /\ allowed <= grants[client[c].subject].left
    BY <2>1, <2>3, <2>5, Bounds DEF Valid
  <2>7. client'[c] \in TimedStates
    BY <2>2, <2>4, <2>6, Bounds DEF TimedStates
  <2>8. StateOK(client'[c])
    BY <2>7, StateMade
  <2>9. UNCHANGED <<grants, taskLock, configLock, exec>>
    BY <1>4 DEF Attempt, locks
  <2>10. RunOf(c)'
    BY <1>2, <2>1, <2>2, <2>4, <2>9 DEF RunOf, Runs
  <2>11. CoverOf(c)'
    BY <2>1, <2>4, <2>9 DEF CoverOf, Valid
  <2>12. LateOf(c)'
    BY <2>4, <2>5, <2>6, <2>9 DEF LateOf
  <2> QED
    BY <1>1, <2>8, <2>9, <2>10, <2>11, <2>12 DEF OwnInv
<1>5. ASSUME Launch(c)
      PROVE  OwnInv(c)'
  <2>1. client[c].phase = "timed" /\ client[c] \in TimedStates /\ Runs(client[c])
    BY <1>2, <1>5, StateFields DEF Launch, Runs
  <2>2. /\ client[c].subject \in DOMAIN grants /\ client[c].subject \in Nat
        /\ client[c].allowed \in Nat /\ client[c].over \in Nat /\ client[c].waited \in 0 .. Delay
    BY <1>2, <2>1 DEF RunOf, TimedStates
  <2>3. client'[c] = [phase |-> "running", subject |-> client[c].subject, over |-> client[c].over]
    BY <1>5, GoIs DEF Launch
  <2>4. exec'[c] = [step |-> "waiting", id |-> client[c].subject, left |-> client[c].allowed,
                    attended |-> TRUE]
    BY <1>5 DEF Launch, TypeInv
  <2>5. exec'[c] \in Commands /\ exec'[c] # None
    BY <2>2, <2>4 DEF Commands, Steps, None
  <2>6. StateOK(client'[c])
    BY <2>2, <2>3, StateMade DEF RunningStates
  <2>7. UNCHANGED <<grants, taskLock, configLock>>
    BY <1>5 DEF Launch, locks
  <2>8. RunOf(c)'
    BY <1>2, <2>1, <2>2, <2>3, <2>4, <2>5, <2>7 DEF RunOf, Runs
  <2>9. CoverOf(c)'
    BY <2>1, <2>3, <2>7 DEF CoverInv, CoverOf
  <2>10. grants[client[c].subject].left \in Nat
    BY <2>2, GrantsTyped, GrantFields
  <2>11. LateOf(c)'
    <3>1. /\ client[c].over + client[c].allowed <= grants[client[c].subject].left + client[c].waited
          /\ client[c].over # 0 => grants[client[c].subject].left = 0
      BY <2>1 DEF LateInv, LateOf
    <3>2. client[c].over + client[c].allowed <= grants[client[c].subject].left + Delay
      BY <2>2, <2>10, <3>1, Bounds
    <3>3. client[c].allowed + Grace >= 0
      BY <2>2, Bounds
    <3> QED
      BY <2>3, <2>4, <2>7, <3>1, <3>2, <3>3 DEF LateOf
  <2> QED
    BY <2>5, <2>6, <2>8, <2>9, <2>11 DEF OwnInv
<1>6. ASSUME client'[c] = Idle, exec'[c] = None
      PROVE  OwnInv(c)'
  BY <1>6, IdleOwn
<1>7. ASSUME Returned(c)
      PROVE  OwnInv(c)'
  <2>1. client'[c] = Idle /\ exec'[c] = None
    BY <1>7, GoIs DEF Returned, TypeInv
  <2> QED
    BY <1>6, <2>1
<1>8. ASSUME Failed(c)
      PROVE  OwnInv(c)'
  <2>1. exec'[c] = None /\ client[c].phase = "running"
    BY <1>8 DEF Failed, TypeInv
  <2>2. CASE client'[c] = Idle
    BY <1>6, <2>1, <2>2
  <2>3. CASE client'[c] = [phase |-> "ready", subject |-> client[c].subject] /\ UNCHANGED locks
    <3>1. Runs(client[c]) /\ client[c].subject \in Nat
      BY <1>2, <2>1, StateFields DEF Runs
    <3>2. client'[c] \in ReadyStates
      BY <2>3, <3>1 DEF ReadyStates
    <3>3. StateOK(client'[c])
      BY <3>2, StateMade
    <3> QED
      BY <1>2, <1>3, <2>1, <2>3, <3>1, <3>3 DEF OwnInv, RunOf, CoverOf, LateOf, locks
  <2> QED
    BY <1>8, <2>2, <2>3, GoIs DEF Failed
<1>9. ASSUME Vanish(c)
      PROVE  OwnInv(c)'
  <2>1. exec'[c] = None /\ client' = client /\ exec[c] # None /\ ~exec[c].attended
        /\ UNCHANGED <<taskLock, configLock>>
    BY <1>9 DEF Vanish, TypeInv, locks
  <2>2. client[c].phase # "running" /\ ~Runs(client[c])
    BY <1>2, <2>1 DEF RunOf, Runs
  <2>3. client[c].phase # "timed"
    BY <2>2 DEF Runs
  <2> QED
    BY <1>2, <1>3, <2>1, <2>2, <2>3 DEF OwnInv, RunOf, CoverOf, LateOf
<1> QED
  BY <1>4, <1>5, <1>7, <1>8, <1>9 DEF Run
-----------------------------------------------------------------------------
(* The names change under processes between their two stats.               *)
LEMMA ObservedIs ==
    ASSUME TypeInv, NEW cooperative \in BOOLEAN, Observed(cooperative), NEW c \in Clients
    PROVE  /\ client[c].phase # "half" => client'[c] = client[c]
           /\ client[c].phase = "half" =>
                 /\ client'[c].phase = "half" /\ client'[c].op = client[c].op
                 /\ client'[c].subject = client[c].subject /\ client'[c].first = client[c].first
                 /\ client'[c].since = IF cooperative /\ client[c].since # {}
                                       THEN client[c].since \cup {Real'} ELSE {}
           /\ StateOK(client'[c])
           /\ client' \in [Clients -> {client'[d] : d \in Clients}]
<1>1. StateOK(client[c])
  BY DEF TypeInv
<1>2. client' \in [Clients -> {client'[d] : d \in Clients}]
  <2>1. client' = [d \in Clients |-> client'[d]]
    BY DEF Observed
  <2> QED
    BY <2>1
<1>3. CASE client[c].phase # "half"
  BY <1>1, <1>2, <1>3 DEF Observed
<1>4. CASE client[c].phase = "half"
  <2>1. PICK since : since = IF cooperative /\ client[c].since # {}
                             THEN client[c].since \cup {Real'} ELSE {}
    OBVIOUS
  <2>2. client'[c] = [client[c] EXCEPT !.since = since]
    BY <1>4, <2>1 DEF Observed
  <2>3. /\ client[c] \in HalfStates({client[c].op}, {client[c].subject})
        /\ client[c].op \in {"grant", "check", "run"}
    BY <1>1, <1>4, StateFields
  <2>4. Real' \in Pairs
    BY PairTyped DEF Real, PairState, Pairs
  <2>5. since \subseteq Pairs
    BY <2>1, <2>3, <2>4 DEF HalfStates
  <2>6. /\ client'[c].phase = "half" /\ client'[c].op = client[c].op
        /\ client'[c].subject = client[c].subject /\ client'[c].first = client[c].first
        /\ client'[c].since = since
    BY <1>4, <2>2, <2>3 DEF HalfStates
  <2>7. client'[c] \in HalfStates({client[c].op}, {client[c].subject})
    BY <2>2, <2>3, <2>5 DEF HalfStates
  <2>8. StateOK(client'[c])
    <3>1. CASE client[c].op = "grant"
      <4>1. client'[c] \in HalfStates({"grant"}, Grants)
        BY <1>1, <1>4, <2>7, <3>1, StateFields DEF Granting, HalfStates
      <4> QED
        BY <4>1, StateMade
    <3>2. CASE client[c].op = "check"
      <4>1. client'[c] \in HalfStates({"check"}, {NoGrant})
        BY <1>1, <1>4, <2>7, <3>2, StateFields DEF Checking, HalfStates
      <4> QED
        BY <4>1, StateMade
    <3>3. CASE client[c].op = "run"
      <4>1. client'[c] \in HalfStates({"run"}, Nat)
        BY <1>1, <1>4, <2>7, <3>3, StateFields DEF Runs, HalfStates
      <4> QED
        BY <4>1, StateMade
    <3> QED
      BY <2>3, <3>1, <3>2, <3>3
  <2> QED
    BY <1>2, <1>4, <2>1, <2>6, <2>8
<1> QED
  BY <1>3, <1>4

(* Nothing that a grant covers depends on what was seen.                   *)
LEMMA Unmoved ==
    ASSUME TypeInv, NEW c \in Clients, OwnInv(c), UNCHANGED <<grants, taskLock, configLock>>,
           client' = client \/ (\E b \in BOOLEAN : Observed(b)),
           exec'[c] \in {None} \cup Commands, exec'[c] = None <=> exec[c] = None,
           exec[c] # None => /\ exec'[c].id = exec[c].id /\ exec'[c].left = exec[c].left
                             /\ exec'[c].attended = exec[c].attended
    PROVE  OwnInv(c)'
<1>1. /\ client'[c].phase = client[c].phase
      /\ client[c].phase # "half" => client'[c] = client[c]
      /\ client[c].phase = "half" => /\ client'[c].op = client[c].op
                                     /\ client'[c].subject = client[c].subject
      /\ StateOK(client'[c])
  BY ObservedIs DEF TypeInv
<1>2. (Runs(client'[c]) <=> Runs(client[c])) /\ (Runs(client[c]) =>
          client'[c].subject = client[c].subject)
  BY <1>1 DEF Runs
<1>3. RunOf(c)'
  BY <1>1, <1>2 DEF OwnInv, RunOf
<1>4. CoverOf(c)'
  BY <1>1 DEF OwnInv, CoverOf
<1>5. LateOf(c)'
  <2>1. client[c].phase = "running" => exec[c] # None
    BY DEF OwnInv, RunOf
  <2> QED
    BY <1>1, <2>1 DEF OwnInv, LateOf
<1> QED
  BY <1>1, <1>3, <1>4, <1>5 DEF OwnInv

(* What a step of an executor changes of it.                               *)
LEMMA StepIs ==
    ASSUME TypeInv, NEW c \in Clients, NEW from \in Steps, NEW to \in Steps, Step(c, from, to)
    PROVE  /\ exec[c] # None /\ exec[c].step = from /\ exec'[c] \in Commands /\ exec'[c] # None
           /\ exec'[c].step = to /\ exec'[c].id = exec[c].id /\ exec'[c].left = exec[c].left
           /\ exec'[c].attended = exec[c].attended
           /\ \A d \in Clients : d # c => exec'[d] = exec[d]
           /\ exec' \in [Clients -> {None} \cup Commands]
<1>1. exec[c] \in Commands /\ exec[c] # None /\ exec[c].step = from
  BY CommandFields DEF Step, None, Steps
<1>2. exec' = [exec EXCEPT ![c] = [exec[c] EXCEPT !.step = to]]
  BY DEF Step
<1>3. [exec[c] EXCEPT !.step = to] \in Commands
  BY <1>1 DEF Commands
<1>4. exec'[c] = [exec[c] EXCEPT !.step = to] /\ \A d \in Clients : d # c => exec'[d] = exec[d]
  BY <1>2 DEF TypeInv
<1>5. /\ exec'[c].step = to /\ exec'[c].id = exec[c].id /\ exec'[c].left = exec[c].left
      /\ exec'[c].attended = exec[c].attended
  BY <1>1, <1>4 DEF Commands
<1>6. exec'[c] # None
  BY <1>5 DEF None, Steps
<1>7. exec' \in [Clients -> {None} \cup Commands]
  BY <1>2, <1>3 DEF TypeInv
<1> QED
  BY <1>1, <1>3, <1>4, <1>5, <1>6, <1>7

LEMMA ExecuteFrame ==
    ASSUME TypeInv, NEW c \in Clients, Execute(c)
    PROVE  /\ UNCHANGED <<grants, taskLock, configLock, foreign>>
           /\ client' = client \/ Observed(TRUE)
           /\ \E from, to \in Steps : Step(c, from, to)
<1>1. \A kind, to : First(c, kind, to) => Step(c, "waiting", to)
  BY DEF First
<1> USE DEF locks, Steps
<1>2. CASE Inspect(c) \/ MakeScratch(c) \/ RecoverScratch(c)
  BY <1>1, <1>2 DEF Inspect, MakeScratch, RecoverScratch
<1>3. CASE Record(c) \/ CleanScratch(c)
  BY <1>3 DEF Record, CleanScratch
<1>4. CASE Stage(c) \/ Link(c)
  BY <1>4 DEF Stage, Link
<1>5. CASE Unstage(c) \/ Withdraw(c)
  BY <1>1, <1>5 DEF Unstage, Withdraw
<1> QED
  BY <1>2, <1>3, <1>4, <1>5 DEF Execute

LEMMA OthersFrame ==
    ASSUME TypeInv, OtherDirectory \/ (\E n \in Names : OtherFile(n))
    PROVE  /\ UNCHANGED <<grants, taskLock, configLock, exec, receipt, own>>
           /\ foreign' # foreign /\ \A c \in Clients : ~Holds(c)
           /\ client' = client \/ Observed(FALSE)
           /\ OtherDirectory => client' = client /\ UNCHANGED name
           /\ (\E n \in Names : OtherFile(n)) => Observed(FALSE)
<1>1. Elsewhere
  BY DEF OtherDirectory, OtherFile
<1>2. foreign \in Nat
  BY Bounds DEF TypeInv, DirectoryOK
<1>3. foreign' # foreign
  BY <1>1, <1>2 DEF Elsewhere
<1> QED
  BY <1>1, <1>3 DEF OtherDirectory, OtherFile, Elsewhere, locks

(* A revocation waits for the lock of the task.                            *)
LEMMA RevokeOwn ==
    ASSUME TypeInv, NEW c \in Clients, OwnInv(c), NEW n \in DOMAIN grants, Revoke(n)
    PROVE  OwnInv(c)' /\ \E m \in 0 .. MaxGrants : grants' \in [1 .. m -> Grants]
<1>1. /\ grants' = [grants EXCEPT ![n] = [grants[n] EXCEPT !.revoked = TRUE]]
      /\ UNCHANGED <<taskLock, configLock, client, exec>> /\ taskLock[grants[n].task] = Nobody
  BY DEF Revoke, locks
<1>2. grants[n] \in Grants /\ [grants[n] EXCEPT !.revoked = TRUE] \in Grants
  BY GrantsTyped, GrantFields
<1>3. \E m \in 0 .. MaxGrants : grants' \in [1 .. m -> Grants]
  BY <1>1, <1>2 DEF TypeInv
<1>4. /\ DOMAIN grants' = DOMAIN grants
      /\ \A m \in DOMAIN grants : m # n => grants'[m] = grants[m]
      /\ grants'[n] = [grants[n] EXCEPT !.revoked = TRUE]
  BY <1>1 DEF TypeInv
<1>5. grants'[n].task = grants[n].task /\ grants'[n].left = grants[n].left
  BY <1>2, <1>4 DEF Grants
<1>6. Runs(client[c]) => client[c].subject # n
  BY <1>1 DEF OwnInv, RunOf
<1>7. Runs(client[c]) => /\ client[c].subject \in DOMAIN grants
                         /\ grants'[client[c].subject] = grants[client[c].subject]
  BY <1>4, <1>6 DEF OwnInv, RunOf
<1>8. RunOf(c)'
  BY <1>1, <1>4, <1>7 DEF OwnInv, RunOf
<1>9. client[c].phase \in {"timed", "running"} => Runs(client[c])
  BY DEF Runs
<1>10. CoverOf(c)' /\ LateOf(c)'
  BY <1>1, <1>7, <1>9 DEF OwnInv, CoverOf, LateOf
<1> QED
  BY <1>1, <1>3, <1>8, <1>10 DEF OwnInv
(* A tick shortens a grant and the command that runs under it alike, until *)
(* nothing of the grant is left.                                           *)
LEMMA TickGrants ==
    ASSUME TypeInv, Tick
    PROVE  /\ \E m \in 0 .. MaxGrants : grants' \in [1 .. m -> Grants]
           /\ DOMAIN grants' = DOMAIN grants
           /\ \A n \in DOMAIN grants :
                 /\ grants'[n].task = grants[n].task /\ grants'[n].kind = grants[n].kind
                 /\ grants'[n].bound = grants[n].bound /\ grants'[n].revoked = grants[n].revoked
                 /\ grants[n].left \in Nat /\ grants'[n].left = Sooner(grants[n].left)
<1>1. grants' = [n \in DOMAIN grants |-> [grants[n] EXCEPT !.left = Sooner(grants[n].left)]]
  BY DEF Tick
<1>2. ASSUME NEW n \in DOMAIN grants
      PROVE  /\ grants[n] \in Grants /\ grants[n].left \in Nat
             /\ grants'[n] = [grants[n] EXCEPT !.left = Sooner(grants[n].left)]
             /\ [grants[n] EXCEPT !.left = Sooner(grants[n].left)] \in Grants
  BY <1>1, GrantsTyped, GrantFields
<1>3. PICK m \in 0 .. MaxGrants : DOMAIN grants = 1 .. m
  BY DEF TypeInv
<1>4. grants' \in [1 .. m -> Grants]
  BY <1>1, <1>2, <1>3
<1> QED
  BY <1>1, <1>2, <1>3, <1>4 DEF Grants

LEMMA TickCommand ==
    ASSUME TypeInv, Tick, NEW c \in Clients
    PROVE  /\ exec'[c] \in {None} \cup Commands
           /\ exec'[c] = None <=> exec[c] = None
           /\ exec'[c].step = exec[c].step
           /\ exec[c] # None => /\ exec[c].left \in Int /\ exec'[c].id = exec[c].id
                                /\ exec'[c].attended = exec[c].attended
           /\ exec[c] # None /\ exec[c].attended =>
                 exec[c].left + Grace > 0 /\ exec'[c].left = exec[c].left - 1
           /\ exec' = [d \in Clients |-> exec'[d]]
<1>1. exec' = [d \in Clients |-> IF exec[d] = None \/ ~exec[d].attended THEN exec[d]
                                 ELSE [exec[d] EXCEPT !.left = exec[d].left - 1]]
  BY DEF Tick
<1>2. exec' = [d \in Clients |-> exec'[d]]
  BY <1>1
<1>3. CASE exec[c] = None \/ ~exec[c].attended
  <2>1. exec'[c] = exec[c]
    BY <1>1, <1>3
  <2> QED
    BY <1>2, <1>3, <2>1, CommandFields
<1>4. CASE exec[c] # None /\ exec[c].attended
  <2>1. exec[c] \in Commands /\ exec[c].left \in Int /\ exec[c].step \in Steps
    BY <1>4, CommandFields
  <2>2. exec'[c] = [exec[c] EXCEPT !.left = exec[c].left - 1]
    BY <1>1, <1>4
  <2>3. exec'[c] \in Commands
    BY <2>1, <2>2 DEF Commands
  <2>4. /\ exec'[c].id = exec[c].id /\ exec'[c].attended = exec[c].attended
        /\ exec'[c].left = exec[c].left - 1 /\ exec'[c].step = exec[c].step
    BY <2>1, <2>2 DEF Commands
  <2>5. exec'[c] # None
    BY <2>1, <2>4 DEF None, Steps
  <2>6. exec[c].left + Grace > 0
    BY <1>4 DEF Tick
  <2> QED
    BY <1>2, <1>4, <2>1, <2>3, <2>4, <2>5, <2>6
<1> QED
  BY <1>3, <1>4

TickState(q) ==
    CASE q.phase \in {"found", "compared", "bound", "half", "seen"} /\ q.op = "grant" ->
             [q EXCEPT !.subject.left = Sooner(@)]
      [] q.phase \in {"timed", "running"} ->
             LET late == IF grants[q.subject].left = 0 THEN 1 ELSE 0
             IN  IF q.phase = "timed"
                 THEN [q EXCEPT !.over = @ + late, !.waited = @ + 1]
                 ELSE [q EXCEPT !.over = @ + late]
      [] OTHER -> q

LEMMA TickClient ==
    ASSUME TypeInv, Tick, NEW c \in Clients
    PROVE  client'[c] = TickState(client[c]) /\ client' = [d \in Clients |-> client'[d]]
<1>1. client' = [d \in Clients |-> TickState(client[d])]
  BY DEF Tick, TickState
<1> QED
  BY <1>1

(* The two stats are untouched.                                            *)
LEMMA TickStat ==
    ASSUME TypeInv, Tick, NEW c \in Clients, client[c].phase \notin {"timed", "running"}
    PROVE  /\ StateOK(client'[c])
           /\ client'[c].phase = client[c].phase
           /\ client[c].phase = "half" => /\ client'[c].first = client[c].first
                                          /\ client'[c].since = client[c].since
           /\ client[c].phase = "seen" => client'[c].real = client[c].real
           /\ ~Granting(client[c]) => client'[c] = client[c]
           /\ Granting(client[c]) => Granting(client'[c])
<1>1. StateOK(client[c])
  BY DEF TypeInv
<1>2. CASE ~Granting(client[c])
  <2>1. client'[c] = client[c]
    BY <1>2, TickClient DEF TickState, Granting, Looking
  <2> QED
    BY <1>1, <1>2, <2>1
<1>3. CASE Granting(client[c])
  <2>1. client[c].subject \in Grants
    BY <1>1, <1>3, StateFields
  <2>2. PICK g : g = [client[c].subject EXCEPT !.left = Sooner(client[c].subject.left)]
    OBVIOUS
  <2>3. g \in Grants
    BY <2>1, <2>2, GrantFields
  <2>4. client'[c] = [client[c] EXCEPT !.subject = g]
    BY <1>3, <2>2, TickClient DEF TickState, Granting, Looking
  <2>5. CASE client[c].phase = "half"
    <3>1. client[c] \in HalfStates({"grant"}, Grants)
      BY <1>1, <1>3, <2>1, <2>5, StateFields DEF Granting, Looking, HalfStates
    <3>2. client'[c] \in HalfStates({"grant"}, Grants)
      BY <2>3, <2>4, <3>1 DEF HalfStates
    <3>3. client'[c].first = client[c].first /\ client'[c].since = client[c].since
          /\ client'[c].subject = g
      BY <2>4, <3>1 DEF HalfStates
    <3>4. client'[c].phase = "half" /\ client'[c].op = "grant"
      BY <3>2 DEF HalfStates
    <3>5. StateOK(client'[c])
      BY <3>2, StateMade
    <3>6. Granting(client'[c])
      BY <3>4 DEF Granting
    <3> QED
      BY <1>3, <2>5, <3>3, <3>4, <3>5, <3>6
  <2>6. CASE client[c].phase = "seen"
    <3>1. client[c] \in SeenStates({"grant"}, Grants)
      BY <1>1, <1>3, <2>1, <2>6, StateFields DEF Granting, Looking, SeenStates
    <3>2. client'[c] \in SeenStates({"grant"}, Grants)
      BY <2>3, <2>4, <3>1 DEF SeenStates
    <3>3. client'[c].real = client[c].real /\ client'[c].subject = g
      BY <2>4, <3>1 DEF SeenStates
    <3>4. client'[c].phase = "seen" /\ client'[c].op = "grant"
      BY <3>2 DEF SeenStates
    <3>5. StateOK(client'[c])
      BY <3>2, StateMade
    <3>6. Granting(client'[c])
      BY <3>4 DEF Granting
    <3> QED
      BY <1>3, <2>6, <3>3, <3>4, <3>5, <3>6
  <2>7. CASE Looking(client[c])
    <3>1. client[c] \in LookStates
      BY <1>1, <2>7, StateFields DEF Looking
    <3>2. client'[c] \in LookStates /\ client'[c].phase = client[c].phase
      BY <2>3, <2>4, <3>1 DEF LookStates
    <3>3. Looking(client'[c])
      BY <2>7, <3>2 DEF Looking, LookStates
    <3> QED
      BY <1>3, <2>7, <3>2, <3>3, StateMade DEF Granting, Looking
  <2> QED
    BY <1>3, <2>5, <2>6, <2>7 DEF Granting
<1> QED
  BY <1>2, <1>3

LEMMA TickTimed ==
    ASSUME TypeInv, Tick, NEW c \in Clients, client[c].phase \in {"timed", "running"}
    PROVE  /\ client'[c].phase = client[c].phase /\ client'[c].subject = client[c].subject
           /\ client[c].over \in Nat
           /\ client'[c].over = client[c].over
                                    + (IF grants[client[c].subject].left = 0 THEN 1 ELSE 0)
           /\ client[c].phase = "timed" =>
                 /\ client[c].waited \in Nat /\ client'[c].waited = client[c].waited + 1
                 /\ client[c].allowed \in Nat /\ client'[c].allowed = client[c].allowed
           /\ StateOK(client'[c])
<1>1. StateOK(client[c])
  BY DEF TypeInv
<1>2. PICK over : over = client[c].over + (IF grants[client[c].subject].left = 0 THEN 1 ELSE 0)
  OBVIOUS
<1>3. client[c].phase \notin {"found", "compared", "bound", "half", "seen"}
  OBVIOUS
<1>4. CASE client[c].phase = "timed"
  <2>1. client[c] \in TimedStates
    BY <1>1, <1>4, StateFields
  <2>2. client[c].waited < Delay
    BY <1>4 DEF Tick
  <2>3. PICK waited : waited = client[c].waited + 1
    OBVIOUS
  <2>4. client'[c] = [client[c] EXCEPT !.over = over, !.waited = waited]
    BY <1>2, <1>3, <1>4, <2>1, <2>3, TickClient DEF TickState, TimedStates
  <2>5. PICK f : f = [client[c] EXCEPT !.over = over]
    OBVIOUS
  <2>6. /\ client[c].over \in Nat /\ client[c].waited \in 0 .. Delay /\ client[c].allowed \in Nat
        /\ client[c].waited \in Nat
    BY <2>1, Bounds DEF TimedStates
  <2>7. over \in Nat /\ waited \in 0 .. Delay
    BY <1>2, <2>2, <2>3, <2>6, Bounds
  <2>8. /\ f \in TimedStates /\ f.over = over /\ f.subject = client[c].subject
        /\ f.allowed = client[c].allowed
    BY <2>1, <2>5, <2>7 DEF TimedStates
  <2>9. client'[c] = [f EXCEPT !.waited = waited]
    BY <2>1, <2>4, <2>5 DEF TimedStates
  <2>10. client'[c] \in TimedStates
    BY <2>7, <2>8, <2>9 DEF TimedStates
  <2>11. /\ client'[c].over = over /\ client'[c].subject = client[c].subject
         /\ client'[c].waited = waited /\ client'[c].allowed = client[c].allowed
    BY <2>8, <2>9 DEF TimedStates
  <2>12. client'[c].phase = "timed" /\ StateOK(client'[c])
    BY <2>10, StateMade DEF TimedStates
  <2> QED
    BY <1>2, <1>4, <2>3, <2>6, <2>11, <2>12
<1>5. CASE client[c].phase = "running"
  <2>1. client[c] \in RunningStates
    BY <1>1, <1>5, StateFields
  <2>2. client'[c] = [client[c] EXCEPT !.over = over]
    BY <1>2, <1>3, <1>5, <2>1, TickClient DEF TickState
  <2>3. client[c].over \in Nat /\ over \in Nat
    BY <1>2, <2>1 DEF RunningStates
  <2>4. client'[c] \in RunningStates /\ client'[c].over = over
        /\ client'[c].subject = client[c].subject
    BY <2>1, <2>2, <2>3 DEF RunningStates
  <2>5. client'[c].phase = "running" /\ StateOK(client'[c])
    BY <2>4, StateMade DEF RunningStates
  <2> QED
    BY <1>2, <1>5, <2>3, <2>4, <2>5
<1> QED
  BY <1>4, <1>5

LEMMA TickOwn ==
    ASSUME TypeInv, NEW c \in Clients, OwnInv(c), Tick
    PROVE  OwnInv(c)'
<1>1. /\ exec'[c] \in {None} \cup Commands /\ exec'[c] = None <=> exec[c] = None
      /\ exec[c] # None => /\ exec[c].left \in Int /\ exec'[c].id = exec[c].id
                           /\ exec'[c].attended = exec[c].attended
      /\ exec[c] # None /\ exec[c].attended =>
            exec[c].left + Grace > 0 /\ exec'[c].left = exec[c].left - 1
  BY TickCommand
<1>2. /\ DOMAIN grants' = DOMAIN grants
      /\ \A n \in DOMAIN grants :
            /\ grants'[n].task = grants[n].task /\ grants'[n].revoked = grants[n].revoked
            /\ grants[n].left \in Nat /\ grants'[n].left = Sooner(grants[n].left)
  BY TickGrants
<1>3. UNCHANGED <<taskLock, configLock>>
  BY DEF Tick, locks
<1>6. exec'[c] \in {None} \cup Commands
  BY TickCommand
<1>7. StateOK(client'[c])
  <2>1. CASE client[c].phase \notin {"timed", "running"}
    BY <2>1, TickStat
  <2>2. CASE client[c].phase \in {"timed", "running"}
    BY <2>2, TickTimed
  <2> QED
    BY <2>1, <2>2
<1>4. CASE client[c].phase \notin {"timed", "running"}
  <2>1. /\ StateOK(client'[c]) /\ client'[c].phase = client[c].phase
        /\ ~Granting(client[c]) => client'[c] = client[c]
        /\ Granting(client[c]) => Granting(client'[c])
    BY <1>4, TickStat
  <2>2. Runs(client'[c]) => client'[c] = client[c]
    BY <1>4, <2>1 DEF Runs, Granting, Looking
  <2>3. RunOf(c)'
    BY <1>1, <1>2, <1>3, <1>4, <2>1, <2>2 DEF OwnInv, RunOf
  <2>4. CoverOf(c)' /\ LateOf(c)'
    BY <1>4, <2>1 DEF CoverOf, LateOf
  <2> QED
    BY <1>6, <1>7, <2>3, <2>4 DEF OwnInv
<1>5. CASE client[c].phase \in {"timed", "running"}
  <2>1. /\ client'[c].phase = client[c].phase /\ client'[c].subject = client[c].subject
        /\ client[c].over \in Nat
        /\ client'[c].over = client[c].over
                                 + (IF grants[client[c].subject].left = 0 THEN 1 ELSE 0)
        /\ client[c].phase = "timed" =>
              /\ client[c].waited \in Nat /\ client'[c].waited = client[c].waited + 1
              /\ client[c].allowed \in Nat /\ client'[c].allowed = client[c].allowed
        /\ StateOK(client'[c])
    BY <1>5, TickTimed
  <2>2. Runs(client[c]) /\ Runs(client'[c]) /\ client[c].subject \in DOMAIN grants
    BY <1>5, <2>1 DEF Runs, OwnInv, RunOf
  <2>3. RunOf(c)'
    BY <1>1, <1>2, <1>3, <1>5, <2>1, <2>2 DEF OwnInv, RunOf
  <2>4. CoverOf(c)'
    BY <1>2, <1>5, <2>1, <2>2 DEF OwnInv, CoverOf
  <2>5. LateOf(c)'
    <3>1. PICK left \in Nat : left = grants[client[c].subject].left
      BY <1>2, <2>2
    <3>2. PICK over \in Nat : over = client[c].over
      BY <2>1
    <3>3. grants'[client'[c].subject].left = IF left > 0 THEN left - 1 ELSE 0
      BY <1>2, <2>1, <2>2, <3>1 DEF Sooner
    <3>4. client'[c].over = over + (IF left = 0 THEN 1 ELSE 0)
      BY <2>1, <3>1, <3>2
    <3>5. over # 0 => left = 0
      BY <1>5, <3>1, <3>2 DEF OwnInv, LateOf
    <3>6. CASE client[c].phase = "timed"
      <4>1. over + client[c].allowed <= left + client[c].waited
        BY <3>1, <3>2, <3>6 DEF OwnInv, LateOf
      <4>2. client'[c].over + client'[c].allowed <=
                grants'[client'[c].subject].left + client'[c].waited
        BY <2>1, <3>3, <3>4, <3>6, <4>1
      <4> QED
        BY <2>1, <3>3, <3>4, <3>5, <3>6, <4>2 DEF LateOf
    <3>7. CASE client[c].phase = "running"
      <4>1. exec[c] # None /\ exec[c].attended
        BY <3>7 DEF OwnInv, RunOf
      <4>2. exec[c].left \in Int /\ exec[c].left + Grace > 0 /\ exec'[c].left = exec[c].left - 1
        BY <1>1, <4>1
      <4>3. over + exec[c].left <= left + Delay
        BY <3>1, <3>2, <3>7 DEF OwnInv, LateOf
      <4>4. client'[c].over + exec'[c].left <= grants'[client'[c].subject].left + Delay
        BY <3>3, <3>4, <4>2, <4>3, Bounds
      <4>5. exec'[c].left + Grace >= 0
        BY <4>2, Bounds
      <4> QED
        BY <2>1, <3>3, <3>4, <3>5, <3>7, <4>4, <4>5 DEF LateOf
    <3> QED
      BY <1>5, <3>6, <3>7
  <2> QED
    BY <1>6, <1>7, <2>3, <2>4, <2>5 DEF OwnInv
<1> QED
  BY <1>4, <1>5
-----------------------------------------------------------------------------
(* Types again, and grants, through every step.                            *)

LEMMA NewIdIs ==
    ASSUME TypeInv, NewId
    PROVE  /\ ids \in Nat /\ ids' = ids + 1 /\ ids' \in Ids /\ ids' \in 0 .. MaxIds
           /\ ids' # Absent
BY Bounds DEF TypeInv, DirectoryOK, NewId, Ids

LEMMA ScratchMade ==
    ASSUME NEW i \in Ids, NEW b \in BOOLEAN
    PROVE  /\ [id |-> i, entry |-> b] \in [id : Ids, entry : BOOLEAN]
           /\ [id |-> i, entry |-> b] # Absent
<1>1. i \in Nat
  BY Bounds
<1>2. [id |-> i, entry |-> b] \in [id : Nat, entry : BOOLEAN]
  BY <1>1
<1> QED
  BY <1>2

LEMMA AskRunInv ==
    ASSUME TypeInv, RunInv, CoverInv, LateInv, NEW c \in Clients, Ask(c) \/ Run(c)
    PROVE  TypeInv' /\ \A d \in Clients : OwnInv(d)'
<1>1. OwnInv(c)'
  BY AskOwn, RunOwn
<1>2. /\ \A d \in Clients : d # c => client'[d] = client[d] /\ exec'[d] = exec[d]
      /\ client' \in [Clients -> {client'[d] : d \in Clients}]
      /\ taskLock' \in [Tasks -> Clients \cup {Nobody}] /\ configLock' \in Clients \cup {Nobody}
      /\ \A t \in Tasks : taskLock[t] \notin {c, Nobody} => taskLock'[t] = taskLock[t]
      /\ configLock \notin {c, Nobody} => configLock' = configLock
  BY Frame
<1>3. /\ \E n \in 0 .. MaxGrants : grants' \in [1 .. n -> Grants]
      /\ \A n \in DOMAIN grants : n \in DOMAIN grants' /\ grants'[n] = grants[n]
  BY GrantsKept
<1>4. ASSUME NEW d \in Clients, d # c
      PROVE  OwnInv(d)'
  <2>1. RunOf(d) /\ CoverOf(d) /\ LateOf(d) /\ StateOK(client[d]) /\ exec[d] \in {None} \cup Commands
    BY DEF RunInv, CoverInv, LateInv, TypeInv
  <2>2. client'[d] = client[d] /\ exec'[d] = exec[d] /\ d \notin {c, Nobody}
    BY <1>2, <1>4
  <2>3. Runs(client[d]) => /\ client[d].subject \in DOMAIN grants
                           /\ grants[client[d].subject].task \in Tasks
                           /\ grants'[client[d].subject] = grants[client[d].subject]
    BY <1>3, <2>1, GrantsTyped, GrantFields DEF RunOf
  <2>4. RunOf(d)'
    BY <1>2, <1>3, <2>1, <2>2, <2>3 DEF RunOf
  <2>5. client[d].phase \in {"timed", "running"} => Runs(client[d])
    BY DEF Runs
  <2>6. CoverOf(d)' /\ LateOf(d)'
    BY <2>1, <2>2, <2>3, <2>5 DEF CoverOf, LateOf
  <2> QED
    BY <2>1, <2>2, <2>4, <2>6 DEF OwnInv
<1>5. \A d \in Clients : OwnInv(d)'
  BY <1>1, <1>4
<1>6. DirectoryOK'
  BY Frame DEF ByExecutors, TypeInv, DirectoryOK
<1>7. exec' \in [Clients -> {None} \cup Commands]
  <2>1. DOMAIN exec' = Clients /\ exec' = [d \in DOMAIN exec' |-> exec'[d]]
    BY DEF TypeInv, Ask, Run, BeginGrant, Compare, Bind, Validate, BeginCheck, BeginRun,
           StatDestination, RecordGrant, EndClient, Attempt, Launch, Returned, Failed, Vanish
  <2>2. \A d \in Clients : exec'[d] \in {None} \cup Commands
    BY <1>5 DEF OwnInv
  <2> QED
    BY <2>1, <2>2
<1>8. \A d \in Clients : StateOK(client[d])'
  BY <1>5 DEF OwnInv
<1> QED
  BY <1>2, <1>3, <1>5, <1>6, <1>7, <1>8 DEF TypeInv

(* A receipt names what its executor has just made or staged.              *)
LEMMA Recorded ==
    ASSUME HoldInv, ReceiptInv, NEW c \in Clients, Record(c)
    PROVE  receipt \subseteq receipt' /\ receipt' \subseteq own
<1>1. CASE Step(c, "made", "recorded") /\ receipt' = receipt \cup {scratch.id}
  BY <1>1 DEF Step, HoldInv, ReceiptInv
<1>2. CASE Step(c, "staged", "filed") /\ receipt' = receipt \cup {name["source"]}
  BY <1>2 DEF Step, HoldInv, ReceiptInv
<1> QED
  BY <1>1, <1>2 DEF Record

LEMMA ExecuteDirectory ==
    ASSUME TypeInv, HoldInv, ReceiptInv, NEW c \in Clients, Execute(c)
    PROVE  DirectoryOK'
<1> USE DEF DirectoryOK
<1>1. DirectoryOK
  BY DEF TypeInv
<1>2. foreign' = foreign
  BY ExecuteFrame
<1>3. CASE Inspect(c)
  BY <1>1, <1>3 DEF Inspect, files
<1>4. CASE MakeScratch(c)
  <2>1. NewId /\ own' = own \cup {ids'} /\ scratch' = [id |-> ids', entry |-> FALSE]
    BY <1>4 DEF MakeScratch, NewId
  <2>2. ids' \in Ids /\ ids' \in 0 .. MaxIds
    BY <2>1, NewIdIs
  <2>3. scratch' \in [id : Ids, entry : BOOLEAN]
    BY <2>1, <2>2
  <2> QED
    BY <1>1, <1>2, <1>4, <2>1, <2>2, <2>3 DEF MakeScratch
<1>5. CASE Record(c)
  <2>1. receipt' \subseteq own /\ own \subseteq Ids
    BY <1>1, <1>5, Recorded
  <2> QED
    BY <1>1, <1>2, <1>5, <2>1 DEF Record
<1>6. CASE CleanScratch(c) \/ RecoverScratch(c)
  BY <1>1, <1>2, <1>6 DEF CleanScratch, RecoverScratch
<1>7. CASE Stage(c)
  <2>1. NewId /\ own' = own \cup {ids'} /\ name' = [name EXCEPT !["source"] = ids']
    BY <1>7 DEF Stage, NewId
  <2>2. ids' \in Ids /\ ids' \in 0 .. MaxIds
    BY <2>1, NewIdIs
  <2> QED
    BY <1>1, <1>2, <1>7, <2>1, <2>2 DEF Stage
<1>8. CASE Link(c)
  <2>1. exec[c].step = "filed"
    BY <1>8 DEF Link, Step
  <2>2. name["source"] \in Ids
    BY <1>1, <2>1 DEF HoldInv
  <2>3. name' = [name EXCEPT !["destination"] = name["source"]]
    BY <1>8 DEF Link
  <2> QED
    BY <1>1, <1>2, <1>8, <2>2, <2>3 DEF Link
<1>9. CASE Unstage(c) \/ Withdraw(c)
  <2>1. PICK n \in Names : name' = [name EXCEPT ![n] = Absent]
    BY <1>9 DEF Unstage, Withdraw, Names
  <2> QED
    BY <1>1, <1>2, <1>9, <2>1 DEF Unstage, Withdraw
<1> QED
  BY <1>3, <1>4, <1>5, <1>6, <1>7, <1>8, <1>9 DEF Execute

LEMMA OthersDirectory ==
    ASSUME TypeInv, OtherDirectory \/ (\E n \in Names : OtherFile(n))
    PROVE  DirectoryOK'
<1> USE DEF DirectoryOK
<1>1. DirectoryOK
  BY DEF TypeInv
<1>2. UNCHANGED <<receipt, own>>
  BY OthersFrame
<1>3. foreign' \in 0 .. MaxForeign
  <2>1. foreign < MaxForeign /\ foreign' = foreign + 1
    BY DEF OtherDirectory, OtherFile, Elsewhere
  <2> QED
    BY <1>1, <2>1, Bounds
<1>4. ids' \in 0 .. MaxIds /\ (ids' # ids => ids' \in Ids)
  BY <1>1, NewIdIs DEF OtherDirectory, OtherFile
<1>5. CASE OtherDirectory
  <2>1. CASE NewId /\ scratch' = [id |-> ids', entry |-> FALSE]
    <3>1. ids' \in Ids
      BY <2>1, NewIdIs
    <3> QED
      BY <1>1, <1>2, <1>3, <1>4, <1>5, <2>1, <3>1 DEF OtherDirectory
  <2>2. CASE scratch # Absent /\ scratch' = [scratch EXCEPT !.entry = TRUE]
    <3>1. scratch' \in [id : Ids, entry : BOOLEAN]
      BY <1>1, <2>2
    <3> QED
      BY <1>1, <1>2, <1>3, <1>4, <1>5, <3>1 DEF OtherDirectory
  <2> QED
    BY <1>5, <2>1, <2>2 DEF OtherDirectory
<1>6. ASSUME NEW n \in Names, OtherFile(n)
      PROVE  DirectoryOK'
  <2>1. CASE NewId /\ name' = [name EXCEPT ![n] = ids'] /\ UNCHANGED extra
    <3>1. ids' \in Ids
      BY <2>1, NewIdIs
    <3> QED
      BY <1>1, <1>2, <1>3, <1>4, <1>6, <2>1, <3>1 DEF OtherFile
  <2>2. CASE name[n] # Absent /\ extra' = extra \cup {name[n]} /\ UNCHANGED name
    <3>1. name[n] \in Ids
      BY <1>1, <2>2
    <3> QED
      BY <1>1, <1>2, <1>3, <1>4, <1>6, <2>2, <3>1 DEF OtherFile
  <2> QED
    BY <1>6, <2>1, <2>2 DEF OtherFile
<1> QED
  BY <1>5, <1>6

LEMMA ExecuteInv ==
    ASSUME TypeInv, RunInv, CoverInv, LateInv, HoldInv, ReceiptInv, NEW c \in Clients, Execute(c)
    PROVE  TypeInv' /\ \A d \in Clients : OwnInv(d)'
<1>1. /\ UNCHANGED <<grants, taskLock, configLock, foreign>>
      /\ client' = client \/ Observed(TRUE)
  BY ExecuteFrame
<1>2. PICK from \in Steps, to \in Steps : Step(c, from, to)
  BY ExecuteFrame
<1>3. /\ exec[c] # None /\ exec'[c] \in Commands /\ exec'[c] # None
      /\ exec'[c].id = exec[c].id /\ exec'[c].left = exec[c].left
      /\ exec'[c].attended = exec[c].attended
      /\ \A d \in Clients : d # c => exec'[d] = exec[d]
      /\ exec' \in [Clients -> {None} \cup Commands]
  BY <1>2, StepIs
<1>4. ASSUME NEW d \in Clients
      PROVE  OwnInv(d)'
  <2>1. OwnInv(d)
    BY DEF OwnInv, RunInv, CoverInv, LateInv, TypeInv
  <2>2. exec'[d] \in {None} \cup Commands /\ (exec'[d] = None <=> exec[d] = None)
    BY <1>3
  <2>3. exec[d] # None => /\ exec'[d].id = exec[d].id /\ exec'[d].left = exec[d].left
                          /\ exec'[d].attended = exec[d].attended
    BY <1>3
  <2> QED
    BY <1>1, <2>1, <2>2, <2>3, Unmoved
<1>5. client' \in [Clients -> {client'[d] : d \in Clients}] /\ \A d \in Clients : StateOK(client'[d])
  <2>1. CASE client' = client
    BY <2>1 DEF TypeInv
  <2>2. CASE Observed(TRUE)
    <3>1. client' = [d \in Clients |-> client'[d]]
      BY <2>2 DEF Observed
    <3> QED
      BY <2>2, <3>1, ObservedIs
  <2> QED
    BY <1>1, <2>1, <2>2
<1>6. DirectoryOK'
  BY ExecuteDirectory
<1>7. TypeInv'
  BY <1>1, <1>3, <1>5, <1>6 DEF TypeInv
<1> QED
  BY <1>4, <1>7

LEMMA OthersInv ==
    ASSUME TypeInv, RunInv, CoverInv, LateInv, OtherDirectory \/ (\E n \in Names : OtherFile(n))
    PROVE  TypeInv' /\ \A d \in Clients : OwnInv(d)'
<1>1. /\ UNCHANGED <<grants, taskLock, configLock, exec>>
      /\ client' = client \/ Observed(FALSE)
  BY OthersFrame
<1>2. ASSUME NEW d \in Clients
      PROVE  OwnInv(d)'
  <2>1. OwnInv(d)
    BY DEF OwnInv, RunInv, CoverInv, LateInv, TypeInv
  <2>2. exec'[d] \in {None} \cup Commands /\ (exec'[d] = None <=> exec[d] = None)
    BY <1>1 DEF TypeInv
  <2> QED
    BY <1>1, <2>1, <2>2, Unmoved
<1>3. client' \in [Clients -> {client'[d] : d \in Clients}] /\ \A d \in Clients : StateOK(client'[d])
  <2>1. CASE client' = client
    BY <2>1 DEF TypeInv
  <2>2. CASE Observed(FALSE)
    <3>1. client' = [d \in Clients |-> client'[d]]
      BY <2>2 DEF Observed
    <3> QED
      BY <2>2, <3>1, ObservedIs
  <2> QED
    BY <1>1, <2>1, <2>2
<1>4. DirectoryOK'
  BY OthersDirectory
<1>5. TypeInv'
  BY <1>1, <1>3, <1>4 DEF TypeInv
<1> QED
  BY <1>2, <1>5

LEMMA TickInv ==
    ASSUME TypeInv, RunInv, CoverInv, LateInv, Tick
    PROVE  TypeInv' /\ \A d \in Clients : OwnInv(d)'
<1>1. ASSUME NEW d \in Clients
      PROVE  OwnInv(d)'
  <2>1. OwnInv(d)
    BY DEF OwnInv, RunInv, CoverInv, LateInv, TypeInv
  <2> QED
    BY <2>1, TickOwn
<1>2. \E m \in 0 .. MaxGrants : grants' \in [1 .. m -> Grants]
  BY TickGrants
<1>3. client' \in [Clients -> {client'[d] : d \in Clients}]
  <2>1. client' = [d \in Clients |-> client'[d]]
    BY DEF Tick
  <2> QED
    BY <2>1
<1>4. exec' \in [Clients -> {None} \cup Commands]
  <2>1. exec' = [d \in Clients |-> exec'[d]]
    BY DEF Tick
  <2> QED
    BY <1>1, <2>1 DEF OwnInv
<1>5. UNCHANGED <<taskLock, configLock>> /\ DirectoryOK'
  BY DEF Tick, locks, files, TypeInv, DirectoryOK
<1>6. \A d \in Clients : StateOK(client[d])'
  BY <1>1 DEF OwnInv
<1>7. TypeInv'
  BY <1>2, <1>3, <1>4, <1>5, <1>6 DEF TypeInv
<1> QED
  BY <1>1, <1>7

LEMMA RevokeInv ==
    ASSUME TypeInv, RunInv, CoverInv, LateInv, NEW n \in DOMAIN grants, Revoke(n)
    PROVE  TypeInv' /\ \A d \in Clients : OwnInv(d)'
<1>1. ASSUME NEW d \in Clients
      PROVE  OwnInv(d)' /\ \E m \in 0 .. MaxGrants : grants' \in [1 .. m -> Grants]
  <2>1. OwnInv(d)
    BY DEF OwnInv, RunInv, CoverInv, LateInv, TypeInv
  <2> QED
    BY <2>1, RevokeOwn
<1>2. \E m \in 0 .. MaxGrants : grants' \in [1 .. m -> Grants]
  <2>1. PICK m \in 0 .. MaxGrants : grants \in [1 .. m -> Grants]
    BY DEF TypeInv
  <2>2. grants' = [grants EXCEPT ![n] = [grants[n] EXCEPT !.revoked = TRUE]]
    BY DEF Revoke
  <2>3. [grants[n] EXCEPT !.revoked = TRUE] \in Grants
    BY GrantsTyped, GrantFields
  <2> QED
    BY <2>1, <2>2, <2>3
<1>3. TypeInv'
  BY <1>2 DEF Revoke, locks, files, TypeInv, DirectoryOK
<1> QED
  BY <1>1, <1>3
-----------------------------------------------------------------------------
(* The common lock, and what its holder made.                              *)

LEMMA CommandMoves ==
    ASSUME TypeInv, NEW c \in Clients, Ask(c) \/ Run(c), NEW d \in Clients
    PROVE  exec'[d].step = exec[d].step \/ exec'[d].step \in {"none", "waiting"}
<1>1. CASE d # c
  BY <1>1, Frame
<1>2. CASE d = c
  <2>1. CASE exec' = exec
    BY <2>1
  <2>2. CASE EndClient(c)
    <3>1. exec'[c] = IF exec[c] = None THEN None
                     ELSE [exec[c] EXCEPT !.attended = FALSE, !.left = 0]
      BY <2>2 DEF EndClient, TypeInv
    <3>2. exec[c] # None => exec[c] \in Commands
      BY CommandFields
    <3> QED
      BY <1>2, <3>1, <3>2, CommandMade
  <2>3. CASE Launch(c) \/ Returned(c) \/ Failed(c) \/ Vanish(c)
    BY <1>2, <2>3 DEF Launch, Returned, Failed, Vanish, TypeInv, None
  <2> QED
    BY <2>1, <2>2, <2>3
    DEF Ask, Run, BeginGrant, Compare, Bind, Validate, BeginCheck, BeginRun, StatDestination,
        RecordGrant, Attempt
<1> QED
  BY <1>1, <1>2

LEMMA HoldMoves ==
    ASSUME TypeInv, HoldInv, NEW c \in Clients, Ask(c) \/ Run(c)
    PROVE  HoldInv'
<1>1. \A d \in Clients : exec'[d].step = exec[d].step \/ exec'[d].step \in {"none", "waiting"}
  BY CommandMoves
<1>2. UNCHANGED <<scratch, name, own>>
  BY Frame DEF ByExecutors
<1>3. \A d \in Clients : Holds(d)' => Holds(d)
  BY <1>1 DEF Holds
<1> QED
  BY <1>1, <1>2, <1>3 DEF HoldInv

(* Whoever takes a step holds the lock, alone.                             *)
LEMMA Alone ==
    ASSUME TypeInv, HoldInv, NEW c \in Clients, Execute(c)
    PROVE  /\ \A d \in Clients : d # c => ~Holds(d) /\ exec'[d] = exec[d]
           /\ exec[c].step = "waiting" => \A d \in Clients : ~Holds(d)
<1>1. PICK from \in Steps, to \in Steps : Step(c, from, to)
  BY ExecuteFrame
<1>2. exec[c].step = from /\ \A d \in Clients : d # c => exec'[d] = exec[d]
  BY <1>1, StepIs
<1>3. CASE from = "waiting"
  <2>1. \A d \in Clients : ~Holds(d)
    BY <1>2, <1>3 DEF Execute, Inspect, MakeScratch, Record, CleanScratch, RecoverScratch, Stage,
                      Link, Unstage, Withdraw, First, Step
  <2> QED
    BY <1>2, <2>1
<1>4. CASE from # "waiting"
  <2>1. Holds(c)
    BY <1>2, <1>4 DEF Holds, Steps
  <2> QED
    BY <1>2, <1>4, <2>1 DEF HoldInv
<1> QED
  BY <1>3, <1>4

LEMMA HoldExecute ==
    ASSUME TypeInv, HoldInv, NEW c \in Clients, Execute(c)
    PROVE  HoldInv'
<1>1. \A d \in Clients : d # c => ~Holds(d) /\ exec'[d] = exec[d]
  BY Alone
<1>2. \A d \in Clients : d # c => ~Holds(d)'
  BY <1>1 DEF Holds
<1>3. \A d \in Clients : d # c => exec'[d].step \notin {"made", "recorded", "staged", "filed"}
  BY <1>1 DEF Holds
<1>4. /\ exec'[c].step \in {"made", "recorded"} => scratch' # Absent /\ scratch'.id \in own'
      /\ exec'[c].step \in {"staged", "filed"} => name'["source"] \in own'
  <2>1. ASSUME NEW from \in Steps, NEW to \in Steps, Step(c, from, to)
        PROVE  exec[c].step = from /\ exec'[c].step = to
    BY <2>1, StepIs
  <2> USE DEF Steps
  <2>2. CASE Inspect(c)
    BY <2>1, <2>2 DEF Inspect, First
  <2>3. CASE MakeScratch(c)
    <3>1. NewId /\ own' = own \cup {ids'} /\ scratch' = [id |-> ids', entry |-> FALSE]
      BY <2>3 DEF MakeScratch, NewId
    <3>2. scratch' # Absent /\ scratch'.id = ids'
      BY <3>1, NewIdIs, ScratchMade
    <3>3. exec'[c].step = "made"
      BY <2>1, <2>3 DEF MakeScratch, First
    <3> QED
      BY <3>1, <3>2, <3>3
  <2>4. CASE Record(c)
    <3>1. \/ exec[c].step = "made" /\ exec'[c].step = "recorded"
          \/ exec[c].step = "staged" /\ exec'[c].step = "filed"
      BY <2>1, <2>4 DEF Record
    <3> QED
      BY <2>4, <3>1 DEF Record, HoldInv
  <2>5. CASE CleanScratch(c)
    BY <2>1, <2>5 DEF CleanScratch
  <2>6. CASE RecoverScratch(c)
    BY <2>1, <2>6 DEF RecoverScratch, First
  <2>7. CASE Stage(c)
    <3>1. own' = own \cup {ids'} /\ name'["source"] = ids' /\ exec'[c].step = "staged"
      BY <2>1, <2>7 DEF Stage, TypeInv, DirectoryOK, Names
    <3> QED
      BY <3>1
  <2>8. CASE Link(c)
    BY <2>1, <2>8 DEF Link
  <2>9. CASE Unstage(c) \/ Withdraw(c)
    BY <2>1, <2>9 DEF Unstage, Withdraw, First
  <2> QED
    BY <2>2, <2>3, <2>4, <2>5, <2>6, <2>7, <2>8, <2>9 DEF Execute
<1> QED
  BY <1>2, <1>3, <1>4 DEF HoldInv

LEMMA HoldOthers ==
    ASSUME TypeInv, HoldInv, OtherDirectory \/ (\E n \in Names : OtherFile(n))
    PROVE  HoldInv'
<1>1. UNCHANGED exec /\ \A c \in Clients : ~Holds(c)
  BY OthersFrame
<1>2. \A c \in Clients : exec'[c].step \notin {"made", "recorded", "staged", "filed"} /\ ~Holds(c)'
  BY <1>1 DEF Holds
<1> QED
  BY <1>2 DEF HoldInv

LEMMA HoldRest ==
    ASSUME TypeInv, HoldInv, Tick \/ (\E n \in DOMAIN grants : Revoke(n))
    PROVE  HoldInv'
<1>1. UNCHANGED <<scratch, name, own>>
  BY DEF Tick, Revoke, files
<1>2. \A c \in Clients : exec'[c].step = exec[c].step
  BY TickCommand DEF Revoke
<1>3. \A c \in Clients : Holds(c)' <=> Holds(c)
  BY <1>2 DEF Holds
<1> QED
  BY <1>1, <1>2, <1>3 DEF HoldInv
-----------------------------------------------------------------------------
(* What may be removed.                                                    *)

LEMMA ReceiptStep ==
    ASSUME TypeInv, HoldInv, ReceiptInv, Next
    PROVE  ReceiptInv'
<1>1. ASSUME NEW c \in Clients, Execute(c)
      PROVE  ReceiptInv'
  <2>1. CASE Record(c)
    BY <2>1, Recorded DEF Record, ReceiptInv
  <2>2. CASE ~Record(c)
    BY <1>1, <2>2
    DEF Execute, Inspect, MakeScratch, CleanScratch, RecoverScratch, Stage, Link, Unstage, Withdraw,
        files, ReceiptInv
  <2> QED
    BY <2>1, <2>2
<1>2. CASE OtherDirectory \/ (\E n \in Names : OtherFile(n))
  BY <1>2, OthersFrame DEF ReceiptInv
<1>3. ASSUME NEW c \in Clients, Ask(c) \/ Run(c)
      PROVE  ReceiptInv'
  BY <1>3, Frame DEF ByExecutors, ReceiptInv
<1>4. CASE Tick \/ (\E n \in DOMAIN grants : Revoke(n))
  BY <1>4 DEF Tick, Revoke, files, ReceiptInv
<1> QED
  BY <1>1, <1>2, <1>3, <1>4 DEF Next
-----------------------------------------------------------------------------
(* Identities, and what the two stats of a process amount to.              *)

LEMMA IdsStep ==
    ASSUME TypeInv, IdsInv, Next
    PROVE  IdsInv'
<1>1. ids \in Nat /\ \A n \in Names : name[n] # Absent => name[n] \in Nat
  BY Bounds DEF TypeInv, DirectoryOK
<1>2. CASE UNCHANGED <<name, ids>>
  BY <1>2 DEF IdsInv
<1>3. CASE UNCHANGED name /\ NewId
  BY <1>1, <1>3 DEF IdsInv, NewId
<1>4. ASSUME NEW n \in Names, NewId, name' = [name EXCEPT ![n] = ids']
      PROVE  IdsInv'
  <2>1. name'[n] = ids' /\ ids' = ids + 1 /\ \A m \in Names : m # n => name'[m] = name[m]
    BY <1>4 DEF NewId, TypeInv, DirectoryOK
  <2> QED
    BY <1>1, <2>1 DEF IdsInv
<1>5. ASSUME NEW c \in Clients, Link(c) \/ Unstage(c) \/ Withdraw(c)
      PROVE  IdsInv'
  <2>1. ids' = ids /\ \A n \in Names : name'[n] \in {name["source"], name["destination"], Absent}
    BY <1>5 DEF Link, Unstage, Withdraw, TypeInv, DirectoryOK, Names
  <2> QED
    BY <2>1 DEF IdsInv, Names
<1>6. ASSUME NEW c \in Clients, Execute(c)
      PROVE  IdsInv'
  <2>1. CASE Stage(c)
    BY <1>4, <2>1 DEF Stage, NewId, Names
  <2>2. CASE MakeScratch(c)
    BY <1>3, <2>2 DEF MakeScratch, NewId
  <2> QED
    BY <1>2, <1>5, <1>6, <2>1, <2>2
    DEF Execute, Inspect, Record, CleanScratch, RecoverScratch, files
<1>7. CASE OtherDirectory \/ (\E n \in Names : OtherFile(n))
  BY <1>2, <1>3, <1>4, <1>7 DEF OtherDirectory, OtherFile
<1>8. ASSUME NEW c \in Clients, Ask(c) \/ Run(c)
      PROVE  IdsInv'
  BY <1>2, <1>8, Frame DEF ByExecutors
<1>9. CASE Tick \/ (\E n \in DOMAIN grants : Revoke(n))
  BY <1>2, <1>9 DEF Tick, Revoke, files
<1> QED
  BY <1>6, <1>7, <1>8, <1>9 DEF Next

(* What the stats of the two names tell.                                   *)
LEMMA StatsAre ==
    ASSUME TypeInv
    PROVE  /\ name \in [Names -> Ids \cup {Absent}] /\ "source" \in Names /\ "destination" \in Names
           /\ Stat("source") = Absent <=> name["source"] = Absent
           /\ Stat("destination") = Absent <=> name["destination"] = Absent
           /\ name["source"] # Absent =>
                 Stat("source") = [id |-> name["source"],
                                   links |-> (IF name["destination"] = name["source"] THEN 2 ELSE 1)
                                              + (IF name["source"] \in extra THEN 1 ELSE 0)]
           /\ name["destination"] # Absent =>
                 Stat("destination") =
                     [id |-> name["destination"],
                      links |-> (IF name["source"] = name["destination"] THEN 2 ELSE 1)
                                    + (IF name["destination"] \in extra THEN 1 ELSE 0)]
<1>1. /\ name \in [Names -> Ids \cup {Absent}] /\ "source" \in Names /\ "destination" \in Names
      /\ Other("source") = "destination" /\ Other("destination") = "source"
  BY DEF TypeInv, DirectoryOK, Names, Other
<1>2. \A n \in Names : Stat(n) = StatIn(name, extra, n)
  BY DEF Stat, StatIn
<1> QED
  BY <1>1, <1>2, StatInIs

LEMMA Topology ==
    ASSUME TypeInv
    PROVE  /\ Real = "paired" => /\ name["source"] # Absent
                                 /\ name["destination"] = name["source"]
           /\ Real = "destination-only" => name["source"] = Absent /\ name["destination"] # Absent
<1>1. CASE Real = "paired"
  <2>1. Stat("source") # Absent /\ Stat("destination") # Absent /\ Stat("source") = Stat("destination")
    BY <1>1 DEF Real, PairState
  <2>2. name["source"] # Absent /\ name["destination"] # Absent
    BY <2>1, StatsAre
  <2>3. Stat("source").id = name["source"] /\ Stat("destination").id = name["destination"]
    BY <2>2, StatsAre
  <2> QED
    BY <1>1, <2>1, <2>2, <2>3
<1>2. CASE Real = "destination-only"
  BY <1>2, StatsAre DEF Real, PairState
<1> QED
  BY <1>1, <1>2

(* The first stat.                                                         *)
LEMMA LoneAtFirst ==
    ASSUME TypeInv
    PROVE  Lone(Stat("source"), {Real})
<1>1. CASE name["destination"] = Absent
  <2>1. Stat("destination") = Absent
    BY <1>1, StatsAre
  <2> QED
    BY <2>1 DEF Lone, Real, PairState
<1>2. CASE name["destination"] # Absent /\ name["destination"] # name["source"]
  <2>1. Apart
    BY <1>2 DEF Apart
  <2> QED
    BY <2>1, StatsAre DEF Lone
<1>3. CASE name["destination"] # Absent /\ name["destination"] = name["source"]
  <2>1. PICK links : links = 2 + (IF name["source"] \in extra THEN 1 ELSE 0)
    OBVIOUS
  <2>2. Stat("source") = [id |-> name["source"], links |-> links] /\ Stat("source") # Absent
    BY <1>3, <2>1, StatsAre
  <2>3. Stat("source").links = links /\ links # 1
    BY <2>1, <2>2
  <2> QED
    BY <2>2, <2>3 DEF Lone
<1> QED
  BY <1>1, <1>2, <1>3

LEMMA SeenMoves ==
    ASSUME TypeInv, SeenInv, NEW c \in Clients, Ask(c) \/ Run(c)
    PROVE  SeenInv'
<1>1. UNCHANGED <<name, extra>> /\ \A d \in Clients : d # c => client'[d] = client[d]
  BY Frame DEF ByExecutors
<1>2. Stat("destination")' = Stat("destination")
  BY <1>1 DEF Stat
<1>3. \A d \in Clients : SeenOf(d)
  BY DEF SeenInv
<1>9. \A first, since : Lone(first, since)' <=> Lone(first, since)
  BY <1>1 DEF Lone, Apart
<1>4. ASSUME NEW op, NEW subject, StatSource(c, op, subject)
      PROVE  SeenOf(c)'
  <2>1. client'[c] = [phase |-> "half", op |-> op, subject |-> subject,
                      first |-> Stat("source"), since |-> {Real}]
    BY <1>4, GoIs DEF StatSource
  <2>2. client'[c].phase = "half" /\ client'[c].first = Stat("source") /\ client'[c].since = {Real}
    BY <2>1
  <2>3. Lone(client[c].first, client[c].since)'
    BY <1>1, <2>2, LoneAtFirst DEF Lone, Apart
  <2> QED
    BY <1>2, <2>2, <2>3 DEF SeenOf, Real
<1>5. ASSUME StatDestination(c)
      PROVE  SeenOf(c)'
  <2>1. client[c].phase = "half"
    BY <1>5 DEF StatDestination
  <2>2. PICK seen : /\ seen = PairState(client[c].first, Stat("destination")) /\ seen # "refused"
                    /\ Go(c, [phase |-> "seen", op |-> client[c].op, subject |-> client[c].subject,
                              real |-> client[c].since # {} => seen \in client[c].since])
    BY <1>5 DEF StatDestination
  <2>3. PICK b : b = (client[c].since # {} => seen \in client[c].since)
    OBVIOUS
  <2>4. client'[c] = [phase |-> "seen", op |-> client[c].op, subject |-> client[c].subject,
                      real |-> b]
    BY <2>2, <2>3, GoIs
  <2>5. client'[c].phase = "seen" /\ client'[c].real = b
    BY <2>4
  <2>6. b = TRUE
    BY <1>3, <2>1, <2>2, <2>3 DEF SeenOf
  <2> QED
    BY <2>5, <2>6 DEF SeenOf
<1>6. ASSUME client'[c].phase \notin {"half", "seen"}
      PROVE  SeenOf(c)'
  BY <1>6 DEF SeenOf
<1>7. SeenOf(c)'
  <2>1. CASE \/ \E t \in Tasks, k \in Kinds, life \in 1 .. MaxLife : BeginGrant(c, t, k, life)
             \/ \E n \in DOMAIN grants : BeginCheck(c, n) \/ BeginRun(c, n)
    <3>1. CASE \E t \in Tasks, k \in Kinds, life \in 1 .. MaxLife : BeginGrant(c, t, k, life)
      <4>1. client'[c].phase \in {"found", "compared", "bound"}
        BY <3>1, BeginGrantIs, LookPhase
      <4> QED
        BY <1>6, <4>1
    <3> QED
      BY <1>4, <2>1, <3>1 DEF BeginCheck, BeginRun
  <2>6. CASE Compare(c) \/ Bind(c)
    <3>1. client'[c].phase \in {"compared", "bound"}
      BY <2>6, GoIs DEF Compare, Bind
    <3> QED
      BY <1>6, <3>1
  <2>7. CASE Validate(c)
    BY <1>4, <2>7 DEF Validate
  <2>2. CASE RecordGrant(c) \/ EndClient(c) \/ Returned(c) \/ Failed(c)
    <3>1. client'[c].phase \in {"idle", "ready"}
      BY <2>2, GoIs DEF RecordGrant, EndClient, Returned, Failed, Idle
    <3> QED
      BY <1>6, <3>1
  <2>3. CASE \E timeout \in 1 .. MaxTimeout : Attempt(c, timeout)
    <3>1. client'[c].phase = "timed"
      BY <2>3, GoIs DEF Attempt
    <3> QED
      BY <1>6, <3>1
  <2>5. CASE Launch(c)
    <3>1. client'[c].phase = "running"
      BY <2>5, GoIs DEF Launch
    <3> QED
      BY <1>6, <3>1
  <2>4. CASE Vanish(c)
    BY <1>2, <1>3, <1>9, <2>4 DEF Vanish, SeenOf
  <2> QED
    BY <1>5, <2>1, <2>2, <2>3, <2>4, <2>5, <2>6, <2>7 DEF Ask, Run
<1>8. ASSUME NEW d \in Clients, d # c
      PROVE  SeenOf(d)'
  BY <1>1, <1>2, <1>3, <1>8, <1>9 DEF SeenOf
<1> QED
  BY <1>7, <1>8 DEF SeenInv

(* Staging leaves the published name's stat, and the link and the removal  *)
(* of the stage let no topology be accepted but the one they make.         *)
LEMMA SeenThrough ==
    ASSUME TypeInv, TypeInv', IdsInv, HoldInv, NEW c \in Clients,
           Stage(c) \/ Link(c) \/ Unstage(c), NEW first
    PROVE  PairState(first, Stat("destination")')
               \in {PairState(first, Stat("destination")), Real', "refused"}
<1> DEFINE s == name["source"]
           d == name["destination"]
<1>1. /\ \A n \in Names : name[n] \in Ids \cup {Absent}
      /\ ids \in Nat /\ \A n \in Names : name[n] # Absent => name[n] \in Nat /\ name[n] <= ids
      /\ name \in [Names -> Ids \cup {Absent}]
      /\ "source" \in Names /\ "destination" \in Names
      /\ Other("source") = "destination" /\ Other("destination") = "source"
  BY Bounds DEF TypeInv, DirectoryOK, IdsInv, Names, Other
<1>2. \A n \in Names :
          /\ Stat(n) = Absent <=> name[n] = Absent
          /\ name[n] # Absent =>
                Stat(n) = [id |-> name[n],
                           links |-> (IF name[Other(n)] = name[n] THEN 2 ELSE 1)
                                         + (IF name[n] \in extra THEN 1 ELSE 0)]
  <2>1. \A n \in Names : Stat(n) = StatIn(name, extra, n)
    BY DEF Stat, StatIn
  <2> QED
    BY <1>1, <2>1, StatInIs
<1>3. \A n \in Names :
          /\ Stat(n)' = Absent <=> name'[n] = Absent
          /\ name'[n] # Absent =>
                Stat(n)' = [id |-> name'[n],
                            links |-> (IF name'[Other(n)] = name'[n] THEN 2 ELSE 1)
                                          + (IF name'[n] \in extra' THEN 1 ELSE 0)]
  <2>1. \A n \in Names : Stat(n)' = StatIn(name', extra', n)
    BY DEF Stat, StatIn
  <2>2. name' \in [Names -> Ids \cup {Absent}]
    BY DEF TypeInv, DirectoryOK
  <2> QED
    BY <2>1, <2>2, StatInIs
<1>4. CASE Stage(c)
  <2>1. /\ name'["source"] = ids + 1 /\ name'["destination"] = d /\ extra' = extra /\ s = Absent
    BY <1>1, <1>4 DEF Stage
  <2>2. d # Absent => d # ids + 1 /\ d # Absent
    BY <1>1
  <2>3. Stat("destination")' = Stat("destination")
    <3>1. CASE d = Absent
      BY <1>1, <1>2, <1>3, <2>1, <3>1
    <3>2. CASE d # Absent
      <4>1. Stat("destination") = [id |-> d, links |-> 1 + (IF d \in extra THEN 1 ELSE 0)]
        BY <1>1, <1>2, <2>1, <3>2
      <4>2. Stat("destination")' = [id |-> d, links |-> 1 + (IF d \in extra THEN 1 ELSE 0)]
        BY <1>1, <1>3, <2>1, <2>2, <3>2
      <4> QED
        BY <4>1, <4>2
    <3> QED
      BY <3>1, <3>2
  <2> QED
    BY <2>3
<1>5. CASE Link(c)
  <2>1. /\ name'["destination"] = s /\ name'["source"] = s /\ extra' = extra
    BY <1>1, <1>5 DEF Link
  <2>2. s # Absent
    BY <1>5, Bounds DEF Link, Step, HoldInv, TypeInv, DirectoryOK
  <2>3. PICK links : links = 2 + (IF s \in extra THEN 1 ELSE 0)
    OBVIOUS
  <2>4. /\ Stat("destination")' = [id |-> s, links |-> links] /\ Stat("destination")' # Absent
        /\ Stat("source")' = [id |-> s, links |-> links] /\ Stat("source")' # Absent
    BY <1>1, <1>3, <2>1, <2>2, <2>3
  <2>5. Stat("destination")'.links = links /\ links # 1
    BY <2>3, <2>4
  <2>6. Real' = PairState(Stat("source")', Stat("destination")')
    BY DEF Real
  <2>7. CASE first = Stat("destination")'
    BY <2>4, <2>6, <2>7
  <2>8. CASE first # Stat("destination")' /\ first # Absent
    BY <2>4, <2>8 DEF PairState
  <2>9. CASE first = Absent
    BY <2>4, <2>5, <2>9 DEF PairState
  <2> QED
    BY <2>7, <2>8, <2>9
<1>6. CASE Unstage(c)
  <2>1. /\ name'["source"] = Absent /\ name'["destination"] = d /\ extra' = extra
        /\ Real = "paired"
    BY <1>1, <1>6 DEF Unstage
  <2>2. /\ Stat("source") # Absent /\ Stat("destination") # Absent
        /\ Stat("source") = Stat("destination") /\ Stat("source").links = 2
    BY <2>1 DEF Real, PairState
  <2>3. s # Absent /\ d # Absent
    BY <1>1, <1>2, <2>2
  <2>4. d \notin extra
    <3>1. PICK i : i = s
      OBVIOUS
    <3>2. s = d
      <4>1. Stat("source").id = s /\ Stat("destination").id = d
        BY <1>1, <1>2, <2>3
      <4> QED
        BY <2>2, <4>1
    <3>3. Stat("destination") = [id |-> d, links |-> 2 + (IF d \in extra THEN 1 ELSE 0)]
      BY <1>1, <1>2, <2>3, <3>2
    <3>4. Stat("destination").links = 2 + (IF d \in extra THEN 1 ELSE 0)
      BY <3>3
    <3> QED
      BY <2>2, <3>4
  <2>5. Stat("destination")' = [id |-> d, links |-> 1] /\ Stat("destination")' # Absent
    BY <1>1, <1>3, <2>1, <2>3, <2>4
  <2>6. Stat("destination")'.links = 1 /\ Stat("source")' = Absent
    BY <1>1, <1>3, <2>1, <2>5
  <2>7. CASE first = Absent
    BY <2>6, <2>7 DEF Real, PairState
  <2>8. CASE first # Absent
    BY <2>5, <2>6, <2>8 DEF PairState
  <2> QED
    BY <2>7, <2>8
<1> QED
  BY <1>4, <1>5, <1>6

(* So does the withdrawal: nothing but a lone name was seen where the      *)
(* other one is gone.                                                      *)
LEMMA SeenWithdrawn ==
    ASSUME TypeInv, TypeInv', NEW c \in Clients, Withdraw(c), NEW first, NEW since, Lone(first, since)
    PROVE  PairState(first, Stat("destination")') \in since \cup {Real', "refused"}
<1>1. name'["destination"] = Absent /\ name'["source"] = name["source"]
  BY StatsAre DEF Withdraw
<1>2. Stat("destination")' = Absent
  BY <1>1 DEF Stat
<1>3. CASE Real = "paired"
  <2>1. ~Apart
    BY <1>3, Topology DEF Apart
  <2> QED
    BY <1>2, <2>1 DEF Lone, PairState
<1>4. CASE Real = "destination-only"
  <2>1. name["source"] = Absent
    BY <1>4, Topology
  <2>2. Stat("source")' = Absent
    BY <1>1, <2>1 DEF Stat
  <2>3. Real' = "absent"
    BY <1>2, <2>2 DEF Real, PairState
  <2> QED
    BY <1>2, <2>1, <2>3 DEF Lone, PairState
<1> QED
  BY <1>3, <1>4 DEF Withdraw

(* The same for any names.                                                 *)
ApartIn(f) == f["destination"] \notin {Absent, f["source"]}

LoneIn(first, since, f) ==
    /\ first = Absent => "absent" \in since \/ ApartIn(f)
    /\ first # Absent /\ first.links = 1 =>
          "source-only" \in since \/ (f["source"] # Absent /\ ApartIn(f))

LEMMA LoneThrough ==
    ASSUME TypeInv, IdsInv, NEW c \in Clients,
           Stage(c) \/ Link(c) \/ Unstage(c) \/ Withdraw(c),
           NEW first, NEW since, Lone(first, since)
    PROVE  LoneIn(first, since \cup {Real'}, name')
<1> DEFINE s == name["source"]
           d == name["destination"]
<1>1. CASE Stage(c)
  <2>1. s = Absent /\ name'["source"] = ids + 1 /\ name'["destination"] = d
    BY <1>1, StatsAre DEF Stage
  <2>2. d # Absent => d # ids + 1
    <3>1. ids \in Nat /\ (d # Absent => d \in Nat /\ d <= ids)
      BY Bounds DEF TypeInv, DirectoryOK, IdsInv, Names
    <3> QED
      BY <3>1
  <2>3. Apart => ApartIn(name')
    BY <2>1, <2>2 DEF Apart, ApartIn
  <2> QED
    BY <2>1, <2>3 DEF Lone, LoneIn
<1>2. CASE Link(c)
  BY <1>2 DEF Link, Lone, Apart, LoneIn
<1>3. CASE Unstage(c)
  <2>1. ~Apart
    BY <1>3, Topology DEF Unstage, Apart
  <2> QED
    BY <2>1 DEF Lone, LoneIn
<1>4. CASE Withdraw(c) /\ Real = "paired"
  <2>1. ~Apart
    BY <1>4, Topology DEF Apart
  <2> QED
    BY <2>1 DEF Lone, LoneIn
<1>5. CASE Withdraw(c) /\ Real = "destination-only"
  <2>1. s = Absent /\ name'["source"] = s /\ name'["destination"] = Absent
    BY <1>5, Topology, StatsAre DEF Withdraw
  <2>2. Real' = "absent"
    BY <2>1 DEF Real, PairState, Stat
  <2> QED
    BY <2>1, <2>2 DEF Lone, LoneIn
<1> QED
  BY <1>1, <1>2, <1>3, <1>4, <1>5 DEF Withdraw

LEMMA SeenExecute ==
    ASSUME TypeInv, TypeInv', IdsInv, HoldInv, SeenInv, NEW c \in Clients, Execute(c)
    PROVE  SeenInv'
<1>1. \A d \in Clients : SeenOf(d)
  BY DEF SeenInv
<1>2. CASE Stage(c) \/ Link(c) \/ Unstage(c) \/ Withdraw(c)
  <2>1. Observed(TRUE)
    BY <1>2 DEF Stage, Link, Unstage, Withdraw
  <2>2. ASSUME NEW d \in Clients
        PROVE  SeenOf(d)'
    <3>1. CASE client[d].phase # "half"
      BY <1>1, <2>1, <3>1, ObservedIs DEF SeenOf
    <3>2. CASE client[d].phase = "half"
      <4>1. /\ client'[d].phase = "half" /\ client'[d].first = client[d].first
            /\ client'[d].since = IF client[d].since # {} THEN client[d].since \cup {Real'} ELSE {}
        BY <2>1, <3>2, ObservedIs
      <4>2. CASE client[d].since = {}
        BY <4>1, <4>2 DEF SeenOf
      <4>3. CASE client[d].since # {}
        <5>1. /\ PairState(client[d].first, Stat("destination")) \in client[d].since \cup {"refused"}
              /\ Lone(client[d].first, client[d].since)
          BY <1>1, <3>2, <4>3 DEF SeenOf
        <5>2. PairState(client[d].first, Stat("destination")')
                  \in client[d].since \cup {Real', "refused"}
          <6>1. CASE Withdraw(c)
            BY <5>1, <6>1, SeenWithdrawn
          <6>2. CASE Stage(c) \/ Link(c) \/ Unstage(c)
            BY <5>1, <6>2, SeenThrough
          <6> QED
            BY <1>2, <6>1, <6>2
        <5>3. Lone(client[d].first, client[d].since)'
          <6>1. \A first, since :
                    Lone(first, since) => LoneIn(first, since \cup {Real'}, name')
            BY <1>2, LoneThrough
          <6> QED
            BY <4>1, <4>3, <5>1, <6>1 DEF LoneIn, ApartIn, Lone, Apart
        <5> QED
          BY <4>1, <4>3, <5>2, <5>3 DEF SeenOf
      <4> QED
        BY <4>2, <4>3
    <3> QED
      BY <3>1, <3>2
  <2> QED
    BY <2>2 DEF SeenInv
<1>3. CASE ~(Stage(c) \/ Link(c) \/ Unstage(c) \/ Withdraw(c))
  <2>1. UNCHANGED <<client, name, extra>>
    BY <1>3 DEF Execute, Inspect, MakeScratch, Record, CleanScratch, RecoverScratch, files
  <2>2. Stat("destination")' = Stat("destination")
    BY <2>1 DEF Stat
  <2> QED
    BY <1>1, <2>1, <2>2 DEF SeenInv, SeenOf, Lone, Apart
<1> QED
  BY <1>2, <1>3

(* After somebody else's step nothing is claimed of what was seen.         *)
LEMMA SeenRest ==
    ASSUME TypeInv, SeenInv,
           \/ OtherDirectory \/ (\E n \in Names : OtherFile(n))
           \/ Tick \/ (\E n \in DOMAIN grants : Revoke(n))
    PROVE  SeenInv'
<1>1. \A d \in Clients : SeenOf(d)
  BY DEF SeenInv
<1>2. CASE \E n \in Names : OtherFile(n)
  <2>1. Observed(FALSE)
    BY <1>2, OthersFrame
  <2>2. ASSUME NEW d \in Clients
        PROVE  SeenOf(d)'
    <3>1. CASE client[d].phase # "half"
      BY <1>1, <2>1, <3>1, ObservedIs DEF SeenOf
    <3>2. CASE client[d].phase = "half"
      <4>1. client'[d].phase = "half" /\ client'[d].since = {}
        BY <2>1, <3>2, ObservedIs
      <4> QED
        BY <4>1 DEF SeenOf
    <3> QED
      BY <3>1, <3>2
  <2> QED
    BY <2>2 DEF SeenInv
<1>3. CASE OtherDirectory \/ Tick \/ (\E n \in DOMAIN grants : Revoke(n))
  <2>1. UNCHANGED <<name, extra>>
    BY <1>3 DEF OtherDirectory, Tick, Revoke, files
  <2>2. Stat("destination")' = Stat("destination")
    BY <2>1 DEF Stat
  <2>4. \A first, since : Lone(first, since)' <=> Lone(first, since)
    BY <2>1 DEF Lone, Apart
  <2>3. ASSUME NEW d \in Clients
        PROVE  SeenOf(d)'
    <3>1. CASE client' = client
      BY <1>1, <2>2, <2>4, <3>1 DEF SeenOf
    <3>2. CASE Tick /\ client[d].phase \in {"timed", "running"}
      <4>1. client'[d].phase = client[d].phase
        BY <3>2, TickTimed
      <4> QED
        BY <3>2, <4>1 DEF SeenOf
    <3>3. CASE Tick /\ client[d].phase \notin {"timed", "running"}
      <4>1. /\ client'[d].phase = client[d].phase
            /\ client[d].phase = "half" => /\ client'[d].first = client[d].first
                                           /\ client'[d].since = client[d].since
            /\ client[d].phase = "seen" => client'[d].real = client[d].real
        BY <3>3, TickStat
      <4> QED
        BY <1>1, <2>2, <2>4, <4>1 DEF SeenOf
    <3>4. client' = client \/ Tick
      BY <1>3 DEF OtherDirectory, Revoke
    <3> QED
      BY <3>1, <3>2, <3>3, <3>4
  <2> QED
    BY <2>3 DEF SeenInv
<1> QED
  BY <1>2, <1>3
-----------------------------------------------------------------------------
(* The theorems.                                                           *)

LEMMA InitIInv == Init => IInv
<1> SUFFICES ASSUME Init
             PROVE  IInv
  OBVIOUS
<1>1. \A c \in Clients : client[c] = Idle /\ exec[c] = None
  BY DEF Init
<1>2. DirectoryOK
  BY Bounds DEF Init, DirectoryOK, Names
<1>3. \E n \in 0 .. MaxGrants : grants \in [1 .. n -> Grants]
  <2>1. grants \in [1 .. 0 -> Grants] /\ 0 \in 0 .. MaxGrants
    BY Bounds DEF Init
  <2> QED
    BY <2>1
<1>4. client \in [Clients -> {client[c] : c \in Clients}]
  BY <1>1 DEF Init
<1>5. TypeInv
  BY <1>1, <1>2, <1>3, <1>4 DEF Init, TypeInv, StateOK
<1>6. \A c \in Clients : ~Runs(client[c]) /\ client[c].phase = "idle"
  BY <1>1 DEF Idle, Runs
<1>7. \A c \in Clients : exec[c].step = "none" /\ ~Holds(c)
  BY <1>1 DEF None, Holds
<1>8. RunInv
  BY <1>1, <1>6 DEF RunInv, RunOf
<1>9. CoverInv /\ LateInv
  BY <1>6 DEF CoverInv, CoverOf, LateInv, LateOf
<1>10. HoldInv
  BY <1>7 DEF HoldInv
<1>11. ReceiptInv
  BY DEF ReceiptInv, Init
<1>12. IdsInv
  BY DEF IdsInv, Init
<1>13. SeenInv
  BY <1>6 DEF SeenInv, SeenOf
<1> QED
  BY <1>5, <1>8, <1>9, <1>10, <1>11, <1>12, <1>13 DEF IInv

LEMMA NextIInv == IInv /\ [Next]_vars => IInv'
<1> SUFFICES ASSUME IInv, [Next]_vars
             PROVE  IInv'
  OBVIOUS
<1>1. CASE UNCHANGED vars
  <2> USE <1>1 DEF vars, locks, files
  <2>1. TypeInv' /\ RunInv' /\ CoverInv' /\ LateInv'
    BY DEF IInv, TypeInv, DirectoryOK, RunInv, RunOf, CoverInv, CoverOf, LateInv, LateOf
  <2>2. HoldInv' /\ ReceiptInv' /\ IdsInv'
    BY DEF IInv, HoldInv, Holds, ReceiptInv, IdsInv
  <2>3. SeenInv'
    BY DEF IInv, SeenInv, SeenOf, Lone, Apart, Stat
  <2> QED
    BY <2>1, <2>2, <2>3 DEF IInv
<1>2. CASE Next
  <2> USE DEF IInv
  <2>1. IdsInv' /\ ReceiptInv'
    BY <1>2, IdsStep, ReceiptStep
  <2>2. (\A d \in Clients : OwnInv(d)') => RunInv' /\ CoverInv' /\ LateInv'
    BY DEF OwnInv, RunInv, CoverInv, LateInv
  <2>3. ASSUME NEW c \in Clients, Ask(c) \/ Run(c)
        PROVE  IInv'
    BY <2>1, <2>2, <2>3, AskRunInv, HoldMoves, SeenMoves
  <2>4. ASSUME NEW c \in Clients, Execute(c)
        PROVE  IInv'
    <3>1. TypeInv' /\ RunInv' /\ CoverInv' /\ LateInv'
      BY <2>2, <2>4, ExecuteInv
    <3>2. HoldInv' /\ SeenInv'
      BY <2>4, <3>1, HoldExecute, SeenExecute
    <3> QED
      BY <2>1, <3>1, <3>2
  <2>5. CASE OtherDirectory \/ (\E n \in Names : OtherFile(n))
    BY <2>1, <2>2, <2>5, OthersInv, HoldOthers, SeenRest
  <2>6. CASE Tick
    BY <2>1, <2>2, <2>6, TickInv, HoldRest, SeenRest
  <2>7. CASE \E n \in DOMAIN grants : Revoke(n)
    BY <2>1, <2>2, <2>7, RevokeInv, HoldRest, SeenRest
  <2> QED
    BY <1>2, <2>3, <2>4, <2>5, <2>6, <2>7 DEF Next
<1> QED
  BY <1>1, <1>2

LEMMA Invariance == Spec => []IInv
BY InitIInv, NextIInv, PTL DEF Spec

(* Grants, locks, processes, commands and the directory keep their types;  *)
(* a process never speaks of a grant that is not on record.                *)
THEOREM TypeCorrect == Spec => []TypeOK
<1>1. ASSUME IInv PROVE TypeOK
  <2> USE <1>1
  <2>1. TypeInv /\ \A c \in Clients : RunOf(c)
    BY DEF IInv, RunInv
  <2>2. ASSUME NEW c \in Clients PROVE ClientOK(client[c])
    <3> DEFINE q == client[c]
    <3>1. StateOK(q) /\ (Runs(q) => q.subject \in DOMAIN grants)
      BY <2>1 DEF TypeInv, RunOf
    <3>2. CASE q = Idle
      BY <3>2 DEF ClientOK
    <3>7. CASE q \in LookStates
      BY <3>7 DEF ClientOK, LookStates
    <3>3. CASE q \in HalfStates({"grant"}, Grants) \cup SeenStates({"grant"}, Grants)
      BY <3>3 DEF ClientOK, HalfStates, SeenStates
    <3>4. CASE q \in HalfStates({"check"}, {NoGrant}) \cup SeenStates({"check"}, {NoGrant})
      BY <3>4 DEF ClientOK, HalfStates, SeenStates
    <3>5. CASE Runs(q) /\ q \in HalfStates({"run"}, Nat) \cup SeenStates({"run"}, Nat)
      BY <3>1, <3>5 DEF ClientOK, HalfStates, SeenStates
    <3>6. CASE Runs(q) /\ q \in ReadyStates \cup TimedStates \cup RunningStates
      BY <3>1, <3>6, Bounds DEF ClientOK, ReadyStates, TimedStates, RunningStates
    <3> QED
      BY <3>1, <3>2, <3>3, <3>4, <3>5, <3>6, <3>7 DEF StateOK
  <2>3. ASSUME NEW c \in Clients
        PROVE  exec[c] \in {None} \union [step : Steps, id : 1..MaxGrants, left : Int,
                                          attended : BOOLEAN]
    <3>1. CASE exec[c] # None
      <4>1. exec[c] \in Commands /\ exec[c].id \in 1..MaxGrants
        BY <2>1, <3>1, GrantsTyped DEF TypeInv, RunOf
      <4> QED
        BY <4>1 DEF Commands
    <3> QED
      BY <3>1
  <2>4. exec \in [Clients -> {None} \union [step : Steps, id : 1..MaxGrants, left : Int,
                                          attended : BOOLEAN]]
    <3>1. exec \in [Clients -> {None} \union Commands]
      BY <2>1 DEF TypeInv
    <3> QED
      BY <2>3, <3>1
  <2> QED
    BY <2>1, <2>2, <2>4 DEF TypeInv, DirectoryOK, TypeOK
<1> QED
  BY <1>1, Invariance, PTL

(* While the process that launched a command watches it, the grant of the  *)
(* command is not revoked.                                                 *)
THEOREM Covered == Spec => []CoveredWhileRunning
<1>1. IInv => CoveredWhileRunning
  BY DEF IInv, CoverInv, CoverOf, CoveredWhileRunning
<1> QED
  BY <1>1, Invariance, PTL

(* Such a command outlives its grant by no more than its start was late    *)
(* and the grace that a SIGTERM gives it.                                  *)
THEOREM EndsInTime == Spec => []EndsWithGrant
<1>1. IInv => EndsWithGrant
  <2> SUFFICES ASSUME IInv, NEW c \in Clients, client[c].phase = "running"
               PROVE  client[c].over <= Delay + Grace
    BY DEF EndsWithGrant
  <2>1. client[c] \in RunningStates /\ client[c].over \in Nat
    <3>1. StateOK(client[c])
      BY DEF IInv, TypeInv
    <3>2. client[c] \in RunningStates
      BY <3>1, StateFields
    <3> QED
      BY <3>2 DEF RunningStates
  <2>2. exec[c] # None /\ exec[c].left \in Int
    BY CommandFields DEF IInv, RunInv, RunOf
  <2>3. /\ client[c].over # 0 => client[c].over + exec[c].left <= 0 + Delay
        /\ exec[c].left + Grace >= 0
    BY DEF IInv, LateInv, LateOf
  <2> QED
    BY <2>1, <2>2, <2>3, Bounds
<1> QED
  BY <1>1, Invariance, PTL

(* A topology of the two names that is accepted was there at some moment   *)
(* of the read, however executors stage, link and finish meanwhile.        *)
THEOREM SeenWasThere == Spec => []SeenIsReal
<1>1. IInv => SeenIsReal
  BY DEF IInv, SeenInv, SeenOf, SeenIsReal
<1> QED
  BY <1>1, Invariance, PTL

(* No executor, under whichever grant, removes or replaces a directory or  *)
(* a file that none of them created: what it removes it finds in a         *)
(* creation receipt, whatever directory its grant was bound to.            *)
THEOREM ForeignIsKept == Spec => ForeignKept
<1>1. ASSUME IInv, [Next]_vars
      PROVE  [foreign' = foreign =>
                /\ scratch # Absent /\ scratch.id \notin own => scratch' = scratch
                /\ \A n \in Names : name[n] \notin own \union {Absent} => name'[n] = name[n]]_vars
  <2> SUFFICES ASSUME Next, foreign' = foreign
               PROVE  /\ scratch # Absent /\ scratch.id \notin own => scratch' = scratch
                      /\ \A n \in Names : name[n] \notin own \union {Absent} => name'[n] = name[n]
    BY <1>1
  <2> USE DEF IInv
  <2>1. CASE UNCHANGED <<scratch, name>>
    BY <2>1
  <2>2. ASSUME NEW c \in Clients, MakeScratch(c) \/ CleanScratch(c)
        PROVE  (scratch # Absent => scratch.id \in own) /\ name' = name
    BY <1>1, <2>2 DEF MakeScratch, CleanScratch, Step, HoldInv
  <2>3. ASSUME NEW c \in Clients, RecoverScratch(c)
        PROVE  scratch.id \in own /\ name' = name
    BY <1>1, <2>3 DEF RecoverScratch, ReceiptInv
  <2>4. ASSUME NEW c \in Clients, Stage(c) \/ Link(c)
        PROVE  /\ scratch' = scratch
               /\ \A n \in Names : name[n] \notin own \union {Absent} => name'[n] = name[n]
    BY <1>1, <2>4 DEF Stage, Link, TypeInv, DirectoryOK, Names
  <2>9. ASSUME NEW c \in Clients, Unstage(c) \/ Withdraw(c)
        PROVE  /\ scratch' = scratch
               /\ \A n \in Names : name[n] \notin own \union {Absent} => name'[n] = name[n]
    BY <1>1, <2>9 DEF Unstage, Withdraw, ReceiptInv, TypeInv, DirectoryOK, Names
  <2>5. ASSUME NEW c \in Clients, Execute(c)
        PROVE  \/ UNCHANGED <<scratch, name>> \/ MakeScratch(c) \/ CleanScratch(c)
               \/ RecoverScratch(c) \/ Stage(c) \/ Link(c) \/ Unstage(c) \/ Withdraw(c)
    BY <2>5 DEF Execute, Inspect, Record, files
  <2>6. ASSUME NEW c \in Clients, Ask(c) \/ Run(c)
        PROVE  UNCHANGED <<scratch, name>>
    BY <1>1, <2>6, Frame DEF ByExecutors
  <2>7. ~OtherDirectory /\ ~(\E n \in Names : OtherFile(n))
    BY <1>1, OthersFrame
  <2>8. CASE Tick \/ (\E n \in DOMAIN grants : Revoke(n))
    BY <2>8 DEF Tick, Revoke, files
  <2> QED
    BY <2>1, <2>2, <2>3, <2>4, <2>5, <2>6, <2>7, <2>8, <2>9 DEF Next
<1> QED
  BY <1>1, Invariance, PTL DEF Spec, ForeignKept
=============================================================================

------------------------ MODULE Continuation_proofs ------------------------
(***************************************************************************)
(* Theorems about Continuation, for any number of tasks, processes and     *)
(* budgets, with retention running at any time.                            *)
(*                                                                         *)
(* The argument: what may be continued is settled for good, so a lineage   *)
(* consists of frozen tasks whether or not their locks are held; and only  *)
(* the holder of the configuration lock is between its check and its save, *)
(* so what it found about the other lineages still holds when it saves.    *)
(*                                                                         *)
(* What a successor inherits is a sum over its sources.  The lineages of   *)
(* the sources are apart, and none is charged any more, so it is the sum   *)
(* over everything they answer for (Accounts).  What the check found about *)
(* a source, that no retained lineage holds it, still holds at the save    *)
(* (Fresh).  A prune deletes what it planned on earlier reads: what counts *)
(* is that enough were saved as late as what it is about to delete, and    *)
(* that this only gets more (Kept).                                        *)
(***************************************************************************)
EXTENDS Continuation, FiniteSetTheorems, WellFoundedInduction, TLAPS

-----------------------------------------------------------------------------
(* The sum of f over the finite set S, as the community modules define it: *)
(* any element first.  What it does is proved by a least counterexample:   *)
(* among the subsets where a fact fails there is one from which no element *)
(* can be taken without the fact holding again.                            *)
Any(S) == CHOOSE x \in S : TRUE

IsSum(g, f, D) ==
    g = [S \in D |-> IF S = {} THEN 0 ELSE f[Any(S)] + g[S \ {Any(S)}]]

Same(f, e, S) == \A x \in S : f[x] = e[x]

(* The recursive definition of the sums over the subsets of T has a solution. *)
LEMMA SumFunctionExists ==
    ASSUME NEW T, IsFiniteSet(T), NEW f
    PROVE  \E g : IsSum(g, f, SUBSET T)
<1> DEFINE Upto(n) == {S \in SUBSET T : Cardinality(S) <= n}
           Bad == {n \in Nat : ~(\E g : IsSum(g, f, Upto(n)))}
<1>0. \A S \in SUBSET T : IsFiniteSet(S) /\ Cardinality(S) \in Nat
                          /\ Cardinality(S) <= Cardinality(T)
  BY FS_Subset, FS_CardinalityType
<1>1. Bad = {}
  <2> SUFFICES ASSUME Bad # {} PROVE FALSE
    OBVIOUS
  <2>0. Bad \subseteq Nat
    OBVIOUS
  <2>1. \A m : m \in Bad <=> m \in Nat /\ ~(\E g : IsSum(g, f, Upto(m)))
    OBVIOUS
  <2> HIDE DEF Bad
  <2>2. PICK n \in Bad : \A m \in Bad : <<m, n>> \notin OpToRel(<, Nat)
    BY <2>0, NatLessThanWellFounded, WFMin
  <2>5. n \in Nat /\ \A m \in Nat : m < n => \E g : IsSum(g, f, Upto(m))
    BY <2>0, <2>1, <2>2 DEF OpToRel
  <2>3. CASE n = 0
    <3> DEFINE g == [S \in Upto(n) |-> 0]
    <3>1. \A S \in Upto(n) : S = {}
      BY <1>0, <2>3, FS_EmptySet
    <3>2. IsSum(g, f, Upto(n))
      BY <3>1 DEF IsSum
    <3> QED
      BY <2>1, <2>2, <3>2
  <2>4. CASE n # 0
    <3>1. n - 1 \in Nat /\ n - 1 < n
      BY <2>5, <2>4
    <3>2. PICK h : IsSum(h, f, Upto(n - 1))
      BY <2>5, <3>1
    <3> DEFINE g == [S \in Upto(n) |->
                        IF S = {} THEN 0 ELSE f[Any(S)] + h[S \ {Any(S)}]]
    <3>3. \A S \in Upto(n - 1) : S \in Upto(n) /\ g[S] = h[S]
      <4> SUFFICES ASSUME NEW S \in Upto(n - 1)
                   PROVE  S \in Upto(n) /\ g[S] = h[S]
        OBVIOUS
      <4>1. S \in Upto(n)
        BY <1>0, <2>5, <3>1
      <4> HIDE DEF Upto
      <4>2. h[S] = IF S = {} THEN 0 ELSE f[Any(S)] + h[S \ {Any(S)}]
        BY <3>2 DEF IsSum
      <4> QED
        BY <4>1, <4>2
    <3>4. \A S \in Upto(n) : S # {} => S \ {Any(S)} \in Upto(n - 1)
      <4> SUFFICES ASSUME NEW S \in Upto(n), S # {}
                   PROVE  S \ {Any(S)} \in Upto(n - 1)
        OBVIOUS
      <4>1. Any(S) \in S
        BY DEF Any
      <4>2. Cardinality(S \ {Any(S)}) = Cardinality(S) - 1
        BY <1>0, <4>1, FS_RemoveElement
      <4> QED
        BY <1>0, <2>5, <4>2
    <3>5. g = [S \in Upto(n) |-> IF S = {} THEN 0 ELSE f[Any(S)] + g[S \ {Any(S)}]]
      <4> HIDE DEF Upto
      <4>1. \A S \in Upto(n) : S # {} => g[S \ {Any(S)}] = h[S \ {Any(S)}]
        BY <3>3, <3>4
      <4> QED
        BY <4>1
    <3>6. \E k : IsSum(k, f, Upto(n))
      BY <3>5 DEF IsSum
    <3> QED
      BY <2>1, <2>2, <3>6
  <2> QED
    BY <2>3, <2>4
<1>2. Cardinality(T) \in Nat /\ Upto(Cardinality(T)) = SUBSET T
  BY <1>0, FS_CardinalityType
<1> QED
  BY <1>1, <1>2

(* The sum of f over S. *)
Sum(f, S) == (CHOOSE g : IsSum(g, f, SUBSET S))[S]

(* A least counterexample. *)
LEMMA LeastSubset ==
    ASSUME NEW T, IsFiniteSet(T), NEW B, B \subseteq SUBSET T, B # {}
    PROVE  \E S \in B : \A x \in S : S \ {x} \notin B
<1>1. B \subseteq FiniteSubsetsOf(T)
  BY FS_FiniteSubsetsOfFinite
<1>2. PICK S \in B : \A R \in B : <<R, S>> \notin StrictSubsetOrdering(T)
  BY <1>1, FS_StrictSubsetOrderingWellFounded, WFMin
<1> QED
  BY <1>2 DEF StrictSubsetOrdering

(* Solutions over nested sets agree where both are defined. *)
LEMMA SumsAgree ==
    ASSUME NEW T, IsFiniteSet(T), NEW U, T \subseteq U, NEW f, NEW e, NEW g, NEW h,
           IsSum(g, f, SUBSET T), IsSum(h, e, SUBSET U), Same(f, e, T)
    PROVE  g[T] = h[T]
<1> DEFINE B == {S \in SUBSET T : g[S] # h[S]}
<1>1. SUFFICES ASSUME B # {} PROVE FALSE
  OBVIOUS
<1>2. PICK S \in B : \A x \in S : S \ {x} \notin B
  <2>1. B \subseteq SUBSET T
    OBVIOUS
  <2> HIDE DEF B
  <2> QED
    BY <1>1, <2>1, LeastSubset
<1>3. /\ g[S] = IF S = {} THEN 0 ELSE f[Any(S)] + g[S \ {Any(S)}]
      /\ h[S] = IF S = {} THEN 0 ELSE e[Any(S)] + h[S \ {Any(S)}]
  BY <1>2 DEF IsSum
<1>4. S # {} => Any(S) \in S
  BY DEF Any
<1> QED
  BY <1>2, <1>3, <1>4 DEF Same

(* A sum is a value of a solution. *)
LEMMA SumIsSum ==
    ASSUME NEW S, IsFiniteSet(S), NEW f
    PROVE  \E g : IsSum(g, f, SUBSET S) /\ Sum(f, S) = g[S]
<1>1. \E g : IsSum(g, f, SUBSET S)
  BY SumFunctionExists
<1>2. IsSum(CHOOSE g : IsSum(g, f, SUBSET S), f, SUBSET S)
  BY <1>1
<1> QED
  BY <1>2 DEF Sum

(* Only the values on the set count. *)
LEMMA SumSame ==
    ASSUME NEW S, IsFiniteSet(S), NEW f, NEW e, \A x \in S : f[x] = e[x]
    PROVE  Sum(f, S) = Sum(e, S)
<1>1. PICK g : IsSum(g, f, SUBSET S) /\ Sum(f, S) = g[S]
  BY SumIsSum
<1>2. PICK h : IsSum(h, e, SUBSET S) /\ Sum(e, S) = h[S]
  BY SumIsSum
<1> QED
  BY <1>1, <1>2, SumsAgree DEF Same

(* Nothing sums to zero. *)
LEMMA SumEmpty == ASSUME NEW f PROVE Sum(f, {}) = 0
<1>1. PICK g : IsSum(g, f, SUBSET {}) /\ Sum(f, {}) = g[{}]
  BY SumIsSum, FS_EmptySet
<1> QED
  BY <1>1 DEF IsSum

(* The sum takes away any element of its own choice. *)
LEMMA SumStep ==
    ASSUME NEW S, IsFiniteSet(S), S # {}, NEW f
    PROVE  Any(S) \in S /\ Sum(f, S) = f[Any(S)] + Sum(f, S \ {Any(S)})
<1> DEFINE R == S \ {Any(S)}
<1>1. Any(S) \in S /\ IsFiniteSet(R)
  BY FS_RemoveElement DEF Any
<1>2. PICK g : IsSum(g, f, SUBSET S) /\ Sum(f, S) = g[S]
  BY SumIsSum
<1>3. PICK h : IsSum(h, f, SUBSET R) /\ Sum(f, R) = h[R]
  BY <1>1, SumIsSum
<1>4. h[R] = g[R]
  <2>1. R \subseteq S /\ Same(f, f, R)
    BY DEF Same
  <2> HIDE DEF R
  <2> QED
    BY <1>1, <1>2, <1>3, <2>1, SumsAgree
<1>5. g[S] = f[Any(S)] + g[R]
  BY <1>2 DEF IsSum
<1> QED
  BY <1>1, <1>2, <1>3, <1>4, <1>5

(* A sum of natural numbers is one. *)
LEMMA SumIsNat ==
    ASSUME NEW S, IsFiniteSet(S), NEW f, \A x \in S : f[x] \in Nat
    PROVE  Sum(f, S) \in Nat
<1> DEFINE B == {R \in SUBSET S : Sum(f, R) \notin Nat}
<1>1. SUFFICES ASSUME B # {} PROVE FALSE
  OBVIOUS
<1>2. PICK R \in B : \A x \in R : R \ {x} \notin B
  <2>1. B \subseteq SUBSET S
    OBVIOUS
  <2> HIDE DEF B
  <2> QED
    BY <1>1, <2>1, LeastSubset
<1>3. IsFiniteSet(R)
  BY FS_Subset
<1>4. R # {}
  BY <1>2, SumEmpty
<1>5. Any(R) \in R /\ Sum(f, R) = f[Any(R)] + Sum(f, R \ {Any(R)})
  BY <1>3, <1>4, SumStep
<1>6. Sum(f, R \ {Any(R)}) \in Nat
  BY <1>2, <1>5
<1> QED
  BY <1>2, <1>5, <1>6

(* The order does not count. *)
LEMMA SumRemove ==
    ASSUME NEW S, IsFiniteSet(S), NEW f, \A x \in S : f[x] \in Nat, NEW x \in S
    PROVE  Sum(f, S) = f[x] + Sum(f, S \ {x})
<1> DEFINE Wrong(R) == \E y \in R : Sum(f, R) # f[y] + Sum(f, R \ {y})
           B == {R \in SUBSET S : Wrong(R)}
<1>1. SUFFICES ASSUME B # {} PROVE FALSE
  OBVIOUS
<1>2. PICK R \in B : \A y \in R : R \ {y} \notin B
  <2>1. B \subseteq SUBSET S
    OBVIOUS
  <2> HIDE DEF B
  <2> QED
    BY <1>1, <2>1, LeastSubset
<1>3. PICK y \in R : Sum(f, R) # f[y] + Sum(f, R \ {y})
  BY <1>2
<1>4. IsFiniteSet(R) /\ R \subseteq S
  BY <1>2, FS_Subset
<1> DEFINE z == Any(R)
<1>5. z \in R /\ Sum(f, R) = f[z] + Sum(f, R \ {z})
  BY <1>3, <1>4, SumStep
<1>6. z # y
  BY <1>3, <1>5
<1> HIDE DEF z
<1>7. R \ {y} \in SUBSET S /\ R \ {z} \in SUBSET S
  BY <1>4
<1>8. Sum(f, R \ {z}) = f[y] + Sum(f, (R \ {z}) \ {y})
  BY <1>2, <1>3, <1>5, <1>6, <1>7
<1>9. Sum(f, R \ {y}) = f[z] + Sum(f, (R \ {y}) \ {z})
  BY <1>2, <1>3, <1>5, <1>6, <1>7
<1>10. (R \ {z}) \ {y} = (R \ {y}) \ {z}
  OBVIOUS
<1>11. f[y] \in Nat /\ f[z] \in Nat /\ Sum(f, (R \ {y}) \ {z}) \in Nat
  <2>1. IsFiniteSet((R \ {y}) \ {z})
    BY <1>4, FS_Subset
  <2> QED
    BY <1>3, <1>4, <1>5, <2>1, SumIsNat
<1> QED
  BY <1>3, <1>5, <1>8, <1>9, <1>10, <1>11

(* The sums over two sets that are apart add up. *)
LEMMA SumUnion ==
    ASSUME NEW A, NEW C, IsFiniteSet(A), IsFiniteSet(C), A \cap C = {},
           NEW f, \A x \in A \cup C : f[x] \in Nat
    PROVE  Sum(f, A \cup C) = Sum(f, A) + Sum(f, C)
<1> DEFINE B == {R \in SUBSET A : Sum(f, R \cup C) # Sum(f, R) + Sum(f, C)}
<1>1. SUFFICES ASSUME B # {} PROVE FALSE
  OBVIOUS
<1>2. PICK R \in B : \A y \in R : R \ {y} \notin B
  <2>1. B \subseteq SUBSET A
    OBVIOUS
  <2> HIDE DEF B
  <2> QED
    BY <1>1, <2>1, LeastSubset
<1>3. /\ R \subseteq A /\ IsFiniteSet(R) /\ Sum(f, R) \in Nat /\ Sum(f, C) \in Nat
      /\ IsFiniteSet(R \cup C)
  <2>1. R \subseteq A /\ IsFiniteSet(R)
    BY <1>2, FS_Subset
  <2>2. IsFiniteSet(R \cup C)
    BY <2>1, FS_Union
  <2> QED
    BY <2>1, <2>2, SumIsNat
<1>4. PICK x \in R : TRUE
  <2>1. R # {}
    <3>1. R = {} => R \cup C = C
      OBVIOUS
    <3>2. Sum(f, {}) = 0
      BY SumEmpty
    <3>3. Sum(f, R \cup C) # Sum(f, R) + Sum(f, C)
      BY <1>2
    <3> HIDE DEF B
    <3> QED
      BY <1>3, <3>1, <3>2, <3>3
  <2> QED
    BY <2>1
<1>5. Sum(f, R) = f[x] + Sum(f, R \ {x})
  BY <1>3, SumRemove
<1>6. Sum(f, R \cup C) = f[x] + Sum(f, (R \cup C) \ {x})
  BY <1>3, SumRemove
<1>7. (R \cup C) \ {x} = (R \ {x}) \cup C
  BY <1>3
<1>8. Sum(f, (R \ {x}) \cup C) = Sum(f, R \ {x}) + Sum(f, C)
  BY <1>2, <1>3
<1>9. f[x] \in Nat /\ Sum(f, R \ {x}) \in Nat
  <2>1. IsFiniteSet(R \ {x})
    BY <1>3, FS_RemoveElement
  <2> QED
    BY <1>3, <2>1, SumIsNat
<1> QED
  BY <1>2, <1>3, <1>5, <1>6, <1>7, <1>8, <1>9

(* A sum of sums over sets that are apart is one sum. *)
LEMMA SumOfSums ==
    ASSUME NEW S, IsFiniteSet(S), NEW U, IsFiniteSet(U), NEW fam \in [S -> SUBSET U],
           \A s, t \in S : s # t => fam[s] \cap fam[t] = {},
           NEW f, \A x \in U : f[x] \in Nat, NEW e, \A s \in S : e[s] = Sum(f, fam[s])
    PROVE  Sum(e, S) = Sum(f, UNION {fam[s] : s \in S})
<1> DEFINE All(R) == UNION {fam[s] : s \in R}
           B == {R \in SUBSET S : Sum(e, R) # Sum(f, All(R))}
<1>1. SUFFICES ASSUME B # {} PROVE FALSE
  OBVIOUS
<1>2. PICK R \in B : \A y \in R : R \ {y} \notin B
  <2>1. B \subseteq SUBSET S
    OBVIOUS
  <2> HIDE DEF B
  <2> QED
    BY <1>1, <2>1, LeastSubset
<1>3. R \subseteq S /\ IsFiniteSet(R)
  BY <1>2, FS_Subset
<1>4. PICK x \in R : TRUE
  <2>1. R = {} => All(R) = {}
    OBVIOUS
  <2> QED
    BY <1>2, <2>1, SumEmpty
<1>5. \A s \in S : IsFiniteSet(fam[s]) /\ e[s] \in Nat
  <2> SUFFICES ASSUME NEW s \in S PROVE IsFiniteSet(fam[s]) /\ e[s] \in Nat
    OBVIOUS
  <2>1. IsFiniteSet(fam[s])
    BY FS_Subset
  <2> QED
    BY <2>1, SumIsNat
<1>6. Sum(e, R) = e[x] + Sum(e, R \ {x})
  BY <1>3, <1>5, SumRemove
<1>7. Sum(e, R \ {x}) = Sum(f, All(R \ {x}))
  BY <1>2, <1>3
<1>8. All(R) = fam[x] \cup All(R \ {x}) /\ fam[x] \cap All(R \ {x}) = {}
  BY <1>3
<1>9. All(R \ {x}) \subseteq U /\ fam[x] \subseteq U
  BY <1>3
<1> HIDE DEF All
<1>10. IsFiniteSet(All(R \ {x}))
  BY <1>9, FS_Subset
<1>11. Sum(f, All(R)) = Sum(f, fam[x]) + Sum(f, All(R \ {x}))
  <2>1. x \in S /\ IsFiniteSet(fam[x])
    BY <1>3, <1>5
  <2>2. \A y \in fam[x] \cup All(R \ {x}) : f[y] \in Nat
    BY <1>9
  <2> DEFINE V == All(R \ {x})
             W == fam[x]
  <2>3. W \cap V = {} /\ IsFiniteSet(V) /\ IsFiniteSet(W) /\ \A y \in W \cup V : f[y] \in Nat
    BY <1>8, <1>10, <2>1, <2>2
  <2>4. Sum(f, W \cup V) = Sum(f, W) + Sum(f, V)
    <3> HIDE DEF V, W, B
    <3> QED
      BY <2>3, SumUnion
  <2> QED
    BY <1>8, <2>4
<1> QED
  BY <1>2, <1>3, <1>6, <1>7, <1>11
-----------------------------------------------------------------------------
(* A call belongs to an experiment. *)
Engaged ==
    /\ \A t \in Retained : task[t].call # "none" => task[t].experiment # "none"
    /\ \A p \in Procs : cont[p].successor.call = "none"

(* Lineages and prunes name tasks that were started, and what a prune      *)
(* takes to be old has ended.                                              *)
Known ==
    /\ \A t \in Retained : task[t].lineage \subseteq Issued
    /\ \A p \in Procs : cont[p].successor.lineage \subseteq Issued
    /\ \A r \in Pruners :
          /\ prune[r].unread \union prune[r].old \union DOMAIN prune[r].stamp \subseteq Issued
          /\ \A t \in Retained \intersect prune[r].old : task[t].status \in Terminal

(* What was continued is settled. *)
Settled == \A t \in Retained : \A a \in task[t].lineage \intersect Retained : Continuable(a)

(* What a process found before its save still holds. *)
StillTrue(p) ==
    LET L == cont[p].successor.lineage
    IN  /\ config = p
        /\ \A a \in L \intersect Retained : Continuable(a)
        /\ \A u \in Retained : Family(u) \intersect L # {} => u \in L

Checked == \A p \in Procs : cont[p].phase = "checked" => StillTrue(p)

Inv == TypeOK /\ Engaged /\ Known /\ Settled /\ LineagesAreNested /\ Checked

USE ContinuationAssumption

(* What is remembered of completed tasks keeps its type. *)
SavesStay ==
    renewed' \subseteq Ids /\ DOMAIN saved' \subseteq Issued /\ saved' \in [DOMAIN saved' -> Nat]

(* One task's checkpoint is saved: its lineage stays, and if it may be     *)
(* continued nothing but the time of the save changes.                     *)
Saved(t, r) ==
    /\ t \in Retained /\ r \in Tasks
    /\ task' = [task EXCEPT ![t] = r]
    /\ r.lineage = task[t].lineage
    /\ task[t].status \in Terminal => r.status \in Terminal
    /\ r.call # "none" => r.experiment # "none"
    /\ Continuable(t) => r = [task[t] EXCEPT !.updated = r.updated]
    /\ own' \in [Issued -> [calls : Nat, tokens : Nat, started : Nat]]
    /\ SavesStay
    /\ UNCHANGED <<now, locks, prune, uses>>

LEMMA NoTaskType == NoTask \in Tasks
  BY DEF NoTask, Tasks, Budgets, Statuses

LEMMA IdleType == Idle \in Continuations
  BY NoTaskType DEF Idle, Continuations

LEMMA ChargeType ==
  ASSUME TypeOK, NEW t \in Retained, NEW c \in Nat, NEW n \in Nat, Charge(t, c, n)
  PROVE  own' \in [Issued -> [calls : Nat, tokens : Nat, started : Nat]]
<1>1. own[t] \in [calls : Nat, tokens : Nat, started : Nat] /\ t \in Issued
  BY DEF TypeOK
<1> DEFINE o == [own[t] EXCEPT !.calls = @ + c]
<1>2. own[t].calls + c \in Nat /\ own[t].tokens + n \in Nat
  BY <1>1
<1>3. o \in [calls : Nat, tokens : Nat, started : Nat] /\ o.tokens = own[t].tokens
  BY <1>1, <1>2
<1>4. [o EXCEPT !.tokens = @ + n] \in [calls : Nat, tokens : Nat, started : Nat]
  BY <1>2, <1>3
<1> DEFINE f == [own EXCEPT ![t].calls = @ + c]
<1>5. f = [own EXCEPT ![t] = o]
  BY <1>1 DEF TypeOK
<1>6. own' = [f EXCEPT ![t] = [o EXCEPT !.tokens = @ + n]]
  BY <1>1, <1>5 DEF TypeOK, Charge
<1> QED
  BY <1>1, <1>4, <1>5, <1>6 DEF TypeOK, Issued

(* Saving one field leaves the others alone. *)
LEMMA SetCalls ==
  ASSUME NEW x \in Tasks, NEW v \in Nat
  PROVE  LET y == [x EXCEPT !.calls = v]
         IN  /\ y \in Tasks
             /\ y.lineage = x.lineage
             /\ y.status = x.status
             /\ y.experiment = x.experiment
             /\ y.call = x.call
             /\ y.tokens = x.tokens
             /\ y.calls = v
  BY DEF Tasks

LEMMA SetTokens ==
  ASSUME NEW x \in Tasks, NEW v \in Nat
  PROVE  LET y == [x EXCEPT !.tokens = v]
         IN  /\ y \in Tasks
             /\ y.lineage = x.lineage
             /\ y.status = x.status
             /\ y.experiment = x.experiment
             /\ y.call = x.call
             /\ y.tokens = v
             /\ y.calls = x.calls
  BY DEF Tasks

LEMMA SetStep ==
  ASSUME NEW x \in Tasks, NEW v \in BOOLEAN
  PROVE  LET y == [x EXCEPT !.step = v]
         IN  /\ y \in Tasks
             /\ y.lineage = x.lineage
             /\ y.status = x.status
             /\ y.experiment = x.experiment
             /\ y.call = x.call
             /\ y.tokens = x.tokens
             /\ y.calls = x.calls
             /\ y.step = v
  BY DEF Tasks

LEMMA SetStatus ==
  ASSUME NEW x \in Tasks, NEW v \in Statuses
  PROVE  LET y == [x EXCEPT !.status = v]
         IN  /\ y \in Tasks
             /\ y.lineage = x.lineage
             /\ y.status = v
             /\ y.experiment = x.experiment
             /\ y.call = x.call
             /\ y.tokens = x.tokens
             /\ y.calls = x.calls
  BY DEF Tasks

LEMMA SetExperiment ==
  ASSUME NEW x \in Tasks, NEW v \in {"none", "active", "closed"}
  PROVE  LET y == [x EXCEPT !.experiment = v]
         IN  /\ y \in Tasks
             /\ y.lineage = x.lineage
             /\ y.status = x.status
             /\ y.experiment = v
             /\ y.call = x.call
             /\ y.tokens = x.tokens
             /\ y.calls = x.calls
  BY DEF Tasks

LEMMA SetCall ==
  ASSUME NEW x \in Tasks, NEW v \in {"none", "pending", "settled"}
  PROVE  LET y == [x EXCEPT !.call = v]
         IN  /\ y \in Tasks
             /\ y.lineage = x.lineage
             /\ y.status = x.status
             /\ y.experiment = x.experiment
             /\ y.call = v
             /\ y.tokens = x.tokens
             /\ y.calls = x.calls
  BY DEF Tasks

LEMMA SetUpdated ==
  ASSUME NEW x \in Tasks, NEW v \in Nat
  PROVE  LET y == [x EXCEPT !.updated = v]
         IN  /\ y \in Tasks
             /\ y.lineage = x.lineage
             /\ y.status = x.status
             /\ y.experiment = x.experiment
             /\ y.call = x.call
             /\ y.tokens = x.tokens
             /\ y.calls = x.calls
             /\ y.updated = v
  BY DEF Tasks

(* Saving a record that keeps to the rules is a step that Saved describes. *)
LEMMA SavedIsSaved ==
  ASSUME Inv, NEW t \in Retained, NEW r \in Tasks, Save(t, r),
         r.lineage = task[t].lineage, r.call # "none" => r.experiment # "none",
         ~Continuable(t), task[t].status \notin Terminal,
         own' \in [Issued -> [calls : Nat, tokens : Nat, started : Nat]],
         SavesStay, UNCHANGED <<now, locks, prune, uses>>
  PROVE  \E x \in Tasks : Saved(t, x)
<1> DEFINE x == [r EXCEPT !.updated = now]
<1>1. now \in Nat
  BY DEF Inv, TypeOK
<1>2. x \in Tasks /\ x.lineage = r.lineage /\ x.call = r.call /\ x.experiment = r.experiment
  BY <1>1, SetUpdated
<1>3. task' = [task EXCEPT ![t] = x]
  BY DEF Save
<1>4. Saved(t, x)
  BY <1>2, <1>3 DEF Saved
<1> QED
  BY <1>2, <1>4

LEMMA RunCommandSaves ==
  ASSUME Inv, NEW t \in Retained, RunCommand(t)
  PROVE  \E x \in Tasks : Saved(t, x)
<1>1. task[t] \in Tasks /\ (task[t].call # "none" => task[t].experiment # "none")
  BY DEF Inv, TypeOK, Engaged
<1> DEFINE r == [task[t] EXCEPT !.calls = @ + 1]
<1>2. task[t].calls + 1 \in Nat
  BY <1>1 DEF Tasks
<1>3. r \in Tasks /\ r.lineage = task[t].lineage /\ (r.call # "none" => r.experiment # "none")
  BY <1>1, <1>2, SetCalls DEF Inv
<1>7. own' \in [Issued -> [calls : Nat, tokens : Nat, started : Nat]]
  BY ChargeType DEF Inv, RunCommand
<1>8. ~Continuable(t) /\ task[t].status \notin Terminal
  BY DEF RunCommand, Continuable, Terminal, Allowed
<1>9. SavesStay /\ UNCHANGED <<now, locks, prune, uses>>
  BY DEF RunCommand, SavesStay, Inv, TypeOK
<1> QED
  BY <1>1, <1>3, <1>7, <1>8, <1>9, SavedIsSaved DEF RunCommand

LEMMA CheckpointTaskSaves ==
  ASSUME Inv, NEW t \in Retained, NEW n \in Nat, NEW s \in BOOLEAN, CheckpointTask(t, n, s)
  PROVE  \E x \in Tasks : Saved(t, x)
<1>1. task[t] \in Tasks /\ (task[t].call # "none" => task[t].experiment # "none")
  BY DEF Inv, TypeOK, Engaged
<1> DEFINE r == [task[t] EXCEPT !.tokens = @ + n, !.step = s]
<1> DEFINE y == [task[t] EXCEPT !.tokens = @ + n]
<1>2. task[t].tokens + n \in Nat
  BY <1>1 DEF Tasks
<1>3. y \in Tasks /\ y.lineage = task[t].lineage /\ y.call = task[t].call
      /\ y.experiment = task[t].experiment
  BY <1>1, <1>2, SetTokens
<1>4. r = [y EXCEPT !.step = s]
  BY <1>1 DEF Tasks
<1>5. r \in Tasks /\ r.lineage = task[t].lineage /\ (r.call # "none" => r.experiment # "none")
  <2> HIDE DEF r, y
  <2> QED
    BY <1>1, <1>3, <1>4, SetStep
<1>7. own' \in [Issued -> [calls : Nat, tokens : Nat, started : Nat]]
  BY ChargeType DEF Inv, CheckpointTask
<1>8. ~Continuable(t) /\ task[t].status \notin Terminal
  BY DEF CheckpointTask, Continuable, Terminal, Allowed
<1>9. SavesStay /\ UNCHANGED <<now, locks, prune, uses>>
  BY DEF CheckpointTask, SavesStay, Inv, TypeOK
<1> QED
  BY <1>1, <1>5, <1>7, <1>8, <1>9, SavedIsSaved DEF CheckpointTask

LEMMA SetTaskStatusSaves ==
  ASSUME Inv, NEW t \in Retained, NEW s \in Statuses, SetTaskStatus(t, s)
  PROVE  \E x \in Tasks : Saved(t, x)
<1>1. task[t] \in Tasks /\ (task[t].call # "none" => task[t].experiment # "none")
  BY DEF Inv, TypeOK, Engaged
<1> DEFINE r == [task[t] EXCEPT !.status = s]
<1>2. s \in Statuses
  BY <1>1
<1>3. r \in Tasks /\ r.lineage = task[t].lineage /\ (r.call # "none" => r.experiment # "none")
  BY <1>1, <1>2, SetStatus DEF Inv
<1>7. own' \in [Issued -> [calls : Nat, tokens : Nat, started : Nat]]
  BY DEF Inv, TypeOK, Issued, SetTaskStatus
<1>8. ~Continuable(t) /\ task[t].status \notin Terminal
  BY <1>1 DEF SetTaskStatus, Continuable, Terminal, Allowed, Statuses, Tasks
<1>9. SavesStay /\ UNCHANGED <<now, locks, prune, uses>>
  BY DEF SetTaskStatus, SavesStay, Inv, TypeOK
<1> QED
  BY <1>1, <1>3, <1>7, <1>8, <1>9, SavedIsSaved DEF SetTaskStatus

LEMMA CompleteTaskSaves ==
  ASSUME Inv, NEW t \in Retained, CompleteTask(t)
  PROVE  \E x \in Tasks : Saved(t, x)
<1>1. task[t] \in Tasks /\ (task[t].call # "none" => task[t].experiment # "none")
  BY DEF Inv, TypeOK, Engaged
<1> DEFINE r == [task[t] EXCEPT !.status = "completed"]
<1>2. "completed" \in Statuses
  BY DEF Statuses
<1>3. r \in Tasks /\ r.lineage = task[t].lineage /\ (r.call # "none" => r.experiment # "none")
  BY <1>1, <1>2, SetStatus DEF Inv
<1>7. own' \in [Issued -> [calls : Nat, tokens : Nat, started : Nat]]
  BY DEF Inv, TypeOK, Issued, CompleteTask
<1>8. ~Continuable(t) /\ task[t].status \notin Terminal
  BY DEF CompleteTask, Continuable, Terminal, Allowed
<1>9. SavesStay /\ UNCHANGED <<now, locks, prune, uses>>
  BY DEF CompleteTask, SavesStay, Inv, TypeOK
<1> QED
  BY <1>1, <1>3, <1>7, <1>8, <1>9, SavedIsSaved DEF CompleteTask

LEMMA BeginImprovementSaves ==
  ASSUME Inv, NEW t \in Retained, BeginImprovement(t)
  PROVE  \E x \in Tasks : Saved(t, x)
<1>1. task[t] \in Tasks /\ (task[t].call # "none" => task[t].experiment # "none")
  BY DEF Inv, TypeOK, Engaged
<1> DEFINE r == [task[t] EXCEPT !.experiment = "active"]
<1>2. "active" \in {"none", "active", "closed"}
  BY <1>1
<1>3. r \in Tasks /\ r.lineage = task[t].lineage /\ (r.call # "none" => r.experiment # "none")
  BY <1>1, <1>2, SetExperiment DEF Inv
<1>7. own' \in [Issued -> [calls : Nat, tokens : Nat, started : Nat]]
  BY DEF Inv, TypeOK, Issued, BeginImprovement
<1>8. ~Continuable(t) /\ task[t].status \notin Terminal
  BY DEF BeginImprovement, Continuable, Terminal, Allowed
<1>9. SavesStay /\ UNCHANGED <<now, locks, prune, uses>>
  BY DEF BeginImprovement, SavesStay, Inv, TypeOK
<1> QED
  BY <1>1, <1>3, <1>7, <1>8, <1>9, SavedIsSaved DEF BeginImprovement

LEMMA SettleImprovementSaves ==
  ASSUME Inv, NEW t \in Retained, NEW e \in {"active", "closed"}, SettleImprovement(t, e)
  PROVE  \E x \in Tasks : Saved(t, x)
<1>1. task[t] \in Tasks /\ (task[t].call # "none" => task[t].experiment # "none")
  BY DEF Inv, TypeOK, Engaged
<1> DEFINE r == [task[t] EXCEPT !.experiment = e]
<1>2. e \in {"none", "active", "closed"} /\ e # "none"
  BY <1>1
<1>3. r \in Tasks /\ r.lineage = task[t].lineage /\ (r.call # "none" => r.experiment # "none")
  BY <1>1, <1>2, SetExperiment DEF Inv
<1>7. own' \in [Issued -> [calls : Nat, tokens : Nat, started : Nat]]
  BY DEF Inv, TypeOK, Issued, SettleImprovement
<1>8. ~Continuable(t) /\ task[t].status \notin Terminal
  BY DEF SettleImprovement, Continuable, Terminal, Allowed
<1>9. SavesStay /\ UNCHANGED <<now, locks, prune, uses>>
  BY DEF SettleImprovement, SavesStay, Inv, TypeOK
<1> QED
  BY <1>1, <1>3, <1>7, <1>8, <1>9, SavedIsSaved DEF SettleImprovement

LEMMA RequestCandidateSaves ==
  ASSUME Inv, NEW t \in Retained, NEW n \in Nat, RequestCandidate(t, n)
  PROVE  \E x \in Tasks : Saved(t, x)
<1>1. task[t] \in Tasks /\ (task[t].call # "none" => task[t].experiment # "none")
  BY DEF Inv, TypeOK, Engaged
<1> DEFINE r == [task[t] EXCEPT !.call = "pending", !.calls = @ + 1, !.tokens = @ + n]
<1>2. PICK y \in Tasks : /\ y = [task[t] EXCEPT !.call = "pending"]
                          /\ y.lineage = task[t].lineage /\ y.experiment = task[t].experiment
  <2> DEFINE y == [task[t] EXCEPT !.call = "pending"]
  <2>1. y \in Tasks /\ y.lineage = task[t].lineage /\ y.experiment = task[t].experiment
    BY <1>1, SetCall
  <2> QED
    BY <2>1
<1>3. PICK z \in Tasks : /\ z = [y EXCEPT !.calls = @ + 1]
                          /\ z.lineage = y.lineage /\ z.experiment = y.experiment
  <2>1. y.calls + 1 \in Nat
    BY DEF Tasks
  <2> QED
    BY <2>1, SetCalls
<1>4. r = [z EXCEPT !.tokens = @ + n]
  BY <1>1, <1>2, <1>3 DEF Tasks
<1>5. r \in Tasks /\ r.lineage = task[t].lineage /\ r.experiment = task[t].experiment
  <2> HIDE DEF r
  <2>1. z.tokens + n \in Nat
    BY DEF Tasks
  <2> QED
    BY <1>2, <1>3, <1>4, <2>1, SetTokens
<1>6. r.call # "none" => r.experiment # "none"
  BY <1>5 DEF RequestCandidate
<1>7. own' \in [Issued -> [calls : Nat, tokens : Nat, started : Nat]]
  BY ChargeType DEF Inv, RequestCandidate
<1>8. ~Continuable(t) /\ task[t].status \notin Terminal
  BY DEF RequestCandidate, Continuable, Terminal, Allowed
<1>9. SavesStay /\ UNCHANGED <<now, locks, prune, uses>>
  BY DEF RequestCandidate, SavesStay, Inv, TypeOK
<1> QED
  BY <1>1, <1>5, <1>6, <1>7, <1>8, <1>9, SavedIsSaved DEF RequestCandidate

LEMMA ReceiveHostResultSaves ==
  ASSUME Inv, NEW t \in Retained, NEW n \in Nat, ReceiveHostResult(t, n)
  PROVE  \E x \in Tasks : Saved(t, x)
<1>1. task[t] \in Tasks /\ (task[t].call # "none" => task[t].experiment # "none") /\ now \in Nat
  BY DEF Inv, TypeOK, Engaged
<1>2. SavesStay /\ UNCHANGED <<now, locks, prune, uses>>
  BY DEF ReceiveHostResult, SavesStay, Inv, TypeOK
<1> DEFINE y == [task[t] EXCEPT !.call = "settled"]
           r == [task[t] EXCEPT !.call = "settled", !.tokens = @ + n]
           x == [r EXCEPT !.updated = now]
           z == [task[t] EXCEPT !.updated = now]
<1>3. CASE task[t].call = "pending" /\ Save(t, r) /\ Charge(t, 0, n)
  <2>1. y \in Tasks /\ y.lineage = task[t].lineage /\ y.experiment = task[t].experiment
        /\ y.status = task[t].status
    BY <1>1, SetCall
  <2>2. r = [y EXCEPT !.tokens = @ + n] /\ y.tokens + n \in Nat
    BY <1>1, <2>1 DEF Tasks
  <2>3. r \in Tasks /\ r.lineage = task[t].lineage /\ r.experiment = task[t].experiment
        /\ r.status = task[t].status
    BY <2>1, <2>2, SetTokens
  <2>4. x \in Tasks /\ x.lineage = task[t].lineage /\ x.experiment = task[t].experiment
        /\ x.status = task[t].status
    BY <1>1, <2>3, SetUpdated
  <2>5. ~Continuable(t)
    BY <1>1, <1>3 DEF Continuable, Resolved
  <2>6. own' \in [Issued -> [calls : Nat, tokens : Nat, started : Nat]]
    BY <1>3, ChargeType DEF Inv
  <2>7. task' = [task EXCEPT ![t] = x]
    BY <1>3 DEF Save
  <2>8. Saved(t, x)
    BY <1>1, <1>2, <1>3, <2>4, <2>5, <2>6, <2>7 DEF Saved
  <2> QED
    BY <2>4, <2>8
<1>4. CASE task[t].call = "settled" /\ Save(t, task[t]) /\ UNCHANGED own
  <2>1. z \in Tasks /\ z.lineage = task[t].lineage /\ z.experiment = task[t].experiment
        /\ z.status = task[t].status /\ z.call = task[t].call
    BY <1>1, SetUpdated
  <2>2. task' = [task EXCEPT ![t] = z] /\ z = [task[t] EXCEPT !.updated = z.updated]
    BY <1>1, <1>4 DEF Save, Tasks
  <2>3. own' \in [Issued -> [calls : Nat, tokens : Nat, started : Nat]]
    BY <1>4 DEF Inv, TypeOK, Issued
  <2>4. Saved(t, z)
    BY <1>1, <1>2, <2>1, <2>2, <2>3 DEF Saved
  <2> QED
    BY <2>1, <2>4
<1> QED
  BY <1>3, <1>4 DEF ReceiveHostResult

(* A step of another task's work starts a task or saves one. *)
LEMMA WorkSaves ==
  ASSUME Inv, Work
  PROVE  StartTask \/ \E t \in Retained : \E x \in Tasks : Saved(t, x)
<1>1. \A n \in Reports \union {0} \union Overruns \union Allowances : n \in Nat
  OBVIOUS
<1> USE RunCommandSaves, CheckpointTaskSaves, SetTaskStatusSaves, CompleteTaskSaves,
        BeginImprovementSaves, SettleImprovementSaves, RequestCandidateSaves,
        ReceiveHostResultSaves
<1>2. Steps \subseteq BOOLEAN /\ Pauses \union {"active", "stopped"} \subseteq Statuses
  BY DEF Statuses
<1>3. SUFFICES ASSUME ~StartTask
               PROVE  \E t \in Retained : \E x \in Tasks : Saved(t, x)
  OBVIOUS
<1>4. PICK t \in Retained :
          \/ RunCommand(t) \/ CompleteTask(t) \/ BeginImprovement(t)
          \/ \E n \in Reports \union {0}, s \in Steps : CheckpointTask(t, n, s)
          \/ \E s \in Pauses \union {"active", "stopped"} : SetTaskStatus(t, s)
          \/ \E n \in Allowances : RequestCandidate(t, n)
          \/ \E n \in Overruns \union {0} : ReceiveHostResult(t, n)
          \/ \E e \in {"active", "closed"} : SettleImprovement(t, e)
  BY <1>3 DEF Work
<1>5. \E x \in Tasks : Saved(t, x)
  BY <1>1, <1>2, <1>4
<1> QED
  BY <1>5

-----------------------------------------------------------------------------
(* What may be continued stays so. *)
LEMMA SavedKeepsContinuable ==
  ASSUME Inv, NEW t \in Retained, NEW r \in Tasks, Saved(t, r), NEW a \in Retained,
         Continuable(a)
  PROVE  Continuable(a)'
<1>1. CASE a = t
  <2>1. task'[t] = [task[t] EXCEPT !.updated = r.updated] /\ task[t] \in Tasks
    BY <1>1 DEF Saved, Inv, TypeOK
  <2>2. /\ task'[t].status = task[t].status /\ task'[t].step = task[t].step
        /\ task'[t].experiment = task[t].experiment /\ task'[t].call = task[t].call
    BY <2>1 DEF Tasks
  <2> QED
    BY <1>1, <2>2 DEF Continuable, Resolved
<1>2. CASE a # t
  <2>1. task'[a] = task[a]
    BY <1>2 DEF Saved, Inv, TypeOK
  <2> QED
    BY <2>1 DEF Continuable, Resolved
<1> QED
  BY <1>1, <1>2

LEMMA SavedKeepsInv ==
  ASSUME Inv, NEW t \in Retained, NEW r \in Tasks, Saved(t, r)
  PROVE  Inv'
<1>1. /\ Retained' = Retained /\ Issued' = Issued
      /\ \A u \in Retained : task'[u].lineage = task[u].lineage
      /\ \A u \in Retained : Family(u)' = Family(u)
      /\ \A u \in Retained : u # t => task'[u] = task[u]
      /\ task'[t] = r
  BY DEF Saved, Inv, TypeOK, Retained, Issued, Family
<1>2. TypeOK'
  BY <1>1 DEF Saved, SavesStay, Inv, TypeOK, locks, Issued, Retained
<1>3. Engaged'
  BY <1>1 DEF Saved, Inv, Engaged, locks
<1>4. Known'
  BY <1>1 DEF Saved, Inv, Known, locks
<1>5. Settled'
  BY <1>1, SavedKeepsContinuable DEF Inv, Settled
<1>6. LineagesAreNested'
  BY <1>1 DEF Inv, LineagesAreNested
<1>7. Checked'
  <2> SUFFICES ASSUME NEW p \in Procs, (cont[p].phase = "checked")'
               PROVE  StillTrue(p)'
    BY DEF Checked
  <2>1. cont' = cont /\ config' = config /\ StillTrue(p)
    BY DEF Saved, locks, Inv, Checked
  <2> QED
    BY <1>1, <2>1, SavedKeepsContinuable DEF StillTrue
<1> QED
  BY <1>2, <1>3, <1>4, <1>5, <1>6, <1>7 DEF Inv

(* What Create does, spelled out. *)
LEMMA Created ==
  ASSUME Inv, NEW r \in Tasks, Create(r)
  PROVE  \E n \in Ids :
            /\ n \notin Issued /\ n \notin Retained
            /\ Retained' = Retained \union {n} /\ Issued' = Issued \union {n}
            /\ task'[n] \in Tasks /\ task'[n].lineage = r.lineage
            /\ task'[n].call = r.call /\ task'[n].experiment = r.experiment
            /\ task'[n].status = r.status
            /\ \A t \in Retained : task'[t] = task[t]
            /\ task' \in [Retained \union {n} -> Tasks]
            /\ own' \in [Issued \union {n} -> [calls : Nat, tokens : Nat, started : Nat]]
<1>1. PICK n \in Ids :
        /\ First(n, Ids \ Issued)
        /\ task' = [t \in Retained \union {n} |->
                        IF t = n THEN [r EXCEPT !.updated = now] ELSE task[t]]
        /\ own' = [t \in Issued \union {n} |->
                        IF t = n THEN [calls |-> 0, tokens |-> 0, started |-> now] ELSE own[t]]
  BY DEF Create
<1> DEFINE x == [r EXCEPT !.updated = now]
<1>2. n \notin Issued /\ n \notin Retained
  BY <1>1 DEF First, Inv, TypeOK
<1>3. Retained' = Retained \union {n} /\ Issued' = Issued \union {n}
  BY <1>1 DEF Retained, Issued
<1>4. x \in Tasks /\ x.lineage = r.lineage /\ x.call = r.call
      /\ x.experiment = r.experiment /\ x.status = r.status
  BY SetUpdated DEF Inv, TypeOK
<1>5. task'[n] = x
  BY <1>1
<1>6. \A t \in Retained : task'[t] = task[t]
  BY <1>1, <1>2
<1>7. task' \in [Retained \union {n} -> Tasks]
  BY <1>1, <1>4 DEF Inv, TypeOK
<1>8. own' \in [Issued \union {n} -> [calls : Nat, tokens : Nat, started : Nat]]
  <2>1. [calls |-> 0, tokens |-> 0, started |-> now] \in [calls : Nat, tokens : Nat, started : Nat]
    BY DEF Inv, TypeOK
  <2>2. \A t \in Issued : own[t] \in [calls : Nat, tokens : Nat, started : Nat]
    BY DEF Inv, TypeOK
  <2> QED
    BY <1>1, <2>1, <2>2
<1> QED
  BY <1>2, <1>3, <1>4, <1>5, <1>6, <1>7, <1>8

(* A new task is safe if its lineage is settled and apart from the others. *)
LEMMA CreateKeeps ==
  ASSUME Inv, NEW r \in Tasks, Create(r), r.call = "none", r.lineage \subseteq Issued,
         \A a \in r.lineage \intersect Retained : Continuable(a),
         \A u \in Retained : Family(u) \intersect r.lineage # {} => u \in r.lineage,
         UNCHANGED <<now, prune>>,
         \A p \in Procs : cont'[p].successor.call = "none",
         \A p \in Procs : cont'[p].successor.lineage \subseteq Issued
  PROVE  /\ Engaged' /\ Known' /\ Settled' /\ LineagesAreNested'
         /\ Retained' \subseteq Issued' /\ Issued \subseteq Issued' /\ Issued' \subseteq Ids
         /\ task' \in [Retained' -> Tasks]
         /\ own' \in [Issued' -> [calls : Nat, tokens : Nat, started : Nat]]
<1>1. PICK n \in Ids :
            /\ n \notin Issued /\ n \notin Retained
            /\ Retained' = Retained \union {n} /\ Issued' = Issued \union {n}
            /\ task'[n] \in Tasks /\ task'[n].lineage = r.lineage
            /\ task'[n].call = r.call /\ task'[n].experiment = r.experiment
            /\ task'[n].status = r.status
            /\ \A t \in Retained : task'[t] = task[t]
            /\ task' \in [Retained \union {n} -> Tasks]
            /\ own' \in [Issued \union {n} -> [calls : Nat, tokens : Nat, started : Nat]]
  BY Created
<1>2. \A t \in Retained : task[t].lineage \subseteq Issued /\ n \notin Family(t)
  BY <1>1 DEF Inv, Known, Family
<1>3. \A t \in Retained : Family(t)' = Family(t)
  BY <1>1 DEF Family
<1>4. Family(n)' = {n} \union r.lineage
  BY <1>1 DEF Family
<1>5. \A t \in Retained : Continuable(t) => Continuable(t)'
  BY <1>1 DEF Continuable, Resolved
<1>6. Engaged'
  BY <1>1 DEF Inv, Engaged
<1>7. Known'
  <2>1. \A q \in Pruners : n \notin prune[q].old
    BY <1>1 DEF Inv, Known
  <2> QED
    BY <1>1, <1>2, <2>1 DEF Inv, Known
<1>8. Settled'
  BY <1>1, <1>2, <1>5 DEF Inv, Settled
<1>9. LineagesAreNested'
  <2> SUFFICES ASSUME NEW t \in Retained \union {n}, NEW u \in Retained \union {n},
                      Family(t)' \intersect Family(u)' # {}
               PROVE  t \in Family(u)' \/ u \in Family(t)'
    BY <1>1 DEF LineagesAreNested
  <2>1. CASE t \in Retained /\ u \in Retained
    BY <1>3, <2>1 DEF Inv, LineagesAreNested
  <2>2. CASE t = n /\ u = n
    BY <1>4, <2>2
  <2>3. CASE t = n /\ u \in Retained
    BY <1>2, <1>3, <1>4, <2>3
  <2>4. CASE t \in Retained /\ u = n
    BY <1>2, <1>3, <1>4, <2>4
  <2> QED
    BY <2>1, <2>2, <2>3, <2>4
<1> QED
  BY <1>1, <1>6, <1>7, <1>8, <1>9 DEF Inv, TypeOK

-----------------------------------------------------------------------------
LEMMA StartKeepsInv ==
  ASSUME Inv, StartTask
  PROVE  Inv'
<1> DEFINE r == [NoTask EXCEPT !.started = now]
<1>1. r \in Tasks /\ r.call = "none" /\ r.lineage = {}
  BY NoTaskType DEF NoTask, Tasks, Inv, TypeOK
<1>2. Create(r) /\ UNCHANGED <<now, locks, prune, uses, saved, renewed>>
  BY DEF StartTask
<1> HIDE DEF r
<1>3. /\ Engaged' /\ Known' /\ Settled' /\ LineagesAreNested'
      /\ Retained' \subseteq Issued' /\ Issued \subseteq Issued' /\ Issued' \subseteq Ids
      /\ task' \in [Retained' -> Tasks]
      /\ own' \in [Issued' -> [calls : Nat, tokens : Nat, started : Nat]]
  BY <1>1, <1>2, CreateKeeps DEF locks, Inv, Engaged, Known
<1>4. TypeOK'
  BY <1>2, <1>3 DEF Inv, TypeOK, locks
<1>5. Checked'
  <2> SUFFICES ASSUME NEW p \in Procs, (cont[p].phase = "checked")'
               PROVE  StillTrue(p)'
    BY DEF Checked
  <2>1. cont' = cont /\ config' = config /\ StillTrue(p)
    BY <1>2 DEF locks, Inv, Checked
  <2>2. cont[p].successor.lineage \subseteq Issued
    BY DEF Inv, Known
  <2>3. PICK n \in Ids :
            /\ n \notin Issued /\ n \notin Retained /\ Retained' = Retained \union {n}
            /\ task'[n].lineage = {} /\ \A t \in Retained : task'[t] = task[t]
    BY <1>1, <1>2, Created
  <2>4. \A t \in Retained : Family(t)' = Family(t) /\ (Continuable(t) => Continuable(t)')
    BY <2>3 DEF Family, Continuable, Resolved
  <2>5. Family(n)' = {n}
    BY <2>3 DEF Family
  <2> QED
    BY <2>1, <2>2, <2>3, <2>4, <2>5 DEF StillTrue
<1> QED
  BY <1>3, <1>4, <1>5 DEF Inv

(* Steps that leave the checkpoints alone and end or start continuations   *)
(* other than by a check.                                                  *)
LEMMA ContKeepsInv ==
  ASSUME Inv, UNCHANGED <<task, own, saved, renewed, now, prune, uses>>,
         lock' \in [Ids -> Procs \union {Nobody}], config' \in Procs \union {Nobody},
         cont' \in [Procs -> Continuations],
         \A p \in Procs : \/ cont'[p] = cont[p] /\ (config = p => config' = p)
                          \/ /\ cont'[p].phase # "checked"
                             /\ cont'[p].successor.call = "none"
                             /\ cont'[p].successor.lineage = {}
  PROVE  Inv'
<1>1. TypeOK'
  BY DEF Inv, TypeOK, Retained, Issued
<1>2. Engaged' /\ Known' /\ Settled' /\ LineagesAreNested'
  BY DEF Inv, Engaged, Known, Settled, LineagesAreNested, Retained, Issued, Continuable,
         Resolved, Family
<1>3. Checked'
  BY DEF Inv, Checked, StillTrue, Retained, Continuable, Resolved, Family
<1> QED
  BY <1>1, <1>2, <1>3 DEF Inv

LEMMA IdleFacts ==
  ASSUME NEW S \in SUBSET Ids, NEW l \in Limits
  PROVE  LET c == [Idle EXCEPT !.phase = "locking", !.sources = S, !.limits = l]
         IN  c \in Continuations /\ c.phase = "locking" /\ c.successor = NoTask
  BY NoTaskType DEF Idle, Continuations

LEMMA AskKeepsInv ==
  ASSUME Inv, NEW p \in Procs, NEW S \in SUBSET Issued, NEW l \in Limits, AskToContinue(p, S, l)
  PROVE  Inv'
<1> DEFINE c == [Idle EXCEPT !.phase = "locking", !.sources = S, !.limits = l]
<1>1. c \in Continuations /\ c.phase = "locking" /\ c.successor = NoTask
  BY IdleFacts DEF Inv, TypeOK
<1>2. cont' = [cont EXCEPT ![p] = c]
  BY DEF AskToContinue
<1> HIDE DEF c
<1>3. /\ UNCHANGED <<task, own, saved, renewed, now, prune, uses, lock, config>>
      /\ cont' \in [Procs -> Continuations]
      /\ \A q \in Procs : q # p => cont'[q] = cont[q]
      /\ cont'[p] = c
  BY <1>1, <1>2 DEF AskToContinue, checkpoints, Inv, TypeOK
<1>4. NoTask.call = "none" /\ NoTask.lineage = {}
  BY DEF NoTask
<1> QED
  BY <1>1, <1>3, <1>4, ContKeepsInv DEF Inv, TypeOK

LEMMA LockKeepsInv ==
  ASSUME Inv, NEW p \in Procs, LockSource(p)
  PROVE  Inv'
<1>1. /\ UNCHANGED <<task, own, saved, renewed, now, prune, uses, config, cont>>
      /\ lock' \in [Ids -> Procs \union {Nobody}]
  BY DEF LockSource, checkpoints, Inv, TypeOK
<1> QED
  BY <1>1, ContKeepsInv DEF Inv, TypeOK

LEMMA ReleaseFacts ==
  ASSUME Inv, NEW p \in Procs, Release(p)
  PROVE  /\ lock' \in [Ids -> Procs \union {Nobody}] /\ config' \in Procs \union {Nobody}
         /\ cont' \in [Procs -> Continuations]
         /\ cont'[p].phase = "idle" /\ cont'[p].successor.call = "none"
         /\ cont'[p].successor.lineage = {}
         /\ \A q \in Procs : q # p => cont'[q] = cont[q] /\ (config = q => config' = q)
<1>1. cont' = [cont EXCEPT ![p] = Idle]
  BY DEF Release
<1>2. Idle.phase = "idle" /\ Idle.successor.call = "none" /\ Idle.successor.lineage = {}
  BY DEF Idle, NoTask
<1>3. cont'[p] = Idle /\ cont' \in [Procs -> Continuations]
      /\ \A q \in Procs : q # p => cont'[q] = cont[q]
  BY <1>1, IdleType DEF Inv, TypeOK
<1> QED
  BY <1>2, <1>3 DEF Release, Inv, TypeOK

LEMMA ReleaseKeepsInv ==
  ASSUME Inv, NEW p \in Procs, RefuseSources(p) \/ GiveUp(p)
  PROVE  Inv'
<1>1. Release(p) /\ UNCHANGED <<task, own, saved, renewed, now, prune, uses>>
  BY DEF RefuseSources, GiveUp, checkpoints
<1> QED
  BY <1>1, ReleaseFacts, ContKeepsInv

(* The check: what it establishes about the lineage of the successor. *)
LEMMA CheckKeepsInv ==
  ASSUME Inv, NEW p \in Procs, CheckSources(p)
  PROVE  Inv'
<1> DEFINE S == cont[p].sources
           r == Successor(S, cont[p].limits)
           L == Lineage(S)
           c == [cont[p] EXCEPT !.phase = "checked", !.successor = r]
<1>1. /\ r \in Tasks /\ S \subseteq Retained /\ \A s \in S : Continuable(s)
      /\ Unused(S) /\ config = Nobody /\ config' = p
  BY DEF CheckSources, MayContinue
<1>2. r.lineage = L /\ r.call = "none"
  BY DEF Successor, NoTask
<1>3. cont[p] \in Continuations
  BY DEF Inv, TypeOK
<1>4. /\ cont' = [cont EXCEPT ![p] = c]
      /\ UNCHANGED <<task, own, saved, renewed, now, lock, prune, uses>>
  BY <1>3 DEF CheckSources, checkpoints, Inv, TypeOK, Continuations
<1>5. c \in Continuations /\ c.successor = r /\ c.phase = "checked"
  BY <1>1, <1>3 DEF Continuations
<1> HIDE DEF c, r
<1>6. /\ cont' \in [Procs -> Continuations] /\ cont'[p] = c
      /\ \A q \in Procs : q # p => cont'[q] = cont[q]
  BY <1>4, <1>5 DEF Inv, TypeOK
<1>7. L \subseteq Issued
  <2>1. S \subseteq Issued
    BY <1>1 DEF Inv, TypeOK
  <2>2. \A s \in S : task[s].lineage \subseteq Issued
    BY <1>1 DEF Inv, Known
  <2> QED
    BY <2>1, <2>2 DEF Lineage
<1>8. \A a \in L \intersect Retained : Continuable(a)
  BY <1>1 DEF Lineage, Inv, Settled
<1>9. \A u \in Retained : Family(u) \intersect L # {} => u \in L
  <2> SUFFICES ASSUME NEW u \in Retained, NEW a \in Family(u), a \in L
               PROVE  u \in L
    OBVIOUS
  <2>1. PICK s \in S : a \in Family(s)
    BY DEF Lineage, Family
  <2>2. s \in Family(u) \/ u \in Family(s)
    BY <1>1, <2>1 DEF Inv, LineagesAreNested
  <2>3. s \notin task[u].lineage
    BY <1>1 DEF Unused
  <2> QED
    BY <2>2, <2>3 DEF Family, Lineage
<1>10. TypeOK'
  BY <1>1, <1>4, <1>6 DEF Inv, TypeOK, Retained, Issued
<1>11. Engaged' /\ Known'
  BY <1>2, <1>4, <1>5, <1>6, <1>7 DEF Inv, Engaged, Known, Retained, Issued
<1>12. Settled' /\ LineagesAreNested'
  BY <1>4 DEF Inv, Settled, LineagesAreNested, Retained, Continuable, Resolved, Family
<1>13. Checked'
  <2> SUFFICES ASSUME NEW q \in Procs, (cont[q].phase = "checked")'
               PROVE  StillTrue(q)'
    BY DEF Checked
  <2>1. q = p
    BY <1>1, <1>6 DEF Inv, Checked, StillTrue
  <2>2. (cont[p].successor.lineage)' = L
    BY <1>2, <1>5, <1>6
  <2> QED
    BY <1>1, <1>4, <1>8, <1>9, <2>1, <2>2 DEF StillTrue, Retained, Continuable, Resolved, Family
<1> QED
  BY <1>10, <1>11, <1>12, <1>13 DEF Inv

LEMMA SaveSuccessorKeepsInv ==
  ASSUME Inv, NEW p \in Procs, SaveSuccessor(p)
  PROVE  Inv'
<1> DEFINE r == cont[p].successor
<1>1. r \in Tasks
  BY DEF Inv, TypeOK, Continuations
<1>2. Create(r) /\ Release(p) /\ UNCHANGED <<now, prune, saved, renewed>> /\ StillTrue(p)
  BY DEF SaveSuccessor, Inv, Checked
<1>3. uses' \in [Ids -> Nat]
  BY DEF SaveSuccessor, Inv, TypeOK
<1>4. \A q \in Procs : cont'[q].successor.call = "none" /\ cont'[q].successor.lineage \subseteq Issued
  BY <1>2, ReleaseFacts DEF Inv, Engaged, Known
<1>5. r.call = "none" /\ r.lineage \subseteq Issued
  BY DEF Inv, Engaged, Known
<1>6. /\ Engaged' /\ Known' /\ Settled' /\ LineagesAreNested'
      /\ Retained' \subseteq Issued' /\ Issued \subseteq Issued' /\ Issued' \subseteq Ids
      /\ task' \in [Retained' -> Tasks]
      /\ own' \in [Issued' -> [calls : Nat, tokens : Nat, started : Nat]]
  BY <1>1, <1>2, <1>4, <1>5, CreateKeeps DEF StillTrue
<1>7. TypeOK'
  BY <1>2, <1>3, <1>6, ReleaseFacts DEF Inv, TypeOK
<1>8. Checked'
  BY <1>2, ReleaseFacts DEF Inv, Checked, StillTrue
<1> QED
  BY <1>6, <1>7, <1>8 DEF Inv

Pruning == \E r \in Pruners : Prune(r)

(* Reading a checkpoint, and taking what is left to delete. *)
LEMMA ReadFacts ==
  ASSUME TypeOK, NEW p \in Prunes, NEW t \in Retained
  PROVE  LET q == Read(p, t)
         IN  /\ q \in Prunes /\ q.phase = p.phase /\ q.unread = p.unread \ {t}
             /\ DOMAIN q.stamp
                    = DOMAIN p.stamp \union (IF task[t].status = "completed" THEN {t} ELSE {})
             /\ \A u \in DOMAIN q.stamp :
                    q.stamp[u] = IF u = t THEN task[t].updated ELSE p.stamp[u]
             /\ q.old = IF task[t].status \in Terminal /\ p.since - task[t].updated > StateDays
                        THEN p.old \union {t} ELSE p.old
<1> DEFINE known == DOMAIN p.stamp \union (IF task[t].status = "completed" THEN {t} ELSE {})
           s == [u \in known |-> IF u = t THEN task[t].updated ELSE p.stamp[u]]
           o == IF task[t].status \in Terminal /\ p.since - task[t].updated > StateDays
                THEN p.old \union {t} ELSE p.old
<1>1. t \in Ids /\ task[t].updated \in Nat
  BY DEF TypeOK, Tasks
<1>2. DOMAIN p.stamp \subseteq Ids /\ \A u \in DOMAIN p.stamp : p.stamp[u] \in Nat
  <2>1. p.stamp \in UNION {[S -> Nat] : S \in SUBSET Ids}
    BY DEF Prunes
  <2>2. PICK S \in SUBSET Ids : p.stamp \in [S -> Nat]
    BY <2>1
  <2> QED
    BY <2>2
<1>3. known \subseteq Ids /\ s \in [known -> Nat]
  BY <1>1, <1>2
<1>4. s \in UNION {[S -> Nat] : S \in SUBSET Ids} /\ DOMAIN s = known
  <2> HIDE DEF known
  <2>1. DOMAIN s = known
    OBVIOUS
  <2> HIDE DEF s
  <2>2. known \in SUBSET Ids /\ s \in [known -> Nat]
    BY <1>3
  <2> QED
    BY <2>1, <2>2
<1>5. o \subseteq Ids /\ p.unread \ {t} \subseteq Ids
  BY <1>1 DEF Prunes
<1>6. \A u \in known : s[u] = IF u = t THEN task[t].updated ELSE p.stamp[u]
  OBVIOUS
<1>7. Read(p, t) = [p EXCEPT !.unread = p.unread \ {t}, !.stamp = s, !.old = o]
  BY DEF Read, Prunes
<1> HIDE DEF known, s, o
<1>8. Read(p, t) = [phase |-> p.phase, since |-> p.since, unread |-> p.unread \ {t},
                    stamp |-> s, old |-> o]
  BY <1>7 DEF Prunes
<1>9. Read(p, t) \in Prunes
  BY <1>4, <1>5, <1>8 DEF Prunes
<1> QED
  BY <1>4, <1>6, <1>8, <1>9 DEF known, o

LEMMA NoPruneFacts ==
  /\ NoPrune \in Prunes /\ NoPrune.phase = "idle" /\ NoPrune.unread = {} /\ NoPrune.old = {}
  /\ NoPrune.stamp = [t \in {} |-> 0] /\ DOMAIN NoPrune.stamp = {}
<1> DEFINE s == [t \in {} |-> 0]
<1>1. s \in [{} -> Nat] /\ {} \in SUBSET Ids /\ DOMAIN s = {}
  OBVIOUS
<1> HIDE DEF s
<1>2. s \in UNION {[S -> Nat] : S \in SUBSET Ids}
  BY <1>1
<1>3. NoPrune = [phase |-> "idle", since |-> 0, unread |-> {}, stamp |-> s, old |-> {}]
  BY DEF NoPrune, s
<1> QED
  BY <1>1, <1>2, <1>3 DEF Prunes, s

LEMMA DeleteFacts ==
  ASSUME NEW S \in SUBSET Ids
  PROVE  /\ Delete(S) \in Prunes /\ Delete(S).old = S /\ Delete(S).unread = {}
         /\ DOMAIN Delete(S).stamp = {}
         /\ Delete(S).phase = IF S = {} THEN "idle" ELSE "deleting"
<1>1. CASE S = {}
  BY <1>1, NoPruneFacts DEF Delete
<1>2. CASE S # {}
  <2>1. Delete(S) = [NoPrune EXCEPT !.phase = "deleting", !.old = S]
    BY <1>2 DEF Delete
  <2> QED
    BY <1>2, <2>1, NoPruneFacts DEF Prunes
<1> QED
  BY <1>1, <1>2

LEMMA BegunFacts ==
  ASSUME TypeOK
  PROVE  LET q == [NoPrune EXCEPT !.phase = "reading", !.since = now, !.unread = Retained]
         IN  /\ q \in Prunes /\ q.phase = "reading" /\ q.unread = Retained /\ q.old = {}
             /\ DOMAIN q.stamp = {}
  BY NoPruneFacts DEF Prunes, TypeOK

(* A prune, as the clock, changes no checkpoint and charges nothing: what  *)
(* it does is to delete.                                                   *)
LEMMA PruneOnlyDeletes ==
  ASSUME Pruning \/ Tick \/ UNCHANGED vars
  PROVE  /\ UNCHANGED <<lock, config, cont, own, uses, saved, renewed>>
         /\ Retained' \subseteq Retained /\ \A t \in Retained' : task'[t] = task[t]
<1>1. ASSUME NEW r \in Pruners, Prune(r), ~ApplyPrune(r)
      PROVE  UNCHANGED <<lock, config, cont, own, uses, saved, renewed, task>>
  BY <1>1 DEF Prune, BeginPrune, ReadTask, PlanPrune, LeavePrune, checkpoints, locks
<1>2. ASSUME NEW r \in Pruners, ApplyPrune(r)
      PROVE  /\ UNCHANGED <<lock, config, cont, own, uses, saved, renewed>>
             /\ Retained' \subseteq Retained /\ \A t \in Retained' : task'[t] = task[t]
  BY <1>2 DEF ApplyPrune, locks, Retained
<1>3. CASE Tick \/ UNCHANGED vars
  BY <1>3 DEF Tick, vars, checkpoints, locks, Retained
<1> QED
  BY <1>1, <1>2, <1>3 DEF Pruning, Retained

(* What a prune turns into: a record of started tasks, of which those that *)
(* it takes to be old have ended.                                          *)
Sound(q) ==
    /\ q \in Prunes /\ q.unread \union q.old \union DOMAIN q.stamp \subseteq Issued
    /\ \A t \in Retained \intersect q.old : task[t].status \in Terminal

LEMMA PruneGoesOn ==
  ASSUME Inv, NEW r \in Pruners, Prune(r)
  PROVE  \E q : Sound(q) /\ Went(r, q) /\ now' = now
<1> USE DEF Sound
<1>1. TypeOK /\ Retained \subseteq Issued /\ Issued \subseteq Ids /\ Sound(prune[r])
  BY DEF Inv, TypeOK, Known
<1>2. CASE BeginPrune(r)
  BY <1>1, <1>2, BegunFacts DEF BeginPrune
<1>3. ASSUME NEW t \in Retained
      PROVE  Sound(Read(prune[r], t))
  <2> DEFINE p == prune[r]
             q == Read(p, t)
  <2>0. p \in Prunes
    BY <1>1
  <2> HIDE DEF p
  <2>1. /\ q \in Prunes /\ q.unread = p.unread \ {t}
        /\ DOMAIN q.stamp
               = DOMAIN p.stamp \union (IF task[t].status = "completed" THEN {t} ELSE {})
        /\ q.old = IF task[t].status \in Terminal /\ p.since - task[t].updated > StateDays
                   THEN p.old \union {t} ELSE p.old
    BY <1>1, <2>0, ReadFacts
  <2> HIDE DEF q
  <2>2. Sound(q)
    BY <1>1, <2>1 DEF p
  <2> QED
    BY <2>2 DEF p, q
<1>4. CASE \E t \in Retained : ReadTask(r, t)
  BY <1>3, <1>4 DEF ReadTask
<1>5. ASSUME NEW S \in SUBSET Ids, S \subseteq Issued,
             \A t \in Retained \intersect S : task[t].status \in Terminal
      PROVE  Sound(Delete(S))
  BY <1>5, DeleteFacts
<1>6. CASE \E t \in Retained : PlanPrune(r, t)
  <2>1. PICK t \in Retained : PlanPrune(r, t)
    BY <1>6
  <2>2. PICK recent : Went(r, Delete(Read(prune[r], t).old \ recent))
    BY <2>1 DEF PlanPrune
  <2> DEFINE S == Read(prune[r], t).old \ recent
  <2>3. S \in SUBSET Ids /\ S \subseteq Issued
        /\ \A u \in Retained \intersect S : task[u].status \in Terminal
    BY <1>1, <1>3
  <2> HIDE DEF S
  <2>4. Sound(Delete(S))
    BY <1>5, <2>3
  <2> HIDE DEF Sound
  <2> QED
    BY <2>1, <2>2, <2>4 DEF PlanPrune, S
<1>7. CASE ApplyPrune(r)
  <2>1. PICK t : Went(r, Delete(prune[r].old \ {t}))
    BY <1>7 DEF ApplyPrune
  <2> DEFINE S == prune[r].old \ {t}
  <2>2. S \in SUBSET Ids /\ S \subseteq Issued
        /\ \A u \in Retained \intersect S : task[u].status \in Terminal
    BY <1>1
  <2> HIDE DEF S
  <2>3. Sound(Delete(S))
    BY <1>5, <2>2
  <2> HIDE DEF Sound
  <2> QED
    BY <1>7, <2>1, <2>3 DEF ApplyPrune, S
<1>8. CASE LeavePrune(r)
  BY <1>8, NoPruneFacts DEF LeavePrune
<1> QED
  BY <1>2, <1>4, <1>6, <1>7, <1>8 DEF Prune

LEMMA PruneKeepsInv ==
  ASSUME Inv, Pruning
  PROVE  Inv'
<1>1. PICK r \in Pruners : Prune(r)
  BY DEF Pruning
<1>2. PICK q : Sound(q) /\ Went(r, q) /\ now' = now
  BY <1>1, PruneGoesOn
<1>3. /\ prune' \in [Pruners -> Prunes] /\ prune'[r] = q
      /\ \A s \in Pruners : s # r => prune'[s] = prune[s]
  BY <1>2 DEF Sound, Went, Inv, TypeOK
<1>4. /\ UNCHANGED <<lock, config, cont, own, uses, saved, renewed>>
      /\ Retained' \subseteq Retained /\ \A t \in Retained' : task'[t] = task[t]
  BY PruneOnlyDeletes
<1>5. \A u \in Retained' : Family(u)' = Family(u) /\ (Continuable(u) => Continuable(u)')
  BY <1>4 DEF Family, Continuable, Resolved
<1>6. TypeOK'
  <2>1. task' \in [Retained' -> Tasks]
    <3>1. \/ task' = task
          \/ \E t : task' = [u \in Retained \ {t} |-> task[u]]
      BY <1>1 DEF Prune, BeginPrune, ReadTask, PlanPrune, ApplyPrune, LeavePrune, checkpoints
    <3> QED
      BY <3>1 DEF Inv, TypeOK, Retained
  <2> QED
    BY <1>2, <1>3, <1>4, <2>1 DEF Inv, TypeOK, Issued
<1>7. Engaged' /\ Settled' /\ LineagesAreNested'
  BY <1>4, <1>5 DEF Inv, Engaged, Settled, LineagesAreNested
<1>8. Known'
  BY <1>2, <1>3, <1>4 DEF Inv, Known, Sound, Issued
<1>9. Checked'
  BY <1>4, <1>5 DEF Inv, Checked, StillTrue
<1> QED
  BY <1>6, <1>7, <1>8, <1>9 DEF Inv

LEMMA IdleStepKeepsInv ==
  ASSUME Inv, Tick \/ UNCHANGED vars
  PROVE  Inv'
<1>1. UNCHANGED <<task, own, saved, renewed, locks, prune, uses>> /\ now' \in Nat
  BY DEF Tick, vars, checkpoints, locks, Inv, TypeOK
<1>2. TypeOK'
  BY <1>1 DEF Inv, TypeOK, Retained, Issued, locks
<1>3. Engaged' /\ Known' /\ Settled' /\ LineagesAreNested' /\ Checked'
  BY <1>1 DEF Inv, Engaged, Known, Settled, LineagesAreNested, Checked, StillTrue,
              Retained, Issued, Continuable, Resolved, Family, locks
<1> QED
  BY <1>2, <1>3 DEF Inv

LEMMA InitHasInv == Init => Inv
<1> SUFFICES ASSUME Init
             PROVE  Inv
  OBVIOUS
<1>1. Retained = {} /\ Issued = {}
  BY DEF Init, Retained, Issued
<1>2. Idle.successor.call = "none" /\ Idle.successor.lineage = {} /\ Idle.phase = "idle"
  BY DEF Idle, NoTask
<1>3. TypeOK
  <2>1. DOMAIN saved = {} /\ saved \in [DOMAIN saved -> Nat]
    BY DEF Init
  <2> QED
    BY <1>1, <2>1, IdleType, NoPruneFacts DEF Init, TypeOK
<1> QED
  BY <1>1, <1>2, <1>3, NoPruneFacts
     DEF Inv, Init, Engaged, Known, Settled, LineagesAreNested, Checked

LEMMA StepKeepsInv ==
  ASSUME Inv, [Next]_vars
  PROVE  Inv'
<1>1. CASE Work
  BY <1>1, WorkSaves, StartKeepsInv, SavedKeepsInv DEF Saved
<1>2. ASSUME NEW p \in Procs, Continue(p)
      PROVE  Inv'
  BY <1>2, AskKeepsInv, LockKeepsInv, CheckKeepsInv, ReleaseKeepsInv, SaveSuccessorKeepsInv
     DEF Continue, Decide
<1>3. CASE Pruning
  BY <1>3, PruneKeepsInv
<1>4. CASE Tick \/ UNCHANGED vars
  BY <1>4, IdleStepKeepsInv
<1> QED
  BY <1>1, <1>2, <1>3, <1>4 DEF Next, Pruning
-----------------------------------------------------------------------------
(* The inductive invariant: types, lineages, and what a process that is    *)
(* about to save a successor has found out.                                *)
THEOREM ContinuationInvariant == Spec => []Inv
  BY InitHasInv, StepKeepsInv, PTL DEF Spec

(* Task records, locks and continuations keep their types; what a          *)
(* successor inherits is valid for TaskState.                              *)
THEOREM TypeCorrect == Spec => []TypeOK
<1>1. Inv => TypeOK
  BY DEF Inv
<1> QED
  BY <1>1, ContinuationInvariant, PTL

(* Two retained checkpoints never answer for the same consumption unless   *)
(* one succeeds the other, whatever was continued and pruned.              *)
THEOREM LineagesStayNested == Spec => []LineagesAreNested
<1>1. Inv => LineagesAreNested
  BY DEF Inv
<1> QED
  BY <1>1, ContinuationInvariant, PTL

(* A task that was continued is never charged or changed again.            *)
THEOREM SourcesAreFrozen == Spec => ConsumedIsFrozen
<1> DEFINE Frozen == \A t \in Retained :
            (\E u \in Retained : t \in task[u].lineage) /\ t \in DOMAIN task'
                => task'[t] = [task[t] EXCEPT !.updated = task'[t].updated]
<1>1. ASSUME Inv, [Next]_vars
      PROVE  [Frozen]_vars
  <2> SUFFICES ASSUME NEW t \in Retained, NEW u \in Retained, t \in task[u].lineage,
                      t \in DOMAIN task'
               PROVE  task'[t] = [task[t] EXCEPT !.updated = task'[t].updated]
    OBVIOUS
  <2>1. Continuable(t) /\ task[t] \in Tasks
    BY <1>1 DEF Inv, Settled, TypeOK
  <2>2. SUFFICES ASSUME task'[t] # task[t]
                 PROVE  task'[t] = [task[t] EXCEPT !.updated = task'[t].updated]
    BY <2>1 DEF Tasks
  <2>3. ASSUME NEW x \in Retained, NEW r \in Tasks, Saved(x, r)
        PROVE  task'[t] = [task[t] EXCEPT !.updated = task'[t].updated]
    BY <1>1, <2>1, <2>2, <2>3 DEF Saved, Inv, TypeOK
  <2>4. ASSUME NEW r \in Tasks, Create(r)
        PROVE  FALSE
    BY <1>1, <2>2, <2>4, Created
  <2>5. CASE Work
    <3>1. NoTask \in Tasks /\ now \in Nat
      BY <1>1, NoTaskType DEF Inv, TypeOK
    <3>2. [NoTask EXCEPT !.started = now] \in Tasks
      BY <3>1 DEF Tasks
    <3>3. ~StartTask
      BY <2>4, <3>2 DEF StartTask
    <3> QED
      BY <1>1, <2>3, <2>5, <3>3, WorkSaves
  <2>6. ASSUME NEW p \in Procs, Continue(p)
        PROVE  FALSE
    <3>1. SaveSuccessor(p)
      BY <2>2, <2>6 DEF Continue, Decide, AskToContinue, LockSource, CheckSources, RefuseSources,
                        GiveUp, checkpoints
    <3>2. cont[p].successor \in Tasks
      BY <1>1 DEF Inv, TypeOK, Continuations
    <3> QED
      BY <2>4, <3>1, <3>2 DEF SaveSuccessor
  <2>7. ~(Pruning \/ Tick \/ UNCHANGED vars)
    BY <2>2, PruneOnlyDeletes DEF Retained
  <2> QED
    BY <1>1, <2>5, <2>6, <2>7 DEF Next, Pruning
<1> QED
  BY <1>1, ContinuationInvariant, PTL DEF Spec, ConsumedIsFrozen

(* Retention deletes only checkpoints of tasks that have ended, although   *)
(* it deletes what it planned earlier and takes no lock.                   *)
THEOREM OnlyEndedIsPruned == Spec => PrunedIsTerminal
<1> DEFINE Ended == \A t \in Retained : t \notin DOMAIN task' => task[t].status \in Terminal
<1>1. ASSUME Inv, [Next]_vars
      PROVE  [Ended]_vars
  <2> SUFFICES ASSUME NEW t \in Retained, t \notin DOMAIN task'
               PROVE  task[t].status \in Terminal
    OBVIOUS
  <2>1. ASSUME NEW x \in Retained, NEW r \in Tasks, Saved(x, r)
        PROVE  FALSE
    BY <2>1 DEF Saved, Retained
  <2>2. ASSUME NEW r, Create(r)
        PROVE  FALSE
    BY <2>2 DEF Create, Retained
  <2>3. CASE Work
    BY <1>1, <2>1, <2>2, <2>3, WorkSaves DEF StartTask
  <2>4. CASE \E p \in Procs : Continue(p)
    BY <2>2, <2>4 DEF Continue, Decide, AskToContinue, LockSource, CheckSources, RefuseSources,
                      GiveUp, SaveSuccessor, checkpoints, Retained
  <2>5. ASSUME NEW r \in Pruners, ApplyPrune(r)
        PROVE  task[t].status \in Terminal
    BY <1>1, <2>5 DEF ApplyPrune, First, Inv, Known, Retained
  <2>6. ASSUME NEW r \in Pruners, Prune(r), ~ApplyPrune(r)
        PROVE  FALSE
    BY <2>6 DEF Prune, BeginPrune, ReadTask, PlanPrune, LeavePrune, checkpoints, Retained
  <2>7. CASE Tick \/ UNCHANGED vars
    BY <2>7 DEF Tick, vars, checkpoints, Retained
  <2> QED
    BY <1>1, <2>3, <2>4, <2>5, <2>6, <2>7 DEF Next
<1> QED
  BY <1>1, ContinuationInvariant, PTL DEF Spec, PrunedIsTerminal
-----------------------------------------------------------------------------
(* What the ledger says of a set of tasks. *)
Cl(o) == [a \in DOMAIN o |-> o[a].calls]
Tk(o) == [a \in DOMAIN o |-> o[a].tokens]

IsMin(m, T) == m \in T /\ \A y \in T : m <= y

Balances(o, r, F) ==
    /\ r.calls = Sum(Cl(o), F) /\ r.tokens = Sum(Tk(o), F)
    /\ IsMin(r.started, {o[a].started : a \in F})

(* The two sums of the model are sums in this sense. *)
LEMMA CallsAreSum ==
    ASSUME NEW o, NEW S, S \subseteq DOMAIN o, IsFiniteSet(S)
    PROVE  CallsOf(o, S) = Sum(Cl(o), S)
<1> DEFINE F == Cl(o)
           Body(g) == [R \in SUBSET S |-> IF R = {} THEN 0 ELSE o[Any(R)].calls + g[R \ {Any(R)}]]
<1>1. \A g : IsSum(g, F, SUBSET S) <=> g = Body(g)
  BY DEF IsSum, Any, Cl
<1>2. (CHOOSE g : IsSum(g, F, SUBSET S)) = (CHOOSE g : g = Body(g))
  BY <1>1
<1>3. CallsOf(o, S) = (CHOOSE g : g = Body(g))[S]
  BY DEF CallsOf, MapThenSumSet, MapThenFoldSet, Any
<1> QED
  BY <1>2, <1>3 DEF Sum

LEMMA TokensAreSum ==
    ASSUME NEW o, NEW S, S \subseteq DOMAIN o, IsFiniteSet(S)
    PROVE  TokensOf(o, S) = Sum(Tk(o), S)
<1> DEFINE F == Tk(o)
           Body(g) == [R \in SUBSET S |-> IF R = {} THEN 0 ELSE o[Any(R)].tokens + g[R \ {Any(R)}]]
<1>1. \A g : IsSum(g, F, SUBSET S) <=> g = Body(g)
  BY DEF IsSum, Any, Tk
<1>2. (CHOOSE g : IsSum(g, F, SUBSET S)) = (CHOOSE g : g = Body(g))
  BY <1>1
<1>3. TokensOf(o, S) = (CHOOSE g : g = Body(g))[S]
  BY DEF TokensOf, MapThenSumSet, MapThenFoldSet, Any
<1> QED
  BY <1>2, <1>3 DEF Sum

(* A set of natural numbers has one least element, and Min is that. *)
LEMMA MinIsMin ==
    ASSUME NEW T, T \subseteq Nat, T # {}
    PROVE  IsMin(Min(T), T) /\ \A m : IsMin(m, T) => Min(T) = m
<1>1. PICK x \in T : \A y \in T : <<y, x>> \notin OpToRel(<, Nat)
  BY NatLessThanWellFounded, WFMin
<1>2. \A y \in T : x <= y
  <2> SUFFICES ASSUME NEW y \in T PROVE x <= y
    OBVIOUS
  <2>1. x \in Nat /\ y \in Nat /\ <<y, x>> \in Nat \X Nat
    OBVIOUS
  <2>2. y < x => <<y, x>> \in OpToRel(<, Nat)
    BY <2>1 DEF OpToRel
  <2>3. ~(y < x)
    BY <1>1, <2>2
  <2> QED
    BY <2>1, <2>3
<1>3. Min(T) \in T /\ \A y \in T : Min(T) <= y
  BY <1>2 DEF Min
<1>4. ASSUME NEW m, IsMin(m, T) PROVE Min(T) = m
  <2>1. m \in T /\ m <= Min(T) /\ Min(T) <= m
    BY <1>3, <1>4 DEF IsMin
  <2>2. m \in Nat /\ Min(T) \in Nat
    BY <1>3, <2>1
  <2> QED
    BY <2>1, <2>2
<1> QED
  BY <1>3, <1>4 DEF IsMin

(* What was not charged balances as before. *)
LEMMA Uncharged ==
    ASSUME NEW o, NEW p, NEW r, NEW F, IsFiniteSet(F), Balances(o, r, F),
           F \subseteq DOMAIN o, F \subseteq DOMAIN p,
           \A a \in F : /\ p[a].calls = o[a].calls /\ p[a].tokens = o[a].tokens
                        /\ p[a].started = o[a].started
    PROVE  Balances(p, r, F)
<1>1. \A a \in F : Cl(p)[a] = Cl(o)[a] /\ Tk(p)[a] = Tk(o)[a]
  BY DEF Cl, Tk
<1>2. Sum(Cl(p), F) = Sum(Cl(o), F) /\ Sum(Tk(p), F) = Sum(Tk(o), F)
  BY <1>1, SumSame
<1>3. {p[a].started : a \in F} = {o[a].started : a \in F}
  OBVIOUS
<1> QED
  BY <1>2, <1>3 DEF Balances

Owned == [calls : Nat, tokens : Nat, started : Nat]

(* A charge to one task and to its checkpoint. *)
LEMMA ChargedAlike ==
    ASSUME NEW D, NEW o \in [D -> Owned], NEW p \in [D -> Owned], NEW t \in D,
           NEW F, F \subseteq D, IsFiniteSet(F), t \in F,
           NEW c \in Nat, NEW n \in Nat,
           p[t].calls = o[t].calls + c, p[t].tokens = o[t].tokens + n,
           p[t].started = o[t].started, \A a \in D : a # t => p[a] = o[a],
           NEW r, Balances(o, r, F), NEW s,
           s.calls = r.calls + c, s.tokens = r.tokens + n, s.started = r.started
    PROVE  Balances(p, s, F)
<1>1. ASSUME NEW f \in [D -> Nat], NEW e \in [D -> Nat], NEW d \in Nat,
             e[t] = f[t] + d, \A a \in D : a # t => e[a] = f[a]
      PROVE  Sum(e, F) = Sum(f, F) + d
  <2>1. IsFiniteSet(F \ {t})
    BY FS_RemoveElement
  <2>2. Sum(e, F \ {t}) = Sum(f, F \ {t})
    BY <1>1, <2>1, SumSame
  <2>3. Sum(e, F) = e[t] + Sum(e, F \ {t}) /\ Sum(f, F) = f[t] + Sum(f, F \ {t})
    BY SumRemove
  <2>4. Sum(f, F \ {t}) \in Nat
    BY <2>1, SumIsNat
  <2> QED
    BY <1>1, <2>2, <2>3, <2>4
<1>2. \A a \in D : /\ o[a].calls \in Nat /\ o[a].tokens \in Nat
                   /\ p[a].calls \in Nat /\ p[a].tokens \in Nat
  BY DEF Owned
<1>3. Sum(Cl(p), F) = Sum(Cl(o), F) + c
  <2>1. Cl(o) \in [D -> Nat] /\ Cl(p) \in [D -> Nat]
    BY <1>2 DEF Cl
  <2>2. Cl(p)[t] = Cl(o)[t] + c /\ \A a \in D : a # t => Cl(p)[a] = Cl(o)[a]
    BY DEF Cl
  <2> QED
    BY <1>1, <2>1, <2>2
<1>4. Sum(Tk(p), F) = Sum(Tk(o), F) + n
  <2>1. Tk(o) \in [D -> Nat] /\ Tk(p) \in [D -> Nat]
    BY <1>2 DEF Tk
  <2>2. Tk(p)[t] = Tk(o)[t] + n /\ \A a \in D : a # t => Tk(p)[a] = Tk(o)[a]
    BY DEF Tk
  <2> QED
    BY <1>1, <2>1, <2>2
<1>5. \A a \in F : p[a].started = o[a].started
  OBVIOUS
<1>6. {p[a].started : a \in F} = {o[a].started : a \in F}
  BY <1>5
<1> QED
  BY <1>3, <1>4, <1>6 DEF Balances
-----------------------------------------------------------------------------
(* What work charges a task is charged to its checkpoint too, at most one  *)
(* call and only within the budget, and nothing to what may be continued.  *)
Charges(t, c, n) ==
    /\ task'[t].calls = task[t].calls + c /\ task'[t].tokens = task[t].tokens + n
    /\ task'[t].started = task[t].started /\ task'[t].limits = task[t].limits
    /\ own'[t].calls = own[t].calls + c /\ own'[t].tokens = own[t].tokens + n
    /\ own'[t].started = own[t].started
    /\ \A a \in Issued : a # t => own'[a] = own[a]
    /\ c # 0 => c = 1 /\ ~Exhausted(task[t])
    /\ Continuable(t) => c = 0 /\ n = 0

Billed(t) == \E c \in Nat, n \in Nat : Charges(t, c, n)

(* What a charge does to the ledger. *)
LEMMA ChargeFacts ==
    ASSUME Inv, NEW t \in Retained, NEW c \in Nat, NEW n \in Nat, Charge(t, c, n)
    PROVE  /\ own'[t].calls = own[t].calls + c /\ own'[t].tokens = own[t].tokens + n
           /\ own'[t].started = own[t].started
           /\ \A a \in Issued : a # t => own'[a] = own[a]
<1>1. own[t] \in Owned /\ t \in Issued /\ own \in [Issued -> Owned]
  BY DEF Inv, TypeOK, Owned
<1> DEFINE o == [own[t] EXCEPT !.calls = @ + c]
<1>2. o \in [{"calls", "tokens", "started"} -> Int]
      /\ o.calls = own[t].calls + c /\ o.tokens = own[t].tokens /\ o.started = own[t].started
  BY <1>1 DEF Owned
<1> DEFINE f == [own EXCEPT ![t].calls = @ + c]
<1>3. f = [own EXCEPT ![t] = o]
  BY <1>1
<1>4. own' = [f EXCEPT ![t] = [o EXCEPT !.tokens = @ + n]]
  BY <1>1, <1>3 DEF Charge
<1>5. \A a \in Issued : a # t => own'[a] = own[a]
  BY <1>1, <1>3, <1>4
<1>6. own'[t] = [o EXCEPT !.tokens = @ + n]
  BY <1>1, <1>3, <1>4
<1> HIDE DEF o
<1> QED
  BY <1>2, <1>5, <1>6

(* Saving what was charged. *)
LEMMA Bills ==
    ASSUME Inv, NEW t \in Retained, NEW r, NEW c \in Nat, NEW n \in Nat,
           Save(t, r), DOMAIN r = DOMAIN task[t],
           Charge(t, c, n) \/ (c = 0 /\ n = 0 /\ UNCHANGED own),
           r.calls = task[t].calls + c, r.tokens = task[t].tokens + n,
           r.started = task[t].started, r.limits = task[t].limits,
           c # 0 => c = 1 /\ ~Exhausted(task[t]),
           Continuable(t) => c = 0 /\ n = 0
    PROVE  Billed(t)
<1>1. task[t] \in Tasks /\ own[t] \in Owned
  BY DEF Inv, TypeOK, Owned
<1>2. task'[t] = [r EXCEPT !.updated = now]
  BY DEF Save, Inv, TypeOK
<1>3. /\ task'[t].calls = r.calls /\ task'[t].tokens = r.tokens
      /\ task'[t].started = r.started /\ task'[t].limits = r.limits
  BY <1>1, <1>2 DEF Tasks
<1>4. /\ own'[t].calls = own[t].calls + c /\ own'[t].tokens = own[t].tokens + n
      /\ own'[t].started = own[t].started
      /\ \A a \in Issued : a # t => own'[a] = own[a]
  <2>1. CASE Charge(t, c, n)
    BY <2>1, ChargeFacts
  <2>2. CASE c = 0 /\ n = 0 /\ UNCHANGED own
    BY <1>1, <2>2 DEF Owned
  <2> QED
    BY <2>1, <2>2
<1> QED
  BY <1>3, <1>4 DEF Billed, Charges

(* Whatever work does to a task, its checkpoint is charged what the task is. *)
LEMMA WorkBills ==
    ASSUME Inv, Work
    PROVE  StartTask \/ \E t \in Retained : (\E x \in Tasks : Saved(t, x)) /\ Billed(t)
<1>1. SUFFICES ASSUME ~StartTask
               PROVE  \E t \in Retained : (\E x \in Tasks : Saved(t, x)) /\ Billed(t)
  OBVIOUS
<1>2. PICK t \in Retained :
          \/ RunCommand(t) \/ CompleteTask(t) \/ BeginImprovement(t)
          \/ \E n \in Reports \union {0}, s \in Steps : CheckpointTask(t, n, s)
          \/ \E s \in Pauses \union {"active", "stopped"} : SetTaskStatus(t, s)
          \/ \E n \in Allowances : RequestCandidate(t, n)
          \/ \E n \in Overruns \union {0} : ReceiveHostResult(t, n)
          \/ \E e \in {"active", "closed"} : SettleImprovement(t, e)
  BY <1>1 DEF Work
<1>3. \A n \in Reports \union {0} \union Overruns \union Allowances : n \in Nat
  OBVIOUS
<1>4. Steps \subseteq BOOLEAN /\ Pauses \union {"active", "stopped"} \subseteq Statuses
  BY DEF Statuses
<1>5. \E x \in Tasks : Saved(t, x)
  BY <1>2, <1>3, <1>4, RunCommandSaves, CheckpointTaskSaves, SetTaskStatusSaves,
     CompleteTaskSaves, BeginImprovementSaves, SettleImprovementSaves,
     RequestCandidateSaves, ReceiveHostResultSaves
<1>6. task[t] \in Tasks /\ task[t].calls \in Nat /\ task[t].tokens \in Nat
  BY DEF Inv, TypeOK, Tasks
<1>7. CASE RunCommand(t)
  <2>1. ~Continuable(t)
    BY <1>7 DEF RunCommand, Continuable, Terminal
  <2> DEFINE r == [task[t] EXCEPT !.calls = @ + 1]
  <2>2. /\ r.calls = task[t].calls + 1 /\ r.tokens = task[t].tokens + 0
        /\ r.started = task[t].started /\ r.limits = task[t].limits
        /\ DOMAIN r = DOMAIN task[t]
    BY <1>6 DEF Tasks
  <2>3. Save(t, r) /\ Charge(t, 1, 0) /\ ~Exhausted(task[t])
    BY <1>7 DEF RunCommand
  <2> HIDE DEF r
  <2> QED
    BY <1>5, <2>1, <2>2, <2>3, Bills
<1>8. ASSUME NEW n \in Reports \union {0}, NEW s \in Steps, CheckpointTask(t, n, s)
      PROVE  Billed(t)
  <2>1. ~Continuable(t)
    BY <1>8 DEF CheckpointTask, Continuable
  <2> DEFINE r == [task[t] EXCEPT !.tokens = @ + n, !.step = s]
  <2>2. /\ r.calls = task[t].calls + 0 /\ r.tokens = task[t].tokens + n
        /\ r.started = task[t].started /\ r.limits = task[t].limits
        /\ DOMAIN r = DOMAIN task[t]
    BY <1>6 DEF Tasks
  <2>3. Save(t, r) /\ Charge(t, 0, n)
    BY <1>8 DEF CheckpointTask
  <2> HIDE DEF r
  <2> QED
    BY <1>3, <2>1, <2>2, <2>3, Bills
<1>9. ASSUME NEW r, Save(t, r), UNCHANGED own, DOMAIN r = DOMAIN task[t],
             r.calls = task[t].calls, r.tokens = task[t].tokens,
             r.started = task[t].started, r.limits = task[t].limits
      PROVE  Billed(t)
  <2>1. r.calls = task[t].calls + 0 /\ r.tokens = task[t].tokens + 0
    BY <1>6, <1>9
  <2> QED
    BY <1>9, <2>1, Bills
<1>10. ASSUME CompleteTask(t) \/ BeginImprovement(t)
       PROVE  Billed(t)
  <2>1. CASE CompleteTask(t)
    BY <1>6, <1>9, <2>1 DEF CompleteTask, Tasks
  <2>2. CASE BeginImprovement(t)
    BY <1>6, <1>9, <2>2 DEF BeginImprovement, Tasks
  <2> QED
    BY <1>10, <2>1, <2>2
<1>11. ASSUME NEW s \in Pauses \union {"active", "stopped"}, SetTaskStatus(t, s)
       PROVE  Billed(t)
  BY <1>6, <1>9, <1>11 DEF SetTaskStatus, Tasks
<1>12. ASSUME NEW e \in {"active", "closed"}, SettleImprovement(t, e)
       PROVE  Billed(t)
  BY <1>6, <1>9, <1>12 DEF SettleImprovement, Tasks
<1>13. ASSUME NEW n \in Allowances, RequestCandidate(t, n)
       PROVE  Billed(t)
  <2>1. ~Continuable(t)
    BY <1>13 DEF RequestCandidate, Continuable, Terminal
  <2> DEFINE r == [task[t] EXCEPT !.call = "pending", !.calls = @ + 1, !.tokens = @ + n]
  <2>2. /\ r.calls = task[t].calls + 1 /\ r.tokens = task[t].tokens + n
        /\ r.started = task[t].started /\ r.limits = task[t].limits
        /\ DOMAIN r = DOMAIN task[t]
    BY <1>6 DEF Tasks
  <2>3. Save(t, r) /\ Charge(t, 1, n) /\ ~Exhausted(task[t])
    BY <1>13 DEF RequestCandidate
  <2> HIDE DEF r
  <2> QED
    BY <1>3, <2>1, <2>2, <2>3, Bills
<1>14. ASSUME NEW n \in Overruns \union {0}, ReceiveHostResult(t, n)
       PROVE  Billed(t)
  <2> DEFINE r == [task[t] EXCEPT !.call = "settled", !.tokens = @ + n]
  <2>1. CASE task[t].call = "pending" /\ Save(t, r) /\ Charge(t, 0, n)
    <3>1. ~Continuable(t)
      BY <2>1 DEF Continuable, Resolved, Inv, Engaged
    <3>2. /\ r.calls = task[t].calls + 0 /\ r.tokens = task[t].tokens + n
          /\ r.started = task[t].started /\ r.limits = task[t].limits
          /\ DOMAIN r = DOMAIN task[t]
      BY <1>6 DEF Tasks
    <3> HIDE DEF r
    <3> QED
      BY <1>3, <2>1, <3>1, <3>2, Bills
  <2>2. CASE Save(t, task[t]) /\ UNCHANGED own
    BY <1>9, <2>2
  <2> QED
    BY <1>14, <2>1, <2>2 DEF ReceiveHostResult
<1> QED
  BY <1>2, <1>5, <1>7, <1>8, <1>10, <1>11, <1>12, <1>13, <1>14
-----------------------------------------------------------------------------
(* The invariant about the usage that is carried over. *)
Past == \A a \in Issued : own[a].started <= now

Asked == \A p \in Procs : cont[p].phase # "idle" => cont[p].sources # {}

Books ==
    \A t \in Retained :
        Balances(own, task[t], Family(t)) /\ task[t].calls <= task[t].limits.calls

Ready(p) ==
    LET r == cont[p].successor
    IN  r.lineage # {} /\ Balances(own, r, r.lineage) /\ r.calls <= r.limits.calls

Prepared == \A p \in Procs : cont[p].phase = "checked" => Ready(p)

Accounts == Inv /\ Past /\ Asked /\ Books /\ Prepared

(* Everything that is summed is finite. *)
LEMMA IdsAreFinite ==
    ASSUME Inv
    PROVE  /\ \A S \in SUBSET Issued : IsFiniteSet(S)
           /\ \A t \in Retained : Family(t) \subseteq Issued /\ IsFiniteSet(Family(t))
           /\ \A p \in Procs : IsFiniteSet(cont[p].successor.lineage)
<1>1. \A S \in SUBSET Issued : IsFiniteSet(S)
  <2>1. Issued \subseteq Ids
    BY DEF Inv, TypeOK
  <2> QED
    BY <2>1, FS_Subset
<1>2. \A t \in Retained : Family(t) \subseteq Issued
  BY DEF Family, Inv, TypeOK, Known
<1> QED
  BY <1>1, <1>2 DEF Inv, Known

(* Work on one task. *)
LEMMA SavedKeepsAccounts ==
    ASSUME Accounts, NEW t \in Retained, NEW x \in Tasks, Saved(t, x), Billed(t)
    PROVE  Past' /\ Asked' /\ Books' /\ Prepared'
<1>1. PICK c \in Nat, n \in Nat : Charges(t, c, n)
  BY DEF Billed
<1>2. /\ own \in [Issued -> Owned] /\ own' \in [Issued -> Owned] /\ Issued' = Issued
      /\ Retained' = Retained /\ t \in Issued /\ UNCHANGED <<now, cont>>
      /\ \A u \in Retained : u # t => task'[u] = task[u]
      /\ \A u \in Retained : Family(u)' = Family(u)
  BY DEF Accounts, Inv, TypeOK, Owned, Saved, Issued, Retained, Family, locks
<1>3. \A F \in SUBSET Issued : Continuable(t) \/ t \notin F =>
         \A a \in F : /\ own'[a].calls = own[a].calls /\ own'[a].tokens = own[a].tokens
                      /\ own'[a].started = own[a].started
  BY <1>1, <1>2 DEF Charges, Owned
<1>4. Past'
  BY <1>1, <1>2 DEF Accounts, Past, Charges
<1>5. Asked'
  BY <1>2 DEF Accounts, Asked
<1>6. ASSUME NEW u \in Retained
      PROVE  Balances(own', task'[u], Family(u)) /\ task'[u].calls <= task'[u].limits.calls
  <2>1. /\ Family(u) \subseteq Issued /\ IsFiniteSet(Family(u)) /\ u \in Family(u)
        /\ Balances(own, task[u], Family(u)) /\ task[u].calls <= task[u].limits.calls
    BY IdsAreFinite DEF Accounts, Books, Family
  <2>2. CASE u = t
    <3>1. Balances(own', task'[t], Family(t))
      BY <1>1, <1>2, <2>1, <2>2, ChargedAlike DEF Charges
    <3>2. task'[t].calls <= task'[t].limits.calls
      <4>1. task[t].calls \in Nat /\ task[t].limits.calls \in Nat
        BY DEF Accounts, Inv, TypeOK, Tasks, Budgets
      <4>2. c # 0 => ~(task[t].calls >= task[t].limits.calls)
        BY <1>1 DEF Charges, Exhausted
      <4> QED
        BY <1>1, <2>1, <2>2, <4>1, <4>2 DEF Charges
    <3> QED
      BY <2>2, <3>1, <3>2
  <2>3. CASE u # t
    <3>1. Continuable(t) \/ t \notin Family(u)
      BY <2>3 DEF Accounts, Inv, Settled, Family
    <3> QED
      BY <1>2, <1>3, <2>1, <2>3, <3>1, Uncharged
  <2> QED
    BY <2>2, <2>3
<1>7. Books'
  BY <1>2, <1>6 DEF Books
<1>8. Prepared'
  <2> SUFFICES ASSUME NEW p \in Procs, cont[p].phase = "checked"
               PROVE  Ready(p)'
    BY <1>2 DEF Prepared
  <2> DEFINE r == cont[p].successor
  <2>1. /\ Ready(p) /\ StillTrue(p) /\ IsFiniteSet(r.lineage) /\ r.lineage \subseteq Issued
    BY IdsAreFinite DEF Accounts, Inv, Prepared, Checked, Known
  <2>2. Continuable(t) \/ t \notin r.lineage
    BY <2>1 DEF StillTrue
  <2> QED
    BY <1>2, <1>3, <2>1, <2>2, Uncharged DEF Ready
<1> QED
  BY <1>4, <1>5, <1>7, <1>8

(* A new task, with nothing or with what it takes over. *)
LEMMA CreateKeepsBooks ==
    ASSUME Accounts, NEW r \in Tasks, Create(r), UNCHANGED now, r.lineage \subseteq Issued,
           r.calls <= r.limits.calls,
           \/ r.lineage = {} /\ r.calls = 0 /\ r.tokens = 0 /\ r.started = now
           \/ r.lineage # {} /\ Balances(own, r, r.lineage)
    PROVE  /\ Past' /\ Books' /\ Issued \subseteq Issued'
           /\ \A a \in Issued : own'[a] = own[a]
<1>1. PICK n \in Ids :
        /\ First(n, Ids \ Issued)
        /\ task' = [t \in Retained \union {n} |->
                        IF t = n THEN [r EXCEPT !.updated = now] ELSE task[t]]
        /\ own' = [t \in Issued \union {n} |->
                        IF t = n THEN [calls |-> 0, tokens |-> 0, started |-> now] ELSE own[t]]
  BY DEF Create
<1>2. /\ n \notin Issued /\ n \notin Retained
      /\ Retained' = Retained \union {n} /\ Issued' = Issued \union {n}
  BY <1>1 DEF First, Accounts, Inv, TypeOK, Retained, Issued
<1>3. /\ \A a \in Issued : own'[a] = own[a]
      /\ own'[n].calls = 0 /\ own'[n].tokens = 0 /\ own'[n].started = now
      /\ own' \in [Issued \union {n} -> Owned]
  <2>1. [calls |-> 0, tokens |-> 0, started |-> now] \in Owned
    BY DEF Owned, Accounts, Inv, TypeOK
  <2>2. \A a \in Issued : own[a] \in Owned
    BY DEF Owned, Accounts, Inv, TypeOK
  <2>3. own'[n] = [calls |-> 0, tokens |-> 0, started |-> now]
    BY <1>1
  <2>4. \A a \in Issued : own'[a] = own[a]
    BY <1>1, <1>2
  <2> QED
    BY <1>1, <2>1, <2>2, <2>3, <2>4
<1>4. /\ task'[n].calls = r.calls /\ task'[n].tokens = r.tokens
      /\ task'[n].started = r.started /\ task'[n].limits = r.limits
      /\ task'[n].lineage = r.lineage
      /\ \A t \in Retained : task'[t] = task[t]
  <2>1. task'[n] = [r EXCEPT !.updated = now]
    BY <1>1
  <2> QED
    BY <1>1, <1>2, <2>1 DEF Tasks
<1>5. now \in Nat /\ Past'
  BY <1>2, <1>3 DEF Accounts, Past, Inv, TypeOK
<1>6. ASSUME NEW t \in Retained
      PROVE  Balances(own', task'[t], Family(t)') /\ task'[t].calls <= task'[t].limits.calls
  <2>1. Family(t)' = Family(t) /\ task'[t] = task[t]
    BY <1>4 DEF Family
  <2>2. /\ Family(t) \subseteq Issued /\ IsFiniteSet(Family(t))
        /\ Balances(own, task[t], Family(t)) /\ task[t].calls <= task[t].limits.calls
    BY IdsAreFinite DEF Accounts, Books
  <2>3. Family(t) \subseteq DOMAIN own /\ Family(t) \subseteq DOMAIN own'
    BY <1>2, <2>2 DEF Issued
  <2>4. \A a \in Family(t) : /\ own'[a].calls = own[a].calls /\ own'[a].tokens = own[a].tokens
                              /\ own'[a].started = own[a].started
    BY <1>3, <2>2
  <2> QED
    BY <2>1, <2>2, <2>3, <2>4, Uncharged
<1>7. Balances(own', task'[n], Family(n)') /\ task'[n].calls <= task'[n].limits.calls
  <2> DEFINE L == r.lineage
             F == {n} \union L
             D == Issued \union {n}
  <2>1. /\ Family(n)' = F /\ L \subseteq Issued /\ F \subseteq D /\ F \ {n} = L /\ n \in F
    BY <1>2, <1>4 DEF Family
  <2>2. IsFiniteSet(L) /\ IsFiniteSet(F)
    BY IdsAreFinite, FS_AddElement DEF Accounts
  <2> HIDE DEF L, F
  <2>3. ASSUME NEW f, NEW e \in [D -> Nat], e[n] = 0, \A a \in Issued : e[a] = f[a]
        PROVE  Sum(e, F) = Sum(f, L)
    <3>1. Sum(e, F) = e[n] + Sum(e, L)
      BY <2>1, <2>2, <2>3, SumRemove
    <3>2. Sum(e, L) = Sum(f, L) /\ Sum(e, L) \in Nat
      BY <2>1, <2>2, <2>3, SumSame, SumIsNat
    <3> QED
      BY <2>3, <3>1, <3>2
  <2>4. Sum(Cl(own'), F) = Sum(Cl(own), L)
    <3>1. Cl(own') \in [D -> Nat] /\ Cl(own')[n] = 0
      BY <1>3 DEF Cl, Owned
    <3>2. \A a \in Issued : Cl(own')[a] = Cl(own)[a]
      BY <1>2, <1>3 DEF Cl, Issued
    <3> QED
      BY <2>3, <3>1, <3>2
  <2>5. Sum(Tk(own'), F) = Sum(Tk(own), L)
    <3>1. Tk(own') \in [D -> Nat] /\ Tk(own')[n] = 0
      BY <1>3 DEF Tk, Owned
    <3>2. \A a \in Issued : Tk(own')[a] = Tk(own)[a]
      BY <1>2, <1>3 DEF Tk, Issued
    <3> QED
      BY <2>3, <3>1, <3>2
  <2>6. CASE L = {} /\ r.calls = 0 /\ r.tokens = 0 /\ r.started = now
    <3>1. Sum(Cl(own), L) = 0 /\ Sum(Tk(own), L) = 0
      BY <2>6, SumEmpty
    <3>2. F = {n}
      BY <2>6 DEF F
    <3>3. {own'[a].started : a \in F} = {now}
      BY <1>3, <3>2
    <3>4. IsMin(now, {now})
      BY <1>5 DEF IsMin
    <3> QED
      BY <1>4, <2>1, <2>4, <2>5, <2>6, <3>1, <3>3, <3>4 DEF Balances
  <2>7. CASE L # {} /\ Balances(own, r, L)
    <3> DEFINE T == {own[a].started : a \in L}
    <3>1. r.started \in T /\ \A y \in T : r.started <= y
      BY <2>7 DEF Balances, IsMin
    <3>2. r.started <= now
      BY <2>1, <3>1 DEF Accounts, Past
    <3>3. {own'[a].started : a \in F} = {now} \union T
      <4>1. \A a \in L : own'[a].started = own[a].started
        BY <1>3, <2>1
      <4> QED
        BY <1>3, <4>1 DEF F
    <3>4. IsMin(r.started, {now} \union T)
      BY <3>1, <3>2 DEF IsMin
    <3> QED
      BY <1>4, <2>1, <2>4, <2>5, <2>7, <3>3, <3>4 DEF Balances
  <2> QED
    BY <1>4, <2>6, <2>7 DEF L
<1>8. Books'
  BY <1>2, <1>6, <1>7 DEF Books
<1> QED
  BY <1>2, <1>3, <1>5, <1>8
-----------------------------------------------------------------------------
(* The check establishes what the save relies on: the sum of what the      *)
(* sources count is the sum over all that they succeed.                    *)
LEMMA CheckPrepares ==
    ASSUME Accounts, NEW p \in Procs, CheckSources(p)
    PROVE  Past' /\ Asked' /\ Books' /\ Prepared'
<1> DEFINE S == cont[p].sources
           r == Successor(S, cont[p].limits)
           L == Lineage(S)
<1>1. /\ S \subseteq Retained /\ Apart(S) /\ r \in Tasks /\ ~Exhausted(r) /\ S # {}
      /\ config = Nobody /\ config' = p /\ S \subseteq Issued
  BY DEF CheckSources, MayContinue, Accounts, Asked, Inv, TypeOK
<1>2. /\ r.lineage = L /\ r.calls = CallsOf(task, S) /\ r.tokens = TokensOf(task, S)
      /\ r.started = Min({task[s].started : s \in S})
  BY DEF Successor, NoTask
<1>3. /\ UNCHANGED <<task, own, now>> /\ cont[p] \in Continuations
      /\ \A q \in Procs : q # p => cont'[q] = cont[q]
      /\ cont'[p].successor = r /\ cont'[p].sources = S
  BY DEF CheckSources, checkpoints, Accounts, Inv, TypeOK, Continuations
<1> HIDE DEF r
<1>4. \A q \in Procs : q # p => cont[q].phase # "checked"
  BY <1>1 DEF Accounts, Inv, Checked, StillTrue
<1> DEFINE fam == [s \in S |-> Family(s)]
<1>5. /\ IsFiniteSet(S) /\ IsFiniteSet(Issued) /\ fam \in [S -> SUBSET Issued]
      /\ \A s, t \in S : s # t => fam[s] \cap fam[t] = {}
      /\ UNION {fam[s] : s \in S} = L
  <2>1. IsFiniteSet(S) /\ IsFiniteSet(Issued) /\ \A s \in S : Family(s) \subseteq Issued
    BY <1>1, IdsAreFinite DEF Accounts
  <2>2. \A s, t \in S : s # t => Family(s) \cap Family(t) = {}
    BY <1>1 DEF Apart
  <2>3. UNION {fam[s] : s \in S} = L
    <3>1. {fam[s] : s \in S} = {Family(s) : s \in S}
      OBVIOUS
    <3>2. \A a : a \in UNION {Family(s) : s \in S} <=> \E s \in S : a = s \/ a \in task[s].lineage
      BY DEF Family
    <3>3. \A a : a \in L <=> \E s \in S : a = s \/ a \in task[s].lineage
      BY DEF Lineage
    <3> HIDE DEF S, fam, L
    <3> QED
      BY <3>1, <3>2, <3>3
  <2> QED
    BY <2>1, <2>2, <2>3
<1>6. \A s \in S : Balances(own, task[s], fam[s])
  BY <1>1 DEF Accounts, Books
<1>7. \A a \in Issued : own[a].calls \in Nat /\ own[a].tokens \in Nat /\ own[a].started \in Nat
  BY DEF Accounts, Inv, TypeOK
<1>8. r.calls = Sum(Cl(own), L)
  <2>1. r.calls = Sum(Cl(task), S)
    BY <1>1, <1>2, <1>5, CallsAreSum DEF Retained
  <2>2. \A s \in S : Cl(task)[s] = Sum(Cl(own), fam[s])
    BY <1>1, <1>6 DEF Balances, Cl, Retained
  <2>3. \A a \in Issued : Cl(own)[a] \in Nat
    BY <1>7 DEF Cl, Issued
  <2> HIDE DEF fam
  <2>4. Sum(Cl(task), S) = Sum(Cl(own), UNION {fam[s] : s \in S})
    BY <1>5, <2>2, <2>3, SumOfSums
  <2> QED
    BY <1>5, <2>1, <2>4
<1>9. r.tokens = Sum(Tk(own), L)
  <2>1. r.tokens = Sum(Tk(task), S)
    BY <1>1, <1>2, <1>5, TokensAreSum DEF Retained
  <2>2. \A s \in S : Tk(task)[s] = Sum(Tk(own), fam[s])
    BY <1>1, <1>6 DEF Balances, Tk, Retained
  <2>3. \A a \in Issued : Tk(own)[a] \in Nat
    BY <1>7 DEF Tk, Issued
  <2> HIDE DEF fam
  <2>4. Sum(Tk(task), S) = Sum(Tk(own), UNION {fam[s] : s \in S})
    BY <1>5, <2>2, <2>3, SumOfSums
  <2> QED
    BY <1>5, <2>1, <2>4
<1>10. IsMin(r.started, {own[a].started : a \in L})
  <2> DEFINE T == {task[s].started : s \in S}
  <2>1. T \subseteq Nat /\ T # {}
    <3>1. \A s \in S : task[s] \in Tasks
      BY <1>1 DEF Accounts, Inv, TypeOK
    <3>2. \A s \in S : task[s].started \in Nat
      BY <3>1 DEF Tasks
    <3> QED
      BY <1>1, <3>2
  <2>2. r.started \in T /\ \A y \in T : r.started <= y
    <3> HIDE DEF T
    <3>1. IsMin(Min(T), T)
      BY <2>1, MinIsMin
    <3> QED
      BY <1>2, <3>1 DEF IsMin, T
  <2>3. PICK s \in S : r.started = task[s].started
    BY <2>2
  <2>4. \E a \in fam[s] : r.started = own[a].started
    BY <1>6, <2>3 DEF Balances, IsMin
  <2>5. ASSUME NEW a \in L PROVE r.started <= own[a].started
    <3>1. PICK t \in S : a \in fam[t]
      BY <1>5
    <3>2. task[t].started <= own[a].started /\ r.started <= task[t].started
      BY <1>6, <2>2, <3>1 DEF Balances, IsMin
    <3>3. own[a].started \in Nat /\ task[t].started \in Nat /\ r.started \in Nat
      <4>1. a \in Issued
        BY <1>5, <3>1
      <4> QED
        BY <1>7, <2>1, <2>2, <4>1
    <3> QED
      BY <3>2, <3>3
  <2> QED
    BY <1>5, <2>3, <2>4, <2>5 DEF IsMin
<1>11. Ready(p)'
  <2>1. L # {}
    BY <1>1 DEF Lineage
  <2>2. r.calls <= r.limits.calls
    <3>1. r.calls \in Nat /\ r.limits.calls \in Nat
      BY <1>1 DEF Tasks, Budgets
    <3> QED
      BY <1>1, <3>1 DEF Exhausted
  <2>3. Balances(own, r, L)
    BY <1>8, <1>9, <1>10 DEF Balances
  <2> QED
    BY <1>2, <1>3, <2>1, <2>2, <2>3 DEF Ready
<1>12. Prepared'
  BY <1>3, <1>4, <1>11 DEF Prepared
<1>13. Past' /\ Books'
  BY <1>3 DEF Accounts, Past, Books, Issued, Retained, Family
<1>14. Asked'
  BY <1>1, <1>3 DEF Accounts, Asked
<1> QED
  BY <1>12, <1>13, <1>14

(* A successor takes over what the check has found. *)
LEMMA SaveKeepsAccounts ==
    ASSUME Accounts, NEW p \in Procs, SaveSuccessor(p)
    PROVE  Past' /\ Asked' /\ Books' /\ Prepared'
<1> DEFINE r == cont[p].successor
<1>1. /\ Create(r) /\ Release(p) /\ UNCHANGED <<now, prune, saved, renewed>>
      /\ Ready(p) /\ config = p
  BY DEF SaveSuccessor, Accounts, Inv, Checked, StillTrue, Prepared
<1>2. r \in Tasks /\ r.lineage \subseteq Issued
  BY DEF Accounts, Inv, TypeOK, Continuations, Known
<1>3. Past' /\ Books'
  BY <1>1, <1>2, CreateKeepsBooks DEF Ready
<1>4. /\ cont'[p].phase = "idle" /\ \A q \in Procs : q # p => cont'[q] = cont[q]
      /\ \A q \in Procs : q # p => cont[q].phase # "checked"
  BY <1>1, ReleaseFacts DEF Accounts, Inv, Checked, StillTrue
<1> QED
  BY <1>3, <1>4 DEF Accounts, Asked, Prepared

(* A new task starts with nothing. *)
LEMMA StartKeepsAccounts ==
    ASSUME Accounts, StartTask
    PROVE  Past' /\ Asked' /\ Books' /\ Prepared'
<1> DEFINE r == [NoTask EXCEPT !.started = now]
<1>1. now \in Nat
  BY DEF Accounts, Inv, TypeOK
<1>2. /\ r \in Tasks /\ r.lineage = {} /\ r.calls = 0 /\ r.tokens = 0 /\ r.started = now
      /\ r.limits = ProjectLimits
  BY <1>1, NoTaskType DEF NoTask, Tasks
<1>3. 0 <= ProjectLimits.calls
  BY DEF Budgets
<1>4. Create(r) /\ UNCHANGED <<now, cont>>
  BY DEF StartTask, locks
<1> HIDE DEF r
<1>5. /\ Past' /\ Books' /\ Issued \subseteq Issued'
      /\ \A a \in Issued : own'[a] = own[a]
  BY <1>2, <1>3, <1>4, CreateKeepsBooks
<1>6. Asked'
  BY <1>4 DEF Accounts, Asked
<1>7. Prepared'
  <2> SUFFICES ASSUME NEW p \in Procs, cont[p].phase = "checked"
               PROVE  Ready(p)'
    BY <1>4 DEF Prepared
  <2> DEFINE L == cont[p].successor.lineage
  <2>1. Ready(p) /\ IsFiniteSet(L) /\ L \subseteq Issued /\ L \subseteq Issued'
    BY <1>5, IdsAreFinite DEF Accounts, Inv, Prepared, Known
  <2>2. \A a \in L : own'[a] = own[a]
    BY <1>5, <2>1
  <2> QED
    BY <1>4, <2>1, <2>2, Uncharged DEF Ready, Issued
<1> QED
  BY <1>5, <1>6, <1>7

(* Steps that leave the ledger alone. *)
LEMMA QuietKeepsAccounts ==
    ASSUME Accounts, UNCHANGED own, now' \in Nat, now' >= now, Retained' \subseteq Retained,
           \A t \in Retained' : task'[t] = task[t],
           \A p \in Procs : \/ cont'[p] = cont[p]
                            \/ cont'[p].phase = "idle"
                            \/ cont'[p].phase = "locking" /\ cont'[p].sources # {}
    PROVE  Past' /\ Asked' /\ Books' /\ Prepared'
<1>1. Past'
  <2>1. \A a \in Issued : own[a].started \in Nat /\ own[a].started <= now /\ now \in Nat
    BY DEF Accounts, Past, Inv, TypeOK
  <2> QED
    BY <2>1 DEF Past, Issued
<1>2. Asked' /\ Prepared'
  BY DEF Accounts, Asked, Prepared, Ready
<1>3. Books'
  BY DEF Accounts, Books, Family
<1> QED
  BY <1>1, <1>2, <1>3

(* Every step keeps the books. *)
LEMMA StepKeepsAccounts ==
    ASSUME Accounts, [Next]_vars
    PROVE  Accounts'
<1> SUFFICES Past' /\ Asked' /\ Books' /\ Prepared'
  BY StepKeepsInv DEF Accounts
<1>1. now \in Nat
  BY DEF Accounts, Inv, TypeOK
<1>2. CASE Work
  <2>1. Inv
    BY DEF Accounts
  <2> QED
    BY <1>2, <2>1, WorkBills, StartKeepsAccounts, SavedKeepsAccounts
<1>3. ASSUME NEW p \in Procs, Continue(p)
      PROVE  Past' /\ Asked' /\ Books' /\ Prepared'
  <2>1. CASE CheckSources(p)
    BY <2>1, CheckPrepares
  <2>2. CASE SaveSuccessor(p)
    BY <2>2, SaveKeepsAccounts
  <2>3. CASE LockSource(p)
    BY <1>1, <2>3, QuietKeepsAccounts DEF LockSource, checkpoints, Retained
  <2>4. CASE RefuseSources(p) \/ GiveUp(p)
    <3>1. Release(p) /\ UNCHANGED <<task, own, now>>
      BY <2>4 DEF RefuseSources, GiveUp, checkpoints
    <3> QED
      BY <1>1, <3>1, ReleaseFacts, QuietKeepsAccounts DEF Retained, Accounts
  <2>5. ASSUME NEW S \in SUBSET Issued, NEW l \in Limits, AskToContinue(p, S, l)
        PROVE  Past' /\ Asked' /\ Books' /\ Prepared'
    <3> DEFINE c == [Idle EXCEPT !.phase = "locking", !.sources = S, !.limits = l]
    <3>1. c.phase = "locking" /\ c.sources = S /\ S # {}
      BY <2>5 DEF AskToContinue, Idle
    <3>2. cont'[p] = c /\ \A q \in Procs : q # p => cont'[q] = cont[q]
      BY <2>5 DEF AskToContinue, Accounts, Inv, TypeOK
    <3> HIDE DEF c
    <3>3. UNCHANGED <<task, own, now>>
      BY <2>5 DEF AskToContinue, checkpoints
    <3> QED
      BY <1>1, <3>1, <3>2, <3>3, QuietKeepsAccounts DEF Retained
  <2> QED
    BY <1>3, <2>1, <2>2, <2>3, <2>4, <2>5 DEF Continue, Decide
<1>4. CASE Pruning \/ Tick \/ UNCHANGED vars
  <2>1. now' \in Nat /\ now' >= now
    BY <1>1, <1>4, PruneGoesOn DEF Accounts, Pruning, Tick, vars
  <2> QED
    BY <1>4, <2>1, PruneOnlyDeletes, QuietKeepsAccounts
<1> QED
  BY <1>2, <1>3, <1>4 DEF Next, Pruning

(* The books always balance. *)
LEMMA AccountsHold == Spec => []Accounts
<1>1. Init => Accounts
  <2> SUFFICES ASSUME Init PROVE Accounts
    OBVIOUS
  <2>1. Retained = {} /\ Issued = {} /\ \A p \in Procs : cont[p] = Idle
    BY DEF Init, Retained, Issued
  <2>2. Idle.phase = "idle"
    BY DEF Idle
  <2> QED
    BY <2>1, <2>2, InitHasInv DEF Accounts, Past, Asked, Books, Prepared
<1> QED
  BY <1>1, StepKeepsAccounts, PTL DEF Spec

(* Every unit charged to a task or an ancestor is counted once.            *)
THEOREM UsageIsCountedOnce == Spec => []UsageCountedOnce
<1>1. ASSUME Accounts PROVE UsageCountedOnce
  <2> SUFFICES ASSUME NEW t \in Retained
               PROVE  /\ task[t].calls = CallsOf(own, Family(t))
                      /\ task[t].tokens = TokensOf(own, Family(t))
                      /\ task[t].started = Min({own[a].started : a \in Family(t)})
    BY DEF UsageCountedOnce
  <2>1. Family(t) \subseteq Issued /\ IsFiniteSet(Family(t))
    BY <1>1, IdsAreFinite DEF Accounts
  <2>2. Balances(own, task[t], Family(t))
    BY <1>1 DEF Accounts, Books
  <2>3. task[t].calls = CallsOf(own, Family(t)) /\ task[t].tokens = TokensOf(own, Family(t))
    BY <2>1, <2>2, CallsAreSum, TokensAreSum DEF Balances, Issued
  <2> DEFINE T == {own[a].started : a \in Family(t)}
  <2>4. T \subseteq Nat /\ T # {}
    <3>1. t \in Family(t) /\ \A a \in Family(t) : own[a].started \in Nat
      BY <1>1, <2>1 DEF Accounts, Inv, TypeOK, Family
    <3> QED
      BY <3>1
  <2>5. IsMin(task[t].started, T)
    BY <2>2 DEF Balances
  <2> HIDE DEF T
  <2>6. Min(T) = task[t].started
    BY <2>4, <2>5, MinIsMin
  <2> QED
    BY <2>3, <2>6 DEF T
<1> QED
  BY <1>1, AccountsHold, PTL

(* The calls of a task and of all it succeeds stay within its limit.       *)
THEOREM CallsStayAuthorised == Spec => []CallsWithinAuthority
<1>1. ASSUME Accounts PROVE CallsWithinAuthority
  <2> SUFFICES ASSUME NEW t \in Retained
               PROVE  CallsOf(own, Family(t)) <= task[t].limits.calls
    BY DEF CallsWithinAuthority
  <2>1. Family(t) \subseteq Issued /\ IsFiniteSet(Family(t))
    BY <1>1, IdsAreFinite DEF Accounts
  <2>2. Balances(own, task[t], Family(t)) /\ task[t].calls <= task[t].limits.calls
    BY <1>1 DEF Accounts, Books
  <2> QED
    BY <2>1, <2>2, CallsAreSum DEF Balances, Issued
<1> QED
  BY <1>1, AccountsHold, PTL
-----------------------------------------------------------------------------
(* A task that is continued is found in the lineage of its successor, so   *)
(* the check refuses it for as long as the successor is retained.          *)
Fresh ==
    \A p \in Procs : cont[p].phase = "checked" =>
        /\ cont[p].sources \subseteq cont[p].successor.lineage
        /\ \A u \in Retained : cont[p].sources \cap task[u].lineage = {}

(* Steps that add no lineage and check nothing. *)
LEMMA FreshStays ==
    ASSUME Fresh,
           \A u \in Retained' : \/ u \in Retained /\ task'[u].lineage = task[u].lineage
                                \/ task'[u].lineage = {},
           \A p \in Procs : cont'[p] = cont[p] \/ cont'[p].phase # "checked"
    PROVE  Fresh'
<1> SUFFICES ASSUME NEW p \in Procs, cont'[p].phase = "checked"
             PROVE  /\ cont'[p].sources \subseteq cont'[p].successor.lineage
                    /\ \A u \in Retained' : cont'[p].sources \cap task'[u].lineage = {}
  BY DEF Fresh
<1>1. cont'[p] = cont[p]
  OBVIOUS
<1> QED
  BY <1>1 DEF Fresh

(* What work adds or saves consumes nothing. *)
LEMMA WorkConsumesNothing ==
    ASSUME Inv, Work
    PROVE  /\ UNCHANGED <<uses, cont>> /\ Retained \subseteq Retained'
           /\ \A u \in Retained : task'[u].lineage = task[u].lineage
           /\ \A u \in Retained' : u \notin Retained => task'[u].lineage = {}
<1>1. CASE StartTask
  <2> DEFINE r == [NoTask EXCEPT !.started = now]
  <2>1. r \in Tasks /\ r.lineage = {}
    BY NoTaskType DEF NoTask, Tasks, Inv, TypeOK
  <2>2. Create(r) /\ UNCHANGED <<uses, cont>>
    BY <1>1 DEF StartTask, locks
  <2> HIDE DEF r
  <2>3. PICK n \in Ids : /\ n \notin Retained /\ Retained' = Retained \union {n}
                         /\ task'[n].lineage = {} /\ \A t \in Retained : task'[t] = task[t]
    BY <2>1, <2>2, Created
  <2> QED
    BY <2>2, <2>3
<1>2. ASSUME NEW t \in Retained, NEW x \in Tasks, Saved(t, x)
      PROVE  /\ UNCHANGED <<uses, cont>> /\ Retained' = Retained
             /\ \A u \in Retained : task'[u].lineage = task[u].lineage
  BY <1>2 DEF Saved, locks, Retained, Inv, TypeOK
<1> QED
  BY <1>1, <1>2, WorkSaves

(* What the check found holds until the save, also while retention deletes. *)
LEMMA StepKeepsFresh ==
    ASSUME Inv, Fresh, [Next]_vars
    PROVE  Fresh'
<1>1. CASE Work
  BY <1>1, WorkConsumesNothing, FreshStays
<1>2. ASSUME NEW p \in Procs, CheckSources(p)
      PROVE  Fresh'
  <2> DEFINE S == cont[p].sources
             r == Successor(S, cont[p].limits)
  <2>1. /\ Unused(S) /\ config = Nobody /\ UNCHANGED task /\ cont[p] \in Continuations
        /\ \A q \in Procs : q # p => cont'[q] = cont[q]
        /\ cont'[p].successor = r /\ cont'[p].sources = S
    BY <1>2 DEF CheckSources, MayContinue, checkpoints, Inv, TypeOK, Continuations
  <2>2. r.lineage = Lineage(S) /\ S \subseteq Lineage(S)
    BY DEF Successor, NoTask, Lineage
  <2>3. \A q \in Procs : cont[q].phase # "checked"
    BY <2>1 DEF Inv, Checked, StillTrue
  <2> HIDE DEF r
  <2> QED
    BY <2>1, <2>2, <2>3 DEF Fresh, Unused, Retained
<1>3. ASSUME NEW p \in Procs, SaveSuccessor(p)
      PROVE  Fresh'
  <2>1. \A q \in Procs : cont'[q].phase # "checked"
    BY <1>3, ReleaseFacts DEF SaveSuccessor, Inv, Checked, StillTrue
  <2> QED
    BY <2>1 DEF Fresh
<1>4. ASSUME NEW p \in Procs, LockSource(p)
      PROVE  Fresh'
  BY <1>4, FreshStays DEF LockSource, checkpoints, Retained
<1>5. ASSUME NEW p \in Procs, RefuseSources(p) \/ GiveUp(p)
      PROVE  Fresh'
  <2>1. Release(p) /\ UNCHANGED task
    BY <1>5 DEF RefuseSources, GiveUp, checkpoints
  <2> QED
    BY <2>1, ReleaseFacts, FreshStays DEF Retained
<1>6. ASSUME NEW p \in Procs, NEW S \in SUBSET Issued, NEW l \in Limits, AskToContinue(p, S, l)
      PROVE  Fresh'
  <2> DEFINE c == [Idle EXCEPT !.phase = "locking", !.sources = S, !.limits = l]
  <2>1. c.phase = "locking"
    BY DEF Idle
  <2>2. cont'[p] = c /\ (\A q \in Procs : q # p => cont'[q] = cont[q]) /\ UNCHANGED task
    BY <1>6 DEF AskToContinue, checkpoints, Inv, TypeOK
  <2> HIDE DEF c
  <2> QED
    BY <2>1, <2>2, FreshStays DEF Retained
<1>7. CASE Pruning \/ Tick \/ UNCHANGED vars
  BY <1>7, PruneOnlyDeletes, FreshStays
<1> QED
  BY <1>1, <1>2, <1>3, <1>4, <1>5, <1>6, <1>7 DEF Next, Continue, Decide, Pruning

LEMMA FreshHolds == Spec => [](Inv /\ Fresh)
<1>1. Init => Inv /\ Fresh
  <2> SUFFICES ASSUME Init PROVE Fresh
    BY InitHasInv
  <2>1. \A p \in Procs : cont[p].phase # "checked"
    BY DEF Init, Idle
  <2> QED
    BY <2>1 DEF Fresh
<1> QED
  BY <1>1, StepKeepsInv, StepKeepsFresh, PTL DEF Spec

(* A step consumes a task only if no retained checkpoint answers for it    *)
(* yet, and from then on its successor does: two lines of work never go    *)
(* on from one task side by side, whatever retention deletes.              *)
ConsumedBySuccessor ==
    [][\A t \in Ids : uses'[t] # uses[t] =>
            /\ \A u \in Retained : t \notin task[u].lineage
            /\ \E n \in DOMAIN task' \ Retained : t \in task'[n].lineage]_vars

(* The only step that consumes tasks, and what it does to them. *)
LEMMA OnlySaveConsumes ==
    ASSUME Inv, [Next]_vars
    PROVE  UNCHANGED uses \/ \E p \in Procs : SaveSuccessor(p)
<1>1. CASE Work
  BY <1>1, WorkConsumesNothing
<1>2. ASSUME NEW p \in Procs, Continue(p), ~SaveSuccessor(p)
      PROVE  UNCHANGED uses
  BY <1>2 DEF Continue, AskToContinue, LockSource, Decide, CheckSources, RefuseSources, GiveUp
<1>3. CASE Pruning \/ Tick \/ UNCHANGED vars
  BY <1>3, PruneOnlyDeletes
<1> QED
  BY <1>1, <1>2, <1>3 DEF Next, Pruning

LEMMA SaveConsumes ==
    ASSUME Inv, Fresh, NEW p \in Procs, SaveSuccessor(p)
    PROVE  /\ \A t \in cont[p].sources : \A u \in Retained : t \notin task[u].lineage
           /\ uses \in [Ids -> Nat]
           /\ uses' = [t \in Ids |-> IF t \in cont[p].sources THEN uses[t] + 1 ELSE uses[t]]
           /\ \A t \in Retained : task'[t] = task[t]
           /\ \E n \in Ids : /\ n \notin Retained /\ Retained' = Retained \union {n}
                             /\ cont[p].sources \subseteq task'[n].lineage
<1> DEFINE r == cont[p].successor
           S == cont[p].sources
<1>1. /\ Create(r) /\ r \in Tasks
      /\ uses' = [t \in Ids |-> IF t \in S THEN uses[t] + 1 ELSE uses[t]]
      /\ S \subseteq r.lineage /\ \A u \in Retained : S \cap task[u].lineage = {}
      /\ uses \in [Ids -> Nat]
  BY DEF SaveSuccessor, Inv, TypeOK, Continuations, Fresh
<1>2. PICK n \in Ids : /\ n \notin Retained /\ Retained' = Retained \union {n}
                       /\ task'[n].lineage = r.lineage
                       /\ \A t \in Retained : task'[t] = task[t]
  BY <1>1, Created
<1> QED
  BY <1>1, <1>2

(* A task is continued only when no retained checkpoint succeeds it.       *)
THEOREM OneSuccessorAtATime == Spec => ConsumedBySuccessor
<1> DEFINE Alone == \A t \in Ids : uses'[t] # uses[t] =>
                        /\ \A u \in Retained : t \notin task[u].lineage
                        /\ \E n \in DOMAIN task' \ Retained : t \in task'[n].lineage
<1>1. ASSUME Inv /\ Fresh, [Next]_vars
      PROVE  [Alone]_vars
  <2> SUFFICES ASSUME NEW t \in Ids, uses'[t] # uses[t]
               PROVE  /\ \A u \in Retained : t \notin task[u].lineage
                      /\ \E n \in DOMAIN task' \ Retained : t \in task'[n].lineage
    OBVIOUS
  <2>1. PICK p \in Procs : SaveSuccessor(p)
    BY <1>1, OnlySaveConsumes
  <2>2. t \in cont[p].sources
    BY <1>1, <2>1, SaveConsumes
  <2> QED
    BY <1>1, <2>1, <2>2, SaveConsumes DEF Retained
<1> QED
  BY <1>1, FreshHolds, PTL DEF Spec, ConsumedBySuccessor

(* As long as no checkpoint is deleted, a lineage also shows every use.    *)
NothingPruned == [][Retained \subseteq DOMAIN task']_vars

Marked ==
    \A t \in Ids : uses[t] # 0 => uses[t] = 1 /\ \E u \in Retained : t \in task[u].lineage

LEMMA StepKeepsMarked ==
    ASSUME Inv, Fresh, Marked, [Next]_vars, Retained \subseteq Retained'
    PROVE  Marked'
<1>1. CASE \E p \in Procs : SaveSuccessor(p)
  <2>1. PICK p \in Procs : SaveSuccessor(p)
    BY <1>1
  <2> SUFFICES ASSUME NEW t \in Ids, uses'[t] # 0
               PROVE  uses'[t] = 1 /\ \E u \in Retained' : t \in task'[u].lineage
    BY DEF Marked
  <2>2. CASE t \in cont[p].sources
    <3>1. uses[t] = 0
      BY <2>1, <2>2, SaveConsumes DEF Marked
    <3> QED
      BY <2>1, <2>2, <3>1, SaveConsumes
  <2>3. CASE t \notin cont[p].sources
    BY <2>1, <2>3, SaveConsumes DEF Marked
  <2> QED
    BY <2>2, <2>3
<1>2. CASE UNCHANGED uses
  <2>1. \A u \in Retained : task'[u].lineage = task[u].lineage
    <3>1. CASE Work
      BY <3>1, WorkConsumesNothing
    <3>2. ASSUME NEW p \in Procs, Continue(p)
          PROVE  \A u \in Retained : task'[u].lineage = task[u].lineage
      BY <3>2, SaveConsumes DEF Continue, AskToContinue, LockSource, Decide, CheckSources,
                                RefuseSources, GiveUp, checkpoints
    <3>3. CASE Pruning \/ Tick \/ UNCHANGED vars
      BY <3>3, PruneOnlyDeletes
    <3> QED
      BY <3>1, <3>2, <3>3 DEF Next, Pruning
  <2> QED
    BY <1>2, <2>1 DEF Marked
<1> QED
  BY <1>1, <1>2, OnlySaveConsumes

(* As long as retention deletes nothing, no task is continued twice, by    *)
(* processes that race or one after the other.                             *)
THEOREM SourcesAreConsumedOnce == Spec /\ NothingPruned => []ConsumedOnce
<1>1. Init => Marked
  <2>1. Init => \A t \in Ids : uses[t] = 0
    BY DEF Init
  <2> QED
    BY <2>1 DEF Marked
<1>2. ASSUME Inv /\ Fresh, Marked, [Next]_vars, [Retained \subseteq DOMAIN task']_vars
      PROVE  Marked'
  <2>1. Retained \subseteq Retained'
    BY <1>2 DEF vars, checkpoints, Retained
  <2> QED
    BY <1>2, <2>1, StepKeepsMarked
<1>3. Marked => ConsumedOnce
  <2> SUFFICES ASSUME Marked, NEW t \in Ids PROVE uses[t] <= 1
    BY DEF ConsumedOnce
  <2> QED
    BY DEF Marked
<1> QED
  BY <1>1, <1>2, <1>3, FreshHolds, PTL DEF Spec, NothingPruned

-----------------------------------------------------------------------------

-----------------------------------------------------------------------------
(* What a prune is about to delete left enough behind, and still does: as  *)
(* many as it keeps were saved at the same time or later, and that only    *)
(* gets more.  It knows the times of the last save of what it has read,    *)
(* but for a task that was saved again meanwhile.                          *)
Enough(w, t) == Cardinality({u \in DOMAIN w \ {t} : w[u] >= w[t]}) >= Keep

Unfinished == \A p \in Procs : cont[p].successor.status = "active"

Remembers ==
    /\ \A t \in Retained : task[t].status = "completed" <=> t \in DOMAIN saved
    /\ \A t \in Retained \intersect DOMAIN saved : saved[t] = task[t].updated
    /\ \A t \in DOMAIN saved : saved[t] <= now

KnowsLatest(q) ==
    /\ \A t \in DOMAIN q.stamp : /\ t \in DOMAIN saved /\ q.stamp[t] <= saved[t]
                                 /\ t \notin renewed => q.stamp[t] = saved[t]
    /\ q.phase = "reading" => q.old \intersect DOMAIN saved \subseteq DOMAIN q.stamp
    /\ q.phase = "deleting" =>
           \A t \in (q.old \intersect DOMAIN saved) \ renewed : Enough(saved, t)

KnowLatest == \A r \in Pruners : KnowsLatest(prune[r])

Kept == Inv /\ Unfinished /\ Remembers /\ KnowLatest /\ LatestKept

(* The lesser of two numbers. *)
LEMMA MinOfTwo ==
    ASSUME NEW a \in Nat, NEW b \in Nat
    PROVE  \/ Min({a, b}) = a /\ a <= b
           \/ Min({a, b}) = b /\ b <= a
<1> DEFINE T == {a, b}
<1>1. T \subseteq Nat /\ T # {}
  OBVIOUS
<1>2. Min(T) \in T /\ \A y \in T : Min(T) <= y
  <2> HIDE DEF T
  <2> QED
    BY <1>1, MinIsMin DEF IsMin
<1>3. /\ Min({a, b}) = a \/ Min({a, b}) = b
      /\ Min({a, b}) <= a /\ Min({a, b}) <= b
  BY <1>2
<1> QED
  BY <1>3

LEMMA SavedType ==
    ASSUME Inv
    PROVE  /\ DOMAIN saved \subseteq Ids /\ IsFiniteSet(DOMAIN saved) /\ now \in Nat
           /\ \A t \in DOMAIN saved : saved[t] \in Nat
<1>1. DOMAIN saved \subseteq Ids /\ now \in Nat /\ \A t \in DOMAIN saved : saved[t] \in Nat
  BY DEF Inv, TypeOK
<1> QED
  BY <1>1, FS_Subset

(* Enough stays enough while others are saved. *)
LEMMA EnoughGrows ==
    ASSUME NEW v, NEW w, DOMAIN v \subseteq DOMAIN w, IsFiniteSet(DOMAIN w), NEW t \in DOMAIN v,
           w[t] = v[t], \A u \in DOMAIN v : v[u] \in Nat /\ w[u] \in Nat /\ v[u] <= w[u],
           Enough(v, t)
    PROVE  Enough(w, t)
<1> DEFINE A == {u \in DOMAIN v \ {t} : v[u] >= v[t]}
           B == {u \in DOMAIN w \ {t} : w[u] >= w[t]}
<1>1. A \subseteq B /\ B \subseteq DOMAIN w
  OBVIOUS
<1>2. Cardinality(A) >= Keep
  BY DEF Enough
<1> HIDE DEF A, B
<1>3. IsFiniteSet(B) /\ IsFiniteSet(A)
  BY <1>1, FS_Subset
<1>4. Cardinality(A) <= Cardinality(B)
  BY <1>1, <1>3, FS_Subset
<1>5. Cardinality(A) \in Nat /\ Cardinality(B) \in Nat
  BY <1>3, FS_CardinalityType
<1>6. Cardinality(B) >= Keep
  BY <1>2, <1>4, <1>5
<1> QED
  BY <1>6 DEF Enough, B

(* A set of Keep others is enough. *)
LEMMA KeepIsEnough ==
    ASSUME NEW w, IsFiniteSet(DOMAIN w), NEW t, NEW S, Cardinality(S) = Keep,
           S \subseteq DOMAIN w \ {t}, \A u \in S : w[u] >= w[t]
    PROVE  Enough(w, t)
<1> DEFINE B == {u \in DOMAIN w \ {t} : w[u] >= w[t]}
<1>1. S \subseteq B /\ B \subseteq DOMAIN w
  OBVIOUS
<1> HIDE DEF B
<1>2. IsFiniteSet(B) /\ IsFiniteSet(S)
  BY <1>1, FS_Subset
<1>3. Cardinality(S) <= Cardinality(B) /\ Cardinality(B) \in Nat
  BY <1>1, <1>2, FS_Subset, FS_CardinalityType
<1>4. Cardinality(B) >= Keep
  BY <1>3
<1> QED
  BY <1>4 DEF Enough, B

(* LatestKept, in these words. *)
LEMMA LatestIsEnough ==
    LatestKept <=> \A t \in DOMAIN saved \ (Retained \union renewed) : Enough(saved, t)
  BY DEF LatestKept, Enough

(* A step that leaves completed tasks and prunes alone. *)
Aside ==
    /\ UNCHANGED <<saved, renewed>> /\ Retained \subseteq Retained'
    /\ \A t \in Retained : /\ task'[t].status = "completed" <=> task[t].status = "completed"
                           /\ task[t].status = "completed" => task'[t].updated = task[t].updated
    /\ \A t \in Retained' \ Retained : t \notin Issued /\ task'[t].status = "active"

LEMMA AsideKeeps ==
    ASSUME Kept, Aside, UNCHANGED prune, now' \in Nat, now <= now'
    PROVE  Remembers' /\ KnowLatest' /\ LatestKept'
<1>1. DOMAIN saved \subseteq Issued /\ now \in Nat /\ \A t \in DOMAIN saved : saved[t] \in Nat
  BY DEF Kept, Inv, TypeOK
<1>2. Remembers'
  BY <1>1 DEF Kept, Remembers, Aside
<1>3. KnowLatest'
  BY DEF Kept, KnowLatest, KnowsLatest, Aside
<1>4. LatestKept'
  <2>1. saved' = saved /\ renewed' = renewed /\ Retained \subseteq Retained'
    BY DEF Aside
  <2>2. \A t \in DOMAIN saved \ (Retained \union renewed) : Enough(saved, t)
    BY LatestIsEnough DEF Kept
  <2>3. \A t \in DOMAIN saved' \ (Retained' \union renewed') : Enough(saved', t)
    BY <2>1, <2>2
  <2> QED
    BY <2>3 DEF LatestKept, Enough
<1> QED
  BY <1>2, <1>3, <1>4

(* A step that saves a task that is then completed. *)
Completes(t) ==
    /\ Retained' = Retained /\ \A u \in Retained \ {t} : task'[u] = task[u]
    /\ task'[t].status = "completed" /\ task'[t].updated = now
    /\ task[t].status \in {"active", "completed"}
    /\ DOMAIN saved' = DOMAIN saved \union {t} /\ saved'[t] = now
    /\ \A u \in DOMAIN saved \ {t} : saved'[u] = saved[u]
    /\ renewed \subseteq renewed' /\ renewed' \subseteq renewed \union {t}
    /\ task[t].status = "completed" =>
           \A r \in Pruners : t \in DOMAIN prune[r].stamp \union prune[r].old => t \in renewed'

LEMMA CompletesKeeps ==
    ASSUME Kept, Inv', NEW t \in Retained, Completes(t), UNCHANGED <<prune, now>>
    PROVE  Remembers' /\ KnowLatest' /\ LatestKept'
<1>1. /\ DOMAIN saved \subseteq Ids /\ now \in Nat /\ \A u \in DOMAIN saved : saved[u] \in Nat
      /\ IsFiniteSet(DOMAIN saved')
  <2>1. DOMAIN saved' \subseteq Ids
    BY DEF Inv, TypeOK
  <2> QED
    BY <2>1, SavedType, FS_Subset DEF Kept
<1>2. Remembers'
  BY <1>1 DEF Kept, Remembers, Completes
<1>3. \A u \in DOMAIN saved \ {t} : Enough(saved, u) => Enough(saved', u)
  <2> SUFFICES ASSUME NEW u \in DOMAIN saved, u # t, Enough(saved, u)
               PROVE  Enough(saved', u)
    OBVIOUS
  <2>1. saved'[u] = saved[u] /\ DOMAIN saved \subseteq DOMAIN saved'
    BY DEF Completes
  <2>2. \A x \in DOMAIN saved : saved'[x] \in Nat /\ saved[x] <= saved'[x]
    BY <1>1 DEF Completes, Kept, Remembers
  <2> QED
    BY <1>1, <2>1, <2>2, EnoughGrows
<1>4. \A r \in Pruners : t \in prune[r].old => task[t].status = "completed"
  BY DEF Kept, Inv, Known, Terminal, Completes
<1>5. task[t].status = "completed" <=> t \in DOMAIN saved
  BY DEF Kept, Remembers
<1>6. KnowLatest'
  <2> SUFFICES ASSUME NEW r \in Pruners
               PROVE  KnowsLatest(prune[r])'
    BY DEF KnowLatest
  <2> DEFINE q == prune[r]
  <2>1. KnowsLatest(q) /\ prune'[r] = q
    BY DEF Kept, KnowLatest
  <2>2. ASSUME NEW u \in DOMAIN q.stamp
        PROVE  /\ u \in DOMAIN saved' /\ q.stamp[u] <= saved'[u]
               /\ u \notin renewed' => q.stamp[u] = saved'[u]
    <3>1. u \in DOMAIN saved /\ q.stamp[u] <= saved[u] /\ (u \notin renewed => q.stamp[u] = saved[u])
      BY <2>1 DEF KnowsLatest
    <3>2. CASE u # t
      BY <3>1, <3>2 DEF Completes
    <3>3. CASE u = t
      <4>1. t \in renewed'
        BY <1>5, <3>1, <3>3 DEF Completes
      <4>2. q.stamp[u] \in Nat
        <5>1. q \in Prunes
          BY DEF Kept, Inv, TypeOK
        <5>2. PICK S \in SUBSET Ids : q.stamp \in [S -> Nat]
          BY <5>1 DEF Prunes
        <5> QED
          BY <5>2
      <4>3. saved[t] \in Nat /\ saved[t] <= now /\ saved'[t] = now /\ t \in DOMAIN saved'
        BY <1>1, <3>1, <3>3 DEF Completes, Kept, Remembers
      <4> HIDE DEF q
      <4> QED
        BY <1>1, <3>1, <3>3, <4>1, <4>2, <4>3
    <3> QED
      BY <3>2, <3>3
  <2>3. q.phase = "reading" => q.old \intersect DOMAIN saved' \subseteq DOMAIN q.stamp
    BY <1>4, <1>5, <2>1 DEF KnowsLatest, Completes
  <2>4. ASSUME q.phase = "deleting", NEW u \in (q.old \intersect DOMAIN saved') \ renewed'
        PROVE  Enough(saved', u)
    <3>1. u # t
      BY <1>4, <2>4 DEF Completes
    <3>2. u \in DOMAIN saved \ {t} /\ u \notin renewed
      BY <2>4, <3>1 DEF Completes
    <3>3. Enough(saved, u)
      BY <2>1, <2>4, <3>2 DEF KnowsLatest
    <3> QED
      BY <1>3, <3>2, <3>3
  <2> HIDE DEF q
  <2>5. /\ \A u \in DOMAIN q.stamp : /\ u \in DOMAIN saved' /\ q.stamp[u] <= saved'[u]
                                     /\ u \notin renewed' => q.stamp[u] = saved'[u]
        /\ q.phase = "deleting" =>
               \A u \in (q.old \intersect DOMAIN saved') \ renewed' : Enough(saved', u)
    BY <2>2, <2>4
  <2> QED
    BY <2>1, <2>3, <2>5 DEF KnowsLatest, Enough
<1>7. LatestKept'
  <2>1. \A u \in DOMAIN saved \ (Retained \union renewed) : Enough(saved, u)
    BY LatestIsEnough DEF Kept
  <2>2. \A u \in DOMAIN saved' \ (Retained' \union renewed') : Enough(saved', u)
    <3> SUFFICES ASSUME NEW u \in DOMAIN saved', u \notin Retained', u \notin renewed'
                 PROVE  Enough(saved', u)
      OBVIOUS
    <3>1. u \in DOMAIN saved \ {t} /\ u \notin Retained /\ u \notin renewed
      BY DEF Completes
    <3> QED
      BY <1>3, <2>1, <3>1
  <2> QED
    BY <2>2 DEF LatestKept, Enough
<1> QED
  BY <1>2, <1>6, <1>7

(* Work saves a completed task or leaves all of them alone.                *)
LEMMA WorkShows ==
    ASSUME Inv, Remembers, Work
    PROVE  Aside \/ \E t \in Retained : Completes(t)
<1>1. \A t \in Retained : task[t] \in Tasks
  BY DEF Inv, TypeOK
<1>2. ASSUME NEW t \in Retained, NEW r, Save(t, r), DOMAIN r = DOMAIN task[t]
      PROVE  /\ Retained' = Retained /\ \A u \in Retained \ {t} : task'[u] = task[u]
             /\ task'[t].status = r.status /\ task'[t].updated = now
  <2> DEFINE s == [r EXCEPT !.updated = now]
  <2>1. s.status = r.status /\ s.updated = now
    BY <1>1, <1>2 DEF Tasks
  <2>2. task' = [task EXCEPT ![t] = s]
    BY <1>2 DEF Save
  <2> HIDE DEF s
  <2> QED
    BY <2>1, <2>2 DEF Retained
<1>3. ASSUME NEW t \in Retained, NEW r, Save(t, r), DOMAIN r = DOMAIN task[t],
             task[t].status # "completed", r.status # "completed", UNCHANGED <<saved, renewed>>
      PROVE  Aside
  BY <1>2, <1>3 DEF Aside
<1>4. CASE StartTask
  <2> DEFINE r == [NoTask EXCEPT !.started = now]
  <2>1. r \in Tasks /\ r.status = "active"
    BY NoTaskType DEF NoTask, Tasks, Inv, TypeOK
  <2>2. Create(r) /\ UNCHANGED <<saved, renewed>>
    BY <1>4 DEF StartTask
  <2> HIDE DEF r
  <2>3. PICK n \in Ids : /\ n \notin Issued /\ n \notin Retained /\ Retained' = Retained \union {n}
                         /\ task'[n].status = "active"
                         /\ \A t \in Retained : task'[t] = task[t]
    BY <2>1, <2>2, Created
  <2> QED
    BY <2>2, <2>3 DEF Aside
<1>5. ASSUME NEW t \in Retained, CompleteTask(t)
      PROVE  Completes(t)
  <2> DEFINE r == [task[t] EXCEPT !.status = "completed"]
  <2>1. Save(t, r) /\ DOMAIN r = DOMAIN task[t] /\ r.status = "completed"
    BY <1>1, <1>5 DEF CompleteTask, Tasks
  <2> HIDE DEF r
  <2>2. /\ task[t].status = "active" /\ UNCHANGED <<prune, now, renewed>>
        /\ saved' = [u \in DOMAIN saved \union {t} |-> IF u = t THEN now ELSE saved[u]]
    BY <1>5 DEF CompleteTask
  <2> QED
    BY <1>2, <2>1, <2>2 DEF Completes
<1>6. ASSUME NEW t \in Retained, NEW n, ReceiveHostResult(t, n)
      PROVE  Aside \/ Completes(t)
  <2>1. PICK rec : Save(t, rec) /\ DOMAIN rec = DOMAIN task[t] /\ rec.status = task[t].status
    <3>1. CASE Save(t, task[t])
      BY <3>1
    <3> DEFINE x == [task[t] EXCEPT !.call = "settled", !.tokens = @ + n]
    <3>2. CASE Save(t, x)
      <4>1. DOMAIN x = DOMAIN task[t] /\ x.status = task[t].status
        BY <1>1 DEF Tasks
      <4> HIDE DEF x
      <4> QED
        BY <3>2, <4>1
    <3> QED
      BY <1>6, <3>1, <3>2 DEF ReceiveHostResult
  <2>2. CASE task[t].status = "completed"
    <3>1. t \in DOMAIN saved
      BY <2>2 DEF Remembers
    <3>2. /\ saved' = [saved EXCEPT ![t] = now]
          /\ renewed' = IF \E r \in Pruners : t \in DOMAIN prune[r].stamp \union prune[r].old
                        THEN renewed \union {t} ELSE renewed
      BY <1>6, <2>2 DEF ReceiveHostResult
    <3>3. DOMAIN saved' = DOMAIN saved \union {t} /\ saved'[t] = now
          /\ \A u \in DOMAIN saved \ {t} : saved'[u] = saved[u]
      BY <3>1, <3>2
    <3> QED
      BY <1>2, <2>1, <2>2, <3>2, <3>3 DEF Completes
  <2>3. CASE task[t].status # "completed"
    BY <1>3, <1>6, <2>1, <2>3 DEF ReceiveHostResult
  <2> QED
    BY <2>2, <2>3
<1>7. ASSUME NEW t \in Retained,
             \/ RunCommand(t) \/ BeginImprovement(t)
             \/ \E n \in Reports \union {0}, s \in Steps : CheckpointTask(t, n, s)
             \/ \E s \in Pauses \union {"active", "stopped"} : SetTaskStatus(t, s)
             \/ \E n \in Allowances : RequestCandidate(t, n)
             \/ \E e \in {"active", "closed"} : SettleImprovement(t, e)
      PROVE  Aside
  <2>1. ASSUME NEW r, Save(t, r),
               task[t].status # "completed" /\ r.status # "completed" /\ DOMAIN r = DOMAIN task[t]
        PROVE  \E x : /\ Save(t, x) /\ DOMAIN x = DOMAIN task[t]
                      /\ task[t].status # "completed" /\ x.status # "completed"
    BY <2>1
  <2>2. \E r : /\ Save(t, r) /\ DOMAIN r = DOMAIN task[t]
               /\ task[t].status # "completed" /\ r.status # "completed"
    <3>1. CASE RunCommand(t)
      BY <1>1, <2>1, <3>1 DEF RunCommand, Tasks
    <3>2. CASE BeginImprovement(t)
      BY <1>1, <2>1, <3>2 DEF BeginImprovement, Tasks
    <3>3. CASE \E n \in Reports \union {0}, s \in Steps : CheckpointTask(t, n, s)
      BY <1>1, <2>1, <3>3 DEF CheckpointTask, Tasks, Terminal
    <3>4. CASE \E s \in Pauses \union {"active", "stopped"} : SetTaskStatus(t, s)
      <4>1. PICK s \in Pauses \union {"active", "stopped"} : SetTaskStatus(t, s)
        BY <3>4
      <4>2. task[t].status # "completed" /\ s # "completed"
        BY <4>1 DEF SetTaskStatus, Allowed, Statuses
      <4> QED
        BY <1>1, <2>1, <4>1, <4>2 DEF SetTaskStatus, Tasks
    <3>5. CASE \E n \in Allowances : RequestCandidate(t, n)
      BY <1>1, <2>1, <3>5 DEF RequestCandidate, Tasks
    <3>6. CASE \E e \in {"active", "closed"} : SettleImprovement(t, e)
      BY <1>1, <2>1, <3>6 DEF SettleImprovement, Tasks
    <3> QED
      BY <1>7, <3>1, <3>2, <3>3, <3>4, <3>5, <3>6
  <2>3. UNCHANGED <<saved, renewed>>
    BY <1>7 DEF RunCommand, BeginImprovement, CheckpointTask, SetTaskStatus, RequestCandidate,
                SettleImprovement
  <2> QED
    BY <1>3, <2>2, <2>3
<1> QED
  BY <1>4, <1>5, <1>6, <1>7 DEF Work

(* Continuing a task leaves all completed ones alone. *)
LEMMA ContinueIsAside ==
    ASSUME Inv, Unfinished, NEW p \in Procs, Continue(p)
    PROVE  Aside /\ UNCHANGED <<prune, now>>
<1>1. CASE SaveSuccessor(p)
  <2> DEFINE r == cont[p].successor
  <2>1. r \in Tasks /\ r.status = "active" /\ Create(r) /\ UNCHANGED <<saved, renewed, prune, now>>
    BY <1>1 DEF SaveSuccessor, Inv, TypeOK, Continuations, Unfinished
  <2> HIDE DEF r
  <2>2. PICK n \in Ids : /\ n \notin Issued /\ n \notin Retained /\ Retained' = Retained \union {n}
                         /\ task'[n].status = "active"
                         /\ \A t \in Retained : task'[t] = task[t]
    BY <2>1, Created
  <2> QED
    BY <2>1, <2>2 DEF Aside
<1>2. CASE ~SaveSuccessor(p)
  BY <1>2 DEF Continue, Decide, AskToContinue, LockSource, CheckSources, RefuseSources,
              GiveUp, checkpoints, Aside, Retained
<1> QED
  BY <1>1, <1>2

(* A successor is active when it is made up. *)
LEMMA StepKeepsUnfinished ==
    ASSUME Inv, Unfinished, [Next]_vars
    PROVE  Unfinished'
<1>1. CASE Work
  BY <1>1, WorkConsumesNothing DEF Unfinished
<1>2. ASSUME NEW p \in Procs, Continue(p)
      PROVE  Unfinished'
  <2>1. NoTask.status = "active" /\ Idle.successor = NoTask
    BY DEF NoTask, Idle
  <2>2. CASE LockSource(p)
    BY <2>2 DEF LockSource, Unfinished
  <2>3. CASE Release(p)
    BY <2>1, <2>3 DEF Release, Unfinished, Inv, TypeOK
  <2>4. CASE CheckSources(p)
    <3> DEFINE r == Successor(cont[p].sources, cont[p].limits)
    <3>1. r.status = "active"
      BY DEF Successor, NoTask
    <3>2. cont'[p].successor = r /\ \A q \in Procs : q # p => cont'[q] = cont[q]
      BY <2>4 DEF CheckSources, Inv, TypeOK, Continuations
    <3> HIDE DEF r
    <3> QED
      BY <3>1, <3>2 DEF Unfinished
  <2>5. ASSUME NEW S \in SUBSET Issued, NEW l \in Limits, AskToContinue(p, S, l)
        PROVE  Unfinished'
    <3> DEFINE c == [Idle EXCEPT !.phase = "locking", !.sources = S, !.limits = l]
    <3>1. c.successor = NoTask
      BY DEF Idle
    <3>2. cont'[p] = c /\ \A q \in Procs : q # p => cont'[q] = cont[q]
      BY <2>5 DEF AskToContinue, Inv, TypeOK
    <3> HIDE DEF c
    <3> QED
      BY <2>1, <3>1, <3>2 DEF Unfinished
  <2> QED
    BY <1>2, <2>2, <2>3, <2>4, <2>5 DEF Continue, Decide, RefuseSources, SaveSuccessor, GiveUp
<1>3. CASE Pruning \/ Tick \/ UNCHANGED vars
  BY <1>3, PruneOnlyDeletes DEF Unfinished
<1> QED
  BY <1>1, <1>2, <1>3 DEF Next, Pruning

(* What a prune knows once it has read one more.                           *)
LEMMA ReadKnowsLatest ==
    ASSUME Kept, NEW p \in Prunes, KnowsLatest(p), p.phase = "reading", NEW t \in Retained
    PROVE  KnowsLatest(Read(p, t))
<1> DEFINE q == Read(p, t)
<1>1. /\ q.phase = p.phase
      /\ DOMAIN q.stamp = DOMAIN p.stamp \union (IF task[t].status = "completed" THEN {t} ELSE {})
      /\ \A u \in DOMAIN q.stamp : q.stamp[u] = IF u = t THEN task[t].updated ELSE p.stamp[u]
      /\ q.old = IF task[t].status \in Terminal /\ p.since - task[t].updated > StateDays
                 THEN p.old \union {t} ELSE p.old
  BY ReadFacts DEF Kept, Inv
<1> HIDE DEF q
<1>2. /\ task[t].status = "completed" <=> t \in DOMAIN saved
      /\ t \in DOMAIN saved => saved[t] = task[t].updated /\ saved[t] \in Nat
  BY SavedType DEF Kept, Remembers
<1>3. ASSUME NEW u \in DOMAIN q.stamp
      PROVE  /\ u \in DOMAIN saved /\ q.stamp[u] <= saved[u]
             /\ u \notin renewed => q.stamp[u] = saved[u]
  <2>1. CASE u = t
    <3>1. t \in DOMAIN saved
      BY <1>1, <1>2, <1>3, <2>1 DEF KnowsLatest
    <3> QED
      BY <1>1, <1>2, <1>3, <2>1, <3>1
  <2>2. CASE u # t
    BY <1>1, <1>3, <2>2 DEF KnowsLatest
  <2> QED
    BY <2>1, <2>2
<1>4. q.old \intersect DOMAIN saved \subseteq DOMAIN q.stamp
  BY <1>1, <1>2 DEF KnowsLatest
<1>5. q.phase # "deleting"
  BY <1>1
<1>6. KnowsLatest(q)
  BY <1>3, <1>4, <1>5 DEF KnowsLatest
<1> QED
  BY <1>6 DEF q

(* A plan leaves the Keep that were saved last, or all there are.          *)
LEMMA PlanLeavesEnough ==
    ASSUME Kept, NEW q \in Prunes, KnowsLatest(q), q.phase = "reading",
           NEW recent \in SUBSET DOMAIN q.stamp, MostRecent(recent, q.stamp),
           NEW t \in (q.old \ recent) \intersect DOMAIN saved, t \notin renewed
    PROVE  Enough(saved, t)
<1> DEFINE D == DOMAIN q.stamp
<1>1. t \in D /\ q.stamp[t] = saved[t]
  BY DEF KnowsLatest
<1>2. D \subseteq DOMAIN saved /\ \A u \in D : q.stamp[u] <= saved[u] /\ q.stamp[u] \in Nat
  <2>1. PICK S \in SUBSET Ids : q.stamp \in [S -> Nat]
    BY DEF Prunes
  <2> QED
    BY <2>1 DEF KnowsLatest
<1>3. /\ Cardinality(recent) = Min({Keep, Cardinality(D)})
      /\ \A u \in recent : q.stamp[u] >= q.stamp[t]
  BY <1>1 DEF MostRecent
<1>4. /\ IsFiniteSet(DOMAIN saved) /\ \A u \in DOMAIN saved : saved[u] \in Nat
  BY SavedType DEF Kept
<1>5. recent \subseteq D /\ t \notin recent
  OBVIOUS
<1> HIDE DEF D
<1>6. IsFiniteSet(D) /\ IsFiniteSet(recent)
  BY <1>2, <1>4, <1>5, FS_Subset
<1>7. Cardinality(recent) = Keep
  <2>1. Cardinality(recent) # Cardinality(D)
    BY <1>1, <1>5, <1>6, FS_Subset
  <2>2. Cardinality(D) \in Nat
    BY <1>6, FS_CardinalityType
  <2> QED
    BY <1>3, <2>1, <2>2, MinOfTwo
<1>8. \A u \in recent : saved[u] >= saved[t]
  BY <1>1, <1>2, <1>3, <1>4, <1>5
<1>9. recent \subseteq DOMAIN saved \ {t}
  BY <1>2, <1>5
<1> QED
  BY <1>4, <1>7, <1>8, <1>9, KeepIsEnough

LEMMA PruneKeepsLatest ==
    ASSUME Kept, NEW r \in Pruners, Prune(r)
    PROVE  Remembers' /\ KnowLatest' /\ LatestKept'
<1>1. /\ UNCHANGED <<saved, renewed, now>>
      /\ Retained' \subseteq Retained /\ \A t \in Retained' : task'[t] = task[t]
  BY PruneOnlyDeletes, PruneGoesOn DEF Pruning, Kept
<1>2. Remembers'
  BY <1>1 DEF Kept, Remembers
<1>3. prune[r] \in Prunes /\ KnowsLatest(prune[r])
  BY DEF Kept, Inv, TypeOK, KnowLatest
<1>4. ASSUME NEW q, Went(r, q), KnowsLatest(q)
      PROVE  KnowLatest'
  <2> SUFFICES ASSUME NEW s \in Pruners
               PROVE  KnowsLatest(prune[s])'
    BY DEF KnowLatest
  <2>1. KnowsLatest(prune'[s])
    BY <1>4 DEF Went, Kept, Inv, TypeOK, KnowLatest
  <2> QED
    BY <1>1, <2>1 DEF KnowsLatest, Enough
<1>5. ASSUME Retained' = Retained
      PROVE  LatestKept'
  BY <1>1, <1>5 DEF Kept, LatestKept
<1>6. ASSUME NEW S \in SUBSET Ids, \A t \in (S \intersect DOMAIN saved) \ renewed : Enough(saved, t)
      PROVE  KnowsLatest(Delete(S))
  BY <1>6, DeleteFacts DEF KnowsLatest
<1>7. CASE BeginPrune(r)
  <2> DEFINE q == [NoPrune EXCEPT !.phase = "reading", !.since = now, !.unread = Retained]
  <2>1. q.phase = "reading" /\ q.old = {} /\ DOMAIN q.stamp = {}
    BY BegunFacts DEF Kept, Inv
  <2>2. Went(r, q) /\ Retained' = Retained
    BY <1>7 DEF BeginPrune, checkpoints, Retained
  <2> HIDE DEF q
  <2>3. KnowsLatest(q)
    BY <2>1 DEF KnowsLatest
  <2> QED
    BY <1>2, <1>4, <1>5, <2>2, <2>3
<1>8. ASSUME NEW t \in Retained, ReadTask(r, t)
      PROVE  KnowLatest' /\ LatestKept'
  <2>1. KnowsLatest(Read(prune[r], t))
    BY <1>3, <1>8, ReadKnowsLatest DEF ReadTask
  <2>2. Went(r, Read(prune[r], t)) /\ Retained' = Retained
    BY <1>8 DEF ReadTask, checkpoints, Retained
  <2> QED
    BY <1>4, <1>5, <2>1, <2>2
<1>9. ASSUME NEW t \in Retained, PlanPrune(r, t)
      PROVE  KnowLatest' /\ LatestKept'
  <2> DEFINE q == Read(prune[r], t)
  <2>1. q \in Prunes /\ q.phase = "reading" /\ KnowsLatest(q)
    <3>1. TypeOK /\ prune[r].phase = "reading"
      BY <1>9 DEF PlanPrune, Kept, Inv
    <3>2. q \in Prunes /\ q.phase = prune[r].phase
      BY <1>3, <3>1, ReadFacts
    <3>3. KnowsLatest(q)
      BY <1>3, <3>1, ReadKnowsLatest
    <3> HIDE DEF q
    <3> QED
      BY <3>1, <3>2, <3>3
  <2>2. PICK recent \in SUBSET DOMAIN q.stamp :
            MostRecent(recent, q.stamp) /\ Went(r, Delete(q.old \ recent))
    BY <1>9 DEF PlanPrune
  <2>3. Retained' = Retained
    BY <1>9 DEF PlanPrune, checkpoints, Retained
  <2> HIDE DEF q
  <2>4. \A u \in ((q.old \ recent) \intersect DOMAIN saved) \ renewed : Enough(saved, u)
    BY <2>1, <2>2, PlanLeavesEnough
  <2>5. q.old \ recent \in SUBSET Ids
    BY <2>1 DEF Prunes
  <2>6. KnowsLatest(Delete(q.old \ recent))
    BY <1>6, <2>4, <2>5
  <2> QED
    BY <1>4, <1>5, <2>2, <2>3, <2>6
<1>10. CASE ApplyPrune(r)
  <2>1. PICK t \in Ids : /\ prune[r].phase = "deleting" /\ t \in prune[r].old
                         /\ Went(r, Delete(prune[r].old \ {t}))
                         /\ task' = [u \in Retained \ {t} |-> task[u]]
    BY <1>10 DEF ApplyPrune, First
  <2>2. \A u \in (prune[r].old \intersect DOMAIN saved) \ renewed : Enough(saved, u)
    BY <1>3, <2>1 DEF KnowsLatest
  <2> DEFINE S == prune[r].old \ {t}
  <2>3. S \in SUBSET Ids /\ \A u \in (S \intersect DOMAIN saved) \ renewed : Enough(saved, u)
    BY <1>3, <2>2 DEF Prunes
  <2>4. KnowsLatest(Delete(S))
    BY <1>6, <2>3
  <2>5. Retained' = Retained \ {t}
    BY <2>1 DEF Retained
  <2>6. \A u \in DOMAIN saved \ (Retained \union renewed) : Enough(saved, u)
    BY LatestIsEnough DEF Kept
  <2>7. \A u \in DOMAIN saved' \ (Retained' \union renewed') : Enough(saved', u)
    BY <1>1, <2>1, <2>2, <2>5, <2>6
  <2>8. LatestKept'
    BY <2>7 DEF LatestKept, Enough
  <2> QED
    BY <1>2, <1>4, <2>1, <2>4, <2>8
<1>11. CASE LeavePrune(r)
  <2>1. Went(r, NoPrune) /\ Retained' = Retained
    BY <1>11 DEF LeavePrune, checkpoints, Retained
  <2>2. KnowsLatest(NoPrune)
    BY NoPruneFacts DEF KnowsLatest
  <2> QED
    BY <1>2, <1>4, <1>5, <2>1, <2>2
<1> QED
  BY <1>2, <1>7, <1>8, <1>9, <1>10, <1>11 DEF Prune

LEMMA StepKeepsLatest ==
    ASSUME Kept, [Next]_vars
    PROVE  Kept'
<1>1. Inv /\ Unfinished /\ Remembers /\ now \in Nat
  BY DEF Kept, Inv, TypeOK
<1>2. Inv' /\ Unfinished'
  BY <1>1, StepKeepsInv, StepKeepsUnfinished
<1> SUFFICES Remembers' /\ KnowLatest' /\ LatestKept'
  BY <1>2 DEF Kept
<1>3. CASE Work
  <2>1. UNCHANGED <<prune, now>>
    BY <1>1, <1>3, WorkSaves DEF StartTask, Saved
  <2> QED
    BY <1>1, <1>2, <1>3, <2>1, WorkShows, AsideKeeps, CompletesKeeps
<1>4. ASSUME NEW p \in Procs, Continue(p)
      PROVE  Remembers' /\ KnowLatest' /\ LatestKept'
  BY <1>1, <1>4, ContinueIsAside, AsideKeeps
<1>5. CASE Pruning
  BY <1>5, PruneKeepsLatest DEF Pruning
<1>6. CASE Tick \/ UNCHANGED vars
  <2>1. Aside /\ UNCHANGED prune /\ now' \in Nat /\ now <= now'
    BY <1>1, <1>6 DEF Tick, vars, checkpoints, Aside, Retained
  <2> QED
    BY <2>1, AsideKeeps
<1> QED
  BY <1>3, <1>4, <1>5, <1>6 DEF Next, Pruning

(* However many prunes overlap and whatever is completed or saved between  *)
(* their reads, their plans and their deletions, a completed task that is  *)
(* gone had as many others saved at the same time or later as retention    *)
(* keeps, unless it was saved again after a prune had read it.             *)
THEOREM LatestAreKept == Spec => []LatestKept
<1>1. Init => Kept
  <2> SUFFICES ASSUME Init PROVE Unfinished /\ Remembers /\ KnowLatest /\ LatestKept
    BY InitHasInv DEF Kept
  <2>1. Retained = {} /\ DOMAIN saved = {} /\ \A r \in Pruners : prune[r] = NoPrune
    BY DEF Init, Retained
  <2>2. Unfinished
    BY DEF Init, Unfinished, Idle, NoTask
  <2>3. KnowLatest
    BY <2>1, NoPruneFacts DEF KnowLatest, KnowsLatest
  <2> QED
    BY <2>1, <2>2, <2>3 DEF Remembers, LatestKept
<1>2. Kept => LatestKept
  BY DEF Kept
<1> QED
  BY <1>1, <1>2, StepKeepsLatest, PTL DEF Spec
=============================================================================

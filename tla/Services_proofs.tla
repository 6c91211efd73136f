--------------------------- MODULE Services_proofs ---------------------------
(* What holds of the services for every number of callers, tools, servers,    *)
(* calls, tasks and runs: the workflow orchestrator, the tool servers and,    *)
(* with CircuitBreaker_proofs, the circuit breaker, each on its own and all   *)
(* of them as Services puts them together.                                    *)
EXTENDS Services, CircuitBreaker_proofs, FiniteSetTheorems, SequenceTheorems,
        WellFoundedInduction, TLAPS

-----------------------------------------------------------------------------
(* Induction over numbers. *)

(* A nonempty set of numbers has a least one: the sets 0..n are well-founded. *)
LEMMA LeastOf ==
  ASSUME NEW T \in SUBSET Nat, T # {}
  PROVE  \E n \in T : \A m \in T : n <= m
<1> DEFINE Below == {0..n : n \in T}
<1>1. Below \subseteq FiniteSubsetsOf(Nat)
  <2>1. ASSUME NEW n \in T
        PROVE  0..n \in SUBSET Nat /\ IsFiniteSet(0..n)
    <3>1. n \in Int /\ 0 \in Int /\ 0..n \subseteq Nat
      OBVIOUS
    <3> QED
      BY <3>1, FS_Interval
  <2> QED
    BY <2>1 DEF FiniteSubsetsOf
<1>2. Below # {}
  OBVIOUS
<1>3. PICK A \in Below : \A B \in Below : ~(<<B, A>> \in StrictSubsetOrdering(Nat))
  BY <1>1, <1>2, FS_StrictSubsetOrderingWellFounded, WFMin
<1>4. PICK n \in T : A = 0..n
  OBVIOUS
<1>5. ASSUME NEW m \in T, m < n
      PROVE  FALSE
  <2>1. (0..m) \subseteq (0..n) /\ n \in 0..n /\ n \notin 0..m
    BY <1>5
  <2>2. <<0..m, 0..n>> \in (SUBSET Nat) \X (SUBSET Nat)
    OBVIOUS
  <2>3. <<0..m, 0..n>> \in StrictSubsetOrdering(Nat)
    BY <2>1, <2>2 DEF StrictSubsetOrdering
  <2> QED
    BY <2>3, <1>3, <1>4
<1> QED
  BY <1>5

(* What holds of 0 and of the successor of every number it holds of. *)
LEMMA InductionOn ==
  ASSUME NEW S \in SUBSET Nat, 0 \in S, \A n \in S : n + 1 \in S
  PROVE  S = Nat
<1> SUFFICES ASSUME Nat \ S # {}
             PROVE  FALSE
  OBVIOUS
<1>1. PICK n \in Nat \ S : \A m \in Nat \ S : n <= m
  BY LeastOf
<1>2. n # 0 /\ n - 1 \in Nat /\ n - 1 \notin Nat \ S
  BY <1>1
<1> QED
  BY <1>1, <1>2


-----------------------------------------------------------------------------
(* The layers of _topo_layers.                                              *)

(* The number of tasks is a number. *)
LEMMA LastType == Orchestrator!Last \in Nat /\ IsFiniteSet(Tasks)
                    /\ Orchestrator!Last = Cardinality(Tasks)
<1>1. IsFiniteSet(Tasks)
  BY ServicesAssumption DEF Orchestrator!WorkflowAssumption, Orchestrator!IsFiniteSet, IsFiniteSet
<1>2. Orchestrator!Last = Cardinality(Tasks)
  BY DEF Orchestrator!Last, Orchestrator!Cardinality, Cardinality
<1> QED
  BY <1>1, <1>2, FS_CardinalityType

(* The beginnings of the function by which Kahn is defined. *)
TakenUpTo(deps, n, f) ==
  f = [m \in 0..n |-> IF m = 0 THEN {} ELSE {t \in Tasks : deps[t] \subseteq f[m - 1]}]

(* A beginning of that function can be made longer by one. *)
LEMMA TakenFurther ==
  ASSUME NEW deps, NEW n \in Nat, NEW f, TakenUpTo(deps, n, f)
  PROVE  \E g : TakenUpTo(deps, n + 1, g)
<1> DEFINE last == {t \in Tasks : deps[t] \subseteq f[n]}
           g == [m \in 0..(n + 1) |-> IF m = n + 1 THEN last ELSE f[m]]
<1>1. ASSUME NEW m \in 0..(n + 1)
      PROVE  g[m] = IF m = 0 THEN {} ELSE {t \in Tasks : deps[t] \subseteq g[m - 1]}
  <2>1. CASE m = n + 1
    <3>1. g[m] = last /\ m # 0 /\ m - 1 = n
      BY <2>1
    <3>2. g[n] = f[n]
      OBVIOUS
    <3> QED
      BY <3>1, <3>2
  <2>2. CASE m \in 0..n
    <3>1. g[m] = f[m]
      BY <2>2
    <3>2. f[m] = IF m = 0 THEN {} ELSE {t \in Tasks : deps[t] \subseteq f[m - 1]}
      BY <2>2 DEF TakenUpTo
    <3>3. m # 0 => g[m - 1] = f[m - 1]
      BY <2>2
    <3> QED
      BY <3>1, <3>2, <3>3
  <2> QED
    BY <2>1, <2>2
<1>2. g = [m \in 0..(n + 1) |-> g[m]]
  OBVIOUS
<1> HIDE DEF g
<1>3. g = [m \in 0..(n + 1) |-> IF m = 0 THEN {} ELSE {t \in Tasks : deps[t] \subseteq g[m - 1]}]
  BY <1>1, <1>2
<1> QED
  BY <1>3 DEF TakenUpTo

(* Every beginning of it exists. *)
LEMMA TakenExists ==
  ASSUME NEW deps, NEW n \in Nat
  PROVE  \E f : TakenUpTo(deps, n, f)
<1> DEFINE S == {k \in Nat : \E f : TakenUpTo(deps, k, f)}
<1>1. 0 \in S
  <2>1. TakenUpTo(deps, 0, [m \in 0..0 |-> {}])
    BY DEF TakenUpTo
  <2> QED
    BY <2>1
<1>2. \A k \in S : k + 1 \in S
  BY TakenFurther
<1>3. S \in SUBSET Nat
  OBVIOUS
<1>4. S = Nat
  <2> HIDE DEF S
  <2> QED
    BY <1>1, <1>2, <1>3, InductionOn
<1> QED
  BY <1>4

(* Two of them agree as far as both go. *)
LEMMA TakenUnique ==
  ASSUME NEW deps, NEW n \in Nat, NEW m \in Nat, NEW f, NEW g,
         TakenUpTo(deps, n, f), TakenUpTo(deps, m, g)
  PROVE  \A k \in Nat : k <= n /\ k <= m => f[k] = g[k]
<1> DEFINE S == {k \in Nat : k <= n /\ k <= m => f[k] = g[k]}
<1>1. \A k \in 0..n : f[k] = IF k = 0 THEN {} ELSE {t \in Tasks : deps[t] \subseteq f[k - 1]}
  BY DEF TakenUpTo
<1>2. \A k \in 0..m : g[k] = IF k = 0 THEN {} ELSE {t \in Tasks : deps[t] \subseteq g[k - 1]}
  BY DEF TakenUpTo
<1>3. 0 \in S
  <2>1. 0 \in 0..n /\ 0 \in 0..m
    OBVIOUS
  <2>2. f[0] = {} /\ g[0] = {}
    BY <1>1, <1>2, <2>1
  <2> QED
    BY <2>2
<1>4. ASSUME NEW k \in S PROVE k + 1 \in S
  <2> SUFFICES ASSUME k + 1 <= n, k + 1 <= m
               PROVE  f[k + 1] = g[k + 1]
    OBVIOUS
  <2>1. f[k] = g[k] /\ (k + 1) - 1 = k /\ k + 1 # 0 /\ k + 1 \in 0..n /\ k + 1 \in 0..m
    OBVIOUS
  <2>2. f[k + 1] = {t \in Tasks : deps[t] \subseteq f[k]}
    BY <1>1, <2>1
  <2>3. g[k + 1] = {t \in Tasks : deps[t] \subseteq g[k]}
    BY <1>2, <2>1
  <2> QED
    BY <2>1, <2>2, <2>3
<1>5. S = Nat
  <2>1. S \in SUBSET Nat
    OBVIOUS
  <2> HIDE DEF S
  <2> QED
    BY <1>3, <1>4, <2>1, InductionOn
<1> QED
  BY <1>5

(* What Kahn(deps) is at each number: nothing at first, then the tasks that  *)
(* depend on what was taken before.                                          *)
LEMMA KahnSteps ==
  ASSUME NEW deps
  PROVE  /\ Orchestrator!Kahn(deps)[0] = {}
         /\ \A n \in Nat :
              Orchestrator!Kahn(deps)[n + 1] =
                {t \in Tasks : deps[t] \subseteq Orchestrator!Kahn(deps)[n]}
<1> DEFINE Beginning(n) == CHOOSE f : TakenUpTo(deps, n, f)
           K == [n \in Nat |-> Beginning(n)[n]]
<1>1. \A n \in Nat : TakenUpTo(deps, n, Beginning(n))
  BY TakenExists
<1> HIDE DEF Beginning
<1>2. K[0] = {}
  <2>1. TakenUpTo(deps, 0, Beginning(0))
    BY <1>1
  <2> QED
    BY <2>1 DEF TakenUpTo
<1>3. ASSUME NEW n \in Nat
      PROVE  K[n + 1] = {t \in Tasks : deps[t] \subseteq K[n]}
  <2>1. TakenUpTo(deps, n + 1, Beginning(n + 1)) /\ TakenUpTo(deps, n, Beginning(n))
    BY <1>1
  <2>2. Beginning(n + 1)[n] = Beginning(n)[n]
    <3>1. n + 1 \in Nat /\ n <= n + 1 /\ n <= n
      OBVIOUS
    <3> QED
      BY <2>1, <3>1, TakenUnique
  <2>3. Beginning(n + 1)[n + 1] = {t \in Tasks : deps[t] \subseteq Beginning(n + 1)[n]}
    <3>1. n + 1 \in 0..(n + 1) /\ n + 1 # 0 /\ (n + 1) - 1 = n
      OBVIOUS
    <3> QED
      BY <2>1, <3>1 DEF TakenUpTo
  <2> QED
    BY <2>2, <2>3
<1>4. K = [n \in Nat |-> IF n = 0 THEN {} ELSE {t \in Tasks : deps[t] \subseteq K[n - 1]}]
  <2>1. ASSUME NEW n \in Nat
        PROVE  K[n] = IF n = 0 THEN {} ELSE {t \in Tasks : deps[t] \subseteq K[n - 1]}
    <3>1. CASE n = 0
      BY <1>2, <3>1
    <3>2. CASE n # 0
      <4>1. n - 1 \in Nat /\ (n - 1) + 1 = n
        BY <3>2
      <4>2. K[(n - 1) + 1] = {t \in Tasks : deps[t] \subseteq K[n - 1]}
        BY <1>3, <4>1
      <4> QED
        BY <3>2, <4>1, <4>2
    <3> QED
      BY <3>1, <3>2
  <2>2. K = [n \in Nat |-> K[n]]
    OBVIOUS
  <2> HIDE DEF K
  <2> QED
    BY <2>1, <2>2
<1> HIDE DEF K
<1> DEFINE T == Orchestrator!Kahn(deps)
<1>5. T = [n \in Nat |-> IF n = 0 THEN {} ELSE {t \in Tasks : deps[t] \subseteq T[n - 1]}]
  BY <1>4 DEF Orchestrator!Kahn
<1> HIDE DEF T
<1>6. T[0] = {}
  BY <1>5
<1>7. ASSUME NEW n \in Nat
      PROVE  T[n + 1] = {t \in Tasks : deps[t] \subseteq T[n]}
  <2>1. n + 1 \in Nat /\ n + 1 # 0 /\ (n + 1) - 1 = n
    OBVIOUS
  <2> QED
    BY <1>5, <2>1
<1> QED
  BY <1>6, <1>7 DEF T

(* What was taken stays taken. *)
LEMMA KahnGrows ==
  ASSUME NEW deps
  PROVE  \A n \in Nat :
           Orchestrator!Kahn(deps)[n] \subseteq Orchestrator!Kahn(deps)[n + 1]
             /\ Orchestrator!Kahn(deps)[n] \subseteq Tasks
<1> DEFINE K == Orchestrator!Kahn(deps)
<1>1. K[0] = {} /\ \A n \in Nat : K[n + 1] = {t \in Tasks : deps[t] \subseteq K[n]}
  BY KahnSteps
<1> HIDE DEF K
<1> DEFINE S == {n \in Nat : K[n] \subseteq K[n + 1] /\ K[n] \subseteq Tasks}
<1>2. 0 \in S
  BY <1>1
<1>3. ASSUME NEW n \in S PROVE n + 1 \in S
  <2>1. n + 1 \in Nat /\ n \in Nat /\ K[n] \subseteq K[n + 1]
    OBVIOUS
  <2>2. K[n + 1] = {t \in Tasks : deps[t] \subseteq K[n]}
    BY <1>1
  <2>3. K[(n + 1) + 1] = {t \in Tasks : deps[t] \subseteq K[n + 1]}
    BY <1>1, <2>1
  <2> QED
    BY <2>1, <2>2, <2>3
<1>4. S = Nat
  <2>1. S \in SUBSET Nat
    OBVIOUS
  <2> HIDE DEF S
  <2> QED
    BY <1>2, <1>3, <2>1, InductionOn
<1> QED
  BY <1>4 DEF K

(* Once a round takes nothing, no later one does. *)
LEMMA KahnStays ==
  ASSUME NEW deps, NEW m \in Nat, Orchestrator!Kahn(deps)[m + 1] = Orchestrator!Kahn(deps)[m]
  PROVE  \A n \in Nat : n >= m => Orchestrator!Kahn(deps)[n] = Orchestrator!Kahn(deps)[m]
<1> DEFINE K == Orchestrator!Kahn(deps)
<1>1. \A n \in Nat : K[n + 1] = {t \in Tasks : deps[t] \subseteq K[n]}
  BY KahnSteps
<1>2. K[m + 1] = K[m]
  OBVIOUS
<1> HIDE DEF K
<1> DEFINE S == {n \in Nat : n >= m => K[n] = K[m]}
<1>3. 0 \in S
  OBVIOUS
<1>4. ASSUME NEW n \in S PROVE n + 1 \in S
  <2>1. n \in Nat /\ n + 1 \in Nat
    OBVIOUS
  <2>2. CASE n >= m
    <3>1. K[n] = K[m]
      BY <2>2
    <3>2. K[n + 1] = K[m + 1]
      BY <1>1, <2>1, <3>1
    <3> QED
      BY <1>2, <2>1, <3>2
  <2>3. CASE n + 1 = m
    BY <2>1, <2>3
  <2>4. CASE n + 1 < m
    BY <2>1, <2>4
  <2> QED
    BY <2>1, <2>2, <2>3, <2>4
<1>5. S = Nat
  <2>1. S \in SUBSET Nat
    OBVIOUS
  <2> HIDE DEF S
  <2> QED
    BY <1>3, <1>4, <2>1, InductionOn
<1> QED
  BY <1>5 DEF K

(* There are no more layers than tasks. *)
LEMMA KahnEnds ==
  ASSUME NEW deps
  PROVE  Orchestrator!Kahn(deps)[Orchestrator!Last + 1] = Orchestrator!Kahn(deps)[Orchestrator!Last]
<1> DEFINE K == Orchestrator!Kahn(deps)
<1>1. \A n \in Nat : K[n] \subseteq K[n + 1] /\ K[n] \subseteq Tasks
  BY KahnGrows
<1>2. \A m \in Nat : K[m + 1] = K[m] => \A n \in Nat : n >= m => K[n] = K[m]
  BY KahnStays
<1>3. Orchestrator!Last \in Nat /\ IsFiniteSet(Tasks) /\ Orchestrator!Last = Cardinality(Tasks)
  BY LastType
<1>4. \A n \in Nat : IsFiniteSet(K[n]) /\ Cardinality(K[n]) \in Nat
  BY <1>1, <1>3, FS_Subset, FS_CardinalityType
<1> HIDE DEF K
<1> DEFINE S == {n \in Nat : K[n + 1] = K[n] \/ Cardinality(K[n]) >= n}
<1>5. 0 \in S
  BY <1>4
<1>6. ASSUME NEW n \in S PROVE n + 1 \in S
  <2>1. n \in Nat /\ n + 1 \in Nat /\ (n + 1) + 1 \in Nat
    OBVIOUS
  <2>2. CASE K[n + 1] = K[n]
    <3>1. K[n + 1] = K[n] /\ K[(n + 1) + 1] = K[n]
      BY <1>2, <2>1, <2>2
    <3> QED
      BY <2>1, <3>1
  <2>3. CASE K[n + 1] # K[n] /\ Cardinality(K[n]) >= n
    <3>1. Cardinality(K[n]) < Cardinality(K[n + 1])
      BY <1>1, <1>4, <2>1, <2>3, FS_Subset
    <3>2. Cardinality(K[n + 1]) >= n + 1
      BY <1>4, <2>1, <2>3, <3>1
    <3> QED
      BY <2>1, <3>2
  <2> QED
    BY <2>2, <2>3
<1>7. S = Nat
  <2>1. S \in SUBSET Nat
    OBVIOUS
  <2> HIDE DEF S
  <2> QED
    BY <1>5, <1>6, <2>1, InductionOn
<1>8. K[Orchestrator!Last + 1] = K[Orchestrator!Last]
        \/ Cardinality(K[Orchestrator!Last]) >= Orchestrator!Last
  BY <1>3, <1>7
<1>9. ASSUME Cardinality(K[Orchestrator!Last]) >= Orchestrator!Last
      PROVE  K[Orchestrator!Last + 1] = K[Orchestrator!Last]
  <2>1. K[Orchestrator!Last] \subseteq Tasks /\ K[Orchestrator!Last + 1] \subseteq Tasks
          /\ K[Orchestrator!Last] \subseteq K[Orchestrator!Last + 1]
    BY <1>1, <1>3
  <2>2. Cardinality(K[Orchestrator!Last]) \in Nat /\ Cardinality(Tasks) \in Nat
    BY <1>3, <1>4
  <2>3. K[Orchestrator!Last] = Tasks
    BY <1>3, <1>9, <2>1, <2>2, FS_Subset
  <2> QED
    BY <2>1, <2>3
<1>10. K[Orchestrator!Last + 1] = K[Orchestrator!Last]
  BY <1>8, <1>9
<1> QED
  BY <1>10 DEF K

(* Some tasks depend on each other in a circle: each on another of them. *)
Circle(deps) == \E S \in SUBSET Tasks : S # {} /\ \A t \in S : deps[t] \intersect S # {}

(* What is left over when nothing more can be taken is such a circle. *)
LEMMA LeftIsCircle ==
  ASSUME NEW deps \in [Tasks -> SUBSET Tasks], Orchestrator!Kahn(deps)[Orchestrator!Last] # Tasks
  PROVE  Circle(deps)
<1> DEFINE K == Orchestrator!Kahn(deps)
<1>1. K[Orchestrator!Last] \subseteq Tasks
        /\ K[Orchestrator!Last + 1] = {t \in Tasks : deps[t] \subseteq K[Orchestrator!Last]}
  BY LastType, KahnGrows, KahnSteps
<1>2. K[Orchestrator!Last + 1] = K[Orchestrator!Last] /\ K[Orchestrator!Last] # Tasks
  BY KahnEnds
<1> HIDE DEF K
<1> DEFINE S == Tasks \ K[Orchestrator!Last]
<1>3. S # {} /\ S \in SUBSET Tasks
  BY <1>1, <1>2
<1>4. ASSUME NEW t \in S
      PROVE  deps[t] \intersect S # {}
  BY <1>1, <1>2
<1> QED
  BY <1>3, <1>4 DEF Circle

-----------------------------------------------------------------------------
(* What holds of a workflow without a second caller.                         *)

Taken(n) == Orchestrator!Kahn(plan.deps)[n]
Passed(t) == task[t] \in {"completed", "skipped"}

(* Nobody resumes or executes while a run is under way: there is one at most. *)
OneRun ==
  /\ ~plan.overlap
  /\ \A r, q \in Runs : Orchestrator!Active(r) /\ Orchestrator!Active(q) => r = q

(* What a run under way has behind it: the layers before are passed, and so   *)
(* is all of its own layer that it neither has to do nor is doing, unless     *)
(* something failed or the workflow was paused.                               *)
LayersPassed(r) ==
  /\ ~Orchestrator!HasCycle /\ run[r].layer >= 1
  /\ run[r].todo \union run[r].busy \subseteq Orchestrator!Layer(run[r].layer)
  /\ run[r].todo \intersect run[r].busy = {}
  /\ \A t \in Taken(run[r].layer - 1) : Passed(t)
  /\ \A t \in Orchestrator!Layer(run[r].layer) \ (run[r].todo \union run[r].busy) :
       Passed(t) \/ Orchestrator!Halted
  /\ \A t \in run[r].busy : task[t] = "in_progress"
  /\ status # "completed" /\ status # "pending"

RunsWell ==
  \A r \in Runs :
    IF Orchestrator!Active(r) THEN LayersPassed(r) ELSE run[r].todo = {} /\ run[r].busy = {}

(* What an executor has finished stays completed. *)
DoneStays == \A t \in done : task[t] = "completed"

(* A pause is in force until a caller goes on, in the layer it came in. *)
PauseInForce ==
  held > 0 =>
    Orchestrator!Halted /\ \A r \in Runs : Orchestrator!Active(r) => run[r].layer = held - 1

WorkflowInv ==
  /\ Orchestrator!TypeOK /\ OneRun /\ RunsWell /\ DoneStays /\ PauseInForce
  /\ Orchestrator!CompletedMeansDone /\ Orchestrator!RunningIsRun /\ Orchestrator!CyclesFound

(* What the layers of a scene are. *)
LEMMA LayerFacts ==
  ASSUME plan \in Orchestrator!SceneType
  PROVE  /\ plan.deps \in [Tasks -> SUBSET Tasks]
         /\ Taken(0) = {}
         /\ \A n \in Nat : Taken(n) \subseteq Tasks
         /\ \A n \in Nat : Taken(n + 1) = Taken(n) \union Orchestrator!Layer(n + 1)
         /\ \A n \in Nat : \A t \in Orchestrator!Layer(n + 1) :
              t \in Tasks /\ t \notin Taken(n) /\ plan.deps[t] \subseteq Taken(n)
<1> DEFINE K == Orchestrator!Kahn(plan.deps)
<1>1. K[0] = {} /\ \A n \in Nat : K[n + 1] = {t \in Tasks : plan.deps[t] \subseteq K[n]}
  BY KahnSteps
<1>2. \A n \in Nat : K[n] \subseteq K[n + 1] /\ K[n] \subseteq Tasks
  BY KahnGrows
<1>3. \A n \in Nat : Orchestrator!Layer(n + 1) = K[n + 1] \ K[n]
  <2>1. \A n \in Nat : (n + 1) - 1 = n
    OBVIOUS
  <2> QED
    BY <2>1 DEF Orchestrator!Layer
<1>4. \A n \in Nat : Taken(n) = K[n]
  BY DEF Taken
<1>5. plan.deps \in [Tasks -> SUBSET Tasks]
  BY DEF Orchestrator!SceneType
<1> HIDE DEF K
<1>6. Taken(0) = {}
  BY <1>1, <1>4
<1>7. ASSUME NEW n \in Nat
      PROVE  /\ Taken(n) \subseteq Tasks
             /\ Taken(n + 1) = Taken(n) \union Orchestrator!Layer(n + 1)
             /\ \A t \in Orchestrator!Layer(n + 1) :
                  t \in Tasks /\ t \notin Taken(n) /\ plan.deps[t] \subseteq Taken(n)
  <2>1. n + 1 \in Nat
    OBVIOUS
  <2>2. Taken(n) = K[n] /\ Taken(n + 1) = K[n + 1] /\ Orchestrator!Layer(n + 1) = K[n + 1] \ K[n]
    BY <1>3, <1>4, <2>1
  <2>3. K[n] \subseteq K[n + 1] /\ K[n] \subseteq Tasks
          /\ K[n + 1] = {t \in Tasks : plan.deps[t] \subseteq K[n]}
    BY <1>1, <1>2
  <2> QED
    BY <2>2, <2>3
<1> QED
  BY <1>5, <1>6, <1>7

(* Without a cycle the last layer with a task is the Last one at most, and    *)
(* after a layer without tasks none has any.                                  *)
LEMMA LayersEnd ==
  ASSUME plan \in Orchestrator!SceneType, ~Orchestrator!HasCycle, NEW n \in Nat
  PROVE  /\ Orchestrator!Layer(n + 1) # {} => n + 1 <= Orchestrator!Last
         /\ Orchestrator!Layer(n + 1) = {} => Taken(n) = Tasks
<1> DEFINE K == Orchestrator!Kahn(plan.deps)
<1>1. \A m \in Nat : K[m] \subseteq K[m + 1] /\ K[m] \subseteq Tasks
  BY KahnGrows
<1>2. \A m \in Nat : K[m + 1] = K[m] => \A l \in Nat : l >= m => K[l] = K[m]
  BY KahnStays
<1>3. K[Orchestrator!Last + 1] = K[Orchestrator!Last] /\ K[Orchestrator!Last] = Tasks
  BY KahnEnds DEF Orchestrator!HasCycle
<1>4. Orchestrator!Layer(n + 1) = K[n + 1] \ K[n] /\ Taken(n) = K[n]
  <2>1. (n + 1) - 1 = n
    OBVIOUS
  <2> QED
    BY <2>1 DEF Orchestrator!Layer, Taken
<1>5. Orchestrator!Last \in Nat
  BY LastType
<1> HIDE DEF K
<1>6. ASSUME n + 1 > Orchestrator!Last
      PROVE  Orchestrator!Layer(n + 1) = {}
  <2>1. n >= Orchestrator!Last /\ n + 1 >= Orchestrator!Last /\ n + 1 \in Nat
    BY <1>5, <1>6
  <2>2. K[n] = K[Orchestrator!Last] /\ K[n + 1] = K[Orchestrator!Last]
    BY <1>2, <1>3, <1>5, <2>1
  <2> QED
    BY <1>4, <2>2
<1>7. ASSUME Orchestrator!Layer(n + 1) = {}
      PROVE  Taken(n) = Tasks
  <2>1. K[n + 1] = K[n]
    BY <1>1, <1>4, <1>7
  <2>2. CASE n <= Orchestrator!Last
    BY <1>2, <1>3, <1>4, <1>5, <2>1, <2>2
  <2>3. CASE n >= Orchestrator!Last
    BY <1>2, <1>3, <1>4, <1>5, <2>3
  <2> QED
    BY <1>5, <2>2, <2>3
<1> QED
  BY <1>5, <1>6, <1>7

(* The layers are the scene's, which no step changes. *)
LEMMA SameLayers ==
  ASSUME plan' = plan
  PROVE  /\ \A n : Taken(n)' = Taken(n) /\ Orchestrator!Layer(n)' = Orchestrator!Layer(n)
         /\ Orchestrator!HasCycle' = Orchestrator!HasCycle
BY DEF Taken, Orchestrator!Layer, Orchestrator!HasCycle


(* A workflow whose callers wait begins in the invariant. *)
LEMMA WorkflowStarts ==
  ASSUME Orchestrator!Init, ~plan.overlap
  PROVE  WorkflowInv
<1>1. Orchestrator!Last \in Nat
  BY LastType
<1>2. \A r \in Runs : run[r] = Orchestrator!NewRun /\ ~Orchestrator!Active(r)
  BY DEF Orchestrator!Init, Orchestrator!NewRun, Orchestrator!Active
<1>3. Orchestrator!TypeOK
  <2>1. Orchestrator!NewRun \in [pc : {"new", "layer", "over"}, layer : 0..(Orchestrator!Last + 1),
                    todo : SUBSET Tasks, busy : SUBSET Tasks]
    BY <1>1 DEF Orchestrator!NewRun
  <2>2. run \in [Runs -> [pc : {"new", "layer", "over"}, layer : 0..(Orchestrator!Last + 1),
                          todo : SUBSET Tasks, busy : SUBSET Tasks]]
    BY <2>1 DEF Orchestrator!Init
  <2>3. 0 \in 0..(Orchestrator!Last + 2)
    BY <1>1
  <2> QED
    BY ServicesAssumption, <2>2, <2>3
       DEF Orchestrator!WorkflowAssumption, Orchestrator!Init, Orchestrator!TypeOK,
           Orchestrator!Statuses, Orchestrator!TaskStatuses
<1>4. OneRun /\ RunsWell
  BY <1>2 DEF OneRun, RunsWell, Orchestrator!NewRun
<1>5. DoneStays /\ PauseInForce /\ Orchestrator!CompletedMeansDone /\ Orchestrator!RunningIsRun
        /\ Orchestrator!CyclesFound
  BY DEF Orchestrator!Init, DoneStays, PauseInForce, Orchestrator!CompletedMeansDone,
         Orchestrator!RunningIsRun, Orchestrator!CyclesFound
<1> QED
  BY <1>3, <1>4, <1>5 DEF WorkflowInv

(* A step that changes no task that has its status already. *)
KeepsCompleted ==
  /\ task' \in [Tasks -> Orchestrator!TaskStatuses]
  /\ \A t \in Tasks : task'[t] = task[t] \/ task'[t] = "completed"

(* _run_workflow up to the first layer, for whoever called it. *)
LEMMA RunBegins ==
  ASSUME WorkflowInv, NEW r \in Runs, Orchestrator!MayCall(r), Orchestrator!RunWorkflow(r),
         KeepsCompleted, plan' = plan,
         results' = results, done' = done, approved' \subseteq Tasks, cancelled' = cancelled
  PROVE  WorkflowInv'
<1> USE DEF WorkflowInv
<1>1. Orchestrator!Last \in Nat /\ plan \in Orchestrator!SceneType
  BY LastType DEF Orchestrator!TypeOK
<1>2. \A q \in Runs : ~Orchestrator!Active(q)
  BY DEF Orchestrator!MayCall, OneRun
<1>3. Orchestrator!Layer(1) \subseteq Tasks /\ Taken(0) = {}
  <2>1. 0 + 1 = 1 /\ 0 \in Nat
    OBVIOUS
  <2> QED
    BY <1>1, <2>1, LayerFacts
<1>4. run \in [Runs -> [pc : {"new", "layer", "over"}, layer : 0..(Orchestrator!Last + 1),
                        todo : SUBSET Tasks, busy : SUBSET Tasks]]
  BY DEF Orchestrator!TypeOK
<1>5. /\ \A n : Taken(n)' = Taken(n) /\ Orchestrator!Layer(n)' = Orchestrator!Layer(n)
      /\ Orchestrator!HasCycle' = Orchestrator!HasCycle
  BY SameLayers
<1>6. held' = 0
  BY DEF Orchestrator!RunWorkflow
<1>7. CASE Orchestrator!HasCycle
  <2>1. status' = "failed" /\ run' = [run EXCEPT ![r].pc = "over"]
    BY <1>7 DEF Orchestrator!RunWorkflow
  <2>2. \A q \in Runs :
          ~Orchestrator!Active(q)' /\ run'[q].todo = run[q].todo /\ run'[q].busy = run[q].busy
    BY <1>2, <1>4, <2>1 DEF Orchestrator!Active
  <2>3. Orchestrator!TypeOK'
    <3>1. run' \in [Runs -> [pc : {"new", "layer", "over"}, layer : 0..(Orchestrator!Last + 1),
                             todo : SUBSET Tasks, busy : SUBSET Tasks]]
      BY <1>4, <2>1
    <3> QED
      BY <1>1, <1>6, <2>1, <3>1 DEF Orchestrator!TypeOK, KeepsCompleted, Orchestrator!Statuses
  <2>4. OneRun' /\ RunsWell'
    BY <1>2, <2>2 DEF OneRun, RunsWell
  <2>5. DoneStays' /\ PauseInForce' /\ Orchestrator!CompletedMeansDone'
          /\ Orchestrator!RunningIsRun'
    BY <1>6, <2>1
       DEF DoneStays, PauseInForce, Orchestrator!CompletedMeansDone, Orchestrator!RunningIsRun,
           KeepsCompleted, Orchestrator!TypeOK
  <2>6. Orchestrator!CyclesFound'
    BY <1>1, <1>7, LayerFacts, LeftIsCircle
       DEF Orchestrator!HasCycle, Orchestrator!CyclesFound, Circle
  <2> QED
    BY <2>3, <2>4, <2>5, <2>6
<1>8. CASE ~Orchestrator!HasCycle
  <2>1. /\ status' = "running"
        /\ run' = [run EXCEPT ![r] =
             [pc |-> "layer", layer |-> 1, todo |-> Orchestrator!Layer(1), busy |-> {}]]
    BY <1>8 DEF Orchestrator!RunWorkflow
  <2>2. \A q \in Runs : q # r => ~Orchestrator!Active(q)' /\ run'[q] = run[q]
    BY <1>2, <1>4, <2>1 DEF Orchestrator!Active
  <2>3. run'[r] = [pc |-> "layer", layer |-> 1, todo |-> Orchestrator!Layer(1), busy |-> {}]
          /\ Orchestrator!Active(r)'
    BY <1>4, <2>1 DEF Orchestrator!Active
  <2>4. Orchestrator!TypeOK'
    <3>1. run' \in [Runs -> [pc : {"new", "layer", "over"}, layer : 0..(Orchestrator!Last + 1),
                             todo : SUBSET Tasks, busy : SUBSET Tasks]]
      BY <1>1, <1>3, <1>4, <2>1
    <3> QED
      BY <1>1, <1>6, <2>1, <3>1 DEF Orchestrator!TypeOK, KeepsCompleted, Orchestrator!Statuses
  <2>5. OneRun'
    BY <2>2 DEF OneRun
  <2>6. RunsWell'
    <3>1. LayersPassed(r)'
      <4>1. run'[r].layer = 1 /\ run'[r].layer - 1 = 0 /\ run'[r].todo = Orchestrator!Layer(1)
              /\ run'[r].busy = {}
        BY <2>3
      <4>2. Orchestrator!Kahn(plan'.deps)[0] = {}
        BY <1>3 DEF Taken
      <4> HIDE DEF WorkflowInv
      <4>3. Taken(run[r].layer - 1)' = {}
              /\ Orchestrator!Layer(run[r].layer)' = Orchestrator!Layer(1)
        BY <4>1, <4>2 DEF Taken, Orchestrator!Layer
      <4> QED
        BY <1>5, <1>8, <2>1, <4>1, <4>3 DEF LayersPassed
    <3> QED
      BY <1>2, <2>2, <2>3, <3>1 DEF RunsWell
  <2>7. DoneStays' /\ PauseInForce' /\ Orchestrator!CompletedMeansDone'
          /\ Orchestrator!RunningIsRun' /\ Orchestrator!CyclesFound'
    BY <1>6, <2>1, <2>3
      DEF DoneStays, PauseInForce, Orchestrator!CompletedMeansDone, Orchestrator!RunningIsRun,
          Orchestrator!CyclesFound, KeepsCompleted, Orchestrator!TypeOK
  <2> QED
    BY <2>4, <2>5, <2>6, <2>7
<1> QED
  BY <1>7, <1>8

(* A run that has things to do or is doing them is under way. *)
LEMMA ActiveRun ==
  ASSUME WorkflowInv, NEW r \in Runs, Orchestrator!Active(r)
  PROVE  /\ \A q \in Runs : q # r => ~Orchestrator!Active(q)
         /\ LayersPassed(r)
         /\ run[r].layer \in Nat /\ run[r].layer \in 1..(Orchestrator!Last + 1)
         /\ run[r].layer - 1 \in Nat /\ (run[r].layer - 1) + 1 = run[r].layer
         /\ run \in [Runs -> [pc : {"new", "layer", "over"}, layer : 0..(Orchestrator!Last + 1),
                              todo : SUBSET Tasks, busy : SUBSET Tasks]]
<1>1. LayersPassed(r) /\ \A q \in Runs : q # r => ~Orchestrator!Active(q)
  BY DEF WorkflowInv, OneRun, RunsWell
<1>2. run \in [Runs -> [pc : {"new", "layer", "over"}, layer : 0..(Orchestrator!Last + 1),
                        todo : SUBSET Tasks, busy : SUBSET Tasks]]
  BY DEF WorkflowInv, Orchestrator!TypeOK
<1>3. run[r].layer \in 0..(Orchestrator!Last + 1) /\ run[r].layer >= 1 /\ Orchestrator!Last \in Nat
  BY <1>1, <1>2, LastType DEF LayersPassed
<1> QED
  BY <1>1, <1>2, <1>3

(* A step of run r within its layer, which changes the status of one task of *)
(* that layer at most.                                                        *)
LEMMA RunGoesOn ==
  ASSUME WorkflowInv, NEW r \in Runs, Orchestrator!Active(r), NEW todo \in SUBSET Tasks,
         NEW busy \in SUBSET Tasks,
         NEW t \in Orchestrator!Layer(run[r].layer),
           NEW st \in Orchestrator!TaskStatuses \ {"pending"},
         task' = [task EXCEPT ![t] = st], task[t] # "completed" \/ st = "completed",
         run' = [run EXCEPT ![r].todo = todo, ![r].busy = busy],
         todo \union busy \subseteq run[r].todo \union run[r].busy, todo \intersect busy = {},
         (run[r].todo \union run[r].busy) \ (todo \union busy) \subseteq {t},
         t \notin todo, t \in busy => st = "in_progress", t \notin busy => st # "in_progress",
         busy \subseteq run[r].busy \union {t},
         plan' = plan,
         \/ status' = status /\ (t \notin busy => st \in {"completed", "skipped"})
         \/ status' = "failed",
         st = "in_progress" => t \in busy,
         results' \subseteq Tasks, approved' = approved, held' = held, cancelled' = cancelled,
         done' = done \/ (done' = done \union {t} /\ st = "completed")
  PROVE  WorkflowInv'
<1> USE DEF WorkflowInv
<1>1. Orchestrator!Last \in Nat /\ plan \in Orchestrator!SceneType
        /\ task \in [Tasks -> Orchestrator!TaskStatuses]
  BY LastType DEF Orchestrator!TypeOK
<1>2. /\ \A n : Taken(n)' = Taken(n) /\ Orchestrator!Layer(n)' = Orchestrator!Layer(n)
      /\ Orchestrator!HasCycle' = Orchestrator!HasCycle
  BY SameLayers
<1>3. /\ LayersPassed(r) /\ \A q \in Runs : q # r => ~Orchestrator!Active(q)
      /\ run[r].layer \in 1..(Orchestrator!Last + 1) /\ run[r].layer - 1 \in Nat
           /\ (run[r].layer - 1) + 1 = run[r].layer
      /\ run \in [Runs -> [pc : {"new", "layer", "over"}, layer : 0..(Orchestrator!Last + 1),
                           todo : SUBSET Tasks, busy : SUBSET Tasks]]
  BY ActiveRun
<1>4. t \in Tasks /\ t \notin Taken(run[r].layer - 1) /\ Taken(run[r].layer - 1) \subseteq Tasks
      /\ Orchestrator!Layer(run[r].layer) \subseteq Tasks
  BY <1>1, <1>3, LayerFacts
<1>5. /\ \A q \in Runs : q # r => run'[q] = run[q]
      /\ run'[r].todo = todo /\ run'[r].busy = busy /\ run'[r].layer = run[r].layer
           /\ run'[r].pc = run[r].pc
      /\ \A q \in Runs : Orchestrator!Active(q)' = Orchestrator!Active(q)
  BY <1>3 DEF Orchestrator!Active
<1>6. /\ task' \in [Tasks -> Orchestrator!TaskStatuses] /\ task'[t] = st
      /\ \A u \in Tasks : u # t => task'[u] = task[u]
  BY <1>1, <1>4
<1>7. Orchestrator!TypeOK'
  <2>1. run' \in [Runs -> [pc : {"new", "layer", "over"}, layer : 0..(Orchestrator!Last + 1),
                           todo : SUBSET Tasks, busy : SUBSET Tasks]]
    BY <1>3
  <2> QED
    BY <1>4, <1>6, <2>1 DEF Orchestrator!TypeOK, Orchestrator!Statuses
<1>8. status' \in {status, "failed"} /\ (Orchestrator!Halted => Orchestrator!Halted')
  BY DEF Orchestrator!Halted
<1>9. OneRun'
  BY <1>5 DEF OneRun
<1>10. RunsWell'
  <2>1. LayersPassed(r)'
    <3>1. ~Orchestrator!HasCycle' /\ run'[r].layer >= 1
      BY <1>2, <1>3, <1>5 DEF LayersPassed
    <3>7. Orchestrator!Layer(run[r].layer)' = Orchestrator!Layer(run[r].layer)
            /\ Taken(run[r].layer - 1)' = Taken(run[r].layer - 1)
      BY <1>5 DEF Orchestrator!Layer, Taken
    <3>2. todo \union busy \subseteq Orchestrator!Layer(run[r].layer)
      BY <1>3 DEF LayersPassed
    <3>3. \A u \in Taken(run[r].layer - 1) : Passed(u)'
      BY <1>3, <1>4, <1>6 DEF LayersPassed, Passed
    <3>4. ASSUME NEW u \in Orchestrator!Layer(run[r].layer) \ (todo \union busy)
          PROVE  Passed(u)' \/ Orchestrator!Halted'
      <4>1. u \in Orchestrator!Layer(run[r].layer) /\ u \notin todo \union busy /\ u \in Tasks
        BY <1>4
      <4>2. CASE u = t
        BY <1>6, <4>1, <4>2 DEF Passed, Orchestrator!Halted
      <4>3. CASE u # t
        <5>1. u \notin run[r].todo \union run[r].busy
          BY <4>1, <4>3
        <5>2. Passed(u) \/ Orchestrator!Halted
          BY <1>3, <4>1, <5>1 DEF LayersPassed
        <5> QED
          BY <1>6, <1>8, <4>1, <4>3, <5>2 DEF Passed
      <4> QED
        BY <4>2, <4>3
    <3>5. \A u \in run'[r].busy : task'[u] = "in_progress"
      BY <1>3, <1>4, <1>5, <1>6 DEF LayersPassed
    <3>6. status' # "completed" /\ status' # "pending"
      BY <1>3, <1>8 DEF LayersPassed
    <3> QED
      BY <1>5, <3>1, <3>2, <3>3, <3>4, <3>5, <3>6, <3>7 DEF LayersPassed
  <2> QED
    BY <1>3, <1>5, <2>1 DEF RunsWell
<1>11. DoneStays'
  BY <1>6, <1>4 DEF DoneStays, Orchestrator!TypeOK
<1>12. PauseInForce'
  BY <1>5, <1>8 DEF PauseInForce
<1>13. Orchestrator!CompletedMeansDone' /\ Orchestrator!RunningIsRun'
  BY <1>3, <1>5, <1>8 DEF Orchestrator!CompletedMeansDone, Orchestrator!RunningIsRun, LayersPassed
<1>14. Orchestrator!CyclesFound'
  BY <1>4, <1>6 DEF Orchestrator!CyclesFound
<1> QED
  BY <1>7, <1>9, <1>10, <1>11, <1>12, <1>13, <1>14

(* A task that is skipped or was finished before. *)
LEMMA PassOverStep ==
  ASSUME WorkflowInv, NEW r \in Runs, NEW t \in Tasks, Orchestrator!PassOver(r, t)
  PROVE  WorkflowInv'
<1> DEFINE st == IF Orchestrator!Finished(t) THEN "completed" ELSE "skipped"
           todo == run[r].todo \ {t}
           busy == run[r].busy
<1>1. /\ Orchestrator!Active(r) /\ LayersPassed(r)
      /\ run \in [Runs -> [pc : {"new", "layer", "over"}, layer : 0..(Orchestrator!Last + 1),
                           todo : SUBSET Tasks, busy : SUBSET Tasks]]
  BY ActiveRun DEF Orchestrator!PassOver
<1>2. t \in Orchestrator!Layer(run[r].layer) /\ t \in run[r].todo /\ t \notin run[r].busy
  BY <1>1 DEF Orchestrator!PassOver, LayersPassed
<1>3. todo \in SUBSET Tasks /\ busy \in SUBSET Tasks /\ todo \intersect busy = {}
  BY <1>1 DEF LayersPassed
<1>4. st \in Orchestrator!TaskStatuses \ {"pending"} /\ task' = [task EXCEPT ![t] = st]
      /\ (task[t] # "completed" \/ st = "completed")
  BY DEF Orchestrator!PassOver, Orchestrator!Finished, Orchestrator!TaskStatuses
<1>5. run' = [run EXCEPT ![r].todo = todo, ![r].busy = busy]
  BY <1>1 DEF Orchestrator!PassOver
<1>6. results' \subseteq Tasks /\ plan' = plan /\ status' = status /\ approved' = approved
        /\ held' = held
      /\ cancelled' = cancelled /\ done' = done
  BY DEF Orchestrator!PassOver, Orchestrator!history, WorkflowInv, Orchestrator!TypeOK
<1>7. st # "in_progress" /\ st \in {"completed", "skipped"}
  OBVIOUS
<1>8. todo \union busy \subseteq run[r].todo \union run[r].busy
      /\ (run[r].todo \union run[r].busy) \ (todo \union busy) \subseteq {t}
      /\ t \notin todo /\ t \notin busy /\ busy \subseteq run[r].busy \union {t}
  BY <1>2
<1> HIDE DEF st, todo, busy
<1> QED
  BY <1>1, <1>2, <1>3, <1>4, <1>5, <1>6, <1>7, <1>8, RunGoesOn

(* A task starts. *)
LEMMA StartTaskStep ==
  ASSUME WorkflowInv, NEW r \in Runs, NEW t \in Tasks, Orchestrator!StartTask(r, t)
  PROVE  WorkflowInv'
<1> DEFINE todo == run[r].todo \ {t}
           busy == run[r].busy \union {t}
<1>1. /\ Orchestrator!Active(r) /\ LayersPassed(r)
      /\ run \in [Runs -> [pc : {"new", "layer", "over"}, layer : 0..(Orchestrator!Last + 1),
                           todo : SUBSET Tasks, busy : SUBSET Tasks]]
  BY ActiveRun DEF Orchestrator!StartTask
<1>2. t \in Orchestrator!Layer(run[r].layer) /\ t \in run[r].todo /\ t \notin run[r].busy
  BY <1>1 DEF Orchestrator!StartTask, LayersPassed
<1>3. todo \in SUBSET Tasks /\ busy \in SUBSET Tasks /\ todo \intersect busy = {}
  BY <1>1 DEF LayersPassed
<1>4. "in_progress" \in Orchestrator!TaskStatuses \ {"pending"}
        /\ task' = [task EXCEPT ![t] = "in_progress"]
      /\ task[t] # "completed"
  BY DEF Orchestrator!StartTask, Orchestrator!Finished, Orchestrator!TaskStatuses
<1>5. run' = [run EXCEPT ![r].todo = todo, ![r].busy = busy]
  BY <1>1 DEF Orchestrator!StartTask
<1>6. results' \subseteq Tasks /\ plan' = plan /\ status' = status /\ approved' = approved
        /\ held' = held
      /\ cancelled' = cancelled /\ done' = done
  BY DEF Orchestrator!StartTask, Orchestrator!history, WorkflowInv, Orchestrator!TypeOK
<1>8. todo \union busy \subseteq run[r].todo \union run[r].busy
      /\ (run[r].todo \union run[r].busy) \ (todo \union busy) \subseteq {t}
      /\ t \notin todo /\ t \in busy /\ busy \subseteq run[r].busy \union {t}
  BY <1>2
<1> HIDE DEF todo, busy
<1> QED
  BY <1>1, <1>2, <1>3, <1>4, <1>5, <1>6, <1>8, RunGoesOn

(* The executor of a task returns. *)
LEMMA TaskReturnsStep ==
  ASSUME WorkflowInv, NEW r \in Runs, NEW t \in Tasks, Orchestrator!TaskReturns(r, t)
  PROVE  WorkflowInv'
<1> DEFINE todo == run[r].todo
           busy == run[r].busy \ {t}
<1>1. /\ Orchestrator!Active(r) /\ LayersPassed(r)
      /\ run \in [Runs -> [pc : {"new", "layer", "over"}, layer : 0..(Orchestrator!Last + 1),
                           todo : SUBSET Tasks, busy : SUBSET Tasks]]
  BY ActiveRun DEF Orchestrator!TaskReturns
<1>2. t \in Orchestrator!Layer(run[r].layer) /\ t \in run[r].busy /\ t \notin run[r].todo
  BY <1>1 DEF Orchestrator!TaskReturns, LayersPassed
<1>3. todo \in SUBSET Tasks /\ busy \in SUBSET Tasks /\ todo \intersect busy = {}
  BY <1>1 DEF LayersPassed
<1>4. "completed" \in Orchestrator!TaskStatuses \ {"pending"}
        /\ task' = [task EXCEPT ![t] = "completed"]
  BY DEF Orchestrator!TaskReturns, Orchestrator!TaskStatuses
<1>5. run' = [run EXCEPT ![r].todo = todo, ![r].busy = busy]
  BY <1>1 DEF Orchestrator!TaskReturns
<1>6. results' \subseteq Tasks /\ plan' = plan /\ status' = status /\ approved' = approved
        /\ held' = held
      /\ cancelled' = cancelled /\ done' = done \union {t}
  BY DEF Orchestrator!TaskReturns, Orchestrator!history, WorkflowInv, Orchestrator!TypeOK
<1>8. todo \union busy \subseteq run[r].todo \union run[r].busy
      /\ (run[r].todo \union run[r].busy) \ (todo \union busy) \subseteq {t}
      /\ t \notin todo /\ t \notin busy /\ busy \subseteq run[r].busy \union {t}
  BY <1>2
<1> HIDE DEF todo, busy
<1> QED
  BY <1>1, <1>2, <1>3, <1>4, <1>5, <1>6, <1>8, RunGoesOn

(* The executor of a task raises: the workflow has failed. *)
LEMMA TaskFailsStep ==
  ASSUME WorkflowInv, NEW r \in Runs, NEW t \in Tasks, Orchestrator!TaskFails(r, t)
  PROVE  WorkflowInv'
<1> DEFINE todo == run[r].todo
           busy == run[r].busy \ {t}
<1>1. /\ Orchestrator!Active(r) /\ LayersPassed(r)
      /\ run \in [Runs -> [pc : {"new", "layer", "over"}, layer : 0..(Orchestrator!Last + 1),
                           todo : SUBSET Tasks, busy : SUBSET Tasks]]
  BY ActiveRun DEF Orchestrator!TaskFails
<1>2. t \in Orchestrator!Layer(run[r].layer) /\ t \in run[r].busy /\ t \notin run[r].todo
        /\ task[t] = "in_progress"
  BY <1>1 DEF Orchestrator!TaskFails, LayersPassed
<1>3. todo \in SUBSET Tasks /\ busy \in SUBSET Tasks /\ todo \intersect busy = {}
  BY <1>1 DEF LayersPassed
<1>4. "failed" \in Orchestrator!TaskStatuses \ {"pending"} /\ task' = [task EXCEPT ![t] = "failed"]
  BY DEF Orchestrator!TaskFails, Orchestrator!TaskStatuses
<1>5. run' = [run EXCEPT ![r].todo = todo, ![r].busy = busy]
  BY <1>1 DEF Orchestrator!TaskFails
<1>6. results' \subseteq Tasks /\ plan' = plan /\ status' = "failed" /\ approved' = approved
        /\ held' = held
      /\ cancelled' = cancelled /\ done' = done
  BY DEF Orchestrator!TaskFails, Orchestrator!history, WorkflowInv, Orchestrator!TypeOK
<1>8. todo \union busy \subseteq run[r].todo \union run[r].busy
      /\ (run[r].todo \union run[r].busy) \ (todo \union busy) \subseteq {t}
      /\ t \notin todo /\ t \notin busy /\ busy \subseteq run[r].busy \union {t}
  BY <1>2
<1> HIDE DEF todo, busy
<1> QED
  BY <1>1, <1>2, <1>3, <1>4, <1>5, <1>6, <1>8, RunGoesOn

(* A run ends: it halts, completes the workflow, or is cancelled. *)
LEMMA RunEnds ==
  ASSUME WorkflowInv, NEW r \in Runs, Orchestrator!Active(r),
         run' = [run EXCEPT ![r] = [@ EXCEPT !.pc = "over", !.todo = {}, !.busy = {}]],
         plan' = plan, task' = task, results' = results, done' = done, approved' = approved,
         held' = held,
         \/ status' = status /\ (Orchestrator!Halted \/ cancelled') /\ (cancelled => cancelled')
              /\ cancelled' \in BOOLEAN
         \/ status' = "completed" /\ ~Orchestrator!Halted /\ cancelled' = cancelled
              /\ \A t \in Tasks : Passed(t)
  PROVE  WorkflowInv'
<1> USE DEF WorkflowInv
<1>1. Orchestrator!Last \in Nat
  BY LastType
<1>2. /\ \A q \in Runs : q # r => ~Orchestrator!Active(q)
      /\ run \in [Runs -> [pc : {"new", "layer", "over"}, layer : 0..(Orchestrator!Last + 1),
                           todo : SUBSET Tasks, busy : SUBSET Tasks]]
  BY ActiveRun
<1>3. /\ \A q \in Runs : ~Orchestrator!Active(q)'
      /\ \A q \in Runs : q # r => run'[q] = run[q]
      /\ run'[r].todo = {} /\ run'[r].busy = {}
  BY <1>2 DEF Orchestrator!Active
<1>4. Orchestrator!TypeOK'
  <2>1. run' \in [Runs -> [pc : {"new", "layer", "over"}, layer : 0..(Orchestrator!Last + 1),
                           todo : SUBSET Tasks, busy : SUBSET Tasks]]
    BY <1>2
  <2> QED
    BY <2>1 DEF Orchestrator!TypeOK, Orchestrator!Statuses
<1>5. OneRun' /\ RunsWell'
  BY <1>2, <1>3 DEF OneRun, RunsWell
<1>6. DoneStays' /\ Orchestrator!CompletedMeansDone' /\ Orchestrator!RunningIsRun'
        /\ Orchestrator!CyclesFound'
  BY DEF DoneStays, Orchestrator!CompletedMeansDone, Orchestrator!RunningIsRun,
         Orchestrator!CyclesFound, Passed, Orchestrator!Halted, Orchestrator!TypeOK
<1>7. PauseInForce'
  BY <1>3 DEF PauseInForce, Orchestrator!Halted
<1> QED
  BY <1>4, <1>5, <1>6, <1>7

(* A run sees that the workflow no longer runs and ends. *)
LEMMA HaltStep ==
  ASSUME WorkflowInv, NEW r \in Runs, Orchestrator!Halt(r)
  PROVE  WorkflowInv'
<1>1. Orchestrator!Active(r) /\ run[r].todo = {} /\ run[r].busy = {} /\ Orchestrator!Halted
  BY DEF Orchestrator!Halt, Orchestrator!LayerDone
<1>2. run \in [Runs -> [pc : {"new", "layer", "over"}, layer : 0..(Orchestrator!Last + 1),
                        todo : SUBSET Tasks, busy : SUBSET Tasks]]
  BY DEF WorkflowInv, Orchestrator!TypeOK
<1>3. run' = [run EXCEPT ![r] = [@ EXCEPT !.pc = "over", !.todo = {}, !.busy = {}]]
  BY <1>1, <1>2 DEF Orchestrator!Halt
<1>4. UNCHANGED <<plan, status, task, results, done, approved, held, cancelled>>
        /\ cancelled \in BOOLEAN
  BY DEF Orchestrator!Halt, Orchestrator!history, WorkflowInv, Orchestrator!TypeOK
<1> QED
  BY <1>1, <1>3, <1>4, RunEnds

(* The last layer is done: the workflow is completed. *)
LEMMA CompleteStep ==
  ASSUME WorkflowInv, NEW r \in Runs, Orchestrator!Complete(r)
  PROVE  WorkflowInv'
<1>1. Orchestrator!Active(r) /\ run[r].todo = {} /\ run[r].busy = {} /\ ~Orchestrator!Halted
        /\ Orchestrator!Layer(run[r].layer + 1) = {}
  BY DEF Orchestrator!Complete, Orchestrator!LayerDone, Orchestrator!LastLayer
<1>2. /\ LayersPassed(r)
      /\ run[r].layer \in Nat /\ run[r].layer - 1 \in Nat /\ (run[r].layer - 1) + 1 = run[r].layer
      /\ run \in [Runs -> [pc : {"new", "layer", "over"}, layer : 0..(Orchestrator!Last + 1),
                           todo : SUBSET Tasks, busy : SUBSET Tasks]]
  BY <1>1, ActiveRun
<1>3. run' = [run EXCEPT ![r] = [@ EXCEPT !.pc = "over", !.todo = {}, !.busy = {}]]
  BY <1>1, <1>2 DEF Orchestrator!Complete
<1>4. plan \in Orchestrator!SceneType /\ ~Orchestrator!HasCycle
  BY <1>2 DEF WorkflowInv, Orchestrator!TypeOK, LayersPassed
<1>5. Taken(run[r].layer) = Tasks
  BY <1>1, <1>2, <1>4, LayersEnd
<1>6. Taken(run[r].layer) = Taken(run[r].layer - 1) \union Orchestrator!Layer(run[r].layer)
  BY <1>2, <1>4, LayerFacts
<1>7. \A t \in Tasks : Passed(t)
  BY <1>1, <1>2, <1>5, <1>6 DEF LayersPassed
<1>8. UNCHANGED <<plan, task, results, done, approved, held, cancelled>> /\ status' = "completed"
  BY DEF Orchestrator!Complete, Orchestrator!history
<1> QED
  BY <1>1, <1>3, <1>7, <1>8, RunEnds

(* The task of a run is cancelled. *)
LEMMA CancelStep ==
  ASSUME WorkflowInv, NEW r \in Runs, Orchestrator!Cancel(r)
  PROVE  WorkflowInv'
BY RunEnds DEF Orchestrator!Cancel

(* A run goes on to the next layer. *)
LEMMA NextLayerStep ==
  ASSUME WorkflowInv, NEW r \in Runs, Orchestrator!NextLayer(r)
  PROVE  WorkflowInv'
<1> USE DEF WorkflowInv
<1> DEFINE l == run[r].layer
<1>1. Orchestrator!Active(r) /\ run[r].todo = {} /\ run[r].busy = {} /\ ~Orchestrator!Halted
        /\ Orchestrator!Layer(l + 1) # {}
  BY DEF Orchestrator!NextLayer, Orchestrator!LayerDone, Orchestrator!LastLayer
<1>2. /\ LayersPassed(r) /\ \A q \in Runs : q # r => ~Orchestrator!Active(q)
      /\ l \in Nat /\ l - 1 \in Nat /\ (l - 1) + 1 = l
      /\ run \in [Runs -> [pc : {"new", "layer", "over"}, layer : 0..(Orchestrator!Last + 1),
                           todo : SUBSET Tasks, busy : SUBSET Tasks]]
  BY <1>1, ActiveRun
<1>3. run' = [run EXCEPT ![r].layer = l + 1, ![r].todo = Orchestrator!Layer(l + 1)]
      /\ UNCHANGED <<plan, status, task, results, done, approved, held, cancelled>>
  BY DEF Orchestrator!NextLayer, Orchestrator!history
<1>4. plan \in Orchestrator!SceneType /\ ~Orchestrator!HasCycle /\ Orchestrator!Last \in Nat
  BY <1>2, LastType DEF Orchestrator!TypeOK, LayersPassed
<1>5. l + 1 <= Orchestrator!Last /\ Orchestrator!Layer(l + 1) \subseteq Tasks
  BY <1>1, <1>2, <1>4, LayersEnd, LayerFacts
<1>6. Taken(l) = Taken(l - 1) \union Orchestrator!Layer(l)
  BY <1>2, <1>4, LayerFacts
<1>7. /\ \A n : Taken(n)' = Taken(n) /\ Orchestrator!Layer(n)' = Orchestrator!Layer(n)
      /\ Orchestrator!HasCycle' = Orchestrator!HasCycle
  BY <1>3, SameLayers
<1>8. /\ \A q \in Runs : q # r => run'[q] = run[q]
      /\ run'[r].layer = l + 1 /\ run'[r].todo = Orchestrator!Layer(l + 1) /\ run'[r].busy = {}
      /\ \A q \in Runs : Orchestrator!Active(q)' = Orchestrator!Active(q)
  BY <1>1, <1>2, <1>3 DEF Orchestrator!Active
<1>9. Orchestrator!TypeOK'
  <2>1. run' \in [Runs -> [pc : {"new", "layer", "over"}, layer : 0..(Orchestrator!Last + 1),
                           todo : SUBSET Tasks, busy : SUBSET Tasks]]
    <3>1. l + 1 \in 0..(Orchestrator!Last + 1)
      BY <1>2, <1>4, <1>5
    <3> HIDE DEF l
    <3> QED
      BY <1>2, <1>3, <1>5, <3>1
  <2> QED
    BY <1>3, <2>1 DEF Orchestrator!TypeOK
<1>10. OneRun'
  BY <1>3, <1>8 DEF OneRun
<1>11. LayersPassed(r)'
  <2>1. run'[r].layer - 1 = l /\ run'[r].layer >= 1
    BY <1>2, <1>8
  <2>2. Taken(run[r].layer - 1)' = Taken(l)
          /\ Orchestrator!Layer(run[r].layer)' = Orchestrator!Layer(l + 1)
    BY <1>3, <1>8, <2>1 DEF Taken, Orchestrator!Layer
  <2>3. \A t \in Taken(l) : Passed(t)'
    BY <1>1, <1>2, <1>3, <1>6 DEF LayersPassed, Passed
  <2>4. status' # "completed" /\ status' # "pending"
    BY <1>2, <1>3 DEF LayersPassed
  <2> HIDE DEF l
  <2> QED
    BY <1>4, <1>7, <1>8, <2>1, <2>2, <2>3, <2>4 DEF LayersPassed
<1>12. RunsWell'
  BY <1>1, <1>2, <1>8, <1>11 DEF RunsWell
<1>13. DoneStays' /\ PauseInForce' /\ Orchestrator!CompletedMeansDone'
         /\ Orchestrator!RunningIsRun' /\ Orchestrator!CyclesFound'
  BY <1>1, <1>3, <1>8
     DEF DoneStays, PauseInForce, Orchestrator!CompletedMeansDone, Orchestrator!RunningIsRun,
         Orchestrator!CyclesFound, Orchestrator!Halted
<1> QED
  BY <1>9, <1>10, <1>12, <1>13

(* A pause, during a run or without one. *)
LEMMA PauseStep ==
  ASSUME WorkflowInv, Orchestrator!Pause
  PROVE  WorkflowInv'
<1> USE DEF WorkflowInv
<1>1. status' = "paused" /\ held' = 1 + Orchestrator!LayerUnderWay
      /\ UNCHANGED <<plan, task, results, run, done, approved, cancelled>>
  BY DEF Orchestrator!Pause
<1>2. Orchestrator!Last \in Nat
  BY LastType
<1>3. /\ Orchestrator!LayerUnderWay \in 0..(Orchestrator!Last + 1)
      /\ \A r \in Runs : Orchestrator!Active(r) => run[r].layer = Orchestrator!LayerUnderWay
  <2>1. ASSUME NEW r \in Runs, Orchestrator!Active(r)
        PROVE  Orchestrator!LayerUnderWay \in 0..(Orchestrator!Last + 1)
                 /\ run[r].layer = Orchestrator!LayerUnderWay
    <3>1. run[r].layer \in 0..(Orchestrator!Last + 1)
            /\ \A q \in Runs : Orchestrator!Active(q) => q = r
      BY <2>1, <1>2, ActiveRun
    <3>2. Orchestrator!LayerUnderWay = CHOOSE n \in 0..(Orchestrator!Last + 1) :
            \E q \in Runs : Orchestrator!Active(q) /\ run[q].layer = n
      BY <2>1 DEF Orchestrator!LayerUnderWay
    <3>3. Orchestrator!LayerUnderWay \in 0..(Orchestrator!Last + 1)
            /\ \E q \in Runs : Orchestrator!Active(q) /\ run[q].layer = Orchestrator!LayerUnderWay
      BY <2>1, <3>1, <3>2
    <3> QED
      BY <3>1, <3>3
  <2>2. CASE \E r \in Runs : Orchestrator!Active(r)
    BY <2>1, <2>2
  <2>3. CASE ~\E r \in Runs : Orchestrator!Active(r)
    BY <1>2, <2>3 DEF Orchestrator!LayerUnderWay
  <2> QED
    BY <2>2, <2>3
<1>4. /\ \A n : Taken(n)' = Taken(n) /\ Orchestrator!Layer(n)' = Orchestrator!Layer(n)
      /\ Orchestrator!HasCycle' = Orchestrator!HasCycle
  BY <1>1, SameLayers
<1>5. \A r \in Runs : Orchestrator!Active(r)' = Orchestrator!Active(r)
  BY <1>1 DEF Orchestrator!Active
<1>6. Orchestrator!TypeOK'
  <2>1. held' \in 0..(Orchestrator!Last + 2)
    BY <1>1, <1>2, <1>3
  <2> QED
    BY <1>1, <2>1 DEF Orchestrator!TypeOK, Orchestrator!Statuses
<1>7. OneRun'
  BY <1>1, <1>5 DEF OneRun
<1>8. RunsWell'
  <2>1. Orchestrator!Halted'
    BY <1>1 DEF Orchestrator!Halted
  <2>2. ASSUME NEW r \in Runs, Orchestrator!Active(r)
        PROVE  LayersPassed(r)'
    <3>1. LayersPassed(r)
      BY <2>2 DEF RunsWell
    <3>2. Orchestrator!Layer(run[r].layer)' = Orchestrator!Layer(run[r].layer)
            /\ Taken(run[r].layer - 1)' = Taken(run[r].layer - 1)
      BY <1>1 DEF Orchestrator!Layer, Taken
    <3> QED
      BY <1>1, <1>4, <2>1, <3>1, <3>2 DEF LayersPassed, Passed
  <2> QED
    BY <1>1, <1>5, <2>2 DEF RunsWell
<1>9. PauseInForce'
  BY <1>1, <1>2, <1>3, <1>5 DEF PauseInForce, Orchestrator!Halted
<1>10. DoneStays' /\ Orchestrator!CompletedMeansDone' /\ Orchestrator!RunningIsRun'
         /\ Orchestrator!CyclesFound'
  BY <1>1, <1>5
     DEF DoneStays, Orchestrator!CompletedMeansDone, Orchestrator!RunningIsRun,
         Orchestrator!CyclesFound
<1> QED
  BY <1>6, <1>7, <1>8, <1>9, <1>10

(* A call of execute_workflow or resume_workflow. *)
LEMMA RunCalledStep ==
  ASSUME WorkflowInv, NEW r \in Runs, Orchestrator!Execute(r) \/ Orchestrator!Resume(r)
  PROVE  WorkflowInv'
BY RunBegins
   DEF Orchestrator!Execute, Orchestrator!Resume, KeepsCompleted, WorkflowInv, Orchestrator!TypeOK

(* An approval, which completes a task and resumes the workflow. *)
LEMMA ApproveStep ==
  ASSUME WorkflowInv, NEW r \in Runs, NEW t \in Tasks, Orchestrator!Approve(r, t)
  PROVE  WorkflowInv'
<1> USE DEF WorkflowInv
<1>1. Orchestrator!MayCall(r) /\ task' = [task EXCEPT ![t] = "completed"]
        /\ approved' = approved \union {t}
      /\ UNCHANGED <<plan, results, done, cancelled>>
  BY DEF Orchestrator!Approve
<1>2. KeepsCompleted /\ approved' \subseteq Tasks
  BY <1>1 DEF KeepsCompleted, Orchestrator!TypeOK, Orchestrator!TaskStatuses
<1>3. CASE status = "paused"
  <2>1. Orchestrator!RunWorkflow(r)
    BY <1>3 DEF Orchestrator!Approve
  <2> QED
    BY <1>1, <1>2, <2>1, RunBegins
<1>4. CASE status # "paused"
  <2>1. UNCHANGED <<status, run, held>>
    BY <1>4 DEF Orchestrator!Approve
  <2>2. \A q \in Runs : ~Orchestrator!Active(q) /\ ~Orchestrator!Active(q)'
    BY <1>1, <2>1 DEF Orchestrator!MayCall, OneRun, Orchestrator!Active
  <2>3. Orchestrator!TypeOK'
    BY <1>1, <1>2, <2>1 DEF Orchestrator!TypeOK, KeepsCompleted
  <2>4. OneRun' /\ RunsWell'
    BY <1>1, <2>1, <2>2 DEF OneRun, RunsWell
  <2>5. DoneStays' /\ Orchestrator!CompletedMeansDone' /\ Orchestrator!RunningIsRun'
    BY <1>1, <1>2, <2>1, <2>2
       DEF DoneStays, Orchestrator!CompletedMeansDone, Orchestrator!RunningIsRun, KeepsCompleted,
           Orchestrator!TypeOK
  <2>6. PauseInForce'
    BY <2>1, <2>2 DEF PauseInForce, Orchestrator!Halted
  <2>7. Orchestrator!CyclesFound'
    BY <1>1, <2>1 DEF Orchestrator!CyclesFound, Orchestrator!TypeOK
  <2> QED
    BY <2>3, <2>4, <2>5, <2>6, <2>7
<1> QED
  BY <1>3, <1>4

(* Every step of the orchestrator keeps its invariant. *)
LEMMA WorkflowGoesOn ==
  ASSUME WorkflowInv, [Orchestrator!Next]_(Orchestrator!vars)
  PROVE  WorkflowInv'
<1>1. CASE UNCHANGED Orchestrator!vars
  <2>1. UNCHANGED <<plan, status, task, results, run, done, approved, held, cancelled>>
    BY <1>1 DEF Orchestrator!vars, Orchestrator!history
  <2> QED
    BY <2>1
       DEF WorkflowInv, Orchestrator!TypeOK, OneRun, RunsWell, LayersPassed, DoneStays,
           PauseInForce, Orchestrator!CompletedMeansDone,
                Orchestrator!RunningIsRun, Orchestrator!CyclesFound, Orchestrator!Active,
                  Orchestrator!Halted, Orchestrator!HasCycle, Passed, Taken, Orchestrator!Layer
<1>2. ASSUME NEW r \in Runs, NEW t \in Tasks, Orchestrator!Approve(r, t)
      PROVE  WorkflowInv'
  BY <1>2, ApproveStep
<1>3. ASSUME NEW r \in Runs, Orchestrator!RunStep(r)
      PROVE  WorkflowInv'
  BY <1>3, HaltStep, NextLayerStep, CompleteStep, PassOverStep, StartTaskStep, TaskReturnsStep,
     TaskFailsStep
     DEF Orchestrator!RunStep
<1>4. ASSUME NEW r \in Runs,
             Orchestrator!Execute(r) \/ Orchestrator!Resume(r) \/ Orchestrator!Cancel(r)
      PROVE  WorkflowInv'
  BY <1>4, RunCalledStep, CancelStep
<1> QED
  BY <1>1, <1>2, <1>3, <1>4, PauseStep DEF Orchestrator!Next

(* How a task comes to be under way: only by starting. *)
LEMMA OnlyStartTaskStarts ==
  ASSUME WorkflowInv, [Orchestrator!Next]_(Orchestrator!vars), NEW q \in Runs, NEW t,
         t \in run'[q].busy \ run[q].busy
  PROVE  Orchestrator!StartTask(q, t) /\ t \in Tasks
<1>1. run \in [Runs -> [pc : {"new", "layer", "over"}, layer : 0..(Orchestrator!Last + 1),
                        todo : SUBSET Tasks, busy : SUBSET Tasks]]
  BY DEF WorkflowInv, Orchestrator!TypeOK
<1>2. ~UNCHANGED run
  OBVIOUS
<1>3. ASSUME NEW r \in Runs, Orchestrator!RunWorkflow(r)
      PROVE  FALSE
  BY <1>1, <1>3 DEF Orchestrator!RunWorkflow
<1>4. ASSUME NEW r \in Runs,
             Orchestrator!Halt(r) \/ Orchestrator!NextLayer(r) \/ Orchestrator!Complete(r)
               \/ Orchestrator!Cancel(r)
      PROVE  FALSE
  <2>1. CASE Orchestrator!Halt(r)
    BY <1>1, <2>1 DEF Orchestrator!Halt
  <2>2. CASE Orchestrator!NextLayer(r)
    BY <1>1, <2>2 DEF Orchestrator!NextLayer
  <2>3. CASE Orchestrator!Complete(r)
    BY <1>1, <2>3 DEF Orchestrator!Complete
  <2>4. CASE Orchestrator!Cancel(r)
    BY <1>1, <2>4 DEF Orchestrator!Cancel
  <2> QED
    BY <1>4, <2>1, <2>2, <2>3, <2>4
<1>5. ASSUME NEW r \in Runs, NEW u \in Tasks, Orchestrator!PassOver(r, u)
             \/ Orchestrator!TaskReturns(r, u) \/ Orchestrator!TaskFails(r, u)
      PROVE  FALSE
  BY <1>1, <1>5 DEF Orchestrator!PassOver, Orchestrator!TaskReturns, Orchestrator!TaskFails
<1>6. ASSUME NEW r \in Runs, NEW u \in Tasks, Orchestrator!StartTask(r, u)
      PROVE  r = q /\ u = t
  BY <1>1, <1>6 DEF Orchestrator!StartTask
<1>7. ASSUME NEW r \in Runs, NEW u \in Tasks, Orchestrator!Approve(r, u)
      PROVE  FALSE
  BY <1>2, <1>3, <1>7 DEF Orchestrator!Approve
<1> QED
  BY <1>2, <1>3, <1>4, <1>5, <1>6, <1>7
     DEF Orchestrator!Next, Orchestrator!RunStep, Orchestrator!vars, Orchestrator!Pause,
         Orchestrator!Execute, Orchestrator!Resume

(* The three promises about the order of tasks, of every step. *)
LEMMA WorkflowOrder ==
  ASSUME WorkflowInv, [Orchestrator!Next]_(Orchestrator!vars)
  PROVE  /\ \A t \in Tasks : (\E r \in Runs : t \in run'[r].busy \ run[r].busy) =>
              \A d \in plan.deps[t] : task[d] \in {"completed", "skipped"}
         /\ \A t \in done : task[t] = "completed"
              /\ ~\E r \in Runs : t \in run'[r].busy \ run[r].busy
         /\ held > 0 => \A r \in Runs :
              run'[r].busy # run[r].busy /\ run'[r].busy \ run[r].busy # {} =>
              run[r].layer <= held - 1
<1>1. ASSUME NEW r \in Runs, NEW t, t \in run'[r].busy \ run[r].busy
      PROVE  /\ Orchestrator!Active(r) /\ LayersPassed(r) /\ t \in Orchestrator!Layer(run[r].layer)
                  /\ task[t] # "completed"
             /\ run[r].layer - 1 \in Nat /\ (run[r].layer - 1) + 1 = run[r].layer
                  /\ run[r].layer \in Nat
  <2>1. Orchestrator!StartTask(r, t) /\ t \in Tasks
    BY <1>1, OnlyStartTaskStarts
  <2>2. Orchestrator!Active(r) /\ t \in run[r].todo /\ task[t] # "completed"
    BY <2>1 DEF Orchestrator!StartTask, Orchestrator!Finished
  <2>3. LayersPassed(r) /\ run[r].layer - 1 \in Nat /\ (run[r].layer - 1) + 1 = run[r].layer
          /\ run[r].layer \in Nat
    BY <2>2, ActiveRun
  <2> QED
    BY <2>2, <2>3 DEF LayersPassed
<1>2. ASSUME NEW t \in Tasks, NEW r \in Runs, t \in run'[r].busy \ run[r].busy,
             NEW d \in plan.deps[t]
      PROVE  task[d] \in {"completed", "skipped"}
  <2>1. plan \in Orchestrator!SceneType
    BY DEF WorkflowInv, Orchestrator!TypeOK
  <2>2. plan.deps[t] \subseteq Taken(run[r].layer - 1)
    BY <1>1, <1>2, <2>1, LayerFacts
  <2> QED
    BY <1>1, <1>2, <2>2 DEF LayersPassed, Passed
<1>3. ASSUME NEW t \in done
      PROVE  task[t] = "completed" /\ ~\E r \in Runs : t \in run'[r].busy \ run[r].busy
  BY <1>1 DEF WorkflowInv, DoneStays
<1>4. ASSUME held > 0, NEW r \in Runs, run'[r].busy \ run[r].busy # {}
      PROVE  run[r].layer <= held - 1
  <2>1. Orchestrator!Active(r) /\ run[r].layer \in Nat
    BY <1>1, <1>4
  <2>2. run[r].layer = held - 1
    BY <1>4, <2>1 DEF WorkflowInv, PauseInForce
  <2> QED
    BY <2>1, <2>2
<1> QED
  BY <1>2, <1>3, <1>4


-----------------------------------------------------------------------------
(* The lock of a server: its holder, then those waiting for it.              *)

(* Nobody is in the queue twice. *)
NoTwice(q) == \A i, j \in DOMAIN q : q[i] = q[j] => i = j

(* A call that is not in a queue leaves it as it is. *)
LEMMA NotInQueue ==
  ASSUME NEW q \in Seq(Calls), NEW c, c \notin Servers!ToSet(q)
  PROVE  Servers!RemoveFirst(q, c) = q
BY DEF Servers!RemoveFirst, Servers!ToSet

(* One that is in it leaves it without a gap. *)
LEMMA LeavesQueue ==
  ASSUME NEW q \in Seq(Calls), NoTwice(q), NEW k \in DOMAIN q
  PROVE  LET r == Servers!RemoveFirst(q, q[k])
         IN /\ r \in Seq(Calls) /\ Len(r) = Len(q) - 1
            /\ \A i \in 1..(k - 1) : r[i] = q[i]
            /\ \A i \in k..(Len(q) - 1) : r[i] = q[i + 1]
<1> DEFINE c == q[k]
           before == SubSeq(q, 1, k - 1)
           after == SubSeq(q, k + 1, Len(q))
<1>1. k \in 1..Len(q) /\ Len(q) \in Nat
  OBVIOUS
<1>2. Servers!SelectInSeq(q, LAMBDA v : v = c) = k
  <2>1. {i \in 1..Len(q) : q[i] = c} = {k}
    BY <1>1 DEF NoTwice
  <2>2. Servers!Min({k}) = k
    BY <1>1 DEF Servers!Min
  <2> QED
    BY <2>1, <2>2 DEF Servers!SelectInSeq
<1>3. Servers!RemoveFirst(q, c) = before \o after
  BY <1>1, <1>2 DEF Servers!RemoveFirst, Servers!RemoveAt
<1>4. before \in Seq(Calls) /\ Len(before) = k - 1 /\ \A i \in 1..(k - 1) : before[i] = q[i]
  BY <1>1
<1>5. after \in Seq(Calls) /\ Len(after) = Len(q) - k
        /\ \A i \in 1..(Len(q) - k) : after[i] = q[k + i]
  BY <1>1
<1> HIDE DEF before, after
<1>6. /\ before \o after \in Seq(Calls) /\ Len(before \o after) = Len(q) - 1
      /\ \A i \in 1..(Len(q) - 1) :
           (before \o after)[i] = IF i <= k - 1 THEN before[i] ELSE after[i - (k - 1)]
  BY <1>1, <1>4, <1>5
<1>7. ASSUME NEW i \in k..(Len(q) - 1)
      PROVE  (before \o after)[i] = q[i + 1]
  <2>1. i - (k - 1) \in 1..(Len(q) - k) /\ k + (i - (k - 1)) = i + 1 /\ ~(i <= k - 1)
          /\ i \in 1..(Len(q) - 1)
    BY <1>1
  <2> QED
    BY <1>5, <1>6, <2>1
<1>8. ASSUME NEW i \in 1..(k - 1)
      PROVE  (before \o after)[i] = q[i]
  <2>1. i <= k - 1 /\ i \in 1..(Len(q) - 1)
    BY <1>1
  <2> QED
    BY <1>4, <1>6, <2>1
<1> QED
  BY <1>3, <1>6, <1>7, <1>8

(* Who is left in a queue that a call gives up, and at which places. *)
LEMMA LeftInQueue ==
  ASSUME NEW q \in Seq(Calls), NoTwice(q), NEW c
  PROVE  LET r == Servers!RemoveFirst(q, c)
         IN /\ r \in Seq(Calls) /\ NoTwice(r)
            /\ Servers!ToSet(r) = Servers!ToSet(q) \ {c}
            /\ r # <<>> => r[1] = q[1] \/ q[1] = c
            /\ q # <<>> /\ q[1] # c => r # <<>> /\ r[1] = q[1]
<1>1. CASE c \notin Servers!ToSet(q)
  <2>1. Servers!RemoveFirst(q, c) = q
    BY <1>1, NotInQueue
  <2> QED
    BY <1>1, <2>1 DEF Servers!ToSet
<1>2. ASSUME NEW k \in DOMAIN q, q[k] = c
      PROVE  LET r == Servers!RemoveFirst(q, c)
             IN /\ r \in Seq(Calls) /\ NoTwice(r)
                /\ Servers!ToSet(r) = Servers!ToSet(q) \ {c}
                /\ r # <<>> => r[1] = q[1] \/ q[1] = c
                /\ q # <<>> /\ q[1] # c => r # <<>> /\ r[1] = q[1]
  <2> DEFINE r == Servers!RemoveFirst(q, c)
  <2>1. /\ r \in Seq(Calls) /\ Len(r) = Len(q) - 1
        /\ \A i \in 1..(k - 1) : r[i] = q[i]
        /\ \A i \in k..(Len(q) - 1) : r[i] = q[i + 1]
    BY <1>2, LeavesQueue
  <2> HIDE DEF r
  <2>2. k \in 1..Len(q) /\ Len(q) \in Nat /\ DOMAIN q = 1..Len(q) /\ DOMAIN r = 1..(Len(q) - 1)
    BY <2>1
  <2> DEFINE at(i) == IF i < k THEN i ELSE i + 1
  <2>3. \A i \in DOMAIN r : at(i) \in DOMAIN q /\ at(i) # k /\ r[i] = q[at(i)]
    BY <2>1, <2>2
  <2>4. \A i, j \in DOMAIN r : at(i) = at(j) => i = j
    BY <2>2
  <2>5. NoTwice(r)
    <3> HIDE DEF at
    <3> QED
      BY <2>3, <2>4 DEF NoTwice
  <2>6. Servers!ToSet(r) \subseteq Servers!ToSet(q) \ {c}
    <3>1. ASSUME NEW i \in DOMAIN r
          PROVE  r[i] \in Servers!ToSet(q) /\ r[i] # c
      <4> HIDE DEF at
      <4> QED
        BY <1>2, <2>3 DEF NoTwice, Servers!ToSet
    <3> QED
      BY <3>1 DEF Servers!ToSet
  <2>7. Servers!ToSet(q) \ {c} \subseteq Servers!ToSet(r)
    <3>1. ASSUME NEW i \in DOMAIN q, q[i] # c
          PROVE  \E j \in DOMAIN r : r[j] = q[i]
      <4>1. CASE i < k
        BY <2>1, <2>2, <4>1
      <4>2. CASE i > k
        <5>1. i - 1 \in k..(Len(q) - 1) /\ (i - 1) + 1 = i /\ i - 1 \in DOMAIN r
          BY <2>2, <4>2
        <5> QED
          BY <2>1, <5>1
      <4> QED
        BY <1>2, <2>2, <3>1, <4>1, <4>2
    <3> QED
      BY <3>1 DEF Servers!ToSet
  <2>8. (r # <<>> => r[1] = q[1] \/ q[1] = c) /\ (q # <<>> /\ q[1] # c => r # <<>> /\ r[1] = q[1])
    <3>1. CASE k = 1
      BY <1>2, <3>1
    <3>2. CASE k # 1
      <4>1. 1 \in 1..(k - 1) /\ Len(r) # 0
        BY <2>1, <2>2, <3>2
      <4> QED
        BY <2>1, <4>1
    <3> QED
      BY <3>1, <3>2
  <2> QED
    BY <2>1, <2>5, <2>6, <2>7, <2>8 DEF r
<1> QED
  BY <1>1, <1>2 DEF Servers!ToSet

-----------------------------------------------------------------------------
(* What holds of the calls and the locks.                                    *)

CallType ==
  [pc : {"new", "running", "waiting", "calling", "done"},
   tool : Tools \union {Nobody}, to : Servers!Adapters \union {"none"},
   server : Servers!Servers \union {Nobody}, shown : BOOLEAN, result : Servers!Results,
   answer : Calls \union {Nobody}, text : {"none", "raw", "redacted"}]

CallTypes ==
  call \in [Calls -> CallType] /\ queue \in [Servers!Servers -> Seq(Calls)]
    /\ inClient \in [Servers!Servers -> SUBSET Calls]

(* The calls at the lock of a server, and those it lets into the client. *)
AtLock(s) == {c \in Calls : call[c].pc \in {"waiting", "calling"} /\ call[c].server = s}
LetIn(s) == {c \in Calls : call[c].pc = "calling" /\ call[c].server = s}

LockHeld(s) ==
  /\ NoTwice(queue[s])
  /\ Servers!ToSet(queue[s]) = AtLock(s)
  /\ inClient[s] = LetIn(s)
  /\ \A c \in LetIn(s) : queue[s][1] = c

LocksHeld ==
  /\ \A s \in Servers!Servers : LockHeld(s)
  /\ \A c \in Calls : call[c].pc \in {"waiting", "calling"} => call[c].server \in Servers!Servers

(* A call has no result before it is done. *)
NoResultYet == \A c \in Calls : call[c].pc # "done" => call[c].result = "none"

CallsInv ==
  /\ CallTypes /\ LocksHeld /\ NoResultYet
  /\ Servers!OwnAnswer /\ Servers!ShownIsFound /\ Servers!BlockedNeverRuns

(* Before any call. *)
LEMMA CallsStart ==
  ASSUME Servers!Init
  PROVE  CallsInv
<1>1. call = [c \in Calls |-> Servers!NewCall] /\ queue = [s \in Servers!Servers |-> <<>>]
        /\ inClient = [s \in Servers!Servers |-> {}]
  BY DEF Servers!Init
<1>2. Servers!NewCall \in CallType
  BY DEF Servers!NewCall, CallType, Servers!Results
<1>3. CallTypes
  BY <1>1, <1>2 DEF CallTypes
<1>4. \A c \in Calls : call[c] = Servers!NewCall
  BY <1>1
<1>5. LocksHeld
  BY <1>1, <1>4 DEF LocksHeld, LockHeld, AtLock, LetIn, NoTwice, Servers!ToSet, Servers!NewCall
<1>6. NoResultYet /\ Servers!OwnAnswer /\ Servers!ShownIsFound /\ Servers!BlockedNeverRuns
  BY <1>4
     DEF NoResultYet, Servers!OwnAnswer, Servers!ShownIsFound, Servers!BlockedNeverRuns,
         Servers!NewCall
<1> QED
  BY <1>3, <1>5, <1>6 DEF CallsInv

(* A step that changes one call, which was not at a lock and does not come to *)
(* one.                                                                       *)
LEMMA CallAway ==
  ASSUME CallsInv, NEW c \in Calls, NEW rec \in CallType, call' = [call EXCEPT ![c] = rec],
         call[c].pc \notin {"waiting", "calling"}, rec.pc \notin {"waiting", "calling"},
         UNCHANGED <<setup, queue, inClient>>,
         rec.answer \in {c, Nobody}, rec.pc # "done" => rec.result = "none",
         rec.shown => rec.result # "TOOL_NOT_FOUND", rec.to # "none" => Servers!Allowed(rec.tool)
  PROVE  CallsInv'
<1> USE DEF CallsInv
<1>1. call'[c] = rec /\ \A d \in Calls : d # c => call'[d] = call[d]
  BY DEF CallTypes
<1>2. CallTypes'
  BY DEF CallTypes, CallType
<1>3. \A s \in Servers!Servers : AtLock(s)' = AtLock(s) /\ LetIn(s)' = LetIn(s)
  BY <1>1 DEF AtLock, LetIn
<1>4. LocksHeld'
  BY <1>1, <1>3 DEF LocksHeld, LockHeld
<1>5. NoResultYet' /\ Servers!OwnAnswer' /\ Servers!ShownIsFound' /\ Servers!BlockedNeverRuns'
  BY <1>1
     DEF NoResultYet, Servers!OwnAnswer, Servers!ShownIsFound, Servers!BlockedNeverRuns,
         Servers!Allowed
<1> QED
  BY <1>2, <1>4, <1>5

(* A call that ends gives up its place, wherever it is. *)
LEMMA CallLeaves ==
  ASSUME CallsInv, NEW c \in Calls, Servers!Release(c), setup' = setup,
         NEW result \in Servers!Results \ {"TOOL_NOT_FOUND"}, NEW answer \in {c, Nobody},
           Servers!Finish(c, result, answer)
  PROVE  CallsInv'
<1> USE DEF CallsInv
<1> DEFINE rec == Servers!Over(call[c], result, answer)
<1>1. /\ call'[c] = rec /\ \A d \in Calls : d # c => call'[d] = call[d]
      /\ call' \in [Calls -> CallType]
      /\ rec.pc = "done" /\ rec.answer = answer /\ rec.result = result /\ rec.tool = call[c].tool
      /\ rec.to = call[c].to /\ rec.shown = call[c].shown
  <2>1. call[c] \in CallType /\ call \in [Calls -> CallType] /\ answer \in Calls \union {Nobody}
          /\ result \in Servers!Results
    BY DEF CallTypes
  <2>2. rec = [call[c] EXCEPT !.pc = "done", !.result = result, !.answer = answer, !.text = "raw"]
    BY DEF Servers!Over, Servers!AfterText
  <2>3. /\ rec \in CallType /\ rec.pc = "done" /\ rec.answer = answer /\ rec.result = result
        /\ rec.tool = call[c].tool /\ rec.to = call[c].to /\ rec.shown = call[c].shown
    BY <2>1, <2>2 DEF CallType
  <2>4. call' = [call EXCEPT ![c] = rec]
    BY DEF Servers!Finish
  <2> HIDE DEF rec
  <2> QED
    BY <2>1, <2>3, <2>4
<1>2. ASSUME NEW s \in Servers!Servers
      PROVE  /\ queue'[s] = Servers!RemoveFirst(queue[s], c) /\ inClient'[s] = inClient[s] \ {c}
             /\ queue'[s] \in Seq(Calls) /\ NoTwice(queue'[s])
                  /\ Servers!ToSet(queue'[s]) = Servers!ToSet(queue[s]) \ {c}
             /\ (queue[s] # <<>> /\ queue[s][1] # c => queue'[s][1] = queue[s][1])
  <2>1. queue'[s] = Servers!RemoveFirst(queue[s], c) /\ inClient'[s] = inClient[s] \ {c}
    BY DEF Servers!Release
  <2>2. queue[s] \in Seq(Calls) /\ NoTwice(queue[s])
    BY DEF CallTypes, LocksHeld, LockHeld
  <2> QED
    BY <2>1, <2>2, LeftInQueue
<1>3. CallTypes'
  <2>1. queue' = [s \in Servers!Servers |-> queue'[s]]
          /\ inClient' = [s \in Servers!Servers |-> inClient'[s]]
    BY DEF Servers!Release
  <2> QED
    BY <1>1, <1>2, <2>1 DEF CallTypes
<1>4. \A s \in Servers!Servers : AtLock(s)' = AtLock(s) \ {c} /\ LetIn(s)' = LetIn(s) \ {c}
  BY <1>1 DEF AtLock, LetIn
<1>5. ASSUME NEW s \in Servers!Servers
      PROVE  LockHeld(s)'
  <2>1. LockHeld(s)
    BY DEF LocksHeld
  <2>2. NoTwice(queue'[s]) /\ Servers!ToSet(queue'[s]) = AtLock(s)' /\ inClient'[s] = LetIn(s)'
    BY <1>2, <1>4, <2>1 DEF LockHeld
  <2>3. ASSUME NEW d \in LetIn(s)'
        PROVE  queue'[s][1] = d
    <3>1. d \in LetIn(s) /\ d # c
      BY <1>4
    <3>2. queue[s][1] = d /\ d \in Servers!ToSet(queue[s])
      BY <2>1, <3>1 DEF LockHeld, LetIn, AtLock
    <3>3. queue[s] # <<>>
      BY <3>2 DEF Servers!ToSet
    <3> QED
      BY <1>2, <3>1, <3>2, <3>3
  <2> QED
    BY <2>2, <2>3 DEF LockHeld
<1>6. LocksHeld'
  BY <1>1, <1>5 DEF LocksHeld
<1>7. NoResultYet' /\ Servers!OwnAnswer' /\ Servers!ShownIsFound' /\ Servers!BlockedNeverRuns'
  BY <1>1
     DEF NoResultYet, Servers!OwnAnswer, Servers!ShownIsFound, Servers!BlockedNeverRuns,
         Servers!Allowed
<1> QED
  BY <1>3, <1>6, <1>7

(* The holder of a lock is let into the client. *)
LEMMA AcquireStep ==
  ASSUME CallsInv, NEW c \in Calls, Servers!Acquire(c)
  PROVE  CallsInv'
<1> USE DEF CallsInv
<1> DEFINE s == call[c].server
<1>1. call[c].pc = "waiting" /\ queue[s][1] = c /\ s \in Servers!Servers
  BY DEF Servers!Acquire, Servers!MayEnter, LocksHeld
<1>2. call' = [call EXCEPT ![c].pc = "calling"] /\ inClient' = [inClient EXCEPT ![s] = @ \union {c}]
      /\ UNCHANGED <<setup, queue>>
  BY DEF Servers!Acquire
<1>3. /\ call'[c].pc = "calling" /\ call'[c].server = s
      /\ call'[c].answer = call[c].answer /\ call'[c].shown = call[c].shown
           /\ call'[c].result = call[c].result
      /\ call'[c].to = call[c].to /\ call'[c].tool = call[c].tool
      /\ \A d \in Calls : d # c => call'[d] = call[d]
  BY <1>2 DEF CallTypes, CallType
<1>4. CallTypes'
  <2>1. call[c] \in CallType /\ call \in [Calls -> CallType]
    BY DEF CallTypes
  <2>2. [call[c] EXCEPT !.pc = "calling"] \in CallType
    BY <2>1 DEF CallType
  <2>3. call' \in [Calls -> CallType]
    BY <1>2, <2>1, <2>2
  <2> HIDE DEF s
  <2>4. inClient' \in [Servers!Servers -> SUBSET Calls]
    BY <1>1, <1>2 DEF CallTypes
  <2> QED
    BY <1>2, <2>3, <2>4 DEF CallTypes
<1> HIDE DEF s
<1>5. /\ \A u \in Servers!Servers : AtLock(u)' = AtLock(u)
      /\ \A u \in Servers!Servers : LetIn(u)' = IF u = s THEN LetIn(u) \union {c} ELSE LetIn(u)
  BY <1>1, <1>3 DEF AtLock, LetIn, s
<1>6. \A u \in Servers!Servers :
        inClient'[u] = IF u = s THEN inClient[u] \union {c} ELSE inClient[u]
  BY <1>1, <1>2 DEF CallTypes
<1>7. LocksHeld'
  <2>1. ASSUME NEW u \in Servers!Servers
        PROVE  LockHeld(u)'
    <3>1. NoTwice(queue'[u]) /\ Servers!ToSet(queue'[u]) = AtLock(u)' /\ inClient'[u] = LetIn(u)'
      BY <1>2, <1>5, <1>6 DEF LocksHeld, LockHeld
    <3>2. \A d \in LetIn(u)' : queue'[u][1] = d
      BY <1>1, <1>2, <1>5 DEF LocksHeld, LockHeld
    <3> QED
      BY <3>1, <3>2 DEF LockHeld
  <2>2. \A d \in Calls : call'[d].pc \in {"waiting", "calling"} =>
          call'[d].server \in Servers!Servers
    BY <1>1, <1>3 DEF LocksHeld
  <2> QED
    BY <2>1, <2>2 DEF LocksHeld
<1>8. NoResultYet' /\ Servers!OwnAnswer' /\ Servers!ShownIsFound' /\ Servers!BlockedNeverRuns'
  BY <1>1, <1>2, <1>3
     DEF NoResultYet, Servers!OwnAnswer, Servers!ShownIsFound, Servers!BlockedNeverRuns,
         Servers!Allowed
<1> QED
  BY <1>4, <1>7, <1>8

(* A call comes to the lock of a server. *)
LEMMA CallQueues ==
  ASSUME CallsInv, NEW c \in Calls, call[c].pc = "new", NEW s \in Servers!Servers,
         NEW rec \in CallType,
         queue' = [queue EXCEPT ![s] = Append(@, c)], setup' = setup,
         call' = [call EXCEPT ![c] = rec],
         rec.pc = IF queue[s] = <<>> THEN "calling" ELSE "waiting",
         rec.server = s,
         inClient' = IF queue[s] = <<>> THEN [inClient EXCEPT ![s] = @ \union {c}] ELSE inClient,
         rec.answer \in {c, Nobody}, rec.result = "none",
         rec.to # "none" => Servers!Allowed(rec.tool)
  PROVE  CallsInv'
<1> USE DEF CallsInv
<1>1. call'[c] = rec /\ \A d \in Calls : d # c => call'[d] = call[d]
  BY DEF CallTypes
<1>2. /\ queue[s] \in Seq(Calls) /\ queue'[s] = Append(queue[s], c)
      /\ \A u \in Servers!Servers : u # s => queue'[u] = queue[u]
  BY DEF CallTypes
<1>3. CallTypes'
  BY DEF CallTypes
<1>4. /\ AtLock(s)' = AtLock(s) \union {c} /\ c \notin AtLock(s)
      /\ LetIn(s)' = IF queue[s] = <<>> THEN LetIn(s) \union {c} ELSE LetIn(s)
      /\ \A u \in Servers!Servers : u # s => AtLock(u)' = AtLock(u) /\ LetIn(u)' = LetIn(u)
  BY <1>1 DEF AtLock, LetIn
<1>5. LockHeld(s) /\ c \notin Servers!ToSet(queue[s])
  BY <1>4 DEF LocksHeld, LockHeld
<1>6. NoTwice(Append(queue[s], c))
        /\ Servers!ToSet(Append(queue[s], c)) = Servers!ToSet(queue[s]) \union {c}
  <2> DEFINE q == queue[s]
  <2>1. q \in Seq(Calls) /\ NoTwice(q) /\ c \notin Servers!ToSet(q)
    BY <1>2, <1>5 DEF LockHeld
  <2> HIDE DEF q
  <2>2. /\ DOMAIN Append(q, c) = 1..(Len(q) + 1) /\ DOMAIN q = 1..Len(q) /\ Len(q) \in Nat
        /\ \A i \in 1..Len(q) : Append(q, c)[i] = q[i]
        /\ Append(q, c)[Len(q) + 1] = c
    BY <2>1
  <2>3. NoTwice(Append(q, c))
    <3>1. \A i \in 1..Len(q) : q[i] # c
      BY <2>1, <2>2 DEF Servers!ToSet
    <3> QED
      BY <2>1, <2>2, <3>1 DEF NoTwice
  <2>4. Servers!ToSet(Append(q, c)) = Servers!ToSet(q) \union {c}
    BY <2>2 DEF Servers!ToSet
  <2> QED
    BY <2>3, <2>4 DEF q
<1>7. LockHeld(s)'
  <2>1. CASE queue[s] = <<>>
    <3>1. AtLock(s) = {} /\ LetIn(s) = {}
      BY <1>5, <2>1 DEF LockHeld, Servers!ToSet, AtLock, LetIn
    <3>2. queue'[s][1] = c
      BY <1>2, <2>1
    <3>3. inClient'[s] = inClient[s] \union {c}
      BY <2>1 DEF CallTypes
    <3> QED
      BY <1>2, <1>4, <1>5, <1>6, <2>1, <3>1, <3>2, <3>3 DEF LockHeld
  <2>2. CASE queue[s] # <<>>
    <3>1. queue'[s][1] = queue[s][1]
      BY <1>2, <2>2
    <3> QED
      BY <1>2, <1>4, <1>5, <1>6, <2>2, <3>1 DEF LockHeld
  <2> QED
    BY <2>1, <2>2
<1>8. ASSUME NEW u \in Servers!Servers, u # s
      PROVE  LockHeld(u)'
  <2>1. LockHeld(u) /\ queue'[u] = queue[u] /\ inClient'[u] = inClient[u]
    BY <1>2, <1>8 DEF LocksHeld, CallTypes
  <2> QED
    BY <1>4, <1>8, <2>1 DEF LockHeld
<1>9. LocksHeld'
  BY <1>1, <1>7, <1>8 DEF LocksHeld
<1>10. NoResultYet' /\ Servers!OwnAnswer' /\ Servers!ShownIsFound' /\ Servers!BlockedNeverRuns'
  BY <1>1
     DEF NoResultYet, Servers!OwnAnswer, Servers!ShownIsFound, Servers!BlockedNeverRuns,
         Servers!Allowed
<1> QED
  BY <1>3, <1>9, <1>10

-----------------------------------------------------------------------------
(* What holds of the adapters.                                               *)

AdapterTypes ==
  /\ setup \in Servers!SceneType
  /\ phase \in [Servers!Servers -> {"idle", "connecting", "backoff", "connected", "over"}]
  /\ attempt \in [Servers!Servers -> 1..Attempts]
  /\ ready \subseteq Servers!Servers /\ stopping \subseteq Servers!Servers
       /\ clients \subseteq Servers!Servers
  /\ defs \subseteq Tools \X Servers!Servers
  /\ serverOf \in [Tools -> Servers!Servers \union {Nobody}]
  /\ starter \in {"idle", "waiting", "returned", "gaveup"}
  /\ stopper \in {"idle", "waiting", "done"}
  /\ user \subseteq Tools
  /\ routing \in [Tools -> Servers!Adapters \union {"none"}]

(* The MCP adapter is stopped only after its start began, and then for good; *)
(* a backoff leads to another attempt.                                        *)
Lifecycle ==
  /\ Servers!StopIsFinal
  /\ starter = "idle" => stopper = "idle"
  /\ \A s \in Servers!Servers : phase[s] = "backoff" => attempt[s] < Attempts

(* A tool that is defined has a server, and so has, until the adapter is     *)
(* stopped, a tool that is routed to the MCP adapter; a connected server has  *)
(* all it lists defined.                                                      *)
Defined ==
  /\ \A d \in defs : serverOf[d[1]] \in Servers!Servers
  /\ stopper # "done" => \A t \in Tools : routing[t] = "mcp" => serverOf[t] \in Servers!Servers
  /\ stopper # "done" =>
       \A s \in clients : \A i \in DOMAIN setup.offers[s] : <<setup.offers[s][i], s>> \in defs

(* The application's built-in tools are routed to their adapter for good; no *)
(* tool is registered with it.                                                *)
AppTools ==
  setup.product = "app" => user = {} /\ \A t \in setup.builtin : routing[t] = "builtin"

ChainInUse == chain = IF starter = "returned" THEN Servers!MergedChain ELSE Servers!OwnChain

AdapterInv == AdapterTypes /\ Lifecycle /\ Defined /\ AppTools /\ ChainInUse

(* The parts of a setup. *)
LEMMA SceneTyped ==
  ASSUME setup \in Servers!SceneType
  PROVE  /\ setup.product \in {"app", "sdk"} /\ setup.builtin \subseteq Tools
              /\ setup.registers \subseteq Tools
         /\ setup.offers \in [Servers!Servers -> Seq(Tools)] /\ setup.renamed \in Tools
              /\ setup.wanted \subseteq Tools
         /\ Nobody \notin Servers!Servers
BY ServicesAssumption DEF Servers!ServersAssumption, Servers!SceneType

(* The two chains of adapters: of the client, and with the MCP adapter. *)
LEMMA Chains ==
  /\ Servers!OwnChain \in Seq(Servers!Adapters) /\ 1 \in DOMAIN Servers!OwnChain
       /\ Servers!OwnChain[1] = "builtin"
  /\ Servers!MergedChain \in Seq(Servers!Adapters) /\ 1 \in DOMAIN Servers!MergedChain
       /\ Servers!MergedChain[1] = "builtin"
  /\ "mcp" \in Servers!ToSet(Servers!MergedChain)
<1>1. Servers!OwnChain \in Seq(Servers!Adapters) /\ 1 \in DOMAIN Servers!OwnChain
        /\ Servers!OwnChain[1] = "builtin"
      /\ Len(Servers!OwnChain) \in Nat /\ Len(Servers!OwnChain) >= 1
  <2>1. CASE setup.product = "sdk"
    BY <2>1 DEF Servers!OwnChain, Servers!Adapters
  <2>2. CASE setup.product # "sdk"
    BY <2>2 DEF Servers!OwnChain, Servers!Adapters
  <2> QED
    BY <2>1, <2>2
<1>2. <<"mcp">> \in Seq(Servers!Adapters) /\ Len(<<"mcp">>) = 1 /\ <<"mcp">>[1] = "mcp"
  BY DEF Servers!Adapters
<1> HIDE DEF Servers!OwnChain
<1>3. /\ Servers!MergedChain \in Seq(Servers!Adapters)
           /\ Len(Servers!MergedChain) = Len(Servers!OwnChain) + 1
      /\ Servers!MergedChain[1] = "builtin"
           /\ Servers!MergedChain[Len(Servers!OwnChain) + 1] = "mcp"
  BY <1>1, <1>2 DEF Servers!MergedChain
<1>4. 1 \in DOMAIN Servers!MergedChain /\ Len(Servers!OwnChain) + 1 \in DOMAIN Servers!MergedChain
  BY <1>1, <1>3
<1> QED
  BY <1>1, <1>3, <1>4 DEF Servers!ToSet

(* The first adapter of a chain that offers a tool. *)
LEMMA FirstInChain ==
  ASSUME NEW adapters \in Seq(Servers!Adapters), NEW t
  PROVE  /\ Servers!FirstIn(adapters, t) \in Servers!Adapters \union {"none"}
         /\ Servers!FirstIn(adapters, t) # "none" =>
              Servers!FirstIn(adapters, t) \in Servers!ToSet(adapters)
                /\ t \in Servers!AdapterTools(Servers!FirstIn(adapters, t))
         /\ Servers!FirstIn(adapters, t) = "none" =>
              \A a \in Servers!ToSet(adapters) : t \notin Servers!AdapterTools(a)
         /\ 1 \in DOMAIN adapters /\ t \in Servers!AdapterTools(adapters[1]) =>
              Servers!FirstIn(adapters, t) = adapters[1]
<1> DEFINE offering == {i \in DOMAIN adapters : t \in Servers!AdapterTools(adapters[i])}
<1>1. "none" \notin Servers!Adapters
  BY DEF Servers!Adapters
<1>2. CASE offering = {}
  BY <1>1, <1>2 DEF Servers!FirstIn, Servers!ToSet
<1>3. CASE offering # {}
  <2>1. offering \in SUBSET Nat
    OBVIOUS
  <2>2. \E i \in offering : \A j \in offering : i <= j
    BY <1>3, <2>1, LeastOf
  <2>3. Servers!Min(offering) \in offering /\ \A j \in offering : Servers!Min(offering) <= j
    <3> HIDE DEF offering
    <3> QED
      BY <2>2 DEF Servers!Min
  <2> DEFINE m == Servers!Min(offering)
  <2>4. Servers!FirstIn(adapters, t) = adapters[m]
    BY <1>3 DEF Servers!FirstIn
  <2> HIDE DEF m
  <2>5. m \in DOMAIN adapters /\ t \in Servers!AdapterTools(adapters[m])
    BY <2>3 DEF m
  <2>6. adapters[m] \in Servers!Adapters /\ adapters[m] \in Servers!ToSet(adapters)
    BY <2>5 DEF Servers!ToSet
  <2>7. 1 \in DOMAIN adapters /\ t \in Servers!AdapterTools(adapters[1]) => m = 1
    <3>1. 1 \in DOMAIN adapters /\ t \in Servers!AdapterTools(adapters[1]) => m <= 1
      BY <2>3 DEF m
    <3>2. m \in Nat /\ m >= 1
      BY <2>5
    <3> QED
      BY <3>1, <3>2
  <2> HIDE DEF offering
  <2> QED
    BY <1>1, <2>4, <2>5, <2>6, <2>7
<1> QED
  BY <1>2, <1>3

(* Before the start. *)
LEMMA AdaptersStart ==
  ASSUME Servers!Init
  PROVE  AdapterInv
<1>1. setup \in Servers!SceneType /\ Attempts \in Nat \ {0} /\ setup.builtin \subseteq Tools
  BY ServicesAssumption, SceneTyped DEF Servers!Init, Servers!ServersAssumption
<1>2. AdapterTypes
  BY <1>1 DEF Servers!Init, AdapterTypes, Servers!Adapters
<1>3. Lifecycle
  BY <1>1 DEF Servers!Init, Lifecycle, Servers!StopIsFinal
<1>4. Defined /\ AppTools /\ ChainInUse
  BY <1>1 DEF Servers!Init, Defined, AppTools, ChainInUse
<1> QED
  BY <1>2, <1>3, <1>4 DEF AdapterInv

(* The end of an attempt that failed. *)
LEMMA AttemptFailed ==
  ASSUME AdapterInv, NEW s \in Servers!Servers, Servers!AttemptFails(s), attempt' = attempt
  PROVE  /\ phase' \in [Servers!Servers -> {"idle", "connecting", "backoff", "connected", "over"}]
         /\ ready' \subseteq Servers!Servers
         /\ \A u \in Servers!Servers : phase'[u] = "backoff" => attempt[u] < Attempts
<1> USE DEF AdapterInv
<1>1. phase \in [Servers!Servers -> {"idle", "connecting", "backoff", "connected", "over"}]
        /\ ready \subseteq Servers!Servers
      /\ \A u \in Servers!Servers : phase[u] = "backoff" => attempt[u] < Attempts
  BY DEF AdapterTypes, Lifecycle
<1>2. CASE attempt[s] < Attempts
  BY <1>1, <1>2 DEF Servers!AttemptFails
<1>3. CASE ~(attempt[s] < Attempts)
  BY <1>1, <1>3 DEF Servers!AttemptFails
<1> QED
  BY <1>2, <1>3

(* A server connects and its tools are registered. *)
LEMMA ConnectStep ==
  ASSUME AdapterInv, NEW s \in Servers!Servers, Servers!Connect(s)
  PROVE  AdapterInv'
<1> USE DEF AdapterInv
<1> DEFINE listed == {setup.offers[s][i] : i \in Servers!Readable(s)}
<1>1. /\ phase[s] = "connecting" /\ defs' = defs \union (listed \X {s})
      /\ serverOf' = [t \in Tools |-> IF t \in listed THEN s ELSE serverOf[t]]
      /\ UNCHANGED <<setup, attempt, stopping, starter, stopper, chain, routing, user>>
  BY DEF Servers!Connect, Servers!RegisterListed, Servers!adapterVars
<1>2. setup.offers[s] \in Seq(Tools) /\ setup \in Servers!SceneType
  BY SceneTyped DEF AdapterTypes
<1>3. listed \subseteq Tools
  <2>1. Servers!Readable(s) \subseteq DOMAIN setup.offers[s]
    BY DEF Servers!Readable
  <2> QED
    BY <1>2, <2>1
<1>4. stopper # "done"
  BY <1>1 DEF Lifecycle, Servers!StopIsFinal
<1>5. \/ /\ Servers!AllReadable(s) /\ phase' = [phase EXCEPT ![s] = "connected"]
         /\ clients' = clients \union {s} /\ ready' = ready \union {s}
      \/ /\ Servers!AttemptFails(s) /\ clients' = clients
  BY DEF Servers!Connect
<1>6. /\ phase' \in [Servers!Servers -> {"idle", "connecting", "backoff", "connected", "over"}]
      /\ ready' \subseteq Servers!Servers /\ clients' \subseteq Servers!Servers
      /\ \A u \in Servers!Servers : phase'[u] = "backoff" => attempt[u] < Attempts
  BY <1>1, <1>5, AttemptFailed DEF AdapterTypes, Lifecycle
<1>7. \A i \in DOMAIN setup.offers[s] : Servers!AllReadable(s) => setup.offers[s][i] \in listed
  BY DEF Servers!AllReadable
<1> HIDE DEF listed
<1>8. AdapterTypes'
  BY <1>1, <1>3, <1>6 DEF AdapterTypes
<1>9. Lifecycle'
  BY <1>1, <1>4, <1>6 DEF Lifecycle, Servers!StopIsFinal
<1>10. Defined'
  <2>1. \A d \in defs' : serverOf'[d[1]] \in Servers!Servers
    BY <1>1, <1>3 DEF Defined, AdapterTypes
  <2>2. \A t \in Tools : routing[t] = "mcp" => serverOf'[t] \in Servers!Servers
    BY <1>1, <1>4 DEF Defined
  <2>3. ASSUME NEW u \in clients', NEW i \in DOMAIN setup.offers[u]
        PROVE  <<setup.offers[u][i], u>> \in defs'
    <3>1. CASE u \in clients
      BY <1>1, <1>4, <3>1 DEF Defined
    <3>2. CASE u \notin clients
      <4>1. u = s /\ Servers!AllReadable(s)
        BY <1>5, <2>3, <3>2
      <4>2. setup.offers[u][i] \in listed
        BY <1>7, <4>1
      <4> QED
        BY <1>1, <4>1, <4>2
    <3> QED
      BY <3>1, <3>2
  <2> QED
    BY <1>1, <2>1, <2>2, <2>3 DEF Defined
<1>11. AppTools' /\ ChainInUse'
  BY <1>1 DEF AppTools, ChainInUse, Servers!MergedChain, Servers!OwnChain
<1> QED
  BY <1>8, <1>9, <1>10, <1>11

(* A step of the lifecycle that registers nothing. *)
LEMMA LifecycleStep ==
  ASSUME AdapterInv,
         UNCHANGED <<setup, clients, defs, serverOf, starter, stopper, chain, routing, user>>,
         phase' \in [Servers!Servers -> {"idle", "connecting", "backoff", "connected", "over"}],
         attempt' \in [Servers!Servers -> 1..Attempts], ready' \subseteq Servers!Servers,
           stopping' \subseteq Servers!Servers,
         \A s \in Servers!Servers : phase[s] = "over" => phase'[s] = "over",
         \A s \in Servers!Servers : phase'[s] = "backoff" => attempt'[s] < Attempts
  PROVE  AdapterInv'
<1> USE DEF AdapterInv
<1>1. AdapterTypes'
  BY DEF AdapterTypes
<1>2. Lifecycle'
  BY DEF Lifecycle, Servers!StopIsFinal
<1>3. Defined' /\ AppTools' /\ ChainInUse'
  BY DEF Defined, AppTools, ChainInUse, Servers!MergedChain, Servers!OwnChain
<1> QED
  BY <1>1, <1>2, <1>3

(* What else becomes of the task of a server. *)
LEMMA ServerTaskStep ==
  ASSUME AdapterInv, NEW s \in Servers!Servers, Servers!ConnectionFails(s) \/ Servers!Retry(s)
         \/ Servers!Close(s) \/ Servers!CancelTask(s)
  PROVE  AdapterInv'
<1> USE DEF AdapterInv
<1>1. /\ phase \in [Servers!Servers -> {"idle", "connecting", "backoff", "connected", "over"}]
      /\ attempt \in [Servers!Servers -> 1..Attempts] /\ ready \subseteq Servers!Servers
           /\ stopping \subseteq Servers!Servers
      /\ \A u \in Servers!Servers : phase[u] = "backoff" => attempt[u] < Attempts
      /\ Attempts \in Nat \ {0}
  BY ServicesAssumption DEF AdapterTypes, Lifecycle, Servers!ServersAssumption
<1>2. CASE Servers!ConnectionFails(s)
  <2>1. UNCHANGED <<setup, clients, defs, serverOf, starter, stopper, chain, routing, user,
          attempt, stopping>>
    BY <1>2 DEF Servers!ConnectionFails, Servers!adapterVars
  <2>2. phase[s] = "connecting" /\ Servers!AttemptFails(s)
    BY <1>2 DEF Servers!ConnectionFails
  <2>3. /\ phase' \in [Servers!Servers -> {"idle", "connecting", "backoff", "connected", "over"}]
        /\ ready' \subseteq Servers!Servers
        /\ \A u \in Servers!Servers : phase'[u] = "backoff" => attempt[u] < Attempts
    BY <2>1, <2>2, AttemptFailed
  <2>4. \A u \in Servers!Servers : phase[u] = "over" => phase'[u] = "over"
    BY <1>1, <2>2 DEF Servers!AttemptFails
  <2> QED
    BY <1>1, <2>1, <2>3, <2>4, LifecycleStep
<1>3. CASE Servers!Retry(s)
  <2>1. UNCHANGED <<setup, clients, defs, serverOf, starter, stopper, chain, routing, user,
          stopping>>
    BY <1>3 DEF Servers!Retry, Servers!adapterVars
  <2>2. phase[s] = "backoff" /\ attempt' = [attempt EXCEPT ![s] = @ + 1]
    BY <1>3 DEF Servers!Retry
  <2>3. attempt[s] < Attempts /\ attempt[s] + 1 \in 1..Attempts
    BY <1>1, <2>2
  <2>4. attempt' \in [Servers!Servers -> 1..Attempts]
    BY <1>1, <2>2, <2>3
  <2>5. phase' = [phase EXCEPT ![s] = "over"] \/ phase' = [phase EXCEPT ![s] = "connecting"]
    BY <1>3 DEF Servers!Retry
  <2>6. ready' \subseteq Servers!Servers
    BY <1>1, <1>3 DEF Servers!Retry
  <2>7. /\ phase' \in [Servers!Servers -> {"idle", "connecting", "backoff", "connected", "over"}]
        /\ \A u \in Servers!Servers : phase[u] = "over" => phase'[u] = "over"
        /\ \A u \in Servers!Servers : phase'[u] = "backoff" => attempt'[u] < Attempts
    BY <1>1, <2>2, <2>5
  <2> QED
    BY <1>1, <2>1, <2>4, <2>6, <2>7, LifecycleStep
<1>4. CASE Servers!Close(s) \/ Servers!CancelTask(s)
  <2>1. UNCHANGED <<setup, clients, defs, serverOf, starter, stopper, chain, routing, user,
          stopping, attempt, ready>>
    BY <1>4 DEF Servers!Close, Servers!CancelTask, Servers!adapterVars
  <2>2. phase' = [phase EXCEPT ![s] = "over"]
    BY <1>4 DEF Servers!Close, Servers!CancelTask
  <2>3. /\ phase' \in [Servers!Servers -> {"idle", "connecting", "backoff", "connected", "over"}]
        /\ \A u \in Servers!Servers : phase[u] = "over" => phase'[u] = "over"
        /\ \A u \in Servers!Servers : phase'[u] = "backoff" => attempt[u] < Attempts
    BY <1>1, <2>2
  <2> QED
    BY <1>1, <2>1, <2>3, LifecycleStep
<1> QED
  BY <1>2, <1>3, <1>4

(* start() creates the tasks of the servers. *)
LEMMA StartStep ==
  ASSUME AdapterInv, Servers!Start
  PROVE  AdapterInv'
<1> USE DEF AdapterInv
<1>1. /\ starter = "idle" /\ starter' = "waiting"
           /\ phase' = [s \in Servers!Servers |-> "connecting"]
      /\ UNCHANGED <<setup, attempt, ready, clients, defs, serverOf, stopping, stopper, chain,
           routing, user>>
  BY DEF Servers!Start, Servers!adapterVars
<1>2. AdapterTypes'
  BY <1>1 DEF AdapterTypes
<1>3. Lifecycle'
  BY <1>1 DEF Lifecycle, Servers!StopIsFinal
<1>4. Defined' /\ AppTools' /\ ChainInUse'
  BY <1>1 DEF Defined, AppTools, ChainInUse, Servers!MergedChain, Servers!OwnChain
<1> QED
  BY <1>2, <1>3, <1>4

(* start() returns and the chain is built. *)
LEMMA StartReturnsStep ==
  ASSUME AdapterInv, Servers!StartReturns
  PROVE  AdapterInv'
<1> USE DEF AdapterInv
<1>1. /\ starter = "waiting" /\ starter' = "returned" /\ chain' = Servers!MergedChain
           /\ routing' = Servers!Eager(Servers!MergedChain)
      /\ UNCHANGED <<setup, phase, attempt, ready, clients, defs, serverOf, stopping, stopper,
           user>>
  BY DEF Servers!StartReturns, Servers!serverVars
<1>2. ASSUME NEW t \in Tools
      PROVE  /\ routing'[t] \in Servers!Adapters \union {"none"}
             /\ routing'[t] = "mcp" => serverOf[t] \in Servers!Servers
             /\ t \in setup.builtin => routing'[t] = "builtin"
  <2>1. routing'[t] = Servers!FirstIn(Servers!MergedChain, t)
    BY <1>1 DEF Servers!Eager
  <2>2. /\ Servers!FirstIn(Servers!MergedChain, t) \in Servers!Adapters \union {"none"}
        /\ Servers!FirstIn(Servers!MergedChain, t) # "none" =>
             t \in Servers!AdapterTools(Servers!FirstIn(Servers!MergedChain, t))
        /\ t \in Servers!AdapterTools("builtin") =>
             Servers!FirstIn(Servers!MergedChain, t) = "builtin"
    BY Chains, FirstInChain
  <2>3. t \in Servers!AdapterTools("mcp") => \E d \in defs : d[1] = t
    BY DEF Servers!AdapterTools
  <2>4. t \in setup.builtin => t \in Servers!AdapterTools("builtin")
    BY DEF Servers!AdapterTools
  <2> QED
    BY <2>1, <2>2, <2>3, <2>4 DEF Defined
<1>3. routing' = [t \in Tools |-> routing'[t]]
  BY <1>1 DEF Servers!Eager
<1>4. AdapterTypes'
  <2>1. routing' \in [Tools -> Servers!Adapters \union {"none"}]
    BY <1>2, <1>3
  <2> QED
    BY <1>1, <2>1 DEF AdapterTypes
<1>5. Lifecycle'
  BY <1>1 DEF Lifecycle, Servers!StopIsFinal
<1>6. Defined'
  BY <1>1, <1>2 DEF Defined
<1>7. AppTools'
  <2>1. setup.builtin \subseteq Tools
    BY SceneTyped DEF AdapterTypes
  <2> QED
    BY <1>1, <1>2, <2>1 DEF AppTools
<1>8. ChainInUse'
  BY <1>1 DEF ChainInUse, Servers!MergedChain, Servers!OwnChain
<1> QED
  BY <1>4, <1>5, <1>6, <1>7, <1>8

(* stop() tells the tasks to end. *)
LEMMA StopStep ==
  ASSUME AdapterInv, Servers!StartTimesOut \/ Servers!Stop
  PROVE  AdapterInv'
<1> USE DEF AdapterInv
<1>1. /\ UNCHANGED <<setup, phase, attempt, ready, clients, defs, serverOf, chain, routing, user>>
      /\ \/ /\ starter = "waiting" /\ starter' = "gaveup" /\ UNCHANGED <<stopping, stopper>>
         \/ /\ starter' = starter /\ starter # "idle" /\ stopper = "idle" /\ stopper' = "waiting"
            /\ stopping' = Servers!Servers
  BY DEF Servers!StartTimesOut, Servers!Stop, Servers!serverVars, Servers!adapterVars
<1>2. AdapterTypes'
  BY <1>1 DEF AdapterTypes
<1>3. Lifecycle'
  BY <1>1 DEF Lifecycle, Servers!StopIsFinal
<1>4. Defined' /\ AppTools' /\ ChainInUse'
  BY <1>1 DEF Defined, AppTools, ChainInUse, Servers!MergedChain, Servers!OwnChain
<1> QED
  BY <1>2, <1>3, <1>4

(* stop() returns when they have ended. *)
LEMMA StopReturnsStep ==
  ASSUME AdapterInv, Servers!StopReturns
  PROVE  AdapterInv'
<1> USE DEF AdapterInv
<1>1. /\ stopper = "waiting" /\ stopper' = "done" /\ clients' = {} /\ defs' = {} /\ stopping' = {}
      /\ serverOf' = [t \in Tools |-> Nobody] /\ \A s \in Servers!Servers : phase[s] = "over"
      /\ UNCHANGED <<setup, phase, attempt, ready, starter, chain, routing, user>>
  BY DEF Servers!StopReturns, Servers!TasksAwaited, Servers!adapterVars
<1>2. AdapterTypes'
  BY <1>1 DEF AdapterTypes
<1>3. Lifecycle'
  BY <1>1 DEF Lifecycle, Servers!StopIsFinal
<1>4. Defined' /\ AppTools' /\ ChainInUse'
  BY <1>1 DEF Defined, AppTools, ChainInUse, Servers!MergedChain, Servers!OwnChain
<1> QED
  BY <1>2, <1>3, <1>4

(* A tool of the user is registered. *)
LEMMA RegisterStep ==
  ASSUME AdapterInv, NEW t \in Tools, Servers!RegisterTool(t) \/ Servers!RegisterDirectly(t)
  PROVE  AdapterInv'
<1> USE DEF AdapterInv
<1>1. /\ setup.product = "sdk" /\ user' = user \union {t}
      /\ routing' = [routing EXCEPT ![t] = "user"] \/ routing' = routing
      /\ UNCHANGED <<setup, phase, attempt, ready, clients, defs, serverOf, stopping, starter,
           stopper, chain>>
  BY DEF Servers!RegisterTool, Servers!RegisterDirectly, Servers!serverVars
<1>2. AdapterTypes'
  BY <1>1 DEF AdapterTypes, Servers!Adapters
<1>3. Lifecycle'
  BY <1>1 DEF Lifecycle, Servers!StopIsFinal
<1>4. Defined'
  BY <1>1 DEF Defined, AdapterTypes
<1>5. AppTools' /\ ChainInUse'
  BY <1>1 DEF AppTools, ChainInUse, Servers!MergedChain, Servers!OwnChain
<1> QED
  BY <1>2, <1>3, <1>4, <1>5

(* What leaves the adapters alone keeps what holds of them. *)
LEMMA AdaptersSame ==
  ASSUME AdapterInv,
         UNCHANGED <<setup, phase, attempt, ready, stopping, clients, defs, serverOf, starter,
                     stopper, chain, routing, user>>
  PROVE  AdapterInv'
BY DEF AdapterInv, AdapterTypes, Lifecycle, Servers!StopIsFinal, Defined, AppTools, ChainInUse,
       Servers!MergedChain, Servers!OwnChain

(* What leaves the calls and the locks alone keeps what holds of them. *)
LEMMA CallsSame ==
  ASSUME CallsInv, UNCHANGED <<setup, call, queue, inClient>>
  PROVE  CallsInv'
<1>1. \A s \in Servers!Servers : AtLock(s)' = AtLock(s) /\ LetIn(s)' = LetIn(s)
  BY DEF AtLock, LetIn
<1>2. CallTypes' /\ LocksHeld'
  BY <1>1 DEF CallsInv, CallTypes, LocksHeld, LockHeld
<1>3. NoResultYet' /\ Servers!OwnAnswer' /\ Servers!ShownIsFound' /\ Servers!BlockedNeverRuns'
  BY DEF CallsInv, NoResultYet, Servers!OwnAnswer, Servers!ShownIsFound, Servers!BlockedNeverRuns,
         Servers!Allowed
<1> QED
  BY <1>2, <1>3 DEF CallsInv

-----------------------------------------------------------------------------
(* The steps of the calls, and all of them together.                         *)

ServersInv == AdapterInv /\ CallsInv

(* Who serves a tool: an adapter that offers it, and if it is the MCP        *)
(* adapter it knows the server.                                               *)
LEMMA Served ==
  ASSUME AdapterInv, Servers!InUse, NEW t \in Tools
  PROVE  /\ Servers!FindAdapter(t) \in Servers!Adapters \union {"none"}
         /\ stopper # "done" /\ Servers!FindAdapter(t) = "mcp" => serverOf[t] \in Servers!Servers
         /\ t \in Servers!Shown => Servers!FindAdapter(t) # "none"
         /\ t \in Servers!Shown /\ Servers!FindAdapter(t) = "mcp" => serverOf[t] \in Servers!Servers
<1> USE DEF AdapterInv
<1>1. chain \in Seq(Servers!Adapters)
  BY Chains DEF ChainInUse
<1>2. /\ Servers!FirstIn(chain, t) \in Servers!Adapters \union {"none"}
      /\ Servers!FirstIn(chain, t) # "none" => t \in Servers!AdapterTools(Servers!FirstIn(chain, t))
      /\ Servers!FirstIn(chain, t) = "none" =>
           \A a \in Servers!ToSet(chain) : t \notin Servers!AdapterTools(a)
  BY <1>1, FirstInChain
<1>3. routing[t] \in Servers!Adapters \union {"none"}
  BY DEF AdapterTypes
<1>4. \A d \in defs : serverOf[d[1]] \in Servers!Servers
  BY DEF Defined
<1>5. Servers!FindAdapter(t) = "mcp" => routing[t] = "mcp" \/ serverOf[t] \in Servers!Servers
  BY <1>2, <1>4 DEF Servers!FindAdapter, Servers!AdapterTools
<1>6. stopper # "done" /\ Servers!FindAdapter(t) = "mcp" => serverOf[t] \in Servers!Servers
  BY <1>5 DEF Defined
<1>7. ASSUME stopper = "done", t \in Servers!Shown
      PROVE  Servers!FindAdapter(t) = "builtin"
  <2>1. setup.product = "app" /\ user = {} /\ \A u \in setup.builtin : routing[u] = "builtin"
    BY <1>7, SceneTyped DEF Servers!InUse, AppTools, AdapterTypes
  <2>2. defs = {}
    BY <1>7 DEF Lifecycle, Servers!StopIsFinal
  <2>3. PICK a \in Servers!ToSet(chain) : t \in Servers!AdapterTools(a)
    BY <1>7 DEF Servers!Shown
  <2>4. a \in Servers!Adapters
    BY <1>1, <2>3 DEF Servers!ToSet
  <2>5. t \in setup.builtin
    BY <2>1, <2>2, <2>3, <2>4 DEF Servers!AdapterTools, Servers!Adapters
  <2> QED
    BY <2>1, <2>5 DEF Servers!FindAdapter
<1>8. t \in Servers!Shown => Servers!FindAdapter(t) # "none"
  BY <1>2 DEF Servers!FindAdapter, Servers!Shown
<1>9. Servers!FindAdapter(t) \in Servers!Adapters \union {"none"}
  BY <1>2, <1>3 DEF Servers!FindAdapter
<1> QED
  BY <1>6, <1>7, <1>8, <1>9

(* A call is routed and gated: it ends, waits for a lock, or runs. *)
LEMMA CallExecutesStep ==
  ASSUME ServersInv, NEW c \in Calls, NEW asked \in Tools, Servers!Execute(c, asked)
  PROVE  ServersInv'
<1> USE DEF ServersInv
<1> DEFINE t == Servers!HookedName(asked)
           a == Servers!FindAdapter(t)
           rec == Servers!Routed(c, t, a)
           s == rec.server
<1>1. /\ call[c].pc = "new" /\ Servers!Checked(asked) /\ Servers!InUse
      /\ routing' = [routing EXCEPT ![t] = a]
      /\ UNCHANGED <<setup, phase, attempt, ready, clients, defs, serverOf, stopping, starter,
           stopper, chain, user>>
  BY DEF Servers!Execute, Servers!serverVars
<1>2. t \in Tools /\ setup \in Servers!SceneType /\ Nobody \notin Servers!Servers
  BY SceneTyped DEF Servers!HookedName, AdapterInv, AdapterTypes
<1>3. /\ a \in Servers!Adapters \union {"none"}
      /\ stopper # "done" /\ a = "mcp" => serverOf[t] \in Servers!Servers
      /\ t \in Servers!Shown => a # "none" /\ (a = "mcp" => serverOf[t] \in Servers!Servers)
  BY <1>1, <1>2, Served DEF AdapterInv
<1>4. /\ call[c] \in CallType
      /\ rec = [call[c] EXCEPT !.tool = t, !.to = a, !.shown = t \in Servers!Shown,
                               !.server = IF a = "mcp" THEN serverOf[t] ELSE Nobody]
  BY DEF Servers!Routed, CallsInv, CallTypes
<1>5. Servers!Allowed(t)
  BY <1>1 DEF Servers!Checked
<1>6. \/ (a = "none" \/ (a = "mcp" /\ s = Nobody))
           /\ call' = [call EXCEPT ![c] = Servers!Over(rec, "TOOL_NOT_FOUND", Nobody)]
         /\ UNCHANGED <<queue, inClient>>
      \/ call' = [call EXCEPT ![c] = Servers!Over(rec, "UPSTREAM_UNAVAILABLE", Nobody)]
           /\ UNCHANGED <<queue, inClient>>
      \/ call' = [call EXCEPT ![c] = [rec EXCEPT !.pc = "running"]] /\ UNCHANGED <<queue, inClient>>
      \/ /\ s # Nobody /\ queue' = [queue EXCEPT ![s] = Append(@, c)]
         /\ call' = [call EXCEPT ![c] =
              [rec EXCEPT !.pc = IF queue[s] = <<>> THEN "calling" ELSE "waiting"]]
         /\ inClient' = IF queue[s] = <<>> THEN [inClient EXCEPT ![s] = @ \union {c}] ELSE inClient
  BY DEF Servers!Execute
<1>7. call[c].answer \in {c, Nobody} /\ call[c].result = "none"
  BY <1>1 DEF CallsInv, NoResultYet, Servers!OwnAnswer
<1>8. AdapterInv'
  <2> HIDE DEF t, a, rec
  <2>1. AdapterTypes'
    BY <1>1, <1>2, <1>3 DEF AdapterInv, AdapterTypes
  <2>2. Lifecycle'
    BY <1>1 DEF AdapterInv, Lifecycle, Servers!StopIsFinal
  <2>3. \A u \in Tools : routing'[u] = IF u = t THEN a ELSE routing[u]
    BY <1>1, <1>2 DEF AdapterInv, AdapterTypes
  <2>4. Defined'
    BY <1>1, <1>3, <2>3 DEF AdapterInv, Defined
  <2>5. setup.product = "app" /\ t \in setup.builtin => a = "builtin"
    BY DEF AdapterInv, AppTools, Servers!FindAdapter, a
  <2>6. AppTools' /\ ChainInUse'
    BY <1>1, <1>2, <2>3, <2>5, SceneTyped
       DEF AdapterInv, AppTools, ChainInUse, Servers!MergedChain, Servers!OwnChain
  <2> QED
    BY <2>1, <2>2, <2>4, <2>6 DEF AdapterInv
<1>9. /\ rec \in CallType /\ rec.answer = call[c].answer /\ rec.result = "none" /\ rec.tool = t
           /\ rec.to = a
      /\ rec.shown = (t \in Servers!Shown) /\ rec.pc = "new"
           /\ s = IF a = "mcp" THEN serverOf[t] ELSE Nobody
  <2>1. (IF a = "mcp" THEN serverOf[t] ELSE Nobody) \in Servers!Servers \union {Nobody}
          /\ (t \in Servers!Shown) \in BOOLEAN
    BY <1>2 DEF AdapterInv, AdapterTypes
  <2> HIDE DEF t, a, rec
  <2> QED
    BY <1>1, <1>2, <1>3, <1>4, <1>7, <2>1 DEF CallType
<1> HIDE DEF t, a, rec
<1> DEFINE Ended(result) == Servers!Over(rec, result, Nobody)
<1>10. ASSUME NEW result \in Servers!Results
       PROVE  /\ Ended(result) \in CallType /\ Ended(result).pc = "done"
                   /\ Ended(result).answer = Nobody
              /\ Ended(result).result = result /\ Ended(result).tool = t /\ Ended(result).to = a
              /\ Ended(result).shown = (t \in Servers!Shown)
  BY <1>9 DEF CallType, Servers!Over, Servers!AfterText
<1> HIDE DEF Ended
<1>11. UNCHANGED <<queue, inClient>> => UNCHANGED <<setup, queue, inClient>>
  BY <1>1
<1>12. "TOOL_NOT_FOUND" \in Servers!Results /\ "UPSTREAM_UNAVAILABLE" \in Servers!Results
  BY DEF Servers!Results, Servers!Codes
<1>13. CASE /\ a = "none" \/ (a = "mcp" /\ s = Nobody)
            /\ call' = [call EXCEPT ![c] = Ended("TOOL_NOT_FOUND")] /\ UNCHANGED <<queue, inClient>>
  <2>1. t \notin Servers!Shown
    BY <1>2, <1>3, <1>9, <1>13
  <2> QED
    BY <1>1, <1>5, <1>8, <1>10, <1>11, <1>12, <1>13, <2>1, CallAway
<1>14. CASE call' = [call EXCEPT ![c] = Ended("UPSTREAM_UNAVAILABLE")]
              /\ UNCHANGED <<queue, inClient>>
  BY <1>1, <1>5, <1>8, <1>10, <1>11, <1>12, <1>14, CallAway
<1>15. ASSUME NEW place \in {"running", "waiting", "calling"}
       PROVE  LET on == [rec EXCEPT !.pc = place]
              IN /\ on \in CallType /\ on.pc = place /\ on.answer \in {c, Nobody}
                      /\ on.result = "none"
                 /\ on.tool = t /\ on.to = a /\ on.server = s
  BY <1>7, <1>9 DEF CallType
<1>16. CASE call' = [call EXCEPT ![c] = [rec EXCEPT !.pc = "running"]]
              /\ UNCHANGED <<queue, inClient>>
  BY <1>1, <1>5, <1>8, <1>11, <1>15, <1>16, CallAway
<1>17. CASE /\ s # Nobody /\ queue' = [queue EXCEPT ![s] = Append(@, c)]
            /\ call' = [call EXCEPT ![c] =
                 [rec EXCEPT !.pc = IF queue[s] = <<>> THEN "calling" ELSE "waiting"]]
            /\ inClient' =
                 IF queue[s] = <<>> THEN [inClient EXCEPT ![s] = @ \union {c}] ELSE inClient
  <2> DEFINE place == IF queue[s] = <<>> THEN "calling" ELSE "waiting"
             on == [rec EXCEPT !.pc = place]
  <2>1. s \in Servers!Servers
    BY <1>9, <1>17 DEF CallType
  <2>2. place \in {"running", "waiting", "calling"}
    OBVIOUS
  <2>3. /\ on \in CallType /\ on.pc = place /\ on.answer \in {c, Nobody} /\ on.result = "none"
        /\ on.tool = t /\ on.to = a /\ on.server = s
    <3> HIDE DEF place
    <3> QED
      BY <1>15, <2>2
  <2>4. call' = [call EXCEPT ![c] = on]
    BY <1>17
  <2>5. on.pc = IF queue[s] = <<>> THEN "calling" ELSE "waiting"
    BY <2>3
  <2> HIDE DEF on, place, s
  <2> QED
    BY <1>1, <1>5, <1>8, <1>17, <2>1, <2>3, <2>4, <2>5, CallQueues
<1> QED
  BY <1>6, <1>13, <1>14, <1>16, <1>17 DEF Ended

(* A server answers or the time of a call is over. *)
LEMMA CallEndsStep ==
  ASSUME ServersInv, NEW c \in Calls, Servers!ServerAnswers(c) \/ Servers!TimesOut(c)
  PROVE  ServersInv'
<1> USE DEF ServersInv
<1>1. /\ UNCHANGED <<setup, phase, attempt, ready, stopping, clients, defs, serverOf, starter,
                      stopper, chain, routing, user>>
      /\ Servers!Release(c)
  BY DEF Servers!ServerAnswers, Servers!TimesOut, Servers!serverVars, Servers!adapterVars
<1>2. AdapterInv'
  BY <1>1, AdaptersSame
<1>3. {"timed out", "ok", "UPSTREAM_UNAVAILABLE"} \subseteq Servers!Results \ {"TOOL_NOT_FOUND"}
  BY DEF Servers!Results, Servers!Codes
<1>4. CASE Servers!TimesOut(c)
  <2>1. Servers!Finish(c, "timed out", Nobody)
    BY <1>4 DEF Servers!TimesOut
  <2> QED
    BY <1>1, <1>2, <1>3, <2>1, CallLeaves
<1>5. CASE Servers!ServerAnswers(c)
  <2>1. call[c].pc = "calling"
    BY <1>5 DEF Servers!ServerAnswers
  <2> DEFINE s == call[c].server
  <2>2. s \in Servers!Servers /\ LockHeld(s) /\ c \in LetIn(s)
    BY <2>1 DEF CallsInv, LocksHeld, LetIn
  <2>3. \A d \in Servers!AnswersFor(c) : d = c
    BY <2>2 DEF Servers!AnswersFor, LockHeld
  <2>4. Servers!Finish(c, "ok", c) \/ Servers!Finish(c, "UPSTREAM_UNAVAILABLE", Nobody)
    BY <1>5, <2>3 DEF Servers!ServerAnswers
  <2> QED
    BY <1>1, <1>2, <1>3, <2>4, CallLeaves
<1> QED
  BY <1>4, <1>5

(* The other steps of a call. *)
LEMMA CallGoesOnStep ==
  ASSUME ServersInv, NEW c \in Calls,
         \/ Servers!Acquire(c)
         \/ \E t \in Tools : Servers!Refuse(c, t)
         \/ \E raised \in Servers!NativeRaises : Servers!NativeReturns(c, raised)
  PROVE  ServersInv'
<1> USE DEF ServersInv
<1>1. UNCHANGED <<setup, phase, attempt, ready, stopping, clients, defs, serverOf, starter, stopper,
                  chain, routing, user>>
  BY DEF Servers!Acquire, Servers!Refuse, Servers!NativeReturns, Servers!serverVars,
         Servers!adapterVars
<1>2. AdapterInv'
  BY <1>1, AdaptersSame
<1>3. CASE Servers!Acquire(c)
  BY <1>2, <1>3, AcquireStep
<1>4. ASSUME NEW result \in Servers!Results \ {"TOOL_NOT_FOUND"}, Servers!Finish(c, result, Nobody),
             call[c].pc \in {"new", "running"}, UNCHANGED <<queue, inClient>>
      PROVE  CallsInv'
  <2> DEFINE rec == Servers!Over(call[c], result, Nobody)
  <2>1. call[c] \in CallType /\ call' = [call EXCEPT ![c] = rec]
    BY <1>4 DEF CallsInv, CallTypes, Servers!Finish
  <2>2. /\ rec \in CallType /\ rec.pc = "done" /\ rec.answer = Nobody /\ rec.result = result
        /\ rec.tool = call[c].tool /\ rec.to = call[c].to /\ rec.shown = call[c].shown
    BY <2>1 DEF CallType, Servers!Over, Servers!AfterText
  <2>3. rec.to # "none" => Servers!Allowed(rec.tool)
    BY <2>2 DEF CallsInv, Servers!BlockedNeverRuns
  <2> HIDE DEF rec
  <2> QED
    BY <1>1, <1>4, <2>1, <2>2, <2>3, CallAway
<1>5. ASSUME NEW t \in Tools, Servers!Refuse(c, t)
      PROVE  ServersInv'
  <2>1. {"short", "blocked"} \subseteq Servers!Results \ {"TOOL_NOT_FOUND"}
    BY DEF Servers!Results, Servers!Codes
  <2>2. (Servers!Finish(c, "short", Nobody) \/ Servers!Finish(c, "blocked", Nobody))
          /\ call[c].pc = "new"
        /\ UNCHANGED <<queue, inClient>>
    BY <1>5 DEF Servers!Refuse
  <2> QED
    BY <1>2, <1>4, <2>1, <2>2
<1>6. ASSUME NEW raised \in Servers!NativeRaises, Servers!NativeReturns(c, raised)
      PROVE  ServersInv'
  <2>1. Servers!NativeCode(raised) \in Servers!Results \ {"TOOL_NOT_FOUND"}
    BY <1>6 DEF Servers!NativeCode, Servers!NativeRaises, Servers!Results, Servers!Codes
  <2>2. Servers!Finish(c, Servers!NativeCode(raised), Nobody) /\ call[c].pc = "running"
          /\ UNCHANGED <<queue, inClient>>
    BY <1>6 DEF Servers!NativeReturns
  <2> QED
    BY <1>2, <1>4, <2>1, <2>2
<1> QED
  BY <1>3, <1>5, <1>6

(* Every step of the tool servers keeps their invariant. *)
LEMMA ServersGoOn ==
  ASSUME ServersInv, [Servers!Next]_(Servers!vars)
  PROVE  ServersInv'
<1> USE DEF ServersInv
<1>1. CASE UNCHANGED Servers!vars
  BY <1>1, AdaptersSame, CallsSame
     DEF Servers!vars, Servers!serverVars, Servers!adapterVars, Servers!callVars
<1>2. ASSUME Servers!Start \/ Servers!StartReturns \/ Servers!StartTimesOut \/ Servers!Stop
             \/ Servers!StopReturns
      PROVE  ServersInv'
  <2>1. UNCHANGED <<setup, call, queue, inClient>>
    BY <1>2
       DEF Servers!Start, Servers!StartReturns, Servers!StartTimesOut, Servers!Stop,
           Servers!StopReturns, Servers!callVars
  <2> QED
    BY <1>2, <2>1, CallsSame, StartStep, StartReturnsStep, StopStep, StopReturnsStep
<1>3. ASSUME NEW s \in Servers!Servers, Servers!Connect(s) \/ Servers!ConnectionFails(s)
             \/ Servers!Retry(s) \/ Servers!Close(s) \/ Servers!CancelTask(s)
      PROVE  ServersInv'
  <2>1. UNCHANGED <<setup, call, queue, inClient>>
    BY <1>3
       DEF Servers!Connect, Servers!ConnectionFails, Servers!Retry, Servers!Close,
           Servers!CancelTask, Servers!callVars
  <2> QED
    BY <1>3, <2>1, CallsSame, ConnectStep, ServerTaskStep
<1>4. ASSUME NEW t \in Tools, Servers!RegisterTool(t) \/ Servers!RegisterDirectly(t)
      PROVE  ServersInv'
  <2>1. UNCHANGED <<setup, call, queue, inClient>>
    BY <1>4 DEF Servers!RegisterTool, Servers!RegisterDirectly, Servers!callVars
  <2> QED
    BY <1>4, <2>1, CallsSame, RegisterStep
<1>5. ASSUME NEW c \in Calls, NEW t \in Tools, Servers!Execute(c, t)
      PROVE  ServersInv'
  BY <1>5, CallExecutesStep
<1>6. ASSUME NEW c \in Calls, Servers!ServerAnswers(c) \/ Servers!TimesOut(c)
      PROVE  ServersInv'
  BY <1>6, CallEndsStep
<1>7. ASSUME NEW c \in Calls,
             \/ Servers!Acquire(c)
             \/ \E t \in Tools : Servers!Refuse(c, t)
             \/ \E raised \in Servers!NativeRaises : Servers!NativeReturns(c, raised)
      PROVE  ServersInv'
  BY <1>7, CallGoesOnStep
<1> QED
  BY <1>1, <1>2, <1>3, <1>4, <1>5, <1>6, <1>7 DEF Servers!Next

(* What the invariant says of the properties of ToolServers. *)
LEMMA ServersPromise ==
  ASSUME ServersInv
  PROVE  Servers!TypeOK /\ Servers!OwnAnswer /\ Servers!LockWithTheLiving /\ Servers!ShownIsFound
           /\ Servers!ConnectedIsOffered /\ Servers!StopIsFinal
         /\ Servers!BlockedNeverRuns
<1> USE DEF ServersInv
<1>1. chain \in Seq(Servers!Adapters)
  BY Chains DEF AdapterInv, ChainInUse
<1>2. Servers!TypeOK
  BY <1>1 DEF Servers!TypeOK, AdapterInv, AdapterTypes, CallsInv, CallTypes, CallType
<1>3. Servers!LockWithTheLiving
  <2>1. ASSUME NEW s \in Servers!Servers, NEW i \in DOMAIN queue[s]
        PROVE  LET c == queue[s][i]
               IN call[c].server = s /\ call[c].pc \in {"waiting", "calling"}
                    /\ (call[c].pc = "calling" => i = 1)
    <3>1. LockHeld(s) /\ queue[s] \in Seq(Calls)
      BY DEF CallsInv, LocksHeld, CallTypes
    <3>2. queue[s][i] \in AtLock(s)
      BY <3>1 DEF LockHeld, Servers!ToSet
    <3>3. 1 \in DOMAIN queue[s]
      BY <3>1
    <3> QED
      BY <3>1, <3>2, <3>3 DEF LockHeld, AtLock, LetIn, NoTwice
  <2> QED
    BY <2>1 DEF Servers!LockWithTheLiving
<1>4. Servers!ConnectedIsOffered
  <2>1. ASSUME starter = "returned", stopper = "idle", NEW s \in clients,
               NEW i \in DOMAIN setup.offers[s]
        PROVE  setup.offers[s][i] \in Servers!Shown
    <3>1. <<setup.offers[s][i], s>> \in defs
      BY <2>1 DEF AdapterInv, Defined
    <3>2. setup.offers[s][i] \in Servers!AdapterTools("mcp")
      BY <3>1 DEF Servers!AdapterTools
    <3>3. "mcp" \in Servers!ToSet(chain)
      BY <2>1, Chains DEF AdapterInv, ChainInUse
    <3> QED
      BY <3>2, <3>3 DEF Servers!Shown
  <2> QED
    BY <2>1 DEF Servers!ConnectedIsOffered, Servers!ToSet
<1> QED
  BY <1>2, <1>3, <1>4 DEF CallsInv, AdapterInv, Lifecycle

-----------------------------------------------------------------------------
(* The services together: a step of Services is a step of one component and   *)
(* leaves the others as they are.                                             *)

ServicesInv ==
  /\ part \in Parts
  /\ Inv /\ ServersInv
  /\ part # "overlap" => WorkflowInv

(* A step of Services as the components see it. *)
LEMMA StepsOfParts ==
  ASSUME [ServicesNext]_all
  PROVE  /\ UNCHANGED part
         /\ [Next]_vars
         /\ [Servers!Next]_(Servers!vars)
         /\ [Orchestrator!Next]_(Orchestrator!vars)
<1>1. UNCHANGED serversVars => UNCHANGED Servers!vars
  BY DEF serversVars, Servers!vars, Servers!serverVars, Servers!adapterVars, Servers!callVars
<1>2. UNCHANGED workflowVars => UNCHANGED Orchestrator!vars
  BY DEF workflowVars, Orchestrator!vars, Orchestrator!history
<1>3. CASE BreakerStep(Next)
  BY <1>1, <1>2, <1>3 DEF BreakerStep
<1>4. CASE ServersStep(Servers!Next)
  BY <1>2, <1>4 DEF ServersStep
<1>5. CASE WorkflowStep(Orchestrator!Next)
  BY <1>1, <1>5 DEF WorkflowStep
<1>6. CASE UNCHANGED all
  BY <1>1, <1>2, <1>6 DEF all
<1> QED
  BY <1>3, <1>4, <1>5, <1>6 DEF ServicesNext

(* Services begin in the invariant. *)
LEMMA ServicesStart == ServicesInit => ServicesInv
<1> SUFFICES ASSUME ServicesInit
             PROVE  ServicesInv
  OBVIOUS
<1>1. part \in Parts /\ Init /\ Servers!Init /\ Orchestrator!Init
  BY DEF ServicesInit
<1>2. Inv /\ ServersInv
  BY <1>1, InvInit, CallsStart, AdaptersStart DEF ServersInv
<1>3. ASSUME part # "overlap"
      PROVE  WorkflowInv
  <2>1. plan \in Plans \union {IdlePlan}
    BY <1>1, <1>3, ServicesAssumption DEF ServicesInit
  <2>2. ~plan.overlap
    BY <2>1, ServicesAssumption
  <2> QED
    BY <1>1, <2>2, WorkflowStarts
<1> QED
  BY <1>1, <1>2, <1>3 DEF ServicesInv

(* Every step of Services keeps the invariant. *)
LEMMA ServicesGoOn == ServicesInv /\ [ServicesNext]_all => ServicesInv'
<1> SUFFICES ASSUME ServicesInv, [ServicesNext]_all
             PROVE  ServicesInv'
  OBVIOUS
<1> USE DEF ServicesInv
<1>1. UNCHANGED part
  BY StepsOfParts
<1>2. Inv'
  BY StepsOfParts, InvNext
<1>3. ServersInv'
  BY StepsOfParts, ServersGoOn
<1>4. ASSUME part # "overlap"
      PROVE  WorkflowInv'
  BY <1>4, StepsOfParts, WorkflowGoesOn
<1> QED
  BY <1>1, <1>2, <1>3, <1>4

(* The inductive invariant of the services: of the workflow orchestrator only *)
(* where a caller waits for the run before.                                   *)
THEOREM ServicesInvariant == ServicesSpec => []ServicesInv
BY ServicesStart, ServicesGoOn, PTL DEF ServicesSpec

(* A call of an MCP server gets its own answer, and the lock of a server is   *)
(* with calls that are under way, whatever is cancelled or times out          *)
(* (MCPToolAdapter.execute, the lock of each client).                         *)
THEOREM AnswersAreOwn == ServicesSpec => []OwnAnswer
<1>1. ServicesInv => OwnAnswer
  BY ServersPromise DEF ServicesInv, OwnAnswer
<1> QED
  BY <1>1, ServicesInvariant, PTL

(* A tool that is shown is found, what a connected server lists is shown,     *)
(* stop() is final, and nothing the policy forbids is run (the adapters and   *)
(* the gates of ToolExecutor).                                                *)
THEOREM ShownToolsAreFound == ServicesSpec => []ShownIsFound
<1>1. ServicesInv => ShownIsFound
  BY ServersPromise DEF ServicesInv, ShownIsFound
<1> QED
  BY <1>1, ServicesInvariant, PTL

(* Without a second caller that does not wait for the run before: the breaker *)
(* is closed exactly while fewer than Threshold answers in a row have failed, *)
(* and a workflow's status says what became of its tasks and runs             *)
(* (CircuitBreaker, _run_workflow).                                           *)
THEOREM StatesAreTrue ==
  ASSUME "overlap" \notin Parts
  PROVE  ServicesSpec => []StatesTrue
<1>1. ServicesInv => StatesTrue
  <2> SUFFICES ASSUME ServicesInv
               PROVE  StatesTrue
    OBVIOUS
  <2>1. TypeOK /\ TripsOnStreak
    BY DEF ServicesInv, Inv
  <2>2. Servers!TypeOK
    BY ServersPromise DEF ServicesInv
  <2>3. WorkflowInv
    BY DEF ServicesInv
  <2> QED
    BY <2>1, <2>2, <2>3 DEF StatesTrue, WorkflowInv
<1> QED
  BY <1>1, ServicesInvariant, PTL

(* In the same place: a task starts after all it depends on, what was         *)
(* finished is not run again, and nothing of a later layer starts after a     *)
(* pause (_topo_layers, _run_workflow, pause_workflow).                       *)
THEOREM TasksStartInOrder ==
  ASSUME "overlap" \notin Parts
  PROVE  ServicesSpec => TasksInOrder
<1> DEFINE
      First == \A t \in Tasks : (\E r \in Runs : t \in run'[r].busy \ run[r].busy) =>
                 \A d \in plan.deps[t] : task[d] \in {"completed", "skipped"}
      Finished == \A t \in done :
                 task[t] = "completed" /\ ~\E r \in Runs : t \in run'[r].busy \ run[r].busy
      Holds == held > 0 =>
        \A r \in Runs : run'[r].busy # run[r].busy /\ run'[r].busy \ run[r].busy # {} =>
                 run[r].layer <= held - 1
<1>1. ServicesInv /\ [ServicesNext]_all => First /\ Finished /\ Holds
  <2> SUFFICES ASSUME ServicesInv, [ServicesNext]_all
               PROVE  First /\ Finished /\ Holds
    OBVIOUS
  <2>1. WorkflowInv /\ [Orchestrator!Next]_(Orchestrator!vars)
    BY StepsOfParts DEF ServicesInv
  <2> QED
    BY <2>1, WorkflowOrder
<1>2. ServicesSpec => [][First /\ Finished /\ Holds]_(Orchestrator!vars)
  BY <1>1, ServicesInvariant, PTL DEF ServicesSpec
<1>3. ServicesSpec =>
        [][First]_(Orchestrator!vars) /\ [][Finished]_(Orchestrator!vars)
          /\ [][Holds]_(Orchestrator!vars)
  BY <1>2, PTL
<1> QED
  BY <1>3
     DEF TasksInOrder, Orchestrator!DependenciesFirst, Orchestrator!FinishedNotRerun,
         Orchestrator!PauseHolds

(* The provider is not called while its last Threshold answers have failed    *)
(* and the last of them is less than Recovery ago, also beside the others.    *)
THEOREM ServicesAreSheltered == ServicesSpec => Sheltered
<1>1. ServicesInv /\ [ServicesNext]_all =>
        [\A c \in Callers : pc[c] = "attempting" /\ pc'[c] = "calling" =>
           streak < Threshold \/ quiet >= Recovery]_vars
  BY StepsOfParts, CallsAreSheltered DEF ServicesInv
<1> QED
  BY <1>1, ServicesInvariant, PTL DEF ServicesSpec, Sheltered
=============================================================================

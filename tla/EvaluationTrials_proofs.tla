----------------------- MODULE EvaluationTrials_proofs -----------------------
(***************************************************************************)
(* The verdicts of EvaluationTrials, for any number of processes, tasks,   *)
(* variants and trials, and any crashes: what a process has in memory is   *)
(* at every moment the outcome of the valid trials it has passed in the    *)
(* plan, although other processes store rows of the same experiment.       *)
(*                                                                         *)
(* The key is the order of the rows.  The trials of one task and variant   *)
(* are tried in order, and none is tried once Required of them are valid:  *)
(* so the stored ones form a prefix (RowsInOrder), and the valid ones      *)
(* before the last are too few (NoneBeyondEnough).  A process that has     *)
(* enough valid trials therefore knows every row there will ever be of     *)
(* that task and variant, and one that has not knows every row there is    *)
(* (NextIsFresh, KnowsWhatCounts).                                         *)
(***************************************************************************)
EXTENDS EvaluationTrials, FiniteSetTheorems, WellFoundedInduction, TLAPS

-----------------------------------------------------------------------------
(* The inductive invariant, of the rows R and of what a run has in memory m *)

TasksSet == Range(Tasks)

HasRowIn(R, s) == R[s] # None

ValidIn(R, s) == HasRowIn(R, s) /\ R[s].status # "invalid"

ValidTrials(R, v, t) == {n \in 1..Trials : ValidIn(R, <<t, v, n>>)}

(* The valid trials of v on t before the n-th. *)
ValidBefore(R, v, t, n) == {k \in 1..Trials : k < n /\ ValidIn(R, <<t, v, k>>)}

RowsInOrder(R) ==
    \A t \in TasksSet, v \in VariantSet, n \in 1..Trials :
        HasRowIn(R, <<t, v, n>>) => \A k \in 1..Trials : k < n => HasRowIn(R, <<t, v, k>>)

NoneBeyondEnough(R) ==
    \A t \in TasksSet, v \in VariantSet, n \in 1..Trials :
        HasRowIn(R, <<t, v, n>>) => Cardinality(ValidBefore(R, v, t, n)) < Required

(* Only the judged variant's results are stored; only a mutation is killed  *)
(* or survives.                                                             *)
RowFits(row, s) ==
    /\ row \in Rows
    /\ row.status \in {"mutation_survived", "mutation_killed"} <=> s[2] \in Mutants /\ row.status # "invalid"
    /\ s[2] # Judged => row.results = {}

RowsInv(R) ==
    /\ R \in [Slots -> Rows \cup {None}]
    /\ RowsInOrder(R)
    /\ NoneBeyondEnough(R)
    /\ \A s \in Slots : HasRowIn(R, s) => RowFits(R[s], s)

(* The slots a run with memory m will not try. *)
Past(m) == m.seen \cup {Plan[j] : j \in 1..(m.at - 1)}

(* The slots it has counted a valid trial of. *)
Worked(R, m) == {s \in Past(m) : ValidIn(R, s)}

WorkedTrials(R, m, v, t) == {n \in 1..Trials : <<t, v, n>> \in Worked(R, m)}

Memories ==
    [ at      : 1..(Length + 1),
      seen    : SUBSET Slots,
      valid   : [VariantSet -> [TasksSet -> Nat]],
      passed  : SUBSET Mutants,
      results : SUBSET UNION Outcomes,
      stop    : Stops ]

SeenInOrder(R, m) ==
    \A t \in TasksSet, v \in VariantSet, n \in 1..Trials : <<t, v, n>> \in m.seen =>
        /\ HasRowIn(R, <<t, v, n>>)
        /\ \A k \in 1..Trials : k < n => <<t, v, k>> \in m.seen

PastIsStored(R, m) == \A s \in Past(m) : HasRowIn(R, s) \/ Enough(m, s)

ValidAreWorked(R, m) ==
    \A v \in VariantSet, t \in TasksSet : m.valid[v][t] = Cardinality(WorkedTrials(R, m, v, t))

ResultsAreWorked(R, m) ==
    \A x : x \in m.results <=> \E s \in Worked(R, m) : s[2] = Judged /\ x \in R[s].results

SurvivedIn(R, m) == \E s \in Worked(R, m) : R[s].status = "mutation_survived"

PassedAreWorked(R, m) ==
    /\ \A s \in Worked(R, m) :
           R[s].status = "mutation_survived" => s \in m.seen \/ s[2] \in m.passed
    /\ m.passed # {} => SurvivedIn(R, m) \/ \E s \in m.seen : s[2] \in Mutants

FailedIn(R, m) == \E s \in Worked(R, m) : s[2] = Judged /\ TrialVerdict(R[s].results) = "fail"

Unstored(R, v, t) == {n \in 1..Trials : ~HasRowIn(R, <<t, v, n>>)}

(* Were they all valid, the trials left of some task would not be enough.   *)
OutOfReach(R) ==
    FastVariant \in VariantSet /\ \E t \in TasksSet :
        Cardinality(ValidTrials(R, FastVariant, t)) + Cardinality(Unstored(R, FastVariant, t)) < Required

StopIsBacked(R, m) ==
    /\ m.stop = "insufficient" => OutOfReach(R)
    /\ m.stop = "mutation_survived" => SurvivedIn(R, m)
    /\ m.stop = "candidate_failure" => FailedIn(R, m)

MemoryInv(R, m) ==
    /\ m \in Memories
    /\ SeenInOrder(R, m)
    /\ PastIsStored(R, m)
    /\ ValidAreWorked(R, m)
    /\ ResultsAreWorked(R, m)
    /\ PassedAreWorked(R, m)
    /\ StopIsBacked(R, m)

VerdictsInv ==
    /\ verdict \in [Runs -> {"none", "validated", "rejected", "inconclusive"}]
    /\ \A r \in Runs : pc[r] = "done" => verdict[r] = StatusOf(ExperimentVerdict(mem[r]))

TrialsInv ==
    /\ RowsInv(rows)
    /\ mem \in [Runs -> Memories]
    /\ \A r \in Runs : MemoryInv(rows, mem[r])
    /\ pc \in [Runs -> {"idle", "trial", "done"}]
    /\ VerdictsInv
    /\ status \in Lifecycle!Statuses
    /\ crashes \in 0..MaxCrashes

-----------------------------------------------------------------------------
(* Numbers and finite sets *)

(* A set of natural numbers that is not empty has a least one.              *)
LEMMA LeastNat ==
    ASSUME NEW S, S \subseteq Nat, S # {}
    PROVE  \E x \in S : \A y \in S : x <= y
<1> DEFINE Less == {ss \in Nat \X Nat : ss[1] < ss[2]}
<1>1. IsWellFoundedOn(OpToRel(<, Nat), Nat)
  BY NatLessThanWellFounded
<1>2. IsWellFoundedOn(Less, Nat)
  BY <1>1 DEF OpToRel
<1> HIDE DEF Less
<1>3. PICK x \in S : \A y \in S : ~(<<y, x>> \in Less)
  BY <1>2, WFMin
<1>4. \A y \in S : ~(y < x)
  BY <1>3 DEF Less
<1> QED
  BY <1>4

LEMMA MinOfNat ==
    ASSUME NEW S, S \subseteq Nat, S # {}
    PROVE  Min(S) \in S /\ \A y \in S : Min(S) <= y
BY LeastNat DEF Min

LEMMA Division ==
    ASSUME NEW a \in Nat, NEW d \in Nat, d # 0
    PROVE  /\ a \div d \in Nat
           /\ (a % d) \in 0..(d - 1)
           /\ a = (d * (a \div d)) + (a % d)
OBVIOUS

LEMMA DivisionBelow ==
    ASSUME NEW a \in Nat, NEW d \in Nat, d # 0, NEW q \in Nat, a < q * d
    PROVE  a \div d < q
OBVIOUS

LEMMA DivisionUnique ==
    ASSUME NEW d \in Nat, d # 0, NEW q \in Int, NEW r \in 0..(d - 1)
    PROVE  ((d * q) + r) \div d = q /\ ((d * q) + r) % d = r
OBVIOUS

LEMMA ProductIsNat ==
    ASSUME NEW a \in Nat, NEW b \in Nat
    PROVE  a * b \in Nat /\ (a # 0 /\ b # 0 => a * b # 0)
OBVIOUS

LEMMA IntervalSize ==
    ASSUME NEW n \in Nat
    PROVE  IsFiniteSet(1..n) /\ Cardinality(1..n) = n
BY FS_Interval

-----------------------------------------------------------------------------
(* The plan *)

LEMMA VariantsAreListed ==
    /\ Len(Variants) \in Nat
    /\ Variants \in [1..Len(Variants) -> VariantSet]
    /\ Variants \in Injection(1..Len(Variants), VariantSet)
    /\ \A v \in VariantSet : Index(v) \in 1..Len(Variants) /\ Variants[Index(v)] = v
    /\ IsFiniteSet(VariantSet) /\ Cardinality(VariantSet) = Len(Variants)
<1>1. /\ Len(Variants) \in Nat
      /\ DOMAIN Variants = 1..Len(Variants)
      /\ Variants \in [1..Len(Variants) -> VariantSet]
  BY VariantsAssumption
<1>2. \A v \in VariantSet : \E i \in DOMAIN Variants : Variants[i] = v
  BY DEF VariantSet, Range
<1>3. \A v \in VariantSet : Index(v) \in 1..Len(Variants) /\ Variants[Index(v)] = v
  BY <1>1, <1>2 DEF Index
<1>4. Variants \in Injection(1..Len(Variants), VariantSet)
  BY <1>1, VariantsAssumption DEF Injection, IsInjective
<1>5. Variants \in Bijection(1..Len(Variants), VariantSet)
  BY <1>1, <1>2, <1>4 DEF Bijection, Surjection
<1>6. IsFiniteSet(1..Len(Variants)) /\ Cardinality(1..Len(Variants)) = Len(Variants)
  BY <1>1, IntervalSize
<1>7. ExistsBijection(1..Len(Variants), VariantSet)
  BY <1>5 DEF ExistsBijection
<1>8. IsFiniteSet(VariantSet) /\ Cardinality(VariantSet) = Len(Variants)
  BY <1>6, <1>7, FS_Bijection
<1> QED
  BY <1>1, <1>3, <1>4, <1>8

LEMMA BeforeIsATotalOrder ==
    ASSUME NEW u \in VariantSet, NEW v \in VariantSet
    PROVE  /\ ~Before(u, u)
           /\ u # v => Before(u, v) \/ Before(v, u)
           /\ \A w \in VariantSet : Before(u, v) /\ Before(v, w) => Before(u, w)
<1>1. \A x \in VariantSet : Index(x) \in Int
  BY VariantsAreListed
<1>2. u # v => Index(u) # Index(v)
  BY VariantsAreListed
<1>3. \A x \in VariantSet : Key(x) \in Int
  BY DEF Key
<1> QED
  BY <1>1, <1>2, <1>3 DEF Before

(* A stable sort of the variants lists each of them: the places of two      *)
(* variants differ, and there are as many places as variants.               *)
LEMMA OrderType ==
    Order \in [1..Len(Variants) -> VariantSet] /\ Len(Order) = Len(Variants)
<1> DEFINE N == Len(Variants)
           Earlier(v) == {u \in VariantSet : Before(u, v)}
           place == [v \in VariantSet |-> Cardinality(Earlier(v)) + 1]
<1>1. /\ N \in Nat /\ IsFiniteSet(VariantSet) /\ Cardinality(VariantSet) = N
  BY VariantsAreListed
<1>2. ASSUME NEW v \in VariantSet
      PROVE  /\ IsFiniteSet(Earlier(v)) /\ Cardinality(Earlier(v)) \in Nat
             /\ Cardinality(Earlier(v)) < N
  <2>1. Earlier(v) \in SUBSET VariantSet /\ v \notin Earlier(v)
    BY BeforeIsATotalOrder
  <2> HIDE DEF Earlier
  <2>2. /\ IsFiniteSet(Earlier(v)) /\ Cardinality(Earlier(v)) <= N
        /\ Cardinality(VariantSet) = Cardinality(Earlier(v)) => VariantSet = Earlier(v)
    BY <1>1, <2>1, FS_Subset
  <2>3. Cardinality(Earlier(v)) \in Nat
    BY <2>2, FS_CardinalityType
  <2>4. Cardinality(Earlier(v)) # N
    BY <1>1, <2>1, <2>2
  <2> QED
    BY <1>1, <2>2, <2>3, <2>4
<1>3. ASSUME NEW u \in VariantSet, NEW v \in VariantSet, Before(u, v)
      PROVE  Cardinality(Earlier(u)) # Cardinality(Earlier(v))
  <2>1. Earlier(u) \in SUBSET Earlier(v)
    BY <1>3, BeforeIsATotalOrder
  <2>2. u \in Earlier(v) /\ u \notin Earlier(u)
    BY <1>3, BeforeIsATotalOrder
  <2>3. IsFiniteSet(Earlier(v))
    BY <1>2
  <2> HIDE DEF Earlier
  <2>4. Cardinality(Earlier(v)) = Cardinality(Earlier(u)) => Earlier(v) = Earlier(u)
    BY <2>1, <2>3, FS_Subset
  <2> QED
    BY <2>2, <2>4
<1>4. place \in [VariantSet -> 1..N]
  <2>1. \A v \in VariantSet : Cardinality(Earlier(v)) + 1 \in 1..N
    <3> TAKE v \in VariantSet
    <3>1. Cardinality(Earlier(v)) \in Nat /\ Cardinality(Earlier(v)) < N
      BY <1>2
    <3> HIDE DEF Earlier
    <3> QED
      BY <3>1, <1>1
  <2> QED
    BY <2>1
<1>5. ASSUME NEW u \in VariantSet, NEW v \in VariantSet, u # v
      PROVE  place[u] # place[v]
  <2>1. Cardinality(Earlier(u)) # Cardinality(Earlier(v))
    BY <1>3, <1>5, BeforeIsATotalOrder
  <2>2. Cardinality(Earlier(u)) \in Nat /\ Cardinality(Earlier(v)) \in Nat
    BY <1>2
  <2>3. place[u] = Cardinality(Earlier(u)) + 1 /\ place[v] = Cardinality(Earlier(v)) + 1
    OBVIOUS
  <2> HIDE DEF Earlier, place
  <2> QED
    BY <2>1, <2>2, <2>3
<1>6. place \in Injection(VariantSet, 1..N)
  <2> HIDE DEF place
  <2> QED
    BY <1>4, <1>5 DEF Injection, IsInjective
<1>7. place \in Surjection(VariantSet, 1..N)
  <2> HIDE DEF place
  <2>1. IsFiniteSet(1..N) /\ Cardinality(1..N) = N
    BY <1>1, IntervalSize
  <2>2. Cardinality(VariantSet) = Cardinality(1..N) <=> place \in Surjection(VariantSet, 1..N)
    <3> HIDE DEF N
    <3> QED
      BY ONLY <1>6, <2>1, FS_Injection
  <2> QED
    BY <1>1, <2>1, <2>2
<1>8. ASSUME NEW i \in 1..N
      PROVE  \E v \in VariantSet : Cardinality(Earlier(v)) = i - 1
  <2>1. PICK v \in VariantSet : place[v] = i
    <3> HIDE DEF place
    <3> QED
      BY <1>7 DEF Surjection
  <2>2. place[v] = Cardinality(Earlier(v)) + 1 /\ Cardinality(Earlier(v)) \in Nat
    BY <1>2
  <2> HIDE DEF Earlier, place
  <2>3. Cardinality(Earlier(v)) = i - 1
    BY <2>1, <2>2
  <2> QED
    BY <2>3
<1>9. Order = [i \in 1..N |-> CHOOSE v \in VariantSet : Cardinality(Earlier(v)) = i - 1]
  BY DEF Order
<1> HIDE DEF Earlier
<1>10. Order \in [1..N -> VariantSet]
  BY <1>8, <1>9
<1> QED
  BY <1>1, <1>10

(* Position a - d is d trials before position a of the same two outer loops. *)
IsBack(a, d, n, T) ==
    /\ a - d \in Nat
    /\ (a - d) \div n = a \div n
    /\ ((a - d) % n) \div T = (a % n) \div T
    /\ (a - d) % T = (a % T) - d

(* Position a counts trials within variants within tasks: the trials of one *)
(* task and variant that come before it are the positions just before it.   *)
LEMMA ThreeLoops ==
    ASSUME NEW T \in Nat, T # 0, NEW L \in Nat, L # 0, NEW K \in Nat,
           NEW a \in Nat, a < K * (L * T)
    PROVE  /\ L * T \in Nat /\ L * T # 0
           /\ a \div (L * T) \in 0..(K - 1)
           /\ (a % (L * T)) \div T \in 0..(L - 1)
           /\ (a % T) \in 0..(T - 1)
           /\ \A d \in 0..(a % T) : IsBack(a, d, L * T, T)
<1> DEFINE n == L * T
           q == a \div n
           b == a % n
           p == b \div T
           r == b % T
<1>1. n \in Nat /\ n # 0
  BY ProductIsNat
<1> HIDE DEF n
<1>2. q \in Nat /\ b \in 0..(n - 1) /\ a = (n * q) + b
  BY <1>1, Division
<1>3. q < K
  <2>1. a < K * n
    BY DEF n
  <2> HIDE DEF q
  <2> QED
    BY <2>1, <1>1, DivisionBelow DEF q
<1> HIDE DEF q
<1>4. b \in Nat /\ b < n
  BY <1>1, <1>2
<1> HIDE DEF b
<1>5. p \in Nat /\ r \in 0..(T - 1) /\ b = (T * p) + r
  BY <1>4, Division
<1>6. p < L
  <2>1. b < L * T
    BY <1>4 DEF n
  <2> QED
    BY <2>1, <1>4, DivisionBelow
<1> HIDE DEF p, r
<1>7. n = L * T
  BY DEF n
<1>8. a = (T * ((L * q) + p)) + r
  <2>1. n * q = T * (L * q)
    BY <1>2, <1>7
  <2>2. T * ((L * q) + p) = (T * (L * q)) + (T * p)
    BY <1>2, <1>5
  <2>3. L * q \in Nat /\ T * (L * q) \in Nat /\ T * p \in Nat
    BY <1>2, <1>5, ProductIsNat
  <2> QED
    BY <1>2, <1>5, <2>1, <2>2, <2>3
<1>9. (L * q) + p \in Int
  BY <1>2, <1>5, ProductIsNat
<1>10. a % T = r
  BY <1>5, <1>8, <1>9, DivisionUnique
<1>11. ASSUME NEW d \in 0..r
       PROVE  /\ a - d \in Nat
              /\ (a - d) \div n = q
              /\ ((a - d) % n) \div T = p
              /\ (a - d) % T = r - d
  <2> DEFINE e == (T * p) + (r - d)
  <2>1. r - d \in 0..(T - 1)
    BY <1>5
  <2>2. T * p \in Nat /\ n * q \in Nat
    BY <1>1, <1>2, <1>5, ProductIsNat
  <2>3. e \in 0..(n - 1)
    BY <1>1, <1>4, <1>5, <2>1, <2>2
  <2>4. a - d = (n * q) + e
    BY <1>2, <1>5, <2>2
  <2>5. e \div T = p
    BY <2>1, <1>5, DivisionUnique
  <2>6. a - d = (T * ((L * q) + p)) + (r - d)
    <3>1. T * ((L * q) + p) \in Int
      BY <1>9
    <3> QED
      BY <3>1, <1>5, <1>8
  <2>7. (a - d) % T = r - d
    BY <2>1, <2>6, <1>9, DivisionUnique
  <2> HIDE DEF e
  <2>8. (a - d) \div n = q /\ (a - d) % n = e
    BY <2>3, <2>4, <1>1, <1>2, DivisionUnique
  <2>9. a - d \in Nat
    BY <2>2, <2>3, <2>4, <1>1
  <2> QED
    BY <2>5, <2>7, <2>8, <2>9
<1>12. q \in 0..(K - 1) /\ p \in 0..(L - 1)
  BY <1>2, <1>3, <1>5, <1>6
<1> QED
  BY <1>1, <1>5, <1>10, <1>11, <1>12 DEF n, q, b, p, IsBack

LEMMA TasksAreListed ==
    /\ Len(Tasks) \in Nat
    /\ \A i \in 1..Len(Tasks) : Tasks[i] \in TasksSet
<1>1. Len(Tasks) \in Nat /\ DOMAIN Tasks = 1..Len(Tasks)
  BY PlanAssumption
<1> QED
  BY <1>1 DEF TasksSet, Range

LEMMA LengthType ==
    /\ Length \in Nat
    /\ \A i \in 1..Length : /\ Len(Order) \in Nat /\ Len(Order) # 0
                            /\ i - 1 \in Nat /\ i - 1 < Len(Tasks) * (Len(Order) * Trials)
<1> DEFINE K == Len(Tasks)
           L == Len(Order)
<1>1. K \in Nat /\ L \in Nat /\ Trials \in Nat
  BY TasksAreListed, OrderType, VariantsAreListed, PlanAssumption
<1>2. Length = (K * L) * Trials
  BY DEF Length
<1> HIDE DEF K, L
<1>3. Length \in Nat /\ Length = K * (L * Trials)
  BY <1>1, <1>2, ProductIsNat
<1>4. L = 0 => Length = 0
  BY <1>1, <1>2
<1>5. \A i \in 1..Length : L # 0 /\ i - 1 \in Nat /\ i - 1 < K * (L * Trials)
  BY <1>3, <1>4
<1> QED
  BY <1>1, <1>3, <1>5 DEF K, L

LEMMA PlanAt ==
    ASSUME NEW i \in 1..Length
    PROVE  Plan[i] = << Tasks[((i - 1) \div (Len(Order) * Trials)) + 1],
                        Order[(((i - 1) % (Len(Order) * Trials)) \div Trials) + 1],
                        ((i - 1) % Trials) + 1 >>
BY DEF Plan

LEMMA PlanType ==
    ASSUME NEW i \in 1..Length
    PROVE  /\ Plan[i] \in Slots
           /\ Plan[i][1] \in TasksSet /\ Plan[i][2] \in VariantSet /\ Plan[i][3] \in 1..Trials
           /\ Plan[i] = <<Plan[i][1], Plan[i][2], Plan[i][3]>>
<1> DEFINE a == i - 1
           L == Len(Order)
           K == Len(Tasks)
           x == a \div (L * Trials)
           y == (a % (L * Trials)) \div Trials
           z == a % Trials
<1>1. L \in Nat /\ L # 0 /\ a \in Nat /\ a < K * (L * Trials)
  BY LengthType
<1>2. K \in Nat /\ Trials \in Nat /\ Trials # 0
  BY TasksAreListed, PlanAssumption
<1>3. L = Len(Variants) /\ \A k \in 1..L : Order[k] \in VariantSet
  BY OrderType
<1>4. \A k \in 1..K : Tasks[k] \in TasksSet
  BY TasksAreListed
<1>5. Plan[i] = <<Tasks[x + 1], Order[y + 1], z + 1>>
  BY PlanAt
<1>6. x \in 0..(K - 1) /\ y \in 0..(L - 1) /\ z \in 0..(Trials - 1)
  <2> HIDE DEF a, L, K
  <2> QED
    BY <1>1, <1>2, ThreeLoops
<1> HIDE DEF x, y, z, a, K, L
<1>7. x + 1 \in 1..K /\ y + 1 \in 1..L /\ z + 1 \in 1..Trials
  BY <1>1, <1>2, <1>6
<1>8. Tasks[x + 1] \in TasksSet /\ Order[y + 1] \in VariantSet
  BY <1>3, <1>4, <1>7
<1> QED
  BY <1>5, <1>7, <1>8 DEF Slots, TasksSet

(* The earlier trials of the task and variant of a slot stand before it.    *)
LEMMA PlanBefore ==
    ASSUME NEW i \in 1..Length, NEW k \in 1..Trials, k < Plan[i][3]
    PROVE  \E j \in 1..Length : j < i /\ Plan[j] = <<Plan[i][1], Plan[i][2], k>>
<1> DEFINE a == i - 1
           L == Len(Order)
           K == Len(Tasks)
           x == a \div (L * Trials)
           y == (a % (L * Trials)) \div Trials
           z == a % Trials
           d == (z + 1) - k
<1>1. L \in Nat /\ L # 0 /\ a \in Nat /\ a < K * (L * Trials)
  BY LengthType
<1>2. K \in Nat /\ Trials \in Nat /\ Trials # 0
  BY TasksAreListed, PlanAssumption
<1>3. Plan[i] = <<Tasks[x + 1], Order[y + 1], z + 1>>
  BY PlanAt
<1>4. z \in 0..(Trials - 1)
  <2> HIDE DEF a, L, K
  <2> QED
    BY <1>1, <1>2, ThreeLoops
<1>5. k < z + 1
  BY <1>3
<1>6. d \in 0..z /\ d > 0
  <2> HIDE DEF z
  <2> QED
    BY <1>2, <1>4, <1>5
<1>7. /\ a - d \in Nat
      /\ (a - d) \div (L * Trials) = x
      /\ ((a - d) % (L * Trials)) \div Trials = y
      /\ (a - d) % Trials = z - d
  <2> HIDE DEF a, L, K
  <2>1. \A e \in 0..(a % Trials) : IsBack(a, e, L * Trials, Trials)
    BY <1>1, <1>2, ThreeLoops
  <2>2. IsBack(a, d, L * Trials, Trials)
    <3> HIDE DEF d
    <3> QED
      BY <1>6, <2>1
  <2> QED
    BY <2>2 DEF IsBack
<1> DEFINE j == i - d
<1>8. z - d = k - 1
  <2> HIDE DEF z
  <2> QED
    BY <1>4
<1>9. d \in Int /\ d > 0
  BY <1>4, <1>6
<1> HIDE DEF d
<1>10. j \in 1..Length /\ j < i /\ j - 1 = a - d
  BY <1>7, <1>9, LengthType
<1>11. Plan[j] = <<Tasks[((j - 1) \div (L * Trials)) + 1],
                   Order[(((j - 1) % (L * Trials)) \div Trials) + 1],
                   ((j - 1) % Trials) + 1>>
  BY <1>10, PlanAt
<1> HIDE DEF j, a, L, K, z
<1>12. Plan[j] = <<Tasks[x + 1], Order[y + 1], (z - d) + 1>>
  BY <1>7, <1>10, <1>11
<1>13. (z - d) + 1 = k
  BY <1>8
<1>14. Plan[i][1] = Tasks[x + 1] /\ Plan[i][2] = Order[y + 1]
  BY <1>3
<1> QED
  BY <1>10, <1>12, <1>13, <1>14

-----------------------------------------------------------------------------
(* What a run knows *)

LEMMA SlotParts ==
    ASSUME NEW s, s \in Slots
    PROVE  /\ s[1] \in TasksSet /\ s[2] \in VariantSet /\ s[3] \in 1..Trials
           /\ s = <<s[1], s[2], s[3]>>
BY DEF Slots, TasksSet

LEMMA SlotsAreTriples ==
    ASSUME NEW t, NEW v, NEW n, t \in TasksSet, v \in VariantSet, n \in 1..Trials
    PROVE  <<t, v, n>> \in Slots
BY DEF Slots, TasksSet

LEMMA TrialsAreFinite ==
    ASSUME NEW S, S \subseteq 1..Trials
    PROVE  /\ IsFiniteSet(S)
           /\ Cardinality(S) \in Nat
           /\ \A U : U \subseteq S => Cardinality(U) \in Nat /\ Cardinality(U) <= Cardinality(S)
<1>1. IsFiniteSet(1..Trials)
  BY PlanAssumption, IntervalSize
<1>2. IsFiniteSet(S)
  BY <1>1, FS_Subset
<1>3. Cardinality(S) \in Nat
  BY <1>2, FS_CardinalityType
<1>4. ASSUME NEW U, U \subseteq S
      PROVE  Cardinality(U) \in Nat /\ Cardinality(U) <= Cardinality(S)
  <2>1. IsFiniteSet(U) /\ Cardinality(U) <= Cardinality(S)
    BY <1>2, <1>4, FS_Subset
  <2> QED
    BY <2>1, FS_CardinalityType
<1> QED
  BY <1>2, <1>3, <1>4

LEMMA MemoryFields ==
    ASSUME NEW m, m \in Memories
    PROVE  /\ m.at \in 1..(Length + 1) /\ m.at \in Nat
           /\ m.seen \subseteq Slots
           /\ \A v \in VariantSet, t \in TasksSet : m.valid[v][t] \in Nat
           /\ m.passed \subseteq Mutants
           /\ m.stop \in Stops
<1>1. m.at \in 1..(Length + 1) /\ m.valid \in [VariantSet -> [TasksSet -> Nat]]
  BY DEF Memories
<1>2. m.at \in Nat
  BY <1>1, LengthType
<1> QED
  BY <1>1, <1>2 DEF Memories

LEMMA PastIsInPlan ==
    ASSUME NEW m, m \in Memories
    PROVE  Past(m) \subseteq Slots
<1>1. \A j \in 1..(m.at - 1) : j \in 1..Length
  BY MemoryFields, LengthType
<1> QED
  BY <1>1, MemoryFields, PlanType DEF Past

(* What a run has passed of a task and variant are the first trials of it.  *)
LEMMA PastIsPrefix ==
    ASSUME NEW R, NEW m, m \in Memories, SeenInOrder(R, m),
           NEW t, NEW v, NEW n, NEW k, t \in TasksSet, v \in VariantSet,
           n \in 1..Trials, k \in 1..Trials, k < n, <<t, v, n>> \in Past(m)
    PROVE  <<t, v, k>> \in Past(m)
<1>1. CASE <<t, v, n>> \in m.seen
  BY <1>1 DEF SeenInOrder, Past
<1>2. CASE <<t, v, n>> \notin m.seen
  <2>1. PICK j \in 1..(m.at - 1) : Plan[j] = <<t, v, n>>
    BY <1>2 DEF Past
  <2>2. j \in 1..Length
    BY MemoryFields, LengthType
  <2>3. Plan[j][1] = t /\ Plan[j][2] = v /\ Plan[j][3] = n
    BY <2>1
  <2>4. PICK i \in 1..Length : i < j /\ Plan[i] = <<t, v, k>>
    BY <2>2, <2>3, PlanBefore
  <2>5. i \in 1..(m.at - 1)
    BY <2>4, MemoryFields
  <2> QED
    BY <2>4, <2>5 DEF Past
<1> QED
  BY <1>1, <1>2

LEMMA RequiredType == Required \in Nat /\ Required > 0 /\ Trials \in Nat
BY PlanAssumption

LEMMA WorkedTrialsAreValid ==
    ASSUME NEW R, NEW m, NEW v, NEW t
    PROVE  /\ WorkedTrials(R, m, v, t) \subseteq ValidTrials(R, v, t)
           /\ ValidTrials(R, v, t) \subseteq 1..Trials
BY DEF WorkedTrials, ValidTrials, Worked

(* A run with enough valid trials of a task and variant has passed every    *)
(* row of them: the valid ones before one it has not passed are too few.    *)
LEMMA EnoughKnowsAll ==
    ASSUME NEW R, RowsInv(R), NEW m, MemoryInv(R, m),
           NEW s, s \in Slots, HasRowIn(R, s), Enough(m, s)
    PROVE  s \in Past(m)
<1> DEFINE t == s[1]
           v == s[2]
           n == s[3]
           W == WorkedTrials(R, m, v, t)
           B == ValidBefore(R, v, t, n)
<1>1. t \in TasksSet /\ v \in VariantSet /\ n \in 1..Trials /\ s = <<t, v, n>>
  BY SlotParts
<1>2. m.valid[v][t] >= Required
  BY DEF Enough
<1>3. m.valid[v][t] = Cardinality(W)
  BY <1>1 DEF MemoryInv, ValidAreWorked
<1> HIDE DEF t, v, n
<1>4. Cardinality(B) < Required
  BY <1>1 DEF RowsInv, NoneBeyondEnough
<1>5. B \subseteq 1..Trials
  BY DEF ValidBefore
<1>6. ASSUME s \notin Past(m)
      PROVE  W \subseteq B
  <2> SUFFICES ASSUME NEW k, k \in W
               PROVE  k \in B
    OBVIOUS
  <2>1. k \in 1..Trials /\ <<t, v, k>> \in Past(m) /\ ValidIn(R, <<t, v, k>>)
    BY DEF WorkedTrials, Worked
  <2>2. k # n
    BY <1>1, <1>6, <2>1
  <2>3. ~(n < k)
    BY <1>1, <1>6, <2>1, PastIsPrefix DEF MemoryInv
  <2>4. k < n
    BY <1>1, <2>1, <2>2, <2>3, RequiredType
  <2> QED
    BY <2>1, <2>4 DEF ValidBefore
<1> HIDE DEF W, B
<1>7. Cardinality(B) \in Nat
  BY <1>5, TrialsAreFinite
<1>8. s \notin Past(m) => Cardinality(W) <= Cardinality(B) /\ Cardinality(W) \in Nat
  BY <1>5, <1>6, TrialsAreFinite
<1> QED
  BY <1>2, <1>3, <1>4, <1>7, <1>8, RequiredType

(* A slot without a row, of a task and variant that has too few valid       *)
(* trials, was not passed by any run.                                       *)
LEMMA FreshIsAhead ==
    ASSUME NEW R, NEW m, MemoryInv(R, m),
           NEW s, s \in Slots, ~HasRowIn(R, s),
           Cardinality(ValidTrials(R, s[2], s[1])) < Required
    PROVE  s \notin Past(m)
<1> DEFINE V == ValidTrials(R, s[2], s[1])
           W == WorkedTrials(R, m, s[2], s[1])
<1>1. s[1] \in TasksSet /\ s[2] \in VariantSet
  BY SlotParts
<1>2. m.valid[s[2]][s[1]] = Cardinality(W)
  BY <1>1 DEF MemoryInv, ValidAreWorked
<1>3. W \subseteq V /\ V \subseteq 1..Trials
  BY WorkedTrialsAreValid
<1>4. Cardinality(V) < Required
  OBVIOUS
<1> HIDE DEF V, W
<1>5. Cardinality(W) \in Nat /\ Cardinality(W) <= Cardinality(V) /\ Cardinality(V) \in Nat
  BY <1>3, TrialsAreFinite
<1>6. ~Enough(m, s)
  BY <1>2, <1>4, <1>5, RequiredType DEF Enough
<1> QED
  BY <1>6 DEF MemoryInv, PastIsStored

(* Slot i of the plan is the next one for m, and has no row.                *)
IsNext(R, m, i) ==
    /\ i \in Pending(m)
    /\ \A j \in Pending(m) : i <= j
    /\ ~HasRowIn(R, Plan[i])

(* The run that reaches a slot without a row knows every row of its task    *)
(* and variant: they are the trials before it.                              *)
LEMMA NextIsFresh ==
    ASSUME NEW R, RowsInv(R), NEW m, MemoryInv(R, m),
           NEW i, IsNext(R, m, i), NEW t, NEW v, NEW n, Plan[i] = <<t, v, n>>
    PROVE  /\ i \in 1..Length /\ t \in TasksSet /\ v \in VariantSet /\ n \in 1..Trials
           /\ \A k \in 1..Trials : HasRowIn(R, <<t, v, k>>) <=> k < n
           /\ ValidTrials(R, v, t) = ValidBefore(R, v, t, n)
           /\ ValidTrials(R, v, t) = WorkedTrials(R, m, v, t)
           /\ m.valid[v][t] = Cardinality(ValidTrials(R, v, t))
           /\ Cardinality(ValidTrials(R, v, t)) < Required
<1>1. i \in m.at..Length /\ ~Enough(m, Plan[i]) /\ Plan[i] \notin m.seen
  BY DEF IsNext, Pending
<1>2. m \in Memories /\ m.at \in Nat /\ m.at >= 1
  BY MemoryFields DEF MemoryInv
<1>3. i \in 1..Length
  BY <1>1, <1>2, LengthType
<1>4. t \in TasksSet /\ v \in VariantSet /\ n \in 1..Trials
  BY <1>3, PlanType
<1>5. m.valid[v][t] < Required
  <2>1. m.valid[v][t] \in Nat
    BY <1>2, <1>4, MemoryFields
  <2> QED
    BY <1>1, <2>1, RequiredType DEF Enough
<1>6. ASSUME NEW k \in 1..Trials, k < n
      PROVE  <<t, v, k>> \in Past(m) /\ HasRowIn(R, <<t, v, k>>)
  <2>1. PICK j \in 1..Length : j < i /\ Plan[j] = <<t, v, k>>
    BY <1>3, <1>6, PlanBefore
  <2>2. ~Enough(m, Plan[j])
    <3>1. Enough(m, Plan[j]) <=> m.valid[v][t] >= Required
      BY <2>1 DEF Enough
    <3>2. m.valid[v][t] \in Nat
      BY <1>2, <1>4, MemoryFields
    <3> QED
      BY <1>5, <3>1, <3>2, RequiredType
  <2>3. CASE j < m.at
    <3>1. j \in 1..(m.at - 1)
      BY <2>1, <2>3, <1>2
    <3>2. Plan[j] \in Past(m)
      BY <3>1 DEF Past
    <3> QED
      BY <2>1, <2>2, <3>2 DEF MemoryInv, PastIsStored
  <2>4. CASE ~(j < m.at)
    <3>1. j \in m.at..Length
      BY <2>1, <2>4, <1>2, LengthType
    <3>2. j \notin Pending(m)
      BY <2>1, <1>3 DEF IsNext
    <3>3. Plan[j] \in m.seen
      BY <2>2, <3>1, <3>2 DEF Pending
    <3> QED
      BY <1>4, <2>1, <3>3 DEF MemoryInv, SeenInOrder, Past
  <2> QED
    BY <2>3, <2>4
<1>7. ASSUME NEW k \in 1..Trials, ~(k < n)
      PROVE  ~HasRowIn(R, <<t, v, k>>)
  <2>1. ~HasRowIn(R, <<t, v, n>>)
    BY DEF IsNext
  <2>2. k = n \/ n < k
    BY <1>4, <1>7
  <2> QED
    BY <1>4, <2>1, <2>2 DEF RowsInv, RowsInOrder
<1>8. ValidTrials(R, v, t) = ValidBefore(R, v, t, n)
  BY <1>7 DEF ValidTrials, ValidBefore, ValidIn
<1>9. ValidTrials(R, v, t) = WorkedTrials(R, m, v, t)
  BY <1>6, <1>7 DEF ValidTrials, WorkedTrials, Worked, ValidIn
<1>10. m.valid[v][t] = Cardinality(ValidTrials(R, v, t))
  BY <1>4, <1>9 DEF MemoryInv, ValidAreWorked
<1> QED
  BY <1>3, <1>4, <1>5, <1>6, <1>7, <1>8, <1>9, <1>10

-----------------------------------------------------------------------------
(* A new row *)

WithRow(R, s, row) == [R EXCEPT ![s] = row]

LEMMA RowsWithRow ==
    ASSUME NEW R, R \in [Slots -> Rows \cup {None}], NEW s, s \in Slots, ~HasRowIn(R, s),
           NEW row, row \in Rows
    PROVE  /\ WithRow(R, s, row) \in [Slots -> Rows \cup {None}]
           /\ \A p \in Slots : WithRow(R, s, row)[p] = IF p = s THEN row ELSE R[p]
           /\ \A p \in Slots : HasRowIn(WithRow(R, s, row), p) <=> p = s \/ HasRowIn(R, p)
           /\ \A p \in Slots : ValidIn(WithRow(R, s, row), p) <=>
                                   IF p = s THEN row.status # "invalid" ELSE ValidIn(R, p)
<1>1. \A p \in Slots : WithRow(R, s, row)[p] = IF p = s THEN row ELSE R[p]
  BY DEF WithRow
<1>2. row # None
  BY PlanAssumption
<1>3. WithRow(R, s, row) \in [Slots -> Rows \cup {None}]
  BY DEF WithRow
<1> HIDE DEF WithRow
<1>4. \A p \in Slots : HasRowIn(WithRow(R, s, row), p) <=> p = s \/ HasRowIn(R, p)
  BY <1>1, <1>2 DEF HasRowIn
<1>5. \A p \in Slots : ValidIn(WithRow(R, s, row), p) <=>
                           IF p = s THEN row.status # "invalid" ELSE ValidIn(R, p)
  BY <1>1, <1>4 DEF ValidIn
<1> QED
  BY <1>1, <1>3, <1>4, <1>5

(* The valid trials before the n-th of a task and variant do not change     *)
(* with a later row, nor do those of another task or variant.               *)
LEMMA ValidBeforeStays ==
    ASSUME NEW R, R \in [Slots -> Rows \cup {None}], NEW s, s \in Slots, ~HasRowIn(R, s),
           NEW row, row \in Rows,
           NEW t, NEW v, NEW n, t \in TasksSet, v \in VariantSet, n \in 1..Trials,
           \A k \in 1..Trials : k < n => <<t, v, k>> # s
    PROVE  ValidBefore(WithRow(R, s, row), v, t, n) = ValidBefore(R, v, t, n)
<1>1. \A k \in 1..Trials : k < n =>
        (ValidIn(WithRow(R, s, row), <<t, v, k>>) <=> ValidIn(R, <<t, v, k>>))
  BY RowsWithRow, SlotsAreTriples
<1> QED
  BY <1>1 DEF ValidBefore

LEMMA RowsGrow ==
    ASSUME NEW R, RowsInv(R), NEW t, NEW v, NEW n,
           t \in TasksSet, v \in VariantSet, n \in 1..Trials,
           \A k \in 1..Trials : HasRowIn(R, <<t, v, k>>) <=> k < n,
           ValidTrials(R, v, t) = ValidBefore(R, v, t, n),
           Cardinality(ValidTrials(R, v, t)) < Required,
           NEW row, RowFits(row, <<t, v, n>>)
    PROVE  RowsInv(WithRow(R, <<t, v, n>>, row))
<1> DEFINE s == <<t, v, n>>
           G == WithRow(R, s, row)
<1>1. /\ R \in [Slots -> Rows \cup {None}] /\ s \in Slots /\ row \in Rows
      /\ ~HasRowIn(R, s)
  BY SlotsAreTriples, RequiredType DEF RowsInv, RowFits
<1>2. /\ G \in [Slots -> Rows \cup {None}]
      /\ \A p \in Slots : G[p] = IF p = s THEN row ELSE R[p]
      /\ \A p \in Slots : HasRowIn(G, p) <=> p = s \/ HasRowIn(R, p)
  <2> HIDE DEF s
  <2> QED
    BY <1>1, RowsWithRow
<1> HIDE DEF G
<1>3. RowsInOrder(G)
  <2> SUFFICES ASSUME NEW t1 \in TasksSet, NEW v1 \in VariantSet, NEW n1 \in 1..Trials,
                      HasRowIn(G, <<t1, v1, n1>>), NEW k \in 1..Trials, k < n1
               PROVE  HasRowIn(G, <<t1, v1, k>>)
    BY DEF RowsInOrder
  <2>1. <<t1, v1, n1>> \in Slots /\ <<t1, v1, k>> \in Slots
    BY SlotsAreTriples
  <2>2. CASE <<t1, v1, n1>> = s
    <3>1. t1 = t /\ v1 = v /\ n1 = n
      BY <2>2
    <3>2. HasRowIn(R, <<t1, v1, k>>)
      BY <3>1
    <3> QED
      BY <1>2, <2>1, <3>2
  <2>3. CASE <<t1, v1, n1>> # s
    <3>1. HasRowIn(R, <<t1, v1, n1>>)
      BY <1>2, <2>1, <2>3
    <3>2. HasRowIn(R, <<t1, v1, k>>)
      BY <3>1 DEF RowsInv, RowsInOrder
    <3> QED
      BY <1>2, <2>1, <3>2
  <2> QED
    BY <2>2, <2>3
<1>4. NoneBeyondEnough(G)
  <2> SUFFICES ASSUME NEW t1 \in TasksSet, NEW v1 \in VariantSet, NEW n1 \in 1..Trials,
                      HasRowIn(G, <<t1, v1, n1>>)
               PROVE  Cardinality(ValidBefore(G, v1, t1, n1)) < Required
    BY DEF NoneBeyondEnough
  <2>1. <<t1, v1, n1>> \in Slots
    BY SlotsAreTriples
  <2>2. \A k \in 1..Trials : k < n1 => <<t1, v1, k>> # s
    <3> SUFFICES ASSUME NEW k \in 1..Trials, k < n1, <<t1, v1, k>> = s
                 PROVE  FALSE
      OBVIOUS
    <3>1. t1 = t /\ v1 = v /\ k = n
      OBVIOUS
    <3>2. <<t1, v1, n1>> # s
      BY RequiredType
    <3>3. HasRowIn(R, <<t, v, n1>>)
      BY <1>2, <2>1, <3>1, <3>2
    <3>4. n1 < n
      BY <3>3
    <3> QED
      BY <3>1, <3>4, RequiredType
  <2>3. ValidBefore(G, v1, t1, n1) = ValidBefore(R, v1, t1, n1)
    BY <1>1, <2>2, ValidBeforeStays DEF G
  <2>4. CASE <<t1, v1, n1>> = s
    BY <2>3, <2>4
  <2>5. CASE <<t1, v1, n1>> # s
    <3>1. HasRowIn(R, <<t1, v1, n1>>)
      BY <1>2, <2>1, <2>5
    <3> QED
      BY <2>3, <3>1 DEF RowsInv, NoneBeyondEnough
  <2> QED
    BY <2>4, <2>5
<1>5. \A p \in Slots : HasRowIn(G, p) => RowFits(G[p], p)
  BY <1>2 DEF RowsInv
<1> QED
  BY <1>2, <1>3, <1>4, <1>5 DEF RowsInv, G

(* A row turns an unstored trial into a valid one at best.                  *)
LEMMA OutOfReachStays ==
    ASSUME NEW R, R \in [Slots -> Rows \cup {None}], NEW s, s \in Slots, ~HasRowIn(R, s),
           NEW row, row \in Rows, OutOfReach(R)
    PROVE  OutOfReach(WithRow(R, s, row))
<1> DEFINE G == WithRow(R, s, row)
           v == FastVariant
<1>1. PICK t \in TasksSet :
        Cardinality(ValidTrials(R, v, t)) + Cardinality(Unstored(R, v, t)) < Required
  BY DEF OutOfReach
<1>2. v \in VariantSet
  BY DEF OutOfReach
<1>3. /\ \A n \in 1..Trials : HasRowIn(G, <<t, v, n>>) <=>
             <<t, v, n>> = s \/ HasRowIn(R, <<t, v, n>>)
      /\ \A n \in 1..Trials : ValidIn(G, <<t, v, n>>) =>
             <<t, v, n>> = s \/ ValidIn(R, <<t, v, n>>)
  <2>1. \A n \in 1..Trials : <<t, v, n>> \in Slots
    BY <1>2, SlotsAreTriples
  <2> QED
    BY <2>1, RowsWithRow
<1> DEFINE V == ValidTrials(R, v, t)
           U == Unstored(R, v, t)
           V2 == ValidTrials(G, v, t)
           U2 == Unstored(G, v, t)
<1>4. V \subseteq 1..Trials /\ U \subseteq 1..Trials /\ V2 \subseteq 1..Trials /\ U2 \subseteq 1..Trials
  BY DEF ValidTrials, Unstored
<1>5. CASE \E n \in 1..Trials : s = <<t, v, n>>
  <2>1. PICK n \in 1..Trials : s = <<t, v, n>>
    BY <1>5
  <2>2. n \in U
    BY <2>1 DEF Unstored
  <2>3. U2 \subseteq U \ {n}
    BY <1>3, <2>1 DEF Unstored
  <2>4. V2 \subseteq V \cup {n}
    BY <1>3, <2>1 DEF ValidTrials
  <2> HIDE DEF V, U, V2, U2, v
  <2>5. IsFiniteSet(V) /\ IsFiniteSet(U)
    BY <1>4, TrialsAreFinite
  <2>6. Cardinality(U \ {n}) = Cardinality(U) - 1
    BY <2>2, <2>5, FS_RemoveElement
  <2>7. Cardinality(V \cup {n}) = IF n \in V THEN Cardinality(V) ELSE Cardinality(V) + 1
    BY <2>5, FS_AddElement
  <2>8. Cardinality(V2) \in Nat /\ Cardinality(V2) <= Cardinality(V \cup {n})
    BY <1>4, <2>4, TrialsAreFinite
  <2>9. Cardinality(U2) \in Nat /\ Cardinality(U2) <= Cardinality(U \ {n})
    BY <1>4, <2>3, TrialsAreFinite
  <2>10. Cardinality(V) \in Nat /\ Cardinality(U) \in Nat
    BY <1>4, TrialsAreFinite
  <2>11. Cardinality(V2) <= Cardinality(V) + 1
    BY <2>7, <2>8, <2>10
  <2>12. Cardinality(U2) <= Cardinality(U) - 1
    BY <2>6, <2>9
  <2>13. Cardinality(V) + Cardinality(U) < Required
    BY <1>1 DEF V, U, v
  <2>14. Cardinality(V2) + Cardinality(U2) < Required
    BY ONLY <2>8, <2>9, <2>10, <2>11, <2>12, <2>13, RequiredType
  <2> QED
    BY <1>2, <2>14 DEF OutOfReach, V2, U2, G, v
<1>6. CASE ~(\E n \in 1..Trials : s = <<t, v, n>>)
  <2>1. \A n \in 1..Trials : /\ HasRowIn(G, <<t, v, n>>) <=> HasRowIn(R, <<t, v, n>>)
                             /\ ValidIn(G, <<t, v, n>>) => ValidIn(R, <<t, v, n>>)
    BY <1>3, <1>6
  <2>2. U2 = U /\ V2 \subseteq V
    BY <2>1 DEF Unstored, ValidTrials
  <2> HIDE DEF V, U, V2, U2, v
  <2>3. Cardinality(V2) \in Nat /\ Cardinality(V2) <= Cardinality(V)
    BY <1>4, <2>2, TrialsAreFinite
  <2>4. Cardinality(V) \in Nat /\ Cardinality(U) \in Nat
    BY <1>4, TrialsAreFinite
  <2>5. Cardinality(V) + Cardinality(U) < Required
    BY <1>1 DEF V, U, v
  <2>6. Cardinality(V2) + Cardinality(U2) < Required
    BY ONLY <2>2, <2>3, <2>4, <2>5, RequiredType
  <2> QED
    BY <1>2, <2>6 DEF OutOfReach, V2, U2, G, v
<1> QED
  BY <1>5, <1>6

(* The memory of a run that has not passed the slot of a new row is as true *)
(* as before.                                                               *)
LEMMA MemoryKept ==
    ASSUME NEW R, R \in [Slots -> Rows \cup {None}], NEW s, s \in Slots, ~HasRowIn(R, s),
           NEW row, row \in Rows, NEW m, MemoryInv(R, m), s \notin Past(m)
    PROVE  /\ MemoryInv(WithRow(R, s, row), m)
           /\ Worked(WithRow(R, s, row), m) = Worked(R, m)
<1> DEFINE G == WithRow(R, s, row)
<1>1. m \in Memories /\ Past(m) \subseteq Slots /\ m.seen \subseteq Past(m)
  BY PastIsInPlan DEF MemoryInv, Past
<1>2. \A p \in Past(m) : p # s /\ p \in Slots
  BY <1>1
<1>3. \A p \in Past(m) : /\ G[p] = R[p]
                         /\ HasRowIn(G, p) <=> HasRowIn(R, p)
                         /\ ValidIn(G, p) <=> ValidIn(R, p)
  BY <1>2, RowsWithRow
<1>4. OutOfReach(R) => OutOfReach(G)
  BY OutOfReachStays
<1> HIDE DEF G
<1>5. Worked(G, m) = Worked(R, m)
  BY <1>3 DEF Worked
<1>6. \A p \in Worked(R, m) : p \in Past(m) /\ G[p] = R[p]
  BY <1>3 DEF Worked
<1>7. SeenInOrder(G, m)
  BY <1>1, <1>3 DEF MemoryInv, SeenInOrder
<1>8. PastIsStored(G, m)
  BY <1>3 DEF MemoryInv, PastIsStored
<1>9. ValidAreWorked(G, m)
  BY <1>5 DEF MemoryInv, ValidAreWorked, WorkedTrials
<1>10. ResultsAreWorked(G, m)
  BY <1>5, <1>6 DEF MemoryInv, ResultsAreWorked
<1>11. SurvivedIn(G, m) <=> SurvivedIn(R, m)
  BY <1>5, <1>6 DEF SurvivedIn
<1>12. FailedIn(G, m) <=> FailedIn(R, m)
  BY <1>5, <1>6 DEF FailedIn
<1>13. PassedAreWorked(G, m)
  BY <1>5, <1>6, <1>11 DEF MemoryInv, PassedAreWorked
<1>14. StopIsBacked(G, m)
  BY <1>4, <1>11, <1>12 DEF MemoryInv, StopIsBacked
<1> QED
  BY <1>1, <1>5, <1>7, <1>8, <1>9, <1>10, <1>13, <1>14 DEF MemoryInv, G

(* m2 has gone on from m beyond slot i, and lost no valid trial.            *)
HasPassed(m2, m, i) ==
    /\ m2.at = i + 1
    /\ m2.seen = m.seen
    /\ \A v \in VariantSet, t \in TasksSet : m2.valid[v][t] \in Nat /\ m2.valid[v][t] >= m.valid[v][t]

(* The slots a run skips hold no valid trial it does not know of; so what   *)
(* it has worked with grows by the trial of slot i, if that was valid.      *)
LEMMA OneTrialOn ==
    ASSUME NEW R, RowsInv(R), NEW m, MemoryInv(R, m), NEW i, IsNext(R, m, i),
           NEW s, s = Plan[i], NEW row, RowFits(row, s), NEW m2, HasPassed(m2, m, i)
    PROVE  /\ s \in Slots /\ i \in 1..Length /\ s \notin Past(m) /\ ~HasRowIn(R, s)
           /\ RowsInv(WithRow(R, s, row))
           /\ MemoryInv(WithRow(R, s, row), m)
           /\ SeenInOrder(WithRow(R, s, row), m2)
           /\ PastIsStored(WithRow(R, s, row), m2)
           /\ Worked(WithRow(R, s, row), m2) =
                 Worked(R, m) \cup (IF row.status = "invalid" THEN {} ELSE {s})
           /\ \A p \in Worked(R, m) : p \in Slots /\ p # s /\ WithRow(R, s, row)[p] = R[p]
           /\ WithRow(R, s, row)[s] = row
<1> DEFINE G == WithRow(R, s, row)
<1>1. i \in 1..Length
  BY RequiredType, LengthType, MemoryFields DEF IsNext, Pending, MemoryInv
<1>2. PICK t \in TasksSet, v \in VariantSet, n \in 1..Trials : s = <<t, v, n>>
  BY <1>1, PlanType
<1>3. /\ \A k \in 1..Trials : HasRowIn(R, <<t, v, k>>) <=> k < n
      /\ ValidTrials(R, v, t) = ValidBefore(R, v, t, n)
      /\ Cardinality(ValidTrials(R, v, t)) < Required
  <2>1. Plan[i] = <<t, v, n>>
    BY <1>2
  <2> QED
    BY <2>1, NextIsFresh
<1>4. s \in Slots /\ row \in Rows /\ R \in [Slots -> Rows \cup {None}] /\ ~HasRowIn(R, s)
  BY <1>1, PlanType DEF RowFits, RowsInv, IsNext
<1>5. s[1] = t /\ s[2] = v
  BY <1>2
<1>6. s \notin Past(m)
  BY <1>3, <1>4, <1>5, FreshIsAhead
<1>7. RowsInv(G)
  BY <1>2, <1>3, RowsGrow
<1>8. MemoryInv(G, m) /\ Worked(G, m) = Worked(R, m)
  BY <1>4, <1>6, MemoryKept
<1>9. /\ \A p \in Slots : G[p] = IF p = s THEN row ELSE R[p]
      /\ \A p \in Slots : HasRowIn(G, p) <=> p = s \/ HasRowIn(R, p)
      /\ \A p \in Slots : ValidIn(G, p) <=> IF p = s THEN row.status # "invalid" ELSE ValidIn(R, p)
  BY <1>4, RowsWithRow
<1> HIDE DEF G
<1>10. m.at \in Nat /\ m.at >= 1 /\ m.at <= i /\ m \in Memories
  BY <1>1, MemoryFields, LengthType DEF IsNext, Pending, MemoryInv
<1>11. ASSUME NEW p, Enough(m, p), p \in Slots
       PROVE  Enough(m2, p)
  <2>1. p[2] \in VariantSet /\ p[1] \in TasksSet
    BY <1>11, SlotParts
  <2>2. m.valid[p[2]][p[1]] \in Nat
    BY <1>10, <2>1, MemoryFields
  <2>3. m2.valid[p[2]][p[1]] \in Nat /\ m2.valid[p[2]][p[1]] >= m.valid[p[2]][p[1]]
    BY <2>1 DEF HasPassed
  <2> QED
    BY <1>11, <2>2, <2>3, RequiredType DEF Enough
<1>12. ASSUME NEW j \in m.at..(i - 1)
       PROVE  /\ Plan[j] \in Slots
              /\ Plan[j] \in m.seen \/ Enough(m, Plan[j])
              /\ ValidIn(G, Plan[j]) => Plan[j] \in Past(m)
  <2>1. j \in 1..Length /\ j \in m.at..Length /\ ~(i <= j)
    BY <1>1, <1>10, LengthType
  <2>2. Plan[j] \in m.seen \/ Enough(m, Plan[j])
    BY <2>1 DEF IsNext, Pending
  <2>3. Plan[j] \in Slots
    BY <2>1, PlanType
  <2>4. Enough(m, Plan[j]) /\ ValidIn(G, Plan[j]) => Plan[j] \in Past(m)
    BY <1>7, <1>8, <2>3, EnoughKnowsAll DEF ValidIn
  <2> QED
    BY <2>2, <2>3, <2>4 DEF Past
<1>13. Past(m2) = Past(m) \cup {Plan[j] : j \in m.at..(i - 1)} \cup {s}
  <2>1. 1..(m2.at - 1) = 1..i
    BY <1>1, LengthType DEF HasPassed
  <2>2. 1..i = (1..(m.at - 1)) \cup (m.at..(i - 1)) \cup {i}
    BY <1>1, <1>10, LengthType
  <2>3. m2.seen = m.seen
    BY DEF HasPassed
  <2> QED
    BY <2>1, <2>2, <2>3 DEF Past
<1>14. SeenInOrder(G, m2)
  BY <1>8 DEF MemoryInv, SeenInOrder, HasPassed
<1>15. PastIsStored(G, m2)
  <2>1. Past(m) \subseteq Slots
    BY <1>10, PastIsInPlan
  <2>2. \A p \in Past(m) : HasRowIn(G, p) \/ Enough(m2, p)
    BY <1>8, <1>11, <2>1 DEF MemoryInv, PastIsStored
  <2>3. \A j \in m.at..(i - 1) : HasRowIn(G, Plan[j]) \/ Enough(m2, Plan[j])
    BY <1>11, <1>12, <2>2 DEF Past
  <2>4. HasRowIn(G, s)
    BY <1>4, <1>9
  <2> QED
    BY <1>13, <2>2, <2>3, <2>4 DEF PastIsStored
<1>16. Worked(G, m2) = Worked(R, m) \cup (IF row.status = "invalid" THEN {} ELSE {s})
  <2>1. ValidIn(G, s) <=> row.status # "invalid"
    BY <1>4, <1>9
  <2>2. \A j \in m.at..(i - 1) : ValidIn(G, Plan[j]) => Plan[j] \in Worked(G, m)
    BY <1>12 DEF Worked
  <2> QED
    BY <1>8, <1>13, <2>1, <2>2 DEF Worked
<1>17. \A p \in Worked(R, m) : p \in Slots /\ p # s /\ G[p] = R[p]
  BY <1>6, <1>9, <1>10, PastIsInPlan DEF Worked
<1> QED
  BY <1>1, <1>4, <1>6, <1>7, <1>8, <1>9, <1>14, <1>15, <1>16, <1>17 DEF G

(* After a trial that was invalid, and that may have ended the run.         *)
LEMMA AfterInvalid ==
    ASSUME NEW R, RowsInv(R), NEW m, MemoryInv(R, m), NEW i, IsNext(R, m, i),
           NEW s, s = Plan[i], NEW row, RowFits(row, s), row.status = "invalid",
           NEW m2, m2 \in Memories, m2.at = i + 1, m2.seen = m.seen, m2.valid = m.valid,
           m2.passed = m.passed, m2.results = m.results,
           m2.stop = "none" \/ (m2.stop = "insufficient" /\ Impossible(m, s))
    PROVE  MemoryInv(WithRow(R, s, row), m2)
<1> DEFINE G == WithRow(R, s, row)
<1>1. m \in Memories
  BY DEF MemoryInv
<1>2. HasPassed(m2, m, i)
  <2>1. \A v \in VariantSet, t \in TasksSet : m.valid[v][t] \in Nat
    BY <1>1, MemoryFields
  <2> QED
    BY <2>1 DEF HasPassed
<1>3. /\ i \in 1..Length /\ s \in Slots /\ ~HasRowIn(R, s)
      /\ SeenInOrder(G, m2) /\ PastIsStored(G, m2)
      /\ Worked(G, m2) = Worked(R, m)
      /\ \A p \in Worked(R, m) : G[p] = R[p]
  BY <1>2, OneTrialOn
<1>4. m2.stop = "insufficient" => OutOfReach(G)
  <2> SUFFICES ASSUME Impossible(m, s)
               PROVE  OutOfReach(G)
    OBVIOUS
  <2>1. PICK t \in TasksSet, v \in VariantSet, n \in 1..Trials : s = <<t, v, n>>
    BY <1>3, SlotParts
  <2>2. v = FastVariant /\ m.valid[v][t] + (Trials - n) < Required
    BY <2>1 DEF Impossible
  <2>3. /\ \A k \in 1..Trials : HasRowIn(R, <<t, v, k>>) <=> k < n
        /\ m.valid[v][t] = Cardinality(ValidTrials(R, v, t))
    <3>1. Plan[i] = <<t, v, n>>
      BY <2>1
    <3> QED
      BY <3>1, NextIsFresh
  <2>4. row \in Rows /\ R \in [Slots -> Rows \cup {None}]
    BY DEF RowFits, RowsInv
  <2>5. \A k \in 1..Trials : <<t, v, k>> \in Slots
    BY SlotsAreTriples
  <2>6. ValidTrials(G, v, t) = ValidTrials(R, v, t)
    <3>1. \A p \in Slots : ValidIn(G, p) <=> IF p = s THEN row.status # "invalid" ELSE ValidIn(R, p)
      BY <1>3, <2>4, RowsWithRow
    <3> HIDE DEF G
    <3>2. ~ValidIn(G, s) /\ ~ValidIn(R, s)
      BY <1>3, <3>1 DEF ValidIn
    <3> QED
      BY <2>5, <3>1, <3>2 DEF ValidTrials
  <2>7. Unstored(G, v, t) = (n + 1)..Trials
    <3>1. \A p \in Slots : HasRowIn(G, p) <=> p = s \/ HasRowIn(R, p)
      BY <1>3, <2>4, RowsWithRow
    <3> HIDE DEF G
    <3>2. \A k \in 1..Trials : HasRowIn(G, <<t, v, k>>) <=> k = n \/ k < n
      BY <2>1, <2>3, <2>5, <3>1
    <3>3. Unstored(G, v, t) = {k \in 1..Trials : ~(k = n \/ k < n)}
      BY <3>2 DEF Unstored
    <3> QED
      BY <3>3, RequiredType
  <2>8. Cardinality((n + 1)..Trials) = Trials - n
    <3>1. n + 1 \in Int /\ Trials \in Int /\ n \in Int /\ n <= Trials
      BY RequiredType
    <3>2. Cardinality((n + 1)..Trials) = IF n + 1 > Trials THEN 0 ELSE Trials - (n + 1) + 1
      BY <3>1, FS_Interval
    <3> QED
      BY <3>1, <3>2
  <2> QED
    BY <2>2, <2>3, <2>6, <2>7, <2>8 DEF OutOfReach
<1> HIDE DEF G
<1>5. ValidAreWorked(G, m2)
  BY <1>3 DEF MemoryInv, ValidAreWorked, WorkedTrials
<1>6. ResultsAreWorked(G, m2)
  BY <1>3 DEF MemoryInv, ResultsAreWorked
<1>7. SurvivedIn(G, m2) <=> SurvivedIn(R, m)
  BY <1>3 DEF SurvivedIn
<1>8. PassedAreWorked(G, m2)
  BY <1>3, <1>7 DEF MemoryInv, PassedAreWorked
<1>9. StopIsBacked(G, m2)
  BY <1>4 DEF StopIsBacked
<1> QED
  BY <1>3, <1>5, <1>6, <1>8, <1>9 DEF MemoryInv, G

LEMMA CountedOnce ==
    ASSUME NEW R, NEW G, NEW m, NEW m2, NEW t, NEW v, NEW n, n \in 1..Trials,
           Worked(G, m2) = Worked(R, m) \cup {<<t, v, n>>}, <<t, v, n>> \notin Worked(R, m)
    PROVE  /\ \A t1, v1 : <<t1, v1>> # <<t, v>> => WorkedTrials(G, m2, v1, t1) = WorkedTrials(R, m, v1, t1)
           /\ Cardinality(WorkedTrials(G, m2, v, t)) = Cardinality(WorkedTrials(R, m, v, t)) + 1
<1> DEFINE W == WorkedTrials(R, m, v, t)
<1>1. \A t1, v1 : <<t1, v1>> # <<t, v>> => WorkedTrials(G, m2, v1, t1) = WorkedTrials(R, m, v1, t1)
  BY DEF WorkedTrials
<1>2. WorkedTrials(G, m2, v, t) = W \cup {n} /\ n \notin W /\ W \subseteq 1..Trials
  BY DEF WorkedTrials
<1> HIDE DEF W
<1>3. IsFiniteSet(W)
  BY <1>2, TrialsAreFinite
<1>4. Cardinality(W \cup {n}) = Cardinality(W) + 1
  BY <1>2, <1>3, FS_AddElement
<1> QED
  BY <1>1, <1>2, <1>4 DEF W

(* m2 is what m becomes with a valid trial of slot s, that had results E.   *)
HasCounted(m2, m, s, E) ==
    /\ \A v \in VariantSet, t \in TasksSet :
           m2.valid[v][t] = m.valid[v][t] + (IF v = s[2] /\ t = s[1] THEN 1 ELSE 0)
    /\ m2.passed = IF TrialVerdict(E) = "pass" THEN m.passed \cup ({s[2]} \cap Mutants) ELSE m.passed
    /\ m2.results = IF s[2] = Judged THEN m.results \cup E ELSE m.results
    /\ m2.stop = StopAfter(s[2], E)

Records(row, s, E) ==
    /\ row.status = TrialStatus(TRUE, s[2], TrialVerdict(E) = "pass")
    /\ row.results = Stored(s[2], E)

(* After a trial that was valid, with results E.                            *)
LEMMA AfterValid ==
    ASSUME NEW R, RowsInv(R), NEW m, MemoryInv(R, m), NEW i, IsNext(R, m, i),
           NEW s, s = Plan[i], NEW E, E \in Outcomes, NEW row, RowFits(row, s), Records(row, s, E),
           NEW m2, m2 \in Memories, m2.at = i + 1, m2.seen = m.seen, HasCounted(m2, m, s, E)
    PROVE  MemoryInv(WithRow(R, s, row), m2)
<1> DEFINE G == WithRow(R, s, row)
<1>1. m \in Memories
  BY DEF MemoryInv
<1>2. HasPassed(m2, m, i)
  <2>1. \A v \in VariantSet, t \in TasksSet : m.valid[v][t] \in Nat
    BY <1>1, MemoryFields
  <2> QED
    BY <2>1 DEF HasPassed, HasCounted
<1>3. row.status # "invalid" /\ (row.status = "mutation_survived" <=> s[2] \in Mutants /\ TrialVerdict(E) = "pass")
  BY DEF TrialStatus, Records
<1>4. /\ s \in Slots /\ s \notin Past(m)
      /\ SeenInOrder(G, m2) /\ PastIsStored(G, m2)
      /\ Worked(G, m2) = Worked(R, m) \cup {s}
      /\ \A p \in Worked(R, m) : G[p] = R[p]
      /\ G[s] = row
  BY ONLY RowsInv(R), MemoryInv(R, m), IsNext(R, m, i), s = Plan[i], RowFits(row, s),
          <1>2, <1>3, OneTrialOn
<1> HIDE DEF G
<1>5. PICK t \in TasksSet, v \in VariantSet, n \in 1..Trials : s = <<t, v, n>>
  BY <1>4, SlotParts
<1>6. s[1] = t /\ s[2] = v
  BY <1>5
<1>7. ValidAreWorked(G, m2)
  <2>1. s \notin Worked(R, m)
    BY <1>4 DEF Worked
  <2>2. /\ \A t1, v1 : <<t1, v1>> # <<t, v>> => WorkedTrials(G, m2, v1, t1) = WorkedTrials(R, m, v1, t1)
        /\ Cardinality(WorkedTrials(G, m2, v, t)) = Cardinality(WorkedTrials(R, m, v, t)) + 1
    <3>1. Worked(G, m2) = Worked(R, m) \cup {<<t, v, n>>} /\ <<t, v, n>> \notin Worked(R, m)
      BY <1>4, <1>5, <2>1
    <3> QED
      BY <3>1, CountedOnce
  <2>3. \A v1 \in VariantSet, t1 \in TasksSet : m.valid[v1][t1] = Cardinality(WorkedTrials(R, m, v1, t1))
    BY DEF MemoryInv, ValidAreWorked
  <2> SUFFICES ASSUME NEW v1 \in VariantSet, NEW t1 \in TasksSet
               PROVE  m2.valid[v1][t1] = Cardinality(WorkedTrials(G, m2, v1, t1))
    BY DEF ValidAreWorked
  <2>4. m.valid[v1][t1] \in Nat
    BY <1>1, MemoryFields
  <2>5. CASE v1 = v /\ t1 = t
    <3>1. m2.valid[v1][t1] = m.valid[v1][t1] + 1
      BY <1>6, <2>5 DEF HasCounted
    <3> QED
      BY <2>2, <2>3, <2>5, <3>1
  <2>6. CASE ~(v1 = v /\ t1 = t)
    <3>1. m2.valid[v1][t1] = m.valid[v1][t1] + 0
      BY <1>6, <2>6 DEF HasCounted
    <3>2. WorkedTrials(G, m2, v1, t1) = WorkedTrials(R, m, v1, t1)
      BY <2>2, <2>6
    <3> QED
      BY <2>3, <2>4, <3>1, <3>2
  <2> QED
    BY <2>5, <2>6
<1>8. ResultsAreWorked(G, m2)
  <2>1. \A x : x \in m.results <=> \E p \in Worked(R, m) : p[2] = Judged /\ x \in R[p].results
    BY DEF MemoryInv, ResultsAreWorked
  <2>2. G[s].results = IF v = Judged THEN E ELSE {}
    BY <1>4, <1>6 DEF Stored, Records
  <2>3. ASSUME NEW x
        PROVE  x \in m2.results <=> x \in m.results \/ (v = Judged /\ x \in E)
    BY <1>6 DEF HasCounted
  <2>4. ASSUME NEW x
        PROVE  (\E p \in Worked(G, m2) : p[2] = Judged /\ x \in G[p].results)
                 <=> x \in m.results \/ (v = Judged /\ x \in E)
    BY <1>4, <1>6, <2>1, <2>2
  <2> QED
    BY <2>3, <2>4 DEF ResultsAreWorked
<1>9. SurvivedIn(R, m) => SurvivedIn(G, m2)
  BY <1>4 DEF SurvivedIn
<1>10. row.status = "mutation_survived" => SurvivedIn(G, m2)
  BY <1>4 DEF SurvivedIn
<1>11. PassedAreWorked(G, m2)
  <2>1. \A p \in Worked(R, m) : R[p].status = "mutation_survived" => p \in m.seen \/ p[2] \in m.passed
    BY DEF MemoryInv, PassedAreWorked
  <2>2. m.passed # {} => SurvivedIn(R, m) \/ \E p \in m.seen : p[2] \in Mutants
    BY DEF MemoryInv, PassedAreWorked
  <2>3. m.passed \subseteq m2.passed
    BY DEF HasCounted
  <2>4. row.status = "mutation_survived" => v \in m2.passed
    BY <1>3, <1>6 DEF HasCounted
  <2>5. m2.passed # {} => m.passed # {} \/ row.status = "mutation_survived"
    BY <1>3 DEF HasCounted
  <2>6. \A p \in Worked(G, m2) :
          G[p].status = "mutation_survived" => p \in m2.seen \/ p[2] \in m2.passed
    BY <1>4, <1>6, <2>1, <2>3, <2>4
  <2>7. m2.passed # {} => SurvivedIn(G, m2) \/ \E p \in m2.seen : p[2] \in Mutants
    BY <1>9, <1>10, <2>2, <2>5
  <2> QED
    BY <2>6, <2>7 DEF PassedAreWorked
<1>12. StopIsBacked(G, m2)
  <2>1. m2.stop # "insufficient"
    BY DEF StopAfter, HasCounted
  <2>2. m2.stop = "mutation_survived" => row.status = "mutation_survived"
    BY <1>3 DEF StopAfter, HasCounted
  <2>3. m2.stop = "candidate_failure" => v = FastVariant /\ TrialVerdict(E) = "fail"
    BY <1>6 DEF StopAfter, HasCounted
  <2>4. v = FastVariant => v = Judged
    BY VariantsAssumption DEF FastVariant, Judged
  <2>5. v = Judged => row.results = E
    BY <1>6 DEF Stored, Records
  <2>6. m2.stop = "candidate_failure" => FailedIn(G, m2)
    BY <1>4, <1>6, <2>3, <2>4, <2>5 DEF FailedIn
  <2> QED
    BY <1>10, <2>1, <2>2, <2>6 DEF StopIsBacked
<1> QED
  BY <1>4, <1>7, <1>8, <1>11, <1>12 DEF MemoryInv, G

-----------------------------------------------------------------------------
(* The start of a run, and its end *)

LEMMA StoredRows ==
    /\ \A s : HasRow(s) <=> HasRowIn(rows, s)
    /\ \A s : Valid(s) <=> ValidIn(rows, s)
    /\ \A v, t : ValidOf(v, t) = Cardinality(ValidTrials(rows, v, t))
<1>1. \A s : HasRow(s) <=> HasRowIn(rows, s)
  BY DEF HasRow, HasRowIn
<1>2. \A s : Valid(s) <=> ValidIn(rows, s)
  BY <1>1 DEF Valid, ValidIn
<1> QED
  BY <1>1, <1>2 DEF ValidOf, ValidTrials

LEMMA NothingCountedInv ==
    ASSUME NEW R
    PROVE  NothingCounted \in Memories /\ MemoryInv(R, NothingCounted)
<1> DEFINE m == NothingCounted
<1>1. /\ m.at = 1 /\ m.seen = {} /\ m.passed = {} /\ m.results = {} /\ m.stop = "none"
      /\ m.valid = [v \in VariantSet |-> [t \in Range(Tasks) |-> 0]]
  BY DEF NothingCounted
<1>2. m \in Memories
  BY LengthType DEF NothingCounted, Memories, TasksSet, Stops
<1> HIDE DEF m
<1>3. Past(m) = {}
  <2>1. 1..(m.at - 1) = {}
    BY <1>1
  <2> QED
    BY <1>1, <2>1 DEF Past
<1>4. Worked(R, m) = {}
  BY <1>3 DEF Worked
<1>5. \A v, t : WorkedTrials(R, m, v, t) = {}
  BY <1>4 DEF WorkedTrials
<1>6. ValidAreWorked(R, m)
  BY <1>1, <1>5, FS_EmptySet DEF ValidAreWorked, TasksSet
<1>7. SeenInOrder(R, m) /\ PastIsStored(R, m) /\ ResultsAreWorked(R, m)
  BY <1>1, <1>3, <1>4 DEF SeenInOrder, PastIsStored, ResultsAreWorked
<1>8. PassedAreWorked(R, m) /\ StopIsBacked(R, m)
  BY <1>1, <1>4 DEF PassedAreWorked, StopIsBacked
<1> QED
  BY <1>2, <1>6, <1>7, <1>8 DEF MemoryInv, m

(* A run that is started again knows every valid trial that was stored.     *)
LEMMA ReloadInv ==
    ASSUME RowsInv(rows)
    PROVE  Reload \in Memories /\ MemoryInv(rows, Reload)
<1> DEFINE m == Reload
           seen == {s \in Slots : HasRow(s)}
           valid == [v \in VariantSet |-> [t \in Range(Tasks) |-> ValidOf(v, t)]]
           passed == {s[2] : s \in {x \in Slots : HasRow(x) /\ rows[x].status = "mutation_killed"}}
           results == UNION {rows[s].results : s \in {x \in Slots : Valid(x) /\ x[2] = Judged}}
<1>1. Reload = [ at |-> 1, seen |-> seen, valid |-> valid, passed |-> passed,
                 results |-> results, stop |-> "none" ]
  <2>1. Reload = [NothingCounted EXCEPT !.seen = seen, !.valid = valid, !.passed = passed, !.results = results]
    BY Zenon DEF Reload
  <2> HIDE DEF seen, valid, passed, results
  <2> QED
    BY <2>1 DEF NothingCounted
<1>2. \A s \in Slots : HasRow(s) =>
         /\ rows[s].results \subseteq UNION Outcomes
         /\ rows[s].status = "mutation_killed" => s[2] \in Mutants
  BY StoredRows DEF RowsInv, RowFits, Rows
<1>3. passed \subseteq Mutants
  BY <1>2
<1>4. results \subseteq UNION Outcomes
  BY <1>2 DEF Valid
<1>5. valid \in [VariantSet -> [TasksSet -> Nat]]
  <2>1. \A v \in VariantSet, t \in Range(Tasks) : ValidOf(v, t) \in Nat
    BY StoredRows, WorkedTrialsAreValid, TrialsAreFinite
  <2> QED
    BY <2>1 DEF TasksSet
<1>6. seen \subseteq Slots
  OBVIOUS
<1>7. \A v \in VariantSet, t \in TasksSet : valid[v][t] = Cardinality(ValidTrials(rows, v, t))
  BY StoredRows DEF TasksSet
<1>8. \A s : s \in seen <=> s \in Slots /\ HasRowIn(rows, s)
  BY StoredRows
<1>9. \A x : x \in results <=> \E s \in Slots : ValidIn(rows, s) /\ s[2] = Judged /\ x \in rows[s].results
  BY StoredRows
<1>10. passed # {} => \E s \in seen : s[2] \in Mutants
  BY <1>2
<1> HIDE DEF seen, valid, passed, results
<1>11. m \in Memories
  BY <1>1, <1>3, <1>4, <1>5, <1>6, LengthType DEF Memories, Stops
<1>12. /\ m.at = 1 /\ m.seen = seen /\ m.valid = valid /\ m.passed = passed
       /\ m.results = results /\ m.stop = "none"
  BY <1>1
<1> HIDE DEF m
<1>13. Past(m) = seen
  <2>1. 1..(m.at - 1) = {}
    BY <1>12
  <2> QED
    BY <1>12, <2>1 DEF Past
<1>14. \A s : s \in Worked(rows, m) <=> s \in Slots /\ ValidIn(rows, s)
  BY <1>8, <1>13 DEF Worked, ValidIn
<1>15. \A v \in VariantSet, t \in TasksSet : WorkedTrials(rows, m, v, t) = ValidTrials(rows, v, t)
  BY <1>14, SlotsAreTriples DEF WorkedTrials, ValidTrials
<1>16. ValidAreWorked(rows, m)
  BY <1>7, <1>12, <1>15 DEF ValidAreWorked
<1>17. ResultsAreWorked(rows, m)
  BY <1>9, <1>12, <1>14 DEF ResultsAreWorked
<1>18. PassedAreWorked(rows, m)
  BY <1>8, <1>10, <1>12, <1>14 DEF PassedAreWorked, ValidIn
<1>19. StopIsBacked(rows, m)
  BY <1>12 DEF StopIsBacked
<1>20. PastIsStored(rows, m)
  BY <1>8, <1>13 DEF PastIsStored
<1>21. SeenInOrder(rows, m)
  <2>1. \A t \in TasksSet, v \in VariantSet, n \in 1..Trials :
           <<t, v, n>> \in m.seen <=> HasRowIn(rows, <<t, v, n>>)
    BY <1>8, <1>12, SlotsAreTriples
  <2> QED
    BY <2>1 DEF SeenInOrder, RowsInv, RowsInOrder
<1> QED
  BY <1>11, <1>16, <1>17, <1>18, <1>19, <1>20, <1>21 DEF MemoryInv, m

LEMMA ReachesNext ==
    ASSUME NEW r, NEW i, mem[r] \in Memories, Reaches(r, i), ~HasRow(Plan[i])
    PROVE  IsNext(rows, mem[r], i) /\ pc[r] = "trial" /\ mem[r].stop = "none"
<1>1. Pending(mem[r]) \subseteq Nat
  BY MemoryFields, LengthType DEF Pending
<1>2. i \in Pending(mem[r]) /\ \A j \in Pending(mem[r]) : i <= j
  BY <1>1, MinOfNat DEF Reaches
<1> QED
  BY <1>2, StoredRows DEF IsNext, Reaches

-----------------------------------------------------------------------------
(* The steps *)

LEMMA TrialsInit == Init => TrialsInv
<1> SUFFICES ASSUME Init
             PROVE  TrialsInv
  OBVIOUS
<1>1. rows = [s \in Slots |-> None]
  BY DEF Init
<1>2. \A s \in Slots : ~HasRowIn(rows, s)
  BY <1>1 DEF HasRowIn
<1>3. RowsInv(rows)
  <2>1. rows \in [Slots -> Rows \cup {None}]
    BY <1>1
  <2>2. \A t \in TasksSet, v \in VariantSet, n \in 1..Trials : ~HasRowIn(rows, <<t, v, n>>)
    BY <1>2, SlotsAreTriples
  <2> QED
    BY <1>2, <2>1, <2>2 DEF RowsInv, RowsInOrder, NoneBeyondEnough
<1>4. mem = [r \in Runs |-> NothingCounted]
  BY DEF Init
<1>5. \A r \in Runs : mem[r] \in Memories /\ MemoryInv(rows, mem[r])
  BY <1>4, NothingCountedInv
<1>6. mem \in [Runs -> Memories]
  BY <1>4, NothingCountedInv
<1>7. pc \in [Runs -> {"idle", "trial", "done"}] /\ \A r \in Runs : pc[r] # "done"
  BY DEF Init
<1>8. VerdictsInv
  BY <1>7 DEF Init, VerdictsInv
<1>9. status \in Lifecycle!Statuses
  BY DEF Init, Lifecycle!Statuses
<1>10. crashes \in 0..MaxCrashes
  BY PlanAssumption DEF Init
<1> QED
  BY <1>3, <1>5, <1>6, <1>7, <1>8, <1>9, <1>10 DEF TrialsInv

(* A run that starts or dies leaves the rows, and the memory of the others. *)
LEMMA MemoryReplaced ==
    ASSUME TrialsInv, NEW r \in Runs, NEW m, m \in Memories, MemoryInv(rows, m),
           mem' = [mem EXCEPT ![r] = m], NEW to, to \in {"idle", "trial"},
           pc' = [pc EXCEPT ![r] = to], UNCHANGED <<rows, verdict>>,
           status' \in Lifecycle!Statuses, crashes' \in 0..MaxCrashes
    PROVE  TrialsInv'
<1>1. mem \in [Runs -> Memories] /\ pc \in [Runs -> {"idle", "trial", "done"}]
  BY DEF TrialsInv
<1>2. /\ mem' \in [Runs -> Memories]
      /\ \A q \in Runs : mem'[q] = IF q = r THEN m ELSE mem[q]
  BY <1>1
<1>3. /\ pc' \in [Runs -> {"idle", "trial", "done"}]
      /\ \A q \in Runs : pc'[q] = IF q = r THEN to ELSE pc[q]
  BY <1>1
<1>4. RowsInv(rows')
  BY DEF TrialsInv
<1>5. \A q \in Runs : MemoryInv(rows', mem'[q])
  BY <1>2 DEF TrialsInv
<1>6. VerdictsInv'
  <2>1. \A q \in Runs : pc'[q] = "done" => pc[q] = "done" /\ mem'[q] = mem[q]
    BY <1>2, <1>3
  <2> QED
    BY <2>1 DEF TrialsInv, VerdictsInv
<1> QED
  BY <1>2, <1>3, <1>4, <1>5, <1>6 DEF TrialsInv

(* A trial leaves a row, and its outcome in the memory of its run.          *)
LEMMA TrialMade ==
    ASSUME TrialsInv, NEW r \in Runs, NEW i, IsNext(rows, mem[r], i), pc[r] = "trial",
           NEW row, RowFits(row, Plan[i]), rows' = WithRow(rows, Plan[i], row),
           NEW m, m \in Memories, MemoryInv(WithRow(rows, Plan[i], row), m),
           mem' = [mem EXCEPT ![r] = m], UNCHANGED <<status, pc, verdict, crashes>>
    PROVE  TrialsInv'
<1> DEFINE s == Plan[i]
<1>1. mem \in [Runs -> Memories] /\ RowsInv(rows) /\ MemoryInv(rows, mem[r])
  BY DEF TrialsInv
<1>2. i \in 1..Length
  BY <1>1, RequiredType, LengthType, MemoryFields DEF IsNext, Pending
<1>3. PICK t \in TasksSet, v \in VariantSet, n \in 1..Trials : Plan[i] = <<t, v, n>>
  BY <1>2, PlanType
<1>4. /\ \A k \in 1..Trials : HasRowIn(rows, <<t, v, k>>) <=> k < n
      /\ ValidTrials(rows, v, t) = ValidBefore(rows, v, t, n)
      /\ Cardinality(ValidTrials(rows, v, t)) < Required
  BY <1>1, <1>3, NextIsFresh
<1>5. RowsInv(rows')
  BY <1>1, <1>3, <1>4, RowsGrow
<1>6. /\ s \in Slots /\ row \in Rows /\ rows \in [Slots -> Rows \cup {None}] /\ ~HasRowIn(rows, s)
      /\ s[1] = t /\ s[2] = v
  BY <1>1, <1>2, <1>3, PlanType DEF RowFits, RowsInv, IsNext
<1>7. ASSUME NEW q \in Runs
      PROVE  MemoryInv(WithRow(rows, s, row), mem[q])
  <2> HIDE DEF s
  <2>1. MemoryInv(rows, mem[q])
    BY DEF TrialsInv
  <2>2. s \notin Past(mem[q])
    BY <1>4, <1>6, <2>1, FreshIsAhead
  <2> QED
    BY <1>6, <2>1, <2>2, MemoryKept
<1>8. /\ mem' \in [Runs -> Memories]
      /\ \A q \in Runs : mem'[q] = IF q = r THEN m ELSE mem[q]
  BY <1>1
<1>9. \A q \in Runs : MemoryInv(rows', mem'[q])
  BY <1>7, <1>8
<1>10. VerdictsInv'
  <2>1. \A q \in Runs : pc'[q] = "done" => pc[q] = "done" /\ mem'[q] = mem[q]
    BY <1>8
  <2> QED
    BY <2>1 DEF TrialsInv, VerdictsInv
<1> QED
  BY <1>5, <1>8, <1>9, <1>10 DEF TrialsInv

LEMMA StartStep ==
    ASSUME TrialsInv, NEW r \in Runs, Start(r)
    PROVE  TrialsInv'
<1>1. Reload \in Memories /\ MemoryInv(rows, Reload)
  BY ReloadInv DEF TrialsInv
<1> DEFINE m == Reload
<1>2. /\ mem' = [mem EXCEPT ![r] = m] /\ pc' = [pc EXCEPT ![r] = "trial"]
      /\ UNCHANGED <<rows, verdict>> /\ status' \in Lifecycle!Statuses /\ crashes' \in 0..MaxCrashes
  BY DEF Start, TrialsInv
<1>3. m \in Memories /\ MemoryInv(rows, m)
  BY <1>1
<1> HIDE DEF m
<1> QED
  BY <1>2, <1>3, MemoryReplaced

LEMMA DiesStep ==
    ASSUME TrialsInv, NEW r \in Runs, Dies(r), UNCHANGED <<rows, status, verdict>>,
           crashes' \in 0..MaxCrashes
    PROVE  TrialsInv'
<1> DEFINE m == NothingCounted
<1>1. m \in Memories /\ MemoryInv(rows, m)
  BY NothingCountedInv
<1>2. /\ mem' = [mem EXCEPT ![r] = m] /\ pc' = [pc EXCEPT ![r] = "idle"]
      /\ UNCHANGED <<rows, verdict>> /\ status' \in Lifecycle!Statuses
  BY DEF Dies, TrialsInv
<1> HIDE DEF m
<1> QED
  BY <1>1, <1>2, MemoryReplaced

LEMMA InvalidTrialStep ==
    ASSUME TrialsInv, NEW r \in Runs, InvalidTrial(r)
    PROVE  TrialsInv'
<1>1. PICK i \in 1..Length :
        /\ Reaches(r, i) /\ ~HasRow(Plan[i])
        /\ rows' = [rows EXCEPT ![Plan[i]] = [status |-> "invalid", results |-> {}]]
        /\ mem' = [mem EXCEPT ![r].at = i + 1,
                              ![r].stop = IF Impossible(mem[r], Plan[i]) THEN "insufficient" ELSE "none"]
  BY DEF InvalidTrial
<1> DEFINE s == Plan[i]
           row == [status |-> "invalid", results |-> {}]
           stop == IF Impossible(mem[r], s) THEN "insufficient" ELSE "none"
           m2 == [mem[r] EXCEPT !.at = i + 1, !.stop = stop]
<1>2. mem \in [Runs -> Memories] /\ mem[r] \in Memories /\ RowsInv(rows) /\ MemoryInv(rows, mem[r])
  BY DEF TrialsInv
<1>3. IsNext(rows, mem[r], i) /\ pc[r] = "trial"
  BY <1>1, <1>2, ReachesNext
<1>4. rows' = WithRow(rows, s, row)
  BY <1>1 DEF WithRow
<1>5. mem' = [mem EXCEPT ![r] = m2]
  <2> HIDE DEF stop
  <2>1. mem' = [mem EXCEPT ![r].at = i + 1, ![r].stop = stop]
    BY <1>1 DEF stop
  <2> QED
    BY <1>2, <2>1
<1>6. UNCHANGED <<status, pc, verdict, crashes>>
  BY DEF InvalidTrial
<1>7. RowFits(row, s) /\ row.status = "invalid"
  BY DEF RowFits, Rows, RowStatuses
<1>8. stop \in Stops /\ (stop = "none" \/ (stop = "insufficient" /\ Impossible(mem[r], s)))
  BY DEF Stops
<1> HIDE DEF stop, row, s
<1>9. i + 1 \in 1..(Length + 1)
  BY LengthType
<1>10. /\ m2 \in Memories /\ m2.at = i + 1 /\ m2.seen = mem[r].seen /\ m2.valid = mem[r].valid
       /\ m2.passed = mem[r].passed /\ m2.results = mem[r].results /\ m2.stop = stop
  BY <1>2, <1>8, <1>9 DEF Memories
<1> HIDE DEF m2
<1>11. s = Plan[i]
  BY DEF s
<1>12. MemoryInv(WithRow(rows, s, row), m2)
  BY <1>2, <1>3, <1>7, <1>8, <1>10, <1>11, AfterInvalid
<1> QED
  BY <1>3, <1>4, <1>5, <1>6, <1>7, <1>10, <1>11, <1>12, TrialMade

LEMMA UncleanTrialStep ==
    ASSUME TrialsInv, NEW r \in Runs, NEW E \in Outcomes, UncleanTrial(r, E)
    PROVE  TrialsInv'
<1>1. PICK i \in 1..Length :
        /\ Reaches(r, i) /\ ~HasRow(Plan[i])
        /\ rows' = [rows EXCEPT ![Plan[i]] = [status |-> "invalid", results |-> Stored(Plan[i][2], E)]]
        /\ mem' = [mem EXCEPT ![r].at = i + 1]
  BY DEF UncleanTrial
<1> DEFINE s == Plan[i]
           row == [status |-> "invalid", results |-> Stored(s[2], E)]
           m2 == [mem[r] EXCEPT !.at = i + 1]
<1>2. mem \in [Runs -> Memories] /\ mem[r] \in Memories /\ RowsInv(rows) /\ MemoryInv(rows, mem[r])
  BY DEF TrialsInv
<1>3. IsNext(rows, mem[r], i) /\ pc[r] = "trial" /\ mem[r].stop = "none"
  BY <1>1, <1>2, ReachesNext
<1>4. rows' = WithRow(rows, s, row)
  BY <1>1 DEF WithRow
<1>5. mem' = [mem EXCEPT ![r] = m2]
  BY <1>1, <1>2
<1>6. UNCHANGED <<status, pc, verdict, crashes>>
  BY DEF UncleanTrial
<1>7. RowFits(row, s) /\ row.status = "invalid"
  <2>1. Stored(s[2], E) \subseteq UNION Outcomes /\ (s[2] # Judged => Stored(s[2], E) = {})
    BY DEF Stored
  <2> QED
    BY <2>1 DEF RowFits, Rows, RowStatuses
<1> HIDE DEF row, s
<1>9. i + 1 \in 1..(Length + 1)
  BY LengthType
<1>10. /\ m2 \in Memories /\ m2.at = i + 1 /\ m2.seen = mem[r].seen /\ m2.valid = mem[r].valid
       /\ m2.passed = mem[r].passed /\ m2.results = mem[r].results /\ m2.stop = "none"
  BY <1>2, <1>3, <1>9 DEF Memories
<1> HIDE DEF m2
<1>11. s = Plan[i]
  BY DEF s
<1>12. MemoryInv(WithRow(rows, s, row), m2)
  BY <1>2, <1>3, <1>7, <1>10, <1>11, AfterInvalid
<1> QED
  BY <1>3, <1>4, <1>5, <1>6, <1>7, <1>10, <1>11, <1>12, TrialMade

LEMMA CleanTrialStep ==
    ASSUME TrialsInv, NEW r \in Runs, NEW E \in Outcomes, CleanTrial(r, E)
    PROVE  TrialsInv'
<1>1. PICK i \in 1..Length :
        /\ Reaches(r, i) /\ ~HasRow(Plan[i])
        /\ rows' = [rows EXCEPT ![Plan[i]] =
               [status |-> TrialStatus(TRUE, Plan[i][2], TrialVerdict(E) = "pass"),
                results |-> Stored(Plan[i][2], E)]]
        /\ mem' = [mem EXCEPT ![r] = Count(@, i, E)]
  BY DEF CleanTrial
<1> DEFINE s == Plan[i]
           m == mem[r]
           row == [status |-> TrialStatus(TRUE, s[2], TrialVerdict(E) = "pass"),
                   results |-> Stored(s[2], E)]
           m2 == Count(m, i, E)
           passed == IF TrialVerdict(E) = "pass" THEN m.passed \cup ({s[2]} \cap Mutants) ELSE m.passed
           results == IF s[2] = Judged THEN m.results \cup E ELSE m.results
           stop == StopAfter(s[2], E)
           valid == [m.valid EXCEPT ![s[2]][s[1]] = @ + 1]
<1>2. mem \in [Runs -> Memories] /\ m \in Memories /\ RowsInv(rows) /\ MemoryInv(rows, m)
  BY DEF TrialsInv
<1>3. IsNext(rows, mem[r], i) /\ pc[r] = "trial"
  BY <1>1, <1>2, ReachesNext
<1>4. rows' = WithRow(rows, s, row)
  BY <1>1 DEF WithRow
<1>5. mem' = [mem EXCEPT ![r] = m2]
  BY <1>1, <1>2
<1>6. UNCHANGED <<status, pc, verdict, crashes>>
  BY DEF CleanTrial
<1>7. /\ RowFits(row, s)
      /\ Records(row, s, E)
  <2>1. Stored(s[2], E) \subseteq UNION Outcomes /\ (s[2] # Judged => Stored(s[2], E) = {})
    BY DEF Stored
  <2>2. /\ TrialStatus(TRUE, s[2], TrialVerdict(E) = "pass") \in RowStatuses \ {"invalid"}
        /\ TrialStatus(TRUE, s[2], TrialVerdict(E) = "pass") \in {"mutation_survived", "mutation_killed"}
             <=> s[2] \in Mutants
    BY DEF TrialStatus, RowStatuses
  <2> QED
    BY <2>1, <2>2 DEF RowFits, Rows, Records
<1>8. s \in Slots /\ s[1] \in TasksSet /\ s[2] \in VariantSet
  BY PlanType
<1> HIDE DEF row
<1>9. i + 1 \in 1..(Length + 1)
  BY LengthType
<1>10. m2 = [m EXCEPT !.at = i + 1, !.valid = valid, !.passed = passed, !.results = results, !.stop = stop]
  <2>1. m2 = [m EXCEPT !.at = i + 1, !.valid[s[2]][s[1]] = @ + 1, !.passed = passed,
                       !.results = results, !.stop = stop]
    BY DEF Count
  <2> HIDE DEF m, m2, passed, results, stop, s
  <2>2. m \in [ at : 1..(Length + 1), seen : SUBSET Slots,
                valid : [VariantSet -> [TasksSet -> Nat]],
                passed : SUBSET Mutants, results : SUBSET UNION Outcomes, stop : Stops ]
    BY <1>2 DEF Memories
  <2> QED
    BY <2>1, <2>2
<1>11. valid \in [VariantSet -> [TasksSet -> Nat]]
  <2>1. m.valid \in [VariantSet -> [TasksSet -> Nat]]
    BY <1>2 DEF Memories
  <2> HIDE DEF m, s
  <2> QED
    BY <1>8, <2>1
<1>12. \A v \in VariantSet, t \in TasksSet :
           valid[v][t] = m.valid[v][t] + (IF v = s[2] /\ t = s[1] THEN 1 ELSE 0)
  <2>1. m.valid \in [VariantSet -> [TasksSet -> Nat]]
    BY <1>2 DEF Memories
  <2> HIDE DEF m, s
  <2> QED
    BY <1>8, <2>1
<1>13. passed \subseteq Mutants
  BY <1>2, MemoryFields
<1>14. results \subseteq UNION Outcomes
  BY <1>2 DEF Memories
<1>15. stop \in Stops
  BY DEF StopAfter, Stops
<1>16. s = Plan[i]
  OBVIOUS
<1>17. /\ passed = IF TrialVerdict(E) = "pass" THEN m.passed \cup ({s[2]} \cap Mutants) ELSE m.passed
       /\ results = IF s[2] = Judged THEN m.results \cup E ELSE m.results
       /\ stop = StopAfter(s[2], E)
  OBVIOUS
<1> HIDE DEF passed, results, stop, valid, s, m2, m
<1>18. /\ m2 \in Memories /\ m2.at = i + 1 /\ m2.seen = m.seen /\ m2.valid = valid
       /\ m2.passed = passed /\ m2.results = results /\ m2.stop = stop
  BY <1>2, <1>9, <1>10, <1>11, <1>13, <1>14, <1>15 DEF Memories
<1>19. \A v \in VariantSet, t \in TasksSet :
           m2.valid[v][t] = m.valid[v][t] + (IF v = s[2] /\ t = s[1] THEN 1 ELSE 0)
  BY <1>12, <1>18
<1>20. HasCounted(m2, m, s, E)
  BY <1>17, <1>18, <1>19 DEF HasCounted
<1>21. IsNext(rows, m, i)
  BY <1>3 DEF m
<1>22. MemoryInv(WithRow(rows, s, row), m2)
  <2>1. m2 \in Memories /\ m2.at = i + 1 /\ m2.seen = m.seen
    BY <1>18
  <2> QED
    BY ONLY E \in Outcomes, <1>2, <1>7, <1>16, <1>20, <1>21, <2>1, AfterValid
<1> QED
  BY <1>3, <1>4, <1>5, <1>6, <1>7, <1>16, <1>18, <1>22, TrialMade

LEMMA VerdictNames ==
    \A m : ExperimentVerdict(m) \in {"pass", "fail", "inconclusive"}
BY DEF ExperimentVerdict, PolicyVerdict, Decide

LEMMA JudgeStep ==
    ASSUME TrialsInv, NEW r \in Runs, Judge(r)
    PROVE  TrialsInv'
<1> DEFINE new == StatusOf(ExperimentVerdict(mem[r]))
<1>1. new \in {"validated", "inconclusive", "rejected"}
  BY VerdictNames DEF StatusOf
<1>2. new \in Lifecycle!Statuses
  BY <1>1 DEF Lifecycle!Statuses, Lifecycle!Open
<1>3. CASE Dies(r) /\ UNCHANGED <<status, verdict>>
  <2>1. UNCHANGED <<rows, crashes>> /\ crashes' \in 0..MaxCrashes
    BY DEF Judge, TrialsInv
  <2> QED
    BY <1>3, <2>1, DiesStep
<1>4. CASE /\ status' = new /\ verdict' = [verdict EXCEPT ![r] = new]
           /\ pc' = [pc EXCEPT ![r] = "done"] /\ UNCHANGED mem
  <2> HIDE DEF new
  <2>1. UNCHANGED <<rows, mem, crashes>>
    BY <1>4 DEF Judge
  <2>2. /\ pc \in [Runs -> {"idle", "trial", "done"}]
        /\ verdict \in [Runs -> {"none", "validated", "rejected", "inconclusive"}]
    BY DEF TrialsInv, VerdictsInv
  <2>3. /\ pc' \in [Runs -> {"idle", "trial", "done"}]
        /\ \A q \in Runs : pc'[q] = IF q = r THEN "done" ELSE pc[q]
    BY <1>4, <2>2
  <2>4. /\ verdict' \in [Runs -> {"none", "validated", "rejected", "inconclusive"}]
        /\ \A q \in Runs : verdict'[q] = IF q = r THEN new ELSE verdict[q]
    BY <1>1, <1>4, <2>2
  <2>5. VerdictsInv'
    <3>1. \A q \in Runs : pc[q] = "done" => verdict[q] = StatusOf(ExperimentVerdict(mem[q]))
      BY DEF TrialsInv, VerdictsInv
    <3>2. \A q \in Runs : pc'[q] = "done" => verdict'[q] = StatusOf(ExperimentVerdict(mem[q]))
      BY <2>3, <2>4, <3>1 DEF new
    <3> QED
      BY <2>1, <2>4, <3>2 DEF VerdictsInv
  <2> QED
    BY <1>2, <1>4, <2>1, <2>3, <2>5 DEF TrialsInv
<1>5. \/ status' = new /\ verdict' = [verdict EXCEPT ![r] = new]
           /\ pc' = [pc EXCEPT ![r] = "done"] /\ UNCHANGED mem
      \/ Dies(r) /\ UNCHANGED <<status, verdict>>
  BY DEF Judge
<1> QED
  BY <1>3, <1>4, <1>5

LEMMA TrialsNext == TrialsInv /\ [Next]_vars => TrialsInv'
<1> SUFFICES ASSUME TrialsInv, [Next]_vars
             PROVE  TrialsInv'
  OBVIOUS
<1>1. CASE UNCHANGED vars
  BY <1>1 DEF vars, TrialsInv, VerdictsInv
<1>2. ASSUME NEW r \in Runs, Start(r)
      PROVE  TrialsInv'
  BY <1>2, StartStep
<1>3. ASSUME NEW r \in Runs, Collide(r)
      PROVE  TrialsInv'
  <2>1. Dies(r) /\ UNCHANGED <<rows, status, verdict>> /\ crashes' \in 0..MaxCrashes
    BY <1>3 DEF Collide, TrialsInv
  <2> QED
    BY <2>1, DiesStep
<1>4. ASSUME NEW r \in Runs, InvalidTrial(r)
      PROVE  TrialsInv'
  BY <1>4, InvalidTrialStep
<1>5. ASSUME NEW r \in Runs, NEW E \in Outcomes, UncleanTrial(r, E) \/ CleanTrial(r, E)
      PROVE  TrialsInv'
  BY <1>5, UncleanTrialStep, CleanTrialStep
<1>6. ASSUME NEW r \in Runs, Judge(r)
      PROVE  TrialsInv'
  BY <1>6, JudgeStep
<1>7. ASSUME NEW r \in Runs, Crash(r)
      PROVE  TrialsInv'
  <2>1. crashes \in 0..MaxCrashes /\ crashes < MaxCrashes /\ crashes' = crashes + 1
    BY <1>7 DEF Crash, TrialsInv
  <2>2. crashes' \in 0..MaxCrashes
    BY <2>1, PlanAssumption
  <2>3. Dies(r) /\ UNCHANGED <<rows, status, verdict>>
    BY <1>7 DEF Crash
  <2> QED
    BY <2>2, <2>3, DiesStep
<1> QED
  BY <1>1, <1>2, <1>3, <1>4, <1>5, <1>6, <1>7 DEF Next, Step

LEMMA TrialsAlways == Spec => []TrialsInv
BY TrialsInit, TrialsNext, PTL DEF Spec

-----------------------------------------------------------------------------
(* What the policy decides *)

LEMMA FailHasCause ==
    ASSUME NEW E, NEW required, NEW minimum, Decide(E, required, minimum) = "fail"
    PROVE  \E x \in Authoritative(E) : x.verdict = "fail" \/ x.gate
BY DEF Decide

LEMMA FailStays ==
    ASSUME NEW E, NEW F, E \subseteq F, NEW required, NEW minimum, Decide(E, required, minimum) = "fail"
    PROVE  Decide(F, required, minimum) = "fail"
<1>1. Authoritative(E) \subseteq Authoritative(F)
  BY DEF Authoritative
<1>2. CASE \E x \in Authoritative(E) : x.gate
  BY <1>1, <1>2 DEF Decide
<1>3. CASE ~(\E x \in Authoritative(E) : x.gate)
  <2>1. /\ \A a \in required : \E x \in Authoritative(E) : x.by = a
        /\ \E x \in Authoritative(E) : x.grade >= minimum /\ x.verdict = "fail"
    BY <1>3 DEF Decide
  <2>2. /\ \A a \in required : \E x \in Authoritative(F) : x.by = a
        /\ \E x \in Authoritative(F) : x.grade >= minimum /\ x.verdict = "fail"
    BY <1>1, <2>1
  <2> QED
    BY <2>2 DEF Decide
<1> QED
  BY <1>2, <1>3

(* Every authoritative result is graded well enough to count.               *)
GradesSuffice == \A E \in Outcomes : \A x \in Authoritative(E) : x.grade >= MinGrade

LEMMA PassSpeaksForAll ==
    ASSUME NEW E, \A x \in Authoritative(E) : x.grade >= MinGrade, PolicyVerdict(E) = "pass"
    PROVE  \A x \in Authoritative(E) : x.verdict \notin {"fail", "unresolved"} /\ ~x.gate
BY DEF PolicyVerdict, Decide

LEMMA JudgedIsAVariant ==
    Judged \in VariantSet /\ Judged \notin Mutants
BY VariantsAssumption DEF Judged

(* A verdict, and what the run that made it had in memory.                  *)
LEMMA DoneRun ==
    ASSUME TrialsInv, NEW r \in Runs, pc[r] = "done"
    PROVE  /\ RowsInv(rows) /\ MemoryInv(rows, mem[r]) /\ mem[r] \in Memories
           /\ verdict[r] = "validated" => ExperimentVerdict(mem[r]) = "pass"
           /\ verdict[r] = "rejected" => ExperimentVerdict(mem[r]) = "fail"
<1>1. verdict[r] = StatusOf(ExperimentVerdict(mem[r]))
  BY DEF TrialsInv, VerdictsInv
<1>2. ExperimentVerdict(mem[r]) \in {"pass", "fail", "inconclusive"}
  BY VerdictNames
<1> QED
  BY <1>1, <1>2 DEF StatusOf, TrialsInv

LEMMA WorkedRows ==
    ASSUME TrialsInv, NEW r \in Runs, NEW s, s \in Worked(rows, mem[r])
    PROVE  /\ s \in Slots /\ Valid(s) /\ RowFits(rows[s], s)
           /\ s[2] = Judged => rows[s].status \in {"passed", "failed"}
<1>1. RowsInv(rows) /\ MemoryInv(rows, mem[r]) /\ mem[r] \in Memories
  BY DEF TrialsInv
<1>2. s \in Slots /\ ValidIn(rows, s)
  BY <1>1, PastIsInPlan DEF Worked
<1>3. RowFits(rows[s], s)
  BY <1>1, <1>2 DEF RowsInv, ValidIn
<1>4. s[2] = Judged => rows[s].status \in {"passed", "failed"}
  BY <1>2, <1>3, JudgedIsAVariant DEF RowFits, Rows, RowStatuses, ValidIn
<1> QED
  BY <1>2, <1>3, <1>4, StoredRows

-----------------------------------------------------------------------------
(* Theorems *)

(* Rows, memories and verdicts have their types (the schema, and            *)
(* EvaluationTrialMixin).                                                   *)
THEOREM TrialsTypeCorrect == Spec => []TypeOK
<1>1. TrialsInv => TypeOK
  <2> SUFFICES ASSUME TrialsInv
               PROVE  TypeOK
    OBVIOUS
  <2>1. rows \in [Slots -> Rows \cup {None}] /\ mem \in [Runs -> Memories]
    BY DEF TrialsInv, RowsInv
  <2>2. \A r \in Runs : /\ mem[r].at \in 1..(Length + 1) /\ mem[r].seen \subseteq Slots
                        /\ mem[r].passed \subseteq Mutants /\ mem[r].stop \in Stops
    BY <2>1, MemoryFields
  <2> QED
    BY <2>1, <2>2 DEF TrialsInv, VerdictsInv, TypeOK
<1> QED
  BY <1>1, TrialsAlways, PTL

(* A run that judged its own trials rejects a candidate for a stored valid  *)
(* trial: one that the candidate failed, or one that a mutation survived    *)
(* (_experiment_governance).                                                *)
THEOREM RejectionsHaveCause == Spec => []RejectedForCause
<1>1. TrialsInv => RejectedForCause
  <2> SUFFICES ASSUME TrialsInv, NEW r \in Runs, pc[r] = "done", verdict[r] = "rejected",
                      RanTheMutants(r)
               PROVE  \E s \in Slots : Cause(s)
    BY DEF RejectedForCause
  <2> DEFINE m == mem[r]
  <2>1. MemoryInv(rows, m) /\ ExperimentVerdict(m) = "fail"
    BY DoneRun
  <2>2. CASE SurvivedIn(rows, m)
    <3>1. PICK s \in Worked(rows, m) : rows[s].status = "mutation_survived"
      BY <2>2 DEF SurvivedIn
    <3> QED
      BY <3>1, WorkedRows DEF Cause
  <2>3. CASE PolicyVerdict(m.results) = "fail"
    <3>1. PICK x \in Authoritative(m.results) : x.verdict = "fail" \/ x.gate
      BY <2>3, FailHasCause DEF PolicyVerdict
    <3>2. x \in m.results /\ ~x.advisory
      BY DEF Authoritative
    <3>3. PICK s \in Worked(rows, m) : s[2] = Judged /\ x \in rows[s].results
      BY <2>1, <3>2 DEF MemoryInv, ResultsAreWorked
    <3>4. x \in Authoritative(rows[s].results)
      BY <3>2, <3>3 DEF Authoritative
    <3> QED
      BY <3>1, <3>3, <3>4, WorkedRows DEF Cause
  <2>4. m.stop = "mutation_survived" => SurvivedIn(rows, m)
    BY <2>1 DEF MemoryInv, StopIsBacked
  <2>5. m.passed # {} => SurvivedIn(rows, m)
    BY <2>1 DEF MemoryInv, PassedAreWorked, RanTheMutants
  <2>6. m.stop = "mutation_survived" \/ m.passed # {} \/ PolicyVerdict(m.results) = "fail"
    BY <2>1 DEF ExperimentVerdict
  <2> QED
    BY <2>2, <2>3, <2>4, <2>5, <2>6
<1> QED
  BY <1>1, TrialsAlways, PTL

(* A run that stops for want of valid trials could not have got them,       *)
(* whatever other runs of the experiment store                              *)
(* (candidate_validity_impossible).                                         *)
THEOREM StopsAreFinal == Spec => []StopIsFinal
<1>1. TrialsInv => StopIsFinal
  <2> SUFFICES ASSUME TrialsInv, NEW r \in Runs, mem[r].stop = "insufficient"
               PROVE  \E t \in Range(Tasks) :
                         ValidOf(FastVariant, t)
                           + Cardinality({n \in 1..Trials : ~HasRow(<<t, FastVariant, n>>)}) < Required
    BY DEF StopIsFinal
  <2>1. OutOfReach(rows)
    BY DEF TrialsInv, MemoryInv, StopIsBacked
  <2>2. \A t : {n \in 1..Trials : ~HasRow(<<t, FastVariant, n>>)} = Unstored(rows, FastVariant, t)
    BY StoredRows DEF Unstored
  <2> QED
    BY <2>1, <2>2, StoredRows DEF OutOfReach, TasksSet
<1> QED
  BY <1>1, TrialsAlways, PTL

(* A run that validates the candidate has enough valid trials of it and of  *)
(* every mutation, knows all of them, and none of them speaks against it.   *)
LEMMA ValidatedRun ==
    ASSUME TrialsInv, GradesSuffice, Candidate # None,
           NEW r \in Runs, pc[r] = "done", verdict[r] = "validated"
    PROVE  /\ \A v \in Mutants \cup {Judged}, t \in TasksSet :
                 /\ mem[r].valid[v][t] >= Required
                 /\ ValidOf(v, t) >= Required
           /\ \A s \in Slots : Valid(s) /\ s[2] \in Mutants \cup {Judged} => s \in Worked(rows, mem[r])
           /\ mem[r].passed = {}
           /\ PolicyVerdict(mem[r].results) = "pass"
<1> DEFINE m == mem[r]
<1>1. /\ RowsInv(rows) /\ MemoryInv(rows, m) /\ m \in Memories
      /\ ExperimentVerdict(m) = "pass"
  BY DoneRun
<1>2. m.stop # "mutation_survived" /\ PolicyVerdict(m.results) = "pass"
  BY <1>1 DEF ExperimentVerdict
<1>3. m.stop # "candidate_failure"
  <2> SUFFICES ASSUME m.stop = "candidate_failure"
               PROVE  FALSE
    OBVIOUS
  <2>1. PICK s \in Worked(rows, m) : s[2] = Judged /\ TrialVerdict(rows[s].results) = "fail"
    BY <1>1 DEF MemoryInv, StopIsBacked, FailedIn
  <2>2. PICK x \in Authoritative(rows[s].results) : x.verdict = "fail" \/ x.gate
    BY <2>1, FailHasCause DEF TrialVerdict
  <2>3. x \in m.results /\ x \in Authoritative(m.results)
    BY <1>1, <2>1, <2>2 DEF MemoryInv, ResultsAreWorked, Authoritative
  <2>4. m.results \subseteq UNION Outcomes
    BY <1>1 DEF Memories
  <2>5. \A y \in Authoritative(m.results) : y.grade >= MinGrade
    BY <2>4 DEF GradesSuffice, Authoritative
  <2> QED
    BY <1>2, <2>2, <2>3, <2>5, PassSpeaksForAll
<1>4. ~TooFew(m, Counted) /\ (\A v \in Mutants : ~TooFew(m, v)) /\ m.passed = {}
  BY <1>1, <1>2, <1>3 DEF ExperimentVerdict
<1>5. Counted = Judged
  BY DEF Counted, Judged
<1>6. \A v \in Mutants \cup {Judged} : v \in VariantSet /\ ~TooFew(m, v)
  BY <1>4, <1>5, JudgedIsAVariant, VariantsAssumption
<1>7. ASSUME NEW v \in Mutants \cup {Judged}, NEW t \in TasksSet
      PROVE  m.valid[v][t] >= Required /\ ValidOf(v, t) >= Required
  <2>1. v \in VariantSet /\ m.valid[v][t] \in Nat /\ ~(m.valid[v][t] < Required)
    BY <1>1, <1>6, MemoryFields DEF TooFew, TasksSet
  <2>2. m.valid[v][t] = Cardinality(WorkedTrials(rows, m, v, t))
    BY <1>1, <2>1 DEF MemoryInv, ValidAreWorked
  <2>3. /\ Cardinality(WorkedTrials(rows, m, v, t)) <= Cardinality(ValidTrials(rows, v, t))
        /\ Cardinality(ValidTrials(rows, v, t)) \in Nat
    BY WorkedTrialsAreValid, TrialsAreFinite
  <2>4. ValidOf(v, t) = Cardinality(ValidTrials(rows, v, t))
    BY StoredRows
  <2> HIDE DEF m
  <2> QED
    BY <2>1, <2>2, <2>3, <2>4, RequiredType
<1>8. ASSUME NEW s \in Slots, Valid(s), s[2] \in Mutants \cup {Judged}
      PROVE  s \in Worked(rows, m)
  <2>1. s[1] \in TasksSet /\ Enough(m, s)
    BY <1>7, <1>8, SlotParts DEF Enough
  <2>2. ValidIn(rows, s) /\ HasRowIn(rows, s)
    BY <1>8, StoredRows DEF ValidIn
  <2>3. s \in Past(m)
    BY <1>1, <2>1, <2>2, EnoughKnowsAll
  <2> QED
    BY <2>2, <2>3 DEF Worked
<1> QED
  BY <1>2, <1>4, <1>7, <1>8

(* With authoritative results graded well enough to count, a candidate is   *)
(* validated on the required number of valid trials of every task, of it    *)
(* and of every mutation; it survived none of them, and none of its own     *)
(* valid results speaks against it (_experiment_governance).                *)
THEOREM ValidationsAreEarned ==
    ASSUME GradesSuffice, Candidate # None
    PROVE  Spec => []ValidatedIsEarned
<1>1. TrialsInv => ValidatedIsEarned
  <2> SUFFICES ASSUME TrialsInv, NEW r \in Runs, pc[r] = "done", verdict[r] = "validated",
                      RanTheMutants(r)
               PROVE  /\ \A v \in Mutants \cup {Judged}, t \in Range(Tasks) : ValidOf(v, t) >= Required
                      /\ \A s \in Slots : HasRow(s) => rows[s].status # "mutation_survived"
                      /\ \A s \in Slots : Valid(s) /\ s[2] = Judged =>
                             \A x \in Authoritative(rows[s].results) : x.verdict = "pass" /\ ~x.gate
    BY DEF ValidatedIsEarned
  <2> DEFINE m == mem[r]
  <2>1. /\ \A v \in Mutants \cup {Judged}, t \in TasksSet : ValidOf(v, t) >= Required
        /\ \A s \in Slots : Valid(s) /\ s[2] \in Mutants \cup {Judged} => s \in Worked(rows, m)
        /\ m.passed = {}
        /\ PolicyVerdict(m.results) = "pass"
    BY ValidatedRun
  <2>2. RowsInv(rows) /\ MemoryInv(rows, m) /\ m \in Memories
    BY DoneRun
  <2>3. ASSUME NEW s \in Slots, HasRow(s), rows[s].status = "mutation_survived"
        PROVE  FALSE
    <3>1. s[2] \in Mutants /\ Valid(s)
      BY <2>2, <2>3, StoredRows DEF RowsInv, RowFits, Valid
    <3>2. s \in Worked(rows, m)
      BY <2>1, <3>1
    <3> QED
      BY <2>1, <2>2, <2>3, <3>1, <3>2 DEF MemoryInv, PassedAreWorked, RanTheMutants
  <2>4. ASSUME NEW s \in Slots, Valid(s), s[2] = Judged, NEW x \in Authoritative(rows[s].results)
        PROVE  x.verdict = "pass" /\ ~x.gate
    <3>1. s \in Worked(rows, m)
      BY <2>1, <2>4
    <3>2. x \in m.results /\ x \in Authoritative(m.results)
      BY <2>2, <2>4, <3>1 DEF MemoryInv, ResultsAreWorked, Authoritative
    <3>3. m.results \subseteq UNION Outcomes
      BY <2>2 DEF Memories
    <3>4. \A y \in Authoritative(m.results) : y.grade >= MinGrade
      BY <3>3 DEF GradesSuffice, Authoritative
    <3>5. x.verdict \notin {"fail", "unresolved"} /\ ~x.gate
      BY <2>1, <3>2, <3>4, PassSpeaksForAll
    <3>6. x \in Result
      BY <3>2, <3>3, PlanAssumption
    <3> QED
      BY <3>5, <3>6 DEF Result
  <2> QED
    BY <2>1, <2>3, <2>4 DEF TasksSet
<1> QED
  BY <1>1, TrialsAlways, PTL

(* Under the same conditions a replay of the stored rows comes to the run's *)
(* verdict (EvaluationExperimentRunner.replay).                             *)
THEOREM ReplaysAgree ==
    ASSUME GradesSuffice, Candidate # None
    PROVE  Spec => []ReplayAgrees
<1>1. TrialsInv => ReplayAgrees
  <2> SUFFICES ASSUME TrialsInv, NEW r \in Runs, pc[r] = "done"
               PROVE  /\ verdict[r] = "validated" => Replay = "pass"
                      /\ verdict[r] = "rejected" /\ mem[r].stop = "candidate_failure" => Replay = "fail"
    BY DEF ReplayAgrees
  <2> DEFINE m == mem[r]
             S == {x \in Slots : /\ HasRow(x) /\ x[2] = Judged
                                 /\ rows[x].status \in {"passed", "failed"}}
             stored == UNION {rows[s].results : s \in S}
  <2>1. Replay = PolicyVerdict(stored)
    BY DEF Replay
  <2>2. MemoryInv(rows, m)
    BY DoneRun
  <2>3. m.results \subseteq stored
    <3> SUFFICES ASSUME NEW x \in m.results
                 PROVE  x \in stored
      OBVIOUS
    <3>1. PICK s \in Worked(rows, m) : s[2] = Judged /\ x \in rows[s].results
      BY <2>2 DEF MemoryInv, ResultsAreWorked
    <3>2. s \in S
      BY <3>1, WorkedRows DEF Valid
    <3> QED
      BY <3>1, <3>2
  <2>4. ASSUME verdict[r] = "validated"
        PROVE  Replay = "pass"
    <3>1. PolicyVerdict(m.results) = "pass"
      BY <2>4, ValidatedRun
    <3>2. stored \subseteq m.results
      <4> SUFFICES ASSUME NEW s \in S, NEW x \in rows[s].results
                   PROVE  x \in m.results
        OBVIOUS
      <4>1. s \in Slots /\ s[2] = Judged /\ Valid(s)
        BY DEF Valid
      <4>2. s \in Worked(rows, m)
        BY <2>4, <4>1, ValidatedRun
      <4> QED
        BY <2>2, <4>1, <4>2 DEF MemoryInv, ResultsAreWorked
    <3> HIDE DEF stored
    <3>3. stored = m.results
      BY <2>3, <3>2
    <3> QED
      BY <2>1, <3>1, <3>3
  <2>5. ASSUME verdict[r] = "rejected", m.stop = "candidate_failure"
        PROVE  Replay = "fail"
    <3>1. ExperimentVerdict(m) = "fail"
      BY <2>5, DoneRun
    <3>2. PolicyVerdict(m.results) = "fail"
      BY <2>5, <3>1 DEF ExperimentVerdict
    <3> HIDE DEF stored
    <3> QED
      BY <2>1, <2>3, <3>2, FailStays DEF PolicyVerdict
  <2> QED
    BY <2>4, <2>5
<1> QED
  BY <1>1, TrialsAlways, PTL

-----------------------------------------------------------------------------
(* The refinement of ExperimentLifecycle *)

LEMMA LifecycleStep ==
    ASSUME TrialsInv, [Next]_vars
    PROVE  [Lifecycle!Next]_status
<1>1. CASE UNCHANGED status
  BY <1>1
<1>2. ASSUME NEW r \in Runs, Judge(r), status' # status
      PROVE  Lifecycle!Next
  <2> DEFINE new == StatusOf(ExperimentVerdict(mem[r]))
  <2>1. new \in Lifecycle!Transitions[status] /\ status' = new
    BY <1>2 DEF Judge
  <2>2. new \in Lifecycle!Statuses
    BY VerdictNames DEF StatusOf, Lifecycle!Statuses, Lifecycle!Open
  <2> HIDE DEF new
  <2>3. Lifecycle!Transition(new)
    BY <2>1 DEF Lifecycle!Transition
  <2> QED
    BY <2>2, <2>3 DEF Lifecycle!Next
<1>3. status' # status => \E r \in Runs : Judge(r)
  BY DEF vars, Next, Step, Start, Collide, InvalidTrial, UncleanTrial, CleanTrial, Crash
<1> QED
  BY <1>1, <1>2, <1>3

(* However many runs judge it, the experiment changes its status along the  *)
(* table of the store (EXPERIMENT_TRANSITIONS).                             *)
THEOREM RunsKeepTheLifecycle == Spec => KeepsExperimentLifecycle
<1>1. Init => Lifecycle!Init
  BY DEF Init, Lifecycle!Init
<1>2. TrialsInv /\ [Next]_vars => [Lifecycle!Next]_status
  BY LifecycleStep
<1> QED
  BY <1>1, <1>2, TrialsAlways, PTL DEF Spec, KeepsExperimentLifecycle, Lifecycle!Spec
=============================================================================

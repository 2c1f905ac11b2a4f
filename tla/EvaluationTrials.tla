-------------------------- MODULE EvaluationTrials --------------------------
(***************************************************************************)
(* `evidune eval run` on one experiment: the loop over tasks, variants and *)
(* trial numbers, the rows it leaves in skill_experiment_trials, and the   *)
(* verdict it transitions the experiment to.                               *)
(*                                                                         *)
(*   rows    skill_experiment_trials: at most one row per slot             *)
(*   status  skill_version_experiments.status                              *)
(*   pc, mem what each run process is doing and what it has counted so far *)
(*                                                                         *)
(* A process may die anywhere; running the experiment again rebuilds the   *)
(* counts from the rows and skips the slots that have one.  A trial is one *)
(* step: everything between the start of a trial and its row leaves        *)
(* records no later run reads, so only the row tells a crash before it     *)
(* from a crash after it.                                                  *)
(*                                                                         *)
(* An evaluation result is abstracted to what decide_governance reads.     *)
(***************************************************************************)
EXTENDS Integers, Sequences, FiniteSets, FiniteSetsExt, SequencesExt

CONSTANTS
    Runs,           \* evaluation processes
    Tasks,          \* the tasks of the split, in order
    Variants,       \* the variants in the order of the command line
    Candidate,      \* the variant named candidate, or None
    Parent,         \* the variant named parent
    Mutants,        \* the variants with a mutation operator
    None,           \* stands for no variant and for no row
    Trials,         \* --trials
    Required,       \* evaluator.minimum_valid_trials, or Trials
    FailFast,       \* evaluator.fail_fast_<split>
    Evaluators,     \* evaluator.required_evaluators
    MinGrade,       \* evaluator.minimum_attribution, as a rank
    Missing,        \* whether a required mutation operator is not among the variants
    Outcomes,       \* sets of results the adapter may return for a trial
    MaxCrashes      \* bound on crashes and restarts

Result ==
    [ by       : STRING,                              \* evaluator_id
      verdict  : {"pass", "fail", "unresolved"},
      advisory : BOOLEAN,                             \* an LLM judge, or marked advisory
      grade    : Nat,                                 \* rank of attribution_grade
      gate     : BOOLEAN ]                            \* has hard_gate_failures

(* skill_experiment_trials: trial_status, and the evaluation results *)
RowStatuses == {"passed", "failed", "mutation_killed", "mutation_survived", "invalid"}

Rows == [status : RowStatuses, results : SUBSET UNION Outcomes]

VariantSet == Range(Variants)

ASSUME VariantsAssumption ==
    /\ Variants \in Seq(VariantSet) /\ IsInjective(Variants)
    /\ Parent \in VariantSet
    /\ Candidate \in VariantSet \cup {None} /\ None \notin VariantSet
    /\ Mutants \subseteq VariantSet \ {Parent, Candidate}

ASSUME PlanAssumption ==
    /\ Tasks \in Seq(Range(Tasks)) /\ IsInjective(Tasks)
    /\ Trials \in Nat \ {0} /\ Required \in 1..Trials   \* run() refuses the rest
    /\ FailFast \in BOOLEAN /\ Missing \in BOOLEAN
    /\ MinGrade \in Nat /\ MaxCrashes \in Nat
    /\ Outcomes \subseteq SUBSET Result /\ None \notin Rows

VARIABLES rows, status, pc, mem, verdict, crashes

vars == <<rows, status, pc, mem, verdict, crashes>>

-----------------------------------------------------------------------------
(* The plan *)

Slots == Range(Tasks) \X VariantSet \X (1..Trials)

(* candidate_variant, when failing fast is on *)
FastVariant == IF FailFast THEN Candidate ELSE None

(* The variant whose results are judged, and, when no variant is called     *)
(* candidate, the one whose trials the policy counts.                       *)
Judged == IF Candidate # None THEN Candidate ELSE Parent

Counted == IF Candidate # None THEN Candidate ELSE Variants[1]

(* The key of execution_variants. *)
Key(v) == IF v = FastVariant THEN 0 ELSE IF v \in Mutants THEN 1 ELSE 2

Index(v) == CHOOSE i \in DOMAIN Variants : Variants[i] = v

(* u is tried before v: the variants are sorted, stably, when failing fast. *)
Before(u, v) ==
    IF FastVariant # None /\ Key(u) # Key(v) THEN Key(u) < Key(v) ELSE Index(u) < Index(v)

(* execution_variants *)
Order ==
    [ i \in 1..Len(Variants) |->
        CHOOSE v \in VariantSet : Cardinality({u \in VariantSet : Before(u, v)}) = i - 1 ]

Length == Len(Tasks) * Len(Order) * Trials

(* The slots in the order of the three nested loops. *)
Plan ==
    LET n == Len(Order) * Trials
    IN  [ i \in 1..Length |->
            << Tasks[(i - 1) \div n + 1],
               Order[(((i - 1) % n) \div Trials) + 1],
               ((i - 1) % Trials) + 1 >> ]

-----------------------------------------------------------------------------
(* decide_governance *)

Authoritative(R) == {x \in R : ~x.advisory}

Decide(R, required, minimum) ==
    LET eligible == {x \in Authoritative(R) : x.grade >= minimum}
    IN  IF \E x \in Authoritative(R) : x.gate THEN "fail"
        ELSE IF required \ {x.by : x \in Authoritative(R)} # {} \/ eligible = {} THEN "inconclusive"
        ELSE IF \E x \in eligible : x.verdict = "fail" THEN "fail"
        ELSE IF \E x \in eligible : x.verdict = "unresolved" THEN "inconclusive"
        ELSE "pass"

TrialVerdict(R) == Decide(R, {}, 0)

PolicyVerdict(R) == Decide(R, Evaluators, MinGrade)

-----------------------------------------------------------------------------
(* The rows *)

HasRow(s) == rows[s] # None

Valid(s) == HasRow(s) /\ rows[s].status # "invalid"

ValidOf(v, t) == Cardinality({n \in 1..Trials : Valid(<<t, v, n>>)})

(* _trial_status *)
TrialStatus(clean, v, passed) ==
    CASE ~clean -> "invalid"
      [] clean /\ v \in Mutants -> IF passed THEN "mutation_survived" ELSE "mutation_killed"
      [] OTHER -> IF passed THEN "passed" ELSE "failed"

(* Of the stored results, only the judged variant's are ever read back. *)
Stored(v, R) == IF v = Judged THEN R ELSE {}

-----------------------------------------------------------------------------
(* What a run counts *)

Stops == {"none", "candidate_failure", "mutation_survived", "insufficient"}

NothingCounted ==
    [ at      |-> 1,                                                \* next slot of the plan
      seen    |-> {},                                               \* existing_trials
      valid   |-> [v \in VariantSet |-> [t \in Range(Tasks) |-> 0]],
      passed  |-> {},                                               \* mutations counted as passing
      results |-> {},                                               \* candidate_results
      stop    |-> "none" ]

(* _load_existing_trials: a killed mutation is counted as a pass. *)
Reload ==
    [ NothingCounted EXCEPT
        !.seen    = {s \in Slots : HasRow(s)},
        !.valid   = [v \in VariantSet |-> [t \in Range(Tasks) |-> ValidOf(v, t)]],
        !.passed  = {s[2] : s \in {x \in Slots : HasRow(x) /\ rows[x].status = "mutation_killed"}},
        !.results = UNION {rows[s].results : s \in {x \in Slots : Valid(x) /\ x[2] = Judged}} ]

Enough(m, s) == m.valid[s[2]][s[1]] >= Required

(* The slots the loops do not skip. *)
Pending(m) == {i \in m.at..Length : ~Enough(m, Plan[i]) /\ Plan[i] \notin m.seen}

(* Mutant of Impossible: the trial just lost is counted twice. *)
ImpossibleEarly(m, s) ==
    /\ s[2] = FastVariant
    /\ m.valid[s[2]][s[1]] + (Trials - s[3]) <= Required

(* candidate_validity_impossible *)
Impossible(m, s) ==
    /\ s[2] = FastVariant
    /\ m.valid[s[2]][s[1]] + (Trials - s[3]) < Required

-----------------------------------------------------------------------------
Init ==
    /\ rows = [s \in Slots |-> None]
    /\ status = "candidate"
    /\ pc = [r \in Runs |-> "idle"]
    /\ mem = [r \in Runs |-> NothingCounted]
    /\ verdict = [r \in Runs |-> "none"]
    /\ crashes = 0

(* _bind_or_create_experiment binds a candidate only; a rejected or         *)
(* inconclusive one is run again as a new experiment, not on these rows.    *)
Start(r) ==
    /\ pc[r] = "idle"
    /\ status = "candidate"
    /\ pc' = [pc EXCEPT ![r] = "trial"]
    /\ mem' = [mem EXCEPT ![r] = Reload]
    /\ UNCHANGED <<rows, status, verdict, crashes>>

Dies(r) ==
    /\ pc' = [pc EXCEPT ![r] = "idle"]
    /\ mem' = [mem EXCEPT ![r] = NothingCounted]

(* The next trial of r is in slot i. *)
Reaches(r, i) ==
    /\ pc[r] = "trial"
    /\ mem[r].stop = "none"
    /\ Pending(mem[r]) # {}
    /\ i = Min(Pending(mem[r]))

(* Another process stored this slot meanwhile: UNIQUE fails, and so does the *)
(* handler's own attempt to store the failure.                              *)
Collide(r) ==
    /\ \E i \in 1..Length : Reaches(r, i) /\ HasRow(Plan[i])
    /\ Dies(r)
    /\ UNCHANGED <<rows, status, verdict, crashes>>

(* prepare, the reset before or the execution fails. *)
InvalidTrial(r) ==
    /\ \E i \in 1..Length :
         LET s == Plan[i]
         IN  /\ Reaches(r, i)
             /\ ~HasRow(s)
             /\ rows' = [rows EXCEPT ![s] = [status |-> "invalid", results |-> {}]]
             /\ mem' = [mem EXCEPT ![r].at = i + 1,
                                   ![r].stop = IF Impossible(mem[r], s) THEN "insufficient" ELSE "none"]
    /\ UNCHANGED <<status, pc, verdict, crashes>>

(* The environment could not be reset after the execution: its results are  *)
(* stored, and count for nothing.                                           *)
UncleanTrial(r, R) ==
    /\ \E i \in 1..Length :
         LET s == Plan[i]
         IN  /\ Reaches(r, i)
             /\ ~HasRow(s)
             /\ rows' = [rows EXCEPT ![s] = [status |-> "invalid", results |-> Stored(s[2], R)]]
             /\ mem' = [mem EXCEPT ![r].at = i + 1]
    /\ UNCHANGED <<status, pc, verdict, crashes>>

StopAfter(v, R) ==
    IF v = FastVariant /\ TrialVerdict(R) = "fail" THEN "candidate_failure"
    ELSE IF v \in Mutants /\ TrialVerdict(R) = "pass" THEN "mutation_survived"
    ELSE "none"

(* Mutant of Count: the results of any variant are judged. *)
CountAll(m, i, R) ==
    LET s == Plan[i]
    IN  [ m EXCEPT !.at = i + 1,
                   !.valid[s[2]][s[1]] = @ + 1,
                   !.passed = IF TrialVerdict(R) = "pass" THEN @ \cup ({s[2]} \cap Mutants) ELSE @,
                   !.results = @ \cup R,
                   !.stop = StopAfter(s[2], R) ]

Count(m, i, R) ==
    LET s == Plan[i]
    IN  [ m EXCEPT !.at = i + 1,
                   !.valid[s[2]][s[1]] = @ + 1,
                   !.passed = IF TrialVerdict(R) = "pass" THEN @ \cup ({s[2]} \cap Mutants) ELSE @,
                   !.results = IF s[2] = Judged THEN @ \cup R ELSE @,
                   !.stop = StopAfter(s[2], R) ]

CleanTrial(r, R) ==
    /\ \E i \in 1..Length :
         LET s == Plan[i]
         IN  /\ Reaches(r, i)
             /\ ~HasRow(s)
             /\ rows' = [rows EXCEPT ![s] =
                    [status |-> TrialStatus(TRUE, s[2], TrialVerdict(R) = "pass"),
                     results |-> Stored(s[2], R)]]
             /\ mem' = [mem EXCEPT ![r] = Count(@, i, R)]
    /\ UNCHANGED <<status, pc, verdict, crashes>>

StatusOf(decision) ==
    CASE decision = "pass" -> "validated"
      [] decision = "inconclusive" -> "inconclusive"
      [] decision = "fail" -> "rejected"

TooFew(m, v) == \E t \in Range(Tasks) : m.valid[v][t] < Required

(* Mutant of ExperimentVerdict: the mutations' trials are not counted. *)
VerdictIgnoringMutants(m) ==
    IF m.stop = "mutation_survived" THEN "fail"
    ELSE IF m.stop = "candidate_failure" THEN PolicyVerdict(m.results)
    ELSE IF TooFew(m, Counted) \/ Missing THEN "inconclusive"
    ELSE PolicyVerdict(m.results)

(* _experiment_governance *)
ExperimentVerdict(m) ==
    IF m.stop = "mutation_survived" THEN "fail"
    ELSE IF m.stop = "candidate_failure" THEN PolicyVerdict(m.results)
    ELSE IF TooFew(m, Counted) \/ Missing \/ \E v \in Mutants : TooFew(m, v) THEN "inconclusive"
    ELSE IF m.passed # {} THEN "fail"
    ELSE PolicyVerdict(m.results)

Lifecycle == INSTANCE ExperimentLifecycle WITH status <- status

(* Mutant of Judge: the verdict is written whatever the status. *)
JudgeAnyway(r) ==
    LET new == StatusOf(ExperimentVerdict(mem[r]))
    IN  /\ pc[r] = "trial"
        /\ mem[r].stop # "none" \/ Pending(mem[r]) = {}
        /\ status' = new
        /\ verdict' = [verdict EXCEPT ![r] = new]
        /\ pc' = [pc EXCEPT ![r] = "done"]
        /\ UNCHANGED <<rows, mem, crashes>>

(* The loops are over, or stopped early: the verdict, and the transition,  *)
(* which the store refuses once another process has judged.                *)
Judge(r) ==
    LET new == StatusOf(ExperimentVerdict(mem[r]))
    IN  /\ pc[r] = "trial"
        /\ mem[r].stop # "none" \/ Pending(mem[r]) = {}
        /\ \/ /\ new \in Lifecycle!Transitions[status]
              /\ status' = new
              /\ verdict' = [verdict EXCEPT ![r] = new]
              /\ pc' = [pc EXCEPT ![r] = "done"]
              /\ UNCHANGED mem
           \/ /\ new \notin Lifecycle!Transitions[status]
              /\ Dies(r)
              /\ UNCHANGED <<status, verdict>>
        /\ UNCHANGED <<rows, crashes>>

Crash(r) ==
    /\ pc[r] = "trial"
    /\ crashes < MaxCrashes
    /\ crashes' = crashes + 1
    /\ Dies(r)
    /\ UNCHANGED <<rows, status, verdict>>

Step(r) ==
    \/ Collide(r)
    \/ InvalidTrial(r)
    \/ \E R \in Outcomes : UncleanTrial(r, R) \/ CleanTrial(r, R)
    \/ Judge(r)

Next == \E r \in Runs : Start(r) \/ Step(r) \/ Crash(r)

Spec == Init /\ [][Next]_vars

-----------------------------------------------------------------------------
(* Replay *)

(* Mutant of Replay: trials that were found invalid are replayed too. *)
ReplayEverything == PolicyVerdict(UNION {rows[s].results : s \in {x \in Slots : HasRow(x) /\ x[2] = Judged}})

(* EvaluationExperimentRunner.replay, when only the judged variant carries  *)
(* the candidate's version: the rows of passed and failed trials.           *)
Replay ==
    PolicyVerdict(UNION {rows[s].results :
        s \in {x \in Slots : /\ HasRow(x) /\ x[2] = Judged
                             /\ rows[x].status \in {"passed", "failed"}}})

-----------------------------------------------------------------------------
(* Properties *)

(* A slot keeps one row with a stored outcome; a run counts and ends in one *)
(* of the declared ways (the schema, and EvaluationTrialMixin).             *)
TypeOK ==
    /\ rows \in [Slots -> Rows \cup {None}]
    /\ status \in Lifecycle!Statuses
    /\ pc \in [Runs -> {"idle", "trial", "done"}]
    /\ \A r \in Runs : /\ mem[r].at \in 1..(Length + 1)
                       /\ mem[r].seen \subseteq Slots
                       /\ mem[r].passed \subseteq Mutants
                       /\ mem[r].stop \in Stops
                       /\ verdict[r] \in {"none", "validated", "rejected", "inconclusive"}
    /\ crashes \in 0..MaxCrashes

(* Whether r judged trials of mutations it had run itself: those of an      *)
(* earlier run are counted the wrong way round, see Reload.                 *)
RanTheMutants(r) == \A s \in mem[r].seen : s[2] \notin Mutants

(* A candidate is validated on the required number of valid trials of every *)
(* task, of the candidate and of every mutation, none of which it survived, *)
(* and not one of its own valid results speaks against it, however often    *)
(* the run was interrupted (core/evaluation_policy.py, _experiment_governance). *)
ValidatedIsEarned ==
    \A r \in Runs : pc[r] = "done" /\ verdict[r] = "validated" /\ RanTheMutants(r) =>
        /\ \A v \in Mutants \cup {Judged}, t \in Range(Tasks) : ValidOf(v, t) >= Required
        /\ \A s \in Slots : HasRow(s) => rows[s].status # "mutation_survived"
        /\ \A s \in Slots : Valid(s) /\ s[2] = Judged =>
               \A x \in Authoritative(rows[s].results) : x.verdict = "pass" /\ ~x.gate

Cause(s) ==
    /\ Valid(s)
    /\ \/ rows[s].status = "mutation_survived"
       \/ s[2] = Judged /\ \E x \in Authoritative(rows[s].results) : x.verdict = "fail" \/ x.gate

(* A rejection rests on a stored valid trial: one the candidate failed, or  *)
(* one a mutation survived.  Invalid trials never reject                    *)
(* (the reasons _experiment_governance gives for FAIL).                     *)
RejectedForCause ==
    \A r \in Runs : pc[r] = "done" /\ verdict[r] = "rejected" /\ RanTheMutants(r) =>
        \E s \in Slots : Cause(s)

(* The same of a run that resumed an interrupted one: the stored counts it  *)
(* works with are those the first run made                                  *)
(* (docs/references/appworld-30-task-release-validation.md, lines 198-199). *)
ResumedRejectionHasCause ==
    \A r \in Runs : pc[r] = "done" /\ verdict[r] = "rejected" => \E s \in Slots : Cause(s)

(* A run that stops for want of valid trials could not have got them: the   *)
(* trials left for some task are fewer than the ones it lacks               *)
(* (candidate_validity_impossible).                                         *)
StopIsFinal ==
    \A r \in Runs : mem[r].stop = "insufficient" =>
        \E t \in Range(Tasks) :
            ValidOf(FastVariant, t)
              + Cardinality({n \in 1..Trials : ~HasRow(<<t, FastVariant, n>>)}) < Required

(* A replay of the stored rows promotes what the run validated, and fails   *)
(* what the run rejected for a failure of the candidate (replay works on    *)
(* the database, the run on its memory).                                    *)
ReplayAgrees ==
    \A r \in Runs : pc[r] = "done" =>
        /\ verdict[r] = "validated" => Replay = "pass"
        /\ verdict[r] = "rejected" /\ mem[r].stop = "candidate_failure" => Replay = "fail"

(* The status changes as the experiment store promises.                     *)
KeepsExperimentLifecycle == Lifecycle!Spec
=============================================================================

------------------------- MODULE MCEvaluationTrials -------------------------
(* Finite instances of EvaluationTrials for TLC. *)
EXTENDS EvaluationTrials, TLC

Symmetry == Permutations(Runs)

Direct == [by |-> "state", verdict |-> "pass", advisory |-> FALSE, grade |-> 3, gate |-> FALSE]

Passes == {Direct}

Fails == {[Direct EXCEPT !.verdict = "fail"]}

(* The judge is content, the evaluator that counts cannot tell. *)
Unresolved == {[Direct EXCEPT !.verdict = "unresolved"],
               [Direct EXCEPT !.advisory = TRUE, !.by = "judge"]}

AnyOutcome == {Passes, Fails, Unresolved}

OneTask == <<"t1">>

CandidateAndMutant == <<"parent", "candidate", "mutation">>
=============================================================================

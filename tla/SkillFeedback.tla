--------------------------- MODULE SkillFeedback ---------------------------
(***************************************************************************)
(* How the stored signals and judge scores of a skill's executions are     *)
(* collapsed into one decision: agent/skill_feedback.py, with the          *)
(* per-execution aggregation of agent/signal_collector.py.                 *)
(*                                                                         *)
(* An execution is a record with the fields                                *)
(*   sig   the user's signals for it (a subset of Signals)                 *)
(*   at    0 while no judge score is stored, else the time it was stored   *)
(*   score the judge score, in percent (meaningful when at # 0)            *)
(* Executions are in recording order, oldest first.                        *)
(*                                                                         *)
(* Data abstraction.  The signals are thumbs_up and thumbs_down, the       *)
(* strong tier that decides an execution's confidence alone whatever weak  *)
(* signals (copied, regenerated, ...) accompany it.  Confidences and       *)
(* averages are in thousandths, rounded down.                              *)
(***************************************************************************)
EXTENDS Integers, Sequences, FiniteSets, FiniteSetsExt

Signals == {"up", "down"}

(* Mean of the thumbs weights of one execution, in thousandths. *)
Confidence(sig) == IF sig = {"up"} THEN 1000 ELSE IF sig = {"down"} THEN -1000 ELSE 0

Scored(ex) == {i \in DOMAIN ex : ex[i].at # 0}

Signalled(ex) == {i \in DOMAIN ex : ex[i].sig # {}}

(* Executions that contribute any evidence. *)
Evidenced(ex) == Scored(ex) \cup Signalled(ex)

(* DECAY ** age with DECAY = 0.85 = 17/20, scaled to integers. *)
Decay(ex, i) == LET age == Len(ex) - i IN 17^age * 20^(i - 1)

WeightedMean(ex, S, value(_)) ==
    MapThenSumSet(LAMBDA i : Decay(ex, i) * value(i), S)
        \div MapThenSumSet(LAMBDA i : Decay(ex, i), S)

SignalSamples(ex) == MapThenSumSet(LAMBDA i : Cardinality(ex[i].sig), Signalled(ex))

TotalSamples(ex) == SignalSamples(ex) + Cardinality(Scored(ex))

SignalConfidence(ex) ==
    IF Signalled(ex) = {} THEN 0
    ELSE WeightedMean(ex, Signalled(ex), LAMBDA i : Confidence(ex[i].sig))

(* Decayed average of the judge scores, in thousandths. *)
AverageScore(ex) == WeightedMean(ex, Scored(ex), LAMBDA i : 10 * ex[i].score)

(* The mean of the confidences that exist, doubled to stay an integer. *)
TwiceCombined(ex) ==
    LET fromScores == 2 * AverageScore(ex) - 1000
    IN  IF Evidenced(ex) = {} THEN 0
        ELSE IF Scored(ex) = {} THEN 2 * SignalConfidence(ex)
        ELSE IF Signalled(ex) = {} THEN 2 * fromScores
        ELSE SignalConfidence(ex) + fromScores

(* Mutant of ShouldDisable: correlated signals of one execution suffice. *)
DisableOnOneExecution(ex) ==
    /\ TotalSamples(ex) >= 2
    /\ \/ TwiceCombined(ex) <= -700
       \/ Signalled(ex) # {} /\ SignalConfidence(ex) <= -500

ShouldDisable(ex) ==
    /\ TotalSamples(ex) >= 3
    /\ Cardinality(Evidenced(ex)) >= 2
    /\ \/ TwiceCombined(ex) <= -700
       \/ Signalled(ex) # {} /\ SignalConfidence(ex) <= -500
       \/ Cardinality(Scored(ex)) >= 2 /\ AverageScore(ex) <= 250

ShouldRewrite(ex) ==
    /\ ~ShouldDisable(ex)
    /\ TotalSamples(ex) >= 2
    /\ Cardinality(Evidenced(ex)) >= 2
    /\ \/ TwiceCombined(ex) >= 400
       \/ Signalled(ex) # {} /\ SignalConfidence(ex) >= 500
       \/ Scored(ex) # {} /\ AverageScore(ex) >= 700
=============================================================================

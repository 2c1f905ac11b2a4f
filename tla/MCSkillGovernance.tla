------------------------- MODULE MCSkillGovernance -------------------------
(* Finite instances of SkillGovernance for TLC. *)
EXTENDS SkillGovernance

(* A judge score below DisableBelow, one between the bounds, one that passes. *)
PoorFairGood == {20, 50, 90}

PoorFair == {20, 50}

(* A thumbs-down given and taken back. *)
Clickable == {{}, {"down"}}

(* Of the KPI policy states, the ones each decision of a run depends on. *)
Outcomes == { Calm,
              [Calm EXCEPT !.rewrite = TRUE],
              [Calm EXCEPT !.rollback = TRUE],
              [Calm EXCEPT !.severe = TRUE, !.rewrite = TRUE] }

(* KPI states that ask for nothing, for both kinds of change, or for a stop. *)
Regressions == { Calm,
                 [Calm EXCEPT !.rewrite = TRUE, !.rollback = TRUE],
                 [Calm EXCEPT !.severe = TRUE] }

OnlyScores == {"keep"}

(* KPI states that ask for nothing, or for a rewrite. *)
OnlyRewrites == {Calm, [Calm EXCEPT !.rewrite = TRUE]}
=============================================================================

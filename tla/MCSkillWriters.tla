--------------------------- MODULE MCSkillWriters ---------------------------
(* Finite instances of SkillWriters for TLC. *)
EXTENDS SkillWriters

(* A judge that is never content. *)
Fair == {50}

(* A score below DisableBelow, and one between the bounds. *)
PoorFair == {20, 50}

DownOnly == {{"down"}}

OnlyScores == {"keep"}

Quietly == {Calm}

Regression == {[Calm EXCEPT !.rewrite = TRUE, !.rollback = TRUE]}
=============================================================================

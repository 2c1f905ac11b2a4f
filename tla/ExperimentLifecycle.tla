------------------------ MODULE ExperimentLifecycle ------------------------
(* What the experiment store promises of one row of                        *)
(* skill_version_experiments, whoever works with it: it starts as a        *)
(* candidate and changes its status along the table of the store only, so  *)
(* a candidate that was rejected, left inconclusive or rolled back stays   *)
(* that way, and only a promoted candidate is rolled back.                 *)
VARIABLE status

Open == {"validated", "shadow", "canary"}

Statuses == Open \cup {"candidate", "rejected", "inconclusive", "promoted", "rolled_back"}

(* EXPERIMENT_TRANSITIONS *)
Transitions ==
    [ candidate    |-> {"validated", "rejected", "inconclusive"},
      validated    |-> {"shadow", "canary", "promoted", "rejected"},
      shadow       |-> {"canary", "promoted", "rejected"},
      canary       |-> {"promoted", "rejected"},
      promoted     |-> {"rolled_back"},
      rejected     |-> {},
      inconclusive |-> {},
      rolled_back  |-> {} ]

Init == status = "candidate"

Transition(s) ==
    /\ s \in Transitions[status]
    /\ status' = s

Next == \E s \in Statuses : Transition(s)

Spec == Init /\ [][Next]_status
=============================================================================

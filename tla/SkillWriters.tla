---------------------------- MODULE SkillWriters ----------------------------
(***************************************************************************)
(* Everyone who writes one emerged skill: serve with its turns, its        *)
(* feedback requests and its emergence attempts, `evidune run`, and the    *)
(* `evidune eval` commands.  SkillGovernance, SkillExperiments and         *)
(* SkillEmergence share the file, the rows and the registry; none of them  *)
(* knows of the others.                                                    *)
(***************************************************************************)
EXTENDS SkillExperiments, SkillEmergence

CONSTANT Apart    \* whether the operator's commands run only while serve is stopped

ASSUME ApartAssumption == Apart \in BOOLEAN

(* A synthesized package has its contract in the frontmatter of SKILL.md,  *)
(* and a rewrite keeps the frontmatter.                                    *)
ASSUME PackageAssumption == Versioned /\ ~ContractInRow

WritersInit == Init /\ ExperimentsInit /\ EmergenceInit

writers == <<vars, xvars, evars>>

ServeIdle == (\A p \in Serve : pc[p] = "idle") /\ \A a \in Attempts : stage[a] = "idle"

(* serve starts, and runs its turns and requests when no attempt holds its  *)
(* event loop.                                                              *)
ServeStep ==
    /\ \/ Start /\ (Apart => \A r \in Runs : pc[r] = "idle")
       \/ /\ Quiet
          /\ \/ \E t \in Turns : Prune(t) \/ Turn(t)
             \/ \E i \in DOMAIN execs, sig \in Clicks : Feedback(i, sig)
             \/ Apply(Web) \/ Reload(Web)
    /\ UNCHANGED <<xvars, evars>>

ServeDies == Crash /\ EmergenceStops /\ UNCHANGED xvars

(* serve is stopped between turns. *)
ServeStops ==
    /\ up /\ ServeIdle
    /\ up' = FALSE
    /\ registry' = Unregistered
    /\ bare' = {}
    /\ UNCHANGED <<file, nextBody, db, pc, held, seen, exec, packet, plan, xvars, evars>>

(* A process of the operator that does not evaluate runs `evidune run`. *)
RunStep ==
    /\ Apart => ~up
    /\ \E r \in Runs :
         /\ r \in Evals => brief[r] = NoBrief
         /\ RunLoad(r) \/ Run(r) \/ RunCrash(r)
    /\ UNCHANGED <<xvars, evars>>

EvalStep ==
    /\ Apart => ~up
    /\ \E c \in Evals : Eval(c)
    /\ UNCHANGED evars

EmergenceStep == (\E a \in Attempts : Emerge(a)) /\ UNCHANGED xvars

WritersNext == ServeStep \/ ServeDies \/ ServeStops \/ RunStep \/ EvalStep \/ EmergenceStep

WritersSpec == WritersInit /\ [][WritersNext]_writers

-----------------------------------------------------------------------------
(* Properties *)

Actions == Decisions \cup EmergenceActions \cup {"candidate", "reject", "promote"}

(* Every row, event and label is one the schema and the commands know.      *)
WritersTypeOK ==
    /\ file \in Content /\ nextBody \in Nat
    /\ status \in Statuses \cup {"none"}
    /\ \A i \in DOMAIN events : /\ events[i].action \in Actions
                                /\ events[i].before \in Content /\ events[i].after \in Content
    /\ execs \in Seq(Execution)
    /\ registry \in [in : BOOLEAN, skill : Content, status : Statuses]
    /\ pc \in [Actors -> Awaiting \cup Holding \cup {"loaded", "seen"} \cup EvalLabels]
    /\ experiments \in Seq(Experiment)
    /\ brief \in [Evals -> Brief]
    /\ stage \in [Attempts -> AwaitingModel \cup HoldingLoop]
    /\ draft \in [Attempts -> Draft]

WritersSettled == Quiet /\ \A p \in Actors : pc[p] \in Awaiting \cup {"proposing", "testing"}

Writings == {c \in DOMAIN events : events[c].action \in
                {"rewrite", "refresh", "rollback", "update", "activate", "activation_failed", "promote"}}

(* As long as nothing crashes and evaluations wait for serve to stop, one   *)
(* history tells the content of the skill: between decisions the file is    *)
(* what the last recorded writer left, whichever of the four it was.        *)
OneHistory ==
    WritersSettled =>
        IF Writings = {} THEN file = Installed
        ELSE file = events[Max(Writings)].after

(* Under the same conditions an observing skill is the rewrite that opened  *)
(* the window: an update, a promotion or a staged candidate closes it, so   *)
(* no verdict judges what somebody else wrote.                              *)
ObservedIsLive ==
    WritersSettled /\ status = "observing" =>
        /\ LatestRewrite(Len(events)) # 0
        /\ events[LatestRewrite(Len(events))].after = file

(* serve uses what is stored: a skill that is not disabled is registered    *)
(* with what an attempt, a turn or, while serve was stopped, a command      *)
(* left.  (A disabled one may stay registered until the next turn prunes.)  *)
LiveIsStored ==
    up /\ WritersSettled /\ status # "disabled" => registry.in /\ registry.skill = file

(* README.md, line 277: "Candidates never overwrite the active SKILL.md     *)
(* while they are being generated or tested."  Whoever writes, crashes or   *)
(* races, content that is a candidate's is live only once it was validated. *)
LiveCandidatesAreValidated ==
    \A e \in DOMAIN experiments : file = experiments[e].candidate =>
        \E x \in DOMAIN experiments : /\ experiments[x].candidate = file
                                      /\ experiments[x].status \in {"validated", "promoted"}

(* A promotion replaced the very content its candidate was derived from and *)
(* tested against (docs/product-specs/skill-iteration.md, line 146: "later  *)
(* promotion still verifies that the active parent digest has not changed").*)
PromotionsReplaceTheirParent ==
    \A c \in DOMAIN events : events[c].action = "promote" =>
        \E x \in DOMAIN experiments : /\ experiments[x].candidate = events[c].after
                                      /\ experiments[x].parent = events[c].before
                                      /\ experiments[x].status \in {"promoted", "rolled_back"}

(* A candidate that is live can be taken back: its experiment was promoted, *)
(* so rollback() accepts it.  (A crash between the file and the transition  *)
(* strands it, validated but live: FindingStrandedCandidate.)               *)
LiveCandidatesArePromoted ==
    WritersSettled => \A e \in DOMAIN experiments : file = experiments[e].candidate =>
        \E x \in DOMAIN experiments : /\ experiments[x].candidate = file
                                      /\ experiments[x].status = "promoted"

(* What a promotion overwrites is the parent its checks saw: no other       *)
(* writer changes the skill between the check and the write.                *)
PromotionOverwritesParent ==
    [][\A c \in Evals : pc[c] = "promote_file" /\ pc'[c] = "promote_mark" => file = held[c]]_writers

(* Every experiment changes its status as the store promises, also when     *)
(* several commands work on it.                                             *)
KeepsExperimentLifecycles ==
    /\ \A e \in 1..MaxExperiments : Lifecycle(e)!Init
    /\ [][\A e \in 1..MaxExperiments :
             Lifecycle(e)!Next \/ UNCHANGED StatusOfExperiment(e)]_experiments

(* A disabled skill is "removed from matching but preserved for audit"      *)
(* (docs/product-specs/skill-iteration.md, lines 118-119).                  *)
DisabledIsPreserved == [][status = "disabled" => file' = file]_writers
=============================================================================

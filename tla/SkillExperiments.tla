-------------------------- MODULE SkillExperiments --------------------------
(***************************************************************************)
(* `evidune eval` on the skill that SkillGovernance governs: candidates    *)
(* are staged from its evidence, judged, promoted into SKILL.md and taken  *)
(* back, each command in a process of its own that shares the file and the *)
(* database with serve and with `evidune run`.                             *)
(*                                                                         *)
(*   experiments  skill_version_experiments, oldest first                  *)
(*   brief        what a command knows besides its packet                  *)
(*                                                                         *)
(* How a command judges a candidate is EvaluationTrials; here a judgement  *)
(* is any verdict.  Candidates have frontmatter (promote() demands it) and *)
(* a version of their own, a time stamp.                                   *)
(***************************************************************************)
EXTENDS SkillGovernance

CONSTANTS
    Evals,             \* the `evidune eval` commands, among the Runs
    MaxExperiments     \* bound of the model

ASSUME EvalsAssumption == Evals \subseteq Runs /\ MaxExperiments \in Nat

VARIABLES experiments, brief

xvars == <<experiments, brief>>

Experiment ==
    [ status    : {"candidate", "validated", "rejected", "inconclusive", "promoted", "rolled_back"},
      parent    : Content,          \* parent_content, and what parent_digest is of
      candidate : Content,
      sources   : SUBSET Nat ]      \* source_execution_ids

Brief == [exp : Nat, disable : BOOLEAN, sources : SUBSET Nat]

NoBrief == [exp |-> 0, disable |-> FALSE, sources |-> {}]

ExperimentsInit ==
    /\ experiments = <<>>
    /\ brief = [c \in Evals |-> NoBrief]

-----------------------------------------------------------------------------
StatusOfExperiment(e) == IF e \in DOMAIN experiments THEN experiments[e].status ELSE "candidate"

Lifecycle(e) == INSTANCE ExperimentLifecycle WITH status <- StatusOfExperiment(e)

(* transition_skill_experiment: a transition that is not in the table raises. *)
MayBecome(e, new) == new \in Lifecycle(e)!Transitions[experiments[e].status]

Transitioned(e, new) == [experiments EXCEPT ![e].status = new]

(* list_skill_experiments(status="candidate", limit=1) *)
OpenCandidates == {e \in DOMAIN experiments : experiments[e].status = "candidate"}

(* _source_execution_ids: the judged executions of the packet, or else all  *)
(* of them, as far as they ran the version it is about, none (0), or that   *)
(* of a rejected candidate.                                                 *)
Sources(ver) ==
    LET rejected == {experiments[e].candidate.ver :
                       e \in {x \in DOMAIN experiments : experiments[x].status = "rejected"}}
    IN  {i \in (IF Judged # {} THEN Judged ELSE DOMAIN execs) : execs[i].ver \in {ver, 0} \cup rejected}

FreshVersion == 10 * (Len(experiments) + 1)

-----------------------------------------------------------------------------
(* Commands *)

(* The command is over, done or failed. *)
Leave(c) ==
    /\ Release(c)
    /\ brief' = [brief EXCEPT ![c] = NoBrief]

(* eval iterate reads its packet ... *)
Iterate(c) ==
    /\ pc[c] = "idle"
    /\ Room /\ Len(experiments) < MaxExperiments
    /\ \E typed \in TypedDecisions :
         packet' = [packet EXCEPT ![c] = BuildPacket("eval", file.ver, typed, Calm, FALSE)]
    /\ brief' = [brief EXCEPT ![c] = [exp |-> 0, disable |-> ShouldDisable(RecentExecs),
                                      sources |-> Sources(file.ver)]]
    /\ Goto(c, "proposing")
    /\ UNCHANGED <<file, nextBody, db, up, registry, bare, held, seen, exec, plan, experiments>>

(* ... perhaps asks the rewriter, and decides: an open candidate is kept or *)
(* rejected, a rewrite becomes a candidate, anything else is applied to the *)
(* skill as serve would.                                                    *)
Propose(c) ==
    /\ pc[c] = "proposing"
    /\ IF OpenCandidates # {}
       THEN LET e == Max(OpenCandidates)
            IN  /\ IF (packet[c].execution = "disable" \/ brief[c].disable) /\ MayBecome(e, "rejected")
                   THEN /\ experiments' = Transitioned(e, "rejected")
                        /\ Goto(c, "reject_event")
                        /\ UNCHANGED <<held, seen, exec, packet, plan, brief>>
                   ELSE Leave(c) /\ UNCHANGED experiments
                /\ UNCHANGED nextBody
       ELSE \E d \in Reviewed(packet[c]) :
            CASE d = "keep" -> Leave(c) /\ UNCHANGED <<nextBody, experiments>>
              [] d = "rewrite" ->
                   /\ experiments' = Append(experiments,
                          [status |-> "candidate", parent |-> packet[c].current,
                           candidate |-> [ver |-> FreshVersion, body |-> nextBody],
                           sources |-> brief[c].sources])
                   /\ nextBody' = nextBody + 1
                   /\ brief' = [brief EXCEPT ![c].exp = Len(experiments')]
                   /\ Goto(c, "stage_state")
                   /\ UNCHANGED <<held, seen, exec, packet, plan>>
              [] OTHER ->
                   /\ plan' = [plan EXCEPT ![c] = [decision |-> d, after |-> Outcome(packet[c], d)]]
                   /\ Goto(c, IF d = "rollback" THEN "write_file" ELSE "write_state")
                   /\ UNCHANGED <<nextBody, held, seen, exec, packet, experiments, brief>>
    /\ UNCHANGED <<file, db, up, registry, bare>>

(* _stage_candidate sets the skill active, whatever it was, ... *)
StageState(c) ==
    /\ pc[c] = "stage_state"
    /\ status' = "active"
    /\ Goto(c, "stage_event")
    /\ UNCHANGED <<file, nextBody, events, execs, windows, up, registry, bare, held, seen, exec, packet, plan, xvars>>

LogEvent(action, before, after) ==
    events' = Append(events, [action |-> action, before |-> before, after |-> after, at |-> Now])

LogAndLeave(c, action, before, after) ==
    /\ LogEvent(action, before, after)
    /\ Leave(c)
    /\ UNCHANGED <<file, nextBody, status, execs, windows, up, registry, bare, experiments>>

StageEvent(c) ==
    /\ pc[c] = "stage_event"
    /\ LogAndLeave(c, "candidate", packet[c].current, experiments[brief[c].exp].candidate)

RejectEvent(c) ==
    /\ pc[c] = "reject_event"
    /\ LogAndLeave(c, "reject", packet[c].current, packet[c].current)

(* The decisions of eval iterate that change the skill itself. *)
ApplyDirectly(c) ==
    /\ WriteFile(c) \/ WriteState(c) \/ WriteEvent(c) \/ WriteFails(c)
    /\ IF pc'[c] = "idle" THEN brief' = [brief EXCEPT ![c] = NoBrief] ELSE UNCHANGED brief
    /\ UNCHANGED experiments

(* Mutant of Evaluate: a judged candidate is judged again in its own row. *)
EvaluateAgain(c, e) ==
    /\ pc[c] = "idle"
    /\ experiments[e].parent = file
    /\ experiments[e].status \in {"candidate", "rejected", "inconclusive"}
    /\ experiments' = [experiments EXCEPT ![e].status = "candidate"]
    /\ brief' = [brief EXCEPT ![c].exp = e]
    /\ Goto(c, "testing")
    /\ UNCHANGED <<file, nextBody, db, up, registry, bare, held, seen, exec, packet, plan>>

(* eval run binds a candidate whose parent still is the active skill; one   *)
(* that was rejected or left inconclusive is run again as a new experiment. *)
Evaluate(c, e) ==
    /\ pc[c] = "idle"
    /\ experiments[e].parent = file
    /\ \/ /\ experiments[e].status = "candidate"
          /\ UNCHANGED experiments
          /\ brief' = [brief EXCEPT ![c].exp = e]
       \/ /\ experiments[e].status \in {"rejected", "inconclusive"}
          /\ Len(experiments) < MaxExperiments
          /\ experiments' = Append(experiments, [experiments[e] EXCEPT !.status = "candidate"])
          /\ brief' = [brief EXCEPT ![c].exp = Len(experiments')]
    /\ Goto(c, "testing")
    /\ UNCHANGED <<file, nextBody, db, up, registry, bare, held, seen, exec, packet, plan>>

(* Its verdict; the store refuses it when another command judged meanwhile. *)
Conclude(c, new) ==
    /\ pc[c] = "testing"
    /\ experiments' = IF MayBecome(brief[c].exp, new) THEN Transitioned(brief[c].exp, new) ELSE experiments
    /\ Leave(c)
    /\ UNCHANGED <<file, nextBody, db, up, registry, bare>>

(* Mutant of Promote: the status of the experiment is not checked. *)
PromoteUnvalidated(c, e) ==
    /\ pc[c] = "idle"
    /\ Room
    /\ experiments[e].sources # {}
    /\ experiments[e].parent = file
    /\ held' = [held EXCEPT ![c] = file]
    /\ brief' = [brief EXCEPT ![c].exp = e]
    /\ Goto(c, "promote_file")
    /\ UNCHANGED <<file, nextBody, db, up, registry, bare, seen, exec, packet, plan, experiments>>

(* Mutant of Promote: the active parent is not looked at. *)
PromoteStale(c, e) ==
    /\ pc[c] = "idle"
    /\ Room
    /\ experiments[e].status = "validated"
    /\ experiments[e].sources # {} /\ experiments[e].sources \subseteq DOMAIN execs
    /\ held' = [held EXCEPT ![c] = file]
    /\ brief' = [brief EXCEPT ![c].exp = e]
    /\ Goto(c, "promote_file")
    /\ UNCHANGED <<file, nextBody, db, up, registry, bare, seen, exec, packet, plan, experiments>>

(* promote(): the checks, on a policy that asks for source executions,      *)
Promote(c, e) ==
    /\ pc[c] = "idle"
    /\ Room
    /\ experiments[e].status = "validated"
    /\ experiments[e].sources # {} /\ experiments[e].sources \subseteq DOMAIN execs
    /\ experiments[e].parent = file
    /\ held' = [held EXCEPT ![c] = file]
    /\ brief' = [brief EXCEPT ![c].exp = e]
    /\ Goto(c, "promote_file")
    /\ UNCHANGED <<file, nextBody, db, up, registry, bare, seen, exec, packet, plan, experiments>>

(* rollback(): the checks, *)
Withdraw(c, e) ==
    /\ pc[c] = "idle"
    /\ Room
    /\ experiments[e].status = "promoted"
    /\ experiments[e].candidate = file
    /\ held' = [held EXCEPT ![c] = file]
    /\ brief' = [brief EXCEPT ![c].exp = e]
    /\ Goto(c, "withdraw_file")
    /\ UNCHANGED <<file, nextBody, db, up, registry, bare, seen, exec, packet, plan, experiments>>

(* then the file, *)
InstallFile(c) ==
    LET e == experiments[brief[c].exp]
    IN  /\ \/ pc[c] = "promote_file" /\ file' = e.candidate /\ Goto(c, "promote_mark")
           \/ pc[c] = "withdraw_file" /\ file' = e.parent /\ Goto(c, "withdraw_mark")
        /\ UNCHANGED <<nextBody, db, up, registry, bare, held, seen, exec, packet, plan, xvars>>

(* then the experiment, which fails when another command was faster,        *)
Mark(c) ==
    LET e == brief[c].exp
        new == IF pc[c] = "promote_mark" THEN "promoted" ELSE "rolled_back"
    IN  /\ pc[c] \in {"promote_mark", "withdraw_mark"}
        /\ IF MayBecome(e, new)
           THEN /\ experiments' = Transitioned(e, new)
                /\ Goto(c, IF new = "promoted" THEN "promote_state" ELSE "withdraw_event")
                /\ UNCHANGED <<held, seen, exec, packet, plan, brief>>
           ELSE Leave(c) /\ UNCHANGED experiments
        /\ UNCHANGED <<file, nextBody, db, up, registry, bare>>

(* then for a promotion the state row and the event, *)
PromoteState(c) ==
    /\ pc[c] = "promote_state"
    /\ status' = "active"
    /\ Goto(c, "promote_event")
    /\ UNCHANGED <<file, nextBody, events, execs, windows, up, registry, bare, held, seen, exec, packet, plan, xvars>>

PromoteEvent(c) ==
    /\ pc[c] = "promote_event"
    /\ LogAndLeave(c, "promote", held[c], experiments[brief[c].exp].candidate)

(* for a rollback the event and the state row. *)
WithdrawEvent(c) ==
    /\ pc[c] = "withdraw_event"
    /\ LogEvent("rollback", held[c], experiments[brief[c].exp].parent)
    /\ Goto(c, "withdraw_state")
    /\ UNCHANGED <<file, nextBody, status, execs, windows, up, registry, bare, held, seen, exec, packet, plan, xvars>>

WithdrawState(c) ==
    /\ pc[c] = "withdraw_state"
    /\ status' = "active"
    /\ Leave(c)
    /\ UNCHANGED <<file, nextBody, events, execs, windows, up, registry, bare, experiments>>

(* The process dies, or a write raises: what was written stays. *)
EvalStops(c) ==
    /\ Crashes \/ Failures
    /\ pc[c] # "idle"
    /\ Leave(c)
    /\ UNCHANGED <<file, nextBody, db, up, registry, bare, experiments>>

Eval(c) ==
    \/ Iterate(c) \/ Propose(c) \/ StageState(c) \/ StageEvent(c) \/ RejectEvent(c) \/ ApplyDirectly(c)
    \/ \E e \in DOMAIN experiments : Evaluate(c, e) \/ Promote(c, e) \/ Withdraw(c, e)
    \/ \E new \in {"validated", "rejected", "inconclusive"} : Conclude(c, new)
    \/ InstallFile(c) \/ Mark(c) \/ PromoteState(c) \/ PromoteEvent(c)
    \/ WithdrawEvent(c) \/ WithdrawState(c) \/ EvalStops(c)

EvalLabels ==
    {"proposing", "stage_state", "stage_event", "reject_event", "testing",
     "promote_file", "promote_mark", "promote_state", "promote_event",
     "withdraw_file", "withdraw_mark", "withdraw_event", "withdraw_state"}
=============================================================================

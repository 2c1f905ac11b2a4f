---------------------------- MODULE SwarmHarness ----------------------------
(***************************************************************************)
(* One swarm task: a planner, workers and a critic in at most two rounds,  *)
(* then a synthesizer.  Each role is a coroutine that asks the model and   *)
(* runs the tools it asks for; tools work on the task's environment, on    *)
(* the git tree, and on the task's row and artifacts in the store.  The    *)
(* conversation of the task may be deleted under it.                       *)
(*                                                                         *)
(*   row        the row of harness_tasks                                   *)
(*   artifacts  harness_artifacts in order; the id is the index            *)
(*   run        the coroutine of the task, with the task it holds          *)
(*   browser    a browser has been started for the environment             *)
(*   comments   the review comments in delivery/state.json: are they       *)
(*              answered                                                   *)
(***************************************************************************)
EXTENDS RuntimeEnvironment, DeliveryPipeline

CONSTANTS
    Task,             \* the task, as a deliverer
    Stored,           \* conversations.squad_profile, "" if there is none
    Fitting,          \* the squads that the text of a turn may ask for
    MaxBranches,      \* agent.harness.max_worker_branches
    MaxRounds,        \* agent.harness.max_rounds
    TokenBudget,      \* agent.harness.token_budget, 0: none
    CallBudget,       \* agent.harness.tool_call_budget, 0: none
    ManifestSize,     \* how many items of a kind the manifest keeps
    Execute,          \* the mode of the turn is "execute"
    Offered,          \* the tools that are configured
    Tokens,           \* what a role may use; a bound of the model
    MaxCalls,         \* calls of a role; a bound of the model
    MaxTools          \* calls of all roles; a bound of the model

(* builtin_squad_profiles: the worker branches of the squads. *)
BranchesOf == [general |-> 1, research |-> 2, execution |-> 1, iteration |-> 1]

ASSUME SwarmAssumption ==
    /\ Task \in Deliverers /\ Execute \in BOOLEAN
    /\ Fitting \subseteq DOMAIN BranchesOf     \* _resolve_squad knows no others
    /\ {MaxBranches, ManifestSize} \subseteq Nat \ {0}
    /\ {MaxRounds, TokenBudget, CallBudget, MaxCalls, MaxTools} \subseteq Nat
    /\ Tokens \subseteq Nat \ {0}

VARIABLES row, artifacts, run, browser, comments

wvars == <<service, onFile, call, head, commits, staged, delivery, browser, comments>>
svars == <<row, artifacts, run, browser, comments>>
vars  == <<wvars, row, artifacts, run>>

-----------------------------------------------------------------------------
(* _resolve_squad: the conversation's squad, else one that fits the turn. *)
SquadFor(fitting) ==
    CASE Stored = "" -> fitting
      [] Stored # "" /\ Stored \in DOMAIN BranchesOf -> Stored
      [] OTHER -> "general"

Rounds == IF MaxRounds >= 2 THEN 2 ELSE 1
WorkersOf(squad) == IF BranchesOf[squad] < MaxBranches THEN BranchesOf[squad] ELSE MaxBranches

EnvironmentTools == {"health", "up", "restart", "down"}
UiTools  == {"open", "navigate", "snapshot", "screenshot"}
ReadOnly == {"health", "ask", "sweep"}
Mutating == EnvironmentTools \cup UiTools \cup {"assert", "deliver", "comment", "respond"}

(* harness_tools, _swarm_tool_registries: who is given which tools. *)
ToolsOf(role) ==
    Offered \cap ( (IF role # "synthesizer" THEN ReadOnly ELSE {})
                     \cup (IF role = "worker" /\ Execute THEN Mutating ELSE {}) )

(* The artifacts that tools record, by kind. *)
KindOf ==
    [up |-> "environment", restart |-> "environment", open |-> "ui-open",
     navigate |-> "ui-nav", snapshot |-> "ui-snapshot", screenshot |-> "screenshot",
     assert |-> "assertion", deliver |-> "delivery", sweep |-> "maintenance"]

ToolKinds == {KindOf[t] : t \in DOMAIN KindOf}

Artifact(kind, accepted) == [kind |-> kind, accepted |-> accepted, there |-> TRUE]

NoRow ==
    [there |-> FALSE, status |-> "none", decision |-> "none", accepted |-> <<>>,
     rejected |-> <<>>, validation |-> "pending", manifest |-> [k \in ToolKinds |-> <<>>],
     environment |-> "none", delivered |-> 0, comments |-> <<>>]

Idle ==
    [at |-> "idle", squad |-> "general", role |-> "planner", worker |-> 0, round |-> 0, asked |-> "none",
     traced |-> 0, latest |-> <<>>, rejected |-> <<>>, accepted |-> <<>>,
     decision |-> "keep", status |-> "running", tokens |-> 0, calls |-> 0,
     late |-> FALSE, over |-> <<>>]

SwarmInit ==
    /\ row = NoRow
    /\ artifacts = <<>>
    /\ run = Idle
    /\ browser = FALSE
    /\ comments = <<>>

-----------------------------------------------------------------------------
(* _consume_budget *)
Consumed(r, tokens) == [r EXCEPT !.tokens = @ + tokens, !.calls = @ + r.traced]

(* _budget_exhausted *)
Exhausted(r) ==
    \/ TokenBudget > 0 /\ r.tokens >= TokenBudget
    \/ CallBudget > 0 /\ r.calls >= CallBudget
    \/ r.late

(* A role is started; "over" keeps those started with the budget used up. *)
Asks(r, role) ==
    [r EXCEPT !.at = "role", !.role = role, !.traced = 0,
              !.over = IF Exhausted(r) THEN Append(@, role) ELSE @]

(* Without an accepted output the first of the last outputs is taken. *)
Converge(r) ==
    LET first == IF r.latest = <<>> THEN <<>> ELSE <<Head(r.latest)>>
    IN  Asks([r EXCEPT !.accepted = IF @ = <<>> THEN first ELSE @], "synthesizer")

StopsShort(r) == Converge([r EXCEPT !.status = "partial"])

Answering(role) ==
    /\ run.at = "role"
    /\ run.role = role
    /\ UNCHANGED wvars

(* create_harness_task *)
NewRow ==
    [NoRow EXCEPT !.there = TRUE, !.status = "running", !.environment = "provisioned"]

(* _run_swarm: an environment, a row, and the first planner. *)
StartTask(fitting) ==
    /\ run.at = "idle"
    /\ row' = NewRow
    /\ run' = Asks([run EXCEPT !.squad = SquadFor(fitting), !.round = 1], "planner")
    /\ UNCHANGED <<wvars, artifacts>>

(* update_harness_task: the row becomes r, if it is there. *)
UpdateTask(r) == row' = IF row.there THEN r ELSE row

(* record_harness_artifact, by a role or a tool *)
Record(as, kind, accepted) == artifacts' = Append(as, Artifact(kind, accepted))

(* set_harness_artifact_accepted, for each of the ids. *)
Flagged(ids) ==
    [i \in DOMAIN artifacts |->
       IF \E n \in DOMAIN ids : ids[n] = i
         THEN [artifacts[i] EXCEPT !.accepted = TRUE] ELSE artifacts[i]]

\* A mutant: the outputs of the round before are not dropped.
PlannerKeepsOutputs(tokens) ==
    LET r == Consumed(run, tokens)
    IN  /\ Answering("planner")
        /\ Record(artifacts, "plan", TRUE)
        /\ run' = IF Exhausted(r) THEN StopsShort(r)
                  ELSE Asks([r EXCEPT !.worker = 1], "worker")
        /\ UNCHANGED row

PlannerAnswers(tokens) ==
    LET r == Consumed(run, tokens)
    IN  /\ Answering("planner")
        /\ Record(artifacts, "plan", TRUE)
        /\ run' = IF Exhausted(r) THEN StopsShort(r)
                  ELSE Asks([r EXCEPT !.worker = 1, !.latest = <<>>], "worker")
        /\ UNCHANGED row

(* The validation that the critic sees: that of the row, whichever round's; *)
(* pending when the row is gone.                                            *)
Validation == Artifact("validation", ~row.there \/ row.validation # "failed")

\* A mutant: the budget is looked at after the last branch only.
WorkerUnchecked(tokens) ==
    LET r == [Consumed(run, tokens) EXCEPT !.latest = Append(@, Len(artifacts) + 1)]
        worked == Append(artifacts, Artifact("work", FALSE))
    IN  /\ Answering("worker")
        /\ \/ /\ run.worker < WorkersOf(run.squad)
              /\ artifacts' = worked
              /\ run' = Asks([r EXCEPT !.worker = @ + 1], "worker")
           \/ /\ run.worker = WorkersOf(run.squad)
              /\ Exhausted(r)
              /\ artifacts' = worked
              /\ run' = StopsShort(r)
           \/ /\ run.worker = WorkersOf(run.squad)
              /\ ~Exhausted(r)
              /\ artifacts' = Append(worked, Validation)
              /\ run' = Asks(r, "critic")
        /\ UNCHANGED row

WorkerAnswers(tokens) ==
    LET r == [Consumed(run, tokens) EXCEPT !.latest = Append(@, Len(artifacts) + 1)]
        worked == Append(artifacts, Artifact("work", FALSE))
    IN  /\ Answering("worker")
        /\ \/ /\ Exhausted(r)
              /\ artifacts' = worked
              /\ run' = StopsShort(r)
           \/ /\ ~Exhausted(r) /\ run.worker < WorkersOf(run.squad)
              /\ artifacts' = worked
              /\ run' = Asks([r EXCEPT !.worker = @ + 1], "worker")
           \/ /\ ~Exhausted(r) /\ run.worker = WorkersOf(run.squad)
              /\ artifacts' = Append(worked, Validation)
              /\ run' = Asks(r, "critic")
        /\ UNCHANGED row

(* _critic_accepts *)
CriticAccepts(tokens) ==
    LET r == Consumed(run, tokens)
    IN  /\ Answering("critic")
        /\ Record(Flagged(r.latest), "review", TRUE)
        /\ run' = Converge([r EXCEPT !.accepted = r.latest, !.decision = "accept",
                                     !.rejected = <<>>])
        /\ UNCHANGED row

CriticRejects(tokens) ==
    LET r == [Consumed(run, tokens) EXCEPT !.decision = "rework", !.rejected = run.latest]
    IN  /\ Answering("critic")
        /\ Record(artifacts, "review", TRUE)
        /\ run' = IF r.round < Rounds
                    THEN Asks([r EXCEPT !.round = @ + 1], "planner")
                    ELSE StopsShort(r)
        /\ UNCHANGED row

\* A mutant: the row of the start of the task is written back over the tools'.
SynthesizerWritesItsCopy(tokens) ==
    LET r == Consumed(run, tokens)
        status == IF r.status = "running" /\ r.decision = "accept" THEN "completed" ELSE "partial"
    IN  /\ Answering("synthesizer")
        /\ Record(artifacts, "final", TRUE)
        /\ run' = [r EXCEPT !.at = "done", !.status = status]
        /\ UpdateTask([NewRow EXCEPT !.status = status, !.decision = r.decision,
                                     !.accepted = r.accepted, !.rejected = r.rejected])

(* The answer, and the final update of the row. *)
SynthesizerAnswers(tokens) ==
    LET r == Consumed(run, tokens)
        status == CASE r.status # "running" -> r.status
                    [] r.status = "running" /\ r.decision = "accept" -> "completed"
                    [] OTHER -> "partial"
    IN  /\ Answering("synthesizer")
        /\ Record(artifacts, "final", TRUE)
        /\ run' = [r EXCEPT !.at = "done", !.status = status]
        /\ UpdateTask([row EXCEPT !.status = status, !.decision = r.decision,
                                  !.accepted = r.accepted, !.rejected = r.rejected])

(* The model raises, and the turn with it: nobody updates the row. *)
RoleFails ==
    /\ Answering(run.role)
    /\ run' = [run EXCEPT !.at = "failed"]
    /\ UNCHANGED <<row, artifacts>>

TimeRunsOut ==
    /\ run.at \in {"role", "tool"}
    /\ ~run.late
    /\ run' = [run EXCEPT !.late = TRUE]
    /\ UNCHANGED <<wvars, row, artifacts>>

-----------------------------------------------------------------------------
(* ToolRegistry.execute: the handler of a tool, up to its thread. *)
CallTool(tool) ==
    /\ run.at = "role"
    /\ tool \in ToolsOf(run.role)
    /\ run.traced < MaxCalls /\ run.calls + run.traced < MaxTools
    /\ run' = [run EXCEPT !.at = "tool", !.asked = tool]
    /\ CASE tool = "health" -> CallHealth(Tool)
         [] tool = "up" -> CallUp(Tool)
         [] tool = "down" -> CallDown(Tool, FALSE)
         [] tool = "restart" -> CallDown(Tool, TRUE)
         [] OTHER -> UNCHANGED evars
    /\ IF tool = "deliver" THEN StartDelivery(Task) ELSE UNCHANGED dvars
    /\ UNCHANGED <<row, artifacts, browser, comments>>

Raised(tool) ==
    \/ tool \in EnvironmentTools /\ call[Tool].status = "error"
    \/ tool = "deliver" /\ delivery[Task].raised

(* The handler of one of the tools goes on after its thread or its awaits;  *)
(* artifact, manifest and summaries are then written in one go.             *)
AfterTool(tools) ==
    /\ run.at = "tool"
    /\ run.asked \in tools
    /\ call[Tool].at = "rest" /\ delivery[Task].at = "rest"
    /\ run' = [run EXCEPT !.at = "role", !.asked = "none", !.traced = @ + 1]
    /\ call' = [call EXCEPT ![Tool] = AtRest]
    /\ UNCHANGED <<service, onFile, head, commits, staged, delivery>>

(* _record_artifact of the tools *)
RecordOf(tool, ok) ==
    IF tool \in DOMAIN KindOf THEN Record(artifacts, KindOf[tool], ok) ELSE UNCHANGED artifacts

(* _append_manifest: the last ManifestSize items of the kind. *)
Listed(tool) ==
    IF tool \notin DOMAIN KindOf THEN row.manifest
    ELSE LET items == Append(row.manifest[KindOf[tool]], Len(artifacts) + 1)
         IN  [row.manifest EXCEPT ![KindOf[tool]] =
                IF Len(items) > ManifestSize THEN Tail(items) ELSE items]

EnvironmentToolReturns ==
    /\ AfterTool(EnvironmentTools)
    /\ ~Raised(run.asked)
    /\ RecordOf(run.asked, TRUE)
    /\ UpdateTask([row EXCEPT !.environment = call[Tool].status, !.manifest = Listed(run.asked)])
    /\ UNCHANGED <<browser, comments>>

(* query_logs, query_metrics, query_traces, list_review_comments *)
QueryReturns ==
    /\ AfterTool({"ask"})
    /\ UNCHANGED <<row, artifacts, browser, comments>>

(* sweep, which only reads the tree *)
SweepReturns ==
    /\ AfterTool({"sweep"})
    /\ RecordOf("sweep", TRUE)
    /\ UpdateTask([row EXCEPT !.manifest = Listed("sweep")])
    /\ UNCHANGED <<browser, comments>>

(* _ensure_session, which every use of the page begins with *)
UseBrowser == browser' = TRUE /\ UNCHANGED comments

(* open_app, navigate_ui, snapshot_ui, capture_screenshot *)
UiToolReturns ==
    /\ AfterTool(UiTools)
    /\ UseBrowser
    /\ RecordOf(run.asked, TRUE)
    /\ UpdateTask([row EXCEPT !.manifest = Listed(run.asked)])

(* _update_validation_summary *)
Asserted(ok) == IF ok THEN "passed" ELSE "failed"

AssertReturns(ok) ==
    /\ AfterTool({"assert"})
    /\ UseBrowser
    /\ RecordOf("assert", ok)
    /\ UpdateTask([row EXCEPT !.manifest = Listed("assert"), !.validation = Asserted(ok)])

(* The payload of submit becomes the delivery summary. *)
DeliverReturns ==
    /\ AfterTool({"deliver"})
    /\ ~Raised("deliver")
    /\ RecordOf("deliver", TRUE)
    /\ UpdateTask([row EXCEPT !.manifest = Listed("deliver"),
                              !.delivered = delivery[Task].sha, !.comments = comments])
    /\ UNCHANGED <<browser, comments>>

(* add_review_comment, respond_review_comment *)
CommentReturns ==
    /\ AfterTool({"comment", "respond"})
    /\ \/ run.asked = "comment" /\ comments' = Append(comments, FALSE)
       \/ run.asked = "respond" /\ \E n \in DOMAIN comments : comments' = [comments EXCEPT ![n] = TRUE]
    /\ UpdateTask([row EXCEPT !.comments = comments'])
    /\ UNCHANGED <<artifacts, browser>>

(* The handler raises: an error result, a call that counts, and no update. *)
ToolFails ==
    /\ AfterTool(Offered)
    /\ run.asked \in EnvironmentTools \cup {"deliver"} => Raised(run.asked)
    /\ UNCHANGED <<row, artifacts, browser, comments>>

ToolReturns ==
    \/ EnvironmentToolReturns \/ QueryReturns \/ SweepReturns \/ UiToolReturns
    \/ \E ok \in BOOLEAN : AssertReturns(ok)
    \/ DeliverReturns \/ CommentReturns
    \/ ToolFails

(* delete_conversation *)
DeleteTask ==
    /\ row.there
    /\ row' = [row EXCEPT !.there = FALSE]
    /\ artifacts' = [i \in DOMAIN artifacts |-> [artifacts[i] EXCEPT !.there = FALSE]]
    /\ UNCHANGED <<wvars, run>>

-----------------------------------------------------------------------------
(* `evidune delivery submit`, or another task *)
OtherDelivers(d) == d # Task /\ StartDelivery(d)

Init == EnvironmentInit /\ DeliveryInit /\ SwarmInit

Next ==
    \/ \E fitting \in Fitting : StartTask(fitting)
    \/ \E tokens \in Tokens :
          \/ PlannerAnswers(tokens) \/ WorkerAnswers(tokens)
          \/ CriticAccepts(tokens) \/ CriticRejects(tokens)
          \/ SynthesizerAnswers(tokens)
    \/ RoleFails \/ TimeRunsOut \/ DeleteTask
    \/ \E tool \in Offered : CallTool(tool)
    \/ ToolReturns
    \/ (\E a \in Actors : ActorStep(a)) /\ UNCHANGED <<dvars, svars>>
    \/ EnvironmentStep /\ UNCHANGED <<dvars, svars>>
    \/ (\E a \in Operators, command \in Commands : OperatorCalls(a, command))
         /\ UNCHANGED <<dvars, svars>>
    \/ (\E d \in Deliverers : DeliveryStep(d) \/ OtherDelivers(d))
         /\ UNCHANGED <<evars, svars>>
    \/ SwitchBack /\ UNCHANGED <<evars, svars>>

Spec == Init /\ [][Next]_vars

-----------------------------------------------------------------------------
Works == {i \in DOMAIN artifacts : artifacts[i].kind = "work"}

(* The outputs of the last round. *)
LastWorks ==
    {i \in Works : \A j \in DOMAIN artifacts : artifacts[j].kind = "plan" => j < i}

Assertions == {i \in DOMAIN artifacts : artifacts[i].kind = "assertion"}

(* A task that ends is completed if the critic accepted, with just the      *)
(* outputs of the last round flagged and listed; otherwise it is partial    *)
(* and no output is flagged, whatever the rounds and budgets (run).         *)
CompletedIsAccepted ==
    LET flagged == {i \in Works : artifacts[i].accepted}
        listed  == {row.accepted[n] : n \in DOMAIN row.accepted}
    IN  run.at = "done" /\ row.there =>
          \/ /\ row.status = "completed" /\ row.decision = "accept"
             /\ flagged = LastWorks /\ listed = LastWorks
          \/ row.status = "partial" /\ row.decision # "accept" /\ flagged = {}

(* Once a budget is used up no worker and no critic is started: at most one *)
(* more planner, when the critic used it up, and the synthesizer            *)
(* (_budget_exhausted, which is not called after the critic).               *)
FewRolesOverBudget ==
    run.over \in {<<>>, <<"planner">>, <<"synthesizer">>, <<"planner", "synthesizer">>}

(* The list holds the latest members of ids, at most ManifestSize of them,  *)
(* in their order.                                                          *)
ListsTheLatest(list, ids) ==
    LET listed == {list[n] : n \in DOMAIN list}
    IN  /\ \A m, n \in DOMAIN list : m < n => list[m] < list[n]
        /\ listed \subseteq ids
        /\ \A i \in ids \ listed, j \in listed : i < j
        /\ Len(list) <= ManifestSize
        /\ Len(list) < ManifestSize => listed = ids

(* The last assertion before an id held; so it does when there is none.     *)
Holds(before) ==
    \A i \in Assertions :
        i < before /\ (\A j \in Assertions : j < before => j <= i) => artifacts[i].accepted

(* What the row says of the tools is what their artifacts say, through both *)
(* rounds and the final update: the manifest lists the last of each kind,   *)
(* the validation is that of the last assertion, and so is the one each     *)
(* critic was shown (_append_manifest, _update_validation_summary, run).    *)
RowIsOfItsArtifacts ==
    row.there =>
        /\ \A k \in ToolKinds :
              ListsTheLatest(row.manifest[k], {i \in DOMAIN artifacts : artifacts[i].kind = k})
        /\ (row.validation = "failed") = ~Holds(Len(artifacts) + 1)
        /\ \A v \in DOMAIN artifacts :
              artifacts[v].kind = "validation" => artifacts[v].accepted = Holds(v)

(* The synthesizer is given outputs that the critic accepted (run).         *)
SynthesisIsOfAccepted ==
    run.role = "synthesizer" => \A n \in DOMAIN run.accepted : artifacts[run.accepted[n]].accepted
=============================================================================

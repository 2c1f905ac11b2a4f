# Evidune in TLA+

Evidune runs skills (SKILL.md files with instructions for a language model),
records what came of each execution, and rewrites, observes, rolls back or
disables a skill on that evidence, without asking anyone. These modules model
the parts of it in which several actors change shared state, or a crash can
fall between two writes. TLC checks them on small instances, and TLAPS proves
most of the safety properties for every value of the constants.

Read in this order: `SkillGovernance.tla` (with `SkillFeedback.tla`),
`SkillExperiments.tla`, `SkillEmergence.tla` and `SkillWriters.tla`, which put
the other writers of a skill beside it, `EvaluationTrials.tla`,
`EvidenceProbes.tla` (with `BindingLifecycle.tla`), `ConversationTurns.tla` and
`FeishuGateway.tla`, `RuntimeEnvironment.tla`, `DeliveryPipeline.tla` and
`SwarmHarness.tla`, then the proof modules. Each `MC*.tla` holds the instances
of the module it is named after. `PROJECT.json` maps each definition to the lines it stands for, and lists the
hazards that the properties are for.

## 1. Inventory of the system

| Component | State | Operations | What is hard | What makes it correct |
|---|---|---|---|---|
| **Runtime governance** (`agent/iteration_*.py`, `agent/core.py`, `gateway/web.py`, `core/iteration_helpers.py`) | the SKILL.md file; rows of `skill_states`, `skill_lifecycle_events`, `skill_executions`, `skill_evaluations`, `outcome_window_summaries`; the live registry of `serve` | a turn records, judges and reconciles; web feedback; `evidune run`; start-up | turns interleave at awaits, `run` is another process, a decision is three writes without a transaction | decisions rest on evidence about the content they are about; changes are recorded; windows are settled; the registry follows file and status |
| **Skill feedback** (`agent/skill_feedback.py`, `agent/signal_collector.py`) | none | collapse of signals and scores | thresholds, decay, correlated signals | one interaction never acts alone |
| **Delayed evidence** (`core/probes.py`, `memory/probe_store.py`, `memory/evidence_store.py`) | bindings, leases, attempts, observations, results in SQLite | `ProbeScheduler.run_due` | several callers, leases that expire, retries, crashes between its commits | one observation per horizon, one batch of results, every binding closes |
| **Evaluation experiments** (`core/evaluation_lifecycle.py`, `memory/experiment_store.py`) | `skill_version_experiments`, the file | stage, bind, conclude, promote, roll back | a crash between file and row; clash with governance and emergence | no candidate is live before it was validated; a promotion replaces the parent it was tested against; a live candidate can be taken back |
| **Evaluation trials** (`core/evaluation_trials.py`, `core/evaluation_runner.py`, `core/evaluation_policy.py`, `skills/governance.py`) | `skill_experiment_trials`, counts in memory | run the trials, stop early, resume, judge, replay | invalid trials, early stops, restarts, two runs of one experiment | a verdict rests on enough valid trials, and on the right ones |
| **Feishu gateway** (`gateway/feishu_bot.py`) | event queue, seen keys, 4 workers | enqueue, process, deduplicate | full queue, redelivery after a failure, order of replies | a message is handled once and no worker stays at it |
| **Router** (`gateway/router.py`) | gateway tasks | run, stop | the first gateway to end stops the others | all stop |
| **Emergence** (`agent/core.py`, `agent/skill_synthesizer.py`) | background tasks, files, registry | detect, synthesise, update | runs beside governance of the same skill | never undoes governance |
| **Conversations** (`agent/core.py`, `agent/conversation_context.py`) | messages, summaries, plans | turn, summarise, title, extract facts, delete | concurrent turns of one conversation, failing models | the summary is of exactly the transcript it covers; a prompt has no gap |
| **Swarm harness** (`agent/harness/`, `agent/tools/harness_tools.py`) | task rows, artifacts, budgets; the environment's service and its state file; the git tree | plan, work, criticise, synthesise; up, down, restart; deliver | tools write the task's row beside the harness; processes start and end; one tree for all | what ends completed was accepted; the row says what the tools recorded; no service is forgotten |
| **Store** (`memory/store.py`) | one SQLite connection under one lock | single-call transactions | each call is atomic, sequences of calls are not | - |
| **Graph memory, metrics, adapters, tools, models, configuration, channels, front end** | derived indexes; CSV snapshots; external services | - | little shared state | - |

How they interact: a turn (`AgentCore.handle`) calls the model, records an
execution, calls the judge and then governance, all on the event loop of
`evidune serve`. Web feedback enters governance on the same loop: its handler
is called from an async endpoint, and does not await. `evidune run` enters
it from a process of its own; files and database are the only link. An
execution with an evidence commitment creates a binding, which `run_due`
later observes and evaluates. Experiments write the same files as governance
from processes of their own, emergence from tasks of serve's loop. Feishu
workers and web requests enter `handle` side by side, for one conversation too.
A turn may hand its work to the swarm harness, whose tools run in threads and
start processes that outlive them.

## 2. Plan

| Step | Modules | State |
|---|---|---|
| Governance | `SkillFeedback`, `SkillGovernance` | done, two proof modules |
| Delayed evidence | `BindingLifecycle` (abstract), `EvidenceProbes` (implements it) | done for `run_due`, two proof modules |
| Experiments | `ExperimentLifecycle` (abstract), `EvaluationTrials` (implements it), `SkillExperiments` | done, a proof module for the trials |
| Emergence | `SkillEmergence` | done |
| All writers of a skill | `SkillWriters`, which composes the last two with governance and implements `ExperimentLifecycle` | done, a proof module |
| Conversations and gateways | `ConversationTurns`, `FeishuGateway` (extends it) | done, a proof module |
| Swarm | `RuntimeEnvironment`, `DeliveryPipeline`, `SwarmHarness` (composes them) | done, a proof module |

Every safety property that a run checks is stated by a theorem, some of them
under a hypothesis (section 9).

## 3. Skill governance

### The model

`SkillGovernance` follows one skill. Its actors are `Turns` (concurrent
`handle` calls that match the skill), `Web` (the feedback handler) and `Runs`
(`evidune run` processes). Each has a `pc` and the locals it works with:
`held` (the Skill object), `seen` (a status read to be written back), `exec`
(the execution it recorded), `packet` (the decision packet) and `plan` (the
decision being applied).

Actions are the stretches of code between two points where others may run.
On the loop that is an `await`: `Prune`, `Match`, `NoMatch`, `AnswerFails`,
`Answer`, `Judge`, `Rewriter` and `Feedback` start only while the loop is free
(`LoopFree`). A turn that prunes a disabled skill is a stretch of its own, for
the context is awaited before the skills are matched. A run shares no
loop with anybody, and neither does the operating system that kills a process,
so the stretches are divided further where a run or a crash may fall between
two calls of the store or a file: `Record`, `WriteFile`, `WriteState`,
`WriteEvent`, `Reload`.

| Model | Code |
|---|---|
| `Prune`, `Match`, `NoMatch`, `AnswerFails`, `Answer`, `Record`, `Judge`, `JudgeFails` | `AgentCore.handle`, `_ensure_skill_evaluation_contract`, `_maybe_evaluate_executions` |
| `Reconcile`, `Rewriter`, `Reload` | `_maybe_reconcile_skill_feedback`, `_reload_governed_skill` |
| `Feedback` | `_handle_feedback` of the web gateway |
| `RunLoad`, `RunRead`, `RunSkip`, `RunGovern` | `update_outcome_skills` |
| `BuildPacket` | `build_decision_packet` |
| `Proposal`, `Reviewed`, `Decide` | `IterationHarness._propose`, `review_proposal`, `run` |
| `WriteFile`, `WriteState`, `WriteEvent`, `WriteFails` | `_apply_decision`, `_apply_runtime_update` |
| `ExecutionDecision`, `ObservationVerdict` | `_execution_contract_decision`, `observation_outcome` |
| `Start`, `Crash`, `RunCrash` | start-up of `serve`, death of a process |

Abstractions, each of them about data:

- Content is `[ver, body]`. A rewrite has a new body, a refresh keeps it. The
  text checks of the review may reject a rewrite or refresh, so `Reviewed`
  leaves that open; those of a rollback are determined, and are modelled.
- Skills have a `## Instructions` section; the reference data of a skill is
  not part of its body.
- Signals are the strong ones (thumbs), which decide alone. Scores are in
  percent, averages in thousandths rounded down.
- The thresholds of the execution contract are constants; the KPI analysis is
  any of a set of policy states (`Policies`); typed results are the decision
  they demand (`TypedDecisions`).
- `build_decision_packet` and `update_outcome_skills` read several tables; the
  model reads them in one step. So is start-up's read and write of a status.
- The evaluation surface of the harness (candidates) is in `SkillExperiments`.
- Reasons and evidence texts are left out, and so are the signals that the
  agent itself detects in a message.
- The skill has its evaluation contract already: in its frontmatter, or, with
  `ContractInRow`, in its row of the store only, as a skill without frontmatter
  always has. Then an object that was parsed from the file has none (`bare`),
  and a turn that matched it gives it the row's contract after the answer and
  puts it into the registry, as old as it is (`Answer`). For a skill that has a
  contract nowhere the model drafts one, which is written into `SKILL.md` with
  an event of its own; this first turn of a skill's life is not modelled.

### Runs

Bounds: `MaxExecs`, `MaxEvents`, `MaxContents` and `MaxWindows` stop growth
(`Room` keeps a place for every actor at work). Five executions and five
events are room for a rewrite, its observation by two scores, a rollback or
confirmation, and a second rewrite with its own evidence; `GovernanceFeedback`
has three executions, for the two a rewrite takes and one whose feedback comes
late. Scores lie below `DisableBelow`, between the bounds, and above `MinPass`.
In `GovernanceShared` the contract asks for one sample to rewrite, and the run
process brings windows of its own, so that one execution and two events hold a
rewrite by either side and its rollback by the other. A skill that `evidune
run` governs is versioned (its contract is in the frontmatter), so there a
rollback passes the review only from a copy that the other process has made
stale; `GovernanceUnversioned` has the ordinary rollbacks. There packets have
two events (`HistoryLimit`), so that an earlier rewrite does fall out of sight.
Deadlock is not checked: nobody has to send another message, and the bounds stop the actors.

| Run | Instance | Shows |
|---|---|---|
| `GovernanceTurn` | one turn, versioned skill | confirmations, rewrites and disablings rest on evidence since the rewrite; digests are those of the content that ran |
| `GovernanceUnversioned` | one turn, skill without frontmatter, packets of two events | windows close when their evidence decides, rollbacks restore, an observing skill has its rewrite in sight |
| `GovernanceFeedback` | turn and web, fair | the registry agrees with file and status, every change is recorded, one execution never acts alone, everyone finishes |
| `GovernanceShared` | turn and run, crashes, restarts, failing writes | types; rollbacks restore recorded history, under every interleaving |

The evidence properties are checked with single actors since several break
them: that is what the findings below say. `Clicks = {}` where only scores are
to decide.

### Fairness

`EveryoneFinishes` assumes that model calls return (they have timeouts), that
a turn whose call returned gets the loop (strong fairness of `Turn(t)`, since
others may hold the loop again and again: asyncio's ready queue is first-in
first-out), and that start-up, web handler and runs proceed (weak fairness).

### What is proved

`SkillGovernance_proofs` proves, for any turns, runs, contracts, crashes and
failing writes, `TypeCorrect` and `RollbacksRestoreHistory`. The invariant is
`IInv`: types alone are not inductive, since a rollback looks up
`events[LatestRewrite(history)]`; that this exists needs that packets are of
the past, and that the plan made from it is still of history when it is
applied needs that events are never removed.

`ServeAlone_proofs` assumes `Runs = {}`, that nobody else governs the skill. For
any number of overlapping turns and any feedback it proves

- `ServeUsesWhatIsGoverned` (registry, file and status agree whenever the loop
  is free, across crashes and restarts) without failing writes, for a skill with
  its contract in the frontmatter: one that has it in the row only is registered
  again as a turn matched it (`FindingContractInRow`). `SInv` says that
  one actor at a time holds the loop, that a turn writes back the status that is
  there, and that past its commit a decision determines the state row;
- `EveryChangeIsRecorded`, if moreover nobody dies: `FileIsAccountedFor` says
  what the file is between its write and its event;
- `ServeObservesItsRewrite`, likewise: as long as nothing is being written, the
  newest event of an observing skill is the rewrite that wrote the file
  (`ObservesTheLast`), and a packet that reads an event at all finds it;
- `ServeNeedsTwoExecutions`, with crashes and failing writes, for contracts that
  ask for two samples and typed results that demand nothing (`AsksForTwo`; a
  contract may ask for less): evidence only grows, so it is enough that two
  executions had it when the packet was built (`TwoInv`), whether as scores or
  as signals (`RecentEvidence`).

Under `SoleTurn(t)`, one turn after another and no feedback, nothing is recorded
between a packet and the decision that it leads to (`SoleDecides`), and from
match to write the file is what the turn holds (`SoleUses`). The rest follows,
one invariant upon the other:

| Theorem | Its invariant says |
|---|---|
| `SoleTurnRestores` | a rollback under way restores what the latest rewrite replaced |
| `SoleTurnDigests` | (`SoleUses` is enough) |
| `SoleTurnRewritesOnce` | whenever the status is not observing, no rewrite is left open (`SoleRewrites`) |
| `SoleTurnConfirmsEarned` | all that was scored since the rewrite ran it, and the scores still say what the packet says (`SoleEvidence`); and what was evidence at an event stays that, as later rows have later times (`SoleClock`, `PastKept`) |
| `SoleTurnRestsOnFreshEvidence` | no rollback of a versioned skill passes the review, so at most a confirmation follows its latest rewrite, and two events are enough to find it (`SoleVersions`) |
| `SoleTurnResolvesWindows` | between turns, and up to the judge, the scores do not decide the window; after the judge the packet will read the new score (`SoleResolves`) |

`JudgedBetween`, which the properties count by, keeps the newest `EvidenceLimit`
evaluations of its time, as the code's LIMIT does, so the theorems hold for
every limit, however many executions there are. Of `EvidenceFollowsRewrite` the
half about disabling holds for a sole turn because such a disabling does not
happen: after a rewrite a rollback is proposed instead, and refused for the
version. Section 9 lists all hypotheses and what happens without them.

## 4. Delayed evidence

### The model

`BindingLifecycle` is the promise: a binding moves along
`BINDING_TRANSITIONS`, its horizons are observed while it is `observing`, an
observation is never lost, and it is evaluated when, and only when, none is
missing. `EvidenceProbes` is `run_due` as it is: workers list the bindings
once, then work from their copy of the statuses (`known`) and with the time
they started (`started`). Each call of the store is one step, since
`MemoryStore` locks a call and nothing longer. Workers are tasks of one loop
(`Cooperative`: others run only at the await of the probe) or threads.

Assumed or left out: nothing under `src/` schedules `run_due`, so its callers
are assumed; each caller has its own worker identity and does not overlap with
itself; the workers are of one process, which a crash kills as a whole, with
the leases left behind; the listing is read atomically; a horizon that cannot
be probed is `broken` (its due time does not parse: invalid at once) or
`nameless` (no probe or evaluator: invalid when it is due); horizon identities are
distinct, with one probe revision each; a policy allows at least one attempt;
the results of one evaluation are one batch; nobody cancels a binding; the
bindings that evaluation trials observe synchronously are not modelled.

### Runs

| Run | Instance | Shows |
|---|---|---|
| `ProbesSole` | one worker, four bindings (two horizons, none, one broken, one nameless) of which it lists two at a time, fair | the promise is kept, an evaluated binding has its results, attempts are bounded, every binding closes |
| `ProbesLoop` | two tasks of one loop, two bindings, expiring leases, a crash | results never count twice; leases keep workers apart until they run out |

Two workers suffice for each race of the code, which are between pairs; two
bindings let the second one's known status age, the two horizons in
`ProbesSole` give a partially matured state, and a clock of two or three values
puts due times and leases on either side of it. A sole caller that crashes is
left to the theorem below. Deadlock is not checked: once all bindings are closed
there is nothing to do. `ProbesSole` assumes that time passes and that somebody keeps
calling `run_due` (its probes have timeouts); strong fairness is needed only
because of the clock and other workers, as above.

### What is proved

`EvidenceProbes_proofs`, for any plan, number of workers, lease time and
crashes: `LedgerIsTyped`, and `LeasesKeepApart`, from the invariant `LeaseInv`:
inside the try block a worker still has its lease, or the lease has run out.
The release by somebody else's hand does no harm, for only owners release.

`EvaluatedBindingsHaveResults` needs that nobody dies (`MaxCrashes = 0`): its
invariant `EvaluatedInv` says that every observation has its results or a worker
between the two calls, and a crash takes that worker away. It holds for any number of
workers, threads included, because "evaluated" is written after a fresh look at
the observations. `LoopCountsResultsOnce` holds across crashes, but needs tasks
of one loop or one caller (`OneAtATime`): `LoopInv` says that an attempt that
still counts is at a horizon without observation (`CountsStill`), which
two threads break (`FindingResultTwice`).

`SoleProber_proofs`: with one worker `EvidenceProbes` implements
`BindingLifecycle` (`SoleCallerKeepsLifecycle`), for any plan and wherever it
crashes. The invariant `SoleInv` says that the worker's copy of the statuses is
current for all bindings it has still to visit (`KnowsStatus`), that at each
point of the try block the binding is in observation (`InStep`), and what has
been observed (`HasObserved`). With two workers `KnowsStatus` is false, which
is where the findings come from. `SoleCallerLimitsAttempts`: without a crash, a
horizon whose attempts are used up is invalid, observed, or in the worker's
hands at its last attempt (`LimitInv`). A crash between the record of the last
attempt and the binding's "invalid" has the horizon attempted once more.

## 5. Everyone who writes a skill

### The model

`SkillExperiments`, `SkillEmergence` and `SkillGovernance` share the file, the
rows and the registry of one emerged skill; `SkillWriters` composes them. The
skill is a package with its version and its contract in the frontmatter
(`PackageAssumption`), as emergence and `eval` write it.

| Model | Code |
|---|---|
| `Iterate`, `Propose`, `StageState`, `StageEvent`, `RejectEvent`, `ApplyDirectly` | `_stage_candidate_from_evaluation`, and the evaluation surface of `IterationHarness` |
| `Evaluate`, `Conclude` | binding an experiment and judging it (any verdict: how is `EvaluationTrials`) |
| `Promote`, `InstallFile`, `Mark`, `PromoteState`, `PromoteEvent` | `promote`, one step per write |
| `Withdraw`, `InstallFile`, `Mark`, `WithdrawEvent`, `WithdrawState` | `rollback`, likewise |
| `Begin` .. `RegisterEmerged`, `EmergenceFails` | `_maybe_emerge_skill`, `_run_emergence_attempt`, which awaits two model calls and then holds the loop |
| `ServeStops`, `ServeDies`, `EvalStops` | `wait_for_background_emergence` at the end of serve; deaths and failing writes |

With `Apart` the operator uses `evidune run` and `evidune eval` only while
serve is stopped. That is not demanded anywhere, but without it the findings of
section 8 are in reach, and the properties that say what holds among
well-behaved writers could not be checked. `WritersShared` drops it, and adds
crashes and failing writes at every point.

Worth knowing, and in the model: staging a candidate makes an observing skill
active again, so the window of its last rewrite is not settled; an activation
that fails after its file was written leaves the file and a disabled skill,
which stays registered until the next turn prunes. Not modelled: `evidune eval
run` without an experiment id, which makes an experiment of a file it is given;
having no source executions it can be run, but the policy does not promote it.

`EvaluationTrials` follows `evidune eval run`: the plan of task, variant and
number, the row of each trial, the counts in memory, early stops, resumption
from the rows (`Reload`), the verdict and its transition, and `Replay`. A trial
is one step, since what it leaves before its row nobody reads. It implements
`ExperimentLifecycle`, whose transitions `SkillExperiments` uses as well.
Results have what `decide_governance` reads: evaluator, verdict, advisory,
attribution and hard gates. The adapters of the repository grade every result
`direct`, so the instances do too. (A result that fails with an attribution
below the policy's minimum would stop the trials by `candidate_failure`, and
the policy would then not count it.)

### Runs

| Run | Instance | Shows |
|---|---|---|
| `Trials` | two runs of one experiment, one task, parent, candidate and mutation, two trials of which one must be valid, one crash | validation is earned and rejection has a cause; a stop is final; a replay of the rows agrees; the life cycle is kept |
| `WritersApart` | a turn, web, `run` or `eval`, one emergence attempt, two experiments, no crash | one history tells the content; an observing skill is its rewrite; the registry follows; promotions replace their parent; a live candidate was promoted; every experiment keeps its life cycle |
| `WritersShared` | the same side by side with crashes and failing writes, one experiment | no content of a candidate is live before it was validated |

Bounds: two runs are what a race for a row and a race for the verdict take; the
second trial of a variant exists so that an invalid one can be made good, or
not. In `WritersApart` two executions and three events are room for a candidate,
its promotion and its withdrawal, for two candidates of one parent, and for a
rewrite or an update of the skill between the staging of a candidate and its
promotion; the judge is never content, so that rewrites happen, and clicks can
disable. `Room` and the bounds on bodies keep a place for everyone at work.
`SYMMETRY` in `Trials` permutes the runs; the properties are of safety only.

`ValidatedIsEarned` and `RejectedForCause` are stated for runs that saw the
trials of the mutations themselves (`RanTheMutants`): a resumed run counts them
the wrong way round, which is `FindingResumedMutation`.

### What is proved

`SkillWriters_proofs`, of any number of turns, commands, attempts and
experiments, `Apart` or not, with crashes and failing writes at every point:
`WritersTypeCorrect`, `PromotionsAreOfTheirParent`, and that the writers
implement `ExperimentLifecycle` for each experiment
(`ExperimentsKeepTheirLifecycles`). The invariant `WInv` adds to the types that
packets are of the past and that only changes are applied (from
`SkillGovernance_proofs`), and, in `CommandsInv`, what a command relies on when
it resumes after a write: the experiment it names is there, one that promotes
still holds the experiment's parent, and once it is past its mark the row says
`promoted` or, if another command has withdrawn it meanwhile, `rolled_back`.
Each step moves the experiments `Onward`: they are only appended, as
candidates, keep parent and candidate, and change their status along the table.

Under `OneOperator` (commands wait for serve to stop and for each other, nothing
crashes, no write fails) it proves `OneHistoryTold`, `LiveIsWhatIsStored` and
`ObservedRewriteIsLive`. The invariant `OInv` says

- that the writers take turns: of all turns, requests, attempts and commands at
  most one is in the middle of something (`TakeTurns`). A turn that awaits a
  model is not, since others run meanwhile; a command that waits for its tests is;
- that the skill is at rest when nobody is (`Rested`): the file is what the last
  recorded writer left (`Told`), the registry agrees, one candidate at most is
  open, and an observing skill has its rewrite as the last event, or as the last
  but one before the rejection of the only open candidate (`WindowKept`), which is why
  the theorem asks for packets of two events;
- for each label, what an actor in the middle of something has done of it
  (`AtWork`, `Drafting`).

One part is not local to the actor at work: no command may test or promote
under an open window. It cannot, for that takes an experiment whose parent is
the file, and the window says that none is derived from the rewrite
(`NoParent`): staging one closes the window, and a rewrite has instructions that
nothing else had before (`FreshInv`).

The same hypothesis gives `LiveCandidatesWerePromoted` and
`LiveCandidatesWereValidated`. Their difficulty is that old content comes back:
a rollback of a decision restores what a rewrite replaced, `eval` restores the
parent, a refresh takes up what a packet holds. It does not help to know that
the file was promoted; whatever may come back must still be. `Stands` says of
instructions that every candidate among them and their ancestors has a promotion
that was not taken back, and `LineInv` that this holds of the file, of the
"before" of every rewrite that was not rolled back (`Lasting`), of what packets,
plans and drafts carry, and of the parent a command is about to install. It
stays so because a candidate is younger than its parent (`Lineage`): to withdraw
a promotion takes nothing away from the parent that is put back. New
instructions stand because no experiment knows them (`NextStands`). In the two
windows in which a command has written one of file and row (`promote_mark`,
`withdraw_event`) the other is exempt.

`EvaluationTrials_proofs`, of any plan, any number of runs of one experiment,
and crashes: `TrialsTypeCorrect`, `RejectionsHaveCause`, `StopsAreFinal`,
`RunsKeepTheLifecycle`, and under a hypothesis `ValidationsAreEarned` and
`ReplaysAgree`. What makes it hard is that a run counts in memory while others
store rows. The argument is the order of the rows: the trials of one task and
variant are tried in order, and none is tried once enough of them are valid, so
those stored are a prefix (`RowsInOrder`) that ends with the last valid trial
needed (`NoneBeyondEnough`). Therefore whatever a run passed over is either
stored or not needed, and its memory is the outcome of just the valid rows
among the slots it has passed (`MemoryInv`). The hypothesis has two
parts. `GradesSuffice` says that authoritative results carry at least the grade
the policy asks for, as the results of the repository's adapters do; the note
above says what happens otherwise. `Candidate # None` says that there is a
candidate to judge: without one the trials judge the parent, and the policy
counts the first variant.

## 6. Conversations and gateways

### The model

`ConversationTurns` is what `handle` does for the conversation: `Receive` (rows
ensured, turn counted, context built), `SummaryAnswers` and `SummaryFails` (the
loop of `_summarize_before`), `ModelAnswers` (both messages stored, then facts
and title if they are due), `SkillIsRequested` and `SkillIsWritten` (a turn that
asks for a skill), `TurnFails` (before the messages are stored or, when the
contract of a skill cannot be had, after), `FactsAreExtracted`, `Titled`, and
`DeleteConversation`. A message is its length in tokens and a summary the set
and the number of what was folded into it. The ids of messages are their order
in the table, so that a transcript, its recent suffix and what is to be folded
are sets of ids. Splitting a message that is longer
than the budget is modelled; estimating tokens is not.

`FeishuGateway` extends it with deliveries, the queue, the workers and the table
of seen events, web requests (`Post`, `Respond`, `Delete`), and the end of the
process: `Router` ends when one gateway ends, whatever the others are at (`End`;
`EndInTurn` when a turn has stored one of its two messages). Feishu gets its
acknowledgement when an event arrives, so what was queued or in work is lost
with the process. A reply goes out as a card, and as text if sending the card
raised; a card that arrived although its response was lost is thus sent
twice. Both are noted here and not stated as properties, since nothing in the
repository promises otherwise.

### Run

`Conversation`: two workers, one web client or one deletion, one event
delivered twice, a queue of one, a restart; a chat with two turns behind it, of
messages of 4, 30, 4 and 4 tokens in a budget of 24, so that the long one has to
be split and what follows it folded. It shows that the stored summary is of
exactly the transcript it covers, that prompts have no gap, that answers stand
next to their questions, that a process handles an event once while its key
lasts, and that every queued event is settled. `Deletes = "idle"` lets only
conversations without a turn under way be deleted: the other case is
`FindingConversations`. Two workers and a client are the third turn that makes
an overlap of two summaries meet a later read.

`EveryEventIsSettled` assumes weak fairness of each worker: models answer or
time out (each client has a timeout), a thread that sends a reply returns, and
asyncio gets round to every ready task. The web client is not assumed to
proceed.

Not modelled here: context reports and tool observations; the identity, mode,
plan and squad of a conversation; graph nodes that a deletion removes; several
chats (they share nothing but the workers); keys that expire before Feishu
stops redelivering (`Expire` takes events with no copy left); messages the
gateway does not accept, beyond being dropped; several gateways at once.

### What is proved

`FeishuGateway_proofs`, of any chats, events, workers, clients, message sizes
and restarts. `EventsAreHandledOnce` follows from `HandledInv`: what was handled
is among the seen keys. `AnswersStayAtTheirQuestion` follows from `TurnsInv`, in
which each row knows the question it belongs to (`AnswerOf`) and no turn or
summary refers to a row that is not there yet; `ConversationsTypeCorrect` comes
with it.

`SummariesAreOfTheirPrefix` and `ContextsHaveNoGap` assume
`Deletes = "idle"`, that nobody deletes a conversation that a turn is at; with
such a deletion both fail, which is what `FindingConversations` shows. Their
invariant `ExactInv` holds for overlapping turns: every summary, stored or in
the hands of a turn, is of exactly the rows up to the one it covers (`Exact`);
what a turn has still to fold lies between its summary and its recent messages,
and these are everything from the first of them to the newest it read
(`Window`). So it does not matter whose summary is stored last. The proof
needs that the loop folds something each time round and folds the oldest
first, and not how many tokens anything has.

## 7. The swarm harness

### The model

`RuntimeEnvironment` has the processes of one environment and the state file
with their pid. `up`, `down`, `restart` and `health` are divided at their system
calls: `UpChecks`, `UpSpawns`, `UpWrites`, `UpPolls`, `DownLooks`,
`DownTerminates`, `DownKills`, `DownMisses` (the process ended after the look,
and the signal finds nobody), `DownClears`, `Looks`; `CommandDies` kills a
command between them. A process that ended stays a zombie until
serve waits for its children, which `subprocess` does at the next `Popen`.
`DeliveryPipeline` has `DeliveryManager.submit` on the one working tree:
`ReadBranch`, `Checkout`, `Stage`, `Commit`, which may fail and leave what was
staged.

`SwarmHarness` extends both. `StartTask` is `_run_swarm` with the squad resolved;
`PlannerAnswers`, `WorkerAnswers`, `CriticAccepts`, `CriticRejects` and
`SynthesizerAnswers` are the loop of `run` at the answer of each role;
`RoleFails` is a model call that raises, which leaves the row `running`;
`CallTool` and `ToolReturns` are a tool call in `_run_role`, with what each
harness tool records (`EnvironmentToolReturns`, `UiToolReturns`,
`AssertReturns`, `DeliverReturns`, `CommentReturns`, `QueryReturns`,
`SweepReturns`). The row is the one in the store; `run` holds the harness's own
copy, which is written back at the end with the tools' parts read again.
`DeleteTask` is the deletion of the conversation, at any moment.

### Run

`Swarm`: one task with the squad `general` (one worker) or `research` (two), the
two rounds that `Rounds` allows, all tools, and a person who looks at the
environment's health from a command. Two tool calls let a tool follow another in one role, and one
role exceed its budget; a token budget of 8 is used up by the second critic;
`TimeRunsOut` may come at any time. The manifest keeps one item of a kind
(`ManifestSize`; the code keeps 20), so that the cut happens. The properties:
what ends completed was accepted, with just the outputs of the last round;
after a budget is used up no worker and no critic starts; the row's manifest and
validation are what the artifacts say; and every service that runs is on file
once nobody is at work on it. Deadlock is not checked: a finished task has
nothing left to do.

Not modelled: task events and harness steps (written and shown, never read
back); pull requests, CI and the push; what `up` clones and which ports it
picks; the first `up` inside `open_app`, which is that of `up_app`; browsers beyond
their existence (nothing closes one: `close_environment` has no caller);
reuse of pids; the death of serve itself, between the start of a service and the
write of its pid in particular.

### What is proved

`SwarmHarness_proofs`, of any squads, rounds, budgets, tools and manifest size.
`BudgetsEndTheRounds`: a budget that is used up stays so, and `OverBudget` says
by the role at work what may have been started since. `AcceptanceEndsTheTask`:
`Outcome` follows the critic's decision from the moment it is taken to the end
of the task; until then no output is flagged. `TheRowSaysWhatTheToolsDid`:
`RowSays` is about the row that tools and harness both write; it holds through
the update at the end of a task because that reads the tools' parts of the row
again. `ServicesStayKnown` has the hypothesis
`Commands \subseteq {"health"}`, that nobody runs `up`, `down` or `restart` from
a terminal beside the task: with a `down` it is false, as `FindingServices`
shows. Its invariant `EnvironmentInv` follows a service from its start over the
write of its pid to its death and its burial. Between the start and the write
the tool that is at it is the only one that knows the service, and the
harness calls one tool at a time.

## 8. Where the code departs from what it says

TLC ends each of these with a counterexample. The first is a run of the
project, and `PROJECT.json` quotes the sentence it contradicts. The others have
their configuration beside the modules, to be run by hand: `tlc -config
FindingX.cfg <module>`. Where a line names a property too, the configuration
has several of them, of which one is active.

| Run | Module | What happens |
|---|---|---|
| `FindingRollbackRefused` | `MCSkillGovernance` | a rewrite bumps the version, and the review then refuses the rollback for changing the frontmatter: a regressing versioned skill keeps observing (docs/product-specs/skill-iteration.md:46; README.md:9, "observed and rolled back automatically when they regress") |
| `FindingContractInRow` | `MCSkillGovernance` | a turn that matched a skill without a contract of its own puts that object back into the registry after its answer, although the skill was disabled or rewritten meanwhile (docs/product-specs/skill-iteration.md:126) |
| `FindingRejectedSynthesis` | `MCSwarmHarness` | without an accepted output the synthesizer gets the first rejected one (docs/product-specs/swarm-harness.md:44, "receives the accepted worker outputs") |
| `FindingDoubleRewrite` | `MCSkillGovernance` | two turns wait for the rewriter together, and the second one rewrites what is being observed |
| `FindingUnrecordedChange` | `MCSkillGovernance` | a crash after the file write leaves a change without an event |
| `FindingStaleRegistry` | `MCSkillGovernance` | `serve` keeps the content that a `run` replaced |
| `FindingOldEvidence` | `MCSkillGovernance` | after a rollback, evaluations from before the rewrite decide again |
| `FindingForeignDigest` | `MCSkillGovernance` | an execution gets the digest of a file written while its answer was awaited |
| `FindingUnearnedConfirm` | `MCSkillGovernance` | a `run` confirms its rewrite on scores of `serve`'s old copy |
| `FindingResultTwice` | `MCEvidenceProbes` | two threads observe one horizon one after the other: the look-up precedes the lease |
| `FindingNeverEvaluated` | `MCEvidenceProbes` | a crash after the last observation leaves a binding observing for ever |
| `FindingResumedMutation` | `MCEvaluationTrials` | a run that resumes an interrupted one counts its killed mutations as passed, and rejects a candidate that nothing speaks against |
| `FindingStrandedCandidate` | `MCSkillWriters` | a crash between the candidate's file and its transition leaves it live and validated: `rollback` does not accept it, `promote` neither |
| `FindingPromotionRaces` | `MCSkillWriters` | a promotion overwrites what a turn of serve wrote between its digest check and its write |
| `FindingEmergenceRevives` | `MCSkillWriters` | an emergence attempt under way rewrites a skill that was disabled meanwhile |
| `FindingConversations`, `DeletedIsForgotten` | `MCFeishuGateway` | a turn that summarises a deleted conversation stores its summary again |
| `FindingConversations`, `CoverageOnlyGrows` | `MCFeishuGateway` | of two turns that summarise together the slower one stores less than the faster |
| `FindingConversations`, `FactsOnSchedule` | `MCFeishuGateway` | the turn counter outlives the deletion of its conversation, and facts are extracted off schedule |
| `FindingServices`, `ServicesAreOnFile` | `MCSwarmHarness` | `env down` between the start of a service and the write of its pid leaves it running, known to nobody |
| `FindingServices`, `UpIsUp` | `MCSwarmHarness` | a service that crashed is a zombie of serve, and `up` takes it for running |
| `FindingDeliveries`, `DeliveredOnItsBranch` | `MCSwarmHarness` | `checkout -B` moves a branch to where another deliverer is, and its commits are on it no more |
| `FindingDeliveries`, `BranchIsItsOwn` | `MCSwarmHarness` | two deliverers share index and tree, and one commits the other's changes |

## 9. What is proved and what is only checked

Sections 3 to 7 explain the theorems, and `PROJECT.json` lists them. They hold
for all values of the constants that the modules' assumptions allow; those with
a hypothesis of their own name it:

| Theorem | Hypothesis | Without it |
|---|---|---|
| `ServeUsesWhatIsGoverned` | `Runs = {}`, `Failures = FALSE`, `ContractInRow = FALSE` | `FindingStaleRegistry`, `FindingContractInRow` |
| `EveryChangeIsRecorded` | `Runs = {}`, no crash or failing write | `FindingUnrecordedChange` |
| `ServeObservesItsRewrite` | the same, `HistoryLimit > 0` | a crash between state row and event leaves a skill observing nothing |
| `ServeNeedsTwoExecutions` | `Runs = {}`, `AsksForTwo` | a `run` decides by outcomes; a contract may ask for one sample |
| `SoleTurnRestores` | `SoleTurn(t)` | a turn rolls back by a packet older than another's rewrite |
| `SoleTurnDigests` | `SoleTurn(t)`, `Failures = FALSE` | `FindingForeignDigest` |
| `SoleTurnRewritesOnce` | `SoleTurn(t)`, no crash or failing write, `HistoryLimit > 0` | `FindingDoubleRewrite` |
| `SoleTurnConfirmsEarned` | the same | `FindingUnearnedConfirm` |
| `SoleTurnRestsOnFreshEvidence` | the same, `Versioned`, no typed demands, `HistoryLimit >= 2` | `FindingOldEvidence` |
| `SoleTurnResolvesWindows` | the same, not `Versioned`, `EvidenceLimit > 0` | `FindingRollbackRefused` |
| `OneHistoryTold`, `LiveIsWhatIsStored` | `OneOperator` | a command beside serve leaves the registry stale; a crash leaves a file without its event |
| `ObservedRewriteIsLive` | the same, `HistoryLimit >= 2` | a candidate may be rejected after the rewrite |
| `LiveCandidatesWerePromoted` | `OneOperator` | `FindingStrandedCandidate` |
| `LiveCandidatesWereValidated` | `OneOperator` | see below |
| `EvaluatedBindingsHaveResults` | nobody dies | section 4 |
| `LoopCountsResultsOnce` | tasks of one loop, or one caller | `FindingResultTwice` |
| `SoleCallerLimitsAttempts` | one worker that does not die | section 4 |
| `SoleCallerKeepsLifecycle` | one worker | `FindingResultTwice` |
| `ValidationsAreEarned`, `ReplaysAgree` | `GradesSuffice`, `Candidate # None` | section 5 |
| `SummariesAreOfTheirPrefix`, `ContextsHaveNoGap` | `Deletes = "idle"` | `FindingConversations` |
| `ServicesStayKnown` | `Commands \subseteq {"health"}` | `FindingServices` |

The other theorems have none. Each proof finds an inductive invariant, shows
that every action keeps it, and reads the property off it.

`LiveCandidatesAreValidated` is checked for more than the theorem says, for
commands that run side by side and die (`WritersShared`, with one experiment).
It is not to be expected of every number of experiments: a withdrawal whose look
at the file is old could put back as "parent" what another experiment's candidate
left there and was withdrawn from since. The version numbers of the model, too,
are told apart only within its bounds.

Liveness with its fairness, ENABLED, and what a recursive definition computes
for every input are beyond the proof system, and stay with TLC. Where a proof
needs an induction over numbers, it takes a least counterexample instead
(`LeastNat`).

## 10. Not modelled

Graph memory, metrics and adapters, tools other than the harness's, model
clients, configuration, parsing, channels and the front end keep little shared
state of their own: where the modelled parts call them they are inputs, such as
scores, rewrites, summaries, signals and policy states. The store's migrations
run once at start. Of the modelled components, sections 3 to 7 say what is left
out. Beyond those: the executions that a deleted conversation takes along may be
evidence of an open window, which governance does not model; start-up with
files that do not parse; sealed holdouts and their tokens.

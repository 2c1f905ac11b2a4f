-------------------------- MODULE SkillGovernance --------------------------
(***************************************************************************)
(* The governance of one skill: its SKILL.md, its row in skill_states, its *)
(* lifecycle events and executions in SQLite, the copy in the live         *)
(* registry of `evidune serve`, and the actors that change them:           *)
(*                                                                         *)
(*   Turns  concurrent AgentCore.handle calls that match the skill         *)
(*   Web    POST /api/feedback, handled on the same event loop             *)
(*   Runs   `evidune run` processes that share the files and the database  *)
(*                                                                         *)
(* serve is one asyncio event loop: its actors interleave only where they  *)
(* await (the pcs of Awaiting).  A run is a process of its own, so its     *)
(* steps fall anywhere, between the file write and the two commits of      *)
(* another actor's decision included.  So does a crash.                    *)
(*                                                                         *)
(* Content is abstracted to [ver, body]: the version in the frontmatter    *)
(* and the identity of the instructions.  Every rewrite proposes a new     *)
(* body; a reference refresh keeps it.                                     *)
(***************************************************************************)
EXTENDS SkillFeedback

CONSTANTS
    Turns, Web, Runs,
    Versioned,        \* SKILL.md has YAML frontmatter (else nothing carries a version)
    ContractInRow,    \* only the store's row has the evaluation contract, not SKILL.md
    Crashes,          \* whether processes may die
    Failures,         \* whether a write may raise
    Scores,           \* judge scores, in percent
    Clicks,           \* what a user can make the signals of an execution
    Policies,         \* outcome policy_state values analyze_outcomes can produce
    TypedDecisions,   \* what the typed evaluation results may demand
    MinRewrite, MinDisable, DisableBelow, RewriteBelow, MinPass,  \* execution contract
    EvidenceLimit,    \* rows of evidence a packet reads (20)
    HistoryLimit,     \* lifecycle events a packet reads (20)
    MaxExecs, MaxEvents, MaxContents, MaxWindows                  \* bounds of the model

Flags == [rewrite : BOOLEAN, rollback : BOOLEAN, severe : BOOLEAN]

Calm == [rewrite |-> FALSE, rollback |-> FALSE, severe |-> FALSE]

ASSUME ActorsAssumption == Web \notin Turns /\ Runs \cap (Turns \cup {Web}) = {}

ASSUME ContractAssumption ==
    /\ MinRewrite \in Nat \ {0} /\ MinDisable \in Nat \ {0}
    /\ DisableBelow \in 0..100 /\ RewriteBelow \in 0..100 /\ MinPass \in 0..100
    /\ Scores \subseteq 0..100

ASSUME InputsAssumption ==
    /\ Versioned \in BOOLEAN /\ Crashes \in BOOLEAN /\ Failures \in BOOLEAN
    /\ ContractInRow \in BOOLEAN
    /\ ~Versioned => ContractInRow    \* SKILL.md would have it in its frontmatter
    /\ Runs # {} => Versioned     \* an outcome contract lives in the frontmatter
    /\ Policies \subseteq Flags
    /\ Clicks \subseteq SUBSET Signals
    /\ TypedDecisions \subseteq {"keep", "rewrite", "disable"}

ASSUME BoundsAssumption ==
    /\ EvidenceLimit \in Nat /\ HistoryLimit \in Nat
    /\ MaxExecs \in Nat /\ MaxEvents \in Nat
    /\ MaxContents \in Nat /\ MaxWindows \in Nat

VARIABLES
    file,      \* the content of SKILL.md
    nextBody,  \* the next unused instructions
    status,    \* skill_states.status, "none" while there is no row
    events,    \* skill_lifecycle_events, oldest first
    execs,     \* skill_executions joined with skill_evaluations
    windows,   \* outcome_window_summaries
    up,        \* whether serve runs
    registry,  \* serve's in-memory Skill
    bare,      \* the Skill objects of serve without a contract, each as who refers to it
    pc,        \* where each actor is
    held,      \* the Skill object an actor works with
    seen,      \* the status it read to write it back
    exec,      \* the execution a turn recorded
    packet,    \* the IterationDecisionPacket an actor built
    plan       \* the reviewed decision an actor is applying

db == <<status, events, execs, windows>>
vars == <<file, nextBody, db, up, registry, bare, pc, held, seen, exec, packet, plan>>

-----------------------------------------------------------------------------
(* Types *)

Serve == Turns \cup {Web}

Actors == Serve \cup Runs

(* The registry, as one that refers to a Skill object. *)
Live == "live"

Content == [ver : Nat, body : Nat]

Statuses == {"active", "observing", "disabled"}

Decisions == {"keep", "rewrite", "refresh", "rollback", "confirm", "disable"}

LifecycleEvent == [action : Decisions, before : Content, after : Content, at : Nat]

Execution ==
    [ ver    : Nat,            \* skill_version of the Skill that ran
      ran    : Nat,            \* its instructions
      digest : Content,        \* the content whose digest was recorded
      sig    : SUBSET Signals,
      score  : 0..100,
      at     : Nat ]           \* created_at of its evaluation, 0 without one

Window == [at : Nat, bad : BOOLEAN]

(* Where a serve actor awaits and others may run. *)
Awaiting == {"idle", "context", "answering", "judging", "rewriting"}

(* Where it holds the event loop. *)
Holding == {"recording", "reconcile", "decide", "write_file", "write_state", "write_event", "reload"}

NoContent == [ver |-> 0, body |-> 0]

Installed == [ver |-> 0, body |-> 1]

Unregistered == [in |-> FALSE, skill |-> NoContent, status |-> "active"]

Plan == [decision : Decisions, after : Content]

NoPlan == [decision |-> "keep", after |-> NoContent]

Packets ==
    [ surface   : {"serve", "run", "eval"},
      ver       : Nat,                              \* skill.version
      current   : Content,                          \* the file as it was read
      history   : Nat,                              \* events recorded when it was read
      execution : {"keep", "rewrite", "disable"},   \* _execution_contract_decision
      window    : {"hold", "confirm", "rollback"},  \* observation_outcome
      disable   : BOOLEAN,                          \* feedback.should_disable
      praise    : BOOLEAN,                          \* exemplars and feedback.should_rewrite
      policy    : Flags,
      signals   : BOOLEAN ]                         \* evidence that is not only scores

NoPacket ==
    [ surface |-> "serve", ver |-> 0, current |-> NoContent, history |-> 0,
      execution |-> "keep", window |-> "hold", disable |-> FALSE, praise |-> FALSE,
      policy |-> Calm, signals |-> FALSE ]

TypeOK ==
    /\ file \in Content
    /\ nextBody \in Nat
    /\ status \in Statuses \cup {"none"}
    /\ events \in Seq(LifecycleEvent)
    /\ execs \in Seq(Execution)
    /\ windows \in Seq(Window)
    /\ up \in BOOLEAN
    /\ registry \in [in : BOOLEAN, skill : Content, status : Statuses]
    /\ bare \in SUBSET SUBSET (Turns \cup {Live})
    /\ pc \in [Actors -> Awaiting \cup Holding \cup {"loaded", "seen"}]
    /\ held \in [Actors -> Content]
    /\ seen \in [Actors -> Statuses]
    /\ exec \in [Actors -> Nat]
    /\ packet \in [Actors -> Packets]
    /\ plan \in [Actors -> Plan]

-----------------------------------------------------------------------------
(* Reading the evidence *)

(* created_at of the next row: every timestamped row moves the clock. *)
Now == 1 + Len(events) + Len(windows) + Cardinality(Scored(execs))

(* The statuses in which a turn or a run iterates on a skill. *)
Governed(st) == st \in {"active", "observing"}

ResolvedStatus == IF status = "none" THEN "active" ELSE status

(* The newest skill_evaluations rows, LIMIT EvidenceLimit. *)
Judged ==
    {i \in Scored(execs) :
        Cardinality({j \in Scored(execs) : execs[j].at > execs[i].at}) < EvidenceLimit}

JudgedSince(time) == {i \in Judged : execs[i].at > time}

RecentExecs == SubSeq(execs, IF Len(execs) > EvidenceLimit THEN Len(execs) - EvidenceLimit + 1 ELSE 1,
                      Len(execs))

WindowsSince(time) ==
    {w \in DOMAIN windows : w > Len(windows) - EvidenceLimit /\ windows[w].at > time}

ScoreSum(S) == MapThenSumSet(LAMBDA i : execs[i].score, S)

AverageAtMost(S, bound) == ScoreSum(S) <= bound * Cardinality(S)

AverageAtLeast(S, bound) == ScoreSum(S) >= bound * Cardinality(S)

(* Mutant of History: a packet gets the oldest rows instead of the newest. *)
OldestEvents(n) == {i \in 1..n : i <= HistoryLimit}

(* The lifecycle events a packet with n recorded events holds. *)
History(n) == {i \in 1..n : i > n - HistoryLimit}

IsLatestRewrite(i, n) ==
    /\ events[i].action = "rewrite"
    /\ \A j \in (i + 1)..n : events[j].action \notin {"rewrite", "rollback"}

(* The rewrite an observation or a rollback is about; 0 when there is none. *)
LatestRewrite(n) ==
    IF \E i \in History(n) : IsLatestRewrite(i, n)
    THEN CHOOSE i \in History(n) : IsLatestRewrite(i, n)
    ELSE 0

(* The reviewer's own look-up, which does not stop at a rollback. *)
RecordedRewrites(n) ==
    {i \in History(n) : /\ events[i].action = "rewrite"
                        /\ \A j \in (i + 1)..n : events[j].action # "rewrite"}

(* When the evidence that counts starts: after the latest rewrite, if any. *)
Cutoff(n) == IF LatestRewrite(n) = 0 THEN 0 ELSE events[LatestRewrite(n)].at

(* Mutant of ExecutionDecision: scores from before the rewrite count. *)
DecisionOnAllScores(typed) ==
    IF typed # "keep" THEN typed
    ELSE IF Judged = {} THEN "keep"
    ELSE IF Cardinality(Judged) >= MinDisable /\ AverageAtMost(Judged, DisableBelow) THEN "disable"
    ELSE IF Cardinality(Judged) >= MinRewrite /\ AverageAtMost(Judged, RewriteBelow) THEN "rewrite"
    ELSE "keep"

(* What the judge scores since the latest rewrite demand. *)
ExecutionDecision(typed) ==
    LET S == JudgedSince(Cutoff(Len(events)))
    IN  IF typed # "keep" THEN typed
        ELSE IF S = {} THEN "keep"
        ELSE IF Cardinality(S) >= MinDisable /\ AverageAtMost(S, DisableBelow) THEN "disable"
        ELSE IF Cardinality(S) >= MinRewrite /\ AverageAtMost(S, RewriteBelow) THEN "rewrite"
        ELSE "keep"

(* Without a single judged execution the KPI windows decide. *)
WindowVerdict(time) ==
    IF Cardinality(WindowsSince(time)) < MinRewrite THEN "hold"
    ELSE IF windows[Len(windows)].bad THEN "rollback" ELSE "confirm"

(* Mutant of ObservationVerdict: one judged execution settles the window. *)
VerdictOnOneScore ==
    LET S == JudgedSince(Cutoff(Len(events)))
    IN  IF Judged = {} THEN WindowVerdict(Cutoff(Len(events)))
        ELSE IF S = {} THEN "hold"
        ELSE IF AverageAtLeast(S, MinPass) THEN "confirm"
        ELSE IF AverageAtMost(S, RewriteBelow) THEN "rollback"
        ELSE "hold"

(* Mutant of ObservationVerdict: one sample more than the contract asks. *)
VerdictOneLate ==
    LET S == JudgedSince(Cutoff(Len(events)))
    IN  IF Judged = {} THEN WindowVerdict(Cutoff(Len(events)))
        ELSE IF Cardinality(S) <= MinRewrite THEN "hold"
        ELSE IF AverageAtLeast(S, MinPass) THEN "confirm"
        ELSE IF AverageAtMost(S, RewriteBelow) THEN "rollback"
        ELSE "hold"

ObservationVerdict ==
    LET S == JudgedSince(Cutoff(Len(events)))
    IN  IF Judged = {} THEN WindowVerdict(Cutoff(Len(events)))
        ELSE IF Cardinality(S) < MinRewrite THEN "hold"
        ELSE IF AverageAtLeast(S, MinPass) THEN "confirm"
        ELSE IF AverageAtMost(S, RewriteBelow) THEN "rollback"
        ELSE "hold"

BuildPacket(surface, ver, typed, policy, exemplars) ==
    [ surface   |-> surface,
      ver       |-> ver,
      current   |-> file,
      history   |-> Len(events),
      execution |-> ExecutionDecision(typed),
      window    |-> ObservationVerdict,
      disable   |-> ShouldDisable(RecentExecs) /\ (Judged = {} \/ Signalled(RecentExecs) # {}),
      praise    |-> exemplars /\ ShouldRewrite(RecentExecs),
      policy    |-> policy,
      signals   |-> Signalled(RecentExecs) # {} \/ typed # "keep" ]

HasEvidence(p) == p.signals \/ Scored(RecentExecs) # {}

RewriteIsDue(p) ==
    /\ ResolvedStatus # "observing"
    /\ p.policy.rewrite \/ p.praise \/ p.execution \in {"rewrite", "disable"}

-----------------------------------------------------------------------------
(* The workflow: propose, review, decide *)

(* Mutant of Observed: the observation gate is gone. *)
NeverObserved(q) == FALSE

Observed(q) == LatestRewrite(q.history) # 0 /\ ResolvedStatus = "observing"

(* IterationHarness._propose; the status is read now, the rest when q was built. *)
Proposal(q) ==
    LET rewritten == LatestRewrite(q.history) # 0
    IN  IF q.policy.rollback /\ rewritten THEN "rollback"
        ELSE IF Observed(q) THEN [hold |-> "keep", confirm |-> "confirm",
                                  rollback |-> "rollback"][q.window]
        ELSE IF q.execution = "disable" \/ q.disable
             THEN IF rewritten THEN "rollback" ELSE "disable"
        ELSE IF q.policy.severe /\ ~rewritten THEN "disable"
        ELSE IF q.policy.rewrite \/ q.praise \/ q.execution = "rewrite" THEN "rewrite"
        ELSE IF q.surface = "run" THEN "refresh"
        ELSE "keep"

(* The frontmatter check of review_proposal, then the history check. *)
RollbackApproved(q) ==
    LET restored == events[LatestRewrite(q.history)].before
    IN  /\ Versioned => restored.ver = q.current.ver
        /\ \E i \in RecordedRewrites(q.history) : events[i].before.body = restored.body

(* Mutant of Reviewed: a proposal to keep is not carried through. *)
ReviewWithoutKeep(q) == {Proposal(q)} \ {"keep"}

(* What survives the review.  The text checks of a rewrite or refresh may  *)
(* fail (and a refresh may change nothing); a rollback's outcome is fixed. *)
Reviewed(q) ==
    LET d == Proposal(q)
    IN  IF d \in {"rewrite", "refresh"} THEN {d, "keep"}
        ELSE IF d = "rollback" /\ ~RollbackApproved(q) THEN {"keep"}
        ELSE {d}

NextVersion(q) == IF Versioned THEN q.ver + 1 ELSE q.current.ver

(* Mutant of Outcome: a rollback takes the wrong side of the rewrite event. *)
RollbackToTheRewrite(q, d) ==
    CASE d = "rewrite"  -> [ver |-> NextVersion(q), body |-> nextBody]
      [] d = "refresh"  -> [ver |-> NextVersion(q), body |-> q.current.body]
      [] d = "rollback" -> events[LatestRewrite(q.history)].after
      [] OTHER          -> q.current

Outcome(q, d) ==
    CASE d = "rewrite"  -> [ver |-> NextVersion(q), body |-> nextBody]
      [] d = "refresh"  -> [ver |-> NextVersion(q), body |-> q.current.body]
      [] d = "rollback" -> events[LatestRewrite(q.history)].before
      [] OTHER          -> q.current

(* Mutant of StatusAfter: a rollback uses the status that is reserved for  *)
(* evaluation experiments.                                                 *)
RollbackIsRolledBack == [rewrite |-> "observing", refresh |-> "active", rollback |-> "rolled_back",
                         confirm |-> "active", disable |-> "disabled"]

(* skill_status of each decision that is applied. *)
StatusAfter == [rewrite |-> "observing", refresh |-> "active", rollback |-> "active",
                confirm |-> "active", disable |-> "disabled"]

-----------------------------------------------------------------------------
(* Actors *)

Init ==
    /\ file = Installed
    /\ nextBody = 2
    /\ status = "none"
    /\ events = <<>>
    /\ execs = <<>>
    /\ windows = <<>>
    /\ up = FALSE
    /\ registry = Unregistered
    /\ bare = {}
    /\ pc = [p \in Actors |-> "idle"]
    /\ held = [p \in Actors |-> NoContent]
    /\ seen = [p \in Actors |-> "active"]
    /\ exec = [p \in Actors |-> 0]
    /\ packet = [p \in Actors |-> NoPacket]
    /\ plan = [p \in Actors |-> NoPlan]

(* Mutant of LoopFree: decisions are applied across awaits. *)
LoopShared == up

LoopFree == up /\ \A p \in Serve : pc[p] \in Awaiting

(* Bounds of the model: every actor at work may write one more content and *)
(* record one more event.                                                  *)
Room ==
    LET busy == Cardinality({p \in Actors : pc[p] # "idle"})
    IN  /\ Len(events) + busy < MaxEvents
        /\ nextBody + busy < MaxContents /\ file.ver + busy < MaxContents

Goto(p, label) == pc' = [pc EXCEPT ![p] = label]

(* An actor returns and its locals go out of scope. *)
Release(p) ==
    /\ Goto(p, "idle")
    /\ held' = [held EXCEPT ![p] = NoContent]
    /\ seen' = [seen EXCEPT ![p] = "active"]
    /\ exec' = [exec EXCEPT ![p] = 0]
    /\ packet' = [packet EXCEPT ![p] = NoPacket]
    /\ plan' = [plan EXCEPT ![p] = NoPlan]

(* x no longer refers to its Skill object, if that is one of the bare ones. *)
Dropped(x) == {o \ {x} : o \in bare} \ {{}}

(* What is parsed from the file comes without a contract if only the row has it. *)
Parsed == IF ContractInRow THEN {{Live}} ELSE {}

(* serve starts: load the file, drop what is disabled, give the rest a row. *)
Start ==
    /\ ~up
    /\ up' = TRUE
    /\ registry' = IF status = "disabled" THEN Unregistered
                   ELSE [in |-> TRUE, skill |-> file, status |-> "active"]
    /\ bare' = IF status = "disabled" THEN {} ELSE Parsed
    /\ status' = ResolvedStatus
    /\ UNCHANGED <<file, nextBody, events, execs, windows, pc, held, seen, exec, packet, plan>>

(* A turn starts: it drops the skill when it finds it disabled, and awaits *)
(* its context.                                                            *)
Prune(t) ==
    /\ LoopFree /\ pc[t] = "idle"
    /\ Room
    /\ Len(execs) + Cardinality({s \in Turns : pc[s] \in {"context", "answering", "recording"}})
         < MaxExecs
    /\ IF status = "disabled"
       THEN registry' = Unregistered /\ bare' = Dropped(Live)
       ELSE UNCHANGED <<registry, bare>>
    /\ Goto(t, "context")
    /\ UNCHANGED <<file, nextBody, db, up, held, seen, exec, packet, plan>>

(* It matches the live skill, whatever its status is by now, and starts    *)
(* the LLM call with it ...                                                *)
Match(t) ==
    /\ LoopFree /\ pc[t] = "context"
    /\ registry.in
    /\ held' = [held EXCEPT ![t] = registry.skill]
    /\ bare' = {IF Live \in o THEN o \cup {t} ELSE o : o \in bare}
    /\ Goto(t, "answering")
    /\ UNCHANGED <<file, nextBody, db, up, registry, seen, exec, packet, plan>>

(* ... or finds none, and answers without.                                 *)
NoMatch(t) ==
    /\ LoopFree /\ pc[t] = "context"
    /\ ~registry.in
    /\ Release(t)
    /\ UNCHANGED <<file, nextBody, db, up, registry, bare>>

(* The model raises, or the message turns out to ask for a new skill: no   *)
(* execution is recorded.                                                  *)
AnswerFails(t) ==
    /\ LoopFree /\ pc[t] = "answering"
    /\ bare' = Dropped(t)
    /\ Release(t)
    /\ UNCHANGED <<file, nextBody, db, up, registry>>

(* The reply is there.  A Skill object without its contract is given the   *)
(* row's, and registered, as old as it is; the status is read ...          *)
Answer(t) ==
    LET own == {o \in bare : t \in o}
    IN  /\ LoopFree /\ pc[t] = "answering"
        /\ IF own = {} THEN UNCHANGED <<registry, bare>>
           ELSE /\ registry' = [in |-> TRUE, skill |-> held[t], status |-> ResolvedStatus]
                /\ bare' = {o \ {Live} : o \in bare \ own} \ {{}}
        /\ seen' = [seen EXCEPT ![t] = ResolvedStatus]
        /\ Goto(t, "recording")
        /\ UNCHANGED <<file, nextBody, db, up, held, exec, packet, plan>>

(* ... and written back, the execution is recorded with the digest of the  *)
(* file as it is now, and the judge is called.                             *)
Record(t) ==
    /\ pc[t] = "recording"
    /\ status' = seen[t]
    /\ execs' = Append(execs, [ver |-> held[t].ver, ran |-> held[t].body, digest |-> file,
                               sig |-> {}, score |-> 0, at |-> 0])
    /\ exec' = [exec EXCEPT ![t] = Len(execs')]
    /\ Goto(t, "judging")
    /\ UNCHANGED <<file, nextBody, events, windows, up, registry, bare, held, seen, packet, plan>>

(* The judge returns a score ... *)
Judge(t, score) ==
    /\ LoopFree /\ pc[t] = "judging"
    /\ execs' = [execs EXCEPT ![exec[t]].score = score, ![exec[t]].at = Now]
    /\ Goto(t, "reconcile")
    /\ UNCHANGED <<file, nextBody, status, events, windows, up, registry, bare, held, seen, exec, packet, plan>>

(* ... or raises, or returns something that does not parse. *)
JudgeFails(t) ==
    /\ LoopFree /\ pc[t] = "judging"
    /\ Goto(t, "reconcile")
    /\ UNCHANGED <<file, nextBody, db, up, registry, bare, held, seen, exec, packet, plan>>

(* The reconciliation at the end of a turn reads its packet, and calls the *)
(* LLM rewriter when a rewrite is due.                                     *)
Reconcile(t) ==
    /\ pc[t] = "reconcile"
    /\ \E typed \in TypedDecisions :
         LET q == BuildPacket("serve", held[t].ver, typed, Calm, FALSE)
         IN  IF Governed(ResolvedStatus) /\ HasEvidence(q)
             THEN /\ packet' = [packet EXCEPT ![t] = q]
                  /\ Goto(t, IF RewriteIsDue(q) THEN "rewriting" ELSE "decide")
                  /\ UNCHANGED <<held, seen, exec, plan>>
             ELSE Release(t)
    /\ UNCHANGED <<file, nextBody, db, up, registry, bare>>

(* The rewriter returns; its packet is as old as the call. *)
Rewriter(t) ==
    /\ LoopFree /\ pc[t] = "rewriting"
    /\ Goto(t, "decide")
    /\ UNCHANGED <<file, nextBody, db, up, registry, bare, held, seen, exec, packet, plan>>

(* A signal arrives for an execution: it is stored and the workflow runs,  *)
(* whatever the skill's status and whether or not it is registered.        *)
Feedback(i, sig) ==
    /\ LoopFree /\ pc[Web] = "idle"
    /\ Room
    /\ execs' = [execs EXCEPT ![i].sig = sig]
    /\ UNCHANGED <<file, nextBody, status, events, windows, up, registry, bare, held, seen, exec, plan>>
    /\ \E typed \in TypedDecisions :
         packet' = [packet EXCEPT ![Web] =
                      BuildPacket("serve", IF registry.in THEN registry.skill.ver ELSE execs[i].ver,
                                  typed, Calm, FALSE)']
    /\ Goto(Web, "decide")

(* A run parses the skill from disk ... *)
RunLoad(r) ==
    /\ pc[r] = "idle"
    /\ Room
    /\ Len(windows) + Cardinality({s \in Runs : pc[s] \in {"loaded", "seen"}}) < MaxWindows
    /\ held' = [held EXCEPT ![r] = file]
    /\ Goto(r, "loaded")
    /\ UNCHANGED <<file, nextBody, db, up, registry, bare, seen, exec, packet, plan>>

(* ... reads its status ...                                                *)
RunRead(r) ==
    /\ pc[r] = "loaded"
    /\ seen' = [seen EXCEPT ![r] = ResolvedStatus]
    /\ Goto(r, "seen")
    /\ UNCHANGED <<file, nextBody, db, up, registry, bare, held, exec, packet, plan>>

(* ... writes it back, and leaves the skill alone unless it is governed,   *)
RunSkip(r) ==
    /\ pc[r] = "seen"
    /\ status' = seen[r]
    /\ ~Governed(seen[r])
    /\ Release(r)
    /\ UNCHANGED <<file, nextBody, events, execs, windows, up, registry, bare>>

(* or else records the KPI window, if there are observations, and reads    *)
(* its packet.                                                             *)
RunGovern(r) ==
    /\ pc[r] = "seen"
    /\ status' = seen[r]
    /\ Governed(seen[r])
    /\ UNCHANGED <<file, nextBody, events, execs, up, registry, bare, held, seen, exec, plan>>
    /\ \E typed \in TypedDecisions :
         \/ /\ windows' = windows
            /\ packet' = [packet EXCEPT ![r] = BuildPacket("run", held[r].ver, typed, Calm, FALSE)']
         \/ \E policy \in Policies, exemplars \in BOOLEAN :
              /\ windows' = Append(windows, [at |-> Now, bad |-> policy.rollback \/ policy.severe])
              /\ packet' = [packet EXCEPT ![r] =
                               BuildPacket("run", held[r].ver, typed, policy, exemplars)']
    /\ Goto(r, "decide")

(* The workflow from proposal to decision; nothing is written when it keeps. *)
Decide(p) ==
    /\ pc[p] = "decide"
    /\ \E d \in Reviewed(packet[p]) :
         IF d = "keep"
         THEN Release(p) /\ UNCHANGED nextBody
         ELSE /\ plan' = [plan EXCEPT ![p] = [decision |-> d, after |-> Outcome(packet[p], d)]]
              /\ nextBody' = IF d = "rewrite" THEN nextBody + 1 ELSE nextBody
              /\ Goto(p, IF d \in {"rewrite", "refresh", "rollback"} THEN "write_file"
                         ELSE "write_state")
              /\ UNCHANGED <<held, seen, exec, packet>>
    /\ UNCHANGED <<file, db, up, registry, bare>>

(* A decision is applied in three steps, none of them undone if the next   *)
(* one does not happen: the file is replaced, the state row committed, the *)
(* lifecycle event committed.                                              *)
WriteFile(p) ==
    /\ pc[p] = "write_file"
    /\ file' = plan[p].after
    /\ Goto(p, "write_state")
    /\ UNCHANGED <<nextBody, db, up, registry, bare, held, seen, exec, packet, plan>>

WriteState(p) ==
    /\ pc[p] = "write_state"
    /\ status' = StatusAfter[plan[p].decision]
    /\ Goto(p, "write_event")
    /\ UNCHANGED <<file, nextBody, events, execs, windows, up, registry, bare, held, seen, exec, packet, plan>>

WriteEvent(p) ==
    /\ pc[p] = "write_event"
    /\ events' = Append(events, [action |-> plan[p].decision, before |-> packet[p].current,
                                 after |-> plan[p].after, at |-> Now])
    /\ IF p \in Runs
       THEN Release(p)
       ELSE Goto(p, "reload") /\ UNCHANGED <<held, seen, exec, packet, plan>>
    /\ UNCHANGED <<file, nextBody, status, execs, windows, up, registry, bare>>

(* A write raises: the turn fails, the feedback handler swallows it, and    *)
(* what was written before stays.                                          *)
WriteFails(p) ==
    /\ Failures
    /\ pc[p] \in {"write_file", "write_state", "write_event"}
    /\ Release(p)
    /\ UNCHANGED <<file, nextBody, db, up, registry, bare>>

(* Mutant of Reload: the registry keeps what it has. *)
NoReload(p) ==
    /\ pc[p] = "reload"
    /\ Release(p)
    /\ UNCHANGED <<file, nextBody, db, up, registry, bare>>

(* serve brings its registry in line; a run has no access to it. *)
Reload(p) ==
    /\ pc[p] = "reload"
    /\ registry' = IF plan[p].decision = "disable" THEN Unregistered
                   ELSE [in |-> TRUE, skill |-> file, status |-> StatusAfter[plan[p].decision]]
    /\ bare' = Dropped(Live) \cup (IF plan[p].decision = "disable" THEN {} ELSE Parsed)
    /\ Release(p)
    /\ UNCHANGED <<file, nextBody, db, up>>

(* serve dies: the files and the database stay as they are. *)
Crash ==
    /\ Crashes /\ up
    /\ up' = FALSE
    /\ registry' = Unregistered
    /\ bare' = {}
    /\ pc' = [p \in Actors |-> IF p \in Serve THEN "idle" ELSE pc[p]]
    /\ held' = [p \in Actors |-> IF p \in Serve THEN NoContent ELSE held[p]]
    /\ seen' = [p \in Actors |-> IF p \in Serve THEN "active" ELSE seen[p]]
    /\ exec' = [p \in Actors |-> IF p \in Serve THEN 0 ELSE exec[p]]
    /\ packet' = [p \in Actors |-> IF p \in Serve THEN NoPacket ELSE packet[p]]
    /\ plan' = [p \in Actors |-> IF p \in Serve THEN NoPlan ELSE plan[p]]
    /\ UNCHANGED <<file, nextBody, db>>

RunCrash(r) ==
    /\ Crashes /\ pc[r] # "idle"
    /\ Release(r)
    /\ UNCHANGED <<file, nextBody, db, up, registry, bare>>

Apply(p) == Decide(p) \/ WriteFile(p) \/ WriteState(p) \/ WriteEvent(p) \/ WriteFails(p)

(* The steps of a turn that has started. *)
Turn(t) ==
    \/ Match(t) \/ NoMatch(t) \/ AnswerFails(t) \/ Answer(t) \/ Record(t)
    \/ JudgeFails(t) \/ Reconcile(t) \/ Rewriter(t)
    \/ \E score \in Scores : Judge(t, score)
    \/ Apply(t) \/ Reload(t)

Run(r) == RunRead(r) \/ RunSkip(r) \/ RunGovern(r) \/ Apply(r)

Next ==
    \/ Start \/ Crash
    \/ \E t \in Turns : Prune(t) \/ Turn(t)
    \/ \E i \in DOMAIN execs, sig \in Clicks : Feedback(i, sig)
    \/ Apply(Web) \/ Reload(Web)
    \/ \E r \in Runs : RunLoad(r) \/ Run(r) \/ RunCrash(r)

Spec == Init /\ [][Next]_vars

(* What starts ends: model calls return, and asyncio's ready queue, being  *)
(* first-in first-out, does not pass over a turn whose call has returned.  *)
Fairness ==
    /\ WF_vars(Start)
    /\ \A t \in Turns : SF_vars(Turn(t))
    /\ WF_vars(Apply(Web) \/ Reload(Web))
    /\ \A r \in Runs : WF_vars(Run(r))

FairSpec == Spec /\ Fairness

-----------------------------------------------------------------------------
(* Properties *)

Settled == \A p \in Actors : pc[p] \notin {"write_file", "write_state", "write_event", "reload"}

AllIdle == \A p \in Actors : pc[p] = "idle"

ContentEvents == {c \in DOMAIN events : events[c].action \in {"rewrite", "refresh", "rollback"}}

(* The latest rewrite before event c, whatever happened to it. *)
RewriteBefore(c) == {r \in 1..(c - 1) : /\ events[r].action = "rewrite"
                                        /\ \A k \in (r + 1)..(c - 1) : events[k].action # "rewrite"}

(* Of the evaluations at the time to, the newest EvidenceLimit, as far as  *)
(* they are from after the time from.                                      *)
JudgedBetween(from, to) ==
    LET judged == {i \in Scored(execs) : execs[i].at < to}
    IN  {i \in judged :
            /\ execs[i].at > from
            /\ Cardinality({j \in judged : execs[j].at > execs[i].at}) < EvidenceLimit}

(* Content is what the last recorded change left, or what was installed. *)
Recorded(content) ==
    \/ ContentEvents = {} /\ content = Installed
    \/ \E c \in ContentEvents : /\ \A b \in ContentEvents : b <= c
                               /\ content = events[c].after

(* Every automatic change leaves its record: between decisions the file is *)
(* what the last recorded change left, or what it was installed with       *)
(* (_apply_runtime_update and the rollback branch of _apply_decision).     *)
ChangesAreRecorded == Settled => Recorded(file)

(* An observing skill is the rewrite that opened the window: the packet    *)
(* can find that rewrite, and the file still is what it wrote, so a        *)
(* verdict judges and undoes the right content (_latest_rewrite_event).    *)
ObservingTheRewrite ==
    Settled /\ status = "observing" =>
        /\ LatestRewrite(Len(events)) # 0
        /\ events[LatestRewrite(Len(events))].after = file

(* A confirmed rewrite earned it: at least MinRewrite executions of that   *)
(* very content were judged while it was observed and average MinPass, or, *)
(* with no judge at all, as many KPI windows closed (observation_outcome). *)
ConfirmationIsEarned ==
    \A c \in DOMAIN events : events[c].action = "confirm" =>
        \E r \in RewriteBefore(c) :
            LET own == {i \in JudgedBetween(events[r].at, events[c].at) :
                          execs[i].ran = events[r].after.body}
            IN  \/ Cardinality(own) >= MinRewrite /\ AverageAtLeast(own, MinPass)
                \/ /\ JudgedBetween(0, events[c].at) = {}
                   /\ Cardinality({w \in DOMAIN windows : /\ events[r].at < windows[w].at
                                                          /\ windows[w].at < events[c].at})
                        >= MinRewrite

(* A rollback restores the content from before the latest rewrite, never   *)
(* something else (_build_rollback_content, rollback_matches_history).     *)
RollbackRestores ==
    \A c \in DOMAIN events : events[c].action = "rollback" =>
        \E r \in RewriteBefore(c) : events[c].after = events[r].before

(* Whatever the actors do to each other, a rollback puts back content that *)
(* some recorded rewrite replaced, never anything else.                    *)
RollbackIsFromHistory ==
    \A c \in DOMAIN events : events[c].action = "rollback" =>
        \E r \in 1..(c - 1) : events[r].action = "rewrite" /\ events[r].before = events[c].after

(* While a rewrite is observed no other one is applied: between two        *)
(* rewrites the first is confirmed, rolled back or disabled.               *)
OneRewriteAtATime ==
    \A c \in DOMAIN events : events[c].action = "rewrite" =>
        \A r \in RewriteBefore(c) :
            \E k \in (r + 1)..(c - 1) : events[k].action \in {"confirm", "rollback", "disable"}

(* Only evaluations recorded after the latest rewrite decide the next      *)
(* rewrite or a disabling, as long as no user signal and no typed result   *)
(* demands it (_post_rewrite_evaluations).                                 *)
EvidenceFollowsRewrite ==
    \A c \in DOMAIN events : \A r \in RewriteBefore(c) :
        LET S == JudgedBetween(events[r].at, events[c].at)
        IN  /\ events[c].action = "rewrite" =>
                 Cardinality(S) >= MinRewrite /\ AverageAtMost(S, RewriteBelow)
            /\ events[c].action = "disable" =>
                 Cardinality(S) >= MinDisable /\ AverageAtMost(S, DisableBelow)

(* One interaction never acts alone: whatever its signals, a decision to   *)
(* disable or rewrite has evidence from two executions at least            *)
(* (MIN_EXECUTIONS_FOR_ACTION, and contracts that ask for two samples).    *)
NeverOnOneExecution ==
    [][\A p \in Actors :
         plan'[p] # plan[p] /\ plan'[p].decision \in {"disable", "rewrite"} =>
             Cardinality(Evidenced(execs)) >= 2]_vars

(* When the last turn is over, no observation window is left open on       *)
(* evidence that decides it: a passing rewrite has been confirmed, a       *)
(* regressing one taken back.                                              *)
WindowsAreResolved ==
    LET S == JudgedSince(Cutoff(Len(events)))
    IN  AllIdle /\ status = "observing" /\ Cardinality(S) >= MinRewrite =>
            ~AverageAtLeast(S, MinPass) /\ ~AverageAtMost(S, RewriteBelow)

(* serve uses what is governed: between steps of its loop, a skill that is *)
(* not disabled is registered with the content of its file, and a disabled *)
(* one is not registered (_reload_governed_skill).                         *)
RegistryAgrees ==
    LoopFree /\ Settled =>
        IF status = "disabled" THEN ~registry.in ELSE registry.in /\ registry.skill = file

(* An execution is recorded with the digest of the content that ran.       *)
DigestIsOfWhatRan == \A i \in DOMAIN execs : execs[i].digest.body = execs[i].ran

(* Every turn, feedback request and run that starts also ends: no one is   *)
(* left waiting for the event loop.                                        *)
EveryoneFinishes == \A p \in Actors : pc[p] # "idle" ~> pc[p] = "idle"
=============================================================================

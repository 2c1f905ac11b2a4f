-------------------------- MODULE ServeAlone_proofs --------------------------
(***************************************************************************)
(* What holds when serve is the only process that governs the skill.       *)
(*                                                                         *)
(* For any number of concurrent turns and feedback requests, the event     *)
(* loop lets one decision through at a time: the registry, the state row   *)
(* and the file agree whenever the loop is free, also after a restart; a   *)
(* decision to rewrite or disable has the evidence of two executions; and, *)
(* if serve does not die in between and its writes succeed, every change   *)
(* of the file is recorded and an observing skill is the rewrite that      *)
(* opened its window.                                                      *)
(*                                                                         *)
(* With one turn after another and no feedback, nothing comes between the  *)
(* packet a turn builds and the decision it records: rollbacks, rewrites   *)
(* and confirmations are of the rewrite, and rest on the evidence, that    *)
(* they should.                                                            *)
(***************************************************************************)
EXTENDS SkillGovernance_proofs

(* One actor at a time holds the event loop.                               *)
Exclusive ==
    \A p, q \in Actors : pc[p] \in Holding /\ pc[q] \in Holding => p = q

(* A turn writes back the status that is there.                            *)
NoLostUpdate == \A p \in Actors : pc[p] = "recording" => seen[p] = status

(* What a stopped serve leaves, and what a started one has.                *)
UpAndDown ==
    /\ up => status # "none"
    /\ ~up => \A p \in Actors : pc[p] = "idle"

(* Past its commit, a decision determines the state row.                   *)
StatusIsDecided ==
    \A p \in Actors : pc[p] \in {"write_event", "reload"} => status = StatusAfter[plan[p].decision]

(* The registry, the state row and the file, whenever no plan is applied.  *)
Agrees == IF status = "disabled" THEN ~registry.in ELSE registry.in /\ registry.skill = file

Agreement == up /\ (\A p \in Actors : pc[p] \notin Applying) => Agrees

SInv ==
    /\ Exclusive
    /\ NoLostUpdate
    /\ UpAndDown
    /\ StatusIsDecided

(* The decisions that change the file. *)
Changing == {"rewrite", "refresh", "rollback"}

(* The file is what the last recorded change left, or, between the write   *)
(* and the record of a change, what that change is about to record.        *)
FileIsAccountedFor ==
    /\ \A p \in Actors : pc[p] = "write_file" => plan[p].decision \in Changing
    /\ \A p \in Actors : pc[p] \in {"write_state", "write_event"} =>
          IF plan[p].decision \in Changing THEN file = plan[p].after ELSE Recorded(file)
    /\ (\A p \in Actors : pc[p] \notin {"write_state", "write_event"}) => Recorded(file)

-----------------------------------------------------------------------------
(* Steps *)

(* A step of p that neither applies a plan nor writes file, row or events. *)
QuietStep(p, label) ==
    /\ Goto(p, label)
    /\ LoopFree \/ pc[p] \in Holding
    /\ pc[p] \notin Applying /\ label \notin Applying
    /\ label = "recording" => seen'[p] = status
    /\ \A a \in Actors \ {p} : seen'[a] = seen[a] /\ plan'[a] = plan[a]
    /\ UNCHANGED <<file, status, events, up>>
    /\ up

LEMMA HoldingIsNotAwaiting ==
    /\ \A l \in Awaiting : l \notin Holding
    /\ \A l \in Applying : l \in Holding
  BY DEF Awaiting, Holding, Applying

(* The loop passes from one holder to the next only when it is free.       *)
LEMMA ExclusiveKept ==
    ASSUME Runs = {}, IInv, Exclusive, NEW p \in Actors, NEW label, Goto(p, label),
           LoopFree \/ pc[p] \in Holding \/ label \notin Holding
    PROVE  Exclusive'
<1>1. \A a \in Actors : pc'[a] = IF a = p THEN label ELSE pc[a]
  BY DEF IInv, TypeOK, Goto
<1>2. LoopFree => \A a \in Actors : pc[a] \notin Holding
  BY HoldingIsNotAwaiting DEF LoopFree, Actors
<1> QED
  BY <1>1, <1>2 DEF Exclusive

LEMMA QuietStepSInv ==
    ASSUME Runs = {}, IInv, SInv, NEW p \in Actors, NEW label, QuietStep(p, label)
    PROVE  SInv'
<1>1. \A a \in Actors : pc'[a] = IF a = p THEN label ELSE pc[a]
  BY DEF IInv, TypeOK, Goto, QuietStep
<1>2. Exclusive'
  BY ExclusiveKept DEF SInv, QuietStep
<1>3. NoLostUpdate'
  BY <1>1 DEF SInv, QuietStep, NoLostUpdate
<1>4. UpAndDown'
  BY <1>1 DEF SInv, QuietStep, UpAndDown
<1>5. StatusIsDecided'
  BY <1>1 DEF SInv, QuietStep, StatusIsDecided, Applying
<1> QED
  BY <1>2, <1>3, <1>4, <1>5 DEF SInv

LEMMA QuietStepAccounted ==
    ASSUME IInv, FileIsAccountedFor, NEW p \in Actors, NEW label, QuietStep(p, label)
    PROVE  FileIsAccountedFor'
<1>1. \A a \in Actors : pc'[a] = IF a = p THEN label ELSE pc[a]
  BY DEF IInv, TypeOK, Goto, QuietStep
<1>2. file' = file /\ (Recorded(file) => Recorded(file)')
  BY DEF QuietStep, Recorded, ContentEvents
<1> QED
  BY <1>1, <1>2 DEF FileIsAccountedFor, QuietStep, Applying

(* A turn's own steps are quiet until it decides.                          *)
LEMMA TurnIsQuiet ==
    ASSUME IInv, SInv, NEW t \in Turns,
           \/ Prune(t) \/ Match(t) \/ NoMatch(t) \/ AnswerFails(t) \/ Answer(t) \/ Record(t)
           \/ JudgeFails(t) \/ Reconcile(t) \/ Rewriter(t)
           \/ \E score \in Scores : Judge(t, score)
    PROVE  \E label : QuietStep(t, label)
<1> t \in Actors
  BY DEF Actors, Serve
<1> USE DEF QuietStep, Applying
<1>1. pc[t] # "idle" => up
  BY DEF SInv, UpAndDown
<1>2. CASE Match(t)
  <2>1. QuietStep(t, "answering")
    BY <1>2 DEF Match, db, LoopFree
  <2> QED
    BY <2>1
<1>3. CASE Answer(t)
  <2>1. seen'[t] = status /\ \A a \in Actors \ {t} : seen'[a] = seen[a]
    BY <1>1, <1>3 DEF Answer, IInv, TypeOK, SInv, UpAndDown, ResolvedStatus
  <2>2. QuietStep(t, "recording")
    BY <1>1, <1>3, <2>1 DEF Answer, db
  <2> QED
    BY <2>2
<1>4. CASE Record(t)
  <2>1. QuietStep(t, "judging")
    BY <1>1, <1>4 DEF Record, Holding, SInv, NoLostUpdate
  <2> QED
    BY <2>1
<1>5. CASE JudgeFails(t)
  <2>1. QuietStep(t, "reconcile")
    BY <1>1, <1>5 DEF JudgeFails, db
  <2> QED
    BY <2>1
<1>6. CASE \E score \in Scores : Judge(t, score)
  <2>1. QuietStep(t, "reconcile")
    BY <1>1, <1>6 DEF Judge
  <2> QED
    BY <2>1
<1>7. CASE Rewriter(t)
  <2>1. QuietStep(t, "decide")
    BY <1>1, <1>7 DEF Rewriter, db
  <2> QED
    BY <2>1
<1>8. CASE Reconcile(t)
  <2>1. \/ QuietStep(t, "idle") \/ QuietStep(t, "rewriting") \/ QuietStep(t, "decide")
    <3>1. \/ /\ Goto(t, "rewriting") \/ Goto(t, "decide")
             /\ UNCHANGED <<seen, plan>>
          \/ Release(t)
      BY <1>8 DEF Reconcile
    <3>2. pc[t] = "reconcile" /\ UNCHANGED <<file, status, events, up>>
      BY <1>8 DEF Reconcile, db
    <3> QED
      BY <1>1, <3>1, <3>2 DEF Release, IInv, TypeOK, Holding
  <2> QED
    BY <2>1
<1>9. CASE Prune(t)
  <2>1. QuietStep(t, "context")
    BY <1>9 DEF Prune, db, LoopFree
  <2> QED
    BY <2>1
<1>10. CASE NoMatch(t) \/ AnswerFails(t)
  <2>1. QuietStep(t, "idle")
    BY <1>1, <1>10 DEF NoMatch, AnswerFails, db, Release, IInv, TypeOK
  <2> QED
    BY <2>1
<1> QED
  BY <1>2, <1>3, <1>4, <1>5, <1>6, <1>7, <1>8, <1>9, <1>10

LEMMA FeedbackIsQuiet ==
    ASSUME IInv, SInv, NEW i, NEW sig, Feedback(i, sig)
    PROVE  QuietStep(Web, "decide")
  BY DEF Feedback, QuietStep, Applying, LoopFree

(* A decision is either quiet, or goes to be applied.                      *)
LEMMA DecideCases ==
    ASSUME Runs = {}, IInv, SInv, NEW p \in Actors, Decide(p)
    PROVE  \/ QuietStep(p, "idle")
           \/ /\ plan'[p].decision \in Changing
              /\ Goto(p, "write_file")
              /\ \A a \in Actors \ {p} : plan'[a] = plan[a]
              /\ UNCHANGED <<file, status, events, up, seen>>
           \/ /\ plan'[p].decision \notin Changing
              /\ Goto(p, "write_state")
              /\ \A a \in Actors \ {p} : plan'[a] = plan[a]
              /\ UNCHANGED <<file, status, events, up, seen>>
<1>1. pc[p] = "decide" /\ up /\ UNCHANGED <<file, status, events, up>>
  BY DEF Decide, db, SInv, UpAndDown
<1>2. PICK d \in Reviewed(packet[p]) :
        IF d = "keep"
        THEN Release(p) /\ UNCHANGED nextBody
        ELSE /\ plan' = [plan EXCEPT ![p] = [decision |-> d, after |-> Outcome(packet[p], d)]]
             /\ nextBody' = IF d = "rewrite" THEN nextBody + 1 ELSE nextBody
             /\ Goto(p, IF d \in {"rewrite", "refresh", "rollback"} THEN "write_file"
                        ELSE "write_state")
             /\ UNCHANGED <<held, seen, exec, packet>>
  BY DEF Decide
<1>3. CASE d = "keep"
  <2>1. Release(p)
    BY <1>2, <1>3
  <2> QED
    BY <1>1, <2>1 DEF Release, IInv, TypeOK, QuietStep, Holding, Applying
<1>4. CASE d # "keep"
  <2> DEFINE new == [decision |-> d, after |-> Outcome(packet[p], d)]
  <2>1. plan' = [plan EXCEPT ![p] = new] /\ new.decision = d
    BY <1>2, <1>4
  <2> HIDE DEF new
  <2>2. plan'[p].decision = d /\ \A a \in Actors \ {p} : plan'[a] = plan[a]
    BY <2>1 DEF IInv, TypeOK
  <2> QED
    BY <1>1, <1>2, <1>4, <2>2 DEF Changing
<1> QED
  BY <1>3, <1>4

-----------------------------------------------------------------------------
(* The event loop *)

LEMMA InitSInv == Init => SInv
  BY DEF Init, SInv, Exclusive, NoLostUpdate, UpAndDown, StatusIsDecided, Holding

LEMMA StartSInv == ASSUME IInv, SInv, Start PROVE SInv'
<1>1. \A p \in Actors : pc[p] = "idle"
  BY DEF SInv, UpAndDown, Start
<1>2. status' # "none"
  BY DEF Start, ResolvedStatus
<1> QED
  BY <1>1, <1>2 DEF Start, SInv, Exclusive, NoLostUpdate, UpAndDown, StatusIsDecided, Holding

LEMMA CrashSInv == ASSUME Runs = {}, IInv, SInv, Crash PROVE SInv'
<1>1. ~up' /\ \A p \in Actors : pc'[p] = "idle"
  BY DEF Crash, Actors
<1> QED
  BY <1>1 DEF SInv, Exclusive, NoLostUpdate, UpAndDown, StatusIsDecided, Holding

(* A step of the actor that holds the loop: nobody else is affected.       *)
LEMMA HolderSInv ==
    ASSUME Runs = {}, IInv, SInv, NEW p \in Actors, NEW label, Goto(p, label),
           pc[p] \in Holding, label # "recording",
           \A a \in Actors \ {p} : seen'[a] = seen[a] /\ plan'[a] = plan[a],
           UNCHANGED up, status' # "none" \/ status' = status,
           label \in {"write_event", "reload"} => status' = StatusAfter[plan'[p].decision]
    PROVE  SInv'
<1>1. \A a \in Actors : pc'[a] = IF a = p THEN label ELSE pc[a]
  BY DEF IInv, TypeOK, Goto
<1>2. up
  BY DEF SInv, UpAndDown, Holding
<1>3. \A a \in Actors \ {p} : pc[a] \notin Holding
  BY DEF SInv, Exclusive
<1>4. Exclusive'
  BY ExclusiveKept DEF SInv
<1>5. NoLostUpdate'
  BY <1>1, <1>3 DEF NoLostUpdate, Holding
<1>6. UpAndDown'
  BY <1>2 DEF SInv, UpAndDown
<1>7. StatusIsDecided'
  BY <1>1, <1>3 DEF StatusIsDecided, Holding
<1> QED
  BY <1>4, <1>5, <1>6, <1>7 DEF SInv

LEMMA DecideSInv == ASSUME Runs = {}, IInv, SInv, NEW p \in Actors, Decide(p) PROVE SInv'
<1>1. CASE QuietStep(p, "idle")
  BY <1>1, QuietStepSInv
<1>2. CASE ~QuietStep(p, "idle")
  <2>1. PICK label \in {"write_file", "write_state"} :
           /\ Goto(p, label)
           /\ \A a \in Actors \ {p} : plan'[a] = plan[a]
           /\ UNCHANGED <<status, up, seen>>
    BY <1>2, DecideCases
  <2>2. pc[p] \in Holding
    BY DEF Decide, Holding
  <2> QED
    BY <2>1, <2>2, HolderSInv DEF Applying
<1> QED
  BY <1>1, <1>2

LEMMA WriteFileSInv == ASSUME Runs = {}, IInv, SInv, NEW p \in Actors, WriteFile(p) PROVE SInv'
<1>1. /\ Goto(p, "write_state") /\ pc[p] \in Holding
      /\ UNCHANGED <<status, up, seen, plan>>
  BY DEF WriteFile, Holding, db
<1> QED
  BY <1>1, HolderSInv DEF Applying

LEMMA WriteStateSInv == ASSUME Runs = {}, IInv, SInv, NEW p \in Actors, WriteState(p) PROVE SInv'
<1>1. /\ Goto(p, "write_event") /\ pc[p] \in Holding
      /\ UNCHANGED <<up, seen, plan>>
      /\ status' = StatusAfter[plan[p].decision]
  BY DEF WriteState, Holding
<1>2. plan[p].decision \in Decisions \ {"keep"}
  BY DEF IInv, TypeOK, WriteState, OnlyChangesAreApplied, Applying, Plan
<1>3. status' # "none"
  BY <1>1, <1>2 DEF StatusAfter, Decisions
<1> QED
  BY <1>1, <1>3, HolderSInv DEF Applying

LEMMA WriteEventSInv == ASSUME Runs = {}, IInv, SInv, NEW p \in Actors, WriteEvent(p) PROVE SInv'
<1>1. /\ Goto(p, "reload") /\ pc[p] \in Holding
      /\ UNCHANGED <<status, up, seen, plan>>
  BY DEF WriteEvent, Holding
<1>2. status = StatusAfter[plan[p].decision]
  BY DEF WriteEvent, SInv, StatusIsDecided
<1> QED
  BY <1>1, <1>2, HolderSInv DEF Applying

LEMMA ReloadSInv == ASSUME Runs = {}, IInv, SInv, NEW p \in Actors, Reload(p) PROVE SInv'
<1>1. /\ Goto(p, "idle") /\ pc[p] \in Holding
      /\ UNCHANGED <<status, up>>
      /\ \A a \in Actors \ {p} : seen'[a] = seen[a] /\ plan'[a] = plan[a]
  BY DEF Reload, Release, Holding, db, IInv, TypeOK
<1> QED
  BY <1>1, HolderSInv

LEMMA NextSInv == ASSUME Runs = {}, Failures = FALSE, IInv, SInv, [Next]_vars PROVE SInv'
<1>1. CASE Start \/ Crash
  BY <1>1, StartSInv, CrashSInv
<1>2. ASSUME NEW t \in Turns, Prune(t) \/ Turn(t) PROVE SInv'
  <2>1. t \in Actors
    BY DEF Actors, Serve
  <2>2. CASE Apply(t) \/ Reload(t)
    BY <2>1, <2>2, DecideSInv, WriteFileSInv, WriteStateSInv, WriteEventSInv, ReloadSInv
       DEF Apply, WriteFails
  <2>3. CASE ~Apply(t) /\ ~Reload(t)
    <3>1. PICK label : QuietStep(t, label)
      BY <1>2, <2>3, TurnIsQuiet DEF Turn
    <3> QED
      BY <2>1, <3>1, QuietStepSInv
  <2> QED
    BY <2>2, <2>3
<1>3. ASSUME NEW i \in DOMAIN execs, NEW sig \in Clicks, Feedback(i, sig) PROVE SInv'
  <2>1. Web \in Actors
    BY DEF Actors, Serve
  <2> QED
    BY <1>3, <2>1, FeedbackIsQuiet, QuietStepSInv
<1>4. CASE Apply(Web) \/ Reload(Web)
  <2>1. Web \in Actors
    BY DEF Actors, Serve
  <2> QED
    BY <1>4, <2>1, DecideSInv, WriteFileSInv, WriteStateSInv, WriteEventSInv, ReloadSInv
       DEF Apply, WriteFails
<1>5. CASE UNCHANGED vars
  BY <1>5 DEF vars, db, SInv, Exclusive, NoLostUpdate, UpAndDown, StatusIsDecided
<1> QED
  BY <1>1, <1>2, <1>3, <1>4, <1>5 DEF Next

-----------------------------------------------------------------------------
(* The registry, the state row and the file *)

(* What an answer registers, if anything, is the file of a skill in use.   *)
AnswersAgree ==
    \A t \in Turns : Answer(t) =>
        \/ registry' = registry
        \/ registry'.in /\ registry'.skill = file /\ status # "disabled"

(* An actor that is about to write, or to reload, is between agreements.   *)
LEMMA ApplyingDisagrees ==
    ASSUME IInv, NEW p \in Actors, NEW label \in Applying, Goto(p, label)
    PROVE  Agreement'
  BY DEF IInv, TypeOK, Goto, Agreement

(* When the loop is free nothing is being applied. *)
LEMMA FreeAgreement ==
    ASSUME Runs = {}, Agreement, LoopFree
    PROVE  Agrees
  BY HoldingIsNotAwaiting DEF Agreement, LoopFree, Actors

(* A step that does not end the application of a plan leaves agreed what   *)
(* it leaves alone.                                                        *)
LEMMA AgreementKept ==
    ASSUME IInv, Agreement, NEW p \in Actors, NEW label, Goto(p, label), pc[p] \notin Applying,
           UNCHANGED <<file, status, registry, up>>
    PROVE  Agreement'
<1>1. \A a \in Actors : pc'[a] = IF a = p THEN label ELSE pc[a]
  BY DEF IInv, TypeOK, Goto
<1> QED
  BY <1>1 DEF Agreement, Agrees

LEMMA ReloadAgreement ==
    ASSUME IInv, SInv, NEW p \in Actors, Reload(p)
    PROVE  Agrees'
<1>1. plan[p].decision \in Decisions \ {"keep"}
  BY DEF IInv, TypeOK, Reload, OnlyChangesAreApplied, Applying, Plan
<1>2. status = StatusAfter[plan[p].decision]
  BY DEF Reload, SInv, StatusIsDecided
<1>3. status = "disabled" <=> plan[p].decision = "disable"
  BY <1>1, <1>2 DEF StatusAfter, Decisions
<1> QED
  BY <1>3 DEF Reload, Agrees, Unregistered, db

LEMMA ApplyAgreement ==
    ASSUME Failures = FALSE, IInv, SInv, Agreement, NEW p \in Serve, Apply(p) \/ Reload(p)
    PROVE  Agreement'
<1> p \in Actors
  BY DEF Actors
<1>1. CASE Decide(p)
  <2>1. PICK label : Goto(p, label)
    BY <1>1 DEF Decide, Release
  <2>2. pc[p] \notin Applying /\ UNCHANGED <<file, status, registry, up>>
    BY <1>1 DEF Decide, Applying, db
  <2> QED
    BY <2>1, <2>2, AgreementKept
<1>2. CASE WriteFile(p)
  BY <1>2, ApplyingDisagrees DEF WriteFile, Applying
<1>3. CASE WriteState(p)
  BY <1>3, ApplyingDisagrees DEF WriteState, Applying
<1>4. CASE WriteEvent(p)
  <2>1. p \notin Runs
    BY ActorsAssumption DEF Serve
  <2> QED
    BY <1>4, <2>1, ApplyingDisagrees DEF WriteEvent, Applying
<1>5. CASE Reload(p)
  BY <1>5, ReloadAgreement DEF Agreement
<1> QED
  BY <1>1, <1>2, <1>3, <1>4, <1>5 DEF Apply, WriteFails

LEMMA NextAgreement ==
    ASSUME Runs = {}, Failures = FALSE, IInv, SInv, Agreement, AnswersAgree, [Next]_vars
    PROVE  Agreement'
<1>1. CASE Start
  BY <1>1 DEF Start, Agreement, Agrees, ResolvedStatus, Unregistered
<1>2. CASE Crash
  BY <1>2 DEF Crash, Agreement
<1>3. ASSUME NEW t \in Turns, Prune(t) \/ Turn(t) PROVE Agreement'
  <2>1. t \in Actors /\ t \in Serve
    BY DEF Actors, Serve
  <2>2. CASE Apply(t) \/ Reload(t)
    BY <2>1, <2>2, ApplyAgreement
  <2>3. CASE Prune(t)
    <3>1. Agrees /\ UNCHANGED <<file, status>>
      BY <2>3, FreeAgreement DEF Prune, db
    <3>2. Agrees'
      BY <2>3, <3>1 DEF Prune, Agrees, Unregistered
    <3> QED
      BY <3>2 DEF Agreement
  <2>4. CASE Answer(t)
    <3>1. Agrees /\ UNCHANGED <<file, status>>
      BY <2>4, FreeAgreement DEF Answer, db
    <3>2. Agrees'
      BY <2>4, <3>1 DEF AnswersAgree, Agrees
    <3> QED
      BY <3>2 DEF Agreement
  <2>5. CASE \/ Match(t) \/ NoMatch(t) \/ AnswerFails(t) \/ Record(t) \/ JudgeFails(t) \/ Reconcile(t)
             \/ Rewriter(t) \/ \E score \in Scores : Judge(t, score)
    <3>1. PICK label : QuietStep(t, label)
      BY <2>5, TurnIsQuiet
    <3>2. UNCHANGED registry
      BY <2>5 DEF Match, NoMatch, AnswerFails, Record, JudgeFails, Reconcile, Rewriter, Judge
    <3> QED
      BY <2>1, <3>1, <3>2, AgreementKept DEF QuietStep
  <2> QED
    BY <1>3, <2>2, <2>3, <2>4, <2>5 DEF Turn
<1>4. ASSUME NEW i \in DOMAIN execs, NEW sig \in Clicks, Feedback(i, sig) PROVE Agreement'
  <2>1. Web \in Actors /\ QuietStep(Web, "decide") /\ UNCHANGED registry
    BY <1>4, FeedbackIsQuiet DEF Actors, Serve, Feedback
  <2> QED
    BY <2>1, AgreementKept DEF QuietStep
<1>5. CASE Apply(Web) \/ Reload(Web)
  BY <1>5, ApplyAgreement DEF Serve
<1>6. CASE UNCHANGED vars
  BY <1>6 DEF vars, db, Agreement, Agrees
<1> QED
  BY <1>1, <1>2, <1>3, <1>4, <1>5, <1>6 DEF Next

(* With the contract in its frontmatter no Skill object lacks one.         *)
NoneBare == bare = {}

LEMMA NextNoneBare ==
    ASSUME ContractInRow = FALSE, NoneBare, [Next]_vars
    PROVE  NoneBare'
<1>1. Parsed = {} /\ \A x : Dropped(x) = {}
  BY DEF Parsed, Dropped, NoneBare
<1>2. CASE Start \/ Crash
  BY <1>1, <1>2 DEF Start, Crash, NoneBare
<1>3. ASSUME NEW p, Apply(p) \/ Reload(p) \/ RunCrash(p) PROVE NoneBare'
  BY <1>1, <1>3 DEF Apply, Decide, WriteFile, WriteState, WriteEvent, WriteFails, Reload, RunCrash,
     NoneBare
<1>4. ASSUME NEW t \in Turns, Prune(t) \/ Turn(t) PROVE NoneBare'
  <2>1. CASE Prune(t) \/ NoMatch(t) \/ AnswerFails(t) \/ Record(t) \/ JudgeFails(t) \/ Reconcile(t)
             \/ Rewriter(t) \/ \E score \in Scores : Judge(t, score)
    BY <1>1, <2>1 DEF Prune, NoMatch, AnswerFails, Record, JudgeFails, Reconcile, Rewriter, Judge,
       NoneBare
  <2>2. CASE Match(t)
    BY <2>2 DEF Match, NoneBare
  <2>3. CASE Answer(t)
    BY <2>3 DEF Answer, NoneBare
  <2> QED
    BY <1>3, <1>4, <2>1, <2>2, <2>3 DEF Turn
<1>5. CASE \E i \in DOMAIN execs, sig \in Clicks : Feedback(i, sig)
  BY <1>5 DEF Feedback, NoneBare
<1>6. CASE \E r \in Runs : RunLoad(r) \/ RunRead(r) \/ RunSkip(r) \/ RunGovern(r)
  BY <1>6 DEF RunLoad, RunRead, RunSkip, RunGovern, NoneBare
<1>7. CASE UNCHANGED vars
  BY <1>7 DEF vars, NoneBare
<1> QED
  BY <1>2, <1>3, <1>4, <1>5, <1>6, <1>7 DEF Next, Run

LEMMA NoneBareAgrees == NoneBare => AnswersAgree
  BY DEF NoneBare, AnswersAgree, Answer

(* serve uses what is governed: as long as no other process governs the    *)
(* skill, its writes succeed and its SKILL.md carries the contract, the    *)
(* registry holds exactly the file of a skill that is not disabled,        *)
(* whenever the loop is free, across crashes and restarts                  *)
(* (_reload_governed_skill, _apply_skill_state_overrides).  A contract     *)
(* that only the row has breaks this (_ensure_skill_evaluation_contract).  *)
THEOREM ServeUsesWhatIsGoverned ==
    ASSUME Runs = {}, Failures = FALSE, ContractInRow = FALSE
    PROVE  Spec => []RegistryAgrees
<1>1. Init => SInv /\ Agreement /\ NoneBare
  BY InitSInv DEF Init, Agreement, NoneBare
<1>2. IInv /\ SInv /\ [Next]_vars => SInv'
  BY NextSInv
<1>3. NoneBare /\ [Next]_vars => NoneBare'
  BY NextNoneBare
<1>4. IInv /\ SInv /\ Agreement /\ NoneBare /\ [Next]_vars => Agreement'
  BY NextAgreement, NoneBareAgrees
<1>5. Agreement => RegistryAgrees
  BY FreeAgreement DEF RegistryAgrees, Agrees
<1> QED
  BY <1>1, <1>2, <1>3, <1>4, <1>5, Inductive, PTL DEF Spec

-----------------------------------------------------------------------------
(* The record of changes *)

LEMMA InitAccounted == Init => FileIsAccountedFor
  BY DEF Init, FileIsAccountedFor, Recorded, ContentEvents

(* What is recorded stays recorded until the next event or the next write. *)
LEMMA RecordedKept ==
    ASSUME UNCHANGED <<file, events>>
    PROVE  Recorded(file) <=> Recorded(file)'
  BY DEF Recorded, ContentEvents

(* The actor that holds the loop is the only one in the middle of a change. *)
LEMMA OnlyHolder ==
    ASSUME SInv, NEW p \in Actors, pc[p] \in Holding
    PROVE  \A a \in Actors \ {p} : pc[a] \notin Applying
  BY HoldingIsNotAwaiting DEF SInv, Exclusive

LEMMA DecideAccounted ==
    ASSUME Runs = {}, IInv, SInv, FileIsAccountedFor, NEW p \in Actors, Decide(p)
    PROVE  FileIsAccountedFor'
<1>1. CASE QuietStep(p, "idle")
  BY <1>1, QuietStepAccounted
<1>2. CASE ~QuietStep(p, "idle")
  <2>1. PICK label \in {"write_file", "write_state"} :
           /\ Goto(p, label)
           /\ label = "write_file" <=> plan'[p].decision \in Changing
           /\ UNCHANGED <<file, events>>
    BY <1>2, DecideCases
  <2>2. pc[p] \in Holding /\ pc[p] = "decide"
    BY DEF Decide, Holding
  <2>3. \A a \in Actors : pc'[a] = IF a = p THEN label ELSE pc[a]
    BY <2>1 DEF IInv, TypeOK, Goto
  <2>4. \A a \in Actors \ {p} : pc[a] \notin Applying
    BY <2>2, OnlyHolder
  <2>5. Recorded(file)'
    BY <2>1, <2>2, <2>4, RecordedKept DEF FileIsAccountedFor, Applying
  <2> QED
    BY <2>1, <2>3, <2>4, <2>5 DEF FileIsAccountedFor, Applying
<1> QED
  BY <1>1, <1>2

LEMMA WriteFileAccounted ==
    ASSUME IInv, SInv, FileIsAccountedFor, NEW p \in Actors, WriteFile(p)
    PROVE  FileIsAccountedFor'
<1>1. \A a \in Actors : pc'[a] = IF a = p THEN "write_state" ELSE pc[a]
  BY DEF IInv, TypeOK, Goto, WriteFile
<1>2. pc[p] = "write_file" /\ pc[p] \in Holding
  BY DEF WriteFile, Holding
<1>3. \A a \in Actors \ {p} : pc[a] \notin Applying
  BY <1>2, OnlyHolder
<1>4. plan[p].decision \in Changing /\ file' = plan[p].after /\ plan' = plan
  BY <1>2 DEF FileIsAccountedFor, WriteFile
<1> QED
  BY <1>1, <1>3, <1>4 DEF FileIsAccountedFor, Applying

LEMMA WriteStateAccounted ==
    ASSUME IInv, SInv, FileIsAccountedFor, NEW p \in Actors, WriteState(p)
    PROVE  FileIsAccountedFor'
<1>1. \A a \in Actors : pc'[a] = IF a = p THEN "write_event" ELSE pc[a]
  BY DEF IInv, TypeOK, Goto, WriteState
<1>2. pc[p] = "write_state" /\ pc[p] \in Holding /\ UNCHANGED <<file, events, plan>>
  BY DEF WriteState, Holding
<1>3. \A a \in Actors \ {p} : pc[a] \notin Applying
  BY <1>2, OnlyHolder
<1> QED
  BY <1>1, <1>2, <1>3, RecordedKept DEF FileIsAccountedFor, Applying

LEMMA WriteEventAccounted ==
    ASSUME Runs = {}, IInv, SInv, FileIsAccountedFor, NEW p \in Actors, WriteEvent(p)
    PROVE  FileIsAccountedFor'
<1>1. \A a \in Actors : pc'[a] = IF a = p THEN "reload" ELSE pc[a]
  BY DEF IInv, TypeOK, Goto, WriteEvent
<1>2. pc[p] = "write_event" /\ pc[p] \in Holding /\ UNCHANGED <<file, plan>>
  BY DEF WriteEvent, Holding
<1>3. \A a \in Actors \ {p} : pc[a] \notin Applying
  BY <1>2, OnlyHolder
<1> DEFINE e == [action |-> plan[p].decision, before |-> packet[p].current,
                 after |-> plan[p].after, at |-> Now]
           new == Len(events) + 1
<1>4. /\ events' = Append(events, e)
      /\ e.action = plan[p].decision /\ e.after = plan[p].after
      /\ e \in LifecycleEvent /\ events \in Seq(LifecycleEvent)
  BY NowTyped DEF WriteEvent, IInv, TypeOK, LifecycleEvent, Plan, Packets
<1> HIDE DEF e
<1>5. /\ DOMAIN events = 1..Len(events) /\ DOMAIN events' = 1..new
      /\ \A c \in 1..Len(events) : events'[c] = events[c]
      /\ events'[new] = e /\ Len(events) \in Nat
  BY <1>4
<1>6. Recorded(file)'
  <2>1. CASE plan[p].decision \in Changing
    <3>1. new \in ContentEvents' /\ \A b \in ContentEvents' : b <= new
      BY <1>4, <1>5, <2>1 DEF ContentEvents, Changing
    <3>2. file' = events'[new].after
      BY <1>2, <1>4, <1>5, <2>1 DEF FileIsAccountedFor
    <3> QED
      BY <3>1, <3>2 DEF Recorded
  <2>2. CASE plan[p].decision \notin Changing
    <3>1. Recorded(file)
      BY <1>2, <2>2 DEF FileIsAccountedFor
    <3>2. ContentEvents' = ContentEvents
      BY <1>4, <1>5, <2>2 DEF ContentEvents, Changing
    <3>3. \A c \in ContentEvents : events'[c] = events[c]
      BY <1>5 DEF ContentEvents
    <3> QED
      BY <1>2, <3>1, <3>2, <3>3 DEF Recorded
  <2> QED
    BY <2>1, <2>2
<1> QED
  BY <1>1, <1>3, <1>6 DEF FileIsAccountedFor, Applying

LEMMA ReloadAccounted ==
    ASSUME IInv, SInv, FileIsAccountedFor, NEW p \in Actors, Reload(p)
    PROVE  FileIsAccountedFor'
<1>1. \A a \in Actors : pc'[a] = IF a = p THEN "idle" ELSE pc[a]
  BY DEF IInv, TypeOK, Goto, Reload, Release
<1>2. pc[p] = "reload" /\ pc[p] \in Holding /\ UNCHANGED <<file, events>>
  BY DEF Reload, Holding, db
<1>3. \A a \in Actors \ {p} : pc[a] \notin Applying
  BY <1>2, OnlyHolder
<1>4. Recorded(file)'
  BY <1>2, <1>3, RecordedKept DEF FileIsAccountedFor, Applying
<1> QED
  BY <1>1, <1>3, <1>4 DEF FileIsAccountedFor, Applying

LEMMA NextAccounted ==
    ASSUME Runs = {}, Crashes = FALSE, Failures = FALSE, IInv, SInv, FileIsAccountedFor, [Next]_vars
    PROVE  FileIsAccountedFor'
<1>1. CASE Start
  <2>1. UNCHANGED <<file, events, pc, plan>>
    BY <1>1 DEF Start, db
  <2> QED
    BY <2>1, RecordedKept DEF FileIsAccountedFor
<1>2. ASSUME NEW p \in Actors, Apply(p) \/ Reload(p) PROVE FileIsAccountedFor'
  BY <1>2, DecideAccounted, WriteFileAccounted, WriteStateAccounted, WriteEventAccounted,
     ReloadAccounted DEF Apply, WriteFails
<1>3. ASSUME NEW t \in Turns, Prune(t) \/ Turn(t) PROVE FileIsAccountedFor'
  <2>1. t \in Actors
    BY DEF Actors, Serve
  <2>2. CASE Apply(t) \/ Reload(t)
    BY <1>2, <2>1, <2>2
  <2>3. CASE ~Apply(t) /\ ~Reload(t)
    <3>1. PICK label : QuietStep(t, label)
      BY <1>3, <2>3, TurnIsQuiet DEF Turn
    <3> QED
      BY <2>1, <3>1, QuietStepAccounted
  <2> QED
    BY <2>2, <2>3
<1>4. CASE Apply(Web) \/ Reload(Web)
  BY <1>2, <1>4 DEF Actors, Serve
<1>5. ASSUME NEW i \in DOMAIN execs, NEW sig \in Clicks, Feedback(i, sig)
      PROVE  FileIsAccountedFor'
  <2>1. Web \in Actors
    BY DEF Actors, Serve
  <2> QED
    BY <1>5, <2>1, FeedbackIsQuiet, QuietStepAccounted
<1>6. CASE UNCHANGED vars
  <2>1. UNCHANGED <<file, events, pc, plan>>
    BY <1>6 DEF vars, db
  <2> QED
    BY <2>1, RecordedKept DEF FileIsAccountedFor
<1> QED
  BY <1>1, <1>2, <1>3, <1>4, <1>5, <1>6 DEF Next, Crash

(* Every automatic change leaves its record: when serve governs the skill  *)
(* alone, does not die and its writes succeed, the file is between         *)
(* decisions what the last recorded change left, or what was installed,    *)
(* however many turns and feedback requests overlap (_apply_decision,      *)
(* _apply_runtime_update).                                                 *)
THEOREM EveryChangeIsRecorded ==
    ASSUME Runs = {}, Crashes = FALSE, Failures = FALSE
    PROVE  Spec => []ChangesAreRecorded
<1>1. Init => SInv /\ FileIsAccountedFor
  BY InitSInv, InitAccounted
<1>2. IInv /\ SInv /\ FileIsAccountedFor /\ [Next]_vars => SInv' /\ FileIsAccountedFor'
  BY NextSInv, NextAccounted
<1>3. FileIsAccountedFor => ChangesAreRecorded
  BY DEF FileIsAccountedFor, ChangesAreRecorded, Settled
<1> QED
  BY <1>1, <1>2, <1>3, Inductive, PTL DEF Spec


-----------------------------------------------------------------------------
(* Evidence for two executions *)

TwoOf(S) == \E a, b \in S : a # b

LEMMA CardinalityOfTwo ==
    ASSUME NEW S, IsFiniteSet(S)
    PROVE  Cardinality(S) >= 2 <=> TwoOf(S)
<1>1. Cardinality(S) \in Nat
  BY FS_CardinalityType
<1>2. ASSUME Cardinality(S) >= 2 PROVE TwoOf(S)
  <2>1. S # {}
    BY <1>2, FS_EmptySet
  <2>2. PICK a \in S : TRUE
    BY <2>1
  <2>3. S # {a}
    BY <1>2, FS_Singleton
  <2> QED
    BY <2>2, <2>3 DEF TwoOf
<1>3. ASSUME TwoOf(S) PROVE Cardinality(S) >= 2
  <2>1. PICK a, b \in S : a # b
    BY <1>3 DEF TwoOf
  <2>2. Cardinality(S) # 0
    BY <2>1, FS_EmptySet
  <2>3. Cardinality(S) # 1
    BY <2>1, FS_Singleton
  <2> QED
    BY <1>1, <2>2, <2>3
<1> QED
  BY <1>2, <1>3

LEMMA EvidenceIsFinite ==
    ASSUME TypeOK
    PROVE  /\ IsFiniteSet(Scored(execs)) /\ IsFiniteSet(Evidenced(execs))
           /\ Scored(execs) \subseteq Evidenced(execs)
           /\ Evidenced(execs) \subseteq 1..Len(execs)
<1>1. Evidenced(execs) \subseteq 1..Len(execs) /\ Scored(execs) \subseteq Evidenced(execs)
  BY DEF Evidenced, Scored, Signalled, TypeOK
<1>2. IsFiniteSet(1..Len(execs))
  BY FS_Interval DEF TypeOK
<1> QED
  BY <1>1, <1>2, FS_Subset

(* What the newest executions show, all of them show.                      *)
LEMMA RecentEvidence ==
    ASSUME TypeOK, Cardinality(Evidenced(RecentExecs)) >= 2
    PROVE  TwoOf(Evidenced(execs))
<1> DEFINE from == IF Len(execs) > EvidenceLimit THEN Len(execs) - EvidenceLimit + 1 ELSE 1
<1>1. from \in 1..(Len(execs) + 1) /\ RecentExecs = SubSeq(execs, from, Len(execs))
  BY BoundsAssumption DEF RecentExecs, TypeOK
<1>2. /\ Len(RecentExecs) = Len(execs) - from + 1
      /\ DOMAIN RecentExecs = 1..(Len(execs) - from + 1)
      /\ \A i \in 1..(Len(execs) - from + 1) : RecentExecs[i] = execs[from + i - 1]
  <2> HIDE DEF from
  <2> QED
    BY <1>1 DEF TypeOK
<1>3. Evidenced(RecentExecs) \subseteq 1..(Len(execs) - from + 1)
  BY <1>2 DEF Evidenced, Scored, Signalled
<1> HIDE DEF from
<1>4. IsFiniteSet(Evidenced(RecentExecs))
  <2>1. Len(execs) - from + 1 \in Int
    BY <1>1 DEF TypeOK
  <2>2. IsFiniteSet(1..(Len(execs) - from + 1))
    BY <2>1, FS_Interval
  <2> QED
    BY <1>3, <2>2, FS_Subset
<1>5. TwoOf(Evidenced(RecentExecs))
  BY <1>4, CardinalityOfTwo
<1>6. PICK a, b \in Evidenced(RecentExecs) : a # b
  BY <1>5 DEF TwoOf
<1>7. ASSUME NEW i \in Evidenced(RecentExecs) PROVE from + i - 1 \in Evidenced(execs)
  <2>1. i \in 1..(Len(execs) - from + 1) /\ from + i - 1 \in 1..Len(execs)
    BY <1>1, <1>3 DEF TypeOK
  <2>2. RecentExecs[i] = execs[from + i - 1]
    BY <1>2, <2>1
  <2> QED
    BY <2>1, <2>2 DEF Evidenced, Scored, Signalled, TypeOK
<1>8. from + a - 1 # from + b - 1
  BY <1>1, <1>3, <1>6 DEF TypeOK
<1> QED
  BY <1>6, <1>7, <1>8 DEF TwoOf

(* Scores demand nothing until MinRewrite or MinDisable of them are there. *)
LEMMA ScoresOfTwo ==
    ASSUME TypeOK, TypedDecisions = {"keep"}, MinRewrite >= 2, MinDisable >= 2,
           NEW typed \in TypedDecisions, ExecutionDecision(typed) # "keep"
    PROVE  TwoOf(Scored(execs))
<1> DEFINE S == JudgedSince(Cutoff(Len(events)))
<1>1. Cardinality(S) >= MinRewrite \/ Cardinality(S) >= MinDisable
  BY Zenon DEF ExecutionDecision
<1>2. S \subseteq Scored(execs) /\ IsFiniteSet(S)
  BY EvidenceIsFinite, FS_Subset DEF JudgedSince, Judged
<1>3. Cardinality(S) >= 2
  BY <1>1, <1>2, FS_CardinalityType, ContractAssumption
<1>4. TwoOf(S)
  BY <1>2, <1>3, CardinalityOfTwo
<1> QED
  BY <1>2, <1>4 DEF TwoOf

(* Who is about to rewrite or to disable has the scores of two executions, *)
(* or has just read signals of two.                                        *)
TwoInv ==
    /\ \A p \in Actors : /\ packet[p].surface = "serve" /\ ~packet[p].praise
                         /\ packet[p].policy = Calm
    /\ \A p \in Actors : pc[p] = "rewriting" => TwoOf(Scored(execs))
    /\ \A p \in Actors :
          pc[p] = "decide" /\ (packet[p].execution # "keep" \/ packet[p].disable)
             => TwoOf(Evidenced(execs))

(* What demands a change when it is read is evidence of two executions.    *)
DemandsHaveTwo ==
    /\ \A typed \in TypedDecisions : ExecutionDecision(typed) # "keep" => TwoOf(Scored(execs))
    /\ ShouldDisable(RecentExecs) => TwoOf(Evidenced(execs))

(* The contract asks for two samples, and no typed result decides.         *)
AsksForTwo == TypedDecisions = {"keep"} /\ MinRewrite >= 2 /\ MinDisable >= 2

LEMMA DemandIsOfTwo == AsksForTwo /\ TypeOK => DemandsHaveTwo
  BY ScoresOfTwo, RecentEvidence DEF AsksForTwo, DemandsHaveTwo, ShouldDisable

LEMMA NextDemandIsOfTwo == AsksForTwo /\ TypeOK' => DemandsHaveTwo'
<1>1. (AsksForTwo /\ TypeOK => DemandsHaveTwo)'
  BY DemandIsOfTwo, PTL
<1> QED
  BY <1>1 DEF AsksForTwo

LEMMA NowIsPositive == ASSUME TypeOK PROVE Now \in Nat \ {0}
<1>1. Cardinality(Scored(execs)) \in Nat
  BY EvidenceIsFinite, FS_CardinalityType
<1> QED
  BY <1>1 DEF Now, TypeOK

(* No evidence is lost, except that a user takes a signal back.            *)
EvidenceGrows ==
    /\ Scored(execs) \subseteq Scored(execs')
    /\ Evidenced(execs) \subseteq Evidenced(execs')

LEMMA EvidenceKept == ASSUME UNCHANGED execs PROVE EvidenceGrows
  BY DEF EvidenceGrows

LEMMA RecordGrows == ASSUME IInv, NEW t \in Turns, Record(t) PROVE EvidenceGrows
<1> DEFINE e == [ver |-> held[t].ver, ran |-> held[t].body, digest |-> file,
                 sig |-> {}, score |-> 0, at |-> 0]
<1>1. execs' = Append(execs, e) /\ execs \in Seq(Execution)
  BY DEF IInv, TypeOK, Record
<1> HIDE DEF e
<1>2. /\ DOMAIN execs = 1..Len(execs) /\ DOMAIN execs' = 1..(Len(execs) + 1)
      /\ Len(execs) \in Nat
      /\ \A i \in 1..Len(execs) : execs'[i] = execs[i]
  BY <1>1
<1> QED
  BY <1>2 DEF EvidenceGrows, Evidenced, Scored, Signalled

LEMMA JudgeGrows ==
    ASSUME IInv, NEW t \in Turns, NEW score \in Scores, Judge(t, score)
    PROVE  EvidenceGrows
<1>1. execs \in Seq(Execution) /\ Now \in Nat \ {0}
  BY NowIsPositive DEF IInv, TypeOK
<1>2. /\ DOMAIN execs' = DOMAIN execs
      /\ \A i \in DOMAIN execs : /\ execs'[i].at \in {execs[i].at, Now}
                                 /\ execs'[i].sig = execs[i].sig
  <2> DEFINE e == [execs[exec[t]] EXCEPT !.score = score, !.at = Now]
  <2>1. execs' = [execs EXCEPT ![exec[t]] = e]
    BY DEF Judge
  <2>2. exec[t] \in DOMAIN execs => e.at = Now /\ e.sig = execs[exec[t]].sig
    <3>1. ASSUME exec[t] \in DOMAIN execs PROVE execs[exec[t]] \in Execution
      BY <1>1, <3>1
    <3> QED
      BY <3>1 DEF Execution
  <2> HIDE DEF e
  <2> QED
    BY <1>1, <2>1, <2>2
<1> QED
  BY <1>1, <1>2 DEF EvidenceGrows, Evidenced, Scored, Signalled

(* An actor moves on, or ends, with its packet behind it.                  *)
LEMMA MovesOnTwo ==
    ASSUME IInv, TwoInv, EvidenceGrows, NEW p \in Actors,
           \A a \in Actors \ {p} : pc'[a] = pc[a] /\ packet'[a] = packet[a],
           packet'[p] \in {packet[p], NoPacket},
           pc'[p] \in {"decide", "rewriting"} => pc[p] = "rewriting" /\ pc'[p] = "decide"
    PROVE  TwoInv'
<1>1. \A a \in Actors : packet'[a].surface = "serve" /\ ~packet'[a].praise /\ packet'[a].policy = Calm
  <2>1. NoPacket.surface = "serve" /\ ~NoPacket.praise /\ NoPacket.policy = Calm
    BY DEF NoPacket
  <2> QED
    BY <2>1 DEF TwoInv
<1>2. /\ TwoOf(Scored(execs)) => TwoOf(Scored(execs)') /\ TwoOf(Evidenced(execs)')
      /\ TwoOf(Evidenced(execs)) => TwoOf(Evidenced(execs)')
  <2>1. Scored(execs') \subseteq Evidenced(execs')
    BY DEF Evidenced
  <2> QED
    BY <2>1 DEF EvidenceGrows, TwoOf
<1>3. \A a \in Actors : pc'[a] = "rewriting" => TwoOf(Scored(execs)')
  BY <1>2 DEF TwoInv
<1>4. ASSUME NEW a \in Actors, pc'[a] = "decide",
             packet'[a].execution # "keep" \/ packet'[a].disable
      PROVE  TwoOf(Evidenced(execs)')
  <2>1. CASE a = p
    BY <1>2, <1>4, <2>1 DEF TwoInv
  <2>2. CASE a # p
    BY <1>2, <1>4, <2>2 DEF TwoInv
  <2> QED
    BY <2>1, <2>2
<1> QED
  BY <1>1, <1>3, <1>4 DEF TwoInv

LEMMA TurnTwo ==
    ASSUME IInv, TwoInv, NEW t \in Turns,
           \/ Prune(t) \/ Match(t) \/ NoMatch(t) \/ AnswerFails(t) \/ Answer(t) \/ Record(t)
           \/ (\E score \in Scores : Judge(t, score)) \/ JudgeFails(t) \/ Rewriter(t)
    PROVE  TwoInv'
<1> t \in Actors
  BY DEF Actors, Serve
<1>1. PICK label \in {"idle", "context", "answering", "recording", "judging", "reconcile", "decide"} :
         /\ Goto(t, label)
         /\ label = "decide" => pc[t] = "rewriting"
         /\ \A a \in Actors \ {t} : packet'[a] = packet[a]
         /\ packet'[t] \in {packet[t], NoPacket}
  <2>1. CASE NoMatch(t) \/ AnswerFails(t)
    BY <2>1 DEF NoMatch, AnswerFails, Release, IInv, TypeOK
  <2>2. CASE ~NoMatch(t) /\ ~AnswerFails(t)
    BY <2>2 DEF Prune, Match, Answer, Record, Judge, JudgeFails, Rewriter
  <2> QED
    BY <2>1, <2>2
<1>2. EvidenceGrows
  <2>1. CASE \/ Prune(t) \/ Match(t) \/ NoMatch(t) \/ AnswerFails(t) \/ Answer(t)
             \/ JudgeFails(t) \/ Rewriter(t)
    BY <2>1, EvidenceKept DEF Prune, Match, NoMatch, AnswerFails, Answer, JudgeFails, Rewriter, db
  <2> QED
    BY <2>1, RecordGrows, JudgeGrows
<1>3. \A a \in Actors : pc'[a] = IF a = t THEN label ELSE pc[a]
  BY <1>1 DEF IInv, TypeOK, Goto
<1> QED
  BY <1>1, <1>2, <1>3, MovesOnTwo

LEMMA DecisionTwo ==
    ASSUME Runs = {}, IInv, TwoInv, NEW p \in Actors, Apply(p) \/ Reload(p)
    PROVE  TwoInv'
<1>1. execs' = execs
  BY DEF Apply, Decide, WriteFile, WriteState, WriteEvent, WriteFails, Reload, db
<1>2. \/ Release(p)
      \/ /\ packet' = packet
         /\ \E label \in {"write_file", "write_state", "write_event", "reload"} : Goto(p, label)
  BY DEF Apply, Decide, WriteFile, WriteState, WriteEvent, WriteFails, Reload
<1>3. /\ \A a \in Actors \ {p} : pc'[a] = pc[a] /\ packet'[a] = packet[a]
      /\ packet'[p] \in {packet[p], NoPacket}
      /\ pc'[p] \notin {"decide", "rewriting"}
  BY <1>2 DEF Release, Goto, IInv, TypeOK
<1> QED
  BY <1>1, <1>3, EvidenceKept, MovesOnTwo

LEMMA ReconcileTwo ==
    ASSUME AsksForTwo, IInv, TwoInv, NEW t \in Turns, Reconcile(t)
    PROVE  TwoInv'
<1> t \in Actors
  BY DEF Actors, Serve
<1>1. execs' = execs
  BY DEF Reconcile, db
<1>2. CASE Release(t)
  <2>1. /\ \A a \in Actors \ {t} : pc'[a] = pc[a] /\ packet'[a] = packet[a]
        /\ packet'[t] = NoPacket /\ pc'[t] = "idle"
    BY <1>2 DEF Release, Goto, IInv, TypeOK
  <2> QED
    BY <1>1, <2>1, EvidenceKept, MovesOnTwo
<1>3. CASE ~Release(t)
  <2>1. PICK typed \in TypedDecisions :
           LET q == BuildPacket("serve", held[t].ver, typed, Calm, FALSE)
           IN  /\ packet' = [packet EXCEPT ![t] = q]
               /\ Goto(t, IF RewriteIsDue(q) THEN "rewriting" ELSE "decide")
    BY <1>3 DEF Reconcile
  <2> DEFINE q == BuildPacket("serve", held[t].ver, typed, Calm, FALSE)
  <2>2. /\ q.surface = "serve" /\ ~q.praise /\ q.policy = Calm
        /\ q.execution = ExecutionDecision(typed)
        /\ q.disable => ShouldDisable(RecentExecs)
    BY DEF BuildPacket
  <2>3. /\ packet' = [packet EXCEPT ![t] = q]
        /\ Goto(t, IF RewriteIsDue(q) THEN "rewriting" ELSE "decide")
    BY <2>1
  <2> HIDE DEF q
  <2>4. RewriteIsDue(q) => q.execution # "keep"
    BY <2>2 DEF RewriteIsDue, Calm
  <2>5. /\ q.execution # "keep" => TwoOf(Scored(execs)) /\ TwoOf(Evidenced(execs))
        /\ q.disable => TwoOf(Evidenced(execs))
    <3>1. DemandsHaveTwo
      BY DemandIsOfTwo DEF IInv
    <3> QED
      BY <2>2, <3>1 DEF DemandsHaveTwo, TwoOf, Evidenced
  <2>6. \A a \in Actors : /\ pc'[a] = IF a = t THEN IF RewriteIsDue(q) THEN "rewriting" ELSE "decide"
                                     ELSE pc[a]
                          /\ packet'[a] = IF a = t THEN q ELSE packet[a]
    BY <2>3 DEF IInv, TypeOK, Goto
  <2> QED
    BY <1>1, <2>2, <2>4, <2>5, <2>6 DEF TwoInv
<1> QED
  BY <1>2, <1>3

LEMMA FeedbackTwo ==
    ASSUME Runs = {}, AsksForTwo, IInv, IInv', TwoInv, NEW i \in DOMAIN execs, NEW sig \in Clicks,
           Feedback(i, sig)
    PROVE  TwoInv'
<1> Web \in Actors
  BY DEF Actors, Serve
<1>1. Scored(execs) \subseteq Scored(execs)'
  <2>1. execs \in Seq(Execution) /\ execs' = [execs EXCEPT ![i].sig = sig]
    BY DEF IInv, TypeOK, Feedback
  <2>2. DOMAIN execs' = DOMAIN execs /\ \A j \in DOMAIN execs : execs'[j].at = execs[j].at
    <3> DEFINE e == [execs[i] EXCEPT !.sig = sig]
    <3>1. execs[i] \in Execution
      BY <2>1
    <3>2. e.at = execs[i].at /\ execs' = [execs EXCEPT ![i] = e]
      BY <2>1, <3>1 DEF Execution
    <3> HIDE DEF e
    <3> QED
      BY <2>1, <3>2
  <2> QED
    BY <2>2 DEF Scored
<1>2. PICK typed \in TypedDecisions :
        packet' = [packet EXCEPT ![Web] =
                     BuildPacket("serve", IF registry.in THEN registry.skill.ver ELSE execs[i].ver,
                                 typed, Calm, FALSE)']
  BY DEF Feedback
<1> DEFINE q == BuildPacket("serve", IF registry.in THEN registry.skill.ver ELSE execs[i].ver,
                            typed, Calm, FALSE)
<1>3. /\ q'.surface = "serve" /\ ~q'.praise /\ q'.policy = Calm
      /\ q'.execution = ExecutionDecision(typed)'
      /\ q'.disable => ShouldDisable(RecentExecs)'
  BY DEF BuildPacket
<1>4. packet' = [packet EXCEPT ![Web] = q']
  BY <1>2
<1> HIDE DEF q
<1>5. q'.execution # "keep" \/ q'.disable => TwoOf(Evidenced(execs)')
  <2>1. DemandsHaveTwo'
    BY NextDemandIsOfTwo DEF IInv
  <2> QED
    BY <1>3, <2>1 DEF DemandsHaveTwo, TwoOf, Evidenced
<1>6. \A a \in Actors : /\ pc'[a] = IF a = Web THEN "decide" ELSE pc[a]
                        /\ packet'[a] = IF a = Web THEN q' ELSE packet[a]
  BY <1>4 DEF IInv, TypeOK, Feedback, Goto
<1>7. \A a \in Actors : pc[a] # "decide"
  BY DEF Feedback, LoopFree, Actors, Awaiting
<1> QED
  BY <1>1, <1>3, <1>5, <1>6, <1>7 DEF TwoInv, TwoOf

LEMMA InitTwo == ASSUME Runs = {} PROVE Init => TwoInv
  BY DEF Init, TwoInv, NoPacket

LEMMA NextTwo ==
    ASSUME Runs = {}, AsksForTwo, IInv, IInv', TwoInv, [Next]_vars
    PROVE  TwoInv'
<1>1. CASE Start \/ UNCHANGED vars
  <2>1. UNCHANGED <<execs, pc, packet>>
    BY <1>1 DEF Start, vars, db
  <2> QED
    BY <2>1 DEF TwoInv
<1>2. CASE Crash
  <2>1. \A p \in Actors : pc'[p] = "idle" /\ packet'[p] = NoPacket
    BY <1>2 DEF Crash, Actors
  <2> QED
    BY <2>1 DEF TwoInv, NoPacket
<1>3. ASSUME NEW t \in Turns, Prune(t) \/ Turn(t) PROVE TwoInv'
  <2>1. t \in Actors
    BY DEF Actors, Serve
  <2>2. CASE Apply(t) \/ Reload(t)
    BY <2>1, <2>2, DecisionTwo
  <2>3. CASE Reconcile(t)
    BY <2>3, ReconcileTwo
  <2> QED
    BY <1>3, <2>2, <2>3, TurnTwo DEF Turn
<1>4. ASSUME NEW i \in DOMAIN execs, NEW sig \in Clicks, Feedback(i, sig) PROVE TwoInv'
  BY <1>4, FeedbackTwo
<1>5. CASE Apply(Web) \/ Reload(Web)
  BY <1>5, DecisionTwo DEF Actors, Serve
<1> QED
  BY <1>1, <1>2, <1>3, <1>4, <1>5 DEF Next

(* What a decision to disable or to rewrite rests on.                      *)
LEMMA DecidedOnTwo ==
    ASSUME Runs = {}, IInv, TwoInv, NEW p \in Actors, [Next]_vars,
           plan'[p] # plan[p], plan'[p].decision \in {"disable", "rewrite"}
    PROVE  Cardinality(Evidenced(execs)) >= 2
<1>1. ASSUME NEW a \in Actors, Decide(a) PROVE TwoOf(Evidenced(execs))
  <2>1. \A b \in Actors \ {a} : plan'[b] = plan[b]
    BY <1>1 DEF Decide, Release, IInv, TypeOK
  <2>2. a = p
    BY <2>1
  <2>3. PICK d \in Reviewed(packet[p]) :
          IF d = "keep"
          THEN plan' = [plan EXCEPT ![p] = NoPlan]
          ELSE plan' = [plan EXCEPT ![p] = [decision |-> d, after |-> Outcome(packet[p], d)]]
    BY <1>1, <2>2 DEF Decide, Release
  <2>4. plan'[p].decision = d \/ plan'[p] = NoPlan
    BY <2>3 DEF IInv, TypeOK
  <2>5. d \in {"disable", "rewrite"}
    BY <2>4 DEF NoPlan
  <2>6. Proposal(packet[p]) = d
    BY <2>5 DEF Reviewed
  <2>7. packet[p].execution # "keep" \/ packet[p].disable
    <3>1. packet[p].policy = Calm /\ ~packet[p].praise
      BY DEF TwoInv
    <3>2. packet[p].window \in {"hold", "confirm", "rollback"}
      BY DEF IInv, TypeOK, Packets
    <3> QED
      BY <2>5, <2>6, <3>1, <3>2 DEF Proposal, Calm
  <2> QED
    BY <1>1, <2>2, <2>7 DEF TwoInv, Decide
<1>2. ASSUME NEW a \in Actors, Release(a) PROVE FALSE
  BY <1>2 DEF Release, NoPlan, IInv, TypeOK
<1>3. CASE plan' = plan
  BY <1>3
<1>4. ASSUME Crash PROVE FALSE
  BY <1>4 DEF Crash, NoPlan, Actors
<1>5. ASSUME NEW a \in Actors, Apply(a) \/ Reload(a) PROVE TwoOf(Evidenced(execs))
  <2>1. Decide(a) \/ Release(a) \/ plan' = plan
    BY <1>5 DEF Apply, WriteFile, WriteState, WriteEvent, WriteFails, Reload
  <2> QED
    BY <1>1, <1>2, <1>3, <2>1
<1>6. ASSUME NEW t \in Turns, Prune(t) \/ Turn(t) PROVE TwoOf(Evidenced(execs))
  <2>1. t \in Actors
    BY DEF Actors, Serve
  <2>2. Apply(t) \/ Reload(t) \/ Release(t) \/ plan' = plan
    BY <1>6 DEF Prune, Turn, Match, NoMatch, AnswerFails, Answer, Record, Judge, JudgeFails, Reconcile, Rewriter
  <2> QED
    BY <1>2, <1>3, <1>5, <2>1, <2>2
<1>7. TwoOf(Evidenced(execs))
  <2>1. CASE Start \/ (\E i \in DOMAIN execs, sig \in Clicks : Feedback(i, sig)) \/ UNCHANGED vars
    BY <1>3, <2>1 DEF Start, Feedback, vars
  <2>2. CASE \E t \in Turns : Prune(t) \/ Turn(t)
    BY <1>6, <2>2
  <2>3. CASE Apply(Web) \/ Reload(Web)
    BY <1>5, <2>3 DEF Actors, Serve
  <2> QED
    BY <1>4, <2>1, <2>2, <2>3 DEF Next
<1> QED
  BY <1>7, EvidenceIsFinite, CardinalityOfTwo DEF IInv

(* One interaction never acts alone: with contracts that ask for two       *)
(* samples and no typed results, whatever turns, feedback and crashes      *)
(* overlap, serve decides to disable or rewrite only when two executions   *)
(* have evidence, also when the user takes a signal back while the         *)
(* rewriter is awaited (aggregate_skill_evidence,                          *)
(* MIN_EXECUTIONS_FOR_ACTION).                                             *)
THEOREM ServeNeedsTwoExecutions ==
    ASSUME Runs = {}, AsksForTwo
    PROVE  Spec => NeverOnOneExecution
<1>1. Init => TwoInv
  BY InitTwo
<1>2. IInv /\ IInv' /\ TwoInv /\ [Next]_vars => TwoInv'
  BY NextTwo
<1>3. IInv /\ TwoInv /\ [Next]_vars =>
        [\A p \in Actors :
            plan'[p] # plan[p] /\ plan'[p].decision \in {"disable", "rewrite"} =>
                Cardinality(Evidenced(execs)) >= 2]_vars
  BY DecidedOnTwo
<1> QED
  BY <1>1, <1>2, <1>3, Inductive, PTL DEF Spec, NeverOnOneExecution

-----------------------------------------------------------------------------
(* What is observed *)

(* The newest event is the rewrite that wrote the file.                    *)
LastIsTheRewrite ==
    /\ events # <<>>
    /\ events[Len(events)].action = "rewrite"
    /\ events[Len(events)].after = file

(* As long as nothing is being written, only the newest event is observed. *)
ObservesTheLast ==
    status = "observing" /\ (\A p \in Actors : pc[p] \notin {"write_file", "write_state", "write_event"})
        => LastIsTheRewrite

(* A packet that is read now finds it.                                     *)
LEMMA TheLastIsFound ==
    ASSUME TypeOK, HistoryLimit > 0, LastIsTheRewrite
    PROVE  LatestRewrite(Len(events)) = Len(events) /\ Len(events) \in Nat \ {0}
<1> DEFINE n == Len(events)
<1>1. n \in Nat \ {0} /\ DOMAIN events = 1..n
  BY DEF TypeOK, LastIsTheRewrite
<1>2. n \in History(n) /\ IsLatestRewrite(n, n)
  BY <1>1, BoundsAssumption DEF History, IsLatestRewrite, LastIsTheRewrite
<1>3. ASSUME NEW i \in History(n), IsLatestRewrite(i, n) PROVE i = n
  <2>1. i \in 1..n
    BY DEF History
  <2>2. i # n => n \in (i + 1)..n
    <3> HIDE DEF n
    <3> QED
      BY <1>1, <2>1
  <2> QED
    BY <1>3, <2>2 DEF IsLatestRewrite, LastIsTheRewrite
<1> QED
  BY <1>1, <1>2, <1>3 DEF LatestRewrite

LEMMA WriteEventObserves ==
    ASSUME Runs = {}, IInv, SInv, FileIsAccountedFor, NEW p \in Actors, WriteEvent(p)
    PROVE  status' = "observing" => LastIsTheRewrite'
<1> SUFFICES ASSUME status' = "observing" PROVE LastIsTheRewrite'
  OBVIOUS
<1>1. status = StatusAfter[plan[p].decision] /\ status = "observing"
  BY DEF WriteEvent, SInv, StatusIsDecided
<1>2. plan[p].decision \in Decisions \ {"keep"}
  BY DEF IInv, TypeOK, WriteEvent, OnlyChangesAreApplied, Applying, Plan
<1>3. plan[p].decision = "rewrite"
  BY <1>1, <1>2 DEF StatusAfter, Decisions
<1>4. file = plan[p].after /\ file' = file
  BY <1>3 DEF FileIsAccountedFor, WriteEvent, Changing
<1> DEFINE e == [action |-> plan[p].decision, before |-> packet[p].current,
                 after |-> plan[p].after, at |-> Now]
<1>5. /\ events' = Append(events, e) /\ events \in Seq(LifecycleEvent)
      /\ e.action = "rewrite" /\ e.after = file
  BY <1>3, <1>4 DEF WriteEvent, IInv, TypeOK
<1> HIDE DEF e
<1>6. Len(events') = Len(events) + 1 /\ events'[Len(events) + 1] = e /\ events' # <<>>
  BY <1>5
<1> QED
  BY <1>4, <1>5, <1>6 DEF LastIsTheRewrite

LEMMA NextObserves ==
    ASSUME Runs = {}, Crashes = FALSE, Failures = FALSE, IInv, SInv, FileIsAccountedFor,
           ObservesTheLast, [Next]_vars
    PROVE  ObservesTheLast'
<1> DEFINE Writing == {"write_file", "write_state", "write_event"}
<1>1. CASE Start
  <2>1. UNCHANGED <<file, events, pc>> /\ (status' = "observing" => status = "observing")
    BY <1>1 DEF Start, db, ResolvedStatus
  <2> QED
    BY <2>1 DEF ObservesTheLast, LastIsTheRewrite
<1>2. ASSUME NEW p \in Actors, NEW label, QuietStep(p, label) PROVE ObservesTheLast'
  <2>1. \A a \in Actors : pc'[a] = IF a = p THEN label ELSE pc[a]
    BY <1>2 DEF IInv, TypeOK, Goto, QuietStep
  <2>2. (\A a \in Actors : pc'[a] \notin Writing) => \A a \in Actors : pc[a] \notin Writing
    BY <1>2, <2>1 DEF QuietStep, Applying
  <2> QED
    BY <1>2, <2>2 DEF QuietStep, ObservesTheLast, LastIsTheRewrite
<1>3. ASSUME NEW p \in Actors, Apply(p) \/ Reload(p) PROVE ObservesTheLast'
  <2>1. CASE Decide(p) /\ QuietStep(p, "idle")
    BY <1>2, <2>1
  <2>2. CASE (Decide(p) /\ ~QuietStep(p, "idle")) \/ WriteFile(p) \/ WriteState(p)
    <3>1. pc'[p] \in Writing
      BY <2>2, DecideCases DEF Goto, WriteFile, WriteState, IInv, TypeOK
    <3> QED
      BY <3>1 DEF ObservesTheLast
  <2>3. CASE WriteEvent(p)
    BY <2>3, WriteEventObserves DEF ObservesTheLast
  <2>4. CASE Reload(p)
    <3>1. UNCHANGED <<file, status, events>> /\ pc[p] = "reload"
          /\ \A a \in Actors : a # p => pc'[a] = pc[a]
      BY <2>4 DEF Reload, Release, Goto, db, IInv, TypeOK
    <3> QED
      BY <3>1 DEF ObservesTheLast, LastIsTheRewrite
  <2> QED
    BY <1>3, <2>1, <2>2, <2>3, <2>4 DEF Apply, WriteFails
<1>4. ASSUME NEW t \in Turns, Prune(t) \/ Turn(t) PROVE ObservesTheLast'
  <2>1. t \in Actors
    BY DEF Actors, Serve
  <2>2. CASE Apply(t) \/ Reload(t)
    BY <1>3, <2>1, <2>2
  <2>3. CASE ~Apply(t) /\ ~Reload(t)
    <3>1. PICK label : QuietStep(t, label)
      BY <1>4, <2>3, TurnIsQuiet DEF Turn
    <3> QED
      BY <1>2, <2>1, <3>1
  <2> QED
    BY <2>2, <2>3
<1>5. CASE Apply(Web) \/ Reload(Web)
  BY <1>3, <1>5 DEF Actors, Serve
<1>6. ASSUME NEW i \in DOMAIN execs, NEW sig \in Clicks, Feedback(i, sig)
      PROVE  ObservesTheLast'
  <2>1. Web \in Actors
    BY DEF Actors, Serve
  <2> QED
    BY <1>2, <1>6, <2>1, FeedbackIsQuiet
<1>7. CASE UNCHANGED vars
  BY <1>7 DEF vars, db, ObservesTheLast, LastIsTheRewrite
<1> QED
  BY <1>1, <1>3, <1>4, <1>5, <1>6, <1>7 DEF Next, Crash

(* What serve governs alone, without dying and with its writes succeeding. *)
UndisturbedInv == IInv /\ SInv /\ FileIsAccountedFor /\ ObservesTheLast

LEMMA Undisturbed ==
    ASSUME Runs = {}, Crashes = FALSE, Failures = FALSE
    PROVE  Spec => []UndisturbedInv
<1>1. Init => SInv /\ FileIsAccountedFor /\ ObservesTheLast
  BY InitSInv, InitAccounted DEF Init, ObservesTheLast
<1>2. IInv /\ SInv /\ FileIsAccountedFor /\ ObservesTheLast /\ [Next]_vars
        => SInv' /\ FileIsAccountedFor' /\ ObservesTheLast'
  BY NextSInv, NextAccounted, NextObserves
<1> QED
  BY <1>1, <1>2, Inductive, PTL DEF Spec, UndisturbedInv

(* An observing skill is the rewrite that opened the window: when serve    *)
(* governs the skill alone, does not die and its writes succeed, however   *)
(* many turns and feedback requests overlap, the newest event is the       *)
(* rewrite that wrote the file, and a packet that reads at least one event *)
(* finds it (_latest_rewrite_event).                                       *)
THEOREM ServeObservesItsRewrite ==
    ASSUME Runs = {}, Crashes = FALSE, Failures = FALSE, HistoryLimit > 0
    PROVE  Spec => []ObservingTheRewrite
<1>1. UndisturbedInv => ObservingTheRewrite
  <2> SUFFICES ASSUME UndisturbedInv, Settled, status = "observing"
               PROVE  /\ LatestRewrite(Len(events)) # 0
                      /\ events[LatestRewrite(Len(events))].after = file
    BY DEF ObservingTheRewrite
  <2>1. LastIsTheRewrite
    BY DEF UndisturbedInv, ObservesTheLast, Settled
  <2>2. LatestRewrite(Len(events)) = Len(events) /\ Len(events) \in Nat \ {0}
    BY <2>1, TheLastIsFound DEF UndisturbedInv, IInv
  <2> QED
    BY <2>1, <2>2 DEF LastIsTheRewrite
<1> QED
  BY <1>1, Undisturbed, PTL

-----------------------------------------------------------------------------
(* One turn at a time, and no feedback *)

SoleTurn(t) == Turns = {t} /\ Runs = {} /\ Clicks = {}

LEMMA SoleActors ==
    ASSUME NEW t, SoleTurn(t)
    PROVE  Actors = {t, Web} /\ t # Web /\ t \in Turns /\ t \in Actors
  BY ActorsAssumption DEF SoleTurn, Actors, Serve

LEMMA SoleSteps ==
    ASSUME NEW t, SoleTurn(t), IInv, pc[Web] = "idle", [Next]_vars
    PROVE  /\ \/ UNCHANGED vars
              \/ Start \/ Crash \/ Prune(t) \/ Match(t) \/ NoMatch(t) \/ AnswerFails(t)
              \/ Answer(t) \/ Record(t) \/ JudgeFails(t) \/ Reconcile(t) \/ Rewriter(t)
              \/ (\E score \in Scores : Judge(t, score))
              \/ Decide(t) \/ WriteFile(t) \/ WriteState(t) \/ WriteEvent(t) \/ WriteFails(t)
              \/ Reload(t)
           /\ pc'[Web] = "idle"
<1>1. ~Apply(Web) /\ ~Reload(Web)
  BY DEF Apply, Decide, WriteFile, WriteState, WriteEvent, WriteFails, Reload
<1>2. \/ UNCHANGED vars \/ Start \/ Crash \/ Prune(t) \/ Turn(t)
  BY <1>1 DEF Next, SoleTurn
<1>3. CASE UNCHANGED vars \/ Start
  BY <1>3 DEF vars, Start
<1>4. CASE Crash
  BY <1>4, SoleActors DEF Crash, Actors, Serve
<1>5. CASE Prune(t) \/ Turn(t)
  <2>1. \E label : Goto(t, label)
    BY <1>5, SoleActors DEF Prune, Turn, Match, NoMatch, AnswerFails, Answer, Record, JudgeFails,
       Reconcile, Rewriter, Judge, Apply, Decide, WriteFile, WriteState, WriteEvent, WriteFails, Reload, Release, SoleTurn
  <2> QED
    BY <1>5, <2>1, SoleActors DEF Goto, IInv, TypeOK, Turn, Apply
<1> QED
  BY <1>2, <1>3, <1>4, <1>5 DEF Turn, Apply

(* What the record of a decision adds.                                     *)
LEMMA EventRecorded ==
    ASSUME IInv, NEW p \in Actors, WriteEvent(p)
    PROVE  /\ Len(events) \in Nat
           /\ DOMAIN events = 1..Len(events) /\ DOMAIN events' = 1..(Len(events) + 1)
           /\ Len(events') = Len(events) + 1
           /\ \A c \in 1..Len(events) : events'[c] = events[c]
           /\ events'[Len(events) + 1].action = plan[p].decision
           /\ events'[Len(events) + 1].before = packet[p].current
           /\ events'[Len(events) + 1].after = plan[p].after
           /\ events'[Len(events) + 1].at = Now
<1> DEFINE e == [action |-> plan[p].decision, before |-> packet[p].current,
                 after |-> plan[p].after, at |-> Now]
<1>1. /\ events' = Append(events, e) /\ events \in Seq(LifecycleEvent)
      /\ e.action = plan[p].decision /\ e.before = packet[p].current
      /\ e.after = plan[p].after /\ e.at = Now
  BY DEF WriteEvent, IInv, TypeOK
<1> HIDE DEF e
<1> QED
  BY <1>1

(* The latest rewrite before an event stays what it was.                   *)
LEMMA RewriteBeforeKept ==
    ASSUME IInv, NEW p \in Actors, WriteEvent(p)
    PROVE  /\ \A c \in 1..(Len(events) + 1) : RewriteBefore(c)' = RewriteBefore(c)
           /\ plan[p].decision = "rewrite" => RewriteBefore(Len(events) + 1)' = {Len(events) + 1}
           /\ plan[p].decision # "rewrite" =>
                RewriteBefore(Len(events) + 1)' = RewriteBefore(Len(events) + 1)
<1> DEFINE n == Len(events)
<1>1. /\ n \in Nat
      /\ \A c \in 1..n : events'[c] = events[c]
      /\ events'[n + 1].action = plan[p].decision
  BY EventRecorded
<1> HIDE DEF n
<1>2. ASSUME NEW c \in 1..(n + 1) PROVE RewriteBefore(c)' = RewriteBefore(c)
  <2>1. \A r \in 1..(c - 1) : r \in 1..n /\ \A k \in (r + 1)..(c - 1) : k \in 1..n
    BY <1>1
  <2>2. \A r \in 1..(c - 1) : /\ events'[r] = events[r]
                              /\ \A k \in (r + 1)..(c - 1) : events'[k] = events[k]
    BY <1>1, <2>1
  <2> QED
    BY <2>2 DEF RewriteBefore
<1> DEFINE upTo(m) == {r \in 1..m : /\ events'[r].action = "rewrite"
                                    /\ \A k \in (r + 1)..m : events'[k].action # "rewrite"}
<1>3. RewriteBefore(Len(events) + 1)' = upTo(n + 1)
  <2>1. RewriteBefore(Len(events) + 1)' = upTo(Len(events') + 1 - 1)
    BY DEF RewriteBefore
  <2>2. Len(events') + 1 - 1 = n + 1
    BY EventRecorded DEF n
  <2>3. upTo(Len(events') + 1 - 1) = upTo(n + 1)
    <3> HIDE DEF upTo
    <3> QED
      BY <2>2
  <2> QED
    BY <2>1, <2>3
<1>4. ASSUME plan[p].decision = "rewrite" PROVE RewriteBefore(Len(events) + 1)' = {n + 1}
  <2>1. \A r \in 1..n : n + 1 \in (r + 1)..(n + 1)
    BY <1>1
  <2>2. \A k \in (n + 2)..(n + 1) : FALSE
    BY <1>1
  <2> QED
    BY <1>1, <1>3, <1>4, <2>1, <2>2
<1>5. ASSUME plan[p].decision # "rewrite" PROVE RewriteBefore(Len(events) + 1)' = RewriteBefore(n + 1)
  <2>1. RewriteBefore(n + 1) =
          {r \in 1..n : /\ events[r].action = "rewrite"
                        /\ \A k \in (r + 1)..n : events[k].action # "rewrite"}
    BY <1>1 DEF RewriteBefore
  <2>2. ASSUME NEW r \in 1..n
        PROVE  (\A k \in (r + 1)..(n + 1) : events'[k].action # "rewrite")
                 <=> (\A k \in (r + 1)..n : events[k].action # "rewrite")
    <3>1. \A k \in (r + 1)..(n + 1) : k = n + 1 \/ k \in (r + 1)..n
      BY <1>1
    <3>2. \A k \in (r + 1)..n : k \in 1..n /\ k \in (r + 1)..(n + 1)
      BY <1>1
    <3> QED
      BY <1>1, <1>5, <3>1, <3>2
  <2>3. 1..(n + 1) = 1..n \cup {n + 1}
    BY <1>1
  <2> QED
    BY <1>1, <1>3, <1>5, <2>1, <2>2, <2>3
<1> QED
  BY <1>2, <1>4, <1>5 DEF n

(* The rewrite a packet of now finds is the latest one.                    *)
LEMMA FoundIsLatest ==
    ASSUME TypeOK, LatestRewrite(Len(events)) # 0
    PROVE  LatestRewrite(Len(events)) \in RewriteBefore(Len(events) + 1)
<1> DEFINE n == Len(events)
<1>1. n \in Nat
  BY DEF TypeOK
<1>2. LatestRewrite(n) \in History(n) /\ IsLatestRewrite(LatestRewrite(n), n)
  BY DEF LatestRewrite
<1>3. LatestRewrite(n) \in 1..n
  BY <1>2 DEF History
<1> HIDE DEF n
<1>4. n + 1 - 1 = n
  BY <1>1
<1> QED
  BY <1>2, <1>3, <1>4 DEF RewriteBefore, IsLatestRewrite, n

Writing == {"write_file", "write_state", "write_event"}

(* From the reading of a packet to the record of what it led to. *)
Deciding == {"rewriting", "decide"} \cup Writing

(* Nobody else records an event while the turn decides.                    *)
SoleDecides(t) ==
    /\ pc[Web] = "idle"
    /\ pc[t] \in Deciding => packet[t].history = Len(events) /\ packet[t].surface = "serve"
    /\ pc[t] \in Writing /\ plan[t].decision = "rollback" =>
          \E r \in RewriteBefore(Len(events) + 1) : plan[t].after = events[r].before

LEMMA DecideSole ==
    ASSUME NEW t, SoleTurn(t), IInv, SoleDecides(t), Decide(t)
    PROVE  SoleDecides(t)'
<1> t \in Actors /\ t # Web
  BY SoleActors
<1>1. /\ pc[t] = "decide" /\ UNCHANGED events
      /\ \E label \in {"idle", "write_file", "write_state"} : Goto(t, label)
  BY DEF Decide, Release, db
<1>2. pc'[Web] = "idle" /\ pc'[t] \in {"idle", "write_file", "write_state"}
  BY <1>1, SoleActors DEF Goto, IInv, TypeOK, SoleDecides
<1>3. PICK d \in Reviewed(packet[t]) :
        IF d = "keep" THEN Release(t)
        ELSE /\ plan' = [plan EXCEPT ![t] = [decision |-> d, after |-> Outcome(packet[t], d)]]
             /\ packet' = packet
  BY DEF Decide
<1>4. packet[t] \in Packets /\ packet[t].history = Len(events) /\ packet[t].surface = "serve"
  BY <1>1 DEF IInv, TypeOK, SoleDecides, Deciding
<1>5. CASE d = "keep"
  <2>1. pc'[t] = "idle"
    BY <1>3, <1>5 DEF Release, Goto, IInv, TypeOK
  <2> QED
    BY <1>2, <2>1 DEF SoleDecides, Deciding, Writing
<1>6. CASE d # "keep"
  <2>1. plan'[t] = [decision |-> d, after |-> Outcome(packet[t], d)]
    BY <1>3, <1>6 DEF IInv, TypeOK
  <2>2. ASSUME plan'[t].decision = "rollback"
        PROVE  \E r \in RewriteBefore(Len(events) + 1) : plan'[t].after = events[r].before
    <3>1. d = "rollback" /\ plan'[t].after = Outcome(packet[t], d)
      BY <2>1, <2>2
    <3>2. LatestRewrite(Len(events)) # 0
      BY <1>4, <3>1, ReviewedTyped
    <3>3. plan'[t].after = events[LatestRewrite(Len(events))].before
      BY <1>4, <3>1 DEF Outcome
    <3> QED
      BY <3>2, <3>3, FoundIsLatest DEF IInv
  <2>3. RewriteBefore(Len(events) + 1)' = RewriteBefore(Len(events) + 1)
    BY <1>1 DEF RewriteBefore
  <2> QED
    BY <1>1, <1>2, <1>3, <1>4, <1>6, <2>2, <2>3 DEF SoleDecides
<1> QED
  BY <1>5, <1>6

LEMMA NextSole ==
    ASSUME NEW t, SoleTurn(t), IInv, SoleDecides(t), [Next]_vars
    PROVE  SoleDecides(t)'
<1> t \in Actors /\ t # Web
  BY SoleActors
<1>1. pc[Web] = "idle" /\ pc'[Web] = "idle"
  BY SoleSteps DEF SoleDecides
<1>2. ASSUME events' = events PROVE RewriteBefore(Len(events) + 1)' = RewriteBefore(Len(events) + 1)
  BY <1>2 DEF RewriteBefore
<1>3. CASE UNCHANGED vars \/ Start
  <2>1. UNCHANGED <<events, pc, packet, plan>>
    BY <1>3 DEF vars, db, Start
  <2> QED
    BY <1>2, <2>1 DEF SoleDecides
<1>4. CASE Crash \/ Prune(t) \/ Match(t) \/ NoMatch(t) \/ AnswerFails(t) \/ Answer(t) \/ Record(t)
           \/ JudgeFails(t) \/ (\E score \in Scores : Judge(t, score)) \/ WriteEvent(t) \/ WriteFails(t) \/ Reload(t)
  <2>1. pc'[t] \notin Deciding
    <3>1. Runs = {}
      BY DEF SoleTurn
    <3> QED
      BY <1>4, <3>1 DEF Crash, Prune, Match, NoMatch, AnswerFails, Answer, Record, JudgeFails, Judge, WriteEvent, WriteFails, Reload, Release,
         Goto, IInv, TypeOK, Deciding, Writing, Actors
  <2> QED
    BY <1>1, <2>1 DEF SoleDecides, Deciding
<1>5. CASE Reconcile(t)
  <2>1. PICK typed \in TypedDecisions :
          LET q == BuildPacket("serve", held[t].ver, typed, Calm, FALSE)
          IN  \/ /\ packet' = [packet EXCEPT ![t] = q]
                 /\ Goto(t, IF RewriteIsDue(q) THEN "rewriting" ELSE "decide")
              \/ Release(t)
    BY <1>5 DEF Reconcile
  <2> DEFINE q == BuildPacket("serve", held[t].ver, typed, Calm, FALSE)
  <2>2. q.history = Len(events) /\ q.surface = "serve"
    BY DEF BuildPacket
  <2>3. \/ packet' = [packet EXCEPT ![t] = q] /\ (Goto(t, "rewriting") \/ Goto(t, "decide"))
        \/ Release(t)
    BY <2>1
  <2> HIDE DEF q
  <2>4. UNCHANGED events
    BY <1>5 DEF Reconcile, db
  <2>5. \/ packet'[t] = q /\ pc'[t] \in {"rewriting", "decide"}
        \/ pc'[t] = "idle"
    BY <2>3 DEF Release, Goto, IInv, TypeOK
  <2> QED
    BY <1>1, <2>2, <2>4, <2>5 DEF SoleDecides, Deciding, Writing
<1>6. CASE Rewriter(t) \/ WriteFile(t) \/ WriteState(t)
  <2>1. /\ UNCHANGED <<events, packet, plan>> /\ pc[t] \in Deciding /\ pc'[t] \in Deciding
        /\ pc'[t] \in Writing => pc[t] \in Writing
    BY <1>6 DEF Rewriter, WriteFile, WriteState, db, Goto, IInv, TypeOK, Deciding, Writing
  <2> QED
    BY <1>1, <1>2, <2>1 DEF SoleDecides
<1> QED
  BY <1>1, <1>3, <1>4, <1>5, <1>6, SoleSteps, DecideSole

LEMMA NextRestores ==
    ASSUME NEW t, SoleTurn(t), IInv, SoleDecides(t), RollbackRestores, [Next]_vars
    PROVE  RollbackRestores'
<1> t \in Actors /\ t # Web
  BY SoleActors
<1>1. CASE UNCHANGED events
  BY <1>1 DEF RollbackRestores, RewriteBefore
<1>2. CASE WriteEvent(t)
  <2> DEFINE n == Len(events)
  <2>1. /\ n \in Nat /\ DOMAIN events = 1..n /\ DOMAIN events' = 1..(n + 1)
        /\ \A c \in 1..n : events'[c] = events[c]
        /\ events'[n + 1].action = plan[t].decision
        /\ events'[n + 1].after = plan[t].after
    BY <1>2, EventRecorded
  <2>2. \A c \in 1..(n + 1) : RewriteBefore(c)' = RewriteBefore(c) /\ RewriteBefore(c) \subseteq 1..n
    <3>1. \A c \in 1..(n + 1) : 1..(c - 1) \subseteq 1..n
      BY <2>1
    <3> QED
      BY <1>2, <3>1, RewriteBeforeKept DEF RewriteBefore
  <2>3. events'[n + 1].action = "rollback" =>
          \E r \in RewriteBefore(n + 1) : events'[n + 1].after = events[r].before
    BY <1>2, <2>1 DEF SoleDecides, WriteEvent, Writing
  <2> HIDE DEF n
  <2> SUFFICES ASSUME NEW c \in DOMAIN events', events'[c].action = "rollback"
               PROVE  \E r \in RewriteBefore(c)' : events'[c].after = events'[r].before
    BY DEF RollbackRestores
  <2>4. c \in 1..(n + 1)
    BY <2>1
  <2>5. CASE c = n + 1
    BY <2>1, <2>2, <2>3, <2>5
  <2>6. CASE c \in 1..n
    BY <2>1, <2>2, <2>4, <2>6 DEF RollbackRestores
  <2> QED
    BY <2>1, <2>4, <2>5, <2>6
<1>3. UNCHANGED events \/ WriteEvent(t)
  BY SoleSteps DEF SoleDecides, vars, db, Start, Crash, Prune, Match, NoMatch, AnswerFails, Answer, Record,
     JudgeFails, Reconcile, Rewriter, Judge, Decide, WriteFile, WriteState, WriteFails, Reload
<1> QED
  BY <1>1, <1>2, <1>3

LEMMA InitSole == ASSUME NEW t, SoleTurn(t) PROVE Init => SoleDecides(t)
  BY SoleActors DEF Init, SoleDecides, Deciding, Writing

(* A rollback restores the content from before the latest rewrite: when    *)
(* one turn after another governs the skill and nobody clicks, wherever    *)
(* serve dies and whichever write fails (_build_rollback_content).         *)
THEOREM SoleTurnRestores ==
    ASSUME NEW t, SoleTurn(t)
    PROVE  Spec => []RollbackRestores
<1>1. Init => SoleDecides(t) /\ RollbackRestores
  <2>1. Init => RollbackRestores
    BY DEF Init, RollbackRestores
  <2> QED
    BY <2>1, InitSole
<1>2. IInv /\ SoleDecides(t) /\ RollbackRestores /\ [Next]_vars
        => SoleDecides(t)' /\ RollbackRestores'
  BY NextSole, NextRestores
<1> QED
  BY <1>1, <1>2, Inductive, PTL DEF Spec

(* While the turn answers and decides, the file stays what it uses, and the *)
(* skill in use: what the answer registers, if anything, is in line.       *)
SoleUses(t) ==
    /\ Agreement
    /\ pc[t] = "answering" => status # "disabled"
    /\ pc[t] \in {"answering", "recording", "judging", "reconcile", "rewriting", "decide", "write_file"}
          => held[t] = file
    /\ pc[t] \in {"rewriting", "decide", "write_file"} =>
          packet[t].current = file /\ packet[t].ver = file.ver

LEMMA NextUses ==
    ASSUME NEW t, SoleTurn(t), Failures = FALSE, IInv, SInv, SoleDecides(t), SoleUses(t), [Next]_vars
    PROVE  SoleUses(t)'
<1> t \in Actors /\ t # Web /\ Actors = {t, Web}
  BY SoleActors
<1> Agreement /\ Runs = {}
  BY DEF SoleUses, SoleTurn
<1>0. Agreement'
  <2>1. AnswersAgree
    BY DEF AnswersAgree, Answer, SoleUses, SoleTurn
  <2> QED
    BY <2>1, NextAgreement
<1>1. CASE UNCHANGED vars \/ Start
  <2>1. /\ UNCHANGED <<file, pc, held, packet>>
        /\ status' = "disabled" => status = "disabled"
    BY <1>1 DEF vars, db, Start, ResolvedStatus
  <2> QED
    BY <1>0, <2>1 DEF SoleUses
<1>2. CASE Match(t)
  <2>1. registry.skill = file /\ status # "disabled"
    BY <1>2, FreeAgreement DEF Match, Agrees
  <2>2. pc'[t] = "answering" /\ held'[t] = file /\ file' = file /\ status' = status
    BY <1>2, <2>1 DEF Match, Goto, IInv, TypeOK, db
  <2> QED
    BY <1>0, <2>1, <2>2 DEF SoleUses
<1>3. CASE Answer(t) \/ Record(t) \/ JudgeFails(t) \/ (\E score \in Scores : Judge(t, score))
  <2>1. /\ UNCHANGED <<file, held>> /\ pc[t] \in {"answering", "recording", "judging"}
        /\ pc'[t] \in {"recording", "judging", "reconcile"}
    BY <1>3 DEF Answer, Record, JudgeFails, Judge, Goto, IInv, TypeOK
  <2> QED
    BY <1>0, <2>1 DEF SoleUses
<1>4. CASE Reconcile(t)
  <2>1. file' = file /\ held[t] = file
    BY <1>4 DEF Reconcile, SoleUses
  <2>2. PICK typed \in TypedDecisions :
          LET q == BuildPacket("serve", held[t].ver, typed, Calm, FALSE)
          IN  \/ /\ packet' = [packet EXCEPT ![t] = q]
                 /\ Goto(t, IF RewriteIsDue(q) THEN "rewriting" ELSE "decide")
                 /\ held' = held
              \/ Release(t)
    BY <1>4 DEF Reconcile
  <2> DEFINE q == BuildPacket("serve", held[t].ver, typed, Calm, FALSE)
  <2>3. q.current = file /\ q.ver = held[t].ver
    BY DEF BuildPacket
  <2>4. (packet' = [packet EXCEPT ![t] = q] /\ held' = held) \/ Release(t)
    BY <2>2
  <2> HIDE DEF q
  <2>5. (packet'[t] = q /\ held'[t] = held[t]) \/ pc'[t] = "idle"
    BY <2>4 DEF Release, Goto, IInv, TypeOK
  <2>6. pc'[t] # "answering"
    BY <2>2 DEF Release, Goto, IInv, TypeOK
  <2> QED
    BY <1>0, <2>1, <2>3, <2>5, <2>6 DEF SoleUses
<1>5. CASE Rewriter(t)
  <2>1. UNCHANGED <<file, held, packet>> /\ pc[t] = "rewriting" /\ pc'[t] = "decide"
    BY <1>5 DEF Rewriter, Goto, IInv, TypeOK
  <2> QED
    BY <1>0, <2>1 DEF SoleUses
<1>6. CASE Decide(t)
  <2>1. /\ file' = file /\ pc[t] = "decide" /\ pc'[t] # "answering"
        /\ UNCHANGED <<held, packet>> \/ pc'[t] = "idle"
    BY <1>6 DEF Decide, Release, Goto, IInv, TypeOK
  <2> QED
    BY <1>0, <2>1 DEF SoleUses
<1>7. CASE Crash \/ Prune(t) \/ NoMatch(t) \/ AnswerFails(t) \/ WriteFile(t) \/ WriteState(t) \/ WriteEvent(t)
           \/ WriteFails(t) \/ Reload(t)
  <2>1. pc'[t] \in {"idle", "context", "write_state", "write_event", "reload"}
    BY <1>7 DEF Crash, Prune, NoMatch, AnswerFails, WriteFile, WriteState, WriteEvent, WriteFails,
       Reload, Release, Goto, IInv, TypeOK, SoleTurn, Serve
  <2> QED
    BY <1>0, <2>1 DEF SoleUses
<1> QED
  BY <1>1, <1>2, <1>3, <1>4, <1>5, <1>6, <1>7, SoleSteps DEF SoleDecides

LEMMA NextDigests ==
    ASSUME NEW t, SoleTurn(t), IInv, SoleDecides(t), SoleUses(t), DigestIsOfWhatRan, [Next]_vars
    PROVE  DigestIsOfWhatRan'
<1> execs \in Seq(Execution)
  BY DEF IInv, TypeOK
<1>1. CASE Record(t)
  <2> DEFINE e == [ver |-> held[t].ver, ran |-> held[t].body, digest |-> file,
                   sig |-> {}, score |-> 0, at |-> 0]
  <2>1. execs' = Append(execs, e) /\ e.digest.body = e.ran
    BY <1>1 DEF Record, SoleUses
  <2> HIDE DEF e
  <2> QED
    BY <2>1 DEF DigestIsOfWhatRan
<1>2. CASE \E score \in Scores : Judge(t, score)
  <2>1. PICK score \in Scores : Judge(t, score)
    BY <1>2
  <2> DEFINE e == [execs[exec[t]] EXCEPT !.score = score, !.at = Now]
  <2>2. execs' = [execs EXCEPT ![exec[t]] = e]
    BY <2>1 DEF Judge
  <2>3. exec[t] \in DOMAIN execs => /\ e.digest = execs[exec[t]].digest
                                    /\ e.ran = execs[exec[t]].ran
    <3>1. ASSUME exec[t] \in DOMAIN execs PROVE execs[exec[t]] \in Execution
      BY <3>1
    <3> QED
      BY <3>1 DEF Execution
  <2> HIDE DEF e
  <2> QED
    BY <2>2, <2>3 DEF DigestIsOfWhatRan
<1>3. CASE UNCHANGED execs
  BY <1>3 DEF DigestIsOfWhatRan
<1>4. Record(t) \/ (\E score \in Scores : Judge(t, score)) \/ UNCHANGED execs
  BY SoleSteps DEF SoleDecides, vars, db, Start, Crash, Prune, Match, NoMatch, AnswerFails, Answer,
     JudgeFails, Reconcile, Rewriter, Decide, WriteFile, WriteState, WriteEvent, WriteFails, Reload
<1> QED
  BY <1>1, <1>2, <1>3, <1>4

(* An execution is recorded with the digest of what ran: when one turn     *)
(* after another governs the skill, nobody clicks and writes succeed,      *)
(* wherever serve dies (AgentCore.handle).                                 *)
THEOREM SoleTurnDigests ==
    ASSUME NEW t, SoleTurn(t), Failures = FALSE
    PROVE  Spec => []DigestIsOfWhatRan
<1>1. Runs = {}
  BY DEF SoleTurn
<1>2. Init => SInv /\ SoleDecides(t) /\ SoleUses(t) /\ DigestIsOfWhatRan
  <2>1. Init => SoleUses(t) /\ DigestIsOfWhatRan
    BY SoleActors DEF Init, SoleUses, Agreement, DigestIsOfWhatRan
  <2> QED
    BY <2>1, InitSole, InitSInv
<1>3. IInv /\ SInv /\ SoleDecides(t) /\ SoleUses(t) /\ DigestIsOfWhatRan /\ [Next]_vars
        => SInv' /\ SoleDecides(t)' /\ SoleUses(t)' /\ DigestIsOfWhatRan'
  BY <1>1, NextSInv, NextSole, NextUses, NextDigests
<1> QED
  BY <1>2, <1>3, Inductive, PTL DEF Spec

(* What ends the observation of a rewrite. *)
Closing == {"confirm", "rollback", "disable"}

(* No rewrite is left open. *)
AllClosed ==
    \A r \in RewriteBefore(Len(events) + 1) :
        \E k \in (r + 1)..Len(events) : events[k].action \in Closing

SoleRewrites(t) ==
    /\ pc[t] # "write_event" /\ status # "observing" => AllClosed
    /\ pc[t] \in Writing /\ plan[t].decision = "rewrite" => AllClosed
    /\ pc[t] \in Writing => plan[t].decision # "refresh"

LEMMA ClosedKept == ASSUME UNCHANGED events PROVE AllClosed' = AllClosed
  BY DEF AllClosed, RewriteBefore

LEMMA DecideRewrites ==
    ASSUME NEW t, SoleTurn(t), HistoryLimit > 0, UndisturbedInv, SoleDecides(t), SoleRewrites(t), Decide(t)
    PROVE  SoleRewrites(t)'
<1> t \in Actors /\ t # Web /\ Actors = {t, Web}
  BY SoleActors
<1>1. pc[t] = "decide" /\ UNCHANGED <<events, status>>
  BY DEF Decide, db
<1>2. PICK d \in Reviewed(packet[t]) :
        IF d = "keep" THEN Release(t)
        ELSE /\ plan' = [plan EXCEPT ![t] = [decision |-> d, after |-> Outcome(packet[t], d)]]
             /\ Goto(t, "write_file") \/ Goto(t, "write_state")
  BY DEF Decide
<1>3. AllClosed' = AllClosed
  BY <1>1, ClosedKept
<1>4. CASE d = "keep"
  <2>1. pc'[t] = "idle"
    BY <1>2, <1>4 DEF Release, Goto, UndisturbedInv, IInv, TypeOK
  <2> QED
    BY <1>1, <1>3, <2>1 DEF SoleRewrites, Writing
<1>5. CASE d # "keep"
  <2>1. plan'[t].decision = d /\ pc'[t] \in {"write_file", "write_state"}
    BY <1>2, <1>5 DEF UndisturbedInv, IInv, TypeOK, Goto
  <2>2. /\ packet[t] \in Packets /\ packet[t].history = Len(events)
        /\ packet[t].surface = "serve"
    BY <1>1 DEF UndisturbedInv, IInv, TypeOK, SoleDecides, Deciding
  <2>3. d # "refresh"
    BY <2>2 DEF Reviewed, Proposal, Packets
  <2>4. ASSUME d = "rewrite" PROVE status # "observing"
    <3> SUFFICES ASSUME status = "observing" PROVE FALSE
      OBVIOUS
    <3>1. LastIsTheRewrite
      BY <1>1 DEF UndisturbedInv, ObservesTheLast, SoleDecides
    <3>2. LatestRewrite(Len(events)) # 0
      BY <3>1, TheLastIsFound DEF UndisturbedInv, IInv
    <3>3. Observed(packet[t])
      BY <2>2, <3>2 DEF Observed, ResolvedStatus
    <3>4. packet[t].window \in {"hold", "confirm", "rollback"}
      BY <2>2 DEF Packets
    <3>5. Proposal(packet[t]) \in {"keep", "confirm", "rollback"}
      BY <3>3, <3>4 DEF Proposal
    <3> QED
      BY <2>4, <3>5 DEF Reviewed
  <2> QED
    BY <1>1, <1>3, <2>1, <2>3, <2>4 DEF SoleRewrites
<1> QED
  BY <1>4, <1>5

LEMMA WriteEventRewrites ==
    ASSUME NEW t, SoleTurn(t), UndisturbedInv, SoleDecides(t), SoleRewrites(t), OneRewriteAtATime,
           WriteEvent(t)
    PROVE  SoleRewrites(t)' /\ OneRewriteAtATime'
<1> t \in Actors /\ t # Web /\ IInv
  BY SoleActors DEF UndisturbedInv
<1> DEFINE n == Len(events)
<1>1. /\ n \in Nat /\ DOMAIN events = 1..n /\ DOMAIN events' = 1..(n + 1) /\ Len(events') = n + 1
      /\ \A c \in 1..n : events'[c] = events[c]
      /\ events'[n + 1].action = plan[t].decision
  BY EventRecorded
<1>2. plan[t].decision \in {"rewrite"} \cup Closing
  BY DEF UndisturbedInv, IInv, TypeOK, OnlyChangesAreApplied, WriteEvent, Applying, Writing, Plan, Decisions,
     SoleRewrites, Closing
<1>3. status = StatusAfter[plan[t].decision] /\ status' = status /\ pc[t] = "write_event"
  BY DEF UndisturbedInv, SInv, StatusIsDecided, WriteEvent
<1>4. pc'[t] = "reload"
  BY DEF WriteEvent, Goto, IInv, TypeOK, SoleTurn
<1>5. ASSUME plan[t].decision # "rewrite" PROVE AllClosed'
  <2>1. \A r \in RewriteBefore(n + 1) : n + 1 \in (r + 1)..(n + 1)
    BY <1>1 DEF RewriteBefore
  <2>2. RewriteBefore(Len(events) + 1)' = RewriteBefore(n + 1)
    BY <1>5, RewriteBeforeKept
  <2>3. events'[n + 1].action \in Closing
    BY <1>1, <1>2, <1>5
  <2> HIDE DEF n
  <2> QED
    BY <1>1, <2>1, <2>2, <2>3 DEF AllClosed
<1>6. SoleRewrites(t)'
  <2>1. plan[t].decision = "rewrite" => status' = "observing"
    BY <1>3 DEF StatusAfter
  <2> QED
    BY <1>4, <1>5, <2>1 DEF SoleRewrites, Writing
<1>7. plan[t].decision = "rewrite" => AllClosed
  BY <1>3 DEF SoleRewrites, Writing
<1>8. \A c \in 1..(n + 1) : RewriteBefore(c)' = RewriteBefore(c) /\ RewriteBefore(c) \subseteq 1..(c - 1)
  BY RewriteBeforeKept DEF RewriteBefore
<1>9. OneRewriteAtATime'
  <2>1. AllClosed => \A r \in RewriteBefore(n + 1) : \E k \in (r + 1)..n : events[k].action \in Closing
    BY DEF AllClosed
  <2> HIDE DEF n
  <2> SUFFICES ASSUME NEW c \in DOMAIN events', events'[c].action = "rewrite", NEW r \in RewriteBefore(c)'
               PROVE  \E k \in (r + 1)..(c - 1) : events'[k].action \in Closing
    BY DEF OneRewriteAtATime, Closing
  <2>2. c \in 1..(n + 1) /\ r \in RewriteBefore(c) /\ r \in 1..(c - 1)
    BY <1>1, <1>8
  <2>3. \E k \in (r + 1)..(c - 1) : events[k].action \in Closing
    <3>1. CASE c = n + 1
      <4>1. \E k \in (r + 1)..n : events[k].action \in Closing
        BY <1>1, <1>7, <2>1, <2>2, <3>1
      <4> QED
        BY <1>1, <3>1, <4>1
    <3>2. CASE c \in 1..n
      BY <1>1, <2>2, <3>2 DEF OneRewriteAtATime, Closing
    <3> QED
      BY <1>1, <2>2, <3>1, <3>2
  <2>4. \A k \in (r + 1)..(c - 1) : k \in 1..n
    BY <1>1, <2>2
  <2> QED
    BY <1>1, <2>3, <2>4
<1> QED
  BY <1>6, <1>9

LEMMA NextRewrites ==
    ASSUME NEW t, SoleTurn(t), HistoryLimit > 0, Crashes = FALSE, Failures = FALSE, UndisturbedInv,
           SoleDecides(t), SoleRewrites(t), OneRewriteAtATime, [Next]_vars
    PROVE  SoleRewrites(t)' /\ OneRewriteAtATime'
<1> t \in Actors /\ t # Web /\ Actors = {t, Web} /\ IInv /\ pc[Web] = "idle"
  BY SoleActors DEF UndisturbedInv, SoleDecides
<1>1. ASSUME UNCHANGED events PROVE OneRewriteAtATime' /\ AllClosed' = AllClosed
  BY <1>1, ClosedKept DEF OneRewriteAtATime, RewriteBefore
<1>2. ASSUME UNCHANGED <<events, plan>>, status' # "observing" => status # "observing",
             pc[t] # "write_event", pc'[t] \in Writing => pc[t] \in Writing
      PROVE  SoleRewrites(t)' /\ OneRewriteAtATime'
  BY <1>1, <1>2 DEF SoleRewrites
<1>3. CASE UNCHANGED vars \/ Start
  <2>1. /\ UNCHANGED <<events, plan, pc>>
        /\ status' = "observing" <=> status = "observing"
    BY <1>3 DEF vars, db, Start, ResolvedStatus
  <2> QED
    BY <1>1, <2>1 DEF SoleRewrites
<1>4. CASE Prune(t) \/ Match(t) \/ Answer(t) \/ Record(t) \/ JudgeFails(t)
           \/ (\E score \in Scores : Judge(t, score)) \/ Rewriter(t)
  <2>1. /\ UNCHANGED <<events, plan>> /\ pc[t] \notin Writing /\ pc'[t] \notin Writing
        /\ status' = status
    BY <1>4 DEF Prune, Match, Answer, Record, JudgeFails, Judge, Rewriter, db, Goto, IInv, TypeOK, Writing,
       UndisturbedInv, SInv, NoLostUpdate
  <2> QED
    BY <1>2, <2>1 DEF Writing
<1>5. CASE Reconcile(t) \/ NoMatch(t) \/ AnswerFails(t)
  <2>1. /\ UNCHANGED <<events, status>> /\ pc[t] \notin Writing /\ pc'[t] \notin Writing
    BY <1>5 DEF Reconcile, NoMatch, AnswerFails, Release, db, Goto, IInv, TypeOK, Writing
  <2> QED
    BY <1>1, <2>1 DEF SoleRewrites, Writing
<1>6. CASE Decide(t)
  <2>1. UNCHANGED events
    BY <1>6 DEF Decide, db
  <2> QED
    BY <1>1, <1>6, <2>1, DecideRewrites
<1>7. CASE WriteFile(t)
  <2>1. UNCHANGED <<events, plan, status>> /\ pc[t] = "write_file" /\ pc'[t] = "write_state"
    BY <1>7 DEF WriteFile, db, Goto, IInv, TypeOK
  <2> QED
    BY <1>2, <2>1 DEF Writing
<1>8. CASE WriteState(t)
  <2>1. UNCHANGED <<events, plan>> /\ pc[t] = "write_state" /\ pc'[t] = "write_event"
    BY <1>8 DEF WriteState, Goto, IInv, TypeOK
  <2> QED
    BY <1>1, <2>1 DEF SoleRewrites, Writing
<1>9. CASE Reload(t)
  <2>1. UNCHANGED <<events, status>> /\ pc[t] = "reload" /\ pc'[t] = "idle"
    BY <1>9 DEF Reload, Release, db, Goto, IInv, TypeOK
  <2> QED
    BY <1>1, <2>1 DEF SoleRewrites, Writing
<1>10. CASE WriteEvent(t)
  BY <1>10, WriteEventRewrites
<1> QED
  BY <1>3, <1>4, <1>5, <1>6, <1>7, <1>8, <1>9, <1>10, SoleSteps DEF Crash, WriteFails

(* While a rewrite is observed no other one is applied: between two        *)
(* rewrites the first is confirmed, rolled back or disabled, when one turn *)
(* after another governs the skill, nobody clicks, serve does not die and  *)
(* its writes succeed (the gate of IterationHarness._propose).             *)
THEOREM SoleTurnRewritesOnce ==
    ASSUME NEW t, SoleTurn(t), HistoryLimit > 0, Crashes = FALSE, Failures = FALSE
    PROVE  Spec => []OneRewriteAtATime
<1>1. Spec => []UndisturbedInv
  BY Undisturbed DEF SoleTurn
<1>2. Init => SoleDecides(t) /\ SoleRewrites(t) /\ OneRewriteAtATime
  <2>1. Init => SoleRewrites(t) /\ OneRewriteAtATime
    BY SoleActors DEF Init, SoleRewrites, OneRewriteAtATime, AllClosed, RewriteBefore, Writing
  <2> QED
    BY <2>1, InitSole
<1>3. UndisturbedInv /\ SoleDecides(t) /\ SoleRewrites(t) /\ OneRewriteAtATime /\ [Next]_vars
        => SoleDecides(t)' /\ SoleRewrites(t)' /\ OneRewriteAtATime'
  BY NextSole, NextRewrites DEF UndisturbedInv
<1> QED
  BY <1>1, <1>2, <1>3, PTL DEF Spec

-----------------------------------------------------------------------------
(* The evidence of the past *)

(* The sum of some executions' scores depends on these scores only.        *)
LEMMA AveragesAgree ==
    ASSUME NEW S, \A i \in S : execs'[i].score = execs[i].score
    PROVE  /\ ScoreSum(S)' = ScoreSum(S)
           /\ \A bound : /\ AverageAtLeast(S, bound)' <=> AverageAtLeast(S, bound)
                         /\ AverageAtMost(S, bound)' <=> AverageAtMost(S, bound)
<1> DEFINE one(s) == CHOOSE x \in s : TRUE
           F(h) == [s \in SUBSET S |-> IF s = {} THEN 0 ELSE execs[one(s)].score + h[s \ {one(s)}]]
           G(h) == [s \in SUBSET S |-> IF s = {} THEN 0 ELSE execs'[one(s)].score + h[s \ {one(s)}]]
<1>1. \A s \in SUBSET S : s # {} => one(s) \in S
  OBVIOUS
<1>2. \A h : F(h) = G(h)
  <2> HIDE DEF one
  <2> QED
    BY <1>1
<1>3. (CHOOSE h : h = F(h)) = (CHOOSE h : h = G(h))
  <2> HIDE DEF F, G
  <2>1. \A h : (h = F(h)) <=> (h = G(h))
    BY <1>2
  <2> QED
    BY <2>1, Zenon
<1>4. ScoreSum(S)' = ScoreSum(S)
  BY <1>3 DEF ScoreSum, MapThenSumSet, MapThenFoldSet
<1> QED
  BY <1>4 DEF AverageAtLeast, AverageAtMost

LEMMA LatestKept ==
    ASSUME UNCHANGED events
    PROVE  /\ LatestRewrite(Len(events))' = LatestRewrite(Len(events))
           /\ Cutoff(Len(events))' = Cutoff(Len(events))
<1>1. LatestRewrite(Len(events))' = LatestRewrite(Len(events))
  BY DEF LatestRewrite, IsLatestRewrite, History
<1> QED
  BY <1>1 DEF Cutoff

(* What was judged stays as it was; what is judged now is of now.          *)
PastStays ==
    /\ Now <= Now'
    /\ Scored(execs) \subseteq Scored(execs)'
    /\ \A i \in Scored(execs) : execs'[i] = execs[i]
    /\ \A i \in Scored(execs)' \ Scored(execs) : execs'[i].at >= Now

LEMMA PastKept ==
    ASSUME TypeOK, TypeOK', PastStays, NEW from, NEW to \in Nat, to <= Now
    PROVE  /\ JudgedBetween(from, to)' = JudgedBetween(from, to)
           /\ \A i \in JudgedBetween(from, to) : execs'[i] = execs[i]
<1> DEFINE before == {i \in Scored(execs) : execs[i].at < to}
           after == {i \in Scored(execs)' : execs'[i].at < to}
<1>1. /\ \A i \in Scored(execs) : execs[i].at \in Nat
      /\ \A i \in Scored(execs)' : execs'[i].at \in Nat
  <2>1. execs \in Seq(Execution) /\ execs' \in Seq(Execution)
    BY DEF TypeOK
  <2>2. \A i \in DOMAIN execs : execs[i] \in Execution
    BY <2>1
  <2>3. \A i \in DOMAIN execs' : execs'[i] \in Execution
    BY <2>1
  <2> QED
    BY <2>2, <2>3 DEF Execution, Scored
<1>2. Now \in Nat
  BY NowTyped
<1>3. after = before /\ \A i \in before : execs'[i] = execs[i]
  BY <1>1, <1>2 DEF PastStays
<1>4. JudgedBetween(from, to) =
        {i \in before : execs[i].at > from
                        /\ Cardinality({j \in before : execs[j].at > execs[i].at}) < EvidenceLimit}
  BY DEF JudgedBetween
<1>5. JudgedBetween(from, to)' =
        {i \in after : execs'[i].at > from
                       /\ Cardinality({j \in after : execs'[j].at > execs'[i].at}) < EvidenceLimit}
  BY DEF JudgedBetween
<1> HIDE DEF before, after
<1>6. \A i \in before :
        {j \in before : execs'[j].at > execs'[i].at} = {j \in before : execs[j].at > execs[i].at}
  BY <1>3
<1> QED
  BY <1>3, <1>4, <1>5, <1>6

(* What is recorded is from before now, and the judge scores an execution  *)
(* that has no score yet, the newest one.                                  *)
SoleClock(t) ==
    /\ \A i \in Scored(execs) : execs[i].at < Now
    /\ \A c \in DOMAIN events : events[c].at < Now
    /\ pc[t] = "judging" => /\ execs # <<>>
                            /\ exec[t] = Len(execs)
                            /\ execs[Len(execs)].at = 0
                            /\ execs[Len(execs)].ran = file.body
    /\ windows = <<>>

LEMMA SteadyClock ==
    ASSUME NEW t, IInv, SoleClock(t), UNCHANGED <<execs, events, windows>>,
           pc'[t] = "judging" => pc[t] = "judging" /\ UNCHANGED <<exec, file>>
    PROVE  PastStays /\ SoleClock(t)'
<1>1. Now' = Now /\ Now \in Nat
  BY NowTyped DEF Now, IInv
<1>2. Scored(execs)' = Scored(execs)
  OBVIOUS
<1>3. PastStays
  BY <1>1, <1>2 DEF PastStays
<1> QED
  BY <1>1, <1>2, <1>3 DEF SoleClock

LEMMA RecordClock ==
    ASSUME NEW t, SoleTurn(t), IInv, SoleUses(t), SoleClock(t), Record(t)
    PROVE  PastStays /\ SoleClock(t)'
<1> t \in Actors
  BY SoleActors
<1> DEFINE e == [ver |-> held[t].ver, ran |-> held[t].body, digest |-> file,
                 sig |-> {}, score |-> 0, at |-> 0]
<1>1. /\ execs' = Append(execs, e) /\ execs \in Seq(Execution) /\ e.at = 0 /\ e.ran = file.body
      /\ UNCHANGED <<events, windows, file>>
  BY DEF IInv, TypeOK, Record, SoleUses
<1> HIDE DEF e
<1>2. /\ DOMAIN execs = 1..Len(execs) /\ DOMAIN execs' = 1..(Len(execs) + 1)
      /\ Len(execs) \in Nat /\ Len(execs') = Len(execs) + 1
      /\ \A i \in 1..Len(execs) : execs'[i] = execs[i]
      /\ execs'[Len(execs) + 1] = e
      /\ execs' # <<>>
  BY <1>1
<1>3. Scored(execs)' = Scored(execs) /\ \A i \in Scored(execs) : execs'[i] = execs[i]
  BY <1>1, <1>2 DEF Scored
<1>4. Now' = Now /\ Now \in Nat
  BY <1>1, <1>3, NowTyped DEF Now, IInv
<1>5. exec'[t] = Len(execs')
  BY DEF Record, IInv, TypeOK
<1>6. PastStays
  BY <1>3, <1>4 DEF PastStays
<1> QED
  BY <1>1, <1>2, <1>3, <1>4, <1>5, <1>6 DEF SoleClock

LEMMA JudgeClock ==
    ASSUME NEW t, SoleTurn(t), IInv, SoleClock(t), NEW score \in Scores, Judge(t, score)
    PROVE  /\ PastStays /\ SoleClock(t)'
           /\ Scored(execs)' = Scored(execs) \cup {Len(execs)}
           /\ execs'[Len(execs)].at = Now
           /\ execs'[Len(execs)].ran = execs[Len(execs)].ran
           /\ Len(execs') = Len(execs)
<1> t \in Actors
  BY SoleActors
<1> DEFINE n == Len(execs)
           e == [execs[n] EXCEPT !.score = score, !.at = Now]
<1>1. /\ pc[t] = "judging" /\ execs # <<>> /\ exec[t] = n /\ execs[n].at = 0
      /\ UNCHANGED <<events, windows>>
  BY DEF Judge, SoleClock
<1>2. execs \in Seq(Execution) /\ n \in 1..n /\ n \in Nat /\ DOMAIN execs = 1..n
  BY <1>1 DEF IInv, TypeOK
<1>3. execs[n] \in Execution /\ Now \in Nat \ {0}
  BY <1>2, NowIsPositive DEF IInv
<1>4. e.at = Now /\ e.ran = execs[n].ran /\ execs' = [execs EXCEPT ![n] = e]
  BY <1>1, <1>3 DEF Judge, Execution
<1> HIDE DEF e, n
<1>5. /\ DOMAIN execs' = 1..n /\ execs'[n] = e
      /\ \A i \in 1..n : i # n => execs'[i] = execs[i]
  BY <1>2, <1>4
<1>6. n \notin Scored(execs) /\ Scored(execs)' = Scored(execs) \cup {n}
  BY <1>1, <1>2, <1>3, <1>4, <1>5 DEF Scored
<1>7. Cardinality(Scored(execs)') = Cardinality(Scored(execs)) + 1 /\ Cardinality(Scored(execs)) \in Nat
  BY <1>6, EvidenceIsFinite, FS_AddElement, FS_CardinalityType DEF IInv
<1>8. Now' = Now + 1
  BY <1>1, <1>7 DEF Now, IInv, TypeOK
<1>9. /\ \A i \in Scored(execs) : execs'[i] = execs[i] /\ execs[i].at < Now
      /\ execs'[n].at = Now
      /\ \A i \in Scored(execs) : execs[i].at \in Nat
  <2>1. \A i \in Scored(execs) : i \in 1..n /\ i # n
    BY <1>2, <1>6 DEF Scored
  <2>2. \A i \in 1..n : execs[i] \in Execution
    BY <1>2
  <2> QED
    BY <1>4, <1>5, <2>1, <2>2 DEF SoleClock, Execution
<1>10. PastStays
  BY <1>3, <1>6, <1>8, <1>9 DEF PastStays
<1>11. pc'[t] = "reconcile"
  BY DEF Judge, Goto, IInv, TypeOK
<1>12. \A c \in DOMAIN events : events[c].at \in Nat /\ events[c].at < Now
  <2>1. \A c \in DOMAIN events : events[c] \in LifecycleEvent
    BY DEF IInv, TypeOK
  <2> QED
    BY <2>1 DEF LifecycleEvent, SoleClock
<1>13. SoleClock(t)'
  <2>1. \A i \in Scored(execs)' : execs'[i].at < Now'
    BY <1>3, <1>6, <1>8, <1>9
  <2>2. \A c \in DOMAIN events' : events'[c].at < Now'
    BY <1>1, <1>3, <1>8, <1>12
  <2> QED
    BY <1>1, <1>11, <2>1, <2>2 DEF SoleClock
<1>14. Len(execs') = n
  <2>1. execs' \in Seq(Execution)
    <3>1. e \in Execution
      <4>1. score \in 0..100
        BY ContractAssumption
      <4> QED
        BY <1>3, <4>1 DEF e, Execution
    <3> QED
      BY <1>2, <1>4, <3>1, ExceptSeq DEF n
  <2> QED
    BY <1>2, <1>5, <2>1
<1> QED
  BY <1>4, <1>5, <1>6, <1>10, <1>13, <1>14 DEF n

LEMMA EventClock ==
    ASSUME NEW t, SoleTurn(t), IInv, SoleClock(t), WriteEvent(t)
    PROVE  PastStays /\ SoleClock(t)'
<1> t \in Actors
  BY SoleActors
<1>1. /\ Len(events) \in Nat /\ DOMAIN events = 1..Len(events) /\ DOMAIN events' = 1..(Len(events) + 1)
      /\ Len(events') = Len(events) + 1
      /\ \A c \in 1..Len(events) : events'[c] = events[c]
      /\ events'[Len(events) + 1].at = Now
  BY EventRecorded
<1>2. UNCHANGED <<execs, windows>> /\ pc'[t] = "reload"
  BY DEF WriteEvent, SoleTurn, Goto, IInv, TypeOK
<1>3. Cardinality(Scored(execs)) \in Nat /\ Now \in Nat /\ Len(windows) \in Nat
  BY EvidenceIsFinite, FS_CardinalityType, NowTyped DEF IInv, TypeOK
<1>4. Now' = Now + 1
  BY <1>1, <1>2, <1>3 DEF Now
<1>5. /\ \A c \in 1..Len(events) : events[c].at \in Nat
      /\ \A i \in Scored(execs) : execs[i].at \in Nat
  <2>1. \A c \in DOMAIN events : events[c] \in LifecycleEvent
    BY DEF IInv, TypeOK
  <2>2. \A i \in DOMAIN execs : execs[i] \in Execution
    BY DEF IInv, TypeOK
  <2> QED
    BY <1>1, <2>1, <2>2 DEF LifecycleEvent, Execution, Scored
<1>6. PastStays
  BY <1>2, <1>3, <1>4 DEF PastStays
<1>7. \A c \in DOMAIN events' : events'[c].at < Now'
  <2> SUFFICES ASSUME NEW c \in 1..(Len(events) + 1) PROVE events'[c].at < Now'
    BY <1>1
  <2>1. CASE c = Len(events) + 1
    BY <1>1, <1>3, <1>4, <2>1
  <2>2. CASE c \in 1..Len(events)
    BY <1>1, <1>3, <1>4, <1>5, <2>2 DEF SoleClock
  <2> QED
    BY <1>1, <2>1, <2>2
<1>8. \A i \in Scored(execs)' : execs'[i].at < Now'
  BY <1>2, <1>3, <1>4, <1>5 DEF SoleClock
<1> QED
  BY <1>2, <1>6, <1>7, <1>8 DEF SoleClock

LEMMA NextClock ==
    ASSUME NEW t, SoleTurn(t), IInv, SoleDecides(t), SoleUses(t), SoleClock(t), [Next]_vars
    PROVE  PastStays /\ SoleClock(t)'
<1> t \in Actors
  BY SoleActors
<1>1. CASE UNCHANGED vars \/ Start
  <2>1. UNCHANGED <<execs, events, windows, pc, exec, file>>
    BY <1>1 DEF vars, db, Start
  <2> QED
    BY <2>1, SteadyClock
<1>2. CASE Crash \/ Prune(t) \/ Match(t) \/ NoMatch(t) \/ AnswerFails(t) \/ Answer(t) \/ JudgeFails(t)
           \/ Reconcile(t) \/ Rewriter(t) \/ Decide(t) \/ WriteFile(t) \/ WriteState(t) \/ WriteFails(t) \/ Reload(t)
  <2>1. UNCHANGED <<execs, events, windows>>
    BY <1>2 DEF db, Crash, Prune, Match, NoMatch, AnswerFails, Answer, JudgeFails, Reconcile, Rewriter, Decide, WriteFile, WriteState,
       WriteFails, Reload
  <2>2. pc'[t] # "judging"
    BY <1>2 DEF Crash, Prune, Match, NoMatch, AnswerFails, Answer, JudgeFails, Reconcile, Rewriter, Decide, WriteFile, WriteState,
       WriteFails, Reload, Release, Goto, IInv, TypeOK, SoleTurn, Serve
  <2> QED
    BY <2>1, <2>2, SteadyClock
<1> QED
  BY <1>1, <1>2, RecordClock, JudgeClock, EventClock, SoleSteps DEF SoleDecides

(* What a packet of now counts is what counts from now on.                 *)
LEMMA JudgedIsOfNow ==
    ASSUME NEW t, SoleClock(t), NEW from
    PROVE  JudgedBetween(from, Now) = JudgedSince(from)
<1>1. {i \in Scored(execs) : execs[i].at < Now} = Scored(execs)
  BY DEF SoleClock
<1> QED
  BY <1>1 DEF JudgedBetween, JudgedSince, Judged

(* The evaluations that count now, and what they may say.                  *)
Fresh == JudgedSince(Cutoff(Len(events)))

Passing == Cardinality(Fresh) >= MinRewrite /\ AverageAtLeast(Fresh, MinPass)

Failing == Cardinality(Fresh) >= MinRewrite /\ AverageAtMost(Fresh, RewriteBelow)

LEMMA FreshStays ==
    ASSUME UNCHANGED events, Scored(execs)' = Scored(execs), \A i \in Scored(execs) : execs'[i] = execs[i]
    PROVE  Passing' = Passing /\ Failing' = Failing
<1>1. Cutoff(Len(events))' = Cutoff(Len(events))
  BY LatestKept
<1>2. Fresh' = Fresh
  <2>1. PICK S : S = Scored(execs)
    OBVIOUS
  <2>2. \A i \in S : {j \in S : execs'[j].at > execs'[i].at} = {j \in S : execs[j].at > execs[i].at}
    BY <2>1
  <2>3. /\ Judged = {i \in S : Cardinality({j \in S : execs[j].at > execs[i].at}) < EvidenceLimit}
        /\ Judged' = {i \in S : Cardinality({j \in S : execs'[j].at > execs'[i].at}) < EvidenceLimit}
    BY <2>1 DEF Judged
  <2>4. Judged' = Judged /\ Judged \subseteq S
    BY <2>2, <2>3
  <2> QED
    BY <1>1, <2>1, <2>4 DEF Fresh, JudgedSince
<1>3. PICK S : S = Fresh
  OBVIOUS
<1>4. \A i \in S : execs'[i].score = execs[i].score
  BY <1>3 DEF Fresh, JudgedSince, Judged
<1>5. /\ AverageAtLeast(S, MinPass)' <=> AverageAtLeast(S, MinPass)
      /\ AverageAtMost(S, RewriteBelow)' <=> AverageAtMost(S, RewriteBelow)
  BY <1>4, AveragesAgree
<1>6. /\ AverageAtLeast(Fresh, MinPass)' <=> AverageAtLeast(S, MinPass)'
      /\ AverageAtMost(Fresh, RewriteBelow)' <=> AverageAtMost(S, RewriteBelow)'
  BY <1>2, <1>3
<1>7. /\ AverageAtLeast(Fresh, MinPass)' <=> AverageAtLeast(Fresh, MinPass)
      /\ AverageAtMost(Fresh, RewriteBelow)' <=> AverageAtMost(Fresh, RewriteBelow)
  BY <1>3, <1>5, <1>6
<1> QED
  BY <1>2, <1>7, Zenon DEF Passing, Failing

LEMMA FreshKept ==
    ASSUME UNCHANGED <<execs, events>>
    PROVE  Passing' = Passing /\ Failing' = Failing
  BY FreshStays

(* Without KPI windows, a verdict rests on judge scores; and so does a     *)
(* demand, without typed results.                                          *)
LEMMA VerdictRests ==
    ASSUME TypeOK, windows = <<>>
    PROVE  /\ ObservationVerdict = "confirm" => Passing
           /\ ObservationVerdict = "hold" => ~Passing /\ ~Failing
<1>1. \A time : WindowVerdict(time) = "hold"
  <2>1. \A time : WindowsSince(time) = {}
    BY DEF WindowsSince
  <2>2. Cardinality({}) = 0 /\ 0 < MinRewrite
    BY FS_EmptySet, ContractAssumption
  <2>3. \A time : Cardinality(WindowsSince(time)) < MinRewrite
    BY <2>1, <2>2
  <2> QED
    BY <2>3, Zenon DEF WindowVerdict
<1>2. Judged = {} => Cardinality(Fresh) = 0
  <2>1. Fresh \subseteq Judged
    BY DEF Fresh, JudgedSince
  <2> QED
    BY <2>1, FS_EmptySet
<1>3. ObservationVerdict =
        IF Judged = {} THEN "hold"
        ELSE IF Cardinality(Fresh) < MinRewrite THEN "hold"
        ELSE IF AverageAtLeast(Fresh, MinPass) THEN "confirm"
        ELSE IF AverageAtMost(Fresh, RewriteBelow) THEN "rollback"
        ELSE "hold"
  BY <1>1, Zenon DEF ObservationVerdict, Fresh
<1>4. Cardinality(Fresh) \in Nat
  <2>1. Fresh \subseteq Scored(execs)
    BY DEF Fresh, JudgedSince, Judged
  <2> QED
    BY <2>1, EvidenceIsFinite, FS_Subset, FS_CardinalityType
<1>5. MinRewrite \in Nat \ {0}
  BY ContractAssumption
<1> QED
  BY <1>2, <1>3, <1>4, <1>5 DEF Passing, Failing

LEMMA DemandRests == ExecutionDecision("keep") = "rewrite" => Failing
<1>1. ExecutionDecision("keep") =
        IF Fresh = {} THEN "keep"
        ELSE IF Cardinality(Fresh) >= MinDisable /\ AverageAtMost(Fresh, DisableBelow) THEN "disable"
        ELSE IF Cardinality(Fresh) >= MinRewrite /\ AverageAtMost(Fresh, RewriteBelow) THEN "rewrite"
        ELSE "keep"
  BY Zenon DEF ExecutionDecision, Fresh
<1> QED
  BY <1>1 DEF Failing

(* Everything that was judged since the rewrite ran it.                    *)
RunsTheRewrite ==
    LastIsTheRewrite =>
        \A i \in Scored(execs) : execs[i].at > events[Len(events)].at => execs[i].ran = file.body

(* What the turn decides by is what the scores say until it is recorded.   *)
SoleEvidence(t) ==
    /\ pc[t] \notin Writing => RunsTheRewrite
    /\ pc[t] \in {"rewriting", "decide"} =>
          /\ packet[t].policy = Calm /\ ~packet[t].praise
          /\ packet[t].window = "confirm" => Passing
          /\ packet[t].window = "hold" => ~Passing /\ ~Failing
          /\ TypedDecisions = {"keep"} /\ packet[t].execution = "rewrite" => Failing
    /\ pc[t] \in Writing /\ plan[t].decision = "confirm" => LastIsTheRewrite /\ RunsTheRewrite /\ Passing
    /\ pc[t] \in Writing /\ plan[t].decision = "rewrite" /\ TypedDecisions = {"keep"} => Failing

LEMMA RunsKept ==
    ASSUME UNCHANGED <<file, events>>, RunsTheRewrite, TypeOK, TypeOK', PastStays,
           \A i \in Scored(execs)' \ Scored(execs) : execs'[i].ran = file.body
    PROVE  RunsTheRewrite'
<1>1. LastIsTheRewrite' <=> LastIsTheRewrite
  BY DEF LastIsTheRewrite
<1> QED
  BY <1>1 DEF RunsTheRewrite, PastStays

LEMMA DecideEvidence ==
    ASSUME NEW t, SoleTurn(t), HistoryLimit > 0, UndisturbedInv, SoleDecides(t), SoleEvidence(t), Decide(t)
    PROVE  SoleEvidence(t)'
<1> t \in Actors /\ t # Web /\ Actors = {t, Web}
  BY SoleActors
<1>1. pc[t] = "decide" /\ UNCHANGED <<file, events, status, execs, windows>>
  BY DEF Decide, db
<1>2. PICK d \in Reviewed(packet[t]) :
        IF d = "keep" THEN Release(t)
        ELSE /\ plan' = [plan EXCEPT ![t] = [decision |-> d, after |-> Outcome(packet[t], d)]]
             /\ Goto(t, "write_file") \/ Goto(t, "write_state")
  BY DEF Decide
<1>3. /\ RunsTheRewrite' <=> RunsTheRewrite
      /\ LastIsTheRewrite' <=> LastIsTheRewrite
      /\ Passing' = Passing /\ Failing' = Failing
  BY <1>1, FreshKept DEF RunsTheRewrite, LastIsTheRewrite, Scored
<1>4. RunsTheRewrite
  BY <1>1 DEF SoleEvidence, Writing
<1>5. CASE d = "keep"
  <2>1. pc'[t] = "idle"
    BY <1>2, <1>5 DEF Release, Goto, UndisturbedInv, IInv, TypeOK
  <2> QED
    BY <1>3, <1>4, <2>1 DEF SoleEvidence, Writing
<1>6. CASE d # "keep"
  <2>1. plan'[t].decision = d /\ pc'[t] \in {"write_file", "write_state"}
    BY <1>2, <1>6 DEF UndisturbedInv, IInv, TypeOK, Goto
  <2>2. /\ packet[t] \in Packets /\ packet[t].history = Len(events)
        /\ packet[t].surface = "serve"
        /\ packet[t].policy = Calm /\ ~packet[t].praise
        /\ packet[t].window = "confirm" => Passing
        /\ TypedDecisions = {"keep"} /\ packet[t].execution = "rewrite" => Failing
    BY <1>1 DEF UndisturbedInv, IInv, TypeOK, SoleDecides, Deciding, SoleEvidence
  <2>3. ASSUME d = "confirm" PROVE LastIsTheRewrite /\ Passing
    <3>1. Observed(packet[t]) /\ packet[t].window = "confirm"
      BY <2>2, <2>3 DEF Reviewed, Proposal, Packets
    <3>2. status = "observing"
      BY <3>1 DEF Observed, ResolvedStatus
    <3>3. LastIsTheRewrite
      BY <1>1, <3>2 DEF UndisturbedInv, ObservesTheLast, SoleDecides
    <3> QED
      BY <2>2, <3>1, <3>3
  <2>4. ASSUME d = "rewrite", TypedDecisions = {"keep"} PROVE Failing
    <3>1. packet[t].execution = "rewrite"
      BY <2>2, <2>4 DEF Reviewed, Proposal, Packets, Calm
    <3> QED
      BY <2>2, <2>4, <3>1
  <2> QED
    BY <1>3, <1>4, <2>1, <2>3, <2>4 DEF SoleEvidence, Writing
<1> QED
  BY <1>5, <1>6

LEMMA ReconcileEvidence ==
    ASSUME NEW t, SoleTurn(t), IInv, SoleClock(t), SoleEvidence(t), Reconcile(t)
    PROVE  SoleEvidence(t)'
<1> t \in Actors
  BY SoleActors
<1>1. UNCHANGED <<file, events, execs, windows>> /\ pc[t] = "reconcile"
  BY DEF Reconcile, db
<1>2. PICK typed \in TypedDecisions :
        LET q == BuildPacket("serve", held[t].ver, typed, Calm, FALSE)
        IN  \/ /\ packet' = [packet EXCEPT ![t] = q]
               /\ Goto(t, IF RewriteIsDue(q) THEN "rewriting" ELSE "decide")
            \/ Release(t)
  BY DEF Reconcile
<1> DEFINE q == BuildPacket("serve", held[t].ver, typed, Calm, FALSE)
<1>3. /\ q.policy = Calm /\ ~q.praise
      /\ q.window = ObservationVerdict /\ q.execution = ExecutionDecision(typed)
  BY DEF BuildPacket
<1>4. \/ packet' = [packet EXCEPT ![t] = q] /\ (Goto(t, "rewriting") \/ Goto(t, "decide"))
      \/ Release(t)
  BY <1>2
<1> HIDE DEF q
<1>5. \/ packet'[t] = q /\ pc'[t] \in {"rewriting", "decide"}
      \/ pc'[t] = "idle"
  BY <1>4 DEF Release, Goto, IInv, TypeOK
<1>6. /\ q.window = "confirm" => Passing
      /\ q.window = "hold" => ~Passing /\ ~Failing
  BY <1>3, VerdictRests DEF SoleClock, IInv
<1>7. TypedDecisions = {"keep"} /\ q.execution = "rewrite" => Failing
  <2>1. TypedDecisions = {"keep"} => typed = "keep"
    OBVIOUS
  <2> QED
    BY <1>3, <2>1, DemandRests
<1>8. /\ RunsTheRewrite' <=> RunsTheRewrite
      /\ Passing' = Passing /\ Failing' = Failing
  BY <1>1, FreshKept DEF RunsTheRewrite, LastIsTheRewrite, Scored
<1> QED
  BY <1>1, <1>3, <1>5, <1>6, <1>7, <1>8 DEF SoleEvidence, Writing

LEMMA WriteEventEvidence ==
    ASSUME NEW t, SoleTurn(t), IInv, IInv', SInv, SoleClock(t), SoleEvidence(t), WriteEvent(t)
    PROVE  SoleEvidence(t)'
<1> t \in Actors
  BY SoleActors
<1>1. pc'[t] = "reload" /\ execs' = execs
  BY DEF WriteEvent, Goto, IInv, TypeOK, SoleTurn
<1>2. events'[Len(events')].at = Now
  BY EventRecorded
<1>3. \A i \in Scored(execs) : execs[i].at \in Nat /\ execs[i].at < Now
  <2>1. \A i \in DOMAIN execs : execs[i] \in Execution
    BY DEF IInv, TypeOK
  <2> QED
    BY <2>1 DEF SoleClock, Scored, Execution
<1>4. RunsTheRewrite'
  <2>1. Now \in Nat
    BY NowTyped DEF IInv
  <2> QED
    BY <1>1, <1>2, <1>3, <2>1 DEF RunsTheRewrite, Scored
<1> QED
  BY <1>1, <1>4 DEF SoleEvidence, Writing

LEMMA NextEvidence ==
    ASSUME NEW t, SoleTurn(t), HistoryLimit > 0, Crashes = FALSE, Failures = FALSE, UndisturbedInv,
           UndisturbedInv', SoleDecides(t), SoleUses(t), SoleClock(t), SoleEvidence(t), [Next]_vars
    PROVE  SoleEvidence(t)'
<1> t \in Actors /\ IInv /\ IInv' /\ SInv /\ pc[Web] = "idle"
  BY SoleActors DEF UndisturbedInv, SoleDecides
<1>1. ASSUME UNCHANGED <<file, events, execs>>
      PROVE  /\ RunsTheRewrite' <=> RunsTheRewrite
             /\ LastIsTheRewrite' <=> LastIsTheRewrite
             /\ Passing' = Passing /\ Failing' = Failing
  BY <1>1, FreshKept DEF RunsTheRewrite, LastIsTheRewrite, Scored
<1>2. CASE UNCHANGED vars \/ Start
  <2>1. UNCHANGED <<file, execs, events, windows, pc, packet, plan>>
    BY <1>2 DEF vars, db, Start
  <2> QED
    BY <1>1, <2>1 DEF SoleEvidence
<1>3. CASE Prune(t) \/ Match(t) \/ NoMatch(t) \/ AnswerFails(t) \/ Answer(t) \/ JudgeFails(t) \/ Reload(t)
  <2>1. /\ UNCHANGED <<file, execs, events>>
        /\ pc[t] \notin Writing
        /\ pc'[t] \in {"context", "answering", "recording", "reconcile", "idle"}
    BY <1>3 DEF db, Prune, Match, NoMatch, AnswerFails, Answer, JudgeFails, Reload, Release, Goto, IInv, TypeOK, Writing
  <2> QED
    BY <1>1, <2>1 DEF SoleEvidence, Writing
<1>4. CASE Record(t)
  <2>1. UNCHANGED <<file, events>> /\ pc[t] = "recording" /\ pc'[t] = "judging"
    BY <1>4 DEF Record, Goto, IInv, TypeOK
  <2>2. PastStays /\ Scored(execs)' = Scored(execs)
    <3> DEFINE e == [ver |-> held[t].ver, ran |-> held[t].body, digest |-> file,
                     sig |-> {}, score |-> 0, at |-> 0]
    <3>1. execs' = Append(execs, e) /\ e.at = 0 /\ execs \in Seq(Execution)
      BY <1>4 DEF IInv, TypeOK, Record
    <3> HIDE DEF e
    <3>2. Scored(execs)' = Scored(execs)
      BY <3>1 DEF Scored
    <3> QED
      BY <1>4, <3>2, RecordClock
  <2>3. RunsTheRewrite'
    BY <2>1, <2>2, RunsKept DEF IInv, SoleEvidence, Writing
  <2> QED
    BY <2>1, <2>3 DEF SoleEvidence, Writing
<1>5. CASE \E score \in Scores : Judge(t, score)
  <2>1. PICK score \in Scores : Judge(t, score)
    BY <1>5
  <2>2. UNCHANGED <<file, events>> /\ pc[t] = "judging" /\ pc'[t] = "reconcile"
    BY <2>1 DEF Judge, Goto, IInv, TypeOK
  <2>3. /\ PastStays /\ Scored(execs)' = Scored(execs) \cup {Len(execs)}
        /\ execs'[Len(execs)].ran = execs[Len(execs)].ran
    BY <2>1, JudgeClock
  <2>4. execs[Len(execs)].ran = file.body
    BY <2>2 DEF SoleClock
  <2>5. RunsTheRewrite'
    BY <2>2, <2>3, <2>4, RunsKept DEF IInv, SoleEvidence, Writing
  <2> QED
    BY <2>2, <2>5 DEF SoleEvidence, Writing
<1>6. CASE Rewriter(t)
  <2>1. /\ UNCHANGED <<file, execs, events, packet>>
        /\ pc[t] = "rewriting" /\ pc'[t] = "decide"
    BY <1>6 DEF Rewriter, db, Goto, IInv, TypeOK
  <2> QED
    BY <1>1, <2>1 DEF SoleEvidence, Writing
<1>7. CASE WriteFile(t)
  <2>1. /\ UNCHANGED <<execs, events, plan>>
        /\ pc[t] = "write_file" /\ pc'[t] = "write_state"
    BY <1>7 DEF WriteFile, db, Goto, IInv, TypeOK
  <2>2. plan[t].decision # "confirm"
    BY <2>1 DEF UndisturbedInv, FileIsAccountedFor, Changing
  <2>3. Failing' = Failing
    BY <2>1, FreshKept
  <2> QED
    BY <2>1, <2>2, <2>3 DEF SoleEvidence, Writing
<1>8. CASE WriteState(t)
  <2>1. /\ UNCHANGED <<file, execs, events, plan>>
        /\ pc[t] = "write_state" /\ pc'[t] = "write_event"
    BY <1>8 DEF WriteState, Goto, IInv, TypeOK
  <2> QED
    BY <1>1, <2>1 DEF SoleEvidence, Writing
<1> QED
  BY <1>2, <1>3, <1>4, <1>5, <1>6, <1>7, <1>8, SoleSteps, DecideEvidence, ReconcileEvidence,
     WriteEventEvidence DEF Crash, WriteFails

(* What a confirmation at event c has to show for itself.                  *)
Earned(c) ==
    \E r \in RewriteBefore(c) :
        LET own == {i \in JudgedBetween(events[r].at, events[c].at) :
                      execs[i].ran = events[r].after.body}
        IN  \/ Cardinality(own) >= MinRewrite /\ AverageAtLeast(own, MinPass)
            \/ /\ JudgedBetween(0, events[c].at) = {}
               /\ Cardinality({w \in DOMAIN windows : /\ events[r].at < windows[w].at
                                                      /\ windows[w].at < events[c].at})
                    >= MinRewrite

(* Events are appended, nothing else happens to them. *)
EventsStay ==
    /\ DOMAIN events \subseteq DOMAIN events'
    /\ \A c \in DOMAIN events : /\ events'[c] = events[c]
                                /\ RewriteBefore(c)' = RewriteBefore(c)
                                /\ RewriteBefore(c) \subseteq DOMAIN events

LEMMA OnlyRecordsChangeEvents ==
    ASSUME NEW t, SoleTurn(t), IInv, pc[Web] = "idle", [Next]_vars
    PROVE  UNCHANGED events \/ WriteEvent(t)
<1>1. CASE UNCHANGED vars \/ Start \/ Crash \/ Prune(t) \/ Match(t) \/ NoMatch(t) \/ AnswerFails(t)
           \/ Answer(t) \/ Record(t)
           \/ JudgeFails(t) \/ Reconcile(t) \/ Rewriter(t) \/ Decide(t) \/ WriteFile(t) \/ WriteState(t)
           \/ WriteFails(t) \/ Reload(t)
  BY <1>1 DEF vars, db, Start, Crash, Prune, Match, NoMatch, AnswerFails, Answer, Record, JudgeFails, Reconcile, Rewriter,
     Decide, WriteFile, WriteState, WriteFails, Reload
<1>2. CASE \E score \in Scores : Judge(t, score)
  BY <1>2 DEF Judge
<1> QED
  BY <1>1, <1>2, SoleSteps

LEMMA EventsAreKept ==
    ASSUME NEW t, IInv, t \in Actors, UNCHANGED events \/ WriteEvent(t)
    PROVE  EventsStay
<1>1. /\ Len(events) \in Nat /\ DOMAIN events = 1..Len(events)
      /\ \A c \in 1..Len(events) : RewriteBefore(c) \subseteq 1..Len(events)
  <2>1. Len(events) \in Nat /\ DOMAIN events = 1..Len(events)
    BY DEF IInv, TypeOK
  <2>2. \A c \in 1..Len(events) : 1..(c - 1) \subseteq 1..Len(events)
    BY <2>1
  <2> QED
    BY <2>1, <2>2 DEF RewriteBefore
<1>2. CASE UNCHANGED events
  BY <1>1, <1>2 DEF EventsStay, RewriteBefore
<1>3. CASE WriteEvent(t)
  <2>1. /\ DOMAIN events' = 1..(Len(events) + 1)
        /\ \A c \in 1..Len(events) : events'[c] = events[c]
    BY <1>3, EventRecorded
  <2>2. \A c \in 1..Len(events) : RewriteBefore(c)' = RewriteBefore(c) /\ c \in 1..(Len(events) + 1)
    BY <1>1, <1>3, RewriteBeforeKept
  <2> QED
    BY <1>1, <2>1, <2>2 DEF EventsStay
<1> QED
  BY <1>2, <1>3

LEMMA EarnedKept ==
    ASSUME NEW t, IInv, IInv', SoleClock(t), PastStays, EventsStay, UNCHANGED windows,
           NEW c \in DOMAIN events, Earned(c)
    PROVE  Earned(c)'
<1> DEFINE own(r) == {i \in JudgedBetween(events[r].at, events[c].at) :
                        execs[i].ran = events[r].after.body}
           seenWindows(r) == {w \in DOMAIN windows : /\ events[r].at < windows[w].at
                                                     /\ windows[w].at < events[c].at}
<1>1. PICK r \in RewriteBefore(c) :
         \/ Cardinality(own(r)) >= MinRewrite /\ AverageAtLeast(own(r), MinPass)
         \/ JudgedBetween(0, events[c].at) = {} /\ Cardinality(seenWindows(r)) >= MinRewrite
  BY DEF Earned
<1>2. /\ r \in RewriteBefore(c)' /\ events'[r] = events[r] /\ events'[c] = events[c]
  BY DEF EventsStay
<1>3. PICK from, to : from = events[r].at /\ to = events[c].at
  OBVIOUS
<1>4. to \in Nat /\ to <= Now
  <2>1. events[c] \in LifecycleEvent /\ events[c].at < Now
    BY DEF IInv, TypeOK, SoleClock
  <2> QED
    BY <1>3, <2>1, NowTyped DEF LifecycleEvent, IInv
<1>5. /\ JudgedBetween(from, to)' = JudgedBetween(from, to)
      /\ \A i \in JudgedBetween(from, to) : execs'[i] = execs[i]
      /\ JudgedBetween(0, to)' = JudgedBetween(0, to)
  BY <1>4, PastKept DEF IInv
<1>6. own(r)' = own(r) /\ seenWindows(r)' = seenWindows(r)
  BY <1>2, <1>3, <1>5
<1>7. JudgedBetween(0, events[c].at)' = JudgedBetween(0, events[c].at)
  BY <1>2, <1>3, <1>5
<1>8. PICK S : S = own(r)
  OBVIOUS
<1>9. AverageAtLeast(S, MinPass)' <=> AverageAtLeast(S, MinPass)
  <2>1. \A i \in S : execs'[i].score = execs[i].score
    BY <1>3, <1>5, <1>8
  <2> QED
    BY <2>1, AveragesAgree
<1>10. AverageAtLeast(own(r), MinPass)' <=> AverageAtLeast(own(r), MinPass)
  <2> HIDE DEF own
  <2>1. AverageAtLeast(own(r), MinPass)' <=> AverageAtLeast(S, MinPass)'
    BY <1>6, <1>8
  <2> QED
    BY <1>8, <1>9, <2>1
<1>11. \/ Cardinality(own(r)') >= MinRewrite /\ AverageAtLeast(own(r), MinPass)'
       \/ JudgedBetween(0, events[c].at)' = {} /\ Cardinality(seenWindows(r)') >= MinRewrite
  BY <1>1, <1>6, <1>7, <1>10
<1> QED
  BY <1>2, <1>11, Zenon DEF Earned

(* A confirmation that is recorded is earned.                              *)
LEMMA RecordedIsEarned ==
    ASSUME NEW t, SoleTurn(t), HistoryLimit > 0, IInv, IInv', SoleClock(t), SoleEvidence(t), PastStays,
           WriteEvent(t), plan[t].decision = "confirm", NEW c, c = Len(events) + 1
    PROVE  Earned(c)'
<1> DEFINE n == Len(events)
<1> t \in Actors
  BY SoleActors
<1>1. LastIsTheRewrite /\ RunsTheRewrite /\ Passing /\ UNCHANGED execs
  BY DEF WriteEvent, SoleEvidence, Writing
<1>2. /\ n \in Nat \ {0} /\ LatestRewrite(n) = n
      /\ n \in RewriteBefore(n + 1)
  BY <1>1, TheLastIsFound, FoundIsLatest DEF IInv
<1>3. events'[n] = events[n] /\ events'[c].at = Now /\ RewriteBefore(c)' = RewriteBefore(n + 1)
  BY <1>2, EventRecorded, RewriteBeforeKept
<1>4. PICK from, to, S : from = events[n].at /\ to = Now /\ S = Fresh
  OBVIOUS
<1>5. JudgedBetween(from, to) = S
  <2>1. Cutoff(n) = from
    BY <1>2, <1>4 DEF Cutoff
  <2>2. S = JudgedSince(from)
    BY <1>4, <2>1 DEF Fresh
  <2> QED
    BY <1>4, <2>2, JudgedIsOfNow
<1>6. JudgedBetween(from, to)' = S
  <2>1. to \in Nat /\ to <= Now
    BY <1>4, NowTyped DEF IInv
  <2> QED
    BY <1>5, <2>1, PastKept DEF IInv
<1>7. \A i \in S : execs[i].ran = events[n].after.body
  <2>1. \A i \in S : i \in Scored(execs) /\ execs[i].at > from
    BY <1>4, <1>5 DEF JudgedBetween
  <2> QED
    BY <1>1, <1>4, <2>1 DEF RunsTheRewrite, LastIsTheRewrite
<1>8. Cardinality(S) >= MinRewrite /\ AverageAtLeast(S, MinPass)
  BY <1>1, <1>4 DEF Passing
<1>9. AverageAtLeast(S, MinPass)'
  BY <1>1, <1>8, AveragesAgree
<1>10. {i \in JudgedBetween(from, to)' : execs'[i].ran = events'[n].after.body} = S
  BY <1>1, <1>3, <1>6, <1>7
<1> HIDE DEF n
<1>11. PICK r : r = n
  OBVIOUS
<1>12. r \in RewriteBefore(c)'
  BY <1>2, <1>3, <1>11
<1>13. {i \in JudgedBetween(events[r].at, events[c].at) : execs[i].ran = events[r].after.body}' = S
  BY <1>3, <1>4, <1>10, <1>11
<1> QED
  BY <1>8, <1>9, <1>12, <1>13, Zenon DEF Earned

LEMMA NextEarned ==
    ASSUME NEW t, SoleTurn(t), HistoryLimit > 0, Crashes = FALSE, Failures = FALSE, IInv, IInv',
           SoleDecides(t), SoleUses(t), SoleClock(t), SoleEvidence(t), ConfirmationIsEarned, [Next]_vars
    PROVE  ConfirmationIsEarned'
<1> t \in Actors
  BY SoleActors
<1>1. PastStays /\ UNCHANGED windows
  BY NextClock DEF SoleClock
<1>2. UNCHANGED events \/ WriteEvent(t)
  BY OnlyRecordsChangeEvents DEF SoleDecides
<1>3. EventsStay
  BY <1>2, EventsAreKept
<1>4. ASSUME NEW c \in DOMAIN events, events'[c].action = "confirm" PROVE Earned(c)'
  <2>1. events'[c] = events[c]
    BY <1>3 DEF EventsStay
  <2>2. Earned(c)
    BY <1>4, <2>1, Zenon DEF ConfirmationIsEarned, Earned
  <2> QED
    BY <1>1, <1>3, <2>2, EarnedKept
<1>5. ASSUME NEW c \in DOMAIN events' \ DOMAIN events, events'[c].action = "confirm" PROVE Earned(c)'
  <2>1. WriteEvent(t)
    BY <1>2, <1>5
  <2>2. c = Len(events) + 1 /\ plan[t].decision = "confirm"
    BY <1>5, <2>1, EventRecorded
  <2> QED
    BY <1>1, <2>1, <2>2, RecordedIsEarned
<1>6. \A c \in DOMAIN events' : events'[c].action = "confirm" => Earned(c)'
  BY <1>4, <1>5
<1> QED
  BY <1>6, Zenon DEF ConfirmationIsEarned, Earned

(* A confirmed rewrite earned it: when one turn after another governs the  *)
(* skill, nobody clicks, serve does not die and its writes succeed, the    *)
(* judge scored at least MinRewrite executions of that very content while  *)
(* it was observed, and on average they pass (observation_outcome).        *)
THEOREM SoleTurnConfirmsEarned ==
    ASSUME NEW t, SoleTurn(t), HistoryLimit > 0, Crashes = FALSE, Failures = FALSE
    PROVE  Spec => []ConfirmationIsEarned
<1> DEFINE I == SoleDecides(t) /\ SoleUses(t) /\ SoleClock(t) /\ SoleEvidence(t) /\ ConfirmationIsEarned
<1>1. Spec => []UndisturbedInv
  BY Undisturbed DEF SoleTurn
<1>2. Init => I
  <2>1. Init => SoleUses(t) /\ SoleClock(t) /\ SoleEvidence(t) /\ ConfirmationIsEarned
    BY SoleActors DEF Init, SoleUses, Agreement, SoleClock, SoleEvidence, ConfirmationIsEarned, Writing, Scored,
       RunsTheRewrite, LastIsTheRewrite
  <2> QED
    BY <2>1, InitSole
<1>3. UndisturbedInv /\ UndisturbedInv' /\ I /\ [Next]_vars => I'
  <2> SUFFICES ASSUME UndisturbedInv, UndisturbedInv', I, [Next]_vars PROVE I'
    OBVIOUS
  <2>1. IInv /\ IInv' /\ SInv
    BY DEF UndisturbedInv
  <2> QED
    BY <2>1, NextSole, NextUses, NextClock, NextEvidence, NextEarned
<1> HIDE DEF I
<1>4. I => ConfirmationIsEarned
  BY DEF I
<1> QED
  BY <1>1, <1>2, <1>3, <1>4, PTL DEF Spec

(* The rewrite that is the latest on record, if any. *)
LastRewrites == RewriteBefore(Len(events) + 1)

(* A packet that reads two events or more finds it, as nothing was rolled  *)
(* back and at most its confirmation came after it.                        *)
LEMMA FoundWhenRecent ==
    ASSUME TypeOK, HistoryLimit >= 2, \A c \in DOMAIN events : events[c].action # "rollback",
           NEW r \in LastRewrites, r >= Len(events) - 1
    PROVE  LatestRewrite(Len(events)) = r /\ r \in 1..Len(events)
<1>1. Len(events) \in Nat /\ DOMAIN events = 1..Len(events) /\ Len(events) + 1 - 1 = Len(events)
  BY DEF TypeOK
<1>2. PICK n \in Nat : n = Len(events)
  BY <1>1, Zenon
<1>3. /\ r \in 1..n /\ events[r].action = "rewrite"
      /\ \A k \in (r + 1)..n : events[k].action # "rewrite"
  BY <1>1, <1>2 DEF LastRewrites, RewriteBefore
<1>4. r \in History(n) /\ IsLatestRewrite(r, n)
  <2>1. \A k \in (r + 1)..n : k \in 1..n
    BY <1>3
  <2>2. IsLatestRewrite(r, n)
    BY <1>1, <1>2, <1>3, <2>1 DEF IsLatestRewrite
  <2>3. r > n - HistoryLimit
    BY <1>2, <1>3, BoundsAssumption
  <2> QED
    BY <1>3, <2>2, <2>3 DEF History
<1>5. ASSUME NEW i \in History(n), IsLatestRewrite(i, n) PROVE i = r
  <2>1. i \in 1..n
    BY DEF History
  <2>2. i < r => r \in (i + 1)..n
    BY <1>3, <2>1
  <2>3. i > r => i \in (r + 1)..n
    BY <1>3, <2>1
  <2> QED
    BY <1>3, <1>5, <2>1, <2>2, <2>3 DEF IsLatestRewrite
<1> QED
  BY <1>2, <1>3, <1>4, <1>5 DEF LatestRewrite

(* A skill with a version is not rolled back, as the rewrite raised it; so *)
(* it is confirmed before the next rewrite, and not disabled after one.    *)
SoleVersions(t) ==
    /\ \A c \in DOMAIN events : events[c].action # "rollback"
    /\ pc[t] \in Writing => plan[t].decision \in {"rewrite", "confirm", "disable"}
    /\ pc[t] \in Writing /\ plan[t].decision = "disable" => LastRewrites = {}
    /\ pc[t] \in Writing /\ plan[t].decision = "rewrite" =>
          plan[t].after.ver = packet[t].current.ver + 1
    /\ \A r \in LastRewrites :
          /\ r >= Len(events) - 1
          /\ events[r].after.ver = events[r].before.ver + 1
          /\ (pc[t] \in Writing /\ plan[t].decision = "rewrite") \/ file = events[r].after

LEMMA DecideVersions ==
    ASSUME NEW t, SoleTurn(t), Versioned = TRUE, HistoryLimit >= 2, IInv, SoleDecides(t), SoleUses(t),
           SoleEvidence(t), SoleVersions(t), Decide(t)
    PROVE  SoleVersions(t)'
<1> t \in Actors /\ t # Web /\ Actors = {t, Web}
  BY SoleActors
<1>1. pc[t] = "decide" /\ UNCHANGED <<file, events>>
  BY DEF Decide, db
<1>2. PICK d \in Reviewed(packet[t]) :
        IF d = "keep" THEN Release(t)
        ELSE /\ plan' = [plan EXCEPT ![t] = [decision |-> d, after |-> Outcome(packet[t], d)]]
             /\ Goto(t, "write_file") \/ Goto(t, "write_state")
             /\ packet' = packet
  BY DEF Decide
<1>3. LastRewrites' = LastRewrites
  BY <1>1 DEF LastRewrites, RewriteBefore
<1>4. \A r \in LastRewrites : file = events[r].after
  BY <1>1 DEF SoleVersions, Writing
<1>5. CASE d = "keep"
  <2>1. pc'[t] = "idle"
    BY <1>2, <1>5 DEF Release, Goto, IInv, TypeOK
  <2> QED
    BY <1>1, <1>3, <1>4, <2>1 DEF SoleVersions, Writing
<1>6. CASE d # "keep"
  <2>1. plan'[t] = [decision |-> d, after |-> Outcome(packet[t], d)] /\ pc'[t] \in {"write_file", "write_state"}
        /\ packet' = packet
    BY <1>2, <1>6 DEF IInv, TypeOK, Goto
  <2>2. /\ packet[t] \in Packets /\ packet[t].history = Len(events)
        /\ packet[t].surface = "serve"
        /\ packet[t].policy = Calm
        /\ packet[t].current = file /\ packet[t].ver = file.ver
    BY <1>1 DEF IInv, TypeOK, SoleDecides, Deciding, SoleEvidence, SoleUses
  <2>3. d # "rollback"
    <3> SUFFICES ASSUME d = "rollback" PROVE FALSE
      OBVIOUS
    <3>1. RollbackApproved(packet[t]) /\ LatestRewrite(Len(events)) # 0
      <4>1. RollbackApproved(packet[t])
        BY DEF Reviewed
      <4> QED
        BY <2>2, <4>1, ReviewedTyped
    <3>2. PICK r \in LastRewrites : r = LatestRewrite(Len(events))
      BY <3>1, FoundIsLatest DEF IInv, LastRewrites
    <3>3. events[r].before.ver = file.ver
      BY <2>2, <3>1, <3>2 DEF RollbackApproved
    <3>4. file.ver = events[r].before.ver + 1 /\ file.ver \in Nat
      BY <1>4, <3>2 DEF SoleVersions, IInv, TypeOK, Content
    <3> QED
      BY <3>3, <3>4
  <2>4. d \in {"rewrite", "confirm", "disable"}
    BY <1>6, <2>2, <2>3 DEF Reviewed, Proposal, Packets
  <2>5. ASSUME d = "disable" PROVE LastRewrites = {}
    <3>1. LatestRewrite(Len(events)) = 0
      BY <2>2, <2>5 DEF Reviewed, Proposal, Packets, Calm
    <3> QED
      BY <3>1, FoundWhenRecent DEF SoleVersions, IInv
  <2>6. ASSUME d = "rewrite" PROVE plan'[t].after.ver = packet[t].current.ver + 1
    BY <2>1, <2>2, <2>6 DEF Outcome, NextVersion
  <2> QED
    BY <1>1, <1>3, <1>4, <2>1, <2>4, <2>5, <2>6 DEF SoleVersions
<1> QED
  BY <1>5, <1>6

LEMMA WriteEventVersions ==
    ASSUME NEW t, SoleTurn(t), UndisturbedInv, SoleDecides(t), SoleEvidence(t), SoleVersions(t), WriteEvent(t)
    PROVE  SoleVersions(t)'
<1> t \in Actors /\ IInv
  BY SoleActors DEF UndisturbedInv
<1>1. PICK n \in Nat : n = Len(events)
  BY DEF IInv, TypeOK
<1>2. /\ DOMAIN events = 1..n /\ DOMAIN events' = 1..(n + 1) /\ Len(events') = n + 1
      /\ \A c \in 1..n : events'[c] = events[c]
      /\ events'[n + 1].action = plan[t].decision
      /\ events'[n + 1].before = packet[t].current
      /\ events'[n + 1].after = plan[t].after
  BY <1>1, EventRecorded
<1>3. pc[t] = "write_event" /\ pc'[t] = "reload" /\ file' = file
  BY DEF WriteEvent, Goto, IInv, TypeOK, SoleTurn
<1>4. plan[t].decision \in {"rewrite", "confirm", "disable"}
  BY <1>3 DEF SoleVersions, Writing
<1>5. /\ plan[t].decision = "rewrite" => LastRewrites' = {n + 1}
      /\ plan[t].decision # "rewrite" => LastRewrites' = LastRewrites
  BY <1>1, RewriteBeforeKept DEF LastRewrites
<1>6. LastRewrites \subseteq 1..n
  BY <1>1 DEF LastRewrites, RewriteBefore
<1>7. ASSUME NEW r \in LastRewrites'
      PROVE  /\ r >= n + 1 - 1
             /\ events'[r].after.ver = events'[r].before.ver + 1
             /\ file' = events'[r].after
  <2>1. CASE plan[t].decision = "rewrite"
    <3>1. r = n + 1
      BY <1>5, <2>1
    <3>2. file = plan[t].after
      BY <1>3, <2>1 DEF UndisturbedInv, FileIsAccountedFor, Changing
    <3>3. plan[t].after.ver = packet[t].current.ver + 1
      BY <1>3, <2>1 DEF SoleVersions, Writing
    <3> QED
      BY <1>2, <1>3, <3>1, <3>2, <3>3
  <2>2. CASE plan[t].decision = "confirm"
    <3>1. r \in LastRewrites /\ r \in 1..n
      BY <1>5, <1>6, <2>2
    <3>2. LastIsTheRewrite
      BY <1>3, <2>2 DEF SoleEvidence, Writing
    <3>3. r = n
      <4>1. \A k \in (r + 1)..n : events[k].action # "rewrite"
        BY <1>1, <3>1 DEF LastRewrites, RewriteBefore
      <4>2. r < n => n \in (r + 1)..n
        BY <3>1
      <4> QED
        BY <1>1, <3>1, <3>2, <4>1, <4>2 DEF LastIsTheRewrite
    <3> QED
      BY <1>2, <1>3, <2>2, <3>1, <3>3 DEF SoleVersions
  <2>3. CASE plan[t].decision = "disable"
    BY <1>3, <1>5, <2>3 DEF SoleVersions, Writing
  <2> QED
    BY <1>4, <2>1, <2>2, <2>3
<1>8. \A c \in DOMAIN events' : events'[c].action # "rollback"
  <2>1. \A c \in 1..(n + 1) : c \in 1..n \/ c = n + 1
    OBVIOUS
  <2> QED
    BY <1>2, <1>4, <2>1 DEF SoleVersions
<1> QED
  BY <1>2, <1>3, <1>7, <1>8 DEF SoleVersions, Writing

LEMMA NextVersions ==
    ASSUME NEW t, SoleTurn(t), Versioned = TRUE, HistoryLimit >= 2, Crashes = FALSE, Failures = FALSE,
           UndisturbedInv, SoleDecides(t), SoleUses(t), SoleEvidence(t), SoleVersions(t), [Next]_vars
    PROVE  SoleVersions(t)'
<1> t \in Actors /\ IInv /\ pc[Web] = "idle"
  BY SoleActors DEF UndisturbedInv, SoleDecides
<1>1. ASSUME UNCHANGED <<file, events>>, pc[t] \notin Writing, pc'[t] \notin Writing
      PROVE  SoleVersions(t)'
  <2>1. LastRewrites' = LastRewrites
    BY <1>1 DEF LastRewrites, RewriteBefore
  <2> QED
    BY <1>1, <2>1 DEF SoleVersions
<1>2. CASE UNCHANGED vars \/ Start
  <2>1. UNCHANGED <<file, events, pc, packet, plan>>
    BY <1>2 DEF vars, db, Start
  <2>2. LastRewrites' = LastRewrites
    BY <2>1 DEF LastRewrites, RewriteBefore
  <2> QED
    BY <2>1, <2>2 DEF SoleVersions
<1>3. CASE Prune(t) \/ Match(t) \/ NoMatch(t) \/ AnswerFails(t) \/ Answer(t) \/ Record(t) \/ JudgeFails(t)
           \/ (\E score \in Scores : Judge(t, score)) \/ Reconcile(t) \/ Rewriter(t) \/ Reload(t)
  <2>1. /\ UNCHANGED <<file, events>> /\ pc[t] \notin Writing /\ pc'[t] \notin Writing
    BY <1>3 DEF db, Prune, Match, NoMatch, AnswerFails, Answer, Record, JudgeFails, Judge, Reconcile,
       Rewriter, Reload, Release, Goto, IInv, TypeOK, Writing
  <2> QED
    BY <1>1, <2>1
<1>4. CASE WriteFile(t) \/ WriteState(t)
  <2>1. UNCHANGED <<events, packet, plan>> /\ pc[t] \in Writing /\ pc'[t] \in Writing
    BY <1>4 DEF WriteFile, WriteState, db, Goto, IInv, TypeOK, Writing
  <2>2. LastRewrites' = LastRewrites
    BY <2>1 DEF LastRewrites, RewriteBefore
  <2>3. plan[t].decision # "rewrite" => file' = file
    <3>1. CASE WriteState(t)
      BY <3>1 DEF WriteState
    <3>2. CASE WriteFile(t)
      <4>1. plan[t].decision \in Changing
        BY <3>2 DEF WriteFile, UndisturbedInv, FileIsAccountedFor
      <4>2. plan[t].decision \in {"rewrite", "confirm", "disable"}
        BY <2>1 DEF SoleVersions
      <4> QED
        BY <4>1, <4>2 DEF Changing
    <3> QED
      BY <1>4, <3>1, <3>2
  <2> QED
    BY <2>1, <2>2, <2>3 DEF SoleVersions
<1> QED
  BY <1>2, <1>3, <1>4, SoleSteps, DecideVersions, WriteEventVersions DEF Crash, WriteFails

(* What the decision recorded at event c has to rest on.                   *)
Rests(c) ==
    \A r \in RewriteBefore(c) :
        LET S == JudgedBetween(events[r].at, events[c].at)
        IN  /\ events[c].action = "rewrite" =>
                 Cardinality(S) >= MinRewrite /\ AverageAtMost(S, RewriteBelow)
            /\ events[c].action = "disable" =>
                 Cardinality(S) >= MinDisable /\ AverageAtMost(S, DisableBelow)

LEMMA RestsKept ==
    ASSUME NEW t, IInv, IInv', SoleClock(t), PastStays, EventsStay,
           NEW c \in DOMAIN events, Rests(c)
    PROVE  Rests(c)'
<1> SUFFICES ASSUME NEW r \in RewriteBefore(c)'
             PROVE  LET S == JudgedBetween(events[r].at, events[c].at)'
                    IN  /\ events'[c].action = "rewrite" =>
                             Cardinality(S) >= MinRewrite /\ AverageAtMost(JudgedBetween(events[r].at, events[c].at), RewriteBelow)'
                        /\ events'[c].action = "disable" =>
                             Cardinality(S) >= MinDisable /\ AverageAtMost(JudgedBetween(events[r].at, events[c].at), DisableBelow)'
  BY Zenon DEF Rests
<1>1. r \in RewriteBefore(c) /\ events'[r] = events[r] /\ events'[c] = events[c]
  BY DEF EventsStay
<1>2. PICK from, to : from = events[r].at /\ to = events[c].at
  OBVIOUS
<1>3. to \in Nat /\ to <= Now
  <2>1. events[c] \in LifecycleEvent /\ events[c].at < Now
    BY DEF IInv, TypeOK, SoleClock
  <2> QED
    BY <1>2, <2>1, NowTyped DEF LifecycleEvent, IInv
<1>4. PICK S : S = JudgedBetween(events[r].at, events[c].at)
  OBVIOUS
<1>5. /\ JudgedBetween(from, to)' = JudgedBetween(from, to)
      /\ \A i \in JudgedBetween(from, to) : execs'[i] = execs[i]
  BY <1>3, PastKept DEF IInv
<1>6. JudgedBetween(events[r].at, events[c].at)' = S
  BY <1>1, <1>2, <1>4, <1>5
<1>7. /\ AverageAtMost(S, RewriteBelow)' <=> AverageAtMost(S, RewriteBelow)
      /\ AverageAtMost(S, DisableBelow)' <=> AverageAtMost(S, DisableBelow)
  <2>1. \A i \in S : execs'[i].score = execs[i].score
    BY <1>2, <1>4, <1>5
  <2> QED
    BY <2>1, AveragesAgree
<1>8. /\ events[c].action = "rewrite" => Cardinality(S) >= MinRewrite /\ AverageAtMost(S, RewriteBelow)
      /\ events[c].action = "disable" => Cardinality(S) >= MinDisable /\ AverageAtMost(S, DisableBelow)
  BY <1>1, <1>4, Zenon DEF Rests
<1>9. /\ AverageAtMost(JudgedBetween(events[r].at, events[c].at), RewriteBelow)' <=> AverageAtMost(S, RewriteBelow)'
      /\ AverageAtMost(JudgedBetween(events[r].at, events[c].at), DisableBelow)' <=> AverageAtMost(S, DisableBelow)'
  BY <1>6
<1> QED
  BY <1>1, <1>6, <1>7, <1>8, <1>9, Zenon

LEMMA RecordedRests ==
    ASSUME NEW t, SoleTurn(t), HistoryLimit >= 2, TypedDecisions = {"keep"}, IInv, IInv', SoleClock(t),
           SoleEvidence(t), SoleVersions(t), PastStays, WriteEvent(t), NEW c, c = Len(events) + 1
    PROVE  Rests(c)'
<1> t \in Actors
  BY SoleActors
<1> SUFFICES ASSUME NEW r \in RewriteBefore(c)'
             PROVE  LET S == JudgedBetween(events[r].at, events[c].at)'
                    IN  /\ events'[c].action = "rewrite" =>
                             Cardinality(S) >= MinRewrite /\ AverageAtMost(JudgedBetween(events[r].at, events[c].at), RewriteBelow)'
                        /\ events'[c].action = "disable" =>
                             Cardinality(S) >= MinDisable /\ AverageAtMost(JudgedBetween(events[r].at, events[c].at), DisableBelow)'
  BY Zenon DEF Rests
<1>1. /\ pc[t] \in Writing /\ UNCHANGED execs
      /\ events'[c].action = plan[t].decision /\ events'[c].at = Now
  BY EventRecorded DEF WriteEvent, Writing
<1>2. r \in LastRewrites
  <2>1. c \in 1..(Len(events) + 1)
    BY EventRecorded
  <2> QED
    BY <2>1, RewriteBeforeKept DEF LastRewrites
<1>3. events'[c].action # "disable"
  BY <1>1, <1>2 DEF SoleVersions
<1>4. SUFFICES ASSUME events'[c].action = "rewrite"
               PROVE  /\ Cardinality(JudgedBetween(events[r].at, events[c].at)') >= MinRewrite
                      /\ AverageAtMost(JudgedBetween(events[r].at, events[c].at), RewriteBelow)'
  BY <1>3
<1>5. Failing
  BY <1>1, <1>4 DEF SoleEvidence
<1>6. LatestRewrite(Len(events)) = r /\ r \in 1..Len(events)
  BY <1>2, FoundWhenRecent DEF SoleVersions, IInv
<1>7. events'[r] = events[r]
  BY <1>6, EventRecorded
<1>8. PICK from, to, S : from = events[r].at /\ to = Now /\ S = Fresh
  OBVIOUS
<1>9. JudgedBetween(from, to) = S
  <2>1. Cutoff(Len(events)) = from
    BY <1>6, <1>8 DEF Cutoff
  <2>2. S = JudgedSince(from)
    BY <1>8, <2>1 DEF Fresh
  <2> QED
    BY <1>8, <2>2, JudgedIsOfNow
<1>10. JudgedBetween(from, to)' = S
  <2>1. to \in Nat /\ to <= Now
    BY <1>8, NowTyped DEF IInv
  <2> QED
    BY <1>9, <2>1, PastKept DEF IInv
<1>11. JudgedBetween(events[r].at, events[c].at)' = S
  BY <1>1, <1>7, <1>8, <1>10
<1>12. Cardinality(S) >= MinRewrite /\ AverageAtMost(S, RewriteBelow)
  BY <1>5, <1>8 DEF Failing
<1>13. AverageAtMost(S, RewriteBelow)'
  BY <1>1, <1>12, AveragesAgree
<1>14. AverageAtMost(JudgedBetween(events[r].at, events[c].at), RewriteBelow)' <=> AverageAtMost(S, RewriteBelow)'
  BY <1>11
<1> QED
  BY <1>11, <1>12, <1>13, <1>14

LEMMA NextRests ==
    ASSUME NEW t, SoleTurn(t), HistoryLimit >= 2, TypedDecisions = {"keep"}, IInv, IInv', SoleDecides(t),
           SoleUses(t), SoleClock(t), SoleEvidence(t), SoleVersions(t), EvidenceFollowsRewrite, [Next]_vars
    PROVE  EvidenceFollowsRewrite'
<1> t \in Actors
  BY SoleActors
<1>1. PastStays
  BY NextClock
<1>2. UNCHANGED events \/ WriteEvent(t)
  BY OnlyRecordsChangeEvents DEF SoleDecides
<1>3. EventsStay
  BY <1>2, EventsAreKept
<1>4. ASSUME NEW c \in DOMAIN events PROVE Rests(c)'
  <2>1. Rests(c)
    BY Zenon DEF EvidenceFollowsRewrite, Rests
  <2> QED
    BY <1>1, <1>3, <2>1, RestsKept
<1>5. ASSUME NEW c \in DOMAIN events' \ DOMAIN events PROVE Rests(c)'
  <2>1. WriteEvent(t)
    BY <1>2, <1>5
  <2>2. c = Len(events) + 1
    BY <1>5, <2>1, EventRecorded
  <2> QED
    BY <1>1, <2>1, <2>2, RecordedRests
<1>6. \A c \in DOMAIN events' : Rests(c)'
  BY <1>4, <1>5
<1> QED
  BY <1>6, Zenon DEF EvidenceFollowsRewrite, Rests

(* Only evaluations recorded after the latest rewrite decide the next      *)
(* rewrite: when one turn after another governs a skill that has a         *)
(* version, nobody clicks, no typed result demands anything, serve does    *)
(* not die and its writes succeed.  Such a skill is confirmed before it is *)
(* rewritten again, and not disabled after a rewrite, as the rollback that *)
(* is proposed instead does not pass the review                            *)
(* (_post_rewrite_evaluations, review_proposal).                           *)
THEOREM SoleTurnRestsOnFreshEvidence ==
    ASSUME NEW t, SoleTurn(t), Versioned = TRUE, TypedDecisions = {"keep"}, HistoryLimit >= 2,
           Crashes = FALSE, Failures = FALSE
    PROVE  Spec => []EvidenceFollowsRewrite
<1> DEFINE I == SoleDecides(t) /\ SoleUses(t) /\ SoleClock(t) /\ SoleEvidence(t) /\ SoleVersions(t)
                /\ EvidenceFollowsRewrite
<1> HistoryLimit > 0
  BY BoundsAssumption
<1>1. Spec => []UndisturbedInv
  BY Undisturbed DEF SoleTurn
<1>2. Init => I
  <2>1. Init => SoleUses(t) /\ SoleClock(t) /\ SoleEvidence(t) /\ EvidenceFollowsRewrite
    BY SoleActors DEF Init, SoleUses, Agreement, SoleClock, SoleEvidence, EvidenceFollowsRewrite, Writing, Scored,
       RunsTheRewrite, LastIsTheRewrite
  <2>2. Init => SoleVersions(t)
    BY SoleActors DEF Init, SoleVersions, LastRewrites, RewriteBefore, Writing
  <2> QED
    BY <2>1, <2>2, InitSole
<1>3. UndisturbedInv /\ UndisturbedInv' /\ I /\ [Next]_vars => I'
  <2> SUFFICES ASSUME UndisturbedInv, UndisturbedInv', I, [Next]_vars PROVE I'
    OBVIOUS
  <2>1. IInv /\ IInv' /\ SInv
    BY DEF UndisturbedInv
  <2> QED
    BY <2>1, NextSole, NextUses, NextClock, NextEvidence, NextVersions, NextRests
<1> HIDE DEF I
<1>4. I => EvidenceFollowsRewrite
  BY DEF I
<1> QED
  BY <1>1, <1>2, <1>3, <1>4, PTL DEF Spec

(* The evidence does not decide the window that is open. *)
Resolved == status = "observing" => ~Passing /\ ~Failing

(* A turn leaves no window open that a score decides; when it has a new    *)
(* score, its packet is built.                                             *)
SoleResolves(t) ==
    /\ pc[t] \in {"idle", "context", "answering", "recording", "judging", "reload"} => Resolved
    /\ pc[t] = "reconcile" =>
          Resolved \/ (execs # <<>> /\ Len(execs) \in Scored(execs))

(* The newest execution is among those that a packet reads. *)
LEMMA NewestIsRead ==
    ASSUME TypeOK, EvidenceLimit > 0, execs # <<>>, Len(execs) \in Scored(execs)
    PROVE  Scored(RecentExecs) # {}
<1>1. PICK n \in Nat : n = Len(execs) /\ n \in 1..n /\ execs \in Seq(Execution)
  <2>1. Len(execs) \in Nat /\ Len(execs) \in 1..Len(execs) /\ execs \in Seq(Execution)
    BY DEF TypeOK, Scored
  <2> QED
    BY <2>1, Zenon
<1>2. PICK lo \in 1..n : lo = IF n > EvidenceLimit THEN n - EvidenceLimit + 1 ELSE 1
  <2>1. n > EvidenceLimit => n - EvidenceLimit + 1 \in 1..n
    BY <1>1, BoundsAssumption
  <2> QED
    BY <1>1, <2>1
<1>3. RecentExecs = SubSeq(execs, lo, n)
  BY <1>1, <1>2 DEF RecentExecs
<1>4. Len(SubSeq(execs, lo, n)) = n - lo + 1 /\ SubSeq(execs, lo, n)[n - lo + 1] = execs[n]
      /\ DOMAIN SubSeq(execs, lo, n) = 1..(n - lo + 1)
  <2>1. \A i \in lo..n : i \in 1..Len(execs)
    BY <1>1, <1>2
  <2>2. n - lo + 1 \in 1..(n - lo + 1) /\ lo \in 1..n /\ n \in 1..n
    BY <1>2
  <2> QED
    BY <1>1, <2>1, <2>2
<1>5. n - lo + 1 \in 1..(n - lo + 1)
  BY <1>2
<1>6. execs[n].at # 0
  BY <1>1 DEF Scored
<1>7. n - lo + 1 \in Scored(SubSeq(execs, lo, n))
  BY <1>4, <1>5, <1>6 DEF Scored
<1> QED
  BY <1>3, <1>7

LEMMA DecideResolves ==
    ASSUME NEW t, SoleTurn(t), Versioned = FALSE, HistoryLimit > 0, UndisturbedInv, SoleDecides(t),
           SoleEvidence(t), Decide(t)
    PROVE  SoleResolves(t)'
<1> t \in Actors /\ t # Web /\ Actors = {t, Web}
  BY SoleActors
<1>1. pc[t] = "decide" /\ UNCHANGED <<events, status, execs>>
  BY DEF Decide, db
<1>2. PICK d \in Reviewed(packet[t]) :
        IF d = "keep" THEN Release(t) ELSE Goto(t, "write_file") \/ Goto(t, "write_state")
  BY DEF Decide
<1>3. CASE d # "keep"
  <2>1. pc'[t] \in {"write_file", "write_state"}
    BY <1>2, <1>3 DEF UndisturbedInv, IInv, TypeOK, Goto
  <2> QED
    BY <2>1 DEF SoleResolves
<1>4. CASE d = "keep"
  <2>1. pc'[t] = "idle"
    BY <1>2, <1>4 DEF Release, Goto, UndisturbedInv, IInv, TypeOK
  <2>2. /\ packet[t] \in Packets /\ packet[t].history = Len(events)
        /\ packet[t].policy = Calm
        /\ packet[t].window = "hold" => ~Passing /\ ~Failing
    BY <1>1 DEF UndisturbedInv, IInv, TypeOK, SoleDecides, Deciding, SoleEvidence
  <2>3. Resolved
    <3> SUFFICES ASSUME status = "observing" PROVE ~Passing /\ ~Failing
      BY DEF Resolved
    <3>1. LastIsTheRewrite
      BY <1>1 DEF UndisturbedInv, ObservesTheLast, SoleDecides
    <3>2. LatestRewrite(Len(events)) = Len(events) /\ Len(events) \in Nat \ {0}
      BY <3>1, TheLastIsFound DEF UndisturbedInv, IInv
    <3>3. Observed(packet[t])
      BY <2>2, <3>2 DEF Observed, ResolvedStatus
    <3>4. RollbackApproved(packet[t])
      <4>1. Len(events) \in RecordedRewrites(Len(events))
        <5>1. PICK n \in Nat \ {0} : n = Len(events)
          BY <3>2
        <5>2. n \in History(n) /\ events[n].action = "rewrite"
          BY <3>1, <5>1, BoundsAssumption DEF History, LastIsTheRewrite
        <5>3. \A j \in (n + 1)..n : FALSE
          OBVIOUS
        <5> QED
          BY <5>1, <5>2, <5>3 DEF RecordedRewrites
      <4> QED
        BY <2>2, <3>2, <4>1 DEF RollbackApproved
    <3>5. packet[t].window \in {"hold", "confirm", "rollback"}
      BY <2>2 DEF Packets
    <3>6. packet[t].window = "hold"
      <4>1. packet[t].window = "rollback" => Proposal(packet[t]) = "rollback"
        BY <2>2, <3>3 DEF Proposal, Calm
      <4>2. packet[t].window = "confirm" => Proposal(packet[t]) = "confirm"
        BY <2>2, <3>3 DEF Proposal, Calm
      <4> QED
        BY <1>4, <3>4, <3>5, <4>1, <4>2 DEF Reviewed
    <3> QED
      BY <2>2, <3>6
  <2>4. Resolved' <=> Resolved
    BY <1>1, FreshKept DEF Resolved
  <2> QED
    BY <2>1, <2>3, <2>4 DEF SoleResolves
<1> QED
  BY <1>3, <1>4

LEMMA ReconcileResolves ==
    ASSUME NEW t, SoleTurn(t), EvidenceLimit > 0, IInv, SoleResolves(t), Reconcile(t)
    PROVE  SoleResolves(t)'
<1> t \in Actors
  BY SoleActors
<1>1. UNCHANGED <<events, execs, status>> /\ pc[t] = "reconcile"
  BY DEF Reconcile, db
<1>2. Resolved' <=> Resolved
  BY <1>1, FreshKept DEF Resolved
<1>3. PICK typed \in TypedDecisions :
        LET q == BuildPacket("serve", held[t].ver, typed, Calm, FALSE)
        IN  IF Governed(ResolvedStatus) /\ HasEvidence(q)
            THEN Goto(t, IF RewriteIsDue(q) THEN "rewriting" ELSE "decide")
            ELSE Release(t)
  BY DEF Reconcile
<1> DEFINE q == BuildPacket("serve", held[t].ver, typed, Calm, FALSE)
<1> HIDE DEF q
<1>4. CASE Governed(ResolvedStatus) /\ HasEvidence(q)
  <2>1. Goto(t, "rewriting") \/ Goto(t, "decide")
    BY <1>3, <1>4 DEF q
  <2>2. pc'[t] \in {"rewriting", "decide"}
    BY <2>1 DEF Goto, IInv, TypeOK
  <2> QED
    BY <2>2 DEF SoleResolves
<1>5. CASE ~(Governed(ResolvedStatus) /\ HasEvidence(q))
  <2>1. pc'[t] = "idle"
    BY <1>3, <1>5 DEF q, Release, Goto, IInv, TypeOK
  <2>2. status = "observing" => ~HasEvidence(q)
    BY <1>5 DEF Governed, ResolvedStatus
  <2>3. status = "observing" => Scored(RecentExecs) = {}
    BY <2>2 DEF HasEvidence
  <2>4. Resolved
    BY <1>1, <2>3, NewestIsRead DEF SoleResolves, Resolved, IInv
  <2> QED
    BY <1>2, <2>1, <2>4 DEF SoleResolves
<1> QED
  BY <1>4, <1>5

(* A window that opens has no evidence yet.                                *)
LEMMA WriteEventResolves ==
    ASSUME NEW t, SoleTurn(t), HistoryLimit > 0, UndisturbedInv, UndisturbedInv', SoleDecides(t),
           SoleClock(t), WriteEvent(t)
    PROVE  SoleResolves(t)'
<1> t \in Actors /\ IInv /\ IInv'
  BY SoleActors DEF UndisturbedInv
<1>1. pc'[t] = "reload" /\ pc'[Web] = "idle" /\ UNCHANGED execs
  BY SoleActors DEF WriteEvent, Goto, IInv, TypeOK, SoleTurn, SoleDecides
<1>2. SUFFICES ASSUME status' = "observing" PROVE ~Passing' /\ ~Failing'
  BY <1>1 DEF SoleResolves, Resolved
<1>3. LastIsTheRewrite'
  <2>1. \A p \in Actors : pc'[p] \notin {"write_file", "write_state", "write_event"}
    BY <1>1, SoleActors
  <2> QED
    BY <1>2, <2>1 DEF UndisturbedInv, ObservesTheLast
<1>4. LatestRewrite(Len(events))' = Len(events') /\ Len(events') # 0
  <2>1. HistoryLimit > 0 /\ TypeOK /\ LastIsTheRewrite
          => LatestRewrite(Len(events)) = Len(events) /\ Len(events) \in Nat \ {0}
    BY TheLastIsFound
  <2>2. (TypeOK /\ LastIsTheRewrite
          => LatestRewrite(Len(events)) = Len(events) /\ Len(events) \in Nat \ {0})'
    BY TheLastIsFound, PTL
  <2> QED
    BY <1>3, <2>2 DEF IInv
<1>5. Cutoff(Len(events))' = Now
  BY <1>4, EventRecorded DEF Cutoff
<1>6. \A i \in Scored(execs)' : ~(execs'[i].at > Now)
  <2>1. \A i \in Scored(execs) : execs[i].at \in Nat /\ execs[i].at < Now
    <3>1. \A i \in DOMAIN execs : execs[i] \in Execution
      BY DEF IInv, TypeOK
    <3> QED
      BY <3>1 DEF SoleClock, Scored, Execution
  <2>2. Now \in Nat
    BY NowTyped DEF IInv
  <2>3. Scored(execs)' = Scored(execs)
    BY <1>1
  <2> QED
    BY <1>1, <2>1, <2>2, <2>3
<1>7. Fresh' = {}
  BY <1>5, <1>6 DEF Fresh, JudgedSince, Judged
<1>8. Cardinality(Fresh') = 0 /\ MinRewrite \in Nat \ {0}
  BY <1>7, FS_EmptySet, ContractAssumption
<1> QED
  BY <1>8 DEF Passing, Failing

LEMMA NextResolves ==
    ASSUME NEW t, SoleTurn(t), Versioned = FALSE, HistoryLimit > 0, EvidenceLimit > 0, Crashes = FALSE,
           Failures = FALSE, UndisturbedInv, UndisturbedInv', SoleDecides(t), SoleClock(t), SoleEvidence(t),
           SoleResolves(t), [Next]_vars
    PROVE  SoleResolves(t)'
<1> t \in Actors /\ IInv /\ pc[Web] = "idle"
  BY SoleActors DEF UndisturbedInv, SoleDecides
<1>1. ASSUME UNCHANGED <<events, execs>>, status' = "observing" => status = "observing"
      PROVE  Resolved => Resolved'
  BY <1>1, FreshKept DEF Resolved
<1>2. CASE UNCHANGED vars \/ Start
  <2>1. /\ UNCHANGED <<events, execs, pc>>
        /\ status' = "observing" => status = "observing"
    BY <1>2 DEF vars, db, Start, ResolvedStatus
  <2> QED
    BY <1>1, <2>1 DEF SoleResolves
<1>3. CASE Prune(t) \/ Match(t) \/ NoMatch(t) \/ AnswerFails(t) \/ Answer(t) \/ JudgeFails(t) \/ Reload(t)
  <2>1. /\ UNCHANGED <<events, execs, status>>
        /\ pc[t] \in {"idle", "context", "answering", "judging", "reload"}
        /\ pc'[t] \in {"context", "answering", "recording", "reconcile", "idle"}
    BY <1>3 DEF db, Prune, Match, NoMatch, AnswerFails, Answer, JudgeFails, Reload, Release, Goto, IInv, TypeOK
  <2>2. Resolved'
    BY <1>1, <2>1 DEF SoleResolves
  <2> QED
    BY <2>1, <2>2 DEF SoleResolves
<1>4. CASE Record(t)
  <2>1. /\ UNCHANGED events /\ status' = status /\ pc[t] = "recording" /\ pc'[t] = "judging"
    BY <1>4 DEF Record, Goto, IInv, TypeOK, UndisturbedInv, SInv, NoLostUpdate
  <2>2. Scored(execs)' = Scored(execs) /\ \A i \in Scored(execs) : execs'[i] = execs[i]
    <3> DEFINE e == [ver |-> held[t].ver, ran |-> held[t].body, digest |-> file,
                     sig |-> {}, score |-> 0, at |-> 0]
    <3>1. execs' = Append(execs, e) /\ e.at = 0 /\ execs \in Seq(Execution)
      BY <1>4 DEF IInv, TypeOK, Record
    <3> HIDE DEF e
    <3> QED
      BY <3>1 DEF Scored
  <2>3. Resolved'
    BY <2>1, <2>2, FreshStays DEF SoleResolves, Resolved
  <2> QED
    BY <2>1, <2>3 DEF SoleResolves
<1>5. CASE \E score \in Scores : Judge(t, score)
  <2>1. PICK score \in Scores : Judge(t, score)
    BY <1>5
  <2>2. pc[t] = "judging" /\ pc'[t] = "reconcile"
    BY <2>1 DEF Judge, Goto, IInv, TypeOK
  <2>3. /\ Scored(execs)' = Scored(execs) \cup {Len(execs)}
        /\ Len(execs') = Len(execs)
        /\ execs # <<>>
    BY <2>1, <2>2, JudgeClock DEF SoleClock
  <2>4. execs' # <<>>
    <3>1. Len(execs) # 0
      BY <2>3 DEF IInv, TypeOK
    <3> QED
      BY <2>3, <3>1
  <2> QED
    BY <2>2, <2>3, <2>4 DEF SoleResolves
<1>6. CASE Rewriter(t) \/ WriteFile(t) \/ WriteState(t)
  <2>1. pc'[t] \in {"decide", "write_state", "write_event"}
    BY <1>6 DEF Rewriter, WriteFile, WriteState, Goto, IInv, TypeOK
  <2> QED
    BY <2>1 DEF SoleResolves
<1> QED
  BY <1>2, <1>3, <1>4, <1>5, <1>6, SoleSteps, DecideResolves, ReconcileResolves, WriteEventResolves
     DEF Crash, WriteFails

(* When the last turn is over, no observation window is left open on       *)
(* evidence that decides it: when one turn after another governs a skill   *)
(* without a version, whose rollback the review lets through, nobody       *)
(* clicks, serve does not die and its writes succeed, and a packet reads   *)
(* at least one event and one execution (observation_outcome,              *)
(* AgentCore._maybe_reconcile_skill_feedback).                             *)
THEOREM SoleTurnResolvesWindows ==
    ASSUME NEW t, SoleTurn(t), Versioned = FALSE, HistoryLimit > 0, EvidenceLimit > 0,
           Crashes = FALSE, Failures = FALSE
    PROVE  Spec => []WindowsAreResolved
<1> DEFINE I == SoleDecides(t) /\ SoleUses(t) /\ SoleClock(t) /\ SoleEvidence(t) /\ SoleResolves(t)
<1>1. Spec => []UndisturbedInv
  BY Undisturbed DEF SoleTurn
<1>2. Init => I
  <2>1. Init => SoleUses(t) /\ SoleClock(t) /\ SoleEvidence(t) /\ SoleResolves(t)
    BY SoleActors DEF Init, SoleUses, Agreement, SoleClock, SoleEvidence, SoleResolves, Writing, Scored,
       RunsTheRewrite, LastIsTheRewrite, Resolved
  <2> QED
    BY <2>1, InitSole
<1>3. UndisturbedInv /\ UndisturbedInv' /\ I /\ [Next]_vars => I'
  <2> SUFFICES ASSUME UndisturbedInv, UndisturbedInv', I, [Next]_vars PROVE I'
    OBVIOUS
  <2>1. IInv /\ IInv' /\ SInv
    BY DEF UndisturbedInv
  <2> QED
    BY <2>1, NextSole, NextUses, NextClock, NextEvidence, NextResolves
<1>4. I => WindowsAreResolved
  <2>1. AllIdle => pc[t] = "idle"
    BY SoleActors DEF AllIdle
  <2>2. WindowsAreResolved <=> (AllIdle => Resolved)
    BY Zenon DEF WindowsAreResolved, Resolved, Passing, Failing, Fresh
  <2> QED
    BY <2>1, <2>2 DEF SoleResolves
<1> HIDE DEF I
<1> QED
  BY <1>1, <1>2, <1>3, <1>4, PTL DEF Spec
=============================================================================

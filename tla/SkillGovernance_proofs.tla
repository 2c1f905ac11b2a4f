----------------------- MODULE SkillGovernance_proofs -----------------------
(***************************************************************************)
(* Safety of SkillGovernance for every set of turns and runs, every        *)
(* execution contract and every bound.                                     *)
(***************************************************************************)
EXTENDS SkillGovernance, SequenceTheorems, FiniteSetTheorems, TLAPS

(* A packet never claims more history than is recorded: what an actor      *)
(* looks up in it, it finds.                                               *)
PacketsAreOfThePast == \A p \in Actors : packet[p].history <= Len(events)

(* A rollback about to be applied restores what some rewrite replaced.     *)
PlansAreFromHistory ==
    \A p \in Actors : plan[p].decision = "rollback" =>
        \E r \in DOMAIN events :
            events[r].action = "rewrite" /\ events[r].before = plan[p].after

(* Where an actor applies its plan. *)
Applying == {"write_file", "write_state", "write_event", "reload"}

(* Only a decision that changes something is applied.                      *)
OnlyChangesAreApplied ==
    \A p \in Actors : pc[p] \in Applying => plan[p].decision # "keep"

(* The inductive invariant. *)
IInv ==
    /\ TypeOK
    /\ PacketsAreOfThePast
    /\ OnlyChangesAreApplied
    /\ PlansAreFromHistory
    /\ RollbackIsFromHistory

-----------------------------------------------------------------------------
(* Operators *)

(* The clock is a number: finitely many executions are judged.             *)
LEMMA NowTyped ==
    ASSUME TypeOK
    PROVE  Now \in Nat
<1>1. Scored(execs) \subseteq 1..Len(execs)
  BY DEF Scored, TypeOK
<1>2. IsFiniteSet(1..Len(execs))
  BY FS_Interval DEF TypeOK
<1>3. Cardinality(Scored(execs)) \in Nat
  BY <1>1, <1>2, FS_Subset, FS_CardinalityType
<1> QED
  BY <1>3 DEF Now, TypeOK

(* A looked-up rewrite is one of the events looked at.                     *)
LEMMA LatestRewriteFound ==
    ASSUME NEW n \in Nat, LatestRewrite(n) # 0
    PROVE  /\ LatestRewrite(n) \in 1..n
           /\ events[LatestRewrite(n)].action = "rewrite"
<1>1. \E i \in History(n) : IsLatestRewrite(i, n)
  BY DEF LatestRewrite
<1>2. LatestRewrite(n) \in History(n) /\ IsLatestRewrite(LatestRewrite(n), n)
  BY <1>1 DEF LatestRewrite
<1> QED
  BY <1>2 DEF History, IsLatestRewrite

(* Whatever the evidence, the contract's verdict is one of three.          *)
LEMMA ExecutionDecisionTyped ==
    ASSUME NEW typed \in TypedDecisions
    PROVE  ExecutionDecision(typed) \in {"keep", "rewrite", "disable"}
  BY InputsAssumption, Zenon DEF ExecutionDecision

LEMMA ObservationVerdictTyped ==
    ObservationVerdict \in {"hold", "confirm", "rollback"}
  BY Zenon DEF ObservationVerdict, WindowVerdict

(* What the review lets through is a decision; a rollback has a rewrite to *)
(* undo.                                                                   *)
LEMMA ReviewedTyped ==
    ASSUME NEW q \in Packets, NEW d \in Reviewed(q)
    PROVE  /\ d \in Decisions
           /\ d = "rollback" => LatestRewrite(q.history) # 0
<1>1. /\ Proposal(q) \in Decisions
      /\ Proposal(q) = "rollback" => LatestRewrite(q.history) # 0
  <2>1. q.window \in {"hold", "confirm", "rollback"}
    BY DEF Packets
  <2> QED
    BY <2>1 DEF Proposal, Observed, Decisions
<1> QED
  BY <1>1 DEF Reviewed, Decisions

(* What a decision leaves is content, and a rollback leaves what the       *)
(* latest rewrite of the packet's history replaced.                        *)
LEMMA OutcomeTyped ==
    ASSUME TypeOK, NEW q \in Packets, q.history <= Len(events), NEW d \in Reviewed(q)
    PROVE  /\ Outcome(q, d) \in Content
           /\ d = "rollback" =>
                \E r \in DOMAIN events :
                    events[r].action = "rewrite" /\ events[r].before = Outcome(q, d)
<1>1. q.history \in Nat /\ q.current \in Content /\ q.ver \in Nat
  BY DEF Packets
<1>2. CASE d = "rollback"
  <2>1. LatestRewrite(q.history) # 0
    BY <1>2, ReviewedTyped
  <2>2. /\ LatestRewrite(q.history) \in DOMAIN events
        /\ events[LatestRewrite(q.history)].action = "rewrite"
    BY <1>1, <2>1, LatestRewriteFound DEF TypeOK
  <2>3. Outcome(q, d) = events[LatestRewrite(q.history)].before
    BY <1>2 DEF Outcome
  <2>4. events[LatestRewrite(q.history)] \in LifecycleEvent
    BY <2>2 DEF TypeOK
  <2>5. Outcome(q, d) \in Content
    BY <2>3, <2>4 DEF LifecycleEvent
  <2>6. \E r \in DOMAIN events :
           events[r].action = "rewrite" /\ events[r].before = Outcome(q, d)
    BY <2>2, <2>3
  <2> QED
    BY <2>5, <2>6
<1>3. CASE d # "rollback"
  <2>1. NextVersion(q) \in Nat
    BY <1>1 DEF NextVersion, Content
  <2>2. CASE d = "rewrite"
    BY <2>1, <2>2 DEF Outcome, Content, TypeOK
  <2>3. CASE d = "refresh"
    BY <1>1, <2>1, <2>3 DEF Outcome, Content
  <2>4. CASE d \notin {"rewrite", "refresh", "rollback"}
    <3>1. Outcome(q, d) = q.current
      BY <2>4 DEF Outcome
    <3> QED
      BY <1>1, <2>4, <3>1
  <2> QED
    BY <1>3, <2>2, <2>3, <2>4
<1> QED
  BY <1>2, <1>3

(* A packet that is built now has the type of one, and the present as its  *)
(* history.                                                                *)
LEMMA BuildPacketTyped ==
    ASSUME file \in Content, Len(events) \in Nat,
           NEW surface \in {"serve", "run", "eval"}, NEW ver \in Nat, NEW typed \in TypedDecisions,
           NEW policy \in Flags, NEW exemplars \in BOOLEAN
    PROVE  /\ BuildPacket(surface, ver, typed, policy, exemplars) \in Packets
           /\ BuildPacket(surface, ver, typed, policy, exemplars).history = Len(events)
  BY ExecutionDecisionTyped, ObservationVerdictTyped DEF BuildPacket, Packets

(* Letting go of an actor leaves the others alone.                         *)
LEMMA ReleaseKeeps ==
    ASSUME IInv, NEW p \in Actors, Release(p), events' = events
    PROVE  /\ pc' \in [Actors -> Awaiting \cup Holding \cup {"loaded", "seen"}]
           /\ held' \in [Actors -> Content]
           /\ seen' \in [Actors -> Statuses]
           /\ exec' \in [Actors -> Nat]
           /\ packet' \in [Actors -> Packets]
           /\ plan' \in [Actors -> Plan]
           /\ PacketsAreOfThePast'
           /\ PlansAreFromHistory'
           /\ OnlyChangesAreApplied'
<1>1. NoPacket \in Packets
  BY DEF NoPacket, Packets, NoContent, Content, Calm, Flags
<1>2. NoPlan \in Plan /\ NoContent \in Content
  BY DEF NoPlan, Plan, Decisions, NoContent, Content
<1>3. /\ packet' \in [Actors -> Packets]
      /\ plan' \in [Actors -> Plan]
      /\ held' \in [Actors -> Content]
  BY <1>1, <1>2 DEF Release, IInv, TypeOK
<1>4. /\ pc' \in [Actors -> Awaiting \cup Holding \cup {"loaded", "seen"}]
      /\ seen' \in [Actors -> Statuses]
      /\ exec' \in [Actors -> Nat]
  BY DEF Release, Goto, IInv, TypeOK, Awaiting, Statuses
<1>5. PacketsAreOfThePast'
  BY DEF Release, IInv, TypeOK, PacketsAreOfThePast, NoPacket
<1>6. PlansAreFromHistory'
  BY DEF Release, IInv, TypeOK, PlansAreFromHistory, NoPlan
<1>7. OnlyChangesAreApplied'
  BY DEF Release, Goto, IInv, TypeOK, OnlyChangesAreApplied, Applying
<1> QED
  BY <1>3, <1>4, <1>5, <1>6, <1>7

(* Forgetting a reference to the Skill objects leaves sets of references.  *)
LEMMA DroppedTyped ==
    ASSUME bare \in SUBSET SUBSET (Turns \cup {Live}), NEW x
    PROVE  Dropped(x) \in SUBSET SUBSET (Turns \cup {Live})
<1> SUFFICES ASSUME NEW b \in Dropped(x)
             PROVE  b \subseteq Turns \cup {Live}
  OBVIOUS
<1>1. PICK o \in bare : b = o \ {x}
  BY Zenon DEF Dropped
<1> QED
  BY <1>1

LEMMA ParsedTyped == Parsed \in SUBSET SUBSET (Turns \cup {Live})
  BY DEF Parsed

(* Going somewhere else than to apply a plan keeps the plans in order.     *)
LEMMA GotoKeeps ==
    ASSUME IInv, NEW p \in Actors, NEW label, label \notin Applying, Goto(p, label),
           UNCHANGED plan
    PROVE  OnlyChangesAreApplied'
  BY DEF IInv, TypeOK, Goto, OnlyChangesAreApplied

-----------------------------------------------------------------------------
(* The inductive invariant *)

LEMMA InitIInv == Init => IInv
<1> SUFFICES ASSUME Init PROVE IInv
  OBVIOUS
<1>1. NoPacket \in Packets
  BY DEF NoPacket, Packets, NoContent, Content, Calm, Flags
<1>2. NoPlan \in Plan /\ NoContent \in Content /\ Installed \in Content
  BY DEF NoPlan, Plan, Decisions, NoContent, Content, Installed
<1>3. TypeOK
  <2>1. /\ events \in Seq(LifecycleEvent)
        /\ execs \in Seq(Execution)
        /\ windows \in Seq(Window)
    BY DEF Init
  <2>2. registry \in [in : BOOLEAN, skill : Content, status : Statuses]
    BY <1>2 DEF Init, Unregistered, Statuses
  <2>3. /\ pc \in [Actors -> Awaiting \cup Holding \cup {"loaded", "seen"}]
        /\ held \in [Actors -> Content]
        /\ seen \in [Actors -> Statuses]
        /\ exec \in [Actors -> Nat]
        /\ packet \in [Actors -> Packets]
        /\ plan \in [Actors -> Plan]
    BY <1>1, <1>2 DEF Init, Awaiting, Statuses
  <2> QED
    BY <1>2, <2>1, <2>2, <2>3 DEF Init, TypeOK
<1>4. PacketsAreOfThePast
  BY DEF Init, PacketsAreOfThePast, NoPacket
<1>5. PlansAreFromHistory
  BY DEF Init, PlansAreFromHistory, NoPlan
<1>6. RollbackIsFromHistory
  BY DEF Init, RollbackIsFromHistory
<1>7. OnlyChangesAreApplied
  BY DEF Init, OnlyChangesAreApplied, Applying
<1> QED
  BY <1>3, <1>4, <1>5, <1>6, <1>7 DEF IInv

(* Actions that record no event and make no packet or plan preserve what   *)
(* the invariant says of them.                                             *)
LEMMA HistoryKept ==
    ASSUME IInv, UNCHANGED <<events, packet, plan>>
    PROVE  PacketsAreOfThePast' /\ PlansAreFromHistory' /\ RollbackIsFromHistory'
  BY DEF IInv, PacketsAreOfThePast, PlansAreFromHistory, RollbackIsFromHistory

LEMMA RollbacksKept ==
    ASSUME IInv, UNCHANGED events
    PROVE  RollbackIsFromHistory'
  BY DEF IInv, RollbackIsFromHistory

LEMMA StartIInv == IInv /\ Start => IInv'
<1> SUFFICES ASSUME IInv, Start PROVE IInv'
  OBVIOUS
<1>1. TypeOK'
  <2>1. bare' \in SUBSET SUBSET (Turns \cup {Live})
    BY ParsedTyped DEF Start
  <2> QED
    BY <2>1 DEF IInv, TypeOK, Start, Unregistered, NoContent, Content, Statuses, ResolvedStatus
<1>2. OnlyChangesAreApplied'
  BY DEF IInv, Start, OnlyChangesAreApplied
<1> QED
  BY <1>1, <1>2, HistoryKept DEF Start, IInv

LEMMA PruneIInv == ASSUME NEW t \in Turns PROVE IInv /\ Prune(t) => IInv'
<1> SUFFICES ASSUME IInv, Prune(t) PROVE IInv'
  OBVIOUS
<1>1. pc' \in [Actors -> Awaiting \cup Holding \cup {"loaded", "seen"}]
  BY DEF IInv, TypeOK, Prune, Goto, Awaiting
<1>2. registry' \in [in : BOOLEAN, skill : Content, status : Statuses]
  <2>1. Unregistered \in [in : BOOLEAN, skill : Content, status : Statuses]
    BY DEF Unregistered, NoContent, Content, Statuses
  <2> QED
    BY <2>1 DEF IInv, TypeOK, Prune
<1>3. bare' \in SUBSET SUBSET (Turns \cup {Live})
  BY DroppedTyped DEF IInv, TypeOK, Prune
<1>4. TypeOK'
  BY <1>1, <1>2, <1>3 DEF IInv, TypeOK, Prune, db
<1>5. OnlyChangesAreApplied'
  BY GotoKeeps DEF Prune, Applying, Actors, Serve
<1> QED
  BY <1>4, <1>5, HistoryKept DEF Prune, db, IInv

LEMMA MatchIInv == ASSUME NEW t \in Turns PROVE IInv /\ Match(t) => IInv'
<1> SUFFICES ASSUME IInv, Match(t) PROVE IInv'
  OBVIOUS
<1>1. /\ held' \in [Actors -> Content]
      /\ pc' \in [Actors -> Awaiting \cup Holding \cup {"loaded", "seen"}]
  BY DEF IInv, TypeOK, Match, Goto, Awaiting
<1>2. bare' \in SUBSET SUBSET (Turns \cup {Live})
  BY DEF IInv, TypeOK, Match
<1>3. TypeOK'
  BY <1>1, <1>2 DEF IInv, TypeOK, Match, db
<1>4. OnlyChangesAreApplied'
  BY GotoKeeps DEF Match, Applying, Actors, Serve
<1> QED
  BY <1>3, <1>4, HistoryKept DEF Match, db, IInv

LEMMA NoMatchIInv == ASSUME NEW t \in Turns PROVE IInv /\ NoMatch(t) => IInv'
<1> SUFFICES ASSUME IInv, NoMatch(t) PROVE IInv'
  OBVIOUS
<1> t \in Actors
  BY DEF Actors, Serve
<1>1. UNCHANGED <<file, nextBody, status, events, execs, windows, up, registry, bare>> /\ Release(t)
  BY DEF NoMatch, db
<1> QED
  BY <1>1, ReleaseKeeps, RollbacksKept DEF IInv, TypeOK

LEMMA AnswerFailsIInv == ASSUME NEW t \in Turns PROVE IInv /\ AnswerFails(t) => IInv'
<1> SUFFICES ASSUME IInv, AnswerFails(t) PROVE IInv'
  OBVIOUS
<1> t \in Actors
  BY DEF Actors, Serve
<1>1. UNCHANGED <<file, nextBody, status, events, execs, windows, up, registry>> /\ Release(t)
  BY DEF AnswerFails, db
<1>2. bare' \in SUBSET SUBSET (Turns \cup {Live})
  BY DroppedTyped DEF IInv, TypeOK, AnswerFails
<1> QED
  BY <1>1, <1>2, ReleaseKeeps, RollbacksKept DEF IInv, TypeOK

LEMMA AnswerIInv == ASSUME NEW t \in Turns PROVE IInv /\ Answer(t) => IInv'
<1> SUFFICES ASSUME IInv, Answer(t) PROVE IInv'
  OBVIOUS
<1> t \in Actors
  BY DEF Actors, Serve
<1>1. /\ seen' \in [Actors -> Statuses]
      /\ pc' \in [Actors -> Awaiting \cup Holding \cup {"loaded", "seen"}]
  BY DEF IInv, TypeOK, Answer, Goto, Holding, ResolvedStatus, Statuses
<1>2. registry' \in [in : BOOLEAN, skill : Content, status : Statuses]
  <2>1. ResolvedStatus \in Statuses /\ held[t] \in Content
    BY DEF IInv, TypeOK, ResolvedStatus, Statuses
  <2>2. \/ registry' = registry
        \/ registry' = [in |-> TRUE, skill |-> held[t], status |-> ResolvedStatus]
    BY DEF Answer
  <2>3. registry \in [in : BOOLEAN, skill : Content, status : Statuses]
    BY DEF IInv, TypeOK
  <2>4. [in |-> TRUE, skill |-> held[t], status |-> ResolvedStatus]
           \in [in : BOOLEAN, skill : Content, status : Statuses]
    BY <2>1
  <2> QED
    BY <2>2, <2>3, <2>4
<1>3. bare' \in SUBSET SUBSET (Turns \cup {Live})
  <2> DEFINE own == {o \in bare : t \in o}
  <2>1. bare' = bare \/ bare' = {o \ {Live} : o \in bare \ own} \ {{}}
    BY DEF Answer
  <2>2. bare \in SUBSET SUBSET (Turns \cup {Live})
    BY DEF IInv, TypeOK
  <2>3. \A o \in bare \ own : o \ {Live} \in SUBSET (Turns \cup {Live})
    BY <2>2
  <2> HIDE DEF own
  <2> QED
    BY <2>1, <2>2, <2>3
<1>4. TypeOK'
  BY <1>1, <1>2, <1>3 DEF IInv, TypeOK, Answer, db
<1>5. OnlyChangesAreApplied'
  BY GotoKeeps DEF Answer, Applying, Actors, Serve
<1> QED
  BY <1>4, <1>5, HistoryKept DEF Answer, db, IInv

LEMMA RecordIInv == ASSUME NEW t \in Turns PROVE IInv /\ Record(t) => IInv'
<1> SUFFICES ASSUME IInv, Record(t) PROVE IInv'
  OBVIOUS
<1> t \in Actors
  BY DEF Actors, Serve
<1>1. execs' \in Seq(Execution)
  <2> DEFINE e == [ver |-> held[t].ver, ran |-> held[t].body, digest |-> file,
                   sig |-> {}, score |-> 0, at |-> 0]
  <2>1. held[t] \in Content /\ file \in Content
    BY DEF IInv, TypeOK
  <2>2. e \in Execution
    BY <2>1 DEF Execution, Content
  <2>3. execs \in Seq(Execution) /\ execs' = Append(execs, e)
    BY DEF IInv, TypeOK, Record
  <2> HIDE DEF e
  <2> QED
    BY <2>2, <2>3
<1>2. /\ exec' \in [Actors -> Nat]
      /\ pc' \in [Actors -> Awaiting \cup Holding \cup {"loaded", "seen"}]
  <2>1. Len(execs') \in Nat
    BY <1>1
  <2> QED
    BY <2>1 DEF IInv, TypeOK, Record, Goto, Awaiting
<1>3. TypeOK'
  BY <1>1, <1>2 DEF IInv, TypeOK, Record
<1>4. OnlyChangesAreApplied'
  BY GotoKeeps DEF Record, Applying, Actors, Serve
<1> QED
  BY <1>3, <1>4, HistoryKept DEF Record, IInv

LEMMA JudgeIInv ==
    ASSUME NEW t \in Turns, NEW score \in Scores
    PROVE  IInv /\ Judge(t, score) => IInv'
<1> SUFFICES ASSUME IInv, Judge(t, score) PROVE IInv'
  OBVIOUS
<1>1. execs' \in Seq(Execution)
  <2>1. execs \in Seq(Execution) /\ score \in 0..100 /\ Now \in Nat
    BY NowTyped, ContractAssumption DEF IInv, TypeOK
  <2>2. CASE exec[t] \in 1..Len(execs)
    <3> DEFINE e == [execs[exec[t]] EXCEPT !.score = score, !.at = Now]
    <3>1. execs[exec[t]] \in Execution
      BY <2>1, <2>2
    <3>2. e \in Execution
      BY <2>1, <3>1 DEF Execution
    <3>3. execs' = [execs EXCEPT ![exec[t]] = e]
      BY <2>1, <2>2 DEF Judge
    <3> HIDE DEF e
    <3> QED
      BY <2>1, <2>2, <3>2, <3>3, ExceptSeq
  <2>3. CASE exec[t] \notin 1..Len(execs)
    <3>1. DOMAIN execs = 1..Len(execs) /\ execs = [i \in 1..Len(execs) |-> execs[i]]
      BY <2>1
    <3>2. execs' = [i \in 1..Len(execs) |-> execs[i]]
      BY <2>3, <3>1 DEF Judge
    <3> QED
      BY <2>1, <3>1, <3>2
  <2> QED
    BY <2>2, <2>3
<1>2. pc' \in [Actors -> Awaiting \cup Holding \cup {"loaded", "seen"}]
  BY DEF IInv, TypeOK, Judge, Goto, Holding
<1>3. TypeOK'
  BY <1>1, <1>2 DEF IInv, TypeOK, Judge
<1>4. OnlyChangesAreApplied'
  BY GotoKeeps DEF Judge, Applying, Actors, Serve
<1> QED
  BY <1>3, <1>4, HistoryKept DEF Judge, IInv

LEMMA JudgeFailsIInv == ASSUME NEW t \in Turns PROVE IInv /\ JudgeFails(t) => IInv'
<1> SUFFICES ASSUME IInv, JudgeFails(t) PROVE IInv'
  OBVIOUS
<1>1. pc' \in [Actors -> Awaiting \cup Holding \cup {"loaded", "seen"}]
  BY DEF IInv, TypeOK, JudgeFails, Goto, Holding
<1>2. TypeOK'
  BY <1>1 DEF IInv, TypeOK, JudgeFails, db
<1>3. OnlyChangesAreApplied'
  BY GotoKeeps DEF JudgeFails, Applying, Actors, Serve
<1> QED
  BY <1>2, <1>3, HistoryKept DEF JudgeFails, db, IInv

LEMMA ReconcileIInv == ASSUME NEW t \in Turns PROVE IInv /\ Reconcile(t) => IInv'
<1> SUFFICES ASSUME IInv, Reconcile(t) PROVE IInv'
  OBVIOUS
<1> t \in Actors
  BY DEF Actors, Serve
<1>1. UNCHANGED <<file, nextBody, status, events, execs, windows, up, registry, bare>>
  BY DEF Reconcile, db
<1>2. PICK typed \in TypedDecisions :
        LET q == BuildPacket("serve", held[t].ver, typed, Calm, FALSE)
        IN  IF Governed(ResolvedStatus) /\ HasEvidence(q)
            THEN /\ packet' = [packet EXCEPT ![t] = q]
                 /\ Goto(t, IF RewriteIsDue(q) THEN "rewriting" ELSE "decide")
                 /\ UNCHANGED <<held, seen, exec, plan>>
            ELSE Release(t)
  BY DEF Reconcile
<1>3. CASE Release(t)
  BY <1>1, <1>3, ReleaseKeeps, RollbacksKept DEF IInv, TypeOK
<1>4. CASE ~Release(t)
  <2> DEFINE q == BuildPacket("serve", held[t].ver, typed, Calm, FALSE)
  <2>1. /\ packet' = [packet EXCEPT ![t] = q]
        /\ Goto(t, IF RewriteIsDue(q) THEN "rewriting" ELSE "decide")
        /\ UNCHANGED <<held, seen, exec, plan>>
    BY <1>2, <1>4
  <2>2. q \in Packets /\ q.history = Len(events)
    <3>1. file \in Content /\ Len(events) \in Nat /\ held[t].ver \in Nat
      BY DEF IInv, TypeOK, Content
    <3>2. Calm \in Flags
      BY DEF Calm, Flags
    <3> QED
      BY <3>1, <3>2, BuildPacketTyped
  <2> HIDE DEF q
  <2>3. pc' \in [Actors -> Awaiting \cup Holding \cup {"loaded", "seen"}]
    BY <2>1 DEF IInv, TypeOK, Goto, Awaiting, Holding
  <2>4. TypeOK'
    BY <1>1, <2>1, <2>2, <2>3 DEF IInv, TypeOK
  <2>5. PacketsAreOfThePast'
    BY <1>1, <2>1, <2>2 DEF IInv, TypeOK, PacketsAreOfThePast
  <2>6. PlansAreFromHistory'
    BY <1>1, <2>1 DEF IInv, PlansAreFromHistory
  <2>7. OnlyChangesAreApplied'
    BY <2>1, GotoKeeps DEF Applying
  <2> QED
    BY <1>1, <2>4, <2>5, <2>6, <2>7, RollbacksKept DEF IInv
<1> QED
  BY <1>3, <1>4

LEMMA RewriterIInv == ASSUME NEW t \in Turns PROVE IInv /\ Rewriter(t) => IInv'
<1> SUFFICES ASSUME IInv, Rewriter(t) PROVE IInv'
  OBVIOUS
<1>1. pc' \in [Actors -> Awaiting \cup Holding \cup {"loaded", "seen"}]
  BY DEF IInv, TypeOK, Rewriter, Goto, Holding
<1>2. TypeOK'
  BY <1>1 DEF IInv, TypeOK, Rewriter, db
<1>3. OnlyChangesAreApplied'
  BY GotoKeeps DEF Rewriter, Applying, Actors, Serve
<1> QED
  BY <1>2, <1>3, HistoryKept DEF Rewriter, db, IInv

(* Storing a packet built in the next state.                               *)
LEMMA PacketStored ==
    ASSUME IInv, NEW p \in Actors, NEW q \in Packets, q.history = Len(events),
           packet' = [packet EXCEPT ![p] = q], UNCHANGED <<events, plan>>
    PROVE  /\ packet' \in [Actors -> Packets]
           /\ PacketsAreOfThePast'
           /\ PlansAreFromHistory'
<1>1. packet' \in [Actors -> Packets]
  BY DEF IInv, TypeOK
<1>2. PacketsAreOfThePast'
  BY DEF IInv, TypeOK, PacketsAreOfThePast
<1>3. PlansAreFromHistory'
  BY DEF IInv, PlansAreFromHistory
<1> QED
  BY <1>1, <1>2, <1>3

LEMMA FeedbackIInv ==
    ASSUME NEW i \in DOMAIN execs, NEW sig \in Clicks
    PROVE  IInv /\ Feedback(i, sig) => IInv'
<1> SUFFICES ASSUME IInv, Feedback(i, sig) PROVE IInv'
  OBVIOUS
<1> Web \in Actors
  BY DEF Actors, Serve
<1>1. UNCHANGED <<file, nextBody, status, events, windows, up, registry, bare, held, seen, exec, plan>>
  BY DEF Feedback
<1>2. PICK typed \in TypedDecisions :
        packet' = [packet EXCEPT ![Web] =
                     BuildPacket("serve", IF registry.in THEN registry.skill.ver ELSE execs[i].ver,
                                 typed, Calm, FALSE)']
  BY DEF Feedback
<1>3. execs' \in Seq(Execution)
  <2> DEFINE e == [execs[i] EXCEPT !.sig = sig]
  <2>1. execs \in Seq(Execution) /\ i \in 1..Len(execs) /\ sig \in SUBSET Signals
    BY InputsAssumption DEF IInv, TypeOK
  <2>2. execs[i] \in Execution
    BY <2>1
  <2>3. e \in Execution
    BY <2>1, <2>2 DEF Execution
  <2>4. execs' = [execs EXCEPT ![i] = e]
    BY <2>1 DEF Feedback
  <2> HIDE DEF e
  <2> QED
    BY <2>1, <2>3, <2>4, ExceptSeq
<1> DEFINE q == BuildPacket("serve", IF registry.in THEN registry.skill.ver ELSE execs[i].ver,
                            typed, Calm, FALSE)
<1>4. q' \in Packets /\ q'.history = Len(events)
  <2>1. ExecutionDecision(typed)' \in {"keep", "rewrite", "disable"}
    BY InputsAssumption, Zenon DEF ExecutionDecision
  <2>2. ObservationVerdict' \in {"hold", "confirm", "rollback"}
    BY Zenon DEF ObservationVerdict, WindowVerdict
  <2>3. (IF registry.in THEN registry.skill.ver ELSE execs[i].ver)' \in Nat
    <3>1. execs'[i] \in Execution
      <4>1. i \in 1..Len(execs')
        BY DEF Feedback, IInv, TypeOK
      <4> QED
        BY <1>3, <4>1
    <3> QED
      BY <1>1, <3>1 DEF IInv, TypeOK, Content, Execution
  <2>4. Calm \in Flags /\ file' \in Content /\ Len(events') \in Nat
    BY <1>1 DEF IInv, TypeOK, Calm, Flags
  <2> QED
    BY <1>1, <2>1, <2>2, <2>3, <2>4 DEF BuildPacket, Packets
<1>5. packet' = [packet EXCEPT ![Web] = q']
  BY <1>2
<1> HIDE DEF q
<1>6. packet' \in [Actors -> Packets] /\ PacketsAreOfThePast' /\ PlansAreFromHistory'
  BY <1>1, <1>4, <1>5, PacketStored
<1>7. pc' \in [Actors -> Awaiting \cup Holding \cup {"loaded", "seen"}]
  BY DEF IInv, TypeOK, Feedback, Goto, Holding
<1>8. TypeOK'
  BY <1>1, <1>3, <1>6, <1>7 DEF IInv, TypeOK
<1>9. OnlyChangesAreApplied'
  BY <1>1, GotoKeeps DEF Feedback, Applying
<1> QED
  BY <1>1, <1>6, <1>8, <1>9, RollbacksKept DEF IInv

LEMMA RunLoadIInv == ASSUME NEW r \in Runs PROVE IInv /\ RunLoad(r) => IInv'
<1> SUFFICES ASSUME IInv, RunLoad(r) PROVE IInv'
  OBVIOUS
<1>1. /\ held' \in [Actors -> Content]
      /\ pc' \in [Actors -> Awaiting \cup Holding \cup {"loaded", "seen"}]
  BY DEF IInv, TypeOK, RunLoad, Goto
<1>2. TypeOK'
  BY <1>1 DEF IInv, TypeOK, RunLoad, db
<1>3. OnlyChangesAreApplied'
  BY GotoKeeps DEF RunLoad, Applying, Actors
<1> QED
  BY <1>2, <1>3, HistoryKept DEF RunLoad, db, IInv

LEMMA RunReadIInv == ASSUME NEW r \in Runs PROVE IInv /\ RunRead(r) => IInv'
<1> SUFFICES ASSUME IInv, RunRead(r) PROVE IInv'
  OBVIOUS
<1>1. /\ seen' \in [Actors -> Statuses]
      /\ pc' \in [Actors -> Awaiting \cup Holding \cup {"loaded", "seen"}]
  BY DEF IInv, TypeOK, RunRead, Goto, ResolvedStatus, Statuses
<1>2. TypeOK'
  BY <1>1 DEF IInv, TypeOK, RunRead, db
<1>3. OnlyChangesAreApplied'
  BY GotoKeeps DEF RunRead, Applying, Actors
<1> QED
  BY <1>2, <1>3, HistoryKept DEF RunRead, db, IInv

LEMMA RunSkipIInv == ASSUME NEW r \in Runs PROVE IInv /\ RunSkip(r) => IInv'
<1> SUFFICES ASSUME IInv, RunSkip(r) PROVE IInv'
  OBVIOUS
<1>1. r \in Actors /\ Release(r)
  BY DEF Actors, RunSkip
<1>2. status' \in Statuses
  BY <1>1 DEF IInv, TypeOK, RunSkip
<1> QED
  BY <1>1, <1>2, ReleaseKeeps, RollbacksKept DEF IInv, TypeOK, RunSkip

LEMMA RunGovernIInv == ASSUME NEW r \in Runs PROVE IInv /\ RunGovern(r) => IInv'
<1> SUFFICES ASSUME IInv, RunGovern(r) PROVE IInv'
  OBVIOUS
<1> r \in Actors
  BY DEF Actors
<1>1. UNCHANGED <<file, nextBody, events, execs, up, registry, bare, held, seen, exec, plan>>
  BY DEF RunGovern
<1>2. \E typed \in TypedDecisions, policy \in Flags, exemplars \in BOOLEAN :
         /\ packet' = [packet EXCEPT ![r] =
                          BuildPacket("run", held[r].ver, typed, policy, exemplars)']
         /\ \/ windows' = windows
            \/ windows' = Append(windows, [at |-> Now, bad |-> policy.rollback \/ policy.severe])
  <2>1. Calm \in Flags
    BY DEF Calm, Flags
  <2> QED
    BY <2>1, InputsAssumption DEF RunGovern
<1>3. PICK typed \in TypedDecisions, policy \in Flags, exemplars \in BOOLEAN :
         /\ packet' = [packet EXCEPT ![r] =
                          BuildPacket("run", held[r].ver, typed, policy, exemplars)']
         /\ \/ windows' = windows
            \/ windows' = Append(windows, [at |-> Now, bad |-> policy.rollback \/ policy.severe])
  BY <1>2
<1>4. windows' \in Seq(Window)
  <2> DEFINE w == [at |-> Now, bad |-> policy.rollback \/ policy.severe]
  <2>1. w \in Window
    BY NowTyped DEF IInv, Window
  <2>2. windows \in Seq(Window)
    BY DEF IInv, TypeOK
  <2>3. windows' = windows \/ windows' = Append(windows, w)
    BY <1>3
  <2> HIDE DEF w
  <2> QED
    BY <2>1, <2>2, <2>3
<1> DEFINE q == BuildPacket("run", held[r].ver, typed, policy, exemplars)
<1>5. q' \in Packets /\ q'.history = Len(events)
  <2>1. ExecutionDecision(typed)' \in {"keep", "rewrite", "disable"}
    BY InputsAssumption, Zenon DEF ExecutionDecision
  <2>2. ObservationVerdict' \in {"hold", "confirm", "rollback"}
    BY Zenon DEF ObservationVerdict, WindowVerdict
  <2>3. held'[r].ver \in Nat /\ file' \in Content /\ Len(events') \in Nat
    BY <1>1 DEF IInv, TypeOK, Content
  <2> QED
    BY <1>1, <2>1, <2>2, <2>3 DEF BuildPacket, Packets
<1>6. packet' = [packet EXCEPT ![r] = q']
  BY <1>3
<1> HIDE DEF q
<1>7. packet' \in [Actors -> Packets] /\ PacketsAreOfThePast' /\ PlansAreFromHistory'
  BY <1>1, <1>5, <1>6, PacketStored
<1>8. pc' \in [Actors -> Awaiting \cup Holding \cup {"loaded", "seen"}]
  BY DEF IInv, TypeOK, RunGovern, Goto, Holding
<1>9. status' \in Statuses
  BY DEF IInv, TypeOK, RunGovern
<1>10. TypeOK'
  BY <1>1, <1>4, <1>7, <1>8, <1>9 DEF IInv, TypeOK
<1>11. OnlyChangesAreApplied'
  BY <1>1, GotoKeeps DEF RunGovern, Applying
<1> QED
  BY <1>1, <1>7, <1>10, <1>11, RollbacksKept DEF IInv

LEMMA DecideIInv == ASSUME NEW p \in Actors PROVE IInv /\ Decide(p) => IInv'
<1> SUFFICES ASSUME IInv, Decide(p) PROVE IInv'
  OBVIOUS
<1>1. UNCHANGED <<file, status, events, execs, windows, up, registry, bare>>
  BY DEF Decide, db
<1>2. PICK d \in Reviewed(packet[p]) :
        IF d = "keep"
        THEN Release(p) /\ UNCHANGED nextBody
        ELSE /\ plan' = [plan EXCEPT ![p] = [decision |-> d, after |-> Outcome(packet[p], d)]]
             /\ nextBody' = IF d = "rewrite" THEN nextBody + 1 ELSE nextBody
             /\ Goto(p, IF d \in {"rewrite", "refresh", "rollback"} THEN "write_file"
                        ELSE "write_state")
             /\ UNCHANGED <<held, seen, exec, packet>>
  BY DEF Decide
<1>3. CASE d = "keep"
  BY <1>1, <1>2, <1>3, ReleaseKeeps, RollbacksKept DEF IInv, TypeOK
<1>4. CASE d # "keep"
  <2> DEFINE new == [decision |-> d, after |-> Outcome(packet[p], d)]
  <2>1. packet[p] \in Packets /\ packet[p].history <= Len(events)
    BY DEF IInv, TypeOK, PacketsAreOfThePast
  <2>2. new \in Plan
    BY <2>1, ReviewedTyped, OutcomeTyped DEF IInv, Plan
  <2>3. new.decision = "rollback" =>
          \E r \in DOMAIN events : events[r].action = "rewrite" /\ events[r].before = new.after
    BY <2>1, OutcomeTyped DEF IInv
  <2>4. plan' = [plan EXCEPT ![p] = new]
    BY <1>2, <1>4
  <2> HIDE DEF new
  <2>5. plan' \in [Actors -> Plan] /\ PlansAreFromHistory'
    BY <1>1, <2>2, <2>3, <2>4 DEF IInv, TypeOK, PlansAreFromHistory
  <2>6. pc' \in [Actors -> Awaiting \cup Holding \cup {"loaded", "seen"}]
    BY <1>2, <1>4 DEF IInv, TypeOK, Goto, Holding
  <2>7. TypeOK'
    BY <1>1, <1>2, <1>4, <2>5, <2>6 DEF IInv, TypeOK
  <2>8. PacketsAreOfThePast'
    BY <1>1, <1>2, <1>4 DEF IInv, PacketsAreOfThePast
  <2>9. OnlyChangesAreApplied'
    <3>1. new.decision # "keep"
      BY <1>4 DEF new
    <3> QED
      BY <1>2, <1>4, <2>4, <3>1 DEF IInv, TypeOK, Goto, OnlyChangesAreApplied
  <2> QED
    BY <1>1, <2>5, <2>7, <2>8, <2>9, RollbacksKept DEF IInv
<1> QED
  BY <1>3, <1>4

LEMMA WriteFileIInv == ASSUME NEW p \in Actors PROVE IInv /\ WriteFile(p) => IInv'
<1> SUFFICES ASSUME IInv, WriteFile(p) PROVE IInv'
  OBVIOUS
<1>1. file' \in Content
  BY DEF IInv, TypeOK, WriteFile, Plan
<1>2. pc' \in [Actors -> Awaiting \cup Holding \cup {"loaded", "seen"}]
  BY DEF IInv, TypeOK, WriteFile, Goto, Holding
<1>3. TypeOK'
  BY <1>1, <1>2 DEF IInv, TypeOK, WriteFile, db
<1>4. OnlyChangesAreApplied'
  BY DEF IInv, TypeOK, WriteFile, Goto, OnlyChangesAreApplied, Applying
<1> QED
  BY <1>3, <1>4, HistoryKept DEF WriteFile, db, IInv

LEMMA WriteStateIInv == ASSUME NEW p \in Actors PROVE IInv /\ WriteState(p) => IInv'
<1> SUFFICES ASSUME IInv, WriteState(p) PROVE IInv'
  OBVIOUS
<1>1. plan[p].decision \in Decisions \ {"keep"}
  BY DEF IInv, TypeOK, WriteState, OnlyChangesAreApplied, Applying, Plan
<1>2. status' \in Statuses
  BY <1>1 DEF WriteState, StatusAfter, Decisions, Statuses
<1>3. pc' \in [Actors -> Awaiting \cup Holding \cup {"loaded", "seen"}]
  BY DEF IInv, TypeOK, WriteState, Goto, Holding
<1>4. TypeOK'
  BY <1>2, <1>3 DEF IInv, TypeOK, WriteState
<1>5. OnlyChangesAreApplied'
  BY DEF IInv, TypeOK, WriteState, Goto, OnlyChangesAreApplied, Applying
<1> QED
  BY <1>4, <1>5, HistoryKept DEF WriteState, IInv

LEMMA WriteEventIInv == ASSUME NEW p \in Actors PROVE IInv /\ WriteEvent(p) => IInv'
<1> SUFFICES ASSUME IInv, WriteEvent(p) PROVE IInv'
  OBVIOUS
<1> DEFINE e == [action |-> plan[p].decision, before |-> packet[p].current,
                 after |-> plan[p].after, at |-> Now]
<1>1. /\ UNCHANGED <<file, nextBody, status, execs, windows, up, registry, bare>>
      /\ events' = Append(events, e)
  BY DEF WriteEvent
<1>2. e \in LifecycleEvent
  BY NowTyped DEF IInv, TypeOK, LifecycleEvent, Plan, Packets
<1>3. events \in Seq(LifecycleEvent) /\ e.action = plan[p].decision /\ e.after = plan[p].after
  BY DEF IInv, TypeOK
<1> HIDE DEF e
<1>4. /\ events' \in Seq(LifecycleEvent)
      /\ Len(events') = Len(events) + 1
      /\ DOMAIN events' = 1..(Len(events) + 1)
      /\ \A c \in 1..Len(events) : events'[c] = events[c]
      /\ events'[Len(events) + 1] = e
  BY <1>1, <1>2, <1>3
<1>5. /\ pc' \in [Actors -> Awaiting \cup Holding \cup {"loaded", "seen"}]
      /\ held' \in [Actors -> Content]
      /\ seen' \in [Actors -> Statuses]
      /\ exec' \in [Actors -> Nat]
      /\ \A a \in Actors : packet'[a] \in {packet[a], NoPacket}
      /\ \A a \in Actors : plan'[a] \in {plan[a], NoPlan}
      /\ packet' \in [Actors -> Packets]
      /\ plan' \in [Actors -> Plan]
      /\ OnlyChangesAreApplied'
  <2>1. CASE p \in Runs
    <3>1. Release(p)
      BY <2>1 DEF WriteEvent
    <3>2. /\ NoPacket \in Packets
          /\ NoPlan \in Plan
          /\ NoContent \in Content
      BY DEF NoPacket, Packets, NoContent, Content, Calm, Flags, NoPlan, Plan, Decisions
    <3>3. /\ held' \in [Actors -> Content]
          /\ packet' \in [Actors -> Packets]
          /\ plan' \in [Actors -> Plan]
          /\ \A a \in Actors : packet'[a] \in {packet[a], NoPacket}
          /\ \A a \in Actors : plan'[a] \in {plan[a], NoPlan}
      BY <3>1, <3>2 DEF Release, IInv, TypeOK
    <3>4. /\ pc' \in [Actors -> Awaiting \cup Holding \cup {"loaded", "seen"}]
          /\ seen' \in [Actors -> Statuses]
          /\ exec' \in [Actors -> Nat]
      BY <3>1 DEF Release, Goto, IInv, TypeOK, Awaiting, Statuses
    <3>5. OnlyChangesAreApplied'
      BY <3>1 DEF Release, Goto, IInv, TypeOK, OnlyChangesAreApplied, Applying
    <3> QED
      BY <3>3, <3>4, <3>5
  <2>2. CASE p \notin Runs
    <3>1. Goto(p, "reload") /\ UNCHANGED <<held, seen, exec, packet, plan>>
      BY <2>2 DEF WriteEvent
    <3>2. pc' \in [Actors -> Awaiting \cup Holding \cup {"loaded", "seen"}]
      BY <3>1 DEF Goto, IInv, TypeOK, Holding
    <3>3. OnlyChangesAreApplied'
      BY <3>1 DEF WriteEvent, Goto, IInv, TypeOK, OnlyChangesAreApplied, Applying
    <3> QED
      BY <3>1, <3>2, <3>3 DEF IInv, TypeOK
  <2> QED
    BY <2>1, <2>2
<1>6. TypeOK'
  BY <1>1, <1>4, <1>5 DEF IInv, TypeOK
<1>7. PacketsAreOfThePast'
  <2> SUFFICES ASSUME NEW a \in Actors
               PROVE  packet'[a].history <= Len(events')
    BY DEF PacketsAreOfThePast
  <2>1. packet[a].history \in Nat /\ packet[a].history <= Len(events) /\ Len(events) \in Nat
    BY <1>3 DEF IInv, TypeOK, PacketsAreOfThePast, Packets
  <2>2. packet'[a] = packet[a] \/ packet'[a].history = 0
    BY <1>5 DEF NoPacket
  <2> QED
    BY <1>4, <2>1, <2>2
<1>8. PlansAreFromHistory'
  <2> SUFFICES ASSUME NEW a \in Actors, plan'[a].decision = "rollback"
               PROVE  \E r \in DOMAIN events' : /\ events'[r].action = "rewrite"
                                                /\ events'[r].before = plan'[a].after
    BY DEF PlansAreFromHistory
  <2>1. plan'[a] = plan[a]
    BY <1>5 DEF NoPlan
  <2>2. PICK r \in DOMAIN events : /\ events[r].action = "rewrite"
                                   /\ events[r].before = plan[a].after
    BY <2>1 DEF IInv, PlansAreFromHistory
  <2>3. r \in 1..Len(events)
    BY <1>3
  <2> QED
    BY <1>3, <1>4, <2>1, <2>2, <2>3
<1>9. RollbackIsFromHistory'
  <2> SUFFICES ASSUME NEW c \in DOMAIN events', events'[c].action = "rollback"
               PROVE  \E r \in 1..(c - 1) : /\ events'[r].action = "rewrite"
                                            /\ events'[r].before = events'[c].after
    BY DEF RollbackIsFromHistory
  <2>1. CASE c \in 1..Len(events)
    <3>1. PICK r \in 1..(c - 1) : /\ events[r].action = "rewrite"
                                  /\ events[r].before = events[c].after
      BY <1>3, <1>4, <2>1 DEF IInv, RollbackIsFromHistory
    <3>2. r \in 1..Len(events)
      BY <1>3, <2>1
    <3> QED
      BY <1>4, <2>1, <3>1, <3>2
  <2>2. CASE c = Len(events) + 1
    <3>1. PICK r \in DOMAIN events : /\ events[r].action = "rewrite"
                                     /\ events[r].before = plan[p].after
      BY <1>3, <1>4, <2>2 DEF IInv, PlansAreFromHistory
    <3>2. r \in 1..Len(events) /\ r \in 1..(c - 1)
      BY <1>3, <2>2
    <3> QED
      BY <1>3, <1>4, <2>2, <3>1, <3>2
  <2> QED
    BY <1>3, <1>4, <2>1, <2>2
<1> QED
  BY <1>5, <1>6, <1>7, <1>8, <1>9 DEF IInv

LEMMA WriteFailsIInv == ASSUME NEW p \in Actors PROVE IInv /\ WriteFails(p) => IInv'
<1> SUFFICES ASSUME IInv, WriteFails(p) PROVE IInv'
  OBVIOUS
<1>1. UNCHANGED <<file, nextBody, status, events, execs, windows, up, registry, bare>> /\ Release(p)
  BY DEF WriteFails, db
<1> QED
  BY <1>1, ReleaseKeeps, RollbacksKept DEF IInv, TypeOK

LEMMA ReloadIInv == ASSUME NEW p \in Actors PROVE IInv /\ Reload(p) => IInv'
<1> SUFFICES ASSUME IInv, Reload(p) PROVE IInv'
  OBVIOUS
<1>1. UNCHANGED <<file, nextBody, status, events, execs, windows, up>> /\ Release(p)
  BY DEF Reload, db
<1>2. registry' \in [in : BOOLEAN, skill : Content, status : Statuses]
  <2>1. plan[p].decision \in Decisions \ {"keep"}
    BY DEF IInv, TypeOK, Reload, OnlyChangesAreApplied, Applying, Plan
  <2>2. StatusAfter[plan[p].decision] \in Statuses /\ file \in Content
    BY <2>1 DEF IInv, TypeOK, StatusAfter, Decisions, Statuses
  <2>3. Unregistered \in [in : BOOLEAN, skill : Content, status : Statuses]
    BY DEF Unregistered, NoContent, Content, Statuses
  <2> QED
    BY <2>2, <2>3 DEF Reload
<1>3. bare' \in SUBSET SUBSET (Turns \cup {Live})
  <2>1. Dropped(Live) \in SUBSET SUBSET (Turns \cup {Live})
    BY DroppedTyped DEF IInv, TypeOK
  <2> QED
    BY <2>1, ParsedTyped DEF Reload
<1> QED
  BY <1>1, <1>2, <1>3, ReleaseKeeps, RollbacksKept DEF IInv, TypeOK

LEMMA CrashIInv == IInv /\ Crash => IInv'
<1> SUFFICES ASSUME IInv, Crash PROVE IInv'
  OBVIOUS
<1>1. /\ NoPacket \in Packets
      /\ NoPlan \in Plan
      /\ NoContent \in Content
      /\ Unregistered \in [in : BOOLEAN, skill : Content, status : Statuses]
  BY DEF NoPacket, Packets, NoContent, Content, Calm, Flags, NoPlan, Plan, Decisions,
         Unregistered, Statuses
<1>2. /\ pc' \in [Actors -> Awaiting \cup Holding \cup {"loaded", "seen"}]
      /\ seen' \in [Actors -> Statuses]
      /\ exec' \in [Actors -> Nat]
  BY DEF IInv, TypeOK, Crash, Awaiting, Statuses
<1>3. /\ held' \in [Actors -> Content]
      /\ packet' \in [Actors -> Packets]
      /\ plan' \in [Actors -> Plan]
  BY <1>1 DEF IInv, TypeOK, Crash
<1>4. TypeOK'
  BY <1>1, <1>2, <1>3 DEF IInv, TypeOK, Crash, db
<1>5. PacketsAreOfThePast'
  BY DEF IInv, TypeOK, Crash, db, PacketsAreOfThePast, NoPacket
<1>6. PlansAreFromHistory'
  BY DEF IInv, Crash, db, PlansAreFromHistory, NoPlan
<1>7. OnlyChangesAreApplied'
  BY DEF IInv, Crash, OnlyChangesAreApplied, Applying
<1> QED
  BY <1>4, <1>5, <1>6, <1>7, RollbacksKept DEF Crash, db, IInv

LEMMA RunCrashIInv == ASSUME NEW r \in Runs PROVE IInv /\ RunCrash(r) => IInv'
<1> SUFFICES ASSUME IInv, RunCrash(r) PROVE IInv'
  OBVIOUS
<1>1. UNCHANGED <<file, nextBody, status, events, execs, windows, up, registry, bare>> /\ Release(r)
  BY DEF RunCrash, db
<1> QED
  BY <1>1, ReleaseKeeps, RollbacksKept DEF IInv, TypeOK, Actors

LEMMA NextIInv == IInv /\ [Next]_vars => IInv'
<1> SUFFICES ASSUME IInv, [Next]_vars PROVE IInv'
  OBVIOUS
<1>1. CASE Start \/ Crash
  BY <1>1, StartIInv, CrashIInv
<1>2. CASE \E t \in Turns : Prune(t) \/ Turn(t)
  <2>1. PICK t \in Turns : Prune(t) \/ Turn(t)
    BY <1>2
  <2>2. t \in Actors
    BY DEF Actors, Serve
  <2>3. CASE Prune(t) \/ Match(t) \/ NoMatch(t) \/ AnswerFails(t)
    BY <2>3, PruneIInv, MatchIInv, NoMatchIInv, AnswerFailsIInv
  <2>4. CASE Answer(t) \/ Record(t) \/ JudgeFails(t) \/ Reconcile(t) \/ Rewriter(t)
    BY <2>4, AnswerIInv, RecordIInv, JudgeFailsIInv, ReconcileIInv, RewriterIInv
  <2>5. CASE \E score \in Scores : Judge(t, score)
    BY <2>5, JudgeIInv
  <2>6. CASE Apply(t) \/ Reload(t)
    BY <2>2, <2>6, DecideIInv, WriteFileIInv, WriteStateIInv, WriteEventIInv, WriteFailsIInv,
       ReloadIInv DEF Apply
  <2> QED
    BY <2>1, <2>3, <2>4, <2>5, <2>6 DEF Turn
<1>3. CASE \E i \in DOMAIN execs, sig \in Clicks : Feedback(i, sig)
  BY <1>3, FeedbackIInv
<1>4. CASE Apply(Web) \/ Reload(Web)
  <2>1. Web \in Actors
    BY DEF Actors, Serve
  <2> QED
    BY <1>4, <2>1, DecideIInv, WriteFileIInv, WriteStateIInv, WriteEventIInv, WriteFailsIInv,
       ReloadIInv DEF Apply
<1>5. CASE \E r \in Runs : RunLoad(r) \/ Run(r) \/ RunCrash(r)
  <2>1. PICK r \in Runs : RunLoad(r) \/ Run(r) \/ RunCrash(r)
    BY <1>5
  <2>2. r \in Actors
    BY DEF Actors
  <2>3. CASE RunLoad(r) \/ RunCrash(r)
    BY <2>3, RunLoadIInv, RunCrashIInv
  <2>4. CASE RunRead(r) \/ RunSkip(r) \/ RunGovern(r)
    BY <2>4, RunReadIInv, RunSkipIInv, RunGovernIInv
  <2>5. CASE Apply(r)
    BY <2>2, <2>5, DecideIInv, WriteFileIInv, WriteStateIInv, WriteEventIInv,
       WriteFailsIInv DEF Apply
  <2> QED
    BY <2>1, <2>3, <2>4, <2>5 DEF Run
<1>6. CASE UNCHANGED vars
  <2>1. TypeOK'
    BY <1>6 DEF IInv, TypeOK, vars, db
  <2>2. OnlyChangesAreApplied'
    BY <1>6 DEF IInv, OnlyChangesAreApplied, vars, db
  <2> QED
    BY <1>6, <2>1, <2>2, HistoryKept DEF IInv, vars, db
<1> QED
  BY <1>1, <1>2, <1>3, <1>4, <1>5, <1>6 DEF Next

LEMMA Inductive == Spec => []IInv
  BY InitIInv, NextIInv, PTL DEF Spec

(* The state of every component stays of its type, whatever the actors do  *)
(* to each other and wherever they crash.                                  *)
THEOREM TypeCorrect == Spec => []TypeOK
<1>1. IInv => TypeOK
  BY DEF IInv
<1> QED
  BY <1>1, Inductive, PTL

(* A rollback restores content that a recorded rewrite replaced, for any   *)
(* number of concurrent turns, feedback requests and runs and any crash    *)
(* (rollback branch of _apply_decision, _latest_rewrite_event).            *)
THEOREM RollbacksRestoreHistory == Spec => []RollbackIsFromHistory
<1>1. IInv => RollbackIsFromHistory
  BY DEF IInv
<1> QED
  BY <1>1, Inductive, PTL

=============================================================================

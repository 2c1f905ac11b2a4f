------------------------- MODULE SkillWriters_proofs -------------------------
(***************************************************************************)
(* Safety of SkillWriters for any number of turns, commands, attempts and  *)
(* experiments.  Whether or not the commands wait for serve to stop, and   *)
(* wherever processes die or writes fail: its types, what a promotion      *)
(* replaces, and the life cycle of every experiment.  With one operator    *)
(* who waits, and without crashes: the history of the skill, its           *)
(* registration, what an open window is about, and that a candidate is     *)
(* live only if it was promoted.                                           *)
(***************************************************************************)
EXTENDS SkillWriters, SkillGovernance_proofs, NaturalsInduction

Labels == Awaiting \cup Holding \cup {"loaded", "seen"} \cup EvalLabels

WritersEvent == [action : Actions, before : Content, after : Content, at : Nat]

Registered == [in : BOOLEAN, skill : Content, status : Statuses]

(* The skill, its rows and the registry.                                   *)
StoreTyped ==
    /\ file \in Content /\ nextBody \in Nat
    /\ status \in Statuses \cup {"none"}
    /\ events \in Seq(WritersEvent)
    /\ execs \in Seq(Execution)
    /\ windows \in Seq(Window)
    /\ up \in BOOLEAN
    /\ registry \in Registered

(* What the actors know; no packet is of the future, and only a decision   *)
(* that changes something is applied.                                      *)
LocalsTyped ==
    /\ pc \in [Actors -> Labels]
    /\ held \in [Actors -> Content]
    /\ seen \in [Actors -> Statuses]
    /\ exec \in [Actors -> Nat]
    /\ packet \in [Actors -> Packets]
    /\ plan \in [Actors -> Plan]
    /\ PacketsAreOfThePast
    /\ OnlyChangesAreApplied

AttemptsTyped ==
    /\ stage \in [Attempts -> AwaitingModel \cup HoldingLoop]
    /\ draft \in [Attempts -> Draft]

(* Where a command works on an experiment, and where it promotes it.       *)
WithExperiment == EvalLabels \ {"proposing", "reject_event"}

Promoting == {"promote_file", "promote_mark", "promote_state", "promote_event"}

(* A command works on an experiment that is there; one that promotes it    *)
(* holds the content the candidate is derived from, and past its mark the  *)
(* promotion is in the experiment's row.                                   *)
CommandAt(c) ==
    /\ c \in Evals
    /\ pc[c] \in WithExperiment => brief[c].exp \in DOMAIN experiments
    /\ pc[c] \in Promoting => held[c] = experiments[brief[c].exp].parent
    /\ pc[c] \in {"promote_state", "promote_event"} =>
          experiments[brief[c].exp].status \in {"promoted", "rolled_back"}

CommandsInv ==
    /\ experiments \in Seq(Experiment)
    /\ brief \in [Evals -> Brief]
    /\ \A c \in Actors : pc[c] \in EvalLabels => CommandAt(c)

(* The inductive invariant.                                                *)
WInv ==
    /\ StoreTyped
    /\ LocalsTyped
    /\ AttemptsTyped
    /\ CommandsInv
    /\ PromotionsReplaceTheirParent

-----------------------------------------------------------------------------
(* Operators *)

LEMMA LeastNat ==
    ASSUME NEW S, S \subseteq Nat, S # {}
    PROVE  \E x \in S : \A y \in S : x <= y
<1> DEFINE Less == {ss \in Nat \X Nat : ss[1] < ss[2]}
<1>1. IsWellFoundedOn(OpToRel(<, Nat), Nat)
  BY NatLessThanWellFounded, Zenon
<1>2. IsWellFoundedOn(Less, Nat)
  BY <1>1 DEF OpToRel
<1> HIDE DEF Less
<1>3. PICK x \in S : \A y \in S : ~(<<y, x>> \in Less)
  BY <1>2, WFMin
<1>4. \A y \in S : ~(y < x)
  BY <1>3 DEF Less
<1> QED
  BY <1>4

LEMMA MaxOfNat ==
    ASSUME NEW S, NEW n \in Nat, S \subseteq 0..n, S # {}
    PROVE  Max(S) \in S /\ \A y \in S : y <= Max(S)
<1> DEFINE Above == {m \in Nat : \A y \in S : y <= m}
<1>1. n \in Above
  OBVIOUS
<1>2. PICK m \in Above : \A o \in Above : m <= o
  BY <1>1, LeastNat
<1>3. m \in S
  <2> SUFFICES ASSUME m \notin S PROVE FALSE
    OBVIOUS
  <2>1. m \in Nat /\ \A y \in S : y <= m
    BY <1>2
  <2>2. \A y \in S : y \in Nat /\ y # m
    OBVIOUS
  <2>3. \A y \in S : y < m
    BY <2>1, <2>2
  <2>4. PICK z \in S : z \in Nat /\ z < m
    BY <2>2, <2>3
  <2>5. m - 1 \in Nat /\ ~(m <= m - 1)
    BY <2>1, <2>4
  <2>6. \A y \in S : y <= m - 1
    BY <2>1, <2>2, <2>3
  <2>7. m - 1 \in Above
    BY <2>5, <2>6
  <2> HIDE DEF Above
  <2> QED
    BY <2>5, <2>7, <1>2
<1>4. \E x \in S : \A y \in S : x >= y
  <2>1. m \in Nat /\ \A y \in S : y \in Nat /\ y <= m
    BY <1>2
  <2> QED
    BY <2>1, <1>3
<1>5. Max(S) \in S /\ \A y \in S : Max(S) >= y
  BY <1>4 DEF Max
<1>6. \A y \in S : y \in Nat
  OBVIOUS
<1> QED
  BY <1>5, <1>6

LEMMA NoLocalsTyped ==
    /\ NoPacket \in Packets /\ NoPacket.history = 0
    /\ NoPlan \in Plan /\ NoPlan.decision = "keep"
    /\ NoContent \in Content
    /\ Unregistered \in Registered
BY DEF NoPacket, Packets, NoContent, Content, Calm, Flags, NoPlan, Plan, Decisions,
       Unregistered, Statuses, Registered

LEMMA LabelsKnown ==
    /\ Awaiting \subseteq Labels /\ Holding \subseteq Labels /\ EvalLabels \subseteq Labels
    /\ Applying \subseteq Holding
    /\ (Awaiting \cup Holding \cup {"loaded", "seen"}) \cap EvalLabels = {}
    /\ "loaded" \in Labels /\ "seen" \in Labels /\ "idle" \in Awaiting
BY DEF Labels, Awaiting, Holding, EvalLabels, Applying

LEMMA ClockTyped ==
    ASSUME StoreTyped
    PROVE  Now \in Nat
<1>1. Scored(execs) \subseteq 1..Len(execs)
  BY DEF Scored, StoreTyped
<1>2. IsFiniteSet(1..Len(execs))
  BY FS_Interval DEF StoreTyped
<1>3. Cardinality(Scored(execs)) \in Nat
  BY <1>1, <1>2, FS_Subset, FS_CardinalityType
<1> QED
  BY <1>3 DEF Now, StoreTyped

(* A packet built in a typed state is typed and of the present.            *)
LEMMA PacketBuilt ==
    ASSUME file \in Content, Len(events) \in Nat,
           NEW surface, surface \in {"serve", "run", "eval"},
           NEW ver, ver \in Nat, NEW typed \in TypedDecisions,
           NEW policy \in Flags, NEW exemplars \in BOOLEAN
    PROVE  /\ BuildPacket(surface, ver, typed, policy, exemplars) \in Packets
           /\ BuildPacket(surface, ver, typed, policy, exemplars).history = Len(events)
BY BuildPacketTyped

(* What a decision leaves is content.                                      *)
LEMMA OutcomeIsContent ==
    ASSUME StoreTyped, NEW q, q \in Packets, q.history <= Len(events), NEW d, d \in Reviewed(q)
    PROVE  Outcome(q, d) \in Content
<1>1. q.history \in Nat /\ q.current \in Content /\ q.ver \in Nat
  BY DEF Packets
<1>2. CASE d = "rollback"
  <2>1. LatestRewrite(q.history) # 0
    BY <1>2, ReviewedTyped
  <2>2. LatestRewrite(q.history) \in DOMAIN events
    BY <1>1, <2>1, LatestRewriteFound DEF StoreTyped
  <2>3. Outcome(q, d) = events[LatestRewrite(q.history)].before
    BY <1>2 DEF Outcome
  <2>4. events[LatestRewrite(q.history)] \in WritersEvent
    BY <2>2 DEF StoreTyped
  <2> QED
    BY <2>3, <2>4 DEF WritersEvent
<1>3. CASE d # "rollback"
  <2>1. NextVersion(q) \in Nat
    BY <1>1 DEF NextVersion, Content
  <2>2. CASE d = "rewrite"
    BY <2>1, <2>2 DEF Outcome, Content, StoreTyped
  <2>3. CASE d = "refresh"
    BY <1>1, <2>1, <2>3 DEF Outcome, Content
  <2>4. CASE d \notin {"rewrite", "refresh", "rollback"}
    <3>1. Outcome(q, d) = q.current
      BY <2>4 DEF Outcome
    <3> QED
      BY <1>1, <3>1
  <2> QED
    BY <1>3, <2>2, <2>3, <2>4
<1> QED
  BY <1>2, <1>3

(* An event is added.                                                      *)
LEMMA EventAdded ==
    ASSUME events \in Seq(WritersEvent), NEW e, e \in WritersEvent, events' = Append(events, e)
    PROVE  /\ events' \in Seq(WritersEvent)
           /\ Len(events) \in Nat /\ Len(events') = Len(events) + 1
           /\ DOMAIN events = 1..Len(events) /\ DOMAIN events' = 1..(Len(events) + 1)
           /\ \A c \in 1..Len(events) : events'[c] = events[c]
           /\ events'[Len(events) + 1] = e
OBVIOUS

(* Letting go of an actor, going on, and storing what it works with.       *)
LEMMA Releases ==
    ASSUME LocalsTyped, NEW p, p \in Actors, Release(p),
           Len(events) \in Nat, Len(events') \in Nat, Len(events) <= Len(events')
    PROVE  /\ LocalsTyped'
           /\ pc' = [pc EXCEPT ![p] = "idle"]
           /\ \A q \in Actors : q # p => held'[q] = held[q]
<1>1. /\ packet' \in [Actors -> Packets]
      /\ plan' \in [Actors -> Plan]
      /\ held' \in [Actors -> Content]
      /\ \A q \in Actors : q # p => held'[q] = held[q]
  BY NoLocalsTyped DEF Release, LocalsTyped
<1>2. /\ pc' \in [Actors -> Labels]
      /\ seen' \in [Actors -> Statuses]
      /\ exec' \in [Actors -> Nat]
      /\ pc' = [pc EXCEPT ![p] = "idle"]
  BY LabelsKnown DEF Release, Goto, LocalsTyped, Statuses
<1>3. \A q \in Actors : packet'[q].history <= Len(events')
  <2> SUFFICES ASSUME NEW q \in Actors
               PROVE  packet'[q].history <= Len(events')
    OBVIOUS
  <2>1. packet'[q] = packet[q] \/ packet'[q].history = 0
    BY NoLocalsTyped DEF Release, LocalsTyped
  <2>2. packet[q].history \in Nat /\ packet[q].history <= Len(events)
    BY DEF LocalsTyped, PacketsAreOfThePast, Packets
  <2> QED
    BY <2>1, <2>2
<1>4. OnlyChangesAreApplied'
  BY DEF Release, Goto, LocalsTyped, OnlyChangesAreApplied, Applying
<1> QED
  BY <1>1, <1>2, <1>3, <1>4 DEF LocalsTyped, PacketsAreOfThePast

LEMMA PastStays ==
    ASSUME LocalsTyped, UNCHANGED packet,
           Len(events) \in Nat, Len(events') \in Nat, Len(events) <= Len(events')
    PROVE  PacketsAreOfThePast'
<1> SUFFICES ASSUME NEW q \in Actors
             PROVE  packet'[q].history <= Len(events')
  BY DEF PacketsAreOfThePast
<1>1. packet'[q].history \in Nat /\ packet'[q].history <= Len(events)
  BY DEF LocalsTyped, PacketsAreOfThePast, Packets
<1> QED
  BY <1>1

(* A step that takes an actor on, and stores typed locals at most.         *)
LEMMA GoesOn ==
    ASSUME LocalsTyped, NEW p, p \in Actors, NEW label, label \in Labels, Goto(p, label),
           label \in Applying => plan'[p].decision # "keep",
           \A q \in Actors : q # p => plan'[q] = plan[q],
           held' \in [Actors -> Content], seen' \in [Actors -> Statuses], exec' \in [Actors -> Nat],
           packet' \in [Actors -> Packets], plan' \in [Actors -> Plan], PacketsAreOfThePast'
    PROVE  LocalsTyped' /\ pc' = [pc EXCEPT ![p] = label]
<1>1. pc' \in [Actors -> Labels] /\ pc' = [pc EXCEPT ![p] = label]
  BY DEF LocalsTyped, Goto
<1>2. OnlyChangesAreApplied'
  BY DEF LocalsTyped, Goto, OnlyChangesAreApplied
<1> QED
  BY <1>1, <1>2 DEF LocalsTyped

(* Most steps store nothing.                                               *)
LEMMA JustGoesOn ==
    ASSUME LocalsTyped, NEW p, p \in Actors, NEW label, label \in Labels, Goto(p, label),
           label \in Applying => pc[p] \in Applying,
           UNCHANGED <<held, seen, exec, packet, plan>>,
           Len(events) \in Nat, Len(events') \in Nat, Len(events) <= Len(events')
    PROVE  LocalsTyped' /\ pc' = [pc EXCEPT ![p] = label]
<1>1. PacketsAreOfThePast'
  BY PastStays
<1>2. label \in Applying => plan'[p].decision # "keep"
  BY DEF LocalsTyped, OnlyChangesAreApplied
<1>3. /\ held' \in [Actors -> Content] /\ seen' \in [Actors -> Statuses] /\ exec' \in [Actors -> Nat]
      /\ packet' \in [Actors -> Packets] /\ plan' \in [Actors -> Plan]
      /\ \A q \in Actors : q # p => plan'[q] = plan[q]
  BY DEF LocalsTyped
<1> QED
  BY <1>1, <1>2, <1>3, GoesOn

(* Storing a packet of the present.                                        *)
LEMMA PacketTaken ==
    ASSUME LocalsTyped, NEW p, p \in Actors, NEW q, q \in Packets, q.history = Len(events),
           packet' = [packet EXCEPT ![p] = q], UNCHANGED events, Len(events) \in Nat
    PROVE  packet' \in [Actors -> Packets] /\ PacketsAreOfThePast'
BY DEF LocalsTyped, PacketsAreOfThePast

-----------------------------------------------------------------------------
(* Experiments and the commands at work on them *)

(* Rows are added as candidates and change their status along the table.   *)
Onward ==
    /\ DOMAIN experiments \subseteq DOMAIN experiments'
    /\ \A e \in DOMAIN experiments :
         /\ experiments'[e].parent = experiments[e].parent
         /\ experiments'[e].candidate = experiments[e].candidate
         /\ \/ experiments'[e].status = experiments[e].status
            \/ experiments'[e].status \in Lifecycle(e)!Transitions[experiments[e].status]
    /\ \A e \in DOMAIN experiments' :
         e \notin DOMAIN experiments => experiments'[e].status = "candidate"

LEMMA Unmoved ==
    ASSUME experiments \in Seq(Experiment), UNCHANGED experiments
    PROVE  Onward /\ experiments' \in Seq(Experiment)
BY DEF Onward

LEMMA Appended ==
    ASSUME experiments \in Seq(Experiment), NEW x, x \in Experiment, x.status = "candidate",
           experiments' = Append(experiments, x)
    PROVE  /\ Onward /\ experiments' \in Seq(Experiment)
           /\ Len(experiments') \in Nat /\ Len(experiments') \in DOMAIN experiments'
           /\ experiments'[Len(experiments')] = x
<1>1. /\ experiments' \in Seq(Experiment)
      /\ Len(experiments') = Len(experiments) + 1 /\ Len(experiments) \in Nat
      /\ DOMAIN experiments = 1..Len(experiments)
      /\ DOMAIN experiments' = 1..(Len(experiments) + 1)
      /\ \A e \in 1..Len(experiments) : experiments'[e] = experiments[e]
      /\ experiments'[Len(experiments) + 1] = x
  OBVIOUS
<1>2. Onward
  BY <1>1 DEF Onward
<1> QED
  BY <1>1, <1>2

LEMMA Moved ==
    ASSUME experiments \in Seq(Experiment), NEW e, e \in DOMAIN experiments, NEW new,
           MayBecome(e, new),
           new \in {"validated", "rejected", "inconclusive", "promoted", "rolled_back"},
           experiments' = Transitioned(e, new)
    PROVE  /\ Onward /\ experiments' \in Seq(Experiment)
           /\ experiments'[e].status = new
<1> DEFINE x == [experiments[e] EXCEPT !.status = new]
<1>1. experiments[e] \in Experiment
  OBVIOUS
<1>2. x \in Experiment /\ x.status = new
      /\ x.parent = experiments[e].parent /\ x.candidate = experiments[e].candidate
  BY <1>1 DEF Experiment
<1>3. experiments' = [experiments EXCEPT ![e] = x]
  BY DEF Transitioned
<1> HIDE DEF x
<1>4. /\ experiments' \in Seq(Experiment) /\ DOMAIN experiments' = DOMAIN experiments
      /\ \A i \in DOMAIN experiments : i # e => experiments'[i] = experiments[i]
      /\ experiments'[e] = x
  BY <1>2, <1>3, ExceptSeq
<1>5. Onward
  BY <1>2, <1>4 DEF Onward, MayBecome
<1> QED
  BY <1>2, <1>4, <1>5

LEMMA PromotedStays ==
    ASSUME Onward, NEW e, e \in DOMAIN experiments,
           experiments[e].status \in {"promoted", "rolled_back"}
    PROVE  experiments'[e].status \in {"promoted", "rolled_back"}
BY DEF Onward, Lifecycle!Transitions

(* A step of one actor leaves the commands of the others where they are.   *)
LEMMA CommandsGoOn ==
    ASSUME CommandsInv, LocalsTyped, NEW p, p \in Actors, NEW label,
           pc' = [pc EXCEPT ![p] = label],
           \A q \in Actors : q # p => held'[q] = held[q],
           brief' \in [Evals -> Brief],
           \A c \in Evals : c # p => brief'[c] = brief[c],
           Onward, experiments' \in Seq(Experiment),
           label \in EvalLabels => CommandAt(p)'
    PROVE  CommandsInv'
<1> SUFFICES ASSUME NEW c, c \in Actors, pc'[c] \in EvalLabels, c # p
             PROVE  CommandAt(c)'
  BY DEF CommandsInv, LocalsTyped
<1>1. pc[c] = pc'[c] /\ held'[c] = held[c]
  BY DEF LocalsTyped
<1>2. CommandAt(c) /\ c \in Evals /\ brief'[c] = brief[c]
  BY <1>1 DEF CommandsInv, CommandAt
<1>3. Promoting \subseteq WithExperiment /\ {"promote_state", "promote_event"} \subseteq WithExperiment
  BY DEF Promoting, WithExperiment, EvalLabels
<1>4. pc'[c] \in WithExperiment => /\ brief'[c].exp \in DOMAIN experiments
                                   /\ brief'[c].exp \in DOMAIN experiments'
  BY <1>1, <1>2 DEF CommandAt, Onward
<1>5. pc'[c] \in Promoting => held'[c] = experiments'[brief'[c].exp].parent
  BY <1>1, <1>2, <1>3, <1>4 DEF CommandAt, Onward
<1>6. pc'[c] \in {"promote_state", "promote_event"} =>
         experiments'[brief'[c].exp].status \in {"promoted", "rolled_back"}
  BY <1>1, <1>2, <1>3, <1>4, PromotedStays DEF CommandAt
<1> QED
  BY <1>2, <1>4, <1>5, <1>6 DEF CommandAt

(* Recorded promotions stay backed by their experiments.                   *)
LEMMA PromotionsStay ==
    ASSUME PromotionsReplaceTheirParent, Onward, UNCHANGED events
    PROVE  PromotionsReplaceTheirParent'
BY PromotedStays DEF PromotionsReplaceTheirParent, Onward

LEMMA PromotionsAdded ==
    ASSUME PromotionsReplaceTheirParent, Onward, events \in Seq(WritersEvent),
           NEW ev, ev \in WritersEvent, events' = Append(events, ev),
           ev.action = "promote" =>
              \E x \in DOMAIN experiments : /\ experiments[x].candidate = ev.after
                                            /\ experiments[x].parent = ev.before
                                            /\ experiments[x].status \in {"promoted", "rolled_back"}
    PROVE  PromotionsReplaceTheirParent'
<1> SUFFICES ASSUME NEW c, c \in DOMAIN events', events'[c].action = "promote"
             PROVE  \E x \in DOMAIN experiments' :
                       /\ experiments'[x].candidate = events'[c].after
                       /\ experiments'[x].parent = events'[c].before
                       /\ experiments'[x].status \in {"promoted", "rolled_back"}
  BY DEF PromotionsReplaceTheirParent
<1>1. events'[c] = ev \/ (c \in DOMAIN events /\ events'[c] = events[c])
  BY EventAdded
<1>2. PICK x \in DOMAIN experiments : /\ experiments[x].candidate = events'[c].after
                                      /\ experiments[x].parent = events'[c].before
                                      /\ experiments[x].status \in {"promoted", "rolled_back"}
  BY <1>1 DEF PromotionsReplaceTheirParent
<1> QED
  BY <1>2, PromotedStays DEF Onward

(* Steps of p that have nothing to do with experiments and attempts.        *)
Beside(p) ==
    /\ UNCHANGED <<experiments, evars>>
    /\ brief' \in [Evals -> Brief]
    /\ \A c \in Evals : c # p => brief'[c] = brief[c]

Alone == UNCHANGED <<xvars, evars>>

LEMMA AloneIsBeside ==
    ASSUME WInv, Alone, NEW p
    PROVE  Beside(p)
BY DEF WInv, CommandsInv, Alone, Beside, xvars

LEMMA NoEventKeeps ==
    ASSUME WInv, UNCHANGED <<events, experiments>>
    PROVE  PromotionsReplaceTheirParent'
BY DEF WInv, PromotionsReplaceTheirParent

LEMMA OthersKeep ==
    ASSUME WInv, NEW p, p \in Actors, NEW label, label \notin EvalLabels,
           pc' = [pc EXCEPT ![p] = label],
           \A q \in Actors : q # p => held'[q] = held[q],
           Beside(p), StoreTyped', LocalsTyped',
           PromotionsReplaceTheirParent'
    PROVE  WInv'
<1>1. Onward /\ experiments' \in Seq(Experiment)
  BY Unmoved DEF WInv, CommandsInv, Beside
<1>2. CommandsInv'
  BY <1>1, CommandsGoOn DEF WInv, CommandsInv, Beside
<1>3. AttemptsTyped'
  BY DEF WInv, AttemptsTyped, Beside, evars
<1> QED
  BY <1>2, <1>3 DEF WInv

(* Steps that take p on and record nothing.                                *)
LEMMA OthersGoOn ==
    ASSUME WInv, NEW p, p \in Actors, NEW label, label \in Labels, label \notin EvalLabels,
           Goto(p, label), label \in Applying => pc[p] \in Applying,
           UNCHANGED <<held, seen, exec, packet, plan>>, UNCHANGED events,
           Beside(p), StoreTyped'
    PROVE  WInv'
<1>1. LocalsTyped' /\ pc' = [pc EXCEPT ![p] = label]
  BY JustGoesOn DEF WInv, StoreTyped
<1>2. \A q \in Actors : q # p => held'[q] = held[q]
  OBVIOUS
<1>3. PromotionsReplaceTheirParent'
  BY NoEventKeeps DEF Beside
<1> QED
  BY <1>1, <1>2, <1>3, OthersKeep

(* Steps in which p is done.                                               *)
LEMMA OthersRelease ==
    ASSUME WInv, NEW p, p \in Actors, Release(p), UNCHANGED events,
           Beside(p), StoreTyped'
    PROVE  WInv'
<1>1. /\ LocalsTyped' /\ pc' = [pc EXCEPT ![p] = "idle"]
      /\ \A q \in Actors : q # p => held'[q] = held[q]
  BY Releases DEF WInv, StoreTyped
<1>2. "idle" \notin EvalLabels
  BY DEF EvalLabels
<1>3. PromotionsReplaceTheirParent'
  BY NoEventKeeps DEF Beside
<1> QED
  BY <1>1, <1>2, <1>3, OthersKeep

-----------------------------------------------------------------------------
(* Serve and `evidune run` *)

LEMMA ServeIsAnActor == Web \in Actors /\ Turns \subseteq Actors /\ Runs \subseteq Actors /\ Evals \subseteq Actors
BY EvalsAssumption DEF Actors, Serve

LEMMA StartKeeps == ASSUME WInv, Start, Alone PROVE WInv'
<1>1. StoreTyped'
  BY NoLocalsTyped DEF WInv, StoreTyped, Start, Statuses, ResolvedStatus, Registered
<1>2. LocalsTyped' /\ AttemptsTyped'
  BY DEF WInv, LocalsTyped, AttemptsTyped, Start, PacketsAreOfThePast, OnlyChangesAreApplied,
         Alone, evars
<1>3. CommandsInv'
  BY DEF WInv, CommandsInv, CommandAt, Start, Alone, xvars
<1> QED
  BY <1>1, <1>2, <1>3, NoEventKeeps DEF WInv, Start, Alone, xvars

LEMMA PruneKeeps == ASSUME WInv, NEW t \in Turns, Prune(t), Alone PROVE WInv'
<1>1. StoreTyped'
  BY NoLocalsTyped DEF WInv, StoreTyped, Prune, db, Registered
<1>2. "context" \in Labels /\ "context" \notin EvalLabels \cup Applying
  BY DEF Labels, Awaiting, EvalLabels, Applying
<1> QED
  BY <1>1, <1>2, OthersGoOn, AloneIsBeside, ServeIsAnActor DEF Prune, db

(* An actor takes up the content it is going to work with.                 *)
LEMMA TakesUp ==
    ASSUME WInv, NEW p, p \in Actors, NEW label, label \in Labels, label \notin EvalLabels \cup Applying,
           Goto(p, label), NEW content, content \in Content,
           held' = [held EXCEPT ![p] = content],
           UNCHANGED <<seen, exec, packet, plan>>, UNCHANGED events, Alone, StoreTyped'
    PROVE  WInv'
<1>1. PacketsAreOfThePast'
  BY PastStays DEF WInv, StoreTyped
<1>2. LocalsTyped' /\ pc' = [pc EXCEPT ![p] = label]
  <2>1. /\ held' \in [Actors -> Content] /\ seen' \in [Actors -> Statuses] /\ exec' \in [Actors -> Nat]
        /\ packet' \in [Actors -> Packets] /\ plan' \in [Actors -> Plan]
        /\ \A q \in Actors : q # p => plan'[q] = plan[q]
    BY DEF WInv, LocalsTyped
  <2> QED
    BY <1>1, <2>1, GoesOn DEF WInv
<1>3. \A q \in Actors : q # p => held'[q] = held[q]
  BY DEF WInv, LocalsTyped
<1> QED
  BY <1>2, <1>3, OthersKeep, NoEventKeeps, AloneIsBeside DEF Alone, xvars

LEMMA MatchKeeps == ASSUME WInv, NEW t \in Turns, Match(t), Alone PROVE WInv'
<1>1. StoreTyped'
  BY DEF WInv, StoreTyped, Match, db
<1>2. registry.skill \in Content
  BY DEF WInv, StoreTyped, Registered
<1>3. "answering" \in Labels /\ "answering" \notin EvalLabels \cup Applying
  BY DEF Labels, Awaiting, EvalLabels, Applying
<1> QED
  BY <1>1, <1>2, <1>3, TakesUp, ServeIsAnActor DEF Match, db

LEMMA NoMatchKeeps == ASSUME WInv, NEW t \in Turns, NoMatch(t), Alone PROVE WInv'
<1>1. StoreTyped'
  BY DEF WInv, StoreTyped, NoMatch, db
<1> QED
  BY <1>1, OthersRelease, AloneIsBeside, ServeIsAnActor DEF NoMatch, db

LEMMA AnswerFailsKeeps == ASSUME WInv, NEW t \in Turns, AnswerFails(t), Alone PROVE WInv'
<1>1. StoreTyped'
  BY DEF WInv, StoreTyped, AnswerFails, db
<1> QED
  BY <1>1, OthersRelease, AloneIsBeside, ServeIsAnActor DEF AnswerFails, db

LEMMA RunLoadKeeps == ASSUME WInv, NEW r \in Runs, RunLoad(r), Alone PROVE WInv'
<1>1. StoreTyped'
  BY DEF WInv, StoreTyped, RunLoad, db
<1>2. file \in Content
  BY DEF WInv, StoreTyped
<1>3. "loaded" \in Labels /\ "loaded" \notin EvalLabels \cup Applying
  BY DEF Labels, EvalLabels, Applying
<1> QED
  BY <1>1, <1>2, <1>3, TakesUp, ServeIsAnActor DEF RunLoad, db

(* An actor reads the status it is going to write back.                    *)
LEMMA ReadsStatus ==
    ASSUME WInv, NEW p, p \in Actors, NEW label, label \in Labels, label \notin EvalLabels \cup Applying,
           Goto(p, label), seen' = [seen EXCEPT ![p] = ResolvedStatus],
           UNCHANGED <<held, exec, packet, plan>>, UNCHANGED events, Alone, StoreTyped'
    PROVE  WInv'
<1>1. PacketsAreOfThePast'
  BY PastStays DEF WInv, StoreTyped
<1>2. LocalsTyped' /\ pc' = [pc EXCEPT ![p] = label]
  <2>1. ResolvedStatus \in Statuses
    BY DEF WInv, StoreTyped, ResolvedStatus, Statuses
  <2>2. /\ held' \in [Actors -> Content] /\ seen' \in [Actors -> Statuses] /\ exec' \in [Actors -> Nat]
        /\ packet' \in [Actors -> Packets] /\ plan' \in [Actors -> Plan]
        /\ \A q \in Actors : q # p => plan'[q] = plan[q]
    BY <2>1 DEF WInv, LocalsTyped
  <2> QED
    BY <1>1, <2>2, GoesOn DEF WInv
<1> QED
  BY <1>2, OthersKeep, NoEventKeeps, AloneIsBeside DEF Alone, xvars

LEMMA AnswerKeeps == ASSUME WInv, NEW t \in Turns, Answer(t), Alone PROVE WInv'
<1>1. StoreTyped'
  <2>1. ResolvedStatus \in Statuses /\ held[t] \in Content
    BY ServeIsAnActor DEF WInv, StoreTyped, LocalsTyped, ResolvedStatus, Statuses
  <2>2. [in |-> TRUE, skill |-> held[t], status |-> ResolvedStatus] \in Registered
    BY <2>1 DEF Registered
  <2>3. \/ registry' = registry
        \/ registry' = [in |-> TRUE, skill |-> held[t], status |-> ResolvedStatus]
    BY DEF Answer
  <2>4. registry' \in Registered
    BY <2>2, <2>3 DEF WInv, StoreTyped
  <2> QED
    BY <2>4 DEF WInv, StoreTyped, Answer, db
<1>2. "recording" \in Labels /\ "recording" \notin EvalLabels \cup Applying
  BY DEF Labels, Holding, EvalLabels, Applying
<1> QED
  BY <1>1, <1>2, ReadsStatus, ServeIsAnActor DEF Answer, db

LEMMA RunReadKeeps == ASSUME WInv, NEW r \in Runs, RunRead(r), Alone PROVE WInv'
<1>1. StoreTyped'
  BY DEF WInv, StoreTyped, RunRead, db
<1>2. "seen" \in Labels /\ "seen" \notin EvalLabels \cup Applying
  BY DEF Labels, EvalLabels, Applying
<1> QED
  BY <1>1, <1>2, ReadsStatus, ServeIsAnActor DEF RunRead, db

LEMMA RecordKeeps == ASSUME WInv, NEW t \in Turns, Record(t), Alone PROVE WInv'
<1> t \in Actors
  BY ServeIsAnActor
<1>1. execs' \in Seq(Execution) /\ Len(execs') \in Nat
  <2> DEFINE e == [ver |-> held[t].ver, ran |-> held[t].body, digest |-> file,
                   sig |-> {}, score |-> 0, at |-> 0]
  <2>1. held[t] \in Content /\ file \in Content
    BY DEF WInv, StoreTyped, LocalsTyped
  <2>2. e \in Execution
    BY <2>1 DEF Execution, Content
  <2>3. execs \in Seq(Execution) /\ execs' = Append(execs, e)
    BY DEF WInv, StoreTyped, Record
  <2> HIDE DEF e
  <2> QED
    BY <2>2, <2>3
<1>2. StoreTyped'
  BY <1>1 DEF WInv, StoreTyped, LocalsTyped, Record
<1>3. PacketsAreOfThePast'
  BY PastStays DEF WInv, StoreTyped, Record
<1>4. "judging" \in Labels /\ "judging" \notin EvalLabels \cup Applying
  BY DEF Labels, Awaiting, EvalLabels, Applying
<1>5. LocalsTyped' /\ pc' = [pc EXCEPT ![t] = "judging"]
  <2>1. /\ held' \in [Actors -> Content] /\ seen' \in [Actors -> Statuses] /\ exec' \in [Actors -> Nat]
        /\ packet' \in [Actors -> Packets] /\ plan' \in [Actors -> Plan]
        /\ \A q \in Actors : q # t => plan'[q] = plan[q]
    BY <1>1 DEF WInv, LocalsTyped, Record
  <2> QED
    BY <1>3, <1>4, <2>1, GoesOn DEF WInv, Record
<1> QED
  BY <1>2, <1>4, <1>5, OthersKeep, NoEventKeeps, AloneIsBeside DEF Alone, xvars, Record

LEMMA JudgeKeeps == ASSUME WInv, NEW t \in Turns, NEW score \in Scores, Judge(t, score), Alone PROVE WInv'
<1>1. execs' \in Seq(Execution)
  <2>1. execs \in Seq(Execution) /\ score \in 0..100 /\ Now \in Nat
    BY ClockTyped, ContractAssumption DEF WInv, StoreTyped
  <2>2. CASE exec[t] \in 1..Len(execs)
    <3> DEFINE e == [execs[exec[t]] EXCEPT !.score = score, !.at = Now]
    <3>1. execs[exec[t]] \in Execution
      BY <2>1, <2>2
    <3>2. e \in Execution
      BY <2>1, <3>1 DEF Execution
    <3>3. execs' = [execs EXCEPT ![exec[t]] = e]
      BY <2>1, <2>2 DEF Judge
    <3> HIDE DEF e
    <3> QED
      BY <2>1, <2>2, <3>2, <3>3, ExceptSeq
  <2>3. CASE exec[t] \notin 1..Len(execs)
    <3>1. DOMAIN execs = 1..Len(execs) /\ execs = [i \in 1..Len(execs) |-> execs[i]]
      BY <2>1
    <3>2. execs' = [i \in 1..Len(execs) |-> execs[i]]
      BY <2>3, <3>1 DEF Judge
    <3> QED
      BY <2>1, <3>1, <3>2
  <2> QED
    BY <2>2, <2>3
<1>2. StoreTyped'
  BY <1>1 DEF WInv, StoreTyped, Judge
<1>3. "reconcile" \in Labels /\ "reconcile" \notin EvalLabels \cup Applying
  BY DEF Labels, Holding, EvalLabels, Applying
<1> QED
  BY <1>2, <1>3, OthersGoOn, ServeIsAnActor, AloneIsBeside DEF Judge, Alone

LEMMA JudgeFailsKeeps == ASSUME WInv, NEW t \in Turns, JudgeFails(t), Alone PROVE WInv'
<1>1. StoreTyped'
  BY DEF WInv, StoreTyped, JudgeFails, db
<1>2. "reconcile" \in Labels /\ "reconcile" \notin EvalLabels \cup Applying
  BY DEF Labels, Holding, EvalLabels, Applying
<1> QED
  BY <1>1, <1>2, OthersGoOn, ServeIsAnActor, AloneIsBeside DEF JudgeFails, Alone, db

LEMMA RewriterKeeps == ASSUME WInv, NEW t \in Turns, Rewriter(t), Alone PROVE WInv'
<1>1. StoreTyped'
  BY DEF WInv, StoreTyped, Rewriter, db
<1>2. "decide" \in Labels /\ "decide" \notin EvalLabels \cup Applying
  BY DEF Labels, Holding, EvalLabels, Applying
<1> QED
  BY <1>1, <1>2, OthersGoOn, ServeIsAnActor, AloneIsBeside DEF Rewriter, Alone, db

-----------------------------------------------------------------------------
(* Packets *)

LEMMA TakesPacket ==
    ASSUME WInv, NEW p, p \in Actors, NEW label, label \in Labels, label \notin EvalLabels \cup Applying,
           Goto(p, label), NEW q, q \in Packets, q.history = Len(events),
           packet' = [packet EXCEPT ![p] = q],
           UNCHANGED <<held, seen, exec, plan>>, UNCHANGED events, Beside(p), StoreTyped'
    PROVE  WInv'
<1>1. packet' \in [Actors -> Packets] /\ PacketsAreOfThePast'
  <2>1. Len(events) \in Nat /\ LocalsTyped
    BY DEF WInv, StoreTyped
  <2> QED
    BY <2>1, PacketTaken
<1>2. LocalsTyped' /\ pc' = [pc EXCEPT ![p] = label]
  <2>1. /\ held' \in [Actors -> Content] /\ seen' \in [Actors -> Statuses] /\ exec' \in [Actors -> Nat]
        /\ plan' \in [Actors -> Plan]
        /\ \A a \in Actors : a # p => plan'[a] = plan[a]
    BY DEF WInv, LocalsTyped
  <2> QED
    BY <1>1, <2>1, GoesOn DEF WInv
<1> QED
  BY <1>2, OthersKeep, NoEventKeeps DEF Beside

LEMMA ReconcileKeeps == ASSUME WInv, NEW t \in Turns, Reconcile(t), Alone PROVE WInv'
<1> t \in Actors
  BY ServeIsAnActor
<1>1. UNCHANGED <<file, nextBody, status, events, execs, windows, up, registry>> /\ Beside(t)
  BY AloneIsBeside DEF Reconcile, db
<1>2. StoreTyped'
  BY <1>1 DEF WInv, StoreTyped
<1>3. PICK typed \in TypedDecisions :
        LET q == BuildPacket("serve", held[t].ver, typed, Calm, FALSE)
        IN  IF Governed(ResolvedStatus) /\ HasEvidence(q)
            THEN /\ packet' = [packet EXCEPT ![t] = q]
                 /\ Goto(t, IF RewriteIsDue(q) THEN "rewriting" ELSE "decide")
                 /\ UNCHANGED <<held, seen, exec, plan>>
            ELSE Release(t)
  BY DEF Reconcile
<1>4. CASE Release(t)
  BY <1>1, <1>2, <1>4, OthersRelease
<1>5. CASE ~Release(t)
  <2> DEFINE q == BuildPacket("serve", held[t].ver, typed, Calm, FALSE)
             label == IF RewriteIsDue(q) THEN "rewriting" ELSE "decide"
  <2>1. packet' = [packet EXCEPT ![t] = q] /\ Goto(t, label) /\ UNCHANGED <<held, seen, exec, plan>>
    BY <1>3, <1>5
  <2>2. label \in Labels /\ label \notin EvalLabels \cup Applying
    BY DEF Labels, Awaiting, Holding, EvalLabels, Applying
  <2>3. q \in Packets /\ q.history = Len(events)
    <3>1. file \in Content /\ Len(events) \in Nat /\ held[t].ver \in Nat
      BY DEF WInv, StoreTyped, LocalsTyped, Content
    <3>2. Calm \in Flags
      BY DEF Calm, Flags
    <3> QED
      BY <3>1, <3>2, BuildPacketTyped
  <2> HIDE DEF q, label
  <2> QED
    BY <1>1, <1>2, <2>1, <2>2, <2>3, TakesPacket
<1> QED
  BY <1>4, <1>5

LEMMA FeedbackKeeps ==
    ASSUME WInv, NEW i \in DOMAIN execs, NEW sig \in Clicks, Feedback(i, sig), Alone
    PROVE  WInv'
<1> Web \in Actors
  BY ServeIsAnActor
<1>1. UNCHANGED <<file, nextBody, status, events, windows, up, registry, held, seen, exec, plan>>
      /\ Beside(Web)
  BY AloneIsBeside DEF Feedback
<1>2. PICK typed \in TypedDecisions :
        packet' = [packet EXCEPT ![Web] =
                     BuildPacket("serve", IF registry.in THEN registry.skill.ver ELSE execs[i].ver,
                                 typed, Calm, FALSE)']
  BY DEF Feedback
<1>3. execs' \in Seq(Execution)
  <2> DEFINE e == [execs[i] EXCEPT !.sig = sig]
  <2>1. execs \in Seq(Execution) /\ i \in 1..Len(execs) /\ sig \in SUBSET Signals
    BY InputsAssumption DEF WInv, StoreTyped
  <2>2. execs[i] \in Execution
    BY <2>1
  <2>3. e \in Execution
    BY <2>1, <2>2 DEF Execution
  <2>4. execs' = [execs EXCEPT ![i] = e]
    BY <2>1 DEF Feedback
  <2> HIDE DEF e
  <2> QED
    BY <2>1, <2>3, <2>4, ExceptSeq
<1>4. StoreTyped'
  BY <1>1, <1>3 DEF WInv, StoreTyped
<1> DEFINE q == BuildPacket("serve", IF registry.in THEN registry.skill.ver ELSE execs[i].ver,
                            typed, Calm, FALSE)
<1>5. q' \in Packets /\ q'.history = Len(events)
  <2>1. ExecutionDecision(typed)' \in {"keep", "rewrite", "disable"}
    BY InputsAssumption, Zenon DEF ExecutionDecision
  <2>2. ObservationVerdict' \in {"hold", "confirm", "rollback"}
    BY Zenon DEF ObservationVerdict, WindowVerdict
  <2>3. (IF registry.in THEN registry.skill.ver ELSE execs[i].ver)' \in Nat
    <3>1. execs'[i] \in Execution
      <4>1. i \in 1..Len(execs')
        BY DEF Feedback, WInv, StoreTyped
      <4> QED
        BY <1>3, <4>1
    <3> QED
      BY <1>1, <3>1 DEF WInv, StoreTyped, Content, Execution, Registered
  <2>4. Calm \in Flags /\ file' \in Content /\ Len(events') \in Nat
    BY <1>1 DEF WInv, StoreTyped, Calm, Flags
  <2> QED
    BY <1>1, <2>1, <2>2, <2>3, <2>4 DEF BuildPacket, Packets
<1>6. packet' = [packet EXCEPT ![Web] = q']
  BY <1>2
<1>7. "decide" \in Labels /\ "decide" \notin EvalLabels \cup Applying
  BY DEF Labels, Holding, EvalLabels, Applying
<1> HIDE DEF q
<1>8. Goto(Web, "decide")
  BY DEF Feedback
<1> QED
  BY <1>1, <1>4, <1>5, <1>6, <1>7, <1>8, TakesPacket

LEMMA RunSkipKeeps == ASSUME WInv, NEW r \in Runs, RunSkip(r), Alone PROVE WInv'
<1>1. r \in Actors /\ Release(r) /\ Beside(r)
  BY ServeIsAnActor, AloneIsBeside DEF RunSkip
<1>2. StoreTyped'
  BY <1>1 DEF WInv, StoreTyped, LocalsTyped, RunSkip
<1> QED
  BY <1>1, <1>2, OthersRelease DEF RunSkip

LEMMA RunGovernKeeps == ASSUME WInv, NEW r \in Runs, RunGovern(r), Alone PROVE WInv'
<1> r \in Actors
  BY ServeIsAnActor
<1>1. UNCHANGED <<file, nextBody, events, execs, up, registry, held, seen, exec, plan>>
      /\ Beside(r)
  BY AloneIsBeside DEF RunGovern
<1>2. \E typed \in TypedDecisions, policy \in Flags, exemplars \in BOOLEAN :
         /\ packet' = [packet EXCEPT ![r] =
                          BuildPacket("run", held[r].ver, typed, policy, exemplars)']
         /\ \/ windows' = windows
            \/ windows' = Append(windows, [at |-> Now, bad |-> policy.rollback \/ policy.severe])
  <2>1. Calm \in Flags
    BY DEF Calm, Flags
  <2> QED
    BY <2>1, InputsAssumption DEF RunGovern
<1>3. PICK typed \in TypedDecisions, policy \in Flags, exemplars \in BOOLEAN :
         /\ packet' = [packet EXCEPT ![r] =
                          BuildPacket("run", held[r].ver, typed, policy, exemplars)']
         /\ \/ windows' = windows
            \/ windows' = Append(windows, [at |-> Now, bad |-> policy.rollback \/ policy.severe])
  BY <1>2
<1>4. windows' \in Seq(Window)
  <2> DEFINE w == [at |-> Now, bad |-> policy.rollback \/ policy.severe]
  <2>1. w \in Window
    BY ClockTyped DEF WInv, Window
  <2>2. windows \in Seq(Window)
    BY DEF WInv, StoreTyped
  <2>3. windows' = windows \/ windows' = Append(windows, w)
    BY <1>3
  <2> HIDE DEF w
  <2> QED
    BY <2>1, <2>2, <2>3
<1>5. StoreTyped'
  <2>1. status' \in Statuses
    BY DEF WInv, LocalsTyped, RunGovern
  <2> QED
    BY <1>1, <1>4, <2>1 DEF WInv, StoreTyped
<1> DEFINE q == BuildPacket("run", held[r].ver, typed, policy, exemplars)
<1>6. q' \in Packets /\ q'.history = Len(events)
  <2>1. ExecutionDecision(typed)' \in {"keep", "rewrite", "disable"}
    BY InputsAssumption, Zenon DEF ExecutionDecision
  <2>2. ObservationVerdict' \in {"hold", "confirm", "rollback"}
    BY Zenon DEF ObservationVerdict, WindowVerdict
  <2>3. held'[r].ver \in Nat /\ file' \in Content /\ Len(events') \in Nat
    BY <1>1 DEF WInv, StoreTyped, LocalsTyped, Content
  <2> QED
    BY <1>1, <2>1, <2>2, <2>3 DEF BuildPacket, Packets
<1>7. packet' = [packet EXCEPT ![r] = q']
  BY <1>3
<1>8. "decide" \in Labels /\ "decide" \notin EvalLabels \cup Applying
  BY DEF Labels, Holding, EvalLabels, Applying
<1> HIDE DEF q
<1>9. Goto(r, "decide")
  BY DEF RunGovern
<1> QED
  BY <1>1, <1>5, <1>6, <1>7, <1>8, <1>9, TakesPacket

-----------------------------------------------------------------------------
(* Decisions, of serve, of `evidune run` and of `evidune eval iterate` *)

(* An actor plans a change.                                                *)
LEMMA Plans ==
    ASSUME WInv, NEW p, p \in Actors, NEW label, label \in {"write_file", "write_state"},
           Goto(p, label), NEW d, d \in Reviewed(packet[p]), d # "keep",
           plan' = [plan EXCEPT ![p] = [decision |-> d, after |-> Outcome(packet[p], d)]],
           UNCHANGED <<held, seen, exec, packet>>, UNCHANGED events, Beside(p), StoreTyped'
    PROVE  WInv'
<1> DEFINE new == [decision |-> d, after |-> Outcome(packet[p], d)]
<1>1. packet[p] \in Packets /\ packet[p].history <= Len(events)
  BY DEF WInv, LocalsTyped, PacketsAreOfThePast
<1>2. d \in Decisions
  BY <1>1, ReviewedTyped
<1>3. Outcome(packet[p], d) \in Content
  BY <1>1, OutcomeIsContent DEF WInv
<1>4. new \in Plan /\ new.decision # "keep"
  BY <1>2, <1>3 DEF Plan
<1>5. plan' = [plan EXCEPT ![p] = new]
  OBVIOUS
<1> HIDE DEF new
<1>6. /\ plan' \in [Actors -> Plan] /\ plan'[p].decision # "keep"
      /\ \A q \in Actors : q # p => plan'[q] = plan[q]
  BY <1>4, <1>5 DEF WInv, LocalsTyped
<1>7. PacketsAreOfThePast'
  BY PastStays DEF WInv, StoreTyped
<1>8. label \in Labels /\ label \notin EvalLabels
  BY DEF Labels, Holding, EvalLabels
<1>9. LocalsTyped' /\ pc' = [pc EXCEPT ![p] = label]
  <2>1. /\ held' \in [Actors -> Content] /\ seen' \in [Actors -> Statuses] /\ exec' \in [Actors -> Nat]
        /\ packet' \in [Actors -> Packets]
    BY DEF WInv, LocalsTyped
  <2> QED
    BY <1>6, <1>7, <1>8, <2>1, GoesOn DEF WInv
<1> QED
  BY <1>8, <1>9, OthersKeep, NoEventKeeps DEF Beside

LEMMA DecideKeeps == ASSUME WInv, NEW p, p \in Actors, Decide(p), Beside(p) PROVE WInv'
<1>1. UNCHANGED <<file, status, events, execs, windows, up, registry>>
  BY DEF Decide, db
<1>2. PICK d \in Reviewed(packet[p]) :
        IF d = "keep"
        THEN Release(p) /\ UNCHANGED nextBody
        ELSE /\ plan' = [plan EXCEPT ![p] = [decision |-> d, after |-> Outcome(packet[p], d)]]
             /\ nextBody' = IF d = "rewrite" THEN nextBody + 1 ELSE nextBody
             /\ Goto(p, IF d \in {"rewrite", "refresh", "rollback"} THEN "write_file"
                        ELSE "write_state")
             /\ UNCHANGED <<held, seen, exec, packet>>
  BY DEF Decide
<1>3. StoreTyped'
  <2>1. nextBody' \in Nat
    BY <1>2 DEF WInv, StoreTyped
  <2> QED
    BY <1>1, <2>1 DEF WInv, StoreTyped
<1>4. CASE d = "keep"
  BY <1>1, <1>2, <1>3, <1>4, OthersRelease
<1>5. CASE d # "keep"
  <2> DEFINE label == IF d \in {"rewrite", "refresh", "rollback"} THEN "write_file" ELSE "write_state"
  <2>1. label \in {"write_file", "write_state"}
    OBVIOUS
  <2>2. Goto(p, label)
    BY <1>2, <1>5
  <2> HIDE DEF label
  <2> QED
    BY <1>1, <1>2, <1>3, <1>5, <2>1, <2>2, Plans
<1> QED
  BY <1>4, <1>5

LEMMA WriteFileKeeps == ASSUME WInv, NEW p, p \in Actors, WriteFile(p), Beside(p) PROVE WInv'
<1>1. StoreTyped'
  BY DEF WInv, StoreTyped, LocalsTyped, WriteFile, db, Plan
<1>2. /\ "write_state" \in Labels /\ "write_state" \notin EvalLabels
      /\ "write_file" \in Applying
  BY DEF Labels, Holding, EvalLabels, Applying
<1> QED
  BY <1>1, <1>2, OthersGoOn DEF WriteFile, db

LEMMA AppliedDecision ==
    ASSUME WInv, NEW p, p \in Actors, pc[p] \in Applying
    PROVE  StatusAfter[plan[p].decision] \in Statuses
<1>1. plan[p].decision \in Decisions \ {"keep"}
  BY DEF WInv, LocalsTyped, OnlyChangesAreApplied, Plan
<1> QED
  BY <1>1 DEF StatusAfter, Decisions, Statuses

LEMMA WriteStateKeeps == ASSUME WInv, NEW p, p \in Actors, WriteState(p), Beside(p) PROVE WInv'
<1>1. /\ "write_event" \in Labels /\ "write_event" \notin EvalLabels
      /\ "write_state" \in Applying
  BY DEF Labels, Holding, EvalLabels, Applying
<1>2. status' \in Statuses
  BY <1>1, AppliedDecision DEF WriteState
<1>3. StoreTyped'
  BY <1>2 DEF WInv, StoreTyped, WriteState
<1> QED
  BY <1>1, <1>3, OthersGoOn DEF WriteState

LEMMA WriteEventKeeps == ASSUME WInv, NEW p, p \in Actors, WriteEvent(p), Beside(p) PROVE WInv'
<1> DEFINE e == [action |-> plan[p].decision, before |-> packet[p].current,
                 after |-> plan[p].after, at |-> Now]
<1>1. /\ UNCHANGED <<file, nextBody, status, execs, windows, up, registry>>
      /\ events' = Append(events, e)
  BY DEF WriteEvent
<1>2. e \in WritersEvent /\ e.action # "promote"
  <2>1. plan[p] \in Plan /\ packet[p] \in Packets /\ Now \in Nat
    BY ClockTyped DEF WInv, LocalsTyped
  <2> QED
    BY <2>1 DEF WritersEvent, Plan, Packets, Actions, Decisions
<1> HIDE DEF e
<1>3. /\ events' \in Seq(WritersEvent) /\ Len(events) \in Nat /\ Len(events') \in Nat
      /\ Len(events) <= Len(events')
  BY <1>1, <1>2, EventAdded DEF WInv, StoreTyped
<1>4. StoreTyped'
  BY <1>1, <1>3 DEF WInv, StoreTyped
<1>5. PromotionsReplaceTheirParent'
  <2>1. Onward /\ events \in Seq(WritersEvent)
    BY Unmoved DEF WInv, CommandsInv, StoreTyped, Beside
  <2> QED
    BY <1>1, <1>2, <2>1, PromotionsAdded DEF WInv
<1>6. CASE p \in Runs
  <2>1. Release(p)
    BY <1>6 DEF WriteEvent
  <2>2. /\ LocalsTyped' /\ pc' = [pc EXCEPT ![p] = "idle"]
        /\ \A q \in Actors : q # p => held'[q] = held[q]
    BY <1>3, <2>1, Releases DEF WInv
  <2>3. "idle" \notin EvalLabels
    BY DEF EvalLabels
  <2> QED
    BY <1>4, <1>5, <2>2, <2>3, OthersKeep
<1>7. CASE p \notin Runs
  <2>1. Goto(p, "reload") /\ UNCHANGED <<held, seen, exec, packet, plan>>
    BY <1>7 DEF WriteEvent
  <2>2. "reload" \in Labels /\ "reload" \notin EvalLabels /\ "write_event" \in Applying
    BY DEF Labels, Holding, EvalLabels, Applying
  <2>3. LocalsTyped' /\ pc' = [pc EXCEPT ![p] = "reload"]
    BY <1>3, <2>1, <2>2, JustGoesOn DEF WInv, WriteEvent
  <2> QED
    BY <1>4, <1>5, <2>1, <2>2, <2>3, OthersKeep
<1> QED
  BY <1>6, <1>7

LEMMA WriteFailsKeeps == ASSUME WInv, NEW p, p \in Actors, WriteFails(p), Beside(p) PROVE WInv'
<1>1. UNCHANGED <<file, nextBody, status, events, execs, windows, up, registry>> /\ Release(p)
  BY DEF WriteFails, db
<1>2. StoreTyped'
  BY <1>1 DEF WInv, StoreTyped
<1> QED
  BY <1>1, <1>2, OthersRelease

LEMMA ReloadKeeps == ASSUME WInv, NEW p, p \in Actors, Reload(p), Beside(p) PROVE WInv'
<1>1. UNCHANGED <<file, nextBody, status, events, execs, windows, up>> /\ Release(p)
  BY DEF Reload, db
<1>2. registry' \in Registered
  <2>1. pc[p] \in Applying
    BY DEF Reload, Applying
  <2>2. StatusAfter[plan[p].decision] \in Statuses /\ file \in Content
    BY <2>1, AppliedDecision DEF WInv, StoreTyped
  <2> QED
    BY <2>2, NoLocalsTyped DEF Reload, Registered
<1>3. StoreTyped'
  BY <1>1, <1>2 DEF WInv, StoreTyped
<1> QED
  BY <1>1, <1>3, OthersRelease

LEMMA RunCrashKeeps == ASSUME WInv, NEW p, p \in Actors, RunCrash(p), Beside(p) PROVE WInv'
<1>1. UNCHANGED <<file, nextBody, status, events, execs, windows, up, registry>> /\ Release(p)
  BY DEF RunCrash, db
<1>2. StoreTyped'
  BY <1>1 DEF WInv, StoreTyped
<1> QED
  BY <1>1, <1>2, OthersRelease

LEMMA ServeDiesKeeps == ASSUME WInv, ServeDies PROVE WInv'
<1>1. /\ UNCHANGED <<file, nextBody, status, events, execs, windows>> /\ up' = FALSE
      /\ registry' = Unregistered /\ UNCHANGED xvars
  BY DEF ServeDies, Crash, db
<1>2. StoreTyped'
  BY <1>1, NoLocalsTyped DEF WInv, StoreTyped
<1>3. LocalsTyped'
  <2>1. /\ pc' \in [Actors -> Labels]
        /\ seen' \in [Actors -> Statuses]
        /\ exec' \in [Actors -> Nat]
    BY LabelsKnown DEF WInv, LocalsTyped, ServeDies, Crash, Statuses
  <2>2. /\ held' \in [Actors -> Content]
        /\ packet' \in [Actors -> Packets]
        /\ plan' \in [Actors -> Plan]
    BY NoLocalsTyped DEF WInv, LocalsTyped, ServeDies, Crash
  <2>3. PacketsAreOfThePast'
    BY <1>1, NoLocalsTyped DEF WInv, LocalsTyped, StoreTyped, ServeDies, Crash, PacketsAreOfThePast
  <2>4. OnlyChangesAreApplied'
    BY DEF WInv, LocalsTyped, ServeDies, Crash, OnlyChangesAreApplied, Applying
  <2> QED
    BY <2>1, <2>2, <2>3, <2>4 DEF LocalsTyped
<1>4. AttemptsTyped'
  BY NoLocalsTyped DEF ServeDies, EmergenceStops, AttemptsTyped, AwaitingModel, NoDraft, Draft, EmergenceActions
<1>5. CommandsInv'
  <2>1. ASSUME NEW c, c \in Actors, pc'[c] \in EvalLabels
        PROVE  CommandAt(c)'
    <3>1. pc'[c] = pc[c] /\ c \notin Serve
      BY <2>1 DEF ServeDies, Crash, EvalLabels
    <3>2. held'[c] = held[c] /\ CommandAt(c)
      BY <2>1, <3>1 DEF ServeDies, Crash, WInv, CommandsInv
    <3> QED
      BY <1>1, <3>1, <3>2 DEF CommandAt, xvars
  <2> QED
    BY <1>1, <2>1 DEF WInv, CommandsInv, xvars
<1> QED
  BY <1>1, <1>2, <1>3, <1>4, <1>5, NoEventKeeps DEF WInv, xvars

LEMMA ServeStopsKeeps == ASSUME WInv, ServeStops PROVE WInv'
<1>1. StoreTyped'
  BY NoLocalsTyped DEF WInv, StoreTyped, ServeStops, db
<1>2. LocalsTyped' /\ AttemptsTyped'
  BY DEF WInv, LocalsTyped, AttemptsTyped, ServeStops, db, PacketsAreOfThePast, OnlyChangesAreApplied,
         evars
<1>3. CommandsInv'
  BY DEF WInv, CommandsInv, CommandAt, ServeStops, xvars
<1> QED
  BY <1>1, <1>2, <1>3, NoEventKeeps DEF WInv, ServeStops, db, xvars

-----------------------------------------------------------------------------
(* The commands of `evidune eval` *)

LEMMA CommandKeeps ==
    ASSUME WInv, NEW p, p \in Actors, NEW label, pc' = [pc EXCEPT ![p] = label],
           \A q \in Actors : q # p => held'[q] = held[q],
           brief' \in [Evals -> Brief],
           \A c \in Evals : c # p => brief'[c] = brief[c],
           Onward, experiments' \in Seq(Experiment), UNCHANGED evars,
           label \in EvalLabels => CommandAt(p)',
           StoreTyped', LocalsTyped', PromotionsReplaceTheirParent'
    PROVE  WInv'
<1>1. CommandsInv'
  BY CommandsGoOn DEF WInv
<1>2. AttemptsTyped'
  BY DEF WInv, AttemptsTyped, evars
<1> QED
  BY <1>1, <1>2 DEF WInv

(* What is known of a command at work.                                     *)
LEMMA CommandKnows ==
    ASSUME WInv, NEW c, c \in Actors, pc[c] \in EvalLabels
    PROVE  CommandAt(c) /\ c \in Evals /\ brief[c] \in Brief
BY DEF WInv, CommandsInv, CommandAt

(* A command takes up experiment e.                                        *)
LEMMA Briefed ==
    ASSUME CommandsInv, NEW c, c \in Evals, NEW e, e \in Nat,
           brief' = [brief EXCEPT ![c].exp = e]
    PROVE  /\ brief' \in [Evals -> Brief]
           /\ \A q \in Evals : q # c => brief'[q] = brief[q]
           /\ brief'[c].exp = e
<1>1. brief[c] \in Brief /\ DOMAIN brief = Evals
  BY DEF CommandsInv
<1>2. [brief[c] EXCEPT !.exp = e] \in Brief /\ [brief[c] EXCEPT !.exp = e].exp = e
  BY <1>1 DEF Brief
<1>3. brief' = [brief EXCEPT ![c] = [brief[c] EXCEPT !.exp = e]]
  OBVIOUS
<1> QED
  BY <1>2, <1>3 DEF CommandsInv

(* The command is over.                                                    *)
LEMMA Left ==
    ASSUME WInv, NEW c, c \in Evals, Leave(c), UNCHANGED evars,
           Onward, experiments' \in Seq(Experiment),
           Len(events') \in Nat, Len(events) <= Len(events'),
           StoreTyped', PromotionsReplaceTheirParent'
    PROVE  WInv'
<1>1. c \in Actors /\ Release(c) /\ Len(events) \in Nat
  BY ServeIsAnActor DEF Leave, WInv, StoreTyped
<1>2. /\ LocalsTyped' /\ pc' = [pc EXCEPT ![c] = "idle"]
      /\ \A q \in Actors : q # c => held'[q] = held[q]
  BY <1>1, Releases DEF WInv
<1>3. /\ brief' \in [Evals -> Brief]
      /\ \A q \in Evals : q # c => brief'[q] = brief[q]
  BY DEF Leave, WInv, CommandsInv, NoBrief, Brief
<1>4. "idle" \notin EvalLabels
  BY DEF EvalLabels
<1> QED
  BY <1>1, <1>2, <1>3, <1>4, CommandKeeps

(* The skill is as it was.                                                 *)
SkillStays == UNCHANGED <<file, nextBody, db, up, registry>>

LEMMA SkillStaysTyped ==
    ASSUME WInv, SkillStays
    PROVE  StoreTyped' /\ UNCHANGED events /\ Len(events) \in Nat /\ Len(events') \in Nat /\ Len(events) <= Len(events')
BY DEF WInv, StoreTyped, SkillStays, db

(* A command stops without an effect.                                      *)
LEMMA JustLeft ==
    ASSUME WInv, NEW c, c \in Evals, Leave(c), UNCHANGED <<experiments, evars>>, SkillStays
    PROVE  WInv'
<1>1. Onward /\ experiments' \in Seq(Experiment)
  BY Unmoved DEF WInv, CommandsInv
<1>2. PromotionsReplaceTheirParent'
  BY SkillStaysTyped, NoEventKeeps
<1> QED
  BY <1>1, <1>2, SkillStaysTyped, Left

LEMMA EvalStopsKeeps == ASSUME WInv, NEW c \in Evals, EvalStops(c), UNCHANGED evars PROVE WInv'
BY JustLeft DEF EvalStops, SkillStays

(* A command goes on with its experiment.                                  *)
LEMMA CommandGoesOn ==
    ASSUME WInv, NEW c, c \in Evals, pc[c] \in EvalLabels,
           NEW label, label \in EvalLabels, Goto(c, label),
           UNCHANGED <<held, seen, exec, packet, plan, brief, evars>>, UNCHANGED events,
           Onward, experiments' \in Seq(Experiment), StoreTyped',
           label \in WithExperiment => pc[c] \in WithExperiment,
           label \in Promoting => pc[c] \in Promoting,
           label \in {"promote_state", "promote_event"} =>
              experiments'[brief[c].exp].status \in {"promoted", "rolled_back"}
    PROVE  WInv'
<1>1. c \in Actors /\ CommandAt(c)
  BY ServeIsAnActor, CommandKnows
<1>2. label \in Labels /\ label \notin Applying
  BY DEF Labels, EvalLabels, Applying
<1>3. Len(events) \in Nat /\ Len(events') \in Nat /\ Len(events) <= Len(events')
  BY DEF WInv, StoreTyped
<1>4. LocalsTyped' /\ pc' = [pc EXCEPT ![c] = label]
  BY <1>1, <1>2, <1>3, JustGoesOn DEF WInv
<1>5. pc'[c] = label /\ Promoting \subseteq WithExperiment
  BY <1>1, <1>4 DEF WInv, LocalsTyped, Promoting, WithExperiment, EvalLabels
<1>6. CommandAt(c)'
  <2>1. label \in WithExperiment => /\ brief'[c].exp \in DOMAIN experiments
                                    /\ brief'[c].exp \in DOMAIN experiments'
    BY <1>1 DEF CommandAt, Onward
  <2>2. label \in Promoting => held'[c] = experiments'[brief'[c].exp].parent
    BY <1>1, <1>5, <2>1 DEF CommandAt, Onward
  <2> QED
    BY <1>1, <1>5, <2>1, <2>2 DEF CommandAt
<1>7. PromotionsReplaceTheirParent'
  BY PromotionsStay DEF WInv
<1>8. brief' \in [Evals -> Brief]
  BY DEF WInv, CommandsInv
<1> QED
  BY <1>1, <1>4, <1>6, <1>7, <1>8, CommandKeeps

LEMMA FeedbackIsBoolean == ShouldDisable(RecentExecs) \in BOOLEAN
BY DEF ShouldDisable

LEMMA SourcesTyped ==
    ASSUME StoreTyped, NEW ver
    PROVE  Sources(ver) \in SUBSET Nat
<1>1. DOMAIN execs \subseteq Nat
  BY DEF StoreTyped
<1>2. Judged \subseteq DOMAIN execs
  BY DEF Judged, Scored
<1> QED
  BY <1>1, <1>2 DEF Sources

LEMMA IterateKeeps == ASSUME WInv, NEW c \in Evals, Iterate(c), UNCHANGED evars PROVE WInv'
<1> c \in Actors
  BY ServeIsAnActor
<1>1. SkillStays /\ UNCHANGED <<held, seen, exec, plan, experiments>>
  BY DEF Iterate, SkillStays
<1>2. PICK typed \in TypedDecisions :
         packet' = [packet EXCEPT ![c] = BuildPacket("eval", file.ver, typed, Calm, FALSE)]
  BY DEF Iterate
<1> DEFINE q == BuildPacket("eval", file.ver, typed, Calm, FALSE)
           b == [exp |-> 0, disable |-> ShouldDisable(RecentExecs), sources |-> Sources(file.ver)]
<1>3. q \in Packets /\ q.history = Len(events)
  <2>1. file \in Content /\ Len(events) \in Nat /\ file.ver \in Nat
    BY DEF WInv, StoreTyped, Content
  <2>2. Calm \in Flags
    BY DEF Calm, Flags
  <2> QED
    BY <2>1, <2>2, BuildPacketTyped
<1>4. b \in Brief
  BY FeedbackIsBoolean, SourcesTyped DEF WInv, Brief
<1>5. packet' = [packet EXCEPT ![c] = q] /\ brief' = [brief EXCEPT ![c] = b]
  BY <1>2 DEF Iterate
<1> HIDE DEF q, b
<1>6. /\ brief' \in [Evals -> Brief]
      /\ \A a \in Evals : a # c => brief'[a] = brief[a]
  BY <1>4, <1>5 DEF WInv, CommandsInv
<1>7. StoreTyped' /\ UNCHANGED events /\ Len(events) \in Nat
  BY <1>1, SkillStaysTyped
<1>8. packet' \in [Actors -> Packets] /\ PacketsAreOfThePast'
  BY <1>3, <1>5, <1>7, PacketTaken DEF WInv
<1>9. "proposing" \in Labels /\ "proposing" \notin Applying /\ "proposing" \notin WithExperiment
      /\ Promoting \subseteq WithExperiment /\ {"promote_state", "promote_event"} \subseteq WithExperiment
  BY DEF Labels, EvalLabels, Applying, WithExperiment, Promoting
<1>10. LocalsTyped' /\ pc' = [pc EXCEPT ![c] = "proposing"]
  <2>1. /\ held' \in [Actors -> Content] /\ seen' \in [Actors -> Statuses] /\ exec' \in [Actors -> Nat]
        /\ plan' \in [Actors -> Plan]
        /\ \A a \in Actors : a # c => plan'[a] = plan[a]
    BY <1>1 DEF WInv, LocalsTyped
  <2>2. Goto(c, "proposing")
    BY DEF Iterate
  <2> QED
    BY <1>8, <1>9, <2>1, <2>2, GoesOn DEF WInv
<1>11. CommandAt(c)'
  <2>1. pc'[c] = "proposing"
    BY <1>10 DEF WInv, LocalsTyped
  <2> QED
    BY <1>9, <2>1 DEF CommandAt
<1>12. Onward /\ experiments' \in Seq(Experiment)
  BY <1>1, Unmoved DEF WInv, CommandsInv
<1>13. PromotionsReplaceTheirParent'
  BY <1>1, <1>7, NoEventKeeps
<1> QED
  BY <1>1, <1>6, <1>7, <1>10, <1>11, <1>12, <1>13, CommandKeeps

(* An iteration with an open candidate keeps it, or rejects it.            *)
LEMMA ProposeOnOpen ==
    ASSUME WInv, NEW c \in Evals, Propose(c), UNCHANGED evars, OpenCandidates # {}
    PROVE  WInv'
<1> DEFINE e == Max(OpenCandidates)
<1>1. SkillStays /\ pc[c] = "proposing"
  BY DEF Propose, SkillStays
<1>2. \/ Leave(c) /\ UNCHANGED experiments
      \/ /\ MayBecome(e, "rejected")
         /\ experiments' = Transitioned(e, "rejected")
         /\ Goto(c, "reject_event")
         /\ UNCHANGED <<held, seen, exec, packet, plan, brief>>
  BY DEF Propose
<1>3. CASE Leave(c) /\ UNCHANGED experiments
  BY <1>1, <1>3, JustLeft
<1>4. CASE ~(Leave(c) /\ UNCHANGED experiments)
  <2>1. e \in DOMAIN experiments
    <3>1. Len(experiments) \in Nat /\ OpenCandidates \subseteq 0..Len(experiments)
      BY DEF OpenCandidates, WInv, CommandsInv
    <3>2. e \in OpenCandidates
      BY <3>1, MaxOfNat
    <3> QED
      BY <3>2 DEF OpenCandidates
  <2> HIDE DEF e
  <2>2. Onward /\ experiments' \in Seq(Experiment)
    BY <1>2, <1>4, <2>1, Moved DEF WInv, CommandsInv
  <2>3. /\ "reject_event" \in EvalLabels /\ "reject_event" \notin WithExperiment
        /\ "reject_event" \notin Promoting /\ "proposing" \in EvalLabels
    BY DEF EvalLabels, WithExperiment, Promoting
  <2> QED
    BY <1>1, <1>2, <1>4, <2>2, <2>3, SkillStaysTyped, CommandGoesOn
<1> QED
  BY <1>3, <1>4

(* Without one it keeps the skill, stages a candidate, or applies what      *)
(* serve would apply.                                                       *)
LEMMA ProposeOnNone ==
    ASSUME WInv, NEW c \in Evals, Propose(c), UNCHANGED evars, OpenCandidates = {}
    PROVE  WInv'
<1> c \in Actors
  BY ServeIsAnActor
<1>1. UNCHANGED <<file, status, events, execs, windows, up, registry>> /\ pc[c] = "proposing"
  BY DEF Propose, db
<1>2. PICK d \in Reviewed(packet[c]) :
            CASE d = "keep" -> Leave(c) /\ UNCHANGED <<nextBody, experiments>>
              [] d = "rewrite" ->
                   /\ experiments' = Append(experiments,
                          [status |-> "candidate", parent |-> packet[c].current,
                           candidate |-> [ver |-> FreshVersion, body |-> nextBody],
                           sources |-> brief[c].sources])
                   /\ nextBody' = nextBody + 1
                   /\ brief' = [brief EXCEPT ![c].exp = Len(experiments')]
                   /\ Goto(c, "stage_state")
                   /\ UNCHANGED <<held, seen, exec, packet, plan>>
              [] OTHER ->
                   /\ plan' = [plan EXCEPT ![c] = [decision |-> d, after |-> Outcome(packet[c], d)]]
                   /\ Goto(c, IF d = "rollback" THEN "write_file" ELSE "write_state")
                   /\ UNCHANGED <<nextBody, held, seen, exec, packet, experiments, brief>>
  BY DEF Propose
<1>3. CASE d = "keep"
  <2>1. Leave(c) /\ UNCHANGED <<nextBody, experiments>>
    BY <1>2, <1>3
  <2> QED
    BY <1>1, <2>1, JustLeft DEF SkillStays, db
<1>4. CASE d = "rewrite"
  <2> DEFINE x == [status |-> "candidate", parent |-> packet[c].current,
                   candidate |-> [ver |-> FreshVersion, body |-> nextBody],
                   sources |-> brief[c].sources]
             n == Len(experiments')
  <2>1. /\ experiments' = Append(experiments, x)
        /\ nextBody' = nextBody + 1
        /\ brief' = [brief EXCEPT ![c].exp = n]
        /\ Goto(c, "stage_state")
        /\ UNCHANGED <<held, seen, exec, packet, plan>>
    BY <1>2, <1>4
  <2>2. x \in Experiment /\ x.status = "candidate"
    <3>1. packet[c].current \in Content /\ nextBody \in Nat /\ Len(experiments) \in Nat
      BY DEF WInv, LocalsTyped, StoreTyped, CommandsInv, Packets
    <3>2. brief[c].sources \in SUBSET Nat
      BY DEF WInv, CommandsInv, Brief
    <3> QED
      BY <3>1, <3>2 DEF Experiment, Content, FreshVersion
  <2> HIDE DEF x
  <2>3. Onward /\ experiments' \in Seq(Experiment) /\ n \in Nat /\ n \in DOMAIN experiments'
    BY <2>1, <2>2, Appended DEF WInv, CommandsInv
  <2> HIDE DEF n
  <2>4. /\ brief' \in [Evals -> Brief] /\ brief'[c].exp = n
        /\ \A q \in Evals : q # c => brief'[q] = brief[q]
    BY <2>1, <2>3, Briefed DEF WInv
  <2>5. StoreTyped'
    BY <1>1, <2>1 DEF WInv, StoreTyped
  <2>6. "stage_state" \in Labels /\ "stage_state" \notin Applying /\ "stage_state" \notin Promoting
        /\ "stage_state" \notin {"promote_state", "promote_event"}
    BY DEF Labels, EvalLabels, Applying, Promoting
  <2>7. LocalsTyped' /\ pc' = [pc EXCEPT ![c] = "stage_state"]
    BY <1>1, <2>1, <2>6, JustGoesOn DEF WInv, StoreTyped
  <2>8. CommandAt(c)'
    <3>1. pc'[c] = "stage_state"
      BY <2>7 DEF WInv, LocalsTyped
    <3> QED
      BY <2>3, <2>4, <2>6, <3>1 DEF CommandAt
  <2>9. PromotionsReplaceTheirParent'
    BY <1>1, <2>3, PromotionsStay DEF WInv
  <2> QED
    BY <2>1, <2>3, <2>4, <2>5, <2>7, <2>8, <2>9, CommandKeeps
<1>5. CASE d \notin {"keep", "rewrite"}
  <2> DEFINE label == IF d = "rollback" THEN "write_file" ELSE "write_state"
  <2>1. /\ plan' = [plan EXCEPT ![c] = [decision |-> d, after |-> Outcome(packet[c], d)]]
        /\ Goto(c, label)
        /\ UNCHANGED <<nextBody, held, seen, exec, packet, experiments, brief>>
    BY <1>2, <1>5
  <2>2. label \in {"write_file", "write_state"}
    OBVIOUS
  <2> HIDE DEF label
  <2>3. StoreTyped' /\ Beside(c)
    BY <1>1, <2>1 DEF WInv, StoreTyped, CommandsInv, Beside
  <2> QED
    BY <1>1, <1>5, <2>1, <2>2, <2>3, Plans
<1> QED
  BY <1>3, <1>4, <1>5

LEMMA DirectlyKeeps == ASSUME WInv, NEW c \in Evals, ApplyDirectly(c), UNCHANGED evars PROVE WInv'
<1>1. c \in Actors
  BY ServeIsAnActor
<1>2. Beside(c)
  <2>1. brief' = [brief EXCEPT ![c] = NoBrief] \/ brief' = brief
    BY DEF ApplyDirectly
  <2>2. brief \in [Evals -> Brief] /\ NoBrief \in Brief
    BY DEF WInv, CommandsInv, NoBrief, Brief
  <2>3. UNCHANGED experiments
    BY DEF ApplyDirectly
  <2> QED
    BY <2>1, <2>2, <2>3 DEF Beside
<1> QED
  BY <1>1, <1>2, WriteFileKeeps, WriteStateKeeps, WriteEventKeeps, WriteFailsKeeps DEF ApplyDirectly

LEMMA StageStateKeeps == ASSUME WInv, NEW c \in Evals, StageState(c), UNCHANGED evars PROVE WInv'
<1>1. StoreTyped'
  BY DEF WInv, StoreTyped, StageState, Statuses
<1>2. /\ "stage_state" \in EvalLabels /\ "stage_event" \in EvalLabels
      /\ "stage_state" \in WithExperiment /\ "stage_event" \notin Promoting
  BY DEF EvalLabels, WithExperiment, Promoting
<1>3. Onward /\ experiments' \in Seq(Experiment)
  BY Unmoved DEF WInv, CommandsInv, StageState, xvars
<1> QED
  BY <1>1, <1>2, <1>3, CommandGoesOn DEF StageState, xvars

LEMMA PromoteStateKeeps == ASSUME WInv, NEW c \in Evals, PromoteState(c), UNCHANGED evars PROVE WInv'
<1>1. StoreTyped'
  BY DEF WInv, StoreTyped, PromoteState, Statuses
<1>2. /\ "promote_state" \in EvalLabels /\ "promote_event" \in EvalLabels
      /\ "promote_state" \in WithExperiment /\ "promote_state" \in Promoting
  BY DEF EvalLabels, WithExperiment, Promoting
<1>3. Onward /\ experiments' \in Seq(Experiment) /\ experiments' = experiments
  BY Unmoved DEF WInv, CommandsInv, PromoteState, xvars
<1>4. experiments'[brief[c].exp].status \in {"promoted", "rolled_back"}
  BY <1>2, <1>3, CommandKnows, ServeIsAnActor DEF PromoteState, CommandAt
<1> QED
  BY <1>1, <1>2, <1>3, <1>4, CommandGoesOn DEF PromoteState, xvars

(* A command records its event and is done.                                *)
LEMMA LogsAndLeaves ==
    ASSUME WInv, NEW c \in Evals, NEW action \in Actions, NEW before \in Content, NEW after \in Content,
           LogAndLeave(c, action, before, after), UNCHANGED evars,
           action = "promote" =>
              \E x \in DOMAIN experiments : /\ experiments[x].candidate = after
                                            /\ experiments[x].parent = before
                                            /\ experiments[x].status \in {"promoted", "rolled_back"}
    PROVE  WInv'
<1> DEFINE e == [action |-> action, before |-> before, after |-> after, at |-> Now]
<1>1. e \in WritersEvent /\ e.action = action /\ e.before = before /\ e.after = after
  BY ClockTyped DEF WInv, WritersEvent
<1>2. /\ events' = Append(events, e) /\ Leave(c)
      /\ UNCHANGED <<file, nextBody, status, execs, windows, up, registry, experiments>>
  BY DEF LogAndLeave, LogEvent
<1> HIDE DEF e
<1>3. /\ events' \in Seq(WritersEvent) /\ Len(events) \in Nat /\ Len(events') \in Nat
      /\ Len(events) <= Len(events')
  BY <1>1, <1>2, EventAdded DEF WInv, StoreTyped
<1>4. StoreTyped'
  BY <1>2, <1>3 DEF WInv, StoreTyped
<1>5. Onward /\ experiments' \in Seq(Experiment)
  BY <1>2, Unmoved DEF WInv, CommandsInv
<1>6. PromotionsReplaceTheirParent'
  BY <1>1, <1>2, <1>5, PromotionsAdded DEF WInv, StoreTyped
<1> QED
  BY <1>2, <1>3, <1>4, <1>5, <1>6, Left

(* The experiment of a command.                                            *)
LEMMA ItsExperiment ==
    ASSUME WInv, NEW c \in Evals, pc[c] \in WithExperiment
    PROVE  /\ brief[c].exp \in DOMAIN experiments
           /\ experiments[brief[c].exp] \in Experiment
           /\ experiments[brief[c].exp].parent \in Content
           /\ experiments[brief[c].exp].candidate \in Content
           /\ CommandAt(c)
<1>1. CommandAt(c)
  BY CommandKnows, ServeIsAnActor DEF WithExperiment
<1>2. brief[c].exp \in DOMAIN experiments
  BY <1>1 DEF CommandAt
<1>3. experiments[brief[c].exp] \in Experiment
  BY <1>2 DEF WInv, CommandsInv
<1> QED
  BY <1>1, <1>2, <1>3 DEF Experiment

LEMMA ItsContent ==
    ASSUME WInv, NEW c \in Evals
    PROVE  held[c] \in Content /\ packet[c].current \in Content
BY ServeIsAnActor DEF WInv, LocalsTyped, Packets

LEMMA StageEventKeeps == ASSUME WInv, NEW c \in Evals, StageEvent(c), UNCHANGED evars PROVE WInv'
<1>1. "candidate" \in Actions /\ "candidate" # "promote" /\ "stage_event" \in WithExperiment
  BY DEF Actions, WithExperiment, EvalLabels
<1> QED
  BY <1>1, ItsExperiment, ItsContent, LogsAndLeaves DEF StageEvent

LEMMA RejectEventKeeps == ASSUME WInv, NEW c \in Evals, RejectEvent(c), UNCHANGED evars PROVE WInv'
<1>1. "reject" \in Actions /\ "reject" # "promote"
  BY DEF Actions
<1> QED
  BY <1>1, ItsContent, LogsAndLeaves DEF RejectEvent

LEMMA PromoteEventKeeps == ASSUME WInv, NEW c \in Evals, PromoteEvent(c), UNCHANGED evars PROVE WInv'
<1>1. /\ "promote" \in Actions /\ "promote_event" \in WithExperiment
      /\ "promote_event" \in Promoting
  BY DEF Actions, WithExperiment, EvalLabels, Promoting
<1>2. pc[c] = "promote_event"
      /\ LogAndLeave(c, "promote", held[c], experiments[brief[c].exp].candidate)
  BY DEF PromoteEvent
<1>3. /\ brief[c].exp \in DOMAIN experiments
      /\ experiments[brief[c].exp].parent = held[c]
      /\ experiments[brief[c].exp].status \in {"promoted", "rolled_back"}
      /\ experiments[brief[c].exp].candidate \in Content
  BY <1>1, <1>2, ItsExperiment DEF CommandAt
<1> QED
  BY <1>1, <1>2, <1>3, ItsContent, LogsAndLeaves

(* A command takes up an experiment.                                       *)
LEMMA TakesExperiment ==
    ASSUME WInv, NEW c \in Evals, NEW label, label \in WithExperiment, Goto(c, label),
           NEW e, e \in Nat, e \in DOMAIN experiments', brief' = [brief EXCEPT ![c].exp = e],
           SkillStays, UNCHANGED <<seen, exec, packet, plan, evars>>,
           held' \in [Actors -> Content], \A q \in Actors : q # c => held'[q] = held[q],
           Onward, experiments' \in Seq(Experiment),
           label \in Promoting => held'[c] = experiments'[e].parent,
           label \notin {"promote_state", "promote_event"}
    PROVE  WInv'
<1>1. c \in Actors /\ StoreTyped' /\ UNCHANGED events /\ Len(events) \in Nat
  BY ServeIsAnActor, SkillStaysTyped
<1>2. label \in Labels /\ label \notin Applying
  BY DEF WithExperiment, Labels, EvalLabels, Applying
<1>3. PacketsAreOfThePast'
  BY <1>1, PastStays DEF WInv
<1>4. LocalsTyped' /\ pc' = [pc EXCEPT ![c] = label]
  <2>1. /\ seen' \in [Actors -> Statuses] /\ exec' \in [Actors -> Nat]
        /\ packet' \in [Actors -> Packets] /\ plan' \in [Actors -> Plan]
        /\ \A q \in Actors : q # c => plan'[q] = plan[q]
    BY DEF WInv, LocalsTyped
  <2> QED
    BY <1>1, <1>2, <1>3, <2>1, GoesOn DEF WInv
<1>5. /\ brief' \in [Evals -> Brief] /\ brief'[c].exp = e
      /\ \A q \in Evals : q # c => brief'[q] = brief[q]
  BY Briefed DEF WInv
<1>6. CommandAt(c)'
  <2>1. pc'[c] = label
    BY <1>1, <1>4 DEF WInv, LocalsTyped
  <2> QED
    BY <1>5, <2>1 DEF CommandAt
<1>7. PromotionsReplaceTheirParent'
  BY <1>1, PromotionsStay DEF WInv
<1> QED
  BY <1>1, <1>4, <1>5, <1>6, <1>7, CommandKeeps

LEMMA EvaluateKeeps ==
    ASSUME WInv, NEW c \in Evals, NEW e \in DOMAIN experiments, Evaluate(c, e), UNCHANGED evars
    PROVE  WInv'
<1>1. "testing" \in WithExperiment /\ "testing" \notin Promoting
      /\ "testing" \notin {"promote_state", "promote_event"}
  BY DEF WithExperiment, EvalLabels, Promoting
<1>2. /\ SkillStays /\ UNCHANGED <<held, seen, exec, packet, plan>> /\ Goto(c, "testing")
      /\ held' \in [Actors -> Content] /\ \A q \in Actors : q # c => held'[q] = held[q]
  BY DEF Evaluate, SkillStays, WInv, LocalsTyped
<1>3. CASE UNCHANGED experiments /\ brief' = [brief EXCEPT ![c].exp = e]
  <2>1. Onward /\ experiments' \in Seq(Experiment) /\ e \in DOMAIN experiments' /\ e \in Nat
    BY <1>3, Unmoved DEF WInv, CommandsInv
  <2> QED
    BY <1>1, <1>2, <1>3, <2>1, TakesExperiment
<1>4. CASE /\ experiments' = Append(experiments, [experiments[e] EXCEPT !.status = "candidate"])
           /\ brief' = [brief EXCEPT ![c].exp = Len(experiments')]
  <2> DEFINE x == [experiments[e] EXCEPT !.status = "candidate"]
             n == Len(experiments')
  <2>1. x \in Experiment /\ x.status = "candidate"
    <3>1. experiments[e] \in Experiment
      BY DEF WInv, CommandsInv
    <3> QED
      BY <3>1 DEF Experiment
  <2>2. experiments' = Append(experiments, x) /\ brief' = [brief EXCEPT ![c].exp = n]
    BY <1>4
  <2> HIDE DEF x
  <2>3. Onward /\ experiments' \in Seq(Experiment) /\ n \in Nat /\ n \in DOMAIN experiments'
    BY <2>1, <2>2, Appended DEF WInv, CommandsInv
  <2> HIDE DEF n
  <2> QED
    BY <1>1, <1>2, <2>2, <2>3, TakesExperiment
<1> QED
  BY <1>3, <1>4 DEF Evaluate

LEMMA HoldsFile ==
    ASSUME WInv, NEW c \in Evals, held' = [held EXCEPT ![c] = file]
    PROVE  /\ held' \in [Actors -> Content] /\ held'[c] = file
           /\ \A q \in Actors : q # c => held'[q] = held[q]
BY ServeIsAnActor DEF WInv, LocalsTyped, StoreTyped

LEMMA PromoteKeeps ==
    ASSUME WInv, NEW c \in Evals, NEW e \in DOMAIN experiments, Promote(c, e), UNCHANGED evars
    PROVE  WInv'
<1>1. "promote_file" \in WithExperiment /\ "promote_file" \notin {"promote_state", "promote_event"}
  BY DEF WithExperiment, EvalLabels
<1>2. /\ SkillStays /\ UNCHANGED <<seen, exec, packet, plan>> /\ Goto(c, "promote_file")
      /\ held' = [held EXCEPT ![c] = file] /\ brief' = [brief EXCEPT ![c].exp = e]
      /\ experiments[e].parent = file
  BY DEF Promote, SkillStays
<1>3. Onward /\ experiments' \in Seq(Experiment) /\ e \in DOMAIN experiments' /\ e \in Nat
      /\ experiments'[e].parent = file
  BY <1>2, Unmoved DEF Promote, WInv, CommandsInv
<1> QED
  BY <1>1, <1>2, <1>3, HoldsFile, TakesExperiment

LEMMA WithdrawKeeps ==
    ASSUME WInv, NEW c \in Evals, NEW e \in DOMAIN experiments, Withdraw(c, e), UNCHANGED evars
    PROVE  WInv'
<1>1. "withdraw_file" \in WithExperiment /\ "withdraw_file" \notin Promoting
      /\ "withdraw_file" \notin {"promote_state", "promote_event"}
  BY DEF WithExperiment, EvalLabels, Promoting
<1>2. /\ SkillStays /\ UNCHANGED <<seen, exec, packet, plan>> /\ Goto(c, "withdraw_file")
      /\ held' = [held EXCEPT ![c] = file] /\ brief' = [brief EXCEPT ![c].exp = e]
  BY DEF Withdraw, SkillStays
<1>3. Onward /\ experiments' \in Seq(Experiment) /\ e \in DOMAIN experiments' /\ e \in Nat
  BY Unmoved DEF Withdraw, WInv, CommandsInv
<1> QED
  BY <1>1, <1>2, <1>3, HoldsFile, TakesExperiment

LEMMA ConcludeKeeps ==
    ASSUME WInv, NEW c \in Evals, NEW new \in {"validated", "rejected", "inconclusive"},
           Conclude(c, new), UNCHANGED evars
    PROVE  WInv'
<1>1. pc[c] \in WithExperiment /\ Leave(c) /\ SkillStays
  BY DEF Conclude, WithExperiment, EvalLabels, SkillStays
<1>2. CASE MayBecome(brief[c].exp, new)
  <2>1. experiments' = Transitioned(brief[c].exp, new)
    BY <1>2 DEF Conclude
  <2>2. brief[c].exp \in DOMAIN experiments
    BY <1>1, ItsExperiment
  <2>3. Onward /\ experiments' \in Seq(Experiment)
    BY <1>2, <2>1, <2>2, Moved DEF WInv, CommandsInv
  <2>4. StoreTyped' /\ UNCHANGED events /\ Len(events') \in Nat /\ Len(events) <= Len(events')
    BY <1>1, SkillStaysTyped
  <2>5. PromotionsReplaceTheirParent'
    BY <2>3, <2>4, PromotionsStay DEF WInv
  <2> QED
    BY <1>1, <2>3, <2>4, <2>5, Left
<1>3. CASE ~MayBecome(brief[c].exp, new)
  BY <1>1, <1>3, JustLeft DEF Conclude
<1> QED
  BY <1>2, <1>3

LEMMA InstallFileKeeps == ASSUME WInv, NEW c \in Evals, InstallFile(c), UNCHANGED evars PROVE WInv'
<1>1. /\ UNCHANGED <<nextBody, db, up, registry, held, seen, exec, packet, plan, xvars>>
      /\ \/ /\ pc[c] = "promote_file" /\ file' = experiments[brief[c].exp].candidate
            /\ Goto(c, "promote_mark")
         \/ /\ pc[c] = "withdraw_file" /\ file' = experiments[brief[c].exp].parent
            /\ Goto(c, "withdraw_mark")
  BY DEF InstallFile
<1>2. /\ {"promote_file", "promote_mark", "withdraw_file", "withdraw_mark"} \subseteq WithExperiment
      /\ WithExperiment \subseteq EvalLabels
      /\ "promote_file" \in Promoting /\ "withdraw_mark" \notin Promoting
  BY DEF WithExperiment, EvalLabels, Promoting
<1>3. StoreTyped'
  <2>1. file' \in Content
    BY <1>1, <1>2, ItsExperiment
  <2> QED
    BY <1>1, <2>1 DEF WInv, StoreTyped, db
<1>4. Onward /\ experiments' \in Seq(Experiment)
  BY <1>1, Unmoved DEF WInv, CommandsInv, xvars
<1> QED
  BY <1>1, <1>2, <1>3, <1>4, CommandGoesOn DEF db, xvars

LEMMA MarkKeeps == ASSUME WInv, NEW c \in Evals, Mark(c), UNCHANGED evars PROVE WInv'
<1> DEFINE new == IF pc[c] = "promote_mark" THEN "promoted" ELSE "rolled_back"
           label == IF new = "promoted" THEN "promote_state" ELSE "withdraw_event"
           e == brief[c].exp
<1>1. /\ pc[c] \in {"promote_mark", "withdraw_mark"} /\ SkillStays
      /\ \/ /\ MayBecome(e, new) /\ experiments' = Transitioned(e, new) /\ Goto(c, label)
            /\ UNCHANGED <<held, seen, exec, packet, plan, brief>>
         \/ Leave(c) /\ UNCHANGED experiments
  BY DEF Mark, SkillStays
<1>2. /\ pc[c] \in WithExperiment /\ pc[c] \in EvalLabels
      /\ label \in WithExperiment /\ label \in EvalLabels
      /\ label \in Promoting => pc[c] \in Promoting
      /\ new \in {"promoted", "rolled_back"}
  BY <1>1 DEF WithExperiment, EvalLabels, Promoting
<1>3. e \in DOMAIN experiments
  BY <1>2, ItsExperiment
<1> HIDE DEF new, label
<1>4. CASE Leave(c) /\ UNCHANGED experiments
  BY <1>1, <1>4, JustLeft
<1>5. CASE /\ MayBecome(e, new) /\ experiments' = Transitioned(e, new) /\ Goto(c, label)
           /\ UNCHANGED <<held, seen, exec, packet, plan, brief>>
  <2>1. Onward /\ experiments' \in Seq(Experiment) /\ experiments'[e].status = new
    BY <1>2, <1>3, <1>5, Moved DEF WInv, CommandsInv
  <2> QED
    BY <1>1, <1>2, <1>5, <2>1, SkillStaysTyped, CommandGoesOn
<1> QED
  BY <1>1, <1>4, <1>5

LEMMA WithdrawEventKeeps == ASSUME WInv, NEW c \in Evals, WithdrawEvent(c), UNCHANGED evars PROVE WInv'
<1> DEFINE e == [action |-> "rollback", before |-> held[c],
                 after |-> experiments[brief[c].exp].parent, at |-> Now]
<1>1. /\ pc[c] = "withdraw_event" /\ events' = Append(events, e) /\ Goto(c, "withdraw_state")
      /\ UNCHANGED <<file, nextBody, status, execs, windows, up, registry, held, seen, exec, packet, plan, xvars>>
  BY DEF WithdrawEvent, LogEvent
<1>2. /\ {"withdraw_event", "withdraw_state"} \subseteq WithExperiment
      /\ WithExperiment \subseteq EvalLabels /\ "withdraw_state" \notin Promoting
      /\ "withdraw_state" \in Labels /\ "withdraw_state" \notin Applying
      /\ "withdraw_state" \notin {"promote_state", "promote_event"}
  BY DEF WithExperiment, EvalLabels, Promoting, Labels, Applying
<1>3. e \in WritersEvent /\ e.action # "promote"
  <2>1. held[c] \in Content /\ experiments[brief[c].exp].parent \in Content /\ Now \in Nat
    BY <1>1, <1>2, ItsExperiment, ItsContent, ClockTyped DEF WInv
  <2>2. "rollback" \in Actions
    BY DEF Actions, Decisions
  <2> QED
    BY <2>1, <2>2 DEF WritersEvent
<1> HIDE DEF e
<1>4. /\ events' \in Seq(WritersEvent) /\ Len(events) \in Nat /\ Len(events') \in Nat
      /\ Len(events) <= Len(events')
  BY <1>1, <1>3, EventAdded DEF WInv, StoreTyped
<1>5. StoreTyped'
  BY <1>1, <1>4 DEF WInv, StoreTyped
<1>6. Onward /\ experiments' \in Seq(Experiment) /\ brief' = brief /\ UNCHANGED experiments
  BY <1>1, Unmoved DEF WInv, CommandsInv, xvars
<1>7. PromotionsReplaceTheirParent'
  BY <1>1, <1>3, <1>6, PromotionsAdded DEF WInv, StoreTyped
<1>8. c \in Actors
  BY ServeIsAnActor
<1>9. LocalsTyped' /\ pc' = [pc EXCEPT ![c] = "withdraw_state"]
  BY <1>1, <1>2, <1>4, <1>8, JustGoesOn DEF WInv
<1>10. CommandAt(c)'
  <2>1. pc'[c] = "withdraw_state"
    BY <1>8, <1>9 DEF WInv, LocalsTyped
  <2>2. brief[c].exp \in DOMAIN experiments
    BY <1>1, <1>2, ItsExperiment
  <2> QED
    BY <1>2, <1>6, <2>1, <2>2 DEF CommandAt
<1>11. brief' \in [Evals -> Brief]
  BY <1>6 DEF WInv, CommandsInv
<1> QED
  BY <1>1, <1>5, <1>6, <1>7, <1>8, <1>9, <1>10, <1>11, CommandKeeps

LEMMA WithdrawStateKeeps == ASSUME WInv, NEW c \in Evals, WithdrawState(c), UNCHANGED evars PROVE WInv'
<1>1. /\ status' = "active" /\ Leave(c)
      /\ UNCHANGED <<file, nextBody, events, execs, windows, up, registry, experiments>>
  BY DEF WithdrawState
<1>2. StoreTyped' /\ Len(events') \in Nat /\ Len(events) <= Len(events')
  BY <1>1 DEF WInv, StoreTyped, Statuses
<1>3. Onward /\ experiments' \in Seq(Experiment)
  BY <1>1, Unmoved DEF WInv, CommandsInv
<1> QED
  BY <1>1, <1>2, <1>3, NoEventKeeps, Left

LEMMA EvalKeeps == ASSUME WInv, NEW c \in Evals, Eval(c), UNCHANGED evars PROVE WInv'
<1>1. CASE Iterate(c) \/ Propose(c) \/ StageState(c) \/ StageEvent(c) \/ RejectEvent(c) \/ ApplyDirectly(c)
  BY <1>1, IterateKeeps, ProposeOnOpen, ProposeOnNone, StageStateKeeps, StageEventKeeps,
     RejectEventKeeps, DirectlyKeeps
<1>2. CASE \E e \in DOMAIN experiments : Evaluate(c, e) \/ Promote(c, e) \/ Withdraw(c, e)
  BY <1>2, EvaluateKeeps, PromoteKeeps, WithdrawKeeps
<1>3. CASE \E new \in {"validated", "rejected", "inconclusive"} : Conclude(c, new)
  BY <1>3, ConcludeKeeps
<1>4. CASE InstallFile(c) \/ Mark(c) \/ PromoteState(c) \/ PromoteEvent(c)
  BY <1>4, InstallFileKeeps, MarkKeeps, PromoteStateKeeps, PromoteEventKeeps
<1>5. CASE WithdrawEvent(c) \/ WithdrawState(c) \/ EvalStops(c)
  BY <1>5, WithdrawEventKeeps, WithdrawStateKeeps, EvalStopsKeeps
<1> QED
  BY <1>1, <1>2, <1>3, <1>4, <1>5 DEF Eval

-----------------------------------------------------------------------------
(* Emergence *)

(* An attempt moves: no actor and no command does.                         *)
LEMMA AttemptKeeps ==
    ASSUME WInv, UNCHANGED xvars, UNCHANGED <<pc, held, seen, exec, packet, plan>>,
           Len(events') \in Nat, Len(events) <= Len(events'),
           StoreTyped', AttemptsTyped', PromotionsReplaceTheirParent'
    PROVE  WInv'
<1>1. LocalsTyped'
  <2>1. PacketsAreOfThePast'
    BY PastStays DEF WInv, StoreTyped
  <2> QED
    BY <2>1 DEF WInv, LocalsTyped, OnlyChangesAreApplied
<1>2. CommandsInv'
  BY DEF WInv, CommandsInv, CommandAt, xvars
<1> QED
  BY <1>1, <1>2 DEF WInv

LEMMA Advances ==
    ASSUME AttemptsTyped, NEW a \in Attempts,
           NEW label \in AwaitingModel \cup HoldingLoop, Advance(a, label)
    PROVE  stage' \in [Attempts -> AwaitingModel \cup HoldingLoop]
BY DEF AttemptsTyped, Advance

LEMMA EndsTyped ==
    ASSUME AttemptsTyped, NEW a \in Attempts, Ends(a)
    PROVE  AttemptsTyped'
<1>1. NoDraft \in Draft
  BY NoLocalsTyped DEF NoDraft, Draft, EmergenceActions
<1> QED
  BY <1>1 DEF AttemptsTyped, Ends, Advance, AwaitingModel

(* A step that leaves the skill, its rows and the actors alone.            *)
LEMMA OnlyTheAttempt ==
    ASSUME WInv, UNCHANGED vars, UNCHANGED xvars, AttemptsTyped'
    PROVE  WInv'
<1>1. StoreTyped' /\ UNCHANGED <<pc, held, seen, exec, packet, plan>> /\ UNCHANGED events
  BY DEF WInv, StoreTyped, vars, db
<1>2. PromotionsReplaceTheirParent'
  BY <1>1, NoEventKeeps DEF xvars
<1> QED
  BY <1>1, <1>2, AttemptKeeps DEF StoreTyped, WInv

LEMMA BeginKeeps == ASSUME WInv, NEW a \in Attempts, Begin(a), UNCHANGED xvars PROVE WInv'
<1>1. AttemptsTyped'
  BY Advances DEF Begin, WInv, AttemptsTyped, AwaitingModel
<1> QED
  BY <1>1, OnlyTheAttempt DEF Begin, vars

LEMMA ResolveKeeps == ASSUME WInv, NEW a \in Attempts, Resolve(a), UNCHANGED xvars PROVE WInv'
<1> DEFINE action == IF registry.in THEN "update" ELSE "activate"
           d == [draft[a] EXCEPT !.action = action]
<1>1. d \in Draft
  BY DEF WInv, AttemptsTyped, Draft, EmergenceActions
<1>2. draft' = [draft EXCEPT ![a] = d]
  BY DEF Resolve
<1> HIDE DEF d
<1>3. draft' \in [Attempts -> Draft]
  BY <1>1, <1>2 DEF WInv, AttemptsTyped
<1>4. stage' \in [Attempts -> AwaitingModel \cup HoldingLoop]
  BY Advances DEF Resolve, WInv, AwaitingModel
<1> QED
  BY <1>3, <1>4, OnlyTheAttempt DEF Resolve, AttemptsTyped

LEMMA GivesUpKeeps == ASSUME WInv, NEW a \in Attempts, GivesUp(a), UNCHANGED xvars PROVE WInv'
BY EndsTyped, OnlyTheAttempt DEF GivesUp, WInv

LEMMA EmergenceFailsKeeps == ASSUME WInv, NEW a \in Attempts, EmergenceFails(a), UNCHANGED xvars PROVE WInv'
BY EndsTyped, OnlyTheAttempt DEF EmergenceFails, WInv

LEMMA SynthesizeKeeps == ASSUME WInv, NEW a \in Attempts, Synthesize(a), UNCHANGED xvars PROVE WInv'
<1>1. /\ nextBody' = nextBody + 1
      /\ UNCHANGED <<file, status, events, execs, windows, up, registry, pc, held, seen, exec, packet, plan>>
      /\ Advance(a, "writing")
  BY DEF Synthesize, db
<1>2. StoreTyped' /\ Len(events') \in Nat /\ Len(events) <= Len(events')
  BY <1>1 DEF WInv, StoreTyped
<1> DEFINE after == [ver |-> 0, body |-> nextBody]
<1>3. after \in Content /\ file \in Content
  BY DEF WInv, StoreTyped, Content
<1>4. \/ draft' = [draft EXCEPT ![a].before = file, ![a].after = after]
      \/ \E parsed \in BOOLEAN :
            draft' = [draft EXCEPT ![a].action = IF parsed THEN "activate" ELSE "activation_failed",
                                   ![a].after = after]
  BY DEF Synthesize
<1> HIDE DEF after
<1>5. draft[a] \in Draft
  BY DEF WInv, AttemptsTyped
<1>6. draft' \in [Attempts -> Draft]
  <2>1. CASE draft' = [draft EXCEPT ![a].before = file, ![a].after = after]
    <3> DEFINE d == [draft[a] EXCEPT !.before = file, !.after = after]
    <3>1. d \in Draft
      BY <1>3, <1>5 DEF Draft
    <3>2. draft' = [draft EXCEPT ![a] = d]
      BY <2>1 DEF WInv, AttemptsTyped
    <3> HIDE DEF d
    <3> QED
      BY <3>1, <3>2 DEF WInv, AttemptsTyped
  <2>2. ASSUME NEW parsed \in BOOLEAN,
               draft' = [draft EXCEPT ![a].action = IF parsed THEN "activate" ELSE "activation_failed",
                                      ![a].after = after]
        PROVE  draft' \in [Attempts -> Draft]
    <3> DEFINE action == IF parsed THEN "activate" ELSE "activation_failed"
               d == [draft[a] EXCEPT !.action = action, !.after = after]
    <3>1. d \in Draft
      BY <1>3, <1>5 DEF Draft, EmergenceActions
    <3>2. draft' = [draft EXCEPT ![a] = d]
      BY <2>2 DEF WInv, AttemptsTyped
    <3> HIDE DEF d
    <3> QED
      BY <3>1, <3>2 DEF WInv, AttemptsTyped
  <2> QED
    BY <1>4, <2>1, <2>2
<1>7. stage' \in [Attempts -> AwaitingModel \cup HoldingLoop]
  BY <1>1, Advances DEF WInv, HoldingLoop
<1>8. PromotionsReplaceTheirParent'
  BY <1>1, NoEventKeeps DEF xvars
<1> QED
  BY <1>1, <1>2, <1>6, <1>7, <1>8, AttemptKeeps DEF AttemptsTyped

LEMMA DraftFields ==
    ASSUME WInv, NEW a \in Attempts
    PROVE  /\ draft[a].before \in Content /\ draft[a].after \in Content
           /\ draft[a].action \in Actions /\ draft[a].action # "promote"
<1>1. draft[a] \in Draft
  BY DEF WInv, AttemptsTyped
<1> QED
  BY <1>1 DEF Draft, EmergenceActions, Actions

LEMMA WriteBundleKeeps == ASSUME WInv, NEW a \in Attempts, WriteBundle(a), UNCHANGED xvars PROVE WInv'
<1>1. StoreTyped' /\ UNCHANGED events /\ Len(events') \in Nat /\ Len(events) <= Len(events')
  BY DraftFields DEF WInv, StoreTyped, WriteBundle, db
<1>2. AttemptsTyped'
  BY Advances DEF WriteBundle, WInv, AttemptsTyped, HoldingLoop
<1>3. PromotionsReplaceTheirParent'
  BY <1>1, NoEventKeeps DEF xvars
<1> QED
  BY <1>1, <1>2, <1>3, AttemptKeeps DEF WriteBundle

LEMMA RegisterStateKeeps == ASSUME WInv, NEW a \in Attempts, RegisterState(a), UNCHANGED xvars PROVE WInv'
<1>1. StoreTyped' /\ UNCHANGED events /\ Len(events') \in Nat /\ Len(events) <= Len(events')
  BY DEF WInv, StoreTyped, RegisterState, Statuses
<1>2. AttemptsTyped'
  BY Advances DEF RegisterState, WInv, AttemptsTyped, HoldingLoop
<1>3. PromotionsReplaceTheirParent'
  BY <1>1, NoEventKeeps DEF xvars
<1> QED
  BY <1>1, <1>2, <1>3, AttemptKeeps DEF RegisterState

LEMMA LogEmergenceKeeps == ASSUME WInv, NEW a \in Attempts, LogEmergence(a), UNCHANGED xvars PROVE WInv'
<1> DEFINE e == [action |-> draft[a].action, before |-> draft[a].before,
                 after |-> draft[a].after, at |-> Now]
<1>1. /\ UNCHANGED <<file, nextBody, status, execs, windows, up, registry, pc, held, seen, exec, packet, plan>>
      /\ events' = Append(events, e)
  BY DEF LogEmergence
<1>2. e \in WritersEvent /\ e.action # "promote"
  BY DraftFields, ClockTyped DEF WInv, WritersEvent
<1> HIDE DEF e
<1>3. events' \in Seq(WritersEvent) /\ Len(events') \in Nat /\ Len(events) <= Len(events')
  BY <1>1, <1>2, EventAdded DEF WInv, StoreTyped
<1>4. StoreTyped'
  BY <1>1, <1>3 DEF WInv, StoreTyped
<1>5. AttemptsTyped'
  <2>1. CASE Ends(a)
    BY <2>1, EndsTyped DEF WInv
  <2>2. CASE Advance(a, "registering") /\ UNCHANGED draft
    BY <2>2, Advances DEF WInv, AttemptsTyped, HoldingLoop
  <2> QED
    BY <2>1, <2>2 DEF LogEmergence
<1>6. Onward
  BY Unmoved DEF WInv, CommandsInv, xvars
<1>7. PromotionsReplaceTheirParent'
  BY <1>1, <1>2, <1>6, PromotionsAdded DEF WInv, StoreTyped
<1> QED
  BY <1>1, <1>3, <1>4, <1>5, <1>7, AttemptKeeps

LEMMA RegisterEmergedKeeps == ASSUME WInv, NEW a \in Attempts, RegisterEmerged(a), UNCHANGED xvars PROVE WInv'
<1>1. StoreTyped' /\ UNCHANGED events /\ Len(events') \in Nat /\ Len(events) <= Len(events')
  BY DraftFields DEF WInv, StoreTyped, RegisterEmerged, db, Registered, Statuses
<1>2. AttemptsTyped'
  BY EndsTyped DEF RegisterEmerged, WInv
<1>3. PromotionsReplaceTheirParent'
  BY <1>1, NoEventKeeps DEF xvars
<1> QED
  BY <1>1, <1>2, <1>3, AttemptKeeps DEF RegisterEmerged

-----------------------------------------------------------------------------
(* The inductive invariant *)

LEMMA WritersStart == WritersInit => WInv
<1> SUFFICES ASSUME WritersInit PROVE WInv
  OBVIOUS
<1>1. StoreTyped
  <2>1. /\ events \in Seq(WritersEvent)
        /\ execs \in Seq(Execution)
        /\ windows \in Seq(Window)
    BY DEF WritersInit, Init
  <2> QED
    BY <2>1, NoLocalsTyped DEF WritersInit, Init, StoreTyped, Installed, Content
<1>2. LocalsTyped
  <2>1. /\ held \in [Actors -> Content]
        /\ packet \in [Actors -> Packets]
        /\ plan \in [Actors -> Plan]
    BY NoLocalsTyped DEF WritersInit, Init
  <2>2. /\ pc \in [Actors -> Labels]
        /\ seen \in [Actors -> Statuses]
        /\ exec \in [Actors -> Nat]
    BY LabelsKnown DEF WritersInit, Init, Statuses
  <2>3. PacketsAreOfThePast /\ OnlyChangesAreApplied
    BY NoLocalsTyped DEF WritersInit, Init, PacketsAreOfThePast, OnlyChangesAreApplied, Applying
  <2> QED
    BY <2>1, <2>2, <2>3 DEF LocalsTyped
<1>3. AttemptsTyped
  BY NoLocalsTyped DEF WritersInit, EmergenceInit, AttemptsTyped, AwaitingModel, NoDraft, Draft, EmergenceActions
<1>4. CommandsInv
  <2>1. experiments \in Seq(Experiment) /\ brief \in [Evals -> Brief]
    BY DEF WritersInit, ExperimentsInit, NoBrief, Brief
  <2>2. \A c \in Actors : pc[c] \notin EvalLabels
    BY DEF WritersInit, Init, EvalLabels
  <2> QED
    BY <2>1, <2>2 DEF CommandsInv
<1>5. PromotionsReplaceTheirParent
  BY DEF WritersInit, Init, PromotionsReplaceTheirParent
<1> QED
  BY <1>1, <1>2, <1>3, <1>4, <1>5 DEF WInv

LEMMA ServeStepKeeps == ASSUME WInv, ServeStep PROVE WInv'
<1>1. Alone
  BY DEF ServeStep, Alone
<1>2. CASE Start
  BY <1>1, <1>2, StartKeeps
<1>3. CASE \E t \in Turns : Prune(t) \/ Turn(t)
  <2>1. PICK t \in Turns : Prune(t) \/ Turn(t)
    BY <1>3
  <2>2. t \in Actors /\ Beside(t)
    BY <1>1, ServeIsAnActor, AloneIsBeside
  <2>3. CASE Prune(t) \/ Match(t) \/ NoMatch(t) \/ AnswerFails(t)
    BY <1>1, <2>3, PruneKeeps, MatchKeeps, NoMatchKeeps, AnswerFailsKeeps
  <2>4. CASE Answer(t) \/ Record(t) \/ JudgeFails(t) \/ Reconcile(t) \/ Rewriter(t)
    BY <1>1, <2>4, AnswerKeeps, RecordKeeps, JudgeFailsKeeps, ReconcileKeeps, RewriterKeeps
  <2>5. CASE \E score \in Scores : Judge(t, score)
    BY <1>1, <2>5, JudgeKeeps
  <2>6. CASE Apply(t) \/ Reload(t)
    BY <2>2, <2>6, DecideKeeps, WriteFileKeeps, WriteStateKeeps, WriteEventKeeps, WriteFailsKeeps,
       ReloadKeeps DEF Apply
  <2> QED
    BY <2>1, <2>3, <2>4, <2>5, <2>6 DEF Turn
<1>4. CASE \E i \in DOMAIN execs, sig \in Clicks : Feedback(i, sig)
  BY <1>1, <1>4, FeedbackKeeps
<1>5. CASE Apply(Web) \/ Reload(Web)
  <2>1. Web \in Actors /\ Beside(Web)
    BY <1>1, ServeIsAnActor, AloneIsBeside
  <2> QED
    BY <1>5, <2>1, DecideKeeps, WriteFileKeeps, WriteStateKeeps, WriteEventKeeps, WriteFailsKeeps,
       ReloadKeeps DEF Apply
<1> QED
  BY <1>2, <1>3, <1>4, <1>5 DEF ServeStep

LEMMA RunStepKeeps == ASSUME WInv, RunStep PROVE WInv'
<1>1. Alone
  BY DEF RunStep, Alone
<1>2. PICK r \in Runs : RunLoad(r) \/ Run(r) \/ RunCrash(r)
  BY DEF RunStep
<1>3. r \in Actors /\ Beside(r)
  BY <1>1, ServeIsAnActor, AloneIsBeside
<1>4. CASE RunLoad(r) \/ RunCrash(r)
  BY <1>1, <1>3, <1>4, RunLoadKeeps, RunCrashKeeps
<1>5. CASE RunRead(r) \/ RunSkip(r) \/ RunGovern(r)
  BY <1>1, <1>5, RunReadKeeps, RunSkipKeeps, RunGovernKeeps
<1>6. CASE Apply(r)
  BY <1>3, <1>6, DecideKeeps, WriteFileKeeps, WriteStateKeeps, WriteEventKeeps, WriteFailsKeeps DEF Apply
<1> QED
  BY <1>2, <1>4, <1>5, <1>6 DEF Run

LEMMA EmergenceStepKeeps == ASSUME WInv, EmergenceStep PROVE WInv'
<1>1. PICK a \in Attempts : Emerge(a)
  BY DEF EmergenceStep
<1>2. UNCHANGED xvars
  BY DEF EmergenceStep
<1> QED
  BY <1>1, <1>2, BeginKeeps, ResolveKeeps, GivesUpKeeps, SynthesizeKeeps, WriteBundleKeeps,
     RegisterStateKeeps, LogEmergenceKeeps, RegisterEmergedKeeps, EmergenceFailsKeeps DEF Emerge

LEMMA WritersNextKeeps == WInv /\ [WritersNext]_writers => WInv'
<1> SUFFICES ASSUME WInv, [WritersNext]_writers PROVE WInv'
  OBVIOUS
<1>1. CASE ServeStep \/ ServeDies \/ ServeStops
  BY <1>1, ServeStepKeeps, ServeDiesKeeps, ServeStopsKeeps
<1>2. CASE RunStep
  BY <1>2, RunStepKeeps
<1>3. CASE EvalStep
  BY <1>3, EvalKeeps DEF EvalStep
<1>4. CASE EmergenceStep
  BY <1>4, EmergenceStepKeeps
<1>5. CASE UNCHANGED writers
  <2>1. AttemptsTyped'
    BY <1>5 DEF WInv, AttemptsTyped, writers, evars
  <2> QED
    BY <1>5, <2>1, OnlyTheAttempt DEF writers
<1> QED
  BY <1>1, <1>2, <1>3, <1>4, <1>5 DEF WritersNext

LEMMA WritersAlways == WritersSpec => []WInv
BY WritersStart, WritersNextKeeps, PTL DEF WritersSpec

-----------------------------------------------------------------------------
(* Every step moves the experiments onward *)

LEMMA ProposeOnward == ASSUME WInv, NEW c \in Evals, Propose(c) PROVE Onward
<1>1. CASE UNCHANGED experiments
  BY <1>1, Unmoved DEF WInv, CommandsInv
<1>2. CASE OpenCandidates # {} /\ experiments' # experiments
  <2> DEFINE e == Max(OpenCandidates)
  <2>1. Len(experiments) \in Nat /\ OpenCandidates \subseteq 0..Len(experiments)
    BY DEF OpenCandidates, WInv, CommandsInv
  <2>2. e \in OpenCandidates
    BY <1>2, <2>1, MaxOfNat
  <2>3. e \in DOMAIN experiments
    BY <2>2 DEF OpenCandidates
  <2>4. MayBecome(e, "rejected") /\ experiments' = Transitioned(e, "rejected")
    BY <1>2 DEF Propose
  <2> HIDE DEF e
  <2> QED
    BY <2>3, <2>4, Moved DEF WInv, CommandsInv
<1>3. CASE OpenCandidates = {} /\ experiments' # experiments
  <2> DEFINE x == [status |-> "candidate", parent |-> packet[c].current,
                   candidate |-> [ver |-> FreshVersion, body |-> nextBody],
                   sources |-> brief[c].sources]
  <2>1. experiments' = Append(experiments, x)
    BY <1>3 DEF Propose
  <2>2. x \in Experiment /\ x.status = "candidate"
    <3>1. packet[c].current \in Content /\ nextBody \in Nat /\ Len(experiments) \in Nat
      BY ItsContent DEF WInv, StoreTyped, CommandsInv
    <3>2. brief[c].sources \in SUBSET Nat
      BY DEF WInv, CommandsInv, Brief
    <3> QED
      BY <3>1, <3>2 DEF Experiment, Content, FreshVersion
  <2> HIDE DEF x
  <2> QED
    BY <2>1, <2>2, Appended DEF WInv, CommandsInv
<1> QED
  BY <1>1, <1>2, <1>3

LEMMA EvaluateOnward ==
    ASSUME WInv, NEW c \in Evals, NEW e \in DOMAIN experiments, Evaluate(c, e)
    PROVE  Onward
<1> DEFINE x == [experiments[e] EXCEPT !.status = "candidate"]
<1>1. UNCHANGED experiments \/ experiments' = Append(experiments, x)
  BY DEF Evaluate
<1>2. x \in Experiment /\ x.status = "candidate"
  <2>1. experiments[e] \in Experiment
    BY DEF WInv, CommandsInv
  <2> QED
    BY <2>1 DEF Experiment
<1> HIDE DEF x
<1> QED
  BY <1>1, <1>2, Unmoved, Appended DEF WInv, CommandsInv

LEMMA ConcludeOnward ==
    ASSUME WInv, NEW c \in Evals, NEW new \in {"validated", "rejected", "inconclusive"}, Conclude(c, new)
    PROVE  Onward
<1>1. pc[c] \in WithExperiment
  BY DEF Conclude, WithExperiment, EvalLabels
<1>2. brief[c].exp \in DOMAIN experiments
  BY <1>1, ItsExperiment
<1>3. \/ UNCHANGED experiments
      \/ MayBecome(brief[c].exp, new) /\ experiments' = Transitioned(brief[c].exp, new)
  BY DEF Conclude
<1> QED
  BY <1>2, <1>3, Unmoved, Moved DEF WInv, CommandsInv

LEMMA MarkOnward == ASSUME WInv, NEW c \in Evals, Mark(c) PROVE Onward
<1> DEFINE new == IF pc[c] = "promote_mark" THEN "promoted" ELSE "rolled_back"
<1>1. pc[c] \in WithExperiment
  BY DEF Mark, WithExperiment, EvalLabels
<1>2. brief[c].exp \in DOMAIN experiments
  BY <1>1, ItsExperiment
<1>3. \/ UNCHANGED experiments
      \/ MayBecome(brief[c].exp, new) /\ experiments' = Transitioned(brief[c].exp, new)
  BY DEF Mark
<1>4. new \in {"promoted", "rolled_back"}
  OBVIOUS
<1> HIDE DEF new
<1> QED
  BY <1>2, <1>3, <1>4, Unmoved, Moved DEF WInv, CommandsInv

LEMMA EveryStepOnward == ASSUME WInv, [WritersNext]_writers PROVE Onward
<1>1. UNCHANGED experiments => Onward
  BY Unmoved DEF WInv, CommandsInv
<1>2. CASE ServeStep \/ ServeDies \/ ServeStops \/ RunStep \/ EmergenceStep \/ UNCHANGED writers
  BY <1>1, <1>2 DEF ServeStep, ServeDies, ServeStops, RunStep, EmergenceStep, writers, xvars
<1>3. ASSUME NEW c \in Evals, Eval(c)
      PROVE  Onward
  <2>1. CASE Propose(c)
    BY <2>1, ProposeOnward
  <2>2. CASE \E e \in DOMAIN experiments : Evaluate(c, e)
    BY <2>2, EvaluateOnward
  <2>3. CASE \E new \in {"validated", "rejected", "inconclusive"} : Conclude(c, new)
    BY <2>3, ConcludeOnward
  <2>4. CASE Mark(c)
    BY <2>4, MarkOnward
  <2>5. CASE Iterate(c) \/ StageState(c) \/ StageEvent(c) \/ RejectEvent(c) \/ ApplyDirectly(c)
    BY <1>1, <2>5 DEF Iterate, StageState, StageEvent, RejectEvent, ApplyDirectly, LogAndLeave, xvars
  <2>6. CASE \E e \in DOMAIN experiments : Promote(c, e) \/ Withdraw(c, e)
    BY <1>1, <2>6 DEF Promote, Withdraw
  <2>7. CASE \/ InstallFile(c) \/ PromoteState(c) \/ PromoteEvent(c)
             \/ WithdrawEvent(c) \/ WithdrawState(c) \/ EvalStops(c)
    BY <1>1, <2>7 DEF InstallFile, PromoteState, PromoteEvent, WithdrawEvent, WithdrawState, EvalStops,
                      LogAndLeave, xvars
  <2> QED
    BY <1>3, <2>1, <2>2, <2>3, <2>4, <2>5, <2>6, <2>7 DEF Eval
<1> QED
  BY <1>2, <1>3 DEF WritersNext, EvalStep

(* An experiment that moved onward took a step of its life cycle.          *)
LEMMA OnwardIsAStep ==
    ASSUME WInv, Onward, NEW e
    PROVE  Lifecycle(e)!Next \/ UNCHANGED StatusOfExperiment(e)
<1>1. CASE e \in DOMAIN experiments /\ experiments'[e].status # experiments[e].status
  <2> DEFINE s == experiments'[e].status
  <2>1. /\ StatusOfExperiment(e) = experiments[e].status
        /\ StatusOfExperiment(e)' = s
        /\ s \in Lifecycle(e)!Transitions[StatusOfExperiment(e)]
    BY <1>1 DEF StatusOfExperiment, Onward
  <2>2. StatusOfExperiment(e) \in {"candidate", "validated", "rejected", "inconclusive", "promoted", "rolled_back"}
    <3>1. experiments[e] \in Experiment
      BY <1>1 DEF WInv, CommandsInv
    <3> QED
      BY <2>1, <3>1 DEF Experiment
  <2> HIDE DEF s
  <2>3. s \in Lifecycle(e)!Statuses
    BY <2>1, <2>2 DEF Lifecycle!Transitions, Lifecycle!Statuses, Lifecycle!Open
  <2>4. Lifecycle(e)!Transition(s)
    BY <2>1 DEF Lifecycle!Transition
  <2> QED
    BY <2>3, <2>4 DEF Lifecycle!Next
<1>2. CASE e \in DOMAIN experiments /\ experiments'[e].status = experiments[e].status
  BY <1>2 DEF StatusOfExperiment, Onward
<1>3. CASE e \notin DOMAIN experiments
  BY <1>3 DEF StatusOfExperiment, Onward
<1> QED
  BY <1>1, <1>2, <1>3

-----------------------------------------------------------------------------
(* Theorems *)

(* Whatever serve, its attempts and the commands do to each other, every    *)
(* row, event and label is one the schema and the commands know.            *)
THEOREM WritersTypeCorrect == WritersSpec => []WritersTypeOK
<1>1. WInv => WritersTypeOK
  <2> SUFFICES ASSUME WInv PROVE WritersTypeOK
    OBVIOUS
  <2>1. \A i \in DOMAIN events : /\ events[i].action \in Actions
                                 /\ events[i].before \in Content /\ events[i].after \in Content
    <3> SUFFICES ASSUME NEW i \in DOMAIN events
                 PROVE  /\ events[i].action \in Actions
                        /\ events[i].before \in Content /\ events[i].after \in Content
      OBVIOUS
    <3>1. events[i] \in WritersEvent
      BY DEF WInv, StoreTyped
    <3> QED
      BY <3>1 DEF WritersEvent
  <2> QED
    BY <2>1 DEF WInv, StoreTyped, LocalsTyped, AttemptsTyped, CommandsInv, Labels, Registered, WritersTypeOK
<1> QED
  BY <1>1, WritersAlways, PTL

(* Also when commands race with each other and with serve, crash between    *)
(* their writes or fail at one, a recorded promotion is of a candidate that *)
(* was derived from just the content it replaced, and its experiment says   *)
(* so (promote of evaluation_lifecycle).                                    *)
THEOREM PromotionsAreOfTheirParent == WritersSpec => []PromotionsReplaceTheirParent
<1>1. WInv => PromotionsReplaceTheirParent
  BY DEF WInv
<1> QED
  BY <1>1, WritersAlways, PTL

(* However many commands work on them, experiments change their status     *)
(* along the table of the store (transition_skill_experiment).             *)
THEOREM ExperimentsKeepTheirLifecycles == WritersSpec => KeepsExperimentLifecycles
<1> DEFINE Moves == \A e \in 1..MaxExperiments : Lifecycle(e)!Next \/ UNCHANGED StatusOfExperiment(e)
           Starts == \A e \in 1..MaxExperiments : Lifecycle(e)!Init
<1>1. WritersInit => Starts
  BY DEF WritersInit, ExperimentsInit, Lifecycle!Init, StatusOfExperiment
<1>2. WInv /\ [WritersNext]_writers => [Moves]_experiments
  BY EveryStepOnward, OnwardIsAStep
<1>3. KeepsExperimentLifecycles <=> Starts /\ [][Moves]_experiments
  BY DEF KeepsExperimentLifecycles
<1> HIDE DEF Moves, Starts
<1> QED
  BY <1>1, <1>2, <1>3, WritersAlways, PTL DEF WritersSpec

-----------------------------------------------------------------------------
(* One operator who waits for serve to stop *)

(* Evaluations and runs of one operator, one after the other and only      *)
(* while serve is stopped, and nothing dies or fails.                       *)
OneOperator ==
    /\ Apart /\ ~Crashes /\ ~Failures
    /\ \A r, s \in Runs : r = s

(* Who is in the middle of something that no other writer may interrupt.    *)
Acts(x) ==
    IF x \in Attempts THEN stage[x] \in HoldingLoop
    ELSE IF x \in Serve THEN pc[x] \notin Awaiting
    ELSE pc[x] # "idle"

Nobody == \A x \in Actors \cup Attempts : ~Acts(x)

TakeTurns ==
    /\ up => \A r \in Runs : pc[r] = "idle"
    /\ ~up => ServeIdle
    /\ \A x, y \in Actors \cup Attempts : Acts(x) /\ Acts(y) => x = y

(* Content is what the last recorded writer left.                          *)
Told(content) ==
    \/ Writings = {} /\ content = Installed
    \/ \E c \in Writings : /\ \A b \in Writings : b <= c
                           /\ content = events[c].after

(* The package has its contract in the frontmatter, so no Skill object of   *)
(* serve lacks one.                                                         *)
NoneBare == bare = {}

Agrees == up /\ status # "disabled" => registry.in /\ registry.skill = file

(* No experiment is derived from the instructions of this content.          *)
NoParent(content) == \A e \in DOMAIN experiments : experiments[e].parent.body # content.body

(* The window of a rewrite: it is the last event, or an open candidate was *)
(* rejected since, and there is none left that could be.                    *)
JustRewritten ==
    LET n == Len(events)
    IN  n > 0 /\ events[n].action = "rewrite" /\ NoParent(events[n].after)

OnceRejected ==
    LET n == Len(events) - 1
    IN  /\ n > 0 /\ events[n].action = "rewrite" /\ NoParent(events[n].after)
        /\ events[n + 1].action = "reject"
        /\ OpenCandidates = {}

WindowKept == status = "observing" => JustRewritten \/ OnceRejected

OneOpen == \A e, f \in OpenCandidates : e = f

(* What holds of the skill whenever nobody is in the middle of something,   *)
Rested == Told(file) /\ Agrees /\ WindowKept /\ OneOpen

(* what an actor in the middle of something finds,                          *)
Undisturbed ==
    {"context", "answering", "judging", "rewriting", "recording", "reconcile", "decide", "loaded", "seen",
     "proposing", "write_file", "promote_file", "withdraw_file"}

Installing == {"rewrite", "refresh", "rollback"}

Carried(p) == IF plan[p].decision \in Installing THEN file = plan[p].after ELSE Told(file)

InMind(p) == plan[p].decision = "rewrite" => NoParent(plan[p].after)

Applies(p) ==
    /\ pc[p] = "write_file" => plan[p].decision \in Installing /\ InMind(p)
    /\ pc[p] \in {"write_state", "write_event"} => Carried(p) /\ InMind(p)
    /\ pc[p] \in {"write_event", "reload"} => status = StatusAfter[plan[p].decision]
    /\ pc[p] = "reload" => Told(file) /\ WindowKept

Stages(c) ==
    /\ pc[c] = "proposing" => packet[c].surface = "eval"
    /\ pc[c] \in {"stage_state", "stage_event", "reject_event", "withdraw_state", "testing"} => Told(file)
    /\ pc[c] \in {"stage_event", "promote_event"} => status = "active"
    /\ pc[c] = "reject_event" => /\ OpenCandidates = {}
                                 /\ status = "observing" => JustRewritten
    /\ pc[c] = "testing" =>
         /\ status # "observing"
         /\ experiments[brief[c].exp].status = "candidate"
         /\ \A e, f \in OpenCandidates \ {brief[c].exp} : e = f

Installs(c) ==
    /\ pc[c] \in {"promote_file", "promote_mark"} => experiments[brief[c].exp].status = "validated"
    /\ pc[c] \in {"withdraw_file", "withdraw_mark"} => experiments[brief[c].exp].status = "promoted"
    /\ pc[c] \in {"promote_mark", "promote_state", "promote_event"} =>
         file = experiments[brief[c].exp].candidate
    /\ pc[c] \in {"withdraw_mark", "withdraw_event"} => file = experiments[brief[c].exp].parent

AtWork(p) ==
    /\ pc[p] \in Undisturbed => Rested
    /\ pc[p] \in {"recording", "seen"} => seen[p] = ResolvedStatus
    /\ pc[p] # "testing" => OneOpen
    /\ Applies(p) /\ Stages(p) /\ Installs(p)

(* and an attempt that holds the event loop.                                *)
Drafting(a) ==
    /\ OneOpen
    /\ stage[a] = "writing" => Rested
    /\ stage[a] # "writing" => file = draft[a].after
    /\ stage[a] \in {"logging", "registering"} =>
          status = IF draft[a].action = "activation_failed" THEN "disabled" ELSE "active"
    /\ stage[a] = "registering" => Told(file) /\ draft[a].action # "activation_failed"

OInv ==
    /\ TakeTurns
    /\ Nobody => Rested
    /\ \A p \in Actors : Acts(p) => AtWork(p)
    /\ \A a \in Attempts : Acts(a) => Drafting(a)

(* Every rewrite has instructions of its own: all that is around is older.  *)
Known(content) == content.body < nextBody

FreshInv ==
    /\ Known(file)
    /\ \A p \in Actors : Known(packet[p].current) /\ Known(plan[p].after)
    /\ \A a \in Attempts : Known(draft[a].after)
    /\ \A c \in DOMAIN events : events[c].action = "rewrite" => Known(events[c].before)
    /\ \A e \in DOMAIN experiments : Known(experiments[e].parent) /\ Known(experiments[e].candidate)

-----------------------------------------------------------------------------
(* Who acts *)

Here(p) == IF p \in Serve THEN up ELSE ~up

LEMMA FreeOfAll == ASSUME OInv, LoopFree, Quiet PROVE Nobody
<1> SUFFICES ASSUME NEW x \in Actors \cup Attempts PROVE ~Acts(x)
  BY DEF Nobody
<1>1. CASE x \in Attempts
  BY <1>1 DEF Quiet, Acts, AwaitingModel, HoldingLoop
<1>2. CASE x \in Serve /\ x \notin Attempts
  BY <1>2 DEF LoopFree, Acts
<1>3. CASE x \in Runs /\ x \notin Attempts /\ x \notin Serve
  BY <1>3 DEF OInv, TakeTurns, LoopFree, Acts
<1> QED
  BY <1>1, <1>2, <1>3 DEF Actors

LEMMA StoppedIdle ==
    ASSUME OneOperator, OInv, ~up, NEW c \in Runs, pc[c] = "idle"
    PROVE  Nobody
<1> SUFFICES ASSUME NEW x \in Actors \cup Attempts PROVE ~Acts(x)
  BY DEF Nobody
<1>1. ServeIdle
  BY DEF OInv, TakeTurns
<1>2. CASE x \in Attempts
  BY <1>1, <1>2 DEF ServeIdle, Acts, HoldingLoop
<1>3. CASE x \in Serve /\ x \notin Attempts
  BY <1>1, <1>3 DEF ServeIdle, Acts, Awaiting
<1>4. CASE x \in Runs /\ x \notin Attempts /\ x \notin Serve
  BY <1>4 DEF OneOperator, Acts
<1> QED
  BY <1>2, <1>3, <1>4 DEF Actors

LEMMA ActsHere ==
    ASSUME OInv, NEW p \in Actors, Acts(p)
    PROVE  Here(p) /\ AtWork(p)
<1>1. p \notin Attempts
  BY AttemptsAssumption
<1>2. CASE p \in Serve
  BY <1>1, <1>2 DEF OInv, TakeTurns, Acts, Here, ServeIdle, Awaiting
<1>3. CASE p \notin Serve
  BY <1>1, <1>3 DEF OInv, TakeTurns, Acts, Here, Actors
<1> QED
  BY <1>2, <1>3 DEF OInv

(* A step of one actor, with nobody else in the middle of something.        *)
LEMMA StepOf ==
    ASSUME WInv, OInv, NEW p \in Actors, NEW label,
           pc' = [pc EXCEPT ![p] = label], UNCHANGED <<up, stage>>,
           Acts(p) \/ Nobody, Here(p),
           Acts(p)' => AtWork(p)', ~Acts(p)' => Rested'
    PROVE  OInv'
<1>1. pc \in [Actors -> Labels] /\ p \notin Attempts
  BY AttemptsAssumption DEF WInv, LocalsTyped
<1>2. \A x \in Actors \cup Attempts : x # p => ~Acts(x)
  BY DEF OInv, TakeTurns, Nobody
<1>3. \A x \in Actors \cup Attempts : x # p => ~Acts(x)'
  <2> SUFFICES ASSUME NEW x \in Actors \cup Attempts, x # p PROVE ~Acts(x)'
    OBVIOUS
  <2>1. CASE x \in Attempts
    BY <1>2, <2>1 DEF Acts
  <2>2. CASE x \in Actors /\ x \notin Attempts
    <3>1. pc'[x] = pc[x]
      BY <1>1, <2>2
    <3> QED
      BY <1>2, <2>2, <3>1 DEF Acts
  <2> QED
    BY <2>1, <2>2
<1>4. TakeTurns'
  <2>1. up' => \A r \in Runs : pc'[r] = "idle"
    <3> SUFFICES ASSUME up, NEW r \in Runs PROVE pc'[r] = "idle"
      OBVIOUS
    <3>1. r # p /\ r \in Actors
      BY ActorsAssumption DEF Here, Serve, Actors
    <3> QED
      BY <1>1, <3>1 DEF OInv, TakeTurns
  <2>2. ~up' => ServeIdle'
    BY <1>1 DEF OInv, TakeTurns, Here, ServeIdle, Actors
  <2> QED
    BY <1>3, <2>1, <2>2 DEF TakeTurns
<1>5. Nobody' => Rested'
  BY DEF Nobody
<1>6. \A q \in Actors : Acts(q)' => AtWork(q)'
  BY <1>3
<1>7. \A a \in Attempts : Acts(a)' => Drafting(a)'
  BY <1>1, <1>3
<1> QED
  BY <1>4, <1>5, <1>6, <1>7 DEF OInv

LEMMA StepOfAttempt ==
    ASSUME WInv, OInv, NEW a \in Attempts, NEW label,
           stage' = [stage EXCEPT ![a] = label], UNCHANGED <<up, pc>>, up,
           Acts(a) \/ Nobody,
           label \in HoldingLoop => Drafting(a)', label \notin HoldingLoop => Rested'
    PROVE  OInv'
<1>1. stage \in [Attempts -> AwaitingModel \cup HoldingLoop] /\ Attempts \cap Actors = {}
  BY AttemptsAssumption DEF WInv, AttemptsTyped
<1>2. \A x \in Actors \cup Attempts : x # a => ~Acts(x)
  BY DEF OInv, TakeTurns, Nobody
<1>3. \A x \in Actors \cup Attempts : x # a => ~Acts(x)'
  BY <1>1, <1>2 DEF Acts
<1>4. TakeTurns'
  BY <1>3 DEF OInv, TakeTurns
<1>5. Acts(a)' = (label \in HoldingLoop)
  BY <1>1 DEF Acts
<1>6. Nobody' => Rested'
  BY <1>5 DEF Nobody
<1>7. \A q \in Actors : Acts(q)' => AtWork(q)'
  BY <1>1, <1>3
<1>8. \A b \in Attempts : Acts(b)' => Drafting(b)'
  BY <1>3, <1>5
<1> QED
  BY <1>4, <1>6, <1>7, <1>8 DEF OInv

-----------------------------------------------------------------------------
(* Steps that leave the skill as it was *)

LEMMA ToldStays ==
    ASSUME UNCHANGED <<events, file>>
    PROVE  Told(file)' = Told(file)
BY DEF Told, Writings

(* The status row may be written back, or come into being.                  *)
SameSkill ==
    /\ UNCHANGED <<file, events, experiments, registry, up>>
    /\ status' = status \/ status' = ResolvedStatus

LEMMA ResolvedAlike ==
    /\ (ResolvedStatus = "observing") = (status = "observing")
    /\ (ResolvedStatus = "disabled") = (status = "disabled")
BY DEF ResolvedStatus

LEMMA RestedStays == ASSUME Rested, SameSkill PROVE Rested'
<1>1. Told(file)'
  BY ToldStays DEF Rested, SameSkill
<1>2. Agrees'
  BY ResolvedAlike DEF Rested, SameSkill, Agrees
<1>3. WindowKept' /\ OneOpen'
  BY ResolvedAlike DEF Rested, SameSkill, WindowKept, JustRewritten, OnceRejected, NoParent,
     OneOpen, OpenCandidates
<1> QED
  BY <1>1, <1>2, <1>3 DEF Rested

(* Labels that ask nothing but an undisturbed skill.                        *)
Plain == Awaiting \cup {"reconcile", "decide", "loaded"}

LEMMA RestedAt ==
    ASSUME OInv, NEW p \in Actors, (Acts(p) /\ pc[p] \in Undisturbed) \/ Nobody
    PROVE  Rested
BY DEF OInv, AtWork

LEMMA PlainAtWork ==
    ASSUME NEW p \in Actors, pc[p] \in Plain, Rested
    PROVE  AtWork(p)
BY DEF AtWork, Plain, Awaiting, Applies, Stages, Installs, Rested

LEMMA PlainAfter ==
    ASSUME NEW p \in Actors, pc'[p] \in Plain, Rested'
    PROVE  AtWork(p)'
<1>1. (pc[p] \in Plain /\ Rested => AtWork(p))'
  BY PlainAtWork, PTL
<1> QED
  BY <1>1

LEMMA PlainStep ==
    ASSUME WInv, OInv, NEW p \in Actors, NEW label, label \in Plain,
           pc' = [pc EXCEPT ![p] = label], UNCHANGED stage, SameSkill, Here(p),
           (Acts(p) /\ pc[p] \in Undisturbed) \/ Nobody
    PROVE  OInv'
<1>1. Rested'
  BY RestedAt, RestedStays
<1>2. pc'[p] = label
  BY DEF WInv, LocalsTyped
<1>3. AtWork(p)'
  BY <1>1, <1>2, PlainAfter
<1> QED
  BY <1>1, <1>3, StepOf DEF SameSkill

LEMMA ServeActs ==
    ASSUME NEW p \in Serve, pc[p] \notin Awaiting
    PROVE  p \in Actors /\ Acts(p)
BY AttemptsAssumption DEF Acts, Actors

LEMMA RunActs ==
    ASSUME NEW r \in Runs, pc[r] # "idle"
    PROVE  r \in Actors /\ Acts(r)
BY AttemptsAssumption, ActorsAssumption DEF Acts, Actors, Serve

-----------------------------------------------------------------------------
(* Serve *)

LEMMA TurnIsServe == Turns \subseteq Serve /\ Web \in Serve /\ Serve \subseteq Actors /\ Runs \subseteq Actors
BY DEF Serve, Actors

LEMMA FreeHere ==
    ASSUME OInv, LoopFree, Quiet, NEW p \in Serve
    PROVE  Nobody /\ Here(p) /\ p \in Actors
BY FreeOfAll DEF LoopFree, Here, Actors

LEMMA StartRests ==
    ASSUME OneOperator, WInv, OInv, Start, \A r \in Runs : pc[r] = "idle", Alone
    PROVE  OInv'
<1>1. ServeIdle
  BY DEF OInv, TakeTurns, Start
<1>2. \A x \in Actors \cup Attempts : ~Acts(x)
  BY <1>1 DEF ServeIdle, Acts, Awaiting, HoldingLoop, Actors
<1>3. \A x \in Actors \cup Attempts : ~Acts(x)'
  BY <1>2 DEF Acts, Start, Alone, evars
<1>4. Rested
  BY <1>2 DEF OInv, Nobody
<1>5. Told(file)'
  BY <1>4, ToldStays DEF Rested, Start
<1>6. Agrees'
  BY ResolvedAlike DEF Agrees, Start
<1>7. WindowKept' /\ OneOpen'
  BY <1>4, ResolvedAlike DEF Rested, Start, Alone, xvars, WindowKept, JustRewritten, OnceRejected, NoParent,
     OneOpen, OpenCandidates
<1>8. TakeTurns'
  BY <1>3 DEF TakeTurns, Start
<1> QED
  BY <1>3, <1>5, <1>6, <1>7, <1>8 DEF OInv, Rested

LEMMA StopRests == ASSUME WInv, OInv, ServeStops PROVE OInv'
<1>1. UNCHANGED <<file, events, experiments, status, pc, stage>> /\ up /\ ~up' /\ ServeIdle
  BY DEF ServeStops, db, xvars, evars
<1>2. \A x \in Actors \cup Attempts : ~Acts(x)
  BY <1>1 DEF OInv, TakeTurns, ServeIdle, Acts, Awaiting, HoldingLoop, Actors
<1>3. \A x \in Actors \cup Attempts : ~Acts(x)'
  BY <1>1, <1>2 DEF Acts
<1>4. Rested
  BY <1>2 DEF OInv, Nobody
<1>5. Told(file)'
  BY <1>1, <1>4, ToldStays DEF Rested
<1>6. Agrees' /\ WindowKept' /\ OneOpen'
  BY <1>1, <1>4 DEF Rested, Agrees, WindowKept, JustRewritten, OnceRejected, NoParent, OneOpen, OpenCandidates
<1>7. TakeTurns'
  BY <1>1, <1>3 DEF TakeTurns, ServeIdle
<1> QED
  BY <1>3, <1>5, <1>6, <1>7 DEF OInv, Rested

LEMMA PruneRests == ASSUME WInv, OInv, Quiet, NEW t \in Turns, Prune(t), Alone PROVE OInv'
<1>1. /\ LoopFree /\ UNCHANGED <<file, events, experiments, status, stage, up>>
      /\ pc' = [pc EXCEPT ![t] = "context"]
      /\ status = "disabled" \/ UNCHANGED registry
  BY DEF Prune, Goto, db, Alone, xvars, evars
<1>2. "context" \in Plain
  BY DEF Plain, Awaiting
<1>3. Nobody /\ Here(t) /\ t \in Actors
  BY <1>1, TurnIsServe, FreeHere
<1>4. CASE UNCHANGED registry
  <2>1. SameSkill
    BY <1>1, <1>4 DEF SameSkill
  <2> QED
    BY <1>1, <1>2, <1>3, <2>1, PlainStep
<1>5. CASE status = "disabled"
  <2>1. Rested
    BY <1>3 DEF OInv
  <2>2. Told(file)'
    BY <1>1, <2>1, ToldStays DEF Rested
  <2>3. Agrees' /\ WindowKept' /\ OneOpen'
    BY <1>1, <1>5, <2>1 DEF Rested, Agrees, WindowKept, JustRewritten, OnceRejected, NoParent, OneOpen,
       OpenCandidates
  <2>4. Rested' /\ pc'[t] = "context"
    BY <1>1, <1>3, <2>2, <2>3 DEF Rested, WInv, LocalsTyped
  <2>5. AtWork(t)'
    BY <1>2, <1>3, <2>4, PlainAfter
  <2> QED
    BY <1>1, <1>3, <2>4, <2>5, StepOf
<1> QED
  BY <1>1, <1>4, <1>5

(* The steps of a turn that start while the loop is free.                   *)
LEMMA FreeStepRests ==
    ASSUME WInv, OInv, Quiet, NEW t \in Turns, Alone,
           \/ Match(t) \/ NoMatch(t) \/ AnswerFails(t) \/ JudgeFails(t) \/ Rewriter(t)
           \/ \E score \in Scores : Judge(t, score)
    PROVE  OInv'
<1>1. LoopFree /\ SameSkill /\ UNCHANGED stage
  BY DEF Match, NoMatch, AnswerFails, Judge, JudgeFails, Rewriter, SameSkill, db, Alone, xvars, evars
<1>2. PICK label \in {"answering", "idle", "reconcile", "decide"} : pc' = [pc EXCEPT ![t] = label]
  BY DEF Match, NoMatch, AnswerFails, Judge, JudgeFails, Rewriter, Goto, Release
<1>3. label \in Plain
  BY DEF Plain, Awaiting
<1>4. Nobody /\ Here(t) /\ t \in Actors
  BY <1>1, TurnIsServe, FreeHere
<1> QED
  BY <1>1, <1>2, <1>3, <1>4, PlainStep

(* No Skill object is without its contract, and none is registered again.  *)
LEMMA AnswerRests ==
    ASSUME WInv, OInv, NoneBare, Quiet, NEW t \in Turns, Answer(t), Alone
    PROVE  OInv'
<1>1. /\ LoopFree /\ SameSkill /\ UNCHANGED stage /\ UNCHANGED status
      /\ pc' = [pc EXCEPT ![t] = "recording"] /\ seen' = [seen EXCEPT ![t] = ResolvedStatus]
  BY DEF Answer, NoneBare, SameSkill, db, Alone, xvars, evars, Goto
<1>2. Nobody /\ Here(t) /\ t \in Actors
  BY <1>1, TurnIsServe, FreeHere
<1>3. Rested'
  BY <1>1, <1>2, RestedAt, RestedStays
<1>4. pc'[t] = "recording" /\ seen'[t] = ResolvedStatus'
  BY <1>1, <1>2 DEF WInv, LocalsTyped, ResolvedStatus
<1>5. AtWork(t)'
  BY <1>3, <1>4 DEF AtWork, Applies, Stages, Installs, Rested
<1> QED
  BY <1>1, <1>2, <1>3, <1>5, StepOf DEF SameSkill

LEMMA RecordRests == ASSUME WInv, OInv, NEW t \in Turns, Record(t), Alone PROVE OInv'
<1>1. t \in Actors /\ Acts(t) /\ Here(t) /\ AtWork(t)
  BY TurnIsServe, ServeActs, ActsHere DEF Record, Awaiting
<1>2. SameSkill
  BY <1>1 DEF AtWork, Record, SameSkill, Alone, xvars
<1>3. pc' = [pc EXCEPT ![t] = "judging"] /\ "judging" \in Plain /\ UNCHANGED stage /\ pc[t] \in Undisturbed
  BY DEF Record, Goto, Plain, Awaiting, Alone, evars, Undisturbed
<1> QED
  BY <1>1, <1>2, <1>3, PlainStep

LEMMA ReconcileRests == ASSUME WInv, OInv, NEW t \in Turns, Reconcile(t), Alone PROVE OInv'
<1>1. t \in Actors /\ Acts(t) /\ Here(t)
  BY TurnIsServe, ServeActs, ActsHere DEF Reconcile, Awaiting
<1>2. SameSkill /\ UNCHANGED stage /\ pc[t] \in Undisturbed
  BY DEF Reconcile, SameSkill, Alone, xvars, evars, db, Undisturbed
<1>3. PICK label \in {"rewriting", "decide", "idle"} : pc' = [pc EXCEPT ![t] = label]
  BY DEF Reconcile, Goto, Release
<1>4. label \in Plain
  BY DEF Plain, Awaiting
<1> QED
  BY <1>1, <1>2, <1>3, <1>4, PlainStep

LEMMA FeedbackRests ==
    ASSUME WInv, OInv, Quiet, NEW i \in DOMAIN execs, NEW sig \in Clicks, Feedback(i, sig), Alone
    PROVE  OInv'
<1>1. LoopFree /\ SameSkill /\ UNCHANGED stage
  BY DEF Feedback, SameSkill, Alone, xvars, evars
<1>2. pc' = [pc EXCEPT ![Web] = "decide"] /\ "decide" \in Plain
  BY DEF Feedback, Goto, Plain
<1>3. Nobody /\ Here(Web) /\ Web \in Actors
  BY <1>1, TurnIsServe, FreeHere
<1> QED
  BY <1>1, <1>2, <1>3, PlainStep

-----------------------------------------------------------------------------
(* `evidune run` *)

LEMMA RunLoadRests ==
    ASSUME OneOperator, WInv, OInv, ~up, NEW r \in Runs, RunLoad(r), Alone
    PROVE  OInv'
<1>1. Nobody /\ r \in Actors /\ Here(r)
  BY StoppedIdle, TurnIsServe, ActorsAssumption DEF RunLoad, Here, Serve
<1>2. SameSkill /\ UNCHANGED stage /\ pc' = [pc EXCEPT ![r] = "loaded"] /\ "loaded" \in Plain
  BY DEF RunLoad, SameSkill, Alone, xvars, evars, db, Goto, Plain
<1> QED
  BY <1>1, <1>2, PlainStep

LEMMA RunReadRests == ASSUME WInv, OInv, NEW r \in Runs, RunRead(r), Alone PROVE OInv'
<1>1. /\ SameSkill /\ UNCHANGED stage /\ UNCHANGED status
      /\ pc' = [pc EXCEPT ![r] = "seen"] /\ seen' = [seen EXCEPT ![r] = ResolvedStatus]
  BY DEF RunRead, SameSkill, db, Alone, xvars, evars, Goto
<1>2. r \in Actors /\ Acts(r) /\ Here(r) /\ pc[r] \in Undisturbed
  BY RunActs, ActsHere DEF RunRead, Undisturbed
<1>3. Rested'
  BY <1>1, <1>2, RestedAt, RestedStays
<1>4. pc'[r] = "seen" /\ seen'[r] = ResolvedStatus'
  BY <1>1, <1>2 DEF WInv, LocalsTyped, ResolvedStatus
<1>5. AtWork(r)'
  BY <1>3, <1>4 DEF AtWork, Applies, Stages, Installs, Rested
<1> QED
  BY <1>1, <1>2, <1>3, <1>5, StepOf DEF SameSkill

LEMMA RunSeenRests ==
    ASSUME WInv, OInv, NEW r \in Runs, RunSkip(r) \/ RunGovern(r), Alone
    PROVE  OInv'
<1>1. r \in Actors /\ Acts(r) /\ Here(r) /\ AtWork(r) /\ pc[r] \in Undisturbed
  BY RunActs, ActsHere DEF RunSkip, RunGovern, Undisturbed
<1>2. SameSkill /\ UNCHANGED stage
  BY <1>1 DEF AtWork, RunSkip, RunGovern, SameSkill, Alone, xvars, evars
<1>3. PICK label \in {"decide", "idle"} : pc' = [pc EXCEPT ![r] = label]
  BY DEF RunSkip, RunGovern, Goto, Release
<1>4. label \in Plain
  BY DEF Plain, Awaiting
<1> QED
  BY <1>1, <1>2, <1>3, <1>4, PlainStep

-----------------------------------------------------------------------------
(* Decisions that are applied *)

RecordedWrites == {"rewrite", "refresh", "rollback", "update", "activate", "activation_failed", "promote"}

(* A writer records what the file is by now; other events leave the file.   *)
LEMMA ToldAdded ==
    ASSUME events \in Seq(WritersEvent), NEW ev, ev \in WritersEvent, events' = Append(events, ev),
           UNCHANGED file,
           IF ev.action \in RecordedWrites THEN file = ev.after ELSE Told(file)
    PROVE  Told(file)'
<1>1. /\ Len(events) \in Nat
      /\ DOMAIN events = 1..Len(events) /\ DOMAIN events' = 1..(Len(events) + 1)
      /\ \A c \in 1..Len(events) : events'[c] = events[c]
      /\ events'[Len(events) + 1] = ev
  BY EventAdded
<1> DEFINE n == Len(events)
<1>2. /\ n \in Nat /\ DOMAIN events = 1..n /\ DOMAIN events' = 1..(n + 1)
      /\ \A c \in 1..n : events'[c] = events[c]
      /\ events'[n + 1] = ev
  BY <1>1
<1> HIDE DEF n
<1>3. CASE ev.action \in RecordedWrites
  <2>1. n + 1 \in Writings' /\ \A b \in Writings' : b <= n + 1
    BY <1>2, <1>3 DEF Writings, RecordedWrites
  <2>2. file' = events'[n + 1].after
    BY <1>2, <1>3
  <2> QED
    BY <2>1, <2>2 DEF Told
<1>4. CASE ev.action \notin RecordedWrites
  <2>1. Writings' = Writings
    BY <1>2, <1>4 DEF Writings, RecordedWrites
  <2>2. Writings \subseteq 1..n
    BY <1>2 DEF Writings
  <2>3. Told(file)
    BY <1>4
  <2>4. CASE Writings = {} /\ file = Installed
    BY <2>1, <2>4 DEF Told
  <2>5. CASE \E c \in Writings : (\A b \in Writings : b <= c) /\ file = events[c].after
    <3>1. PICK c \in Writings : (\A b \in Writings : b <= c) /\ file = events[c].after
      BY <2>5
    <3>2. events'[c] = events[c]
      BY <1>2, <2>2
    <3> QED
      BY <2>1, <3>1, <3>2 DEF Told
  <2> QED
    BY <2>3, <2>4, <2>5 DEF Told
<1> QED
  BY <1>3, <1>4

(* The row of a decision comes before its event: the window of a rewrite is *)
(* open when the rewrite is recorded.                                       *)
LEMMA WindowOpened ==
    ASSUME events \in Seq(WritersEvent), NEW ev, ev \in WritersEvent, events' = Append(events, ev),
           UNCHANGED experiments, status' = "observing" => ev.action = "rewrite" /\ NoParent(ev.after)
    PROVE  WindowKept'
<1>1. /\ Len(events) \in Nat /\ Len(events') = Len(events) + 1
      /\ events'[Len(events) + 1] = ev
  BY EventAdded
<1>2. ASSUME status' = "observing" PROVE JustRewritten'
  <2>1. Len(events') > 0 /\ events'[Len(events')] = ev
    BY <1>1
  <2>2. NoParent(ev.after)'
    BY <1>2 DEF NoParent
  <2> QED
    BY <1>2, <2>1, <2>2 DEF JustRewritten, NoParent
<1> QED
  BY <1>2 DEF WindowKept

LEMMA DecideRests ==
    ASSUME WInv, OInv, FreshInv, NEW p \in Actors, Decide(p), Beside(p)
    PROVE  OInv'
<1>1. Acts(p) /\ Here(p) /\ AtWork(p) /\ Rested /\ OneOpen
  BY ServeActs, RunActs, ActsHere DEF Decide, Awaiting, Actors, AtWork, Undisturbed
<1>2. UNCHANGED <<file, status, events, up, registry, experiments, stage>> /\ SameSkill
  BY DEF Decide, db, Beside, evars, SameSkill
<1>3. PICK d \in Reviewed(packet[p]) :
        IF d = "keep"
        THEN Release(p) /\ UNCHANGED nextBody
        ELSE /\ plan' = [plan EXCEPT ![p] = [decision |-> d, after |-> Outcome(packet[p], d)]]
             /\ nextBody' = IF d = "rewrite" THEN nextBody + 1 ELSE nextBody
             /\ Goto(p, IF d \in {"rewrite", "refresh", "rollback"} THEN "write_file"
                        ELSE "write_state")
             /\ UNCHANGED <<held, seen, exec, packet>>
  BY DEF Decide
<1>4. CASE d = "keep"
  <2>1. pc' = [pc EXCEPT ![p] = "idle"] /\ "idle" \in Plain /\ pc[p] \in Undisturbed
    BY <1>3, <1>4 DEF Release, Goto, Plain, Awaiting, Decide, Undisturbed
  <2> QED
    BY <1>1, <1>2, <2>1, PlainStep
<1>5. CASE d # "keep"
  <2> DEFINE label == IF d \in {"rewrite", "refresh", "rollback"} THEN "write_file" ELSE "write_state"
  <2>1. pc' = [pc EXCEPT ![p] = label] /\ pc'[p] = label
    BY <1>3, <1>5 DEF Goto, WInv, LocalsTyped
  <2>2. plan'[p].decision = d /\ plan'[p].after = Outcome(packet[p], d)
    BY <1>3, <1>5 DEF WInv, LocalsTyped
  <2>3. InMind(p)'
    <3> SUFFICES ASSUME d = "rewrite", NEW e \in DOMAIN experiments
                 PROVE  experiments[e].parent.body # plan'[p].after.body
      BY <1>2, <2>2 DEF InMind, NoParent
    <3>1. plan'[p].after.body = nextBody
      BY <2>2 DEF Outcome
    <3>2. experiments[e].parent.body < nextBody /\ nextBody \in Nat
      BY DEF FreshInv, Known, WInv, StoreTyped
    <3>3. experiments[e] \in Experiment
      BY DEF WInv, CommandsInv
    <3>4. experiments[e].parent.body \in Nat
      BY <3>3 DEF Experiment, Content
    <3> QED
      BY <3>1, <3>2, <3>4
  <2>4. Rested'
    BY <1>1, <1>2, RestedStays
  <2>5. d \notin Installing => Carried(p)'
    BY <2>2, <2>4 DEF Carried, Rested
  <2>6. AtWork(p)'
    <3>1. CASE label = "write_file"
      BY <2>1, <2>2, <2>3, <2>4, <3>1 DEF AtWork, Applies, Stages, Installs, Rested, Installing
    <3>2. CASE label = "write_state"
      <4>1. d \notin Installing
        BY <3>2 DEF Installing
      <4> QED
        BY <2>1, <2>3, <2>4, <2>5, <3>2, <4>1 DEF AtWork, Applies, Stages, Installs, Rested, Undisturbed
    <3> QED
      BY <3>1, <3>2
  <2>7. ~Acts(p)' => Rested'
    BY <2>4
  <2> HIDE DEF label
  <2> QED
    BY <1>1, <1>2, <2>1, <2>6, <2>7, StepOf
<1> QED
  BY <1>4, <1>5

LEMMA ApplyingActs ==
    ASSUME OInv, NEW p \in Actors, pc[p] \in Applying
    PROVE  Acts(p) /\ Here(p) /\ AtWork(p) /\ OneOpen
BY ServeActs, RunActs, ActsHere DEF Applying, Awaiting, Actors, AtWork

LEMMA WriteFileRests ==
    ASSUME WInv, OInv, NEW p \in Actors, WriteFile(p), Beside(p)
    PROVE  OInv'
<1>1. Acts(p) /\ Here(p) /\ AtWork(p) /\ OneOpen
  BY ApplyingActs DEF WriteFile, Applying
<1>2. /\ UNCHANGED <<up, experiments, stage, plan>> /\ file' = plan[p].after
      /\ pc' = [pc EXCEPT ![p] = "write_state"]
  BY DEF WriteFile, db, Beside, evars, Goto
<1>3. pc'[p] = "write_state"
  BY <1>2 DEF WInv, LocalsTyped
<1>4. plan[p].decision \in Installing /\ InMind(p)
  BY <1>1 DEF AtWork, Applies, WriteFile
<1>5. Carried(p)' /\ InMind(p)' /\ OneOpen'
  BY <1>1, <1>2, <1>4 DEF Carried, InMind, NoParent, OneOpen, OpenCandidates
<1>6. AtWork(p)'
  BY <1>3, <1>5 DEF AtWork, Applies, Stages, Installs, Undisturbed
<1>7. Acts(p)'
  BY <1>3, AttemptsAssumption DEF Acts, Awaiting
<1> QED
  BY <1>1, <1>2, <1>6, <1>7, StepOf

LEMMA WriteStateRests ==
    ASSUME WInv, OInv, NEW p \in Actors, WriteState(p), Beside(p)
    PROVE  OInv'
<1>1. Acts(p) /\ Here(p) /\ AtWork(p) /\ OneOpen
  BY ApplyingActs DEF WriteState, Applying
<1>2. /\ UNCHANGED <<up, experiments, stage, plan, events, file>>
      /\ status' = StatusAfter[plan[p].decision]
      /\ pc' = [pc EXCEPT ![p] = "write_event"]
  BY DEF WriteState, Beside, evars, Goto
<1>3. pc'[p] = "write_event"
  BY <1>2 DEF WInv, LocalsTyped
<1>4. Carried(p) /\ InMind(p)
  BY <1>1 DEF AtWork, Applies, WriteState
<1>5. Carried(p)' /\ InMind(p)' /\ OneOpen'
  BY <1>1, <1>2, <1>4, ToldStays DEF Carried, InMind, NoParent, OneOpen, OpenCandidates
<1>6. AtWork(p)'
  BY <1>2, <1>3, <1>5 DEF AtWork, Applies, Stages, Installs, Undisturbed
<1>7. Acts(p)'
  BY <1>3, AttemptsAssumption DEF Acts, Awaiting
<1> QED
  BY <1>1, <1>2, <1>6, <1>7, StepOf

LEMMA WriteEventRests ==
    ASSUME WInv, OInv, NEW p \in Actors, WriteEvent(p), Beside(p)
    PROVE  OInv'
<1> DEFINE ev == [action |-> plan[p].decision, before |-> packet[p].current,
                  after |-> plan[p].after, at |-> Now]
<1>1. Acts(p) /\ Here(p) /\ AtWork(p) /\ OneOpen
  BY ApplyingActs DEF WriteEvent, Applying
<1>2. /\ UNCHANGED <<up, experiments, stage, file, status, registry>>
      /\ events' = Append(events, ev)
  BY DEF WriteEvent, Beside, evars
<1>3. plan[p].decision \in Decisions \ {"keep"}
  BY DEF WInv, LocalsTyped, OnlyChangesAreApplied, Plan, WriteEvent, Applying
<1>4. ev \in WritersEvent /\ events \in Seq(WritersEvent)
  <2>1. plan[p] \in Plan /\ packet[p] \in Packets /\ Now \in Nat
    BY ClockTyped DEF WInv, LocalsTyped
  <2> QED
    BY <2>1 DEF WritersEvent, Plan, Packets, Actions, Decisions, WInv, StoreTyped
<1>5. Carried(p) /\ InMind(p) /\ status = StatusAfter[plan[p].decision]
  BY <1>1 DEF AtWork, Applies, WriteEvent
<1>6. IF ev.action \in RecordedWrites THEN file = ev.after ELSE Told(file)
  BY <1>3, <1>5 DEF Carried, RecordedWrites, Installing, Decisions
<1>7. status' = "observing" => ev.action = "rewrite" /\ NoParent(ev.after)
  BY <1>2, <1>3, <1>5 DEF InMind, StatusAfter, Decisions
<1> HIDE DEF ev
<1>8. Told(file)' /\ WindowKept'
  BY <1>2, <1>4, <1>6, <1>7, ToldAdded, WindowOpened
<1>9. OneOpen'
  BY <1>1, <1>2 DEF OneOpen, OpenCandidates
<1>10. CASE p \in Runs
  <2>1. pc' = [pc EXCEPT ![p] = "idle"] /\ pc'[p] = "idle"
    BY <1>10 DEF WriteEvent, Release, Goto, WInv, LocalsTyped
  <2>2. ~Acts(p)'
    BY <1>10, <2>1, AttemptsAssumption, ActorsAssumption DEF Acts, Serve
  <2>3. Agrees'
    BY <1>1, <1>2, <1>10, ActorsAssumption DEF Here, Serve, Agrees
  <2>4. Rested'
    BY <1>8, <1>9, <2>3 DEF Rested
  <2> QED
    BY <1>1, <1>2, <2>1, <2>2, <2>4, StepOf
<1>11. CASE p \notin Runs
  <2>1. pc' = [pc EXCEPT ![p] = "reload"] /\ pc'[p] = "reload" /\ UNCHANGED plan
    BY <1>11 DEF WriteEvent, Goto, WInv, LocalsTyped
  <2>2. AtWork(p)'
    BY <1>2, <1>5, <1>8, <1>9, <2>1 DEF AtWork, Applies, Stages, Installs, Undisturbed
  <2>3. Acts(p)'
    BY <2>1, AttemptsAssumption DEF Acts, Awaiting
  <2> QED
    BY <1>1, <1>2, <2>1, <2>2, <2>3, StepOf
<1> QED
  BY <1>10, <1>11

LEMMA ReloadRests ==
    ASSUME WInv, OInv, NEW p \in Serve, Reload(p), Beside(p)
    PROVE  OInv'
<1>1. p \in Actors /\ Acts(p) /\ Here(p) /\ AtWork(p) /\ OneOpen
  BY ApplyingActs, TurnIsServe DEF Reload, Applying
<1>2. /\ UNCHANGED <<up, experiments, stage, events, file, status>>
      /\ pc' = [pc EXCEPT ![p] = "idle"]
  BY DEF Reload, db, Beside, evars, Release, Goto
<1>3. Told(file) /\ WindowKept /\ status = StatusAfter[plan[p].decision]
  BY <1>1 DEF AtWork, Applies, Reload
<1>4. plan[p].decision \in Decisions \ {"keep"}
  BY <1>1 DEF WInv, LocalsTyped, OnlyChangesAreApplied, Plan, Reload, Applying
<1>5. Agrees'
  BY <1>2, <1>3, <1>4 DEF Agrees, Reload, StatusAfter, Decisions
<1>6. Told(file)' /\ WindowKept' /\ OneOpen'
  BY <1>1, <1>2, <1>3, ToldStays DEF WindowKept, JustRewritten, OnceRejected, NoParent, OneOpen, OpenCandidates
<1>7. Rested'
  BY <1>5, <1>6 DEF Rested
<1>8. ~Acts(p)'
  BY <1>1, <1>2, AttemptsAssumption DEF Acts, Awaiting, WInv, LocalsTyped
<1> QED
  BY <1>1, <1>2, <1>7, <1>8, StepOf

-----------------------------------------------------------------------------
(* Commands *)

LEMMA CommandWorks ==
    ASSUME OInv, NEW c \in Evals, pc[c] # "idle"
    PROVE  /\ c \in Actors /\ c \in Runs /\ c \notin Serve /\ c \notin Attempts
           /\ Acts(c) /\ ~up /\ AtWork(c)
           /\ pc[c] \in Undisturbed => Rested
           /\ pc[c] # "testing" => OneOpen
<1>1. c \in Runs /\ c \notin Serve
  BY EvalsAssumption, ActorsAssumption DEF Serve
<1>2. c \in Actors /\ Acts(c)
  BY <1>1, RunActs
<1>3. Here(c) /\ AtWork(c)
  BY <1>2, ActsHere
<1> QED
  BY <1>1, <1>2, <1>3, AttemptsAssumption DEF Here, AtWork

(* A command is over, and leaves the skill at rest.                         *)
LEMMA LeftAtRest ==
    ASSUME WInv, OInv, NEW c \in Evals, pc[c] # "idle", Leave(c), UNCHANGED <<up, stage>>,
           Told(file)', WindowKept', OneOpen'
    PROVE  OInv'
<1>1. c \in Actors /\ c \notin Serve /\ c \notin Attempts /\ Acts(c) /\ ~up
  BY CommandWorks
<1>2. pc' = [pc EXCEPT ![c] = "idle"]
  BY DEF Leave, Release, Goto
<1>3. Rested' /\ Here(c)
  BY <1>1 DEF Rested, Agrees, Here
<1>4. ~Acts(c)'
  BY <1>1, <1>2 DEF Acts, WInv, LocalsTyped
<1> QED
  BY <1>1, <1>2, <1>3, <1>4, StepOf

(* A command goes on.                                                      *)
LEMMA WorksOn ==
    ASSUME WInv, OInv, NEW c \in Evals, NEW label, pc[c] # "idle", label # "idle", Goto(c, label),
           UNCHANGED <<up, stage>>, pc'[c] = label => AtWork(c)'
    PROVE  OInv'
<1>1. c \in Actors /\ c \notin Serve /\ c \notin Attempts /\ Acts(c) /\ ~up
  BY CommandWorks
<1>2. pc' = [pc EXCEPT ![c] = label] /\ pc'[c] = label
  BY <1>1 DEF Goto, WInv, LocalsTyped
<1>3. Here(c) /\ Acts(c)'
  BY <1>1, <1>2 DEF Here, Acts
<1> QED
  BY <1>1, <1>2, <1>3, StepOf

(* A command starts.                                                       *)
LEMMA StartsOn ==
    ASSUME OneOperator, WInv, OInv, ~up, NEW c \in Evals, NEW label, pc[c] = "idle", label # "idle",
           Goto(c, label), UNCHANGED <<up, stage>>, Rested /\ pc'[c] = label => AtWork(c)'
    PROVE  OInv'
<1>1. c \in Actors /\ c \in Runs /\ c \notin Serve /\ c \notin Attempts
  BY EvalsAssumption, ActorsAssumption, AttemptsAssumption DEF Serve, Actors
<1>2. Nobody /\ Rested
  BY <1>1, StoppedIdle DEF OInv
<1>3. pc' = [pc EXCEPT ![c] = label] /\ pc'[c] = label
  BY <1>1 DEF Goto, WInv, LocalsTyped
<1>4. Here(c) /\ Acts(c)'
  BY <1>1, <1>3 DEF Here, Acts
<1> QED
  BY <1>1, <1>2, <1>3, <1>4, StepOf

LEMMA LastButOne ==
    ASSUME NEW k \in Nat, k - 1 > 0
    PROVE  k - 1 \in 1..k /\ (k - 1) + 1 = k /\ \A j \in ((k - 1) + 1)..k : j = k
<1>1. (k - 1) + 1 = k /\ k - 1 \in 1..k
  OBVIOUS
<1>2. \A j \in k..k : j = k
  OBVIOUS
<1> QED
  BY <1>1, <1>2

(* The rewrite a window is about is what the file holds, and no experiment  *)
(* is derived from it.                                                      *)
LEMMA WindowFound ==
    ASSUME events \in Seq(WritersEvent), Told(file), JustRewritten \/ OnceRejected
    PROVE  \E r \in 1..Len(events) :
              /\ r >= Len(events) - 1
              /\ events[r].action = "rewrite" /\ events[r].after = file /\ NoParent(file)
              /\ \A j \in (r + 1)..Len(events) : events[j].action = "reject"
<1> DEFINE n == Len(events)
<1>1. n \in Nat /\ DOMAIN events = 1..n
  OBVIOUS
<1>2. PICK r \in 1..n :
         /\ r >= n - 1 /\ events[r].action = "rewrite" /\ NoParent(events[r].after)
         /\ \A j \in (r + 1)..n : events[j].action = "reject"
  <2>1. CASE JustRewritten
    BY <1>1, <2>1 DEF JustRewritten
  <2>2. CASE OnceRejected
    <3>1. /\ n - 1 > 0 /\ events[n - 1].action = "rewrite" /\ NoParent(events[n - 1].after)
          /\ events[(n - 1) + 1].action = "reject"
      BY <2>2 DEF OnceRejected
    <3>2. n - 1 \in 1..n /\ n - 1 >= n - 1 /\ (n - 1) + 1 = n /\ \A j \in ((n - 1) + 1)..n : j = n
      BY <1>1, <3>1, LastButOne
    <3> HIDE DEF n
    <3>3. PICK k \in 1..n : k = n - 1 /\ k >= n - 1 /\ \A j \in (k + 1)..n : j = n
      BY <3>2
    <3>4. events[k].action = "rewrite" /\ NoParent(events[k].after) /\ events[n].action = "reject"
      BY <3>1, <3>2, <3>3
    <3>5. \A j \in (k + 1)..n : events[j].action = "reject"
      BY <3>3, <3>4
    <3> QED
      BY <3>3, <3>4, <3>5
  <2> QED
    BY <2>1, <2>2
<1> HIDE DEF n
<1>3. r \in Writings /\ \A b \in Writings : b <= r
  BY <1>1, <1>2 DEF Writings
<1>4. PICK w \in Writings : (\A b \in Writings : b <= w) /\ file = events[w].after
  BY <1>3 DEF Told
<1>5. w = r
  <2>1. w \in 1..n /\ w <= r /\ r <= w
    BY <1>1, <1>3, <1>4 DEF Writings
  <2> QED
    BY <2>1, <1>1
<1> QED
  BY <1>2, <1>4, <1>5 DEF n

LEMMA ObservedHasNoChildren ==
    ASSUME WInv, Rested, NEW e \in DOMAIN experiments, experiments[e].parent = file
    PROVE  status # "observing"
<1> SUFFICES ASSUME status = "observing" PROVE FALSE
  OBVIOUS
<1>1. NoParent(file)
  BY WindowFound DEF Rested, WindowKept, WInv, StoreTyped
<1> QED
  BY <1>1 DEF NoParent

(* An experiment gets its verdict, is promoted or is taken back.            *)
LEMMA Closes ==
    ASSUME experiments \in Seq(Experiment), NEW e, e \in DOMAIN experiments, NEW new, new # "candidate",
           experiments' = Transitioned(e, new)
    PROVE  /\ DOMAIN experiments' = DOMAIN experiments
           /\ experiments'[e].status = new
           /\ \A x \in DOMAIN experiments : /\ experiments'[x].parent = experiments[x].parent
                                            /\ experiments'[x].candidate = experiments[x].candidate
           /\ OpenCandidates' = OpenCandidates \ {e}
<1> DEFINE x == [experiments[e] EXCEPT !.status = new]
<1>1. experiments[e] \in Experiment
  OBVIOUS
<1>2. x.status = new /\ x.parent = experiments[e].parent /\ x.candidate = experiments[e].candidate
  BY <1>1 DEF Experiment
<1>3. experiments' = [experiments EXCEPT ![e] = x]
  BY DEF Transitioned
<1> HIDE DEF x
<1>4. /\ DOMAIN experiments' = DOMAIN experiments
      /\ \A i \in DOMAIN experiments : i # e => experiments'[i] = experiments[i]
      /\ experiments'[e] = x
  BY <1>3
<1>5. OpenCandidates' = OpenCandidates \ {e}
  BY <1>2, <1>4 DEF OpenCandidates
<1> QED
  BY <1>2, <1>4, <1>5

LEMMA IterateRests ==
    ASSUME OneOperator, WInv, OInv, ~up, NEW c \in Evals, Iterate(c), UNCHANGED evars
    PROVE  OInv'
<1>1. SameSkill /\ UNCHANGED stage /\ Goto(c, "proposing") /\ pc[c] = "idle"
  BY DEF Iterate, SameSkill, db, evars
<1>2. Rested => Rested'
  BY <1>1, RestedStays
<1>3. packet'[c].surface = "eval"
  <2>1. c \in Actors
    BY ServeIsAnActor
  <2> QED
    BY <2>1 DEF Iterate, BuildPacket, WInv, LocalsTyped
<1>4. pc'[c] = "proposing" /\ Rested' => AtWork(c)'
  BY <1>3 DEF AtWork, Applies, Stages, Installs, Rested
<1> QED
  BY <1>1, <1>2, <1>4, StartsOn DEF SameSkill

LEMMA ProposeOnOpenRests ==
    ASSUME WInv, OInv, NEW c \in Evals, Propose(c), UNCHANGED evars, OpenCandidates # {}
    PROVE  OInv'
<1> DEFINE e == Max(OpenCandidates)
<1>1. pc[c] = "proposing" /\ UNCHANGED <<file, status, events, up, registry, stage>>
  BY DEF Propose, db, evars
<1>2. Rested /\ OneOpen
  BY <1>1, CommandWorks DEF Undisturbed
<1>3. Told(file)'
  BY <1>1, <1>2, ToldStays DEF Rested
<1>4. \/ Leave(c) /\ UNCHANGED experiments
      \/ experiments' = Transitioned(e, "rejected") /\ Goto(c, "reject_event")
  BY DEF Propose
<1>5. CASE Leave(c) /\ UNCHANGED experiments
  <2>1. WindowKept' /\ OneOpen'
    BY <1>1, <1>2, <1>5 DEF Rested, WindowKept, JustRewritten, OnceRejected, NoParent, OneOpen, OpenCandidates
  <2> QED
    BY <1>1, <1>3, <1>5, <2>1, LeftAtRest
<1>6. CASE experiments' = Transitioned(e, "rejected") /\ Goto(c, "reject_event")
  <2>1. e \in OpenCandidates
    <3>1. Len(experiments) \in Nat /\ OpenCandidates \subseteq 0..Len(experiments)
      BY DEF OpenCandidates, WInv, CommandsInv
    <3> QED
      BY <3>1, MaxOfNat
  <2> HIDE DEF e
  <2>2. /\ DOMAIN experiments' = DOMAIN experiments
        /\ \A x \in DOMAIN experiments : experiments'[x].parent = experiments[x].parent
        /\ OpenCandidates' = OpenCandidates \ {e}
    BY <1>6, <2>1, Closes DEF OpenCandidates, WInv, CommandsInv
  <2>3. OpenCandidates' = {}
    BY <1>2, <2>1, <2>2 DEF OneOpen
  <2>4. status = "observing" => JustRewritten
    BY <1>2, <2>1 DEF Rested, WindowKept, OnceRejected
  <2>5. JustRewritten => JustRewritten'
    BY <1>1, <2>2 DEF JustRewritten, NoParent
  <2>6. pc'[c] = "reject_event" => AtWork(c)'
    BY <1>1, <1>3, <2>3, <2>4, <2>5 DEF AtWork, Applies, Stages, Installs, OneOpen, Undisturbed
  <2> QED
    BY <1>1, <1>6, <2>6, WorksOn
<1> QED
  BY <1>4, <1>5, <1>6

LEMMA ProposeOnNoneRests ==
    ASSUME WInv, OInv, NEW c \in Evals, Propose(c), UNCHANGED evars, OpenCandidates = {}
    PROVE  OInv'
<1>1. pc[c] = "proposing" /\ UNCHANGED <<file, status, events, up, registry, stage>>
  BY DEF Propose, db, evars
<1>2. Rested /\ OneOpen /\ c \in Actors
  BY <1>1, CommandWorks DEF Undisturbed
<1>3. Told(file)'
  BY <1>1, <1>2, ToldStays DEF Rested
<1>4. PICK d \in Reviewed(packet[c]) :
            CASE d = "keep" -> Leave(c) /\ UNCHANGED <<nextBody, experiments>>
              [] d = "rewrite" ->
                   /\ experiments' = Append(experiments,
                          [status |-> "candidate", parent |-> packet[c].current,
                           candidate |-> [ver |-> FreshVersion, body |-> nextBody],
                           sources |-> brief[c].sources])
                   /\ nextBody' = nextBody + 1
                   /\ brief' = [brief EXCEPT ![c].exp = Len(experiments')]
                   /\ Goto(c, "stage_state")
                   /\ UNCHANGED <<held, seen, exec, packet, plan>>
              [] OTHER ->
                   /\ plan' = [plan EXCEPT ![c] = [decision |-> d, after |-> Outcome(packet[c], d)]]
                   /\ Goto(c, IF d = "rollback" THEN "write_file" ELSE "write_state")
                   /\ UNCHANGED <<nextBody, held, seen, exec, packet, experiments, brief>>
  BY DEF Propose
<1>5. CASE d = "keep"
  <2>1. Leave(c) /\ UNCHANGED experiments
    BY <1>4, <1>5
  <2>2. WindowKept' /\ OneOpen'
    BY <1>1, <1>2, <2>1 DEF Rested, WindowKept, JustRewritten, OnceRejected, NoParent, OneOpen, OpenCandidates
  <2> QED
    BY <1>1, <1>3, <2>1, <2>2, LeftAtRest
<1>6. CASE d = "rewrite"
  <2> DEFINE x == [status |-> "candidate", parent |-> packet[c].current,
                   candidate |-> [ver |-> FreshVersion, body |-> nextBody],
                   sources |-> brief[c].sources]
  <2>1. experiments' = Append(experiments, x) /\ Goto(c, "stage_state")
    BY <1>4, <1>6
  <2> HIDE DEF x
  <2>2. OneOpen'
    <3>1. /\ Len(experiments) \in Nat
          /\ DOMAIN experiments = 1..Len(experiments) /\ DOMAIN experiments' = 1..(Len(experiments) + 1)
          /\ \A e \in 1..Len(experiments) : experiments'[e] = experiments[e]
      BY <2>1 DEF WInv, CommandsInv
    <3>2. \A f \in OpenCandidates' : f = Len(experiments) + 1
      BY <3>1 DEF OpenCandidates
    <3> QED
      BY <3>2 DEF OneOpen
  <2>3. pc'[c] = "stage_state" => AtWork(c)'
    BY <1>3, <2>2 DEF AtWork, Applies, Stages, Installs, Undisturbed
  <2> QED
    BY <1>1, <2>1, <2>3, WorksOn
<1>7. CASE d \notin {"keep", "rewrite"}
  <2> DEFINE label == IF d = "rollback" THEN "write_file" ELSE "write_state"
  <2>1. /\ plan' = [plan EXCEPT ![c] = [decision |-> d, after |-> Outcome(packet[c], d)]]
        /\ Goto(c, label) /\ UNCHANGED experiments
    BY <1>4, <1>7
  <2>2. plan'[c].decision = d /\ d # "rewrite"
    BY <1>2, <1>7, <2>1 DEF WInv, LocalsTyped
  <2>3. Rested' /\ OneOpen'
    <3>1. SameSkill
      BY <1>1, <2>1 DEF SameSkill
    <3> QED
      BY <1>2, <3>1, RestedStays DEF Rested
  <2>4. CASE d = "rollback"
    <3>1. pc'[c] = "write_file" => AtWork(c)'
      BY <2>2, <2>3, <2>4 DEF AtWork, Applies, Stages, Installs, InMind, Installing
    <3> QED
      BY <1>1, <2>1, <2>4, <3>1, WorksOn
  <2>5. CASE d # "rollback"
    <3>1. d # "refresh"
      <4>1. packet[c].surface = "eval"
        BY <1>1, CommandWorks DEF AtWork, Stages
      <4>2. packet[c].window \in {"hold", "confirm", "rollback"}
        BY <1>2 DEF WInv, LocalsTyped, Packets
      <4>3. Proposal(packet[c]) # "refresh"
        BY <4>1, <4>2 DEF Proposal
      <4> QED
        BY <1>7, <4>3 DEF Reviewed
    <3>2. Carried(c)'
      BY <1>7, <2>2, <2>3, <2>5, <3>1 DEF Carried, Installing, Rested
    <3>3. pc'[c] = "write_state" => AtWork(c)'
      BY <2>2, <2>3, <3>2 DEF AtWork, Applies, Stages, Installs, InMind, Undisturbed
    <3> QED
      BY <1>1, <2>1, <2>5, <3>3, WorksOn
  <2> QED
    BY <2>4, <2>5
<1> QED
  BY <1>5, <1>6, <1>7

LEMMA DirectlyRests ==
    ASSUME OneOperator, WInv, OInv, FreshInv, NEW c \in Evals, ApplyDirectly(c), UNCHANGED evars
    PROVE  OInv'
<1>1. c \in Actors
  BY ServeIsAnActor
<1>2. Beside(c)
  <2>1. brief' = [brief EXCEPT ![c] = NoBrief] \/ brief' = brief
    BY DEF ApplyDirectly
  <2>2. brief \in [Evals -> Brief] /\ NoBrief \in Brief
    BY DEF WInv, CommandsInv, NoBrief, Brief
  <2>3. UNCHANGED experiments
    BY DEF ApplyDirectly
  <2> QED
    BY <2>1, <2>2, <2>3 DEF Beside
<1>3. ~WriteFails(c)
  BY DEF WriteFails, OneOperator
<1> QED
  BY <1>1, <1>2, <1>3, WriteFileRests, WriteStateRests, WriteEventRests DEF ApplyDirectly

LEMMA StatesRest ==
    ASSUME WInv, OInv, NEW c \in Evals, StageState(c) \/ PromoteState(c), UNCHANGED evars
    PROVE  OInv'
<1>1. /\ UNCHANGED <<file, events, experiments, brief, up, stage>> /\ status' = "active"
      /\ \/ pc[c] = "stage_state" /\ Goto(c, "stage_event")
         \/ pc[c] = "promote_state" /\ Goto(c, "promote_event")
  BY DEF StageState, PromoteState, xvars, evars
<1>2. OneOpen /\ AtWork(c)
  BY <1>1, CommandWorks
<1>3. OneOpen' /\ Told(file)' = Told(file)
  BY <1>1, <1>2, ToldStays DEF OneOpen, OpenCandidates
<1>4. CASE pc[c] = "stage_state" /\ Goto(c, "stage_event")
  <2>1. pc'[c] = "stage_event" => AtWork(c)'
    BY <1>1, <1>2, <1>3, <1>4 DEF AtWork, Applies, Stages, Installs, Undisturbed
  <2> QED
    BY <1>1, <1>4, <2>1, WorksOn
<1>5. CASE pc[c] = "promote_state" /\ Goto(c, "promote_event")
  <2>1. pc'[c] = "promote_event" => AtWork(c)'
    BY <1>1, <1>2, <1>3, <1>5 DEF AtWork, Applies, Stages, Installs, Undisturbed
  <2> QED
    BY <1>1, <1>5, <2>1, WorksOn
<1> QED
  BY <1>1, <1>4, <1>5

(* A command records what it did.                                          *)
LEMMA LogRests ==
    ASSUME WInv, OInv, NEW c \in Evals, pc[c] # "idle", NEW action \in Actions,
           NEW before \in Content, NEW after \in Content,
           LogAndLeave(c, action, before, after), UNCHANGED evars,
           IF action \in RecordedWrites THEN file = after ELSE Told(file), OneOpen,
           WindowKept'
    PROVE  OInv'
<1> DEFINE ev == [action |-> action, before |-> before, after |-> after, at |-> Now]
<1>1. ev \in WritersEvent /\ ev.action = action /\ ev.after = after
  BY ClockTyped DEF WInv, WritersEvent
<1>2. /\ events' = Append(events, ev) /\ Leave(c)
      /\ UNCHANGED <<file, status, up, experiments, stage>>
  BY DEF LogAndLeave, LogEvent, evars
<1> HIDE DEF ev
<1>3. Told(file)'
  BY <1>1, <1>2, ToldAdded DEF WInv, StoreTyped
<1>4. OneOpen'
  BY <1>2 DEF OneOpen, OpenCandidates
<1> QED
  BY <1>2, <1>3, <1>4, LeftAtRest

LEMMA StageEventRests ==
    ASSUME WInv, OInv, NEW c \in Evals, StageEvent(c), UNCHANGED evars
    PROVE  OInv'
<1>1. pc[c] = "stage_event" /\ "candidate" \in Actions /\ "candidate" \notin RecordedWrites
  BY DEF StageEvent, Actions, RecordedWrites
<1>2. OneOpen /\ Told(file) /\ status = "active"
  BY <1>1, CommandWorks DEF AtWork, Stages
<1>3. WindowKept'
  BY <1>2 DEF WindowKept, StageEvent, LogAndLeave
<1>4. "stage_event" \in WithExperiment
  BY DEF WithExperiment, EvalLabels
<1> QED
  BY <1>1, <1>2, <1>3, <1>4, ItsExperiment, ItsContent, LogRests DEF StageEvent

LEMMA PromoteEventRests ==
    ASSUME WInv, OInv, NEW c \in Evals, PromoteEvent(c), UNCHANGED evars
    PROVE  OInv'
<1>1. pc[c] = "promote_event" /\ "promote" \in Actions /\ "promote" \in RecordedWrites
  BY DEF PromoteEvent, Actions, RecordedWrites
<1>2. OneOpen /\ file = experiments[brief[c].exp].candidate /\ status = "active"
  BY <1>1, CommandWorks DEF AtWork, Stages, Installs
<1>3. WindowKept'
  BY <1>2 DEF WindowKept, PromoteEvent, LogAndLeave
<1>4. "promote_event" \in WithExperiment
  BY DEF WithExperiment, EvalLabels
<1> QED
  BY <1>1, <1>2, <1>3, <1>4, ItsExperiment, ItsContent, LogRests DEF PromoteEvent

LEMMA RejectEventRests ==
    ASSUME WInv, OInv, NEW c \in Evals, RejectEvent(c), UNCHANGED evars
    PROVE  OInv'
<1>1. pc[c] = "reject_event" /\ "reject" \in Actions /\ "reject" \notin RecordedWrites
  BY DEF RejectEvent, Actions, RecordedWrites
<1>2. OneOpen /\ Told(file) /\ OpenCandidates = {} /\ (status = "observing" => JustRewritten)
  BY <1>1, CommandWorks DEF AtWork, Stages
<1>3. WindowKept'
  <2> SUFFICES ASSUME status' = "observing" PROVE OnceRejected'
    BY DEF WindowKept
  <2> DEFINE ev == [action |-> "reject", before |-> packet[c].current, after |-> packet[c].current, at |-> Now]
  <2>1. ev \in WritersEvent /\ ev.action = "reject"
    BY <1>1, ItsContent, ClockTyped DEF WInv, WritersEvent
  <2>2. /\ UNCHANGED <<status, experiments>> /\ events' = Append(events, ev)
    BY DEF RejectEvent, LogAndLeave, LogEvent
  <2> HIDE DEF ev
  <2>3. /\ Len(events) \in Nat /\ Len(events') = Len(events) + 1
        /\ DOMAIN events = 1..Len(events)
        /\ \A i \in 1..Len(events) : events'[i] = events[i]
        /\ events'[Len(events) + 1] = ev
    BY <2>1, <2>2, EventAdded DEF WInv, StoreTyped
  <2>4. Len(events) > 0 /\ events[Len(events)].action = "rewrite" /\ NoParent(events[Len(events)].after)
    BY <1>2, <2>2 DEF JustRewritten
  <2>5. Len(events') - 1 = Len(events) /\ Len(events) \in 1..Len(events)
    BY <2>3, <2>4
  <2>6. events'[Len(events)] = events[Len(events)]
    BY <2>3, <2>5
  <2>7. OpenCandidates' = {}
    BY <1>2, <2>2 DEF OpenCandidates
  <2>8. /\ Len(events') - 1 > 0 /\ events'[Len(events') - 1].action = "rewrite"
        /\ events'[(Len(events') - 1) + 1].action = "reject"
    BY <2>1, <2>3, <2>4, <2>5, <2>6
  <2>9. \A e \in DOMAIN experiments' :
           experiments'[e].parent.body # events'[Len(events') - 1].after.body
    BY <2>2, <2>4, <2>5, <2>6 DEF NoParent
  <2> QED
    BY <2>7, <2>8, <2>9 DEF OnceRejected, NoParent
<1> QED
  BY <1>1, <1>2, <1>3, ItsContent, LogRests DEF RejectEvent

LEMMA EvaluateRests ==
    ASSUME OneOperator, WInv, OInv, ~up, NEW c \in Evals, NEW e \in DOMAIN experiments,
           Evaluate(c, e), UNCHANGED evars
    PROVE  OInv'
<1>1. /\ pc[c] = "idle" /\ experiments[e].parent = file /\ Goto(c, "testing")
      /\ UNCHANGED <<file, status, events, up, stage>>
  BY DEF Evaluate, db, evars
<1>2. brief \in [Evals -> Brief] /\ experiments \in Seq(Experiment)
  BY DEF WInv, CommandsInv
<1>3. ASSUME Rested PROVE Told(file)' /\ status' # "observing"
  BY <1>1, <1>3, ToldStays, ObservedHasNoChildren DEF Rested
<1>4. CASE experiments[e].status = "candidate" /\ UNCHANGED experiments /\ brief' = [brief EXCEPT ![c].exp = e]
  <2>1. brief'[c].exp = e
    BY <1>2, <1>4 DEF Brief
  <2>2. Rested => experiments'[brief'[c].exp].status = "candidate"
                  /\ \A f, g \in OpenCandidates' \ {brief'[c].exp} : f = g
    BY <1>4, <2>1 DEF Rested, OneOpen, OpenCandidates
  <2>3. Rested /\ pc'[c] = "testing" => AtWork(c)'
    BY <1>3, <2>2 DEF AtWork, Applies, Stages, Installs, Undisturbed
  <2> QED
    BY <1>1, <2>3, StartsOn
<1>5. CASE /\ experiments' = Append(experiments, [experiments[e] EXCEPT !.status = "candidate"])
           /\ brief' = [brief EXCEPT ![c].exp = Len(experiments')]
  <2> DEFINE x == [experiments[e] EXCEPT !.status = "candidate"]
  <2>1. x.status = "candidate" /\ x \in Experiment
    <3>1. experiments[e] \in Experiment
      BY <1>2
    <3> QED
      BY <3>1 DEF Experiment
  <2>2. experiments' = Append(experiments, x)
    BY <1>5
  <2> HIDE DEF x
  <2>3. /\ Len(experiments) \in Nat /\ Len(experiments') = Len(experiments) + 1
        /\ DOMAIN experiments = 1..Len(experiments) /\ DOMAIN experiments' = 1..(Len(experiments) + 1)
        /\ \A f \in 1..Len(experiments) : experiments'[f] = experiments[f]
        /\ experiments'[Len(experiments) + 1] = x
    BY <1>2, <2>1, <2>2
  <2>4. brief'[c].exp = Len(experiments) + 1
    <3>1. brief[c] \in Brief
      BY <1>2
    <3> QED
      BY <1>2, <1>5, <2>3, <3>1 DEF Brief
  <2>5. \A f \in OpenCandidates' \ {Len(experiments) + 1} : f \in OpenCandidates
    BY <2>3 DEF OpenCandidates
  <2>6. Rested => experiments'[brief'[c].exp].status = "candidate"
                  /\ \A f, g \in OpenCandidates' \ {brief'[c].exp} : f = g
    BY <2>1, <2>3, <2>4, <2>5 DEF Rested, OneOpen
  <2>7. Rested /\ pc'[c] = "testing" => AtWork(c)'
    BY <1>3, <2>6 DEF AtWork, Applies, Stages, Installs, Undisturbed
  <2> QED
    BY <1>1, <2>7, StartsOn
<1> QED
  BY <1>4, <1>5 DEF Evaluate

LEMMA ConcludeRests ==
    ASSUME WInv, OInv, NEW c \in Evals, NEW new \in {"validated", "rejected", "inconclusive"},
           Conclude(c, new), UNCHANGED evars
    PROVE  OInv'
<1> DEFINE e == brief[c].exp
<1>1. pc[c] = "testing" /\ Leave(c) /\ UNCHANGED <<file, status, events, up, stage>>
  BY DEF Conclude, db, evars
<1>2. /\ Told(file) /\ status # "observing" /\ experiments[e].status = "candidate"
      /\ \A f, g \in OpenCandidates \ {e} : f = g
  BY <1>1, CommandWorks DEF AtWork, Stages
<1>3. e \in DOMAIN experiments
  <2>1. "testing" \in WithExperiment
    BY DEF WithExperiment, EvalLabels
  <2> QED
    BY <1>1, <2>1, ItsExperiment
<1>4. experiments' = Transitioned(e, new)
  BY <1>2 DEF Conclude, MayBecome, Lifecycle!Transitions
<1> HIDE DEF e
<1>5. OpenCandidates' = OpenCandidates \ {e}
  BY <1>3, <1>4, Closes DEF WInv, CommandsInv
<1>6. Told(file)' /\ WindowKept' /\ OneOpen'
  BY <1>1, <1>2, <1>5, ToldStays DEF WindowKept, OneOpen
<1> QED
  BY <1>1, <1>6, LeftAtRest

(* promote() and rollback() start.                                         *)
LEMMA ChecksRest ==
    ASSUME OneOperator, WInv, OInv, ~up, NEW c \in Evals, NEW e \in DOMAIN experiments,
           Promote(c, e) \/ Withdraw(c, e), UNCHANGED evars
    PROVE  OInv'
<1>1. /\ pc[c] = "idle" /\ UNCHANGED <<file, status, events, registry, experiments, up, stage>>
      /\ brief' = [brief EXCEPT ![c].exp = e]
      /\ \/ Goto(c, "promote_file") /\ experiments[e].status = "validated"
         \/ Goto(c, "withdraw_file") /\ experiments[e].status = "promoted"
  BY DEF Promote, Withdraw, db, evars
<1>2. brief'[c].exp = e
  <2>1. brief[c] \in Brief /\ brief \in [Evals -> Brief]
    BY DEF WInv, CommandsInv
  <2> QED
    BY <1>1, <2>1 DEF Brief
<1>3. Rested => Rested'
  BY <1>1, RestedStays DEF SameSkill
<1>4. CASE Goto(c, "promote_file") /\ experiments[e].status = "validated"
  <2>1. Rested /\ pc'[c] = "promote_file" => AtWork(c)'
    BY <1>1, <1>2, <1>3, <1>4 DEF AtWork, Applies, Stages, Installs, Rested
  <2> QED
    BY <1>1, <1>4, <2>1, StartsOn
<1>5. CASE Goto(c, "withdraw_file") /\ experiments[e].status = "promoted"
  <2>1. Rested /\ pc'[c] = "withdraw_file" => AtWork(c)'
    BY <1>1, <1>2, <1>3, <1>5 DEF AtWork, Applies, Stages, Installs, Rested
  <2> QED
    BY <1>1, <1>5, <2>1, StartsOn
<1> QED
  BY <1>1, <1>4, <1>5

LEMMA InstallFileRests ==
    ASSUME WInv, OInv, NEW c \in Evals, InstallFile(c), UNCHANGED evars
    PROVE  OInv'
<1>1. /\ UNCHANGED <<experiments, brief, up, stage>>
      /\ \/ /\ pc[c] = "promote_file" /\ file' = experiments[brief[c].exp].candidate
            /\ Goto(c, "promote_mark")
         \/ /\ pc[c] = "withdraw_file" /\ file' = experiments[brief[c].exp].parent
            /\ Goto(c, "withdraw_mark")
  BY DEF InstallFile, xvars, evars
<1>2. OneOpen /\ AtWork(c)
  BY <1>1, CommandWorks
<1>3. OneOpen'
  BY <1>1, <1>2 DEF OneOpen, OpenCandidates
<1>4. CASE /\ pc[c] = "promote_file" /\ file' = experiments[brief[c].exp].candidate
           /\ Goto(c, "promote_mark")
  <2>1. pc'[c] = "promote_mark" => AtWork(c)'
    BY <1>1, <1>2, <1>3, <1>4 DEF AtWork, Applies, Stages, Installs, Undisturbed
  <2> QED
    BY <1>1, <1>4, <2>1, WorksOn
<1>5. CASE /\ pc[c] = "withdraw_file" /\ file' = experiments[brief[c].exp].parent
           /\ Goto(c, "withdraw_mark")
  <2>1. pc'[c] = "withdraw_mark" => AtWork(c)'
    BY <1>1, <1>2, <1>3, <1>5 DEF AtWork, Applies, Stages, Installs, Undisturbed
  <2> QED
    BY <1>1, <1>5, <2>1, WorksOn
<1> QED
  BY <1>1, <1>4, <1>5

LEMMA MarkRests ==
    ASSUME WInv, OInv, NEW c \in Evals, Mark(c), UNCHANGED evars
    PROVE  OInv'
<1> DEFINE e == brief[c].exp
           new == IF pc[c] = "promote_mark" THEN "promoted" ELSE "rolled_back"
           label == IF new = "promoted" THEN "promote_state" ELSE "withdraw_event"
<1>1. pc[c] \in {"promote_mark", "withdraw_mark"} /\ UNCHANGED <<file, status, events, up, stage>>
  BY DEF Mark, db, evars
<1>2. OneOpen /\ AtWork(c)
  BY <1>1, CommandWorks
<1>3. e \in DOMAIN experiments
  <2>1. {"promote_mark", "withdraw_mark"} \subseteq WithExperiment
    BY DEF WithExperiment, EvalLabels
  <2> QED
    BY <1>1, <2>1, ItsExperiment
<1>4. MayBecome(e, new)
  BY <1>1, <1>2 DEF AtWork, Installs, MayBecome, Lifecycle!Transitions
<1>5. experiments' = Transitioned(e, new) /\ Goto(c, label) /\ UNCHANGED brief
  BY <1>4 DEF Mark
<1>6. /\ \A x \in DOMAIN experiments : /\ experiments'[x].parent = experiments[x].parent
                                       /\ experiments'[x].candidate = experiments[x].candidate
      /\ OpenCandidates' = OpenCandidates \ {e}
  BY <1>3, <1>5, Closes DEF WInv, CommandsInv
<1>7. OneOpen'
  BY <1>2, <1>6 DEF OneOpen
<1>8. CASE pc[c] = "promote_mark"
  <2>1. file' = experiments'[brief'[c].exp].candidate
    BY <1>1, <1>2, <1>3, <1>5, <1>6, <1>8 DEF AtWork, Installs
  <2>2. pc'[c] = "promote_state" => AtWork(c)'
    BY <1>7, <2>1 DEF AtWork, Applies, Stages, Installs, Undisturbed
  <2> QED
    BY <1>1, <1>5, <1>8, <2>2, WorksOn
<1>9. CASE pc[c] = "withdraw_mark"
  <2>1. file' = experiments'[brief'[c].exp].parent
    BY <1>1, <1>2, <1>3, <1>5, <1>6, <1>9 DEF AtWork, Installs
  <2>2. pc'[c] = "withdraw_event" => AtWork(c)'
    BY <1>7, <2>1 DEF AtWork, Applies, Stages, Installs, Undisturbed
  <2> QED
    BY <1>1, <1>5, <1>9, <2>2, WorksOn
<1> QED
  BY <1>1, <1>8, <1>9

LEMMA WithdrawEventRests ==
    ASSUME WInv, OInv, NEW c \in Evals, WithdrawEvent(c), UNCHANGED evars
    PROVE  OInv'
<1> DEFINE ev == [action |-> "rollback", before |-> held[c],
                  after |-> experiments[brief[c].exp].parent, at |-> Now]
<1>1. /\ pc[c] = "withdraw_event" /\ events' = Append(events, ev) /\ Goto(c, "withdraw_state")
      /\ UNCHANGED <<file, status, experiments, up, stage>>
  BY DEF WithdrawEvent, LogEvent, xvars, evars
<1>2. OneOpen /\ file = ev.after
  BY <1>1, CommandWorks DEF AtWork, Installs
<1>3. ev \in WritersEvent /\ ev.action \in RecordedWrites
  <2>1. "withdraw_event" \in WithExperiment
    BY DEF WithExperiment, EvalLabels
  <2>2. held[c] \in Content /\ experiments[brief[c].exp].parent \in Content /\ Now \in Nat
    BY <1>1, <2>1, ItsExperiment, ItsContent, ClockTyped DEF WInv
  <2> QED
    BY <2>2 DEF WritersEvent, Actions, Decisions, RecordedWrites
<1> HIDE DEF ev
<1>4. Told(file)' /\ OneOpen'
  BY <1>1, <1>2, <1>3, ToldAdded DEF WInv, StoreTyped, OneOpen, OpenCandidates
<1>5. pc'[c] = "withdraw_state" => AtWork(c)'
  BY <1>4 DEF AtWork, Applies, Stages, Installs, Undisturbed
<1> QED
  BY <1>1, <1>5, WorksOn

LEMMA WithdrawStateRests ==
    ASSUME WInv, OInv, NEW c \in Evals, WithdrawState(c), UNCHANGED evars
    PROVE  OInv'
<1>1. /\ pc[c] = "withdraw_state" /\ status' = "active" /\ Leave(c)
      /\ UNCHANGED <<file, events, experiments, up, stage>>
  BY DEF WithdrawState, evars
<1>2. OneOpen /\ Told(file)
  BY <1>1, CommandWorks DEF AtWork, Stages
<1>3. Told(file)' /\ OneOpen' /\ WindowKept'
  BY <1>1, <1>2, ToldStays DEF OneOpen, OpenCandidates, WindowKept
<1> QED
  BY <1>1, <1>3, LeftAtRest

LEMMA EvalRests ==
    ASSUME OneOperator, WInv, OInv, FreshInv, ~up, NEW c \in Evals, Eval(c), UNCHANGED evars
    PROVE  OInv'
<1>1. CASE Iterate(c) \/ Propose(c) \/ StageState(c) \/ StageEvent(c) \/ RejectEvent(c) \/ ApplyDirectly(c)
  BY <1>1, IterateRests, ProposeOnOpenRests, ProposeOnNoneRests, StatesRest, StageEventRests,
     RejectEventRests, DirectlyRests
<1>2. CASE \E e \in DOMAIN experiments : Evaluate(c, e) \/ Promote(c, e) \/ Withdraw(c, e)
  BY <1>2, EvaluateRests, ChecksRest
<1>3. CASE \E new \in {"validated", "rejected", "inconclusive"} : Conclude(c, new)
  BY <1>3, ConcludeRests
<1>4. CASE \/ InstallFile(c) \/ Mark(c) \/ PromoteState(c) \/ PromoteEvent(c)
           \/ WithdrawEvent(c) \/ WithdrawState(c)
  BY <1>4, InstallFileRests, MarkRests, StatesRest, PromoteEventRests, WithdrawEventRests, WithdrawStateRests
<1>5. ~EvalStops(c)
  BY DEF EvalStops, OneOperator
<1> QED
  BY <1>1, <1>2, <1>3, <1>4, <1>5 DEF Eval

-----------------------------------------------------------------------------
(* Attempts *)

LEMMA AttemptWorks ==
    ASSUME OInv, NEW a \in Attempts, stage[a] \in HoldingLoop
    PROVE  Acts(a) /\ up /\ Drafting(a)
BY DEF Acts, OInv, TakeTurns, ServeIdle, HoldingLoop

(* The model calls of an attempt, and what it does with their answers.      *)
LEMMA AttemptAwaits ==
    ASSUME WInv, OInv, NEW a \in Attempts, UNCHANGED xvars,
           Begin(a) \/ Resolve(a) \/ GivesUp(a) \/ Synthesize(a)
    PROVE  OInv'
<1>1. /\ LoopFree /\ Quiet /\ SameSkill /\ UNCHANGED <<up, pc, status>>
  BY DEF Begin, Resolve, GivesUp, Synthesize, vars, db, xvars, SameSkill
<1>2. PICK label \in {"idle", "detecting", "synthesizing", "writing"} : stage' = [stage EXCEPT ![a] = label]
  BY DEF Begin, Resolve, GivesUp, Synthesize, Ends, Advance
<1>3. Nobody /\ up
  BY <1>1, FreeOfAll DEF LoopFree
<1>4. Rested'
  BY <1>1, <1>3, RestedStays DEF OInv
<1>5. label \in HoldingLoop => Drafting(a)'
  <2>1. stage'[a] = label
    BY <1>2 DEF WInv, AttemptsTyped
  <2> QED
    BY <1>4, <2>1 DEF HoldingLoop, Drafting, Rested
<1> QED
  BY <1>1, <1>2, <1>3, <1>4, <1>5, StepOfAttempt

LEMMA WriteBundleRests ==
    ASSUME WInv, OInv, NEW a \in Attempts, WriteBundle(a), UNCHANGED xvars
    PROVE  OInv'
<1>1. Acts(a) /\ up /\ Drafting(a)
  BY AttemptWorks DEF WriteBundle, HoldingLoop
<1>2. /\ UNCHANGED <<up, pc, experiments, draft>> /\ file' = draft[a].after
      /\ stage' = [stage EXCEPT ![a] = "stating"]
  BY DEF WriteBundle, xvars, Advance
<1>3. stage'[a] = "stating"
  BY <1>2 DEF WInv, AttemptsTyped
<1>4. Drafting(a)'
  BY <1>1, <1>2, <1>3 DEF Drafting, OneOpen, OpenCandidates
<1> QED
  BY <1>1, <1>2, <1>4, StepOfAttempt DEF HoldingLoop

LEMMA RegisterStateRests ==
    ASSUME WInv, OInv, NEW a \in Attempts, RegisterState(a), UNCHANGED xvars
    PROVE  OInv'
<1>1. Acts(a) /\ up /\ Drafting(a)
  BY AttemptWorks DEF RegisterState, HoldingLoop
<1>2. /\ UNCHANGED <<up, pc, experiments, draft, file, events>>
      /\ status' = IF draft[a].action = "activation_failed" THEN "disabled" ELSE "active"
      /\ stage' = [stage EXCEPT ![a] = "logging"]
  BY DEF RegisterState, xvars, Advance
<1>3. stage'[a] = "logging"
  BY <1>2 DEF WInv, AttemptsTyped
<1>4. Drafting(a)'
  BY <1>1, <1>2, <1>3 DEF Drafting, OneOpen, OpenCandidates, RegisterState
<1> QED
  BY <1>1, <1>2, <1>4, StepOfAttempt DEF HoldingLoop

LEMMA LogEmergenceRests ==
    ASSUME WInv, OInv, NEW a \in Attempts, LogEmergence(a), UNCHANGED xvars
    PROVE  OInv'
<1> DEFINE ev == [action |-> draft[a].action, before |-> draft[a].before,
                  after |-> draft[a].after, at |-> Now]
<1>1. Acts(a) /\ up /\ Drafting(a)
  BY AttemptWorks DEF LogEmergence, HoldingLoop
<1>2. /\ UNCHANGED <<up, pc, experiments, file, status, registry>>
      /\ events' = Append(events, ev)
  BY DEF LogEmergence, xvars
<1>3. ev \in WritersEvent /\ ev.action \in RecordedWrites
  <2>1. draft[a] \in Draft
    BY DEF WInv, AttemptsTyped
  <2> QED
    BY <2>1, DraftFields, ClockTyped DEF WInv, WritersEvent, Draft, EmergenceActions, RecordedWrites
<1>4. /\ file = draft[a].after /\ OneOpen
      /\ status = IF draft[a].action = "activation_failed" THEN "disabled" ELSE "active"
  BY <1>1 DEF Drafting, LogEmergence
<1>5. file = ev.after
  BY <1>4
<1> HIDE DEF ev
<1>6. Told(file)'
  BY <1>2, <1>3, <1>5, ToldAdded DEF WInv, StoreTyped
<1>7. OneOpen' /\ WindowKept'
  BY <1>2, <1>4 DEF OneOpen, OpenCandidates, WindowKept
<1>8. CASE draft[a].action = "activation_failed"
  <2>1. stage' = [stage EXCEPT ![a] = "idle"]
    BY <1>8 DEF LogEmergence, Ends, Advance
  <2>2. Rested'
    BY <1>2, <1>4, <1>6, <1>7, <1>8 DEF Rested, Agrees
  <2> QED
    BY <1>1, <1>2, <2>1, <2>2, StepOfAttempt DEF HoldingLoop
<1>9. CASE draft[a].action # "activation_failed"
  <2>1. stage' = [stage EXCEPT ![a] = "registering"] /\ UNCHANGED draft
    BY <1>9 DEF LogEmergence, Advance
  <2>2. stage'[a] = "registering"
    BY <2>1 DEF WInv, AttemptsTyped
  <2>3. Drafting(a)'
    BY <1>2, <1>4, <1>6, <1>7, <1>9, <2>1, <2>2 DEF Drafting
  <2> QED
    BY <1>1, <1>2, <2>1, <2>3, StepOfAttempt DEF HoldingLoop
<1> QED
  BY <1>8, <1>9

LEMMA RegisterEmergedRests ==
    ASSUME WInv, OInv, NEW a \in Attempts, RegisterEmerged(a), UNCHANGED xvars
    PROVE  OInv'
<1>1. Acts(a) /\ up /\ Drafting(a)
  BY AttemptWorks DEF RegisterEmerged, HoldingLoop
<1>2. /\ UNCHANGED <<up, pc, experiments, file, status, events>>
      /\ registry' = [in |-> TRUE, skill |-> draft[a].after, status |-> "active"]
      /\ stage' = [stage EXCEPT ![a] = "idle"]
  BY DEF RegisterEmerged, db, xvars, Ends, Advance
<1>3. file = draft[a].after /\ Told(file) /\ OneOpen /\ status = "active"
  BY <1>1 DEF Drafting, RegisterEmerged
<1>4. Rested'
  BY <1>2, <1>3, ToldStays DEF Rested, Agrees, WindowKept, OneOpen, OpenCandidates
<1> QED
  BY <1>1, <1>2, <1>4, StepOfAttempt DEF HoldingLoop

-----------------------------------------------------------------------------
(* Rewrites bring instructions of their own *)

PacketsFrom ==
    \A p \in Actors : \/ packet'[p] = packet[p]
                      \/ packet'[p].current \in {file, NoContent}

PlansFrom ==
    \A p \in Actors : \/ plan'[p] = plan[p] \/ plan'[p].after = NoContent
                      \/ plan'[p].after.body < nextBody'

DraftsFrom ==
    \A a \in Attempts : \/ draft'[a].after = draft[a].after \/ draft'[a].after = NoContent
                        \/ draft'[a].after.body < nextBody'

EventsFrom ==
    \A c \in DOMAIN events' :
        \/ c \in DOMAIN events /\ events'[c] = events[c]
        \/ events'[c].action # "rewrite" \/ events'[c].before.body < nextBody

ExperimentsFrom ==
    \A e \in DOMAIN experiments' :
        \/ /\ e \in DOMAIN experiments
           /\ experiments'[e].parent = experiments[e].parent
           /\ experiments'[e].candidate = experiments[e].candidate
        \/ /\ experiments'[e].parent.body < nextBody
           /\ experiments'[e].candidate.body < nextBody'

LEMMA ContentOlder ==
    ASSUME NEW x, x \in Content, NEW n \in Nat, NEW m \in Nat, x.body < n, n <= m
    PROVE  x.body < m
BY DEF Content

(* What is around is what was around, or older than what comes next.        *)
LEMMA FreshStep ==
    ASSUME WInv, WInv', FreshInv, 0 < nextBody, nextBody' = nextBody \/ nextBody' = nextBody + 1,
           file'.body < nextBody', PacketsFrom, PlansFrom, DraftsFrom, EventsFrom, ExperimentsFrom
    PROVE  FreshInv' /\ 0 < nextBody'
<1>1. nextBody \in Nat /\ nextBody' \in Nat /\ nextBody <= nextBody' /\ 0 < nextBody'
      /\ file \in Content /\ file.body < nextBody
  BY DEF WInv, StoreTyped, FreshInv, Known
<1>2. NoContent \in Content /\ NoContent.body = 0
  BY DEF NoContent, Content
<1>3. ASSUME NEW x \in Content, x.body < nextBody PROVE x.body < nextBody'
  BY <1>1, <1>3, ContentOlder
<1>4. ASSUME NEW p \in Actors
      PROVE  packet'[p].current.body < nextBody' /\ plan'[p].after.body < nextBody'
  <2>1. packet[p].current \in Content /\ plan[p].after \in Content
    BY DEF WInv, LocalsTyped, Packets, Plan
  <2>2. packet[p].current.body < nextBody /\ plan[p].after.body < nextBody
    BY DEF FreshInv, Known
  <2>3. packet'[p].current.body < nextBody'
    BY <1>1, <1>2, <1>3, <2>1, <2>2 DEF PacketsFrom
  <2>4. plan'[p].after.body < nextBody'
    BY <1>1, <1>2, <1>3, <2>1, <2>2 DEF PlansFrom
  <2> QED
    BY <2>3, <2>4
<1>5. ASSUME NEW a \in Attempts PROVE draft'[a].after.body < nextBody'
  <2>1. draft[a].after \in Content
    BY DraftFields
  <2>2. draft[a].after.body < nextBody
    BY DEF FreshInv, Known
  <2> QED
    BY <1>1, <1>2, <1>3, <2>1, <2>2 DEF DraftsFrom
<1>6. ASSUME NEW c \in DOMAIN events', events'[c].action = "rewrite"
      PROVE  events'[c].before.body < nextBody'
  <2>1. events'[c] \in WritersEvent
    BY DEF WInv, StoreTyped
  <2>2. events'[c].before \in Content
    BY <2>1 DEF WritersEvent
  <2>3. events'[c].before.body < nextBody
    BY <1>6 DEF EventsFrom, FreshInv, Known
  <2> QED
    BY <1>3, <2>2, <2>3
<1>7. ASSUME NEW e \in DOMAIN experiments'
      PROVE  experiments'[e].parent.body < nextBody' /\ experiments'[e].candidate.body < nextBody'
  <2>1. experiments'[e] \in Experiment
    BY DEF WInv, CommandsInv
  <2>2. experiments'[e].parent \in Content /\ experiments'[e].candidate \in Content
    BY <2>1 DEF Experiment
  <2>3. experiments'[e].parent.body < nextBody
    BY DEF ExperimentsFrom, FreshInv, Known
  <2>4. experiments'[e].candidate.body < nextBody \/ experiments'[e].candidate.body < nextBody'
    BY DEF ExperimentsFrom, FreshInv, Known
  <2> QED
    BY <1>3, <2>2, <2>3, <2>4
<1> QED
  BY <1>1, <1>4, <1>5, <1>6, <1>7 DEF FreshInv, Known

LEMMA ReleasedFrom ==
    ASSUME WInv, NEW p \in Actors, Release(p)
    PROVE  PacketsFrom /\ PlansFrom
BY DEF Release, WInv, LocalsTyped, PacketsFrom, PlansFrom, NoPacket, NoPlan

LEMMA KeptFrom ==
    /\ UNCHANGED packet => PacketsFrom
    /\ UNCHANGED plan => PlansFrom
    /\ UNCHANGED draft => DraftsFrom
    /\ UNCHANGED events => EventsFrom
    /\ UNCHANGED experiments => ExperimentsFrom
BY DEF PacketsFrom, PlansFrom, DraftsFrom, EventsFrom, ExperimentsFrom

LEMMA TakenFrom ==
    ASSUME WInv, NEW p \in Actors, NEW q, packet' = [packet EXCEPT ![p] = q], q.current = file
    PROVE  PacketsFrom
BY DEF WInv, LocalsTyped, PacketsFrom

LEMMA PacketOfFile ==
    ASSUME NEW s, NEW v, NEW t, NEW o, NEW x
    PROVE  BuildPacket(s, v, t, o, x).current = file
BY DEF BuildPacket

(* Steps of serve and of `evidune run` before a decision and after it.      *)
LEMMA FreshBeside ==
    ASSUME WInv, WInv', FreshInv, 0 < nextBody, UNCHANGED <<file, nextBody, events, experiments, draft>>,
           PacketsFrom, PlansFrom
    PROVE  FreshInv' /\ 0 < nextBody'
BY KeptFrom, FreshStep DEF FreshInv, Known

LEMMA FreshTurn ==
    ASSUME WInv, WInv', FreshInv, 0 < nextBody, NEW p \in Actors, Alone,
           \/ Start \/ Prune(p) \/ Match(p) \/ NoMatch(p) \/ AnswerFails(p) \/ Answer(p) \/ Record(p)
           \/ JudgeFails(p) \/ Rewriter(p) \/ Reload(p) \/ RunLoad(p) \/ RunRead(p) \/ RunSkip(p)
           \/ \E score \in Scores : Judge(p, score)
    PROVE  FreshInv' /\ 0 < nextBody'
<1>1. UNCHANGED <<file, nextBody, events, experiments, draft>>
  BY DEF Start, Prune, Match, NoMatch, AnswerFails, Answer, Record, Judge, JudgeFails, Rewriter, Reload,
         RunLoad, RunRead, RunSkip, db, Alone, xvars, evars
<1>2. UNCHANGED <<packet, plan>> \/ Release(p)
  BY DEF Start, Prune, Match, NoMatch, AnswerFails, Answer, Record, Judge, JudgeFails, Rewriter, Reload,
         RunLoad, RunRead, RunSkip
<1> QED
  BY <1>1, <1>2, KeptFrom, ReleasedFrom, FreshBeside

LEMMA FreshReconcile ==
    ASSUME WInv, WInv', FreshInv, 0 < nextBody, NEW t \in Turns, Reconcile(t), Alone
    PROVE  FreshInv' /\ 0 < nextBody'
<1>1. UNCHANGED <<file, nextBody, events, experiments, draft>> /\ t \in Actors
  BY ServeIsAnActor DEF Reconcile, db, Alone, xvars, evars
<1>2. CASE Release(t)
  BY <1>1, <1>2, ReleasedFrom, FreshBeside
<1>3. CASE ~Release(t)
  <2>1. PICK typed \in TypedDecisions :
           packet' = [packet EXCEPT ![t] = BuildPacket("serve", held[t].ver, typed, Calm, FALSE)]
           /\ UNCHANGED plan
    BY <1>3 DEF Reconcile
  <2>2. PacketsFrom
    <3> DEFINE q == BuildPacket("serve", held[t].ver, typed, Calm, FALSE)
    <3>1. q.current = file
      BY PacketOfFile
    <3>2. packet' = [packet EXCEPT ![t] = q]
      BY <2>1
    <3> HIDE DEF q
    <3> QED
      BY <1>1, <3>1, <3>2, TakenFrom
  <2> QED
    BY <1>1, <2>1, <2>2, KeptFrom, FreshBeside
<1> QED
  BY <1>2, <1>3

LEMMA FreshFeedback ==
    ASSUME WInv, WInv', FreshInv, 0 < nextBody, NEW i \in DOMAIN execs, NEW sig \in Clicks,
           Feedback(i, sig), Alone
    PROVE  FreshInv' /\ 0 < nextBody'
<1>1. UNCHANGED <<file, nextBody, events, experiments, draft, plan>> /\ Web \in Actors
  BY ServeIsAnActor DEF Feedback, Alone, xvars, evars
<1>2. \E q : packet' = [packet EXCEPT ![Web] = q] /\ q.current = file
  <2>1. PICK typed \in TypedDecisions :
         packet' = [packet EXCEPT ![Web] =
                      BuildPacket("serve", IF registry.in THEN registry.skill.ver ELSE execs[i].ver,
                                  typed, Calm, FALSE)']
    BY DEF Feedback
  <2> DEFINE v == IF registry.in THEN registry.skill.ver ELSE execs[i].ver
             q == BuildPacket("serve", v, typed, Calm, FALSE)'
  <2>2. q.current = file'
    BY DEF BuildPacket
  <2> QED
    BY <1>1, <2>1, <2>2
<1> QED
  BY <1>1, <1>2, TakenFrom, KeptFrom, FreshBeside

LEMMA FreshGovern ==
    ASSUME WInv, WInv', FreshInv, 0 < nextBody, NEW r \in Runs, RunGovern(r), Alone
    PROVE  FreshInv' /\ 0 < nextBody'
<1>1. UNCHANGED <<file, nextBody, events, experiments, draft, plan>> /\ r \in Actors
  BY ServeIsAnActor DEF RunGovern, Alone, xvars, evars
<1>2. \E q : packet' = [packet EXCEPT ![r] = q] /\ q.current = file
  <2>1. \E typed \in TypedDecisions :
         \/ packet' = [packet EXCEPT ![r] = BuildPacket("run", held[r].ver, typed, Calm, FALSE)']
         \/ \E policy \in Policies, exemplars \in BOOLEAN :
              packet' = [packet EXCEPT ![r] =
                               BuildPacket("run", held[r].ver, typed, policy, exemplars)']
    BY DEF RunGovern
  <2>2. PICK typed, policy, exemplars :
         packet' = [packet EXCEPT ![r] = BuildPacket("run", held[r].ver, typed, policy, exemplars)']
    BY <2>1
  <2> DEFINE q == BuildPacket("run", held[r].ver, typed, policy, exemplars)'
  <2>3. q.current = file'
    BY DEF BuildPacket
  <2>4. packet' = [packet EXCEPT ![r] = q]
    BY <2>2
  <2> HIDE DEF q
  <2> QED
    BY <1>1, <2>3, <2>4
<1> QED
  BY <1>1, <1>2, TakenFrom, KeptFrom, FreshBeside

LEMMA OutcomeIsOlder ==
    ASSUME WInv, FreshInv, 0 < nextBody, NEW p \in Actors, NEW d, d \in Reviewed(packet[p]),
           nextBody' = IF d = "rewrite" THEN nextBody + 1 ELSE nextBody
    PROVE  Outcome(packet[p], d).body < nextBody'
<1> DEFINE q == packet[p]
<1>1. q \in Packets /\ q.history \in Nat /\ q.history <= Len(events) /\ q.current.body < nextBody
  BY DEF WInv, LocalsTyped, PacketsAreOfThePast, Packets, FreshInv, Known
<1>2. nextBody \in Nat /\ Len(events) \in Nat /\ DOMAIN events = 1..Len(events)
  BY DEF WInv, StoreTyped
<1> HIDE DEF q
<1>3. CASE d = "rewrite"
  <2>1. Outcome(q, d).body = nextBody
    BY <1>3 DEF Outcome
  <2> QED
    BY <1>2, <1>3, <2>1 DEF q
<1>4. CASE d = "rollback"
  <2> DEFINE i == LatestRewrite(q.history)
  <2>1. i # 0
    BY <1>1, <1>4, ReviewedTyped DEF q
  <2>2. i \in 1..q.history /\ events[i].action = "rewrite"
    BY <1>1, <2>1, LatestRewriteFound
  <2>3. Outcome(q, d) = events[i].before
    BY <1>4 DEF Outcome
  <2> HIDE DEF i
  <2>4. i \in DOMAIN events
    BY <1>1, <1>2, <2>2
  <2>5. events[i].before.body < nextBody
    BY <2>2, <2>4 DEF FreshInv, Known
  <2> QED
    BY <1>4, <2>3, <2>5 DEF q
<1>5. CASE d \notin {"rewrite", "rollback"}
  <2>1. Outcome(q, d).body = q.current.body
    <3>1. CASE d = "refresh"
      BY <3>1 DEF Outcome
    <3>2. CASE d # "refresh"
      <4>1. Outcome(q, d) = q.current
        BY <1>5, <3>2 DEF Outcome
      <4> QED
        BY <4>1
    <3> QED
      BY <3>1, <3>2
  <2> QED
    BY <1>1, <1>5, <2>1 DEF q
<1> QED
  BY <1>3, <1>4, <1>5

LEMMA FreshDecide ==
    ASSUME WInv, WInv', FreshInv, 0 < nextBody, NEW p \in Actors, Decide(p), Beside(p), UNCHANGED draft
    PROVE  FreshInv' /\ 0 < nextBody'
<1>1. UNCHANGED <<file, events, experiments, draft>>
  BY DEF Decide, db, Beside
<1>2. PICK d \in Reviewed(packet[p]) :
        IF d = "keep"
        THEN Release(p) /\ UNCHANGED nextBody
        ELSE /\ plan' = [plan EXCEPT ![p] = [decision |-> d, after |-> Outcome(packet[p], d)]]
             /\ nextBody' = IF d = "rewrite" THEN nextBody + 1 ELSE nextBody
             /\ Goto(p, IF d \in {"rewrite", "refresh", "rollback"} THEN "write_file"
                        ELSE "write_state")
             /\ UNCHANGED <<held, seen, exec, packet>>
  BY DEF Decide
<1>3. CASE d = "keep"
  BY <1>1, <1>2, <1>3, ReleasedFrom, FreshBeside
<1>4. CASE d # "keep"
  <2>1. Outcome(packet[p], d).body < nextBody'
    BY <1>2, <1>4, OutcomeIsOlder
  <2>2. plan' = [plan EXCEPT ![p] = [decision |-> d, after |-> Outcome(packet[p], d)]]
    BY <1>2, <1>4
  <2>3. PlansFrom
    <3> SUFFICES ASSUME NEW q \in Actors
                 PROVE  plan'[q] = plan[q] \/ plan'[q].after.body < nextBody'
      BY DEF PlansFrom
    <3>1. CASE q = p
      <4>1. plan'[p].after = Outcome(packet[p], d)
        BY <2>2 DEF WInv, LocalsTyped
      <4> QED
        BY <2>1, <3>1, <4>1
    <3>2. CASE q # p
      BY <2>2, <3>2 DEF WInv, LocalsTyped
    <3> QED
      BY <3>1, <3>2
  <2>4. nextBody \in Nat /\ (nextBody' = nextBody \/ nextBody' = nextBody + 1) /\ UNCHANGED packet
    BY <1>2, <1>4 DEF WInv, StoreTyped
  <2>5. file'.body < nextBody'
    <3>1. file \in Content /\ file.body < nextBody
      BY DEF WInv, StoreTyped, FreshInv, Known
    <3>2. file.body \in Nat
      BY <3>1 DEF Content
    <3> QED
      BY <1>1, <2>4, <3>1, <3>2
  <2> QED
    BY <1>1, <2>3, <2>4, <2>5, KeptFrom, FreshStep
<1> QED
  BY <1>3, <1>4

LEMMA FreshApply ==
    ASSUME WInv, WInv', FreshInv, 0 < nextBody, NEW p \in Actors, Beside(p), UNCHANGED draft,
           WriteFile(p) \/ WriteState(p) \/ WriteEvent(p) \/ WriteFails(p)
    PROVE  FreshInv' /\ 0 < nextBody'
<1>1. UNCHANGED <<nextBody, experiments, draft>> /\ (UNCHANGED <<packet, plan>> \/ Release(p))
  BY DEF WriteFile, WriteState, WriteEvent, WriteFails, db, Beside
<1>2. file'.body < nextBody'
  BY <1>1 DEF WriteFile, WriteState, WriteEvent, WriteFails, FreshInv, Known
<1>3. EventsFrom
  <2>1. CASE UNCHANGED events
    BY <2>1, KeptFrom
  <2>2. CASE WriteEvent(p)
    <3> DEFINE ev == [action |-> plan[p].decision, before |-> packet[p].current,
                      after |-> plan[p].after, at |-> Now]
    <3>1. events' = Append(events, ev) /\ ev.before.body < nextBody
      BY <2>2 DEF WriteEvent, FreshInv, Known
    <3>2. events \in Seq(WritersEvent)
      BY DEF WInv, StoreTyped
    <3> HIDE DEF ev
    <3> QED
      BY <3>1, <3>2 DEF EventsFrom
  <2> QED
    BY <2>1, <2>2 DEF WriteFile, WriteState, WriteFails, db
<1> QED
  BY <1>1, <1>2, <1>3, KeptFrom, ReleasedFrom, FreshStep

-----------------------------------------------------------------------------
(* The same of the commands and the attempts *)

LEMMA LeaveFrom ==
    ASSUME WInv, NEW c \in Evals, Leave(c)
    PROVE  PacketsFrom /\ PlansFrom
BY ServeIsAnActor, ReleasedFrom DEF Leave

LEMMA OnwardFrom ==
    ASSUME Onward, DOMAIN experiments' = DOMAIN experiments
    PROVE  ExperimentsFrom
BY DEF Onward, ExperimentsFrom

(* Commands that keep what their experiments are about.                     *)
LEMMA FreshCommand ==
    ASSUME WInv, WInv', FreshInv, 0 < nextBody, NEW c \in Evals, UNCHANGED evars,
           \/ StageState(c) \/ StageEvent(c) \/ RejectEvent(c) \/ InstallFile(c) \/ Mark(c)
           \/ PromoteState(c) \/ PromoteEvent(c) \/ WithdrawEvent(c) \/ WithdrawState(c) \/ EvalStops(c)
           \/ \E e \in DOMAIN experiments : Promote(c, e) \/ Withdraw(c, e)
           \/ \E new \in {"validated", "rejected", "inconclusive"} : Conclude(c, new)
    PROVE  FreshInv' /\ 0 < nextBody'
<1>1. UNCHANGED <<nextBody, draft>> /\ (UNCHANGED <<packet, plan>> \/ Leave(c))
  BY DEF StageState, StageEvent, RejectEvent, InstallFile, Mark, PromoteState, PromoteEvent, WithdrawEvent,
         WithdrawState, EvalStops, Promote, Withdraw, Conclude, LogAndLeave, xvars, evars
<1>2. ExperimentsFrom
  <2>1. CASE UNCHANGED experiments
    BY <2>1, KeptFrom
  <2>2. CASE Mark(c) \/ \E new \in {"validated", "rejected", "inconclusive"} : Conclude(c, new)
    <3>1. DOMAIN experiments' = DOMAIN experiments
      BY <2>2 DEF Mark, Conclude, Transitioned
    <3> QED
      BY <2>2, <3>1, MarkOnward, ConcludeOnward, OnwardFrom
  <2> QED
    BY <2>1, <2>2 DEF StageState, StageEvent, RejectEvent, InstallFile, PromoteState, PromoteEvent,
       WithdrawEvent, WithdrawState, EvalStops, Promote, Withdraw, LogAndLeave, xvars
<1>3. file'.body < nextBody'
  <2>1. CASE UNCHANGED file
    BY <1>1, <2>1 DEF FreshInv, Known
  <2>2. CASE InstallFile(c)
    <3>1. pc[c] \in WithExperiment
      BY <2>2 DEF InstallFile, WithExperiment, EvalLabels
    <3>2. brief[c].exp \in DOMAIN experiments
      BY <3>1, ItsExperiment
    <3> QED
      BY <1>1, <2>2, <3>2 DEF InstallFile, FreshInv, Known
  <2> QED
    BY <2>1, <2>2 DEF StageState, StageEvent, RejectEvent, Mark, PromoteState, PromoteEvent,
       WithdrawEvent, WithdrawState, EvalStops, Promote, Withdraw, Conclude, LogAndLeave
<1>4. EventsFrom
  <2>1. CASE UNCHANGED events
    BY <2>1, KeptFrom
  <2>2. ASSUME NEW ev, events' = Append(events, ev), ev.action # "rewrite" PROVE EventsFrom
    <3>1. events \in Seq(WritersEvent)
      BY DEF WInv, StoreTyped
    <3> QED
      BY <2>2, <3>1 DEF EventsFrom
  <2>3. CASE StageEvent(c) \/ RejectEvent(c) \/ PromoteEvent(c) \/ WithdrawEvent(c)
    BY <2>2, <2>3 DEF StageEvent, RejectEvent, PromoteEvent, WithdrawEvent, LogAndLeave, LogEvent
  <2> QED
    BY <2>1, <2>3 DEF StageState, InstallFile, Mark, PromoteState, WithdrawState, EvalStops, Promote, Withdraw,
       Conclude, db
<1> QED
  BY <1>1, <1>2, <1>3, <1>4, KeptFrom, LeaveFrom, FreshStep

LEMMA FreshIterate ==
    ASSUME WInv, WInv', FreshInv, 0 < nextBody, NEW c \in Evals, UNCHANGED evars, Iterate(c)
    PROVE  FreshInv' /\ 0 < nextBody'
<1>1. UNCHANGED <<file, nextBody, events, experiments, draft, plan>> /\ c \in Actors
  BY ServeIsAnActor DEF Iterate, db, evars
<1>2. PacketsFrom
  <2>1. PICK typed \in TypedDecisions :
           packet' = [packet EXCEPT ![c] = BuildPacket("eval", file.ver, typed, Calm, FALSE)]
    BY DEF Iterate
  <2> DEFINE q == BuildPacket("eval", file.ver, typed, Calm, FALSE)
  <2>2. q.current = file
    BY PacketOfFile
  <2>3. packet' = [packet EXCEPT ![c] = q]
    BY <2>1
  <2> HIDE DEF q
  <2> QED
    BY <1>1, <2>2, <2>3, TakenFrom
<1> QED
  BY <1>1, <1>2, KeptFrom, FreshBeside

LEMMA FreshEvaluate ==
    ASSUME WInv, WInv', FreshInv, 0 < nextBody, NEW c \in Evals, NEW e \in DOMAIN experiments,
           UNCHANGED evars, Evaluate(c, e)
    PROVE  FreshInv' /\ 0 < nextBody'
<1>1. UNCHANGED <<file, nextBody, events, draft, plan, packet>>
  BY DEF Evaluate, db, evars
<1>2. ExperimentsFrom
  <2>1. CASE UNCHANGED experiments
    BY <2>1, KeptFrom
  <2>2. CASE experiments' = Append(experiments, [experiments[e] EXCEPT !.status = "candidate"])
    <3> DEFINE x == [experiments[e] EXCEPT !.status = "candidate"]
    <3>1. experiments \in Seq(Experiment) /\ experiments[e] \in Experiment
      BY DEF WInv, CommandsInv
    <3>2. x.parent.body < nextBody /\ x.candidate.body < nextBody'
      BY <1>1, <3>1 DEF Experiment, FreshInv, Known
    <3>3. experiments' = Append(experiments, x)
      BY <2>2
    <3> HIDE DEF x
    <3> QED
      BY <3>1, <3>2, <3>3 DEF ExperimentsFrom
  <2> QED
    BY <2>1, <2>2 DEF Evaluate
<1> QED
  BY <1>1, <1>2, KeptFrom, FreshStep DEF FreshInv, Known

LEMMA FreshPropose ==
    ASSUME WInv, WInv', FreshInv, 0 < nextBody, NEW c \in Evals, UNCHANGED evars, Propose(c)
    PROVE  FreshInv' /\ 0 < nextBody'
<1>1. UNCHANGED <<file, events, draft>> /\ c \in Actors /\ nextBody \in Nat
  BY ServeIsAnActor DEF Propose, db, evars, WInv, StoreTyped
<1>2. (nextBody' = nextBody \/ nextBody' = nextBody + 1) => file'.body < nextBody'
  <2>1. file \in Content /\ file.body < nextBody
    BY DEF WInv, StoreTyped, FreshInv, Known
  <2>2. file.body \in Nat
    BY <2>1 DEF Content
  <2>3. file' = file
    BY <1>1
  <2>4. file.body < nextBody + 1
    BY <1>1, <2>1, <2>2
  <2> QED
    BY <2>1, <2>3, <2>4
<1>3. CASE OpenCandidates # {}
  <2>1. UNCHANGED nextBody /\ (UNCHANGED <<packet, plan>> \/ Leave(c))
        /\ DOMAIN experiments' = DOMAIN experiments
    BY <1>3 DEF Propose, Transitioned
  <2>2. ExperimentsFrom
    BY <2>1, ProposeOnward, OnwardFrom
  <2>3. nextBody' = nextBody
    BY <2>1
  <2>4. file'.body < nextBody'
    BY <1>1, <1>2, <2>3
  <2> QED
    BY <1>1, <2>1, <2>2, <2>4, KeptFrom, LeaveFrom, FreshStep
<1>4. CASE OpenCandidates = {}
  <2>1. PICK d \in Reviewed(packet[c]) :
            CASE d = "keep" -> Leave(c) /\ UNCHANGED <<nextBody, experiments>>
              [] d = "rewrite" ->
                   /\ experiments' = Append(experiments,
                          [status |-> "candidate", parent |-> packet[c].current,
                           candidate |-> [ver |-> FreshVersion, body |-> nextBody],
                           sources |-> brief[c].sources])
                   /\ nextBody' = nextBody + 1
                   /\ brief' = [brief EXCEPT ![c].exp = Len(experiments')]
                   /\ Goto(c, "stage_state")
                   /\ UNCHANGED <<held, seen, exec, packet, plan>>
              [] OTHER ->
                   /\ plan' = [plan EXCEPT ![c] = [decision |-> d, after |-> Outcome(packet[c], d)]]
                   /\ Goto(c, IF d = "rollback" THEN "write_file" ELSE "write_state")
                   /\ UNCHANGED <<nextBody, held, seen, exec, packet, experiments, brief>>
    BY <1>4 DEF Propose
  <2>2. CASE d = "keep"
    <3>1. Leave(c) /\ UNCHANGED <<nextBody, experiments>>
      BY <2>1, <2>2
    <3> QED
      BY <1>1, <3>1, LeaveFrom, FreshBeside
  <2>3. CASE d = "rewrite"
    <3> DEFINE x == [status |-> "candidate", parent |-> packet[c].current,
                     candidate |-> [ver |-> FreshVersion, body |-> nextBody],
                     sources |-> brief[c].sources]
    <3>1. experiments' = Append(experiments, x) /\ nextBody' = nextBody + 1 /\ UNCHANGED <<packet, plan>>
      BY <2>1, <2>3
    <3>2. x.parent.body < nextBody /\ x.candidate.body < nextBody + 1
      BY <1>1 DEF FreshInv, Known
    <3> HIDE DEF x
    <3>3. experiments \in Seq(Experiment)
      BY DEF WInv, CommandsInv
    <3>4. ExperimentsFrom
      BY <3>1, <3>2, <3>3 DEF ExperimentsFrom
    <3> QED
      BY <1>1, <1>2, <3>1, <3>4, KeptFrom, FreshStep
  <2>4. CASE d \notin {"keep", "rewrite"}
    <3>1. /\ plan' = [plan EXCEPT ![c] = [decision |-> d, after |-> Outcome(packet[c], d)]]
          /\ UNCHANGED <<nextBody, packet, experiments>>
      BY <2>1, <2>4
    <3>2. Outcome(packet[c], d).body < nextBody'
      BY <1>1, <2>4, <3>1, OutcomeIsOlder
    <3>3. PlansFrom
      <4> SUFFICES ASSUME NEW q \in Actors
                   PROVE  plan'[q] = plan[q] \/ plan'[q].after.body < nextBody'
        BY DEF PlansFrom
      <4>1. CASE q = c
        <5>1. plan'[c].after = Outcome(packet[c], d)
          BY <1>1, <3>1 DEF WInv, LocalsTyped
        <5> QED
          BY <3>2, <4>1, <5>1
      <4>2. CASE q # c
        BY <3>1, <4>2 DEF WInv, LocalsTyped
      <4> QED
        BY <4>1, <4>2
    <3> QED
      BY <1>1, <3>1, <3>3, KeptFrom, FreshBeside
  <2> QED
    BY <2>2, <2>3, <2>4
<1> QED
  BY <1>3, <1>4

LEMMA FreshEval ==
    ASSUME WInv, WInv', FreshInv, 0 < nextBody, NEW c \in Evals, UNCHANGED evars, Eval(c)
    PROVE  FreshInv' /\ 0 < nextBody'
<1>1. CASE ApplyDirectly(c)
  <2>1. c \in Actors /\ UNCHANGED draft
    BY ServeIsAnActor DEF evars
  <2>2. Beside(c)
    <3>1. brief' = [brief EXCEPT ![c] = NoBrief] \/ brief' = brief
      BY <1>1 DEF ApplyDirectly
    <3>2. brief \in [Evals -> Brief] /\ NoBrief \in Brief /\ UNCHANGED experiments
      BY <1>1 DEF WInv, CommandsInv, NoBrief, Brief, ApplyDirectly
    <3> QED
      BY <3>1, <3>2 DEF Beside
  <2> QED
    BY <1>1, <2>1, <2>2, FreshApply DEF ApplyDirectly
<1>2. CASE Iterate(c) \/ Propose(c) \/ \E e \in DOMAIN experiments : Evaluate(c, e)
  BY <1>2, FreshIterate, FreshPropose, FreshEvaluate
<1>3. CASE ~ApplyDirectly(c) /\ ~Iterate(c) /\ ~Propose(c) /\ ~\E e \in DOMAIN experiments : Evaluate(c, e)
  BY <1>3, FreshCommand DEF Eval
<1> QED
  BY <1>1, <1>2, <1>3

LEMMA FreshEmerge ==
    ASSUME WInv, WInv', FreshInv, 0 < nextBody, NEW a \in Attempts, UNCHANGED xvars, Emerge(a)
    PROVE  FreshInv' /\ 0 < nextBody'
<1>1. UNCHANGED <<experiments, packet, plan>>
  BY DEF Emerge, Begin, Resolve, GivesUp, Synthesize, WriteBundle, RegisterState, LogEmergence,
         RegisterEmerged, EmergenceFails, vars, xvars
<1>2. draft \in [Attempts -> Draft] /\ nextBody \in Nat /\ nextBody < nextBody + 1
  BY DEF WInv, AttemptsTyped, StoreTyped
<1>3. CASE Synthesize(a)
  <2>1. UNCHANGED <<file, events>> /\ nextBody' = nextBody + 1
    BY <1>3 DEF Synthesize, db
  <2>2. DraftsFrom
    <3>1. \A b \in Attempts : b # a => draft'[b] = draft[b]
      BY <1>2, <1>3 DEF Synthesize
    <3>2. draft'[a].after.body = nextBody
      <4>1. draft[a] \in Draft
        BY <1>2
      <4> DEFINE after == [ver |-> 0, body |-> nextBody]
      <4>2. draft'[a].after = after
        <5>1. CASE draft' = [draft EXCEPT ![a].before = file, ![a].after = after]
          BY <1>2, <4>1, <5>1 DEF Draft
        <5>2. CASE \E parsed \in BOOLEAN :
                draft' = [draft EXCEPT ![a].action = IF parsed THEN "activate" ELSE "activation_failed",
                                       ![a].after = after]
          BY <1>2, <4>1, <5>2 DEF Draft
        <5> QED
          BY <1>3, <5>1, <5>2 DEF Synthesize
      <4> QED
        BY <4>2
    <3> QED
      BY <1>2, <2>1, <3>1, <3>2 DEF DraftsFrom
  <2>3. file'.body < nextBody'
    <3>1. file \in Content /\ file.body < nextBody
      BY DEF WInv, StoreTyped, FreshInv, Known
    <3>2. file.body \in Nat
      BY <3>1 DEF Content
    <3> QED
      BY <1>2, <2>1, <3>1, <3>2
  <2> QED
    BY <1>1, <2>1, <2>2, <2>3, KeptFrom, FreshStep
<1>4. CASE ~Synthesize(a)
  <2>1. UNCHANGED nextBody
    BY <1>4 DEF Emerge, Begin, Resolve, GivesUp, WriteBundle, RegisterState, LogEmergence,
           RegisterEmerged, EmergenceFails, vars
  <2>2. DraftsFrom
    <3>1. \/ UNCHANGED draft \/ draft' = [draft EXCEPT ![a] = NoDraft]
          \/ draft' = [draft EXCEPT ![a].action = IF registry.in THEN "update" ELSE "activate"]
      BY <1>4 DEF Emerge, Begin, Resolve, GivesUp, WriteBundle, RegisterState, LogEmergence,
             RegisterEmerged, EmergenceFails, Ends
    <3>2. CASE UNCHANGED draft
      BY <3>2, KeptFrom
    <3>3. CASE draft' = [draft EXCEPT ![a] = NoDraft]
      BY <1>2, <3>3 DEF DraftsFrom, NoDraft
    <3>4. CASE draft' = [draft EXCEPT ![a].action = IF registry.in THEN "update" ELSE "activate"]
      <4>1. draft[a] \in Draft
        BY <1>2
      <4> QED
        BY <1>2, <3>4, <4>1 DEF DraftsFrom, Draft
    <3> QED
      BY <3>1, <3>2, <3>3, <3>4
  <2>3. file'.body < nextBody'
    <3>1. file' = file \/ file' = draft[a].after
      BY <1>4 DEF Emerge, Begin, Resolve, GivesUp, WriteBundle, RegisterState, LogEmergence,
             RegisterEmerged, EmergenceFails, vars
    <3> QED
      BY <2>1, <3>1 DEF FreshInv, Known
  <2>4. EventsFrom
    <3>1. CASE UNCHANGED events
      BY <3>1, KeptFrom
    <3>2. CASE LogEmergence(a)
      <4> DEFINE ev == [action |-> draft[a].action, before |-> draft[a].before,
                        after |-> draft[a].after, at |-> Now]
      <4>1. draft[a] \in Draft
        BY <1>2
      <4>2. events' = Append(events, ev) /\ ev.action # "rewrite"
        BY <3>2, <4>1 DEF LogEmergence, Draft, EmergenceActions
      <4>3. events \in Seq(WritersEvent)
        BY DEF WInv, StoreTyped
      <4> HIDE DEF ev
      <4> QED
        BY <4>2, <4>3 DEF EventsFrom
    <3> QED
      BY <1>4, <3>1, <3>2 DEF Emerge, Begin, Resolve, GivesUp, WriteBundle, RegisterState,
         RegisterEmerged, EmergenceFails, vars, db
  <2> QED
    BY <1>1, <2>1, <2>2, <2>3, <2>4, KeptFrom, FreshStep
<1> QED
  BY <1>3, <1>4

LEMMA FreshApplied ==
    ASSUME WInv, WInv', FreshInv, 0 < nextBody, NEW p \in Actors, Apply(p), Alone
    PROVE  FreshInv' /\ 0 < nextBody'
<1>1. Beside(p) /\ UNCHANGED draft
  BY AloneIsBeside DEF Alone, evars
<1> QED
  BY <1>1, FreshDecide, FreshApply DEF Apply

LEMMA FreshServe ==
    ASSUME WInv, WInv', FreshInv, 0 < nextBody, ServeStep
    PROVE  FreshInv' /\ 0 < nextBody'
<1>1. Alone /\ Web \in Actors
  BY ServeIsAnActor DEF ServeStep, Alone
<1>2. CASE Start
  BY <1>1, <1>2, FreshTurn
<1>3. CASE \E t \in Turns : Prune(t) \/ Turn(t)
  <2>1. PICK t \in Turns : Prune(t) \/ Turn(t)
    BY <1>3
  <2>2. t \in Actors
    BY ServeIsAnActor
  <2>3. CASE Reconcile(t)
    BY <1>1, <2>3, FreshReconcile
  <2>4. CASE Apply(t)
    BY <1>1, <2>2, <2>4, FreshApplied
  <2>5. CASE ~Reconcile(t) /\ ~Apply(t)
    BY <1>1, <2>1, <2>2, <2>5, FreshTurn DEF Turn
  <2> QED
    BY <2>3, <2>4, <2>5
<1>4. CASE \E i \in DOMAIN execs, sig \in Clicks : Feedback(i, sig)
  BY <1>1, <1>4, FreshFeedback
<1>5. CASE Apply(Web)
  BY <1>1, <1>5, FreshApplied
<1>6. CASE Reload(Web)
  BY <1>1, <1>6, FreshTurn
<1> QED
  BY <1>2, <1>3, <1>4, <1>5, <1>6 DEF ServeStep

LEMMA FreshRun ==
    ASSUME WInv, WInv', FreshInv, 0 < nextBody, RunStep
    PROVE  FreshInv' /\ 0 < nextBody'
<1>1. Alone
  BY DEF RunStep, Alone
<1>2. PICK r \in Runs : RunLoad(r) \/ Run(r) \/ RunCrash(r)
  BY DEF RunStep
<1>3. r \in Actors
  BY ServeIsAnActor
<1>4. CASE RunCrash(r)
  <2>1. UNCHANGED <<file, nextBody, events, experiments, draft>> /\ Release(r)
    BY <1>1, <1>4 DEF RunCrash, db, Alone, xvars, evars
  <2> QED
    BY <1>3, <2>1, ReleasedFrom, FreshBeside
<1>5. CASE RunGovern(r)
  BY <1>1, <1>5, FreshGovern
<1>6. CASE Apply(r)
  BY <1>1, <1>3, <1>6, FreshApplied
<1>7. CASE RunLoad(r) \/ RunRead(r) \/ RunSkip(r)
  BY <1>1, <1>3, <1>7, FreshTurn
<1> QED
  BY <1>2, <1>4, <1>5, <1>6, <1>7 DEF Run

LEMMA FreshDies ==
    ASSUME WInv, WInv', FreshInv, 0 < nextBody, ServeDies
    PROVE  FreshInv' /\ 0 < nextBody'
<1>1. UNCHANGED <<file, nextBody, events, experiments>>
  BY DEF ServeDies, Crash, db, xvars
<1>2. PacketsFrom
  BY DEF ServeDies, Crash, PacketsFrom, NoPacket
<1>3. PlansFrom
  BY DEF ServeDies, Crash, PlansFrom, NoPlan
<1>4. DraftsFrom
  BY DEF ServeDies, EmergenceStops, DraftsFrom, NoDraft
<1>5. file'.body < nextBody'
  BY <1>1 DEF FreshInv, Known
<1> QED
  BY <1>1, <1>2, <1>3, <1>4, <1>5, KeptFrom, FreshStep

LEMMA FreshNext ==
    ASSUME WInv, WInv', FreshInv, 0 < nextBody, [WritersNext]_writers
    PROVE  FreshInv' /\ 0 < nextBody'
<1>1. CASE ServeStep \/ RunStep \/ ServeDies
  BY <1>1, FreshServe, FreshRun, FreshDies
<1>2. CASE ServeStops \/ UNCHANGED writers
  <2>1. UNCHANGED <<file, nextBody, events, experiments, draft, packet, plan>>
    BY <1>2 DEF ServeStops, db, xvars, evars, writers, vars
  <2> QED
    BY <2>1, KeptFrom, FreshBeside
<1>3. CASE EvalStep
  BY <1>3, FreshEval DEF EvalStep
<1>4. CASE EmergenceStep
  BY <1>4, FreshEmerge DEF EmergenceStep
<1> QED
  BY <1>1, <1>2, <1>3, <1>4 DEF WritersNext

LEMMA FreshStart == WritersInit => FreshInv /\ 0 < nextBody
BY DEF WritersInit, Init, ExperimentsInit, EmergenceInit, FreshInv, Known, Installed, NoPacket, NoPlan,
   NoContent, NoDraft

LEMMA NoneBareTurn ==
    ASSUME NoneBare, NEW t \in Turns, Prune(t) \/ Turn(t)
    PROVE  NoneBare'
<1>1. Parsed = {} /\ \A x : Dropped(x) = {}
  BY PackageAssumption DEF Parsed, Dropped, NoneBare
<1>2. CASE Prune(t) \/ NoMatch(t) \/ AnswerFails(t) \/ Record(t) \/ JudgeFails(t) \/ Reconcile(t)
           \/ Rewriter(t) \/ \E score \in Scores : Judge(t, score)
  BY <1>1, <1>2 DEF Prune, NoMatch, AnswerFails, Record, JudgeFails, Reconcile, Rewriter, Judge, NoneBare
<1>3. CASE Match(t)
  BY <1>3 DEF Match, NoneBare
<1>4. CASE Answer(t)
  BY <1>4 DEF Answer, NoneBare
<1>5. CASE Apply(t) \/ Reload(t)
  BY <1>1, <1>5 DEF Apply, Decide, WriteFile, WriteState, WriteEvent, WriteFails, Reload, NoneBare
<1> QED
  BY <1>2, <1>3, <1>4, <1>5 DEF Turn

LEMMA NoneBareNext == ASSUME NoneBare, [WritersNext]_writers PROVE NoneBare'
<1>1. Parsed = {} /\ \A x : Dropped(x) = {}
  BY PackageAssumption DEF Parsed, Dropped, NoneBare
<1>2. ASSUME NEW p, Apply(p) \/ Reload(p) PROVE NoneBare'
  BY <1>1, <1>2 DEF Apply, Decide, WriteFile, WriteState, WriteEvent, WriteFails, Reload, NoneBare
<1>3. CASE Start \/ ServeDies \/ ServeStops
  BY <1>1, <1>3 DEF Start, ServeDies, Crash, ServeStops, NoneBare
<1>4. CASE ServeStep
  <2>1. CASE \E i \in DOMAIN execs, sig \in Clicks : Feedback(i, sig)
    BY <2>1 DEF Feedback, NoneBare
  <2> QED
    BY <1>2, <1>3, <1>4, <2>1, NoneBareTurn DEF ServeStep
<1>5. CASE RunStep
  <2>1. PICK r \in Runs : RunLoad(r) \/ Run(r) \/ RunCrash(r)
    BY <1>5 DEF RunStep
  <2>2. CASE RunLoad(r) \/ RunCrash(r) \/ RunRead(r) \/ RunSkip(r) \/ RunGovern(r)
    BY <2>2 DEF RunLoad, RunCrash, RunRead, RunSkip, RunGovern, NoneBare
  <2> QED
    BY <1>2, <2>1, <2>2 DEF Run
<1>6. CASE EvalStep
  <2>1. PICK c \in Evals : Eval(c)
    BY <1>6 DEF EvalStep
  <2>2. CASE Iterate(c) \/ Propose(c) \/ StageState(c) \/ StageEvent(c) \/ RejectEvent(c) \/ ApplyDirectly(c)
    <3>1. CASE Iterate(c) \/ StageState(c) \/ StageEvent(c) \/ RejectEvent(c)
      BY <3>1 DEF Iterate, StageState, StageEvent, RejectEvent, LogAndLeave, LogEvent, NoneBare
    <3>2. CASE Propose(c)
      <4>1. UNCHANGED bare
        BY <3>2 DEF Propose
      <4> QED
        BY <4>1 DEF NoneBare
    <3>3. CASE ApplyDirectly(c)
      BY <1>2, <3>3 DEF ApplyDirectly, Apply
    <3> QED
      BY <2>2, <3>1, <3>2, <3>3
  <2>3. CASE \E e \in DOMAIN experiments : Evaluate(c, e) \/ Promote(c, e) \/ Withdraw(c, e)
    BY <2>3 DEF Evaluate, Promote, Withdraw, NoneBare
  <2>4. CASE \/ \E new \in {"validated", "rejected", "inconclusive"} : Conclude(c, new)
             \/ InstallFile(c) \/ Mark(c) \/ PromoteState(c) \/ PromoteEvent(c)
             \/ WithdrawEvent(c) \/ WithdrawState(c) \/ EvalStops(c)
    BY <2>4 DEF Conclude, InstallFile, Mark, PromoteState, PromoteEvent, WithdrawEvent, WithdrawState,
       EvalStops, LogAndLeave, LogEvent, NoneBare
  <2> QED
    BY <2>1, <2>2, <2>3, <2>4 DEF Eval
<1>7. CASE EmergenceStep
  BY <1>1, <1>7 DEF EmergenceStep, Emerge, Begin, Resolve, GivesUp, Synthesize, WriteBundle, RegisterState,
     LogEmergence, RegisterEmerged, EmergenceFails, Ends, NoneBare, vars
<1>8. CASE UNCHANGED writers
  BY <1>8 DEF writers, vars, NoneBare
<1> QED
  BY <1>3, <1>4, <1>5, <1>6, <1>7, <1>8 DEF WritersNext

LEMMA NoneBareAlways == WritersSpec => []NoneBare
<1>1. WritersInit => NoneBare
  BY DEF WritersInit, Init, NoneBare
<1> QED
  BY <1>1, NoneBareNext, PTL DEF WritersSpec

LEMMA FreshAlways == WritersSpec => [](WInv /\ FreshInv /\ 0 < nextBody)
<1>1. WInv /\ FreshInv /\ 0 < nextBody /\ [WritersNext]_writers => (WInv /\ FreshInv /\ 0 < nextBody)'
  BY WritersNextKeeps, FreshNext
<1> QED
  BY <1>1, WritersStart, FreshStart, PTL DEF WritersSpec

-----------------------------------------------------------------------------
(* One writer after the other *)

LEMMA AppliedRests ==
    ASSUME OneOperator, WInv, OInv, FreshInv, NEW p \in Actors, Apply(p), Alone
    PROVE  OInv'
<1>1. Beside(p) /\ ~WriteFails(p)
  BY AloneIsBeside DEF OneOperator, WriteFails
<1> QED
  BY <1>1, DecideRests, WriteFileRests, WriteStateRests, WriteEventRests DEF Apply

LEMMA ServeRests == ASSUME OneOperator, WInv, OInv, FreshInv, NoneBare, ServeStep PROVE OInv'
<1>1. Alone /\ Web \in Actors
  BY ServeIsAnActor DEF ServeStep, Alone
<1>2. CASE Start /\ \A r \in Runs : pc[r] = "idle"
  BY <1>1, <1>2, StartRests
<1>3. CASE Quiet /\ \E t \in Turns : Prune(t) \/ Turn(t)
  <2>1. PICK t \in Turns : Prune(t) \/ Turn(t)
    BY <1>3
  <2>2. t \in Actors /\ t \in Serve
    BY TurnIsServe
  <2>3. CASE Apply(t)
    BY <1>1, <2>2, <2>3, AppliedRests
  <2>4. CASE Reload(t)
    BY <1>1, <2>2, <2>4, AloneIsBeside, ReloadRests
  <2>5. CASE Prune(t) \/ Answer(t) \/ Record(t) \/ Reconcile(t)
    BY <1>1, <1>3, <2>5, PruneRests, AnswerRests, RecordRests, ReconcileRests
  <2>6. CASE \/ Match(t) \/ NoMatch(t) \/ AnswerFails(t) \/ JudgeFails(t) \/ Rewriter(t)
             \/ \E score \in Scores : Judge(t, score)
    BY <1>1, <1>3, <2>6, FreeStepRests
  <2> QED
    BY <2>1, <2>3, <2>4, <2>5, <2>6 DEF Turn
<1>4. CASE Quiet /\ \E i \in DOMAIN execs, sig \in Clicks : Feedback(i, sig)
  BY <1>1, <1>4, FeedbackRests
<1>5. CASE Apply(Web)
  BY <1>1, <1>5, AppliedRests
<1>6. CASE Reload(Web)
  BY <1>1, <1>6, TurnIsServe, AloneIsBeside, ReloadRests
<1> QED
  BY <1>2, <1>3, <1>4, <1>5, <1>6 DEF ServeStep, OneOperator

LEMMA RunRests == ASSUME OneOperator, WInv, OInv, FreshInv, RunStep PROVE OInv'
<1>1. Alone /\ ~up
  BY DEF RunStep, Alone, OneOperator
<1>2. PICK r \in Runs : RunLoad(r) \/ Run(r)
  BY DEF RunStep, RunCrash, OneOperator
<1>3. CASE RunLoad(r) \/ RunRead(r) \/ RunSkip(r) \/ RunGovern(r)
  BY <1>1, <1>3, RunLoadRests, RunReadRests, RunSeenRests
<1>4. CASE Apply(r)
  BY <1>1, <1>4, TurnIsServe, AppliedRests
<1> QED
  BY <1>2, <1>3, <1>4 DEF Run

LEMMA EmergenceRests == ASSUME OneOperator, WInv, OInv, EmergenceStep PROVE OInv'
<1>1. PICK a \in Attempts : Emerge(a)
  BY DEF EmergenceStep
<1>2. UNCHANGED xvars /\ ~EmergenceFails(a)
  BY DEF EmergenceStep, EmergenceFails, OneOperator
<1> QED
  BY <1>1, <1>2, AttemptAwaits, WriteBundleRests, RegisterStateRests, LogEmergenceRests,
     RegisterEmergedRests DEF Emerge

LEMMA StutterRests == ASSUME OInv, UNCHANGED writers PROVE OInv'
<1>1. UNCHANGED <<file, status, events, up, registry, pc, seen, packet, plan, experiments, brief, stage, draft>>
  BY DEF writers, vars, db, xvars, evars
<1>2. \A x : Acts(x)' = Acts(x)
  BY <1>1 DEF Acts
<1>3. Rested' = Rested
  BY <1>1 DEF Rested, Told, Writings, Agrees, WindowKept, JustRewritten, OnceRejected, NoParent,
     OneOpen, OpenCandidates
<1>4. TakeTurns'
  BY <1>1, <1>2 DEF OInv, TakeTurns, ServeIdle
<1>5. \A p \in Actors : AtWork(p) => AtWork(p)'
  <2> TAKE p \in Actors
  <2>1. Told(file)' = Told(file) /\ WindowKept' = WindowKept /\ OneOpen' = OneOpen
        /\ JustRewritten' = JustRewritten /\ OpenCandidates' = OpenCandidates
        /\ ResolvedStatus' = ResolvedStatus /\ Carried(p)' = Carried(p) /\ InMind(p)' = InMind(p)
    BY <1>1 DEF Told, Writings, WindowKept, JustRewritten, OnceRejected, NoParent,
       OneOpen, OpenCandidates, ResolvedStatus, Carried, InMind
  <2>2. Applies(p)' = Applies(p)
    BY <1>1, <2>1 DEF Applies
  <2>3. Stages(p)' = Stages(p)
    BY <1>1, <2>1 DEF Stages
  <2>4. Installs(p)' = Installs(p)
    BY <1>1 DEF Installs
  <2> QED
    BY <1>1, <1>3, <2>1, <2>2, <2>3, <2>4 DEF AtWork
<1>6. \A a \in Attempts : Drafting(a) => Drafting(a)'
  BY <1>1, <1>3, ToldStays DEF Drafting, OneOpen, OpenCandidates
<1> QED
  BY <1>2, <1>3, <1>4, <1>5, <1>6 DEF OInv, Nobody

LEMMA NextRests == ASSUME OneOperator, WInv, OInv, FreshInv, NoneBare, [WritersNext]_writers PROVE OInv'
<1>1. ~ServeDies
  BY DEF ServeDies, Crash, OneOperator
<1>2. CASE ServeStep \/ RunStep \/ EmergenceStep
  BY <1>2, ServeRests, RunRests, EmergenceRests
<1>3. CASE ServeStops \/ UNCHANGED writers
  BY <1>3, StopRests, StutterRests
<1>4. CASE EvalStep
  BY <1>4, EvalRests DEF EvalStep, OneOperator
<1> QED
  BY <1>1, <1>2, <1>3, <1>4 DEF WritersNext

LEMMA RestsFirst == WritersInit => OInv
<1> SUFFICES ASSUME WritersInit PROVE OInv
  OBVIOUS
<1>1. \A x \in Actors \cup Attempts : ~Acts(x)
  BY DEF WritersInit, Init, EmergenceInit, Acts, HoldingLoop, Awaiting
<1>2. TakeTurns
  BY <1>1 DEF WritersInit, Init, EmergenceInit, TakeTurns, ServeIdle, Actors
<1>3. Told(file)
  BY DEF WritersInit, Init, Told, Writings
<1>4. Agrees /\ WindowKept /\ OneOpen
  BY DEF WritersInit, Init, ExperimentsInit, Agrees, WindowKept, OneOpen, OpenCandidates
<1> QED
  BY <1>1, <1>2, <1>3, <1>4 DEF OInv, Rested

LEMMA OneOperatorAlways == ASSUME OneOperator PROVE WritersSpec => [](WInv /\ OInv)
<1>1. WInv /\ FreshInv /\ OInv /\ NoneBare /\ [WritersNext]_writers => OInv'
  BY NextRests
<1> QED
  BY <1>1, RestsFirst, FreshAlways, NoneBareAlways, PTL DEF WritersSpec

(* Between decisions the skill is at rest, but for its registration: a     *)
(* command that waits for its test runs while serve is stopped.            *)
LEMMA SettledSkill ==
    ASSUME WInv, OInv, WritersSettled
    PROVE  Told(file) /\ Agrees /\ WindowKept
<1>1. \A a \in Attempts : ~Acts(a)
  BY DEF WritersSettled, Quiet, Acts, AwaitingModel, HoldingLoop
<1>2. CASE Nobody
  BY <1>2 DEF OInv, Rested
<1>3. CASE ~Nobody
  <2>1. PICK p \in Actors : Acts(p)
    BY <1>1, <1>3 DEF Nobody
  <2>2. AtWork(p) /\ Here(p) /\ pc[p] \in Awaiting \cup {"proposing", "testing"}
    BY <2>1, ActsHere DEF WritersSettled
  <2>3. CASE pc[p] = "testing"
    <3>1. p \in Evals
      BY <2>3 DEF WInv, CommandsInv, CommandAt, EvalLabels
    <3>2. p \notin Serve
      BY <3>1, ActorsAssumption, ServeIsAnActor, EvalsAssumption DEF Serve
    <3>3. Told(file) /\ status # "observing" /\ ~up
      BY <2>2, <2>3, <3>2 DEF AtWork, Stages, Here
    <3> QED
      BY <3>3 DEF Agrees, WindowKept
  <2>4. CASE pc[p] # "testing"
    <3>1. pc[p] # "idle"
      BY <2>1, AttemptsAssumption DEF Acts, Awaiting
    <3>2. pc[p] \in Undisturbed
      BY <2>2, <2>4, <3>1 DEF Awaiting, Undisturbed
    <3> QED
      BY <2>2, <3>2 DEF AtWork, Rested
  <2> QED
    BY <2>3, <2>4
<1> QED
  BY <1>2, <1>3

(* One history tells the content of the skill: with one operator who waits *)
(* for serve to stop, and as long as nothing crashes and no write fails,   *)
(* the file is between decisions what the last recorded writer left        *)
(* (apply_decision, register_emerged_skill, activate, EvaluationRunner).   *)
THEOREM OneHistoryTold == ASSUME OneOperator PROVE WritersSpec => []OneHistory
<1>1. WInv /\ OInv => OneHistory
  <2> SUFFICES ASSUME WInv, OInv, WritersSettled
               PROVE  IF Writings = {} THEN file = Installed ELSE file = events[Max(Writings)].after
    BY DEF OneHistory
  <2>1. Told(file)
    BY SettledSkill
  <2>2. CASE Writings = {}
    BY <2>1, <2>2 DEF Told
  <2>3. CASE Writings # {}
    <3>1. events \in Seq(WritersEvent)
      BY DEF WInv, StoreTyped
    <3>2. Len(events) \in Nat /\ Writings \subseteq 0..Len(events)
      BY <3>1 DEF Writings
    <3>3. Max(Writings) \in Writings /\ \A b \in Writings : b <= Max(Writings)
      BY <2>3, <3>2, MaxOfNat
    <3>4. PICK c \in Writings : (\A b \in Writings : b <= c) /\ file = events[c].after
      BY <2>1, <2>3 DEF Told
    <3>5. PICK m \in Writings : m = Max(Writings) /\ \A b \in Writings : b <= m
      BY <3>3
    <3>6. c = m
      <4>1. c \in 0..Len(events) /\ m \in 0..Len(events)
        BY <3>2
      <4>2. c <= m /\ m <= c
        BY <3>4, <3>5
      <4> QED
        BY <3>2, <4>1, <4>2
    <3> QED
      BY <2>3, <3>4, <3>5, <3>6
  <2> QED
    BY <2>2, <2>3
<1> QED
  BY <1>1, OneOperatorAlways, PTL

(* serve uses what is stored: under the same conditions a skill that is    *)
(* not disabled is registered with the content of its file, whoever wrote  *)
(* it last (Agent._apply_skill_update, register_emerged_skill).            *)
THEOREM LiveIsWhatIsStored == ASSUME OneOperator PROVE WritersSpec => []LiveIsStored
<1>1. WInv /\ OInv => LiveIsStored
  BY SettledSkill DEF LiveIsStored, Agrees
<1> QED
  BY <1>1, OneOperatorAlways, PTL

(* Nobody else's content is observed: under the same conditions, and when  *)
(* a packet holds at least two events, an observing skill is the rewrite   *)
(* its window is about (observation_outcome).  Two, because an open        *)
(* candidate may be rejected while the rewrite is observed.                *)
THEOREM ObservedRewriteIsLive ==
    ASSUME OneOperator, HistoryLimit >= 2
    PROVE  WritersSpec => []ObservedIsLive
<1>1. WInv /\ OInv => ObservedIsLive
  <2> SUFFICES ASSUME WInv, OInv, WritersSettled, status = "observing"
               PROVE  /\ LatestRewrite(Len(events)) # 0
                      /\ events[LatestRewrite(Len(events))].after = file
    BY DEF ObservedIsLive
  <2>1. Told(file) /\ (JustRewritten \/ OnceRejected) /\ events \in Seq(WritersEvent)
    BY SettledSkill DEF WindowKept, WInv, StoreTyped
  <2> DEFINE n == Len(events)
  <2>2. PICK r \in 1..n : /\ r >= n - 1
                          /\ events[r].action = "rewrite" /\ events[r].after = file
                          /\ \A j \in (r + 1)..n : events[j].action = "reject"
    BY <2>1, WindowFound
  <2>3. n \in Nat /\ HistoryLimit \in Nat
    BY <2>1, BoundsAssumption
  <2>4. r \in History(n)
    BY <2>2, <2>3 DEF History
  <2>5. IsLatestRewrite(r, n)
    BY <2>2 DEF IsLatestRewrite
  <2>6. \A i \in History(n) : IsLatestRewrite(i, n) => i = r
    <3> SUFFICES ASSUME NEW i \in History(n), IsLatestRewrite(i, n), i # r PROVE FALSE
      OBVIOUS
    <3>1. i \in 1..n
      BY DEF History
    <3>2. CASE i < r
      <4>1. r \in (i + 1)..n
        BY <2>2, <2>3, <3>1, <3>2
      <4> QED
        BY <2>2, <4>1 DEF IsLatestRewrite
    <3>3. CASE i > r
      <4>1. i \in (r + 1)..n
        BY <2>2, <2>3, <3>1, <3>3
      <4> QED
        BY <2>2, <4>1 DEF IsLatestRewrite
    <3> QED
      BY <2>2, <2>3, <3>1, <3>2, <3>3
  <2>7. LatestRewrite(n) = r
    BY <2>4, <2>5, <2>6 DEF LatestRewrite
  <2>8. r # 0
    BY <2>2, <2>3
  <2> QED
    BY <2>2, <2>7, <2>8
<1> QED
  BY <1>1, OneOperatorAlways, PTL

-----------------------------------------------------------------------------
(* What is live was promoted *)

(* Instructions that came about by promotions that still stand: all of      *)
(* these, and whatever they were derived from.                              *)
Stands(X, body) ==
    \E L \in SUBSET (0..body) :
        /\ body \in L
        /\ \A e \in DOMAIN X : X[e].candidate.body \in L =>
              /\ X[e].parent.body \in L
              /\ \E x \in DOMAIN X : X[x].candidate = X[e].candidate /\ X[x].status = "promoted"

(* A candidate is younger than its parent; one that is tried again has the  *)
(* candidate and the parent it had.                                         *)
Lineage(X) ==
    /\ \A e \in DOMAIN X : X[e].parent.body < X[e].candidate.body
    /\ \A e, f \in DOMAIN X : X[e].candidate.body = X[f].candidate.body =>
          X[e].candidate = X[f].candidate /\ X[e].parent = X[f].parent

(* A rewrite that was not rolled back.                                      *)
Lasting(i) ==
    /\ events[i].action = "rewrite"
    /\ \A j \in DOMAIN events : j > i => events[j].action # "rollback"

(* What a decision may take up or go back to.                               *)
Backed(p) ==
    /\ Stands(experiments, packet[p].current.body)
    /\ \A i \in History(packet[p].history) :
          IsLatestRewrite(i, packet[p].history) => Stands(experiments, events[i].before.body)

Deciding == {"rewriting", "decide", "proposing", "write_file", "write_state", "write_event"}

Derived(p) == pc[p] \in {"promote_file", "promote_mark", "withdraw_file"} =>
                 Stands(experiments, experiments[brief[p].exp].parent.body)

Backing(p) ==
    /\ pc[p] \in Deciding => Backed(p)
    /\ pc[p] = "write_file" => Stands(experiments, plan[p].after.body)

FileStands == (\A p \in Actors : pc[p] # "promote_mark") => Stands(experiments, file.body)

PastStands ==
    (\A p \in Actors : pc[p] # "withdraw_event") =>
        \A i \in DOMAIN events : Lasting(i) => Stands(experiments, events[i].before.body)

LineInv ==
    /\ Lineage(experiments)
    /\ FileStands /\ PastStands
    /\ \A p \in Actors : Backing(p)
    /\ \A c \in Evals : Derived(c)
    /\ \A a \in Attempts : stage[a] = "writing" => Stands(experiments, draft[a].after.body)

(* From X to Y, what became of these instructions was not taken back.       *)
Keeps(X, Y, body) ==
    /\ \A e \in DOMAIN X :
          /\ e \in DOMAIN Y /\ Y[e].parent = X[e].parent /\ Y[e].candidate = X[e].candidate
          /\ X[e].status = "promoted" => Y[e].status = "promoted" \/ X[e].candidate.body \notin 0..body
    /\ \A e \in DOMAIN Y : \/ e \in DOMAIN X
                           \/ Y[e].candidate.body \notin 0..body
                           \/ \E f \in DOMAIN X : /\ Y[e].candidate = X[f].candidate
                                                  /\ Y[e].parent = X[f].parent

LEMMA StandsOn ==
    ASSUME NEW X, NEW Y, NEW body, Keeps(X, Y, body), Stands(X, body)
    PROVE  Stands(Y, body)
<1>1. PICK L \in SUBSET (0..body) :
        /\ body \in L
        /\ \A e \in DOMAIN X : X[e].candidate.body \in L =>
              /\ X[e].parent.body \in L
              /\ \E x \in DOMAIN X : X[x].candidate = X[e].candidate /\ X[x].status = "promoted"
  BY DEF Stands
<1>2. \A e \in DOMAIN Y : Y[e].candidate.body \in L =>
              /\ Y[e].parent.body \in L
              /\ \E x \in DOMAIN Y : Y[x].candidate = Y[e].candidate /\ Y[x].status = "promoted"
  <2> SUFFICES ASSUME NEW e \in DOMAIN Y, Y[e].candidate.body \in L
               PROVE  /\ Y[e].parent.body \in L
                      /\ \E x \in DOMAIN Y : Y[x].candidate = Y[e].candidate /\ Y[x].status = "promoted"
    OBVIOUS
  <2>1. PICK f \in DOMAIN X : X[f].candidate = Y[e].candidate /\ X[f].parent = Y[e].parent
    BY <1>1 DEF Keeps
  <2>2. PICK x \in DOMAIN X : X[x].candidate = X[f].candidate /\ X[x].status = "promoted"
    BY <1>1, <2>1
  <2>3. X[x].candidate.body \in 0..body
    BY <1>1, <2>1, <2>2
  <2>4. x \in DOMAIN Y /\ Y[x].candidate = X[x].candidate /\ Y[x].status = "promoted"
    BY <2>2, <2>3 DEF Keeps
  <2> QED
    BY <1>1, <2>1, <2>2, <2>4
<1> QED
  BY <1>1, <1>2 DEF Stands

LEMMA NewStands ==
    ASSUME NEW X, NEW body \in Nat, \A e \in DOMAIN X : X[e].candidate.body # body
    PROVE  Stands(X, body)
<1>1. {body} \in SUBSET (0..body)
  OBVIOUS
<1> QED
  BY <1>1 DEF Stands

LEMMA ParentStands ==
    ASSUME NEW X, X \in Seq(Experiment), Lineage(X), NEW e \in DOMAIN X, Stands(X, X[e].candidate.body)
    PROVE  Stands(X, X[e].parent.body)
<1>1. \A f \in DOMAIN X : X[f].parent.body \in Nat /\ X[f].candidate.body \in Nat
  <2> TAKE f \in DOMAIN X
  <2>1. X[f] \in Experiment
    OBVIOUS
  <2> QED
    BY <2>1 DEF Experiment, Content
<1>2. PICK L \in SUBSET (0..(X[e].candidate.body)) :
        /\ X[e].candidate.body \in L
        /\ \A f \in DOMAIN X : X[f].candidate.body \in L =>
              /\ X[f].parent.body \in L
              /\ \E x \in DOMAIN X : X[x].candidate = X[f].candidate /\ X[x].status = "promoted"
  BY DEF Stands
<1> DEFINE body == X[e].parent.body
           M == {b \in L : b <= body}
<1>3. body \in Nat /\ body \in M /\ M \in SUBSET (0..body)
  <2>1. body \in Nat /\ body \in L
    BY <1>1, <1>2
  <2>2. ASSUME NEW b \in M PROVE b \in 0..body
    <3>1. b \in L /\ b <= body
      OBVIOUS
    <3>2. X[e].candidate.body \in Nat
      BY <1>1
    <3>3. b \in 0..(X[e].candidate.body)
      BY <3>1
    <3> HIDE DEF M, body
    <3> QED
      BY <2>1, <3>1, <3>2, <3>3
  <2>3. body <= body
    BY <2>1
  <2> QED
    BY <2>1, <2>2, <2>3
<1>4. \A f \in DOMAIN X : X[f].candidate.body \in M => X[f].parent.body \in M
  <2> SUFFICES ASSUME NEW f \in DOMAIN X, X[f].candidate.body \in M PROVE X[f].parent.body <= body
    BY <1>2
  <2>1. X[f].parent.body < X[f].candidate.body /\ X[f].candidate.body <= body
    BY DEF Lineage
  <2> QED
    BY <1>1, <1>3, <2>1
<1>5. \A f \in DOMAIN X : X[f].candidate.body \in M =>
              /\ X[f].parent.body \in M
              /\ \E x \in DOMAIN X : X[x].candidate = X[f].candidate /\ X[x].status = "promoted"
  BY <1>2, <1>4
<1> HIDE DEF M
<1> QED
  BY <1>3, <1>5 DEF Stands

LEMMA PromotedStands ==
    ASSUME NEW X, X \in Seq(Experiment), Lineage(X), NEW e \in DOMAIN X, X[e].status = "promoted",
           Stands(X, X[e].parent.body)
    PROVE  Stands(X, X[e].candidate.body)
<1> DEFINE body == X[e].candidate.body
<1>1. body \in Nat /\ X[e].parent.body \in Nat /\ X[e].parent.body < body
  <2>1. X[e] \in Experiment
    OBVIOUS
  <2> QED
    BY <2>1 DEF Experiment, Content, Lineage
<1>2. PICK L \in SUBSET (0..(X[e].parent.body)) :
        /\ X[e].parent.body \in L
        /\ \A f \in DOMAIN X : X[f].candidate.body \in L =>
              /\ X[f].parent.body \in L
              /\ \E x \in DOMAIN X : X[x].candidate = X[f].candidate /\ X[x].status = "promoted"
  BY DEF Stands
<1> DEFINE M == L \cup {body}
<1>3. body \in M /\ M \in SUBSET (0..body)
  <2>1. ASSUME NEW b \in L PROVE b \in 0..body
    <3>1. b \in 0..(X[e].parent.body)
      OBVIOUS
    <3> HIDE DEF body
    <3> QED
      BY <1>1, <3>1
  <2>2. body \in 0..body
    <3> HIDE DEF body
    <3> QED
      BY <1>1
  <2> QED
    BY <2>1, <2>2
<1>4. \A f \in DOMAIN X : X[f].candidate.body \in M =>
              /\ X[f].parent.body \in M
              /\ \E x \in DOMAIN X : X[x].candidate = X[f].candidate /\ X[x].status = "promoted"
  <2> SUFFICES ASSUME NEW f \in DOMAIN X, X[f].candidate.body = body
               PROVE  X[f].parent = X[e].parent /\ X[f].candidate = X[e].candidate
    BY <1>2
  <2> QED
    BY DEF Lineage
<1> HIDE DEF M, body
<1> QED
  BY <1>3, <1>4 DEF Stands, body

(* A look at the skill while nobody else is in the middle of something.     *)
LEMMA AllStands ==
    ASSUME OInv, LineInv, NEW x \in Actors \cup Attempts, Acts(x) \/ Nobody,
           x \in Actors => pc[x] # "promote_mark" /\ pc[x] # "withdraw_event"
    PROVE  /\ Stands(experiments, file.body)
           /\ \A i \in DOMAIN events : Lasting(i) => Stands(experiments, events[i].before.body)
<1>1. \A p \in Actors : pc[p] \in {"promote_mark", "withdraw_event"} => Acts(p)
  BY AttemptsAssumption DEF Acts, Awaiting
<1>2. \A p \in Actors : pc[p] # "promote_mark" /\ pc[p] # "withdraw_event"
  BY <1>1 DEF OInv, TakeTurns, Nobody
<1> QED
  BY <1>2 DEF LineInv, FileStands, PastStands

LEMMA PastKept ==
    ASSUME WInv, NEW q \in Actors,
           events' = events \/ \E ev \in WritersEvent : events' = Append(events, ev),
           UNCHANGED experiments, packet'[q] = packet[q], Backed(q)
    PROVE  Backed(q)'
<1>1. /\ packet[q].history \in Nat /\ Len(events) \in Nat /\ packet[q].history <= Len(events)
      /\ DOMAIN events = 1..Len(events) /\ events \in Seq(WritersEvent)
  BY DEF WInv, StoreTyped, LocalsTyped, PacketsAreOfThePast, Packets
<1>2. \A i \in 1..Len(events) : events'[i] = events[i]
  BY <1>1
<1>3. ASSUME NEW i \in History(packet[q].history), IsLatestRewrite(i, packet[q].history)'
      PROVE  Stands(experiments, events'[i].before.body)
  <2>1. i \in 1..packet[q].history
    BY DEF History
  <2>2. events'[i] = events[i] /\ \A j \in (i + 1)..packet[q].history : events'[j] = events[j]
    BY <1>1, <1>2, <2>1
  <2>3. IsLatestRewrite(i, packet[q].history)
    BY <1>3, <2>2 DEF IsLatestRewrite
  <2> QED
    BY <2>2, <2>3 DEF Backed
<1> QED
  BY <1>3 DEF Backed, History

LEMMA PacketBacked ==
    ASSUME WInv, NEW p \in Actors, NEW q, packet' = [packet EXCEPT ![p] = q],
           q.current = file, q.history = Len(events), UNCHANGED <<events, experiments>>,
           Stands(experiments, file.body),
           \A i \in DOMAIN events : Lasting(i) => Stands(experiments, events[i].before.body)
    PROVE  Backed(p)'
<1>1. packet'[p] = q
  BY DEF WInv, LocalsTyped
<1>2. Len(events) \in Nat /\ DOMAIN events = 1..Len(events)
  BY DEF WInv, StoreTyped
<1>3. ASSUME NEW i \in History(Len(events)), IsLatestRewrite(i, Len(events))
      PROVE  Stands(experiments, events[i].before.body)
  <2>1. i \in DOMAIN events
    BY <1>2 DEF History
  <2>2. Lasting(i)
    BY <1>2, <1>3, <2>1 DEF Lasting, IsLatestRewrite
  <2> QED
    BY <2>1, <2>2
<1> QED
  BY <1>1, <1>3 DEF Backed, History, IsLatestRewrite

(* A step of one actor that leaves the experiments alone: what it must have *)
(* seen to of packets and plans, of the file, and of the event it records.  *)
OthersWait(p) == \A q \in Actors : q # p => packet'[q] = packet[q] /\ plan'[q] = plan[q]

FileKept(label) == file' = file \/ label = "promote_mark" \/ Stands(experiments, file'.body)

PastGoesOn(p) ==
    \/ UNCHANGED events /\ pc[p] # "withdraw_event"
    \/ \E ev \in WritersEvent :
         /\ events' = Append(events, ev)
         /\ ev.action = "rewrite" => Stands(experiments, ev.before.body)
         /\ pc[p] = "withdraw_event" => ev.action = "rollback"

LEMMA OthersAtRest ==
    ASSUME WInv, NEW p \in Actors,
           UNCHANGED packet \/ \E x : packet' = [packet EXCEPT ![p] = x],
           UNCHANGED plan \/ \E x : plan' = [plan EXCEPT ![p] = x]
    PROVE  OthersWait(p)
BY DEF OthersWait, WInv, LocalsTyped

LEMMA ReleaseWaits == ASSUME WInv, NEW p \in Actors, Release(p) PROVE OthersWait(p)
BY OthersAtRest DEF Release

LEMMA LineOf ==
    ASSUME WInv, LineInv, NEW p \in Actors, NEW label, pc' = [pc EXCEPT ![p] = label],
           Beside(p), pc[p] # "promote_mark", OthersWait(p), FileKept(label), PastGoesOn(p),
           Backing(p)', p \in Evals => Derived(p)'
    PROVE  LineInv'
<1>1. /\ pc \in [Actors -> Labels] /\ pc'[p] = label
      /\ \A q \in Actors : q # p => pc'[q] = pc[q]
      /\ UNCHANGED <<experiments, stage, draft>>
  BY DEF WInv, LocalsTyped, Beside, evars
<1>2. FileStands'
  <2> SUFFICES ASSUME \A q \in Actors : pc'[q] # "promote_mark"
               PROVE  Stands(experiments, file'.body)
    BY <1>1 DEF FileStands
  <2>1. \A q \in Actors : pc[q] # "promote_mark"
    BY <1>1
  <2> QED
    BY <1>1, <2>1 DEF LineInv, FileStands, FileKept
<1>3. PastStands'
  <2> SUFFICES ASSUME \A q \in Actors : pc'[q] # "withdraw_event",
                      NEW i \in DOMAIN events', Lasting(i)'
               PROVE  Stands(experiments, events'[i].before.body)
    BY <1>1 DEF PastStands
  <2>1. CASE UNCHANGED events /\ pc[p] # "withdraw_event"
    <3>1. \A q \in Actors : pc[q] # "withdraw_event"
      BY <1>1, <2>1
    <3>2. i \in DOMAIN events /\ Lasting(i)
      BY <2>1 DEF Lasting
    <3> QED
      BY <2>1, <3>1, <3>2 DEF LineInv, PastStands
  <2>2. ASSUME NEW ev \in WritersEvent, events' = Append(events, ev),
               ev.action = "rewrite" => Stands(experiments, ev.before.body),
               pc[p] = "withdraw_event" => ev.action = "rollback"
        PROVE  Stands(experiments, events'[i].before.body)
    <3>1. /\ Len(events) \in Nat
          /\ DOMAIN events = 1..Len(events) /\ DOMAIN events' = 1..(Len(events) + 1)
          /\ \A c \in 1..Len(events) : events'[c] = events[c]
          /\ events'[Len(events) + 1] = ev
      BY <2>2, EventAdded DEF WInv, StoreTyped
    <3>2. CASE i = Len(events) + 1
      BY <2>2, <3>1, <3>2 DEF Lasting
    <3>3. CASE i \in 1..Len(events)
      <4>1. i < Len(events) + 1 /\ Len(events) + 1 \in DOMAIN events'
        BY <3>1, <3>3
      <4>2. ev.action # "rollback"
        BY <3>1, <4>1 DEF Lasting
      <4>3. Lasting(i)
        BY <3>1, <3>3 DEF Lasting
      <4>4. \A q \in Actors : pc[q] # "withdraw_event"
        BY <1>1, <2>2, <4>2
      <4> QED
        BY <3>1, <3>3, <4>3, <4>4 DEF LineInv, PastStands
    <3> QED
      BY <3>1, <3>2, <3>3
  <2> QED
    BY <2>1, <2>2 DEF PastGoesOn
<1>4. \A q \in Actors : Backing(q)'
  <2> SUFFICES ASSUME NEW q \in Actors, q # p PROVE Backing(q)'
    OBVIOUS
  <2>1. Backed(q) => Backed(q)'
    BY <1>1, PastKept DEF OthersWait, PastGoesOn
  <2> QED
    BY <1>1, <2>1 DEF LineInv, Backing, OthersWait
<1>5. \A c \in Evals : Derived(c)'
  <2> SUFFICES ASSUME NEW c \in Evals, c # p PROVE Derived(c)'
    OBVIOUS
  <2>1. c \in Actors /\ brief'[c] = brief[c]
    BY ServeIsAnActor DEF Beside
  <2> QED
    BY <1>1, <2>1 DEF LineInv, Derived
<1> QED
  BY <1>1, <1>2, <1>3, <1>4, <1>5 DEF LineInv

(* Labels at which an actor relies on nothing.                              *)
Claims == Deciding \cup {"promote_file", "promote_mark", "withdraw_file"}

LEMMA NoClaims ==
    ASSUME WInv, NEW p \in Actors, NEW label, pc' = [pc EXCEPT ![p] = label], label \notin Claims
    PROVE  Backing(p)' /\ Derived(p)'
BY DEF WInv, LocalsTyped, Claims, Deciding, Backing, Derived

LEMMA LineEnds ==
    ASSUME WInv, LineInv, NEW p \in Actors, NEW label, pc' = [pc EXCEPT ![p] = label],
           label \notin Claims, Beside(p), pc[p] # "promote_mark", OthersWait(p),
           UNCHANGED file, PastGoesOn(p)
    PROVE  LineInv'
BY NoClaims, LineOf DEF FileKept

LEMMA LineStays ==
    ASSUME LineInv, UNCHANGED <<pc, file, events, experiments, packet, plan, brief, stage, draft>>
    PROVE  LineInv'
<1>1. \A i \in DOMAIN events : Lasting(i)' = Lasting(i)
  BY DEF Lasting
<1>2. FileStands' /\ PastStands'
  BY <1>1 DEF LineInv, FileStands, PastStands
<1>3. \A p \in Actors : Backing(p)'
  BY DEF LineInv, Backing, Backed, History, IsLatestRewrite
<1>4. \A c \in Evals : Derived(c)'
  BY DEF LineInv, Derived
<1> QED
  BY <1>2, <1>3, <1>4 DEF LineInv

LEMMA LineTurn ==
    ASSUME WInv, LineInv, NEW p \in Actors, Alone,
           \/ Prune(p) \/ Match(p) \/ NoMatch(p) \/ AnswerFails(p) \/ Answer(p) \/ Record(p)
           \/ JudgeFails(p) \/ Reload(p)
           \/ RunLoad(p) \/ RunRead(p) \/ RunSkip(p) \/ \E score \in Scores : Judge(p, score)
    PROVE  LineInv'
<1>1. PICK label \in {"context", "answering", "recording", "judging", "reconcile", "loaded", "seen", "idle"} :
         pc' = [pc EXCEPT ![p] = label]
  BY DEF Prune, Match, NoMatch, AnswerFails, Answer, Record, JudgeFails, Reload, RunLoad, RunRead,
         RunSkip, Judge, Goto, Release
<1>2. label \notin Claims
  BY DEF Claims, Deciding
<1>3. UNCHANGED <<file, events>> /\ pc[p] # "promote_mark" /\ pc[p] # "withdraw_event"
  BY DEF Prune, Match, NoMatch, AnswerFails, Answer, Record, JudgeFails, Reload, RunLoad, RunRead,
         RunSkip, Judge, db
<1>4. OthersWait(p)
  <2>1. (UNCHANGED packet /\ UNCHANGED plan) \/ Release(p)
    BY DEF Prune, Match, NoMatch, AnswerFails, Answer, Record, JudgeFails, Reload, RunLoad, RunRead,
           RunSkip, Judge
  <2> QED
    BY <2>1, ReleaseWaits, OthersAtRest
<1> QED
  BY <1>1, <1>2, <1>3, <1>4, AloneIsBeside, LineEnds DEF PastGoesOn

(* A packet is built, and the decision or the rewriter is next.             *)
LEMMA LinePacket ==
    ASSUME WInv, OInv, LineInv, NEW p \in Actors, NEW label \in {"rewriting", "decide", "proposing"}, NEW q,
           pc' = [pc EXCEPT ![p] = label], packet' = [packet EXCEPT ![p] = q],
           q.current = file, q.history = Len(events), UNCHANGED <<file, events, plan>>, Beside(p),
           Acts(p) \/ Nobody, pc[p] # "promote_mark", pc[p] # "withdraw_event"
    PROVE  LineInv'
<1>1. UNCHANGED experiments
  BY DEF Beside
<1>2. Backed(p)'
  BY <1>1, AllStands, PacketBacked
<1>3. pc'[p] = label
  BY DEF WInv, LocalsTyped
<1>4. Backing(p)' /\ Derived(p)'
  BY <1>2, <1>3 DEF Backing, Derived
<1>5. OthersWait(p)
  BY OthersAtRest
<1> QED
  BY <1>4, <1>5, LineOf DEF FileKept, PastGoesOn

LEMMA LineReconcile ==
    ASSUME WInv, OInv, LineInv, NEW t \in Turns, Reconcile(t), Alone
    PROVE  LineInv'
<1>1. t \in Actors /\ Acts(t) /\ Beside(t) /\ pc[t] = "reconcile" /\ UNCHANGED <<file, events>>
  BY TurnIsServe, ServeActs, AloneIsBeside DEF Reconcile, Awaiting, db
<1>2. PICK typed \in TypedDecisions :
         LET q == BuildPacket("serve", held[t].ver, typed, Calm, FALSE)
         IN  IF Governed(ResolvedStatus) /\ HasEvidence(q)
             THEN /\ packet' = [packet EXCEPT ![t] = q]
                  /\ Goto(t, IF RewriteIsDue(q) THEN "rewriting" ELSE "decide")
                  /\ UNCHANGED <<held, seen, exec, plan>>
             ELSE Release(t)
  BY DEF Reconcile
<1> DEFINE q == BuildPacket("serve", held[t].ver, typed, Calm, FALSE)
<1>3. q.current = file /\ q.history = Len(events)
  BY DEF BuildPacket
<1>4. CASE Release(t)
  BY <1>1, <1>4, ReleaseWaits, LineEnds DEF Release, Goto, Claims, Deciding, PastGoesOn
<1>5. CASE ~Release(t)
  <2>1. /\ packet' = [packet EXCEPT ![t] = q] /\ UNCHANGED plan
        /\ Goto(t, IF RewriteIsDue(q) THEN "rewriting" ELSE "decide")
    BY <1>2, <1>5
  <2> HIDE DEF q
  <2>2. PICK label \in {"rewriting", "decide", "proposing"} : pc' = [pc EXCEPT ![t] = label]
    BY <2>1 DEF Goto
  <2> QED
    BY <1>1, <1>3, <2>1, <2>2, LinePacket
<1> QED
  BY <1>4, <1>5

LEMMA LineRewriter ==
    ASSUME WInv, LineInv, NEW t \in Turns, Rewriter(t), Alone
    PROVE  LineInv'
<1>1. /\ t \in Actors /\ Beside(t) /\ pc[t] = "rewriting" /\ pc' = [pc EXCEPT ![t] = "decide"]
      /\ UNCHANGED <<file, events, packet, plan, experiments>>
  BY TurnIsServe, AloneIsBeside DEF Rewriter, db, Goto, Alone, xvars
<1>2. Backed(t)'
  <2>1. Backed(t)
    BY <1>1 DEF LineInv, Backing, Deciding
  <2> QED
    BY <1>1, <2>1, PastKept
<1>3. Backing(t)' /\ Derived(t)'
  BY <1>1, <1>2 DEF Backing, Derived, WInv, LocalsTyped
<1> QED
  BY <1>1, <1>3, LineOf, OthersAtRest DEF FileKept, PastGoesOn

LEMMA LineFeedback ==
    ASSUME WInv, OInv, LineInv, Quiet, NEW i \in DOMAIN execs, NEW sig \in Clicks, Feedback(i, sig), Alone
    PROVE  LineInv'
<1>1. /\ Nobody /\ Web \in Actors /\ Beside(Web) /\ pc[Web] = "idle" /\ pc' = [pc EXCEPT ![Web] = "decide"]
      /\ UNCHANGED <<file, events, plan>>
  BY TurnIsServe, FreeHere, AloneIsBeside DEF Feedback, Goto
<1>2. \E q : packet' = [packet EXCEPT ![Web] = q] /\ q.current = file /\ q.history = Len(events)
  <2>1. PICK typed \in TypedDecisions :
         packet' = [packet EXCEPT ![Web] =
                      BuildPacket("serve", IF registry.in THEN registry.skill.ver ELSE execs[i].ver,
                                  typed, Calm, FALSE)']
    BY DEF Feedback
  <2> DEFINE v == IF registry.in THEN registry.skill.ver ELSE execs[i].ver
             q == BuildPacket("serve", v, typed, Calm, FALSE)'
  <2>2. q.current = file' /\ q.history = Len(events')
    BY DEF BuildPacket
  <2> QED
    BY <1>1, <2>1, <2>2
<1> QED
  BY <1>1, <1>2, LinePacket

LEMMA LineGovern ==
    ASSUME WInv, OInv, LineInv, NEW r \in Runs, RunGovern(r), Alone
    PROVE  LineInv'
<1>1. /\ r \in Actors /\ Acts(r) /\ Beside(r) /\ pc[r] = "seen" /\ pc' = [pc EXCEPT ![r] = "decide"]
      /\ UNCHANGED <<file, events, plan>>
  BY RunActs, AloneIsBeside DEF RunGovern, Goto
<1>2. \E q : packet' = [packet EXCEPT ![r] = q] /\ q.current = file /\ q.history = Len(events)
  <2>1. \E typed \in TypedDecisions :
         \/ packet' = [packet EXCEPT ![r] = BuildPacket("run", held[r].ver, typed, Calm, FALSE)']
         \/ \E policy \in Policies, exemplars \in BOOLEAN :
              packet' = [packet EXCEPT ![r] =
                               BuildPacket("run", held[r].ver, typed, policy, exemplars)']
    BY DEF RunGovern
  <2>2. PICK typed, policy, exemplars :
         packet' = [packet EXCEPT ![r] = BuildPacket("run", held[r].ver, typed, policy, exemplars)']
    BY <2>1
  <2> DEFINE q == BuildPacket("run", held[r].ver, typed, policy, exemplars)'
  <2>3. q.current = file' /\ q.history = Len(events')
    BY DEF BuildPacket
  <2>4. packet' = [packet EXCEPT ![r] = q]
    BY <2>2
  <2> HIDE DEF q
  <2> QED
    BY <1>1, <2>3, <2>4
<1> QED
  BY <1>1, <1>2, LinePacket

(* Instructions that are not yet written.                                   *)
LEMMA NextStands ==
    ASSUME WInv, FreshInv
    PROVE  Stands(experiments, nextBody)
<1>1. nextBody \in Nat /\ experiments \in Seq(Experiment)
  BY DEF WInv, StoreTyped, CommandsInv
<1>2. ASSUME NEW e \in DOMAIN experiments PROVE experiments[e].candidate.body # nextBody
  <2>1. experiments[e] \in Experiment /\ experiments[e].candidate.body < nextBody
    BY <1>1 DEF FreshInv, Known
  <2>2. experiments[e].candidate.body \in Nat
    BY <2>1 DEF Experiment, Content
  <2> QED
    BY <1>1, <2>1, <2>2
<1> QED
  BY <1>1, <1>2, NewStands

(* What a decision takes up is new, or what it found, or what a rewrite     *)
(* that lasts has replaced.                                                 *)
LEMMA OutcomeStands ==
    ASSUME WInv, FreshInv, NEW p \in Actors, Backed(p), NEW d, d \in Reviewed(packet[p])
    PROVE  Stands(experiments, Outcome(packet[p], d).body)
<1> DEFINE q == packet[p]
<1>1. q \in Packets /\ q.history \in Nat
  BY DEF WInv, LocalsTyped, Packets
<1> HIDE DEF q
<1>3. CASE d = "rewrite"
  <2>1. Outcome(q, d).body = nextBody
    BY <1>3 DEF Outcome
  <2> QED
    BY <2>1, NextStands DEF q
<1>4. CASE d = "rollback"
  <2> DEFINE i == LatestRewrite(q.history)
  <2>1. i # 0
    BY <1>1, <1>4, ReviewedTyped DEF q
  <2>2. i \in History(q.history) /\ IsLatestRewrite(i, q.history)
    BY <2>1 DEF LatestRewrite
  <2>3. Outcome(q, d) = events[i].before
    BY <1>4 DEF Outcome
  <2> HIDE DEF i
  <2>4. Stands(experiments, events[i].before.body)
    BY <2>2 DEF Backed, q
  <2> QED
    BY <2>3, <2>4 DEF q
<1>5. CASE d \notin {"rewrite", "rollback"}
  <2>1. Outcome(q, d).body = q.current.body
    <3>1. CASE d = "refresh"
      BY <3>1 DEF Outcome
    <3>2. CASE d # "refresh"
      <4>1. Outcome(q, d) = q.current
        BY <1>5, <3>2 DEF Outcome
      <4> QED
        BY <4>1
    <3> QED
      BY <3>1, <3>2
  <2> QED
    BY <2>1 DEF Backed, q
<1> QED
  BY <1>3, <1>4, <1>5

(* A decision is made: its plan stands on what is there.                    *)
LEMMA LinePlan ==
    ASSUME WInv, LineInv, FreshInv, NEW p \in Actors, NEW label \in {"write_file", "write_state"},
           pc[p] \in {"decide", "proposing"}, pc' = [pc EXCEPT ![p] = label],
           NEW d, d \in Reviewed(packet[p]),
           plan' = [plan EXCEPT ![p] = [decision |-> d, after |-> Outcome(packet[p], d)]],
           UNCHANGED <<file, events, packet>>, Beside(p)
    PROVE  LineInv'
<1>1. Backed(p) /\ UNCHANGED experiments
  BY DEF LineInv, Backing, Deciding, Beside
<1>2. Backed(p)'
  BY <1>1, PastKept
<1>3. plan'[p].after = Outcome(packet[p], d) /\ pc'[p] = label
  BY DEF WInv, LocalsTyped
<1>4. Stands(experiments', plan'[p].after.body)
  BY <1>1, <1>3, OutcomeStands
<1>5. Backing(p)' /\ Derived(p)'
  BY <1>2, <1>3, <1>4 DEF Backing, Derived
<1>6. OthersWait(p)
  BY OthersAtRest
<1> QED
  BY <1>5, <1>6, LineOf DEF FileKept, PastGoesOn

LEMMA LineDecide ==
    ASSUME WInv, LineInv, FreshInv, NEW p \in Actors, Decide(p), Beside(p)
    PROVE  LineInv'
<1>1. pc[p] = "decide" /\ UNCHANGED <<file, events>>
  BY DEF Decide, db
<1>2. PICK d \in Reviewed(packet[p]) :
        IF d = "keep"
        THEN Release(p) /\ UNCHANGED nextBody
        ELSE /\ plan' = [plan EXCEPT ![p] = [decision |-> d, after |-> Outcome(packet[p], d)]]
             /\ nextBody' = IF d = "rewrite" THEN nextBody + 1 ELSE nextBody
             /\ Goto(p, IF d \in {"rewrite", "refresh", "rollback"} THEN "write_file"
                        ELSE "write_state")
             /\ UNCHANGED <<held, seen, exec, packet>>
  BY DEF Decide
<1>3. CASE d = "keep"
  <2>1. Release(p)
    BY <1>2, <1>3
  <2> QED
    BY <1>1, <2>1, ReleaseWaits, LineEnds DEF Release, Goto, Claims, Deciding, PastGoesOn
<1>4. CASE d # "keep"
  <2>1. PICK label \in {"write_file", "write_state"} : pc' = [pc EXCEPT ![p] = label]
    BY <1>2, <1>4 DEF Goto
  <2>2. /\ plan' = [plan EXCEPT ![p] = [decision |-> d, after |-> Outcome(packet[p], d)]]
        /\ UNCHANGED packet
    BY <1>2, <1>4
  <2> QED
    BY <1>1, <2>1, <2>2, LinePlan
<1> QED
  BY <1>3, <1>4

LEMMA LineWrite ==
    ASSUME WInv, LineInv, NEW p \in Actors, WriteFile(p) \/ WriteState(p), Beside(p)
    PROVE  LineInv'
<1>1. PICK label \in {"write_state", "write_event", "reload", "idle"} : pc' = [pc EXCEPT ![p] = label]
  BY DEF WriteFile, WriteState, Goto, Release
<1>2. /\ pc[p] \in {"write_file", "write_state"} /\ UNCHANGED <<events, experiments, packet, plan>>
      /\ file' = file \/ (pc[p] = "write_file" /\ file' = plan[p].after)
  BY DEF WriteFile, WriteState, Beside, db
<1>3. Backed(p)'
  <2>1. Backed(p)
    BY <1>2 DEF LineInv, Backing, Deciding
  <2> QED
    BY <1>2, <2>1, PastKept
<1>4. Backing(p)' /\ Derived(p)'
  BY <1>1, <1>3 DEF Backing, Derived, WInv, LocalsTyped
<1>5. FileKept(label)
  BY <1>2 DEF LineInv, Backing, FileKept
<1> QED
  BY <1>1, <1>2, <1>4, <1>5, LineOf, OthersAtRest DEF PastGoesOn

LEMMA LineRecord ==
    ASSUME WInv, WInv', LineInv, NEW p \in Actors, WriteEvent(p), Beside(p)
    PROVE  LineInv'
<1> DEFINE ev == [action |-> plan[p].decision, before |-> packet[p].current,
                  after |-> plan[p].after, at |-> Now]
<1>1. pc[p] = "write_event" /\ UNCHANGED file /\ events' = Append(events, ev)
  BY DEF WriteEvent
<1>2. Stands(experiments, ev.before.body)
  BY <1>1 DEF LineInv, Backing, Backed, Deciding
<1>3. ev \in WritersEvent
  <2>1. packet[p] \in Packets /\ plan[p] \in Plan /\ Now \in Nat
    BY ClockTyped DEF WInv, LocalsTyped
  <2> QED
    BY <2>1 DEF WritersEvent, Actions, Packets, Plan
<1> HIDE DEF ev
<1>4. PICK label \in {"reload", "idle"} : pc' = [pc EXCEPT ![p] = label]
  BY DEF WriteEvent, Goto, Release
<1>5. OthersWait(p)
  BY ReleaseWaits, OthersAtRest DEF WriteEvent
<1>6. label \notin Claims
  BY DEF Claims, Deciding
<1>7. PastGoesOn(p)
  BY <1>1, <1>2, <1>3 DEF PastGoesOn
<1> QED
  BY <1>1, <1>4, <1>5, <1>6, <1>7, LineEnds

(* Commands that leave the experiments alone.                               *)
LEMMA CommandBeside ==
    ASSUME WInv, WInv', NEW c \in Evals, UNCHANGED <<experiments, evars>>,
           \/ UNCHANGED brief
           \/ \E b : brief' = [brief EXCEPT ![c] = b]
           \/ \E e : brief' = [brief EXCEPT ![c].exp = e]
    PROVE  Beside(c)
BY DEF WInv, CommandsInv, Beside

LEMMA LineIterate ==
    ASSUME OneOperator, WInv, WInv', OInv, LineInv, ~up, NEW c \in Evals, Iterate(c), UNCHANGED evars
    PROVE  LineInv'
<1>1. /\ c \in Actors /\ c \in Runs /\ pc[c] = "idle" /\ pc' = [pc EXCEPT ![c] = "proposing"]
      /\ UNCHANGED <<file, events, plan, experiments>>
  BY ServeIsAnActor, EvalsAssumption DEF Iterate, db, Goto
<1>2. Nobody
  BY <1>1, StoppedIdle
<1>3. Beside(c)
  BY <1>1, CommandBeside DEF Iterate
<1>4. PICK typed \in TypedDecisions :
         packet' = [packet EXCEPT ![c] = BuildPacket("eval", file.ver, typed, Calm, FALSE)]
  BY DEF Iterate
<1> DEFINE q == BuildPacket("eval", file.ver, typed, Calm, FALSE)
<1>5. q.current = file /\ q.history = Len(events)
  BY DEF BuildPacket
<1>6. packet' = [packet EXCEPT ![c] = q]
  BY <1>4
<1> HIDE DEF q
<1> QED
  BY <1>1, <1>2, <1>3, <1>5, <1>6, LinePacket

LEMMA LineStates ==
    ASSUME WInv, WInv', LineInv, NEW c \in Evals, UNCHANGED evars,
           StageState(c) \/ PromoteState(c) \/ WithdrawState(c)
    PROVE  LineInv'
<1>1. c \in Actors /\ pc[c] # "promote_mark" /\ pc[c] # "withdraw_event"
      /\ UNCHANGED <<file, events, experiments>>
  BY ServeIsAnActor DEF StageState, PromoteState, WithdrawState, xvars
<1>2. PICK label \in {"stage_event", "promote_event", "idle"} : pc' = [pc EXCEPT ![c] = label]
  BY DEF StageState, PromoteState, WithdrawState, Leave, Release, Goto
<1>3. label \notin Claims
  BY DEF Claims, Deciding
<1>4. Beside(c)
  BY <1>1, CommandBeside DEF StageState, PromoteState, WithdrawState, Leave, xvars
<1>5. OthersWait(c)
  BY <1>1, ReleaseWaits, OthersAtRest DEF StageState, PromoteState, WithdrawState, Leave
<1> QED
  BY <1>1, <1>2, <1>3, <1>4, <1>5, LineEnds DEF PastGoesOn

(* What a command records is no rewrite, and when it has gone back it says  *)
(* so.                                                                      *)
LEMMA LineLogs ==
    ASSUME WInv, LineInv, NEW c \in Evals, NEW ev \in WritersEvent, NEW label, label \notin Claims,
           pc' = [pc EXCEPT ![c] = label], events' = Append(events, ev), ev.action # "rewrite",
           pc[c] = "withdraw_event" => ev.action = "rollback", pc[c] # "promote_mark",
           UNCHANGED file, Beside(c), UNCHANGED <<packet, plan>> \/ Release(c)
    PROVE  LineInv'
<1>1. c \in Actors
  BY ServeIsAnActor
<1>2. OthersWait(c)
  BY <1>1, ReleaseWaits, OthersAtRest
<1>3. PastGoesOn(c)
  BY DEF PastGoesOn
<1> QED
  BY <1>1, <1>2, <1>3, LineEnds

LEMMA LineEvents ==
    ASSUME WInv, WInv', LineInv, NEW c \in Evals, UNCHANGED evars,
           StageEvent(c) \/ RejectEvent(c) \/ PromoteEvent(c) \/ WithdrawEvent(c)
    PROVE  LineInv'
<1>1. /\ pc[c] # "promote_mark"
      /\ UNCHANGED <<file, experiments>>
      /\ UNCHANGED <<packet, plan>> \/ Release(c)
  BY DEF StageEvent, RejectEvent, PromoteEvent, WithdrawEvent, LogAndLeave, Leave, xvars
<1>2. PICK label \in {"withdraw_state", "idle"} : pc' = [pc EXCEPT ![c] = label]
  BY DEF StageEvent, RejectEvent, PromoteEvent, WithdrawEvent, LogAndLeave, Leave, Release, Goto
<1>3. label \notin Claims
  BY DEF Claims, Deciding
<1>4. Beside(c)
  BY <1>1, CommandBeside
     DEF StageEvent, RejectEvent, PromoteEvent, WithdrawEvent, LogAndLeave, Leave, xvars
<1>5. PICK action, before, after :
         /\ LogEvent(action, before, after) /\ action # "rewrite"
         /\ pc[c] = "withdraw_event" => action = "rollback"
  BY DEF StageEvent, RejectEvent, PromoteEvent, WithdrawEvent, LogAndLeave
<1> DEFINE ev == [action |-> action, before |-> before, after |-> after, at |-> Now]
<1>6. events' = Append(events, ev) /\ ev.action = action
  BY <1>5 DEF LogEvent
<1> HIDE DEF ev
<1>7. ev \in WritersEvent
  BY <1>6 DEF WInv, StoreTyped
<1> QED
  BY <1>1, <1>2, <1>3, <1>4, <1>5, <1>6, <1>7, LineLogs

(* promote() and rollback() start from a skill that stands.                 *)
LEMMA LineChecks ==
    ASSUME OneOperator, WInv, WInv', OInv, LineInv, ~up, NEW c \in Evals, NEW e \in DOMAIN experiments,
           Promote(c, e) \/ Withdraw(c, e), UNCHANGED evars
    PROVE  LineInv'
<1>1. /\ c \in Actors /\ c \in Runs /\ pc[c] = "idle"
      /\ UNCHANGED <<file, events, experiments, packet, plan>>
      /\ brief' = [brief EXCEPT ![c].exp = e]
      /\ experiments[e].parent = file \/ experiments[e].candidate = file
  BY ServeIsAnActor, EvalsAssumption DEF Promote, Withdraw, db
<1>2. PICK label \in {"promote_file", "withdraw_file"} : pc' = [pc EXCEPT ![c] = label]
  BY DEF Promote, Withdraw, Goto
<1>3. Nobody
  BY <1>1, StoppedIdle
<1>4. Stands(experiments, file.body)
  BY <1>1, <1>3, AllStands
<1>5. Stands(experiments, experiments[e].parent.body)
  <2>1. experiments \in Seq(Experiment) /\ Lineage(experiments)
    BY DEF WInv, CommandsInv, LineInv
  <2> QED
    BY <1>1, <1>4, <2>1, ParentStands
<1>6. brief'[c].exp = e
  <2>1. brief[c] \in Brief /\ brief \in [Evals -> Brief]
    BY DEF WInv, CommandsInv
  <2> QED
    BY <1>1, <2>1 DEF Brief
<1>7. Backing(c)' /\ Derived(c)'
  <2>1. pc'[c] = label
    BY <1>1, <1>2 DEF WInv, LocalsTyped
  <2> QED
    BY <1>1, <1>5, <1>6, <2>1 DEF Backing, Derived, Deciding
<1>8. Beside(c) /\ OthersWait(c)
  BY <1>1, CommandBeside, OthersAtRest
<1> QED
  BY <1>1, <1>2, <1>7, <1>8, LineOf DEF FileKept, PastGoesOn

LEMMA LineInstall ==
    ASSUME WInv, WInv', LineInv, NEW c \in Evals, InstallFile(c), UNCHANGED evars
    PROVE  LineInv'
<1>1. /\ c \in Actors /\ pc[c] \in {"promote_file", "withdraw_file"}
      /\ UNCHANGED <<events, experiments, brief, packet, plan>>
      /\ \/ pc' = [pc EXCEPT ![c] = "promote_mark"]
         \/ /\ pc' = [pc EXCEPT ![c] = "withdraw_mark"]
            /\ file' = experiments[brief[c].exp].parent
  BY ServeIsAnActor DEF InstallFile, db, xvars, Goto
<1>2. Stands(experiments, experiments[brief[c].exp].parent.body)
  BY <1>1 DEF LineInv, Derived
<1>3. Beside(c) /\ OthersWait(c)
  BY <1>1, CommandBeside, OthersAtRest
<1>4. CASE pc' = [pc EXCEPT ![c] = "promote_mark"]
  <2>1. Backing(c)' /\ Derived(c)'
    BY <1>1, <1>2, <1>4 DEF Backing, Derived, Deciding, WInv, LocalsTyped
  <2> QED
    BY <1>1, <1>3, <1>4, <2>1, LineOf DEF FileKept, PastGoesOn
<1>5. CASE pc' = [pc EXCEPT ![c] = "withdraw_mark"] /\ file' = experiments[brief[c].exp].parent
  <2>1. "withdraw_mark" \notin Claims
    BY DEF Claims, Deciding
  <2>2. Backing(c)' /\ Derived(c)'
    BY <1>1, <1>5, <2>1, NoClaims
  <2> QED
    BY <1>1, <1>2, <1>3, <1>5, <2>2, LineOf DEF FileKept, PastGoesOn
<1> QED
  BY <1>1, <1>4, <1>5

LEMMA LineDirectly ==
    ASSUME OneOperator, WInv, WInv', LineInv, NEW c \in Evals, ApplyDirectly(c), UNCHANGED evars
    PROVE  LineInv'
<1>1. c \in Actors /\ UNCHANGED experiments /\ ~WriteFails(c)
  BY ServeIsAnActor DEF ApplyDirectly, WriteFails, OneOperator
<1>2. Beside(c)
  BY <1>1, CommandBeside DEF ApplyDirectly
<1> QED
  BY <1>1, <1>2, LineWrite, LineRecord DEF ApplyDirectly

(* What a sequence of experiments keeps as it grows and as verdicts come.   *)
LEMMA Grows ==
    ASSUME NEW X, X \in Seq(Experiment), NEW x \in Experiment, NEW Y, Y = Append(X, x)
    PROVE  /\ DOMAIN X = 1..Len(X) /\ DOMAIN Y = 1..(Len(X) + 1) /\ Len(X) \in Nat
           /\ \A e \in 1..Len(X) : Y[e] = X[e]
           /\ Y[Len(X) + 1] = x
OBVIOUS

LEMMA LineageGrows ==
    ASSUME NEW X, X \in Seq(Experiment), Lineage(X), NEW x \in Experiment, NEW Y, Y = Append(X, x),
           x.parent.body < x.candidate.body,
           \A e \in DOMAIN X : X[e].candidate.body = x.candidate.body =>
              X[e].candidate = x.candidate /\ X[e].parent = x.parent
    PROVE  Lineage(Y)
<1>1. \A e \in DOMAIN Y : Y[e] = x \/ (e \in DOMAIN X /\ Y[e] = X[e])
  BY Grows
<1>2. \A e \in DOMAIN Y : Y[e].parent.body < Y[e].candidate.body
  BY <1>1 DEF Lineage
<1>3. \A e, f \in DOMAIN Y : Y[e].candidate.body = Y[f].candidate.body =>
          Y[e].candidate = Y[f].candidate /\ Y[e].parent = Y[f].parent
  BY <1>1 DEF Lineage
<1> QED
  BY <1>2, <1>3 DEF Lineage

LEMMA KeepsGrowing ==
    ASSUME NEW X, X \in Seq(Experiment), NEW x \in Experiment, NEW Y, Y = Append(X, x), NEW body,
           \/ x.candidate.body \notin 0..body
           \/ \E f \in DOMAIN X : x.candidate = X[f].candidate /\ x.parent = X[f].parent
    PROVE  Keeps(X, Y, body)
<1>1. \A e \in DOMAIN X : e \in DOMAIN Y /\ Y[e] = X[e]
  BY Grows
<1>2. \A e \in DOMAIN Y : Y[e] = x \/ e \in DOMAIN X
  BY Grows
<1> QED
  BY <1>1, <1>2 DEF Keeps

LEMMA LineageStays ==
    ASSUME NEW X, NEW Y, Lineage(X), DOMAIN Y = DOMAIN X,
           \A e \in DOMAIN X : Y[e].parent = X[e].parent /\ Y[e].candidate = X[e].candidate
    PROVE  Lineage(Y)
BY DEF Lineage

LEMMA OthersMarked ==
    ASSUME experiments \in Seq(Experiment), NEW e, e \in DOMAIN experiments, NEW new,
           experiments' = Transitioned(e, new)
    PROVE  \A x \in DOMAIN experiments : x # e => experiments'[x] = experiments[x]
BY DEF Transitioned

LEMMA KeepsMarked ==
    ASSUME experiments \in Seq(Experiment), NEW e, e \in DOMAIN experiments, NEW new, new # "candidate",
           experiments' = Transitioned(e, new), NEW body,
           experiments[e].status # "promoted" \/ experiments[e].candidate.body \notin 0..body
    PROVE  Keeps(experiments, experiments', body)
<1>1. /\ DOMAIN experiments' = DOMAIN experiments
      /\ \A x \in DOMAIN experiments : /\ experiments'[x].parent = experiments[x].parent
                                       /\ experiments'[x].candidate = experiments[x].candidate
      /\ \A x \in DOMAIN experiments : x # e => experiments'[x].status = experiments[x].status
  BY Closes, OthersMarked
<1> QED
  BY <1>1 DEF Keeps

LEMMA LineageMarked ==
    ASSUME experiments \in Seq(Experiment), NEW e, e \in DOMAIN experiments, NEW new, new # "candidate",
           experiments' = Transitioned(e, new), Lineage(experiments)
    PROVE  Lineage(experiments')
BY Closes, LineageStays

(* A command at work while serve is stopped: nobody else claims anything.   *)
LEMMA LineOfCommand ==
    ASSUME OneOperator, WInv, OInv, ~up, NEW c \in Evals, NEW label, label \notin Claims,
           pc' = [pc EXCEPT ![c] = label], UNCHANGED stage, Lineage(experiments'),
           Stands(experiments', file'.body),
           label # "withdraw_event" =>
              \A i \in DOMAIN events' : Lasting(i)' => Stands(experiments', events'[i].before.body)
    PROVE  LineInv'
<1>1. c \in Actors /\ c \in Runs /\ ServeIdle /\ pc \in [Actors -> Labels]
  BY ServeIsAnActor, EvalsAssumption DEF OInv, TakeTurns, WInv, LocalsTyped
<1>2. \A q \in Actors : q # c => pc'[q] = "idle"
  <2> SUFFICES ASSUME NEW q \in Actors, q # c PROVE pc[q] = "idle"
    BY <1>1
  <2>1. q \notin Runs
    BY <1>1 DEF OneOperator
  <2>2. q \in Serve
    BY <2>1 DEF Actors
  <2> QED
    BY <1>1, <2>2 DEF ServeIdle
<1>3. \A q \in Actors : pc'[q] \notin Claims
  BY <1>1, <1>2 DEF Claims, Deciding
<1>4. \A q \in Actors : Backing(q)' /\ Derived(q)'
  BY <1>3 DEF Backing, Derived, Claims, Deciding
<1>5. \A a \in Attempts : stage'[a] # "writing"
  BY <1>1 DEF ServeIdle
<1>6. FileStands' /\ PastStands'
  BY <1>1 DEF FileStands, PastStands
<1> QED
  BY <1>4, <1>5, <1>6, ServeIsAnActor DEF LineInv

LEMMA LineKept ==
    ASSUME OneOperator, WInv, OInv, LineInv, FreshInv, ~up, NEW c \in Evals, NEW label, label \notin Claims,
           pc' = [pc EXCEPT ![c] = label], UNCHANGED <<stage, file, events>>,
           pc[c] # "promote_mark", pc[c] # "withdraw_event", Lineage(experiments'),
           \A body \in Nat : body < nextBody => Keeps(experiments, experiments', body)
    PROVE  LineInv'
<1>1. c \in Actors /\ c \in Runs
  BY ServeIsAnActor, EvalsAssumption
<1>2. Acts(c) \/ Nobody
  BY <1>1, StoppedIdle, RunActs
<1>3. /\ Stands(experiments, file.body)
      /\ \A i \in DOMAIN events : Lasting(i) => Stands(experiments, events[i].before.body)
  BY <1>1, <1>2, AllStands
<1>4. file.body \in Nat /\ file.body < nextBody
  BY DEF WInv, StoreTyped, Content, FreshInv, Known
<1>5. Stands(experiments', file.body)
  BY <1>3, <1>4, StandsOn
<1>6. ASSUME NEW i \in DOMAIN events, Lasting(i) PROVE Stands(experiments', events[i].before.body)
  <2>1. events[i] \in WritersEvent
    BY DEF WInv, StoreTyped
  <2>2. events[i].before.body \in Nat
    BY <2>1 DEF WritersEvent, Content
  <2>3. events[i].before.body < nextBody
    BY <1>6 DEF Lasting, FreshInv, Known
  <2> QED
    BY <1>3, <1>6, <2>2, <2>3, StandsOn
<1>7. \A i \in DOMAIN events' : Lasting(i)' => Stands(experiments', events'[i].before.body)
  BY <1>6 DEF Lasting
<1> QED
  BY <1>5, <1>7, LineOfCommand

LEMMA LinePropose ==
    ASSUME OneOperator, WInv, WInv', OInv, LineInv, FreshInv, ~up, NEW c \in Evals, Propose(c), UNCHANGED evars
    PROVE  LineInv'
<1>1. /\ c \in Actors /\ pc[c] = "proposing" /\ UNCHANGED <<file, events, stage>>
      /\ experiments \in Seq(Experiment) /\ Lineage(experiments) /\ nextBody \in Nat
  BY ServeIsAnActor DEF Propose, db, evars, WInv, CommandsInv, StoreTyped, LineInv
<1>2. "idle" \notin Claims /\ "reject_event" \notin Claims /\ "stage_state" \notin Claims
  BY DEF Claims, Deciding
<1>3. ASSUME Leave(c), UNCHANGED experiments PROVE LineInv'
  <2>1. Beside(c) /\ OthersWait(c) /\ pc' = [pc EXCEPT ![c] = "idle"]
    BY <1>1, <1>3, CommandBeside, ReleaseWaits DEF Leave, Release, Goto
  <2> QED
    BY <1>1, <1>2, <2>1, LineEnds DEF PastGoesOn
<1>4. CASE OpenCandidates # {}
  <2> DEFINE e == Max(OpenCandidates)
  <2>1. \/ Leave(c) /\ UNCHANGED experiments
        \/ experiments' = Transitioned(e, "rejected") /\ Goto(c, "reject_event")
    BY <1>4 DEF Propose
  <2>2. CASE experiments' = Transitioned(e, "rejected") /\ Goto(c, "reject_event")
    <3>1. e \in OpenCandidates
      <4>1. Len(experiments) \in Nat /\ OpenCandidates \subseteq 0..Len(experiments)
        BY <1>1 DEF OpenCandidates
      <4> QED
        BY <1>4, <4>1, MaxOfNat
    <3> HIDE DEF e
    <3>2. e \in DOMAIN experiments /\ experiments[e].status # "promoted"
      BY <3>1 DEF OpenCandidates
    <3>3. Lineage(experiments')
      BY <1>1, <2>2, <3>2, LineageMarked
    <3>4. \A body \in Nat : body < nextBody => Keeps(experiments, experiments', body)
      BY <1>1, <2>2, <3>2, KeepsMarked
    <3> QED
      BY <1>1, <1>2, <2>2, <3>3, <3>4, LineKept DEF Goto
  <2> QED
    BY <1>3, <2>1, <2>2
<1>5. CASE OpenCandidates = {}
  <2>1. PICK d \in Reviewed(packet[c]) :
            CASE d = "keep" -> Leave(c) /\ UNCHANGED <<nextBody, experiments>>
              [] d = "rewrite" ->
                   /\ experiments' = Append(experiments,
                          [status |-> "candidate", parent |-> packet[c].current,
                           candidate |-> [ver |-> FreshVersion, body |-> nextBody],
                           sources |-> brief[c].sources])
                   /\ nextBody' = nextBody + 1
                   /\ brief' = [brief EXCEPT ![c].exp = Len(experiments')]
                   /\ Goto(c, "stage_state")
                   /\ UNCHANGED <<held, seen, exec, packet, plan>>
              [] OTHER ->
                   /\ plan' = [plan EXCEPT ![c] = [decision |-> d, after |-> Outcome(packet[c], d)]]
                   /\ Goto(c, IF d = "rollback" THEN "write_file" ELSE "write_state")
                   /\ UNCHANGED <<nextBody, held, seen, exec, packet, experiments, brief>>
    BY <1>5 DEF Propose
  <2>2. CASE d = "keep"
    BY <1>3, <2>1, <2>2
  <2>3. CASE d = "rewrite"
    <3> DEFINE x == [status |-> "candidate", parent |-> packet[c].current,
                     candidate |-> [ver |-> FreshVersion, body |-> nextBody],
                     sources |-> brief[c].sources]
    <3>1. experiments' = Append(experiments, x) /\ pc' = [pc EXCEPT ![c] = "stage_state"]
      BY <2>1, <2>3 DEF Goto
    <3>2. x.candidate.body = nextBody /\ x.parent.body < nextBody
      BY <1>1 DEF FreshInv, Known
    <3> HIDE DEF x
    <3>3. x \in Experiment
      BY <1>1, <3>1 DEF WInv, CommandsInv
    <3>4. \A e \in DOMAIN experiments : experiments[e].candidate.body # nextBody
      <4> SUFFICES ASSUME NEW e \in DOMAIN experiments PROVE experiments[e].candidate.body # nextBody
        OBVIOUS
      <4>1. experiments[e] \in Experiment /\ experiments[e].candidate.body < nextBody
        BY <1>1 DEF FreshInv, Known
      <4>2. experiments[e].candidate.body \in Nat
        BY <4>1 DEF Experiment, Content
      <4> QED
        BY <1>1, <4>1, <4>2
    <3>5. Lineage(experiments')
      BY <1>1, <3>1, <3>2, <3>3, <3>4, LineageGrows
    <3>6. \A body \in Nat : body < nextBody => Keeps(experiments, experiments', body)
      <4> SUFFICES ASSUME NEW body \in Nat, body < nextBody PROVE Keeps(experiments, experiments', body)
        OBVIOUS
      <4>1. x.candidate.body \notin 0..body
        BY <1>1, <3>2
      <4> QED
        BY <1>1, <3>1, <3>3, <4>1, KeepsGrowing
    <3> QED
      BY <1>1, <1>2, <3>1, <3>5, <3>6, LineKept
  <2>4. CASE d \notin {"keep", "rewrite"}
    <3> DEFINE label == IF d = "rollback" THEN "write_file" ELSE "write_state"
    <3>1. /\ plan' = [plan EXCEPT ![c] = [decision |-> d, after |-> Outcome(packet[c], d)]]
          /\ pc' = [pc EXCEPT ![c] = label] /\ UNCHANGED <<packet, experiments, brief>>
      BY <2>1, <2>4 DEF Goto
    <3>2. label \in {"write_file", "write_state"}
      OBVIOUS
    <3>3. Beside(c)
      BY <3>1, CommandBeside
    <3> HIDE DEF label
    <3> QED
      BY <1>1, <3>1, <3>2, <3>3, LinePlan
  <2> QED
    BY <2>2, <2>3, <2>4
<1> QED
  BY <1>4, <1>5

LEMMA LineEvaluate ==
    ASSUME OneOperator, WInv, WInv', OInv, LineInv, FreshInv, ~up, NEW c \in Evals,
           NEW e \in DOMAIN experiments, Evaluate(c, e), UNCHANGED evars
    PROVE  LineInv'
<1>1. /\ pc[c] = "idle" /\ pc' = [pc EXCEPT ![c] = "testing"] /\ UNCHANGED <<file, events, stage>>
      /\ experiments \in Seq(Experiment) /\ Lineage(experiments)
  BY DEF Evaluate, db, evars, WInv, CommandsInv, LineInv, Goto
<1>2. "testing" \notin Claims
  BY DEF Claims, Deciding
<1>3. CASE UNCHANGED experiments
  <2>1. Lineage(experiments') /\ \A body \in Nat : Keeps(experiments, experiments', body)
    BY <1>1, <1>3 DEF Keeps
  <2> QED
    BY <1>1, <1>2, <2>1, LineKept
<1>4. CASE experiments' = Append(experiments, [experiments[e] EXCEPT !.status = "candidate"])
  <2> DEFINE x == [experiments[e] EXCEPT !.status = "candidate"]
  <2>1. experiments[e] \in Experiment
    BY <1>1
  <2>2. x \in Experiment /\ x.parent = experiments[e].parent /\ x.candidate = experiments[e].candidate
    BY <2>1 DEF Experiment
  <2>3. experiments' = Append(experiments, x)
    BY <1>4
  <2> HIDE DEF x
  <2>4. Lineage(experiments')
    <3>1. x.parent.body < x.candidate.body
      BY <1>1, <2>2 DEF Lineage
    <3>2. \A f \in DOMAIN experiments : experiments[f].candidate.body = x.candidate.body =>
              experiments[f].candidate = x.candidate /\ experiments[f].parent = x.parent
      BY <1>1, <2>2 DEF Lineage
    <3> QED
      BY <1>1, <2>2, <2>3, <3>1, <3>2, LineageGrows
  <2>5. \A body \in Nat : Keeps(experiments, experiments', body)
    BY <1>1, <2>2, <2>3, KeepsGrowing
  <2> QED
    BY <1>1, <1>2, <2>4, <2>5, LineKept
<1> QED
  BY <1>3, <1>4 DEF Evaluate

LEMMA LineConclude ==
    ASSUME OneOperator, WInv, WInv', OInv, LineInv, FreshInv, ~up, NEW c \in Evals,
           NEW new \in {"validated", "rejected", "inconclusive"}, Conclude(c, new), UNCHANGED evars
    PROVE  LineInv'
<1> DEFINE e == brief[c].exp
<1>1. /\ pc[c] = "testing" /\ pc' = [pc EXCEPT ![c] = "idle"] /\ UNCHANGED <<file, events, stage>>
      /\ experiments \in Seq(Experiment) /\ Lineage(experiments)
  BY DEF Conclude, db, evars, WInv, CommandsInv, LineInv, Leave, Release, Goto
<1>2. "idle" \notin Claims
  BY DEF Claims, Deciding
<1>3. experiments[e].status = "candidate"
  BY <1>1, CommandWorks DEF AtWork, Stages
<1>4. e \in DOMAIN experiments
  <2>1. "testing" \in WithExperiment
    BY DEF WithExperiment, EvalLabels
  <2> QED
    BY <1>1, <2>1, ItsExperiment
<1>5. experiments' = Transitioned(e, new)
  BY <1>3 DEF Conclude, MayBecome, Lifecycle!Transitions
<1> HIDE DEF e
<1>6. Lineage(experiments')
  BY <1>1, <1>4, <1>5, LineageMarked
<1>7. \A body \in Nat : Keeps(experiments, experiments', body)
  BY <1>1, <1>3, <1>4, <1>5, KeepsMarked
<1> QED
  BY <1>1, <1>2, <1>6, <1>7, LineKept

(* A promotion stands on the parent it replaced; a rollback takes back no   *)
(* promotion that the parent stands on.                                     *)
LEMMA LineMark ==
    ASSUME OneOperator, WInv, WInv', OInv, LineInv, NEW c \in Evals, Mark(c), UNCHANGED evars
    PROVE  LineInv'
<1> DEFINE e == brief[c].exp
           new == IF pc[c] = "promote_mark" THEN "promoted" ELSE "rolled_back"
           label == IF new = "promoted" THEN "promote_state" ELSE "withdraw_event"
<1>1. /\ pc[c] \in {"promote_mark", "withdraw_mark"} /\ UNCHANGED <<file, events, stage>>
      /\ experiments \in Seq(Experiment) /\ Lineage(experiments)
  BY DEF Mark, db, evars, WInv, CommandsInv, LineInv
<1>2. AtWork(c) /\ Acts(c) /\ c \in Actors /\ ~up
  BY <1>1, CommandWorks
<1>3. e \in DOMAIN experiments
  <2>1. {"promote_mark", "withdraw_mark"} \subseteq WithExperiment
    BY DEF WithExperiment, EvalLabels
  <2> QED
    BY <1>1, <2>1, ItsExperiment
<1>4. MayBecome(e, new)
  BY <1>1, <1>2 DEF AtWork, Installs, MayBecome, Lifecycle!Transitions
<1>5. experiments' = Transitioned(e, new) /\ pc' = [pc EXCEPT ![c] = label]
  BY <1>4 DEF Mark, Goto
<1>6. Lineage(experiments')
  BY <1>1, <1>3, <1>5, LineageMarked
<1>7. \A q \in Actors : q # c => pc[q] \notin {"promote_mark", "withdraw_event"}
  <2> SUFFICES ASSUME NEW q \in Actors, pc[q] \in {"promote_mark", "withdraw_event"} PROVE q = c
    OBVIOUS
  <2>1. Acts(q)
    BY AttemptsAssumption DEF Acts, Awaiting
  <2> QED
    BY <1>2, <2>1 DEF OInv, TakeTurns
<1>8. CASE pc[c] = "promote_mark"
  <2>1. experiments[e].status # "promoted" /\ file = experiments[e].candidate
    BY <1>2, <1>8 DEF AtWork, Installs
  <2>2. \A body \in Nat : Keeps(experiments, experiments', body)
    BY <1>1, <1>3, <1>5, <1>8, <2>1, KeepsMarked
  <2>3. /\ experiments' \in Seq(Experiment) /\ e \in DOMAIN experiments'
        /\ experiments'[e].status = "promoted"
        /\ experiments'[e].parent = experiments[e].parent
        /\ experiments'[e].candidate = experiments[e].candidate
    BY <1>1, <1>3, <1>5, <1>8, Closes DEF WInv, CommandsInv
  <2>4. experiments[e].parent.body \in Nat
    <3>1. experiments[e] \in Experiment
      BY <1>1, <1>3
    <3> QED
      BY <3>1 DEF Experiment, Content
  <2>5. Stands(experiments', experiments'[e].parent.body)
    <3>1. Stands(experiments, experiments[e].parent.body)
      BY <1>8 DEF LineInv, Derived
    <3> QED
      BY <2>2, <2>3, <2>4, <3>1, StandsOn
  <2>6. Stands(experiments', file'.body)
    BY <1>1, <1>6, <2>1, <2>3, <2>5, PromotedStands
  <2>7. ASSUME NEW i \in DOMAIN events, Lasting(i) PROVE Stands(experiments', events[i].before.body)
    <3>1. events[i] \in WritersEvent
      BY DEF WInv, StoreTyped
    <3>2. events[i].before.body \in Nat
      BY <3>1 DEF WritersEvent, Content
    <3>3. Stands(experiments, events[i].before.body)
      BY <1>7, <1>8, <2>7 DEF LineInv, PastStands
    <3> QED
      BY <2>2, <3>2, <3>3, StandsOn
  <2>8. \A i \in DOMAIN events' : Lasting(i)' => Stands(experiments', events'[i].before.body)
    BY <1>1, <2>7 DEF Lasting
  <2>9. "promote_state" \notin Claims /\ label = "promote_state"
    BY <1>8 DEF Claims, Deciding
  <2> HIDE DEF e, label, new
  <2> QED
    BY <1>1, <1>2, <1>5, <1>6, <2>6, <2>8, <2>9, LineOfCommand
<1>9. CASE pc[c] = "withdraw_mark"
  <2>1. file = experiments[e].parent
    BY <1>2, <1>9 DEF AtWork, Installs
  <2>2. Stands(experiments, file.body)
    BY <1>7, <1>9 DEF LineInv, FileStands
  <2>3. experiments[e].candidate.body \notin 0..(file.body)
    <3>1. experiments[e] \in Experiment
      BY <1>1, <1>3
    <3>2. experiments[e].parent.body \in Nat /\ experiments[e].candidate.body \in Nat
      BY <3>1 DEF Experiment, Content
    <3>3. experiments[e].parent.body < experiments[e].candidate.body
      BY <1>1, <1>3 DEF Lineage
    <3>4. file.body = experiments[e].parent.body
      BY <2>1
    <3> HIDE DEF e
    <3> QED
      BY <3>2, <3>3, <3>4
  <2>4. Keeps(experiments, experiments', file.body)
    BY <1>1, <1>3, <1>5, <1>9, <2>3, KeepsMarked
  <2>5. Stands(experiments', file'.body)
    BY <1>1, <2>2, <2>4, StandsOn
  <2>6. "withdraw_event" \notin Claims /\ label = "withdraw_event"
    BY <1>9 DEF Claims, Deciding
  <2> HIDE DEF e, label, new
  <2> QED
    BY <1>1, <1>2, <1>5, <1>6, <2>5, <2>6, LineOfCommand
<1> QED
  BY <1>1, <1>8, <1>9

LEMMA LineEval ==
    ASSUME OneOperator, WInv, WInv', OInv, LineInv, FreshInv, ~up, NEW c \in Evals, Eval(c), UNCHANGED evars
    PROVE  LineInv'
<1>1. CASE Iterate(c) \/ Propose(c) \/ ApplyDirectly(c)
  BY <1>1, LineIterate, LinePropose, LineDirectly
<1>2. CASE \E e \in DOMAIN experiments : Evaluate(c, e) \/ Promote(c, e) \/ Withdraw(c, e)
  BY <1>2, LineEvaluate, LineChecks
<1>3. CASE \E new \in {"validated", "rejected", "inconclusive"} : Conclude(c, new)
  BY <1>3, LineConclude
<1>4. CASE InstallFile(c) \/ Mark(c)
  BY <1>4, LineInstall, LineMark
<1>5. CASE \/ StageState(c) \/ PromoteState(c) \/ WithdrawState(c)
           \/ StageEvent(c) \/ RejectEvent(c) \/ PromoteEvent(c) \/ WithdrawEvent(c)
  BY <1>5, LineStates, LineEvents
<1>6. ~EvalStops(c)
  BY DEF EvalStops, OneOperator
<1> QED
  BY <1>1, <1>2, <1>3, <1>4, <1>5, <1>6 DEF Eval

LEMMA LineOfAttempt ==
    ASSUME WInv, LineInv, NEW a \in Attempts, UNCHANGED <<pc, experiments, packet, plan, brief>>,
           file' = file \/ Stands(experiments, file'.body),
           UNCHANGED events \/ \E ev \in WritersEvent : events' = Append(events, ev) /\ ev.action # "rewrite",
           \A b \in Attempts : b # a => stage'[b] = stage[b] /\ draft'[b] = draft[b],
           stage'[a] = "writing" => Stands(experiments, draft'[a].after.body)
    PROVE  LineInv'
<1>1. FileStands'
  BY DEF LineInv, FileStands
<1>2. PastStands'
  <2> SUFFICES ASSUME \A q \in Actors : pc[q] # "withdraw_event", NEW i \in DOMAIN events', Lasting(i)'
               PROVE  Stands(experiments, events'[i].before.body)
    BY DEF PastStands
  <2>1. CASE UNCHANGED events
    <3>1. i \in DOMAIN events /\ Lasting(i)
      BY <2>1 DEF Lasting
    <3> QED
      BY <2>1, <3>1 DEF LineInv, PastStands
  <2>2. ASSUME NEW ev \in WritersEvent, events' = Append(events, ev), ev.action # "rewrite"
        PROVE  Stands(experiments, events'[i].before.body)
    <3>1. /\ Len(events) \in Nat
          /\ DOMAIN events = 1..Len(events) /\ DOMAIN events' = 1..(Len(events) + 1)
          /\ \A c \in 1..Len(events) : events'[c] = events[c]
          /\ events'[Len(events) + 1] = ev
      BY <2>2, EventAdded DEF WInv, StoreTyped
    <3>2. i \in 1..Len(events)
      <4>1. events'[i].action = "rewrite"
        BY DEF Lasting
      <4>2. events'[Len(events) + 1].action # "rewrite"
        BY <2>2, <3>1
      <4>3. i # Len(events) + 1
        BY <4>1, <4>2
      <4>4. i \in 1..(Len(events) + 1)
        BY <3>1
      <4> QED
        BY <3>1, <4>3, <4>4
    <3>3. Lasting(i)
      BY <3>1, <3>2 DEF Lasting
    <3> QED
      BY <3>1, <3>2, <3>3 DEF LineInv, PastStands
  <2> QED
    BY <2>1, <2>2
<1>3. \A q \in Actors : Backing(q)'
  <2> TAKE q \in Actors
  <2>1. Backed(q) => Backed(q)'
    BY PastKept
  <2> QED
    BY <2>1 DEF LineInv, Backing
<1>4. \A c \in Evals : Derived(c)'
  BY DEF LineInv, Derived
<1>5. \A b \in Attempts : stage'[b] = "writing" => Stands(experiments, draft'[b].after.body)
  BY DEF LineInv
<1> QED
  BY <1>1, <1>2, <1>3, <1>4, <1>5 DEF LineInv

LEMMA LineEmerge ==
    ASSUME OneOperator, WInv, LineInv, FreshInv, NEW a \in Attempts, UNCHANGED xvars, Emerge(a)
    PROVE  LineInv'
<1>1. UNCHANGED <<pc, experiments, packet, plan, brief>>
  BY DEF Emerge, Begin, Resolve, GivesUp, Synthesize, WriteBundle, RegisterState, LogEmergence,
         RegisterEmerged, EmergenceFails, vars, xvars
<1>2. draft \in [Attempts -> Draft] /\ nextBody \in Nat /\ stage \in [Attempts -> AwaitingModel \cup HoldingLoop]
  BY DEF WInv, AttemptsTyped, StoreTyped
<1>3. \A b \in Attempts : b # a => stage'[b] = stage[b] /\ draft'[b] = draft[b]
  BY <1>2 DEF Emerge, Begin, Resolve, GivesUp, Synthesize, WriteBundle, RegisterState, LogEmergence,
         RegisterEmerged, EmergenceFails, Ends, Advance
<1>4. file' = file \/ Stands(experiments, file'.body)
  <2>1. CASE WriteBundle(a)
    BY <2>1 DEF WriteBundle, LineInv
  <2> QED
    BY <2>1 DEF Emerge, Begin, Resolve, GivesUp, Synthesize, RegisterState, LogEmergence,
       RegisterEmerged, EmergenceFails, vars
<1>5. UNCHANGED events \/ \E ev \in WritersEvent : events' = Append(events, ev) /\ ev.action # "rewrite"
  <2>1. CASE LogEmergence(a)
    <3> DEFINE ev == [action |-> draft[a].action, before |-> draft[a].before,
                      after |-> draft[a].after, at |-> Now]
    <3>1. draft[a] \in Draft
      BY <1>2
    <3>2. ev \in WritersEvent
      BY <3>1, DraftFields, ClockTyped DEF WInv, WritersEvent
    <3>3. events' = Append(events, ev) /\ ev.action # "rewrite"
      BY <2>1, <3>1 DEF LogEmergence, Draft, EmergenceActions
    <3> HIDE DEF ev
    <3> QED
      BY <3>2, <3>3
  <2> QED
    BY <2>1 DEF Emerge, Begin, Resolve, GivesUp, Synthesize, WriteBundle, RegisterState,
       RegisterEmerged, EmergenceFails, vars, db
<1>6. stage'[a] = "writing" => Stands(experiments, draft'[a].after.body)
  <2>1. CASE Synthesize(a)
    <3>1. draft[a] \in Draft
      BY <1>2
    <3> DEFINE after == [ver |-> 0, body |-> nextBody]
    <3>2. draft'[a].after = after
      <4>1. CASE draft' = [draft EXCEPT ![a].before = file, ![a].after = after]
        BY <1>2, <3>1, <4>1 DEF Draft
      <4>2. CASE \E parsed \in BOOLEAN :
              draft' = [draft EXCEPT ![a].action = IF parsed THEN "activate" ELSE "activation_failed",
                                     ![a].after = after]
        BY <1>2, <3>1, <4>2 DEF Draft
      <4> QED
        BY <2>1, <4>1, <4>2 DEF Synthesize
    <3>3. draft'[a].after.body = nextBody
      BY <3>2
    <3> HIDE DEF after
    <3>4. Stands(experiments, nextBody)
      BY NextStands
    <3> QED
      BY <3>3, <3>4
  <2>2. CASE ~Synthesize(a)
    <3>1. stage'[a] # "writing"
      BY <1>2, <2>2 DEF Emerge, Begin, Resolve, GivesUp, WriteBundle, RegisterState, LogEmergence,
         RegisterEmerged, EmergenceFails, Ends, Advance, OneOperator
    <3> QED
      BY <3>1
  <2> QED
    BY <2>1, <2>2
<1> QED
  BY <1>1, <1>3, <1>4, <1>5, <1>6, LineOfAttempt

LEMMA LineApplied ==
    ASSUME OneOperator, WInv, WInv', LineInv, FreshInv, NEW p \in Actors, Apply(p), Alone
    PROVE  LineInv'
<1>1. Beside(p) /\ ~WriteFails(p)
  BY AloneIsBeside DEF OneOperator, WriteFails
<1> QED
  BY <1>1, LineDecide, LineWrite, LineRecord DEF Apply

LEMMA LineServe ==
    ASSUME OneOperator, WInv, WInv', OInv, LineInv, FreshInv, ServeStep
    PROVE  LineInv'
<1>1. Alone /\ Web \in Actors
  BY ServeIsAnActor DEF ServeStep, Alone
<1>2. ASSUME Start PROVE LineInv'
  <2>1. UNCHANGED <<pc, file, events, experiments, packet, plan, brief, stage, draft>>
    BY <1>1, <1>2 DEF Start, Alone, xvars, evars, db
  <2> QED
    BY <2>1, LineStays
<1>3. CASE Quiet /\ \E t \in Turns : Prune(t) \/ Turn(t)
  <2>1. PICK t \in Turns : Prune(t) \/ Turn(t)
    BY <1>3
  <2>2. t \in Actors
    BY ServeIsAnActor
  <2>3. CASE Apply(t)
    BY <1>1, <2>2, <2>3, LineApplied
  <2>4. CASE Reconcile(t) \/ Rewriter(t)
    BY <1>1, <2>4, LineReconcile, LineRewriter
  <2>5. CASE ~Apply(t) /\ ~Reconcile(t) /\ ~Rewriter(t)
    BY <1>1, <2>1, <2>2, <2>5, LineTurn DEF Turn
  <2> QED
    BY <2>3, <2>4, <2>5
<1>4. CASE Quiet /\ \E i \in DOMAIN execs, sig \in Clicks : Feedback(i, sig)
  BY <1>1, <1>4, LineFeedback
<1>5. CASE Apply(Web)
  BY <1>1, <1>5, LineApplied
<1>6. CASE Reload(Web)
  BY <1>1, <1>6, LineTurn
<1> QED
  BY <1>2, <1>3, <1>4, <1>5, <1>6 DEF ServeStep

LEMMA LineRun ==
    ASSUME OneOperator, WInv, WInv', OInv, LineInv, FreshInv, RunStep
    PROVE  LineInv'
<1>1. Alone
  BY DEF RunStep, Alone
<1>2. PICK r \in Runs : RunLoad(r) \/ Run(r)
  BY DEF RunStep, RunCrash, OneOperator
<1>3. r \in Actors
  BY ServeIsAnActor
<1>4. CASE RunLoad(r) \/ RunRead(r) \/ RunSkip(r)
  BY <1>1, <1>3, <1>4, LineTurn
<1>5. CASE RunGovern(r)
  BY <1>1, <1>5, LineGovern
<1>6. CASE Apply(r)
  BY <1>1, <1>3, <1>6, LineApplied
<1> QED
  BY <1>2, <1>4, <1>5, <1>6 DEF Run

LEMMA LineNext ==
    ASSUME OneOperator, WInv, WInv', OInv, LineInv, FreshInv, [WritersNext]_writers
    PROVE  LineInv'
<1>1. ~ServeDies
  BY DEF ServeDies, Crash, OneOperator
<1>2. CASE ServeStep \/ RunStep
  BY <1>2, LineServe, LineRun
<1>3. CASE ServeStops \/ UNCHANGED writers
  <2>1. UNCHANGED <<pc, file, events, experiments, packet, plan, brief, stage, draft>>
    BY <1>3 DEF ServeStops, writers, vars, db, xvars, evars
  <2> QED
    BY <2>1, LineStays
<1>4. CASE EvalStep
  BY <1>4, LineEval DEF EvalStep, OneOperator
<1>5. CASE EmergenceStep
  BY <1>5, LineEmerge DEF EmergenceStep
<1> QED
  BY <1>1, <1>2, <1>3, <1>4, <1>5 DEF WritersNext

LEMMA LineFirst == WritersInit => LineInv
<1> SUFFICES ASSUME WritersInit PROVE LineInv
  OBVIOUS
<1>1. experiments = <<>> /\ events = <<>> /\ file = Installed
      /\ (\A p \in Actors : pc[p] = "idle") /\ \A a \in Attempts : stage[a] = "idle"
  BY DEF WritersInit, Init, ExperimentsInit, EmergenceInit
<1>2. Stands(experiments, file.body)
  <2>1. file.body \in Nat
    BY <1>1 DEF Installed
  <2>2. \A e \in DOMAIN experiments : experiments[e].candidate.body # file.body
    BY <1>1
  <2> QED
    BY <2>1, <2>2, NewStands
<1>3. Lineage(experiments) /\ PastStands
  BY <1>1 DEF Lineage, PastStands
<1>4. (\A p \in Actors : Backing(p)) /\ \A c \in Evals : Derived(c)
  BY <1>1, ServeIsAnActor DEF Backing, Derived, Deciding
<1> QED
  BY <1>1, <1>2, <1>3, <1>4 DEF LineInv, FileStands

LEMMA LineAlways == ASSUME OneOperator PROVE WritersSpec => [](WInv /\ OInv /\ LineInv)
<1>1. WInv /\ OInv /\ LineInv /\ FreshInv /\ WInv' /\ [WritersNext]_writers => LineInv'
  BY LineNext
<1> QED
  BY <1>1, LineFirst, FreshAlways, OneOperatorAlways, PTL DEF WritersSpec

(* A live candidate was promoted, and can be taken back: with one operator *)
(* who waits for serve to stop, and as long as nothing crashes and no write *)
(* fails, the content of the file is no candidate's, or it is that of an    *)
(* experiment rollback() accepts (EvaluationRunner.promote and .rollback,   *)
(* apply_decision, and everyone else who puts content back).                *)
THEOREM LiveCandidatesWerePromoted == ASSUME OneOperator PROVE WritersSpec => []LiveCandidatesArePromoted
<1>1. LineInv => LiveCandidatesArePromoted
  <2> SUFFICES ASSUME LineInv, WritersSettled, NEW e \in DOMAIN experiments, file = experiments[e].candidate
               PROVE  \E x \in DOMAIN experiments : /\ experiments[x].candidate = file
                                                    /\ experiments[x].status = "promoted"
    BY DEF LiveCandidatesArePromoted
  <2>1. \A p \in Actors : pc[p] # "promote_mark"
    BY DEF WritersSettled, Awaiting
  <2>2. Stands(experiments, file.body)
    BY <2>1 DEF LineInv, FileStands
  <2> QED
    BY <2>2 DEF Stands
<1> QED
  BY <1>1, LineAlways, PTL

(* "Candidates never overwrite the active SKILL.md while they are being    *)
(* generated or tested" (README.md, line 277): under the same conditions,   *)
(* and at every moment, content that is a candidate's is live only once it  *)
(* was validated (EvaluationRunner.promote).                                *)
THEOREM LiveCandidatesWereValidated == ASSUME OneOperator PROVE WritersSpec => []LiveCandidatesAreValidated
<1>1. WInv /\ OInv /\ LineInv => LiveCandidatesAreValidated
  <2> SUFFICES ASSUME WInv, OInv, LineInv, NEW e \in DOMAIN experiments, file = experiments[e].candidate
               PROVE  \E x \in DOMAIN experiments : /\ experiments[x].candidate = file
                                                    /\ experiments[x].status \in {"validated", "promoted"}
    BY DEF LiveCandidatesAreValidated
  <2>1. CASE \A p \in Actors : pc[p] # "promote_mark"
    <3>1. Stands(experiments, file.body)
      BY <2>1 DEF LineInv, FileStands
    <3> QED
      BY <3>1 DEF Stands
  <2>2. ASSUME NEW c \in Actors, pc[c] = "promote_mark"
        PROVE  \E x \in DOMAIN experiments : /\ experiments[x].candidate = file
                                             /\ experiments[x].status \in {"validated", "promoted"}
    <3>1. "promote_mark" \in EvalLabels /\ "promote_mark" \in WithExperiment
      BY DEF WithExperiment, EvalLabels
    <3>2. c \in Evals /\ brief[c].exp \in DOMAIN experiments
      BY <2>2, <3>1 DEF WInv, CommandsInv, CommandAt
    <3>3. AtWork(c)
      BY <2>2, <3>2, CommandWorks
    <3> QED
      BY <2>2, <3>2, <3>3 DEF AtWork, Installs
  <2> QED
    BY <2>1, <2>2
<1> QED
  BY <1>1, LineAlways, PTL
=============================================================================

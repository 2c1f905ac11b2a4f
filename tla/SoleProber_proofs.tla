-------------------------- MODULE SoleProber_proofs --------------------------
(***************************************************************************)
(* The refinement of BindingLifecycle by EvidenceProbes when run_due has a *)
(* single caller: for every plan, and wherever the process dies, its copy  *)
(* of the statuses is current, so that a binding is in observation when    *)
(* its evidence enters.  With two callers it is not: see the findings.     *)
(* Without a crash, the caller also keeps to the policy's attempts.        *)
(***************************************************************************)
EXTENDS EvidenceProbes_proofs

(* The statuses of a binding whose horizons are scanned. *)
Live == {"scheduled", "observing", "retrying", "partially_matured"}

(* From here to the end of an attempt its binding is in observation. *)
Observing == {"count", "probing", "failed", "observe", "evaluate", "mature",
              "partially_matured", "evaluated"}

KnowsStatus(w) ==
    \A b \in todo[w] \cup {At(w)} : known[w][b] = status[b]

Waiting(w) ==
    \A b \in todo[w] : b # At(w) /\ status[b] \in Listable

InStep(w) ==
    /\ pc[w] \in {"scan", "invalidate", "invalid", "acquire", "start", "continue"} => status[At(w)] \in Live
    /\ pc[w] \in Observing => status[At(w)] = "observing"

HasObserved(w) ==
    /\ pc[w] \in {"evaluate", "mature", "partially_matured", "evaluated"} => slot[w] \in observed
    /\ pc[w] = "evaluated" => Lifecycle!SlotsOf(At(w)) \subseteq observed
    /\ pc[w] = "partially_matured" => ~(Lifecycle!SlotsOf(At(w)) \subseteq observed)

SoleInv(w) == pc[w] # "idle" => KnowsStatus(w) /\ Waiting(w) /\ InStep(w) /\ HasObserved(w)

-----------------------------------------------------------------------------
(* Control *)

(* The worker turns to the next binding of those whose status it knows. *)
LEMMA SoleNextBinding ==
    ASSUME LocalOK, NEW w \in Workers, NEW S \in SUBSET Bindings, NEW statuses, NEW time,
           NextBinding(w, S, statuses, time),
           \A b \in S : statuses[b] = status'[b] /\ statuses[b] \in Listable
    PROVE  SoleInv(w)'
  <1>1. CASE Leave(w)
    BY <1>1, LeaveFrame DEF SoleInv
  <1>2. CASE ~Leave(w)
    <2>1. PICK b \in S :
            /\ slot' = [slot EXCEPT ![w] = <<b, 1>>]
            /\ todo' = [todo EXCEPT ![w] = S \ {b}]
            /\ known' = [known EXCEPT ![w] = statuses]
            /\ Goto(w, IF statuses[b] = "committed" THEN "schedule" ELSE "scan")
      BY <1>2 DEF NextBinding
    <2>2. /\ slot'[w] = <<b, 1>> /\ todo'[w] = S \ {b} /\ known'[w] = statuses
          /\ pc'[w] = IF statuses[b] = "committed" THEN "schedule" ELSE "scan"
      BY <2>1 DEF LocalOK, Goto
    <2>3. At(w)' = b
      BY <2>2 DEF At
    <2>4. statuses[b] = status'[b] /\ statuses[b] \in Listable
      BY <2>1
    <2>5. KnowsStatus(w)' /\ Waiting(w)'
      BY <2>2, <2>3, <2>4 DEF KnowsStatus, Waiting
    <2>6. InStep(w)' /\ HasObserved(w)'
      BY <2>2, <2>3, <2>4 DEF InStep, HasObserved, Observing, Live, Listable
    <2>. QED  BY <2>5, <2>6 DEF SoleInv
  <1>. QED  BY <1>1, <1>2

(* The worker goes on within a binding whose status it does not change. *)
LEMMA SoleGoto ==
    ASSUME LocalOK, NEW w \in Workers, NEW label, Goto(w, label), SoleInv(w), pc[w] # "idle",
           UNCHANGED <<known, todo, status>>, At(w)' = At(w),
           InStep(w)', HasObserved(w)'
    PROVE  SoleInv(w)'
  BY DEF SoleInv, KnowsStatus, Waiting

LEMMA SoleNextHorizon ==
    ASSUME LocalOK, NEW w \in Workers, NextHorizon(w), SoleInv(w), UNCHANGED status,
           pc[w] # "idle", status[At(w)] \in Live
    PROVE  SoleInv(w)'
  <1>1. pc' = [pc EXCEPT ![w] = "scan"] /\ slot'[w] = <<At(w), slot[w][2] + 1>>
    BY DEF NextHorizon, Goto, LocalOK, At
  <1>2. Goto(w, "scan") /\ pc'[w] = "scan" /\ At(w)' = At(w) /\ UNCHANGED <<known, todo>>
    BY <1>1 DEF At, Goto, NextHorizon, LocalOK
  <1>3. InStep(w)' /\ HasObserved(w)'
    BY <1>2 DEF InStep, HasObserved, Observing
  <1>. QED  BY <1>2, <1>3, SoleGoto

(* A transition in the try block, which is a step of the lifecycle. *)
LEMMA SoleTransit ==
    ASSUME TypeOK, NEW w \in Workers, NEW to, NEW label, pc[w] \in Leased,
           to \in Statuses, SoleInv(w), Transit(w, to, label), UNCHANGED <<slot, todo, observed>>,
           to = "evaluated" => Lifecycle!SlotsOf(At(w)) \subseteq observed,
           to = "partially_matured" =>
               /\ Lifecycle!SlotsOf(At(w)) \cap observed # {}
               /\ ~(Lifecycle!SlotsOf(At(w)) \subseteq observed),
           label \in {"break", "continue", "count"},
           label = "continue" => to = "partially_matured",
           label = "count" => to = "observing"
    PROVE  SoleInv(w)' /\ [Lifecycle!Next]_<<status, observed>>
  <1>. LocalOK /\ LedgerOK /\ At(w) \in Bindings /\ pc[w] # "idle"
    BY TypeParts, AtOK DEF Leased
  <1>. At(w)' = At(w) /\ "raise" \notin Observing
    BY DEF At, Observing
  <1>1. CASE Allowed(At(w), to)
    <2>1. /\ status' = [status EXCEPT ![At(w)] = to]
          /\ known' = [known EXCEPT ![w][At(w)] = to]
          /\ Goto(w, label)
      BY <1>1 DEF Transit, SetStatus
    <2>2. /\ pc'[w] = label /\ status'[At(w)] = to /\ known'[w][At(w)] = to
          /\ \A b \in Bindings \ {At(w)} : status'[b] = status[b] /\ known'[w][b] = known[w][b]
      BY <2>1 DEF LocalOK, LedgerOK, Goto
    <2>3. todo[w] \subseteq Bindings \ {At(w)}
      BY AtOK DEF SoleInv, Waiting
    <2>4. KnowsStatus(w)' /\ Waiting(w)'
      BY <2>2, <2>3 DEF SoleInv, KnowsStatus, Waiting
    <2>5. InStep(w)' /\ HasObserved(w)'
      BY <2>2 DEF InStep, HasObserved, Observing, Live
    <2>6. Lifecycle!Move(At(w), to)
      BY <1>1, <2>1 DEF Allowed, Lifecycle!Move
    <2>. QED  BY <2>4, <2>5, <2>6 DEF SoleInv, Lifecycle!Next, Statuses
  <1>2. CASE ~Allowed(At(w), to)
    <2>1. Goto(w, "raise") /\ UNCHANGED <<status, known>>
      BY <1>2 DEF Transit
    <2>2. pc'[w] = "raise"
      BY <2>1 DEF Goto, LocalOK
    <2>3. InStep(w)' /\ HasObserved(w)'
      BY <2>2 DEF InStep, HasObserved
    <2>. QED  BY <2>1, <2>3, SoleGoto
  <1>. QED  BY <1>1, <1>2

(* A transition outside it, after which the worker turns away. *)
LEMMA SoleMark ==
    ASSUME TypeOK, NEW w \in Workers, NEW to \in Statuses \ {"evaluated", "partially_matured"},
           pc[w] # "idle", SoleInv(w), Allowed(At(w), to), SetStatus(At(w), to), UNCHANGED observed
    PROVE  /\ [Lifecycle!Next]_<<status, observed>>
           /\ status'[At(w)] = to
           /\ \A b \in todo[w] : b # At(w) /\ status'[b] = known[w][b] /\ status'[b] \in Listable
  <1>. LocalOK /\ LedgerOK /\ At(w) \in Bindings
    BY TypeParts, AtOK
  <1>1. status' = [status EXCEPT ![At(w)] = to]
    BY DEF SetStatus
  <1>2. Lifecycle!Move(At(w), to)
    BY <1>1 DEF Allowed, Lifecycle!Move
  <1>3. status'[At(w)] = to /\ \A b \in Bindings \ {At(w)} : status'[b] = status[b]
    BY <1>1 DEF LedgerOK
  <1>4. todo[w] \subseteq Bindings \ {At(w)}
    BY AtOK DEF SoleInv, Waiting
  <1>. QED  BY <1>2, <1>3, <1>4 DEF Lifecycle!Next, Statuses, SoleInv, KnowsStatus, Waiting

(* The worker turns to the next binding and has changed nothing. *)
LEMMA SolePass ==
    ASSUME TypeOK, NEW w \in Workers, pc[w] # "idle", SoleInv(w), UNCHANGED status,
           NextBinding(w, todo[w], known[w], started[w])
    PROVE  SoleInv(w)'
  <1>. LocalOK
    BY TypeParts
  <1>1. \A b \in todo[w] : known[w][b] = status'[b] /\ known[w][b] \in Listable
    BY DEF SoleInv, KnowsStatus, Waiting
  <1>. QED  BY <1>1, SoleNextBinding, AtOK

-----------------------------------------------------------------------------
(* Steps *)

LEMMA SoleWork ==
    ASSUME TypeOK, NEW w \in Workers, SoleInv(w), Work(w)
    PROVE  SoleInv(w)' /\ [Lifecycle!Next]_<<status, observed>>
  <1>. LocalOK /\ LedgerOK
    BY TypeParts
  <1>1. CASE Begin(w)
    <2>1. Listed \subseteq Bindings /\ \A b \in Listed : status[b] \in Listable
      BY DEF Listed
    <2>. QED  BY <1>1, <2>1, SoleNextBinding DEF Begin, ledger
  <1>2. CASE Schedule(w)
    <2>. pc[w] = "schedule" /\ At(w) \in Bindings /\ UNCHANGED observed
      BY <1>2, AtOK DEF Schedule
    <2>1. CASE Allowed(At(w), "scheduled")
      <3>1. /\ SetStatus(At(w), "scheduled") /\ known' = [known EXCEPT ![w][At(w)] = "scheduled"]
            /\ Goto(w, "scan") /\ UNCHANGED <<todo, slot>>
        BY <1>2, <2>1 DEF Schedule
      <3>2. /\ [Lifecycle!Next]_<<status, observed>> /\ status'[At(w)] = "scheduled"
            /\ \A b \in todo[w] : b # At(w) /\ status'[b] = known[w][b] /\ status'[b] \in Listable
        BY <2>1, <3>1, SoleMark, StatusesAre
      <3>3. pc'[w] = "scan" /\ At(w)' = At(w) /\ known'[w] = [known[w] EXCEPT ![At(w)] = "scheduled"]
        BY <3>1 DEF Goto, LocalOK, At
      <3>4. KnowsStatus(w)' /\ Waiting(w)'
        BY <3>1, <3>2, <3>3, AtOK DEF KnowsStatus, Waiting
      <3>5. InStep(w)' /\ HasObserved(w)'
        BY <3>2, <3>3 DEF InStep, HasObserved, Observing, Live
      <3>. QED  BY <3>2, <3>4, <3>5 DEF SoleInv
    <2>2. CASE ~Allowed(At(w), "scheduled")
      BY <1>2, <2>2, LeaveFrame DEF Schedule, SoleInv
    <2>. QED  BY <2>1, <2>2
  <1>3. CASE NoHorizons(w) \/ MarkInvalid(w)
    <2>. pc[w] # "idle" /\ At(w) \in Bindings /\ UNCHANGED observed
      BY <1>3, AtOK DEF NoHorizons, MarkInvalid
    <2>1. CASE Allowed(At(w), "invalid")
      <3>1. SetStatus(At(w), "invalid") /\ NextBinding(w, todo[w], known[w], started[w])
        BY <1>3, <2>1 DEF NoHorizons, MarkInvalid
      <3>2. /\ [Lifecycle!Next]_<<status, observed>>
            /\ \A b \in todo[w] : b # At(w) /\ status'[b] = known[w][b] /\ status'[b] \in Listable
        BY <2>1, <3>1, SoleMark, StatusesAre
      <3>. QED  BY <3>1, <3>2, SoleNextBinding, AtOK
    <2>2. CASE ~Allowed(At(w), "invalid")
      BY <1>3, <2>2, LeaveFrame DEF NoHorizons, MarkInvalid, SoleInv
    <2>. QED  BY <2>1, <2>2
  <1>4. CASE Scanned(w)
    BY <1>4, SolePass DEF Scanned, ledger
  <1>5. CASE ScanHorizon(w)
    <2>. UNCHANGED <<status, observed>> /\ pc[w] = "scan" /\ status[At(w)] \in Live
      BY <1>5 DEF ScanHorizon, ledger, SoleInv, InStep
    <2>1. CASE NextHorizon(w)
      BY <2>1, SoleNextHorizon
    <2>2. CASE \E label \in {"invalidate", "acquire"} :
                 Goto(w, label) /\ UNCHANGED <<started, known, todo, slot, attempt>>
      <3>1. PICK label \in {"invalidate", "acquire"} :
              Goto(w, label) /\ UNCHANGED <<started, known, todo, slot, attempt>>
        BY <2>2
      <3>2. pc'[w] \in {"invalidate", "acquire"} /\ At(w)' = At(w)
        BY <3>1 DEF Goto, LocalOK, At
      <3>3. InStep(w)' /\ HasObserved(w)'
        BY <3>2 DEF InStep, HasObserved, Observing
      <3>. QED  BY <3>1, <3>2, <3>3, SoleGoto
    <2>. QED  BY <1>5, <2>1, <2>2 DEF ScanHorizon
  <1>6. CASE Invalidate(w)
    <2>. UNCHANGED <<status, observed>> /\ pc[w] = "invalidate" /\ status[At(w)] \in Live
      BY <1>6 DEF Invalidate, ledger, SoleInv, InStep
    <2>1. CASE NextBinding(w, todo[w], known[w], started[w])
      BY <2>1, SolePass
    <2>2. CASE Goto(w, "invalid") /\ UNCHANGED <<started, known, todo, slot, attempt>>
      <3>1. pc'[w] = "invalid" /\ At(w)' = At(w)
        BY <2>2 DEF Goto, LocalOK, At
      <3>2. InStep(w)' /\ HasObserved(w)'
        BY <3>1 DEF InStep, HasObserved, Observing
      <3>. QED  BY <2>2, <3>1, <3>2, SoleGoto
    <2>. QED  BY <1>6, <2>1, <2>2 DEF Invalidate
  <1>7. CASE Acquire(w)
    <2>. UNCHANGED <<status, observed>> /\ pc[w] = "acquire" /\ status[At(w)] \in Live
      BY <1>7 DEF Acquire, SoleInv, InStep
    <2>1. CASE LeaseIsFree(slot[w], w)
      <3>1. known[w][At(w)] = status[At(w)]
        BY DEF SoleInv, KnowsStatus
      <3>2. PICK label \in {"start", "count"} :
              /\ Goto(w, label) /\ UNCHANGED <<started, known, todo, slot, attempt>>
              /\ label = "count" => status[At(w)] \notin {"scheduled", "retrying", "partially_matured"}
        BY <1>7, <2>1, <3>1 DEF Acquire
      <3>3. pc'[w] = label /\ At(w)' = At(w)
        BY <3>2 DEF Goto, LocalOK, At
      <3>4. InStep(w)' /\ HasObserved(w)'
        BY <3>2, <3>3 DEF InStep, HasObserved, Observing, Live
      <3>. QED  BY <3>2, <3>3, <3>4, SoleGoto
    <2>2. CASE ~LeaseIsFree(slot[w], w)
      BY <1>7, <2>2, SoleNextHorizon DEF Acquire
    <2>. QED  BY <2>1, <2>2
  <1>8. CASE StartObserving(w)
    <2>1. pc[w] \in Leased /\ UNCHANGED <<slot, todo, observed>> /\ Transit(w, "observing", "count")
      BY <1>8 DEF StartObserving, Leased
    <2>. QED  BY <2>1, SoleTransit, StatusesAre
  <1>9. CASE Retry(w)
    <2>1. /\ pc[w] \in Leased /\ UNCHANGED <<slot, todo, observed>>
          /\ \E to \in {"invalid", "retrying"} : Transit(w, to, "break")
      BY <1>9 DEF Retry, Leased
    <2>. QED  BY <2>1, SoleTransit, StatusesAre
  <1>10. CASE Count(w) \/ RecordAttempt(w, "failed") \/ RecordAttempt(w, "observe")
    <2>1. /\ pc[w] \in {"count", "probing"} /\ status[At(w)] = "observing"
          /\ UNCHANGED <<status, observed, known, todo, slot>>
      BY <1>10 DEF Count, RecordAttempt, ledger, SoleInv, InStep, Observing
    <2>2. PICK label \in {"probing", "failed", "observe", "raise"} : Goto(w, label)
      BY <1>10 DEF Count, RecordAttempt
    <2>3. pc'[w] = label /\ At(w)' = At(w)
      BY <2>1, <2>2 DEF Goto, LocalOK, At
    <2>4. InStep(w)' /\ HasObserved(w)'
      BY <2>1, <2>3 DEF InStep, HasObserved
    <2>. QED  BY <2>1, <2>2, <2>3, <2>4, SoleGoto
  <1>11. CASE Observe(w)
    <2>1. /\ pc[w] = "observe" /\ status[At(w)] = "observing" /\ slot[w] \in Slots
          /\ UNCHANGED <<status, known, todo, slot>>
          /\ observed' = observed \cup {slot[w]} /\ Goto(w, "evaluate")
      BY <1>11, LeasedSlot DEF Observe, SoleInv, InStep, Observing, Leased
    <2>2. Lifecycle!Observe(slot[w])
      BY <2>1 DEF Lifecycle!Observe, At
    <2>3. pc'[w] = "evaluate" /\ At(w)' = At(w)
      BY <2>1 DEF Goto, LocalOK, At
    <2>4. InStep(w)' /\ HasObserved(w)'
      BY <2>1, <2>3 DEF InStep, HasObserved
    <2>. QED  BY <2>1, <2>2, <2>3, <2>4, SoleGoto DEF Lifecycle!Next
  <1>12. CASE Evaluate(w) \/ Mature(w)
    <2>1. /\ pc[w] \in {"evaluate", "mature"} /\ status[At(w)] = "observing" /\ slot[w] \in observed
          /\ UNCHANGED <<status, observed, known, todo, slot>>
      BY <1>12 DEF Evaluate, Mature, ledger, SoleInv, InStep, Observing, HasObserved
    <2>2. PICK label \in {"mature", "partially_matured", "evaluated"} :
            /\ Goto(w, label)
            /\ label = "evaluated" => Lifecycle!SlotsOf(At(w)) \subseteq observed
            /\ label = "partially_matured" => ~(Lifecycle!SlotsOf(At(w)) \subseteq observed)
      BY <1>12 DEF Evaluate, Mature
    <2>3. pc'[w] = label /\ At(w)' = At(w)
      BY <2>1, <2>2 DEF Goto, LocalOK, At
    <2>4. InStep(w)' /\ HasObserved(w)'
      BY <2>1, <2>2, <2>3 DEF InStep, HasObserved, Lifecycle!SlotsOf
    <2>. QED  BY <2>1, <2>2, <2>3, <2>4, SoleGoto
  <1>13. CASE Store(w)
    <2>1. /\ pc[w] \in {"partially_matured", "evaluated"} /\ UNCHANGED <<slot, todo, observed>>
          /\ Transit(w, pc[w], IF pc[w] = "evaluated" THEN "break" ELSE "continue")
      BY <1>13 DEF Store
    <2>2. slot[w] \in observed /\ slot[w] \in Slots /\ pc[w] \in Leased
      BY <2>1, LeasedSlot DEF SoleInv, HasObserved, Leased
    <2>3. slot[w] \in Lifecycle!SlotsOf(At(w)) \cap observed
      BY <2>2 DEF Lifecycle!SlotsOf, At
    <2>4. CASE pc[w] = "evaluated"
      <3>1. Transit(w, "evaluated", "break") /\ Lifecycle!SlotsOf(At(w)) \subseteq observed
        BY <2>1, <2>4 DEF SoleInv, HasObserved
      <3>. QED  BY <2>1, <2>2, <3>1, SoleTransit, StatusesAre
    <2>5. CASE pc[w] = "partially_matured"
      <3>1. Transit(w, "partially_matured", "continue") /\ ~(Lifecycle!SlotsOf(At(w)) \subseteq observed)
        BY <2>1, <2>5 DEF SoleInv, HasObserved
      <3>. QED  BY <2>1, <2>2, <2>3, <3>1, SoleTransit, StatusesAre
    <2>. QED  BY <2>1, <2>4, <2>5
  <1>14. CASE Release(w)
    <2>. pc[w] \in {"continue", "break", "raise"} /\ UNCHANGED <<status, observed>>
      BY <1>14 DEF Release
    <2>1. CASE pc[w] = "continue"
      BY <1>14, <2>1, SoleNextHorizon DEF Release, SoleInv, InStep
    <2>2. CASE pc[w] = "break"
      BY <1>14, <2>2, SolePass DEF Release
    <2>3. CASE pc[w] = "raise"
      BY <1>14, <2>3, LeaveFrame DEF Release, SoleInv
    <2>. QED  BY <2>1, <2>2, <2>3
  <1>. QED
    BY <1>1, <1>2, <1>3, <1>4, <1>5, <1>6, <1>7, <1>8, <1>9, <1>10, <1>11, <1>12, <1>13, <1>14
    DEF Work

(* A single caller of run_due keeps the promise of the ledger, wherever it *)
(* crashes: evidence enters while its binding is observing, no observation *)
(* is lost, and evaluation waits for the last horizon.                     *)
THEOREM SoleCallerKeepsLifecycle ==
    ASSUME NEW w, Workers = {w}
    PROVE  Spec => KeepsLifecycle
  <1>1. Init => SoleInv(w) /\ Lifecycle!Init
    BY DEF Init, SoleInv, Lifecycle!Init
  <1>2. TypeOK /\ SoleInv(w) /\ [Next]_vars => SoleInv(w)' /\ [Lifecycle!Next]_<<status, observed>>
    <2>. SUFFICES ASSUME TypeOK, SoleInv(w), [Next]_vars
                  PROVE  SoleInv(w)' /\ [Lifecycle!Next]_<<status, observed>>
      OBVIOUS
    <2>1. CASE Tick \/ UNCHANGED vars
      BY <2>1 DEF Tick, vars, ledger, local, SoleInv, KnowsStatus, Waiting, InStep, HasObserved, At
    <2>2. CASE Crash
      BY <2>2 DEF Crash, ledger, SoleInv
    <2>3. CASE \E v \in Workers : MayRun(v) /\ Work(v)
      BY <2>3, SoleWork
    <2>. QED  BY <2>1, <2>2, <2>3 DEF Next
  <1>. QED  BY <1>1, <1>2, InitType, NextType, PTL DEF Spec, KeepsLifecycle, Lifecycle!Spec

-----------------------------------------------------------------------------
(* Attempts *)

Allowance(s) == Plan[s[1]][s[2]].max

(* A horizon whose attempts are used up is given up, observed, or the one  *)
(* whose last attempt the worker has in hand.                              *)
UsedUp(w, s) ==
    \/ status[s[1]] = "invalid" \/ s \in observed
    \/ slot[w] = s /\ pc[w] \in {"failed", "observe"}

LimitInv(w) ==
    /\ \A s \in Slots : attempts[s] <= Allowance(s) /\ (attempts[s] = Allowance(s) => UsedUp(w, s))
    /\ pc[w] \in {"acquire", "start", "count"} => slot[w] \notin observed
    /\ pc[w] = "probing" => attempt[w] = attempts[slot[w]] + 1 /\ attempt[w] <= Allowance(slot[w])
    /\ pc[w] = "failed" => attempt[w] = attempts[slot[w]]

LEMMA AllowancesAre == \A s \in Slots : Allowance(s) \in Nat \ {0}
  <1>1. \A b \in Bindings : Plan[b] \in Seq(Horizon)
    BY PlanAssumption DEF Bindings
  <1>2. \A b \in Bindings : \A i \in DOMAIN Plan[b] : Plan[b][i].max \in Nat \ {0}
    <2>1. ASSUME NEW q \in Seq(Horizon), NEW i \in DOMAIN q PROVE q[i].max \in Nat \ {0}
      <3>1. q[i] \in Horizon
        BY <2>1
      <3>. QED  BY <3>1 DEF Horizon
    <2>. QED  BY <1>1, <2>1
  <1>. QED  BY <1>2 DEF Slots, Allowance

(* What is invalid stays so. *)
LEMMA InvalidIsFinal ==
    ASSUME TypeOK, [Lifecycle!Next]_<<status, observed>>
    PROVE  /\ \A b \in Bindings : status[b] = "invalid" => status'[b] = "invalid"
           /\ observed \subseteq observed'
  <1>. LedgerOK
    BY TypeParts
  <1>1. CASE UNCHANGED <<status, observed>> \/ \E s \in Slots : Lifecycle!Observe(s)
    BY <1>1 DEF Lifecycle!Observe
  <1>2. CASE \E b \in Bindings, to \in Lifecycle!BindingStatuses : Lifecycle!Move(b, to)
    BY <1>2 DEF Lifecycle!Move, Lifecycle!Transitions, LedgerOK
  <1>. QED  BY <1>1, <1>2 DEF Lifecycle!Next

LEMMA WorkOnAttempts ==
    ASSUME TypeOK, NEW w \in Workers, SoleInv(w), LimitInv(w), Work(w)
    PROVE  LimitInv(w)'
  <1>. /\ LocalOK /\ LedgerOK /\ EvidenceStep(w) /\ SoleInv(w)'
       /\ \A s \in Slots : attempts[s] \in Nat /\ Allowance(s) \in Nat \ {0} /\ s[1] \in Bindings
       /\ \A b \in Bindings : status[b] = "invalid" => status'[b] = "invalid"
       /\ observed \subseteq observed'
       /\ attempt[w] \in Nat
    BY TypeParts, WorkOnEvidence, SoleWork, InvalidIsFinal, AllowancesAre, SlotsArePairs
    DEF LedgerOK, LocalOK
  <1>1. CASE pc[w] = "failed"
    <2>. slot[w] \in Slots /\ At(w) \in Bindings /\ attempt[w] = attempts[slot[w]]
         /\ status[At(w)] = "observing"
      BY <1>1, LeasedSlot, AtOK DEF Leased, LimitInv, SoleInv, InStep, Observing
    <2>1. Retry(w)
      BY <1>1 DEF Work, Begin, Schedule, NoHorizons, Scanned, ScanHorizon, Invalidate, MarkInvalid,
         Acquire, StartObserving, Count, RecordAttempt, Observe, Evaluate, Mature, Store, Release
    <2>2. UNCHANGED <<attempts, slot>> /\ pc'[w] \in {"break", "raise"}
      BY <2>1, TransitLabel DEF Retry
    <2>3. attempts[slot[w]] = Allowance(slot[w]) => status'[At(w)] = "invalid"
      <3>1. SUFFICES ASSUME attempts[slot[w]] = Allowance(slot[w]) PROVE status'[At(w)] = "invalid"
        OBVIOUS
      <3>2. attempt[w] >= Current(w).max
        BY <3>1 DEF Current, Allowance, At
      <3>3. Transit(w, "invalid", "break")
        BY <2>1, <3>2 DEF Retry
      <3>4. Allowed(At(w), "invalid")
        BY DEF Allowed, Lifecycle!Transitions
      <3>. QED  BY <3>3, <3>4 DEF Transit, SetStatus, LedgerOK
    <2>. QED  BY <2>2, <2>3 DEF LimitInv, UsedUp, Allowance, At
  <1>2. CASE Counts(w)
    <2>1. slot[w] \in Slots /\ slot[w] \notin observed /\ status[At(w)] = "observing"
      BY <1>2, LeasedSlot DEF Counts, Leased, LimitInv, SoleInv, InStep, Observing
    <2>2. attempts[slot[w]] < Allowance(slot[w])
      BY <1>2, <2>1 DEF Counts, LimitInv, UsedUp, At
    <2>. QED  BY <1>2, <2>1, <2>2 DEF Counts, LimitInv, UsedUp, Allowance
  <1>3. CASE Records(w)
    <2>1. slot[w] \in Slots /\ attempt[w] = attempts[slot[w]] + 1 /\ attempt[w] <= Allowance(slot[w])
      BY <1>3, LeasedSlot DEF Records, Leased, LimitInv
    <2>2. /\ attempts'[slot[w]] = attempt[w] /\ slot'[w] = slot[w] /\ attempt'[w] = attempt[w]
          /\ \A s \in Slots \ {slot[w]} : attempts'[s] = attempts[s]
          /\ pc[w] = "probing" /\ pc'[w] \in {"failed", "observe"}
      BY <1>3, <2>1 DEF Records, LedgerOK
    <2>3. ASSUME NEW s \in Slots
          PROVE  attempts'[s] <= Allowance(s) /\ (attempts'[s] = Allowance(s) => UsedUp(w, s)')
      <3>1. CASE s = slot[w]
        BY <2>1, <2>2, <3>1 DEF UsedUp
      <3>2. CASE s # slot[w]
        BY <2>2, <3>2 DEF LimitInv, UsedUp
      <3>. QED  BY <3>1, <3>2
    <2>. QED  BY <2>2, <2>3 DEF LimitInv, Allowance
  <1>4. CASE Observes(w)
    <2>1. /\ UNCHANGED attempts /\ slot'[w] = slot[w] /\ slot[w] \in observed'
          /\ pc'[w] = "evaluate"
      BY <1>4 DEF Observes
    <2>. QED  BY <2>1 DEF LimitInv, UsedUp, Allowance
  <1>5. CASE pc[w] # "failed" /\ (TurnsAway(w) \/ Approaches(w) \/ Evaluates(w) \/ Matures(w))
    <2>1. pc[w] # "observe"
      <3>1. pc[w] = "observe" => Observe(w)
        BY DEF Work, Begin, Schedule, NoHorizons, Scanned, ScanHorizon, Invalidate, MarkInvalid,
           Acquire, StartObserving, Count, RecordAttempt, Retry, Evaluate, Mature, Store, Release
      <3>2. Observe(w) => pc[w] = "observe" /\ pc'[w] = "evaluate"
        BY DEF Observe, Goto, LocalOK
      <3>. QED  BY <1>5, <3>1, <3>2 DEF TurnsAway, Elsewhere, Approaches, Evaluates, Matures
    <2>2. /\ UNCHANGED attempts /\ pc'[w] \notin {"probing", "observe", "failed"}
          /\ pc'[w] \in {"acquire", "start", "count"} =>
                /\ slot'[w] = slot[w] /\ UNCHANGED observed
                /\ slot[w] \notin observed \/ pc[w] \in {"acquire", "start"}
      BY <1>5 DEF TurnsAway, Elsewhere, Approaches, Evaluates, Matures
    <2>. QED  BY <1>5, <2>1, <2>2 DEF LimitInv, UsedUp, Allowance
  <1>. QED  BY <1>1, <1>2, <1>3, <1>4, <1>5 DEF EvidenceStep

(* A single caller of run_due that does not die attempts a horizon at most *)
(* as often as its retry policy allows (max_attempts).                     *)
THEOREM SoleCallerLimitsAttempts ==
    ASSUME NEW w, Workers = {w}, MaxCrashes = 0
    PROVE  Spec => []AttemptsAreLimited
  <1> DEFINE Inv == TypeOK /\ SoleInv(w) /\ LimitInv(w)
  <1>1. Init => Inv
    <2>1. Init => SoleInv(w) /\ LimitInv(w)
      BY AllowancesAre DEF Init, SoleInv, LimitInv
    <2>. QED  BY <2>1, InitType
  <1>2. Inv => AttemptsAreLimited
    BY DEF LimitInv, AttemptsAreLimited, Allowance
  <1>3. Inv /\ [Next]_vars => Inv'
    <2>. SUFFICES ASSUME TypeOK, SoleInv(w), LimitInv(w), [Next]_vars
                  PROVE  SoleInv(w)' /\ LimitInv(w)'
      BY NextType
    <2>1. CASE Tick \/ UNCHANGED vars
      BY <2>1 DEF Tick, vars, ledger, local, SoleInv, KnowsStatus, Waiting, InStep, HasObserved, At,
         LimitInv, UsedUp, Allowance
    <2>2. CASE Crash
      BY <2>2 DEF Crash, TypeOK
    <2>3. CASE \E v \in Workers : MayRun(v) /\ Work(v)
      BY <2>3, SoleWork, WorkOnAttempts
    <2>. QED  BY <2>1, <2>2, <2>3 DEF Next
  <1> HIDE DEF Inv
  <1>. QED  BY <1>1, <1>2, <1>3, PTL DEF Spec
=============================================================================

----------------------- MODULE EvidenceProbes_proofs -----------------------
(***************************************************************************)
(* Theorems about EvidenceProbes, for any plan and any number of workers:  *)
(* type correctness, and that leases which outlast the work keep workers   *)
(* apart, whatever crashes; without a crash, that an evaluated binding has *)
(* its results; and for one event loop, that results count once.           *)
(***************************************************************************)
EXTENDS EvidenceProbes, TLAPS

USE PlanAssumption, WorkersAssumption, BoundsAssumption

-----------------------------------------------------------------------------
(* Types *)

LEMMA StatusesAre ==
    Statuses = {"committed", "scheduled", "observing", "retrying", "partially_matured",
                "evaluated", "expired", "censored", "invalid", "cancelled"}
  BY DEF Statuses, Lifecycle!BindingStatuses, Lifecycle!Transitions

LEMMA BindingsArePositive == Bindings \subseteq Nat \ {0}
  BY DEF Bindings

LEMMA SlotsArePairs ==
    /\ Slots \subseteq Bindings \X Nat
    /\ \A s \in Slots : s[1] \in Bindings
  <1>1. \A b \in Bindings : DOMAIN Plan[b] \subseteq Nat
    BY DEF Bindings
  <1>. QED  BY <1>1 DEF Slots

Labels == {"idle", "schedule", "scan", "invalidate", "invalid", "acquire"} \cup Leased

LocalOK ==
    /\ pc \in [Workers -> Labels]
    /\ started \in [Workers -> 0..MaxTime]
    /\ known \in [Workers -> [Bindings -> Statuses]]
    /\ todo \in [Workers -> SUBSET Bindings]
    /\ slot \in [Workers -> (Bindings \cup {0}) \X Nat]
    /\ attempt \in [Workers -> Nat]
    /\ \A w \in Workers : pc[w] # "idle" => slot[w][1] \in Bindings
    /\ \A w \in Workers : pc[w] \in {"invalidate", "invalid", "acquire"} \cup Leased => slot[w] \in Slots

LedgerOK ==
    /\ status \in [Bindings -> Statuses]
    /\ attempts \in [Slots -> Nat]
    /\ observed \in SUBSET Slots
    /\ results \in [Slots -> Nat]
    /\ leases \in [Slots -> [owner : Workers \cup {"nobody"}, until : Nat]]

LEMMA TypeParts ==
    TypeOK <=> clock \in 0..MaxTime /\ crashes \in 0..MaxCrashes /\ LedgerOK /\ LocalOK
  BY DEF TypeOK, LedgerOK, LocalOK, Labels

LEMMA LeaveOK ==
    ASSUME LocalOK, NEW w \in Workers, Leave(w)
    PROVE  LocalOK'
  BY StatusesAre DEF LocalOK, Labels, Leased, Leave, Goto

LEMMA NextBindingOK ==
    ASSUME LocalOK, NEW w \in Workers, NEW S \in SUBSET Bindings,
           NEW statuses \in [Bindings -> Statuses], NEW time \in 0..MaxTime,
           NextBinding(w, S, statuses, time)
    PROVE  LocalOK'
  <1>1. CASE S = {} /\ Leave(w)
    BY <1>1, LeaveOK
  <1>2. CASE S # {} \/ ~Leave(w)
    <2>1. PICK b \in S :
            /\ slot' = [slot EXCEPT ![w] = <<b, 1>>]
            /\ started' = [started EXCEPT ![w] = time]
            /\ todo' = [todo EXCEPT ![w] = S \ {b}]
            /\ known' = [known EXCEPT ![w] = statuses]
            /\ attempt' = [attempt EXCEPT ![w] = 0]
            /\ Goto(w, IF statuses[b] = "committed" THEN "schedule" ELSE "scan")
      BY <1>2 DEF NextBinding
    <2>. QED  BY <2>1 DEF LocalOK, Labels, Leased, Goto
  <1>. QED  BY <1>1, <1>2

LEMMA NextHorizonOK ==
    ASSUME LocalOK, NEW w \in Workers, pc[w] # "idle", NextHorizon(w)
    PROVE  LocalOK'
  <1>1. slot' = [slot EXCEPT ![w] = <<slot[w][1], slot[w][2] + 1>>]
    BY DEF NextHorizon, At, LocalOK
  <1>. QED  BY <1>1 DEF LocalOK, Labels, Leased, NextHorizon, Goto

(* A worker that only changes its label, within Leased or to it. *)
LEMMA GotoOK ==
    ASSUME LocalOK, NEW w \in Workers, NEW label \in Labels, Goto(w, label),
           slot[w][1] \in Bindings,
           label \in {"invalidate", "invalid", "acquire"} \cup Leased => slot[w] \in Slots,
           UNCHANGED <<started, todo, slot>>,
           known' \in [Workers -> [Bindings -> Statuses]], attempt' \in [Workers -> Nat]
    PROVE  LocalOK'
  BY DEF LocalOK, Labels, Leased, Goto

(* A transition in the try block. *)
LEMMA TransitOK ==
    ASSUME LocalOK, LedgerOK, NEW w \in Workers, pc[w] \in Leased,
           NEW to \in Statuses, NEW label \in Leased, Transit(w, to, label),
           UNCHANGED <<attempts, observed, results, leases, started, todo, slot, attempt>>
    PROVE  LocalOK' /\ LedgerOK'
  <1>1. slot[w] \in Slots /\ At(w) \in Bindings
    BY SlotsArePairs DEF LocalOK, Leased, At
  <1>2. CASE Allowed(At(w), to)
    <2>1. /\ status' = [status EXCEPT ![At(w)] = to]
          /\ known' = [known EXCEPT ![w][At(w)] = to]
          /\ Goto(w, label)
      BY <1>2 DEF Transit, SetStatus
    <2>2. status' \in [Bindings -> Statuses] /\ known' \in [Workers -> [Bindings -> Statuses]]
      BY <2>1, <1>1 DEF LedgerOK, LocalOK
    <2>3. LocalOK'
      BY <2>1, <2>2, <1>1, GotoOK DEF LocalOK, Labels, At
    <2>. QED  BY <2>2, <2>3 DEF LedgerOK
  <1>3. CASE ~Allowed(At(w), to)
    <2>1. Goto(w, "raise") /\ UNCHANGED <<status, known>>
      BY <1>3 DEF Transit
    <2>2. LocalOK'
      BY <2>1, <1>1, GotoOK DEF LocalOK, Labels, Leased, At
    <2>. QED  BY <2>1, <2>2 DEF LedgerOK
  <1>. QED  BY <1>2, <1>3

LEMMA SetStatusOK ==
    ASSUME LedgerOK, NEW b \in Bindings, NEW to \in Statuses, SetStatus(b, to),
           UNCHANGED <<attempts, observed, results, leases>>
    PROVE  LedgerOK'
  BY DEF LedgerOK, SetStatus

(* The label of a worker, its slot, and what follows about the slot. *)
LEMMA AtOK ==
    ASSUME LocalOK, NEW w \in Workers, pc[w] # "idle"
    PROVE  /\ At(w) \in Bindings
           /\ todo[w] \in SUBSET Bindings
           /\ known[w] \in [Bindings -> Statuses]
           /\ started[w] \in 0..MaxTime
  BY DEF LocalOK, At

LEMMA LeasedSlot ==
    ASSUME LocalOK, NEW w \in Workers, pc[w] \in {"invalidate", "invalid", "acquire"} \cup Leased
    PROVE  slot[w] \in Slots
  BY DEF LocalOK

LEMMA WorkOK ==
    ASSUME TypeOK, NEW w \in Workers, Work(w)
    PROVE  LocalOK' /\ LedgerOK'
  <1>. LocalOK /\ LedgerOK /\ clock \in 0..MaxTime
    BY TypeParts
  <1>1. CASE Begin(w)
    <2>1. Listed \in SUBSET Bindings /\ status \in [Bindings -> Statuses]
      BY DEF Listed, LedgerOK
    <2>. QED  BY <1>1, <2>1, NextBindingOK DEF Begin, LedgerOK, ledger
  <1>2. CASE Schedule(w)
    <2>. UNCHANGED <<attempts, observed, results, leases>> /\ pc[w] = "schedule"
      BY <1>2 DEF Schedule
    <2>1. CASE Allowed(At(w), "scheduled")
      <3>. known' = [known EXCEPT ![w][At(w)] = "scheduled"] /\ At(w) \in Bindings
        BY <1>2, <2>1, AtOK DEF Schedule
      <3>. "scheduled" \in Statuses
        BY StatusesAre
      <3>1. known' \in [Workers -> [Bindings -> Statuses]]
        BY DEF LocalOK
      <3>2. LocalOK'
        BY <1>2, <2>1, <3>1, GotoOK, AtOK DEF Schedule, LocalOK, Labels, Leased, At
      <3>. QED  BY <1>2, <2>1, <3>2, SetStatusOK, AtOK, StatusesAre DEF Schedule
    <2>2. CASE ~Allowed(At(w), "scheduled")
      BY <1>2, <2>2, LeaveOK DEF Schedule, LedgerOK
    <2>. QED  BY <2>1, <2>2
  <1>3. CASE NoHorizons(w)
    <2>. UNCHANGED <<attempts, observed, results, leases>> /\ pc[w] = "scan"
      BY <1>3 DEF NoHorizons
    <2>1. CASE Allowed(At(w), "invalid")
      <3>1. SetStatus(At(w), "invalid") /\ NextBinding(w, todo[w], known[w], started[w])
        BY <1>3, <2>1 DEF NoHorizons
      <3>. QED  BY <3>1, SetStatusOK, NextBindingOK, AtOK, StatusesAre
    <2>2. CASE ~Allowed(At(w), "invalid")
      BY <1>3, <2>2, LeaveOK DEF NoHorizons, LedgerOK
    <2>. QED  BY <2>1, <2>2
  <1>4. CASE Scanned(w)
    BY <1>4, NextBindingOK, AtOK DEF Scanned, LedgerOK, ledger
  <1>5. CASE ScanHorizon(w)
    <2>. UNCHANGED ledger /\ pc[w] = "scan" /\ slot[w] \in Slots
      BY <1>5 DEF ScanHorizon
    <2>1. CASE NextHorizon(w)
      BY <2>1, NextHorizonOK DEF LedgerOK, ledger
    <2>2. CASE \E label \in {"invalidate", "acquire"} :
                 Goto(w, label) /\ UNCHANGED <<started, known, todo, slot, attempt>>
      BY <2>2, GotoOK, AtOK DEF LocalOK, LedgerOK, ledger, Labels, At
    <2>. QED  BY <1>5, <2>1, <2>2 DEF ScanHorizon
  <1>6. CASE Invalidate(w)
    <2>. UNCHANGED ledger /\ pc[w] = "invalidate" /\ slot[w] \in Slots
      BY <1>6, LeasedSlot DEF Invalidate
    <2>1. CASE NextBinding(w, todo[w], known[w], started[w])
      BY <2>1, NextBindingOK, AtOK DEF LedgerOK, ledger
    <2>2. CASE Goto(w, "invalid") /\ UNCHANGED <<started, known, todo, slot, attempt>>
      BY <2>2, GotoOK, AtOK DEF LocalOK, LedgerOK, ledger, Labels, At
    <2>. QED  BY <1>6, <2>1, <2>2 DEF Invalidate
  <1>7. CASE MarkInvalid(w)
    <2>. UNCHANGED <<attempts, observed, results, leases>> /\ pc[w] = "invalid"
      BY <1>7 DEF MarkInvalid
    <2>1. CASE Allowed(At(w), "invalid")
      <3>1. SetStatus(At(w), "invalid") /\ NextBinding(w, todo[w], known[w], started[w])
        BY <1>7, <2>1 DEF MarkInvalid
      <3>. QED  BY <3>1, SetStatusOK, NextBindingOK, AtOK, StatusesAre
    <2>2. CASE ~Allowed(At(w), "invalid")
      BY <1>7, <2>2, LeaveOK DEF MarkInvalid, LedgerOK
    <2>. QED  BY <2>1, <2>2
  <1>8. CASE Acquire(w)
    <2>. /\ UNCHANGED <<status, attempts, observed, results>>
         /\ pc[w] = "acquire" /\ slot[w] \in Slots
      BY <1>8, LeasedSlot DEF Acquire
    <2>1. CASE LeaseIsFree(slot[w], w)
      <3>1. started[w] + LeaseTime \in Nat
        BY AtOK
      <3>. DEFINE lease == [owner |-> w, until |-> started[w] + LeaseTime]
      <3>. lease \in [owner : Workers \cup {"nobody"}, until : Nat]
        BY <3>1
      <3>. leases' = [leases EXCEPT ![slot[w]] = lease]
        BY <1>8, <2>1 DEF Acquire
      <3>. HIDE DEF lease
      <3>2. leases' \in [Slots -> [owner : Workers \cup {"nobody"}, until : Nat]]
        BY DEF LedgerOK
      <3>3. PICK label \in {"start", "count"} :
              Goto(w, label) /\ UNCHANGED <<started, known, todo, slot, attempt>>
        BY <1>8, <2>1 DEF Acquire
      <3>. QED  BY <3>2, <3>3, GotoOK, AtOK DEF LocalOK, LedgerOK, Labels, Leased, At
    <2>2. CASE ~LeaseIsFree(slot[w], w)
      BY <1>8, <2>2, NextHorizonOK DEF Acquire, LedgerOK
    <2>. QED  BY <2>1, <2>2
  <1>9. CASE StartObserving(w)
    BY <1>9, TransitOK, StatusesAre DEF StartObserving, Leased
  <1>10. CASE Count(w)
    <2>1. slot[w] \in Slots /\ At(w) \in Bindings
      BY <1>10, LeasedSlot, AtOK DEF Count, Leased
    <2>2. attempt' \in [Workers -> Nat]
      BY <1>10, <2>1 DEF Count, LocalOK, LedgerOK
    <2>. QED  BY <1>10, <2>1, <2>2, GotoOK DEF Count, LocalOK, LedgerOK, ledger, Labels, Leased, At
  <1>11. CASE \E outcome \in {"failed", "observe"} : RecordAttempt(w, outcome)
    <2>1. PICK outcome \in {"failed", "observe"} : RecordAttempt(w, outcome)
      BY <1>11
    <2>2. slot[w] \in Slots /\ At(w) \in Bindings
      BY <2>1, LeasedSlot, AtOK DEF RecordAttempt, Leased
    <2>. attempt[w] \in Nat
      BY DEF LocalOK
    <2>3. LedgerOK'
      <3>1. CASE UNCHANGED attempts
        BY <2>1, <3>1 DEF RecordAttempt, LedgerOK
      <3>2. CASE attempts' = [attempts EXCEPT ![slot[w]] = attempt[w]]
        <4>1. attempts' \in [Slots -> Nat]
          BY <3>2 DEF LedgerOK
        <4>. QED  BY <2>1, <4>1 DEF RecordAttempt, LedgerOK
      <3>. QED  BY <2>1, <3>1, <3>2 DEF RecordAttempt
    <2>4. PICK label \in {"failed", "observe", "raise"} : Goto(w, label)
      BY <2>1 DEF RecordAttempt
    <2>5. LocalOK'
      BY <2>1, <2>2, <2>4, GotoOK DEF RecordAttempt, LocalOK, Labels, Leased, At
    <2>. QED  BY <2>3, <2>5
  <1>12. CASE Retry(w)
    <2>1. PICK to \in {"invalid", "retrying"} : Transit(w, to, "break")
      BY <1>12 DEF Retry
    <2>. QED  BY <1>12, <2>1, TransitOK, StatusesAre DEF Retry, Leased
  <1>13. CASE Observe(w) \/ Evaluate(w)
    <2>1. slot[w] \in Slots /\ At(w) \in Bindings
      BY <1>13, LeasedSlot, AtOK DEF Observe, Evaluate, Leased
    <2>2. LedgerOK'
      <3>1. CASE Observe(w)
        BY <3>1, <2>1 DEF Observe, LedgerOK
      <3>2. CASE Evaluate(w)
        <4>1. results' = [results EXCEPT ![slot[w]] = results[slot[w]] + 1]
          BY <3>2 DEF Evaluate
        <4>2. results' \in [Slots -> Nat]
          BY <4>1, <2>1 DEF LedgerOK
        <4>. QED  BY <3>2, <4>2 DEF Evaluate, LedgerOK
      <3>. QED  BY <1>13, <3>1, <3>2
    <2>3. LocalOK'
      BY <1>13, <2>1, GotoOK DEF Observe, Evaluate, LocalOK, Labels, Leased, At
    <2>. QED  BY <2>2, <2>3
  <1>14. CASE Mature(w)
    <2>1. slot[w] \in Slots /\ At(w) \in Bindings
      BY <1>14, LeasedSlot, AtOK DEF Mature, Leased
    <2>2. PICK label \in {"evaluated", "partially_matured"} : Goto(w, label)
      BY <1>14 DEF Mature
    <2>. QED  BY <1>14, <2>1, <2>2, GotoOK DEF Mature, LocalOK, LedgerOK, ledger, Labels, Leased, At
  <1>15. CASE Store(w)
    <2>1. PICK label \in {"break", "continue"} : Transit(w, pc[w], label)
      BY <1>15 DEF Store
    <2>. QED  BY <1>15, <2>1, TransitOK, StatusesAre DEF Store, Leased
  <1>16. CASE Release(w)
    <2>1. pc[w] \in {"continue", "break", "raise"} /\ slot[w] \in Slots
      BY <1>16, LeasedSlot DEF Release, Leased
    <2>2. LedgerOK'
      BY <1>16, <2>1 DEF Release, LedgerOK, Free
    <2>3. LocalOK'
      BY <1>16, <2>1, NextHorizonOK, NextBindingOK, LeaveOK, AtOK DEF Release
    <2>. QED  BY <2>2, <2>3
  <1>. QED
    BY <1>1, <1>2, <1>3, <1>4, <1>5, <1>6, <1>7, <1>8, <1>9, <1>10, <1>11, <1>12, <1>13,
       <1>14, <1>15, <1>16 DEF Work

LEMMA InitType == Init => TypeOK
  BY BindingsArePositive, StatusesAre DEF Init, TypeOK, Free, Leased

LEMMA NextType == TypeOK /\ [Next]_vars => TypeOK'
  <1>. SUFFICES ASSUME TypeOK, [Next]_vars PROVE TypeOK'
    OBVIOUS
  <1>. clock \in 0..MaxTime /\ crashes \in 0..MaxCrashes /\ LedgerOK /\ LocalOK
    BY TypeParts
  <1>. SUFFICES clock' \in 0..MaxTime /\ crashes' \in 0..MaxCrashes /\ LedgerOK' /\ LocalOK'
    BY TypeParts DEF TypeOK, LedgerOK, LocalOK, Labels
  <1>1. CASE Tick
    BY <1>1 DEF Tick, ledger, local, LedgerOK, LocalOK
  <1>2. CASE Crash
    <2>1. LedgerOK' /\ clock' = clock /\ crashes' \in 0..MaxCrashes
      BY <1>2 DEF Crash, ledger, LedgerOK
    <2>2. LocalOK'
      BY <1>2, StatusesAre DEF Crash, LocalOK, Labels, Leased
    <2>. QED  BY <2>1, <2>2
  <1>3. CASE \E w \in Workers : MayRun(w) /\ Work(w)
    <2>1. PICK w \in Workers : Work(w)
      BY <1>3
    <2>2. UNCHANGED <<clock, crashes>>
      BY <2>1 DEF Work, Begin, Schedule, NoHorizons, Scanned, ScanHorizon, Invalidate, MarkInvalid,
         Acquire, StartObserving, Count, RecordAttempt, Retry, Observe, Evaluate, Mature, Store,
         Release
    <2>. QED  BY <2>1, <2>2, WorkOK
  <1>4. CASE UNCHANGED vars
    BY <1>4 DEF vars, ledger, local, LedgerOK, LocalOK
  <1>. QED  BY <1>1, <1>2, <1>3, <1>4 DEF Next

(* The ledger and every worker are always in a state of their types, with  *)
(* a worker inside the try block at a horizon that exists (run_due).       *)
THEOREM LedgerIsTyped == Spec => []TypeOK
  BY InitType, NextType, PTL DEF Spec

-----------------------------------------------------------------------------
(* Leases *)

(* A worker inside the try block has its lease as long as that lasts: only *)
(* an expired lease is taken over, and only the owner releases one.        *)
LeaseInv ==
    \A w \in Workers :
        /\ started[w] <= clock
        /\ pc[w] \in Leased =>
              \/ started[w] + LeaseTime <= clock
              \/ leases[slot[w]] = [owner |-> w, until |-> started[w] + LeaseTime]

(* A worker writes to its own variables only. *)
Frame(w) ==
    \A v \in Workers \ {w} : pc'[v] = pc[v] /\ slot'[v] = slot[v] /\ started'[v] = started[v]

LEMMA GotoFrame ==
    ASSUME LocalOK, NEW w \in Workers, NEW label, Goto(w, label), UNCHANGED <<started, slot>>
    PROVE  Frame(w) /\ pc'[w] = label /\ slot'[w] = slot[w] /\ started'[w] = started[w]
  BY DEF LocalOK, Goto, Frame

LEMMA LeaveFrame ==
    ASSUME LocalOK, NEW w \in Workers, Leave(w)
    PROVE  Frame(w) /\ pc'[w] = "idle" /\ started'[w] = 0
  BY DEF LocalOK, Leave, Goto, Frame

LEMMA NextHorizonFrame ==
    ASSUME LocalOK, NEW w \in Workers, NextHorizon(w)
    PROVE  Frame(w) /\ pc'[w] = "scan" /\ started'[w] = started[w]
  BY DEF LocalOK, NextHorizon, Goto, Frame

LEMMA NextBindingFrame ==
    ASSUME LocalOK, NEW w \in Workers, NEW S, NEW statuses, NEW time, NextBinding(w, S, statuses, time)
    PROVE  /\ Frame(w) /\ pc'[w] \in {"idle", "schedule", "scan"}
           /\ started'[w] \in {0, time}
  <1>1. CASE Leave(w)
    BY <1>1, LeaveFrame
  <1>2. CASE ~Leave(w)
    <2>1. PICK b \in S :
            /\ slot' = [slot EXCEPT ![w] = <<b, 1>>]
            /\ started' = [started EXCEPT ![w] = time]
            /\ Goto(w, IF statuses[b] = "committed" THEN "schedule" ELSE "scan")
      BY <1>2 DEF NextBinding
    <2>. QED  BY <2>1 DEF LocalOK, Goto, Frame
  <1>. QED  BY <1>1, <1>2

(* What a step does to leases: the worker stays at a horizon that it has,  *)
(* takes a free lease, or leaves the try block.                            *)
Stays(w) ==
    /\ UNCHANGED leases /\ slot'[w] = slot[w] /\ started'[w] = started[w]
    /\ pc[w] \in Leased

Takes(w) ==
    /\ LeaseIsFree(slot[w], w) /\ slot[w] \in Slots
    /\ leases' = [leases EXCEPT ![slot[w]] = [owner |-> w, until |-> started[w] + LeaseTime]]
    /\ slot'[w] = slot[w] /\ started'[w] = started[w]

Leaves(w) ==
    /\ pc'[w] \notin Leased
    /\ started'[w] \in {0, clock, started[w]}
    /\ \/ UNCHANGED leases
       \/ /\ leases[slot[w]].owner = w /\ slot[w] \in Slots
          /\ leases' = [leases EXCEPT ![slot[w]] = Free]

LEMMA TransitFrame ==
    ASSUME LocalOK, NEW w \in Workers, NEW to, NEW label, Transit(w, to, label),
           UNCHANGED <<leases, started, slot>>, pc[w] \in Leased
    PROVE  Frame(w) /\ Stays(w)
  BY DEF Transit, Goto, LocalOK, Frame, Stays

LEMMA WorkOnLeases ==
    ASSUME TypeOK, NEW w \in Workers, Work(w)
    PROVE  Frame(w) /\ clock' = clock /\ (Stays(w) \/ Takes(w) \/ Leaves(w))
  <1>. LocalOK /\ LedgerOK
    BY TypeParts
  <1>. {"idle", "schedule", "scan", "invalidate", "invalid", "acquire"} \cap Leased = {}
    BY DEF Leased
  <1>1. CASE Begin(w)
    BY <1>1, NextBindingFrame DEF Begin, Leaves, ledger
  <1>2. CASE Schedule(w)
    <2>1. CASE Leave(w)
      BY <1>2, <2>1, LeaveFrame DEF Schedule, Leaves
    <2>2. CASE Goto(w, "scan") /\ UNCHANGED <<started, slot>>
      BY <1>2, <2>2, GotoFrame DEF Schedule, Leaves
    <2>. QED  BY <1>2, <2>1, <2>2 DEF Schedule
  <1>3. CASE NoHorizons(w) \/ MarkInvalid(w)
    <2>1. CASE Leave(w)
      BY <1>3, <2>1, LeaveFrame DEF NoHorizons, MarkInvalid, Leaves
    <2>2. CASE NextBinding(w, todo[w], known[w], started[w])
      BY <1>3, <2>2, NextBindingFrame DEF NoHorizons, MarkInvalid, Leaves
    <2>. QED  BY <1>3, <2>1, <2>2 DEF NoHorizons, MarkInvalid
  <1>4. CASE Scanned(w)
    BY <1>4, NextBindingFrame DEF Scanned, Leaves, ledger
  <1>5. CASE ScanHorizon(w)
    <2>. clock' = clock /\ UNCHANGED leases
      BY <1>5 DEF ScanHorizon, ledger
    <2>1. CASE NextHorizon(w)
      BY <2>1, NextHorizonFrame DEF Leaves
    <2>2. CASE \E label \in {"invalidate", "acquire"} : Goto(w, label) /\ UNCHANGED <<started, slot>>
      BY <2>2, GotoFrame DEF Leaves
    <2>. QED  BY <1>5, <2>1, <2>2 DEF ScanHorizon
  <1>6. CASE Invalidate(w)
    <2>. clock' = clock /\ UNCHANGED leases
      BY <1>6 DEF Invalidate, ledger
    <2>1. CASE NextBinding(w, todo[w], known[w], started[w])
      BY <2>1, NextBindingFrame DEF Leaves
    <2>2. CASE Goto(w, "invalid") /\ UNCHANGED <<started, slot>>
      BY <2>2, GotoFrame DEF Leaves
    <2>. QED  BY <1>6, <2>1, <2>2 DEF Invalidate
  <1>7. CASE Acquire(w)
    <2>. slot[w] \in Slots /\ clock' = clock
      BY <1>7, LeasedSlot DEF Acquire
    <2>1. CASE LeaseIsFree(slot[w], w)
      <3>1. PICK label : Goto(w, label) /\ UNCHANGED <<started, slot>>
        BY <1>7, <2>1 DEF Acquire
      <3>. QED  BY <1>7, <2>1, <3>1, GotoFrame DEF Acquire, Takes
    <2>2. CASE ~LeaseIsFree(slot[w], w)
      BY <1>7, <2>2, NextHorizonFrame DEF Acquire, Leaves
    <2>. QED  BY <2>1, <2>2
  <1>8. CASE StartObserving(w)
    BY <1>8, TransitFrame DEF StartObserving, Leased
  <1>9. CASE Retry(w)
    BY <1>9, TransitFrame DEF Retry, Leased
  <1>10. CASE Store(w)
    BY <1>10, TransitFrame DEF Store, Leased
  <1>11. CASE \/ Count(w) \/ Observe(w) \/ Evaluate(w) \/ Mature(w)
              \/ RecordAttempt(w, "failed") \/ RecordAttempt(w, "observe")
    <2>1. UNCHANGED <<clock, leases, started, slot>> /\ pc[w] \in Leased
      BY <1>11 DEF Count, Observe, Evaluate, Mature, RecordAttempt, Leased, ledger
    <2>2. PICK label : Goto(w, label)
      BY <1>11 DEF Count, Observe, Evaluate, Mature, RecordAttempt
    <2>. QED  BY <2>1, <2>2, GotoFrame DEF Stays
  <1>12. CASE Release(w)
    <2>. pc[w] \in {"continue", "break", "raise"} /\ clock' = clock
      BY <1>12 DEF Release
    <2>. slot[w] \in Slots
      BY LeasedSlot DEF Leased
    <2>1. Frame(w) /\ pc'[w] \notin Leased /\ started'[w] \in {0, started[w]}
      BY <1>12, NextHorizonFrame, NextBindingFrame, LeaveFrame DEF Release
    <2>. QED  BY <1>12, <2>1 DEF Release, Leaves
  <1>. QED
    BY <1>1, <1>2, <1>3, <1>4, <1>5, <1>6, <1>7, <1>8, <1>9, <1>10, <1>11, <1>12 DEF Work

LEMMA NextLease == TypeOK /\ LeaseInv /\ [Next]_vars => LeaseInv'
  <1>. SUFFICES ASSUME TypeOK, LeaseInv, [Next]_vars PROVE LeaseInv'
    OBVIOUS
  <1>. LocalOK /\ LedgerOK /\ clock \in Nat
    BY TypeParts
  <1>1. CASE Tick
    BY <1>1 DEF Tick, ledger, local, LeaseInv, LocalOK
  <1>2. CASE Crash
    BY <1>2 DEF Crash, ledger, LeaseInv, Leased
  <1>3. CASE \E w \in Workers : MayRun(w) /\ Work(w)
    <2>1. PICK w \in Workers : Work(w)
      BY <1>3
    <2>. Frame(w) /\ clock' = clock
      BY <2>1, WorkOnLeases
    <2>. SUFFICES ASSUME NEW v \in Workers
                  PROVE  /\ started'[v] <= clock
                         /\ pc'[v] \in Leased =>
                              \/ started'[v] + LeaseTime <= clock
                              \/ leases'[slot'[v]] = [owner |-> v, until |-> started'[v] + LeaseTime]
      BY DEF LeaseInv
    <2>. started[v] \in Nat /\ started[w] \in Nat
      BY DEF LocalOK
    <2>. /\ started[v] <= clock /\ started[w] <= clock
         /\ pc[v] \in Leased =>
              \/ started[v] + LeaseTime <= clock
              \/ leases[slot[v]] = [owner |-> v, until |-> started[v] + LeaseTime]
      BY DEF LeaseInv
    <2>. v # w => pc'[v] = pc[v] /\ slot'[v] = slot[v] /\ started'[v] = started[v]
      BY DEF Frame
    <2>. v # "nobody"
      OBVIOUS
    <2>2. CASE Stays(w)
      BY <2>2 DEF Stays
    <2>3. CASE Takes(w)
      <3>1. CASE v = w
        BY <2>3, <3>1 DEF Takes, LedgerOK
      <3>2. CASE v # w /\ slot[v] # slot[w]
        BY <2>3, <3>2 DEF Takes, LedgerOK
      <3>3. CASE v # w /\ slot[v] = slot[w]
        BY <2>3, <3>3 DEF Takes, LeaseIsFree
      <3>. QED  BY <3>1, <3>2, <3>3
    <2>4. CASE Leaves(w)
      <3>1. CASE v = w
        BY <2>4, <3>1 DEF Leaves
      <3>2. CASE v # w /\ slot[v] # slot[w]
        <4>1. slot[v] \in Slots => leases'[slot[v]] = leases[slot[v]]
          BY <2>4, <3>2 DEF Leaves, LedgerOK
        <4>2. started'[v] = started[v] /\ slot'[v] = slot[v] /\ pc'[v] = pc[v]
          BY <3>2
        <4>. QED  BY <4>1, <4>2, LeasedSlot
      <3>3. CASE v # w /\ slot[v] = slot[w]
        BY <2>4, <3>3 DEF Leaves
      <3>. QED  BY <3>1, <3>2, <3>3
    <2>. QED  BY <2>1, <2>2, <2>3, <2>4, WorkOnLeases
  <1>4. CASE UNCHANGED vars
    BY <1>4 DEF vars, ledger, local, LeaseInv
  <1>. QED  BY <1>1, <1>2, <1>3, <1>4 DEF Next

(* Whatever the number of workers, two of them are at the probe of one     *)
(* horizon only when the lease of one has run out (acquire_evidence_lease, *)
(* release_evidence_lease).                                                *)
THEOREM LeasesKeepApart == Spec => []LeaseIsExclusive
  <1>1. Init => LeaseInv
    BY DEF Init, LeaseInv, Leased
  <1>2. TypeOK /\ LeaseInv => LeaseIsExclusive
    <2>. SUFFICES ASSUME TypeOK, LeaseInv, NEW v \in Workers, NEW w \in Workers,
                         v # w, pc[v] \in Leased, pc[w] \in Leased, slot[v] = slot[w]
                  PROVE  \E u \in {v, w} : started[u] + LeaseTime <= clock
      BY DEF LeaseIsExclusive
    <2>1. started[v] + LeaseTime <= clock \/ leases[slot[v]].owner = v
      <3>1. \/ started[v] + LeaseTime <= clock
            \/ leases[slot[v]] = [owner |-> v, until |-> started[v] + LeaseTime]
        BY DEF LeaseInv
      <3>. QED  BY <3>1
    <2>2. started[w] + LeaseTime <= clock \/ leases[slot[w]].owner = w
      <3>1. \/ started[w] + LeaseTime <= clock
            \/ leases[slot[w]] = [owner |-> w, until |-> started[w] + LeaseTime]
        BY DEF LeaseInv
      <3>. QED  BY <3>1
    <2>. QED  BY <2>1, <2>2
  <1>. QED  BY <1>1, <1>2, InitType, NextType, NextLease, PTL DEF Spec
-----------------------------------------------------------------------------
(* Evidence *)

(* What a step does to attempts, observations and results. *)
Elsewhere == {"idle", "schedule", "scan", "invalidate", "invalid",
              "partially_matured", "continue", "break", "raise"}

TurnsAway(w) ==
    /\ UNCHANGED <<attempts, observed, results>>
    /\ pc[w] # "evaluate" /\ pc'[w] \in Elsewhere

Approaches(w) ==
    /\ UNCHANGED <<attempts, observed, results>> /\ slot'[w] = slot[w]
    /\ pc'[w] \in {"acquire", "start", "count"}
    /\ \/ pc[w] = "scan" /\ slot[w] \notin observed
       \/ pc[w] \in {"acquire", "start"}

Counts(w) ==
    /\ UNCHANGED <<attempts, observed, results>> /\ slot'[w] = slot[w]
    /\ pc[w] = "count" /\ pc'[w] = "probing" /\ attempt'[w] = attempts[slot[w]] + 1

Records(w) ==
    /\ UNCHANGED <<observed, results>> /\ slot'[w] = slot[w] /\ attempt'[w] = attempt[w]
    /\ attempts' = [attempts EXCEPT ![slot[w]] = attempt[w]] /\ attempt[w] > attempts[slot[w]]
    /\ pc[w] = "probing" /\ pc'[w] \in {"failed", "observe"}

Observes(w) ==
    /\ UNCHANGED <<attempts, results>> /\ slot'[w] = slot[w]
    /\ observed' = observed \cup {slot[w]}
    /\ pc[w] = "observe" /\ pc'[w] = "evaluate"

Evaluates(w) ==
    /\ UNCHANGED <<attempts, observed>> /\ slot'[w] = slot[w]
    /\ results' = [results EXCEPT ![slot[w]] = @ + 1]
    /\ pc[w] = "evaluate" /\ pc'[w] = "mature"

Matures(w) ==
    /\ UNCHANGED <<attempts, observed, results>> /\ slot'[w] = slot[w]
    /\ Lifecycle!SlotsOf(At(w)) \subseteq observed
    /\ pc[w] = "mature" /\ pc'[w] = "evaluated"

EvidenceStep(w) ==
    \/ TurnsAway(w) \/ Approaches(w) \/ Counts(w) \/ Records(w)
    \/ Observes(w) \/ Evaluates(w) \/ Matures(w)

(* What it does to the statuses. *)
StatusStep(w) ==
    \/ UNCHANGED status
    \/ \E b \in Bindings, to \in Statuses \ {"evaluated"} : SetStatus(b, to)
    \/ pc[w] = "evaluated" /\ SetStatus(At(w), "evaluated")

LEMMA TransitLabel ==
    ASSUME LocalOK, NEW w \in Workers, NEW to, NEW label, Transit(w, to, label)
    PROVE  pc'[w] \in {label, "raise"} /\ (UNCHANGED status \/ SetStatus(At(w), to))
  BY DEF Transit, Goto, LocalOK

LEMMA WorkOnEvidence ==
    ASSUME TypeOK, NEW w \in Workers, Work(w)
    PROVE  EvidenceStep(w) /\ StatusStep(w)
  <1>. LocalOK /\ LedgerOK
    BY TypeParts
  <1>. {"invalid", "scheduled", "observing", "retrying", "partially_matured"} \subseteq Statuses \ {"evaluated"}
    BY StatusesAre
  <1>1. CASE Begin(w)
    BY <1>1, NextBindingFrame DEF Begin, ledger, EvidenceStep, TurnsAway, Elsewhere, StatusStep
  <1>2. CASE Schedule(w)
    <2>1. pc'[w] \in {"idle", "scan"}
      BY <1>2, LeaveFrame DEF Schedule, Goto, LocalOK
    <2>2. StatusStep(w)
      BY <1>2, AtOK DEF Schedule, StatusStep
    <2>. QED  BY <1>2, <2>1, <2>2 DEF Schedule, EvidenceStep, TurnsAway, Elsewhere
  <1>3. CASE NoHorizons(w) \/ MarkInvalid(w)
    <2>1. pc'[w] \in {"idle", "schedule", "scan"}
      BY <1>3, LeaveFrame, NextBindingFrame DEF NoHorizons, MarkInvalid
    <2>2. StatusStep(w)
      BY <1>3, AtOK DEF NoHorizons, MarkInvalid, StatusStep
    <2>. QED  BY <1>3, <2>1, <2>2 DEF NoHorizons, MarkInvalid, EvidenceStep, TurnsAway, Elsewhere
  <1>4. CASE Scanned(w)
    BY <1>4, NextBindingFrame DEF Scanned, ledger, EvidenceStep, TurnsAway, Elsewhere, StatusStep
  <1>5. CASE ScanHorizon(w)
    <2>. pc[w] = "scan" /\ UNCHANGED ledger
      BY <1>5 DEF ScanHorizon
    <2>1. CASE NextHorizon(w)
      BY <2>1, NextHorizonFrame DEF ledger, EvidenceStep, TurnsAway, Elsewhere, StatusStep
    <2>2. CASE Goto(w, "invalidate")
      BY <2>2 DEF Goto, LocalOK, ledger, EvidenceStep, TurnsAway, Elsewhere, StatusStep
    <2>3. CASE Goto(w, "acquire") /\ UNCHANGED slot /\ slot[w] \notin observed
      BY <2>3 DEF Goto, LocalOK, ledger, EvidenceStep, Approaches, StatusStep
    <2>. QED  BY <1>5, <2>1, <2>2, <2>3 DEF ScanHorizon
  <1>6. CASE Invalidate(w)
    <2>1. pc'[w] \in {"invalid", "idle", "schedule", "scan"}
      BY <1>6, NextBindingFrame DEF Invalidate, Goto, LocalOK
    <2>. QED  BY <1>6, <2>1 DEF Invalidate, ledger, EvidenceStep, TurnsAway, Elsewhere, StatusStep
  <1>7. CASE Acquire(w)
    <2>1. CASE LeaseIsFree(slot[w], w)
      <3>1. pc'[w] \in {"start", "count"} /\ UNCHANGED slot
        BY <1>7, <2>1 DEF Acquire, Goto, LocalOK
      <3>. QED  BY <1>7, <3>1 DEF Acquire, EvidenceStep, Approaches, StatusStep
    <2>2. CASE ~LeaseIsFree(slot[w], w)
      BY <1>7, <2>2, NextHorizonFrame DEF Acquire, EvidenceStep, TurnsAway, Elsewhere, StatusStep
    <2>. QED  BY <2>1, <2>2
  <1>8. CASE StartObserving(w)
    <2>1. pc'[w] \in {"count", "raise"} /\ StatusStep(w)
      BY <1>8, TransitLabel, AtOK DEF StartObserving, StatusStep
    <2>. QED  BY <1>8, <2>1 DEF StartObserving, EvidenceStep, Approaches, TurnsAway, Elsewhere
  <1>9. CASE Count(w)
    BY <1>9 DEF Count, Goto, LocalOK, ledger, EvidenceStep, Counts, StatusStep
  <1>10. CASE RecordAttempt(w, "failed") \/ RecordAttempt(w, "observe")
    <2>1. CASE attempt[w] > attempts[slot[w]]
      <3>1. pc'[w] \in {"failed", "observe"} /\ pc[w] = "probing"
        BY <1>10, <2>1 DEF RecordAttempt, Goto, LocalOK
      <3>. QED  BY <1>10, <2>1, <3>1 DEF RecordAttempt, EvidenceStep, Records, StatusStep
    <2>2. CASE ~(attempt[w] > attempts[slot[w]])
      <3>1. pc'[w] = "raise" /\ pc[w] = "probing"
        BY <1>10, <2>2 DEF RecordAttempt, Goto, LocalOK
      <3>. QED  BY <1>10, <2>2, <3>1 DEF RecordAttempt, EvidenceStep, TurnsAway, Elsewhere, StatusStep
    <2>. QED  BY <2>1, <2>2
  <1>11. CASE Retry(w)
    <2>1. PICK to \in {"invalid", "retrying"} : Transit(w, to, "break")
      BY <1>11 DEF Retry
    <2>2. pc'[w] \in {"break", "raise"} /\ StatusStep(w)
      BY <1>11, <2>1, TransitLabel, AtOK DEF Retry, StatusStep
    <2>. QED  BY <1>11, <2>2 DEF Retry, EvidenceStep, TurnsAway, Elsewhere
  <1>12. CASE Observe(w)
    BY <1>12 DEF Observe, Goto, LocalOK, EvidenceStep, Observes, StatusStep
  <1>13. CASE Evaluate(w)
    BY <1>13 DEF Evaluate, Goto, LocalOK, EvidenceStep, Evaluates, StatusStep
  <1>14. CASE Mature(w)
    <2>1. CASE Lifecycle!SlotsOf(At(w)) \subseteq observed
      BY <1>14, <2>1 DEF Mature, Goto, LocalOK, ledger, EvidenceStep, Matures, StatusStep
    <2>2. CASE ~(Lifecycle!SlotsOf(At(w)) \subseteq observed)
      BY <1>14, <2>2 DEF Mature, Goto, LocalOK, ledger, EvidenceStep, TurnsAway, Elsewhere, StatusStep
    <2>. QED  BY <2>1, <2>2
  <1>15. CASE Store(w)
    <2>1. PICK label \in {"break", "continue"} : Transit(w, pc[w], label)
      BY <1>15 DEF Store
    <2>2. pc'[w] \in {"break", "continue", "raise"} /\ StatusStep(w)
      BY <1>15, <2>1, TransitLabel, AtOK DEF Store, StatusStep
    <2>. QED  BY <1>15, <2>2 DEF Store, EvidenceStep, TurnsAway, Elsewhere
  <1>16. CASE Release(w)
    <2>1. pc'[w] \in {"idle", "schedule", "scan"} /\ pc[w] # "evaluate"
      BY <1>16, NextHorizonFrame, NextBindingFrame, LeaveFrame DEF Release
    <2>. QED  BY <1>16, <2>1 DEF Release, EvidenceStep, TurnsAway, Elsewhere, StatusStep
  <1>. QED
    BY <1>1, <1>2, <1>3, <1>4, <1>5, <1>6, <1>7, <1>8, <1>9, <1>10, <1>11, <1>12, <1>13,
       <1>14, <1>15, <1>16 DEF Work

LEMMA AttemptFrame ==
    ASSUME LocalOK, NEW w \in Workers, Work(w)
    PROVE  \A v \in Workers \ {w} : attempt'[v] = attempt[v]
  <1>1. ASSUME NEW S, NEW statuses, NEW time, NextBinding(w, S, statuses, time)
        PROVE  \E n : attempt' = [attempt EXCEPT ![w] = n]
    BY <1>1 DEF NextBinding, Leave
  <1>2. Leave(w) \/ NextHorizon(w) \/ Count(w) => \E n : attempt' = [attempt EXCEPT ![w] = n]
    BY DEF Leave, NextHorizon, Count
  <1>3. (\E n : attempt' = [attempt EXCEPT ![w] = n]) \/ UNCHANGED attempt
    BY <1>1, <1>2 DEF Work, Begin, Schedule, NoHorizons, Scanned, ScanHorizon, Invalidate, MarkInvalid,
       Acquire, StartObserving, RecordAttempt, Retry, Observe, Evaluate, Mature, Store, Release
  <1>. QED  BY <1>3 DEF LocalOK

(* A binding is evaluated after the last of its observations, and every    *)
(* observation is evaluated by the worker that made it.                    *)
EvaluatedInv ==
    /\ \A s \in observed : results[s] > 0 \/ \E w \in Workers : pc[w] = "evaluate" /\ slot[w] = s
    /\ \A b \in Bindings : status[b] = "evaluated" => Lifecycle!SlotsOf(b) \subseteq observed
    /\ \A w \in Workers : pc[w] = "evaluated" => Lifecycle!SlotsOf(At(w)) \subseteq observed

LEMMA WorkOnEvaluated ==
    ASSUME TypeOK, EvaluatedInv, NEW w \in Workers, Work(w)
    PROVE  EvaluatedInv'
  <1>. /\ LocalOK /\ LedgerOK /\ EvidenceStep(w) /\ StatusStep(w) /\ Frame(w)
       /\ \A s \in Slots : results[s] \in Nat
    BY TypeParts, WorkOnEvidence, WorkOnLeases DEF LedgerOK
  <1>1. observed \subseteq observed'
    BY DEF EvidenceStep, TurnsAway, Approaches, Counts, Records, Observes, Evaluates, Matures
  <1>2. \A s \in observed' : results'[s] > 0 \/ \E v \in Workers : pc'[v] = "evaluate" /\ slot'[v] = s
    <2>. SUFFICES ASSUME NEW s \in observed'
                  PROVE  results'[s] > 0 \/ \E v \in Workers : pc'[v] = "evaluate" /\ slot'[v] = s
      OBVIOUS
    <2>1. CASE Observes(w)
      <3>1. CASE s = slot[w]
        BY <2>1, <3>1 DEF Observes
      <3>2. CASE s # slot[w]
        <4>1. s \in observed /\ UNCHANGED results /\ pc[w] # "evaluate"
          BY <2>1, <3>2 DEF Observes
        <4>2. CASE results[s] > 0
          BY <4>1, <4>2
        <4>3. CASE \E v \in Workers : pc[v] = "evaluate" /\ slot[v] = s
          BY <4>1, <4>3 DEF Frame
        <4>. QED  BY <4>1, <4>2, <4>3 DEF EvaluatedInv
      <3>. QED  BY <3>1, <3>2
    <2>2. CASE Evaluates(w)
      <3>1. s \in observed /\ s \in Slots /\ slot[w] \in Slots /\ pc[w] = "evaluate"
            /\ results' = [results EXCEPT ![slot[w]] = @ + 1]
        BY <2>2, LeasedSlot DEF Evaluates, LedgerOK, Leased
      <3>2. CASE s = slot[w]
        BY <3>1, <3>2 DEF LedgerOK
      <3>3. CASE s # slot[w]
        <4>1. results'[s] = results[s]
          BY <3>1, <3>3 DEF LedgerOK
        <4>2. CASE results[s] > 0
          BY <4>1, <4>2
        <4>3. CASE \E v \in Workers : pc[v] = "evaluate" /\ slot[v] = s
          BY <3>3, <4>3 DEF Frame
        <4>. QED  BY <3>1, <4>2, <4>3 DEF EvaluatedInv
      <3>. QED  BY <3>2, <3>3
    <2>3. CASE TurnsAway(w) \/ Approaches(w) \/ Counts(w) \/ Records(w) \/ Matures(w)
      <3>1. s \in observed /\ UNCHANGED results /\ pc[w] # "evaluate"
        BY <2>3 DEF TurnsAway, Approaches, Counts, Records, Matures
      <3>2. CASE results[s] > 0
        BY <3>1, <3>2
      <3>3. CASE \E v \in Workers : pc[v] = "evaluate" /\ slot[v] = s
        BY <3>1, <3>3 DEF Frame
      <3>. QED  BY <3>1, <3>2, <3>3 DEF EvaluatedInv
    <2>. QED  BY <2>1, <2>2, <2>3 DEF EvidenceStep
  <1>3. ASSUME NEW b \in Bindings, status'[b] = "evaluated"
        PROVE  Lifecycle!SlotsOf(b) \subseteq observed
    <2>1. CASE UNCHANGED status
      BY <1>3, <2>1 DEF EvaluatedInv
    <2>2. CASE \E c \in Bindings, to \in Statuses \ {"evaluated"} : SetStatus(c, to)
      <3>1. status[b] = "evaluated"
        BY <1>3, <2>2 DEF SetStatus, LedgerOK
      <3>. QED  BY <3>1 DEF EvaluatedInv
    <2>3. CASE pc[w] = "evaluated" /\ SetStatus(At(w), "evaluated")
      <3>1. b = At(w) \/ status[b] = "evaluated"
        BY <1>3, <2>3 DEF SetStatus, LedgerOK
      <3>. QED  BY <2>3, <3>1 DEF EvaluatedInv
    <2>. QED  BY <2>1, <2>2, <2>3 DEF StatusStep
  <1>4. ASSUME NEW v \in Workers, pc'[v] = "evaluated"
        PROVE  Lifecycle!SlotsOf(At(v)') \subseteq observed
    <2>1. CASE v # w
      BY <1>4, <2>1 DEF Frame, EvaluatedInv, At
    <2>2. CASE v = w
      <3>1. Matures(w)
        BY <1>4, <2>2 DEF EvidenceStep, TurnsAway, Elsewhere, Approaches, Counts, Records, Observes, Evaluates
      <3>. QED  BY <2>2, <3>1 DEF Matures, At
    <2>. QED  BY <2>1, <2>2
  <1>5. \A b : Lifecycle!SlotsOf(b)' = Lifecycle!SlotsOf(b)
    BY DEF Lifecycle!SlotsOf
  <1>. QED  BY <1>1, <1>2, <1>3, <1>4, <1>5 DEF EvaluatedInv, At

(* However many workers there are, and whatever their probes come to, as   *)
(* long as none dies: a binding that is evaluated has the results of all   *)
(* its horizons (the order of observation, results and status).            *)
THEOREM EvaluatedBindingsHaveResults ==
    ASSUME MaxCrashes = 0
    PROVE  Spec => []EvaluatedHasResults
  <1>1. Init => EvaluatedInv
    BY DEF Init, EvaluatedInv
  <1>2. TypeOK /\ EvaluatedInv => EvaluatedHasResults
    BY TypeParts DEF EvaluatedInv, EvaluatedHasResults
  <1>3. TypeOK /\ EvaluatedInv /\ [Next]_vars => EvaluatedInv'
    <2>. SUFFICES ASSUME TypeOK, EvaluatedInv, [Next]_vars PROVE EvaluatedInv'
      OBVIOUS
    <2>1. CASE Tick \/ UNCHANGED vars
      BY <2>1 DEF Tick, vars, ledger, local, EvaluatedInv, Lifecycle!SlotsOf, At
    <2>2. CASE Crash
      BY <2>2 DEF Crash, TypeOK
    <2>3. CASE \E w \in Workers : MayRun(w) /\ Work(w)
      BY <2>3, WorkOnEvaluated
    <2>. QED  BY <2>1, <2>2, <2>3 DEF Next
  <1>. QED  BY <1>1, <1>2, <1>3, InitType, NextType, PTL DEF Spec

-----------------------------------------------------------------------------
(* One event loop *)

(* Workers that take turns: one at most is between two awaits. *)
OneAtATime == Cooperative \/ \A v, w \in Workers : v = w

(* An attempt that still counts is at a horizon without observation: the   *)
(* others at that horizon have the numbers of attempts that were recorded. *)
CountsStill(w) ==
    /\ pc[w] = "probing" =>
          /\ attempt[w] <= attempts[slot[w]] + 1
          /\ slot[w] \in observed => attempt[w] <= attempts[slot[w]]
    /\ pc[w] \in {"acquire", "start", "count", "observe"} => slot[w] \notin observed
    /\ pc[w] = "observe" => \A v \in Workers :
          pc[v] = "probing" /\ slot[v] = slot[w] => attempt[v] <= attempts[slot[w]]
    /\ pc[w] = "evaluate" => slot[w] \in observed /\ results[slot[w]] = 0

LoopInv ==
    /\ \A v, w \in Workers : v # w => pc[v] \in {"idle", "probing"} \/ pc[w] \in {"idle", "probing"}
    /\ \A w \in Workers : CountsStill(w)
    /\ \A s \in Slots : results[s] <= 1 /\ (s \notin observed => results[s] = 0)

LEMMA WorkOnTheLoop ==
    ASSUME TypeOK, LoopInv, NEW w \in Workers, Work(w),
           \A v \in Workers \ {w} : pc[v] \in {"idle", "probing"}
    PROVE  LoopInv'
  <1>. /\ LocalOK /\ LedgerOK /\ EvidenceStep(w) /\ Frame(w)
       /\ \A v \in Workers \ {w} : attempt'[v] = attempt[v]
       /\ \A v \in Workers : attempt[v] \in Nat
       /\ \A s \in Slots : results[s] \in Nat /\ attempts[s] \in Nat
    BY TypeParts, WorkOnEvidence, WorkOnLeases, AttemptFrame DEF LedgerOK, LocalOK
  <1>a. CountsStill(w) /\ \A v \in Workers \ {w} : CountsStill(v)
    BY DEF LoopInv
  <1>b. \A v \in Workers \ {w} : pc'[v] = pc[v] /\ slot'[v] = slot[v] /\ pc[v] \in {"idle", "probing"}
    BY DEF Frame
  <1>c. \A v \in Workers : pc[v] = "probing" => slot[v] \in Slots
    BY LeasedSlot DEF Leased
  <1>1. \A v, u \in Workers : v # u => pc'[v] \in {"idle", "probing"} \/ pc'[u] \in {"idle", "probing"}
    BY <1>b
  <1>2. CASE TurnsAway(w)
    <2>1. CountsStill(w)'
      BY <1>2 DEF TurnsAway, Elsewhere, CountsStill
    <2>2. \A v \in Workers \ {w} : CountsStill(v)'
      BY <1>a, <1>b, <1>2 DEF TurnsAway, CountsStill
    <2>. QED  BY <1>1, <1>2, <2>1, <2>2 DEF LoopInv, TurnsAway
  <1>3. CASE Approaches(w)
    <2>1. CountsStill(w)'
      BY <1>a, <1>3 DEF Approaches, CountsStill
    <2>2. \A v \in Workers \ {w} : CountsStill(v)'
      BY <1>a, <1>b, <1>3 DEF Approaches, CountsStill
    <2>. QED  BY <1>1, <1>3, <2>1, <2>2 DEF LoopInv, Approaches
  <1>4. CASE Counts(w)
    <2>0. slot[w] \in Slots
      BY <1>4, LeasedSlot DEF Counts, Leased
    <2>1. CountsStill(w)'
      BY <1>a, <1>4, <2>0 DEF Counts, CountsStill
    <2>2. \A v \in Workers \ {w} : CountsStill(v)'
      BY <1>a, <1>b, <1>4 DEF Counts, CountsStill
    <2>. QED  BY <1>1, <1>4, <2>1, <2>2 DEF LoopInv, Counts
  <1>5. CASE Records(w)
    <2>0. /\ slot[w] \in Slots /\ slot[w] \notin observed
          /\ attempts'[slot[w]] = attempt[w] /\ attempt[w] = attempts[slot[w]] + 1
          /\ \A s \in Slots \ {slot[w]} : attempts'[s] = attempts[s]
      <3>1. slot[w] \in Slots /\ attempt[w] > attempts[slot[w]]
            /\ attempts' = [attempts EXCEPT ![slot[w]] = attempt[w]]
        BY <1>5, <1>c DEF Records
      <3>2. attempt[w] <= attempts[slot[w]] + 1 /\ (slot[w] \in observed => attempt[w] <= attempts[slot[w]])
        BY <1>a, <1>5 DEF Records, CountsStill
      <3>3. attempts'[slot[w]] = attempt[w] /\ \A s \in Slots \ {slot[w]} : attempts'[s] = attempts[s]
        BY <3>1 DEF LedgerOK
      <3>. QED  BY <3>1, <3>2, <3>3
    <2>1. \A v \in Workers \ {w} : pc[v] = "probing" =>
             /\ attempt[v] <= attempts'[slot[v]] + 1
             /\ slot[v] = slot[w] => attempt[v] <= attempts'[slot[w]]
             /\ slot[v] \in observed => attempt[v] <= attempts'[slot[v]]
      <3>. SUFFICES ASSUME NEW v \in Workers \ {w}, pc[v] = "probing"
                    PROVE  /\ attempt[v] <= attempts'[slot[v]] + 1
                           /\ slot[v] = slot[w] => attempt[v] <= attempts'[slot[w]]
                           /\ slot[v] \in observed => attempt[v] <= attempts'[slot[v]]
        OBVIOUS
      <3>1. /\ attempt[v] <= attempts[slot[v]] + 1 /\ slot[v] \in Slots
            /\ slot[v] \in observed => attempt[v] <= attempts[slot[v]]
        BY <1>a, <1>c DEF CountsStill
      <3>2. attempts[slot[v]] <= attempts'[slot[v]]
        <4>1. attempts[slot[v]] \in Nat
          BY <3>1
        <4>2. CASE slot[v] = slot[w]
          BY <2>0, <4>1, <4>2
        <4>3. CASE slot[v] # slot[w]
          BY <2>0, <3>1, <4>1, <4>3
        <4>. QED  BY <4>2, <4>3
      <3>. QED  BY <2>0, <3>1, <3>2
    <2>2. CountsStill(w)'
      <3>1. pc'[w] # "probing" /\ slot'[w] = slot[w] /\ slot'[w] \notin observed'
            /\ pc'[w] \in {"failed", "observe"}
        BY <1>5, <2>0 DEF Records
      <3>2. \A v \in Workers : pc'[v] = "probing" /\ slot'[v] = slot'[w] => attempt'[v] <= attempts'[slot'[w]]
        BY <1>b, <2>1, <3>1
      <3>. QED  BY <3>1, <3>2 DEF CountsStill
    <2>3. \A v \in Workers \ {w} : CountsStill(v)'
      BY <1>b, <1>5, <2>1 DEF Records, CountsStill
    <2>. QED  BY <1>1, <1>5, <2>2, <2>3 DEF LoopInv, Records
  <1>6. CASE Observes(w)
    <2>0. slot[w] \in Slots /\ slot[w] \notin observed /\ results[slot[w]] = 0
      <3>1. slot[w] \in Slots /\ slot[w] \notin observed
        BY <1>a, <1>6, LeasedSlot DEF Observes, CountsStill, Leased
      <3>. QED  BY <3>1 DEF LoopInv
    <2>1. CountsStill(w)'
      BY <1>6, <2>0 DEF Observes, CountsStill
    <2>2. \A v \in Workers \ {w} : CountsStill(v)'
      BY <1>a, <1>b, <1>6 DEF Observes, CountsStill
    <2>. QED  BY <1>1, <1>6, <2>1, <2>2 DEF LoopInv, Observes
  <1>7. CASE Evaluates(w)
    <2>0. /\ slot[w] \in Slots /\ results'[slot[w]] = 1
          /\ \A s \in Slots \ {slot[w]} : results'[s] = results[s]
      <3>1. slot[w] \in Slots /\ results[slot[w]] = 0
        BY <1>a, <1>7, LeasedSlot DEF Evaluates, CountsStill, Leased
      <3>. QED  BY <1>7, <3>1 DEF Evaluates, LedgerOK
    <2>1. CountsStill(w)'
      BY <1>7 DEF Evaluates, CountsStill
    <2>2. \A v \in Workers \ {w} : CountsStill(v)'
      BY <1>a, <1>b, <1>7 DEF Evaluates, CountsStill
    <2>3. slot[w] \in observed
      BY <1>a, <1>7 DEF Evaluates, CountsStill
    <2>. QED  BY <1>1, <1>7, <2>0, <2>1, <2>2, <2>3 DEF LoopInv, Evaluates
  <1>8. CASE Matures(w)
    <2>1. CountsStill(w)'
      BY <1>8 DEF Matures, CountsStill
    <2>2. \A v \in Workers \ {w} : CountsStill(v)'
      BY <1>a, <1>b, <1>8 DEF Matures, CountsStill
    <2>. QED  BY <1>1, <1>8, <2>1, <2>2 DEF LoopInv, Matures
  <1>. QED  BY <1>2, <1>3, <1>4, <1>5, <1>6, <1>7, <1>8 DEF EvidenceStep

(* A result counts once: tasks of one loop may overlap at their probes,    *)
(* leases may run out and the process may die, yet the results of a        *)
(* horizon are recorded at most once (run_due on one event loop, or with a *)
(* single caller).                                                         *)
THEOREM LoopCountsResultsOnce ==
    ASSUME OneAtATime
    PROVE  Spec => []ResultsCountOnce
  <1>1. Init => LoopInv
    BY DEF Init, LoopInv, CountsStill
  <1>2. LoopInv => ResultsCountOnce
    BY DEF LoopInv, ResultsCountOnce
  <1>3. TypeOK /\ LoopInv /\ [Next]_vars => LoopInv'
    <2>. SUFFICES ASSUME TypeOK, LoopInv, [Next]_vars PROVE LoopInv'
      OBVIOUS
    <2>1. CASE Tick \/ UNCHANGED vars
      BY <2>1 DEF Tick, vars, ledger, local, LoopInv, CountsStill
    <2>2. CASE Crash
      BY <2>2 DEF Crash, ledger, LoopInv, CountsStill
    <2>3. CASE \E w \in Workers : MayRun(w) /\ Work(w)
      <3>1. PICK w \in Workers : MayRun(w) /\ Work(w)
        BY <2>3
      <3>2. \A v \in Workers \ {w} : pc[v] \in {"idle", "probing"}
        BY <3>1 DEF MayRun, OneAtATime
      <3>. QED  BY <3>1, <3>2, WorkOnTheLoop
    <2>. QED  BY <2>1, <2>2, <2>3 DEF Next
  <1>. QED  BY <1>1, <1>2, <1>3, InitType, NextType, PTL DEF Spec
=============================================================================

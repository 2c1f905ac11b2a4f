--------------------------- MODULE EvidenceProbes ---------------------------
(***************************************************************************)
(* Delayed evidence: ProbeScheduler.run_due (core/probes.py) on the ledger *)
(* of bindings, leases, attempts, observations and results in SQLite.      *)
(*                                                                         *)
(* Workers share one MemoryStore, whose lock makes each of its calls       *)
(* atomic.  Tasks of one event loop take turns while a probe is awaited;   *)
(* threads also do between two calls of the store.  A worker lists the     *)
(* bindings once and then works from its copy of their statuses, with the  *)
(* time at which it started.                                               *)
(*                                                                         *)
(* Plan[b] is the sequence of horizons of binding b, bindings being        *)
(* numbered in creation order.  A horizon is broken when its due_at does   *)
(* not parse, and nameless when it lacks its id or the id or revision of   *)
(* its probe or its evaluator.                                             *)
(***************************************************************************)
EXTENDS Integers, Sequences, FiniteSets

CONSTANTS
    Workers,
    Plan,
    Limit,          \* bindings a call lists
    LeaseTime,      \* lease_seconds
    Cooperative,    \* whether the workers are tasks of one event loop
    MaxTime,        \* bound of the model: the clock stops here
    MaxCrashes      \* bound of the model: how often their process may die

Horizon == [due : Nat, broken : BOOLEAN, nameless : BOOLEAN, max : Nat \ {0}]

ASSUME PlanAssumption == Plan \in Seq(Seq(Horizon))

ASSUME WorkersAssumption == "nobody" \notin Workers

ASSUME BoundsAssumption ==
    /\ Limit \in Nat \ {0} /\ LeaseTime \in Nat \ {0}
    /\ MaxTime \in Nat /\ MaxCrashes \in Nat
    /\ Cooperative \in BOOLEAN

Bindings == DOMAIN Plan

Slots == UNION {{b} \X DOMAIN Plan[b] : b \in Bindings}

VARIABLES
    clock,
    crashes,    \* the crashes so far
    status,     \* evidence_bindings.status
    attempts,   \* number of probe_attempts rows of a slot
    observed,   \* the slots that have a row in evidence_observations
    results,    \* how often the results of a slot were recorded
    leases,     \* evidence_horizon_leases
    pc,         \* where each worker is
    started,    \* the time it started
    known,      \* the statuses it knows
    todo,       \* the bindings it has still to scan
    slot,       \* the binding it is at and the number of the horizon
    attempt     \* the number of its attempt

ledger == <<status, attempts, observed, results, leases>>
local == <<pc, started, known, todo, slot, attempt>>
vars == <<clock, crashes, ledger, local>>

Lifecycle ==
    INSTANCE BindingLifecycle WITH status <- status, observed <- observed, Slots <- Slots

Statuses == Lifecycle!BindingStatuses

(* The statuses that run_due asks for. *)
Listable == {"committed", "scheduled", "observing", "retrying", "partially_matured"}

Free == [owner |-> "nobody", until |-> 0]

(* A worker in one of these is inside the try block that the lease covers. *)
Leased == {"start", "count", "probing", "failed", "observe", "evaluate", "mature",
           "partially_matured", "evaluated", "continue", "break", "raise"}

TypeOK ==
    /\ clock \in 0..MaxTime /\ crashes \in 0..MaxCrashes
    /\ status \in [Bindings -> Statuses]
    /\ attempts \in [Slots -> Nat]
    /\ observed \in SUBSET Slots
    /\ results \in [Slots -> Nat]
    /\ leases \in [Slots -> [owner : Workers \cup {"nobody"}, until : Nat]]
    /\ pc \in [Workers -> {"idle", "schedule", "scan", "invalidate", "invalid", "acquire"} \cup Leased]
    /\ started \in [Workers -> 0..MaxTime]
    /\ known \in [Workers -> [Bindings -> Statuses]]
    /\ todo \in [Workers -> SUBSET Bindings]
    /\ slot \in [Workers -> (Bindings \cup {0}) \X Nat]
    /\ attempt \in [Workers -> Nat]
    /\ \A w \in Workers : pc[w] # "idle" => slot[w][1] \in Bindings
    /\ \A w \in Workers : pc[w] \in {"invalidate", "invalid", "acquire"} \cup Leased => slot[w] \in Slots

Init ==
    /\ clock = 0 /\ crashes = 0
    /\ status = [b \in Bindings |-> "committed"]
    /\ attempts = [s \in Slots |-> 0]
    /\ observed = {}
    /\ results = [s \in Slots |-> 0]
    /\ leases = [s \in Slots |-> Free]
    /\ pc = [w \in Workers |-> "idle"]
    /\ started = [w \in Workers |-> 0]
    /\ known = [w \in Workers |-> [b \in Bindings |-> "committed"]]
    /\ todo = [w \in Workers |-> {}]
    /\ slot = [w \in Workers |-> <<0, 0>>]
    /\ attempt = [w \in Workers |-> 0]

-----------------------------------------------------------------------------
(* Control of one worker *)

Goto(w, label) == pc' = [pc EXCEPT ![w] = label]

At(w) == slot[w][1]

Current(w) == Plan[At(w)][slot[w][2]]

(* run_due returns or raises. *)
Leave(w) ==
    /\ Goto(w, "idle")
    /\ started' = [started EXCEPT ![w] = 0]
    /\ known' = [known EXCEPT ![w] = [b \in Bindings |-> "committed"]]
    /\ todo' = [todo EXCEPT ![w] = {}]
    /\ slot' = [slot EXCEPT ![w] = <<0, 0>>]
    /\ attempt' = [attempt EXCEPT ![w] = 0]

(* The next binding of those in S, if there is one. *)
NextBinding(w, S, statuses, time) ==
    \/ S = {} /\ Leave(w)
    \/ \E b \in S :
         /\ \A c \in S : b <= c
         /\ started' = [started EXCEPT ![w] = time]
         /\ slot' = [slot EXCEPT ![w] = <<b, 1>>]
         /\ todo' = [todo EXCEPT ![w] = S \ {b}]
         /\ known' = [known EXCEPT ![w] = statuses]
         /\ attempt' = [attempt EXCEPT ![w] = 0]
         /\ Goto(w, IF statuses[b] = "committed" THEN "schedule" ELSE "scan")

NextHorizon(w) ==
    /\ slot' = [slot EXCEPT ![w] = <<At(w), @[2] + 1>>]
    /\ attempt' = [attempt EXCEPT ![w] = 0]
    /\ Goto(w, "scan")
    /\ UNCHANGED <<started, known, todo>>

(* transition_evidence_binding raises for any other status. *)
Allowed(b, to) == to \in Lifecycle!Transitions[status[b]]

SetStatus(b, to) == status' = [status EXCEPT ![b] = to]

(* A transition in the try block: the copy of the status follows, and the  *)
(* lease is released whatever happens.                                     *)
Transit(w, to, label) ==
    IF Allowed(At(w), to)
    THEN /\ SetStatus(At(w), to)
         /\ known' = [known EXCEPT ![w][At(w)] = to]
         /\ Goto(w, label)
    ELSE Goto(w, "raise") /\ UNCHANGED <<status, known>>

-----------------------------------------------------------------------------
(* run_due *)

Listed ==
    {b \in Bindings :
        /\ status[b] \in Listable
        /\ Cardinality({c \in Bindings : c < b /\ status[c] \in Listable}) < Limit}

Begin(w) ==
    /\ pc[w] = "idle" /\ Listed # {}
    /\ NextBinding(w, Listed, status, clock)
    /\ UNCHANGED <<clock, crashes, ledger>>

(* A committed binding is scheduled; the whole call raises when another    *)
(* worker has done that meanwhile.                                         *)
Schedule(w) ==
    /\ pc[w] = "schedule"
    /\ IF Allowed(At(w), "scheduled")
       THEN /\ SetStatus(At(w), "scheduled")
            /\ known' = [known EXCEPT ![w][At(w)] = "scheduled"]
            /\ Goto(w, "scan")
            /\ UNCHANGED <<started, todo, slot, attempt>>
       ELSE Leave(w) /\ UNCHANGED status
    /\ UNCHANGED <<clock, crashes, attempts, observed, results, leases>>

(* Mutant of NoHorizons: a plan without horizons is passed over. *)
PassOverEmptyPlan(w) ==
    /\ pc[w] = "scan" /\ Plan[At(w)] = <<>>
    /\ NextBinding(w, todo[w], known[w], started[w])
    /\ UNCHANGED <<clock, crashes, ledger>>

(* A plan without horizons invalidates its binding. *)
NoHorizons(w) ==
    /\ pc[w] = "scan" /\ Plan[At(w)] = <<>>
    /\ IF Allowed(At(w), "invalid")
       THEN SetStatus(At(w), "invalid") /\ NextBinding(w, todo[w], known[w], started[w])
       ELSE Leave(w) /\ UNCHANGED status
    /\ UNCHANGED <<clock, crashes, attempts, observed, results, leases>>

(* The last horizon was scanned. *)
Scanned(w) ==
    /\ pc[w] = "scan" /\ Plan[At(w)] # <<>> /\ slot[w] \notin Slots
    /\ NextBinding(w, todo[w], known[w], started[w])
    /\ UNCHANGED <<clock, crashes, ledger>>

(* A due_at that does not parse is noticed at once, a name that is missing *)
(* once the horizon is due.  A horizon is skipped while it is not due and  *)
(* when it was observed.                                                   *)
ScanHorizon(w) ==
    /\ pc[w] = "scan" /\ slot[w] \in Slots
    /\ IF Current(w).broken \/ (Current(w).nameless /\ Current(w).due <= started[w])
       THEN Goto(w, "invalidate") /\ UNCHANGED <<started, known, todo, slot, attempt>>
       ELSE IF Current(w).due > started[w] \/ slot[w] \in observed
       THEN NextHorizon(w)
       ELSE Goto(w, "acquire") /\ UNCHANGED <<started, known, todo, slot, attempt>>
    /\ UNCHANGED <<clock, crashes, ledger>>

(* _invalidate looks at the status and then changes it. *)
Invalidate(w) ==
    /\ pc[w] = "invalidate"
    /\ IF status[At(w)] \in {"scheduled", "observing", "retrying", "partially_matured"}
       THEN Goto(w, "invalid") /\ UNCHANGED <<started, known, todo, slot, attempt>>
       ELSE NextBinding(w, todo[w], known[w], started[w])
    /\ UNCHANGED <<clock, crashes, ledger>>

MarkInvalid(w) ==
    /\ pc[w] = "invalid"
    /\ IF Allowed(At(w), "invalid")
       THEN SetStatus(At(w), "invalid") /\ NextBinding(w, todo[w], known[w], started[w])
       ELSE Leave(w) /\ UNCHANGED status
    /\ UNCHANGED <<clock, crashes, attempts, observed, results, leases>>

(* Mutant of LeaseIsFree: the owner is not looked at. *)
LeaseIsAnybodys(s, w) == TRUE

LeaseIsFree(s, w) ==
    \/ leases[s].owner \in {"nobody", w}
    \/ leases[s].until <= started[w]

Acquire(w) ==
    /\ pc[w] = "acquire"
    /\ IF LeaseIsFree(slot[w], w)
       THEN /\ leases' = [leases EXCEPT ![slot[w]] =
                             [owner |-> w, until |-> started[w] + LeaseTime]]
            /\ Goto(w, IF known[w][At(w)] \in {"scheduled", "retrying", "partially_matured"}
                       THEN "start" ELSE "count")
            /\ UNCHANGED <<started, known, todo, slot, attempt>>
       ELSE NextHorizon(w) /\ UNCHANGED leases
    /\ UNCHANGED <<clock, crashes, status, attempts, observed, results>>

StartObserving(w) ==
    /\ pc[w] = "start"
    /\ Transit(w, "observing", "count")
    /\ UNCHANGED <<clock, crashes, attempts, observed, results, leases, started, todo, slot, attempt>>

(* The attempt is numbered, and the probe is awaited. *)
Count(w) ==
    /\ pc[w] = "count"
    /\ attempt' = [attempt EXCEPT ![w] = attempts[slot[w]] + 1]
    /\ Goto(w, "probing")
    /\ UNCHANGED <<clock, crashes, ledger, started, known, todo, slot>>

(* The probe or its evaluator fails, or both succeed.  The attempt is      *)
(* recorded, which raises when its number is taken.                        *)
RecordAttempt(w, outcome) ==
    /\ pc[w] = "probing"
    /\ IF attempt[w] > attempts[slot[w]]
       THEN /\ attempts' = [attempts EXCEPT ![slot[w]] = attempt[w]]
            /\ Goto(w, outcome)
       ELSE Goto(w, "raise") /\ UNCHANGED attempts
    /\ UNCHANGED <<clock, crashes, status, observed, results, leases, started, known, todo, slot, attempt>>

(* Mutant of Retry: no attempt is the last. *)
RetryForever(w) ==
    /\ pc[w] = "failed"
    /\ Transit(w, "retrying", "break")
    /\ UNCHANGED <<clock, crashes, attempts, observed, results, leases, started, todo, slot, attempt>>

Retry(w) ==
    /\ pc[w] = "failed"
    /\ Transit(w, IF attempt[w] >= Current(w).max THEN "invalid" ELSE "retrying", "break")
    /\ UNCHANGED <<clock, crashes, attempts, observed, results, leases, started, todo, slot, attempt>>

(* INSERT OR IGNORE *)
Observe(w) ==
    /\ pc[w] = "observe"
    /\ observed' = observed \cup {slot[w]}
    /\ Goto(w, "evaluate")
    /\ UNCHANGED <<clock, crashes, status, attempts, results, leases, started, known, todo, slot, attempt>>

Evaluate(w) ==
    /\ pc[w] = "evaluate"
    /\ results' = [results EXCEPT ![slot[w]] = @ + 1]
    /\ Goto(w, "mature")
    /\ UNCHANGED <<clock, crashes, status, attempts, observed, leases, started, known, todo, slot, attempt>>

(* Mutant of Mature: one observation completes the binding. *)
MatureAtOnce(w) ==
    /\ pc[w] = "mature"
    /\ Goto(w, "evaluated")
    /\ UNCHANGED <<clock, crashes, ledger, started, known, todo, slot, attempt>>

(* The next status is read off the observations ... *)
Mature(w) ==
    /\ pc[w] = "mature"
    /\ Goto(w, IF Lifecycle!SlotsOf(At(w)) \subseteq observed THEN "evaluated"
               ELSE "partially_matured")
    /\ UNCHANGED <<clock, crashes, ledger, started, known, todo, slot, attempt>>

(* ... and stored. *)
Store(w) ==
    /\ pc[w] \in {"partially_matured", "evaluated"}
    /\ Transit(w, pc[w], IF pc[w] = "evaluated" THEN "break" ELSE "continue")
    /\ UNCHANGED <<clock, crashes, attempts, observed, results, leases, started, todo, slot, attempt>>

(* The lease is released by its owner only. *)
Release(w) ==
    /\ pc[w] \in {"continue", "break", "raise"}
    /\ leases' = IF leases[slot[w]].owner = w THEN [leases EXCEPT ![slot[w]] = Free] ELSE leases
    /\ CASE pc[w] = "continue" -> NextHorizon(w)
         [] pc[w] = "break"    -> NextBinding(w, todo[w], known[w], started[w])
         [] pc[w] = "raise"    -> Leave(w)
    /\ UNCHANGED <<clock, crashes, status, attempts, observed, results>>

(* The process of the workers dies; their leases stay. *)
Crash ==
    /\ crashes < MaxCrashes
    /\ crashes' = crashes + 1
    /\ \E w \in Workers : pc[w] # "idle"
    /\ pc' = [w \in Workers |-> "idle"]
    /\ started' = [w \in Workers |-> 0]
    /\ known' = [w \in Workers |-> [b \in Bindings |-> "committed"]]
    /\ todo' = [w \in Workers |-> {}]
    /\ slot' = [w \in Workers |-> <<0, 0>>]
    /\ attempt' = [w \in Workers |-> 0]
    /\ UNCHANGED <<clock, ledger>>

Tick ==
    /\ clock < MaxTime
    /\ clock' = clock + 1
    /\ UNCHANGED <<crashes, ledger, local>>

Work(w) ==
    \/ Begin(w) \/ Schedule(w) \/ NoHorizons(w) \/ Scanned(w) \/ ScanHorizon(w)
    \/ Invalidate(w) \/ MarkInvalid(w) \/ Acquire(w) \/ StartObserving(w) \/ Count(w)
    \/ RecordAttempt(w, "failed") \/ RecordAttempt(w, "observe")
    \/ Retry(w) \/ Observe(w) \/ Evaluate(w) \/ Mature(w) \/ Store(w) \/ Release(w)

(* Mutant of MayRun: workers are threads after all. *)
RunAnytime(w) == TRUE

(* Tasks of one event loop yield only where they await. *)
MayRun(w) == Cooperative => \A v \in Workers \ {w} : pc[v] \in {"idle", "probing"}

Next == Tick \/ Crash \/ \E w \in Workers : MayRun(w) /\ Work(w)

Spec == Init /\ [][Next]_vars

(* Time passes, somebody keeps calling run_due, its probes have timeouts,  *)
(* and asyncio's ready queue is first-in first-out.                        *)
Fairness == WF_vars(Tick) /\ \A w \in Workers : SF_vars(MayRun(w) /\ Work(w))

FairSpec == Spec /\ Fairness

-----------------------------------------------------------------------------
(* Properties *)

(* The ledger keeps the promise of BindingLifecycle: evidence enters while *)
(* its binding is observing, and evaluation waits for the last horizon.    *)
KeepsLifecycle == Lifecycle!Spec

(* A lease keeps workers apart: two of them are at the probe of one        *)
(* horizon only when the lease of one has run out (acquire_evidence_lease, *)
(* release_evidence_lease).                                                *)
LeaseIsExclusive ==
    \A v, w \in Workers :
        v # w /\ {pc[v], pc[w]} \subseteq Leased /\ slot[v] = slot[w] =>
            \E u \in {v, w} : started[u] + LeaseTime <= clock

(* An external result counts once: however often the scheduler runs, the   *)
(* results of a horizon are recorded at most once (the look-up of the      *)
(* observations before the lease is taken).                                *)
ResultsCountOnce == \A s \in Slots : results[s] <= 1

(* A binding that is evaluated has the results of all its horizons, once   *)
(* its workers are done (the order of observation, results and status).    *)
EvaluatedHasResults ==
    \A b \in Bindings :
        status[b] = "evaluated" /\ (\A w \in Workers : pc[w] = "idle") =>
            \A s \in Lifecycle!SlotsOf(b) : results[s] > 0

(* A horizon is attempted at most as often as its retry policy allows      *)
(* (max_attempts).                                                         *)
AttemptsAreLimited ==
    \A s \in Slots : attempts[s] <= Plan[s[1]][s[2]].max

(* Every binding reaches a final status: broken plans and failing probes   *)
(* end as invalid, and the others are evaluated (run_due).                 *)
EveryBindingCloses == \A b \in Bindings : <>(status[b] \notin Listable)
=============================================================================

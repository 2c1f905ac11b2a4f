------------------------ MODULE SwarmHarness_proofs ------------------------
(***************************************************************************)
(* What holds of a swarm task for any squad, budgets, tools, deliverers    *)
(* and commands: the environment it leaves (ServicesAreOnFile, when no     *)
(* command stops the service meanwhile), the roles it starts               *)
(* (FewRolesOverBudget), how it ends (CompletedIsAccepted) and what its    *)
(* row says of its tools (RowIsOfItsArtifacts).                            *)
(***************************************************************************)
EXTENDS SwarmHarness, FiniteSetTheorems, SequenceTheorems, TLAPS

-----------------------------------------------------------------------------
(* The artifacts, as lists: their outputs, assertions and kinds *)

RoleKinds == {"plan", "work", "validation", "review", "final"}

Recorded == [kind : RoleKinds \cup ToolKinds, accepted : BOOLEAN, there : BOOLEAN]

WorksIn(list) == {i \in DOMAIN list : list[i].kind = "work"}

LastWorksIn(list) == {i \in WorksIn(list) : \A j \in DOMAIN list : list[j].kind = "plan" => j < i}

FlaggedIn(list) == {i \in WorksIn(list) : list[i].accepted}

IdsIn(list, kind) == {i \in DOMAIN list : list[i].kind = kind}

HoldsIn(list, before) ==
    \A i \in IdsIn(list, "assertion") :
        i < before /\ (\A j \in IdsIn(list, "assertion") : j < before => j <= i) => list[i].accepted

LEMMA OfTheArtifacts ==
    /\ Works = WorksIn(artifacts) /\ LastWorks = LastWorksIn(artifacts)
    /\ \A before : Holds(before) <=> HoldsIn(artifacts, before)
  BY DEF Works, WorksIn, LastWorks, LastWorksIn, Assertions, IdsIn, Holds, HoldsIn

(* One more artifact of a kind, accepted or not, after those there are. *)
Grown(list, next, n, kind, ok) ==
    /\ n \in Nat /\ n < n + 1 /\ DOMAIN next = DOMAIN list \cup {n}
    /\ \A i \in DOMAIN list : /\ next[i] = list[i] /\ i # n
                           /\ i \in Nat /\ i < n /\ i <= n /\ i < n + 1 /\ ~(n < i) /\ ~(n <= i)
    /\ next[n].kind = kind /\ next[n].accepted = ok

LEMMA AppendGrows ==
    ASSUME NEW list \in Seq(Recorded), NEW a \in Recorded
    PROVE  /\ Append(list, a) \in Seq(Recorded) /\ Len(Append(list, a)) = Len(list) + 1
           /\ Grown(list, Append(list, a), Len(list) + 1, a.kind, a.accepted)
<1> DEFINE n == Len(list) + 1
           next == Append(list, a)
<1>1. /\ next \in Seq(Recorded) /\ Len(next) = Len(list) + 1 /\ Len(list) \in Nat
      /\ DOMAIN list = 1..Len(list) /\ DOMAIN next = 1..(Len(list) + 1)
      /\ \A i \in DOMAIN list : next[i] = list[i]
      /\ next[Len(list) + 1] = a
  <2>1. next \in Seq(Recorded) /\ Len(next) = Len(list) + 1 /\ next[Len(list) + 1] = a
    BY AppendProperties
  <2>4. \A i \in 1..Len(list) : next[i] = list[i]
    BY AppendProperties
  <2>2. Len(list) \in Nat /\ DOMAIN list = 1..Len(list)
    BY LenProperties
  <2> HIDE DEF next
  <2>3. DOMAIN next = 1..Len(next)
    BY <2>1, LenProperties
  <2> QED
    BY <2>1, <2>2, <2>3, <2>4
<1> HIDE DEF next
<1>2. ASSUME NEW l \in Nat
      PROVE  /\ l + 1 \in Nat /\ 1..(l + 1) = 1..l \cup {l + 1} /\ l + 1 < l + 1 + 1
             /\ \A i \in 1..l : /\ i # l + 1 /\ i \in Nat /\ i < l + 1 /\ i <= l + 1 /\ i < l + 1 + 1
                               /\ ~(l + 1 < i) /\ ~(l + 1 <= i)
  OBVIOUS
<1>3. /\ n \in Nat /\ n < n + 1 /\ DOMAIN next = DOMAIN list \cup {n}
      /\ \A i \in DOMAIN list : /\ i # n /\ i \in Nat /\ i < n /\ i <= n /\ i < n + 1
                             /\ ~(n < i) /\ ~(n <= i)
  BY <1>1, <1>2
<1> HIDE DEF n
<1>4. next[n] = a
  BY <1>1 DEF n
<1>5. Grown(list, next, n, a.kind, a.accepted)
  BY <1>1, <1>3, <1>4 DEF Grown
<1> QED
  BY <1>1, <1>5 DEF n, next

LEMMA RecordedGrow ==
    ASSUME NEW list \in Seq(Recorded), NEW kind \in RoleKinds \cup ToolKinds, NEW ok \in BOOLEAN
    PROVE  /\ Append(list, Artifact(kind, ok)) \in Seq(Recorded)
           /\ Len(Append(list, Artifact(kind, ok))) = Len(list) + 1
           /\ Grown(list, Append(list, Artifact(kind, ok)), Len(list) + 1, kind, ok)
<1> DEFINE a == Artifact(kind, ok)
<1>1. a \in Recorded /\ a.kind = kind /\ a.accepted = ok
  BY DEF Artifact, Recorded
<1> HIDE DEF a
<1>2. /\ Append(list, a) \in Seq(Recorded) /\ Len(Append(list, a)) = Len(list) + 1
      /\ Grown(list, Append(list, a), Len(list) + 1, a.kind, a.accepted)
  BY <1>1, AppendGrows
<1> QED
  BY <1>1, <1>2 DEF a

(* A plan begins a round without outputs; an output is the last one. *)
LEMMA WorksGrow ==
    ASSUME NEW list, NEW next, NEW n, NEW kind, NEW ok, Grown(list, next, n, kind, ok)
    PROVE  /\ kind \notin {"plan", "work"} => LastWorksIn(next) = LastWorksIn(list)
           /\ kind = "plan" => LastWorksIn(next) = {}
           /\ kind = "work" => LastWorksIn(next) = LastWorksIn(list) \cup {n}
           /\ kind # "work" \/ ~ok => FlaggedIn(next) = FlaggedIn(list)
<1>1. /\ n \in Nat /\ DOMAIN next = DOMAIN list \cup {n}
      /\ \A i \in DOMAIN list : i < n /\ ~(n < i) /\ i # n /\ next[i] = list[i]
      /\ next[n].kind = kind /\ next[n].accepted = ok
  BY DEF Grown
<1>2. WorksIn(next) = IF kind = "work" THEN WorksIn(list) \cup {n} ELSE WorksIn(list)
  BY <1>1 DEF WorksIn
<1>3. \A i \in WorksIn(list) : i \in DOMAIN list
  BY DEF WorksIn
<1>4. CASE kind = "plan"
  <2>1. LastWorksIn(next) = {}
    BY <1>1, <1>2, <1>3, <1>4 DEF LastWorksIn
  <2>2. FlaggedIn(next) = FlaggedIn(list)
    BY <1>1, <1>2, <1>3, <1>4 DEF FlaggedIn
  <2> QED
    BY <1>4, <2>1, <2>2
<1>5. CASE kind = "work"
  <2>1. LastWorksIn(next) = LastWorksIn(list) \cup {n}
    BY <1>1, <1>2, <1>3, <1>5 DEF LastWorksIn
  <2>2. ~ok => FlaggedIn(next) = FlaggedIn(list)
    BY <1>1, <1>2, <1>3, <1>5 DEF FlaggedIn
  <2> QED
    BY <1>5, <2>1, <2>2
<1>6. CASE kind \notin {"plan", "work"}
  <2>1. LastWorksIn(next) = LastWorksIn(list)
    BY <1>1, <1>2, <1>3, <1>6 DEF LastWorksIn
  <2>2. FlaggedIn(next) = FlaggedIn(list)
    BY <1>1, <1>2, <1>3, <1>6 DEF FlaggedIn
  <2> QED
    BY <1>6, <2>1, <2>2
<1> QED
  BY <1>4, <1>5, <1>6

LEMMA OthersGrow ==
    ASSUME NEW list, NEW next, NEW n, NEW kind, NEW ok, Grown(list, next, n, kind, ok),
           kind # "plan", kind # "work"
    PROVE  LastWorksIn(next) = LastWorksIn(list) /\ FlaggedIn(next) = FlaggedIn(list)
<1>1. kind \notin {"plan", "work"}
  OBVIOUS
<1> QED
  BY <1>1, WorksGrow

With(ids, n) == ids \cup {n}

LEMMA IdsGrow ==
    ASSUME NEW list, NEW next, NEW n, NEW kind, NEW ok, Grown(list, next, n, kind, ok)
    PROVE  /\ IdsIn(next, kind) = With(IdsIn(list, kind), n)
           /\ \A k : k # kind => IdsIn(next, k) = IdsIn(list, k)
  BY DEF IdsIn, Grown, With

(* What is recorded later changes no answer about earlier assertions. *)
LEMMA HoldsGrow ==
    ASSUME NEW list, NEW next, NEW n, NEW kind, NEW ok, Grown(list, next, n, kind, ok)
    PROVE  /\ \A v \in Nat : v <= n => (HoldsIn(next, v) <=> HoldsIn(list, v))
           /\ kind = "assertion" => (HoldsIn(next, n + 1) <=> ok)
           /\ kind # "assertion" => (HoldsIn(next, n + 1) <=> HoldsIn(list, n))
<1> DEFINE old == IdsIn(list, "assertion")
           new == IdsIn(next, "assertion")
<1>1. n \in Nat /\ next[n].accepted = ok
  BY DEF Grown
<1>2. new = IF kind = "assertion" THEN old \cup {n} ELSE old
  BY DEF IdsIn, Grown
<1>3. \A i \in old : /\ i \in Nat /\ i < n /\ i <= n /\ i < n + 1 /\ ~(n <= i) /\ ~(n < i)
                   /\ next[i] = list[i]
  BY DEF IdsIn, Grown
<1>4. /\ \A v : HoldsIn(list, v) <=> \A i \in old : i < v /\ (\A j \in old : j < v => j <= i) => list[i].accepted
      /\ \A v : HoldsIn(next, v) <=> \A i \in new : i < v /\ (\A j \in new : j < v => j <= i) => next[i].accepted
  BY DEF HoldsIn
<1> HIDE DEF old, new
<1>5. ASSUME NEW v \in Nat, v <= n PROVE HoldsIn(next, v) <=> HoldsIn(list, v)
  <2>1. ~(n < v)
    BY <1>1, <1>5
  <2>2. CASE kind = "assertion"
    BY <1>2, <1>3, <1>4, <2>1, <2>2
  <2>3. CASE kind # "assertion"
    BY <1>2, <1>3, <1>4, <2>3
  <2> QED
    BY <2>2, <2>3
<1>6. n < n + 1 /\ n <= n
  BY <1>1
<1>7. CASE kind = "assertion"
  <2>1. HoldsIn(next, n + 1) <=> ok
    BY <1>1, <1>2, <1>3, <1>4, <1>6, <1>7
  <2> QED
    BY <1>5, <1>7, <2>1
<1>8. CASE kind # "assertion"
  <2>1. HoldsIn(next, n + 1) <=> HoldsIn(list, n)
    BY <1>2, <1>3, <1>4, <1>6, <1>8
  <2> QED
    BY <1>5, <1>8, <2>1
<1> QED
  BY <1>7, <1>8

(* A change of the flags of outputs changes no kind and no assertion. *)
LEMMA KindsStay ==
    ASSUME NEW list, list \in Seq(Recorded), NEW next, next = [i \in DOMAIN list |-> next[i]],
           \A i \in DOMAIN list : /\ next[i] \in Recorded /\ next[i].kind = list[i].kind
                                  /\ list[i].kind # "work" => next[i].accepted = list[i].accepted
    PROVE  /\ next \in Seq(Recorded) /\ Len(next) = Len(list) /\ DOMAIN next = DOMAIN list
           /\ WorksIn(next) = WorksIn(list) /\ LastWorksIn(next) = LastWorksIn(list)
           /\ \A k : IdsIn(next, k) = IdsIn(list, k)
           /\ \A v : HoldsIn(next, v) <=> HoldsIn(list, v)
<1>1. next \in Seq(Recorded) /\ Len(next) = Len(list)
  <2> DEFINE l == Len(list)
  <2>1. l \in Nat /\ DOMAIN list = 1..l
    BY LenProperties
  <2> HIDE DEF l
  <2>2. next = [i \in 1..l |-> next[i]] /\ \A i \in 1..l : next[i] \in Recorded
    BY <2>1
  <2>3. next \in [1..l -> Recorded]
    BY ONLY <2>2
  <2>4. \A n \in Nat : \A f \in [1..n -> Recorded] : f \in Seq(Recorded) /\ Len(f) = n
    OBVIOUS
  <2>5. next \in Seq(Recorded) /\ Len(next) = l
    BY ONLY <2>1, <2>3, <2>4
  <2> QED
    BY <2>5 DEF l
<1>2. /\ DOMAIN next = DOMAIN list
      /\ \A i \in DOMAIN list : /\ next[i].kind = list[i].kind
                                /\ list[i].kind # "work" => next[i].accepted = list[i].accepted
  OBVIOUS
<1>3. WorksIn(next) = WorksIn(list) /\ LastWorksIn(next) = LastWorksIn(list)
  BY ONLY <1>2 DEF WorksIn, LastWorksIn
<1>4. \A k : IdsIn(next, k) = IdsIn(list, k)
  BY ONLY <1>2 DEF IdsIn
<1> DEFINE held == IdsIn(list, "assertion")
<1>5. \A i \in held : next[i].accepted = list[i].accepted
  BY ONLY <1>2 DEF IdsIn
<1>6. IdsIn(next, "assertion") = held
  BY <1>4
<1> HIDE DEF held
<1>7. ASSUME NEW v PROVE HoldsIn(next, v) <=> HoldsIn(list, v)
  BY ONLY <1>5, <1>6 DEF HoldsIn, held
<1> QED
  BY <1>1, <1>2, <1>3, <1>4, <1>7

-----------------------------------------------------------------------------
USE EnvironmentAssumption, DeliveryAssumption, SwarmAssumption

(* The environment *)

ServiceStates == Alive \cup {"zombie", "gone"}

Process == [state : ServiceStates, parent : Actors \cup {"init"}]

CallLabels ==
    {"rest", "looking", "up", "spawning", "writing", "polling", "down", "signalling", "killing",
     "clearing"}

Answers == {"stopped", "running", "healthy", "error"}

Call == [at : CallLabels, pid : Nat, again : BOOLEAN, status : Answers]

EnvironmentOK ==
    /\ service \in Seq(Process)
    /\ onFile \in 0..Len(service)
    /\ call \in [Actors -> Call]
    /\ \A a \in Actors : call[a].pid <= Len(service)

(* Whatever lives is the service on file, or the one the tool has just     *)
(* started; nothing lives when the tool starts one or clears the file.     *)
OnlyTheKnownLive ==
    \A p \in DOMAIN service : service[p].state \in Alive =>
        /\ call[Tool].at \notin {"spawning", "clearing"}
        /\ call[Tool].at # "writing" => p = onFile
        /\ call[Tool].at \in {"writing", "signalling", "killing"} => p = call[Tool].pid

(* Commands that only look are at rest or looking. *)
OperatorsLook == \A a \in Operators : call[a].at \in {"rest", "looking"}

EnvironmentInv == EnvironmentOK /\ OnlyTheKnownLive /\ OperatorsLook

LEMMA EnvironmentStarts == EnvironmentInit => EnvironmentInv
<1> SUFFICES ASSUME EnvironmentInit PROVE EnvironmentInv
  OBVIOUS
<1>1. service \in Seq(Process) /\ Len(service) = 0 /\ DOMAIN service = {}
  BY DEF EnvironmentInit
<1>2. AtRest \in Call
  BY DEF AtRest, Call, CallLabels, Answers
<1>3. \A a \in Actors : call[a] = AtRest
  BY DEF EnvironmentInit
<1>4. EnvironmentOK
  BY <1>1, <1>2, <1>3 DEF EnvironmentInit, EnvironmentOK, AtRest
<1> QED
  BY <1>1, <1>3, <1>4 DEF EnvironmentInv, OnlyTheKnownLive, OperatorsLook, Actors, AtRest

(* The same processes with other states and parents. *)
LEMMA SameProcesses ==
    ASSUME EnvironmentOK, NEW new,
           new = [p \in DOMAIN service |-> new[p]],
           \A p \in DOMAIN service : new[p] \in Process
    PROVE  new \in Seq(Process) /\ Len(new) = Len(service) /\ DOMAIN new = 1..Len(service)
  BY DEF EnvironmentOK

(* No answer of health is anything but a status. *)
LEMMA HealthIsAnAnswer == Health \in Answers
  BY DEF Health, Answers

LEMMA WaitedOK ==
    ASSUME EnvironmentOK, NEW a
    PROVE  /\ Waited(a) \in Seq(Process) /\ Len(Waited(a)) = Len(service)
           /\ DOMAIN Waited(a) = DOMAIN service
           /\ \A p \in DOMAIN service : /\ Waited(a)[p].state \in Alive => service[p].state \in Alive
                                        /\ Waited(a)[p] \in Process
<1>1. \A p \in DOMAIN service : service[p] \in Process
  BY DEF EnvironmentOK
<1>2. \A p \in DOMAIN service : /\ Waited(a)[p] \in Process
                                /\ Waited(a)[p].state \in Alive => service[p].state \in Alive
  BY <1>1 DEF Waited, Process, ServiceStates, Alive
<1>3. Waited(a) = [p \in DOMAIN service |-> Waited(a)[p]]
  BY DEF Waited
<1> QED
  BY <1>2, <1>3, SameProcesses DEF EnvironmentOK

(* A call that returns leaves the same processes alive. *)
LEMMA ReturnOK ==
    ASSUME EnvironmentOK, NEW a \in Actors, NEW s \in Answers, Return(a, s)
    PROVE  /\ service' \in Seq(Process) /\ Len(service') = Len(service)
           /\ DOMAIN service' = DOMAIN service
           /\ \A p \in DOMAIN service : service'[p].state \in Alive => service[p].state \in Alive
           /\ call' \in [Actors -> Call]
           /\ call'[a].at = "rest" /\ call'[a].pid = 0
           /\ \A b \in Actors \ {a} : call'[b] = call[b]
<1>1. \A p \in DOMAIN service : service[p] \in Process
  BY DEF EnvironmentOK
<1>2. CASE a \in Operators
  <2>1. service' = [p \in DOMAIN service |->
                      IF service[p].parent = a
                        THEN [Waited(a)[p] EXCEPT !.parent = "init"] ELSE service[p]]
    BY <1>2 DEF Return
  <2>2. \A p \in DOMAIN service : /\ service'[p] \in Process
                                  /\ service'[p].state \in Alive => service[p].state \in Alive
    BY <1>1, <2>1, WaitedOK DEF Process
  <2> QED
    BY <2>1, <2>2, SameProcesses, <1>2 DEF Return, EnvironmentOK, AtRest, Call, CallLabels, Answers
<1>3. CASE a \notin Operators
  BY <1>3 DEF Return, EnvironmentOK, AtRest, Call, CallLabels, Answers
<1> QED
  BY <1>2, <1>3

(* A call that begins or goes on, with the same processes. *)
LEMMA CallGoesOn ==
    ASSUME EnvironmentOK, NEW a \in Actors, NEW c \in Call, c.pid <= Len(service),
           call' = [call EXCEPT ![a] = c], UNCHANGED <<service, onFile>>
    PROVE  /\ EnvironmentOK'
           /\ call'[a] = c /\ \A b \in Actors \ {a} : call'[b] = call[b]
  BY DEF EnvironmentOK

LEMMA ToolIsNoOperator == Tool \in Actors /\ Operators \subseteq Actors /\ Tool \notin Operators
  BY DEF Actors

(* health and status, by the tool or by a command. *)
LEMMA LooksInv ==
    ASSUME EnvironmentInv, NEW a \in Actors, Looks(a)
    PROVE  EnvironmentInv'
<1>1. call[a].at = "looking" /\ Return(a, Health) /\ onFile' = onFile
  BY DEF Looks
<1>2. EnvironmentOK'
  BY <1>1, ReturnOK, HealthIsAnAnswer DEF EnvironmentInv, EnvironmentOK
<1>3. OnlyTheKnownLive'
  BY <1>1, ReturnOK, HealthIsAnAnswer, ToolIsNoOperator DEF EnvironmentInv, OnlyTheKnownLive
<1>4. OperatorsLook'
  BY <1>1, ReturnOK, HealthIsAnAnswer, ToolIsNoOperator DEF EnvironmentInv, OperatorsLook
<1> QED
  BY <1>2, <1>3, <1>4 DEF EnvironmentInv

LEMMA CallHealthInv ==
    ASSUME EnvironmentInv, NEW a \in Actors, CallHealth(a)
    PROVE  EnvironmentInv'
<1>1. [AtRest EXCEPT !.at = "looking"] \in Call /\ [AtRest EXCEPT !.at = "looking"].pid = 0
  BY DEF AtRest, Call, CallLabels, Answers
<1>2. /\ EnvironmentOK'
      /\ call'[a].at = "looking" /\ \A b \in Actors \ {a} : call'[b] = call[b]
  BY <1>1, CallGoesOn DEF CallHealth, EnvironmentInv, EnvironmentOK, AtRest
<1> QED
  BY <1>2, ToolIsNoOperator DEF EnvironmentInv, OnlyTheKnownLive, OperatorsLook, CallHealth

(* The tool begins: what lives is on file. *)
LEMMA ToolBegins ==
    ASSUME EnvironmentInv, NEW c \in Call, c.pid = 0, c.at \in {"rest", "looking", "up", "down"},
           call[Tool].at = "rest", call' = [call EXCEPT ![Tool] = c], UNCHANGED <<service, onFile>>
    PROVE  EnvironmentInv'
<1>1. /\ EnvironmentOK'
      /\ call'[Tool] = c /\ \A b \in Actors \ {Tool} : call'[b] = call[b]
  BY CallGoesOn, ToolIsNoOperator DEF EnvironmentInv, EnvironmentOK
<1> QED
  BY <1>1, ToolIsNoOperator DEF EnvironmentInv, OnlyTheKnownLive, OperatorsLook

(* Only a file that names no running process lets the tool start one. *)
LEMMA UpChecksInv ==
    ASSUME EnvironmentInv, UpChecks(Tool)
    PROVE  EnvironmentInv'
<1>1. CASE PidRunning(onFile)
  <2>1. call[Tool].at = "up" /\ Return(Tool, Health) /\ onFile' = onFile
    BY <1>1 DEF UpChecks
  <2>2. EnvironmentOK'
    BY <2>1, ReturnOK, HealthIsAnAnswer, ToolIsNoOperator DEF EnvironmentInv, EnvironmentOK
  <2> QED
    BY <2>1, <2>2, ReturnOK, HealthIsAnAnswer, ToolIsNoOperator
       DEF EnvironmentInv, OnlyTheKnownLive, OperatorsLook
<1>2. CASE ~PidRunning(onFile)
  <2>1. /\ call[Tool].at = "up" /\ UNCHANGED <<service, onFile>>
        /\ call' = [call EXCEPT ![Tool] = [call[Tool] EXCEPT !.at = "spawning"]]
    BY <1>2 DEF UpChecks
  <2>2. [call[Tool] EXCEPT !.at = "spawning"] \in Call
    BY ToolIsNoOperator DEF EnvironmentInv, EnvironmentOK, Call, CallLabels
  <2>3. /\ EnvironmentOK'
        /\ call'[Tool].at = "spawning" /\ \A b \in Actors \ {Tool} : call'[b] = call[b]
    BY <2>1, <2>2, CallGoesOn, ToolIsNoOperator DEF EnvironmentInv, EnvironmentOK, Call
  <2>4. \A p \in DOMAIN service : service[p].state \notin Alive
    BY <1>2, <2>1 DEF PidRunning, EnvironmentInv, EnvironmentOK, OnlyTheKnownLive, Alive
  <2> QED
    BY <2>1, <2>3, <2>4, ToolIsNoOperator DEF EnvironmentInv, OnlyTheKnownLive, OperatorsLook
<1> QED
  BY <1>1, <1>2

LEMMA UpSpawnsInv ==
    ASSUME EnvironmentInv, UpSpawns(Tool)
    PROVE  EnvironmentInv'
<1> DEFINE new == [state |-> "starting", parent |-> Tool]
<1>1. /\ call[Tool].at = "spawning" /\ onFile' = onFile
      /\ service' = Append(Waited(Tool), new)
      /\ call' = [call EXCEPT ![Tool].at = "writing", ![Tool].pid = Len(service) + 1]
  BY DEF UpSpawns
<1>2. new \in Process
  BY ONLY ToolIsNoOperator DEF Process, ServiceStates, Alive
<1>3. /\ Waited(Tool) \in Seq(Process) /\ Len(Waited(Tool)) = Len(service)
      /\ \A p \in DOMAIN service : Waited(Tool)[p].state \in Alive => service[p].state \in Alive
  BY WaitedOK DEF EnvironmentInv
<1>4. /\ service' \in Seq(Process) /\ Len(service') = Len(service) + 1
      /\ DOMAIN service = 1..Len(service) /\ DOMAIN service' = 1..(Len(service) + 1)
      /\ \A p \in DOMAIN service : service'[p] = Waited(Tool)[p]
  BY <1>1, <1>2, <1>3 DEF EnvironmentInv, EnvironmentOK
<1>5. /\ call' \in [Actors -> Call] /\ call'[Tool].at = "writing" /\ call'[Tool].pid = Len(service) + 1
      /\ \A b \in Actors \ {Tool} : call'[b] = call[b]
  <2> DEFINE started == [call[Tool] EXCEPT !.at = "writing", !.pid = Len(service) + 1]
  <2>1. call' = [call EXCEPT ![Tool] = started]
    BY <1>1, ToolIsNoOperator DEF EnvironmentInv, EnvironmentOK
  <2>2. started \in Call /\ started.at = "writing" /\ started.pid = Len(service) + 1
    <3>1. call[Tool] \in Call /\ Len(service) + 1 \in Nat
      BY ToolIsNoOperator DEF EnvironmentInv, EnvironmentOK
    <3> QED
      BY <3>1 DEF Call, CallLabels
  <2> QED
    BY <2>1, <2>2, ToolIsNoOperator DEF EnvironmentInv, EnvironmentOK
<1>6. EnvironmentOK'
  BY <1>1, <1>4, <1>5 DEF EnvironmentInv, EnvironmentOK, Call
<1>7. OnlyTheKnownLive'
  BY <1>1, <1>3, <1>4, <1>5 DEF EnvironmentInv, OnlyTheKnownLive
<1> QED
  BY <1>5, <1>6, <1>7, ToolIsNoOperator DEF EnvironmentInv, OperatorsLook

LEMMA UpFailsInv ==
    ASSUME EnvironmentInv, UpFails(Tool)
    PROVE  EnvironmentInv'
<1>1. call[Tool].at = "spawning" /\ Return(Tool, "error") /\ onFile' = onFile /\ "error" \in Answers
  BY DEF UpFails, Answers
<1>2. EnvironmentOK'
  BY <1>1, ReturnOK, ToolIsNoOperator DEF EnvironmentInv, EnvironmentOK
<1> QED
  BY <1>1, <1>2, ReturnOK, ToolIsNoOperator DEF EnvironmentInv, OnlyTheKnownLive, OperatorsLook

LEMMA UpWritesInv ==
    ASSUME EnvironmentInv, UpWrites(Tool)
    PROVE  EnvironmentInv'
<1>1. /\ call[Tool].at = "writing" /\ onFile' = call[Tool].pid /\ service' = service
      /\ call' = [call EXCEPT ![Tool] = [call[Tool] EXCEPT !.at = "polling"]]
  BY DEF UpWrites
<1>2. call[Tool] \in Call /\ call[Tool].pid \in 0..Len(service)
  BY ToolIsNoOperator DEF EnvironmentInv, EnvironmentOK, Call
<1>3. /\ call' \in [Actors -> Call] /\ call'[Tool].at = "polling" /\ call'[Tool].pid = call[Tool].pid
      /\ \A b \in Actors \ {Tool} : call'[b] = call[b]
  BY <1>1, <1>2, ToolIsNoOperator DEF EnvironmentInv, EnvironmentOK, Call, CallLabels
<1>4. EnvironmentOK'
  BY <1>1, <1>2, <1>3 DEF EnvironmentInv, EnvironmentOK
<1> QED
  BY <1>1, <1>3, <1>4, ToolIsNoOperator DEF EnvironmentInv, OnlyTheKnownLive, OperatorsLook

LEMMA UpPollsInv ==
    ASSUME EnvironmentInv, UpPolls(Tool)
    PROVE  EnvironmentInv'
<1>1. call[Tool].at = "polling" /\ Return(Tool, Health) /\ onFile' = onFile
  BY DEF UpPolls
<1>2. EnvironmentOK'
  BY <1>1, ReturnOK, HealthIsAnAnswer, ToolIsNoOperator DEF EnvironmentInv, EnvironmentOK
<1> QED
  BY <1>1, <1>2, ReturnOK, HealthIsAnAnswer, ToolIsNoOperator
     DEF EnvironmentInv, OnlyTheKnownLive, OperatorsLook

(* One process changes its state, and does not come to life. *)
LEMMA OneProcess ==
    ASSUME EnvironmentOK, NEW p \in DOMAIN service, NEW state \in ServiceStates,
           service' = [service EXCEPT ![p].state = state]
    PROVE  /\ service' \in Seq(Process) /\ Len(service') = Len(service)
           /\ DOMAIN service' = DOMAIN service
           /\ service'[p].state = state
           /\ \A q \in DOMAIN service : q # p => service'[q] = service[q]
<1>1. service[p] \in Process /\ service' = [service EXCEPT ![p] = [service[p] EXCEPT !.state = state]]
  BY DEF EnvironmentOK
<1> DEFINE new == [service[p] EXCEPT !.state = state]
<1>2. new \in Process /\ new.state = state
  BY <1>1 DEF Process
<1>3. service \in Seq(Process) /\ DOMAIN service = 1..Len(service)
  BY DEF EnvironmentOK
<1>4. service' = [service EXCEPT ![p] = new]
  BY <1>1
<1> HIDE DEF new
<1>5. service' \in Seq(Process) /\ Len(service') = Len(service)
  BY <1>2, <1>3, <1>4, ExceptSeq
<1> QED
  BY <1>2, <1>3, <1>4, <1>5

LEMMA EndedIsAState == \A p \in DOMAIN service : Ended(p) \in ServiceStates /\ Ended(p) \notin Alive
  BY DEF Ended, ServiceStates, Alive

(* What is not running is not signalled, and does not live. *)
LEMMA DownLooksInv ==
    ASSUME EnvironmentInv, DownLooks(Tool)
    PROVE  EnvironmentInv'
<1> DEFINE next == [call[Tool] EXCEPT !.at = IF PidRunning(onFile) THEN "signalling" ELSE "clearing",
                                      !.pid = onFile]
<1>1. call[Tool].at = "down" /\ UNCHANGED <<service, onFile>> /\ call[Tool] \in Call
      /\ onFile \in 0..Len(service) /\ onFile \in Nat
  BY ToolIsNoOperator DEF DownLooks, EnvironmentInv, EnvironmentOK
<1>2. call' = [call EXCEPT ![Tool] = next]
  BY ToolIsNoOperator DEF DownLooks, EnvironmentInv, EnvironmentOK
<1>3. next \in Call /\ next.pid = onFile /\ next.at = (IF PidRunning(onFile) THEN "signalling" ELSE "clearing")
  BY <1>1 DEF Call, CallLabels
<1> HIDE DEF next
<1>4. /\ EnvironmentOK'
      /\ call'[Tool] = next /\ \A b \in Actors \ {Tool} : call'[b] = call[b]
  BY <1>1, <1>2, <1>3, CallGoesOn, ToolIsNoOperator DEF EnvironmentInv, EnvironmentOK
<1>5. ~PidRunning(onFile) => \A p \in DOMAIN service : service[p].state \notin Alive
  BY <1>1 DEF PidRunning, EnvironmentInv, EnvironmentOK, OnlyTheKnownLive, Alive
<1> QED
  BY <1>1, <1>3, <1>4, <1>5, ToolIsNoOperator DEF EnvironmentInv, OnlyTheKnownLive, OperatorsLook

LEMMA DownTerminatesInv ==
    ASSUME EnvironmentInv, DownTerminates(Tool)
    PROVE  EnvironmentInv'
<1> DEFINE pid == call[Tool].pid
<1>1. /\ call[Tool].at = "signalling" /\ onFile' = onFile /\ PidRunning(pid)
      /\ call' = [call EXCEPT ![Tool] = [call[Tool] EXCEPT !.at = "killing"]]
  BY DEF DownTerminates
<1>2. call[Tool] \in Call /\ pid \in 0..Len(service) /\ DOMAIN service = 1..Len(service)
  BY ToolIsNoOperator DEF EnvironmentInv, EnvironmentOK, Call
<1>3. /\ call' \in [Actors -> Call] /\ call'[Tool].at = "killing" /\ call'[Tool].pid = pid
      /\ \A b \in Actors \ {Tool} : call'[b] = call[b]
  BY <1>1, <1>2, ToolIsNoOperator DEF EnvironmentInv, EnvironmentOK, Call, CallLabels
<1>4. /\ service' \in Seq(Process) /\ Len(service') = Len(service) /\ DOMAIN service' = DOMAIN service
      /\ \A p \in DOMAIN service : service'[p].state \in Alive => service[p].state \in Alive
  <2>1. CASE service[pid].state \in {"starting", "serving"}
    <3>1. pid \in DOMAIN service /\ service' = [service EXCEPT ![pid].state = Ended(pid)]
      BY <1>1, <1>2, <2>1 DEF DownTerminates, PidRunning
    <3>2. Ended(pid) \in ServiceStates /\ Ended(pid) \notin Alive
      BY <3>1, EndedIsAState
    <3> HIDE DEF pid
    <3> QED
      BY <3>1, <3>2, OneProcess DEF EnvironmentInv
  <2>2. CASE service[pid].state \notin {"starting", "serving"}
    BY <2>2 DEF DownTerminates, EnvironmentInv, EnvironmentOK
  <2> QED
    BY <2>1, <2>2
<1>5. EnvironmentOK'
  BY <1>1, <1>2, <1>3, <1>4 DEF EnvironmentInv, EnvironmentOK
<1> QED
  BY <1>1, <1>3, <1>4, <1>5, ToolIsNoOperator DEF EnvironmentInv, OnlyTheKnownLive, OperatorsLook

(* Gone is not alive, and nothing else was. *)
LEMMA DownMissesInv ==
    ASSUME EnvironmentInv, DownMisses(Tool)
    PROVE  EnvironmentInv'
<1> DEFINE next == [call[Tool] EXCEPT !.at = "clearing"]
<1>1. /\ call[Tool].at \in {"signalling", "killing"} /\ onFile' = onFile /\ ~PidRunning(call[Tool].pid)
      /\ \/ call' = [call EXCEPT ![Tool] = next] /\ service' = service
         \/ Return(Tool, "error")
  BY DEF DownMisses
<1>2. CASE Return(Tool, "error")
  <2>1. EnvironmentOK'
    BY <1>1, <1>2, ReturnOK, ToolIsNoOperator DEF EnvironmentInv, EnvironmentOK, Answers
  <2> QED
    BY <1>1, <1>2, <2>1, ReturnOK, ToolIsNoOperator
       DEF EnvironmentInv, OnlyTheKnownLive, OperatorsLook, Answers
<1>3. CASE call' = [call EXCEPT ![Tool] = next] /\ service' = service
  <2>1. call[Tool] \in Call /\ call[Tool].pid \in 0..Len(service)
    BY ToolIsNoOperator DEF EnvironmentInv, EnvironmentOK, Call
  <2>2. next \in Call /\ next.at = "clearing" /\ next.pid = call[Tool].pid
    BY <2>1 DEF Call, CallLabels
  <2> HIDE DEF next
  <2>3. /\ EnvironmentOK'
        /\ call'[Tool] = next /\ \A b \in Actors \ {Tool} : call'[b] = call[b]
    BY <1>1, <1>3, <2>1, <2>2, CallGoesOn, ToolIsNoOperator DEF EnvironmentInv, EnvironmentOK
  <2>4. \A p \in DOMAIN service : service[p].state \notin Alive
    BY <1>1, <2>1 DEF PidRunning, EnvironmentInv, EnvironmentOK, OnlyTheKnownLive, Alive
  <2> QED
    BY <1>1, <1>3, <2>2, <2>3, <2>4, ToolIsNoOperator DEF EnvironmentInv, OnlyTheKnownLive, OperatorsLook
<1> QED
  BY <1>1, <1>2, <1>3

(* SIGKILL leaves nothing alive, since nothing else was. *)
LEMMA DownKillsInv ==
    ASSUME EnvironmentInv, DownKills(Tool)
    PROVE  EnvironmentInv'
<1> DEFINE pid == call[Tool].pid
<1>1. /\ call[Tool].at = "killing" /\ onFile' = onFile
      /\ call' = [call EXCEPT ![Tool] = [call[Tool] EXCEPT !.at = "clearing"]]
  BY DEF DownKills
<1>2. call[Tool] \in Call /\ pid \in 0..Len(service) /\ DOMAIN service = 1..Len(service)
  BY ToolIsNoOperator DEF EnvironmentInv, EnvironmentOK, Call
<1>3. /\ call' \in [Actors -> Call] /\ call'[Tool].at = "clearing" /\ call'[Tool].pid = pid
      /\ \A b \in Actors \ {Tool} : call'[b] = call[b]
  BY <1>1, <1>2, ToolIsNoOperator DEF EnvironmentInv, EnvironmentOK, Call, CallLabels
<1>4. /\ service' \in Seq(Process) /\ Len(service') = Len(service) /\ DOMAIN service' = DOMAIN service
      /\ \A p \in DOMAIN service : service'[p].state \notin Alive
  <2>1. \A p \in DOMAIN service : service[p].state \in Alive => p = pid
    BY <1>1 DEF EnvironmentInv, OnlyTheKnownLive
  <2>2. CASE pid > 0 /\ service[pid].state \in Alive
    <3>1. pid \in DOMAIN service /\ service' = [service EXCEPT ![pid].state = Ended(pid)]
      BY <1>2, <2>2 DEF DownKills, EnvironmentInv, EnvironmentOK
    <3>2. Ended(pid) \in ServiceStates /\ Ended(pid) \notin Alive
      BY <3>1, EndedIsAState
    <3>3. /\ service' \in Seq(Process) /\ Len(service') = Len(service)
          /\ DOMAIN service' = DOMAIN service /\ service'[pid].state = Ended(pid)
          /\ \A q \in DOMAIN service : q # pid => service'[q] = service[q]
      <4> HIDE DEF pid
      <4> QED
        BY <3>1, <3>2, OneProcess DEF EnvironmentInv
    <3> QED
      BY <2>1, <3>2, <3>3
  <2>3. CASE ~(pid > 0 /\ service[pid].state \in Alive)
    BY <1>2, <2>1, <2>3 DEF DownKills, EnvironmentInv, EnvironmentOK
  <2> QED
    BY <2>2, <2>3
<1>5. EnvironmentOK'
  BY <1>1, <1>2, <1>3, <1>4 DEF EnvironmentInv, EnvironmentOK
<1> QED
  BY <1>1, <1>3, <1>4, <1>5, ToolIsNoOperator DEF EnvironmentInv, OnlyTheKnownLive, OperatorsLook

LEMMA DownClearsInv ==
    ASSUME EnvironmentInv, DownClears(Tool)
    PROVE  EnvironmentInv'
<1>1. call[Tool].at = "clearing" /\ onFile' = 0 /\ \A p \in DOMAIN service : service[p].state \notin Alive
  BY DEF DownClears, EnvironmentInv, OnlyTheKnownLive
<1>2. CASE call[Tool].again
  <2>1. service' = service /\ call' = [call EXCEPT ![Tool] = [AtRest EXCEPT !.at = "up"]]
    BY <1>2 DEF DownClears
  <2>2. [AtRest EXCEPT !.at = "up"] \in Call /\ [AtRest EXCEPT !.at = "up"].at = "up"
        /\ [AtRest EXCEPT !.at = "up"].pid = 0
    BY DEF AtRest, Call, CallLabels, Answers
  <2>3. /\ call' \in [Actors -> Call] /\ call'[Tool].at = "up" /\ call'[Tool].pid = 0
        /\ \A b \in Actors \ {Tool} : call'[b] = call[b]
    BY <2>1, <2>2, ToolIsNoOperator DEF EnvironmentInv, EnvironmentOK
  <2>4. EnvironmentOK'
    BY <1>1, <2>1, <2>3 DEF EnvironmentInv, EnvironmentOK
  <2> QED
    BY <1>1, <2>1, <2>3, <2>4, ToolIsNoOperator DEF EnvironmentInv, OnlyTheKnownLive, OperatorsLook
<1>3. CASE ~call[Tool].again
  <2>1. Return(Tool, "stopped") /\ "stopped" \in Answers
    BY <1>3 DEF DownClears, Answers
  <2>2. EnvironmentOK'
    BY <1>1, <2>1, ReturnOK, ToolIsNoOperator DEF EnvironmentInv, EnvironmentOK
  <2> QED
    BY <1>1, <2>1, <2>2, ReturnOK, ToolIsNoOperator DEF EnvironmentInv, OnlyTheKnownLive, OperatorsLook
<1> QED
  BY <1>2, <1>3

(* A process changes its state by itself. *)
LEMMA EnvironmentStepInv ==
    ASSUME EnvironmentInv, EnvironmentStep
    PROVE  EnvironmentInv'
<1>1. UNCHANGED <<onFile, call>>
  BY DEF EnvironmentStep, ServiceStarts, ServiceHangs, ServiceEnds, ServeWaits
<1>2. /\ service' \in Seq(Process) /\ Len(service') = Len(service) /\ DOMAIN service' = DOMAIN service
      /\ \A p \in DOMAIN service : service'[p].state \in Alive => service[p].state \in Alive
  <2>1. ASSUME NEW p \in DOMAIN service, NEW state \in ServiceStates, service[p].state \in Alive,
               service' = [service EXCEPT ![p].state = state]
        PROVE  <1>2
    BY <2>1, OneProcess DEF EnvironmentInv
  <2>2. {"serving", "hung"} \subseteq ServiceStates
    BY DEF ServiceStates, Alive
  <2>3. CASE \E p \in DOMAIN service : ServiceStarts(p)
    BY <2>1, <2>2, <2>3 DEF ServiceStarts, Alive
  <2>4. CASE \E p \in DOMAIN service : ServiceHangs(p)
    BY <2>1, <2>2, <2>4 DEF ServiceHangs, Alive
  <2>5. CASE \E p \in DOMAIN service : ServiceEnds(p)
    BY <2>1, <2>5, EndedIsAState DEF ServiceEnds
  <2>6. CASE ServeWaits
    BY <2>6, WaitedOK DEF ServeWaits, EnvironmentInv
  <2> QED
    BY <2>3, <2>4, <2>5, <2>6 DEF EnvironmentStep
<1> QED
  BY <1>1, <1>2 DEF EnvironmentInv, EnvironmentOK, OnlyTheKnownLive, OperatorsLook

(* A command that dies leaves what it saw. *)
LEMMA CommandDiesInv ==
    ASSUME EnvironmentInv, NEW a \in Actors, CommandDies(a)
    PROVE  EnvironmentInv'
<1>1. a \in Operators /\ Return(a, "error") /\ onFile' = onFile /\ "error" \in Answers
  BY DEF CommandDies, Answers
<1>2. EnvironmentOK'
  BY <1>1, ReturnOK DEF EnvironmentInv, EnvironmentOK
<1>3. OnlyTheKnownLive'
  BY <1>1, ReturnOK, ToolIsNoOperator DEF EnvironmentInv, OnlyTheKnownLive
<1>4. OperatorsLook'
  BY <1>1, ReturnOK, ToolIsNoOperator DEF EnvironmentInv, OperatorsLook
<1> QED
  BY <1>2, <1>3, <1>4 DEF EnvironmentInv

(* Whoever acts on the environment: commands only look. *)
LEMMA ActorStepInv ==
    ASSUME EnvironmentInv, NEW a \in Actors, ActorStep(a)
    PROVE  EnvironmentInv'
<1>1. CASE Looks(a) \/ CommandDies(a)
  BY <1>1, LooksInv, CommandDiesInv
<1>2. CASE a = Tool /\ ~Looks(a) /\ ~CommandDies(a)
  BY <1>2, UpChecksInv, UpSpawnsInv, UpFailsInv, UpWritesInv, UpPollsInv, DownLooksInv,
     DownTerminatesInv, DownKillsInv, DownMissesInv, DownClearsInv DEF ActorStep
<1>3. CASE a # Tool /\ ~Looks(a) /\ ~CommandDies(a)
  <2>1. call[a].at \in {"rest", "looking"}
    BY <1>3 DEF Actors, EnvironmentInv, OperatorsLook
  <2> QED
    BY <1>3, <2>1 DEF ActorStep, UpChecks, UpSpawns, UpFails, UpWrites, UpPolls, DownLooks,
                      DownTerminates, DownKills, DownMisses, DownClears
<1> QED
  BY <1>1, <1>2, <1>3

LEMMA CallToolInv ==
    ASSUME EnvironmentInv, NEW tool, CallTool(tool)
    PROVE  EnvironmentInv'
<1>1. CASE tool \in EnvironmentTools
  <2>1. PICK c \in Call : /\ c.pid = 0 /\ c.at \in {"looking", "up", "down"}
                          /\ call[Tool].at = "rest" /\ call' = [call EXCEPT ![Tool] = c]
                          /\ UNCHANGED <<service, onFile>>
    <3>1. /\ [AtRest EXCEPT !.at = "looking"] \in Call
          /\ [AtRest EXCEPT !.at = "up"] \in Call
          /\ [AtRest EXCEPT !.at = "down", !.again = FALSE] \in Call
          /\ [AtRest EXCEPT !.at = "down", !.again = TRUE] \in Call
      BY DEF AtRest, Call, CallLabels, Answers
    <3>2. CallHealth(Tool) \/ CallUp(Tool) \/ CallDown(Tool, FALSE) \/ CallDown(Tool, TRUE)
      BY <1>1 DEF CallTool, EnvironmentTools
    <3>3. \A c : c = [AtRest EXCEPT !.at = "looking"] \/ c = [AtRest EXCEPT !.at = "up"]
                 \/ c = [AtRest EXCEPT !.at = "down", !.again = FALSE]
                 \/ c = [AtRest EXCEPT !.at = "down", !.again = TRUE]
                   => c.pid = 0 /\ c.at \in {"looking", "up", "down"}
      BY DEF AtRest
    <3> QED
      BY <3>1, <3>2, <3>3 DEF CallHealth, CallUp, CallDown
  <2> QED
    BY <2>1, ToolBegins
<1>2. CASE tool \notin EnvironmentTools
  <2>1. UNCHANGED evars
    BY <1>2 DEF CallTool, EnvironmentTools
  <2> QED
    BY <2>1 DEF evars, EnvironmentInv, EnvironmentOK, OnlyTheKnownLive, OperatorsLook
<1> QED
  BY <1>1, <1>2

LEMMA AfterToolInv ==
    ASSUME EnvironmentInv, NEW tools, AfterTool(tools)
    PROVE  EnvironmentInv'
<1>1. AtRest \in Call /\ AtRest.pid = 0 /\ AtRest.at = "rest"
  BY DEF AtRest, Call, CallLabels, Answers
<1> QED
  BY <1>1, ToolBegins DEF AfterTool

(* A step of the task that leaves its environment alone. *)
LEMMA RoleSteps ==
    ASSUME \/ \E fitting \in Fitting : StartTask(fitting)
           \/ \E tokens \in Tokens :
                 \/ PlannerAnswers(tokens) \/ WorkerAnswers(tokens)
                 \/ CriticAccepts(tokens) \/ CriticRejects(tokens)
                 \/ SynthesizerAnswers(tokens)
           \/ RoleFails \/ TimeRunsOut \/ DeleteTask
    PROVE  UNCHANGED wvars
  BY DEF StartTask, PlannerAnswers, WorkerAnswers, CriticAccepts, CriticRejects, SynthesizerAnswers,
         RoleFails, TimeRunsOut, DeleteTask, Answering

LEMMA ToolReturnsAfter ==
    ASSUME ToolReturns
    PROVE  \E tools : AfterTool(tools)
  BY DEF ToolReturns, EnvironmentToolReturns, QueryReturns, SweepReturns, UiToolReturns, AssertReturns,
         DeliverReturns, CommentReturns, ToolFails

LEMMA EnvironmentSteps ==
    ASSUME Commands \subseteq {"health"}, EnvironmentInv, [Next]_vars
    PROVE  EnvironmentInv'
<1>1. CASE UNCHANGED evars
  BY <1>1 DEF evars, EnvironmentInv, EnvironmentOK, OnlyTheKnownLive, OperatorsLook
<1>2. CASE \E tool \in Offered : CallTool(tool)
  BY <1>2, CallToolInv
<1>3. CASE ToolReturns
  BY <1>3, ToolReturnsAfter, AfterToolInv
<1>4. CASE \E a \in Actors : ActorStep(a)
  BY <1>4, ActorStepInv
<1>5. CASE EnvironmentStep
  BY <1>5, EnvironmentStepInv
<1>6. CASE \E a \in Operators, command \in Commands : OperatorCalls(a, command)
  <2>1. PICK a \in Operators : CallHealth(a)
    BY <1>6 DEF OperatorCalls
  <2> QED
    BY <2>1, CallHealthInv, ToolIsNoOperator
<1>7. CASE UNCHANGED wvars
  BY <1>1, <1>7 DEF wvars, evars
<1> QED
  BY <1>1, <1>2, <1>3, <1>4, <1>5, <1>6, <1>7, RoleSteps DEF Next, vars, wvars, evars

(* A service that still lives when nobody is at the environment is the one  *)
(* on file, so that `env down` and the next up find it, as long as commands *)
(* only look at the environment (up, down; RuntimeManager).                 *)
THEOREM ServicesStayKnown ==
    ASSUME Commands \subseteq {"health"}
    PROVE  Spec => []ServicesAreOnFile
<1>1. Init => EnvironmentInv
  BY EnvironmentStarts DEF Init
<1>2. EnvironmentInv /\ [Next]_vars => EnvironmentInv'
  BY EnvironmentSteps
<1>3. EnvironmentInv => ServicesAreOnFile
  BY ToolIsNoOperator DEF EnvironmentInv, OnlyTheKnownLive, ServicesAreOnFile
<1> QED
  BY <1>1, <1>2, <1>3, PTL DEF Spec

-----------------------------------------------------------------------------
(* The roles and their budget *)

Roles == {"planner", "worker", "critic", "synthesizer"}

Run ==
    [at : {"idle", "role", "tool", "done", "failed"}, squad : DOMAIN BranchesOf, role : Roles,
     worker : Nat, round : Nat, asked : Offered \cup {"none"}, traced : Nat,
     latest : Seq(Nat), rejected : Seq(Nat), accepted : Seq(Nat),
     decision : {"keep", "accept", "rework"}, status : {"running", "partial", "completed"},
     tokens : Nat, calls : Nat, late : BOOLEAN, over : Seq(Roles)]

(* What was started over budget, by the role that is at work: a budget that *)
(* is used up stays used up.                                                *)
OverBudget ==
    /\ run.role \in {"worker", "critic"} => run.over = <<>>
    /\ run.role = "planner" => run.over = <<>> \/ (run.over = <<"planner">> /\ Exhausted(run))
    /\ run.role = "synthesizer" => FewRolesOverBudget

RolesInv == run \in Run /\ artifacts \in Seq(Recorded) /\ OverBudget

LEMMA IdleIsARun == Idle \in Run
<1>1. "general" \in DOMAIN BranchesOf
  BY DEF BranchesOf
<1> QED
  BY <1>1 DEF Idle, Run, Roles

LEMMA SquadForIsASquad ==
    ASSUME NEW fitting \in Fitting PROVE SquadFor(fitting) \in DOMAIN BranchesOf
<1>1. "general" \in DOMAIN BranchesOf /\ fitting \in DOMAIN BranchesOf
  BY DEF BranchesOf
<1>2. CASE Stored = ""
  BY <1>1, <1>2 DEF SquadFor
<1>3. CASE Stored # "" /\ Stored \in DOMAIN BranchesOf
  BY <1>1, <1>3 DEF SquadFor
<1>4. CASE Stored # "" /\ Stored \notin DOMAIN BranchesOf
  BY <1>1, <1>4 DEF SquadFor
<1> QED
  BY <1>2, <1>3, <1>4

(* What a role consumed: a budget that was used up is used up still. *)
LEMMA ConsumedRun ==
    ASSUME NEW r \in Run, NEW tokens \in Tokens
    PROVE  LET c == Consumed(r, tokens)
           IN  /\ c \in Run
               /\ Exhausted(r) => Exhausted(c)
               /\ c.over = r.over /\ c.latest = r.latest /\ c.accepted = r.accepted
               /\ c.decision = r.decision /\ c.status = r.status /\ c.role = r.role
<1> DEFINE total == r.tokens + tokens
           called == r.calls + r.traced
           c == [r EXCEPT !.tokens = total, !.calls = called]
<1>1. Consumed(r, tokens) = c
  BY DEF Consumed, Run
<1>2. tokens \in Nat /\ r.tokens \in Nat /\ r.calls \in Nat /\ r.traced \in Nat
  BY DEF Run
<1>3. /\ c \in Run
      /\ c.tokens = r.tokens + tokens /\ c.calls = r.calls + r.traced /\ c.late = r.late
  <2>1. total \in Nat /\ called \in Nat
    BY <1>2
  <2> HIDE DEF total, called
  <2>2. c \in Run /\ c.tokens = total /\ c.calls = called /\ c.late = r.late
    BY <2>1 DEF Run
  <2> QED
    BY <2>2 DEF total, called
<1>4. TokenBudget \in Nat /\ CallBudget \in Nat
  OBVIOUS
<1>5. Exhausted(r) => Exhausted(c)
  BY <1>2, <1>3, <1>4 DEF Exhausted
<1>6. /\ c.over = r.over /\ c.latest = r.latest /\ c.accepted = r.accepted
      /\ c.decision = r.decision /\ c.status = r.status /\ c.role = r.role
  BY DEF Run
<1> QED
  BY <1>1, <1>3, <1>5, <1>6

(* A role that is started. *)
LEMMA AsksRun ==
    ASSUME NEW r \in Run, NEW role \in Roles
    PROVE  LET a == Asks(r, role)
           IN  /\ a \in Run
               /\ a.at = "role" /\ a.role = role
               /\ a.over = IF Exhausted(r) THEN Append(r.over, role) ELSE r.over
               /\ a.tokens = r.tokens /\ a.calls = r.calls /\ a.late = r.late
               /\ a.latest = r.latest /\ a.accepted = r.accepted
               /\ a.decision = r.decision /\ a.status = r.status
<1> DEFINE over == IF Exhausted(r) THEN Append(r.over, role) ELSE r.over
           a == [r EXCEPT !.at = "role", !.role = role, !.traced = 0, !.over = over]
<1>1. Asks(r, role) = a
  BY DEF Asks, Run
<1>2. over \in Seq(Roles)
  BY DEF Run
<1> HIDE DEF over
<1>3. /\ a \in Run /\ a.at = "role" /\ a.role = role /\ a.over = over
      /\ a.tokens = r.tokens /\ a.calls = r.calls /\ a.late = r.late
      /\ a.latest = r.latest /\ a.accepted = r.accepted /\ a.decision = r.decision /\ a.status = r.status
  BY <1>2 DEF Run
<1> HIDE DEF a
<1> QED
  BY <1>1, <1>3 DEF over

(* The synthesizer that is started. *)
LEMMA ConvergeRun ==
    ASSUME NEW r \in Run
    PROVE  LET c == Converge(r)
           IN  /\ c \in Run
               /\ c.at = "role" /\ c.role = "synthesizer"
               /\ c.over = IF Exhausted(r) THEN Append(r.over, "synthesizer") ELSE r.over
               /\ r.accepted # <<>> \/ r.latest = <<>> => c.accepted = r.accepted
               /\ c.decision = r.decision /\ c.status = r.status
<1> DEFINE first == IF r.latest = <<>> THEN <<>> ELSE <<Head(r.latest)>>
           accepted == IF r.accepted = <<>> THEN first ELSE r.accepted
           b == [r EXCEPT !.accepted = accepted]
<1>1. Converge(r) = Asks(b, "synthesizer")
  BY DEF Converge, Run
<1>2. first \in Seq(Nat)
  <2>1. r.latest \in Seq(Nat)
    BY DEF Run
  <2> QED
    BY <2>1
<1>3. accepted \in Seq(Nat) /\ (r.accepted # <<>> \/ r.latest = <<>> => accepted = r.accepted)
  BY <1>2 DEF Run
<1> HIDE DEF accepted
<1>4. /\ b \in Run /\ b.accepted = accepted /\ b.over = r.over
      /\ b.tokens = r.tokens /\ b.calls = r.calls /\ b.late = r.late
      /\ b.decision = r.decision /\ b.status = r.status
  BY <1>3 DEF Run
<1> HIDE DEF b
<1>5. Exhausted(b) = Exhausted(r)
  BY <1>4 DEF Exhausted
<1>6. "synthesizer" \in Roles
  BY DEF Roles
<1> QED
  BY <1>1, <1>3, <1>4, <1>5, <1>6, AsksRun

LEMMA StopsShortRun ==
    ASSUME NEW r \in Run
    PROVE  LET c == StopsShort(r)
           IN  /\ c \in Run
               /\ c.at = "role" /\ c.role = "synthesizer"
               /\ c.over = IF Exhausted(r) THEN Append(r.over, "synthesizer") ELSE r.over
               /\ c.decision = r.decision /\ c.status = "partial"
<1> DEFINE b == [r EXCEPT !.status = "partial"]
<1>1. /\ b \in Run /\ b.over = r.over /\ b.decision = r.decision /\ b.status = "partial"
      /\ b.tokens = r.tokens /\ b.calls = r.calls /\ b.late = r.late
  BY DEF Run
<1>2. StopsShort(r) = Converge(b)
  BY DEF StopsShort
<1> HIDE DEF b
<1>3. Exhausted(b) = Exhausted(r)
  BY <1>1 DEF Exhausted
<1> QED
  BY <1>1, <1>2, <1>3, ConvergeRun

LEMMA RecordedKinds ==
    /\ \A tool \in DOMAIN KindOf : KindOf[tool] \in ToolKinds
    /\ ToolKinds \cap RoleKinds = {}
  BY DEF ToolKinds, KindOf, RoleKinds

LEMMA Started ==
    /\ Append(<<>>, "planner") = <<"planner">>
    /\ Append(<<>>, "synthesizer") = <<"synthesizer">>
    /\ Append(<<"planner">>, "synthesizer") = <<"planner", "synthesizer">>
<1>1. Append(<<>>, "planner") = <<"planner">> /\ Append(<<>>, "synthesizer") = <<"synthesizer">>
  OBVIOUS
<1>2. Append(<<"planner">>, "synthesizer") = <<"planner">> \o <<"synthesizer">>
  OBVIOUS
<1>3. <<"planner", "synthesizer">> = <<"planner">> \o <<"synthesizer">>
  OBVIOUS
<1> QED
  BY <1>1, <1>2, <1>3

(* What a role makes of the run it answers. *)
LEMMA PlannerRun ==
    ASSUME RolesInv, NEW tokens \in Tokens, PlannerAnswers(tokens)
    PROVE  /\ run' \in Run /\ OverBudget'
           /\ run'.at = "role" /\ run'.decision = run.decision
           /\ \/ run'.role = "synthesizer" /\ run'.status = "partial"
              \/ /\ run'.role = "worker" /\ run'.latest = <<>>
                 /\ run'.status = run.status /\ run'.accepted = run.accepted
<1> DEFINE r == Consumed(run, tokens)
           one == 1
           none == <<>>
           n == [r EXCEPT !.worker = one, !.latest = none]
<1>1. /\ run.role = "planner" /\ run \in Run
      /\ run' = IF Exhausted(r) THEN StopsShort(r) ELSE Asks(n, "worker")
  BY DEF PlannerAnswers, Answering, RolesInv
<1>2. /\ r \in Run
      /\ Exhausted(run) => Exhausted(r)
      /\ r.over = run.over /\ r.decision = run.decision /\ r.status = run.status /\ r.accepted = run.accepted
  BY <1>1, ConsumedRun
<1>3. run.over = <<>> \/ (run.over = <<"planner">> /\ Exhausted(run))
  BY <1>1 DEF RolesInv, OverBudget
<1> HIDE DEF r
<1>4. CASE Exhausted(r)
  <2>1. run' = StopsShort(r)
    BY <1>1, <1>4
  <2>2. /\ run' \in Run /\ run'.at = "role" /\ run'.role = "synthesizer" /\ run'.status = "partial"
        /\ run'.decision = run.decision /\ run'.over = Append(run.over, "synthesizer")
    BY <1>2, <1>4, <2>1, StopsShortRun
  <2>3. run'.over = <<"synthesizer">> \/ run'.over = <<"planner", "synthesizer">>
    BY <1>3, <2>2, Started
  <2> QED
    BY <2>2, <2>3 DEF OverBudget, FewRolesOverBudget
<1>5. CASE ~Exhausted(r)
  <2>1. /\ n \in Run /\ n.latest = <<>> /\ n.over = r.over /\ n.decision = r.decision
        /\ n.status = r.status /\ n.accepted = r.accepted
        /\ n.tokens = r.tokens /\ n.calls = r.calls /\ n.late = r.late
    <3>1. one \in Nat /\ none \in Seq(Nat) /\ none = <<>>
      OBVIOUS
    <3> HIDE DEF one, none
    <3> QED
      BY <1>2, <3>1 DEF Run
  <2> HIDE DEF n
  <2>2. ~Exhausted(n)
    BY <1>5, <2>1 DEF Exhausted
  <2>3. "worker" \in Roles
    BY DEF Roles
  <2>4. /\ run' \in Run /\ run'.at = "role" /\ run'.role = "worker" /\ run'.latest = <<>>
        /\ run'.decision = run.decision /\ run'.over = run.over
        /\ run'.status = run.status /\ run'.accepted = run.accepted
    BY <1>1, <1>2, <1>5, <2>1, <2>2, <2>3, AsksRun
  <2> QED
    BY <1>2, <1>3, <1>5, <2>4 DEF OverBudget
<1> QED
  BY <1>4, <1>5

LEMMA WorkerRun ==
    ASSUME RolesInv, NEW tokens \in Tokens, WorkerAnswers(tokens)
    PROVE  LET worked == Append(artifacts, Artifact("work", FALSE))
           IN  /\ run' \in Run /\ OverBudget'
               /\ run'.at = "role" /\ run'.decision = run.decision
               /\ \/ run'.role = "synthesizer" /\ run'.status = "partial" /\ artifacts' = worked
                  \/ /\ run'.role \in {"worker", "critic"}
                     /\ run'.latest = Append(run.latest, Len(artifacts) + 1)
                     /\ run'.status = run.status /\ run'.accepted = run.accepted
                     /\ artifacts' = worked \/ artifacts' = Append(worked, Validation)
<1> DEFINE c == Consumed(run, tokens)
           latest == Append(run.latest, Len(artifacts) + 1)
           r == [c EXCEPT !.latest = latest]
           n == [r EXCEPT !.worker = r.worker + 1]
           worked == Append(artifacts, Artifact("work", FALSE))
<1>1. /\ run.role = "worker" /\ run \in Run /\ run.over = <<>> /\ artifacts \in Seq(Recorded)
  BY DEF WorkerAnswers, Answering, RolesInv, OverBudget
<1>2. c \in Run
  BY <1>1, ConsumedRun
<1>3. /\ c.latest = run.latest /\ c.over = <<>> /\ c.decision = run.decision /\ c.status = run.status
      /\ c.accepted = run.accepted
  BY <1>1, ConsumedRun
<1>4. latest \in Seq(Nat)
  BY <1>1 DEF Run
<1>5. \/ Exhausted(r) /\ artifacts' = worked /\ run' = StopsShort(r)
      \/ ~Exhausted(r) /\ artifacts' = worked /\ run' = Asks(n, "worker")
      \/ ~Exhausted(r) /\ artifacts' = Append(worked, Validation) /\ run' = Asks(r, "critic")
  <2>1. [Consumed(run, tokens) EXCEPT !.latest = Append(@, Len(artifacts) + 1)] = r
    BY <1>3
  <2>2. [r EXCEPT !.worker = @ + 1] = n
    OBVIOUS
  <2> QED
    BY <2>1, <2>2 DEF WorkerAnswers
<1> HIDE DEF c, latest
<1>6. /\ r \in Run /\ r.latest = latest /\ r.over = <<>> /\ r.decision = run.decision
      /\ r.status = run.status /\ r.accepted = run.accepted
  BY <1>2, <1>3, <1>4 DEF Run
<1> HIDE DEF r
<1>7. /\ n \in Run /\ n.latest = latest /\ n.over = <<>> /\ n.decision = run.decision
      /\ n.status = run.status /\ n.accepted = run.accepted /\ Exhausted(n) = Exhausted(r)
  <2>1. r.worker + 1 \in Nat
    BY <1>6 DEF Run
  <2> QED
    BY <1>6, <2>1 DEF Run, Exhausted
<1> HIDE DEF n, worked
<1>8. {"worker", "critic"} \subseteq Roles
  BY DEF Roles
<1>9. CASE Exhausted(r) /\ artifacts' = worked /\ run' = StopsShort(r)
  <2>1. /\ run' \in Run /\ run'.at = "role" /\ run'.role = "synthesizer" /\ run'.status = "partial"
        /\ run'.decision = run.decision /\ run'.over = Append(r.over, "synthesizer")
    BY <1>6, <1>9, StopsShortRun
  <2>2. run'.over = <<"synthesizer">>
    BY <1>6, <2>1
  <2> QED
    BY <1>9, <2>1, <2>2 DEF OverBudget, FewRolesOverBudget, worked
<1>10. CASE ~Exhausted(r) /\ artifacts' = worked /\ run' = Asks(n, "worker")
  <2>1. /\ run' \in Run /\ run'.at = "role" /\ run'.role = "worker" /\ run'.latest = latest
        /\ run'.decision = run.decision /\ run'.over = <<>>
        /\ run'.status = run.status /\ run'.accepted = run.accepted
    BY <1>7, <1>8, <1>10, AsksRun
  <2> QED
    BY <1>10, <2>1 DEF OverBudget, worked, latest
<1>11. CASE ~Exhausted(r) /\ artifacts' = Append(worked, Validation) /\ run' = Asks(r, "critic")
  <2>1. /\ run' \in Run /\ run'.at = "role" /\ run'.role = "critic" /\ run'.latest = latest
        /\ run'.decision = run.decision /\ run'.over = <<>>
        /\ run'.status = run.status /\ run'.accepted = run.accepted
    BY <1>6, <1>8, <1>11, AsksRun
  <2> QED
    BY <1>11, <2>1 DEF OverBudget, worked, latest
<1> QED
  BY <1>5, <1>9, <1>10, <1>11

LEMMA CriticAcceptsRun ==
    ASSUME RolesInv, NEW tokens \in Tokens, CriticAccepts(tokens)
    PROVE  /\ run' \in Run /\ OverBudget'
           /\ run'.at = "role" /\ run'.role = "synthesizer" /\ run'.decision = "accept"
           /\ run'.accepted = run.latest /\ run'.status = run.status
<1> DEFINE c == Consumed(run, tokens)
           none == <<>>
           r == [c EXCEPT !.accepted = c.latest, !.decision = "accept", !.rejected = none]
<1>1. /\ run.role = "critic" /\ run \in Run /\ run.over = <<>> /\ run' = Converge(r)
  BY DEF CriticAccepts, Answering, RolesInv, OverBudget
<1>2. c \in Run /\ c.latest = run.latest /\ c.over = <<>> /\ c.status = run.status
  BY <1>1, ConsumedRun
<1>3. none \in Seq(Nat) /\ c.latest \in Seq(Nat)
  BY <1>2 DEF Run
<1> HIDE DEF c, none
<1>4. /\ r \in Run /\ r.latest = run.latest /\ r.accepted = run.latest /\ r.over = <<>>
      /\ r.status = run.status /\ r.decision = "accept"
  BY <1>2, <1>3 DEF Run
<1> HIDE DEF r
<1>5. /\ run' \in Run /\ run'.at = "role" /\ run'.role = "synthesizer" /\ run'.decision = "accept"
      /\ run'.accepted = run.latest /\ run'.status = run.status
      /\ run'.over = IF Exhausted(r) THEN Append(r.over, "synthesizer") ELSE r.over
  BY <1>1, <1>4, ConvergeRun
<1>6. run'.over = <<>> \/ run'.over = <<"synthesizer">>
  BY <1>4, <1>5, Started
<1> QED
  BY <1>5, <1>6 DEF OverBudget, FewRolesOverBudget

LEMMA CriticRejectsRun ==
    ASSUME RolesInv, NEW tokens \in Tokens, CriticRejects(tokens)
    PROVE  /\ run' \in Run /\ OverBudget'
           /\ run'.at = "role" /\ run'.decision = "rework"
           /\ \/ run'.role = "synthesizer" /\ run'.status = "partial"
              \/ run'.role = "planner" /\ run'.status = run.status /\ run'.accepted = run.accepted
<1> DEFINE c == Consumed(run, tokens)
           r == [c EXCEPT !.decision = "rework", !.rejected = run.latest]
           n == [r EXCEPT !.round = r.round + 1]
<1>1. /\ run.role = "critic" /\ run \in Run /\ run.over = <<>>
      /\ run' = IF r.round < Rounds THEN Asks(n, "planner") ELSE StopsShort(r)
  BY DEF CriticRejects, Answering, RolesInv, OverBudget
<1>2. c \in Run /\ c.over = <<>> /\ c.status = run.status /\ c.accepted = run.accepted
  BY <1>1, ConsumedRun
<1>3. run.latest \in Seq(Nat)
  BY <1>1 DEF Run
<1> HIDE DEF c
<1>4. /\ r \in Run /\ r.over = <<>> /\ r.status = run.status /\ r.decision = "rework"
      /\ r.accepted = run.accepted
  BY <1>2, <1>3 DEF Run
<1> HIDE DEF r
<1>5. CASE r.round < Rounds
  <2>1. /\ n \in Run /\ n.over = <<>> /\ n.status = run.status /\ n.decision = "rework"
        /\ n.accepted = run.accepted /\ Exhausted(n) = Exhausted(r)
    <3>1. r.round + 1 \in Nat
      BY <1>4 DEF Run
    <3> QED
      BY <1>4, <3>1 DEF Run, Exhausted
  <2>2. run' = Asks(n, "planner") /\ "planner" \in Roles
    BY <1>1, <1>5 DEF Roles
  <2> HIDE DEF n
  <2>3. /\ run' \in Run /\ run'.at = "role" /\ run'.role = "planner" /\ run'.decision = "rework"
        /\ run'.status = run.status /\ run'.accepted = run.accepted
        /\ run'.over = IF Exhausted(n) THEN Append(n.over, "planner") ELSE n.over
        /\ run'.tokens = n.tokens /\ run'.calls = n.calls /\ run'.late = n.late
    <3> DEFINE a == Asks(n, "planner")
    <3>1. /\ a \in Run /\ a.at = "role" /\ a.role = "planner"
          /\ a.over = IF Exhausted(n) THEN Append(n.over, "planner") ELSE n.over
          /\ a.tokens = n.tokens /\ a.calls = n.calls /\ a.late = n.late
          /\ a.accepted = n.accepted /\ a.decision = n.decision /\ a.status = n.status
      <4>1. n \in Run /\ "planner" \in Roles
        BY <2>1, <2>2
      <4> QED
        BY ONLY <4>1, AsksRun
    <3> HIDE DEF a
    <3>2. run' = a
      BY <2>2 DEF a
    <3> QED
      BY <2>1, <3>1, <3>2
  <2>4. run'.over = <<>> \/ (run'.over = <<"planner">> /\ Exhausted(run'))
    BY <2>1, <2>3, Started DEF Exhausted
  <2> QED
    BY <2>3, <2>4 DEF OverBudget, Exhausted
<1>6. CASE ~(r.round < Rounds)
  <2>1. /\ run' \in Run /\ run'.at = "role" /\ run'.role = "synthesizer" /\ run'.status = "partial"
        /\ run'.decision = "rework"
        /\ run'.over = IF Exhausted(r) THEN Append(r.over, "synthesizer") ELSE r.over
    BY <1>1, <1>4, <1>6, StopsShortRun
  <2>2. run'.over = <<>> \/ run'.over = <<"synthesizer">>
    BY <1>4, <2>1, Started
  <2> QED
    BY <2>1, <2>2 DEF OverBudget, FewRolesOverBudget
<1> QED
  BY <1>5, <1>6

LEMMA SynthesizerRun ==
    ASSUME RolesInv, NEW tokens \in Tokens, SynthesizerAnswers(tokens)
    PROVE  /\ run' \in Run /\ OverBudget'
           /\ run'.at = "done" /\ run'.role = "synthesizer" /\ run'.decision = run.decision
           /\ run'.accepted = run.accepted
           /\ run.status = "partial" => run'.status = "partial"
           /\ run.status = "running" /\ run.decision = "accept" => run'.status = "completed"
           /\ row' = IF row.there
                       THEN [row EXCEPT !.status = run'.status, !.decision = run'.decision,
                                        !.accepted = run'.accepted, !.rejected = Consumed(run, tokens).rejected]
                       ELSE row
<1> DEFINE c == Consumed(run, tokens)
           status == CASE c.status # "running" -> c.status
                       [] c.status = "running" /\ c.decision = "accept" -> "completed"
                       [] OTHER -> "partial"
           r == [c EXCEPT !.at = "done", !.status = status]
<1>1. /\ run.role = "synthesizer" /\ run \in Run /\ FewRolesOverBudget /\ run' = r
      /\ row' = IF row.there
                   THEN [row EXCEPT !.status = status, !.decision = c.decision,
                                    !.accepted = c.accepted, !.rejected = c.rejected]
                   ELSE row
  BY DEF SynthesizerAnswers, Answering, RolesInv, OverBudget, UpdateTask
<1>2. /\ c \in Run /\ c.over = run.over /\ c.status = run.status /\ c.decision = run.decision
      /\ c.accepted = run.accepted /\ c.role = "synthesizer"
  BY <1>1, ConsumedRun
<1>3. /\ c.status # "running" => status = c.status
      /\ c.status = "running" /\ c.decision = "accept" => status = "completed"
      /\ c.status = "running" /\ c.decision # "accept" => status = "partial"
  OBVIOUS
<1>4. status \in {"running", "partial", "completed"}
  BY <1>2, <1>3 DEF Run
<1> HIDE DEF c, status
<1>5. /\ r \in Run /\ r.at = "done" /\ r.status = status /\ r.role = "synthesizer"
      /\ r.over = run.over /\ r.decision = c.decision /\ r.accepted = c.accepted
  BY <1>2, <1>4 DEF Run
<1> HIDE DEF r
<1>6. OverBudget'
  BY <1>1, <1>5 DEF OverBudget, FewRolesOverBudget
<1> QED
  BY <1>1, <1>2, <1>3, <1>5, <1>6 DEF c

(* A task that goes on: a tool is called or returns, its time runs out, or  *)
(* a role fails.                                                            *)
GoesOn ==
    /\ run.at \in {"role", "tool"} /\ run'.at \in {"role", "tool", "failed"}
    /\ run' \in Run
    /\ run'.role = run.role /\ run'.over = run.over /\ run'.latest = run.latest
    /\ run'.accepted = run.accepted /\ run'.decision = run.decision /\ run'.status = run.status
    /\ run'.tokens = run.tokens /\ run'.calls = run.calls /\ (run.late => run'.late)

LEMMA GoesOnInBudget == ASSUME OverBudget, GoesOn PROVE OverBudget'
  BY DEF OverBudget, GoesOn, Exhausted, FewRolesOverBudget

LEMMA FailsGoesOn == ASSUME run \in Run, RoleFails PROVE GoesOn
<1> DEFINE n == [run EXCEPT !.at = "failed"]
<1>1. run' = n /\ run.at = "role"
  BY DEF RoleFails, Answering
<1>2. /\ n \in Run /\ n.at = "failed" /\ n.role = run.role /\ n.over = run.over
      /\ n.latest = run.latest /\ n.accepted = run.accepted /\ n.decision = run.decision
      /\ n.status = run.status /\ n.tokens = run.tokens /\ n.calls = run.calls /\ n.late = run.late
  BY DEF Run
<1> QED
  BY <1>1, <1>2 DEF GoesOn

LEMMA LateGoesOn == ASSUME run \in Run, TimeRunsOut PROVE GoesOn
<1> DEFINE n == [run EXCEPT !.late = TRUE]
<1>1. run' = n /\ run.at \in {"role", "tool"}
  BY DEF TimeRunsOut
<1>2. /\ n \in Run /\ n.at = run.at /\ n.role = run.role /\ n.over = run.over
      /\ n.latest = run.latest /\ n.accepted = run.accepted /\ n.decision = run.decision
      /\ n.status = run.status /\ n.tokens = run.tokens /\ n.calls = run.calls /\ n.late = TRUE
  BY DEF Run
<1> QED
  BY <1>1, <1>2 DEF GoesOn

LEMMA CallGoesOnRun == ASSUME run \in Run, NEW tool \in Offered, CallTool(tool) PROVE GoesOn
<1> DEFINE n == [run EXCEPT !.at = "tool", !.asked = tool]
<1>1. run' = n /\ run.at = "role"
  BY DEF CallTool
<1>2. /\ n \in Run /\ n.at = "tool" /\ n.role = run.role /\ n.over = run.over
      /\ n.latest = run.latest /\ n.accepted = run.accepted /\ n.decision = run.decision
      /\ n.status = run.status /\ n.tokens = run.tokens /\ n.calls = run.calls /\ n.late = run.late
  BY DEF Run
<1> QED
  BY <1>1, <1>2 DEF GoesOn

LEMMA ReturnGoesOn == ASSUME run \in Run, NEW tools, AfterTool(tools) PROVE GoesOn
<1> DEFINE traced == run.traced + 1
           n == [run EXCEPT !.at = "role", !.asked = "none", !.traced = traced]
<1>1. run' = n /\ run.at = "tool"
  BY DEF AfterTool, Run
<1>2. traced \in Nat
  BY DEF Run
<1> HIDE DEF traced
<1>3. /\ n \in Run /\ n.at = "role" /\ n.role = run.role /\ n.over = run.over
      /\ n.latest = run.latest /\ n.accepted = run.accepted /\ n.decision = run.decision
      /\ n.status = run.status /\ n.tokens = run.tokens /\ n.calls = run.calls /\ n.late = run.late
  BY <1>2 DEF Run
<1> QED
  BY <1>1, <1>3 DEF GoesOn

(* A tool that returns records an artifact of its kind, or none, and says   *)
(* of the row nothing but the manifest, the validation and its summaries.   *)
NotesInRow(kind, ok) ==
    /\ row'.there = row.there
    /\ row.there =>
         /\ row'.manifest = [row.manifest EXCEPT ![kind] =
               LET items == Append(row.manifest[kind], Len(artifacts) + 1)
               IN  IF Len(items) > ManifestSize THEN Tail(items) ELSE items]
         /\ row'.validation = IF kind = "assertion" THEN Asserted(ok) ELSE row.validation

Notes == \E kind \in ToolKinds, ok \in BOOLEAN :
            artifacts' = Append(artifacts, Artifact(kind, ok)) /\ NotesInRow(kind, ok)

SaysNothing ==
    /\ artifacts' = artifacts
    /\ row'.there = row.there
    /\ row.there => row'.manifest = row.manifest /\ row'.validation = row.validation

StartsTask ==
    \E fitting \in Fitting :
        /\ run.at = "idle" /\ row' = NewRow /\ artifacts' = artifacts
        /\ run' = Asks([run EXCEPT !.squad = SquadFor(fitting), !.round = 1], "planner")

LEMMA StartsTaskRun ==
    ASSUME run = Idle, StartsTask
    PROVE  /\ run' \in Run /\ OverBudget'
           /\ run'.at = "role" /\ run'.role = "planner" /\ run'.decision = "keep"
           /\ run'.status = "running" /\ run'.accepted = <<>>
<1> PICK fitting \in Fitting :
        run' = Asks([run EXCEPT !.squad = SquadFor(fitting), !.round = 1], "planner")
  BY DEF StartsTask
<1> DEFINE squad == SquadFor(fitting)
           one == 1
           n == [Idle EXCEPT !.squad = squad, !.round = one]
<1>1. squad \in DOMAIN BranchesOf /\ one \in Nat /\ "planner" \in Roles
  BY SquadForIsASquad DEF Roles
<1>2. run' = Asks(n, "planner")
  OBVIOUS
<1> HIDE DEF squad, one
<1>3. Idle.over = <<>> /\ Idle.decision = "keep" /\ Idle.status = "running" /\ Idle.accepted = <<>>
  BY DEF Idle
<1>4. /\ n \in Run /\ n.over = <<>> /\ n.decision = "keep" /\ n.status = "running" /\ n.accepted = <<>>
  BY <1>1, <1>3, IdleIsARun DEF Run
<1> HIDE DEF n
<1>5. /\ run' \in Run /\ run'.at = "role" /\ run'.role = "planner" /\ run'.decision = "keep"
      /\ run'.status = "running" /\ run'.accepted = <<>>
      /\ run'.over = IF Exhausted(n) THEN Append(n.over, "planner") ELSE n.over
      /\ run'.tokens = n.tokens /\ run'.calls = n.calls /\ run'.late = n.late
  <2> DEFINE a == Asks(n, "planner")
  <2>1. /\ a \in Run /\ a.at = "role" /\ a.role = "planner"
        /\ a.over = IF Exhausted(n) THEN Append(n.over, "planner") ELSE n.over
        /\ a.tokens = n.tokens /\ a.calls = n.calls /\ a.late = n.late
        /\ a.accepted = n.accepted /\ a.decision = n.decision /\ a.status = n.status
    <3>1. n \in Run /\ "planner" \in Roles
      BY <1>1, <1>4
    <3> QED
      BY ONLY <3>1, AsksRun
  <2> HIDE DEF a
  <2>2. run' = a
    BY <1>2 DEF a
  <2> QED
    BY <1>4, <2>1, <2>2
<1>6. run'.over = <<>> \/ (run'.over = <<"planner">> /\ Exhausted(run'))
  BY <1>4, <1>5, Started DEF Exhausted
<1> QED
  BY <1>5, <1>6 DEF OverBudget, Exhausted

-----------------------------------------------------------------------------
(* The row *)

(* The rows, by what the tools report: environment, delivery and comments. *)
Rows(environment, sha, reviews) ==
    [there : BOOLEAN, status : {"none", "running", "partial", "completed"},
     decision : {"none", "keep", "accept", "rework"}, accepted : Seq(Nat), rejected : Seq(Nat),
     validation : {"pending", "passed", "failed"}, manifest : [ToolKinds -> Seq(Nat)],
     environment : {environment}, delivered : {sha}, comments : {reviews}]

RowOK == \E environment, sha, reviews : row \in Rows(environment, sha, reviews)

LEMMA NewRows ==
    /\ NoRow \in Rows("none", 0, <<>>) /\ NoRow.there = FALSE
    /\ NewRow \in Rows("provisioned", 0, <<>>) /\ NewRow.there = TRUE
    /\ NewRow.validation = "pending" /\ NewRow.manifest = [k \in ToolKinds |-> <<>>]
<1> DEFINE none == <<>>
           empty == [k \in ToolKinds |-> none]
<1>1. none \in Seq(Nat)
  OBVIOUS
<1> HIDE DEF none
<1>2. empty \in [ToolKinds -> Seq(Nat)]
  BY <1>1
<1> HIDE DEF empty
<1>3. NoRow = [there |-> FALSE, status |-> "none", decision |-> "none", accepted |-> none,
               rejected |-> none, validation |-> "pending", manifest |-> empty,
               environment |-> "none", delivered |-> 0, comments |-> none]
  BY DEF NoRow, none, empty
<1>4. /\ NoRow \in Rows("none", 0, none) /\ NoRow.there = FALSE
      /\ NoRow.validation = "pending" /\ NoRow.manifest = empty
  BY <1>1, <1>2, <1>3 DEF Rows
<1>5. /\ NewRow \in Rows("provisioned", 0, none) /\ NewRow.there = TRUE
      /\ NewRow.validation = "pending" /\ NewRow.manifest = empty
  BY <1>4 DEF Rows, NewRow
<1> QED
  BY <1>4, <1>5 DEF none, empty

(* The manifest with one more item. *)
LEMMA ListedItems ==
    ASSUME row.manifest \in [ToolKinds -> Seq(Nat)], artifacts \in Seq(Recorded),
           NEW tool \in DOMAIN KindOf
    PROVE  LET kind == KindOf[tool]
               items == Append(row.manifest[kind], Len(artifacts) + 1)
           IN  /\ kind \in ToolKinds /\ Listed(tool) \in [ToolKinds -> Seq(Nat)]
               /\ Listed(tool) = [row.manifest EXCEPT ![kind] =
                                   IF Len(items) > ManifestSize THEN Tail(items) ELSE items]
<1> DEFINE kind == KindOf[tool]
           items == Append(row.manifest[kind], Len(artifacts) + 1)
           listed == IF Len(items) > ManifestSize THEN Tail(items) ELSE items
<1>1. kind \in ToolKinds
  BY RecordedKinds
<1>2. items \in Seq(Nat) /\ items # <<>>
  <2>1. row.manifest[kind] \in Seq(Nat) /\ Len(artifacts) + 1 \in Nat
    BY <1>1, LenProperties
  <2> QED
    BY ONLY <2>1, AppendProperties
<1>3. Listed(tool) = [row.manifest EXCEPT ![kind] = listed]
  BY DEF Listed
<1> HIDE DEF items, kind
<1>4. listed \in Seq(Nat)
  BY <1>2
<1> HIDE DEF listed
<1>5. Listed(tool) \in [ToolKinds -> Seq(Nat)]
  BY <1>1, <1>3, <1>4
<1> QED
  BY <1>1, <1>3, <1>5 DEF listed, items, kind

(* The kinds of the tools. *)
LEMMA ToolsByKind ==
    /\ DOMAIN KindOf = {"up", "restart", "open", "navigate", "snapshot", "screenshot", "assert",
                        "deliver", "sweep"}
    /\ \A tool \in DOMAIN KindOf : KindOf[tool] = "assertion" <=> tool = "assert"
  BY DEF KindOf

(* The row after a tool that recorded an artifact. *)
LEMMA RowNoted ==
    ASSUME RowOK, artifacts \in Seq(Recorded), NEW tool \in DOMAIN KindOf, NEW ok \in BOOLEAN,
           NEW r, UpdateTask(r), \E e, sha, c : r \in Rows(e, sha, c),
           r.there = row.there, r.manifest = Listed(tool),
           r.validation = IF tool = "assert" THEN Asserted(ok) ELSE row.validation,
           artifacts' = Append(artifacts, Artifact(KindOf[tool], ok))
    PROVE  Notes /\ RowOK'
<1>1. row' = IF row.there THEN r ELSE row
  BY DEF UpdateTask
<1>2. RowOK'
  BY <1>1 DEF RowOK
<1>3. row.manifest \in [ToolKinds -> Seq(Nat)]
  BY DEF RowOK, Rows
<1> DEFINE kind == KindOf[tool]
           items == Append(row.manifest[kind], Len(artifacts) + 1)
<1>4. /\ kind \in ToolKinds
      /\ Listed(tool) = [row.manifest EXCEPT ![kind] =
                          IF Len(items) > ManifestSize THEN Tail(items) ELSE items]
  BY <1>3, ListedItems
<1>5. kind = "assertion" <=> tool = "assert"
  BY ToolsByKind
<1> HIDE DEF kind
<1>6. NotesInRow(kind, ok)
  BY <1>1, <1>4, <1>5 DEF NotesInRow
<1> QED
  BY <1>2, <1>4, <1>6 DEF Notes, kind

LEMMA EnvironmentToolNotes ==
    ASSUME RowOK, artifacts \in Seq(Recorded), EnvironmentToolReturns
    PROVE  (Notes \/ SaysNothing) /\ RowOK'
<1> DEFINE tool == run.asked
           e == call[Tool].status
           r == [row EXCEPT !.environment = e, !.manifest = Listed(tool)]
<1>1. tool \in EnvironmentTools /\ RecordOf(tool, TRUE) /\ UpdateTask(r)
  BY DEF EnvironmentToolReturns, AfterTool
<1>2. row.manifest \in [ToolKinds -> Seq(Nat)]
  BY DEF RowOK, Rows
<1>3. PICK sha, c, e0 : row \in Rows(e0, sha, c)
  BY DEF RowOK
<1>4. CASE tool \in DOMAIN KindOf
  <2>1. Listed(tool) \in [ToolKinds -> Seq(Nat)]
    BY <1>2, <1>4, ListedItems
  <2>2. artifacts' = Append(artifacts, Artifact(KindOf[tool], TRUE))
    BY <1>1, <1>4 DEF RecordOf, Record
  <2>3. tool # "assert"
    BY <1>1 DEF EnvironmentTools
  <2> HIDE DEF tool, e
  <2>4. /\ r \in Rows(e, sha, c) /\ r.there = row.there /\ r.manifest = Listed(tool)
        /\ r.validation = row.validation
    BY <1>3, <2>1 DEF Rows
  <2> HIDE DEF r
  <2> QED
    BY <1>1, <1>4, <2>2, <2>3, <2>4, RowNoted
<1>5. CASE tool \notin DOMAIN KindOf
  <2>1. artifacts' = artifacts /\ Listed(tool) = row.manifest
    BY <1>1, <1>5 DEF RecordOf, Listed
  <2> HIDE DEF tool, e
  <2>2. /\ r \in Rows(e, sha, c) /\ r.there = row.there /\ r.manifest = row.manifest
        /\ r.validation = row.validation
    BY <1>2, <1>3, <2>1 DEF Rows
  <2> HIDE DEF r
  <2> QED
    BY <1>1, <2>1, <2>2 DEF UpdateTask, SaysNothing, RowOK
<1> QED
  BY <1>4, <1>5

LEMMA SweepNotes ==
    ASSUME RowOK, artifacts \in Seq(Recorded), SweepReturns
    PROVE  Notes /\ RowOK'
<1> DEFINE listed == Listed("sweep")
           r == [row EXCEPT !.manifest = listed]
<1>1. /\ "sweep" \in DOMAIN KindOf /\ UpdateTask(r)
      /\ artifacts' = Append(artifacts, Artifact(KindOf["sweep"], TRUE))
  BY ToolsByKind DEF SweepReturns, RecordOf, Record
<1>2. listed \in [ToolKinds -> Seq(Nat)]
  BY <1>1, ListedItems DEF RowOK, Rows
<1>3. PICK e, sha, c : row \in Rows(e, sha, c)
  BY DEF RowOK
<1> HIDE DEF listed
<1>4. /\ r \in Rows(e, sha, c) /\ r.there = row.there /\ r.manifest = listed
      /\ r.validation = row.validation
  BY <1>2, <1>3 DEF Rows
<1> HIDE DEF r
<1> QED
  BY <1>1, <1>4, RowNoted DEF listed

LEMMA UiToolNotes ==
    ASSUME RowOK, artifacts \in Seq(Recorded), UiToolReturns
    PROVE  Notes /\ RowOK'
<1> DEFINE tool == run.asked
           listed == Listed(tool)
           r == [row EXCEPT !.manifest = listed]
<1>1. /\ tool \in DOMAIN KindOf /\ tool # "assert" /\ UpdateTask(r)
      /\ artifacts' = Append(artifacts, Artifact(KindOf[tool], TRUE))
  BY ToolsByKind DEF UiToolReturns, AfterTool, UiTools, RecordOf, Record
<1>2. listed \in [ToolKinds -> Seq(Nat)]
  BY <1>1, ListedItems DEF RowOK, Rows
<1>3. PICK e, sha, c : row \in Rows(e, sha, c)
  BY DEF RowOK
<1> HIDE DEF listed, tool
<1>4. /\ r \in Rows(e, sha, c) /\ r.there = row.there /\ r.manifest = listed
      /\ r.validation = row.validation
  BY <1>2, <1>3 DEF Rows
<1> HIDE DEF r
<1> QED
  BY <1>1, <1>4, RowNoted DEF listed

LEMMA AssertNotes ==
    ASSUME RowOK, artifacts \in Seq(Recorded), NEW ok \in BOOLEAN, AssertReturns(ok)
    PROVE  Notes /\ RowOK'
<1> DEFINE listed == Listed("assert")
           asserted == Asserted(ok)
           r == [row EXCEPT !.manifest = listed, !.validation = asserted]
<1>1. /\ "assert" \in DOMAIN KindOf /\ UpdateTask(r)
      /\ artifacts' = Append(artifacts, Artifact(KindOf["assert"], ok))
  BY ToolsByKind DEF AssertReturns, RecordOf, Record
<1>2. listed \in [ToolKinds -> Seq(Nat)] /\ asserted \in {"pending", "passed", "failed"}
  BY <1>1, ListedItems DEF RowOK, Rows, Asserted
<1>3. PICK e, sha, c : row \in Rows(e, sha, c)
  BY DEF RowOK
<1> HIDE DEF listed, asserted
<1>4. /\ r \in Rows(e, sha, c) /\ r.there = row.there /\ r.manifest = listed
      /\ r.validation = asserted
  BY <1>2, <1>3 DEF Rows
<1> HIDE DEF r
<1> QED
  BY <1>1, <1>4, RowNoted DEF listed, asserted

LEMMA DeliverNotes ==
    ASSUME RowOK, artifacts \in Seq(Recorded), DeliverReturns
    PROVE  Notes /\ RowOK'
<1> DEFINE listed == Listed("deliver")
           sha == delivery[Task].sha
           r == [row EXCEPT !.manifest = listed, !.delivered = sha, !.comments = comments]
<1>1. /\ "deliver" \in DOMAIN KindOf /\ UpdateTask(r)
      /\ artifacts' = Append(artifacts, Artifact(KindOf["deliver"], TRUE))
  BY ToolsByKind DEF DeliverReturns, RecordOf, Record
<1>2. listed \in [ToolKinds -> Seq(Nat)]
  BY <1>1, ListedItems DEF RowOK, Rows
<1>3. PICK e, sha0, c : row \in Rows(e, sha0, c)
  BY DEF RowOK
<1> HIDE DEF listed, sha
<1>4. /\ r \in Rows(e, sha, comments) /\ r.there = row.there /\ r.manifest = listed
      /\ r.validation = row.validation
  BY <1>2, <1>3 DEF Rows
<1> HIDE DEF r
<1> QED
  BY <1>1, <1>4, RowNoted DEF listed

LEMMA CommentSaysNothing ==
    ASSUME RowOK, CommentReturns
    PROVE  SaysNothing /\ RowOK'
<1> DEFINE r == [row EXCEPT !.comments = comments']
<1>1. UpdateTask(r) /\ artifacts' = artifacts
  BY DEF CommentReturns
<1>2. PICK e, sha, c : row \in Rows(e, sha, c)
  BY DEF RowOK
<1>3. /\ r \in Rows(e, sha, comments') /\ r.there = row.there /\ r.manifest = row.manifest
      /\ r.validation = row.validation
  BY <1>2 DEF Rows
<1> HIDE DEF r
<1> QED
  BY <1>1, <1>3 DEF UpdateTask, SaysNothing, RowOK

LEMMA ToolReturnsNotes ==
    ASSUME RowOK, artifacts \in Seq(Recorded), ToolReturns
    PROVE  (Notes \/ SaysNothing) /\ RowOK'
<1>1. CASE QueryReturns \/ ToolFails
  BY <1>1 DEF QueryReturns, ToolFails, SaysNothing, RowOK
<1> QED
  BY <1>1, EnvironmentToolNotes, SweepNotes, UiToolNotes, AssertNotes, DeliverNotes, CommentSaysNothing
     DEF ToolReturns

(* The steps of the task, and all others, which leave it alone. *)
LEMMA TaskSteps ==
    ASSUME run \in Run, artifacts \in Seq(Recorded), RowOK, [Next]_vars
    PROVE  \/ UNCHANGED <<row, artifacts, run>>
           \/ StartsTask
           \/ \E tokens \in Tokens :
                 \/ PlannerAnswers(tokens) \/ WorkerAnswers(tokens)
                 \/ CriticAccepts(tokens) \/ CriticRejects(tokens)
                 \/ SynthesizerAnswers(tokens)
           \/ DeleteTask
           \/ GoesOn /\ (Notes \/ SaysNothing) /\ RowOK'
<1>1. CASE UNCHANGED svars \/ UNCHANGED vars
  BY <1>1 DEF svars, vars, wvars
<1>2. CASE \E fitting \in Fitting : StartTask(fitting)
  BY <1>2 DEF StartTask, StartsTask
<1>3. CASE RoleFails \/ TimeRunsOut \/ \E tool \in Offered : CallTool(tool)
  <2>1. GoesOn
    BY <1>3, FailsGoesOn, LateGoesOn, CallGoesOnRun
  <2>2. UNCHANGED <<row, artifacts>>
    BY <1>3 DEF RoleFails, TimeRunsOut, CallTool
  <2> QED
    BY <2>1, <2>2 DEF SaysNothing, RowOK
<1>4. CASE ToolReturns
  BY <1>4, ToolReturnsAfter, ReturnGoesOn, ToolReturnsNotes
<1> QED
  BY <1>1, <1>2, <1>3, <1>4 DEF Next

(* What a role records. *)
LEMMA RoleRecords ==
    ASSUME artifacts \in Seq(Recorded), NEW kind \in RoleKinds, NEW ok \in BOOLEAN,
           Record(artifacts, kind, ok)
    PROVE  /\ artifacts' \in Seq(Recorded) /\ Len(artifacts') = Len(artifacts) + 1
           /\ Grown(artifacts, artifacts', Len(artifacts) + 1, kind, ok)
  BY RecordedGrow DEF Record

(* The outputs that the critic accepts are flagged. *)
LEMMA FlagsRecords ==
    ASSUME artifacts \in Seq(Recorded), NEW ids
    PROVE  LET next == Flagged(ids)
           IN  /\ next = [i \in DOMAIN artifacts |-> next[i]]
               /\ \A i \in DOMAIN artifacts :
                     /\ next[i] \in Recorded /\ next[i].kind = artifacts[i].kind
                     /\ IF \E n \in DOMAIN ids : ids[n] = i
                          THEN next[i].accepted = TRUE ELSE next[i].accepted = artifacts[i].accepted
<1>1. \A i \in DOMAIN artifacts : artifacts[i] \in Recorded
  OBVIOUS
<1>2. \A a \in Recorded : /\ [a EXCEPT !.accepted = TRUE] \in Recorded
                          /\ [a EXCEPT !.accepted = TRUE].kind = a.kind
                          /\ [a EXCEPT !.accepted = TRUE].accepted = TRUE
  BY DEF Recorded
<1> DEFINE next == Flagged(ids)
<1>3. \A i \in DOMAIN artifacts :
        next[i] = IF \E n \in DOMAIN ids : ids[n] = i
                  THEN [artifacts[i] EXCEPT !.accepted = TRUE] ELSE artifacts[i]
  BY DEF Flagged
<1>4. next = [i \in DOMAIN artifacts |-> next[i]]
  BY DEF Flagged
<1> HIDE DEF next
<1>5. ASSUME NEW i \in DOMAIN artifacts
      PROVE  /\ next[i] \in Recorded /\ next[i].kind = artifacts[i].kind
             /\ IF \E n \in DOMAIN ids : ids[n] = i
                  THEN next[i].accepted = TRUE ELSE next[i].accepted = artifacts[i].accepted
  <2>1. CASE \E n \in DOMAIN ids : ids[n] = i
    <3>1. next[i] = [artifacts[i] EXCEPT !.accepted = TRUE]
      BY <1>3, <2>1
    <3> QED
      BY <1>1, <1>2, <2>1, <3>1
  <2>2. CASE ~\E n \in DOMAIN ids : ids[n] = i
    <3>1. next[i] = artifacts[i]
      BY <1>3, <2>2
    <3> QED
      BY <1>1, <2>2, <3>1
  <2> QED
    BY <2>1, <2>2
<1> QED
  BY <1>4, <1>5 DEF next

LEMMA DeletedRecords ==
    ASSUME artifacts \in Seq(Recorded), DeleteTask
    PROVE  /\ artifacts' = [i \in DOMAIN artifacts |-> artifacts'[i]]
           /\ \A i \in DOMAIN artifacts :
                 /\ artifacts'[i] \in Recorded /\ artifacts'[i].kind = artifacts[i].kind
                 /\ artifacts'[i].accepted = artifacts[i].accepted
<1>1. \A i \in DOMAIN artifacts : artifacts[i] \in Recorded
  OBVIOUS
<1>2. \A a \in Recorded : /\ [a EXCEPT !.there = FALSE] \in Recorded
                          /\ [a EXCEPT !.there = FALSE].kind = a.kind
                          /\ [a EXCEPT !.there = FALSE].accepted = a.accepted
  BY DEF Recorded
<1>3. artifacts' = [i \in DOMAIN artifacts |-> [artifacts[i] EXCEPT !.there = FALSE]]
  BY DEF DeleteTask
<1> QED
  BY <1>1, <1>2, <1>3

(* The task before it is started. *)
NotStarted == run.at = "idle" => run = Idle /\ artifacts = <<>> /\ ~row.there

TaskInv == RolesInv /\ RowOK /\ NotStarted

LEMMA TaskStarts == Init => TaskInv
<1> SUFFICES ASSUME Init PROVE TaskInv
  OBVIOUS
<1>1. row = NoRow /\ artifacts = <<>> /\ run = Idle
  BY DEF Init, SwarmInit
<1>2. RowOK /\ ~row.there
  BY <1>1, NewRows DEF RowOK
<1>3. OverBudget
  BY <1>1 DEF OverBudget, Idle
<1> QED
  BY <1>1, <1>2, <1>3, IdleIsARun DEF TaskInv, RolesInv, NotStarted

(* A worker records its output, and the last one the validation. *)
LEMMA WorkRecords ==
    ASSUME artifacts \in Seq(Recorded)
    PROVE  LET worked == Append(artifacts, Artifact("work", FALSE))
               n == Len(artifacts) + 1
               valid == ~row.there \/ row.validation # "failed"
           IN  /\ worked \in Seq(Recorded) /\ Len(worked) = n
               /\ Grown(artifacts, worked, n, "work", FALSE)
               /\ Append(worked, Validation) \in Seq(Recorded)
               /\ Len(Append(worked, Validation)) = n + 1
               /\ Grown(worked, Append(worked, Validation), n + 1, "validation", valid)
<1> DEFINE worked == Append(artifacts, Artifact("work", FALSE))
           n == Len(artifacts) + 1
           valid == ~row.there \/ row.validation # "failed"
<1>1. {"work", "validation"} \subseteq RoleKinds \cup ToolKinds /\ valid \in BOOLEAN
  BY DEF RoleKinds
<1>2. worked \in Seq(Recorded) /\ Len(worked) = n /\ Grown(artifacts, worked, n, "work", FALSE)
  BY <1>1, RecordedGrow
<1>3. Validation = Artifact("validation", valid)
  BY DEF Validation
<1> HIDE DEF worked, n, valid
<1>4. /\ Append(worked, Validation) \in Seq(Recorded) /\ Len(Append(worked, Validation)) = n + 1
      /\ Grown(worked, Append(worked, Validation), n + 1, "validation", valid)
  BY <1>1, <1>2, <1>3, RecordedGrow
<1> QED
  BY <1>2, <1>4 DEF worked, n, valid

LEMMA TaskInvStep ==
    ASSUME TaskInv, [Next]_vars
    PROVE  TaskInv'
<1>1. run \in Run /\ artifacts \in Seq(Recorded) /\ OverBudget /\ RolesInv /\ RowOK
  BY DEF TaskInv, RolesInv
<1>2. RoleKinds \subseteq RoleKinds \cup ToolKinds /\ {"plan", "review", "final"} \subseteq RoleKinds
  BY DEF RoleKinds
<1>3. CASE UNCHANGED <<row, artifacts, run>>
  BY <1>3 DEF TaskInv, RolesInv, OverBudget, Exhausted, FewRolesOverBudget, RowOK, NotStarted, Idle
<1>4. CASE StartsTask
  <2>1. run = Idle /\ row' = NewRow /\ artifacts' = artifacts
    BY <1>4 DEF StartsTask, TaskInv, NotStarted
  <2>2. run' \in Run /\ OverBudget' /\ run'.at = "role"
    BY <1>4, <2>1, StartsTaskRun
  <2>3. RowOK'
    BY <2>1, NewRows DEF RowOK
  <2> QED
    BY <1>1, <2>1, <2>2, <2>3 DEF TaskInv, RolesInv, NotStarted
<1>5. ASSUME NEW tokens \in Tokens, PlannerAnswers(tokens) PROVE TaskInv'
  <2>1. run' \in Run /\ OverBudget' /\ run'.at = "role"
    BY <1>1, <1>5, PlannerRun
  <2>2. artifacts' \in Seq(Recorded) /\ row' = row
    BY <1>1, <1>2, <1>5, RoleRecords DEF PlannerAnswers
  <2> QED
    BY <1>1, <2>1, <2>2 DEF TaskInv, RolesInv, NotStarted, RowOK
<1>6. ASSUME NEW tokens \in Tokens, WorkerAnswers(tokens) PROVE TaskInv'
  <2>1. run' \in Run /\ OverBudget' /\ run'.at = "role"
    BY <1>1, <1>6, WorkerRun
  <2>2. artifacts' \in Seq(Recorded) /\ row' = row
    BY <1>1, <1>6, WorkRecords DEF WorkerAnswers
  <2> QED
    BY <1>1, <2>1, <2>2 DEF TaskInv, RolesInv, NotStarted, RowOK
<1>7. ASSUME NEW tokens \in Tokens, CriticAccepts(tokens) PROVE TaskInv'
  <2>1. run' \in Run /\ OverBudget' /\ run'.at = "role"
    BY <1>1, <1>7, CriticAcceptsRun
  <2> DEFINE next == Flagged(Consumed(run, tokens).latest)
  <2>2. next \in Seq(Recorded)
    <3>1. /\ next = [i \in DOMAIN artifacts |-> next[i]]
          /\ \A i \in DOMAIN artifacts : next[i] \in Recorded
      BY <1>1, FlagsRecords
    <3> HIDE DEF next
    <3>2. DOMAIN artifacts = 1..Len(artifacts) /\ Len(artifacts) \in Nat
      BY <1>1, LenProperties
    <3>3. next \in [1..Len(artifacts) -> Recorded]
      BY <3>1, <3>2
    <3> QED
      BY <3>2, <3>3
  <2>3. artifacts' = Append(next, Artifact("review", TRUE)) /\ row' = row
    BY <1>7 DEF CriticAccepts, Record
  <2> HIDE DEF next
  <2>4. artifacts' \in Seq(Recorded)
    BY <1>2, <2>2, <2>3, RecordedGrow
  <2> QED
    BY <1>1, <2>1, <2>3, <2>4 DEF TaskInv, RolesInv, NotStarted, RowOK
<1>8. ASSUME NEW tokens \in Tokens, CriticRejects(tokens) PROVE TaskInv'
  <2>1. run' \in Run /\ OverBudget' /\ run'.at = "role"
    BY <1>1, <1>8, CriticRejectsRun
  <2>2. artifacts' \in Seq(Recorded) /\ row' = row
    BY <1>1, <1>2, <1>8, RoleRecords DEF CriticRejects
  <2> QED
    BY <1>1, <2>1, <2>2 DEF TaskInv, RolesInv, NotStarted, RowOK
<1>9. ASSUME NEW tokens \in Tokens, SynthesizerAnswers(tokens) PROVE TaskInv'
  <2> DEFINE rejected == Consumed(run, tokens).rejected
             r == [row EXCEPT !.status = run'.status, !.decision = run'.decision,
                              !.accepted = run'.accepted, !.rejected = rejected]
  <2>1. run' \in Run /\ OverBudget' /\ run'.at = "done" /\ row' = IF row.there THEN r ELSE row
    BY <1>1, <1>9, SynthesizerRun
  <2>2. artifacts' \in Seq(Recorded)
    BY <1>1, <1>2, <1>9, RoleRecords DEF SynthesizerAnswers
  <2>3. rejected \in Seq(Nat)
    BY <1>1, ConsumedRun DEF Run
  <2>4. /\ run'.status \in {"running", "partial", "completed"} /\ run'.accepted \in Seq(Nat)
        /\ run'.decision \in {"keep", "accept", "rework"}
    BY <2>1 DEF Run
  <2>5. PICK e, sha, c : row \in Rows(e, sha, c)
    BY <1>1 DEF RowOK
  <2> HIDE DEF rejected
  <2>6. r \in Rows(e, sha, c)
    BY <2>3, <2>4, <2>5 DEF Rows
  <2> HIDE DEF r
  <2>7. RowOK'
    BY <1>1, <2>1, <2>6 DEF RowOK
  <2> QED
    BY <2>1, <2>2, <2>7 DEF TaskInv, RolesInv, NotStarted
<1>10. CASE DeleteTask
  <2>1. /\ artifacts' = [i \in DOMAIN artifacts |-> artifacts'[i]]
        /\ \A i \in DOMAIN artifacts :
              /\ artifacts'[i] \in Recorded /\ artifacts'[i].kind = artifacts[i].kind
              /\ artifacts'[i].accepted = artifacts[i].accepted
    BY <1>1, <1>10, DeletedRecords
  <2>2. artifacts' \in Seq(Recorded)
    BY <1>1, <2>1, KindsStay
  <2>3. run' = run /\ row.there /\ row' = [row EXCEPT !.there = FALSE]
    BY <1>10 DEF DeleteTask
  <2>4. RowOK'
    <3>1. PICK e, sha, c : row \in Rows(e, sha, c)
      BY <1>1 DEF RowOK
    <3>2. row' \in Rows(e, sha, c)
      BY <2>3, <3>1 DEF Rows
    <3> QED
      BY <3>2 DEF RowOK
  <2>5. OverBudget'
    BY <1>1, <2>3 DEF OverBudget, Exhausted, FewRolesOverBudget
  <2> QED
    BY <1>1, <2>2, <2>3, <2>4, <2>5 DEF TaskInv, RolesInv, NotStarted
<1>11. CASE GoesOn /\ (Notes \/ SaysNothing) /\ RowOK'
  <2>1. OverBudget'
    BY <1>1, <1>11, GoesOnInBudget
  <2>2. artifacts' \in Seq(Recorded)
    BY <1>1, <1>11, RecordedGrow DEF Notes, SaysNothing
  <2> QED
    BY <1>1, <1>11, <2>1, <2>2 DEF TaskInv, RolesInv, NotStarted, GoesOn
<1> QED
  BY <1>1, <1>3, <1>4, <1>5, <1>6, <1>7, <1>8, <1>9, <1>10, <1>11, TaskSteps

(* Once a budget is used up no worker and no critic is started: at most one *)
(* more planner and the synthesizer, whatever the rounds, branches, tools   *)
(* and budgets (_budget_exhausted).                                         *)
THEOREM BudgetsEndTheRounds == Spec => []FewRolesOverBudget
<1>1. TaskInv => FewRolesOverBudget
  BY DEF TaskInv, RolesInv, OverBudget, FewRolesOverBudget, Run, Roles
<1> QED
  BY <1>1, TaskStarts, TaskInvStep, PTL DEF Spec

-----------------------------------------------------------------------------
(* How a task ends *)

Elements(list) == {list[n] : n \in DOMAIN list}

(* Until the critic accepts no output is flagged; what it accepts is all of *)
(* the last round, and that is what the synthesizer is given and the row    *)
(* keeps.                                                                   *)
Undecided ==
    /\ FlaggedIn(artifacts) = {}
    /\ run.decision # "accept" /\ run.status = "running"

Accepted ==
    /\ run.decision = "accept" /\ run.status \in {"running", "completed"}
    /\ FlaggedIn(artifacts) = LastWorksIn(artifacts)
    /\ Elements(run.accepted) = LastWorksIn(artifacts)

Partial ==
    /\ run.decision # "accept" /\ run.status = "partial"
    /\ FlaggedIn(artifacts) = {}

Outcome ==
    /\ run.role \in {"planner", "worker", "critic"} => Undecided
    /\ run.role \in {"worker", "critic"} => Elements(run.latest) = LastWorksIn(artifacts)
    /\ run.role = "synthesizer" => Accepted \/ Partial
    /\ run.at # "done" => run.status # "completed"
    /\ run.at = "done" =>
         /\ run.role = "synthesizer" /\ run.status # "running"
         /\ row.there => /\ row.status = run.status /\ row.decision = run.decision
                         /\ row.accepted = run.accepted

LEMMA ElementsGrow ==
    ASSUME NEW list \in Seq(Nat), NEW n \in Nat
    PROVE  Elements(Append(list, n)) = Elements(list) \cup {n}
<1> DEFINE new == Append(list, n)
<1>1. new \in Seq(Nat) /\ Len(new) = Len(list) + 1 /\ new[Len(list) + 1] = n
  BY AppendProperties
<1>2. \A i \in 1..Len(list) : new[i] = list[i]
  BY AppendProperties
<1>3. Len(list) \in Nat /\ DOMAIN list = 1..Len(list)
  BY LenProperties
<1> HIDE DEF new
<1>4. DOMAIN new = 1..Len(new)
  BY <1>1, LenProperties
<1>5. DOMAIN new = DOMAIN list \cup {Len(list) + 1}
  BY <1>1, <1>3, <1>4
<1> DEFINE last == Len(list) + 1
<1>6. DOMAIN new = DOMAIN list \cup {last} /\ new[last] = n /\ \A i \in DOMAIN list : new[i] = list[i]
  BY <1>1, <1>2, <1>3, <1>5
<1> HIDE DEF last
<1>7. Elements(new) = Elements(list) \cup {n}
  BY ONLY <1>6 DEF Elements
<1> QED
  BY <1>7 DEF new

LEMMA OutcomeStarts == Init => Outcome
<1> SUFFICES ASSUME Init PROVE Outcome
  OBVIOUS
<1>1. artifacts = <<>> /\ run = Idle
  BY DEF Init, SwarmInit
<1>2. FlaggedIn(artifacts) = {}
  BY <1>1 DEF FlaggedIn, WorksIn
<1> QED
  BY <1>1, <1>2 DEF Outcome, Undecided, Idle

LEMMA OutcomeStep ==
    ASSUME TaskInv, Outcome, [Next]_vars
    PROVE  Outcome'
<1>1. run \in Run /\ artifacts \in Seq(Recorded) /\ RolesInv /\ RowOK
  BY DEF TaskInv, RolesInv
<1>2. CASE UNCHANGED <<row, artifacts, run>>
  BY <1>2 DEF Outcome, Undecided, Accepted, Partial
<1>3. CASE StartsTask
  <2>1. run = Idle /\ artifacts' = artifacts
    BY <1>3 DEF StartsTask, TaskInv, NotStarted
  <2>2. FlaggedIn(artifacts) = {}
    BY <2>1 DEF Outcome, Undecided, Idle
  <2>3. run'.at = "role" /\ run'.role = "planner" /\ run'.decision = "keep" /\ run'.status = "running"
    BY <1>3, <2>1, StartsTaskRun
  <2> QED
    BY <2>1, <2>2, <2>3 DEF Outcome, Undecided
<1>4. ASSUME NEW tokens \in Tokens, PlannerAnswers(tokens) PROVE Outcome'
  <2>1. /\ run.role = "planner" /\ run'.at = "role" /\ run'.decision = run.decision
        /\ \/ run'.role = "synthesizer" /\ run'.status = "partial"
           \/ /\ run'.role = "worker" /\ run'.latest = <<>>
              /\ run'.status = run.status /\ run'.accepted = run.accepted
    BY <1>1, <1>4, PlannerRun DEF PlannerAnswers, Answering
  <2>2. Grown(artifacts, artifacts', Len(artifacts) + 1, "plan", TRUE)
    BY <1>1, <1>4, RoleRecords DEF PlannerAnswers, RoleKinds
  <2>3. LastWorksIn(artifacts') = {} /\ FlaggedIn(artifacts') = FlaggedIn(artifacts)
    BY <2>2, WorksGrow
  <2>4. run'.latest = <<>> => Elements(run'.latest) = {}
    BY DEF Elements
  <2> QED
    BY <2>1, <2>3, <2>4 DEF Outcome, Undecided, Partial
<1>5. ASSUME NEW tokens \in Tokens, WorkerAnswers(tokens) PROVE Outcome'
  <2> DEFINE worked == Append(artifacts, Artifact("work", FALSE))
             n == Len(artifacts) + 1
             valid == ~row.there \/ row.validation # "failed"
  <2>1. /\ run.role = "worker" /\ run'.at = "role" /\ run'.decision = run.decision
        /\ \/ run'.role = "synthesizer" /\ run'.status = "partial" /\ artifacts' = worked
           \/ /\ run'.role \in {"worker", "critic"} /\ run'.latest = Append(run.latest, n)
              /\ run'.status = run.status /\ run'.accepted = run.accepted
              /\ artifacts' = worked \/ artifacts' = Append(worked, Validation)
    BY <1>1, <1>5, WorkerRun DEF WorkerAnswers, Answering
  <2>2. /\ Grown(artifacts, worked, n, "work", FALSE)
        /\ Grown(worked, Append(worked, Validation), n + 1, "validation", valid)
    BY <1>1, WorkRecords
  <2>3. n \in Nat /\ run.latest \in Seq(Nat)
    BY <1>1, LenProperties DEF Run
  <2> HIDE DEF worked, n, valid
  <2>4. LastWorksIn(worked) = LastWorksIn(artifacts) \cup {n} /\ FlaggedIn(worked) = FlaggedIn(artifacts)
    BY <2>2, WorksGrow
  <2>5. /\ LastWorksIn(Append(worked, Validation)) = LastWorksIn(worked)
        /\ FlaggedIn(Append(worked, Validation)) = FlaggedIn(worked)
    BY <2>2, WorksGrow
  <2>6. Elements(Append(run.latest, n)) = LastWorksIn(artifacts) \cup {n}
    BY <2>1, <2>3, ElementsGrow DEF Outcome
  <2>7. /\ LastWorksIn(artifacts') = LastWorksIn(artifacts) \cup {n}
        /\ FlaggedIn(artifacts') = FlaggedIn(artifacts)
    BY <2>1, <2>4, <2>5
  <2>8. /\ Undecided
        /\ \/ run'.role = "synthesizer" /\ run'.status = "partial"
           \/ /\ run'.role \in {"worker", "critic"} /\ run'.status = run.status
              /\ Elements(run'.latest) = LastWorksIn(artifacts')
    BY <2>1, <2>6, <2>7 DEF Outcome
  <2> QED
    BY <2>1, <2>7, <2>8 DEF Outcome, Undecided, Partial
<1>6. ASSUME NEW tokens \in Tokens, CriticAccepts(tokens) PROVE Outcome'
  <2> DEFINE next == Flagged(run.latest)
             n == Len(next) + 1
  <2>1. /\ run.role = "critic" /\ run'.at = "role" /\ run'.role = "synthesizer"
        /\ run'.decision = "accept" /\ run'.accepted = run.latest /\ run'.status = run.status
    BY <1>1, <1>6, CriticAcceptsRun DEF CriticAccepts, Answering
  <2>2. Consumed(run, tokens).latest = run.latest
    BY <1>1, ConsumedRun
  <2>3. artifacts' = Append(next, Artifact("review", TRUE))
    BY <1>6, <2>2 DEF CriticAccepts, Record
  <2>4. /\ next = [i \in DOMAIN artifacts |-> next[i]]
        /\ \A i \in DOMAIN artifacts :
              /\ next[i] \in Recorded /\ next[i].kind = artifacts[i].kind
              /\ IF \E m \in DOMAIN run.latest : run.latest[m] = i
                   THEN next[i].accepted = TRUE ELSE next[i].accepted = artifacts[i].accepted
    BY <1>1, FlagsRecords
  <2> HIDE DEF next
  <2>5. /\ Elements(run.latest) = LastWorksIn(artifacts)
        /\ FlaggedIn(artifacts) = {} /\ run.status = "running"
    BY <2>1 DEF Outcome, Undecided
  <2>6. \A i \in DOMAIN artifacts :
          /\ (\E m \in DOMAIN run.latest : run.latest[m] = i) <=> i \in LastWorksIn(artifacts)
          /\ i \in LastWorksIn(artifacts) => artifacts[i].kind = "work"
    BY <2>5 DEF Elements, LastWorksIn, WorksIn
  <2>7. \A i \in DOMAIN artifacts :
          /\ next[i].accepted = (i \in LastWorksIn(artifacts) \/ artifacts[i].accepted)
          /\ artifacts[i].kind # "work" => next[i].accepted = artifacts[i].accepted
    <3>1. \A i \in DOMAIN artifacts : artifacts[i] \in Recorded
      BY <1>1
    <3>2. \A a \in Recorded : a.accepted \in BOOLEAN
      BY DEF Recorded
    <3> QED
      BY <2>4, <2>6, <3>1, <3>2
  <2>8. /\ next \in Seq(Recorded) /\ DOMAIN next = DOMAIN artifacts
        /\ WorksIn(next) = WorksIn(artifacts) /\ LastWorksIn(next) = LastWorksIn(artifacts)
    BY <1>1, <2>4, <2>7, KindsStay
  <2>9. FlaggedIn(next) = LastWorksIn(artifacts)
    BY <2>5, <2>7, <2>8 DEF FlaggedIn, LastWorksIn, WorksIn
  <2>10. Grown(next, artifacts', n, "review", TRUE)
    BY <2>3, <2>8, RecordedGrow DEF RoleKinds
  <2>11. LastWorksIn(artifacts') = LastWorksIn(next) /\ FlaggedIn(artifacts') = FlaggedIn(next)
    BY ONLY <2>10, OthersGrow
  <2>12. Accepted'
    BY <2>1, <2>5, <2>8, <2>9, <2>11 DEF Accepted
  <2> QED
    BY <2>1, <2>12 DEF Outcome
<1>7. ASSUME NEW tokens \in Tokens, CriticRejects(tokens) PROVE Outcome'
  <2>1. /\ run.role = "critic" /\ run'.at = "role" /\ run'.decision = "rework"
        /\ \/ run'.role = "synthesizer" /\ run'.status = "partial"
           \/ run'.role = "planner" /\ run'.status = run.status /\ run'.accepted = run.accepted
    BY <1>1, <1>7, CriticRejectsRun DEF CriticRejects, Answering
  <2>2. Grown(artifacts, artifacts', Len(artifacts) + 1, "review", TRUE)
    BY <1>1, <1>7, RoleRecords DEF CriticRejects, RoleKinds
  <2>3. FlaggedIn(artifacts') = FlaggedIn(artifacts)
    BY ONLY <2>2, OthersGrow
  <2> QED
    BY <2>1, <2>3 DEF Outcome, Undecided, Partial
<1>8. ASSUME NEW tokens \in Tokens, SynthesizerAnswers(tokens) PROVE Outcome'
  <2> DEFINE rejected == Consumed(run, tokens).rejected
  <2>1. /\ run.role = "synthesizer" /\ run'.at = "done" /\ run'.role = "synthesizer"
        /\ run'.decision = run.decision /\ run'.accepted = run.accepted
        /\ run.status = "partial" => run'.status = "partial"
        /\ run.status = "running" /\ run.decision = "accept" => run'.status = "completed"
        /\ row' = IF row.there
                    THEN [row EXCEPT !.status = run'.status, !.decision = run'.decision,
                                     !.accepted = run'.accepted, !.rejected = rejected]
                    ELSE row
    BY <1>1, <1>8, SynthesizerRun DEF SynthesizerAnswers, Answering
  <2> HIDE DEF rejected
  <2>2. Grown(artifacts, artifacts', Len(artifacts) + 1, "final", TRUE)
    BY <1>1, <1>8, RoleRecords DEF SynthesizerAnswers, RoleKinds
  <2>3. LastWorksIn(artifacts') = LastWorksIn(artifacts) /\ FlaggedIn(artifacts') = FlaggedIn(artifacts)
    BY ONLY <2>2, OthersGrow
  <2>4. run.status # "completed"
    BY <1>8 DEF SynthesizerAnswers, Answering, Outcome
  <2>5. /\ Accepted' \/ Partial'
        /\ run'.status # "running"
    BY <2>1, <2>3, <2>4 DEF Outcome, Accepted, Partial
  <2>6. row'.there => /\ row'.status = run'.status /\ row'.decision = run'.decision
                     /\ row'.accepted = run'.accepted
    BY <1>1, <2>1 DEF RowOK, Rows
  <2> QED
    BY <2>1, <2>5, <2>6 DEF Outcome
<1>9. CASE DeleteTask
  <2>1. run' = run /\ row' = [row EXCEPT !.there = FALSE]
    BY <1>9 DEF DeleteTask
  <2>2. ~row'.there
    BY <1>1, <2>1 DEF RowOK, Rows
  <2>3. /\ artifacts' = [i \in DOMAIN artifacts |-> artifacts'[i]]
        /\ \A i \in DOMAIN artifacts :
              /\ artifacts'[i] \in Recorded /\ artifacts'[i].kind = artifacts[i].kind
              /\ artifacts'[i].accepted = artifacts[i].accepted
    BY <1>1, <1>9, DeletedRecords
  <2>4. WorksIn(artifacts') = WorksIn(artifacts) /\ LastWorksIn(artifacts') = LastWorksIn(artifacts)
    BY <1>1, <2>3, KindsStay
  <2>5. FlaggedIn(artifacts') = FlaggedIn(artifacts)
    BY <2>3, <2>4 DEF FlaggedIn, WorksIn
  <2> QED
    BY <2>1, <2>2, <2>4, <2>5 DEF Outcome, Undecided, Accepted, Partial
<1>10. CASE GoesOn /\ (Notes \/ SaysNothing) /\ RowOK'
  <2>1. LastWorksIn(artifacts') = LastWorksIn(artifacts) /\ FlaggedIn(artifacts') = FlaggedIn(artifacts)
    <3>1. CASE Notes
      <4>1. PICK kind \in ToolKinds, ok \in BOOLEAN : artifacts' = Append(artifacts, Artifact(kind, ok))
        BY <3>1 DEF Notes
      <4>2. kind \notin {"plan", "work"}
        BY RecordedKinds DEF RoleKinds
      <4>3. Grown(artifacts, artifacts', Len(artifacts) + 1, kind, ok)
        BY <1>1, <4>1, RecordedGrow
      <4> QED
        BY <4>2, <4>3, WorksGrow
    <3>2. CASE SaysNothing
      BY <3>2 DEF SaysNothing
    <3> QED
      BY <1>10, <3>1, <3>2
  <2> QED
    BY <1>10, <2>1 DEF Outcome, Undecided, Accepted, Partial, GoesOn
<1> QED
  BY <1>1, <1>2, <1>3, <1>4, <1>5, <1>6, <1>7, <1>8, <1>9, <1>10, TaskSteps

(* A task that ends is completed if the critic accepted, with just the      *)
(* outputs of the last round flagged and listed; otherwise it is partial    *)
(* and no output is flagged, whatever the squad, rounds, budgets and tools  *)
(* (run).                                                                   *)
THEOREM AcceptanceEndsTheTask == Spec => []CompletedIsAccepted
<1> DEFINE Inv == TaskInv /\ Outcome
<1>1. Init => Inv
  BY TaskStarts, OutcomeStarts
<1>2. Inv /\ [Next]_vars => Inv'
  BY TaskInvStep, OutcomeStep
<1>3. Inv => CompletedIsAccepted
  <2> SUFFICES ASSUME Inv, run.at = "done", row.there PROVE CompletedIsAccepted
    BY DEF CompletedIsAccepted
  <2>1. /\ row.status = run.status /\ row.decision = run.decision /\ row.accepted = run.accepted
        /\ run.status # "running" /\ (Accepted \/ Partial)
    BY DEF Outcome
  <2>2. {i \in Works : artifacts[i].accepted} = FlaggedIn(artifacts)
    BY OfTheArtifacts DEF FlaggedIn
  <2>3. {row.accepted[n] : n \in DOMAIN row.accepted} = Elements(run.accepted)
    BY <2>1 DEF Elements
  <2>4. LastWorks = LastWorksIn(artifacts)
    BY OfTheArtifacts
  <2> QED
    BY <2>1, <2>2, <2>3, <2>4 DEF CompletedIsAccepted, Accepted, Partial
<1> HIDE DEF Inv
<1> QED
  BY <1>1, <1>2, <1>3, PTL DEF Spec

-----------------------------------------------------------------------------
(* What the row says of the tools *)

(* A list of the latest ids that gets a later one, and drops its first when *)
(* it is full.                                                              *)
LEMMA LatestGrow ==
    ASSUME NEW list \in Seq(Nat), NEW ids, NEW n \in Nat, \A i \in ids : i \in Nat /\ i < n,
           ListsTheLatest(list, ids)
    PROVE  LET items == Append(list, n)
           IN  ListsTheLatest(IF Len(items) > ManifestSize THEN Tail(items) ELSE items, ids \cup {n})
<1> DEFINE items == Append(list, n)
           tail == Tail(items)
           l == Len(list)
<1>1. /\ l \in Nat /\ DOMAIN list = 1..l /\ l <= ManifestSize
      /\ \A i \in 1..l : list[i] \in Nat /\ list[i] \in ids
      /\ \A i, j \in 1..l : i < j => list[i] < list[j]
      /\ \A i \in ids : (\A j \in 1..l : i # list[j]) => \A j \in 1..l : i < list[j]
      /\ l < ManifestSize => \A i \in ids : \E j \in 1..l : i = list[j]
  <2>1. l \in Nat /\ DOMAIN list = 1..l
    BY LenProperties
  <2> HIDE DEF l
  <2>2. \A i \in 1..l : list[i] \in Nat
    BY <2>1
  <2>3. ListsTheLatest(list, ids) /\ Len(list) = l
    BY DEF l
  <2> QED
    BY <2>1, <2>2, <2>3 DEF ListsTheLatest
<1>2. /\ items \in Seq(Nat) /\ Len(items) = l + 1 /\ DOMAIN items = 1..(l + 1)
      /\ \A i \in 1..l : items[i] = list[i]
      /\ items[l + 1] = n
  <2>1. items \in Seq(Nat) /\ Len(items) = l + 1 /\ items[l + 1] = n /\ \A i \in 1..l : items[i] = list[i]
    BY AppendProperties
  <2> HIDE DEF items
  <2> QED
    BY <2>1, LenProperties
<1> HIDE DEF items, l
<1>3. CASE l < ManifestSize
  <2>1. ~(Len(items) > ManifestSize)
    BY <1>1, <1>2, <1>3
  <2>2. ASSUME NEW i \in 1..(l + 1), NEW j \in 1..(l + 1), i < j PROVE items[i] < items[j]
    <3>1. i \in 1..l /\ items[i] = list[i] /\ list[i] \in ids
      BY <1>1, <1>2, <2>2
    <3>2. CASE j = l + 1
      BY <1>2, <3>1, <3>2
    <3>3. CASE j # l + 1
      <4>1. j \in 1..l
        BY <1>1, <3>3
      <4>2. items[j] = list[j] /\ list[i] < list[j]
        BY <1>1, <1>2, <2>2, <3>1, <4>1
      <4> QED
        BY <3>1, <4>2
    <3> QED
      BY <3>2, <3>3
  <2>3. {items[i] : i \in DOMAIN items} = ids \cup {n}
    <3> DEFINE last == l + 1
    <3>1. last \in DOMAIN items /\ items[last] = n /\ DOMAIN items = 1..l \cup {last}
      BY <1>1, <1>2
    <3> HIDE DEF last
    <3>2. \A i \in 1..l : items[i] \in ids
      BY <1>1, <1>2
    <3>3. \A i \in ids : \E j \in 1..l : i = items[j]
      BY <1>1, <1>2, <1>3
    <3> QED
      BY ONLY <3>1, <3>2, <3>3
  <2>4. ListsTheLatest(items, ids \cup {n})
    <3>1. Len(items) <= ManifestSize /\ DOMAIN items = 1..(l + 1)
      BY <1>1, <1>2, <2>1
    <3> QED
      BY ONLY <2>2, <2>3, <3>1 DEF ListsTheLatest
  <2> QED
    BY <2>1, <2>4 DEF items
<1>4. CASE l = ManifestSize
  <2>1. Len(items) > ManifestSize /\ l \in Nat \ {0} /\ items # <<>>
    BY <1>1, <1>2, <1>4
  <2>2. /\ Len(tail) = l /\ DOMAIN tail = 1..l
        /\ \A i \in 1..l : tail[i] = IF i = l THEN n ELSE list[i + 1]
    <3>1. tail \in Seq(Nat) /\ Len(tail) = Len(items) - 1 /\ \A i \in 1..Len(tail) : tail[i] = items[i + 1]
      BY <1>2, <2>1, HeadTailProperties
    <3> HIDE DEF tail
    <3>2. Len(tail) = l /\ DOMAIN tail = 1..l
      BY <1>1, <1>2, <3>1, LenProperties
    <3>3. ASSUME NEW i \in 1..l PROVE tail[i] = IF i = l THEN n ELSE list[i + 1]
      <4>1. tail[i] = items[i + 1]
        BY <3>1, <3>2
      <4>2. i # l => i + 1 \in 1..l
        BY <1>1
      <4> QED
        BY <1>2, <4>1, <4>2
    <3> QED
      BY <3>2, <3>3
  <2> HIDE DEF tail
  <2>3. ASSUME NEW i \in 1..l, NEW j \in 1..l, i < j PROVE tail[i] < tail[j]
    <3>1. i + 1 \in 1..l /\ tail[i] = list[i + 1]
      BY <1>1, <2>2, <2>3
    <3>2. CASE j = l
      <4>1. tail[j] = n /\ tail[i] \in ids
        BY <1>1, <2>2, <3>1, <3>2
      <4> QED
        BY <4>1
    <3>3. CASE j # l
      <4>1. j + 1 \in 1..l /\ tail[j] = list[j + 1] /\ i + 1 < j + 1
        BY <1>1, <2>2, <2>3, <3>3
      <4>2. list[i + 1] < list[j + 1]
        BY <1>1, <3>1, <4>1
      <4> QED
        BY <3>1, <4>1, <4>2
    <3> QED
      BY <3>2, <3>3
  <2>4. /\ \A i \in 1..l : tail[i] \in ids \cup {n}
        /\ \A i \in ids \cup {n} : (\A j \in 1..l : i # tail[j]) =>
              i \in ids /\ (i = list[1] \/ \A j \in 1..l : i # list[j])
    <3>1. ASSUME NEW i \in 1..l PROVE tail[i] \in ids \cup {n}
      <4>1. CASE i = l
        BY <2>2, <4>1
      <4>2. CASE i # l
        <5>1. i + 1 \in 1..l
          BY <2>1, <4>2
        <5> QED
          BY <1>1, <2>2, <4>2, <5>1
      <4> QED
        BY <4>1, <4>2
    <3>2. ASSUME NEW i \in ids \cup {n}, \A j \in 1..l : i # tail[j], i # list[1], NEW j \in 1..l, i = list[j]
          PROVE  FALSE
      <4>1. j # 1 /\ j - 1 \in 1..l /\ (j - 1) + 1 = j /\ j - 1 # l
        BY <1>1, <3>2
      <4> QED
        BY <2>2, <3>2, <4>1
    <3>3. ASSUME NEW i \in ids \cup {n}, \A j \in 1..l : i # tail[j] PROVE i \in ids
      <4>1. l \in 1..l /\ tail[l] = n
        BY <2>1, <2>2
      <4> QED
        BY <3>3, <4>1
    <3> QED
      BY <3>1, <3>2, <3>3
  <2>5. ASSUME NEW i \in ids \cup {n}, \A j \in 1..l : i # tail[j], NEW j \in 1..l
        PROVE  i < tail[j]
    <3>1. i \in ids /\ i \in Nat /\ i < n /\ (i = list[1] \/ \A k \in 1..l : i # list[k])
      BY <2>4, <2>5
    <3>2. CASE j = l
      BY <2>2, <3>1, <3>2
    <3>3. CASE j # l
      <4>1. tail[j] = list[j + 1] /\ j + 1 \in 1..l /\ 1 < j + 1 /\ 1 \in 1..l
        <5>1. j + 1 \in 1..l /\ 1 < j + 1 /\ 1 \in 1..l
          BY <2>1, <3>3
        <5> QED
          BY <2>2, <3>3, <5>1
      <4>2. CASE i = list[1]
        BY <1>1, <4>1, <4>2
      <4>3. CASE \A k \in 1..l : i # list[k]
        <5>1. \A k \in 1..l : i < list[k]
          BY <1>1, <3>1, <4>3
        <5> QED
          BY <4>1, <5>1
      <4> QED
        BY <3>1, <4>2, <4>3
    <3> QED
      BY <3>2, <3>3
  <2>6. ListsTheLatest(tail, ids \cup {n})
    <3> DEFINE listed == {tail[j] : j \in DOMAIN tail}
    <3>1. \A i, j \in DOMAIN tail : i < j => tail[i] < tail[j]
      BY <2>2, <2>3
    <3>2. listed \subseteq ids \cup {n}
      BY <2>2, <2>4
    <3>3. \A i \in (ids \cup {n}) \ listed, j \in listed : i < j
      <4>1. \A i \in (ids \cup {n}) \ listed : \A j \in 1..l : i # tail[j]
        BY <2>2
      <4>2. \A i \in (ids \cup {n}) \ listed : \A j \in 1..l : i < tail[j]
        BY <2>5, <4>1
      <4> QED
        BY ONLY <2>2, <4>2
    <3>4. Len(tail) <= ManifestSize /\ ~(Len(tail) < ManifestSize)
      BY <1>4, <2>1, <2>2
    <3> QED
      BY ONLY <3>1, <3>2, <3>3, <3>4 DEF ListsTheLatest
  <2> QED
    BY <2>1, <2>6 DEF items, tail
<1> QED
  BY <1>1, <1>3, <1>4

(* What a manifest and a validation say of a list of artifacts. *)
Following(list) == Len(list) + 1

Says(manifest, validation, list) ==
    /\ \A k \in ToolKinds : ListsTheLatest(manifest[k], IdsIn(list, k))
    /\ validation = "failed" <=> ~HoldsIn(list, Following(list))
    /\ \A v \in IdsIn(list, "validation") : list[v].accepted = HoldsIn(list, v)

RowSays == row.there => Says(row.manifest, row.validation, artifacts)

Extended(list, next, kind, ok) == Grown(list, next, Following(list), kind, ok) /\ Following(next) = Following(list) + 1

LEMMA RecordedExtend ==
    ASSUME NEW list \in Seq(Recorded), NEW kind \in RoleKinds \cup ToolKinds, NEW ok \in BOOLEAN
    PROVE  Extended(list, Append(list, Artifact(kind, ok)), kind, ok)
  BY RecordedGrow DEF Extended, Following

LEMMA ExtendedSays ==
    ASSUME NEW list, NEW next, NEW kind, NEW ok, Extended(list, next, kind, ok)
    PROVE  /\ IdsIn(next, kind) = With(IdsIn(list, kind), Following(list))
           /\ \A k : k # kind => IdsIn(next, k) = IdsIn(list, k)
           /\ \A i \in DOMAIN list : i \in Nat /\ i < Following(list) /\ next[i] = list[i]
           /\ \A v \in DOMAIN list : HoldsIn(next, v) <=> HoldsIn(list, v)
           /\ HoldsIn(next, Following(list)) <=> HoldsIn(list, Following(list))
           /\ next[Following(list)].accepted = ok
           /\ kind = "assertion" => (HoldsIn(next, Following(next)) <=> ok)
           /\ kind # "assertion" => (HoldsIn(next, Following(next)) <=> HoldsIn(list, Following(list)))
<1> DEFINE n == Following(list)
           m == Following(next)
<1>1. Grown(list, next, n, kind, ok)
  BY DEF Extended
<1>2. m = n + 1
  BY DEF Extended
<1> HIDE DEF n, m
<1>3. /\ IdsIn(next, kind) = With(IdsIn(list, kind), n)
      /\ \A k : k # kind => IdsIn(next, k) = IdsIn(list, k)
  BY ONLY <1>1, IdsGrow
<1>4. /\ \A v \in Nat : v <= n => (HoldsIn(next, v) <=> HoldsIn(list, v))
      /\ kind = "assertion" => (HoldsIn(next, n + 1) <=> ok)
      /\ kind # "assertion" => (HoldsIn(next, n + 1) <=> HoldsIn(list, n))
  BY ONLY <1>1, HoldsGrow
<1>5. \A i \in DOMAIN list : i \in Nat /\ i < n /\ i <= n /\ next[i] = list[i]
  BY <1>1 DEF Grown
<1>6. n \in Nat /\ next[n].accepted = ok
  BY <1>1 DEF Grown
<1>7. n <= n
  BY <1>6
<1> QED
  BY <1>2, <1>3, <1>4, <1>5, <1>6, <1>7 DEF n, m

(* Whatever role or tool records an artifact: what is said of the earlier   *)
(* ones stays, and a role says nothing of its own but the validation.       *)
LEMMA SaysGrow ==
    ASSUME NEW list, NEW next, NEW kind, NEW ok, Extended(list, next, kind, ok),
           NEW manifest, NEW validation, Says(manifest, validation, list)
    PROVE  /\ kind \notin ToolKinds \cup {"validation"} => Says(manifest, validation, next)
           /\ kind = "validation" /\ ok = (validation # "failed") => Says(manifest, validation, next)
           /\ kind # "validation" => \A v \in IdsIn(next, "validation") : next[v].accepted = HoldsIn(next, v)
<1> DEFINE n == Following(list)
           m == Following(next)
<1>1. /\ IdsIn(next, kind) = With(IdsIn(list, kind), n)
      /\ \A k : k # kind => IdsIn(next, k) = IdsIn(list, k)
      /\ \A i \in DOMAIN list : next[i] = list[i]
      /\ \A v \in DOMAIN list : HoldsIn(next, v) <=> HoldsIn(list, v)
      /\ HoldsIn(next, n) <=> HoldsIn(list, n)
      /\ next[n].accepted = ok
      /\ kind # "assertion" => (HoldsIn(next, m) <=> HoldsIn(list, n))
  <2>1. Extended(list, next, kind, ok)
    OBVIOUS
  <2> QED
    BY ONLY <2>1, ExtendedSays
<1>2. /\ \A k \in ToolKinds : ListsTheLatest(manifest[k], IdsIn(list, k))
      /\ validation = "failed" <=> ~HoldsIn(list, n)
      /\ \A v \in IdsIn(list, "validation") : list[v].accepted = HoldsIn(list, v)
  BY DEF Says
<1> HIDE DEF n, m
<1>3. \A v \in IdsIn(list, "validation") : next[v].accepted = HoldsIn(next, v)
  <2> SUFFICES ASSUME NEW v \in IdsIn(list, "validation") PROVE next[v].accepted = HoldsIn(next, v)
    OBVIOUS
  <2>1. v \in DOMAIN list
    BY DEF IdsIn
  <2>2. HoldsIn(next, v) \in BOOLEAN /\ HoldsIn(list, v) \in BOOLEAN
    BY DEF HoldsIn
  <2> QED
    BY <1>1, <1>2, <2>1, <2>2
<1>4. kind # "validation" => \A v \in IdsIn(next, "validation") : next[v].accepted = HoldsIn(next, v)
  BY <1>1, <1>3 DEF With
<1>5. kind \notin ToolKinds => \A k \in ToolKinds : ListsTheLatest(manifest[k], IdsIn(next, k))
  BY <1>1, <1>2
<1>6. "assertion" \in ToolKinds /\ "validation" \notin ToolKinds
  BY DEF ToolKinds, KindOf
<1>7. kind \notin ToolKinds => (validation = "failed" <=> ~HoldsIn(next, m))
  BY <1>1, <1>2, <1>6
<1>8. kind \notin ToolKinds \cup {"validation"} => Says(manifest, validation, next)
  BY <1>4, <1>5, <1>7 DEF Says, m
<1>9. ASSUME kind = "validation", ok = (validation # "failed") PROVE Says(manifest, validation, next)
  <2>1. next[n].accepted = HoldsIn(next, n)
    <3>1. HoldsIn(next, n) \in BOOLEAN
      BY DEF HoldsIn
    <3> QED
      BY <1>1, <1>2, <1>9, <3>1
  <2>2. \A v \in IdsIn(next, "validation") : next[v].accepted = HoldsIn(next, v)
    BY <1>1, <1>3, <1>9, <2>1 DEF With
  <2> QED
    BY <1>5, <1>6, <1>7, <1>9, <2>2 DEF Says, m
<1> QED
  BY <1>4, <1>8, <1>9

LEMMA SaysStep ==
    ASSUME TaskInv, Outcome, RowSays, [Next]_vars
    PROVE  RowSays'
<1>1. run \in Run /\ artifacts \in Seq(Recorded) /\ RolesInv /\ RowOK
  BY DEF TaskInv, RolesInv
<1>2. ToolKinds \cap RoleKinds = {} /\ {"plan", "work", "review", "final", "validation"} \subseteq RoleKinds
  BY RecordedKinds DEF RoleKinds
<1>3. CASE UNCHANGED <<row, artifacts, run>>
  BY <1>3 DEF RowSays, Says
<1>4. CASE StartsTask
  <2>1. row' = NewRow /\ artifacts' = <<>>
    BY <1>4 DEF StartsTask, TaskInv, NotStarted
  <2>2. \A k : IdsIn(artifacts', k) = {}
    BY <2>1 DEF IdsIn
  <2>3. \A v : HoldsIn(artifacts', v)
    BY <2>2 DEF HoldsIn
  <2>4. ListsTheLatest(<<>>, {})
    BY DEF ListsTheLatest
  <2>5. \A k \in ToolKinds : ListsTheLatest(NewRow.manifest[k], IdsIn(artifacts', k))
    BY <2>2, <2>4, NewRows
  <2> QED
    BY <2>1, <2>2, <2>3, <2>5, NewRows DEF RowSays, Says
(* A role that records an artifact of its own. *)
<1>5. ASSUME NEW kind \in {"plan", "review", "final"}, Record(artifacts, kind, TRUE),
             row'.there => row.there /\ row'.manifest = row.manifest /\ row'.validation = row.validation
      PROVE  RowSays'
  <2>1. kind \in RoleKinds /\ kind \notin ToolKinds \cup {"validation"}
    BY <1>2
  <2>2. Extended(artifacts, artifacts', kind, TRUE)
    BY <1>1, <1>5, <2>1, RecordedExtend DEF Record
  <2>3. ASSUME row'.there PROVE Says(row'.manifest, row'.validation, artifacts')
    <3>1. Says(row.manifest, row.validation, artifacts)
      BY <1>5, <2>3 DEF RowSays
    <3>2. Says(row.manifest, row.validation, artifacts')
      BY ONLY <2>1, <2>2, <3>1, SaysGrow
    <3> QED
      BY <1>5, <2>3, <3>2
  <2> QED
    BY <2>3 DEF RowSays
<1>6. CASE \E tokens \in Tokens : PlannerAnswers(tokens) \/ CriticRejects(tokens)
  BY <1>5, <1>6 DEF PlannerAnswers, CriticRejects
<1>7. CASE \E tokens \in Tokens : SynthesizerAnswers(tokens)
  <2>1. PICK tokens \in Tokens : SynthesizerAnswers(tokens)
    BY <1>7
  <2>2. row'.there => row.there /\ row'.manifest = row.manifest /\ row'.validation = row.validation
    <3> DEFINE rejected == Consumed(run, tokens).rejected
    <3>1. row' = IF row.there
                   THEN [row EXCEPT !.status = run'.status, !.decision = run'.decision,
                                    !.accepted = run'.accepted, !.rejected = rejected]
                   ELSE row
      BY ONLY <1>1, <2>1, SynthesizerRun
    <3> HIDE DEF rejected
    <3> QED
      BY <1>1, <3>1 DEF RowOK, Rows
  <2> QED
    BY <1>5, <2>1, <2>2 DEF SynthesizerAnswers
<1>8. CASE \E tokens \in Tokens : WorkerAnswers(tokens)
  <2> DEFINE worked == Append(artifacts, Artifact("work", FALSE))
             checked == Append(worked, Validation)
             valid == ~row.there \/ row.validation # "failed"
  <2>1. row' = row /\ artifacts' \in {worked, checked}
    BY <1>8 DEF WorkerAnswers
  <2>2. Extended(artifacts, worked, "work", FALSE) /\ Extended(worked, checked, "validation", valid)
    BY <1>1, WorkRecords DEF Extended, Following
  <2>3. "work" \notin ToolKinds \cup {"validation"} /\ (row.there => valid = (row.validation # "failed"))
    BY <1>2
  <2> HIDE DEF worked, checked, valid
  <2>4. ASSUME row.there PROVE Says(row.manifest, row.validation, artifacts')
    <3>1. Says(row.manifest, row.validation, artifacts)
      BY <2>4 DEF RowSays
    <3>2. Says(row.manifest, row.validation, worked)
      BY ONLY <2>2, <2>3, <3>1, SaysGrow
    <3>3. valid = (row.validation # "failed")
      BY <2>3, <2>4
    <3>4. Says(row.manifest, row.validation, checked)
      BY ONLY <2>2, <3>2, <3>3, SaysGrow
    <3> QED
      BY <2>1, <3>2, <3>4
  <2> QED
    BY <2>1, <2>4 DEF RowSays
<1>9. CASE \E tokens \in Tokens : CriticAccepts(tokens)
  <2>1. PICK tokens \in Tokens : CriticAccepts(tokens)
    BY <1>9
  <2> DEFINE next == Flagged(run.latest)
  <2>2. artifacts' = Append(next, Artifact("review", TRUE)) /\ row' = row /\ run.role = "critic"
    BY <1>1, <2>1, ConsumedRun DEF CriticAccepts, Record, Answering
  <2>3. /\ next = [i \in DOMAIN artifacts |-> next[i]]
        /\ \A i \in DOMAIN artifacts :
              /\ next[i] \in Recorded /\ next[i].kind = artifacts[i].kind
              /\ IF \E m \in DOMAIN run.latest : run.latest[m] = i
                   THEN next[i].accepted = TRUE ELSE next[i].accepted = artifacts[i].accepted
    BY <1>1, FlagsRecords
  <2> HIDE DEF next
  <2>4. \A i \in DOMAIN artifacts :
          artifacts[i].kind # "work" => ~\E m \in DOMAIN run.latest : run.latest[m] = i
    BY <2>2 DEF Outcome, Elements, LastWorksIn, WorksIn
  <2>5. /\ next \in Seq(Recorded) /\ Len(next) = Len(artifacts)
        /\ \A k : IdsIn(next, k) = IdsIn(artifacts, k)
        /\ \A v : HoldsIn(next, v) <=> HoldsIn(artifacts, v)
    BY <1>1, <2>3, <2>4, KindsStay
  <2>6. \A v \in IdsIn(next, "validation") : next[v].accepted = artifacts[v].accepted
    BY <2>3, <2>4, <2>5 DEF IdsIn
  <2>7. ASSUME row.there PROVE Says(row.manifest, row.validation, artifacts')
    <3>1. Says(row.manifest, row.validation, artifacts)
      BY <2>7 DEF RowSays
    <3>2. Says(row.manifest, row.validation, next)
      <4>1. \A v : HoldsIn(next, v) \in BOOLEAN /\ HoldsIn(artifacts, v) \in BOOLEAN
        BY DEF HoldsIn
      <4> QED
        BY <2>5, <2>6, <3>1, <4>1 DEF Says, Following
    <3>3. "review" \notin ToolKinds \cup {"validation"} /\ "review" \in RoleKinds \cup ToolKinds
      BY <1>2
    <3>4. Extended(next, artifacts', "review", TRUE)
      BY <2>2, <2>5, <3>3, RecordedExtend
    <3> QED
      BY ONLY <3>2, <3>3, <3>4, SaysGrow
  <2> QED
    BY <2>2, <2>7 DEF RowSays
<1>10. CASE DeleteTask
  <2>1. ~row'.there
    BY <1>1, <1>10 DEF DeleteTask, RowOK, Rows
  <2> QED
    BY <2>1 DEF RowSays
<1>11. CASE Notes
  <2>1. PICK kind \in ToolKinds, ok \in BOOLEAN :
            artifacts' = Append(artifacts, Artifact(kind, ok)) /\ NotesInRow(kind, ok)
    BY <1>11 DEF Notes
  <2> DEFINE n == Following(artifacts)
             said == artifacts'[n].accepted
  <2>2. said = ok /\ Extended(artifacts, artifacts', kind, said)
    <3>1. Extended(artifacts, artifacts', kind, ok)
      BY <1>1, <2>1, RecordedExtend
    <3>2. said = ok
      BY <3>1 DEF Extended, Grown
    <3> QED
      BY <3>1, <3>2
  <2> HIDE DEF said
  <2>3. ASSUME row.there PROVE Says(row'.manifest, row'.validation, artifacts')
    <3> DEFINE list == row.manifest[kind]
               items == Append(list, n)
               grown == IF Len(items) > ManifestSize THEN Tail(items) ELSE items
    <3>1. Says(row.manifest, row.validation, artifacts)
      BY <2>3 DEF RowSays
    <3>2. /\ \A k \in ToolKinds \ {kind} : IdsIn(artifacts', k) = IdsIn(artifacts, k)
          /\ IdsIn(artifacts', kind) = With(IdsIn(artifacts, kind), n)
          /\ \A i \in DOMAIN artifacts : i \in Nat /\ i < n
          /\ kind = "assertion" => (HoldsIn(artifacts', Following(artifacts')) <=> said)
          /\ kind # "assertion" =>
               (HoldsIn(artifacts', Following(artifacts')) <=> HoldsIn(artifacts, n))
      BY ONLY <2>2, ExtendedSays
    <3>12. kind # "validation" =>
             \A v \in IdsIn(artifacts', "validation") : artifacts'[v].accepted = HoldsIn(artifacts', v)
      BY ONLY <2>2, <3>1, SaysGrow
    <3>3. row.manifest \in [ToolKinds -> Seq(Nat)]
      BY <1>1 DEF RowOK, Rows
    <3>4. row'.manifest = [row.manifest EXCEPT ![kind] = grown]
      BY <2>1, <2>3 DEF NotesInRow, Following
    <3>5. row'.validation = IF kind = "assertion" THEN Asserted(ok) ELSE row.validation
      BY <2>1, <2>3 DEF NotesInRow
    <3>6. list \in Seq(Nat) /\ n \in Nat /\ ListsTheLatest(list, IdsIn(artifacts, kind))
      BY <1>1, <2>1, <3>1, <3>3, LenProperties DEF Says, Following
    <3>7. \A i \in IdsIn(artifacts, kind) : i \in Nat /\ i < n
      BY <3>2 DEF IdsIn
    <3> HIDE DEF list, n
    <3>8. ListsTheLatest(grown, IdsIn(artifacts, kind) \cup {n})
      BY ONLY <3>6, <3>7, LatestGrow
    <3> HIDE DEF grown
    <3>9. ASSUME NEW k \in ToolKinds PROVE ListsTheLatest(row'.manifest[k], IdsIn(artifacts', k))
      <4>1. CASE k = kind
        BY <3>2, <3>3, <3>4, <3>8, <4>1 DEF With
      <4>2. CASE k # kind
        <5>1. row'.manifest[k] = row.manifest[k] /\ IdsIn(artifacts', k) = IdsIn(artifacts, k)
          BY <3>2, <3>3, <3>4, <4>2
        <5> QED
          BY <3>1, <5>1 DEF Says
      <4> QED
        BY <4>1, <4>2
    <3>10. row'.validation = "failed" <=> ~HoldsIn(artifacts', Following(artifacts'))
      BY <2>2, <3>1, <3>2, <3>5 DEF Says, Asserted, n
    <3>11. kind # "validation"
      BY <1>2
    <3> QED
      BY <3>9, <3>10, <3>11, <3>12 DEF Says
  <2>4. row'.there = row.there
    BY <2>1 DEF NotesInRow
  <2> QED
    BY <2>3, <2>4 DEF RowSays
<1>12. CASE SaysNothing
  BY <1>12 DEF SaysNothing, RowSays
<1> QED
  BY <1>3, <1>4, <1>6, <1>7, <1>8, <1>9, <1>10, <1>11, <1>12, <1>1, TaskSteps

(* What the row says of the tools is what their artifacts say, through all  *)
(* rounds and the final update, for any squad, budgets, tools and manifest  *)
(* size: the manifest lists the last of each kind, the validation is that   *)
(* of the last assertion, and so is the one each critic was shown           *)
(* (_append_manifest, _update_validation_summary, run).                     *)
THEOREM TheRowSaysWhatTheToolsDid == Spec => []RowIsOfItsArtifacts
<1> DEFINE Inv == TaskInv /\ Outcome /\ RowSays
<1>1. Init => Inv
  <2>1. Init => ~row.there
    BY NewRows DEF Init, SwarmInit
  <2> QED
    BY <2>1, TaskStarts, OutcomeStarts DEF RowSays
<1>2. Inv /\ [Next]_vars => Inv'
  BY TaskInvStep, OutcomeStep, SaysStep
<1>3. Inv => RowIsOfItsArtifacts
  <2> SUFFICES ASSUME row.there, Says(row.manifest, row.validation, artifacts) PROVE RowIsOfItsArtifacts
    BY DEF RowSays, RowIsOfItsArtifacts
  <2>1. \A before : Holds(before) <=> HoldsIn(artifacts, before)
    BY OfTheArtifacts
  <2>2. \A before : Holds(before) \in BOOLEAN /\ HoldsIn(artifacts, before) \in BOOLEAN
    BY DEF Holds, HoldsIn
  <2>3. \A k \in ToolKinds :
          ListsTheLatest(row.manifest[k], {i \in DOMAIN artifacts : artifacts[i].kind = k})
    BY DEF Says, IdsIn
  <2>4. (row.validation = "failed") = ~Holds(Len(artifacts) + 1)
    BY <2>1, <2>2 DEF Says, Following
  <2>5. \A v \in DOMAIN artifacts : artifacts[v].kind = "validation" => artifacts[v].accepted = Holds(v)
    BY <2>1, <2>2 DEF Says, IdsIn
  <2> QED
    BY <2>3, <2>4, <2>5 DEF RowIsOfItsArtifacts
<1> HIDE DEF Inv
<1> QED
  BY <1>1, <1>2, <1>3, PTL DEF Spec

=============================================================================

------------------------- MODULE RuntimeEnvironment -------------------------
(***************************************************************************)
(* The runtime environment of a harness task: a web service in a process   *)
(* of its own, known by the pid in services/serve.state.json.  up, down,   *)
(* restart and health run in a thread of serve (for the task's tools) or   *)
(* in an `evidune env` command; between two system calls anything else may *)
(* happen.                                                                 *)
(*                                                                         *)
(*   service  the processes ever started, in order; the pid is the index   *)
(*   onFile   "pid" of the state file, 0 when there is none                *)
(*   call     what an actor is doing to the environment                    *)
(*                                                                         *)
(* A process that ended is a zombie until its parent waits for it, which   *)
(* serve does when it starts another subprocess.  Pids are not reused.     *)
(***************************************************************************)
EXTENDS Integers, Sequences, FiniteSets

CONSTANTS
    Tool,             \* the actor that is the thread of a tool call in serve
    Operators,        \* `evidune env` commands
    Commands,         \* what they do: "health", "down", "restart"
    MaxServices       \* bound of the model

Actors == {Tool} \cup Operators

ASSUME EnvironmentAssumption ==
    /\ Tool \notin Operators /\ MaxServices \in Nat
    /\ Commands \subseteq {"health", "down", "restart"}

VARIABLES service, onFile, call

evars == <<service, onFile, call>>

Alive == {"starting", "serving", "hung"}     \* hung: answers neither a request nor SIGTERM

AtRest == [at |-> "rest", pid |-> 0, again |-> FALSE, status |-> "stopped"]

EnvironmentInit ==
    /\ service = <<>>
    /\ onFile = 0
    /\ call = [a \in Actors |-> AtRest]

-----------------------------------------------------------------------------
(* _pid_running: signal 0 reaches a zombie as well. *)
PidRunning(pid) == pid > 0 /\ service[pid].state # "gone"

(* health()["status"]; a refused connection is a URLError and caught, an     *)
(* answer that does not come in time is not.                                *)
Health ==
    CASE ~PidRunning(onFile) -> "stopped"
      [] PidRunning(onFile) /\ service[onFile].state = "serving" -> "healthy"
      [] PidRunning(onFile) /\ service[onFile].state = "hung" -> "error"
      [] OTHER -> "running"

(* A process that ends is a zombie of its parent, if that is still there. *)
Ended(pid) == IF service[pid].parent = "init" THEN "gone" ELSE "zombie"

(* Whoever waits for its children. *)
Waited(a) == [p \in DOMAIN service |->
                IF service[p].parent = a /\ service[p].state = "zombie"
                  THEN [service[p] EXCEPT !.state = "gone"] ELSE service[p]]

(* The tool keeps the answer.  A command prints it and ends, and leaves its *)
(* children to init.                                                        *)
Return(a, status) ==
    /\ call' = [call EXCEPT ![a] = [AtRest EXCEPT !.status = IF a = Tool THEN status ELSE @]]
    /\ service' = IF a \in Operators
                    THEN [p \in DOMAIN service |->
                            IF service[p].parent = a
                              THEN [Waited(a)[p] EXCEPT !.parent = "init"] ELSE service[p]]
                    ELSE service

-----------------------------------------------------------------------------
(* health, status *)
CallHealth(a) ==
    /\ call[a].at = "rest"
    /\ call' = [call EXCEPT ![a] = [AtRest EXCEPT !.at = "looking"]]
    /\ UNCHANGED <<service, onFile>>

Looks(a) ==
    /\ call[a].at = "looking"
    /\ Return(a, Health)
    /\ UNCHANGED onFile

CallUp(a) ==
    /\ call[a].at = "rest"
    /\ call' = [call EXCEPT ![a] = [AtRest EXCEPT !.at = "up"]]
    /\ UNCHANGED <<service, onFile>>

(* up: a service that runs is left alone, healthy or not. *)
UpChecks(a) ==
    /\ call[a].at = "up"
    /\ IF PidRunning(onFile)
         THEN Return(a, Health)
         ELSE call' = [call EXCEPT ![a].at = "spawning"] /\ UNCHANGED service
    /\ UNCHANGED onFile

(* subprocess.Popen, which first waits for earlier children that ended. *)
UpSpawns(a) ==
    /\ call[a].at = "spawning"
    /\ Len(service) < MaxServices
    /\ service' = Append(Waited(a), [state |-> "starting", parent |-> a])
    /\ call' = [call EXCEPT ![a].at = "writing", ![a].pid = Len(service) + 1]
    /\ UNCHANGED onFile

(* No configuration to clone: up raises before it starts anything. *)
UpFails(a) ==
    /\ call[a].at = "spawning"
    /\ Return(a, "error")
    /\ UNCHANGED onFile

UpWrites(a) ==
    /\ call[a].at = "writing"
    /\ onFile' = call[a].pid
    /\ call' = [call EXCEPT ![a].at = "polling"]
    /\ UNCHANGED service

(* The service answers, or startup_timeout_s passes. *)
UpPolls(a) ==
    /\ call[a].at = "polling"
    /\ Return(a, Health)
    /\ UNCHANGED onFile

CallDown(a, again) ==
    /\ call[a].at = "rest"
    /\ call' = [call EXCEPT ![a] = [AtRest EXCEPT !.at = "down", !.again = again]]
    /\ UNCHANGED <<service, onFile>>

(* down looks at the pid on file ... *)
DownLooks(a) ==
    /\ call[a].at = "down"
    /\ call' = [call EXCEPT ![a].at = IF PidRunning(onFile) THEN "signalling" ELSE "clearing",
                            ![a].pid = onFile]
    /\ UNCHANGED <<service, onFile>>

(* ... sends SIGTERM, which a service obeys unless it hangs ...             *)
DownTerminates(a) ==
    LET pid == call[a].pid
    IN  /\ call[a].at = "signalling" /\ PidRunning(pid)
        /\ call' = [call EXCEPT ![a].at = "killing"]
        /\ service' = IF service[pid].state \in {"starting", "serving"}
                        THEN [service EXCEPT ![pid].state = Ended(pid)] ELSE service
        /\ UNCHANGED onFile

\* A mutant: no SIGKILL after five seconds.
DownWaits(a) ==
    /\ call[a].at = "killing"
    /\ call' = [call EXCEPT ![a].at = "clearing"]
    /\ UNCHANGED <<service, onFile>>

(* ... and SIGKILL to what still runs after five seconds. *)
DownKills(a) ==
    LET pid == call[a].pid
    IN  /\ call[a].at = "killing"
        /\ call' = [call EXCEPT ![a].at = "clearing"]
        /\ service' = IF pid > 0 /\ service[pid].state \in Alive
                        THEN [service EXCEPT ![pid].state = Ended(pid)] ELSE service
        /\ UNCHANGED onFile

(* The process is gone before its signal: down sees that, or os.kill raises. *)
DownMisses(a) ==
    /\ call[a].at \in {"signalling", "killing"} /\ ~PidRunning(call[a].pid)
    /\ \/ call' = [call EXCEPT ![a].at = "clearing"] /\ UNCHANGED service
       \/ Return(a, "error")
    /\ UNCHANGED onFile

(* The pid on file becomes 0; restart goes on with up. *)
DownClears(a) ==
    /\ call[a].at = "clearing"
    /\ onFile' = 0
    /\ IF call[a].again
         THEN call' = [call EXCEPT ![a] = [AtRest EXCEPT !.at = "up"]] /\ UNCHANGED service
         ELSE Return(a, "stopped")

(* A command is interrupted; what it did stays. *)
CommandDies(a) ==
    /\ a \in Operators /\ call[a].at # "rest"
    /\ Return(a, "error")
    /\ UNCHANGED onFile

ActorStep(a) ==
    \/ Looks(a)
    \/ UpChecks(a) \/ UpSpawns(a) \/ UpFails(a) \/ UpWrites(a) \/ UpPolls(a)
    \/ DownLooks(a) \/ DownTerminates(a) \/ DownKills(a) \/ DownMisses(a) \/ DownClears(a)
    \/ CommandDies(a)

-----------------------------------------------------------------------------
(* The service comes up, hangs, or ends by itself. *)
ServiceStarts(p) ==
    /\ service[p].state = "starting"
    /\ service' = [service EXCEPT ![p].state = "serving"]
    /\ UNCHANGED <<onFile, call>>

ServiceHangs(p) ==
    /\ service[p].state = "serving"
    /\ service' = [service EXCEPT ![p].state = "hung"]
    /\ UNCHANGED <<onFile, call>>

ServiceEnds(p) ==
    /\ service[p].state \in Alive
    /\ service' = [service EXCEPT ![p].state = Ended(p)]
    /\ UNCHANGED <<onFile, call>>

(* Serve starts some other subprocess. *)
ServeWaits ==
    /\ \E p \in DOMAIN service : service[p].parent = Tool /\ service[p].state = "zombie"
    /\ service' = Waited(Tool)
    /\ UNCHANGED <<onFile, call>>

EnvironmentStep ==
    \/ \E p \in DOMAIN service : ServiceStarts(p)
    \/ \E p \in DOMAIN service : ServiceHangs(p)
    \/ \E p \in DOMAIN service : ServiceEnds(p)
    \/ ServeWaits

(* `evidune env up` makes an environment of its own; the other commands are  *)
(* given the id of this one.                                                *)
OperatorCalls(a, command) ==
    \/ command = "health" /\ CallHealth(a)
    \/ command = "down" /\ CallDown(a, FALSE)
    \/ command = "restart" /\ CallDown(a, TRUE)

-----------------------------------------------------------------------------
(* When nobody is at the environment, a service of it that still lives is   *)
(* the one on file, which `env down` and the next up will find (up, down).  *)
ServicesAreOnFile ==
    (\A a \in Actors : call[a].at = "rest") =>
        \A p \in DOMAIN service : service[p].state \in Alive => p = onFile

(* up returns with a service that lives: one that crashed is started again. *)
UpIsUp ==
    [][\A a \in Actors :
         call[a].at = "up" /\ call'[a].at = "rest" => service[onFile].state \in Alive]_evars
=============================================================================

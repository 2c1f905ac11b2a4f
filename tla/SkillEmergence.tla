--------------------------- MODULE SkillEmergence ---------------------------
(***************************************************************************)
(* Skill emergence in serve, seen from one emerged skill: an attempt asks  *)
(* the detector, resolves what to do with the pattern it found, asks the   *)
(* synthesizer, and overwrites the skill or activates it anew.             *)
(*                                                                         *)
(*   stage   where an attempt is: it awaits two model calls, and holds the *)
(*           event loop from the second answer on                          *)
(*   draft   what it is about to write                                     *)
(*                                                                         *)
(* An attempt is a task of its own: the turn that started it waits for it  *)
(* agent.emergence.inline_timeout_s at most and then leaves it running, so *)
(* an attempt may outlast its turn and overlap any other.                  *)
(*                                                                         *)
(* The skill's directory is below agent.emergence.output_dir, and all      *)
(* patterns are about it (a pattern of another name is another skill's).   *)
(* Of the package only SKILL.md is kept; a bundle is written without a     *)
(* version of its own.                                                     *)
(***************************************************************************)
EXTENDS SkillGovernance

CONSTANTS
    Attempts,
    MaxBodies    \* bound of the model: instructions in all when a bundle arrives

ASSUME AttemptsAssumption == Attempts \cap Actors = {} /\ MaxBodies \in Nat

VARIABLES stage, draft

evars == <<stage, draft>>

(* What an attempt does with its pattern; an update that does not parse is  *)
(* never written.                                                           *)
EmergenceActions == {"update", "activate", "activation_failed"}

Draft == [action : EmergenceActions, before : Content, after : Content]

NoDraft == [action |-> "update", before |-> NoContent, after |-> NoContent]

AwaitingModel == {"idle", "detecting", "synthesizing"}

HoldingLoop == {"writing", "stating", "logging", "registering"}

EmergenceInit ==
    /\ stage = [a \in Attempts |-> "idle"]
    /\ draft = [a \in Attempts |-> NoDraft]

(* No attempt holds the event loop. *)
Quiet == \A a \in Attempts : stage[a] \in AwaitingModel

Advance(a, label) == stage' = [stage EXCEPT ![a] = label]

Ends(a) ==
    /\ Advance(a, "idle")
    /\ draft' = [draft EXCEPT ![a] = NoDraft]

(* An explicit request, or the cadence of the conversation. *)
Begin(a) ==
    /\ LoopFree /\ Quiet /\ stage[a] = "idle"
    /\ Advance(a, "detecting")
    /\ UNCHANGED <<vars, draft>>

(* A pattern of sufficient confidence: registered skills are updated, what  *)
(* is not registered is created.                                            *)
Resolve(a) ==
    /\ LoopFree /\ Quiet /\ stage[a] = "detecting"
    /\ draft' = [draft EXCEPT ![a].action = IF registry.in THEN "update" ELSE "activate"]
    /\ Advance(a, "synthesizing")
    /\ UNCHANGED vars

(* The detector or the synthesizer raises, finds nothing or returns an      *)
(* unsafe bundle.                                                           *)
GivesUp(a) ==
    /\ LoopFree /\ Quiet /\ stage[a] \in {"detecting", "synthesizing"}
    /\ Ends(a)
    /\ UNCHANGED vars

(* The bundle arrives.  An update is parsed before it is written, a new     *)
(* package after.                                                           *)
Synthesize(a) ==
    /\ LoopFree /\ Quiet /\ stage[a] = "synthesizing"
    /\ nextBody <= MaxBodies /\ Len(events) < MaxEvents
    /\ nextBody' = nextBody + 1
    /\ LET after == [ver |-> 0, body |-> nextBody]
       IN  \/ /\ draft[a].action = "update"
              /\ draft' = [draft EXCEPT ![a].before = file, ![a].after = after]
           \/ /\ draft[a].action = "activate"
              /\ \E parsed \in BOOLEAN :
                   draft' = [draft EXCEPT ![a].action = IF parsed THEN "activate" ELSE "activation_failed",
                                          ![a].after = after]
    /\ Advance(a, "writing")
    /\ UNCHANGED <<file, db, up, registry, bare, pc, held, seen, exec, packet, plan>>

WriteBundle(a) ==
    /\ stage[a] = "writing"
    /\ file' = draft[a].after
    /\ Advance(a, "stating")
    /\ UNCHANGED <<nextBody, db, up, registry, bare, pc, held, seen, exec, packet, plan, draft>>

(* Mutant of RegisterState: an update leaves the status as it is. *)
RegisterKeepsStatus(a) ==
    /\ stage[a] = "stating"
    /\ status' = CASE draft[a].action = "activation_failed" -> "disabled"
                   [] draft[a].action = "update" -> status
                   [] OTHER -> "active"
    /\ Advance(a, "logging")
    /\ UNCHANGED <<file, nextBody, events, execs, windows, up, registry, bare, pc, held, seen, exec, packet, plan, draft>>

(* register_emerged_skill *)
RegisterState(a) ==
    /\ stage[a] = "stating"
    /\ status' = IF draft[a].action = "activation_failed" THEN "disabled" ELSE "active"
    /\ Advance(a, "logging")
    /\ UNCHANGED <<file, nextBody, events, execs, windows, up, registry, bare, pc, held, seen, exec, packet, plan, draft>>

(* Mutant of LogEmergence: an update of a registered skill is not recorded. *)
LogActivations(a) ==
    /\ stage[a] = "logging"
    /\ IF draft[a].action = "update" THEN UNCHANGED events
       ELSE events' = Append(events, [action |-> draft[a].action, before |-> draft[a].before,
                                      after |-> draft[a].after, at |-> Now])
    /\ IF draft[a].action = "activation_failed" THEN Ends(a)
       ELSE Advance(a, "registering") /\ UNCHANGED draft
    /\ UNCHANGED <<file, nextBody, status, execs, windows, up, registry, bare, pc, held, seen, exec, packet, plan>>

LogEmergence(a) ==
    /\ stage[a] = "logging"
    /\ events' = Append(events, [action |-> draft[a].action, before |-> draft[a].before,
                                 after |-> draft[a].after, at |-> Now])
    /\ IF draft[a].action = "activation_failed" THEN Ends(a)
       ELSE Advance(a, "registering") /\ UNCHANGED draft
    /\ UNCHANGED <<file, nextBody, status, execs, windows, up, registry, bare, pc, held, seen, exec, packet, plan>>

(* Mutant of RegisterEmerged: a registered skill is not replaced. *)
RegisterMissing(a) ==
    /\ stage[a] = "registering"
    /\ registry' = IF registry.in THEN registry
                   ELSE [in |-> TRUE, skill |-> draft[a].after, status |-> "active"]
    /\ bare' = Dropped(Live)
    /\ Ends(a)
    /\ UNCHANGED <<file, nextBody, db, up, pc, held, seen, exec, packet, plan>>

(* The skill parsed when it was written goes into the live registry. *)
RegisterEmerged(a) ==
    /\ stage[a] = "registering"
    /\ registry' = [in |-> TRUE, skill |-> draft[a].after, status |-> "active"]
    /\ bare' = Dropped(Live)
    /\ Ends(a)
    /\ UNCHANGED <<file, nextBody, db, up, pc, held, seen, exec, packet, plan>>

(* A write raises: the attempt reports a failed activation, and what was    *)
(* written stays.                                                           *)
EmergenceFails(a) ==
    /\ Failures
    /\ stage[a] \in {"writing", "stating", "logging"}
    /\ Ends(a)
    /\ UNCHANGED vars

Emerge(a) ==
    \/ Begin(a) \/ Resolve(a) \/ GivesUp(a) \/ Synthesize(a)
    \/ WriteBundle(a) \/ RegisterState(a) \/ LogEmergence(a) \/ RegisterEmerged(a)
    \/ EmergenceFails(a)

(* The tasks of serve end with it. *)
EmergenceStops ==
    /\ stage' = [a \in Attempts |-> "idle"]
    /\ draft' = [a \in Attempts |-> NoDraft]
=============================================================================

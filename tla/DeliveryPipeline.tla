-------------------------- MODULE DeliveryPipeline --------------------------
(***************************************************************************)
(* delivery_submit and `evidune delivery submit`: every delivery of every  *)
(* task runs its git commands in the one working tree at base_dir, each    *)
(* command a process of its own, in a thread or a command of its own.      *)
(*                                                                         *)
(*   head      the branch that is checked out                              *)
(*   commits   for a branch, the deliveries whose commits are on it        *)
(*   staged    deliverers whose changes are in the index                   *)
(*   delivery  where a delivery is, and the payload of the last one        *)
(*                                                                         *)
(* A deliverer has changes whenever it delivers; pull requests and CI are  *)
(* left out, and so is the push: the payload is that of mode=local.        *)
(***************************************************************************)
EXTENDS Integers, Sequences, FiniteSets

CONSTANTS
    Deliverers,       \* tasks and commands that deliver, each with a branch of its own
    Main,             \* the branch that was checked out when serve was started
    MaxCommits        \* bound of the model

ASSUME DeliveryAssumption == Main \notin Deliverers /\ MaxCommits \in Nat

VARIABLES head, commits, staged, delivery

dvars == <<head, commits, staged, delivery>>

GitBranches == Deliverers \cup {Main}

NotDelivering == [at |-> "rest", sha |-> 0, switch |-> FALSE, raised |-> FALSE]

(* A commit is a number; "of" says whose changes are in it. *)
DeliveryInit ==
    /\ head = Main
    /\ commits = [b \in GitBranches |-> {}]
    /\ staged = {}
    /\ delivery = [d \in Deliverers |-> NotDelivering]

Made == UNION {commits[b] : b \in GitBranches}

-----------------------------------------------------------------------------
StartDelivery(d) ==
    /\ delivery[d].at = "rest"
    /\ delivery' = [delivery EXCEPT ![d] = [NotDelivering EXCEPT !.at = "branch"]]
    /\ UNCHANGED <<head, commits, staged>>

(* git rev-parse --abbrev-ref HEAD *)
ReadBranch(d) ==
    /\ delivery[d].at = "branch"
    /\ delivery' = [delivery EXCEPT ![d].at = "checkout", ![d].switch = (head # d)]
    /\ UNCHANGED <<head, commits, staged>>

(* git checkout -B: the branch is made, or moved, to where HEAD is. *)
Checkout(d) ==
    /\ delivery[d].at = "checkout"
    /\ delivery' = [delivery EXCEPT ![d].at = "stage"]
    /\ IF delivery[d].switch
         THEN head' = d /\ commits' = [commits EXCEPT ![d] = commits[head]]
         ELSE UNCHANGED <<head, commits>>
    /\ UNCHANGED staged

(* git add *)
Stage(d) ==
    /\ delivery[d].at = "stage"
    /\ staged' = staged \cup {d}
    /\ delivery' = [delivery EXCEPT ![d].at = "commit"]
    /\ UNCHANGED <<head, commits>>

(* git diff --cached and git commit: all that is staged goes to the branch  *)
(* that is checked out by now.  Nothing staged, or a commit that fails: the *)
(* delivery ends without a sha all the same, and what is staged stays.      *)
Commit(d) ==
    LET sha == Cardinality(Made) + 1
    IN  /\ delivery[d].at = "commit"
        /\ sha <= MaxCommits
        /\ \/ /\ delivery' = [delivery EXCEPT ![d].at = "rest"]
              /\ UNCHANGED <<commits, staged>>
           \/ /\ staged # {}
              /\ staged' = {}
              /\ commits' = [commits EXCEPT ![head] = @ \cup {[sha |-> sha, of |-> staged]}]
              /\ delivery' = [delivery EXCEPT ![d].at = "rest", ![d].sha = sha]
        /\ UNCHANGED head

(* A git command that fails ends the delivery. *)
DeliveryRaises(d) ==
    /\ delivery[d].at \in {"branch", "checkout", "stage"}
    /\ delivery' = [delivery EXCEPT ![d] = [NotDelivering EXCEPT !.raised = TRUE]]
    /\ UNCHANGED <<head, commits, staged>>

DeliveryStep(d) == ReadBranch(d) \/ Checkout(d) \/ Stage(d) \/ Commit(d) \/ DeliveryRaises(d)

(* Someone checks the main branch out. *)
SwitchBack ==
    /\ head # Main
    /\ head' = Main
    /\ UNCHANGED <<commits, staged, delivery>>

-----------------------------------------------------------------------------
(* What a delivery reports is where it says: the commit of its payload is   *)
(* on the branch of its payload, when it is done and ever after (submit).   *)
DeliveredOnItsBranch ==
    \A d \in Deliverers :
        delivery[d].at = "rest" /\ delivery[d].sha > 0 => \E c \in commits[d] : c.sha = delivery[d].sha

(* The branch of a delivery has its own changes only. *)
BranchIsItsOwn == \A d \in Deliverers : \A c \in commits[d] : c.of = {d}
=============================================================================

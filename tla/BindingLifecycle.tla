-------------------------- MODULE BindingLifecycle --------------------------
(***************************************************************************)
(* What the ledger of evidence bindings promises, whoever works on it: a   *)
(* binding moves along BINDING_TRANSITIONS (memory/evidence_store.py), its *)
(* horizons are observed while it is in observation, an observation is     *)
(* never lost, and it is evaluated when, and only when, none is missing.   *)
(***************************************************************************)
EXTENDS Naturals

CONSTANTS
    Bindings,
    Slots       \* the pairs <<binding, horizon>> of the observation plans

VARIABLES
    status,     \* evidence_bindings.status
    observed    \* the slots that have a row in evidence_observations

Transitions ==
    [ committed         |-> {"scheduled", "cancelled", "invalid"},
      scheduled         |-> {"observing", "cancelled", "expired", "invalid"},
      observing         |-> {"retrying", "partially_matured", "evaluated", "censored", "invalid"},
      retrying          |-> {"observing", "expired", "censored", "invalid", "cancelled"},
      partially_matured |-> {"observing", "evaluated", "censored", "invalid"},
      evaluated         |-> {},
      expired           |-> {},
      censored          |-> {},
      invalid           |-> {},
      cancelled         |-> {} ]

BindingStatuses == DOMAIN Transitions

SlotsOf(b) == {s \in Slots : s[1] = b}

Init ==
    /\ status = [b \in Bindings |-> "committed"]
    /\ observed = {}

Observe(s) ==
    /\ status[s[1]] = "observing"
    /\ observed' = observed \cup {s}
    /\ UNCHANGED status

Move(b, to) ==
    /\ to \in Transitions[status[b]]
    /\ to = "evaluated" => SlotsOf(b) \subseteq observed
    /\ to = "partially_matured" => SlotsOf(b) \cap observed # {} /\ ~(SlotsOf(b) \subseteq observed)
    /\ status' = [status EXCEPT ![b] = to]
    /\ UNCHANGED observed

Next ==
    \/ \E s \in Slots : Observe(s)
    \/ \E b \in Bindings, to \in BindingStatuses : Move(b, to)

Spec == Init /\ [][Next]_<<status, observed>>
=============================================================================

---------------------------- MODULE TurnLifecycle ----------------------------
(***************************************************************************)
(* The Turn state machine of crates/satelle/src/core/session.rs: the       *)
(* states a Turn can be in, the transitions an execution may ask for, and  *)
(* what each kind of evidence gathered for a stop request does to a Turn.  *)
(***************************************************************************)

ActiveStates   == {"starting", "running", "recovery_pending"}

TerminalStates == {"completed", "blocked", "failed", "stopped"}

TurnStates     == ActiveStates \cup TerminalStates

\* The states a TurnTransition names (RecoveryFailed also leads to "failed").
\* "stopped" is reached only through stop evidence.
TurnTransitions == {"running", "recovery_pending", "completed", "blocked", "failed"}

transition_allowed(from, to) ==
    \/ from = "starting"         /\ to \in {"running", "recovery_pending"} \cup TerminalStates
    \/ from = "running"          /\ to \in {"recovery_pending"} \cup TerminalStates
    \/ from = "recovery_pending" /\ to \in {"running"} \cup TerminalStates

StopObservations == {"cancellation_confirmed", "upstream_inactive_confirmed",
                     "upstream_still_active", "outcome_unknown"}

\* The state stop_turn leaves a nonterminal Turn in.  Only confirmed evidence
\* ends it; anything else keeps desktop ownership, as Running or for recovery.
StopTarget(observation) ==
    CASE observation \in {"cancellation_confirmed", "upstream_inactive_confirmed"} -> "stopped"
      [] observation = "upstream_still_active" -> "running"
      [] observation = "outcome_unknown"       -> "recovery_pending"
=============================================================================

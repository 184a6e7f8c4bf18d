----------------------------- MODULE JobStates -----------------------------
(***************************************************************************)
(* The lifecycle of an execution job (state/machine.py): its states, the   *)
(* transition table every checked state change is validated against, and   *)
(* the sets of states other components ask about.                          *)
(***************************************************************************)

JobState ==
    {"created", "validating_bundle", "invalid_bundle",
     "awaiting_human_approval", "dry_run_ready", "dry_running",
     "awaiting_llm_instruction", "executing", "decision_required", "paused",
     "wait_scheduled", "validation_running", "rollback_requested",
     "rolling_back", "completed", "failed", "cancelled"}

Terminal == {"completed", "failed", "cancelled"}

\* The states InMemoryJobQueue.rehydrate puts back in the queue.
RunnableStates ==
    {"created", "validating_bundle", "dry_run_ready", "dry_running",
     "awaiting_llm_instruction", "executing", "wait_scheduled",
     "validation_running", "rollback_requested", "rolling_back"}

AllowedTransitions ==
    [s \in JobState |->
      CASE s = "created" -> {"validating_bundle", "cancelled"}
        [] s = "validating_bundle" ->
             {"invalid_bundle", "awaiting_human_approval",
              "awaiting_llm_instruction", "decision_required",
              "dry_run_ready", "paused", "failed", "cancelled"}
        [] s = "invalid_bundle" -> {"cancelled"}
        [] s = "awaiting_human_approval" ->
             {"dry_run_ready", "executing", "rolling_back", "cancelled",
              "failed"}
        [] s = "dry_run_ready" ->
             {"dry_running", "decision_required", "paused", "cancelled"}
        [] s = "dry_running" ->
             {"dry_run_ready", "awaiting_llm_instruction",
              "decision_required", "wait_scheduled",
              "awaiting_human_approval", "validation_running", "completed",
              "failed", "cancelled"}
        [] s = "awaiting_llm_instruction" ->
             {"dry_run_ready", "executing", "rolling_back", "failed",
              "cancelled", "paused"}
        [] s = "executing" ->
             {"wait_scheduled", "decision_required", "paused",
              "validation_running", "completed", "failed",
              "rollback_requested", "cancelled", "awaiting_human_approval"}
        [] s = "decision_required" ->
             {"awaiting_llm_instruction", "awaiting_human_approval",
              "dry_run_ready", "executing", "rolling_back", "failed",
              "cancelled", "paused"}
        [] s = "paused" -> {"dry_run_ready", "executing", "cancelled"}
        [] s = "wait_scheduled" ->
             {"executing", "decision_required", "cancelled", "paused"}
        [] s = "validation_running" ->
             {"completed", "decision_required", "failed", "cancelled"}
        [] s = "rollback_requested" ->
             {"awaiting_human_approval", "rolling_back",
              "decision_required", "cancelled"}
        [] s = "rolling_back" ->
             {"completed", "failed", "decision_required", "cancelled"}
        [] s = "completed" -> {"rollback_requested"}
        [] s = "failed" -> {}
        [] s = "cancelled" -> {}]

\* StateMachine.assert_transition_allowed.
TransitionAllowed(from, to) == to \in AllowedTransitions[from]
=============================================================================

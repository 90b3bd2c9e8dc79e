-------------------------- MODULE MCAgentOwnership --------------------------
(* Instances of AgentOwnership for TLC: which thread makes which calls.     *)
EXTENDS AgentOwnership, TLC

CONSTANTS ui, worker, waiter

\* The terminal application: one UI thread starts and aborts operations, a
\* spawned task owns the handle, drives it and drops it, another task waits
\* for the idle boundary while runs come and go.
UiCalls ==
    ui :> {"start_prompt", "start_compaction", "enqueue", "abort", "reset"}
    @@ worker :> {"drive", "drop"}
    @@ waiter :> {"wait_for_idle"}

\* It keeps the discipline that the theorems about the phase assume.
ASSUME UiIsDisciplined == Calls = UiCalls => Disciplined

\* Every call, shared handles and abandoned futures included.
AnyCalls ==
    ui :> CallNames \ {"wait_for_idle", "start_compaction"}
    @@ worker :> {"start_compaction", "drive", "handle_abort", "abort", "abandon"}

=============================================================================

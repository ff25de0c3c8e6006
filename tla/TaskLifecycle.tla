---------------------------- MODULE TaskLifecycle ----------------------------
(***************************************************************************)
(* The lifecycle of a task (domain/state_machine.py): the only changes of  *)
(* state that the domain permits.  It is the abstract specification that   *)
(* TaskOrchestrator implements.                                            *)
(***************************************************************************)

VARIABLE state

TaskState == {"discovered", "awaiting_start_approval", "planning", "provisioning",
              "running", "collecting", "review_ready", "awaiting_submit_approval",
              "submitting", "completed", "denied", "cancelled", "failed",
              "cleaning_up", "cleaned"}

\* _TRANSITIONS, and transition's test of it.
Targets(s) ==
  CASE s = "discovered"               -> {"awaiting_start_approval", "cancelled"}
    [] s = "awaiting_start_approval"  -> {"planning", "denied", "cancelled"}
    [] s = "planning"                 -> {"provisioning", "failed", "cancelled"}
    [] s = "provisioning"             -> {"running", "failed", "cleaning_up"}
    [] s = "running"                  -> {"collecting", "failed", "cleaning_up"}
    [] s = "collecting"               -> {"review_ready", "failed", "cleaning_up"}
    [] s = "review_ready"             -> {"awaiting_submit_approval", "cancelled"}
    [] s = "awaiting_submit_approval" -> {"submitting", "denied", "cancelled"}
    [] s = "submitting"               -> {"completed", "failed", "cleaning_up"}
    [] s \in {"completed", "denied", "cancelled", "failed"} -> {"cleaning_up"}
    [] s = "cleaning_up"              -> {"cleaned"}
    [] OTHER                          -> {}

CanMove(s, target) == target \in Targets(s)

Init == state = "discovered"
Next == \E target \in TaskState : CanMove(state, target) /\ state' = target
Spec == Init /\ [][Next]_state
=============================================================================

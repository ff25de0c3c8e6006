----------------------------- MODULE Reclamation -----------------------------
(***************************************************************************)
(* What retention promises of one tombstone: the agent's targets are       *)
(* removed only once the tombstone is committed, the acknowledgement says  *)
(* that all of them are gone, the controller's targets are removed only    *)
(* after the acknowledgement, and the receipt says that nothing is left.   *)
(* How two processes and a directory of files bring this about, and what   *)
(* happens when one of them dies half way, is the business of Retention.   *)
(***************************************************************************)
EXTENDS FiniteSets

CONSTANTS
  Tombstone,      \* the tombstones that are ever planned
  AgentTargets,      \* the targets that the agent owns, by tombstone
  ControllerTargets  \* the targets that the controller owns, by tombstone

VARIABLES
  stage,  \* how far each tombstone is
  left    \* the targets that are still there

vars == <<stage, left>>

Targets == UNION {AgentTargets[t] \cup ControllerTargets[t] : t \in Tombstone}

Init ==
  /\ stage = [t \in Tombstone |-> "kept"]
  /\ left \subseteq Targets

Commit(t) ==
  /\ stage[t] = "kept"
  /\ stage' = [stage EXCEPT ![t] = "committed"]
  /\ UNCHANGED left

AgentRemoves(t, x) ==
  /\ stage[t] = "committed"
  /\ x \in left
  /\ left' = left \ {x}
  /\ UNCHANGED stage

Acknowledge(t) ==
  /\ stage[t] = "committed"
  /\ left \cap AgentTargets[t] = {}
  /\ stage' = [stage EXCEPT ![t] = "acknowledged"]
  /\ UNCHANGED left

ControllerRemoves(t, x) ==
  /\ stage[t] = "acknowledged"
  /\ x \in left
  /\ left' = left \ {x}
  /\ UNCHANGED stage

Finish(t) ==
  /\ stage[t] = "acknowledged"
  /\ left \cap ControllerTargets[t] = {}
  /\ stage' = [stage EXCEPT ![t] = "reclaimed"]
  /\ UNCHANGED left

Next ==
  \E t \in Tombstone :
    \/ Commit(t)
    \/ \E x \in AgentTargets[t] : AgentRemoves(t, x)
    \/ Acknowledge(t)
    \/ \E x \in ControllerTargets[t] : ControllerRemoves(t, x)
    \/ Finish(t)

Spec == Init /\ [][Next]_vars
=============================================================================

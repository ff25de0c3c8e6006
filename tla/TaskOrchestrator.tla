-------------------------- MODULE TaskOrchestrator --------------------------
(***************************************************************************)
(* The application orchestrator (TaskOrchestrator in orchestrator.py): it  *)
(* turns human approvals and lifecycle state into calls on the ports.      *)
(*                                                                         *)
(* Its caller may invoke any operation at any time with any arguments, and *)
(* repeat it after an exception.  An operation that calls a port is        *)
(* several steps, one for each port call: the port may raise, with or      *)
(* without its effect, and the operation ends there with what it has       *)
(* assigned so far.  An invocation that is rejected before any assignment  *)
(* or call changes nothing and is not a step.                              *)
(***************************************************************************)
EXTENDS Naturals, FiniteSets

CONSTANTS
  Digest,   \* digests of plans and of submissions
  Variant,  \* what else requests and intents say, beyond their digest
  Key,      \* idempotency keys callers use
  None

VARIABLES
  state,      \* the TaskState
  pc,         \* the port call about to be made
  start,      \* _start_approval: its digest, once one was accepted
  approved,   \* _approved_submission_intent (set along with _submit_approval)
  request,    \* _provision_request and _provision_idempotency_key
  handle,     \* lab_handle
  cleanupKey, \* _cleanup_idempotency_key
  labs,       \* the provider: the labs running
  provisioned, executed, submitted, tornDown,  \* history: the arguments of the
              \* calls made so far on each of these ports
  submits     \* history: how many calls of the submitter (two or more is 2)

fields == <<start, approved, request, handle, cleanupKey>>
calls  == <<provisioned, executed, submitted, tornDown, submits>>
vars   == <<state, pc, fields, labs, calls>>

Lifecycle == INSTANCE TaskLifecycle

\* ours: it names this task and workflow revision.
Request  == [digest: Digest, variant: Variant, ours: BOOLEAN]
Approval == [checkpoint: {"start_work", "submit"}, digest: Digest,
             approved: BOOLEAN, ours: BOOLEAN]

\* The provider knows a lab by its request and key: provision is idempotent.
Lab == Request \X Key

ASSUME NoneAssumption == None \notin Key \cup Digest \cup Request \cup Lab

TypeOK ==
  /\ state \in Lifecycle!TaskState
  /\ pc \in {"idle", "provision", "readiness", "execute", "submit", "reconcile", "teardown"}
  /\ pc = "reconcile" => request # None
  /\ start \in Digest \cup {None}
  /\ approved \in Request \cup {None}
  /\ request \in Lab \cup {None}
  /\ handle \in Lab \cup {None}
  /\ cleanupKey \in Key \cup {None}
  /\ labs \subseteq Lab
  /\ provisioned \subseteq Lab /\ executed \subseteq Request /\ submitted \subseteq Request
  /\ tornDown \subseteq Key
  /\ submits \in 0..2

Init ==
  /\ state = "discovered" /\ pc = "idle"
  /\ start = None /\ approved = None /\ request = None /\ handle = None
  /\ cleanupKey = None
  /\ labs = {}
  /\ provisioned = {} /\ executed = {} /\ submitted = {} /\ tornDown = {} /\ submits = 0

-----------------------------------------------------------------------------

\* An operation begins only when no other is under way (there is one caller).
Begin == pc = "idle"

\* transition(self.state, target), which raises where the domain forbids it.
Move(target) == Lifecycle!CanMove(state, target) /\ state' = target

\* _validate_approval
Valid(a, checkpoint, digest) ==
  a.approved /\ a.ours /\ a.checkpoint = checkpoint /\ a.digest = digest

\* _require_start_approval
StartApproved(r) == r.ours /\ start # None /\ start = r.digest

RequestStartApproval ==
  /\ Begin /\ Move("awaiting_start_approval")
  /\ UNCHANGED <<pc, fields, labs, calls>>

ApproveStart(a) ==
  /\ Begin /\ Move("planning")
  /\ \E expected \in Digest : Valid(a, "start_work", expected)
  /\ start' = a.digest
  /\ UNCHANGED <<pc, approved, request, handle, cleanupKey, labs, calls>>

\* Defect: a retry may come with another request or key.
ProvisionLab_AnyRetry(r, key) ==
  /\ Begin /\ StartApproved(r)
  /\ state = "provisioning" \/ Lifecycle!CanMove(state, "provisioning")
  /\ state' = "provisioning"
  /\ request' = <<r, key>>
  /\ pc' = "provision"
  /\ UNCHANGED <<start, approved, handle, cleanupKey, labs, calls>>

\* provision_lab: first with this request and key, or a retry with the same (a
\* replay in state running returns the retained handle: no step).
ProvisionLab(r, key) ==
  /\ Begin /\ StartApproved(r)
  /\ \/ Move("provisioning") /\ request' = <<r, key>>
     \/ state = "provisioning" /\ request = <<r, key>> /\ UNCHANGED <<state, request>>
  /\ pc' = "provision"
  /\ UNCHANGED <<start, approved, handle, cleanupKey, labs, calls>>

\* provider.provision returns the handle, or raises, the lab started or not.
ProviderProvisions ==
  /\ pc = "provision"
  /\ provisioned' = provisioned \cup {request}
  /\ \/ labs' = labs \cup {request} /\ handle' = request /\ pc' = "readiness"
     \/ labs' \in {labs, labs \cup {request}} /\ pc' = "idle" /\ UNCHANGED handle
  /\ UNCHANGED <<state, start, approved, request, cleanupKey>>
  /\ UNCHANGED <<executed, submitted, tornDown, submits>>

\* provider.readiness: ready, not ready, or an exception.
ProviderReadiness ==
  /\ pc = "readiness" /\ pc' = "idle"
  /\ Move("running") \/ Move("failed") \/ UNCHANGED state
  /\ UNCHANGED <<fields, labs, calls>>

\* execute, up to the call of the runtime.
Execute(r) ==
  /\ Begin /\ StartApproved(r) /\ Move("collecting")
  /\ pc' = "execute"
  /\ executed' = executed \cup {r}
  /\ UNCHANGED <<fields, labs, provisioned, submitted, tornDown, submits>>

\* runtime.execute: it succeeds, fails or raises.
RuntimeExecutes ==
  /\ pc = "execute" /\ pc' = "idle"
  /\ Move("review_ready") \/ Move("failed") \/ UNCHANGED state
  /\ UNCHANGED <<fields, labs, calls>>

RequestSubmitApproval ==
  /\ Begin /\ Move("awaiting_submit_approval")
  /\ UNCHANGED <<pc, fields, labs, calls>>

\* approve_submission: the latest approval given in this state is the one kept.
ApproveSubmission(a, intent) ==
  /\ Begin /\ Lifecycle!CanMove(state, "submitting")
  /\ Valid(a, "submit", intent.digest) /\ intent.ours
  /\ approved' = intent
  /\ UNCHANGED <<state, pc, start, request, handle, cleanupKey, labs, calls>>

SubmitCalled(intent) ==
  /\ pc' = "submit"
  /\ submitted' = submitted \cup {intent}
  /\ submits' = IF submits < 2 THEN submits + 1 ELSE submits
  /\ UNCHANGED <<fields, labs, provisioned, executed, tornDown>>

\* Defect: the state becomes submitting only when the submitter has answered.
Submit_MovesLater(intent) ==
  /\ Begin /\ approved # None /\ intent = approved
  /\ Lifecycle!CanMove(state, "submitting") /\ UNCHANGED state
  /\ SubmitCalled(intent)

\* submit, up to the call of the submitter.
Submit(intent) ==
  /\ Begin /\ approved # None /\ intent = approved
  /\ Move("submitting")
  /\ SubmitCalled(intent)

\* submitter.submit returns, or raises.
SubmitterSubmits ==
  /\ pc = "submit" /\ pc' = "idle"
  /\ Move("completed") \/ UNCHANGED state
  /\ UNCHANGED <<fields, labs, calls>>

\* Defect: cleanup starts from any state.
CleanupStarts_Anywhere(key) ==
  state \notin {"cleaned", "cleaning_up"} /\ state' = "cleaning_up" /\ cleanupKey' = key

CleanupStarts(key) ==
  \/ Move("cleaning_up") /\ cleanupKey' = key
  \/ state = "cleaning_up" /\ key = cleanupKey /\ UNCHANGED <<state, cleanupKey>>

\* cleanup, up to its first port call.  (No state from which it may start is
\* reached without a provision request, so there is one.)
Cleanup(key) ==
  /\ Begin /\ CleanupStarts(key)
  /\ pc' = IF handle # None THEN "teardown" ELSE "reconcile"
  /\ UNCHANGED <<start, approved, request, handle, labs, calls>>

\* provider.reconcile: the lab of the original request and key, None, or raises.
ProviderReconciles ==
  /\ pc = "reconcile"
  /\ \/ request \in labs /\ handle' = request /\ pc' = "teardown" /\ UNCHANGED state
     \/ request \notin labs /\ Move("cleaned") /\ pc' = "idle" /\ UNCHANGED handle
     \/ pc' = "idle" /\ UNCHANGED <<state, handle>>
  /\ UNCHANGED <<start, approved, request, cleanupKey, labs, calls>>

\* provider.teardown returns, or raises, the lab terminated or not.
ProviderTearsDown ==
  /\ pc = "teardown" /\ pc' = "idle"
  /\ tornDown' = tornDown \cup {cleanupKey}
  /\ \/ labs' = labs \ {handle} /\ Move("cleaned")
     \/ labs' \in {labs, labs \ {handle}} /\ UNCHANGED state
  /\ UNCHANGED <<fields, provisioned, executed, submitted, submits>>

Next ==
  \/ RequestStartApproval \/ RequestSubmitApproval
  \/ \E a \in Approval :
       \/ ApproveStart(a)
       \/ \E intent \in Request : ApproveSubmission(a, intent)
  \/ \E r \in Request :
       \/ \E key \in Key : ProvisionLab(r, key)
       \/ Execute(r)
       \/ Submit(r)
  \/ \E key \in Key : Cleanup(key)
  \/ ProviderProvisions \/ ProviderReadiness \/ RuntimeExecutes \/ SubmitterSubmits
  \/ ProviderReconciles \/ ProviderTearsDown

Spec == Init /\ [][Next]_vars

-----------------------------------------------------------------------------
(* Properties.                                                             *)

\* However calls fail and are retried, and whatever arguments they are retried
\* with, the provider is only ever asked for one lab (orchestrator.py:110-134).
OneLab == Cardinality(provisioned) <= 1

\* A cleaned task has no lab, even if provisioning raised after it had started
\* one and no handle was ever returned (orchestrator.py:201-210).
CleanedMeansNoLab == state = "cleaned" => labs = {}

\* What is executed, in whatever lab, is the plan the human approved and the lab
\* was provisioned for: all port calls carry one digest (orchestrator.py:96-152).
OnePlan ==
  /\ \A r \in {l[1] : l \in provisioned} \cup executed : r.ours /\ r.digest = start
  /\ executed # {} => provisioned # {}

\* The submitter is called at most once, with the intent whose approval was the
\* last one given, and never after an exception (orchestrator.py:157-184).
SubmitOnce == submits <= 1 /\ submitted \subseteq {approved}

\* Every teardown of a task, retries included, carries the same key
\* (orchestrator.py:186-200).
OneCleanupKey == Cardinality(tornDown) <= 1

\* The orchestrator implements the domain's lifecycle: no operation, exception
\* or retry moves a task along an edge the domain forbids (state_machine.py).
ImplementsLifecycle == Lifecycle!Spec
=============================================================================

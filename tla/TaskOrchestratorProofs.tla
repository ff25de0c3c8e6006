------------------------ MODULE TaskOrchestratorProofs ------------------------
(***************************************************************************)
(* Proofs about TaskOrchestrator, for any digests, variants and keys.      *)
(***************************************************************************)
EXTENDS TaskOrchestrator, FiniteSetTheorems, TLAPS

-----------------------------------------------------------------------------
(* The inductive invariant.                                                *)

BeforeProvision == {"discovered", "awaiting_start_approval", "planning"}
BeforeSubmit    == BeforeProvision \cup
                   {"provisioning", "running", "collecting", "review_ready",
                    "awaiting_submit_approval"}

\* The approved plan, and the one request ever made for it.
Planned ==
  /\ state \notin {"denied", "cancelled"}
  /\ state \in {"discovered", "awaiting_start_approval"} => start = None
  /\ state \in BeforeProvision <=> request = None
  /\ request # None => start # None /\ request[1].ours /\ request[1].digest = start

\* Every lab there is or was asked for is the one of that request.
LabKnown ==
  /\ provisioned \subseteq {request}
  /\ labs \subseteq provisioned
  /\ handle # None => handle = request /\ provisioned # {}

Executions ==
  /\ \A r \in executed : r.ours /\ r.digest = start
  /\ executed # {} => provisioned # {}
  /\ state = "running" => handle # None

\* What the state is during each port call.
Phases ==
  /\ pc \in {"provision", "readiness"} => state = "provisioning"
  /\ pc = "execute" => state = "collecting"
  /\ pc = "submit" => state = "submitting"
  /\ pc \in {"reconcile", "teardown"} => state = "cleaning_up"
  /\ pc \in {"readiness", "teardown"} => handle # None

Submissions ==
  /\ SubmitOnce
  /\ state \in BeforeSubmit => submits = 0 /\ submitted = {}

Cleanups ==
  /\ tornDown \subseteq {cleanupKey}
  /\ state \notin {"cleaning_up", "cleaned"} => tornDown = {}
  /\ state = "cleaning_up" => cleanupKey # None

IInv ==
  /\ TypeOK /\ Planned /\ LabKnown /\ Executions /\ Phases /\ Submissions /\ Cleanups
  /\ CleanedMeansNoLab

-----------------------------------------------------------------------------
\* The states each target can be reached from.
LEMMA Sources ==
  ASSUME NEW target, Lifecycle!CanMove(state, target)
  PROVE  /\ state \in Lifecycle!TaskState /\ target \in Lifecycle!TaskState
         /\ target = "awaiting_start_approval" => state = "discovered"
         /\ target = "planning" => state = "awaiting_start_approval"
         /\ target = "provisioning" => state = "planning"
         /\ target = "running" => state = "provisioning"
         /\ target = "collecting" => state = "running"
         /\ target = "review_ready" => state = "collecting"
         /\ target = "awaiting_submit_approval" => state = "review_ready"
         /\ target = "submitting" => state = "awaiting_submit_approval"
         /\ target = "completed" => state = "submitting"
         /\ target = "cleaned" => state = "cleaning_up"
         /\ target = "cleaning_up" => state \notin BeforeProvision \cup {"cleaning_up", "cleaned"}
BY DEF Lifecycle!CanMove, Lifecycle!Targets, Lifecycle!TaskState, BeforeProvision

LEMMA InitIInv == Init => IInv
BY DEF Init, IInv, TypeOK, Planned, LabKnown, Executions, Phases, Submissions, SubmitOnce,
       Cleanups, CleanedMeansNoLab, BeforeProvision, BeforeSubmit, Lifecycle!TaskState

LEMMA NextIInv == IInv /\ [Next]_vars => IInv'
  <1>. SUFFICES ASSUME IInv, [Next]_vars PROVE IInv'
    OBVIOUS
  <1>1. ASSUME RequestStartApproval PROVE IInv'
    <2>0. state = "discovered" /\ state' = "awaiting_start_approval"
      BY <1>1, Sources DEF RequestStartApproval, Begin, Move
    <2>1. TypeOK'
      BY <1>1, <2>0, NoneAssumption DEF RequestStartApproval, Begin, fields, calls, IInv,
        TypeOK, Planned, BeforeProvision, Lab, Request, Approval, Lifecycle!TaskState
    <2>2. Planned'
      BY <1>1, <2>0, NoneAssumption DEF RequestStartApproval, Begin, fields, calls, IInv,
        TypeOK, Planned, BeforeProvision, Lab, Request, Approval
    <2>3. Executions'
      BY <1>1, <2>0, NoneAssumption DEF RequestStartApproval, Begin, fields, calls, IInv,
        Executions, LabKnown, Planned, BeforeProvision
    <2>4. Phases'
      BY <1>1, <2>0 DEF RequestStartApproval, Begin, fields, calls, IInv, Phases
    <2>5. Submissions'
      BY <1>1, <2>0 DEF RequestStartApproval, Begin, fields, calls, IInv, Submissions,
        SubmitOnce, BeforeSubmit, BeforeProvision
    <2>6. Cleanups'
      BY <1>1, <2>0, NoneAssumption DEF RequestStartApproval, Begin, fields, calls, IInv,
        TypeOK, Cleanups
    <2>7. CleanedMeansNoLab'
      BY <1>1, <2>0, NoneAssumption DEF RequestStartApproval, Begin, fields, calls, IInv,
        CleanedMeansNoLab, LabKnown
    <2>8. LabKnown'
      BY <1>1 DEF RequestStartApproval, fields, calls, IInv, LabKnown
    <2>. QED
      BY <2>1, <2>2, <2>3, <2>4, <2>5, <2>6, <2>7, <2>8 DEF IInv
  <1>2. ASSUME RequestSubmitApproval PROVE IInv'
    <2>0. state = "review_ready" /\ state' = "awaiting_submit_approval"
      BY <1>2, Sources DEF RequestSubmitApproval, Begin, Move
    <2>1. TypeOK'
      BY <1>2, <2>0, NoneAssumption DEF RequestSubmitApproval, Begin, fields, calls, IInv,
        TypeOK, Planned, BeforeProvision, Lab, Request, Approval, Lifecycle!TaskState
    <2>2. Planned'
      BY <1>2, <2>0, NoneAssumption DEF RequestSubmitApproval, Begin, fields, calls, IInv,
        TypeOK, Planned, BeforeProvision, Lab, Request, Approval
    <2>3. Executions'
      BY <1>2, <2>0, NoneAssumption DEF RequestSubmitApproval, Begin, fields, calls, IInv,
        Executions, LabKnown, Planned, BeforeProvision
    <2>4. Phases'
      BY <1>2, <2>0 DEF RequestSubmitApproval, Begin, fields, calls, IInv, Phases
    <2>5. Submissions'
      BY <1>2, <2>0 DEF RequestSubmitApproval, Begin, fields, calls, IInv, Submissions,
        SubmitOnce, BeforeSubmit, BeforeProvision
    <2>6. Cleanups'
      BY <1>2, <2>0, NoneAssumption DEF RequestSubmitApproval, Begin, fields, calls, IInv,
        TypeOK, Cleanups
    <2>7. CleanedMeansNoLab'
      BY <1>2, <2>0, NoneAssumption DEF RequestSubmitApproval, Begin, fields, calls, IInv,
        CleanedMeansNoLab, LabKnown
    <2>8. LabKnown'
      BY <1>2 DEF RequestSubmitApproval, fields, calls, IInv, LabKnown
    <2>. QED
      BY <2>1, <2>2, <2>3, <2>4, <2>5, <2>6, <2>7, <2>8 DEF IInv
  <1>3. ASSUME NEW a \in Approval, ApproveStart(a) PROVE IInv'
    <2>0. state = "awaiting_start_approval" /\ state' = "planning"
      BY <1>3, Sources DEF ApproveStart, Begin, Move
    <2>1. TypeOK'
      BY <1>3, <2>0, NoneAssumption DEF ApproveStart, Begin, Valid, fields, calls, IInv, TypeOK,
        Planned, BeforeProvision, Lab, Request, Approval, Lifecycle!TaskState
    <2>2. Planned'
      BY <1>3, <2>0, NoneAssumption DEF ApproveStart, Begin, Valid, fields, calls, IInv, TypeOK,
        Planned, BeforeProvision, Lab, Request, Approval
    <2>3. Executions'
      BY <1>3, <2>0, NoneAssumption DEF ApproveStart, Begin, fields, calls, IInv, Executions,
        LabKnown, Planned, BeforeProvision, TypeOK
    <2>4. Phases'
      BY <1>3, <2>0 DEF ApproveStart, Begin, fields, calls, IInv, Phases
    <2>5. Submissions'
      BY <1>3, <2>0 DEF ApproveStart, Begin, fields, calls, IInv, Submissions, SubmitOnce,
        BeforeSubmit, BeforeProvision
    <2>6. Cleanups'
      BY <1>3, <2>0, NoneAssumption DEF ApproveStart, Begin, fields, calls, IInv, TypeOK,
        Cleanups
    <2>7. CleanedMeansNoLab'
      BY <1>3, <2>0, NoneAssumption DEF ApproveStart, Begin, fields, calls, IInv,
        CleanedMeansNoLab, LabKnown
    <2>8. LabKnown'
      BY <1>3 DEF ApproveStart, fields, calls, IInv, LabKnown
    <2>. QED
      BY <2>1, <2>2, <2>3, <2>4, <2>5, <2>6, <2>7, <2>8 DEF IInv
  <1>4. ASSUME NEW a \in Approval, NEW intent \in Request, ApproveSubmission(a, intent) PROVE IInv'
    <2>0. state = "awaiting_submit_approval" /\ state' = state
      BY <1>4, Sources DEF ApproveSubmission, Begin
    <2>1. TypeOK'
      BY <1>4, <2>0, NoneAssumption DEF ApproveSubmission, Begin, fields, calls, IInv, TypeOK,
        Planned, BeforeProvision, Lab, Request, Approval, Lifecycle!TaskState
    <2>2. Submissions'
      BY <1>4, <2>0 DEF ApproveSubmission, Begin, fields, calls, IInv, Submissions, SubmitOnce,
        BeforeSubmit, BeforeProvision
    <2>3. Planned' /\ LabKnown' /\ Executions' /\ Phases' /\ Cleanups' /\ CleanedMeansNoLab'
      BY <1>4 DEF ApproveSubmission, fields, calls, IInv, Planned, LabKnown, Executions, Phases,
        Cleanups, CleanedMeansNoLab
    <2>. QED
      BY <2>1, <2>2, <2>3 DEF IInv
  <1>5. ASSUME NEW r \in Request, NEW key \in Key, ProvisionLab(r, key) PROVE IInv'
    <2>0. /\ state' = "provisioning"
             /\ request' = <<r, key>>
             /\ \/ state = "planning"
                \/ state = "provisioning" /\ request' = request
      BY <1>5, Sources DEF ProvisionLab, Begin, Move
    <2>1. TypeOK'
      BY <1>5, <2>0, NoneAssumption DEF ProvisionLab, Begin, StartApproved, fields, calls, IInv,
        TypeOK, Planned, BeforeProvision, Lab, Request, Approval, Lifecycle!TaskState
    <2>2. Planned'
      BY <1>5, <2>0, NoneAssumption DEF ProvisionLab, Begin, StartApproved, fields, calls, IInv,
        TypeOK, Planned, BeforeProvision, Lab, Request, Approval
    <2>3. LabKnown'
      BY <1>5, <2>0, NoneAssumption DEF ProvisionLab, Begin, StartApproved, fields, calls, IInv,
        LabKnown, Planned, BeforeProvision, TypeOK
    <2>4. Executions'
      BY <1>5, <2>0, NoneAssumption DEF ProvisionLab, Begin, StartApproved, fields, calls, IInv,
        Executions, LabKnown, Planned, BeforeProvision
    <2>5. Phases'
      BY <1>5, <2>0 DEF ProvisionLab, Begin, StartApproved, fields, calls, IInv, Phases
    <2>6. Submissions'
      BY <1>5, <2>0 DEF ProvisionLab, Begin, StartApproved, fields, calls, IInv, Submissions,
        SubmitOnce, BeforeSubmit, BeforeProvision
    <2>7. Cleanups'
      BY <1>5, <2>0, NoneAssumption DEF ProvisionLab, Begin, StartApproved, fields, calls, IInv,
        TypeOK, Cleanups
    <2>8. CleanedMeansNoLab'
      BY <1>5, <2>0, NoneAssumption DEF ProvisionLab, Begin, StartApproved, fields, calls, IInv,
        CleanedMeansNoLab, LabKnown
    <2>. QED
      BY <2>1, <2>2, <2>3, <2>4, <2>5, <2>6, <2>7, <2>8 DEF IInv
  <1>6. ASSUME NEW r \in Request, Execute(r) PROVE IInv'
    <2>0. state = "running" /\ state' = "collecting"
      BY <1>6, Sources DEF Execute, Begin, Move
    <2>1. TypeOK'
      BY <1>6, <2>0, NoneAssumption DEF Execute, Begin, StartApproved, fields, calls, IInv,
        TypeOK, Planned, BeforeProvision, Lab, Request, Approval, Lifecycle!TaskState
    <2>2. Planned'
      BY <1>6, <2>0, NoneAssumption DEF Execute, Begin, StartApproved, fields, calls, IInv,
        TypeOK, Planned, BeforeProvision, Lab, Request, Approval
    <2>3. Executions'
      BY <1>6, <2>0, NoneAssumption DEF Execute, Begin, StartApproved, fields, calls, IInv,
        Executions, LabKnown, Planned, BeforeProvision
    <2>4. Phases'
      BY <1>6, <2>0 DEF Execute, Begin, StartApproved, fields, calls, IInv, Phases
    <2>5. Submissions'
      BY <1>6, <2>0 DEF Execute, Begin, StartApproved, fields, calls, IInv, Submissions,
        SubmitOnce, BeforeSubmit, BeforeProvision
    <2>6. Cleanups'
      BY <1>6, <2>0, NoneAssumption DEF Execute, Begin, StartApproved, fields, calls, IInv,
        TypeOK, Cleanups
    <2>7. CleanedMeansNoLab'
      BY <1>6, <2>0, NoneAssumption DEF Execute, Begin, StartApproved, fields, calls, IInv,
        CleanedMeansNoLab, LabKnown
    <2>8. LabKnown'
      BY <1>6 DEF Execute, fields, calls, IInv, LabKnown
    <2>. QED
      BY <2>1, <2>2, <2>3, <2>4, <2>5, <2>6, <2>7, <2>8 DEF IInv
  <1>7. ASSUME NEW intent \in Request, Submit(intent) PROVE IInv'
    <2>0. state = "awaiting_submit_approval" /\ state' = "submitting"
      BY <1>7, Sources DEF Submit, Begin, Move
    <2>1. TypeOK'
      BY <1>7, <2>0, NoneAssumption DEF Submit, Begin, SubmitCalled, fields, calls, IInv,
        TypeOK, Planned, BeforeProvision, Lab, Request, Approval, Lifecycle!TaskState
    <2>2. Planned'
      BY <1>7, <2>0, NoneAssumption DEF Submit, Begin, SubmitCalled, fields, calls, IInv,
        TypeOK, Planned, BeforeProvision, Lab, Request, Approval
    <2>3. Executions'
      BY <1>7, <2>0, NoneAssumption DEF Submit, Begin, SubmitCalled, fields, calls, IInv,
        Executions, LabKnown, Planned, BeforeProvision
    <2>4. Phases'
      BY <1>7, <2>0 DEF Submit, Begin, SubmitCalled, fields, calls, IInv, Phases
    <2>5. Submissions'
      BY <1>7, <2>0 DEF Submit, Begin, SubmitCalled, fields, calls, IInv, Submissions,
        SubmitOnce, BeforeSubmit, BeforeProvision
    <2>6. Cleanups'
      BY <1>7, <2>0, NoneAssumption DEF Submit, Begin, SubmitCalled, fields, calls, IInv,
        TypeOK, Cleanups
    <2>7. CleanedMeansNoLab'
      BY <1>7, <2>0, NoneAssumption DEF Submit, Begin, SubmitCalled, fields, calls, IInv,
        CleanedMeansNoLab, LabKnown
    <2>8. LabKnown'
      BY <1>7 DEF Submit, SubmitCalled, fields, calls, IInv, LabKnown
    <2>. QED
      BY <2>1, <2>2, <2>3, <2>4, <2>5, <2>6, <2>7, <2>8 DEF IInv
  <1>8. ASSUME NEW key \in Key, Cleanup(key) PROVE IInv'
    <2>0. /\ state' = "cleaning_up"
             /\ cleanupKey' = key
             /\ \/ state \notin BeforeProvision \cup {"cleaning_up", "cleaned"}
                \/ state = "cleaning_up" /\ cleanupKey' = cleanupKey
      BY <1>8, Sources DEF Cleanup, Begin, Move, CleanupStarts
    <2>1. TypeOK'
      BY <1>8, <2>0, NoneAssumption DEF Cleanup, Begin, CleanupStarts, fields, calls, IInv,
        TypeOK, Planned, BeforeProvision, Lab, Request, Approval, Lifecycle!TaskState
    <2>2. Planned'
      BY <1>8, <2>0, NoneAssumption DEF Cleanup, Begin, CleanupStarts, fields, calls, IInv,
        TypeOK, Planned, BeforeProvision, Lab, Request, Approval
    <2>3. Executions'
      BY <1>8, <2>0, NoneAssumption DEF Cleanup, Begin, CleanupStarts, fields, calls, IInv,
        Executions, LabKnown, Planned, BeforeProvision
    <2>4. Phases'
      BY <1>8, <2>0 DEF Cleanup, Begin, CleanupStarts, fields, calls, IInv, Phases
    <2>5. Submissions'
      BY <1>8, <2>0 DEF Cleanup, Begin, CleanupStarts, fields, calls, IInv, Submissions,
        SubmitOnce, BeforeSubmit, BeforeProvision
    <2>6. Cleanups'
      BY <1>8, <2>0, NoneAssumption DEF Cleanup, Begin, CleanupStarts, fields, calls, IInv,
        TypeOK, Cleanups
    <2>7. CleanedMeansNoLab'
      BY <1>8, <2>0, NoneAssumption DEF Cleanup, Begin, CleanupStarts, fields, calls, IInv,
        CleanedMeansNoLab, LabKnown
    <2>8. LabKnown'
      BY <1>8 DEF Cleanup, fields, calls, IInv, LabKnown
    <2>. QED
      BY <2>1, <2>2, <2>3, <2>4, <2>5, <2>6, <2>7, <2>8 DEF IInv
  <1>9. ASSUME ProviderProvisions PROVE IInv'
    <2>1. TypeOK'
      BY <1>9, NoneAssumption DEF ProviderProvisions, fields, calls, IInv, TypeOK, Planned,
        BeforeProvision, Lab, Request, Approval, Lifecycle!TaskState, Phases
    <2>2. LabKnown'
      BY <1>9, NoneAssumption DEF ProviderProvisions, fields, calls, IInv, LabKnown, Planned,
        BeforeProvision, Phases
    <2>3. Executions'
      BY <1>9, NoneAssumption DEF ProviderProvisions, fields, calls, IInv, Executions, LabKnown,
        Planned, BeforeProvision, Phases
    <2>4. Phases'
      BY <1>9 DEF ProviderProvisions, fields, calls, IInv, Phases, Planned, BeforeProvision
    <2>5. CleanedMeansNoLab'
      BY <1>9, NoneAssumption DEF ProviderProvisions, fields, calls, IInv, CleanedMeansNoLab,
        LabKnown, Phases
    <2>6. Planned' /\ Submissions' /\ Cleanups'
      BY <1>9 DEF ProviderProvisions, fields, calls, IInv, Planned, Submissions, Cleanups,
        SubmitOnce
    <2>. QED
      BY <2>1, <2>2, <2>3, <2>4, <2>5, <2>6 DEF IInv
  <1>10. ASSUME ProviderReadiness PROVE IInv'
    <2>0. state = "provisioning" /\ state' \in {"provisioning", "running", "failed"}
      BY <1>10, Sources DEF ProviderReadiness, IInv, Phases, Move
    <2>1. TypeOK'
      BY <1>10, <2>0, NoneAssumption DEF ProviderReadiness, fields, calls, IInv, TypeOK,
        Planned, BeforeProvision, Lab, Request, Approval, Lifecycle!TaskState, Phases
    <2>2. Planned'
      BY <1>10, <2>0, NoneAssumption DEF ProviderReadiness, fields, calls, IInv, TypeOK,
        Planned, BeforeProvision, Lab, Request, Approval, Phases
    <2>3. Executions'
      BY <1>10, <2>0, NoneAssumption DEF ProviderReadiness, fields, calls, IInv, Executions,
        LabKnown, Planned, BeforeProvision, Phases
    <2>4. Phases'
      BY <1>10, <2>0 DEF ProviderReadiness, fields, calls, IInv, Phases
    <2>5. Submissions'
      BY <1>10, <2>0 DEF ProviderReadiness, fields, calls, IInv, Submissions, SubmitOnce,
        BeforeSubmit, BeforeProvision, Phases
    <2>6. Cleanups'
      BY <1>10, <2>0, NoneAssumption DEF ProviderReadiness, fields, calls, IInv, TypeOK,
        Cleanups, Phases
    <2>7. CleanedMeansNoLab'
      BY <1>10, <2>0, NoneAssumption DEF ProviderReadiness, fields, calls, IInv,
        CleanedMeansNoLab, LabKnown, Phases
    <2>8. LabKnown'
      BY <1>10 DEF ProviderReadiness, fields, calls, IInv, LabKnown
    <2>. QED
      BY <2>1, <2>2, <2>3, <2>4, <2>5, <2>6, <2>7, <2>8 DEF IInv
  <1>11. ASSUME RuntimeExecutes PROVE IInv'
    <2>0. state = "collecting" /\ state' \in {"collecting", "review_ready", "failed"}
      BY <1>11, Sources DEF RuntimeExecutes, IInv, Phases, Move
    <2>1. TypeOK'
      BY <1>11, <2>0, NoneAssumption DEF RuntimeExecutes, fields, calls, IInv, TypeOK, Planned,
        BeforeProvision, Lab, Request, Approval, Lifecycle!TaskState, Phases
    <2>2. Planned'
      BY <1>11, <2>0, NoneAssumption DEF RuntimeExecutes, fields, calls, IInv, TypeOK, Planned,
        BeforeProvision, Lab, Request, Approval, Phases
    <2>3. Executions'
      BY <1>11, <2>0, NoneAssumption DEF RuntimeExecutes, fields, calls, IInv, Executions,
        LabKnown, Planned, BeforeProvision, Phases
    <2>4. Phases'
      BY <1>11, <2>0 DEF RuntimeExecutes, fields, calls, IInv, Phases
    <2>5. Submissions'
      BY <1>11, <2>0 DEF RuntimeExecutes, fields, calls, IInv, Submissions, SubmitOnce,
        BeforeSubmit, BeforeProvision, Phases
    <2>6. Cleanups'
      BY <1>11, <2>0, NoneAssumption DEF RuntimeExecutes, fields, calls, IInv, TypeOK, Cleanups,
        Phases
    <2>7. CleanedMeansNoLab'
      BY <1>11, <2>0, NoneAssumption DEF RuntimeExecutes, fields, calls, IInv,
        CleanedMeansNoLab, LabKnown, Phases
    <2>8. LabKnown'
      BY <1>11 DEF RuntimeExecutes, fields, calls, IInv, LabKnown
    <2>. QED
      BY <2>1, <2>2, <2>3, <2>4, <2>5, <2>6, <2>7, <2>8 DEF IInv
  <1>12. ASSUME SubmitterSubmits PROVE IInv'
    <2>0. state = "submitting" /\ state' \in {"submitting", "completed"}
      BY <1>12, Sources DEF SubmitterSubmits, IInv, Phases, Move
    <2>1. TypeOK'
      BY <1>12, <2>0, NoneAssumption DEF SubmitterSubmits, fields, calls, IInv, TypeOK, Planned,
        BeforeProvision, Lab, Request, Approval, Lifecycle!TaskState
    <2>2. Planned'
      BY <1>12, <2>0, NoneAssumption DEF SubmitterSubmits, fields, calls, IInv, TypeOK, Planned,
        BeforeProvision, Lab, Request, Approval
    <2>3. Executions'
      BY <1>12, <2>0, NoneAssumption DEF SubmitterSubmits, fields, calls, IInv, Executions,
        LabKnown, Planned, BeforeProvision
    <2>4. Phases'
      BY <1>12, <2>0 DEF SubmitterSubmits, fields, calls, IInv, Phases
    <2>5. Submissions'
      BY <1>12, <2>0 DEF SubmitterSubmits, fields, calls, IInv, Submissions, SubmitOnce,
        BeforeSubmit, BeforeProvision, Phases
    <2>6. Cleanups'
      BY <1>12, <2>0, NoneAssumption DEF SubmitterSubmits, fields, calls, IInv, TypeOK, Cleanups
    <2>7. CleanedMeansNoLab'
      BY <1>12, <2>0, NoneAssumption DEF SubmitterSubmits, fields, calls, IInv,
        CleanedMeansNoLab, LabKnown
    <2>8. LabKnown'
      BY <1>12 DEF SubmitterSubmits, fields, calls, IInv, LabKnown
    <2>. QED
      BY <2>1, <2>2, <2>3, <2>4, <2>5, <2>6, <2>7, <2>8 DEF IInv
  <1>13. ASSUME ProviderReconciles PROVE IInv'
    <2>0. state = "cleaning_up" /\ state' \in {"cleaning_up", "cleaned"}
      BY <1>13, Sources DEF ProviderReconciles, IInv, Phases, Move
    <2>1. TypeOK'
      BY <1>13, <2>0, NoneAssumption DEF ProviderReconciles, fields, calls, IInv, TypeOK,
        Planned, BeforeProvision, Lab, Request, Approval, Lifecycle!TaskState, Phases
    <2>2. Planned'
      BY <1>13, <2>0, NoneAssumption DEF ProviderReconciles, fields, calls, IInv, TypeOK,
        Planned, BeforeProvision, Lab, Request, Approval, Phases
    <2>3. LabKnown'
      BY <1>13, <2>0, NoneAssumption DEF ProviderReconciles, fields, calls, IInv, LabKnown,
        Planned, BeforeProvision, Phases
    <2>4. Executions'
      BY <1>13, <2>0, NoneAssumption DEF ProviderReconciles, fields, calls, IInv, Executions,
        LabKnown, Planned, BeforeProvision, Phases
    <2>5. Phases'
      BY <1>13, <2>0 DEF ProviderReconciles, fields, calls, IInv, Phases, TypeOK
    <2>6. Submissions'
      BY <1>13, <2>0 DEF ProviderReconciles, fields, calls, IInv, Submissions, SubmitOnce,
        BeforeSubmit, BeforeProvision, Phases
    <2>7. Cleanups'
      BY <1>13, <2>0, NoneAssumption DEF ProviderReconciles, fields, calls, IInv, TypeOK,
        Cleanups, Phases
    <2>8. CleanedMeansNoLab'
      BY <1>13, <2>0, NoneAssumption DEF ProviderReconciles, fields, calls, IInv,
        CleanedMeansNoLab, LabKnown, Phases
    <2>. QED
      BY <2>1, <2>2, <2>3, <2>4, <2>5, <2>6, <2>7, <2>8 DEF IInv
  <1>14. ASSUME ProviderTearsDown PROVE IInv'
    <2>0. state = "cleaning_up" /\ state' \in {"cleaning_up", "cleaned"}
      BY <1>14, Sources DEF ProviderTearsDown, IInv, Phases, Move
    <2>1. TypeOK'
      BY <1>14, <2>0, NoneAssumption DEF ProviderTearsDown, fields, calls, IInv, TypeOK,
        Planned, BeforeProvision, Lab, Request, Approval, Lifecycle!TaskState, Cleanups, Phases
    <2>2. Planned'
      BY <1>14, <2>0, NoneAssumption DEF ProviderTearsDown, fields, calls, IInv, TypeOK,
        Planned, BeforeProvision, Lab, Request, Approval, Phases
    <2>3. LabKnown'
      BY <1>14, <2>0, NoneAssumption DEF ProviderTearsDown, fields, calls, IInv, LabKnown,
        Planned, BeforeProvision, Phases
    <2>4. Executions'
      BY <1>14, <2>0, NoneAssumption DEF ProviderTearsDown, fields, calls, IInv, Executions,
        LabKnown, Planned, BeforeProvision, Phases
    <2>5. Phases'
      BY <1>14, <2>0 DEF ProviderTearsDown, fields, calls, IInv, Phases
    <2>6. Submissions'
      BY <1>14, <2>0 DEF ProviderTearsDown, fields, calls, IInv, Submissions, SubmitOnce,
        BeforeSubmit, BeforeProvision, Phases
    <2>7. Cleanups'
      BY <1>14, <2>0, NoneAssumption DEF ProviderTearsDown, fields, calls, IInv, TypeOK,
        Cleanups, Phases
    <2>8. CleanedMeansNoLab'
      BY <1>14, <2>0, NoneAssumption DEF ProviderTearsDown, fields, calls, IInv,
        CleanedMeansNoLab, LabKnown, Phases
    <2>. QED
      BY <2>1, <2>2, <2>3, <2>4, <2>5, <2>6, <2>7, <2>8 DEF IInv
  <1>15. CASE UNCHANGED vars
    BY <1>15 DEF vars, fields, calls, IInv, TypeOK, Planned, LabKnown, Executions, Phases,
       Submissions, SubmitOnce, Cleanups, CleanedMeansNoLab
  <1>. QED
    BY <1>1, <1>2, <1>3, <1>4, <1>5, <1>6, <1>7, <1>8, <1>9, <1>10, <1>11, <1>12, <1>13, <1>14,
       <1>15 DEF Next

-----------------------------------------------------------------------------
(* The theorems.                                                           *)

\* The invariant that the others follow from.
THEOREM Invariance == Spec => []IInv
  <1>. QED
    BY InitIInv, NextIInv, PTL DEF Spec

\* The orchestrator's fields and the provider's labs keep their types.
THEOREM TypeCorrect == Spec => []TypeOK
  <1>1. IInv => TypeOK
    BY DEF IInv
  <1>. QED
    BY <1>1, Invariance, PTL

\* Whatever raises and is retried, the provider is asked for one lab only.
THEOREM OneLabEver == Spec => []OneLab
  <1>1. IInv => OneLab
    <2>. SUFFICES ASSUME IInv PROVE OneLab
      OBVIOUS
    <2>1. provisioned \subseteq {request}
      BY DEF IInv, LabKnown
    <2>2. IsFiniteSet({request}) /\ Cardinality({request}) = 1
      BY FS_Singleton
    <2>3. Cardinality(provisioned) \in Nat /\ Cardinality(provisioned) <= Cardinality({request})
      BY <2>1, <2>2, FS_Subset, FS_CardinalityType
    <2>. QED
      BY <2>2, <2>3 DEF OneLab
  <1>. QED
    BY <1>1, Invariance, PTL

\* A cleaned task has left no lab behind, even one whose handle never came back.
THEOREM CleanedLeavesNoLab == Spec => []CleanedMeansNoLab
  <1>1. IInv => CleanedMeansNoLab
    BY DEF IInv
  <1>. QED
    BY <1>1, Invariance, PTL

\* Every lab and every execution is for the plan that was approved.
THEOREM OnlyTheApprovedPlan == Spec => []OnePlan
  <1>1. IInv => OnePlan
    <2>. SUFFICES ASSUME IInv PROVE OnePlan
      OBVIOUS
    <2>1. \A l \in provisioned : l[1].ours /\ l[1].digest = start
      BY NoneAssumption DEF IInv, TypeOK, LabKnown, Planned, Lab
    <2>. QED
      BY <2>1 DEF IInv, Executions, OnePlan
  <1>. QED
    BY <1>1, Invariance, PTL

\* The submitter is called once at most, with the intent last approved.
THEOREM SubmittedOnce == Spec => []SubmitOnce
  <1>1. IInv => SubmitOnce
    BY DEF IInv, Submissions
  <1>. QED
    BY <1>1, Invariance, PTL

\* All teardowns carry one key.
THEOREM OneTeardownKey == Spec => []OneCleanupKey
  <1>1. IInv => OneCleanupKey
    <2>. SUFFICES ASSUME IInv PROVE OneCleanupKey
      OBVIOUS
    <2>1. tornDown \subseteq {cleanupKey}
      BY DEF IInv, Cleanups
    <2>2. IsFiniteSet({cleanupKey}) /\ Cardinality({cleanupKey}) = 1
      BY FS_Singleton
    <2>3. Cardinality(tornDown) \in Nat /\ Cardinality(tornDown) <= Cardinality({cleanupKey})
      BY <2>1, <2>2, FS_Subset, FS_CardinalityType
    <2>. QED
      BY <2>2, <2>3 DEF OneCleanupKey
  <1>. QED
    BY <1>1, Invariance, PTL

\* A step of the orchestrator that changes the state is an edge of the lifecycle.
LEMMA StepFollowsLifecycle == TypeOK /\ TypeOK' /\ [Next]_vars => [Lifecycle!Next]_state
  <1>. SUFFICES ASSUME TypeOK, TypeOK', [Next]_vars, state' # state
                PROVE  \E target : Move(target)
    <2>. SUFFICES ASSUME TypeOK', NEW target, Move(target) PROVE Lifecycle!Next
      OBVIOUS
    <2>. QED
      BY DEF Move, Lifecycle!Next, TypeOK, Lifecycle!TaskState
  <1>1. Next
    BY DEF vars
  <1>. QED
    BY <1>1 DEF Next, RequestStartApproval, RequestSubmitApproval, ApproveStart, ApproveSubmission,
       ProvisionLab, Execute, Submit, SubmitCalled, Cleanup, CleanupStarts, ProviderProvisions,
       ProviderReadiness, RuntimeExecutes, SubmitterSubmits, ProviderReconciles, ProviderTearsDown

\* The orchestrator implements the lifecycle of the domain.
THEOREM OrchestratorImplementsLifecycle == Spec => ImplementsLifecycle
  <1>1. Init => Lifecycle!Init
    BY DEF Init, Lifecycle!Init
  <1>. QED
    BY <1>1, TypeCorrect, StepFollowsLifecycle, PTL DEF Spec, ImplementsLifecycle, Lifecycle!Spec
=============================================================================

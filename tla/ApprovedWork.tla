---------------------------- MODULE ApprovedWork ----------------------------
(***************************************************************************)
(* Approved work: the work_items table (ApprovalState in                   *)
(* approval_state.py) and the controller workers that take a work item     *)
(* from approval to cleanup (process_one and _process_claim in worker.py), *)
(* with the EC2 lab and the imported machine image they manage.            *)
(*                                                                         *)
(* A worker claims one item under a lease, makes the external calls its    *)
(* status asks for, and settles the claim with one UPDATE that only takes  *)
(* effect while the lease is its own and unexpired.  External calls are    *)
(* not undone when that UPDATE fails, when the response of a call is lost  *)
(* or when the worker dies, which is where the interesting behaviours are. *)
(*                                                                         *)
(* Time is untimed here: available_at, cleanup_due_at and                  *)
(* lease_expires_at are flags that elapse at any later moment, and every   *)
(* order of their elapsing is explored.                                    *)
(***************************************************************************)
EXTENDS Integers, FiniteSets

CONSTANTS
  Job,         \* approved Moodle revisions, one work item each
  Central,     \* those of execution mode central: no lab
  Imported,    \* those whose lab boots a machine image imported from an OVA
  Worker,      \* worker processes: the running one, and any started meanwhile
  MaxAttempts, \* _MAX_WORK_ATTEMPTS (20); attempts are counted up to it
  NoJob

ASSUME JobsAssumption ==
  /\ Central \subseteq Job
  /\ Imported \subseteq Job \ Central
  /\ NoJob \notin Job /\ IsFiniteSet(Job)
  /\ MaxAttempts \in Nat \ {0}

VARIABLES
  work,      \* the work_items table
  recorded,  \* the items that have a row in execution_outbox
  lab,       \* EC2: the instance launched under each item's client token
  image,     \* EC2: the import of each item's OVA and the resulting AMI
  snapshots, \* EC2: the items whose imported AMI has (left) snapshots
  pc,        \* where each worker is
  claim,     \* the WorkClaim it holds: a copy of the row as it was claimed
  result     \* the outcome it is about to settle its claim with

table == <<work, recorded>>
cloud == <<lab, image, snapshots>>
procs == <<pc, claim, result>>
vars  == <<table, cloud, procs>>

Statuses == {"absent", "pending", "lab_pending", "ready", "failed", "cleaned"}

\* error_code steers control only through these values.
ErrorCodes == {"none", "agent_ready", "execution_complete", "other"}

NoWorker == {}

(***************************************************************************)
(* handle: lab_handle is not NULL.  later: available_at > now.  due:       *)
(* cleanup_due_at is NULL, in the future, or past.  holder and live: whose *)
(* lease is on the row (a set of at most one worker) and lease_expires_at  *)
(* > now.  The random lease token is represented by its holder: a worker   *)
(* has one claim at a time and forgets it before it makes another, and a   *)
(* worker that died can only claim the row again after the old lease       *)
(* expired.                                                                *)
(***************************************************************************)
Row == [status: Statuses, handle: BOOLEAN, attempts: 0..MaxAttempts,
        error: ErrorCodes, later: BOOLEAN, due: {"none", "running", "past"},
        holder: SUBSET Worker, live: BOOLEAN, created: Nat]

AbsentRow == [status |-> "absent", handle |-> FALSE, attempts |-> 0,
              error |-> "none", later |-> FALSE, due |-> "none",
              holder |-> NoWorker, live |-> FALSE, created |-> 0]

WorkClaim == [job: Job, status: Statuses, handle: BOOLEAN,
              attempts: 0..MaxAttempts, error: ErrorCodes]
NoClaim == [job |-> NoJob]

\* The ways _process_claim can end before it settles the claim.
Results == {"none", "cleaned", "invalid", "ready", "provisioned", "wait",
            "lab_failed", "succeeded", "failed", "error"}

PcValues == {"idle", "act", "provision", "image", "snapshots", "settle"}

\* The CHECK constraints of work_items: a violation would abort the UPDATE.
RowChecks(j) ==
  /\ work[j].status = "lab_pending" => work[j].handle
  /\ work[j].handle => j \notin Central
  /\ work[j].status = "ready" => j \in Central \/ work[j].handle
  /\ work[j].live => work[j].holder # NoWorker

TypeOK ==
  /\ work \in [Job -> Row]
  /\ \A j \in Job : RowChecks(j)
  /\ recorded \subseteq Job
  /\ lab \in [Job -> {"none", "running", "terminated"}]
  /\ image \in [Job -> {"none", "importing", "broken", "imported", "owned", "deregistered"}]
  /\ snapshots \subseteq Job
  /\ pc \in [Worker -> PcValues]
  /\ claim \in [Worker -> WorkClaim \cup {NoClaim}]
  /\ result \in [Worker -> Results]

Init ==
  /\ work = [j \in Job |-> AbsentRow]
  /\ recorded = {}
  /\ lab = [j \in Job |-> "none"]
  /\ image = [j \in Job |-> "none"]
  /\ snapshots = {}
  /\ pc = [w \in Worker |-> "idle"]
  /\ claim = [w \in Worker |-> NoClaim]
  /\ result = [w \in Worker |-> "none"]

-----------------------------------------------------------------------------
(* claim_work.                                                             *)

\* Defect: exhausted work, which has no cleanup_due_at, is not taken up.
Claimable_DueOnly(j) ==
  /\ \/ work[j].status \in {"pending", "lab_pending"} \/ work[j].due = "past"
     \/ work[j].status = "ready" /\ work[j].due = "none"
  /\ work[j].status # "cleaned" /\ ~work[j].later /\ ~work[j].live

\* The WHERE clause: something to do, available, and not leased.
Claimable(j) ==
  /\ \/ work[j].status \in {"pending", "lab_pending"}
     \/ work[j].status = "failed" /\ work[j].handle /\ work[j].due # "running"
     \/ /\ work[j].status = "ready"
        /\ \/ j \in Central
           \/ work[j].handle /\ (work[j].error = "none" \/ work[j].due # "running")
  /\ ~work[j].later
  /\ ~work[j].live

\* Defect: a provisioning in flight does not count, only a recorded handle.
LabInUse_RecordedOnly(j) ==
  \E k \in Job \ {j} : work[k].handle /\ work[k].status # "cleaned"

\* Another item has a lab, or is being provisioned under a live lease.
LabInUse(j) ==
  \E k \in Job \ {j} :
    \/ work[k].handle /\ work[k].status # "cleaned"
    \/ k \notin Central /\ work[k].status = "pending" /\ work[k].live

\* A non-central pending row is passed over while another lab is in use.
Eligible(j) ==
  /\ Claimable(j)
  /\ work[j].status = "pending" /\ j \notin Central => ~LabInUse(j)

Rank(status) ==
  CASE status = "failed" -> 0 [] status = "ready" -> 1
    [] status = "lab_pending" -> 2 [] OTHER -> 3

\* ORDER BY status, created_at, event_id.
Before(j, k) ==
  \/ Rank(work[j].status) < Rank(work[k].status)
  \/ Rank(work[j].status) = Rank(work[k].status) /\ work[j].created < work[k].created

Smaller(a, b) == IF a <= b THEN a ELSE b

\* claim_work: lease the first eligible row.
ClaimWork(w) ==
  /\ pc[w] = "idle"
  /\ \E j \in Job :
       /\ Eligible(j)
       /\ \A k \in Job : Eligible(k) => ~Before(k, j)
       /\ LET attempts == Smaller(work[j].attempts + 1, MaxAttempts)
          IN  /\ work' = [work EXCEPT ![j].attempts = attempts,
                                      ![j].holder = {w}, ![j].live = TRUE]
              /\ claim' = [claim EXCEPT ![w] =
                   [job |-> j, status |-> work[j].status, handle |-> work[j].handle,
                    attempts |-> attempts, error |-> work[j].error]]
  /\ pc' = [pc EXCEPT ![w] = "act"]
  /\ UNCHANGED <<recorded, cloud, result>>

-----------------------------------------------------------------------------
(* The external calls of _process_claim.                                   *)

\* _is_cleanup_claim, in a worker that has an execution broker.
IsCleanup(c) ==
  \/ c.status = "failed" /\ c.handle
  \/ c.status = "ready" /\ c.handle /\ c.error = "execution_complete"

\* w is about to make the first call for a claim of this status.
Acting(w, status) ==
  /\ pc[w] = "act" /\ claim[w].status = status /\ ~IsCleanup(claim[w])

\* The external work is over; what is left is the UPDATE.
ReadyToSettle(w, outcome) ==
  /\ pc' = [pc EXCEPT ![w] = "settle"]
  /\ result' = [result EXCEPT ![w] = outcome]
  /\ UNCHANGED <<table, claim>>

GoTo(w, label) ==
  /\ pc' = [pc EXCEPT ![w] = label]
  /\ UNCHANGED <<table, claim, result>>

\* teardown: terminate and wait.  On an error the instance may be gone or not.
Teardown(w) ==
  /\ pc[w] = "act" /\ IsCleanup(claim[w])
  /\ LET j == claim[w].job IN
       \/ /\ lab' = [lab EXCEPT ![j] = "terminated"]
          /\ IF j \in Imported THEN GoTo(w, "image") ELSE ReadyToSettle(w, "cleaned")
       \/ /\ lab' \in {lab, [lab EXCEPT ![j] = "terminated"]}
          /\ ReadyToSettle(w, "error")
  /\ UNCHANGED <<image, snapshots>>

\* cleanup of the image: look it up by its tags and deregister it.
DeregisterImage(w) ==
  /\ pc[w] = "image"
  /\ LET j == claim[w].job IN
       \/ image[j] # "owned" /\ ReadyToSettle(w, "cleaned") /\ UNCHANGED image
       \/ /\ image[j] = "owned"
          /\ image' = [image EXCEPT ![j] = "deregistered"]
          /\ GoTo(w, "snapshots") \/ ReadyToSettle(w, "error")
       \/ ReadyToSettle(w, "error") /\ UNCHANGED image
  /\ UNCHANGED <<lab, snapshots>>

\* cleanup goes on to delete the snapshots of the image it deregistered.
DeleteSnapshots(w) ==
  /\ pc[w] = "snapshots"
  /\ \/ snapshots' = snapshots \ {claim[w].job} /\ ReadyToSettle(w, "cleaned")
     \/ UNCHANGED snapshots /\ ReadyToSettle(w, "error")
  /\ UNCHANGED <<lab, image>>

\* Pending central work: the declared input envelope is valid, or not.
ValidateEnvelope(w) ==
  /\ Acting(w, "pending") /\ claim[w].job \in Central
  /\ \E outcome \in {"ready", "invalid"} : ReadyToSettle(w, outcome)
  /\ UNCHANGED cloud

\* prepare raises, for want of storage ("wait": not exhaustible) or otherwise.
PrepareFails(w) ==
  /\ Acting(w, "pending") /\ claim[w].job \notin Central
  /\ \E outcome \in {"wait", "error"} : ReadyToSettle(w, outcome)
  /\ UNCHANGED cloud

\* ensure: start the import, or find it in progress, failed or completed; tag
\* a completed image as owned.  Any of its calls may raise, done or not.
EnsureImage(w) ==
  /\ Acting(w, "pending") /\ claim[w].job \in Imported
  /\ LET j == claim[w].job
         seen == IF image[j] = "none" THEN "importing" ELSE image[j]
     IN  \/ /\ seen = "importing"
            /\ image' = [image EXCEPT ![j] = seen]
            /\ ReadyToSettle(w, "wait") \/ ReadyToSettle(w, "error")
         \/ /\ seen \in {"imported", "owned"}
            /\ image' = [image EXCEPT ![j] = "owned"]
            /\ GoTo(w, "provision") \/ ReadyToSettle(w, "error")
         \/ UNCHANGED image /\ ReadyToSettle(w, "error")
  /\ UNCHANGED <<lab, snapshots>>

\* Defect: no client token, so every launch is a new instance.
Launched_Anew(j) == "running"

\* EC2 run-instances under the item's client token: one instance, ever.
Launched(j) == IF lab[j] = "none" THEN "running" ELSE lab[j]

\* provision: reconcile by tag or launch.  The response may be lost.
Provision(w) ==
  /\ \/ pc[w] = "provision"
     \/ Acting(w, "pending") /\ claim[w].job \notin Central \cup Imported
  /\ LET j == claim[w].job IN
       \/ lab' = [lab EXCEPT ![j] = Launched(j)] /\ ReadyToSettle(w, "provisioned")
       \/ lab' \in {lab, [lab EXCEPT ![j] = Launched(j)]} /\ ReadyToSettle(w, "error")
  /\ UNCHANGED <<image, snapshots>>

\* readiness, and for a ready lab prepare and the transfer of the guest inputs.
CheckLab(w) ==
  /\ Acting(w, "lab_pending")
  /\ \/ lab[claim[w].job] = "running" /\ \E o \in {"ready", "wait"} : ReadyToSettle(w, o)
     \/ lab[claim[w].job] # "running" /\ ReadyToSettle(w, "lab_failed")
     \/ ReadyToSettle(w, "error")
  /\ UNCHANGED cloud

\* prepare, the guest inputs of a lab, and one step of the execution broker.
Execute(w) ==
  /\ Acting(w, "ready")
  /\ \E outcome \in {"wait", "succeeded", "failed", "error"} : ReadyToSettle(w, outcome)
  /\ UNCHANGED cloud

-----------------------------------------------------------------------------
(* Settling the claim.                                                     *)

\* Defect: every error is filed as provider_failed, cleanup or not.
AfterError_ForgetsPhase(row, c) == [row EXCEPT !.later = TRUE, !.error = "other"]

\* The handlers of process_one: retry_work, which fails exhausted work unless
\* it is a cleanup; a cleanup keeps the phase execution_complete.
AfterError(row, c) ==
  IF IsCleanup(c)
  THEN [row EXCEPT !.later = TRUE,
          !.error = IF c.error = "execution_complete" THEN c.error ELSE "other"]
  ELSE [row EXCEPT !.later = TRUE, !.error = "other",
          !.status = IF c.attempts >= MaxAttempts THEN "failed" ELSE @]

\* complete_execution.
AfterExecution(row, c, outcome) ==
  CASE ~c.handle -> [row EXCEPT !.status = "cleaned", !.error = "none"]
    [] c.handle /\ outcome = "succeeded" ->
         [row EXCEPT !.later = TRUE, !.error = "execution_complete", !.due = "running"]
    [] OTHER -> [row EXCEPT !.status = "failed", !.error = "other", !.due = "past"]

\* Defect: record_lab forgets the handle.
After_NoHandle(row, c, outcome) ==
  [row EXCEPT !.holder = NoWorker, !.live = FALSE,
              !.status = IF outcome = "provisioned" THEN "lab_pending" ELSE @]

\* mark_cleaned, fail_work, mark_ready, record_lab, retry_work and the above:
\* the row after the claim c on it is settled.
After(row, c, outcome) ==
  LET r == [row EXCEPT !.holder = NoWorker, !.live = FALSE, !.later = FALSE] IN
  CASE outcome = "cleaned"     -> [r EXCEPT !.status = "cleaned", !.error = "none"]
    [] outcome = "invalid"     -> [r EXCEPT !.status = "failed", !.error = "other"]
    [] outcome = "ready"       -> [r EXCEPT !.status = "ready", !.error = "agent_ready"]
    [] outcome = "provisioned" ->
         [r EXCEPT !.status = "lab_pending", !.handle = TRUE, !.error = "none"]
    [] outcome = "wait"        -> [r EXCEPT !.later = TRUE, !.error = "other"]
    [] outcome \in {"succeeded", "failed"} -> AfterExecution(r, c, outcome)
    [] OTHER -> AfterError(r, c)

\* WHERE lease_token = ? AND lease_expires_at > ?
Owned(w) == work[claim[w].job].holder = {w} /\ work[claim[w].job].live

Executed(w) == result[w] \in {"succeeded", "failed"}

\* execution_outbox's primary key rejects a second outcome of the same item.
Conflict(w) == Executed(w) /\ claim[w].job \in recorded

Release(w) ==
  /\ pc' = [pc EXCEPT ![w] = "idle"]
  /\ claim' = [claim EXCEPT ![w] = NoClaim]
  /\ result' = [result EXCEPT ![w] = "none"]

\* The UPDATE (with the outcome's INSERT in the same transaction), if the claim
\* is still owned; else ownership_lost.  On a conflict both are rolled back.
Settle(w) ==
  /\ pc[w] = "settle"
  /\ LET j == claim[w].job IN
       IF Owned(w) /\ ~Conflict(w)
       THEN /\ work' = [work EXCEPT ![j] = After(@, claim[w], result[w])]
            /\ recorded' = IF Executed(w) THEN recorded \cup {j} ELSE recorded
       ELSE UNCHANGED table
  /\ Release(w)
  /\ UNCHANGED cloud

\* The worker is killed, or a database error makes it exit; systemd starts a
\* new one.  The lease stays until it expires.
Crash(w) ==
  /\ pc[w] # "idle"
  /\ Release(w)
  /\ UNCHANGED <<table, cloud>>

-----------------------------------------------------------------------------
(* The environment.                                                        *)

\* resolve of an approve callback inserts the work item (_enqueue_work).  Rows
\* of the same second are ordered by event_id, as if approved in that order.
Approve(j) ==
  /\ work[j].status = "absent"
  /\ work' = [work EXCEPT ![j].status = "pending",
       ![j].created = 1 + Cardinality({k \in Job : work[k].status # "absent"})]
  /\ UNCHANGED <<recorded, cloud, procs>>

BecomesAvailable(j) ==
  /\ work[j].later
  /\ work' = [work EXCEPT ![j].later = FALSE]
  /\ UNCHANGED <<recorded, cloud, procs>>

CleanupDue(j) ==
  /\ work[j].due = "running"
  /\ work' = [work EXCEPT ![j].due = "past"]
  /\ UNCHANGED <<recorded, cloud, procs>>

LeaseExpires(j) ==
  /\ work[j].live
  /\ work' = [work EXCEPT ![j].live = FALSE]
  /\ UNCHANGED <<recorded, cloud, procs>>

\* VM Import finishes: an image with snapshots, or a failed task.
ImportEnds(j) ==
  /\ image[j] = "importing"
  /\ \/ image' = [image EXCEPT ![j] = "imported"] /\ snapshots' = snapshots \cup {j}
     \/ image' = [image EXCEPT ![j] = "broken"] /\ UNCHANGED snapshots
  /\ UNCHANGED <<table, lab, procs>>

\* lab_reaper.py terminates a lab older than its hard TTL, whatever it is for.
Reap(j) ==
  /\ lab[j] = "running"
  /\ lab' = [lab EXCEPT ![j] = "terminated"]
  /\ UNCHANGED <<table, image, snapshots, procs>>

-----------------------------------------------------------------------------

WorkerStep(w) ==
  \/ ClaimWork(w)
  \/ Teardown(w) \/ DeregisterImage(w) \/ DeleteSnapshots(w)
  \/ ValidateEnvelope(w) \/ PrepareFails(w) \/ EnsureImage(w) \/ Provision(w)
  \/ CheckLab(w) \/ Execute(w)
  \/ Settle(w)

Next ==
  \/ \E w \in Worker : WorkerStep(w) \/ Crash(w)
  \/ \E j \in Job :
       \/ Approve(j) \/ BecomesAvailable(j) \/ CleanupDue(j) \/ LeaseExpires(j)
       \/ ImportEnds(j) \/ Reap(j)

Spec == Init /\ [][Next]_vars

(***************************************************************************)
(* The worker loops forever under systemd, time passes and imports end.    *)
(* Calls that are retried without limit succeed if they are made again and *)
(* again: the agent finishes, a lab comes up, a lab and its image can be   *)
(* taken down, storage is freed.  Everything else may fail every time: the *)
(* attempts limit ends it.                                                 *)
(***************************************************************************)
Fairness ==
  /\ \A w \in Worker :
       /\ WF_vars(WorkerStep(w))
       /\ SF_vars(Execute(w) /\ result'[w] # "wait")
       /\ SF_vars(CheckLab(w) /\ result'[w] # "wait")
       /\ SF_vars(Teardown(w) /\ result'[w] # "error")
       /\ SF_vars(DeregisterImage(w) /\ result'[w] # "error")
       /\ SF_vars(DeleteSnapshots(w) /\ result'[w] # "error")
       /\ SF_vars(Provision(w))
       /\ SF_vars(EnsureImage(w))
  /\ \A j \in Job :
       /\ WF_vars(BecomesAvailable(j))
       /\ WF_vars(CleanupDue(j))
       /\ WF_vars(LeaseExpires(j))
       /\ WF_vars(ImportEnds(j))

FairSpec == Spec /\ Fairness

-----------------------------------------------------------------------------
(* Properties.                                                             *)

\* Work is cleaned only when its lab is terminated and its image deregistered,
\* and no late call of a worker that lost its lease brings either back
\* (worker.py:184-195, labs.py:237, image_imports.py:156).
CleanedMeansGone ==
  \A j \in Job \ Central : work[j].status = "cleaned" =>
    /\ lab[j] = "terminated"
    /\ image[j] \notin {"imported", "owned"}

\* Once an outcome is recorded the item waits for cleanup or is over: nothing,
\* a failing cleanup included, sends it back to execution (worker.py:137-150).
RecordedMeansSettled ==
  \A j \in recorded :
    \/ work[j].status \in {"failed", "cleaned"}
    \/ work[j].status = "ready" /\ work[j].error = "execution_complete"

\* At most one non-central item has a recorded lab, even when leases expire
\* while a worker is still provisioning (approval_state.py:697-710).
OneRecordedLab ==
  \A j, k \in Job :
    work[j].handle /\ work[j].status # "cleaned"
      /\ work[k].handle /\ work[k].status # "cleaned" => j = k

\* Workers stop dying at some point, and leases stop expiring under a worker
\* that is still on the job.
CrashesEnd == <>[][\A w \in Worker : Crash(w) => Settle(w)]_vars
LeasesHold ==
  <>[][\A j \in Job : LeaseExpires(j) => \A w \in Worker : claim[w].job # j]_vars

\* Every approved item comes to an end: cleaned up, or failed before it had a
\* lab, even if labs are reaped under it and every exhaustible call fails
\* (worker.py:94-322).
Finished(j) ==
  work[j].status = "cleaned" \/ (work[j].status = "failed" /\ ~work[j].handle)
EventuallyFinished ==
  CrashesEnd /\ LeasesHold =>
    \A j \in Job : work[j].status = "pending" ~> Finished(j)

=============================================================================

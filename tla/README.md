# TLA+ verification of moodle-autotask

moodle-autotask watches Moodle for assignments, tells the user about them over
Telegram, carries an approved one out (in an EC2 lab, or centrally on the
controller), delivers the report and, after a second approval, submits it.
Everything that must survive a restart is kept in one SQLite file; everything
outside it (Moodle, Telegram, EC2, S3, the agent) is reached by calls that may
fail, be late, or succeed with their answer lost.

This directory holds the models of the parts whose correctness depends on the
*order* of those things, the TLC runs that check them on small instances, and
the theorems TLAPS checks for every instance. `PROJECT.json` lists the runs,
maps every definition to the source lines it stands for, and lists the hazards.

Usage: `tlc -config MCSubmission.cfg MCSubmission` checks one run;
`tlapm NotificationOutboxProofs.tla` checks one module of proofs.
Paths below are relative to `src/src/moodle_autotask/` unless they start with
`docs/` or `infra/`.

## 1. Inventory

### The parts and how they interact

```
 Moodle ──scan──> scheduler ──outbox──> Telegram ──callback──> approvals
                                                                  │ work_items
                                                                  v
 EC2, S3 <────────── worker (lease on a work item) ──files──> agent runner
          retention ──> │ execution_outbox                   ^
   (one tombstone at    v                        retention ──┘
    a time, first) Telegram report + offer ──callback──> submissions
                                                                  │ lease
 Moodle <───────────── worker: upload, save, finalize, verify <───┘
```

| Component | State it keeps | Operations | What is hard | What makes it correct |
| --- | --- | --- | --- | --- |
| Notification outbox and scheduler (`adapters/moodle/state.py`, `scheduler.py`) | `outbox`, `acknowledgements` | enqueue, claim, renew, complete, fail, acknowledge; scan, drain, heartbeat | leases expiring during a sink call, a heartbeat thread, a manual acknowledgement at any time, crashes, the per-cycle cap | at-least-once delivery, exclusive leases, nothing stranded or starved |
| Approved work (`adapters/moodle/approval_state.py`, `adapters/aws/worker.py`, `labs.py`, `image_imports.py`, `infra/aws/controller/lab_reaper.py`) | `work_items`, `execution_outbox` rows; EC2 instances, images and snapshots | claim_work, record_lab, retry_work, mark_ready, complete/fail/clean; provision, check, terminate, import, deregister | calls whose response is lost, leases lost in mid-call, unlimited and limited retries, a reaper that shares no state with the worker | one recorded lab, one outcome, cleanup only after the outcome, nothing left running after cleanup, every item ends |
| Submission (`approval_state.py`, `worker.py`, `adapters/moodle/submission.py`) | `submissions`, `submission_outbox`; Moodle's submission | offer, decide, claim, record, finalize, verify, settle | irreversible calls that time out and are carried out later, the student and teacher using the same assignment | saved at most once, never without approval, exact receipts, always settled |
| Task orchestrator and lifecycle (`application/orchestrator.py`, `domain/`) | state, approvals, request, handle, keys | request/approve, provision, execute, submit, cleanup | any port may raise in mid-operation and the operation be repeated with other arguments | one lab, one plan, one submission, one teardown key; only permitted moves |
| Telegram approvals (`adapters/moodle/telegram.py`, `approval_state.py`) | approvals, message ids, the update cursor | prepare, mark_notified, resolve, advance | message sent but not recorded, duplicate and late callbacks, a poisoned update | one decision per approval, no update lost |
| Execution and submission notifications (`worker.py`, `adapters/aws/completion.py`) | pending rows of `execution_outbox` and `submission_outbox` | notify, offer, mark delivered | the report sent and a later step of the pass failing; the oldest row blocking the others | nothing marked before it was told, everything told |
| Agent spool and runner (`adapters/aws/agent_spool.py`, `agent_cli.py`) | job directories, dispatch records and barriers of the controller; results, bundles, workspaces and barriers of the agent | `step`: publish, read, dispatch, wait, record; `process_one`: recover, run Codex, publish the result | crashes between the steps of a publication, a lost `SendCommand` response, a lease lost in mid-step, one agent for all jobs | one command per execution, success only for work that succeeded, results that stand, nothing back after its removal, every execution ends |
| Central agent protocol (`adapters/aws/central_protocol.py`) | none | the chain of planner, executor and reviewer | which chain may follow which verdict | only a reviewed result with its bundle succeeds |
| Retention (`adapters/aws/retention.py`, `retention_fs.py`, `retention_runtime.py`) | plans, tombstones, barriers, intents, acknowledgements, markers and receipts as files of two accounts; `retention_completions` and a cursor in SQLite | plan, prepare, commit, consume (agent), acknowledge, consume (controller), record, reconcile | a crash between any two file system steps, two processes that read each other's half-made files, metadata that may be full | removes only what is barred and committed, in order, and comes to its end |
| Storage admission (`storage_quota.py`) | a lock file | measure and admit | two owners writing at once; a refusal in the middle of a chain | never above the limit; a refusal delays or ends work, and corrupts nothing |
| Guest input transfer (`input_transfer.py`) | files in the lab | idempotent hand-over | interruption and repetition | a ready marker implies complete inputs |
| Moodle connector, artifacts, configuration, health, installation | none of interest | HTTP and file validation | data, not order | outside the models; their calls appear as steps that succeed or raise |

The components share the SQLite file (every public method of `MoodleState` and
`ApprovalState` that changes it is one transaction, by `BEGIN IMMEDIATE` or as
a single statement, so a transaction is an atomic action in every model) and otherwise exchange files or remote calls.
There are no in-process callbacks except the ports of the orchestrator.

### Hazards

`PROJECT.json` lists each one at its line with the properties that catch it.
They fall into five groups: leases that expire under their holder; remote calls
that succeeded although they raised; limited retries that run out at the wrong
moment; queues in which one entry keeps the others waiting; and files that two
processes create, link and remove step by step, and may leave half way.

## 2. Plan

Done, the most important behaviour first:

1. `NotificationOutbox`, refining `DeliveryContract`, with proofs.
2. `ApprovedWork`: queue, worker, lab, image, reaper; with proofs.
3. `Submission`: the notification pass and the saga against a live Moodle, one
   worker alternating between the two as `worker.py` does; with proofs.
4. `TaskOrchestrator`, refining `TaskLifecycle`, with proofs.
5. `TelegramApprovals`: sink, pollers and the update cursor, with several
   processes and lost answers; with proofs.
6. `Retention`, refining `Reclamation`: both coordinators, file step by file
   step, with crashes; with proofs of both.
7. `AgentSpool`: broker, agent and SSM, with the central protocol's chain as
   operators and retention's part of it as the environment; with proofs.

What is left, in this order:

8. `InputTransfer`: the guest's idempotent hand-over with its ready marker.
9. The removal of one directory tree and the recovery of its torn states, under
   `Retention`'s `Removing`.

The number of runs is kept at a dozen, so that all of them can be repeated on
every change: a new module takes the place of a run that a composition subsumes.

## 3. The modules

In all modules an operator named `X_Something` directly before `X` is a
deliberately wrong variant of `X`, kept to demonstrate that the runs can tell
the two apart; nothing else uses it.

### NotificationOutbox, DeliveryContract

`outbox` and `acks` are the two tables. A scheduler's `pc`, `scan`, `enqueued`,
`batch`, `cur` and `lost` are the locals of `once`, `drain` and `_deliver`; each
action that touches a table is one method of `MoodleState`, in the transaction
it runs in.

* Time is relative: a row's `timer` counts the seconds until its
  `available_at` or `lease_expires_at`, and `Tick` lowers all of them. So
  `timer = 0` is the SQL's `<= now`, and the backoff
  `min(max, base * 2^(attempts-1))` is computed as in the code.
* The random lease token is the attempt number it was issued with; both are
  new with each claim.
* The heartbeat thread is an action of its own that may renew, or find the
  lease gone and set `lost`, at any point of the delivery.
* `Abort` is a kill, and also a database error, which unwinds the cycle the
  same way. `sent` and `asserted` are history variables: nothing reads them
  but the properties.
* Several revisions of one assignment are distinguished by `timemodified`, which
  `Edit` raises. Schema creation and migration are left out.

`DeliveryContract` says what consumers may rely on, without leases, attempts or
time: an event is recorded, may be heard any number of times, and is settled
only if it was heard or an operator vouched for it. `KeepsContract` is the
refinement mapping.

### ApprovedWork

`work` is `work_items`, `recorded` the rows of `execution_outbox`; `lab`,
`image` and `snapshots` are what really exists at AWS. A worker claims an item
(`ClaimWork`, the `WHERE` and `ORDER BY` of `claim_work`), acts on the *copy* it
claimed (`claim`) and settles with one guarded `UPDATE` (`Settle`). Every cloud
call is an action whose effect and outcome are independent: it may raise before
or after having had its effect.

* Time is untimed: `later`, `due` and `live` are flags that elapse at any later
  moment, which includes all real orders.
* Client tokens and tags are per item, so an instance or image is a function of
  the item. Files, envelopes and stack parameters are outcomes.
* `Execute` is one poll of the agent broker: waiting, succeeded, failed or
  raised.
* `Central` items have no lab; `Imported` ones boot an image made from an OVA.
* Left out: `mark_execution_complete` and `fail_execution`, which nothing calls;
  a worker configured without an execution broker; retention's deletions.

### Submission

The way of a finished report to the user and to Moodle. `report` and `reports`
are `execution_outbox` (how each execution ended, and the rows not yet
delivered, oldest first), `row` is `submissions`, `outcome` and `results` are
`submission_outbox`; `moodle` is the page of each assignment; `requests` are the
save and finalize requests Moodle may still carry out, so a timeout leaves the
request in flight and it may take effect at any later moment, or never; `told`
are the messages that reached the chat.

A worker alternates between a notification pass (`StartPass` to `MarkResult`,
`_deliver_pending_notification`) and one cycle of the saga (`ClaimSubmission` to
`Finish`, `_process_submission` and `_finalize_submission`). Each step is a
transaction, a message, a Moodle read or a Moodle call, in their order;
`PassFails` is a `RuntimeError` of any of them, with the message sent or not.

* The check of the assignment's revision and the call that follows it are
  separate steps (`AssertSave`/`Save`, `AssertFinalize`/`Finalize`): the
  teacher may edit in between, as in reality.
* `Without` removes the head of a queue if it is the row just told. That is the
  `UPDATE` of that row: rows are appended at the end and only the head is ever
  read, so a row that was the head is the head as long as it is there. (Rows of
  the same second are in the order of their hashes, here in that of insertion.)
* `requests` is a set: two identical finalize requests in flight are one. The
  draft item id is abstracted: each event has one. Rows of the same rank are
  claimed in any order, which allows more than the code's `created_at`.
* Cycles with work to do leave pass and saga out; they are left out here, since
  they only delay (`WorkGoesOn` and the hazard at `worker.py:109` are about them).
* `scenario` says which workers run, which of them also pass, which events are
  executed, and whether student and teacher act. It never changes; it only
  bounds the runs, and the theorems hold for every set of scenarios.
* `calls`, `held` and `told` are history variables, except that the user can
  only press buttons he was shown.

### TelegramApprovals

The first part is the sink the scheduler calls (`TelegramApprovalSink`): the
request is prepared, the message sent, the message id recorded. The second is
`process_updates`: fetch, and for each update in order re-read the cursor, apply
the decision, answer, advance. `decision` stands for `requests.decision` and for
the part of `submissions.status` that a decision can change; `taken` are the
submissions whose status has gone beyond it. `chat` and `updates` are
Telegram's; `told` and `begun`, the submissions that were ever taken up, are
history variables.

* A token is the pair of a card (a request or a submission) and an action: it is
  random, unique and reused on each delivery, so the pair identifies it.
* The failure of a transaction in `resolve` is a disjunct of `Resolve`: the code
  then tries the token as a submission's, and answers it as invalid.
* Update ids count from 1 and have no gaps. Telegram keeps updates until they are
  passed (in reality for a day), and a batch is not limited to 100.
* The texts of messages, and the worker's sending of the offer, are left out.

### TaskOrchestrator, TaskLifecycle

`TaskLifecycle` is `_TRANSITIONS`. `TaskOrchestrator` adds the fields of the
orchestrator and splits each operation at its port calls: the operation's part
before the call is one action, the port's answer (return or raise, with or
without having had its effect) the next. Arguments are arbitrary members of
`Request`, `Approval` and `Key`, so callers may repeat an operation with others.

* An orchestrator constructed in another state than the default one is not
  modelled. The branch of `cleanup` with neither a handle nor a request is
  unreachable from the default state, and no operation moves to `denied` or
  `cancelled`.

### Retention, Reclamation

`Reclamation` is the promise for one tombstone: committed before any target of
the agent's goes, acknowledged when all of them are gone, only then the
controller's, and reclaimed when nothing is left.

`Retention` is how two processes bring it about. `file` are the metadata files,
each one absent, torn (created, empty), staged, linked (under both names) or
final, with the times its record carries; `target` are the workspaces, results,
bundles, jobs and dispatch records to give back. The coordinators read a
directory, decide, and do a list of file operations: `at` is the point between
two decisions and `todo` the operations still to do, each of which is one action
(`Admitting`, `Publishing`, `Removing`), so the other process sees, and a crash
leaves, everything in between. `Refuse` is a `RuntimeError`: the process ends
and is started again.

* The controller's actions are `ControllerRetentionCoordinator.cycle` in its
  order: `Reconcile`/`Wrap`, `ScanAcks`/`ConsumeAck`, `AwaitAck`, `Record`,
  `Commit`, `Nothing`. The agent's are `AgentRetentionCoordinator.cycle`.
* A ledger is refused as soon as one file of it cannot be validated (`Unsafe`),
  and closed at a number of files (`Full`, standing for bytes and inodes).
* Each job is reclaimed in two steps, whole to partial to gone; a workspace is
  first moved to the trash. What happens inside a tree is left out.
* `CrashSites` are the points where a process may die, `SoloSites` those where it
  may die if no other tombstone is under way. At the others the protocol does not
  recover (section 5), and a run that allowed them could show nothing else of
  liveness. Safety is not bound to them: the theorems are for any crash sites.
* `OneRecord` is what the planner makes of one execution: at most one tombstone of
  each phase (`plan_retention` refuses duplicate events), both waiting for the same
  `scratch_eligible_at`, the scratch first (`Precedes` is the planner's order).

### AgentSpool

`step` of the broker is a chain of actions, `Begin` to `Settle`, that keeps
nothing between two calls: `job`, `dispatch`, `result` and `bundle` are the files
it finds, `linked` and `paired` those that still have two names, `sent` and
`command` are SSM's view of the lab execution. The agent is `process_one`:
`RecoverResults`, `TakeJob`, `RunCodex`, `LinkResult`, `UnlinkResult`.
`outcome`, `attempts` and `owner` are the part of the work item that `step`
works for, so several workers can be in `step` for one execution after a lease
was lost. `Bar`, `AgentReclaims` and `ControllerReclaims` are retention as the
spool sees it: what `Retention` does in many steps, with its order.

* An exception is `Return(w, "error", 0)`; a refusal for lack of storage is
  possible at every publication and ends the execution or puts it off, as the
  code decides. The retention lock of a job is held while a worker is at one of
  the points `Dispatching`, the admission lock at `record`.
* `Send` covers a lost response: the command may run and its id be unknown.
* The order in which the agent looks at jobs is that of their digests, the
  constant `Order`; the run takes one that is awkward for both chains.
* Left out: the sandboxed `codex` process, the file by file checks of a bundle,
  and the recovery of temporaries other than the results'.

## 4. The runs

| Run | Instance | States | What it shows |
| --- | --- | --- | --- |
| `outbox` | 2 schedulers, 1 assignment, 2 revisions, 2 attempts, lease 1 s, backoff 1..2 s, cap 1 | 580 000 | `AckMatchesOutbox`, `LeaseExclusive`, `NewAtMostOnce`, and `KeepsContract`: every interleaving of two schedulers, heartbeats, crashes and acknowledgements keeps at-least-once delivery |
| `outbox_live` | 1 scheduler, 2 assignments, cap 1 | 40 000 | `EventuallySettled`, `EventuallyQueued`: nothing is stranded; the cap delays but never starves |
| `work` | 2 workers, an item with an imported image and one without, 2 attempts | 1 550 000 | `CleanedMeansGone`, `RecordedMeansSettled`, `OneRecordedLab`: whoever loses a lease in the middle of whatever call |
| `work_live` | 1 worker, a central and an imported item | 23 000 | `EventuallyFinished`: every approved item ends, whatever fails |
| `submission` | 1 assignment with or without drafts, 2 revisions, in three situations: a student and an edit at work; two reports in the queue; a second worker | 216 000 | `SaveOnce`, `ReceiptIsExact`, `FinalizeNeedsDraft`, `DeliveredMeansTold`, `SettledStays`, and `EventuallyTold`: reports, offers and results reach the user whatever is repeated, and the saga never acts twice |
| `telegram` | 2 pollers, 1 scheduler, 1 revision with both its cards, 2 updates | 323 000 | `FirstPressDecides`, `NoPressLost`, `AnswersHold`: whoever polls, and whatever is lost or repeated, the first press decides and is never skipped, and a decision the user is told is the one that holds; "another decision" is told to the user's own choice only if it approved a submission that was taken up (section 5) |
| `orchestrator` | 2 digests, 2 variants, 2 keys | 1 600 | `OneLab`, `SubmitOnce`, and `ImplementsLifecycle` |
| `retention` | a central execution with its evidence and a lab execution whose report failed before it had a workspace, 2 seconds, 1 crash | 46 000 | `BarredBeforeRemoval`, `EvidenceAfterScratch`, `Reclaims` (the refinement), `EveryChainReclaimed`, `WorkGoesOn` |
| `spool` | a lab execution with 2 workers and 2 faults, a central one with 2 workers and 1 fault, both side by side with none; 2 attempts | 117 000 | `SentOnce`, `SuccessIsEarned`, `ResultStands`, `ReclaimedStaysGone`, `EveryExecutionEnds`, `EveryJobAnswered` |
| `submission_lab`, `submission_overwrite`, `retention_unknown` | see section 5 | | each finds one statement of the repository violated |

**Bounds.** Leases concern pairs: a second holder is the smallest and the only
kind of intruder, since a row has one lease, so two workers or schedulers show
every conflict that three would. Two attempts reach the first, the last and the
exhausted attempt. Two items (or revisions) show whatever one does to another;
one with an image and one without cover both paths of cleanup. `MaxAttempts`
bounds the retries that the code bounds too (20 and 1 000 000); retries without
a limit are not bounded. `MaxRevision` bounds the teacher's edits,
and `MaxUpdates` the presses: two are the least of which one can overtake,
contradict, repeat or hide the other. A lease of one second
and a backoff of one to two are the smallest for which "before", "at" and
"after" differ. Schedulers and workers are symmetric, and symmetry is used only
in runs without liveness.

The situations of `submission` and `spool` separate hazards that do not touch:
the student acts on Moodle's page, and the pass never looks at it after the
offer; a second worker matters where a lease can be lost, in the saga and in
`step`, while the only thing two passes could do to one another is to repeat a
message. (The second worker therefore joins at the saga; the theorems of
`SubmissionProofs` cover all mixtures.) Two faults are what a lab execution
needs for its worst case: one to lose a worker between intent and record, one to
lose the worker that takes over. In `retention`, one crash is enough because a
process that dies leaves at most one file and one target in an intermediate
state, and after the restart it completes them before it begins anything else; the
three tombstones are the scratch of a chain, the evidence that must wait for it,
and another chain that must wait for, or get in the way of, the first. In the
second that separates the evidence's delivery from its age everything else may
already be done or not yet begun.

**Deadlock** is checked in the outbox, submission, telegram and retention runs. It
is off for `ApprovedWork`, where all work may be finished and its labs gone, for
the orchestrator, where a cleaned task is the end, and for the spool, where all
executions may be over and their files gone.

**Fairness.** `run` in `scheduler_cli.py` and `worker_cli.py` loops for ever and
systemd restarts it on failure, so a process with a step to take takes one; every HTTP,
AWS and agent call has a timeout, so it ends, one way or the other; time
passes. That is all the scheduler, the notification pass, the submission saga and
retention assume. The work queue also assumes that calls retried without limit
(the agent, the lab's readiness, teardown, deregistration) succeed some time if
repeated for ever, and the spool that an execution that is open is claimed again
and again (one that was put back is not available for a while, so others have
their turn), that SSM ends its commands, as it times them out, and that the agent
gets round to `process_one`, which its loop leaves out while retention is not idle
(`agent_cli.py:151-152`): `WorkGoesOn` checks this of the worker's loop, for chains
that can be reclaimed, and the spool takes it for granted of the agent's. Nothing is
assumed of the other calls, which the attempts limit ends. The liveness
properties of the outbox, of the work queue and of the submission are
conditional, in their statements, on crashes ending (`CrashesEnd`), on leases
not expiring for ever under a worker on the job (`LeasesHold`; the lease is an
hour), and, for the messages, on the pass not being failed for ever
(`PassesWork`): no program that is killed in each cycle makes progress. In the
retention and spool runs the number of crashes is bounded instead.

## 5. Where code and documentation disagree

Three of these are runs, in which TLC finds the quoted statement violated.

* `submission_lab` (a defect). After any successful lab execution
  `completion.py:57-58` asks for the artifact bundle, which a lab does not leave,
  and raises after the report was sent. The notification is never marked: the
  same report is sent in every cycle, and no later report, offer or result ever
  is. `docs/architecture.md:90` says completed reports are sent.
* `retention_unknown` (a defect). After `dispatch_unknown` the controller writes a
  barrier for a report that was never published, and its own ledger check accepts
  barriers for the tombstone's jobs only: retention refuses from then on.
  `docs/aws.md:503-504` says such an execution is reclaimed.
* `submission_overwrite`. Whether the student has a submission of their own is
  checked at the offer only; what they hand in between the offer and the save
  is overwritten, against the comment at `submission.py:297-298`.

The others were met while modelling and are in the models (as choices of the
environment, or as places left out), but have no run of their own.

* Image cleanup deregisters the AMI, then deletes its snapshots
  (`image_imports.py:175`). If it is interrupted in between, the retry finds no
  AMI and returns at once: the snapshots stay, against `docs/architecture.md:99-100`.
* When the response of a launch is lost, no handle is recorded, and the rule of
  `claim_work` (`approval_state.py:708`) lets a second item launch a lab;
  `docs/architecture.md:47` says only one may be active. (`OneRecordedLab` holds.)
* When the last attempt launches a lab but raises (`approval_state.py:1484`), the
  work fails without a handle and nobody reconciles the lab
  (`docs/architecture.md:16-18`); it runs until the reaper's hard limit.
* Metadata files that a process leaves in an intermediate state and that the next
  one refuses: an empty stage (any directory); a deleting marker, an
  acknowledgement or a barrier that is staged or linked; a barrier written before
  a commit whose `committed_at` the next attempt does not repeat
  (`retention_fs.py:483`). A job directory, or a lab workspace of a job that
  succeeded, that was removed in part. Each leaves retention refusing until an
  operator clears it up; no crash in these places loses anything.
* A dispatch intent left with both its names, by a broker that dies between link
  and unlink, is never repaired. Every later read of the records fails
  (`agent_spool.py:844`), and so does every admission to the jobs root, which
  measures the records too and refuses a file with two links
  (`agent_spool.py:564,578,588,970`, `storage_quota.py:360`): no new job is
  published, of a lab or a central execution, until an operator clears it up, and
  executions end in errors and out of attempts. `README.md:31` speaks of crash-safe
  storage quotas. `EveryExecutionEnds` allows these ends, so no run shows this.
* The user approves a submission, the answer is lost or the button pressed again,
  and the worker takes the submission up in between: the update is answered "La
  entrega ya tiene otra decisión" (`telegram.py:439`), since the status `uploading`
  is not `approved` (`approval_state.py:1252-1255`), although the decision is the
  user's own. `docs/local-moodle.md:326-327` says replayed buttons are idempotent;
  the decision is, its answer is not. `AnswersHold` states this one exception.
* A press that is told "Acción caducada o no válida" may count all the same: a
  failing transaction is taken for an unknown token, and the update may be handled
  again by another poller, or have been handled before. `AnswersHold` claims nothing
  of this answer.
* A result that is too large for a message blocks the notification pass as a lab
  report does.

## 6. Proofs

All theorems are for any number of schedulers, pollers, workers, items, assignments
and revisions. Each component's invariant was first checked by TLC, in the runs
above or as an additional invariant of their instances.

### NotificationOutboxProofs

Assumptions: `OptionsAssumption` (the ranges `scheduler_config.py` enforces; any
number of tasks, schedulers, revisions and attempts) and `PowersOfTwo` (that the
twenty powers of two in the backoff are numbers, which TLC evaluates
completely).

`TypeOK /\ AckMatchesOutbox` is not inductive: whether `Complete` may settle a
row depends on what its scheduler privately holds. `IInv` adds

* `LeasedRows`: a leased row carries the token of its latest attempt, and
  `ClaimsRecorded`: no claim is ahead of its row. Together: an old token never
  matches again once the row was reclaimed;
* `BatchesDisjoint`: no claim is in two hands, which gives `LeaseExclusive`;
* `Delivery` and `SentIsCurrent`: what a scheduler is handing over is a claim it
  holds, and the only one of its batch the sink can have accepted, which gives
  `OneSinkCallPerClaim` and, with the step lemmas, that `Complete` implements
  `Settle` of the contract.

`NewAtMostOnce` needs one thing more, that a row which says NEW is still there
(`NewIsPersisted`): `enqueue` looks for prior rows, and no step forgets one.

Each group has a lemma on how a step changes it (`RowSteps`, `BatchSteps`,
`SentSteps`), `NextIInv` combines them, and `ImplementsContract` maps every
action to a step of `DeliveryContract` or a stutter.

### TaskOrchestratorProofs

Assumption: `NoneAssumption`, that `None` is not one of the digests, keys or
requests. The inductive invariant relates the lifecycle state to the fields:
`Planned` (a request exists exactly from provisioning on, and is for the
approved digest), `LabKnown` (every lab there is belongs to that request),
`Executions`, `Phases` (the state during each port call), `Submissions` and
`Cleanups`. The safety properties follow from its parts, and
`OrchestratorImplementsLifecycle` from the guards of the operations: every step
that changes the state is a permitted move.

### SubmissionProofs

Assumption: `SubmissionAssumption`. The inductive invariant has four parts.
`TypeInv` adds to `TypeOK` that a worker in pass or saga has an event in hand and
that a live lease is on a leased row. `SaveInv` is what makes `SaveOnce`
inductive: an event whose row is before `saving` was never saved and nobody is on
the way to it, who is on the way has not saved, and at most one worker is: this
is where the status that is recorded *before* the save matters, and that recovery
goes to `verify` and not to `save`. `HeldInv` says that what Moodle shows it has
held, and what a worker has verified it has held, which gives `ReceiptIsExact`
and `FinalizeNeedsDraft` however the page changes afterwards (a draft held before is
all it says: the student may have replaced it when the request is carried out). `ToldInv` ties a
worker's point in the pass to the messages sent before it, which gives
`DeliveredMeansTold`. `SettledStays` follows from the step lemma on rows.

### ApprovedWorkProofs

Assumption: `JobsAssumption`. The rows alone are not inductive, because a worker
acts on a copy. `Claims` says what a copy may still be trusted for once the row
has moved on: row and copy agree as long as the lease is the worker's, and a
handle that was copied is on the row for good. `Points` says what the worker has
already done at AWS at each point and with each outcome in hand (an outcome
`cleaned` implies that lab and image are gone), `Rows` what a row tells about
AWS, and `Exclusive` that at most one item has a handle or a live provisioning,
which with the guard of `claim_work` gives `OneRecordedLab`.

### ReclamationProofs

The abstract specification keeps its word: `ReceiptMeansGone` (a receipt says
that every target is gone, and they stay gone) and `KeptIsKept` (nothing that is
a tombstone's alone goes before it is committed). `Retention` implements it
(`ImplementsReclamation`, and the run `retention` for the small instance), so both
hold of the files.

### RetentionProofs

Assumption: `RetentionAssumption`, what the codecs and the planner enforce of
records (`ValidRecord`, `OneRecord`, no barrier shared by two tombstones). The
theorems are for any tombstones, any number of jobs and barriers, any number of
crashes, and a crash before any step: also where the protocol does not recover
(section 5), nothing unsafe is done.

What must be shown of a process is about operations that it has still to do, which
it decided on when the files were different. The inductive invariant `IInv`
therefore says of the list `todo` of each process what it may rely on:

* `AgentOk`: an intent is only published when the scratch of the execution is gone,
  a target only erased when its tombstone is committed, not acknowledged, and barred
  on both sides (`Safe`), and an acknowledgement, the last operation, comes after
  the erasure of every target that is still there (`GoneBy`).
* `ControllerOk`: the same of the committed tombstone, of jobs and dispatch (after
  the acknowledgement, before the receipt), and that prepared, committed and
  deleting files go only behind a receipt (`ThereBy`).
* `PlaceInv`: at the point before it removes, the agent has its barriers and intent
  durable or still in its list (`Coming`).
* `FilesInv`: what each kind of file proves of the others and of the targets.

Three layers of lemmas carry it. `Moves` says what one file operation can do, and
`Steady` what no step undoes, so that one process's list stays right while the
other runs (`AgentOkKept`, `ControllerOkKept`) and while its own is worked off
(`AgentOkTail`, `ControllerOkTail`). One lemma per list (`CommitFacts`,
`AnnounceFacts`, `RemovalFacts`, `ReclaimFacts`, `FinishFacts`) says that it is
right when it is made. One lemma per action of the two cycles (`ReconcileIInv` to
`RemoveTargetsIInv`) joins them. `PlannedScratchGone` is the heart of
`EvidenceGoesLast`: evidence is the first plan only if the scratch of its execution
has a receipt, on disk or recorded. `ImplementsReclamation` follows from the same
parts: a publication of `committed`, `ack` or `completed`, and an erasure of a
target, are the steps of `Reclamation`, everything else is a stutter.
`RecordsAreTrue` is what the rows of `retention_completions` are worth.

### AgentSpoolProofs

Assumption: `SpoolAssumption`. The inductive invariant has four parts. `TypeInv`
says which job a worker can have in hand at each point of `step`, and that no
provenance names more jobs than its chain has. `SendInv` makes `SentOnce`
inductive: a report's lock has one holder, a holder that has not sent yet has an
unsent intent, and a record is only ever missing where nothing was sent or the
report is barred. `AgentInv` says that what the agent works on has no result and
is not barred, which gives `ResultStands` and, with the lock, `ReclaimedStaysGone`.
`EarnInv` follows a success back: from the outcome to the worker that settles it,
to the agent's answer, to the context of the report, to what the worker saw of
the command (`LabAt`), to the bundle (`CentralInv`), and to the answers of the
jobs before the one in hand (`BehindInv`), which stay or are taken away behind a
barrier (`AcceptedStays`). One lemma per action says
how it moves its worker (`PublishMoves` to `GiveUpMoves`); the steps rest on them.

### TelegramApprovalsProofs

Assumption: `MaxUpdatesAssumption`. `FirstPressDecides` and `NoPressLost` are each
other's support: a poller decides a card only at an update that the cursor has not
passed (`RangeInv`), and by `NoPressLost` every earlier press of a card that is
still pending was declared invalid. `HandInv` says what a poller has in hand: an
answer that `Holds` for its press, and, once the user has been told, a press that
the cursor may pass. An answer keeps its meaning because a decision is never changed
(`DecidedStays`) and a card with a button exists (`CardInv`), so that a conflict
cannot become a pending card, and because a submission once taken up stays in
`begun`, which is all the exception to `AnswersHold` rests on. `SinkInv` and `ToldInv` carry the types of the sink
and of the history.

### Only model-checked

Liveness, all of it: it needs fairness and `ENABLED`, which the prover does not
handle. Every invariant, every action property and every refinement that
the runs check are theorems.

## 7. Not modelled

* Input transfer (`input_transfer.py`) is planned (section 2).
* Of retention, the removal of a tree entry by entry and the checks of owners,
  modes and symbolic links; of the spool, the sandboxed process and the bundle
  collector; of storage admission, how bytes and inodes are measured.
* The Moodle client, downloads, artifact preparation and the codecs validate
  data and keep no state; the models contain their calls as steps that may raise.
* Configuration and command lines run before anything else starts; health
  heartbeats are written and not read; installation and `infra/` (other than the
  reaper) are run once by an administrator.

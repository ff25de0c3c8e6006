------------------------------ MODULE AgentSpool ------------------------------
(***************************************************************************)
(* The agent spool: how the worker has an execution carried out.           *)
(*                                                                         *)
(* FileAgentBroker.step (agent_spool.py, in the controller's worker)       *)
(* publishes immutable job directories and reads results;                  *)
(* CodexSpoolRunner.process_one (agent_cli.py, in the agent's process)     *)
(* runs Codex for a job that has no result and publishes one.  A lab       *)
(* execution is a plan, an SSM command in the lab and a report about it, a *)
(* central one a planner, an executor and a reviewer.  The command must    *)
(* not be sent twice, so an intent is published before it is sent and      *)
(* replaced by the command's id after.                                     *)
(*                                                                         *)
(* step keeps nothing in memory between two calls.  Files are created      *)
(* under a temporary name and hard-linked to their own (a job directory is *)
(* renamed); a crash may leave both names.  A file with two names is not   *)
(* read.                                                                   *)
(*                                                                         *)
(* Job ids are digests of what a job depends on; as results are never      *)
(* replaced, <<execution, position in its chain>> stands for them.         *)
(***************************************************************************)
EXTENDS Integers, Sequences, FiniteSets

CONSTANTS
  Lab, Central, \* the executions of work items, by family
  Order,        \* the jobs in the order of their digests
  Worker,       \* worker processes: the running one, and any started meanwhile
  MaxAttempts,  \* _MAX_WORK_ATTEMPTS (20); attempts are counted up to it
  Scenario,     \* bound: what is approved, the workers there are, and how many
                \* faults: crashes, lost leases, refusals for want of storage
  None

Execution == Lab \cup Central
Length(e)   == IF e \in Lab THEN 2 ELSE 3   \* LAB_PHASES, _CENTRAL_ROLES
Chain(e, n) == {<<e, i>> : i \in 1..n}
Job       == UNION {Chain(e, Length(e)) : e \in Execution}
Plan(e)   == <<e, 1>>
Report(e) == <<e, 2>>
Executor(e) == <<e, 2>>

ASSUME SpoolAssumption ==
  /\ Lab \cap Central = {}
  /\ {Order[i] : i \in DOMAIN Order} = Job /\ Len(Order) = Cardinality(Job)
  /\ MaxAttempts \in Nat \ {0}
  /\ Scenario \subseteq [approved: SUBSET Execution, workers: SUBSET Worker, faults: Nat]
  /\ None \notin Execution \cup Worker

VARIABLES
  job,       \* the job directories
  context,   \* labSucceeded, in the report job of a lab execution
  result,    \* the results, by job
  linked,    \* those that still have their temporary name as well
  bundle,    \* the central executions whose artifact bundle is published
  dispatch,  \* the dispatch records
  paired,    \* those that still have their temporary name as well
  sent,      \* SSM: how many commands were sent for each lab execution
  command,   \* SSM: the status of the (first) command
  outcome,   \* execution_outbox: how each execution ended, and its provenance
  attempts,  \* work_items.attempts
  owner,     \* whose live lease is on the work item
  barred,    \* the jobs with a barrier of the controller
  abarred,   \* the jobs with a barrier of the agent
  worker,    \* where each worker is in step
  agent,     \* where the agent is in process_one
  scenario   \* the faults that are still to come, and the rest of the bound

spool   == <<job, context, result, linked, bundle, dispatch, paired>>
ssm     == <<sent, command>>
table   == <<outcome, attempts, owner>>
barrier == <<barred, abarred>>
vars    == <<spool, ssm, table, barrier, worker, agent, scenario>>

\* How step can return, or raise: "refused" is StorageCapacityError.
Provenances == {"succeeded", "failed", "capacity_error", "dispatch_unknown", "budget_error"}
Returns     == Provenances \cup {"pending", "refused", "error"}
Points      == {"idle", "publish", "read", "dispatch", "paired", "send", "record",
                "wait", "unknown", "settle"}

\* saw: what a wait for the command told.  end and upto: the progress to settle
\* the claim with, and how many jobs of the chain its barrierIds name.
Idle   == [at |-> "idle", job |-> None, saw |-> "none", end |-> None, upto |-> 0]
Open   == [status |-> "open", upto |-> 0]
AgentIdle == [at |-> "idle", job |-> None, out |-> "none"]

TypeOK ==
  /\ job \subseteq Job /\ linked \subseteq Job /\ barred \subseteq Job /\ abarred \subseteq Job
  /\ context \in [Lab -> {"none", "ok", "failed"}]
  /\ result \in [Job -> {"none", "ok", "failed", "rejected"}]
  /\ bundle \subseteq Central /\ paired \subseteq Lab
  /\ dispatch \in [Lab -> {"none", "intent", "dispatched"}]
  /\ sent \in [Lab -> Nat]
  /\ command \in [Lab -> {"none", "running", "ok", "failed"}]
  /\ outcome \in [Execution -> [status: Provenances \cup {"open", "exhausted"}, upto: 0..3]]
  /\ attempts \in [Execution -> 0..MaxAttempts]
  /\ owner \in [Execution -> Worker \cup {None}]
  /\ worker \in [Worker -> [at: Points, job: Job \cup {None}, saw: {"none", "ok", "failed"},
                            end: Returns \cup {None}, upto: 0..3]]
  /\ agent \in [at: {"idle", "codex", "publish", "linked"}, job: Job \cup {None},
                out: {"none", "ok", "failed", "rejected"}]
  /\ scenario \in [approved: SUBSET Execution, workers: SUBSET Worker, faults: Nat]

Init ==
  /\ job = {} /\ linked = {} /\ bundle = {} /\ paired = {}
  /\ context = [e \in Lab |-> "none"]
  /\ result = [j \in Job |-> "none"]
  /\ dispatch = [e \in Lab |-> "none"]
  /\ sent = [e \in Lab |-> 0]
  /\ command = [e \in Lab |-> "none"]
  /\ outcome = [e \in Execution |-> Open]
  /\ attempts = [e \in Execution |-> 0]
  /\ owner = [e \in Execution |-> None]
  /\ barred = {} /\ abarred = {}
  /\ worker = [w \in Worker |-> Idle]
  /\ agent = AgentIdle
  /\ scenario \in Scenario

Fault ==
  /\ scenario.faults > 0
  /\ scenario' = [scenario EXCEPT !.faults = @ - 1]
NoFault == UNCHANGED scenario

-----------------------------------------------------------------------------
(* The worker: locks and the ways out of step.                             *)

At(w, point) == worker[w].at = point

\* w goes on to another point of step, for the job j of the execution.
Goto(w, point, j) == worker' = [worker EXCEPT ![w].at = point, ![w].job = j]

\* step ends: the claim will be settled with this, the barriers of the first
\* n jobs named in the provenance.
Return(w, end, n) ==
  worker' = [worker EXCEPT ![w].at = "settle", ![w].end = end, ![w].upto = n]

\* _dispatch_or_resume holds the retention lock of the report all along.
Dispatching == {"paired", "send", "record", "wait"}
Locked(j) == \E w \in Worker : worker[w].job = j /\ worker[w].at \in Dispatching

\* And the admission lock of the jobs from the second admission to the record.
Admitting == \E w \in Worker : worker[w].at = "record"

\* No record may have two names: _validate_dispatch_storage_layout, and also the
\* measuring of the jobs root, records included, by every admission.
RecordsReadable == paired = {}

\* The record a lab provenance binds: an intent if the dispatch is unknown, for
\* every other end that comes after a dispatch one with the command's id.
Bound(e, state) == RecordsReadable /\ dispatch[e] = state

\* The chain's job files that the provenance is built from can be read.
End(w, e, end, read, n) ==
  IF Chain(e, read) \subseteq job THEN Return(w, end, n) ELSE Return(w, "error", 0)

-----------------------------------------------------------------------------
(* The worker: one call of step.                                           *)

\* claim_work.
Begin(w, e) ==
  /\ At(w, "idle") /\ w \in scenario.workers
  /\ e \in scenario.approved /\ outcome[e] = Open /\ owner[e] = None
  /\ owner' = [owner EXCEPT ![e] = w]
  /\ attempts' = [attempts EXCEPT ![e] = IF @ < MaxAttempts THEN @ + 1 ELSE @]
  /\ Goto(w, "publish", <<e, 1>>)
  /\ UNCHANGED <<spool, ssm, outcome, barrier, agent, scenario>>

\* Defect: the barrier is not looked at.
MayPublish_Unbarred(j) == TRUE

\* Publication under the retention lock: the barrier, and again before rename.
MayPublish(j) == j \notin barred

\* Storage is refused: before the report of a command that ran, that is the end
\* of the execution; otherwise the work waits for storage.
RefusePublication(w, e, i) ==
  /\ Fault
  /\ IF e \in Lab /\ i = 2
     THEN IF Bound(e, "dispatched")
          THEN End(w, e, "capacity_error", 1, 2) ELSE Return(w, "error", 0)
     ELSE Return(w, "refused", 0)
  /\ UNCHANGED <<job, context>>

\* The job would exceed the serialized budget: for a planner there is no
\* provenance, a later role ends the chain before it.
OverBudget(w, e, i) ==
  /\ e \in Central
  /\ End(w, e, "budget_error", i - 1, i - 1)
  /\ UNCHANGED <<job, context, scenario>>

\* _ensure_job, to its end: the directory is renamed to its own name, a report's
\* with what the command was seen to do.
EnsureJob(w, e, i) ==
  /\ job' = job \cup {<<e, i>>}
  /\ context' = IF i = 2 /\ e \in Lab THEN [context EXCEPT ![e] = worker[w].saw] ELSE context
  /\ Goto(w, "read", <<e, i>>)
  /\ NoFault

\* _ensure_central_job with _publish_central_job, and _ensure_job.  All is measured
\* before a job is admitted; of central jobs also one that is there already.
PublishJob(w) ==
  /\ At(w, "publish") /\ ~Admitting
  /\ LET j == worker[w].job
         e == j[1]
     IN
       /\ ~Locked(j)
       /\ \/ /\ j \in job /\ MayPublish(j) /\ (e \in Central => RecordsReadable)
             /\ Goto(w, "read", j)
             /\ UNCHANGED <<job, context, scenario>>
          \/ /\ j \notin job /\ MayPublish(j)
             /\ \/ RecordsReadable /\ EnsureJob(w, e, j[2])
                \/ OverBudget(w, e, j[2])
          \/ /\ j \notin job \/ e \in Central
             /\ MayPublish(j) /\ RecordsReadable
             /\ RefusePublication(w, e, j[2])
          \/ Return(w, "error", 0) /\ UNCHANGED <<job, context, scenario>>
  /\ UNCHANGED <<result, linked, bundle, dispatch, paired, ssm, table, barrier, agent>>

\* A report needs the dispatch record, an executor's success its bundle
\* (_read_exact_dispatch, _verify_bundle).
Usable(e, i) ==
  /\ e \in Lab /\ i = 2 => Bound(e, "dispatched")
  /\ e \in Central /\ i = 2 /\ result[<<e, i>>] = "ok" => e \in bundle

\* Defect: a plan that failed is waited for as if it were to come.
After_FailureIsPending(w, e, i) ==
  IF result[<<e, i>>] # "ok" THEN Return(w, "pending", 0)
  ELSE IF i = Length(e) THEN End(w, e, "succeeded", i, i)
  ELSE Goto(w, IF e \in Lab THEN "dispatch" ELSE "publish", <<e, i + 1>>)

\* Defect: the reviewer is followed by yet another role.
After_NoLast(w, e, i) ==
  IF result[<<e, i>>] # "ok" THEN End(w, e, "failed", i, i)
  ELSE IF e \in Lab THEN Goto(w, "dispatch", Report(e)) ELSE Goto(w, "publish", <<e, i + 1>>)

\* Defect: only a failure is looked for, a reviewer's rejection passes.
After_RejectionPasses(w, e, i) ==
  IF ~Usable(e, i) THEN Return(w, "error", 0)
  ELSE IF result[<<e, i>>] = "failed" THEN End(w, e, "failed", i, i)
  ELSE IF i = Length(e) THEN End(w, e, "succeeded", i, i)
  ELSE Goto(w, IF e \in Lab THEN "dispatch" ELSE "publish", <<e, i + 1>>)

\* What a readable result leads to.
After(w, e, i) ==
  \/ ~Usable(e, i) /\ Return(w, "error", 0)
  \/ Usable(e, i) /\ result[<<e, i>>] # "ok" /\ End(w, e, "failed", i, i)
  \/ /\ Usable(e, i) /\ result[<<e, i>>] = "ok"
     /\ \/ i = Length(e) /\ End(w, e, "succeeded", i, i)
        \/ /\ i < Length(e) /\ e \in Lab
           /\ Goto(w, IF Report(e) \in job THEN "read" ELSE "dispatch", Report(e))
        \/ i < Length(e) /\ e \in Central /\ Goto(w, "publish", <<e, i + 1>>)

\* _result and _central_result.
ReadResult(w) ==
  /\ At(w, "read")
  /\ LET j == worker[w].job IN
       IF result[j] = "none" THEN Return(w, "pending", 0)
       ELSE IF j \in linked THEN Return(w, "error", 0)
       ELSE After(w, j[1], j[2])
  /\ UNCHANGED <<spool, ssm, table, barrier, agent, scenario>>

\* Defect: an intent is taken for a command that was not sent.
Resume_SendAgain(w, e) ==
  Goto(w, IF dispatch[e] = "dispatched" THEN "wait" ELSE "send", Report(e))

\* _read_dispatch_record finds one: an intent may have been sent or not.
Resume(w, e) ==
  Goto(w, IF dispatch[e] = "dispatched" THEN "wait" ELSE "unknown", Report(e))

\* _dispatch_or_resume and _publish_dispatch_record up to os.link.
Dispatch(w) ==
  /\ At(w, "dispatch") /\ ~Admitting
  /\ LET e == worker[w].job[1] IN
       /\ ~Locked(Report(e))
       /\ \/ /\ ~MayPublish(Report(e)) \/ ~RecordsReadable
             /\ Return(w, "error", 0)
             /\ UNCHANGED <<dispatch, paired, scenario>>
          \/ /\ MayPublish(Report(e)) /\ RecordsReadable
             /\ \/ /\ dispatch[e] # "none"
                   /\ Resume(w, e)
                   /\ UNCHANGED <<dispatch, paired, scenario>>
                \/ /\ dispatch[e] = "none"
                   /\ dispatch' = [dispatch EXCEPT ![e] = "intent"]
                   /\ paired' = paired \cup {e}
                   /\ Goto(w, "paired", Report(e))
                   /\ NoFault
                \/ /\ dispatch[e] = "none"
                   /\ End(w, e, "capacity_error", 1, 1)
                   /\ Fault
                   /\ UNCHANGED <<dispatch, paired>>
  /\ UNCHANGED <<job, context, result, linked, bundle, ssm, table, barrier, agent>>

\* The temporary name of the intent goes, after the admission lock was released.
UnlinkIntent(w) ==
  /\ At(w, "paired")
  /\ paired' = paired \ {worker[w].job[1]}
  /\ Goto(w, "send", worker[w].job)
  /\ UNCHANGED <<job, context, result, linked, bundle, dispatch, ssm, table, barrier, agent, scenario>>

\* The second admission, and SendCommand.  A lost response and a command that
\* was never sent cannot be told apart.
Send(w) ==
  /\ At(w, "send") /\ ~Admitting
  /\ LET e == worker[w].job[1] IN
       \/ /\ ~RecordsReadable
          /\ Return(w, "error", 0)
          /\ UNCHANGED <<ssm, scenario>>
       \/ /\ RecordsReadable
          /\ Fault
          /\ End(w, e, "capacity_error", 1, 1)
          /\ UNCHANGED ssm
       \/ /\ RecordsReadable
          /\ sent' = [sent EXCEPT ![e] = @ + 1]
          /\ command' = [command EXCEPT ![e] = IF @ = "none" THEN "running" ELSE @]
          /\ \E point \in {"record", "unknown"} : Goto(w, point, Report(e))
          /\ NoFault
       \/ /\ RecordsReadable
          /\ Goto(w, "unknown", Report(e))
          /\ UNCHANGED <<ssm, scenario>>
  /\ UNCHANGED <<spool, table, barrier, agent>>

\* _replace_dispatch_record_locked; os.replace may fail, or fsync after it.
Record(w) ==
  /\ At(w, "record")
  /\ LET e == worker[w].job[1]
         written == [dispatch EXCEPT ![e] = "dispatched"]
     IN  \/ dispatch' = written /\ Goto(w, "wait", Report(e))
         \/ dispatch' \in {dispatch, written} /\ Goto(w, "unknown", Report(e))
  /\ UNCHANGED <<job, context, result, linked, bundle, paired, ssm, table, barrier, agent, scenario>>

\* wait_powershell: the command's terminal status, or no answer in time.
Wait(w) ==
  /\ At(w, "wait")
  /\ LET e == worker[w].job[1] IN
       \/ /\ command[e] \in {"ok", "failed"}
          /\ worker' = [worker EXCEPT ![w].at = "publish", ![w].saw = command[e]]
       \/ Return(w, "error", 0)
  /\ UNCHANGED <<spool, ssm, table, barrier, agent, scenario>>

\* No transcript: only an intent, read again, makes the provenance dispatch_unknown.
Unknown(w, e) ==
  IF Bound(e, "intent")
  THEN End(w, e, "dispatch_unknown", 1, 2)
  ELSE IF Bound(e, "none")
  THEN End(w, e, "failed", 1, 1)
  ELSE Return(w, "error", 0)

GiveUpDispatch(w) ==
  /\ At(w, "unknown")
  /\ Unknown(w, worker[w].job[1])
  /\ UNCHANGED <<spool, ssm, table, barrier, agent, scenario>>

\* complete_execution or retry_work, if the lease is still w's.
Settle(w) ==
  /\ At(w, "settle")
  /\ LET e == worker[w].job[1]
         end == worker[w].end
     IN  IF owner[e] = w
         THEN /\ owner' = [owner EXCEPT ![e] = None]
              /\ outcome' =
                   IF end \in Provenances
                   THEN [outcome EXCEPT ![e] = [status |-> end, upto |-> worker[w].upto]]
                   ELSE IF end = "error" /\ attempts[e] >= MaxAttempts
                   THEN [outcome EXCEPT ![e] = [status |-> "exhausted", upto |-> 0]]
                   ELSE outcome
         ELSE UNCHANGED <<owner, outcome>>
  /\ worker' = [worker EXCEPT ![w] = Idle]
  /\ UNCHANGED <<spool, ssm, attempts, barrier, agent, scenario>>

\* The worker is killed; systemd starts another.  Its locks are the kernel's.
CrashWorker(w) ==
  /\ ~At(w, "idle")
  /\ Fault
  /\ worker' = [worker EXCEPT ![w] = Idle]
  /\ UNCHANGED <<spool, ssm, table, barrier, agent>>

Gone(w, e) == At(w, "idle") \/ worker[w].job[1] # e

\* The lease of a dead worker runs out, or that of one that is late.
LeaseExpires(e) ==
  /\ owner[e] # None
  /\ IF Gone(owner[e], e) THEN NoFault ELSE Fault
  /\ owner' = [owner EXCEPT ![e] = None]
  /\ UNCHANGED <<spool, ssm, outcome, attempts, barrier, worker, agent>>

\* SSM: the command ends in the lab.
CommandEnds(e) ==
  /\ command[e] = "running"
  /\ \E status \in {"ok", "failed"} : command' = [command EXCEPT ![e] = status]
  /\ UNCHANGED <<spool, sent, table, barrier, worker, agent, scenario>>

-----------------------------------------------------------------------------
(* The agent: one call of process_one.                                     *)

\* Defect: a result that still has both names is taken for unfinished.
Recovered_Discard == [j \in Job |-> IF j \in linked THEN "none" ELSE result[j]]

\* _recover_result_temporaries: the temporary names go, the results stay.
Recovered == result

RecoverResults ==
  /\ agent.at = "idle" /\ linked # {}
  /\ result' = Recovered
  /\ linked' = {}
  /\ UNCHANGED <<job, context, bundle, dispatch, paired, ssm, table, barrier, worker, agent, scenario>>

Unanswered(j) == j \in job /\ result[j] = "none"

\* _execute refuses a barred job, and process_one goes no further.
MayExecute(j) == j \notin abarred

\* The first job by name that has no result.
TakeJob ==
  /\ agent.at = "idle" /\ linked = {}
  /\ \E i \in DOMAIN Order :
       /\ Unanswered(Order[i])
       /\ \A k \in 1..(i - 1) : ~Unanswered(Order[k])
       /\ MayExecute(Order[i])
       /\ agent' = [at |-> "codex", job |-> Order[i], out |-> "none"]
  /\ UNCHANGED <<spool, ssm, table, barrier, worker, scenario>>

\* What a valid answer says: a reviewer accepts every criterion or rejects.
Verdicts(j) == IF j[1] \in Central /\ j[2] = 3 THEN {"ok", "rejected"} ELSE {"ok"}

\* What becomes of Codex's answer: a timeout, a failure or an unusable answer is
\* published as a failure, and so is a success about a command that failed.
Answers(j) ==
  IF j[1] \in Lab /\ j[2] = 2 /\ context[j[1]] = "failed"
  THEN {"failed"} ELSE {"failed"} \cup Verdicts(j)

\* _collect_artifact_bundle.
Bundled(j, out) ==
  IF j[1] \in Central /\ j = Executor(j[1]) /\ out = "ok" THEN bundle \cup {j[1]} ELSE bundle

\* _execute, up to the publication of the result.
RunCodex ==
  /\ agent.at = "codex"
  /\ \E out \in Answers(agent.job) :
       /\ agent' = [agent EXCEPT !.at = "publish", !.out = out]
       /\ bundle' = Bundled(agent.job, out)
  /\ UNCHANGED <<job, context, result, linked, dispatch, paired, ssm, table, barrier, worker, scenario>>

\* _publish_result up to os.link.  Where a result finds no room, the reserve
\* holds a failure; where that finds none either, the job waits.
LinkResult ==
  /\ agent.at = "publish"
  /\ \/ \E out \in {agent.out, "failed"} :
          /\ result' = [result EXCEPT ![agent.job] = out]
          /\ linked' = linked \cup {agent.job}
          /\ agent' = [agent EXCEPT !.at = "linked", !.out = out]
          /\ NoFault
     \/ Fault /\ agent' = AgentIdle /\ UNCHANGED <<result, linked>>
  /\ UNCHANGED <<job, context, bundle, dispatch, paired, ssm, table, barrier, worker>>

UnlinkResult ==
  /\ agent.at = "linked"
  /\ linked' = linked \ {agent.job}
  /\ agent' = AgentIdle
  /\ UNCHANGED <<job, context, result, bundle, dispatch, paired, ssm, table, barrier, worker, scenario>>

CrashAgent ==
  /\ agent.at # "idle"
  /\ Fault
  /\ agent' = AgentIdle
  /\ UNCHANGED <<spool, ssm, table, barrier, worker>>

AgentStep == RecoverResults \/ TakeJob \/ RunCodex \/ LinkResult \/ UnlinkResult

-----------------------------------------------------------------------------
(* Retention of a settled execution, as Retention has it: the controller   *)
(* bars it, the agent bars and removes its part, then the controller.      *)

BarrierIds(e) == Chain(e, outcome[e].upto)

Bar(e) ==
  /\ BarrierIds(e) # {} /\ ~(BarrierIds(e) \subseteq barred)
  /\ \A j \in BarrierIds(e) : ~Locked(j)
  /\ barred' = barred \cup BarrierIds(e)
  /\ UNCHANGED <<spool, ssm, table, abarred, worker, agent, scenario>>

\* Between two calls of process_one.
AgentReclaims(e) ==
  /\ BarrierIds(e) # {} /\ BarrierIds(e) \subseteq barred \ abarred
  /\ agent.at = "idle" /\ BarrierIds(e) \cap linked = {}
  /\ abarred' = abarred \cup BarrierIds(e)
  /\ result' = [j \in Job |-> IF j \in BarrierIds(e) THEN "none" ELSE result[j]]
  /\ UNCHANGED <<job, context, linked, bundle, dispatch, paired, ssm, table, barred, worker, agent, scenario>>

\* Defect: the first job of the chain is forgotten.
JobsLeft_First(e) == job \ (BarrierIds(e) \ {<<e, 1>>})

JobsLeft(e) == job \ BarrierIds(e)

ControllerReclaims(e) ==
  /\ BarrierIds(e) # {} /\ BarrierIds(e) \subseteq abarred
  /\ \/ BarrierIds(e) \cap job # {}
     \/ e \in Lab /\ outcome[e].upto = 2 /\ dispatch[e] # "none"
  /\ \A j \in BarrierIds(e) : ~Locked(j)
  /\ job' = JobsLeft(e)
  /\ dispatch' = IF e \in Lab /\ outcome[e].upto = 2
                 THEN [dispatch EXCEPT ![e] = "none"] ELSE dispatch
  /\ UNCHANGED <<context, result, linked, bundle, paired, ssm, table, barrier, worker, agent, scenario>>

-----------------------------------------------------------------------------

Step(w) ==
  \/ PublishJob(w) \/ ReadResult(w) \/ Dispatch(w) \/ UnlinkIntent(w) \/ Send(w)
  \/ Record(w) \/ Wait(w) \/ GiveUpDispatch(w) \/ Settle(w)

Next ==
  \/ \E w \in Worker : Step(w) \/ CrashWorker(w) \/ \E e \in Execution : Begin(w, e)
  \/ \E e \in Execution : LeaseExpires(e)
  \/ \E e \in Lab : CommandEnds(e)
  \/ AgentStep \/ CrashAgent
  \/ \E e \in Execution : Bar(e) \/ AgentReclaims(e) \/ ControllerReclaims(e)

Spec == Init /\ [][Next]_vars

(***************************************************************************)
(* Both processes run forever under systemd and every lease ends.  An open *)
(* execution is claimed again and again: one that was put back is not      *)
(* available for a while, so others have their turn.  The controller       *)
(* finishes what the agent acknowledged.  Commands end, as SSM times them  *)
(* out.  Nothing is assumed of the answers: the attempts limit ends what   *)
(* keeps failing.  The agent's loop leaves process_one out while retention *)
(* is not idle; WF(AgentStep) takes for granted that it becomes idle, as   *)
(* module Retention shows of the worker's loop in the absence of a chain   *)
(* that cannot be reclaimed.                                               *)
(***************************************************************************)
Fairness ==
  /\ \A w \in Worker : WF_vars(Step(w))
  /\ \A e \in Execution : SF_vars(\E w \in Worker : Begin(w, e))
  /\ \A e \in Execution : WF_vars(owner[e] # None /\ Gone(owner[e], e) /\ LeaseExpires(e))
  /\ \A e \in Lab : WF_vars(CommandEnds(e))
  /\ WF_vars(AgentStep)
  /\ \A e \in Execution : WF_vars(ControllerReclaims(e))

FairSpec == Spec /\ Fairness

-----------------------------------------------------------------------------
(* Properties.                                                             *)

\* The intent is published before SendCommand and never sent upon again: not by
\* a worker that takes over, not after a crash, a lost response or a removal of
\* the record (_dispatch_or_resume, "classify the attempt as dispatch_unknown
\* instead of retrying blind").
SentOnce == \A e \in Lab : sent[e] <= 1

\* Success is earned: the command of a lab execution was sent and succeeded, the
\* bundle of a central one is there, and every job of the chain, the report and the
\* reviewer's verdict included, was answered with success; retention may have taken
\* the answer away since (step, _execute, _result, _central_result,
\* _wrap_central_result).
SuccessIsEarned ==
  \A e \in Execution : outcome[e].status = "succeeded" =>
    /\ IF e \in Lab THEN sent[e] = 1 /\ command[e] = "ok" ELSE e \in bundle
    /\ \A j \in Chain(e, Length(e)) : result[j] = "ok" \/ j \in abarred

\* A result, once it has its name, is what every later step decides upon: it is
\* not replaced, and it goes only with an execution that was settled, not in a
\* recovery (_publish_result, _recover_result_temporaries).
ResultStands ==
  [][\A j \in Job : result[j] # "none" =>
       \/ result'[j] = result[j]
       \/ result'[j] = "none" /\ outcome[j[1]] # Open]_vars

\* What retention took away does not come back: a worker whose lease was lost
\* in the middle of step publishes no job, sends no command and the agent runs
\* no job again (controller_job_barred and agent_job_barred under the locks).
ReclaimedStaysGone ==
  [][/\ \A j \in barred : j \notin job => j \notin job'
     /\ \A e \in Lab : Report(e) \in barred => sent'[e] = sent[e]
     /\ \A j \in abarred : result[j] = "none" => result'[j] = "none"]_vars

\* Every execution ends, recorded with a provenance or out of attempts, whatever
\* dies or is lost: no poll of step waits for something that will not come.  That
\* an execution ends out of attempts for no fault of its own is not excluded.
EveryExecutionEnds ==
  \A e \in Execution : [](e \in scenario.approved => <>(outcome[e] # Open))

\* Every published job is answered, or goes with its execution, although one
\* agent serves all and stops at the first job it may not run (process_one).
EveryJobAnswered == \A j \in Job : j \in job ~> (j \notin job \/ result[j] # "none")
=============================================================================

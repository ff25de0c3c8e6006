------------------------------ MODULE Retention ------------------------------
(***************************************************************************)
(* Retention: how the directories of finished work are given back.         *)
(*                                                                         *)
(* The controller (retention_runtime.ControllerRetentionCoordinator, run   *)
(* by the worker's loop) and the agent (AgentRetentionCoordinator, run by  *)
(* the agent's loop) are two accounts that cannot write each other's       *)
(* directories.  They agree through small immutable files                  *)
(* (retention_fs.RetentionFilesystem): the controller publishes its        *)
(* barriers and a committed tombstone, the agent publishes its barriers    *)
(* and an intent, removes its workspaces, results or bundle and publishes  *)
(* an acknowledgement, the controller then publishes a deleting marker,    *)
(* removes its jobs and dispatch record and publishes a receipt.  The      *)
(* receipt is at last recorded in SQLite and reread for ever after.        *)
(*                                                                         *)
(* Every file operation is a step, so that the other process sees and a    *)
(* crash leaves each intermediate state of a file: created and empty,      *)
(* staged, hard-linked to its name, alone under its name.  A RuntimeError  *)
(* ends the process; systemd starts it again.                              *)
(*                                                                         *)
(* Not modelled: owners, modes and symbolic links, which nobody but the    *)
(* two processes changes; the content of jobs and results beyond their     *)
(* being there; a crash of the host (what fsync is for).                   *)
(***************************************************************************)
EXTENDS Integers, Sequences, FiniteSets, Functions

CONSTANTS
  Order,         \* the tombstones, in the order of the planner
  Chain,         \* the execution each tombstone is about
  Unfinished,    \* jobs whose result says that they failed
  NoWorkspace,   \* those that failed before they had a workspace
  EvidenceTTL,   \* how long a bundle is kept after delivery
  Soft,          \* the number of files at which an owner's ledger closes
  MaxClock,      \* bound: the last second
  CrashSites,    \* where a process may die
  SoloSites,     \* where it may die if no other tombstone is under way
  MaxCrashes,    \* bound: how often
  None

Tombstone == Range(Order)
JobsOf(t) == Range(Chain[t].jobs)
Job       == UNION {JobsOf(t) : t \in Tombstone}
Barred(t) == Range(Chain[t].barriers)
Barrier   == UNION {Barred(t) : t \in Tombstone}
Scratch(t) == Chain[t].phase = "scratch"
EventOf(t) == Chain[t].event
\* The executions whose bundle is kept until it was delivered and aged.
Delivery == {EventOf(t) : t \in {u \in Tombstone : ~Scratch(u)}}

\* The tombstone that a barrier is about.
Holder == [j \in Barrier |-> CHOOSE t \in Tombstone : j \in Barred(t)]

\* _validate_record and _prepared_from_fields.
ValidRecord(t) ==
  /\ Chain[t].family \in {"central", "lab"}
  /\ Chain[t].phase \in {"scratch", "evidence"}
  /\ Chain[t].jobs \in Seq(JobsOf(t)) /\ Chain[t].barriers \in Seq(Barred(t))
  /\ Scratch(t) <=> Chain[t].jobs # << >>
  /\ JobsOf(t) \subseteq Barred(t)
  /\ Chain[t].eligible \in 0..MaxClock
  /\ {Chain[t].dispatch, Chain[t].bundle} \subseteq BOOLEAN

\* Its place in the planner's order.
Rank(t) == CHOOSE i \in DOMAIN Order : Order[i] = t

\* An execution has one record, hence at most one tombstone of each phase; both
\* wait for scratch_eligible_at, and plan_retention plans the scratch first.
OneRecord(t, u) ==
  EventOf(t) = EventOf(u) =>
    /\ Scratch(t) = Scratch(u) => t = u
    /\ Chain[t].eligible = Chain[u].eligible
    /\ Scratch(t) /\ ~Scratch(u) => Rank(t) < Rank(u)

ASSUME RetentionAssumption ==
  /\ Order \in Seq(Tombstone)
  /\ \A t \in Tombstone : ValidRecord(t)
  /\ \A t, u \in Tombstone : OneRecord(t, u)
  /\ \A t, u \in Tombstone : t # u => Barred(t) \cap Barred(u) = {}
  /\ NoWorkspace \subseteq Unfinished /\ Unfinished \subseteq Job
  /\ {EvidenceTTL, MaxClock, MaxCrashes} \subseteq Nat
  /\ None \notin Tombstone

VARIABLES
  file,       \* the metadata files
  target,     \* what there is to reclaim
  at,         \* the point each process has reached in its cycle
  todo,       \* the file operations it has still to do before the next point
  recorded,   \* the retention_completions table: when, or -1
  cursor,     \* the reconciliation cursor
  skipOnce,   \* _skip_reconciliation_once
  idle,       \* the controller's last cycle returned "idle"
  delivered,  \* execution_outbox.delivered_at, or -1
  clock,
  crashes     \* history: crashes so far

sqlite == <<recorded, cursor>>
vars   == <<file, target, at, todo, sqlite, skipOnce, idle, delivered, clock, crashes>>

Process == {"controller", "agent"}
Time    == 0..MaxClock

\* The metadata files, by directory.
FileName ==
       ({"prepared", "committed", "intent", "ack", "deleting", "completed"} \X Tombstone)
  \cup ({"cbarrier", "abarrier"} \X Barrier)

\* A workspace is renamed into the trash and removed entry by entry, a job
\* directory is removed where it stands, the rest is unlinked.
AgentSide(t) ==
  IF Scratch(t) THEN {"workspace", "result"} \X JobsOf(t)
                ELSE {<<"bundle", Chain[t].event>>}
ControllerSide(t) ==
  ({"job"} \X JobsOf(t)) \cup (IF Chain[t].dispatch THEN {<<"dispatch", t>>} ELSE {})
TargetName == UNION {AgentSide(t) \cup ControllerSide(t) : t \in Tombstone}

\* value: the times that a record carries; its tombstone follows from its name.
FileState == [st: {"none", "torn", "staged", "linked", "final"}, value: Seq(Time)]
Absent    == [st |-> "none", value |-> << >>]
Steps     == {"rest", "scanned", "consume", "remove"}

TypeOK ==
  /\ file \in [FileName -> FileState]
  /\ \A n \in FileName : file[n].st = "none" => file[n] = Absent
  /\ target \in [TargetName -> {"whole", "moved", "partial", "gone"}]
  /\ \A n \in TargetName : target[n] = "moved" => n[1] = "workspace"
  /\ \A n \in TargetName : target[n] = "partial" => n[1] \in {"workspace", "job"}
  /\ at \in [Process -> [step: Steps, t: Tombstone \cup {None}, now: Time]]
  /\ \A p \in Process : todo[p] # << >> => at[p].step \in {"rest", "consume", "remove"}
  /\ recorded \in [Tombstone -> Time \cup {-1}]
  /\ cursor \in (Time \X (1..Len(Order))) \cup {<<-1, 0>>}
  /\ {skipOnce, idle} \subseteq BOOLEAN
  /\ delivered \in [Delivery -> Time \cup {-1}]
  /\ clock \in Time
  /\ crashes \in 0..MaxCrashes

AtRest == [step |-> "rest", t |-> None, now |-> 0]
Start  == <<-1, 0>>

Init ==
  /\ file = [n \in FileName |-> Absent]
  /\ target = [n \in TargetName |->
                 IF n \in {"workspace"} \X NoWorkspace THEN "gone" ELSE "whole"]
  /\ at = [p \in Process |-> AtRest]
  /\ todo = [p \in Process |-> << >>]
  /\ recorded = [t \in Tombstone |-> -1]
  /\ cursor = Start
  /\ skipOnce = FALSE
  /\ idle = FALSE
  /\ delivered = [e \in Delivery |-> -1]
  /\ clock = 0
  /\ crashes = 0

-----------------------------------------------------------------------------
(* Metadata files.                                                         *)

\* The name exists: what a test for existence sees.
Exists(n) == file[n].st \in {"linked", "final"}

\* It is read: a second link to the inode is refused.
Readable(n) == file[n].st = "final"

CommittedAt(t) == file[<<"committed", t>>].value

\* What each owner's quota covers.
Ledger ==
  [controller |-> {"prepared", "completed", "deleting"} \X Tombstone,
   shared     |-> ({"committed"} \X Tombstone) \cup ({"cbarrier"} \X Barrier),
   agent      |-> ({"intent"} \X Tombstone) \cup ({"abarrier"} \X Barrier),
   acks       |-> {"ack"} \X Tombstone]

\* _validate_metadata_ledger with _committed_job_ids: a barrier is named
\* after one of the jobs of the tombstone it holds.
Misnamed(n) == n[1] \in {"cbarrier", "abarrier"} /\ n[2] \notin JobsOf(Holder[n[2]])

\* _validate_quota_ledger and measure_tree_no_follow: an empty stage cannot
\* be decoded, the meter takes no file with two links, and the deleting
\* directory holds no stages.
Unsafe(f, owner) ==
  \E n \in Ledger[owner] :
    \/ f[n].st \in {"torn", "linked"}
    \/ f[n].st = "staged" /\ n[1] = "deleting"
    \/ f[n].st # "none" /\ Misnamed(n)

Full(owner) == Cardinality({n \in Ledger[owner] : file[n].st # "none"}) >= Soft[owner]

\* File operations still to do.
Admit(owner, names, value) ==
  [op |-> "admit", owner |-> owner, names |-> names, value |-> value]
Publish(name, value) == [op |-> "publish", name |-> name, value |-> value]
Erase(name) == [op |-> "erase", name |-> name]

Each(Op(_), seq) == [i \in 1..Len(seq) |-> Op(seq[i])]

\* A RuntimeError: the process ends and is started again.
Refuse(p) ==
  /\ at' = [at EXCEPT ![p] = AtRest]
  /\ todo' = [todo EXCEPT ![p] = << >>]
  /\ skipOnce' = (skipOnce /\ p # "controller")
  /\ idle' = (idle /\ p # "controller")

Do(p, o) == todo[p] # << >> /\ Head(todo[p]).op = o
Done(p)  == todo' = [todo EXCEPT ![p] = Tail(@)]

\* _metadata_capacity: complete the publications of the group that were
\* linked, check the ledger, then the group.  Only the owner may unlink.
Admitting(p) ==
  /\ Do(p, "admit")
  /\ LET o == Head(todo[p])
         linked == {n \in o.names : file[n].st = "linked" /\ file[n].value = o.value}
         mine == o.owner \in {"agent", "acks"} <=> p = "agent"
         f == [n \in FileName |-> IF n \in linked THEN [file[n] EXCEPT !.st = "final"]
                                                  ELSE file[n]]
     IN IF linked # {} /\ ~mine
        THEN Refuse(p) /\ UNCHANGED file
        ELSE /\ file' = f
             /\ IF \/ Unsafe(f, o.owner)
                   \/ \E n \in o.names : f[n].st = "final" /\ f[n].value # o.value
                THEN Refuse(p)
                ELSE Done(p) /\ UNCHANGED <<at, skipOnce, idle>>
  /\ UNCHANGED <<target, sqlite, delivered, clock, crashes>>

\* _publish_immutable: create, write, link, unlink the stage.  A stage of
\* another record, or of another value of this one, is refused.
Publishing(p) ==
  /\ Do(p, "publish")
  /\ LET o == Head(todo[p])
         n == o.name
         Put(st) == file' = [file EXCEPT ![n] = [st |-> st, value |-> o.value]]
         stages == {m \in FileName : /\ m[1] = n[1]
                                     /\ file[m].st \in {"torn", "staged", "linked"}}
     IN \/ /\ stages \subseteq {n}
           /\ file[n].st = "none" \/ file[n].value = o.value
           /\ \/ file[n].st = "none" /\ Put("torn")
              \/ file[n].st = "torn" /\ Put("staged")
              \/ file[n].st = "staged" /\ Put("linked")
              \/ file[n].st = "linked" /\ Put("final")
              \/ file[n].st = "final" /\ UNCHANGED file
           /\ IF file[n].st \in {"linked", "final"} THEN Done(p) ELSE UNCHANGED todo
           /\ UNCHANGED <<at, skipOnce, idle>>
        \/ /\ ~(stages \subseteq {n}) \/ (file[n].st # "none" /\ file[n].value # o.value)
           /\ Refuse(p) /\ UNCHANGED file
  /\ UNCHANGED <<target, sqlite, delivered, clock, crashes>>

\* Defect: job directories go through a trash as well.
AfterRemoval_AllMoved(n) ==
  CASE n[1] \in {"workspace", "job"} /\ target[n] = "whole" -> "moved"
    [] n[1] \in {"workspace", "job"} /\ target[n] = "moved" -> "partial"
    [] OTHER -> "gone"

\* _remove_workspace, _remove_tree, _unlink_regular.
AfterRemoval(n) ==
  CASE n[1] = "workspace" /\ target[n] = "whole" -> "moved"
    [] n[1] = "workspace" /\ target[n] = "moved" -> "partial"
    [] n[1] = "job" /\ target[n] = "whole"       -> "partial"
    [] OTHER -> "gone"

Removing(p) ==
  /\ Do(p, "erase")
  /\ LET n == Head(todo[p]).name
     IN IF n \in FileName
        THEN file' = [file EXCEPT ![n] = Absent] /\ Done(p) /\ UNCHANGED target
        ELSE /\ target' = [target EXCEPT ![n] = AfterRemoval(n)]
             /\ IF AfterRemoval(n) = "gone" THEN Done(p) ELSE UNCHANGED todo
             /\ UNCHANGED file
  /\ UNCHANGED <<at, sqlite, skipOnce, idle, delivered, clock, crashes>>

FileStep(p) == Admitting(p) \/ Publishing(p) \/ Removing(p)

-----------------------------------------------------------------------------
(* The controller's cycle.                                                 *)

Point(p, step) == todo[p] = << >> /\ at[p].step = step

\* Go on at this point once these operations are done.
Goto(p, step, t, ops) ==
  /\ at' = [at EXCEPT ![p] = [step |-> step, t |-> t,
                              now |-> IF at[p].step = "rest" THEN clock ELSE at[p].now]]
  /\ todo' = [todo EXCEPT ![p] = ops]

Return(ops) ==
  /\ at' = [at EXCEPT !["controller"] = AtRest]
  /\ todo' = [todo EXCEPT !["controller"] = ops]
  /\ idle' = FALSE

Files == <<file, target, delivered, clock, crashes>>

\* retention_reconciliation_page: the rows after the cursor.
Key(t) == <<recorded[t], Rank(t)>>
Before(k, l) == k[1] < l[1] \/ (k[1] = l[1] /\ k[2] < l[2])
Page == {t \in Tombstone : recorded[t] # -1 /\ Before(cursor, Key(t))}

\* Every recorded receipt is read again, a page at a time (a page holds them all).
Reconcile ==
  /\ Point("controller", "rest") /\ ~skipOnce
  /\ Page # {}
  /\ IF \A t \in Page : Readable(<<"completed", t>>)
     THEN /\ \E t \in Page : /\ cursor' = Key(t)
                             /\ \A u \in Page \ {t} : Before(Key(u), Key(t))
          /\ Return(<< >>) /\ UNCHANGED skipOnce
     ELSE Refuse("controller") /\ UNCHANGED cursor
  /\ UNCHANGED <<Files, recorded>>

\* Defect: the next cycle starts the sweep again.
Wrap_NoSkip ==
  /\ Point("controller", "rest") /\ ~skipOnce
  /\ Page = {} /\ cursor # Start
  /\ cursor' = Start
  /\ Return(<< >>)
  /\ UNCHANGED <<Files, recorded, skipOnce>>

Wrap ==
  /\ Point("controller", "rest") /\ ~skipOnce
  /\ Page = {} /\ cursor # Start
  /\ cursor' = Start
  /\ skipOnce' = TRUE
  /\ Return(<< >>)
  /\ UNCHANGED <<Files, recorded>>

\* _scan_metadata_directory: an empty stage cannot be decoded.
Scannable == \A t \in Tombstone : file[<<"committed", t>>].st # "torn"

Committed == {t \in Tombstone : Exists(<<"committed", t>>)}
Acked     == {t \in Committed : Exists(<<"ack", t>>)}
Unread    == {t \in Acked : ~Readable(<<"ack", t>>)}

\* actionable_acks: a receipt that cannot be read is still to be recovered.
Actionable == {t \in Acked \ Unread : ~Readable(<<"completed", t>>)}

Recover(t) == <<Admit("shared", {<<"committed", t>>}, CommittedAt(t))>>

\* The names are in the order of their digests: any may be first.
ScanAcks ==
  /\ Point("controller", "rest")
  /\ skipOnce \/ (Page = {} /\ cursor = Start)
  /\ skipOnce' = FALSE
  /\ IF ~Scannable \/ Unread # {}
     THEN Refuse("controller")
     ELSE /\ UNCHANGED idle
          /\ \/ \E t \in Actionable : Goto("controller", "consume", t, Recover(t))
             \/ Actionable = {} /\ Goto("controller", "scanned", None, << >>)
  /\ UNCHANGED <<Files, sqlite>>

\* _controller_jobs_for_deletion and _controller_dispatch_for_deletion: each
\* job that is there is whole; only a marker explains one that is not.
Deletable(t) ==
  LET marked == Exists(<<"deleting", t>>) IN
  /\ marked => Readable(<<"deleting", t>>)
  /\ \A n \in ControllerSide(t) :
       /\ target[n] # "partial"
       /\ target[n] = "gone" => marked

Names(kind, ids) == Each(LAMBDA j : <<kind, j>>, ids)

\* controller_consume_ack: marker, jobs, dispatch, receipt, and then the
\* metadata; the acknowledgement is the agent's and stays.
ReclaimOps(t) ==
  LET ack == file[<<"ack", t>>].value
      mark == IF Scratch(t) /\ ~Exists(<<"deleting", t>>) THEN <<<<"deleting", t>>>> ELSE << >>
      dispatch == IF Chain[t].dispatch THEN <<<<"dispatch", t>>>> ELSE << >>
  IN <<Admit("controller", Range(mark) \cup {<<"completed", t>>}, ack)>>
     \o Each(LAMBDA n : Publish(n, ack), mark)
     \o Each(Erase, Names("job", Chain[t].jobs) \o dispatch)
     \o <<Publish(<<"completed", t>>, ack)>>
     \o Each(Erase, <<<<"prepared", t>>, <<"committed", t>>, <<"deleting", t>>>>)

\* A receipt that was linked when the process died is completed, and the
\* metadata removed.
FinishOps(t) ==
  LET receipt == <<"completed", t>> IN
  <<Admit("controller", {receipt}, file[receipt].value)>>
  \o Each(Erase, <<<<"prepared", t>>, <<"committed", t>>, <<"deleting", t>>>>)

ConsumeAck ==
  /\ Point("controller", "consume")
  /\ LET t == at["controller"].t IN
     IF Exists(<<"completed", t>>) THEN Return(FinishOps(t)) /\ UNCHANGED skipOnce
     ELSE IF Scratch(t) /\ ~Deletable(t) THEN Refuse("controller")
     ELSE Return(ReclaimOps(t)) /\ UNCHANGED skipOnce
  /\ UNCHANGED <<Files, sqlite>>

\* actionable_committed: the agent has still to answer.  The directory of
\* acknowledgements is read again, after ScanAcks.
AwaitAck ==
  /\ Point("controller", "scanned")
  /\ \E t \in Committed \ Acked : Return(Recover(t))
  /\ UNCHANGED <<Files, sqlite, skipOnce>>

RecordedPhase(e, phase) ==
  \E t \in Tombstone : EventOf(t) = e /\ Chain[t].phase = phase /\ recorded[t] # -1

\* The report was delivered, and long enough ago.
Aged(t, now) ==
  /\ Chain[t].bundle
  /\ delivered[EventOf(t)] # -1
  /\ delivered[EventOf(t)] + EvidenceTTL <= now

\* retention_records and plan_retention.
Eligible(t, now) ==
  /\ now >= Chain[t].eligible
  /\ ~RecordedPhase(EventOf(t), "evidence")
  /\ RecordedPhase(EventOf(t), "scratch") => Aged(t, now)
  /\ Scratch(t) \/ Aged(t, now)

\* Defect: the newest execution first.
Precedes_NewestFirst(t, u) == Rank(u) <= Rank(t)

Precedes(t, u) == Rank(t) <= Rank(u)

Plans == {t \in Tombstone : Eligible(t, at["controller"].now)}
Receipted == {t \in Plans : Readable(<<"completed", t>>)}
Unplanned == Plans \ Receipted

Planning ==
  /\ Point("controller", "scanned")
  /\ Committed \subseteq Acked

\* record_retention_completions, if it inserts a row.
Record ==
  /\ Planning /\ Unread = {}
  /\ \E t \in Receipted : recorded[t] = -1
  /\ recorded' = [t \in Tombstone |->
                    IF t \in Receipted /\ recorded[t] = -1 THEN at["controller"].now
                                                           ELSE recorded[t]]
  /\ Return(<< >>)
  /\ UNCHANGED <<Files, cursor, skipOnce>>

Nothing ==
  /\ Planning /\ Unread = {}
  /\ \A t \in Receipted : recorded[t] # -1
  /\ Unplanned = {}
  /\ at' = [at EXCEPT !["controller"] = AtRest]
  /\ idle' = TRUE
  /\ UNCHANGED <<Files, sqlite, todo, skipOnce>>

\* prepare and commit: barriers before the tombstone.
CommitOps(t, now) ==
  LET prepared == <<"prepared", t>>
      shared == Append(Names("cbarrier", Chain[t].barriers), <<"committed", t>>)
  IN <<Admit("controller", {prepared}, << >>), Publish(prepared, << >>),
       Admit("shared", Range(shared), <<now>>)>>
     \o Each(LAMBDA n : Publish(n, <<now>>), shared)

\* _admit_new_chain, unless the preparation was begun before.
Fresh(t)  == file[<<"prepared", t>>].st = "none"
Closed(t) == Fresh(t) /\ (Full("controller") \/ Full("shared"))

Commit ==
  /\ Planning /\ Unread = {}
  /\ \A t \in Receipted : recorded[t] # -1
  /\ \E t \in Unplanned :
       /\ \A u \in Unplanned : Precedes(t, u)
       /\ IF Fresh(t) /\ (Unsafe(file, "controller") \/ Unsafe(file, "shared"))
          THEN Refuse("controller")
          ELSE /\ Return(IF Closed(t) THEN << >> ELSE CommitOps(t, at["controller"].now))
               /\ UNCHANGED skipOnce
  /\ UNCHANGED <<Files, sqlite>>

\* An acknowledgement published since ScanAcks has still its stage.
Surprised ==
  /\ Planning /\ Unread # {}
  /\ Refuse("controller")
  /\ UNCHANGED <<Files, sqlite>>

Controller ==
  \/ Reconcile \/ Wrap \/ ScanAcks \/ ConsumeAck
  \/ AwaitAck \/ Record \/ Nothing \/ Commit \/ Surprised
  \/ FileStep("controller")

-----------------------------------------------------------------------------
(* The agent's cycle.                                                      *)

AgentOnly == <<Files, sqlite, skipOnce, idle>>

FindCommitted ==
  /\ Point("agent", "rest")
  /\ IF ~Scannable \/ Unread # {}
     THEN Refuse("agent") /\ UNCHANGED <<Files, sqlite>>
     ELSE /\ \E t \in Committed \ Acked : Goto("agent", "consume", t, Recover(t))
          /\ UNCHANGED AgentOnly

Left(kind, j) == target[<<kind, j>>]
InTrash(j)    == Left("workspace", j) \in {"moved", "partial"}
Succeeded(j)  == Left("result", j) = "whole" /\ j \notin Unfinished

\* _read_central_job_tree, _read_lab_job_tree and _read_lab_dispatch.
ReadJobs(t) == \A n \in ControllerSide(t) : target[n] = "whole"

\* What the first attempt must find; only the intent explains its absence.
Complete(t) == \A j \in JobsOf(t) : Left("result", j) = "whole" /\ ~InTrash(j)

\* _preflight_scratch: a workspace is never left without its result, and the
\* bundle of an executor that succeeded is still there.
CentralSound(t, retry) ==
  \A j \in JobsOf(t) :
    /\ retry \/ Left("workspace", j) = "whole"
    /\ Left("workspace", j) = "whole" => Left("result", j) = "whole"
    /\ Chain[t].bundle /\ Succeeded(j) => target[<<"bundle", EventOf(t)>>] = "whole"

\* _preflight_lab_scratch with _validate_lab_workspace: a job that succeeded
\* has all of its workspace, in the trash too.
LabSound(t, retry) ==
  \A j \in JobsOf(t) : Succeeded(j) =>
    /\ Left("workspace", j) # "partial"
    /\ retry \/ Left("workspace", j) = "whole"

\* _preflight_evidence.
EvidenceSound(t, retry) == retry \/ target[<<"bundle", EventOf(t)>>] = "whole"

\* Defect: what is missing is never explained by the intent.
Preflight_NoRetry(t, retry) ==
  IF Scratch(t) THEN ReadJobs(t) /\ Complete(t) ELSE EvidenceSound(t, FALSE)

\* Every target is there and is what the tombstone says; nothing of another
\* chain is in the trash.
Preflight(t, retry) ==
  IF ~Scratch(t) THEN EvidenceSound(t, retry)
  ELSE /\ \A j \in Job \ JobsOf(t) : ~InTrash(j)
       /\ ReadJobs(t)
       /\ retry \/ Complete(t)
       /\ IF Chain[t].family = "central" THEN CentralSound(t, retry) ELSE LabSound(t, retry)

\* Defect: the agent's own barriers are forgotten.
Announced_IntentOnly(t) == <<<<"intent", t>>>>

\* What the agent publishes before it removes anything.
Announced(t) == Append(Names("abarrier", Chain[t].barriers), <<"intent", t>>)

\* agent_consume, up to the durable intent.
AnnounceRemoval ==
  /\ Point("agent", "consume")
  /\ LET t == at["agent"].t
         intent == <<"intent", t>>
         retry == Exists(intent)
         value == CommittedAt(t)
         sound ==
           /\ Readable(<<"committed", t>>)
           /\ \A j \in Barred(t) : file[<<"cbarrier", j>>] = [st |-> "final", value |-> value]
           /\ retry => file[intent] = [st |-> "final", value |-> value]
           /\ ~retry => \A o \in {"agent", "acks"} : ~Unsafe(file, o) /\ ~Full(o)
           /\ Preflight(t, retry)
     IN IF sound
        THEN /\ Goto("agent", "remove", t,
                     <<Admit("agent", Range(Announced(t)), value)>>
                     \o Each(LAMBDA n : Publish(n, value), Announced(t)))
             /\ UNCHANGED AgentOnly
        ELSE Refuse("agent") /\ UNCHANGED <<Files, sqlite>>

\* Defect: the acknowledgement is published before the removal.
RemovalOps_AckFirst(t, now) ==
  LET ack == <<"ack", t>>
      value == CommittedAt(t) \o <<now>>
      targets == IF Scratch(t)
                 THEN Names("workspace", Chain[t].jobs) \o Names("result", Chain[t].jobs)
                 ELSE <<<<"bundle", EventOf(t)>>>>
  IN <<Admit("acks", {ack}, value), Publish(ack, value)>> \o Each(Erase, targets)

\* agent_consume, the rest: workspaces, results or bundle, acknowledgement.
RemovalOps(t, now) ==
  LET ack == <<"ack", t>>
      value == CommittedAt(t) \o <<now>>
      targets == IF Scratch(t)
                 THEN Names("workspace", Chain[t].jobs) \o Names("result", Chain[t].jobs)
                 ELSE <<<<"bundle", EventOf(t)>>>>
  IN Each(Erase, targets) \o <<Admit("acks", {ack}, value), Publish(ack, value)>>

RemoveTargets ==
  /\ Point("agent", "remove")
  /\ at' = [at EXCEPT !["agent"] = AtRest]
  /\ todo' = [todo EXCEPT !["agent"] = RemovalOps(at["agent"].t, at["agent"].now)]
  /\ UNCHANGED AgentOnly

Agent == FindCommitted \/ AnnounceRemoval \/ RemoveTargets \/ FileStep("agent")

-----------------------------------------------------------------------------
(* The rest of the world.                                                  *)

\* mark_execution_notification_delivered.
Deliver(e) ==
  /\ delivered[e] = -1
  /\ delivered' = [delivered EXCEPT ![e] = clock]
  /\ UNCHANGED <<file, target, at, todo, sqlite, skipOnce, idle, clock, crashes>>

Tick ==
  /\ clock < MaxClock
  /\ clock' = clock + 1
  /\ UNCHANGED <<file, target, at, todo, sqlite, skipOnce, idle, delivered, crashes>>

\* What a process that dies now is about to do.
Site(p) ==
  IF todo[p] = << >> THEN <<"point", at[p].step>>
  ELSE LET o == Head(todo[p]) IN
       CASE o.op = "admit" -> <<"admit", o.owner>>
         [] o.name \in TargetName -> <<o.name[1], target[o.name]>>
         [] o.op = "erase" -> <<"erase", o.name[1]>>
         [] o.op = "publish" -> <<o.name[1], file[o.name].st>>

UnderWay == {t \in Tombstone : /\ file[<<"prepared", t>>].st # "none"
                               /\ ~Readable(<<"completed", t>>)}

Crash(p) ==
  /\ crashes < MaxCrashes
  /\ \/ Site(p) \in CrashSites
     \/ Site(p) \in SoloSites /\ Cardinality(UnderWay) = 1
  /\ crashes' = crashes + 1
  /\ Refuse(p)
  /\ UNCHANGED <<file, target, sqlite, delivered, clock>>

Next ==
  \/ Controller
  \/ Agent
  \/ \E e \in Delivery : Deliver(e)
  \/ Tick
  \/ \E p \in Process : Crash(p)

Spec == Init /\ [][Next]_vars

\* Both services are restarted for as long as they are installed, time goes
\* on, and crashes come to an end.
FairSpec == Spec /\ WF_vars(Controller) /\ WF_vars(Agent) /\ WF_vars(Tick)

-----------------------------------------------------------------------------
(* What the two processes achieve together.                                *)

Touched(t) ==
  \E n \in AgentSide(t) \cup ControllerSide(t) :
    target[n] # "whole" /\ n \notin {"workspace"} \X NoWorkspace

\* Nothing of a finished execution is touched before its jobs are barred on
\* both sides and the intent is durable: the two sets of barriers, written by
\* different accounts in different cycles, are what keeps the brokers from
\* publishing or running the jobs again (controller_job_barred,
\* agent_job_barred).
BarredBeforeRemoval ==
  \A t \in Tombstone :
    Touched(t) =>
      /\ Readable(<<"intent", t>>)
      /\ \A j \in Barred(t) : Readable(<<"cbarrier", j>>) /\ Readable(<<"abarrier", j>>)

\* The bundle of a delivered report goes last: a scratch chain that is half
\* removed can only be validated against it (_preflight_scratch reads the
\* bundle of every executor result that is left).  The planner, the discovery
\* and two clocks decide this order together.
EvidenceAfterScratch ==
  \A t, u \in Tombstone :
    Scratch(t) /\ ~Scratch(u) /\ EventOf(t) = EventOf(u) /\ Touched(u)
      => \A n \in AgentSide(t) : target[n] = "gone"

\* How far a tombstone is, as the names of its files say, and what is left.
StageOf(t) ==
  IF Exists(<<"completed", t>>) THEN "reclaimed"
  ELSE IF Exists(<<"ack", t>>) THEN "acknowledged"
  ELSE IF Exists(<<"committed", t>>) THEN "committed"
  ELSE "kept"
Remaining == {n \in TargetName : target[n] # "gone"}

Reclaimed == INSTANCE Reclamation WITH
  AgentTargets      <- [t \in Tombstone |-> AgentSide(t)],
  ControllerTargets <- [t \in Tombstone |-> ControllerSide(t)],
  stage <- [t \in Tombstone |-> StageOf(t)],
  left  <- Remaining

\* The files and the crashes between them implement the order of Reclamation.
Reclaims == Reclaimed!Spec

\* Every finished execution is given back and its receipt recorded, and a
\* delivered bundle too: a crash at one of the named sites, a restart or a meeting
\* of the two processes over one file delays this and does not prevent it
\* ("Crash-safe, owner-split filesystem retention protocol").
EveryChainReclaimed ==
  \A t \in Tombstone :
    (Scratch(t) \/ delivered[EventOf(t)] \in 0..(MaxClock - EvidenceTTL)) ~> (recorded[t] # -1)

\* The worker takes up approved work only after a cycle that returned "idle":
\* retention, whose reconciliation sweeps the receipts for ever, leaves such
\* cycles again and again.
WorkGoesOn == []<>idle
=============================================================================

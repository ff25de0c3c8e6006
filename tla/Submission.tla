----------------------------- MODULE Submission -----------------------------
(***************************************************************************)
(* A finished report on its way to the user and to Moodle: the execution_  *)
(* and submission_outbox and submissions tables (ApprovalState in          *)
(* approval_state.py), the worker's notification pass and its saga over    *)
(* them (_deliver_pending_notification, _process_submission in worker.py), *)
(* the messages (completion.py) and the Moodle calls (submission.py).      *)
(*                                                                         *)
(* A pass sends the oldest report, offers its submission with buttons and  *)
(* marks it delivered, then tells the oldest result.  A RuntimeError ends  *)
(* the pass and leaves everything to the next one.                         *)
(*                                                                         *)
(* After the user's own decision the worker uploads the report, records    *)
(* the draft item, saves it as the assignment's submission and, where the  *)
(* assignment keeps drafts, records 'finalizing' and submits it for        *)
(* grading.  A save or a finalization cannot be undone and its response    *)
(* may never arrive, the worker may die and be replaced at any point, and  *)
(* meanwhile the teacher and the student use the same assignment.          *)
(*                                                                         *)
(* Time is untimed: a lease expires at any moment.                         *)
(***************************************************************************)
EXTENDS Naturals, FiniteSets, Sequences

CONSTANTS
  Assignment,   \* Moodle assignments
  MaxRevision,  \* bound: how many revisions an assignment goes through
  Worker,       \* worker processes: the running one, and any started meanwhile
  Scenario,     \* bound: the situations considered, see Scenarios
  NoFile,       \* no submission file
  StudentFile,  \* any file that is not one of our reports
  NoEvent

Event == Assignment \X (1..MaxRevision)

\* In a situation the workers in crew run, those in telling also the notification
\* pass; assignments go through revisions 1..last, the events in executed are
\* executed, those in labs in a lab and the others centrally; and the student (or
\* the teacher, on the submission) acts in Moodle meanwhile or does not.
Scenarios ==
  [crew: SUBSET Worker, telling: SUBSET Worker, last: 1..MaxRevision,
   executed: SUBSET Event, labs: SUBSET Event, student: BOOLEAN]

ASSUME SubmissionAssumption ==
  /\ MaxRevision \in Nat \ {0}
  /\ NoFile \notin Event /\ StudentFile \notin Event /\ NoEvent \notin Event
  /\ NoFile # StudentFile
  /\ Scenario \subseteq Scenarios

VARIABLES
  report,    \* the execution_outbox table: how each execution ended
  reports,   \* its rows not marked delivered, oldest first
  results,   \* the submission_outbox rows not marked delivered, oldest first
  row,       \* the submissions table: status, lease holder, unexpired lease
  outcome,   \* the submission_outbox table: the status to tell the user
  moodle,    \* each assignment: its revision and the submission it shows
  requests,  \* save and finalize requests that Moodle may still carry out
  pc,        \* where each worker is
  claim,     \* the event of the notification or SubmissionClaim it holds
  scenario,  \* the situation, one of Scenario
  calls,     \* history: the save and finalize calls made, by event
  held,      \* history: the reports Moodle has held, and as what
  told       \* history: the messages that reached the user

outboxes  == <<report, reports, results>>
tables    == <<row, outcome, outboxes>>
procs     == <<pc, claim>>
histories == <<calls, held>>
vars      == <<tables, moodle, requests, procs, scenario, histories, told>>

Leased   == {"uploading", "saving", "finalizing"}
Settled  == {"declined", "submitted", "failed"}
Statuses == {"absent", "awaiting_approval", "approved"} \cup Leased \cup Settled

\* holder: the worker whose lease token is on the row, as a set of at most
\* one.  A worker has one claim at a time, so its name stands for the token.
NoWorker == {}
Row == [status: Statuses, holder: SUBSET Worker, live: BOOLEAN]

\* drafts: submissions stay drafts until they are finalized.
Page == [revision: 1..MaxRevision, mark: {"none", "draft", "submitted"},
         file: Event \cup {NoFile, StudentFile}, drafts: BOOLEAN]

Kinds    == {"save", "finalize"}
Messages == {"report", "offer", "blocked", "result"}

\* Points of the pass and of the saga.
Telling   == {"report", "offer", "prepare", "ready", "blocked", "mark", "result", "markResult"}
Saga      == {"upload", "record", "assertSave", "save", "verify", "recordFinalizing",
              "reconcile", "verifyDraft", "assertFinalize", "finalize", "confirm",
              "complete", "fail"}
PcValues  == {"idle", "turn", "off"} \cup Telling \cup Saga

TypeOK ==
  /\ report \in [Event -> {"none", "succeeded", "failed"}]
  /\ reports \in Seq(Event) /\ results \in Seq(Event)
  /\ row \in [Event -> Row]
  \* the CHECK constraints of the table
  /\ \A e \in Event : row[e].status \in Leased <=> row[e].holder # NoWorker
  /\ outcome \in [Event -> {"none", "submitted", "failed"}]
  /\ moodle \in [Assignment -> Page]
  /\ \A a \in Assignment : moodle[a].mark = "none" <=> moodle[a].file = NoFile
  /\ requests \subseteq Kinds \X Event
  /\ pc \in [Worker -> PcValues]
  /\ claim \in [Worker -> Event \cup {NoEvent}]
  /\ scenario \in Scenario
  /\ calls \in [Kinds \X Event -> 0..2]
  /\ held \subseteq {"draft", "submitted"} \X Event
  /\ told \subseteq Messages \X Event

Init ==
  /\ report = [e \in Event |-> "none"]
  /\ reports = <<>> /\ results = <<>>
  /\ row = [e \in Event |-> [status |-> "absent", holder |-> NoWorker, live |-> FALSE]]
  /\ outcome = [e \in Event |-> "none"]
  /\ scenario \in Scenario
  /\ pc = [w \in Worker |-> IF w \in scenario.crew THEN "idle" ELSE "off"]
  /\ moodle \in [Assignment -> {p \in Page : p.revision = 1 /\ p.mark = "none" /\ p.file = NoFile}]
  /\ requests = {}
  /\ claim = [w \in Worker |-> NoEvent]
  /\ calls = [c \in Kinds \X Event |-> 0]
  /\ held = {}
  /\ told = {}

-----------------------------------------------------------------------------
(* What Moodle shows.                                                      *)

Drafts == {a \in Assignment : moodle[a].drafts}

Current(e) == moodle[e[1]].revision = e[2]

\* Defect: the status is enough, whichever file was submitted.
Shows_AnyFile(e, mark) == moodle[e[1]].mark = mark

\* _verify_status: the submission has this status and is exactly the report.
Shows(e, mark) == moodle[e[1]].mark = mark /\ moodle[e[1]].file = e

\* The submission of a becomes this file with this status.
Becomes(a, mark, file) ==
  /\ moodle' = [moodle EXCEPT ![a].mark = mark, ![a].file = file]
  /\ held' = held \cup {<<mark, e>> : e \in {file} \cap Event}

-----------------------------------------------------------------------------
(* The notification pass.                                                  *)

At(w, label)   == pc[w] = label
GoTo(w, label) == pc' = [pc EXCEPT ![w] = label] /\ UNCHANGED claim

Take(w, label, e) == pc' = [pc EXCEPT ![w] = label] /\ claim' = [claim EXCEPT ![w] = e]

\* The message reaches the chat.
Tell(kind, e) == told' = told \cup {<<kind, e>>}

Reading == UNCHANGED <<tables, moodle, requests, scenario, histories>>

\* complete_execution or fail_execution leaves a row in the outbox: see
\* ApprovedWork and AgentSpool.
ExecutionEnds(e) ==
  /\ e \in scenario.executed /\ report[e] = "none" /\ Current(e)
  /\ \E ending \in {"succeeded", "failed"} : report' = [report EXCEPT ![e] = ending]
  /\ reports' = Append(reports, e)
  /\ UNCHANGED <<row, outcome, results, moodle, requests, procs, scenario, histories, told>>

\* The pass is over: _process_submission is next.
EndPass(w) == Take(w, "turn", NoEvent)

\* pending_submission_notification
ReadResult(w) == IF results # <<>> THEN Take(w, "result", Head(results)) ELSE EndPass(w)

\* pending_execution_notification, in a cycle that found no work.
StartPass(w) ==
  /\ At(w, "idle")
  /\ IF w \notin scenario.telling THEN EndPass(w)
     ELSE IF reports # <<>> THEN Take(w, "report", Head(reports)) ELSE ReadResult(w)
  /\ Reading /\ UNCHANGED told

\* notify: the report, and of a central success the ZIP after it.  A lab leaves
\* no bundle, and _verified_bundle raises: the pass is over.
SendReport(w) ==
  /\ At(w, "report")
  /\ LET e == claim[w] IN
       /\ Tell("report", e)
       /\ IF report[e] = "failed" THEN GoTo(w, "mark")
          ELSE IF e \in scenario.labs THEN EndPass(w) ELSE GoTo(w, "offer")
  /\ Reading

\* can_offer_submission: the revision is current and Moodle has no submission,
\* and it refuses for good in many other cases too (closed, locked, a policy).
AskOffer(w) ==
  /\ At(w, "offer")
  /\ \/ Current(claim[w]) /\ moodle[claim[w][1]].mark = "none" /\ GoTo(w, "prepare")
     \/ GoTo(w, "blocked")
  /\ Reading /\ UNCHANGED told

\* prepare_submission: the row, unless an earlier pass left it.
Prepare(w) ==
  /\ At(w, "prepare")
  /\ LET e == claim[w] IN
       row' = IF row[e].status = "absent" THEN [row EXCEPT ![e].status = "awaiting_approval"]
              ELSE row
  /\ GoTo(w, "ready")
  /\ UNCHANGED <<outcome, outboxes, moodle, requests, scenario, histories, told>>

\* notify_submission_ready, with the buttons; notify_submission_blocked.
SendReady(w)   == At(w, "ready")   /\ Tell("offer", claim[w])   /\ GoTo(w, "mark") /\ Reading
SendBlocked(w) == At(w, "blocked") /\ Tell("blocked", claim[w]) /\ GoTo(w, "mark") /\ Reading

\* The row of e is delivered, if no other worker has marked it: as e was the
\* oldest when it was read, it is the oldest for as long as it is there.
Without(queue, e) == IF queue # <<>> /\ Head(queue) = e THEN Tail(queue) ELSE queue

\* mark_execution_notification_delivered
Mark(w) ==
  /\ At(w, "mark")
  /\ reports' = Without(reports, claim[w])
  /\ ReadResult(w)
  /\ UNCHANGED <<report, results, row, outcome, moodle, requests, scenario, histories, told>>

SendResult(w) ==
  At(w, "result") /\ Tell("result", claim[w]) /\ GoTo(w, "markResult") /\ Reading

MarkResult(w) ==
  /\ At(w, "markResult")
  /\ results' = Without(results, claim[w])
  /\ EndPass(w)
  /\ UNCHANGED <<report, reports, row, outcome, moodle, requests, scenario, histories, told>>

\* Defect: the notification is marked all the same.
PassFails_MarksReport(w) ==
  /\ pc[w] \in {"report", "offer", "prepare", "ready", "blocked", "result"}
  /\ IF At(w, "result") THEN EndPass(w) ELSE GoTo(w, "mark")
  /\ Reading /\ UNCHANGED told

\* A RuntimeError: Telegram, which may have shown the message all the same,
\* Moodle or the database failed.
PassFails(w) ==
  /\ pc[w] \in {"report", "offer", "prepare", "ready", "blocked", "result"}
  /\ \/ UNCHANGED told
     \/ pc[w] \in {"report", "result", "blocked"} /\ Tell(pc[w], claim[w])
     \/ pc[w] = "ready" /\ Tell("offer", claim[w])
  /\ EndPass(w)
  /\ Reading

\* The user presses a button of the offer: resolve_submission, where only the
\* first decision counts.
Decide(e) ==
  /\ <<"offer", e>> \in told
  /\ row[e].status = "awaiting_approval"
  /\ \E decision \in {"approved", "declined"} : row' = [row EXCEPT ![e].status = decision]
  /\ UNCHANGED <<outcome, outboxes, moodle, requests, procs, scenario, histories, told>>

-----------------------------------------------------------------------------
(* The submissions table.                                                  *)

\* Defects: an expired save is offered for upload again; it is never taken up.
Reset_Saving(r) ==
  IF r.status \in {"uploading", "saving"} /\ ~r.live
  THEN [r EXCEPT !.status = "approved", !.holder = NoWorker]
  ELSE r
Claimable_ApprovedOnly(r) == r.status = "approved"

\* The first UPDATE of claim_submission: an upload whose lease expired never
\* reached the assignment and starts afresh.
Reset(r) ==
  IF r.status = "uploading" /\ ~r.live
  THEN [r EXCEPT !.status = "approved", !.holder = NoWorker]
  ELSE r

Claimable(r) == r.status = "approved" \/ (r.status \in {"saving", "finalizing"} /\ ~r.live)

Rank(status) == CASE status = "saving" -> 0 [] status = "finalizing" -> 1 [] OTHER -> 2

FirstStep(status) ==
  CASE status = "saving" -> "verify" [] status = "finalizing" -> "reconcile"
    [] OTHER -> "upload"

\* claim_submission, of a row first in ORDER BY status (any of those: the order
\* among them, created_at, is left open), or nothing to claim.
ClaimSubmission(w) ==
  /\ At(w, "turn")
  /\ LET table == [e \in Event |-> Reset(row[e])]
         first(e) == /\ Claimable(table[e])
                     /\ \A f \in Event : Claimable(table[f]) =>
                          Rank(table[e].status) <= Rank(table[f].status)
         leased(r) == [status |-> IF r.status = "approved" THEN "uploading" ELSE r.status,
                       holder |-> {w}, live |-> TRUE]
     IN  \/ \E e \in Event :
              /\ first(e)
              /\ row' = [table EXCEPT ![e] = leased(@)]
              /\ Take(w, FirstStep(table[e].status), e)
         \/ (\A e \in Event : ~Claimable(table[e])) /\ GoTo(w, "idle") /\ UNCHANGED row
  /\ UNCHANGED <<outcome, outboxes, moodle, requests, scenario, histories, told>>

\* AND lease_token = ? AND lease_expires_at > ?
Owned(w) == row[claim[w]].holder = {w} /\ row[claim[w]].live

\* The cycle of the saga is over, and a pass follows.
Release(w) == Take(w, "idle", NoEvent)

\* record_submission_draft and record_submission_finalizing: from one status to
\* the next while the lease is owned, else ownership_lost; or the database fails.
Record(w, from, to, next) ==
  /\ LET e == claim[w]
         owned == row[e].status = from /\ Owned(w)
     IN  \/ owned /\ row' = [row EXCEPT ![e].status = to] /\ GoTo(w, next)
         \/ ~owned /\ UNCHANGED row /\ Release(w)
         \/ UNCHANGED row /\ GoTo(w, "fail")
  /\ UNCHANGED <<outcome, outboxes, moodle, requests, scenario, histories, told>>

\* Defect: the lease stays on the settled row.
SettledRow_KeepsLease(r, status) == [r EXCEPT !.status = status]

SettledRow(r, status) == [status |-> status, holder |-> NoWorker, live |-> FALSE]

\* Defect: the UPDATE names the event only, neither its status nor the lease.
Finish_Unowned(w, status) ==
  /\ LET e == claim[w] IN
       /\ row' = [row EXCEPT ![e] = SettledRow(@, status)]
       /\ outcome' = [outcome EXCEPT ![e] = IF @ = "none" THEN status ELSE @]
       /\ results' = IF outcome[e] = "none" THEN Append(results, e) ELSE results
  /\ Release(w)
  /\ UNCHANGED <<report, reports, moodle, requests, scenario, histories, told>>

\* _finish_submission: the UPDATE, and INSERT OR IGNORE of the outcome with it.
Finish(w, status) ==
  /\ LET e == claim[w] IN
       IF row[e].status \in Leased /\ Owned(w)
       THEN /\ row' = [row EXCEPT ![e] = SettledRow(@, status)]
            /\ outcome' = [outcome EXCEPT ![e] = IF @ = "none" THEN status ELSE @]
            /\ results' = IF outcome[e] = "none" THEN Append(results, e) ELSE results
       ELSE UNCHANGED <<row, outcome, results>>
  /\ Release(w)
  /\ UNCHANGED <<report, reports, moodle, requests, scenario, histories, told>>

-----------------------------------------------------------------------------
(* The worker.  An exception leads to "fail", except where it is handled.  *)

Remote(w) == Reading /\ UNCHANGED told

\* upload: the file goes to the user's draft area, after all checks.
Upload(w) ==
  /\ At(w, "upload")
  /\ \/ Current(claim[w]) /\ GoTo(w, "record")
     \/ GoTo(w, "fail")
  /\ Remote(w)

RecordDraft(w) == At(w, "record") /\ Record(w, "uploading", "saving", "assertSave")

\* save, up to its last check: the revision is still the approved one.
AssertSave(w) ==
  /\ At(w, "assertSave")
  /\ \/ Current(claim[w]) /\ GoTo(w, "save")
     \/ GoTo(w, "verify")
  /\ Remote(w)

\* The worker's call of Moodle: from here on the request may be carried out, at
\* once or late, or be lost, and the worker goes on with a response or an error.
Call(w, kind, next) ==
  /\ requests' = requests \cup {<<kind, claim[w]>>}
  /\ calls' = [calls EXCEPT ![<<kind, claim[w]>>] = IF @ < 2 THEN @ + 1 ELSE @]
  /\ GoTo(w, next)
  /\ UNCHANGED <<tables, moodle, scenario, held, told>>

\* save: whether mod_assign_save_submission answers or not, verification decides.
Save(w) == At(w, "save") /\ Call(w, "save", "verify")

\* After the save, and when an interrupted one is taken up: verify or
\* verify_draft, with any other answer or error a failure.
Verify(w) ==
  /\ At(w, "verify")
  /\ LET e == claim[w] IN
       \/ e[1] \in Drafts /\ Shows(e, "draft") /\ GoTo(w, "recordFinalizing")
       \/ e[1] \notin Drafts /\ Shows(e, "submitted") /\ GoTo(w, "complete")
       \/ GoTo(w, "fail")
  /\ Remote(w)

RecordFinalizing(w) ==
  At(w, "recordFinalizing") /\ Record(w, "saving", "finalizing", "reconcile")

\* _finalize_submission begins with verify: a previous worker may have done it.
Reconcile(w) ==
  /\ At(w, "reconcile")
  /\ LET e == claim[w] IN
       \/ Shows(e, "submitted") /\ GoTo(w, "complete")
       \/ moodle[e[1]].mark # "submitted" /\ GoTo(w, "verifyDraft")
       \/ GoTo(w, "fail")
  /\ Remote(w)

VerifyDraft(w) ==
  /\ At(w, "verifyDraft")
  /\ \/ Shows(claim[w], "draft") /\ GoTo(w, "assertFinalize")
     \/ GoTo(w, "fail")
  /\ Remote(w)

\* finalize, up to its last check; on an error verification decides.
AssertFinalize(w) ==
  /\ At(w, "assertFinalize")
  /\ \/ Current(claim[w]) /\ GoTo(w, "finalize")
     \/ GoTo(w, "confirm")
  /\ Remote(w)

\* finalize: mod_assign_submit_for_grading, and again verification decides.
Finalize(w) == At(w, "finalize") /\ Call(w, "finalize", "confirm")

Confirm(w) ==
  /\ At(w, "confirm")
  /\ \/ Shows(claim[w], "submitted") /\ GoTo(w, "complete")
     \/ GoTo(w, "fail")
  /\ Remote(w)

\* complete_submission; if the database fails, fail_submission is still tried.
Complete(w) ==
  /\ At(w, "complete")
  /\ \/ Finish(w, "submitted")
     \/ GoTo(w, "fail") /\ Remote(w)

Fail(w) == At(w, "fail") /\ Finish(w, "failed")

\* The worker is killed, or a database error makes it exit.
Crash(w) ==
  /\ pc[w] \notin {"idle", "off"}
  /\ Release(w)
  /\ Reading /\ UNCHANGED told

-----------------------------------------------------------------------------
(* The environment.                                                        *)

LeaseExpires(e) ==
  /\ row[e].live
  /\ row' = [row EXCEPT ![e].live = FALSE]
  /\ UNCHANGED <<outcome, outboxes, moodle, requests, procs, scenario, histories, told>>

\* Moodle carries out a request.  A draft that was already submitted is closed;
\* without drafts a saved file is submitted at once.
Execute(req) ==
  /\ req \in requests
  /\ requests' = requests \ {req}
  /\ LET e == req[2]
         a == e[1]
     IN  CASE req[1] = "save" /\ a \notin Drafts -> Becomes(a, "submitted", e)
           [] req[1] = "save" /\ a \in Drafts /\ moodle[a].mark # "submitted" ->
                Becomes(a, "draft", e)
           [] req[1] = "finalize" /\ moodle[a].mark = "draft" ->
                Becomes(a, "submitted", moodle[a].file)
           [] OTHER -> UNCHANGED <<moodle, held>>
  /\ UNCHANGED <<tables, procs, scenario, calls, told>>

\* A request is lost, or Moodle rejects it.
Lose(req) ==
  /\ req \in requests
  /\ requests' = requests \ {req}
  /\ UNCHANGED <<tables, moodle, procs, scenario, histories, told>>

\* The student saves a file of their own over what is there.
StudentSaves(a) ==
  /\ scenario.student
  /\ a \in Drafts => moodle[a].mark # "submitted"
  /\ Becomes(a, IF a \in Drafts THEN "draft" ELSE "submitted", StudentFile)
  /\ UNCHANGED <<tables, requests, procs, scenario, calls, told>>

\* The student submits the draft, whoever saved it; the teacher reopens it.
StudentSubmits(a) ==
  /\ scenario.student
  /\ moodle[a].mark = "draft"
  /\ Becomes(a, "submitted", moodle[a].file)
  /\ UNCHANGED <<tables, requests, procs, scenario, calls, told>>

RevertToDraft(a) ==
  /\ scenario.student
  /\ a \in Drafts /\ moodle[a].mark = "submitted"
  /\ Becomes(a, "draft", moodle[a].file)
  /\ UNCHANGED <<tables, requests, procs, scenario, calls, told>>

\* The teacher edits the assignment (up to the last revision).
TeacherEdits(a) ==
  /\ moodle[a].revision < scenario.last
  /\ moodle' = [moodle EXCEPT ![a].revision = @ + 1]
  /\ UNCHANGED <<tables, requests, procs, scenario, histories, told>>

-----------------------------------------------------------------------------

PassStep(w) ==
  \/ StartPass(w) \/ SendReport(w) \/ AskOffer(w) \/ Prepare(w)
  \/ SendReady(w) \/ SendBlocked(w) \/ Mark(w)
  \/ SendResult(w) \/ MarkResult(w)

WorkerStep(w) ==
  \/ PassStep(w) \/ PassFails(w) \/ ClaimSubmission(w)
  \/ Upload(w) \/ RecordDraft(w) \/ AssertSave(w) \/ Save(w) \/ Verify(w)
  \/ RecordFinalizing(w) \/ Reconcile(w) \/ VerifyDraft(w)
  \/ AssertFinalize(w) \/ Finalize(w) \/ Confirm(w)
  \/ Complete(w) \/ Fail(w)

Next ==
  \/ \E w \in Worker : WorkerStep(w) \/ Crash(w)
  \/ \E e \in Event : ExecutionEnds(e) \/ Decide(e) \/ LeaseExpires(e)
  \/ \E req \in requests : Execute(req) \/ Lose(req)
  \/ \E a \in Assignment :
       StudentSaves(a) \/ StudentSubmits(a) \/ RevertToDraft(a) \/ TeacherEdits(a)

Spec == Init /\ [][Next]_vars

\* The worker loops forever under systemd, and time passes.
Fairness ==
  /\ \A w \in Worker : WF_vars(WorkerStep(w))
  /\ \A e \in Event : WF_vars(LeaseExpires(e))

FairSpec == Spec /\ Fairness

-----------------------------------------------------------------------------
(* Properties.                                                             *)

\* The report is saved at most once, however often the saga is interrupted and
\* taken up again: recovery verifies, it never saves (worker.py:448-470,
\* approval_state.py:1274-1282).
SaveOnce == \A e \in Event : calls[<<"save", e>>] <= 1

\* A submission is recorded as submitted only if Moodle did hold exactly the
\* approved report as submitted at some moment before (submission.py:151-179).
ReceiptIsExact == \A e \in Event : row[e].status = "submitted" => <<"submitted", e>> \in held

\* Finalization is requested only after Moodle held exactly the report as a draft
\* at some moment before.  That the draft still is the report when the request is
\* carried out is not said: the student may have replaced it since the check, and
\* Moodle has no conditional submit (worker.py:473-485, 536).
FinalizeNeedsDraft ==
  \A e \in Event : calls[<<"finalize", e>>] > 0 => <<"draft", e>> \in held

\* A settled submission is final, and so is what the user is told of it: a worker
\* that lost its lease and comes back cannot settle it again, contradict the
\* outcome or send it round once more (approval_state.py:1588-1612).
SettledStays ==
  [][\A e \in Event : row[e].status \in Settled =>
       row'[e] = row[e] /\ outcome'[e] = outcome[e]]_vars

\* A report is marked as delivered only when the user has it and, if it is a
\* success, the buttons for its submission or a word that there will be none:
\* whatever fails in between, the pass is repeated (worker.py:363-393).
DeliveredMeansTold ==
  \A e \in Event : report[e] # "none" /\ (\A i \in 1..Len(reports) : reports[i] # e) =>
    /\ <<"report", e>> \in told
    /\ report[e] = "succeeded" => {<<"offer", e>>, <<"blocked", e>>} \cap told # {}

\* Workers stop dying at some point, leases stop expiring under a worker that is
\* still on the job, and Telegram, Moodle and the database stop failing a pass.
CrashesEnd == <>[][\A w \in Worker : Crash(w) => WorkerStep(w)]_vars
LeasesHold ==
  <>[][\A e \in Event : LeaseExpires(e) =>
         \A w \in Worker : claim[w] = e => pc[w] \notin Saga]_vars
PassesWork == <>[][\A w \in Worker : PassFails(w) => PassStep(w)]_vars

\* The user gets the report of every execution, whichever reports are before it in
\* the queue, and every approved submission is settled and the user told how,
\* whatever Moodle, the teacher and the student do (worker.py:363-393, 434-568).
Reported(e) == report[e] # "none" ~> <<"report", e>> \in told
Answered(e) == row[e].status = "approved" ~> <<"result", e>> \in told

EventuallyTold ==
  CrashesEnd /\ LeasesHold /\ PassesWork => \A e \in Event : Reported(e) /\ Answered(e)

(* The following do not hold of the code; see the findings in README.md.   *)

\* A report is sent even when a lab execution ended before it.
\* docs/architecture.md:90 "Completed reports are sent to the authorized Telegram
\* chat at least once"
EveryReportSent == CrashesEnd /\ PassesWork => \A e \in Event : Reported(e)

\* The last checks before the save pass only while Moodle has no attempt of the
\* student's own.
\* submission.py:297-298 "Any material submission object, however, is an existing
\* attempt and must never be overwritten."
NeverOverwrites ==
  [][\A w \in Worker :
       At(w, "assertSave") /\ pc'[w] = "save" => moodle[claim[w][1]].file # StudentFile]_vars
=============================================================================

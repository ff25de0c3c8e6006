-------------------------- MODULE SubmissionProofs --------------------------
(***************************************************************************)
(* Proofs about Submission, for any assignments, revisions, workers and    *)
(* situations.                                                             *)
(***************************************************************************)
EXTENDS Submission, TLAPS

-----------------------------------------------------------------------------
(* The inductive invariant.                                                *)

\* A worker that is at neither end of its cycle has an event in hand.
InHand == \A w \in Worker : pc[w] \in Telling \cup Saga => claim[w] \in Event

LiveMeansLeased == \A e \in Event : row[e].live => row[e].status \in Leased

TypeInv == TypeOK /\ InHand /\ LiveMeansLeased

RowsOK(table) ==
  /\ table \in [Event -> Row]
  /\ \A e \in Event : table[e].status \in Leased <=> table[e].holder # NoWorker
  /\ \A e \in Event : table[e].live => table[e].status \in Leased

\* Statuses before the one save, and the worker on its way to it.
BeforeSave == {"absent", "awaiting_approval", "declined", "approved", "uploading"}
Saving(w, e) == claim[w] = e /\ pc[w] \in {"assertSave", "save"}

SaveInv ==
  /\ SaveOnce
  /\ \A e \in Event : row[e].status \in BeforeSave =>
       calls[<<"save", e>>] = 0 /\ \A w \in Worker : ~Saving(w, e)
  /\ \A e \in Event, w \in Worker : Saving(w, e) => calls[<<"save", e>>] = 0
  /\ \A e \in Event, v, w \in Worker : Saving(v, e) /\ Saving(w, e) => v = w

\* What Moodle shows it has held; what a worker found it to hold, it has held.
HeldInv ==
  /\ \A a \in Assignment : moodle[a].file \in Event => <<moodle[a].mark, moodle[a].file>> \in held
  /\ \A w \in Worker : pc[w] \in {"assertFinalize", "finalize"} => <<"draft", claim[w]>> \in held
  /\ \A w \in Worker : pc[w] = "complete" => <<"submitted", claim[w]>> \in held
  /\ ReceiptIsExact
  /\ FinalizeNeedsDraft

\* How far a worker is with a report tells what the user has of it.
ToldInv ==
  /\ \A i \in 1..Len(reports) : report[reports[i]] # "none"
  /\ \A w \in Worker :
       /\ pc[w] \in {"report", "offer", "prepare", "ready", "blocked", "mark"} =>
            report[claim[w]] # "none"
       /\ pc[w] \in {"offer", "prepare", "ready", "blocked", "mark"} =>
            <<"report", claim[w]>> \in told
       /\ pc[w] = "mark" /\ report[claim[w]] = "succeeded" =>
            {<<"offer", claim[w]>>, <<"blocked", claim[w]>>} \cap told # {}
  /\ DeliveredMeansTold

-----------------------------------------------------------------------------
(* Types.                                                                  *)

LEMMA InitInv == Init => TypeInv /\ SaveInv /\ HeldInv /\ ToldInv
  <1>. SUFFICES ASSUME Init PROVE TypeInv /\ SaveInv /\ HeldInv /\ ToldInv
    OBVIOUS
  <1>. USE SubmissionAssumption
  <1>0. /\ moodle \in [Assignment -> Page]
        /\ \A a \in Assignment : moodle[a].mark = "none" /\ moodle[a].file = NoFile
    BY DEF Init, Page
  <1>1. TypeOK
    <2>1. row \in [Event -> Row]
      BY DEF Init, Row, Statuses, NoWorker
    <2>2. pc \in [Worker -> PcValues]
      BY DEF Init, PcValues
    <2>. QED
      BY <1>0, <2>1, <2>2 DEF Init, TypeOK, Leased, NoWorker
  <1>2. InHand
    BY DEF Init, InHand, Telling, Saga
  <1>3. LiveMeansLeased
    BY DEF Init, LiveMeansLeased
  <1>4. SaveInv
    BY DEF Init, SaveInv, SaveOnce, Saving, Kinds
  <1>5. HeldInv
    BY <1>0 DEF Init, HeldInv, ReceiptIsExact, FinalizeNeedsDraft, Kinds
  <1>6. ToldInv
    BY DEF Init, ToldInv, DeliveredMeansTold
  <1>. QED
    BY <1>1, <1>2, <1>3, <1>4, <1>5, <1>6 DEF TypeInv

\* A row of the table gets another value.
LEMMA SetRow ==
  ASSUME NEW table, RowsOK(table), NEW e \in Event, NEW r \in Row,
         r.status \in Leased <=> r.holder # NoWorker, r.live => r.status \in Leased
  PROVE  RowsOK([table EXCEPT ![e] = r])
BY DEF RowsOK

\* Outside the leased statuses a row can only change its status.
LEMMA SetStatus ==
  ASSUME NEW table, RowsOK(table), NEW e \in Event, NEW status \in Statuses \ Leased,
         table[e].status \notin Leased
  PROVE  RowsOK([table EXCEPT ![e].status = status])
  <1>. DEFINE r == [table[e] EXCEPT !.status = status]
  <1>1. table[e] \in Row /\ table[e].holder = NoWorker /\ ~table[e].live
    BY DEF RowsOK, Row
  <1>2. r \in Row /\ r.status = status /\ r.holder = NoWorker /\ ~r.live
    BY <1>1 DEF Row
  <1>3. RowsOK([table EXCEPT ![e] = r])
    BY <1>2, SetRow
  <1>. QED
    BY <1>3

\* What settling a submission does to the tables.
LEMMA FinishCases ==
  ASSUME TypeOK, NEW w \in Worker, NEW status, Finish(w, status), claim[w] \in Event
  PROVE  \/ /\ row[claim[w]].status \in Leased /\ Owned(w)
            /\ row' = [row EXCEPT ![claim[w]] = SettledRow(row[claim[w]], status)]
            /\ \/ outcome' = outcome /\ results' = results
               \/ /\ outcome' = [outcome EXCEPT ![claim[w]] = status]
                  /\ results' = Append(results, claim[w])
         \/ row' = row /\ outcome' = outcome /\ results' = results
  <1>. DEFINE e == claim[w]
  <1>1. CASE row[e].status \in Leased /\ Owned(w)
    <2>1. /\ row' = [row EXCEPT ![e] = SettledRow(row[e], status)]
          /\ outcome' = [outcome EXCEPT ![e] = IF outcome[e] = "none" THEN status ELSE outcome[e]]
          /\ results' = IF outcome[e] = "none" THEN Append(results, e) ELSE results
      BY <1>1, Zenon DEF Finish
    <2>2. CASE outcome[e] = "none"
      BY <1>1, <2>1, <2>2
    <2>3. CASE outcome[e] # "none"
      <3>1. outcome' = outcome
        BY <2>1, <2>3 DEF TypeOK
      <3>2. results' = results
        BY <2>1, <2>3
      <3>. QED
        BY <1>1, <2>1, <3>1, <3>2
    <2>. QED
      BY <2>2, <2>3
  <1>2. CASE ~(row[e].status \in Leased /\ Owned(w))
    BY <1>2, Zenon DEF Finish
  <1>. QED
    BY <1>1, <1>2

LEMMA TypeStep == TypeInv /\ [Next]_vars => TypeInv'
  <1>. SUFFICES ASSUME TypeInv, [Next]_vars PROVE TypeInv'
    OBVIOUS
  <1>. USE DEF TypeInv
  <1>0. SubmissionAssumption
    BY SubmissionAssumption
  \* Moving to another point, with the same event, with another or with none.
  <1>a. ASSUME NEW w \in Worker, NEW label \in PcValues, GoTo(w, label),
               label \in Telling \cup Saga => claim[w] \in Event
        PROVE  pc' \in [Worker -> PcValues] /\ claim' \in [Worker -> Event \cup {NoEvent}] /\ InHand'
    BY <1>a DEF GoTo, TypeOK, InHand
  <1>b. ASSUME NEW w \in Worker, NEW label \in PcValues, NEW e \in Event, Take(w, label, e)
        PROVE  pc' \in [Worker -> PcValues] /\ claim' \in [Worker -> Event \cup {NoEvent}] /\ InHand'
    BY <1>b DEF Take, TypeOK, InHand
  <1>c. ASSUME NEW w \in Worker, NEW label \in {"idle", "turn"}, Take(w, label, NoEvent)
        PROVE  pc' \in [Worker -> PcValues] /\ claim' \in [Worker -> Event \cup {NoEvent}] /\ InHand'
    BY <1>c DEF Take, TypeOK, InHand, Telling, Saga, PcValues
  <1>d. /\ Telling \cup Saga \subseteq PcValues /\ {"idle", "turn"} \subseteq PcValues
        /\ \A w \in Worker : pc[w] \in Telling \cup Saga => claim[w] \in Event
    BY DEF PcValues, InHand
  <1>. DEFINE Moved == /\ pc' \in [Worker -> PcValues]
                       /\ claim' \in [Worker -> Event \cup {NoEvent}]
                       /\ InHand'
  \* Everything but the points of the workers, the messages and the outboxes.
  <1>e. ASSUME Reading, Moved, told' \subseteq Messages \X Event PROVE TypeInv'
    BY <1>e DEF Reading, tables, outboxes, histories, TypeOK, LiveMeansLeased
  <1>f. ASSUME NEW w \in Worker, ReadResult(w) PROVE Moved
    <2>1. CASE results # <<>>
      <3>1. Head(results) \in Event
        BY <2>1 DEF TypeOK
      <3>. QED
        BY <1>b, <1>f, <2>1, <3>1 DEF ReadResult, PcValues, Telling
    <2>2. CASE results = <<>>
      BY <1>c, <1>f, <2>2 DEF ReadResult, EndPass
    <2>. QED
      BY <2>1, <2>2
  <1>g. ASSUME NEW kind \in Messages, NEW e \in Event, Tell(kind, e)
        PROVE  told' \subseteq Messages \X Event
    BY <1>g DEF Tell, TypeOK
  <1>h. UNCHANGED told => told' \subseteq Messages \X Event
    BY DEF TypeOK
  <1>i. RowsOK(row)
    BY DEF RowsOK, TypeOK, LiveMeansLeased
  \* Only rows and the points of the workers.
  <1>k. ASSUME RowsOK(row'), Moved,
               UNCHANGED <<outcome, outboxes, moodle, requests, scenario, histories, told>>
        PROVE  TypeInv'
    <2>1. LiveMeansLeased'
      BY <1>k DEF RowsOK, LiveMeansLeased
    <2>2. TypeOK'
      BY <1>k DEF RowsOK, outboxes, histories, TypeOK
    <2>. QED
      BY <1>k, <2>1, <2>2
  <1>1. ASSUME NEW e \in Event, ExecutionEnds(e) PROVE TypeInv'
    <2>1. reports' \in Seq(Event) /\ report' \in [Event -> {"none", "succeeded", "failed"}]
      BY <1>1 DEF ExecutionEnds, TypeOK
    <2>. QED
      BY <1>1, <2>1 DEF ExecutionEnds, procs, histories, TypeOK, InHand, LiveMeansLeased
  <1>2. ASSUME NEW w \in Worker, StartPass(w) PROVE TypeInv'
    <2>1. CASE w \notin scenario.telling
      BY <1>2, <1>c, <1>e, <1>h, <2>1 DEF StartPass, EndPass
    <2>2. CASE w \in scenario.telling /\ reports # <<>>
      <3>1. Head(reports) \in Event
        BY <2>2 DEF TypeOK
      <3>. QED
        BY <1>2, <1>b, <1>e, <1>h, <2>2, <3>1 DEF StartPass, PcValues, Telling
    <2>3. CASE w \in scenario.telling /\ reports = <<>>
      BY <1>2, <1>f, <1>e, <1>h, <2>3 DEF StartPass
    <2>. QED
      BY <2>1, <2>2, <2>3
  <1>3. ASSUME NEW w \in Worker, SendReport(w) PROVE TypeInv'
    <2>1. claim[w] \in Event /\ Tell("report", claim[w]) /\ Reading
      BY <1>3, <1>d DEF SendReport, At, Telling
    <2>2. told' \subseteq Messages \X Event
      BY <2>1, <1>g DEF Messages
    <2>3. Moved
      <3>1. CASE GoTo(w, "mark")
        BY <3>1, <1>a, <2>1 DEF PcValues, Telling
      <3>2. CASE EndPass(w)
        BY <3>2, <1>c DEF EndPass
      <3>3. CASE GoTo(w, "offer")
        BY <3>3, <1>a, <2>1 DEF PcValues, Telling
      <3>. QED
        BY <1>3, <3>1, <3>2, <3>3 DEF SendReport
    <2>. QED
      BY <1>e, <2>1, <2>2, <2>3
  <1>4. ASSUME NEW w \in Worker, AskOffer(w) PROVE TypeInv'
    <2>1. claim[w] \in Event
      BY <1>4, <1>d DEF AskOffer, At, Telling
    <2>2. Moved
      BY <1>4, <2>1, <1>a DEF AskOffer, PcValues, Telling
    <2>. QED
      BY <1>4, <2>2, <1>e, <1>h DEF AskOffer
  <1>5. ASSUME NEW w \in Worker, Prepare(w) PROVE TypeInv'
    <2>1. claim[w] \in Event
      BY <1>5, <1>d DEF Prepare, At, Telling
    <2>2. Moved
      BY <1>5, <2>1, <1>a DEF Prepare, PcValues, Telling
    <2>3. RowsOK(row')
      <3>1. CASE row[claim[w]].status = "absent"
        BY <1>5, <2>1, <3>1, <1>i, SetStatus DEF Prepare, Statuses, Leased
      <3>. QED
        BY <1>5, <3>1, <1>i DEF Prepare
    <2>. QED
      BY <1>5, <2>2, <2>3, <1>k DEF Prepare
  <1>6. ASSUME NEW w \in Worker, SendReady(w) PROVE TypeInv'
    <2>1. claim[w] \in Event
      BY <1>6, <1>d DEF SendReady, At, Telling
    <2>2. Moved
      BY <1>6, <2>1, <1>a DEF SendReady, PcValues, Telling
    <2>. QED
      BY <1>6, <2>1, <2>2, <1>e, <1>g DEF SendReady, Messages
  <1>7. ASSUME NEW w \in Worker, SendBlocked(w) PROVE TypeInv'
    <2>1. claim[w] \in Event
      BY <1>7, <1>d DEF SendBlocked, At, Telling
    <2>2. Moved
      BY <1>7, <2>1, <1>a DEF SendBlocked, PcValues, Telling
    <2>. QED
      BY <1>7, <2>1, <2>2, <1>e, <1>g DEF SendBlocked, Messages
  <1>8. ASSUME NEW w \in Worker, Mark(w) PROVE TypeInv'
    <2>1. reports' \in Seq(Event)
      BY <1>8 DEF Mark, Without, TypeOK
    <2>2. Moved
      BY <1>8, <1>f DEF Mark
    <2>. QED
      BY <1>8, <2>1, <2>2 DEF Mark, histories, TypeOK, LiveMeansLeased
  <1>9. ASSUME NEW w \in Worker, SendResult(w) PROVE TypeInv'
    <2>1. claim[w] \in Event
      BY <1>9, <1>d DEF SendResult, At, Telling
    <2>2. Moved
      BY <1>9, <2>1, <1>a DEF SendResult, PcValues, Telling
    <2>. QED
      BY <1>9, <2>1, <2>2, <1>e, <1>g DEF SendResult, Messages
  <1>10. ASSUME NEW w \in Worker, MarkResult(w) PROVE TypeInv'
    <2>1. results' \in Seq(Event)
      BY <1>10 DEF MarkResult, Without, TypeOK
    <2>2. Moved
      BY <1>10, <1>c DEF MarkResult, EndPass
    <2>. QED
      BY <1>10, <2>1, <2>2 DEF MarkResult, histories, TypeOK, LiveMeansLeased
  <1>11. ASSUME NEW w \in Worker, PassFails(w) PROVE TypeInv'
    <2>1. claim[w] \in Event
      BY <1>11, <1>d DEF PassFails, Telling
    <2>2. told' \subseteq Messages \X Event
      BY <1>11, <2>1, <1>g, <1>h DEF PassFails, Messages
    <2>. QED
      BY <1>11, <2>2, <1>c, <1>e DEF PassFails, EndPass
  <1>12. ASSUME NEW e \in Event, Decide(e) PROVE TypeInv'
    <2>1. RowsOK(row')
      <3>1. PICK decision \in {"approved", "declined"} : row' = [row EXCEPT ![e].status = decision]
        BY <1>12 DEF Decide
      <3>. QED
        BY <1>12, <3>1, <1>i, SetStatus DEF Decide, Statuses, Leased, Settled
    <2>2. Moved
      BY <1>12 DEF Decide, procs, TypeOK, InHand
    <2>. QED
      BY <1>12, <2>1, <2>2, <1>k DEF Decide
  <1>13. ASSUME NEW w \in Worker, ClaimSubmission(w) PROVE TypeInv'
    <2>. DEFINE table == [e \in Event |-> Reset(row[e])]
    <2>1. RowsOK(table)
      BY <1>i DEF Reset, RowsOK, Row, Statuses, Leased, NoWorker
    <2>2. CASE \E e \in Event :
                 /\ Claimable(table[e])
                 /\ row' = [table EXCEPT ![e] =
                      [status |-> IF @.status = "approved" THEN "uploading" ELSE @.status,
                       holder |-> {w}, live |-> TRUE]]
                 /\ Take(w, FirstStep(table[e].status), e)
      <3>1. PICK e \in Event : /\ Claimable(table[e])
                 /\ row' = [table EXCEPT ![e] =
                      [status |-> IF @.status = "approved" THEN "uploading" ELSE @.status,
                       holder |-> {w}, live |-> TRUE]]
                 /\ Take(w, FirstStep(table[e].status), e)
        BY <2>2
      <3>. HIDE DEF table
      <3>2. FirstStep(table[e].status) \in PcValues
        BY DEF FirstStep, PcValues, Saga
      <3>3. Moved
        BY <3>1, <3>2, <1>b
      <3>4. RowsOK(row')
        <4>. DEFINE r == [status |-> IF table[e].status = "approved" THEN "uploading"
                                     ELSE table[e].status,
                          holder |-> {w}, live |-> TRUE]
        <4>1. r \in Row /\ r.status \in Leased /\ r.holder # NoWorker
          BY <2>1, <3>1 DEF Claimable, RowsOK, Row, Statuses, Leased, NoWorker
        <4>2. row' = [table EXCEPT ![e] = r]
          BY <3>1
        <4>. QED
          BY <4>1, <4>2, <2>1, SetRow
      <3>. QED
        BY <1>13, <3>3, <3>4, <1>k DEF ClaimSubmission
    <2>3. CASE GoTo(w, "idle") /\ UNCHANGED row
      <3>1. Moved
        BY <2>3, <1>a DEF PcValues, Telling, Saga
      <3>. QED
        BY <1>13, <2>3, <3>1 DEF ClaimSubmission, outboxes, histories, TypeOK, LiveMeansLeased
    <2>. QED
      BY <1>13, <2>2, <2>3 DEF ClaimSubmission
  <1>14. ASSUME NEW w \in Worker, NEW from \in {"uploading", "saving"}, NEW to \in {"saving", "finalizing"},
                NEW next \in Saga, Record(w, from, to, next), claim[w] \in Event
         PROVE  TypeInv'
    <2>1. Moved
      BY <1>14, <1>a, <1>c, <1>d DEF Record, Release, Saga
    <2>2. RowsOK(row')
      <3>1. CASE /\ row[claim[w]].status = from /\ Owned(w)
                 /\ row' = [row EXCEPT ![claim[w]].status = to]
        <4>. DEFINE r == [row[claim[w]] EXCEPT !.status = to]
        <4>1. r \in Row /\ r.status \in Leased /\ r.holder # NoWorker
          BY <3>1, <1>i, <1>14 DEF RowsOK, Row, Statuses, Leased, Owned, NoWorker
        <4>2. row' = [row EXCEPT ![claim[w]] = r]
          BY <3>1
        <4>. QED
          BY <4>1, <4>2, <1>i, <1>14, SetRow
      <3>. QED
        BY <1>14, <3>1, <1>i DEF Record
    <2>. QED
      BY <1>14, <2>1, <2>2, <1>k DEF Record
  <1>15. ASSUME NEW w \in Worker, NEW status \in {"submitted", "failed"}, Finish(w, status),
                claim[w] \in Event
         PROVE  TypeInv'
    <2>1. Moved
      BY <1>15, <1>c DEF Finish, Release
    <2>2. RowsOK(row')
      <3>1. SettledRow(row[claim[w]], status) \in Row /\ status \notin Leased
        BY <1>15 DEF SettledRow, Row, Statuses, Settled, Leased, NoWorker
      <3>2. RowsOK([row EXCEPT ![claim[w]] = SettledRow(@, status)])
        BY <3>1, <1>i, <1>15, SetRow DEF SettledRow
      <3>3. CASE row' = row
        BY <3>3, <1>i
      <3>4. CASE row' = [row EXCEPT ![claim[w]] = SettledRow(@, status)]
        BY <3>2, <3>4
      <3>. QED
        BY <1>15, <3>3, <3>4 DEF Finish
    <2>3. outcome' \in [Event -> {"none", "submitted", "failed"}] /\ results' \in Seq(Event)
      <3>1. CASE outcome' = outcome /\ results' = results
        BY <3>1 DEF TypeOK
      <3>2. CASE /\ outcome' = [outcome EXCEPT ![claim[w]] = status]
                 /\ results' = Append(results, claim[w])
        BY <3>2, <1>15 DEF TypeOK
      <3>. QED
        BY <1>15, <3>1, <3>2, FinishCases
    <2>4. UNCHANGED <<report, reports, moodle, requests, scenario, histories, told>>
      BY <1>15 DEF Finish
    <2>. QED
      <3>1. LiveMeansLeased'
        BY <2>2 DEF RowsOK, LiveMeansLeased
      <3>2. TypeOK'
        BY <2>1, <2>2, <2>3, <2>4 DEF RowsOK, histories, TypeOK
      <3>. QED
        BY <2>1, <3>1, <3>2
  <1>16. ASSUME NEW w \in Worker, NEW kind \in Kinds, NEW next \in Saga, Call(w, kind, next),
                claim[w] \in Event
         PROVE  TypeInv'
    <2>1. Moved
      BY <1>16, <1>a, <1>d DEF Call
    <2>2. requests' \subseteq Kinds \X Event /\ calls' \in [Kinds \X Event -> 0..2]
      BY <1>16 DEF Call, TypeOK
    <2>. QED
      BY <1>16, <2>1, <2>2 DEF Call, tables, outboxes, TypeOK, LiveMeansLeased
  \* The points of the saga that only ask Moodle.
  <1>17. ASSUME NEW w \in Worker, NEW next \in Saga, GoTo(w, next), Remote(w), claim[w] \in Event
         PROVE  TypeInv'
    BY <1>17, <1>a, <1>d, <1>e, <1>h DEF Remote
  <1>18. ASSUME NEW w \in Worker, pc[w] \in Saga, WorkerStep(w) PROVE TypeInv'
    <2>1. claim[w] \in Event
      BY <1>18, <1>d
    <2>2. CASE Upload(w) \/ AssertSave(w) \/ Verify(w) \/ Reconcile(w) \/ VerifyDraft(w)
                 \/ AssertFinalize(w) \/ Confirm(w)
      BY <2>1, <2>2, <1>17 DEF Upload, AssertSave, Verify, Reconcile, VerifyDraft,
        AssertFinalize, Confirm, Saga
    <2>3. CASE RecordDraft(w) \/ RecordFinalizing(w)
      BY <2>1, <2>3, <1>14 DEF RecordDraft, RecordFinalizing, Saga
    <2>4. CASE Save(w) \/ Finalize(w)
      BY <2>1, <2>4, <1>16 DEF Save, Finalize, Saga, Kinds
    <2>5. CASE Complete(w) \/ Fail(w)
      BY <2>1, <2>5, <1>15, <1>17 DEF Complete, Fail, Saga
    <2>6. CASE PassStep(w) \/ PassFails(w) \/ ClaimSubmission(w)
      BY <1>18, <2>6 DEF PassStep, PassFails, ClaimSubmission, StartPass, SendReport, AskOffer,
        Prepare, SendReady, SendBlocked, Mark, SendResult, MarkResult, At, Saga
    <2>. QED
      BY <1>18, <2>2, <2>3, <2>4, <2>5, <2>6 DEF WorkerStep
  <1>19. ASSUME NEW w \in Worker, Crash(w) PROVE TypeInv'
    BY <1>19, <1>c, <1>e, <1>h DEF Crash, Release
  <1>20. ASSUME NEW e \in Event, LeaseExpires(e) PROVE TypeInv'
    <2>1. Moved
      BY <1>20 DEF LeaseExpires, procs, TypeOK, InHand
    <2>2. RowsOK(row')
      <3>. DEFINE r == [row[e] EXCEPT !.live = FALSE]
      <3>1. r \in Row /\ (r.status \in Leased <=> r.holder # NoWorker) /\ ~r.live
        BY <1>i DEF RowsOK, Row
      <3>2. row' = [row EXCEPT ![e] = r]
        BY <1>20 DEF LeaseExpires
      <3>. QED
        BY <3>1, <3>2, <1>i, SetRow
    <2>. QED
      BY <1>20, <2>1, <2>2, <1>k DEF LeaseExpires
  \* The submission of an assignment changes.
  <1>21. ASSUME NEW a \in Assignment, NEW mark \in {"draft", "submitted"},
                NEW file \in Event \cup {StudentFile}, Becomes(a, mark, file),
                requests' \subseteq requests, UNCHANGED <<tables, procs, scenario, calls, told>>
         PROVE  TypeInv'
    <2>1. /\ moodle' \in [Assignment -> Page]
          /\ \A b \in Assignment : moodle'[b].mark = "none" <=> moodle'[b].file = NoFile
      <3>. DEFINE page == [moodle[a] EXCEPT !.mark = mark, !.file = file]
      <3>1. page \in Page /\ page.mark # "none" /\ page.file # NoFile
        BY <1>0 DEF TypeOK, Page, SubmissionAssumption
      <3>2. moodle' = [moodle EXCEPT ![a] = page]
        BY <1>21 DEF Becomes, TypeOK, Page
      <3>. QED
        BY <3>1, <3>2 DEF TypeOK
    <2>2. held' \subseteq {"draft", "submitted"} \X Event
      BY <1>21 DEF Becomes, TypeOK
    <2>. QED
      BY <1>21, <2>1, <2>2 DEF tables, outboxes, procs, TypeOK, InHand, LiveMeansLeased
  <1>22. ASSUME NEW a \in Assignment, moodle[a].mark \in {"draft", "submitted"}
         PROVE  moodle[a].file \in Event \cup {StudentFile}
    BY <1>22 DEF TypeOK, Page
  <1>23. ASSUME NEW req \in requests, Execute(req) \/ Lose(req) PROVE TypeInv'
    <2>1. req[1] \in Kinds /\ req[2] \in Event /\ req[2][1] \in Assignment
      BY DEF TypeOK, Event
    <2>2. CASE \E mark \in {"draft", "submitted"}, file \in Event \cup {StudentFile} :
                 Becomes(req[2][1], mark, file) /\ Execute(req)
      BY <2>1, <2>2, <1>21 DEF Execute
    <2>3. CASE UNCHANGED <<moodle, held>> /\ (Execute(req) \/ Lose(req))
      BY <2>3 DEF Execute, Lose, tables, outboxes, procs, histories, TypeOK, InHand, LiveMeansLeased
    <2>. QED
      BY <1>23, <2>1, <2>2, <2>3, <1>22 DEF Execute, Lose, histories
  <1>24. ASSUME NEW a \in Assignment, StudentSaves(a) \/ StudentSubmits(a) \/ RevertToDraft(a)
         PROVE  TypeInv'
    <2>1. CASE StudentSaves(a)
      BY <2>1, <1>21 DEF StudentSaves
    <2>2. CASE StudentSubmits(a)
      BY <2>2, <1>21, <1>22 DEF StudentSubmits
    <2>3. CASE RevertToDraft(a)
      BY <2>3, <1>21, <1>22 DEF RevertToDraft
    <2>. QED
      BY <1>24, <2>1, <2>2, <2>3
  <1>25. ASSUME NEW a \in Assignment, TeacherEdits(a) PROVE TypeInv'
    <2>1. scenario.last \in 1..MaxRevision
      BY <1>0 DEF TypeOK, SubmissionAssumption, Scenarios
    <2>. DEFINE page == [moodle[a] EXCEPT !.revision = @ + 1]
    <2>2. page \in Page /\ page.mark = moodle[a].mark /\ page.file = moodle[a].file
      <3>1. moodle[a] \in Page /\ moodle[a].revision + 1 \in 1..MaxRevision
        BY <1>25, <2>1, <1>0 DEF TeacherEdits, TypeOK, Page, SubmissionAssumption
      <3>. QED
        BY <3>1 DEF Page
    <2>3. moodle' = [moodle EXCEPT ![a] = page]
      BY <1>25 DEF TeacherEdits, TypeOK, Page
    <2>. QED
      BY <1>25, <2>2, <2>3 DEF TeacherEdits, tables, outboxes, procs, histories, TypeOK, InHand,
        LiveMeansLeased
  <1>26. CASE UNCHANGED vars
    BY <1>26 DEF vars, tables, outboxes, procs, histories, TypeOK, InHand, LiveMeansLeased
  <1>27. ASSUME NEW w \in Worker, WorkerStep(w), pc[w] \notin Saga PROVE TypeInv'
    <2>1. PassStep(w) \/ PassFails(w) \/ ClaimSubmission(w)
      BY <1>27 DEF WorkerStep, Upload, RecordDraft, AssertSave, Save, Verify, RecordFinalizing,
        Reconcile, VerifyDraft, AssertFinalize, Finalize, Confirm, Complete, Fail, At, Saga
    <2>. QED
      BY <2>1, <1>2, <1>3, <1>4, <1>5, <1>6, <1>7, <1>8, <1>9, <1>10, <1>11, <1>13 DEF PassStep
  <1>. QED
    BY <1>1, <1>12, <1>18, <1>19, <1>20, <1>23, <1>24, <1>25, <1>26, <1>27 DEF Next

-----------------------------------------------------------------------------
(* The submissions table.                                                  *)

\* The steps of a worker that only read the tables.
Looks(w) ==
  \/ StartPass(w) \/ SendReport(w) \/ AskOffer(w) \/ SendReady(w) \/ SendBlocked(w)
  \/ SendResult(w) \/ PassFails(w) \/ Upload(w) \/ AssertSave(w) \/ Verify(w) \/ Reconcile(w)
  \/ VerifyDraft(w) \/ AssertFinalize(w) \/ Confirm(w) \/ Crash(w)

LEMMA LooksOnly == ASSUME NEW w \in Worker, Looks(w) PROVE Reading
BY DEF Looks, StartPass, SendReport, AskOffer, SendReady, SendBlocked, SendResult, PassFails,
  Upload, AssertSave, Verify, Reconcile, VerifyDraft, AssertFinalize, Confirm, Crash, Remote

LEMMA StatusSet ==
  ASSUME NEW table \in [Event -> Row], NEW d \in Event, NEW status, NEW e \in Event
  PROVE  /\ e = d => [table EXCEPT ![d].status = status][e].status = status
         /\ e # d => [table EXCEPT ![d].status = status][e] = table[e]
  <1>1. table[d] \in Row /\ [table[d] EXCEPT !.status = status].status = status
    BY DEF Row
  <1>. QED
    BY <1>1

\* A settled row stays; a row never goes back to a status before the save; and
\* only a worker that confirmed a submission records it.
LEMMA RowStep ==
  ASSUME TypeInv, [Next]_vars, NEW e \in Event
  PROVE  /\ row[e].status \in Settled => row'[e] = row[e] /\ outcome'[e] = outcome[e]
         /\ row'[e].status \in BeforeSave => row[e].status \in BeforeSave
         /\ row'[e].status = "submitted" =>
              row[e].status = "submitted" \/ \E w \in Worker : pc[w] = "complete" /\ claim[w] = e
  <1>. DEFINE Goal ==
         /\ row[e].status \in Settled => row'[e] = row[e] /\ outcome'[e] = outcome[e]
         /\ row'[e].status \in BeforeSave => row[e].status \in BeforeSave
         /\ row'[e].status = "submitted" =>
              row[e].status = "submitted" \/ \E w \in Worker : pc[w] = "complete" /\ claim[w] = e
  <1>. USE DEF TypeInv
  <1>1. ASSUME row'[e] = row[e], outcome'[e] = outcome[e] PROVE Goal
    BY <1>1
  <1>2. row[e] \in Row /\ (row[e].live => row[e].status \in Leased)
    BY DEF TypeOK, LiveMeansLeased
  <1>3. ASSUME NEW w \in Worker, Looks(w) PROVE Goal
    BY <1>1, <1>3, LooksOnly DEF Reading, tables
  <1>4. ASSUME NEW w \in Worker, Mark(w) \/ MarkResult(w) \/ Save(w) \/ Finalize(w) PROVE Goal
    BY <1>1, <1>4 DEF Mark, MarkResult, Save, Finalize, Call, tables
  <1>5. ASSUME NEW w \in Worker, Prepare(w) PROVE Goal
    <2>1. \/ row'[e] = row[e]
          \/ row[e].status = "absent" /\ row'[e].status = "awaiting_approval"
      <3>1. CASE row' = row
        BY <3>1
      <3>2. CASE /\ row' = [row EXCEPT ![claim[w]].status = "awaiting_approval"]
                 /\ row[claim[w]].status = "absent" /\ claim[w] \in Event
        BY <3>2, StatusSet DEF TypeOK
      <3>. QED
        BY <1>5, <3>1, <3>2 DEF Prepare, At, InHand, Telling
    <2>2. outcome' = outcome
      BY <1>5 DEF Prepare
    <2>. QED
      BY <1>1, <2>1, <2>2 DEF BeforeSave, Settled
  <1>6. ASSUME NEW w \in Worker, ClaimSubmission(w) PROVE Goal
    <2>1. \/ row'[e] = row[e]
          \/ row'[e] = Reset(row[e])
          \/ /\ Claimable(Reset(row[e]))
             /\ row'[e].status = IF Reset(row[e]).status = "approved" THEN "uploading"
                                 ELSE Reset(row[e]).status
      <3>. DEFINE table == [d \in Event |-> Reset(row[d])]
      <3>1. PICK f \in Event :
                 \/ row' = row
                 \/ /\ Claimable(table[f])
                    /\ row' = [table EXCEPT ![f] =
                         [status |-> IF table[f].status = "approved" THEN "uploading"
                                     ELSE table[f].status,
                          holder |-> {w}, live |-> TRUE]]
        BY <1>6 DEF ClaimSubmission
      <3>2. CASE f = e
        BY <3>1, <3>2
      <3>3. CASE f # e
        BY <3>1, <3>3
      <3>. QED
        BY <3>2, <3>3
    <2>2. outcome' = outcome
      BY <1>6 DEF ClaimSubmission
    <2>3. \/ Reset(row[e]) = row[e]
          \/ row[e].status = "uploading" /\ Reset(row[e]).status = "approved"
      BY <1>2 DEF Reset, Row
    <2>. QED
      BY <1>1, <2>1, <2>2, <2>3 DEF Claimable, BeforeSave, Settled
  <1>7. ASSUME NEW w \in Worker, RecordDraft(w) \/ RecordFinalizing(w) PROVE Goal
    <2>1. \/ row'[e] = row[e]
          \/ row[e].status = "uploading" /\ row'[e].status = "saving"
          \/ row[e].status = "saving" /\ row'[e].status = "finalizing"
      BY <1>7 DEF RecordDraft, RecordFinalizing, Record, TypeOK, Row
    <2>2. outcome' = outcome
      BY <1>7 DEF RecordDraft, RecordFinalizing, Record
    <2>. QED
      BY <1>1, <2>1, <2>2 DEF BeforeSave, Settled
  <1>8. ASSUME NEW w \in Worker, NEW status \in {"submitted", "failed"}, Finish(w, status),
               claim[w] \in Event, status = "submitted" => pc[w] = "complete"
        PROVE  Goal
    <2>1. CASE claim[w] # e
      <3>1. row'[e] = row[e] /\ outcome'[e] = outcome[e]
        BY <1>8, <2>1, FinishCases DEF TypeOK
      <3>. QED
        BY <1>1, <3>1
    <2>2. CASE claim[w] = e /\ row[e].status \in Leased
      <3>1. row'[e] = row[e] \/ row'[e].status = status
        BY <1>8, <2>2, FinishCases DEF TypeOK, SettledRow
      <3>. QED
        BY <1>8, <2>2, <3>1 DEF Leased, Settled, BeforeSave
    <2>3. CASE claim[w] = e /\ row[e].status \notin Leased
      BY <1>1, <1>8, <2>3, FinishCases
    <2>. QED
      BY <2>1, <2>2, <2>3
  <1>9. ASSUME NEW w \in Worker, Complete(w) \/ Fail(w) PROVE Goal
    <2>1. claim[w] \in Event
      BY <1>9 DEF Complete, Fail, At, InHand, Saga
    <2>2. CASE Complete(w) /\ Finish(w, "submitted")
      BY <1>8, <2>1, <2>2 DEF Complete, At
    <2>3. CASE Fail(w)
      BY <1>8, <2>1, <2>3 DEF Fail
    <2>4. CASE Remote(w)
      BY <1>1, <2>4 DEF Remote, Reading, tables
    <2>. QED
      BY <1>9, <2>2, <2>3, <2>4 DEF Complete
  <1>10. ASSUME NEW d \in Event, Decide(d) PROVE Goal
    <2>1. \/ row'[e] = row[e]
          \/ row[e].status = "awaiting_approval" /\ row'[e].status \in {"approved", "declined"}
      BY <1>10 DEF Decide, TypeOK, Row
    <2>2. outcome' = outcome
      BY <1>10 DEF Decide
    <2>. QED
      BY <1>1, <2>1, <2>2 DEF BeforeSave, Settled
  <1>11. ASSUME NEW d \in Event, LeaseExpires(d) PROVE Goal
    <2>1. \/ row'[e] = row[e]
          \/ row[e].live /\ row'[e].status = row[e].status
      BY <1>11 DEF LeaseExpires, TypeOK, Row
    <2>2. outcome' = outcome
      BY <1>11 DEF LeaseExpires
    <2>. QED
      BY <1>1, <1>2, <2>1, <2>2 DEF Leased, Settled
  <1>12. ASSUME NEW d \in Event, ExecutionEnds(d) PROVE Goal
    BY <1>1, <1>12 DEF ExecutionEnds
  <1>13. ASSUME NEW req \in requests, Execute(req) \/ Lose(req) PROVE Goal
    BY <1>1, <1>13 DEF Execute, Lose, tables
  <1>14. ASSUME NEW a \in Assignment,
                StudentSaves(a) \/ StudentSubmits(a) \/ RevertToDraft(a) \/ TeacherEdits(a)
         PROVE  Goal
    BY <1>1, <1>14 DEF StudentSaves, StudentSubmits, RevertToDraft, TeacherEdits, tables
  <1>15. CASE UNCHANGED vars
    BY <1>1, <1>15 DEF vars, tables
  <1>. QED
    BY <1>3, <1>4, <1>5, <1>6, <1>7, <1>9, <1>10, <1>11, <1>12, <1>13, <1>14, <1>15
      DEF Next, WorkerStep, PassStep, Looks

-----------------------------------------------------------------------------
(* One save.                                                               *)

\* Neither a call, a worker on its way to one, nor a row back before it.
LEMMA SaveFrame ==
  ASSUME SaveInv,
         \A e \in Event, w \in Worker : Saving(w, e)' => Saving(w, e),
         \A e \in Event : calls'[<<"save", e>>] = calls[<<"save", e>>],
         \A e \in Event : row'[e].status \in BeforeSave => row[e].status \in BeforeSave
  PROVE  SaveInv'
BY DEF SaveInv, SaveOnce

LEMMA SavingElsewhere ==
  ASSUME TypeInv, NEW w \in Worker, NEW label \in PcValues \ {"assertSave", "save"},
         GoTo(w, label) \/ \E e \in Event \cup {NoEvent} : Take(w, label, e)
  PROVE  \A e \in Event, v \in Worker : Saving(v, e)' => Saving(v, e)
BY DEF TypeInv, TypeOK, GoTo, Take, Saving

LEMMA SaveStep == TypeInv /\ SaveInv /\ [Next]_vars => SaveInv'
  <1>. SUFFICES ASSUME TypeInv, SaveInv, [Next]_vars PROVE SaveInv'
    OBVIOUS
  <1>0. \A e \in Event : row'[e].status \in BeforeSave => row[e].status \in BeforeSave
    BY RowStep
  <1>. DEFINE NoneSaves == \A e \in Event, w \in Worker : Saving(w, e)' => Saving(w, e)
              NoCall    == \A e \in Event : calls'[<<"save", e>>] = calls[<<"save", e>>]
  <1>a. ASSUME NoneSaves, NoCall PROVE SaveInv'
    BY <1>a, <1>0, SaveFrame
  <1>b. ASSUME NEW w \in Worker, EndPass(w) \/ Release(w) \/ ReadResult(w) PROVE NoneSaves
    <2>1. CASE EndPass(w) \/ Release(w)
      BY <2>1, SavingElsewhere DEF EndPass, Release, PcValues
    <2>2. CASE ReadResult(w) /\ results # <<>>
      BY <2>2, SavingElsewhere DEF ReadResult, PcValues, Telling, TypeInv, TypeOK
    <2>. QED
      BY <1>b, <2>1, <2>2 DEF ReadResult
  <1>1. ASSUME NEW w \in Worker, AssertSave(w) PROVE SaveInv'
    <2>1. NoneSaves
      BY <1>1 DEF AssertSave, At, GoTo, Saving, TypeInv, TypeOK
    <2>. QED
      BY <1>1, <1>a, <2>1 DEF AssertSave, Remote, Reading, histories
  <1>2. ASSUME NEW w \in Worker, Looks(w), ~AssertSave(w) PROVE SaveInv'
    <2>1. NoneSaves
      <3>1. CASE StartPass(w)
        <4>1. CASE w \in scenario.telling /\ reports # <<>>
          BY <3>1, <4>1, SavingElsewhere DEF StartPass, PcValues, Telling, TypeInv, TypeOK
        <4>. QED
          BY <3>1, <4>1, <1>b DEF StartPass
      <3>2. CASE SendReport(w) \/ PassFails(w) \/ Crash(w)
        BY <3>2, <1>b, SavingElsewhere DEF SendReport, PassFails, Crash, PcValues, Telling
      <3>3. CASE AskOffer(w) \/ SendReady(w) \/ SendBlocked(w) \/ SendResult(w)
        BY <3>3, SavingElsewhere DEF AskOffer, SendReady, SendBlocked, SendResult, PcValues, Telling
      <3>4. CASE Upload(w) \/ Verify(w) \/ Reconcile(w) \/ VerifyDraft(w) \/ AssertFinalize(w)
                   \/ Confirm(w)
        BY <3>4, SavingElsewhere DEF Upload, Verify, Reconcile, VerifyDraft, AssertFinalize,
          Confirm, PcValues, Saga
      <3>. QED
        BY <1>2, <3>1, <3>2, <3>3, <3>4 DEF Looks
    <2>. QED
      BY <1>2, <1>a, <2>1, LooksOnly DEF Reading, histories
  <1>3. ASSUME NEW w \in Worker, Prepare(w) \/ Mark(w) \/ MarkResult(w) PROVE SaveInv'
    <2>1. NoneSaves
      BY <1>3, <1>b, SavingElsewhere DEF Prepare, Mark, MarkResult, PcValues, Telling
    <2>. QED
      BY <1>3, <1>a, <2>1 DEF Prepare, Mark, MarkResult, histories
  <1>4. ASSUME NEW w \in Worker, ClaimSubmission(w) PROVE SaveInv'
    <2>1. \/ GoTo(w, "idle")
          \/ \E label \in {"upload", "verify", "reconcile"}, e \in Event : Take(w, label, e)
      BY <1>4 DEF ClaimSubmission, FirstStep
    <2>2. NoneSaves
      BY <2>1, SavingElsewhere DEF PcValues, Saga
    <2>. QED
      BY <1>4, <1>a, <2>2 DEF ClaimSubmission, histories
  \* The worker that records the draft is the only one on its way to the save.
  <1>5. ASSUME NEW w \in Worker, RecordDraft(w) PROVE SaveInv'
    <2>1. NoCall
      BY <1>5 DEF RecordDraft, Record, histories
    <2>2. CASE NoneSaves
      BY <2>1, <2>2, <1>a
    <2>3. CASE /\ row[claim[w]].status = "uploading" /\ claim[w] \in Event
               /\ row' = [row EXCEPT ![claim[w]].status = "saving"]
               /\ GoTo(w, "assertSave")
      <3>. DEFINE e == claim[w]
      <3>1. calls[<<"save", e>>] = 0 /\ \A v \in Worker : ~Saving(v, e)
        BY <2>3 DEF SaveInv, BeforeSave
      <3>2. row'[e].status = "saving"
        <4>1. row \in [Event -> Row] /\ e \in Event
          BY <2>3 DEF TypeInv, TypeOK
        <4>. QED
          BY <2>3, <4>1, StatusSet
      <3>3. \A f \in Event, v \in Worker : Saving(v, f)' => Saving(v, f) \/ (v = w /\ f = e)
        BY <2>3 DEF GoTo, Saving, TypeInv, TypeOK
      <3>. QED
        BY <1>0, <2>1, <3>1, <3>2, <3>3 DEF SaveInv, SaveOnce, BeforeSave
    <2>4. claim[w] \in Event
      BY <1>5 DEF RecordDraft, At, TypeInv, InHand, Saga
    <2>5. GoTo(w, "fail") \/ Release(w) => NoneSaves
      BY <1>b, SavingElsewhere DEF PcValues, Saga
    <2>. QED
      BY <1>5, <2>2, <2>3, <2>4, <2>5 DEF RecordDraft, Record
  <1>6. ASSUME NEW w \in Worker, Save(w) PROVE SaveInv'
    <2>. DEFINE e == claim[w]
    <2>1. e \in Event /\ Saving(w, e)
      BY <1>6 DEF Save, At, Saving, TypeInv, InHand, Saga
    <2>2. /\ calls[<<"save", e>>] = 0
          /\ row[e].status \notin BeforeSave
          /\ \A v \in Worker : Saving(v, e) => v = w
      BY <2>1 DEF SaveInv
    <2>3. /\ calls'[<<"save", e>>] = 1
          /\ \A f \in Event : f # e => calls'[<<"save", f>>] = calls[<<"save", f>>]
      BY <1>6, <2>1, <2>2 DEF Save, Call, Kinds, TypeInv, TypeOK
    <2>4. \A f \in Event, v \in Worker : Saving(v, f)' => Saving(v, f) /\ v # w
      BY <1>6 DEF Save, Call, GoTo, Saving, TypeInv, TypeOK
    <2>. QED
      BY <1>0, <2>1, <2>2, <2>3, <2>4 DEF SaveInv, SaveOnce
  <1>7. ASSUME NEW w \in Worker, Finalize(w) PROVE SaveInv'
    <2>1. NoneSaves
      BY <1>7, SavingElsewhere DEF Finalize, Call, PcValues, Saga
    <2>2. NoCall
      BY <1>7 DEF Finalize, Call, TypeInv, TypeOK, Kinds
    <2>. QED
      BY <1>a, <2>1, <2>2
  <1>8. ASSUME NEW w \in Worker, RecordFinalizing(w) \/ Complete(w) \/ Fail(w) PROVE SaveInv'
    <2>1. GoTo(w, "fail") \/ GoTo(w, "reconcile") \/ Release(w)
      BY <1>8 DEF RecordFinalizing, Record, Complete, Fail, Finish
    <2>2. NoneSaves
      BY <2>1, <1>b, SavingElsewhere DEF PcValues, Saga
    <2>. QED
      BY <1>8, <1>a, <2>2 DEF RecordFinalizing, Record, Complete, Fail, Finish, Remote, Reading,
        histories
  <1>9. ASSUME UNCHANGED <<procs, calls>> PROVE SaveInv'
    BY <1>9, <1>a DEF procs, Saving
  <1>10. ASSUME NEW e \in Event, ExecutionEnds(e) \/ Decide(e) \/ LeaseExpires(e) PROVE SaveInv'
    BY <1>9, <1>10 DEF ExecutionEnds, Decide, LeaseExpires, histories
  <1>11. ASSUME NEW req \in requests, Execute(req) \/ Lose(req) PROVE SaveInv'
    BY <1>9, <1>11 DEF Execute, Lose, histories
  <1>12. ASSUME NEW a \in Assignment,
                StudentSaves(a) \/ StudentSubmits(a) \/ RevertToDraft(a) \/ TeacherEdits(a)
         PROVE  SaveInv'
    BY <1>9, <1>12 DEF StudentSaves, StudentSubmits, RevertToDraft, TeacherEdits, histories
  <1>13. CASE UNCHANGED vars
    BY <1>9, <1>13 DEF vars, histories
  <1>. QED
    BY <1>1, <1>2, <1>3, <1>4, <1>5, <1>6, <1>7, <1>8, <1>10, <1>11, <1>12, <1>13
      DEF Next, WorkerStep, PassStep, Looks

-----------------------------------------------------------------------------
(* Where the workers are.                                                  *)

\* The points at which a worker knows nothing that it must not forget.
Free == PcValues \ {"report", "offer", "prepare", "ready", "blocked", "mark",
                    "assertFinalize", "finalize", "complete"}

\* The steps of a worker to the other points, with the same event.
Learns(w) ==
  \/ SendReport(w) \/ AskOffer(w) \/ Prepare(w) \/ SendReady(w) \/ SendBlocked(w)
  \/ Verify(w) \/ Reconcile(w) \/ VerifyDraft(w) \/ AssertFinalize(w) \/ Confirm(w)

LEMMA PointStep ==
  ASSUME TypeInv, [Next]_vars, NEW w \in Worker
  PROVE  \/ pc'[w] = pc[w] /\ claim'[w] = claim[w]
         \/ pc'[w] \in Free
         \/ pc'[w] = "report" /\ claim'[w] \in {reports[i] : i \in 1..Len(reports)}
         \/ Learns(w) /\ claim'[w] = claim[w]
  <1>. DEFINE Goal ==
         \/ pc'[w] = pc[w] /\ claim'[w] = claim[w]
         \/ pc'[w] \in Free
         \/ pc'[w] = "report" /\ claim'[w] \in {reports[i] : i \in 1..Len(reports)}
         \/ Learns(w) /\ claim'[w] = claim[w]
  <1>0. pc \in [Worker -> PcValues] /\ claim \in [Worker -> Event \cup {NoEvent}]
    BY DEF TypeInv, TypeOK
  <1>a. ASSUME UNCHANGED procs PROVE Goal
    BY <1>a DEF procs
  <1>b. ASSUME NEW v \in Worker, NEW label \in Free,
               GoTo(v, label) \/ \E e \in Event \cup {NoEvent} : Take(v, label, e)
        PROVE  Goal
    BY <1>0, <1>b DEF GoTo, Take
  <1>c. {"idle", "turn", "result", "markResult"} \cup (Saga \ {"assertFinalize", "finalize", "complete"})
          \subseteq Free
    BY DEF Free, PcValues, Telling, Saga
  <1>d. ASSUME NEW v \in Worker, EndPass(v) \/ Release(v) \/ ReadResult(v) PROVE Goal
    <2>1. CASE EndPass(v) \/ Release(v)
      <3>. HIDE DEF Goal
      <3>1. "idle" \in Free /\ "turn" \in Free
        BY DEF Free, PcValues
      <3>2. PICK label \in Free : Take(v, label, NoEvent)
        BY <2>1, <3>1 DEF EndPass, Release
      <3>. QED
        BY <1>b, <3>2
    <2>2. CASE ReadResult(v) /\ results # <<>>
      <3>1. Head(results) \in Event /\ "result" \in Free
        BY <2>2 DEF TypeInv, TypeOK, Free, PcValues, Telling
      <3>2. Take(v, "result", Head(results))
        BY <2>2 DEF ReadResult
      <3>. QED
        BY <1>b, <3>1, <3>2
    <2>. QED
      BY <1>d, <2>1, <2>2 DEF ReadResult
  <1>1. ASSUME NEW v \in Worker, StartPass(v) PROVE Goal
    <2>1. CASE Take(v, "report", Head(reports)) /\ reports # <<>>
      <3>1. Head(reports) = reports[1] /\ 1 \in 1..Len(reports)
        BY <2>1 DEF TypeInv, TypeOK
      <3>. QED
        BY <1>0, <2>1, <3>1 DEF Take
    <2>. QED
      BY <1>1, <1>d, <2>1 DEF StartPass
  <1>2. ASSUME NEW v \in Worker, Learns(v) PROVE Goal
    <2>1. CASE \E label \in PcValues : GoTo(v, label)
      BY <1>0, <1>2, <2>1 DEF GoTo
    <2>. QED
      BY <1>2, <1>d, <2>1 DEF Learns, SendReport, AskOffer, Prepare, SendReady, SendBlocked, Verify,
        Reconcile, VerifyDraft, AssertFinalize, Confirm, PcValues, Telling, Saga
  <1>3. ASSUME NEW v \in Worker, Mark(v) \/ MarkResult(v) \/ SendResult(v) \/ PassFails(v) \/ Crash(v)
        PROVE  Goal
    BY <1>3, <1>b, <1>c, <1>d DEF Mark, MarkResult, SendResult, PassFails, Crash
  <1>4. ASSUME NEW v \in Worker, ClaimSubmission(v) PROVE Goal
    <2>1. \/ GoTo(v, "idle")
          \/ \E label \in {"upload", "verify", "reconcile"}, e \in Event : Take(v, label, e)
      BY <1>4 DEF ClaimSubmission, FirstStep
    <2>. QED
      BY <1>b, <1>c, <2>1 DEF Saga
  <1>5. ASSUME NEW v \in Worker, Upload(v) \/ RecordDraft(v) \/ AssertSave(v) \/ Save(v) PROVE Goal
    BY <1>5, <1>b, <1>c, <1>d DEF Upload, RecordDraft, Record, AssertSave, Save, Call, Saga
  <1>6. ASSUME NEW v \in Worker, RecordFinalizing(v) \/ Finalize(v) \/ Complete(v) \/ Fail(v)
        PROVE  Goal
    BY <1>6, <1>b, <1>c, <1>d DEF RecordFinalizing, Record, Finalize, Call, Complete, Fail, Finish,
      Saga
  <1>7. ASSUME NEW e \in Event, ExecutionEnds(e) \/ Decide(e) \/ LeaseExpires(e) PROVE Goal
    BY <1>7, <1>a DEF ExecutionEnds, Decide, LeaseExpires
  <1>8. ASSUME NEW req \in requests, Execute(req) \/ Lose(req) PROVE Goal
    BY <1>8, <1>a DEF Execute, Lose
  <1>9. ASSUME NEW a \in Assignment,
               StudentSaves(a) \/ StudentSubmits(a) \/ RevertToDraft(a) \/ TeacherEdits(a)
        PROVE  Goal
    BY <1>9, <1>a DEF StudentSaves, StudentSubmits, RevertToDraft, TeacherEdits
  <1>10. CASE UNCHANGED vars
    BY <1>10, <1>a DEF vars
  <1>. QED
    BY <1>1, <1>2, <1>3, <1>4, <1>5, <1>6, <1>7, <1>8, <1>9, <1>10
      DEF Next, WorkerStep, PassStep, Learns

-----------------------------------------------------------------------------
(* What Moodle has held.                                                   *)

LEMMA HeldStep == TypeInv /\ HeldInv /\ [Next]_vars => HeldInv'
  <1>. SUFFICES ASSUME TypeInv, HeldInv, [Next]_vars PROVE HeldInv'
    OBVIOUS
  <1>. USE DEF TypeInv
  <1>. DEFINE PagesHeld == \A a \in Assignment :
                             moodle[a].file \in Event => <<moodle[a].mark, moodle[a].file>> \in held
  <1>a. ASSUME NEW a \in Assignment, NEW mark, NEW file, Becomes(a, mark, file)
        PROVE  held \subseteq held' /\ PagesHeld'
    <2>1. held \subseteq held'
      BY <1>a DEF Becomes
    <2>2. \A b \in Assignment : moodle'[b] = IF b = a THEN [moodle[a] EXCEPT !.mark = mark, !.file = file]
                                             ELSE moodle[b]
      BY <1>a DEF Becomes, TypeOK
    <2>3. moodle'[a].mark = mark /\ moodle'[a].file = file
      BY <2>2 DEF TypeOK, Page
    <2>4. file \in Event => <<mark, file>> \in held'
      BY <1>a DEF Becomes
    <2>. QED
      BY <2>1, <2>2, <2>3, <2>4 DEF HeldInv
  <1>b. ASSUME held' = held, moodle' = moodle PROVE held \subseteq held' /\ PagesHeld'
    BY <1>b DEF HeldInv
  <1>1. held \subseteq held' /\ PagesHeld'
    <2>1. ASSUME NEW w \in Worker, WorkerStep(w) \/ Crash(w) PROVE UNCHANGED <<held, moodle>>
      <3>1. CASE Looks(w)
        BY <3>1, LooksOnly DEF Reading, histories
      <3>2. CASE Prepare(w) \/ Mark(w) \/ MarkResult(w) \/ ClaimSubmission(w) \/ RecordDraft(w)
                   \/ RecordFinalizing(w) \/ Complete(w) \/ Fail(w)
        BY <3>2 DEF Prepare, Mark, MarkResult, ClaimSubmission, RecordDraft, RecordFinalizing,
          Record, Complete, Fail, Finish, Remote, Reading, histories
      <3>3. CASE Save(w) \/ Finalize(w)
        BY <3>3 DEF Save, Finalize, Call
      <3>. QED
        BY <2>1, <3>1, <3>2, <3>3 DEF WorkerStep, PassStep, Looks
    <2>2. ASSUME NEW e \in Event, ExecutionEnds(e) \/ Decide(e) \/ LeaseExpires(e)
          PROVE  UNCHANGED <<held, moodle>>
      BY <2>2 DEF ExecutionEnds, Decide, LeaseExpires, histories
    <2>3. ASSUME NEW req \in requests, Execute(req) \/ Lose(req)
          PROVE  \/ UNCHANGED <<held, moodle>>
                 \/ \E a \in Assignment : \E mark, file : Becomes(a, mark, file)
      <3>1. req[2][1] \in Assignment
        BY DEF TypeOK, Event
      <3>. QED
        BY <2>3, <3>1 DEF Execute, Lose, histories
    <2>4. ASSUME NEW a \in Assignment, StudentSaves(a) \/ StudentSubmits(a) \/ RevertToDraft(a)
          PROVE  \E mark, file : Becomes(a, mark, file)
      BY <2>4 DEF StudentSaves, StudentSubmits, RevertToDraft
    <2>5. ASSUME NEW a \in Assignment, TeacherEdits(a) PROVE held \subseteq held' /\ PagesHeld'
      <3>1. \A b \in Assignment : moodle'[b].mark = moodle[b].mark /\ moodle'[b].file = moodle[b].file
        BY <2>5 DEF TeacherEdits, TypeOK, Page
      <3>. QED
        BY <2>5, <3>1 DEF TeacherEdits, HeldInv, histories
    <2>6. CASE UNCHANGED vars
      BY <2>6, <1>b DEF vars, histories
    <2>. QED
      BY <2>1, <2>2, <2>3, <2>4, <2>5, <2>6, <1>a, <1>b DEF Next
  <1>2. ASSUME NEW w \in Worker
        PROVE  /\ pc'[w] \in {"assertFinalize", "finalize"} => <<"draft", claim'[w]>> \in held'
               /\ pc'[w] = "complete" => <<"submitted", claim'[w]>> \in held'
    <2>1. CASE pc'[w] = pc[w] /\ claim'[w] = claim[w]
      BY <1>1, <2>1 DEF HeldInv
    <2>2. CASE pc'[w] \in Free \cup {"report"}
      BY <2>2 DEF Free
    <2>3. CASE SendReport(w) \/ AskOffer(w) \/ Prepare(w) \/ SendReady(w) \/ SendBlocked(w)
      <3>1. pc'[w] \notin {"assertFinalize", "finalize", "complete"}
        BY <2>3 DEF SendReport, AskOffer, Prepare, SendReady, SendBlocked, EndPass, GoTo, Take, TypeOK
      <3>. QED
        BY <3>1
    <2>4. CASE claim'[w] = claim[w] /\ (Verify(w) \/ Reconcile(w) \/ VerifyDraft(w) \/ Confirm(w))
      <3>1. claim[w] \in Event /\ claim[w][1] \in Assignment
        BY <2>4 DEF Verify, Reconcile, VerifyDraft, Confirm, At, InHand, Saga, Event
      <3>2. \A mark : Shows(claim[w], mark) => <<mark, claim[w]>> \in held
        BY <3>1 DEF Shows, HeldInv
      <3>3. /\ pc'[w] \in {"assertFinalize", "finalize"} => Shows(claim[w], "draft")
            /\ pc'[w] = "complete" => Shows(claim[w], "submitted")
        BY <2>4 DEF Verify, Reconcile, VerifyDraft, Confirm, GoTo, TypeOK
      <3>. QED
        BY <1>1, <2>4, <3>2, <3>3
    <2>5. CASE claim'[w] = claim[w] /\ AssertFinalize(w)
      <3>1. pc'[w] \in {"finalize", "confirm"} /\ pc[w] = "assertFinalize"
        BY <2>5 DEF AssertFinalize, At, GoTo, TypeOK
      <3>. QED
        BY <1>1, <2>5, <3>1 DEF HeldInv
    <2>. QED
      BY <2>1, <2>2, <2>3, <2>4, <2>5, PointStep DEF Learns
  <1>3. ReceiptIsExact'
    BY <1>1, RowStep DEF HeldInv, ReceiptIsExact
  <1>4. FinalizeNeedsDraft'
    <2>1. ASSUME NEW e \in Event
          PROVE  \/ calls'[<<"finalize", e>>] = calls[<<"finalize", e>>]
                 \/ \E w \in Worker : Finalize(w) /\ claim[w] = e
      <3>1. CASE calls' = calls
        BY <3>1
      <3>2. ASSUME NEW w \in Worker, Finalize(w), claim[w] # e
            PROVE  calls'[<<"finalize", e>>] = calls[<<"finalize", e>>]
        BY <3>2 DEF Finalize, Call, TypeOK, Kinds
      <3>3. ASSUME NEW w \in Worker, Save(w)
            PROVE  calls'[<<"finalize", e>>] = calls[<<"finalize", e>>]
        BY <3>3 DEF Save, Call, TypeOK, Kinds
      <3>4. ASSUME NEW w \in Worker, Looks(w) PROVE calls' = calls
        BY <3>4, LooksOnly DEF Reading, histories
      <3>5. ASSUME NEW w \in Worker, WorkerStep(w), ~Looks(w), ~Save(w), ~Finalize(w)
            PROVE  calls' = calls
        BY <3>5 DEF WorkerStep, PassStep, Looks, Prepare, Mark, MarkResult, ClaimSubmission,
          RecordDraft, RecordFinalizing, Record, Complete, Fail, Finish, Remote, Reading, histories
      <3>6. ASSUME NEW d \in Event, ExecutionEnds(d) \/ Decide(d) \/ LeaseExpires(d)
            PROVE  calls' = calls
        BY <3>6 DEF ExecutionEnds, Decide, LeaseExpires, histories
      <3>7. ASSUME NEW req \in requests, Execute(req) \/ Lose(req) PROVE calls' = calls
        BY <3>7 DEF Execute, Lose, histories
      <3>8. ASSUME NEW a \in Assignment,
                   StudentSaves(a) \/ StudentSubmits(a) \/ RevertToDraft(a) \/ TeacherEdits(a)
            PROVE  calls' = calls
        BY <3>8 DEF StudentSaves, StudentSubmits, RevertToDraft, TeacherEdits, histories
      <3>9. CASE UNCHANGED vars
        BY <3>9 DEF vars, histories
      <3>. QED
        BY <3>1, <3>2, <3>3, <3>4, <3>5, <3>6, <3>7, <3>8, <3>9 DEF Next, Looks
    <2>. QED
      BY <1>1, <2>1 DEF HeldInv, FinalizeNeedsDraft, Finalize, At
  <1>. QED
    BY <1>1, <1>2, <1>3, <1>4 DEF HeldInv

-----------------------------------------------------------------------------
(* What the user has been told.                                            *)

Queued(e) == \E i \in 1..Len(reports) : reports[i] = e

\* Marking the oldest row takes that row from the queue, and no other.
LosesOnly(queue, e, rest) ==
  /\ \A i \in 1..Len(queue) : queue[i] = e \/ \E j \in 1..Len(rest) : rest[j] = queue[i]
  /\ \A j \in 1..Len(rest) : \E i \in 1..Len(queue) : queue[i] = rest[j]

LEMMA WithoutHead ==
  ASSUME NEW queue \in Seq(Event), NEW e
  PROVE  LosesOnly(queue, e, Without(queue, e))
  <1>1. CASE queue # <<>> /\ Head(queue) = e
    <2>1. /\ Without(queue, e) = Tail(queue)
          /\ Len(Tail(queue)) = Len(queue) - 1
          /\ \A j \in 1..Len(Tail(queue)) : Tail(queue)[j] = queue[j + 1]
          /\ queue[1] = e
      BY <1>1 DEF Without
    <2>2. ASSUME NEW i \in 1..Len(queue), queue[i] # e
          PROVE  \E j \in 1..Len(Tail(queue)) : Tail(queue)[j] = queue[i]
      <3>1. i - 1 \in 1..Len(Tail(queue)) /\ Tail(queue)[i - 1] = queue[i]
        BY <2>1, <2>2
      <3>. QED
        BY <3>1
    <2>3. ASSUME NEW j \in 1..Len(Tail(queue))
          PROVE  \E i \in 1..Len(queue) : queue[i] = Tail(queue)[j]
      <3>1. j + 1 \in 1..Len(queue) /\ queue[j + 1] = Tail(queue)[j]
        BY <2>1
      <3>. QED
        BY <3>1
    <2>. QED
      BY <2>1, <2>2, <2>3 DEF LosesOnly
  <1>2. CASE ~(queue # <<>> /\ Head(queue) = e)
    BY <1>2 DEF Without, LosesOnly
  <1>. QED
    BY <1>1, <1>2

\* Messages are never taken back, a report never changes, and it leaves the queue
\* only when a worker marks it.
LEMMA ReportStep ==
  ASSUME TypeInv, [Next]_vars, NEW e \in Event
  PROVE  /\ told \subseteq told'
         /\ report[e] # "none" => report'[e] = report[e]
         /\ Queued(e) => Queued(e)' \/ \E w \in Worker : Mark(w) /\ claim[w] = e
         /\ Queued(e)' => Queued(e) \/ report'[e] # "none"
         /\ report[e] = "none" /\ report'[e] # "none" => Queued(e)'
  <1>. DEFINE Goal ==
         /\ told \subseteq told'
         /\ report[e] # "none" => report'[e] = report[e]
         /\ Queued(e) => Queued(e)' \/ \E w \in Worker : Mark(w) /\ claim[w] = e
         /\ Queued(e)' => Queued(e) \/ report'[e] # "none"
         /\ report[e] = "none" /\ report'[e] # "none" => Queued(e)'
  <1>a. ASSUME UNCHANGED <<report, reports>>, told \subseteq told' PROVE Goal
    BY <1>a DEF Queued
  <1>1. ASSUME NEW d \in Event, ExecutionEnds(d) PROVE Goal
    <2>1. reports \in Seq(Event) /\ report \in [Event -> {"none", "succeeded", "failed"}]
      BY DEF TypeInv, TypeOK
    <2>2. /\ Len(reports') = Len(reports) + 1
          /\ reports'[Len(reports) + 1] = d
          /\ \A i \in 1..Len(reports) : reports'[i] = reports[i]
      BY <1>1, <2>1 DEF ExecutionEnds
    <2>3. \A i \in 1..Len(reports) + 1 : i \in 1..Len(reports) \/ i = Len(reports) + 1
      BY <2>1
    <2>4. Len(reports) + 1 \in 1..Len(reports') /\ \A i \in 1..Len(reports) : i \in 1..Len(reports')
      BY <2>1, <2>2
    <2>5. Queued(e)' <=> Queued(e) \/ e = d
      BY <2>2, <2>3, <2>4 DEF Queued
    <2>6. report[d] = "none" /\ report'[d] # "none" /\ (e # d => report'[e] = report[e])
      BY <1>1, <2>1 DEF ExecutionEnds
    <2>. QED
      BY <1>1, <2>5, <2>6 DEF ExecutionEnds
  <1>2. ASSUME NEW w \in Worker, Mark(w) PROVE Goal
    <2>1. /\ Queued(e) => Queued(e)' \/ claim[w] = e
          /\ Queued(e)' => Queued(e)
      <3>1. reports' = Without(reports, claim[w]) /\ reports \in Seq(Event)
        BY <1>2 DEF Mark, TypeInv, TypeOK
      <3>2. LosesOnly(reports, claim[w], reports')
        BY <3>1, WithoutHead
      <3>. QED
        BY <3>2 DEF Queued, LosesOnly
    <2>. QED
      BY <1>2, <2>1 DEF Mark
  <1>3. ASSUME NEW w \in Worker, Looks(w) PROVE Goal
    <2>1. told \subseteq told'
      BY <1>3 DEF Looks, StartPass, SendReport, AskOffer, SendReady, SendBlocked, SendResult,
        PassFails, Upload, AssertSave, Verify, Reconcile, VerifyDraft, AssertFinalize, Confirm,
        Crash, Remote, Tell
    <2>. QED
      BY <1>3, <1>a, <2>1, LooksOnly DEF Reading, tables, outboxes
  <1>4. ASSUME NEW w \in Worker, WorkerStep(w), ~Looks(w), ~Mark(w) PROVE Goal
    <2>1. UNCHANGED <<report, reports, told>>
      <3>1. CASE Prepare(w) \/ MarkResult(w) \/ ClaimSubmission(w) \/ RecordDraft(w)
                   \/ RecordFinalizing(w)
        BY <3>1 DEF Prepare, MarkResult, ClaimSubmission, RecordDraft, RecordFinalizing, Record,
          outboxes
      <3>2. CASE Complete(w) \/ Fail(w)
        BY <3>2 DEF Complete, Fail, Finish, Remote, Reading, tables, outboxes
      <3>3. CASE Save(w) \/ Finalize(w)
        BY <3>3 DEF Save, Finalize, Call, tables, outboxes
      <3>. QED
        BY <1>4, <3>1, <3>2, <3>3 DEF WorkerStep, PassStep, Looks
    <2>. QED
      BY <1>a, <2>1
  <1>5. ASSUME NEW d \in Event, Decide(d) \/ LeaseExpires(d) PROVE Goal
    BY <1>5, <1>a DEF Decide, LeaseExpires, outboxes
  <1>6. ASSUME NEW req \in requests, Execute(req) \/ Lose(req) PROVE Goal
    BY <1>6, <1>a DEF Execute, Lose, tables, outboxes
  <1>7. ASSUME NEW a \in Assignment,
               StudentSaves(a) \/ StudentSubmits(a) \/ RevertToDraft(a) \/ TeacherEdits(a)
        PROVE  Goal
    BY <1>7, <1>a DEF StudentSaves, StudentSubmits, RevertToDraft, TeacherEdits, tables, outboxes
  <1>8. CASE UNCHANGED vars
    BY <1>8, <1>a DEF vars, tables, outboxes
  <1>. QED
    BY <1>1, <1>2, <1>3, <1>4, <1>5, <1>6, <1>7, <1>8 DEF Next, Looks

LEMMA ToldStep == TypeInv /\ ToldInv /\ [Next]_vars => ToldInv'
  <1>. SUFFICES ASSUME TypeInv, ToldInv, [Next]_vars PROVE ToldInv'
    OBVIOUS
  <1>. DEFINE InPass == {"report", "offer", "prepare", "ready", "blocked", "mark"}
  <1>0. /\ \A e \in Event : Queued(e) => report[e] # "none"
        /\ told \subseteq told'
        /\ \A i \in 1..Len(reports) : reports[i] \in Event
        /\ \A w \in Worker : pc[w] \in Telling \cup Saga => claim[w] \in Event
    <2>1. \A e \in Event : Queued(e) => report[e] # "none"
      BY DEF ToldInv, Queued
    <2>2. told \subseteq told'
      BY ReportStep, TypeStep DEF TypeInv, TypeOK
    <2>. QED
      BY <2>1, <2>2 DEF TypeInv, TypeOK, InHand
  <1>1. \A i \in 1..Len(reports') : report'[reports'[i]] # "none"
    <2>1. \A e \in Event : Queued(e)' => report'[e] # "none"
      <3>1. ASSUME NEW e \in Event, Queued(e)' PROVE report'[e] # "none"
        <4>1. Queued(e) \/ report'[e] # "none"
          BY <3>1, ReportStep
        <4>2. report[e] # "none" => report'[e] = report[e]
          BY ReportStep
        <4>. QED
          BY <1>0, <4>1, <4>2
      <3>. QED
        BY <3>1
    <2>2. reports' \in Seq(Event)
      BY TypeStep DEF TypeInv, TypeOK
    <2>3. \A i \in 1..Len(reports') : reports'[i] \in Event
      BY <2>2
    <2>. QED
      BY <2>1, <2>3 DEF Queued
  <1>2. ASSUME NEW w \in Worker
        PROVE  /\ pc'[w] \in InPass => report'[claim'[w]] # "none"
               /\ pc'[w] \in InPass \ {"report"} => <<"report", claim'[w]>> \in told'
               /\ pc'[w] = "mark" /\ report'[claim'[w]] = "succeeded" =>
                    {<<"offer", claim'[w]>>, <<"blocked", claim'[w]>>} \cap told' # {}
    <2>0. pc[w] \in InPass => /\ claim[w] \in Event
                              /\ report[claim[w]] # "none"
                              /\ report'[claim[w]] = report[claim[w]]
      <3>1. pc[w] \in InPass => claim[w] \in Event /\ report[claim[w]] # "none"
        BY <1>0 DEF ToldInv, Telling
      <3>. QED
        BY <3>1, ReportStep
    <2>1. CASE pc'[w] = pc[w] /\ claim'[w] = claim[w]
      BY <1>0, <2>0, <2>1 DEF ToldInv
    <2>2. CASE pc'[w] \in Free
      BY <2>2 DEF Free
    <2>3. CASE pc'[w] = "report" /\ claim'[w] \in {reports[i] : i \in 1..Len(reports)}
      <3>1. claim'[w] \in Event /\ report[claim'[w]] # "none"
        BY <1>0, <2>3 DEF ToldInv
      <3>. QED
        BY <2>3, <3>1, ReportStep
    <2>4. CASE claim'[w] = claim[w] /\ SendReport(w)
      <3>1. /\ pc[w] = "report" /\ <<"report", claim[w]>> \in told'
            /\ pc'[w] \in {"mark", "turn", "offer"}
            /\ pc'[w] = "mark" => report[claim[w]] = "failed"
        BY <2>4 DEF SendReport, At, Tell, GoTo, EndPass, Take, TypeInv, TypeOK
      <3>. QED
        BY <2>0, <2>4, <3>1
    <2>5. CASE claim'[w] = claim[w] /\ (AskOffer(w) \/ Prepare(w))
      <3>1. pc[w] \in {"offer", "prepare"} /\ pc'[w] \in {"prepare", "blocked", "ready"}
        BY <2>5 DEF AskOffer, Prepare, At, GoTo, TypeInv, TypeOK
      <3>. QED
        BY <1>0, <2>0, <2>5, <3>1 DEF ToldInv
    <2>6. CASE claim'[w] = claim[w] /\ (SendReady(w) \/ SendBlocked(w))
      <3>1. /\ pc[w] \in {"ready", "blocked"} /\ pc'[w] = "mark"
            /\ <<"offer", claim[w]>> \in told' \/ <<"blocked", claim[w]>> \in told'
        BY <2>6 DEF SendReady, SendBlocked, At, Tell, GoTo, TypeInv, TypeOK
      <3>. QED
        BY <1>0, <2>0, <2>6, <3>1 DEF ToldInv
    <2>7. CASE Verify(w) \/ Reconcile(w) \/ VerifyDraft(w) \/ AssertFinalize(w) \/ Confirm(w)
      <3>1. pc'[w] \notin InPass
        BY <2>7 DEF Verify, Reconcile, VerifyDraft, AssertFinalize, Confirm, GoTo, TypeInv, TypeOK
      <3>. QED
        BY <3>1
    <2>. QED
      BY <2>1, <2>2, <2>3, <2>4, <2>5, <2>6, <2>7, PointStep DEF Learns
  <1>3. DeliveredMeansTold'
    <2>. DEFINE Told(e) == /\ <<"report", e>> \in told
                           /\ report[e] = "succeeded" => {<<"offer", e>>, <<"blocked", e>>} \cap told # {}
    <2>1. ASSUME NEW e \in Event, report'[e] # "none", ~Queued(e)' PROVE Told(e)'
      <3>1. report[e] # "none" /\ report'[e] = report[e]
        BY <2>1, ReportStep
      <3>2. CASE ~Queued(e)
        <4>1. Told(e)
          BY <3>1, <3>2 DEF ToldInv, DeliveredMeansTold, Queued
        <4>. QED
          BY <1>0, <3>1, <4>1
      <3>3. CASE \E w \in Worker : Mark(w) /\ claim[w] = e
        <4>1. Told(e)
          BY <3>3 DEF ToldInv, Mark, At
        <4>. QED
          BY <1>0, <3>1, <4>1
      <3>. QED
        BY <2>1, <3>2, <3>3, ReportStep
    <2>. QED
      BY <2>1 DEF DeliveredMeansTold, Queued
  <1>. QED
    BY <1>1, <1>2, <1>3 DEF ToldInv

-----------------------------------------------------------------------------
(* Theorems.                                                               *)

\* What holds together of every reachable state.
THEOREM Inductive == Spec => [](TypeInv /\ SaveInv /\ HeldInv /\ ToldInv)
  <1>1. TypeInv /\ SaveInv /\ HeldInv /\ ToldInv /\ [Next]_vars
          => (TypeInv /\ SaveInv /\ HeldInv /\ ToldInv)'
    BY TypeStep, SaveStep, HeldStep, ToldStep
  <1>. QED
    BY InitInv, <1>1, PTL DEF Spec

\* The tables, the worker's place in its cycle and Moodle's pages keep their
\* types, the CHECK constraints of the submissions table among them.
THEOREM TypeCorrect == Spec => []TypeOK
  <1>1. TypeInv => TypeOK
    BY DEF TypeInv
  <1>. QED
    BY Inductive, <1>1, PTL

\* However many workers die and are replaced, a report is saved once.
THEOREM SavedOnce == Spec => []SaveOnce
  <1>1. SaveInv => SaveOnce
    BY DEF SaveInv
  <1>. QED
    BY Inductive, <1>1, PTL

\* A submission is recorded only if Moodle held exactly that report as submitted.
THEOREM ReceiptsExact == Spec => []ReceiptIsExact
  <1>1. HeldInv => ReceiptIsExact
    BY DEF HeldInv
  <1>. QED
    BY Inductive, <1>1, PTL

\* No finalization is requested before Moodle held exactly the report as a draft;
\* what the draft is when the request is carried out is not claimed.
THEOREM FinalizesAfterDraft == Spec => []FinalizeNeedsDraft
  <1>1. HeldInv => FinalizeNeedsDraft
    BY DEF HeldInv
  <1>. QED
    BY Inductive, <1>1, PTL

\* A report that is marked as delivered has reached the user, with its offer.
THEOREM DeliveredTold == Spec => []DeliveredMeansTold
  <1>1. ToldInv => DeliveredMeansTold
    BY DEF ToldInv
  <1>. QED
    BY Inductive, <1>1, PTL

\* A settled submission and what the user is told of it never change.
THEOREM SettledForGood == Spec => SettledStays
  <1>1. TypeInv /\ [Next]_vars =>
          [\A e \in Event : row[e].status \in Settled =>
             row'[e] = row[e] /\ outcome'[e] = outcome[e]]_vars
    BY RowStep
  <1>. QED
    BY Inductive, <1>1, PTL DEF Spec, SettledStays
=============================================================================

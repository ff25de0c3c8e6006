------------------------- MODULE ApprovedWorkProofs -------------------------
(***************************************************************************)
(* Proofs about ApprovedWork, for any number of jobs, workers and attempts.*)
(***************************************************************************)
EXTENDS ApprovedWork, FiniteSetTheorems, TLAPS

-----------------------------------------------------------------------------
(* The inductive invariant.                                                *)

\* A claim is a copy of its row, and stays one for as long as it is owned.
Fits(w) ==
  LET c == claim[w]
      row == work[c.job]
  IN  /\ c \in WorkClaim
      /\ c.status \in {"pending", "lab_pending", "ready", "failed"}
      /\ c.status \in {"lab_pending", "failed"} => c.handle
      /\ c.status = "ready" => c.job \in Central \/ c.handle
      /\ c.handle => c.job \notin Central /\ row.handle
      /\ Owned(w) => row.status = c.status /\ row.handle = c.handle /\ row.error = c.error

Claims == \A w \in Worker : pc[w] # "idle" => Fits(w)

Kept == {"owned", "deregistered"}

\* The lab and the image of the job are gone.
TakenDown(j) == lab[j] = "terminated" /\ (j \in Imported => image[j] = "deregistered")

\* An outcome follows from the claim and tells what was done.
ResultFits(w) ==
  LET c == claim[w] IN
  /\ result[w] = "cleaned" => IsCleanup(c) /\ TakenDown(c.job)
  /\ result[w] = "invalid" => c.status = "pending" /\ c.job \in Central
  /\ result[w] = "ready" => (c.status = "pending" /\ c.job \in Central) \/ c.status = "lab_pending"
  /\ result[w] = "provisioned" =>
       /\ c.status = "pending" /\ c.job \notin Central
       /\ c.job \in Imported => image[c.job] \in Kept
  /\ result[w] \in {"succeeded", "failed"} => c.status = "ready" /\ ~IsCleanup(c)
  /\ result[w] = "wait" => ~IsCleanup(c)

\* What a worker at this point has done before.
DoneBefore(w) ==
  /\ pc[w] \in {"image", "snapshots"} =>
       IsCleanup(claim[w]) /\ lab[claim[w].job] = "terminated"
  /\ pc[w] = "snapshots" => image[claim[w].job] = "deregistered"
  /\ pc[w] = "provision" =>
       /\ claim[w].status = "pending" /\ claim[w].job \notin Central
       /\ image[claim[w].job] \in Kept
  /\ pc[w] = "settle" => ResultFits(w)

Points == \A w \in Worker : DoneBefore(w)

\* The history of a row shows in EC2.
Rows ==
  \A j \in Job :
    /\ work[j].status = "absent" => ~work[j].live
    /\ work[j].handle /\ j \in Imported => image[j] \in Kept
    /\ work[j].error = "execution_complete" => work[j].handle
    /\ work[j].status = "cleaned" /\ j \notin Central => TakenDown(j)
    /\ image[j] # "none" => j \in Imported

\* The item has a lab, or a worker that owns it is making one.
UsesLab(j) ==
  \/ work[j].handle /\ work[j].status # "cleaned"
  \/ j \notin Central /\ work[j].status = "pending" /\ work[j].live

Exclusive == \A j, k \in Job : UsesLab(j) /\ UsesLab(k) => j = k

Inv == TypeOK /\ Claims /\ Points /\ Rows /\ RecordedMeansSettled /\ Exclusive

LEMMA InitInv == Init => Inv
  <1>. SUFFICES ASSUME Init PROVE Inv
    OBVIOUS
  <1>1. AbsentRow \in Row
    BY JobsAssumption DEF AbsentRow, Row, Statuses, ErrorCodes, NoWorker
  <1>2. \A j \in Job : work[j] = AbsentRow
    BY DEF Init
  <1>3. TypeOK
    BY <1>1, <1>2 DEF Init, TypeOK, RowChecks, AbsentRow, PcValues, Results
  <1>4. Claims /\ Points
    BY DEF Init, Claims, Points, DoneBefore
  <1>5. Rows /\ RecordedMeansSettled /\ Exclusive
    BY <1>2 DEF Init, Rows, RecordedMeansSettled, Exclusive, UsesLab, AbsentRow
  <1>. QED
    BY <1>3, <1>4, <1>5 DEF Inv

-----------------------------------------------------------------------------
(* EC2.                                                                    *)

\* What is terminated stays terminated, what is deregistered stays so, and an
\* image that was owned is never an unknown one again.
CloudForward ==
  \A j \in Job :
    /\ lab[j] = "terminated" => lab'[j] = "terminated"
    /\ image[j] = "deregistered" => image'[j] = "deregistered"
    /\ image[j] \in Kept => image'[j] \in Kept
    /\ image'[j] # "none" => j \in Imported

CloudTypes ==
  /\ lab \in [Job -> {"none", "running", "terminated"}]
  /\ image \in [Job -> {"none", "importing", "broken", "imported", "owned", "deregistered"}]
  /\ snapshots \subseteq Job

\* The calls of a worker on its claim, before it settles it.
Calls(w) ==
  \/ Teardown(w) \/ DeregisterImage(w) \/ DeleteSnapshots(w) \/ ValidateEnvelope(w)
  \/ PrepareFails(w) \/ EnsureImage(w) \/ Provision(w) \/ CheckLab(w) \/ Execute(w)

LEMMA CallsKeep ==
  ASSUME NEW w \in Worker, Calls(w)
  PROVE  pc[w] # "idle" /\ pc[w] # "settle" /\ UNCHANGED <<table, claim>>
BY DEF Calls, Teardown, DeregisterImage, DeleteSnapshots, ValidateEnvelope, PrepareFails,
  EnsureImage, Provision, CheckLab, Execute, Acting, ReadyToSettle, GoTo

LEMMA CloudStep == Inv /\ [Next]_vars => CloudForward /\ CloudTypes'
  <1>. SUFFICES ASSUME Inv, [Next]_vars PROVE CloudForward /\ CloudTypes'
    OBVIOUS
  <1>. USE DEF Inv
  <1>0. /\ CloudTypes
        /\ \A j \in Job : image[j] # "none" => j \in Imported
    BY DEF TypeOK, CloudTypes, Rows
  <1>1. ASSUME UNCHANGED cloud PROVE CloudForward /\ CloudTypes'
    BY <1>0, <1>1 DEF cloud, CloudForward, CloudTypes
  <1>2. ASSUME NEW w \in Worker, Calls(w) PROVE CloudForward /\ CloudTypes'
    <2>1. claim[w].job \in Job
      BY <1>2, CallsKeep DEF Claims, Fits, WorkClaim
    <2>2. CASE Teardown(w)
      BY <1>0, <2>1, <2>2 DEF Teardown, CloudForward, CloudTypes
    <2>3. CASE DeregisterImage(w)
      BY <1>0, <2>1, <2>3 DEF DeregisterImage, CloudForward, CloudTypes, Kept
    <2>4. CASE DeleteSnapshots(w)
      BY <1>0, <2>1, <2>4 DEF DeleteSnapshots, CloudForward, CloudTypes
    <2>5. CASE EnsureImage(w)
      BY <1>0, <2>1, <2>5 DEF EnsureImage, Acting, CloudForward, CloudTypes, Kept
    <2>6. CASE Provision(w)
      BY <1>0, <2>1, <2>6 DEF Provision, Launched, CloudForward, CloudTypes
    <2>7. CASE ValidateEnvelope(w) \/ PrepareFails(w) \/ CheckLab(w) \/ Execute(w)
      BY <1>1, <2>7 DEF ValidateEnvelope, PrepareFails, CheckLab, Execute
    <2>. QED
      BY <1>2, <2>2, <2>3, <2>4, <2>5, <2>6, <2>7 DEF Calls
  <1>3. ASSUME NEW w \in Worker, ClaimWork(w) \/ Settle(w) \/ Crash(w)
        PROVE  CloudForward /\ CloudTypes'
    BY <1>1, <1>3 DEF ClaimWork, Settle, Crash
  <1>4. ASSUME NEW j \in Job, Approve(j) \/ BecomesAvailable(j) \/ CleanupDue(j) \/ LeaseExpires(j)
        PROVE  CloudForward /\ CloudTypes'
    BY <1>1, <1>4 DEF Approve, BecomesAvailable, CleanupDue, LeaseExpires
  <1>5. ASSUME NEW j \in Job, ImportEnds(j) PROVE CloudForward /\ CloudTypes'
    BY <1>0, <1>5 DEF ImportEnds, CloudForward, CloudTypes, Kept
  <1>6. ASSUME NEW j \in Job, Reap(j) PROVE CloudForward /\ CloudTypes'
    BY <1>0, <1>6 DEF Reap, CloudForward, CloudTypes
  <1>7. CASE UNCHANGED vars
    BY <1>1, <1>7 DEF vars
  <1>. QED
    BY <1>2, <1>3, <1>4, <1>5, <1>6, <1>7 DEF Next, WorkerStep, Calls

-----------------------------------------------------------------------------
(* Frames: what other actors' steps leave of a claim.                      *)

LEMMA ClaimedJob == Inv => \A w \in Worker : pc[w] # "idle" => claim[w].job \in Job
BY DEF Inv, Claims, Fits, WorkClaim

LEMMA FitsOn ==
  ASSUME NEW w \in Worker, Fits(w), claim'[w] = claim[w],
         work[claim[w].job].handle => work'[claim[w].job].handle,
         Owned(w)' => /\ Owned(w)
                      /\ work'[claim[w].job].status = work[claim[w].job].status
                      /\ work'[claim[w].job].handle = work[claim[w].job].handle
                      /\ work'[claim[w].job].error = work[claim[w].job].error
  PROVE  Fits(w)'
BY DEF Fits

LEMMA DoneOn ==
  ASSUME NEW w \in Worker, DoneBefore(w), CloudForward, pc[w] # "idle" => claim[w].job \in Job,
         pc'[w] = pc[w], claim'[w] = claim[w], result'[w] = result[w]
  PROVE  DoneBefore(w)'
  <1>1. CASE pc[w] = "settle"
    <2>1. ResultFits(w)'
      BY <1>1 DEF DoneBefore, ResultFits, CloudForward, TakenDown, IsCleanup
    <2>. QED
      BY <1>1, <2>1 DEF DoneBefore
  <1>2. CASE pc[w] # "settle"
    BY <1>2 DEF DoneBefore, CloudForward, IsCleanup
  <1>. QED
    BY <1>1, <1>2

\* Nothing but the passing of time happens to this row.
Same(j) ==
  /\ work'[j].status = work[j].status /\ work'[j].handle = work[j].handle
  /\ work'[j].error = work[j].error /\ work'[j].holder = work[j].holder
  /\ work'[j].live => work[j].live

LEMMA QuietStep ==
  ASSUME Inv, CloudForward, recorded' = recorded, work' \in [Job -> Row],
         \A j \in Job : Same(j)
  PROVE  /\ \A j \in Job : RowChecks(j)'
         /\ Rows' /\ RecordedMeansSettled' /\ Exclusive'
         /\ \A w \in Worker : pc[w] # "idle" /\ claim'[w] = claim[w] => Fits(w)'
  <1>. USE DEF Inv
  <1>1. \A j \in Job : RowChecks(j)'
    BY DEF TypeOK, RowChecks, Same
  <1>2. Rows'
    BY DEF Rows, Same, CloudForward, TakenDown
  <1>3. RecordedMeansSettled'
    BY DEF RecordedMeansSettled, Same, TypeOK
  <1>4. Exclusive'
    BY DEF Exclusive, UsesLab, Same
  <1>5. ASSUME NEW w \in Worker, pc[w] # "idle", claim'[w] = claim[w] PROVE Fits(w)'
    <2>1. claim[w].job \in Job /\ Fits(w)
      BY <1>5, ClaimedJob DEF Claims
    <2>. QED
      BY <1>5, <2>1, FitsOn DEF Same, Owned
  <1>. QED
    BY <1>1, <1>2, <1>3, <1>4, <1>5

\* Steps in which a worker changes neither the table nor its claim.
LEMMA SameTable ==
  ASSUME Inv, UNCHANGED table
  PROVE  work' \in [Job -> Row] /\ recorded' = recorded /\ \A j \in Job : Same(j)
BY DEF Inv, TypeOK, table, Same

-----------------------------------------------------------------------------
(* The steps.                                                              *)

LEMMA CallsStep == ASSUME Inv, [Next]_vars, NEW w \in Worker, Calls(w) PROVE Inv'
  <1>. USE DEF Inv
  <1>1. /\ pc[w] # "idle" /\ pc[w] # "settle" /\ UNCHANGED <<table, claim>>
        /\ CloudForward /\ CloudTypes'
        /\ claim[w].job \in Job /\ Fits(w) /\ DoneBefore(w)
    BY CallsKeep, CloudStep, ClaimedJob DEF Claims, Points
  <1>. DEFINE c == claim[w]
  <1>2. /\ \A j \in Job : RowChecks(j)'
        /\ Rows' /\ RecordedMeansSettled' /\ Exclusive'
        /\ \A v \in Worker : pc[v] # "idle" => Fits(v)'
    BY <1>1, QuietStep, SameTable
  <1>3. \E label \in PcValues, outcome \in Results :
          /\ pc' = [pc EXCEPT ![w] = label]
          /\ result' = [result EXCEPT ![w] = outcome]
    <2>1. ASSUME NEW outcome \in Results, ReadyToSettle(w, outcome)
          PROVE  \E label \in PcValues, o \in Results :
                   /\ pc' = [pc EXCEPT ![w] = label] /\ result' = [result EXCEPT ![w] = o]
      BY <2>1 DEF ReadyToSettle, PcValues
    <2>2. ASSUME NEW label \in PcValues, GoTo(w, label)
          PROVE  \E l \in PcValues, outcome \in Results :
                   /\ pc' = [pc EXCEPT ![w] = l] /\ result' = [result EXCEPT ![w] = outcome]
      <3>1. result' = [result EXCEPT ![w] = result[w]] /\ result[w] \in Results
        BY <2>2 DEF GoTo, TypeOK
      <3>. QED
        BY <2>2, <3>1 DEF GoTo
    <2>3. CASE Teardown(w) \/ DeregisterImage(w) \/ DeleteSnapshots(w)
      BY <2>1, <2>2, <2>3 DEF Teardown, DeregisterImage, DeleteSnapshots, Results, PcValues
    <2>4. CASE ValidateEnvelope(w) \/ PrepareFails(w) \/ EnsureImage(w) \/ Provision(w)
      BY <2>1, <2>2, <2>4 DEF ValidateEnvelope, PrepareFails, EnsureImage, Provision, Results, PcValues
    <2>5. CASE CheckLab(w) \/ Execute(w)
      BY <2>1, <2>5 DEF CheckLab, Execute, Results
    <2>. QED
      BY <2>3, <2>4, <2>5 DEF Calls
  <1>4. /\ pc' \in [Worker -> PcValues] /\ result' \in [Worker -> Results]
        /\ \A v \in Worker \ {w} : pc'[v] = pc[v] /\ result'[v] = result[v]
    BY <1>3 DEF TypeOK
  <1>5. TypeOK'
    BY <1>1, <1>2, <1>4 DEF TypeOK, table, CloudTypes
  <1>6. Claims'
    BY <1>1, <1>2, <1>4 DEF Claims
  <1>7. \A v \in Worker \ {w} : DoneBefore(v)'
    BY <1>1, <1>4, DoneOn, ClaimedJob DEF Points
  \* The worker itself.
  <1>a. ASSUME NEW outcome, ReadyToSettle(w, outcome)
        PROVE  pc'[w] = "settle" /\ result'[w] = outcome /\ claim'[w] = c
    BY <1>a DEF ReadyToSettle, TypeOK
  <1>b. ASSUME NEW label, GoTo(w, label) PROVE pc'[w] = label /\ claim'[w] = c
    BY <1>b DEF GoTo, TypeOK
  <1>c. ASSUME ReadyToSettle(w, "error") PROVE DoneBefore(w)'
    BY <1>a, <1>c DEF DoneBefore, ResultFits
  <1>d. /\ IsCleanup(c) => c.handle /\ c.status # "pending" /\ c.job \notin Central
        /\ c.handle /\ c.job \in Imported => image[c.job] \in Kept
    BY <1>1 DEF IsCleanup, Fits, Rows
  <1>8. DoneBefore(w)'
    <2>1. CASE Teardown(w)
      <3>1. CASE /\ lab' = [lab EXCEPT ![c.job] = "terminated"]
                 /\ IF c.job \in Imported THEN GoTo(w, "image") ELSE ReadyToSettle(w, "cleaned")
        <4>1. lab'[c.job] = "terminated" /\ IsCleanup(c)
          BY <1>1, <2>1, <3>1 DEF Teardown, TypeOK
        <4>2. CASE c.job \in Imported
          BY <1>b, <3>1, <4>1, <4>2 DEF DoneBefore, IsCleanup
        <4>3. CASE c.job \notin Imported
          BY <1>a, <3>1, <4>1, <4>3 DEF DoneBefore, ResultFits, TakenDown, IsCleanup
        <4>. QED
          BY <4>2, <4>3
      <3>. QED
        BY <1>c, <2>1, <3>1 DEF Teardown
    <2>2. CASE DeregisterImage(w)
      <3>0. IsCleanup(c) /\ lab[c.job] = "terminated" /\ lab'[c.job] = "terminated"
        BY <1>1, <2>2 DEF DeregisterImage, DoneBefore, CloudForward
      <3>1. CASE image[c.job] # "owned" /\ ReadyToSettle(w, "cleaned")
        <4>1. c.job \in Imported => image'[c.job] = "deregistered"
          BY <1>1, <1>d, <3>0, <3>1 DEF Kept, CloudForward
        <4>. QED
          BY <1>a, <3>0, <3>1, <4>1 DEF DoneBefore, ResultFits, TakenDown, IsCleanup
      <3>2. CASE image' = [image EXCEPT ![c.job] = "deregistered"] /\ GoTo(w, "snapshots")
        <4>1. image'[c.job] = "deregistered"
          BY <1>1, <3>2 DEF TypeOK
        <4>. QED
          BY <1>b, <3>0, <3>2, <4>1 DEF DoneBefore, IsCleanup
      <3>. QED
        BY <1>c, <2>2, <3>1, <3>2 DEF DeregisterImage
    <2>3. CASE DeleteSnapshots(w)
      <3>0. /\ IsCleanup(c) /\ lab'[c.job] = "terminated" /\ image'[c.job] = "deregistered"
        BY <1>1, <2>3 DEF DeleteSnapshots, DoneBefore, CloudForward
      <3>1. CASE ReadyToSettle(w, "cleaned")
        BY <1>a, <3>0, <3>1 DEF DoneBefore, ResultFits, TakenDown, IsCleanup
      <3>. QED
        BY <1>c, <2>3, <3>1 DEF DeleteSnapshots
    <2>4. CASE ValidateEnvelope(w) \/ PrepareFails(w) \/ Execute(w)
      <3>1. PICK outcome \in {"ready", "invalid", "wait", "succeeded", "failed", "error"} :
              /\ ReadyToSettle(w, outcome) /\ ~IsCleanup(c)
              /\ outcome \in {"ready", "invalid"} => c.status = "pending" /\ c.job \in Central
              /\ outcome \in {"succeeded", "failed"} => c.status = "ready"
        BY <2>4 DEF ValidateEnvelope, PrepareFails, Execute, Acting
      <3>. QED
        BY <1>a, <3>1 DEF DoneBefore, ResultFits, IsCleanup
    <2>5. CASE CheckLab(w)
      <3>1. PICK outcome \in {"ready", "wait", "lab_failed", "error"} :
              ReadyToSettle(w, outcome) /\ ~IsCleanup(c) /\ c.status = "lab_pending"
        BY <2>5 DEF CheckLab, Acting
      <3>. QED
        BY <1>a, <3>1 DEF DoneBefore, ResultFits, IsCleanup
    <2>6. CASE EnsureImage(w)
      <3>0. c.status = "pending" /\ c.job \in Imported /\ c.job \notin Central /\ ~IsCleanup(c)
        BY <2>6, JobsAssumption DEF EnsureImage, Acting
      <3>1. CASE ReadyToSettle(w, "wait")
        BY <1>a, <3>0, <3>1 DEF DoneBefore, ResultFits, IsCleanup
      <3>2. CASE image' = [image EXCEPT ![c.job] = "owned"] /\ GoTo(w, "provision")
        <4>1. image'[c.job] \in Kept
          BY <1>1, <3>2 DEF TypeOK, Kept
        <4>. QED
          BY <1>b, <3>0, <3>2, <4>1 DEF DoneBefore
      <3>. QED
        BY <1>c, <2>6, <3>1, <3>2 DEF EnsureImage
    <2>7. CASE Provision(w)
      <3>1. CASE ReadyToSettle(w, "provisioned")
        <4>1. /\ c.status = "pending" /\ c.job \notin Central
              /\ c.job \in Imported => image'[c.job] \in Kept
          BY <1>1, <2>7 DEF Provision, Acting, DoneBefore, CloudForward
        <4>. QED
          BY <1>a, <3>1, <4>1 DEF DoneBefore, ResultFits
      <3>. QED
        BY <1>c, <2>7, <3>1 DEF Provision
    <2>. QED
      BY <2>1, <2>2, <2>3, <2>4, <2>5, <2>6, <2>7 DEF Calls
  <1>. QED
    BY <1>2, <1>5, <1>6, <1>7, <1>8 DEF Points

\* How the row r compares with the row before it, old, that the claim c was on.
Settled(old, c, outcome, r) ==
  /\ r \in Row /\ r.holder = NoWorker /\ r.live = FALSE
  /\ r.handle <=> old.handle \/ outcome = "provisioned"
  /\ outcome = "cleaned" => r.status = "cleaned" /\ r.error = "none"
  /\ outcome = "invalid" => r.status = "failed" /\ r.error = "other"
  /\ outcome = "ready" => r.status = "ready" /\ r.error = "agent_ready"
  /\ outcome = "provisioned" => r.status = "lab_pending" /\ r.error = "none"
  /\ outcome = "wait" => r.status = old.status /\ r.error = "other"
  /\ outcome \in {"succeeded", "failed"} =>
       \/ ~c.handle /\ r.status = "cleaned" /\ r.error = "none"
       \/ c.handle /\ r.status = old.status /\ r.error = "execution_complete"
       \/ c.handle /\ r.status = "failed" /\ r.error = "other"
  /\ outcome \in {"none", "lab_failed", "error"} =>
       \/ /\ IsCleanup(c) /\ r.status = old.status /\ r.error \in {c.error, "other"}
          /\ c.error = "execution_complete" => r.error = c.error
       \/ ~IsCleanup(c) /\ r.status \in {old.status, "failed"} /\ r.error = "other"

LEMMA AfterRow ==
  ASSUME NEW row \in Row, NEW c \in WorkClaim, NEW outcome \in Results
  PROVE  Settled(row, c, outcome, After(row, c, outcome))
  <1>. USE DEF Settled
  <1>. DEFINE free == [row EXCEPT !.holder = NoWorker, !.live = FALSE, !.later = FALSE]
  <1>1. /\ free \in Row /\ free.holder = NoWorker /\ free.live = FALSE
        /\ free.handle = row.handle /\ free.status = row.status /\ free.error = row.error
    BY DEF Row, NoWorker
  <1>. HIDE DEF free
  <1>2. CASE outcome = "cleaned"
    <2>1. After(row, c, outcome) = [free EXCEPT !.status = "cleaned", !.error = "none"]
      BY <1>2 DEF After, free
    <2>. QED
      BY <1>1, <1>2, <2>1 DEF Row, Statuses, ErrorCodes
  <1>3. CASE outcome = "invalid"
    <2>1. After(row, c, outcome) = [free EXCEPT !.status = "failed", !.error = "other"]
      BY <1>3 DEF After, free
    <2>. QED
      BY <1>1, <1>3, <2>1 DEF Row, Statuses, ErrorCodes
  <1>4. CASE outcome = "ready"
    <2>1. After(row, c, outcome) = [free EXCEPT !.status = "ready", !.error = "agent_ready"]
      BY <1>4 DEF After, free
    <2>. QED
      BY <1>1, <1>4, <2>1 DEF Row, Statuses, ErrorCodes
  <1>5. CASE outcome = "provisioned"
    <2>1. After(row, c, outcome) =
            [free EXCEPT !.status = "lab_pending", !.handle = TRUE, !.error = "none"]
      BY <1>5 DEF After, free
    <2>. QED
      BY <1>1, <1>5, <2>1 DEF Row, Statuses, ErrorCodes
  <1>6. CASE outcome = "wait"
    <2>1. After(row, c, outcome) = [free EXCEPT !.later = TRUE, !.error = "other"]
      BY <1>6 DEF After, free
    <2>. QED
      BY <1>1, <1>6, <2>1 DEF Row, Statuses, ErrorCodes
  <1>7. CASE outcome \in {"succeeded", "failed"}
    <2>1. After(row, c, outcome) = AfterExecution(free, c, outcome)
      BY <1>7 DEF After, free
    <2>2. c.handle \in BOOLEAN
      BY DEF WorkClaim
    <2>3. CASE ~c.handle
      <3>1. After(row, c, outcome) = [free EXCEPT !.status = "cleaned", !.error = "none"]
        BY <2>1, <2>3 DEF AfterExecution
      <3>. QED
        BY <1>1, <1>7, <2>3, <3>1 DEF Row, Statuses, ErrorCodes
    <2>4. CASE c.handle /\ outcome = "succeeded"
      <3>1. After(row, c, outcome) =
              [free EXCEPT !.later = TRUE, !.error = "execution_complete", !.due = "running"]
        BY <2>1, <2>4 DEF AfterExecution
      <3>. QED
        BY <1>1, <1>7, <2>4, <3>1 DEF Row, Statuses, ErrorCodes
    <2>5. CASE c.handle /\ outcome = "failed"
      <3>1. After(row, c, outcome) = [free EXCEPT !.status = "failed", !.error = "other", !.due = "past"]
        BY <2>1, <2>5 DEF AfterExecution
      <3>. QED
        BY <1>1, <1>7, <2>5, <3>1 DEF Row, Statuses, ErrorCodes
    <2>. QED
      BY <1>7, <2>2, <2>3, <2>4, <2>5
  <1>8. CASE outcome \in {"none", "lab_failed", "error"}
    <2>1. After(row, c, outcome) = AfterError(free, c)
      BY <1>8 DEF After, free
    <2>2. CASE IsCleanup(c)
      <3>. DEFINE code == IF c.error = "execution_complete" THEN c.error ELSE "other"
      <3>1. After(row, c, outcome) = [free EXCEPT !.later = TRUE, !.error = code]
        BY <2>1, <2>2 DEF AfterError
      <3>2. code \in ErrorCodes
        BY DEF ErrorCodes
      <3>. QED
        BY <1>1, <1>8, <2>2, <3>1, <3>2 DEF Row
    <2>3. CASE ~IsCleanup(c)
      <3>. DEFINE status == IF c.attempts >= MaxAttempts THEN "failed" ELSE free.status
      <3>1. After(row, c, outcome) = [free EXCEPT !.later = TRUE, !.error = "other", !.status = status]
        BY <2>1, <2>3 DEF AfterError
      <3>2. status \in {free.status, "failed"}
        OBVIOUS
      <3>. HIDE DEF status
      <3>. QED
        BY <1>1, <1>8, <2>3, <3>1, <3>2 DEF Row, Statuses, ErrorCodes
    <2>. QED
      BY <2>2, <2>3
  <1>. QED
    BY <1>2, <1>3, <1>4, <1>5, <1>6, <1>7, <1>8 DEF Results

\* The others keep their claims and w is idle again.
LEMMA ReleaseStep ==
  ASSUME Inv, NEW w \in Worker, Release(w), UNCHANGED cloud
  PROVE  /\ pc' \in [Worker -> PcValues] /\ claim' \in [Worker -> WorkClaim \cup {NoClaim}]
         /\ result' \in [Worker -> Results]
         /\ pc'[w] = "idle"
         /\ \A v \in Worker \ {w} : pc'[v] = pc[v] /\ claim'[v] = claim[v] /\ result'[v] = result[v]
         /\ Points'
  <1>1. /\ pc' \in [Worker -> PcValues] /\ claim' \in [Worker -> WorkClaim \cup {NoClaim}]
        /\ result' \in [Worker -> Results]
        /\ pc'[w] = "idle"
        /\ \A v \in Worker \ {w} : pc'[v] = pc[v] /\ claim'[v] = claim[v] /\ result'[v] = result[v]
    BY DEF Inv, TypeOK, Release, PcValues, Results
  <1>2. CloudForward
    BY DEF Inv, Rows, cloud, CloudForward
  <1>3. \A v \in Worker \ {w} : DoneBefore(v)'
    BY <1>1, <1>2, DoneOn, ClaimedJob DEF Inv, Points
  <1>4. DoneBefore(w)'
    BY <1>1 DEF DoneBefore
  <1>. QED
    BY <1>1, <1>3, <1>4 DEF Points

LEMMA ClaimStep == ASSUME Inv, NEW w \in Worker, ClaimWork(w) PROVE Inv'
  <1>. USE DEF Inv
  <1>1. PICK j \in Job :
          /\ pc[w] = "idle" /\ Eligible(j)
          /\ LET attempts == Smaller(work[j].attempts + 1, MaxAttempts)
             IN  /\ work' = [work EXCEPT ![j].attempts = attempts,
                                         ![j].holder = {w}, ![j].live = TRUE]
                 /\ claim' = [claim EXCEPT ![w] =
                      [job |-> j, status |-> work[j].status, handle |-> work[j].handle,
                       attempts |-> attempts, error |-> work[j].error]]
          /\ pc' = [pc EXCEPT ![w] = "act"]
          /\ UNCHANGED <<recorded, cloud, result>>
    BY DEF ClaimWork
  <1>. DEFINE attempts == Smaller(work[j].attempts + 1, MaxAttempts)
              copy == [job |-> j, status |-> work[j].status, handle |-> work[j].handle,
                       attempts |-> attempts, error |-> work[j].error]
              row == [work[j] EXCEPT !.attempts = attempts, !.holder = {w}, !.live = TRUE]
  <1>2. work[j] \in Row /\ RowChecks(j) /\ work \in [Job -> Row]
    BY DEF TypeOK
  <1>3. attempts \in 0..MaxAttempts
    BY <1>2, JobsAssumption DEF Smaller, Row
  <1>4. /\ row \in Row /\ row.holder = {w} /\ row.live = TRUE /\ row.status = work[j].status
        /\ row.handle = work[j].handle /\ row.error = work[j].error
    BY <1>2, <1>3 DEF Row
  <1>5. /\ copy \in WorkClaim /\ copy.job = j /\ copy.status = work[j].status
        /\ copy.handle = work[j].handle /\ copy.error = work[j].error
    BY <1>2, <1>3 DEF Row, WorkClaim
  <1>6. /\ work' = [work EXCEPT ![j] = row]
        /\ claim' = [claim EXCEPT ![w] = copy]
    BY <1>1
  <1>. HIDE DEF attempts, copy, row
  <1>7. /\ work'[j] = row /\ \A k \in Job \ {j} : work'[k] = work[k]
        /\ claim'[w] = copy /\ \A v \in Worker \ {w} : claim'[v] = claim[v]
        /\ pc'[w] = "act" /\ \A v \in Worker \ {w} : pc'[v] = pc[v]
    BY <1>1, <1>2, <1>6 DEF TypeOK
  <1>8. TypeOK'
    <2>1. work' \in [Job -> Row]
      BY <1>2, <1>4, <1>6
    <2>2. \A k \in Job : RowChecks(k)'
      BY <1>4, <1>7 DEF TypeOK, RowChecks, NoWorker
    <2>3. pc' \in [Worker -> PcValues] /\ claim' \in [Worker -> WorkClaim \cup {NoClaim}]
      BY <1>1, <1>5, <1>6 DEF TypeOK, PcValues
    <2>. QED
      BY <1>1, <2>1, <2>2, <2>3 DEF TypeOK, cloud
  <1>9. Claims'
    <2>1. Fits(w)'
      <3>1. /\ work[j].status \in {"pending", "lab_pending", "ready", "failed"}
            /\ work[j].status = "failed" => work[j].handle
            /\ work[j].status = "lab_pending" => work[j].handle
            /\ work[j].status = "ready" => j \in Central \/ work[j].handle
            /\ work[j].handle => j \notin Central
        BY <1>1, <1>2 DEF Eligible, Claimable, RowChecks
      <3>. QED
        BY <1>4, <1>5, <1>7, <3>1 DEF Fits
    <2>2. ASSUME NEW v \in Worker \ {w}, pc[v] # "idle" PROVE Fits(v)'
      <3>1. claim[v].job \in Job /\ Fits(v) /\ claim'[v] = claim[v]
        BY <1>7, <2>2, ClaimedJob DEF Claims
      <3>2. CASE claim[v].job = j
        <4>1. ~Owned(v)'
          BY <1>4, <1>7, <3>1, <3>2 DEF Owned
        <4>. QED
          BY <1>4, <1>7, <3>1, <3>2, <4>1, FitsOn
      <3>3. CASE claim[v].job # j
        BY <1>7, <3>1, <3>3, FitsOn DEF Owned
      <3>. QED
        BY <3>2, <3>3
    <2>. QED
      BY <1>7, <2>1, <2>2 DEF Claims
  <1>10. Points'
    <2>1. DoneBefore(w)'
      BY <1>7 DEF DoneBefore
    <2>2. CloudForward
      BY <1>1 DEF Rows, cloud, CloudForward
    <2>3. \A v \in Worker \ {w} : DoneBefore(v)'
      BY <1>1, <1>7, <2>2, DoneOn, ClaimedJob DEF Points
    <2>. QED
      BY <2>1, <2>3 DEF Points
  <1>11. Rows' /\ RecordedMeansSettled'
    <2>1. \A k \in Job : /\ work'[k].status = work[k].status
                         /\ work'[k].handle = work[k].handle /\ work'[k].error = work[k].error
                         /\ work'[k].live => work[k].live \/ work[k].status # "absent"
      BY <1>1, <1>4, <1>7 DEF Eligible, Claimable
    <2>. QED
      BY <1>1, <2>1 DEF Rows, RecordedMeansSettled, TakenDown, cloud, TypeOK
  <1>12. Exclusive'
    <2>1. \A k \in Job \ {j} : UsesLab(k)' <=> UsesLab(k)
      BY <1>7 DEF UsesLab
    <2>2. UsesLab(j)' => UsesLab(j) \/ \A k \in Job \ {j} : ~UsesLab(k)
      BY <1>1, <1>4, <1>7 DEF UsesLab, Eligible, LabInUse
    <2>. QED
      BY <2>1, <2>2 DEF Exclusive
  <1>. QED
    BY <1>8, <1>9, <1>10, <1>11, <1>12

LEMMA SettleStep == ASSUME Inv, NEW w \in Worker, Settle(w) PROVE Inv'
  <1>. USE DEF Inv
  <1>0. claim[w] \in WorkClaim /\ claim[w].job \in Job /\ result[w] \in Results
    BY ClaimedJob DEF Settle, Claims, Fits, TypeOK
  <1>a. PICK c \in WorkClaim, j \in Job, outcome \in Results :
          c = claim[w] /\ j = c.job /\ outcome = result[w]
    BY <1>0
  <1>1. /\ pc[w] = "settle" /\ Release(w) /\ UNCHANGED cloud
        /\ Fits(w) /\ ResultFits(w)
    BY DEF Settle, Claims, Points, DoneBefore
  <1>2. /\ pc' \in [Worker -> PcValues] /\ claim' \in [Worker -> WorkClaim \cup {NoClaim}]
        /\ result' \in [Worker -> Results]
        /\ pc'[w] = "idle"
        /\ \A v \in Worker \ {w} : pc'[v] = pc[v] /\ claim'[v] = claim[v]
        /\ Points'
    BY <1>1, ReleaseStep
  <1>3. CASE UNCHANGED table
    <2>1. CloudForward
      BY <1>1 DEF Rows, cloud, CloudForward
    <2>2. /\ \A k \in Job : RowChecks(k)'
          /\ Rows' /\ RecordedMeansSettled' /\ Exclusive'
          /\ \A v \in Worker : pc[v] # "idle" /\ claim'[v] = claim[v] => Fits(v)'
      BY <1>3, <2>1, QuietStep, SameTable
    <2>3. TypeOK'
      BY <1>1, <1>2, <1>3, <2>2 DEF TypeOK, table, cloud
    <2>4. Claims'
      BY <1>2, <2>2 DEF Claims
    <2>. QED
      BY <1>2, <2>2, <2>3, <2>4
  <1>4. CASE /\ Owned(w) /\ ~Conflict(w)
             /\ work' = [work EXCEPT ![j] = After(work[j], c, outcome)]
             /\ recorded' = IF Executed(w) THEN recorded \cup {j} ELSE recorded
    <2>. DEFINE row == After(work[j], c, outcome)
    <2>0. work \in [Job -> Row] /\ work[j] \in Row
      BY <1>a, <1>1 DEF TypeOK
    <2>1. /\ work'[j] = row /\ \A k \in Job \ {j} : work'[k] = work[k]
          /\ work[j].status = c.status /\ work[j].handle = c.handle /\ work[j].error = c.error
      BY <1>a, <1>1, <1>4, <2>0 DEF Fits
    <2>2. Settled(work[j], c, outcome, row)
      BY <2>0, AfterRow
    <2>. HIDE DEF row
    <2>6. work' \in [Job -> Row]
      BY <1>4, <2>0, <2>2 DEF Settled, row
    <2>7. \A k \in Job : RowChecks(k)'
      <3>1. RowChecks(j)'
        <4>1. row.handle => j \notin Central
          BY <1>a, <1>1, <2>1, <2>2 DEF Settled, Fits, ResultFits
        <4>2. row.status = "lab_pending" => row.handle
          BY <1>a, <1>1, <2>1, <2>2 DEF Settled, Fits, ResultFits, Results, Executed
        <4>3. row.status = "ready" => j \in Central \/ row.handle
          BY <1>a, <1>1, <2>1, <2>2 DEF Settled, Fits, ResultFits, Results, Executed
        <4>. QED
          BY <2>1, <2>2, <4>1, <4>2, <4>3 DEF Settled, RowChecks
      <3>. QED
        BY <2>1, <3>1 DEF TypeOK, RowChecks
    <2>8. TypeOK'
      BY <1>a, <1>1, <1>2, <1>4, <2>6, <2>7 DEF TypeOK, cloud
    <2>9. Claims'
      <3>1. ASSUME NEW v \in Worker \ {w}, pc[v] # "idle" PROVE Fits(v)'
        <4>1. claim[v].job \in Job /\ Fits(v) /\ claim'[v] = claim[v]
          BY <1>a, <1>2, <3>1, ClaimedJob DEF Claims
        <4>2. CASE claim[v].job = j
          <5>1. ~Owned(v)'
            BY <2>1, <2>2, <4>1, <4>2 DEF Settled, Owned
          <5>2. work[j].handle => work'[j].handle
            BY <2>1, <2>2 DEF Settled
          <5>. QED
            BY <4>1, <4>2, <5>1, <5>2, FitsOn
        <4>3. CASE claim[v].job # j
          BY <2>1, <4>1, <4>3, FitsOn DEF Owned
        <4>. QED
          BY <4>2, <4>3
      <3>. QED
        BY <1>a, <1>2, <3>1 DEF Claims
    <2>10. Rows'
      <3>1. row.handle /\ j \in Imported => image[j] \in Kept
        BY <1>a, <1>1, <2>1, <2>2 DEF Settled, Rows, ResultFits
      <3>2. row.error = "execution_complete" => row.handle
        BY <1>a, <1>1, <2>1, <2>2 DEF Settled, Results, Executed, IsCleanup
      <3>3. row.status = "cleaned" /\ j \notin Central => TakenDown(j)
        <4>1. c.status \in {"pending", "lab_pending", "ready", "failed"}
          BY <1>a, <1>1 DEF Fits
        <4>2. outcome = "cleaned" => TakenDown(j)
          BY <1>a, <1>1 DEF ResultFits
        <4>3. outcome \in {"succeeded", "failed"} => c.status = "ready"
          BY <1>a, <1>1 DEF ResultFits
        <4>4. c.status = "ready" => j \in Central \/ c.handle
          BY <1>a, <1>1 DEF Fits
        <4>5. CASE outcome \in {"succeeded", "failed"}
          BY <2>1, <2>2, <4>3, <4>4, <4>5 DEF Settled
        <4>6. CASE outcome \notin {"succeeded", "failed"}
          BY <2>1, <2>2, <4>1, <4>2, <4>6 DEF Settled, Results
        <4>. QED
          BY <4>5, <4>6
      <3>. QED
        <4>1. UNCHANGED <<lab, image>> /\ ~row.live
          BY <1>1, <2>2 DEF cloud, Settled
        <4>2. ASSUME NEW k \in Job \ {j}
              PROVE  /\ work'[k] = work[k] /\ TakenDown(k)' = TakenDown(k)
          BY <2>1, <4>1 DEF TakenDown
        <4>3. TakenDown(j)' = TakenDown(j)
          BY <4>1 DEF TakenDown
        <4>. QED
          BY <2>1, <3>1, <3>2, <3>3, <4>1, <4>2, <4>3 DEF Rows
    \* An item that has an outcome is only ever claimed for its cleanup.
    <2>11. RecordedMeansSettled'
      <3>1. j \in recorded => IsCleanup(c)
        BY <1>a, <1>1, <2>1 DEF RecordedMeansSettled, Rows, Fits, IsCleanup
      <3>2. j \in recorded' =>
              \/ row.status \in {"failed", "cleaned"}
              \/ row.status = "ready" /\ row.error = "execution_complete"
        <4>1. CASE Executed(w)
          BY <1>a, <1>1, <2>1, <2>2, <4>1 DEF Settled, ResultFits, Executed
        <4>2. CASE ~Executed(w) /\ j \in recorded
          BY <1>a, <1>1, <2>1, <2>2, <3>1, <4>2
            DEF Settled, RecordedMeansSettled, Results, Executed, ResultFits, IsCleanup
        <4>. QED
          BY <1>a, <1>4, <4>1, <4>2
      <3>. QED
        BY <1>a, <1>4, <2>1, <3>2 DEF RecordedMeansSettled, TypeOK
    <2>12. Exclusive'
      <3>1. UsesLab(j)' => UsesLab(j)
        <4>1. CASE outcome = "provisioned"
          BY <1>a, <1>1, <1>4, <2>1, <4>1 DEF UsesLab, ResultFits, Owned
        <4>2. CASE outcome # "provisioned"
          BY <1>a, <1>1, <2>1, <2>2, <4>2 DEF Settled, UsesLab, Fits
        <4>. QED
          BY <4>1, <4>2
      <3>2. \A k \in Job \ {j} : UsesLab(k)' <=> UsesLab(k)
        BY <2>1 DEF UsesLab
      <3>. QED
        BY <3>1, <3>2 DEF Exclusive
    <2>. QED
      BY <1>a, <1>2, <2>8, <2>9, <2>10, <2>11, <2>12
  <1>. QED
    <2>1. CASE Owned(w) /\ ~Conflict(w)
      BY <1>a, <1>4, <2>1 DEF Settle
    <2>2. CASE ~(Owned(w) /\ ~Conflict(w))
      BY <1>3, <2>2 DEF Settle
    <2>. QED
      BY <2>1, <2>2

\* The clock and the environment change neither what a row is nor whose it is.
LEMMA WorldStep ==
  ASSUME Inv, [Next]_vars, UNCHANGED procs, recorded' = recorded, work' \in [Job -> Row],
         \A j \in Job : Same(j)
  PROVE  Inv'
  <1>. USE DEF Inv
  <1>1. CloudForward /\ CloudTypes'
    BY CloudStep
  <1>2. /\ \A j \in Job : RowChecks(j)'
        /\ Rows' /\ RecordedMeansSettled' /\ Exclusive'
        /\ \A w \in Worker : pc[w] # "idle" /\ claim'[w] = claim[w] => Fits(w)'
    BY <1>1, QuietStep
  <1>3. TypeOK'
    BY <1>1, <1>2 DEF TypeOK, CloudTypes, procs
  <1>4. Claims'
    BY <1>2 DEF Claims, procs
  <1>5. Points'
    BY <1>1, DoneOn, ClaimedJob DEF Points, procs
  <1>. QED
    BY <1>2, <1>3, <1>4, <1>5

LEMMA ApproveStep == ASSUME Inv, [Next]_vars, NEW j \in Job, Approve(j) PROVE Inv'
  <1>. USE DEF Inv
  <1>. DEFINE number == 1 + Cardinality({k \in Job : work[k].status # "absent"})
              row == [work[j] EXCEPT !.status = "pending", !.created = number]
  <1>1. /\ work[j].status = "absent" /\ work' = [work EXCEPT ![j] = row]
        /\ UNCHANGED <<recorded, cloud, procs>> /\ work[j] \in Row /\ RowChecks(j)
    BY DEF Approve, TypeOK
  <1>2. number \in Nat
    BY JobsAssumption, FS_Subset, FS_CardinalityType
  <1>. HIDE DEF number
  <1>3. /\ row \in Row /\ row.status = "pending" /\ row.handle = work[j].handle
        /\ row.error = work[j].error /\ row.holder = work[j].holder /\ row.live = work[j].live
    BY <1>1, <1>2 DEF Row, Statuses
  <1>. HIDE DEF row
  <1>4. /\ work'[j] = row /\ \A k \in Job \ {j} : work'[k] = work[k]
        /\ work' \in [Job -> Row]
    BY <1>1, <1>3 DEF TypeOK
  <1>5. CloudForward /\ CloudTypes'
    BY CloudStep
  \* An absent row is nobody's.
  <1>6. ~work[j].live /\ j \notin recorded
    BY <1>1 DEF Rows, RecordedMeansSettled
  <1>7. TypeOK'
    <2>1. \A k \in Job : RowChecks(k)'
      BY <1>1, <1>3, <1>4 DEF TypeOK, RowChecks
    <2>. QED
      BY <1>1, <1>4, <1>5, <2>1 DEF TypeOK, CloudTypes, procs
  <1>8. Claims'
    <2>1. ASSUME NEW w \in Worker, pc[w] # "idle" PROVE Fits(w)'
      <3>1. claim[w].job \in Job /\ Fits(w) /\ claim'[w] = claim[w]
        BY <1>1, <2>1, ClaimedJob DEF Claims, procs
      <3>2. claim[w].job = j => ~Owned(w)'
        BY <1>3, <1>4, <1>6, <3>1 DEF Owned
      <3>. QED
        BY <1>3, <1>4, <3>1, <3>2, FitsOn DEF Owned
    <2>. QED
      BY <1>1, <2>1 DEF Claims, procs
  <1>9. Points'
    BY <1>1, <1>5, DoneOn, ClaimedJob DEF Points, procs
  <1>10. Rows' /\ RecordedMeansSettled'
    BY <1>1, <1>3, <1>4, <1>6 DEF Rows, RecordedMeansSettled, TakenDown, cloud, TypeOK
  <1>11. Exclusive'
    <2>1. \A k \in Job : UsesLab(k)' => UsesLab(k)
      BY <1>1, <1>3, <1>4, <1>6 DEF UsesLab
    <2>. QED
      BY <2>1 DEF Exclusive
  <1>. QED
    BY <1>7, <1>8, <1>9, <1>10, <1>11

LEMMA InvStep == Inv /\ [Next]_vars => Inv'
  <1>. SUFFICES ASSUME Inv, [Next]_vars PROVE Inv'
    OBVIOUS
  <1>1. ASSUME NEW w \in Worker, Crash(w) PROVE Inv'
    <2>1. UNCHANGED <<table, cloud>> /\ Release(w)
      BY <1>1 DEF Crash
    <2>2. /\ pc' \in [Worker -> PcValues] /\ claim' \in [Worker -> WorkClaim \cup {NoClaim}]
          /\ result' \in [Worker -> Results]
          /\ pc'[w] = "idle"
          /\ \A v \in Worker \ {w} : pc'[v] = pc[v] /\ claim'[v] = claim[v]
          /\ Points'
      BY <2>1, ReleaseStep
    <2>3. /\ \A j \in Job : RowChecks(j)'
          /\ Rows' /\ RecordedMeansSettled' /\ Exclusive'
          /\ \A v \in Worker : pc[v] # "idle" /\ claim'[v] = claim[v] => Fits(v)'
      BY <2>1, CloudStep, QuietStep, SameTable
    <2>4. TypeOK'
      BY <2>1, <2>2, <2>3 DEF Inv, TypeOK, table, cloud
    <2>5. Claims'
      BY <2>2, <2>3 DEF Claims
    <2>. QED
      BY <2>2, <2>3, <2>4, <2>5 DEF Inv
  <1>2. ASSUME NEW j \in Job, BecomesAvailable(j) \/ CleanupDue(j) \/ LeaseExpires(j) PROVE Inv'
    <2>1. work \in [Job -> Row]
      BY DEF Inv, TypeOK
    <2>2. work' \in [Job -> Row] /\ \A k \in Job : Same(k)
      <3>1. CASE BecomesAvailable(j)
        BY <2>1, <3>1 DEF BecomesAvailable, Row, Same
      <3>2. CASE CleanupDue(j)
        BY <2>1, <3>2 DEF CleanupDue, Row, Same
      <3>3. CASE LeaseExpires(j)
        BY <2>1, <3>3 DEF LeaseExpires, Row, Same
      <3>. QED
        BY <1>2, <3>1, <3>2, <3>3
    <2>3. recorded' = recorded /\ UNCHANGED procs
      BY <1>2 DEF BecomesAvailable, CleanupDue, LeaseExpires
    <2>. QED
      BY <2>2, <2>3, WorldStep
  <1>3. ASSUME NEW j \in Job, ImportEnds(j) \/ Reap(j) PROVE Inv'
    BY <1>3, SameTable, WorldStep DEF ImportEnds, Reap
  <1>4. CASE UNCHANGED vars
    BY <1>4, SameTable, WorldStep DEF vars
  <1>. QED
    BY <1>1, <1>2, <1>3, <1>4, CallsStep, ClaimStep, SettleStep, ApproveStep
      DEF Next, WorkerStep, Calls

-----------------------------------------------------------------------------
(* Theorems.                                                               *)

\* What holds together of every reachable state.
THEOREM Inductive == Spec => []Inv
BY InitInv, InvStep, PTL DEF Spec

\* Types, and the CHECK constraints of work_items: no UPDATE is ever aborted.
THEOREM TypeCorrect == Spec => []TypeOK
  <1>1. Inv => TypeOK
    BY DEF Inv
  <1>. QED
    BY Inductive, <1>1, PTL

\* Work with a recorded outcome is never executed again.
THEOREM RecordedSettled == Spec => []RecordedMeansSettled
  <1>1. Inv => RecordedMeansSettled
    BY DEF Inv
  <1>. QED
    BY Inductive, <1>1, PTL

\* However leases expire, no two items have a recorded lab at once.
THEOREM OneLabRecorded == Spec => []OneRecordedLab
  <1>1. Inv => OneRecordedLab
    BY DEF Inv, Exclusive, UsesLab, OneRecordedLab
  <1>. QED
    BY Inductive, <1>1, PTL

\* The lab and the image of cleaned work are gone for good.
THEOREM CleanedGone == Spec => []CleanedMeansGone
  <1>1. Inv => CleanedMeansGone
    BY DEF Inv, Rows, TakenDown, CleanedMeansGone
  <1>. QED
    BY Inductive, <1>1, PTL
=============================================================================

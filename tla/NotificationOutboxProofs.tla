---------------------- MODULE NotificationOutboxProofs ----------------------
(***************************************************************************)
(* Theorems about NotificationOutbox for any assignments, schedulers and   *)
(* options.  The inductive invariant IInv adds to the type invariant what  *)
(* ties a scheduler's private claims to the rows of the table: a lease     *)
(* token is the attempt that took it, claims never get ahead of their row, *)
(* and no two schedulers ever hold the same claim.                         *)
(***************************************************************************)
EXTENDS NotificationOutbox, TLAPS

-----------------------------------------------------------------------------
(* The inductive invariant.                                                *)

\* A leased row carries the token of its latest attempt.
LeasedRows ==
  \A e \in Event : outbox[e].state = "leased" =>
    outbox[e].token = outbox[e].attempts /\ outbox[e].attempts \in 1..MaxAttempts

\* A claim is about a recorded row and at most as recent as its latest attempt.
Recorded(c) == Persisted(c[1]) /\ c[2] <= outbox[c[1]].attempts

ClaimsRecorded ==
  /\ \A s \in Scheduler : \A c \in batch[s] : Recorded(c)
  /\ \A c \in sent : Recorded(c)

BatchesDisjoint ==
  \A s1, s2 \in Scheduler : s1 # s2 => batch[s1] \cap batch[s2] = {}

\* What a scheduler delivers is in its batch; what it settles was accepted.
Delivery ==
  \A s \in Scheduler :
    /\ Delivering(s) => cur[s] \in batch[s]
    /\ pc[s] = "accepted" => cur[s] \in sent

\* A held claim whose event was accepted is the one about to be left behind.
SentIsCurrent ==
  \A s \in Scheduler : \A c \in batch[s] :
    c \in sent => pc[s] \in {"accepted", "rejected"} /\ c = cur[s]

\* A row that was never inserted was never claimed.
NothingAttempted ==
  \A e \in Event : outbox[e].state = "absent" => outbox[e].attempts = 0

IInv ==
  /\ TypeOK
  /\ NothingAttempted
  /\ AckMatchesOutbox
  /\ LeasedRows
  /\ ClaimsRecorded
  /\ BatchesDisjoint
  /\ Delivery
  /\ SentIsCurrent

-----------------------------------------------------------------------------
(* Lemmas about the operators.                                             *)

(* The backoff of fail is a number of seconds for every attempt count.     *)
LEMMA RetryDelayNat ==
  ASSUME NEW a \in 1..MaxAttempts
  PROVE  RetryDelay(a) \in Nat
<1>1. Smaller(a - 1, 20) \in 0..20
  BY OptionsAssumption DEF Smaller
<1>2. PICK p \in Nat : p = 2 ^ Smaller(a - 1, 20)
  BY <1>1, PowersOfTwo
<1>3. RetryBase * p \in Nat
  BY OptionsAssumption
<1> QED
  BY <1>2, <1>3, OptionsAssumption DEF RetryDelay, Smaller

LEMMA StampsNat ==
  ASSUME TypeOK, NEW n \in CreationStamps
  PROVE  n \in Nat
<1>1. \A e \in Event : outbox[e].created \in Nat
  BY DEF TypeOK, Row
<1> QED
  BY <1>1 DEF CreationStamps

LEMMA AbsentRowType == AbsentRow \in Row
BY OptionsAssumption DEF AbsentRow, Row, RowStates, Statuses, NoToken

(* The token of a claim is a fresh attempt number. *)
LEMMA NewTokenType ==
  ASSUME TypeOK, NEW e \in Event, Claimable(e)
  PROVE  NewToken(e) \in 1..MaxAttempts
BY OptionsAssumption DEF TypeOK, Row, Claimable, NewToken

(* What the two UPDATEs make of a row.                                     *)
LEMMA LeasedRow ==
  ASSUME NEW row \in Row, NEW token \in 0..MaxAttempts, row.attempts + 1 <= MaxAttempts
  PROVE  /\ Leased(row, token) \in Row
         /\ Leased(row, token).state = "leased"
         /\ Leased(row, token).attempts = row.attempts + 1
         /\ Leased(row, token).token = token
         /\ Leased(row, token).created = row.created
         /\ Leased(row, token).status = row.status
BY OptionsAssumption DEF Leased, Row, RowStates

LEMMA ReleasedRow ==
  ASSUME NEW row \in Row, NEW state \in RowStates, NEW delay \in Nat
  PROVE  /\ Released(row, state, delay) \in Row
         /\ Released(row, state, delay).state = state
         /\ Released(row, state, delay).attempts = row.attempts
         /\ Released(row, state, delay).token = NoToken
         /\ Released(row, state, delay).status = row.status
BY OptionsAssumption DEF Released, Row, NoToken

-----------------------------------------------------------------------------
(* What the actions do to a row.                                           *)

(* The rows of claim, as a fact about every event.                         *)
LEMMA ClaimRows ==
  ASSUME TypeOK, NEW s \in Scheduler, ClaimBatch(s)
  PROVE  \E S \in SUBSET Event :
           /\ \A e \in S : Claimable(e)
           /\ \A e \in S : outbox'[e] = Leased(outbox[e], NewToken(e))
           /\ \A e \in Event \ S : outbox'[e] = outbox[e]
           /\ outbox' = [e \in Event |-> outbox'[e]]
           /\ batch' = [batch EXCEPT ![s] = {<<e, NewToken(e)>> : e \in S}]
<1>1. PICK S \in SUBSET Event :
        /\ OldestClaimable(S)
        /\ outbox' = [e \in Event |->
             IF e \in S THEN Leased(outbox[e], NewToken(e)) ELSE outbox[e]]
        /\ batch' = [batch EXCEPT ![s] = {<<e, NewToken(e)>> : e \in S}]
  BY DEF ClaimBatch
<1>2. \A e \in S : Claimable(e)
  BY <1>1 DEF OldestClaimable
<1> QED
  BY <1>1, <1>2

-----------------------------------------------------------------------------
(* Type correctness.                                                       *)

LEMMA InitIInv == Init => IInv
<1> SUFFICES ASSUME Init PROVE IInv
  OBVIOUS
<1>1. TypeOK
  BY OptionsAssumption, AbsentRowType DEF Init, TypeOK, Revision, PcValues
<1>2. \A e \in Event : outbox[e].state = "absent" /\ outbox[e].attempts = 0
  BY DEF Init, AbsentRow
<1> QED
  BY <1>1, <1>2 DEF Init, IInv, NothingAttempted, AckMatchesOutbox, LeasedRows, ClaimsRecorded,
     BatchesDisjoint, Delivery, Delivering, SentIsCurrent

LEMMA ScanTypeOK ==
  ASSUME TypeOK, NEW s \in Scheduler, ScanStep(s) \/ ScanFails(s)
  PROVE  TypeOK'
<1> USE DEF PcValues, histories, tables
<1>1. CASE StartCycle(s)
  BY <1>1, OptionsAssumption DEF StartCycle, TypeOK, Event
<1>2. ASSUME NEW e \in Event, EnqueueSuppressed(s, e) PROVE TypeOK'
  BY <1>2 DEF EnqueueSuppressed, TypeOK
<1>3. ASSUME NEW e \in Event, Enqueue(s, e) PROVE TypeOK'
  <2>1. PICK n \in CreationStamps :
          outbox' = [outbox EXCEPT ![e] =
            [state |-> "pending", attempts |-> 0, timer |-> 0, token |-> NoToken,
             created |-> n, status |-> IF HasPrior(e[1]) THEN "UPDATED" ELSE "NEW"]]
    BY <1>3 DEF Enqueue
  <2>2. n \in Nat
    BY StampsNat
  <2>3. outbox' \in [Event -> Row]
    BY <2>1, <2>2, OptionsAssumption
      DEF TypeOK, Row, RowStates, Statuses, NoToken
  <2> QED
    BY <1>3, <2>3 DEF Enqueue, TypeOK
<1>4. CASE EndScan(s)
  BY <1>4 DEF EndScan, TypeOK
<1>5. CASE ScanFails(s)
  BY <1>5 DEF ScanFails, TypeOK
<1> QED
  BY <1>1, <1>2, <1>3, <1>4, <1>5 DEF ScanStep

LEMMA LeaveClaimTypeOK ==
  ASSUME TypeOK, NEW s \in Scheduler, LeaveClaim(s),
         outbox' \in [Event -> Row], acks' \subseteq Event
  PROVE  TypeOK'
BY DEF LeaveClaim, TypeOK, PcValues, histories

LEMMA DrainTypeOK ==
  ASSUME IInv, NEW s \in Scheduler,
         DrainStep(s) \/ Heartbeat(s) \/ HeartbeatFails(s) \/ Abort(s)
  PROVE  TypeOK'
<1> USE DEF PcValues, histories, tables
<1>0. TypeOK
  BY DEF IInv
<1>c. ASSUME Delivering(s)
      PROVE  cur[s] \in Claim /\ cur[s][1] \in Event
  BY <1>0, <1>c DEF IInv, Delivery, TypeOK, Claim
<1>1. CASE ClaimBatch(s)
  <2>1. PICK S \in SUBSET Event :
           /\ \A e \in S : Claimable(e)
           /\ \A e \in S : outbox'[e] = Leased(outbox[e], NewToken(e))
           /\ \A e \in Event \ S : outbox'[e] = outbox[e]
           /\ outbox' = [e \in Event |-> outbox'[e]]
           /\ batch' = [batch EXCEPT ![s] = {<<e, NewToken(e)>> : e \in S}]
    BY <1>0, <1>1, ClaimRows
  <2>2. \A e \in S : NewToken(e) \in 1..MaxAttempts
    BY <1>0, <2>1, NewTokenType
  <2>3. ASSUME NEW e \in Event PROVE outbox'[e] \in Row
    <3>1. CASE e \in S
      <4>1. outbox[e] \in Row /\ outbox[e].attempts + 1 <= MaxAttempts
        BY <1>0, <2>2, <3>1 DEF TypeOK, NewToken
      <4>2. NewToken(e) \in 0..MaxAttempts
        BY <2>2, <3>1
      <4> QED
        BY <2>1, <3>1, <4>1, <4>2, LeasedRow
    <3>2. CASE e \notin S
      BY <1>0, <2>1, <3>2 DEF TypeOK
    <3> QED
      BY <3>1, <3>2
  <2>4. outbox' \in [Event -> Row]
    BY <2>1, <2>3
  <2>5. batch' \in [Scheduler -> SUBSET Claim]
    BY <1>0, <2>1, <2>2 DEF TypeOK, Claim
  <2> QED
    BY <1>0, <1>1, <2>4, <2>5 DEF ClaimBatch, TypeOK
<1>2. CASE DrainDone(s)
  BY <1>0, <1>2 DEF DrainDone, TypeOK
<1>3. CASE NextClaim(s)
  BY <1>0, <1>3 DEF NextClaim, TypeOK
<1>4. CASE BatchDone(s)
  BY <1>0, <1>4 DEF BatchDone, TypeOK
<1>5. CASE SinkAccepts(s) \/ SinkRaises(s)
  <2>1. sent' \subseteq Claim
    BY <1>0, <1>5, <1>c DEF SinkAccepts, SinkRaises, Delivering, TypeOK
  <2> QED
    BY <1>0, <1>5, <2>1 DEF SinkAccepts, SinkRaises, TypeOK
<1>6. CASE Complete(s)
  <2>1. cur[s] \in Claim /\ cur[s][1] \in Event
    BY <1>6, <1>c DEF Complete, Delivering
  <2>2. Released(outbox[cur[s][1]], "delivered", 0) \in Row
    BY <1>0, <2>1, ReleasedRow DEF TypeOK, RowStates
  <2>3. outbox' \in [Event -> Row] /\ acks' \subseteq Event
    BY <1>0, <1>6, <2>1, <2>2 DEF Complete, TypeOK
  <2> QED
    BY <1>0, <1>6, <2>3, LeaveClaimTypeOK DEF Complete
<1>7. CASE Fail(s)
  <2>1. CASE Owned(cur[s])
    <3>1. outbox[cur[s][1]].attempts \in 1..MaxAttempts
      BY <1>7, <1>c, <2>1 DEF Fail, Delivering, Owned, IInv, LeasedRows
    <3>2. RetryDelay(outbox[cur[s][1]].attempts) \in Nat
      BY <3>1, RetryDelayNat
    <3>3. Released(outbox[cur[s][1]], "pending", RetryDelay(outbox[cur[s][1]].attempts)) \in Row
      BY <1>0, <1>7, <1>c, <3>2, ReleasedRow DEF Fail, Delivering, TypeOK, RowStates
    <3>4. outbox' \in [Event -> Row]
      BY <1>0, <1>7, <2>1, <3>3 DEF Fail, TypeOK
    <3> QED
      BY <1>0, <1>7, <3>4, LeaveClaimTypeOK DEF Fail, TypeOK
  <2>2. CASE ~Owned(cur[s])
    BY <1>0, <1>7, <2>2, LeaveClaimTypeOK DEF Fail, TypeOK
  <2> QED
    BY <2>1, <2>2
<1>8. CASE GiveUp(s)
  BY <1>0, <1>8, LeaveClaimTypeOK DEF GiveUp, TypeOK
<1>9. CASE Heartbeat(s)
  <2>1. outbox' \in [Event -> Row]
    BY <1>0, <1>9, <1>c, OptionsAssumption DEF Heartbeat, TypeOK, Row
  <2> QED
    BY <1>0, <1>9, <2>1 DEF Heartbeat, TypeOK
<1>10. CASE HeartbeatFails(s)
  BY <1>0, <1>10 DEF HeartbeatFails, TypeOK
<1>11. CASE Abort(s)
  BY <1>0, <1>11 DEF Abort, TypeOK
<1> QED
  BY <1>1, <1>2, <1>3, <1>4, <1>5, <1>6, <1>7, <1>8, <1>9, <1>10, <1>11 DEF DrainStep

LEMMA EnvironmentTypeOK ==
  ASSUME TypeOK,
         (\E e \in Event : Acknowledge(e)) \/ (\E t \in Task : Edit(t)) \/ Tick
  PROVE  TypeOK'
<1> USE DEF histories, tables, procs
<1>1. ASSUME NEW e \in Event, Acknowledge(e) PROVE TypeOK'
  <2>1. outbox' \in [Event -> Row]
    BY <1>1, ReleasedRow DEF Acknowledge, TypeOK, RowStates
  <2> QED
    BY <1>1, <2>1 DEF Acknowledge, TypeOK
<1>2. ASSUME NEW t \in Task, Edit(t) PROVE TypeOK'
  BY <1>2, OptionsAssumption DEF Edit, TypeOK, Revision
<1>3. CASE Tick
  <2>1. outbox' \in [Event -> Row]
    BY <1>3 DEF Tick, TypeOK, Row
  <2> QED
    BY <1>3, <2>1 DEF Tick, TypeOK
<1> QED
  BY <1>1, <1>2, <1>3

LEMMA NextTypeOK == IInv /\ [Next]_vars => TypeOK'
<1> SUFFICES ASSUME IInv, [Next]_vars PROVE TypeOK'
  OBVIOUS
<1>0. TypeOK
  BY DEF IInv
<1>1. CASE UNCHANGED vars
  BY <1>0, <1>1 DEF vars, tables, procs, histories, TypeOK
<1>2. CASE Next
  BY <1>0, <1>2, ScanTypeOK, DrainTypeOK, EnvironmentTypeOK DEF Next
<1> QED
  BY <1>1, <1>2

-----------------------------------------------------------------------------
(* What a step can do to a row of the table and to its acknowledgement.    *)

RowKept(e) ==
  /\ outbox'[e].state = outbox[e].state
  /\ outbox'[e].attempts = outbox[e].attempts
  /\ outbox'[e].token = outbox[e].token
  /\ e \in acks' => e \in acks \/ outbox[e].state \in {"absent", "delivered"}

RowQueued(e) ==
  /\ outbox[e].state = "absent" /\ outbox'[e].state = "pending"
  /\ outbox[e].attempts <= outbox'[e].attempts
  /\ e \notin acks'

RowClaimed(e) ==
  /\ Claimable(e) /\ outbox'[e].state = "leased"
  /\ outbox'[e].attempts = NewToken(e) /\ outbox'[e].token = NewToken(e)
  /\ acks' = acks

RowReleased(e) ==
  /\ outbox[e].state \in {"pending", "leased"}
  /\ outbox'[e].attempts = outbox[e].attempts
  /\ \/ outbox'[e].state = "delivered" /\ e \in acks'
     \/ outbox'[e].state = "pending" /\ e \notin acks'

RowStep(e) == RowKept(e) \/ RowQueued(e) \/ RowClaimed(e) \/ RowReleased(e)

(* Every step treats every row in one of these four ways.                  *)
LEMMA RowSteps ==
  ASSUME IInv, [Next]_vars
  PROVE  acks \subseteq acks' /\ \A e \in Event : RowStep(e)
<1> USE DEF histories, tables, procs
<1>0. TypeOK
  BY DEF IInv
<1>c. ASSUME NEW s \in Scheduler, Delivering(s)
      PROVE  cur[s] \in Claim /\ cur[s][1] \in Event
  BY <1>0, <1>c DEF IInv, Delivery, TypeOK, Claim
<1>1. ASSUME UNCHANGED tables
      PROVE  acks \subseteq acks' /\ \A e \in Event : RowStep(e)
  BY <1>1 DEF RowStep, RowKept
<1>2. ASSUME NEW s \in Scheduler, NEW f \in Event, Enqueue(s, f)
      PROVE  acks \subseteq acks' /\ \A e \in Event : RowStep(e)
  <2>1. outbox[f].state = "absent" /\ f \notin acks /\ acks' = acks
    BY <1>2 DEF Enqueue, IsSuppressed, Persisted
  <2>2. outbox'[f].state = "pending" /\ outbox'[f].attempts = 0
    BY <1>0, <1>2 DEF Enqueue, TypeOK
  <2>3. RowQueued(f)
    BY <1>0, <2>1, <2>2 DEF RowQueued, IInv, NothingAttempted
  <2>4. \A e \in Event \ {f} : outbox'[e] = outbox[e]
    BY <1>0, <1>2 DEF Enqueue, TypeOK
  <2> QED
    BY <2>1, <2>3, <2>4 DEF RowStep, RowKept
<1>3. ASSUME NEW s \in Scheduler, ClaimBatch(s)
      PROVE  acks \subseteq acks' /\ \A e \in Event : RowStep(e)
  <2>1. PICK S \in SUBSET Event :
           /\ \A e \in S : Claimable(e)
           /\ \A e \in S : outbox'[e] = Leased(outbox[e], NewToken(e))
           /\ \A e \in Event \ S : outbox'[e] = outbox[e]
    BY <1>0, <1>3, ClaimRows
  <2>2. acks' = acks
    BY <1>3 DEF ClaimBatch
  <2>3. ASSUME NEW e \in S PROVE RowClaimed(e)
    <3>1. Claimable(e) /\ outbox'[e] = Leased(outbox[e], NewToken(e))
      BY <2>1
    <3>2. outbox'[e].attempts = NewToken(e) /\ outbox'[e].token = NewToken(e)
      BY <3>1 DEF Leased, NewToken
    <3>3. outbox'[e].state = "leased"
      BY <3>1 DEF Leased
    <3> QED
      BY <2>2, <3>1, <3>2, <3>3 DEF RowClaimed
  <2> QED
    BY <2>1, <2>2, <2>3 DEF RowStep, RowKept
<1>4. ASSUME NEW s \in Scheduler, Complete(s)
      PROVE  acks \subseteq acks' /\ \A e \in Event : RowStep(e)
  <2>1. CASE Owned(cur[s])
    <3> DEFINE f == cur[s][1]
    <3>1. f \in Event
      BY <1>4, <1>c DEF Complete, Delivering
    <3>2. /\ outbox' = [outbox EXCEPT ![f] = Released(outbox[f], "delivered", 0)]
          /\ acks' = acks \cup {f}
      BY <1>4, <2>1 DEF Complete
    <3>3. RowReleased(f)
      BY <1>0, <2>1, <3>1, <3>2 DEF RowReleased, Owned, Released, TypeOK
    <3> QED
      BY <1>0, <3>1, <3>2, <3>3 DEF RowStep, RowKept, TypeOK
  <2>2. CASE ~Owned(cur[s])
    BY <1>1, <1>4, <2>2 DEF Complete
  <2> QED
    BY <2>1, <2>2
<1>5. ASSUME NEW s \in Scheduler, Fail(s)
      PROVE  acks \subseteq acks' /\ \A e \in Event : RowStep(e)
  <2>1. CASE Owned(cur[s])
    <3> DEFINE f == cur[s][1]
               r == Released(outbox[f], "pending", RetryDelay(outbox[f].attempts))
    <3>1. f \in Event
      BY <1>5, <1>c DEF Fail, Delivering
    <3>2. outbox' = [outbox EXCEPT ![f] = r] /\ acks' = acks
      BY <1>5, <2>1 DEF Fail
    <3>3. r.state = "pending" /\ r.attempts = outbox[f].attempts
      BY DEF Released
    <3>4. outbox[f].state = "leased" /\ f \notin acks
      BY <2>1, <3>1 DEF Owned, IInv, AckMatchesOutbox
    <3>5. RowReleased(f)
      BY <1>0, <3>1, <3>2, <3>3, <3>4 DEF RowReleased, TypeOK
    <3> QED
      BY <1>0, <3>1, <3>2, <3>5 DEF RowStep, RowKept, TypeOK
  <2>2. CASE ~Owned(cur[s])
    BY <1>1, <1>5, <2>2 DEF Fail
  <2> QED
    BY <2>1, <2>2
<1>6. ASSUME NEW s \in Scheduler, Heartbeat(s)
      PROVE  acks \subseteq acks' /\ \A e \in Event : RowStep(e)
  BY <1>0, <1>1, <1>6, <1>c DEF Heartbeat, RowStep, RowKept, TypeOK, Row
<1>7. ASSUME NEW f \in Event, Acknowledge(f)
      PROVE  acks \subseteq acks' /\ \A e \in Event : RowStep(e)
  <2>1. CASE outbox[f].state \in {"pending", "leased"}
    <3>1. RowReleased(f)
      BY <1>0, <1>7, <2>1 DEF Acknowledge, RowReleased, Released, TypeOK
    <3>2. \A e \in Event \ {f} : outbox'[e] = outbox[e]
      BY <1>0, <1>7 DEF Acknowledge, TypeOK
    <3> QED
      BY <1>7, <3>1, <3>2 DEF Acknowledge, RowStep, RowKept
  <2>2. CASE outbox[f].state \notin {"pending", "leased"}
    BY <1>0, <1>7, <2>2 DEF Acknowledge, RowStep, RowKept, TypeOK, Row, RowStates
  <2> QED
    BY <2>1, <2>2
<1>8. ASSUME Tick
      PROVE  acks \subseteq acks' /\ \A e \in Event : RowStep(e)
  BY <1>0, <1>8 DEF Tick, RowStep, RowKept, TypeOK, Row
<1>9. ASSUME NEW s \in Scheduler, ScanStep(s) \/ ScanFails(s)
      PROVE  acks \subseteq acks' /\ \A e \in Event : RowStep(e)
  BY <1>1, <1>2, <1>9
    DEF ScanStep, StartCycle, EnqueueSuppressed, EndScan, ScanFails
<1>10. ASSUME NEW s \in Scheduler,
              DrainStep(s) \/ Heartbeat(s) \/ HeartbeatFails(s) \/ Abort(s)
       PROVE  acks \subseteq acks' /\ \A e \in Event : RowStep(e)
  BY <1>1, <1>3, <1>4, <1>5, <1>6, <1>10
    DEF DrainStep, DrainDone, NextClaim, BatchDone, SinkAccepts, SinkRaises,
        GiveUp, HeartbeatFails, Abort
<1>11. ASSUME NEW t \in Task, Edit(t)
       PROVE  acks \subseteq acks' /\ \A e \in Event : RowStep(e)
  BY <1>1, <1>11 DEF Edit
<1>12. CASE UNCHANGED vars
  BY <1>1, <1>12 DEF vars
<1> QED
  BY <1>7, <1>8, <1>9, <1>10, <1>11, <1>12 DEF Next

-----------------------------------------------------------------------------
(* The table part of IInv is preserved.                                    *)

LEMMA TablePreserved ==
  ASSUME IInv, [Next]_vars
  PROVE  NothingAttempted' /\ AckMatchesOutbox' /\ LeasedRows'
<1>0. TypeOK /\ TypeOK'
  BY NextTypeOK DEF IInv
<1>1. acks \subseteq acks' /\ \A e \in Event : RowStep(e)
  BY RowSteps
<1>2. ASSUME NEW e \in Event
      PROVE  /\ outbox'[e].state = "absent" => outbox'[e].attempts = 0
             /\ outbox'[e].state = "delivered" => e \in acks'
             /\ e \in acks' => outbox'[e].state \in {"absent", "delivered"}
             /\ outbox'[e].state = "leased" =>
                  /\ outbox'[e].token = outbox'[e].attempts
                  /\ outbox'[e].attempts \in 1..MaxAttempts
  <2>1. CASE RowKept(e)
    BY <1>1, <2>1
      DEF RowKept, IInv, NothingAttempted, AckMatchesOutbox, LeasedRows
  <2>2. CASE RowQueued(e)
    BY <2>2 DEF RowQueued
  <2>3. CASE RowClaimed(e)
    <3>1. NewToken(e) \in 1..MaxAttempts
      BY <1>0, <2>3, NewTokenType DEF RowClaimed
    <3>2. e \notin acks'
      BY <2>3 DEF RowClaimed, Claimable, IInv, AckMatchesOutbox
    <3> QED
      BY <2>3, <3>1, <3>2 DEF RowClaimed
  <2>4. CASE RowReleased(e)
    BY <2>4 DEF RowReleased
  <2> QED
    BY <1>1, <2>1, <2>2, <2>3, <2>4 DEF RowStep
<1> QED
  BY <1>2 DEF NothingAttempted, AckMatchesOutbox, LeasedRows

(* Rows never disappear and their attempts never fall, so a claim that was  *)
(* recorded stays so.                                                      *)
LEMMA StaysRecorded ==
  ASSUME IInv, [Next]_vars, NEW c \in Claim, Recorded(c)
  PROVE  Recorded(c)'
<1>0. TypeOK
  BY DEF IInv
<1>1. c[1] \in Event /\ c[2] \in Nat
  BY OptionsAssumption DEF Claim
<1>2. RowStep(c[1])
  BY <1>1, RowSteps
<1>3. outbox[c[1]].attempts \in Nat
  BY <1>0, <1>1, OptionsAssumption DEF TypeOK, Row
<1> QED
  BY <1>1, <1>2, <1>3
    DEF RowStep, RowKept, RowQueued, RowClaimed, RowReleased, Recorded, Persisted,
        NewToken

-----------------------------------------------------------------------------
(* What a step can do to the claims a scheduler holds.                     *)

\* Scheduler s keeps its claims or lets some go.
BatchKept(s) == batch'[s] \subseteq batch[s]

\* Scheduler s has just claimed rows: its claims are their latest attempts.
BatchClaimed(s) ==
  /\ ClaimBatch(s)
  /\ \A c \in batch'[s] :
       /\ c \in Claim /\ c[2] = NewToken(c[1])
       /\ outbox'[c[1]].attempts = c[2] /\ outbox'[c[1]].state = "leased"

LEMMA ClaimBatchClaims ==
  ASSUME IInv, NEW s \in Scheduler, ClaimBatch(s)
  PROVE  BatchClaimed(s) /\ \A r \in Scheduler \ {s} : batch'[r] = batch[r]
<1>0. TypeOK
  BY DEF IInv
<1>1. PICK S \in SUBSET Event :
         /\ \A e \in S : Claimable(e)
         /\ \A e \in S : outbox'[e] = Leased(outbox[e], NewToken(e))
         /\ batch' = [batch EXCEPT ![s] = {<<e, NewToken(e)>> : e \in S}]
  BY <1>0, ClaimRows
<1>2. batch'[s] = {<<e, NewToken(e)>> : e \in S}
  BY <1>0, <1>1 DEF TypeOK
<1>3. \A e \in S : NewToken(e) \in 1..MaxAttempts
  BY <1>0, <1>1, NewTokenType
<1>4. ASSUME NEW c \in batch'[s]
      PROVE  /\ c \in Claim /\ c[2] = NewToken(c[1])
             /\ outbox'[c[1]].attempts = c[2] /\ outbox'[c[1]].state = "leased"
  <2>1. PICK e \in S : c = <<e, NewToken(e)>>
    BY <1>2, <1>4
  <2>2. c \in Claim /\ c[1] = e /\ c[2] = NewToken(e)
    BY <1>3, <2>1 DEF Claim
  <2>3. outbox'[e] = Leased(outbox[e], NewToken(e))
    BY <1>1
  <2>4. outbox'[e].attempts = NewToken(e) /\ outbox'[e].state = "leased"
    BY <2>3 DEF Leased, NewToken
  <2> QED
    BY <2>2, <2>4
<1> QED
  BY <1>0, <1>1, <1>4 DEF BatchClaimed, TypeOK

LEMMA BatchSteps ==
  ASSUME IInv, [Next]_vars
  PROVE  \/ \A s \in Scheduler : BatchKept(s)
         \/ \E s \in Scheduler :
              BatchClaimed(s) /\ \A r \in Scheduler \ {s} : batch'[r] = batch[r]
<1> USE DEF histories, tables, procs
<1>0. TypeOK
  BY DEF IInv
<1>1. CASE UNCHANGED batch
  BY <1>1 DEF BatchKept
<1>2. ASSUME NEW s \in Scheduler, ClaimBatch(s)
      PROVE  BatchClaimed(s) /\ \A r \in Scheduler \ {s} : batch'[r] = batch[r]
  BY <1>2, ClaimBatchClaims
<1>3. ASSUME NEW s \in Scheduler, LeaveClaim(s) \/ Abort(s)
      PROVE  \A r \in Scheduler : BatchKept(r)
  BY <1>0, <1>3 DEF LeaveClaim, Abort, BatchKept, TypeOK
<1>4. ASSUME NEW s \in Scheduler, ScanStep(s) \/ ScanFails(s)
      PROVE  UNCHANGED batch
  BY <1>4
    DEF ScanStep, StartCycle, Enqueue, EnqueueSuppressed, EndScan, ScanFails
<1>5. ASSUME NEW s \in Scheduler, DrainStep(s) \/ Heartbeat(s) \/ HeartbeatFails(s)
      PROVE  UNCHANGED batch \/ ClaimBatch(s) \/ LeaveClaim(s)
  BY <1>5
    DEF DrainStep, DrainDone, NextClaim, BatchDone, SinkAccepts, SinkRaises,
        Complete, Fail, GiveUp, Heartbeat, HeartbeatFails
<1>6. CASE UNCHANGED vars
  BY <1>1, <1>6 DEF vars
<1>7. ASSUME Tick \/ (\E e \in Event : Acknowledge(e)) \/ (\E t \in Task : Edit(t))
      PROVE  UNCHANGED batch
  BY <1>7 DEF Tick, Acknowledge, Edit
<1> QED
  BY <1>1, <1>2, <1>3, <1>4, <1>5, <1>6, <1>7 DEF Next

(* The sink only ever accepts the claim a scheduler is delivering.         *)
LEMMA SentSteps ==
  ASSUME IInv, [Next]_vars
  PROVE  \/ UNCHANGED sent
         \/ \E s \in Scheduler :
              /\ SinkAccepts(s) \/ SinkRaises(s)
              /\ cur[s] \in batch[s] /\ sent' = sent \cup {cur[s]}
<1> USE DEF histories, tables, procs
<1>1. ASSUME NEW s \in Scheduler, SinkAccepts(s) \/ SinkRaises(s)
      PROVE  cur[s] \in batch[s] /\ (UNCHANGED sent \/ sent' = sent \cup {cur[s]})
  BY <1>1 DEF SinkAccepts, SinkRaises, IInv, Delivery, Delivering
<1>2. ASSUME NEW s \in Scheduler, ScanStep(s) \/ ScanFails(s)
      PROVE  UNCHANGED sent
  BY <1>2
    DEF ScanStep, StartCycle, Enqueue, EnqueueSuppressed, EndScan, ScanFails
<1>3. ASSUME NEW s \in Scheduler,
             DrainStep(s) \/ Heartbeat(s) \/ HeartbeatFails(s) \/ Abort(s)
      PROVE  UNCHANGED sent \/ SinkAccepts(s) \/ SinkRaises(s)
  BY <1>3
    DEF DrainStep, ClaimBatch, DrainDone, NextClaim, BatchDone, Complete, Fail,
        GiveUp, LeaveClaim, Heartbeat, HeartbeatFails, Abort
<1>4. ASSUME Tick \/ (\E e \in Event : Acknowledge(e)) \/ (\E t \in Task : Edit(t))
      PROVE  UNCHANGED sent
  BY <1>4 DEF Tick, Acknowledge, Edit
<1>5. CASE UNCHANGED vars
  BY <1>5 DEF vars
<1> QED
  BY <1>1, <1>2, <1>3, <1>4, <1>5 DEF Next

(* Every claim, held or accepted, stays a claim on a recorded row.         *)
LEMMA ClaimsPreserved ==
  ASSUME IInv, [Next]_vars
  PROVE  ClaimsRecorded' /\ BatchesDisjoint'
<1>0. TypeOK /\ TypeOK'
  BY NextTypeOK DEF IInv
<1>1. \A c \in Claim : Recorded(c) => Recorded(c)'
  BY StaysRecorded
<1>2. ASSUME NEW s \in Scheduler, NEW c \in batch[s]
      PROVE  c \in Claim /\ Recorded(c) /\ Recorded(c)'
  BY <1>0, <1>1 DEF TypeOK, IInv, ClaimsRecorded
<1>3. ASSUME NEW c \in Claim, NEW s \in Scheduler, BatchClaimed(s), c \in batch'[s]
      PROVE  Recorded(c)' /\ ~Recorded(c)
  <2>1. /\ c[2] = NewToken(c[1]) /\ outbox'[c[1]].attempts = c[2]
        /\ outbox'[c[1]].state = "leased"
    BY <1>3 DEF BatchClaimed
  <2>2. c[1] \in Event /\ outbox[c[1]].attempts \in Nat
    BY <1>0, OptionsAssumption DEF TypeOK, Row, Claim
  <2>3. Recorded(c)'
    BY <2>1, <2>2 DEF Recorded, Persisted, NewToken
  <2>4. ~Recorded(c)
    BY <2>1, <2>2 DEF Recorded, NewToken
  <2> QED
    BY <2>3, <2>4
<1>4. \A s \in Scheduler : \A c \in batch'[s] : Recorded(c)'
  <2> SUFFICES ASSUME NEW s \in Scheduler, NEW c \in batch'[s] PROVE Recorded(c)'
    OBVIOUS
  <2>1. c \in Claim
    BY <1>0 DEF TypeOK
  <2> QED
    BY <1>2, <1>3, <2>1, BatchSteps DEF BatchKept
<1>5. \A c \in sent' : Recorded(c)'
  <2>1. \A c \in sent' : c \in sent \/ \E s \in Scheduler : c \in batch[s]
    BY SentSteps
  <2>2. \A c \in sent : c \in Claim /\ Recorded(c)
    BY <1>0 DEF TypeOK, IInv, ClaimsRecorded
  <2> QED
    BY <1>1, <1>2, <2>1, <2>2
<1>6. BatchesDisjoint'
  <2> SUFFICES ASSUME NEW s1 \in Scheduler, NEW s2 \in Scheduler, s1 # s2
               PROVE  batch'[s1] \cap batch'[s2] = {}
    BY DEF BatchesDisjoint
  <2>1. batch[s1] \cap batch[s2] = {}
    BY DEF IInv, BatchesDisjoint
  <2>2. CASE \A s \in Scheduler : BatchKept(s)
    BY <2>1, <2>2 DEF BatchKept
  <2>3. ASSUME NEW s \in Scheduler, BatchClaimed(s),
               \A r \in Scheduler \ {s} : batch'[r] = batch[r]
        PROVE  batch'[s1] \cap batch'[s2] = {}
    <3>1. \A c \in batch'[s] : c \in Claim /\ ~Recorded(c)
      BY <1>0, <1>3, <2>3 DEF TypeOK
    <3>2. \A r \in Scheduler \ {s} : \A c \in batch'[r] : Recorded(c)
      BY <1>2, <2>3
    <3> QED
      BY <2>1, <2>3, <3>1, <3>2
  <2> QED
    BY <2>2, <2>3, BatchSteps
<1> QED
  BY <1>4, <1>5, <1>6 DEF ClaimsRecorded

-----------------------------------------------------------------------------
(* The program counter, the claim in hand and what the sink accepted.      *)

LEMMA DeliveryPreserved ==
  ASSUME IInv, [Next]_vars
  PROVE  Delivery' /\ SentIsCurrent'
<1> USE DEF histories, tables, procs
<1>0. TypeOK
  BY DEF IInv
<1>d. \A s \in Scheduler :
        /\ Delivering(s) => cur[s] \in batch[s]
        /\ pc[s] = "accepted" => cur[s] \in sent
        /\ \A c \in batch[s] :
             c \in sent => pc[s] \in {"accepted", "rejected"} /\ c = cur[s]
  BY DEF IInv, Delivery, SentIsCurrent
<1>b. \A s, r \in Scheduler : s # r => batch[s] \cap batch[r] = {}
  BY DEF IInv, BatchesDisjoint
<1>1. ASSUME UNCHANGED <<pc, cur, batch, sent>>
      PROVE  Delivery' /\ SentIsCurrent'
  BY <1>1, <1>d DEF Delivery, SentIsCurrent, Delivering
<1>2. ASSUME NEW s \in Scheduler, UNCHANGED <<batch, cur, sent>>,
             pc[s] \in {"idle", "scan", "drain", "next"},
             pc' = [pc EXCEPT ![s] = "scan"] \/ pc' = [pc EXCEPT ![s] = "drain"]
               \/ pc' = [pc EXCEPT ![s] = "idle"]
      PROVE  Delivery' /\ SentIsCurrent'
  BY <1>0, <1>2, <1>d DEF Delivery, SentIsCurrent, Delivering, TypeOK
<1>3. ASSUME NEW s \in Scheduler, ClaimBatch(s)
      PROVE  Delivery' /\ SentIsCurrent'
  <2>1. BatchClaimed(s) /\ \A r \in Scheduler \ {s} : batch'[r] = batch[r]
    BY <1>3, ClaimBatchClaims
  <2>2. /\ pc'[s] = "next" /\ UNCHANGED <<cur, sent>>
        /\ \A r \in Scheduler \ {s} : pc'[r] = pc[r]
    BY <1>0, <1>3 DEF ClaimBatch, TypeOK
  <2>3. ASSUME NEW c \in batch'[s] PROVE c \notin sent
    <3>1. c \in Claim /\ c[2] = outbox[c[1]].attempts + 1
      BY <2>1 DEF BatchClaimed, NewToken
    <3>2. outbox[c[1]].attempts \in Nat
      BY <1>0, <3>1, OptionsAssumption DEF TypeOK, Row, Claim
    <3> QED
      BY <3>1, <3>2 DEF IInv, ClaimsRecorded, Recorded
  <2>4. Delivery'
    BY <1>d, <2>1, <2>2 DEF Delivery, Delivering
  <2>5. SentIsCurrent'
    BY <1>d, <2>1, <2>2, <2>3 DEF SentIsCurrent
  <2> QED
    BY <2>4, <2>5
<1>4. ASSUME NEW s \in Scheduler, NextClaim(s)
      PROVE  Delivery' /\ SentIsCurrent'
  <2>1. cur'[s] \in batch[s] /\ pc'[s] = "sink" /\ pc[s] = "next"
    BY <1>0, <1>4 DEF NextClaim, TypeOK
  <2>2. \A r \in Scheduler \ {s} : cur'[r] = cur[r] /\ pc'[r] = pc[r]
    BY <1>0, <1>4 DEF NextClaim, TypeOK
  <2>3. UNCHANGED <<batch, sent>>
    BY <1>4 DEF NextClaim
  <2> QED
    BY <1>d, <2>1, <2>2, <2>3 DEF Delivery, SentIsCurrent, Delivering
<1>5. ASSUME NEW s \in Scheduler, SinkAccepts(s) \/ SinkRaises(s)
      PROVE  Delivery' /\ SentIsCurrent'
  <2>1. /\ pc[s] = "sink" /\ cur[s] \in batch[s]
        /\ UNCHANGED <<batch, cur>>
        /\ sent' = sent \/ sent' = sent \cup {cur[s]}
    BY <1>5, <1>d DEF SinkAccepts, SinkRaises, Delivering
  <2>2. /\ pc'[s] \in {"accepted", "rejected"}
        /\ pc'[s] = "accepted" => cur[s] \in sent'
        /\ \A r \in Scheduler \ {s} : pc'[r] = pc[r]
    BY <1>0, <1>5 DEF SinkAccepts, SinkRaises, TypeOK
  <2>3. \A r \in Scheduler \ {s} : cur[s] \notin batch[r]
    BY <1>b, <2>1
  <2>4. Delivery'
    BY <1>d, <2>1, <2>2 DEF Delivery, Delivering
  <2>5. SentIsCurrent'
    BY <1>d, <2>1, <2>2, <2>3 DEF SentIsCurrent
  <2> QED
    BY <2>4, <2>5
<1>6. ASSUME NEW s \in Scheduler, LeaveClaim(s), Delivering(s)
      PROVE  Delivery' /\ SentIsCurrent'
  <2>1. /\ pc'[s] = "next" /\ batch'[s] = batch[s] \ {cur[s]} /\ sent' = sent
        /\ \A r \in Scheduler \ {s} :
             pc'[r] = pc[r] /\ cur'[r] = cur[r] /\ batch'[r] = batch[r]
    BY <1>0, <1>6 DEF LeaveClaim, TypeOK
  <2>2. Delivery'
    BY <1>d, <2>1 DEF Delivery, Delivering
  <2>3. SentIsCurrent'
    BY <1>d, <2>1 DEF SentIsCurrent
  <2> QED
    BY <2>2, <2>3
<1>7. ASSUME NEW s \in Scheduler, Abort(s)
      PROVE  Delivery' /\ SentIsCurrent'
  <2>1. /\ pc'[s] = "idle" /\ batch'[s] = {} /\ sent' = sent
        /\ \A r \in Scheduler \ {s} :
             pc'[r] = pc[r] /\ cur'[r] = cur[r] /\ batch'[r] = batch[r]
    BY <1>0, <1>7 DEF Abort, TypeOK
  <2> QED
    BY <1>d, <2>1 DEF Delivery, SentIsCurrent, Delivering
<1>8. ASSUME NEW s \in Scheduler, ScanStep(s) \/ ScanFails(s)
      PROVE  Delivery' /\ SentIsCurrent'
  BY <1>1, <1>2, <1>8
    DEF ScanStep, StartCycle, Enqueue, EnqueueSuppressed, EndScan, ScanFails
<1>9. ASSUME NEW s \in Scheduler, DrainDone(s) \/ BatchDone(s)
      PROVE  Delivery' /\ SentIsCurrent'
  BY <1>2, <1>9 DEF DrainDone, BatchDone
<1>10. ASSUME NEW s \in Scheduler, Complete(s) \/ Fail(s) \/ GiveUp(s)
       PROVE  Delivery' /\ SentIsCurrent'
  BY <1>6, <1>10 DEF Complete, Fail, GiveUp, Delivering
<1>11. ASSUME NEW s \in Scheduler, Heartbeat(s) \/ HeartbeatFails(s)
       PROVE  Delivery' /\ SentIsCurrent'
  BY <1>1, <1>11 DEF Heartbeat, HeartbeatFails
<1>12. ASSUME Tick \/ (\E e \in Event : Acknowledge(e)) \/ (\E t \in Task : Edit(t))
       PROVE  Delivery' /\ SentIsCurrent'
  BY <1>1, <1>12 DEF Tick, Acknowledge, Edit
<1>13. CASE UNCHANGED vars
  BY <1>1, <1>13 DEF vars
<1> QED
  BY <1>3, <1>4, <1>5, <1>7, <1>8, <1>9, <1>10, <1>11, <1>12, <1>13 DEF Next, DrainStep

-----------------------------------------------------------------------------
(* Theorems.                                                               *)

LEMMA NextIInv == IInv /\ [Next]_vars => IInv'
BY NextTypeOK, TablePreserved, ClaimsPreserved, DeliveryPreserved DEF IInv

(* IInv is an invariant of the outbox and its schedulers.                  *)
THEOREM Invariance == Spec => []IInv
BY InitIInv, NextIInv, PTL DEF Spec

(* Type correctness of the tables and of every scheduler's state.          *)
THEOREM TypeCorrect == Spec => []TypeOK
<1>1. IInv => TypeOK
  BY DEF IInv
<1> QED
  BY <1>1, Invariance, PTL

(* A delivered row is acknowledged and no acknowledged revision waits.     *)
THEOREM AcksAgree == Spec => []AckMatchesOutbox
<1>1. IInv => AckMatchesOutbox
  BY DEF IInv
<1> QED
  BY <1>1, Invariance, PTL

(* At most one scheduler holds a live lease on an event: its token is the  *)
(* row's latest attempt, and no other scheduler can hold that same claim.  *)
THEOREM LeasesExclusive == Spec => []LeaseExclusive
<1>1. IInv => LeaseExclusive
  <2> SUFFICES ASSUME IInv, NEW s1 \in Scheduler, NEW s2 \in Scheduler, s1 # s2,
                      NEW c1 \in batch[s1], NEW c2 \in batch[s2],
                      Owned(c1), Owned(c2), c1[1] = c2[1]
               PROVE  FALSE
    BY DEF LeaseExclusive
  <2>1. c1[2] = c2[2]
    BY DEF Owned
  <2>2. c1 \in Claim /\ c2 \in Claim
    BY DEF IInv, TypeOK
  <2>3. c1 = c2
    BY <2>1, <2>2 DEF Claim
  <2> QED
    BY <2>3 DEF IInv, BatchesDisjoint
<1> QED
  BY <1>1, Invariance, PTL

(* No claim is handed to the sink again once the sink has taken it: every  *)
(* further delivery of an event is paid for with a new attempt.            *)
THEOREM OneCallPerClaim == Spec => OneSinkCallPerClaim
<1> DEFINE OneCall ==
      \A s \in Scheduler :
        pc[s] = "sink" /\ pc'[s] \in {"accepted", "rejected"} => cur[s] \notin sent
<1>1. IInv => OneCall
  BY DEF IInv, Delivery, Delivering, SentIsCurrent
<1>2. IInv /\ [Next]_vars => [OneCall]_vars
  BY <1>1
<1>3. Spec => [][OneCall]_vars
  <2> HIDE DEF OneCall
  <2> QED
    BY <1>2, Invariance, PTL DEF Spec
<1> QED
  BY <1>3 DEF OneSinkCallPerClaim

-----------------------------------------------------------------------------
(* A task is announced as new once.                                        *)

(* A row that says NEW was queued, and the queue never forgets a row.      *)
NewIsPersisted == \A e \in Event : outbox[e].status = "NEW" => Persisted(e)

OnceInv == NewIsPersisted /\ NewAtMostOnce

(* Only enqueue decides what a row announces.                              *)
LEMMA StatusKept ==
  ASSUME IInv, [Next]_vars, ~(\E s \in Scheduler, f \in Event : Enqueue(s, f)), NEW e \in Event
  PROVE  outbox'[e].status = outbox[e].status
<1> USE DEF histories, tables, procs
<1>0. TypeOK
  BY DEF IInv
<1>1. CASE outbox' = outbox
  BY <1>1
<1>2. ASSUME NEW s \in Scheduler, ClaimBatch(s)
      PROVE  outbox'[e].status = outbox[e].status
  <2>1. outbox'[e] = outbox[e] \/ outbox'[e] = Leased(outbox[e], NewToken(e))
    BY <1>0, <1>2, ClaimRows
  <2> QED
    BY <2>1 DEF Leased
<1>3. ASSUME NEW f, NEW state, NEW delay, outbox' = [outbox EXCEPT ![f] = Released(outbox[f], state, delay)]
      PROVE  outbox'[e].status = outbox[e].status
  <2>1. outbox'[e] = outbox[e] \/ outbox'[e] = Released(outbox[e], state, delay)
    BY <1>0, <1>3 DEF TypeOK
  <2> QED
    BY <2>1 DEF Released
<1>4. ASSUME NEW s \in Scheduler, Complete(s) \/ Fail(s)
      PROVE  outbox'[e].status = outbox[e].status
  BY <1>1, <1>3, <1>4 DEF Complete, Fail
<1>5. ASSUME NEW s \in Scheduler, Heartbeat(s)
      PROVE  outbox'[e].status = outbox[e].status
  <2>1. outbox[e] \in Row
    BY <1>0 DEF TypeOK
  <2>2. outbox'[e] = outbox[e] \/ outbox'[e] = [outbox[e] EXCEPT !.timer = LeaseSeconds]
    BY <1>0, <1>5 DEF Heartbeat, TypeOK
  <2> QED
    BY <2>1, <2>2 DEF Row
<1>6. ASSUME NEW f \in Event, Acknowledge(f)
      PROVE  outbox'[e].status = outbox[e].status
  BY <1>1, <1>3, <1>6 DEF Acknowledge
<1>7. CASE Tick
  BY <1>0, <1>7 DEF Tick, TypeOK, Row
<1>8. ASSUME NEW s \in Scheduler, ScanStep(s) \/ ScanFails(s)
      PROVE  outbox'[e].status = outbox[e].status
  BY <1>1, <1>8 DEF ScanStep, StartCycle, EnqueueSuppressed, EndScan, ScanFails
<1>9. ASSUME NEW s \in Scheduler, DrainStep(s) \/ HeartbeatFails(s) \/ Abort(s)
      PROVE  outbox'[e].status = outbox[e].status
  BY <1>1, <1>2, <1>4, <1>9
    DEF DrainStep, DrainDone, NextClaim, BatchDone, SinkAccepts, SinkRaises, GiveUp, HeartbeatFails, Abort
<1>10. ASSUME (\E t \in Task : Edit(t)) \/ UNCHANGED vars
       PROVE  outbox'[e].status = outbox[e].status
  BY <1>1, <1>10 DEF Edit, vars
<1> QED
  BY <1>5, <1>6, <1>7, <1>8, <1>9, <1>10 DEF Next

LEMMA OnceInit == Init => OnceInv
<1> SUFFICES ASSUME Init PROVE OnceInv
  OBVIOUS
<1>1. \A e \in Event : outbox[e].status # "NEW"
  BY DEF Init, AbsentRow
<1> QED
  BY <1>1 DEF OnceInv, NewIsPersisted, NewAtMostOnce, Event

LEMMA OnceNext ==
  ASSUME IInv, OnceInv, [Next]_vars
  PROVE  OnceInv'
<1>0. TypeOK
  BY DEF IInv
<1>1. ASSUME NEW e \in Event, outbox[e].state # "absent" PROVE outbox'[e].state # "absent"
  BY <1>1, RowSteps DEF RowStep, RowKept, RowQueued, RowClaimed, RowReleased
<1>2. CASE ~(\E s \in Scheduler, f \in Event : Enqueue(s, f))
  <2>1. \A e \in Event : outbox'[e].status = outbox[e].status
    BY <1>2, StatusKept
  <2>2. NewIsPersisted'
    BY <1>1, <2>1 DEF OnceInv, NewIsPersisted, Persisted
  <2>3. NewAtMostOnce'
    BY <2>1 DEF OnceInv, NewAtMostOnce, Event
  <2> QED
    BY <2>2, <2>3 DEF OnceInv
<1>3. ASSUME NEW s \in Scheduler, NEW f \in Event, Enqueue(s, f) PROVE OnceInv'
  <2>1. /\ outbox'[f].state = "pending"
        /\ outbox'[f].status = IF HasPrior(f[1]) THEN "UPDATED" ELSE "NEW"
        /\ \A e \in Event \ {f} : outbox'[e] = outbox[e]
    BY <1>0, <1>3 DEF Enqueue, TypeOK
  <2>2. NewIsPersisted'
    BY <2>1 DEF OnceInv, NewIsPersisted, Persisted
  <2>3. ASSUME outbox'[f].status = "NEW", NEW r \in Revision
        PROVE  outbox[<<f[1], r>>].status # "NEW"
    <3>1. ~IsSuppressed(<<f[1], r>>)
      BY <2>1, <2>3 DEF HasPrior
    <3>2. <<f[1], r>> \in Event
      BY DEF Event
    <3> QED
      BY <3>1, <3>2 DEF IsSuppressed, OnceInv, NewIsPersisted
  <2>4. ASSUME NEW t \in Task, NEW r1 \in Revision, NEW r2 \in Revision,
               outbox'[<<t, r1>>].status = "NEW", outbox'[<<t, r2>>].status = "NEW"
        PROVE  r1 = r2
    <3>1. <<t, r1>> \in Event /\ <<t, r2>> \in Event
      BY DEF Event
    <3>2. CASE <<t, r1>> # f /\ <<t, r2>> # f
      <4>1. outbox[<<t, r1>>].status = "NEW" /\ outbox[<<t, r2>>].status = "NEW"
        BY <2>1, <2>4, <3>1, <3>2
      <4> QED
        BY <4>1 DEF OnceInv, NewAtMostOnce
    <3>3. ASSUME NEW r \in Revision, <<t, r>> # f, outbox'[<<t, r>>].status = "NEW"
          PROVE  ~(f[1] = t /\ outbox'[f].status = "NEW")
      <4>1. outbox[<<t, r>>].status = "NEW"
        BY <2>1, <3>3 DEF Event
      <4> QED
        BY <2>3, <4>1
    <3>4. CASE <<t, r1>> = f /\ <<t, r2>> # f
      BY <2>4, <3>3, <3>4
    <3>5. CASE <<t, r2>> = f /\ <<t, r1>> # f
      BY <2>4, <3>3, <3>5
    <3> QED
      BY <3>2, <3>4, <3>5
  <2> QED
    BY <2>2, <2>4 DEF OnceInv, NewAtMostOnce
<1> QED
  BY <1>2, <1>3

(* However the scans of several schedulers race, and whatever operators    *)
(* acknowledge before it is queued, one revision of a task is announced as *)
(* NEW (enqueue looks for prior rows in the transaction that inserts).     *)
THEOREM NewOnce == Spec => []NewAtMostOnce
<1>1. Init => OnceInv
  BY OnceInit
<1>2. IInv /\ OnceInv /\ [Next]_vars => OnceInv'
  BY OnceNext
<1>3. OnceInv => NewAtMostOnce
  BY DEF OnceInv
<1> QED
  BY <1>1, <1>2, <1>3, Invariance, PTL DEF Spec

-----------------------------------------------------------------------------
(* The outbox implements its contract.                                     *)

Phase == [e \in Event |-> IF e \in acks THEN "settled"
                          ELSE IF Persisted(e) THEN "queued" ELSE "unseen"]
Heard == {c[1] : c \in sent}

LEMMA ContractInit == Init => Contract!Init
<1> SUFFICES ASSUME Init PROVE Contract!Init
  OBVIOUS
<1>1. \A e \in Event : e \notin acks /\ ~Persisted(e)
  BY DEF Init, AbsentRow, Persisted
<1> QED
  BY <1>1 DEF Init, Contract!Init

(* Each step records, announces, settles or vouches for one event, or      *)
(* changes nothing the contract speaks of.                                 *)
LEMMA ContractStep ==
  ASSUME IInv, [Next]_vars
  PROVE  [Contract!Next]_(Contract!vars)
<1> USE DEF histories, tables, procs
<1>0. TypeOK
  BY DEF IInv
<1>p. ASSUME acks' = acks, \A e \in Event : Persisted(e)' = Persisted(e)
      PROVE  Phase' = Phase
  BY <1>p DEF Phase
<1>1. ASSUME Phase' = Phase, sent' = sent, asserted' = asserted
      PROVE  UNCHANGED Contract!vars
  BY <1>1 DEF Phase, Contract!vars
<1>2. ASSUME NEW s \in Scheduler, SinkAccepts(s) \/ SinkRaises(s)
      PROVE  [Contract!Next]_(Contract!vars)
  <2>1. PICK f \in Event : f = cur[s][1] /\ Persisted(f)
    BY <1>0, <1>2 DEF SinkAccepts, SinkRaises, Delivering, IInv, Delivery,
       ClaimsRecorded, Recorded, TypeOK, Claim
  <2>2. Phase' = Phase /\ asserted' = asserted
    BY <1>2, <1>p DEF SinkAccepts, SinkRaises, Persisted
  <2>3. CASE sent' = sent
    BY <1>1, <2>2, <2>3
  <2>4. CASE sent' = sent \cup {cur[s]}
    <3>1. Heard' = Heard \cup {f}
      BY <2>1, <2>4 DEF Heard
    <3>2. Phase[f] # "unseen"
      BY <2>1 DEF Phase
    <3>3. Contract!Hear(f)
      BY <2>2, <3>1, <3>2 DEF Contract!Hear, Phase, Heard
    <3> QED
      BY <3>3 DEF Contract!Next
  <2> QED
    BY <1>2, <2>3, <2>4 DEF SinkAccepts, SinkRaises
<1>3. ASSUME NEW s \in Scheduler, Complete(s)
      PROVE  [Contract!Next]_(Contract!vars)
  <2>0. PICK f \in Event : f = cur[s][1]
    BY <1>0, <1>3 DEF Complete, LeaveClaim, Delivering, IInv, Delivery, TypeOK, Claim
  <2>1. f = cur[s][1] /\ cur[s] \in sent /\ sent' = sent /\ asserted' = asserted
    BY <1>3, <2>0 DEF Complete, LeaveClaim, IInv, Delivery
  <2>2. CASE Owned(cur[s])
    <3>1. /\ outbox' = [outbox EXCEPT ![f] = Released(outbox[f], "delivered", 0)]
          /\ acks' = acks \cup {f}
      BY <1>3, <2>0, <2>2 DEF Complete
    <3>2. f \notin acks /\ Persisted(f)
      BY <2>1, <2>2 DEF Owned, IInv, AckMatchesOutbox, Persisted
    <3>3. \A e \in Event \ {f} : outbox'[e] = outbox[e]
      BY <1>0, <2>1, <3>1 DEF TypeOK
    <3>4. Phase' = [Phase EXCEPT ![f] = "settled"]
      BY <2>1, <3>1, <3>3 DEF Phase, Persisted
    <3>5. Phase[f] = "queued" /\ f \in Heard
      BY <2>1, <3>2 DEF Phase, Heard
    <3>6. Contract!Settle(f)
      BY <2>1, <3>4, <3>5 DEF Contract!Settle, Phase, Heard
    <3> QED
      BY <2>1, <3>6 DEF Contract!Next
  <2>3. CASE ~Owned(cur[s])
    <3>1. Phase' = Phase
      BY <1>3, <1>p, <2>3 DEF Complete, Persisted
    <3> QED
      BY <1>1, <2>1, <3>1
  <2> QED
    BY <2>2, <2>3
<1>4. ASSUME NEW f \in Event, Acknowledge(f)
      PROVE  [Contract!Next]_(Contract!vars)
  <2>1. \A e \in Event \ {f} : outbox'[e] = outbox[e]
    BY <1>0, <1>4 DEF Acknowledge, TypeOK
  <2>2. Phase' = [Phase EXCEPT ![f] = "settled"]
    BY <1>4, <2>1 DEF Acknowledge, Phase, Persisted
  <2>3. Contract!Vouch(f)
    BY <1>4, <2>2 DEF Acknowledge, Contract!Vouch, Phase, Heard
  <2> QED
    BY <2>3 DEF Contract!Next
<1>5. ASSUME NEW s \in Scheduler, NEW f \in Event, Enqueue(s, f)
      PROVE  [Contract!Next]_(Contract!vars)
  <2>1. Persisted(f)' /\ \A e \in Event \ {f} : outbox'[e] = outbox[e]
    BY <1>0, <1>5 DEF Enqueue, TypeOK, Persisted
  <2>2. f \notin acks /\ ~Persisted(f) /\ acks' = acks
    BY <1>5 DEF Enqueue, IsSuppressed
  <2>3. Phase[f] = "unseen" /\ Phase' = [Phase EXCEPT ![f] = "queued"]
    BY <2>1, <2>2 DEF Phase, Persisted
  <2>4. Contract!Record(f)
    BY <1>5, <2>3 DEF Enqueue, Contract!Record, Phase, Heard
  <2> QED
    BY <2>4 DEF Contract!Next
<1>6. ASSUME acks' = acks, sent' = sent, asserted' = asserted,
             \A e \in Event : outbox'[e].state = "absent" <=> outbox[e].state = "absent"
      PROVE  [Contract!Next]_(Contract!vars)
  BY <1>1, <1>6, <1>p DEF Persisted
<1>7. ASSUME NEW s \in Scheduler, ClaimBatch(s)
      PROVE  [Contract!Next]_(Contract!vars)
  <2>1. PICK S \in SUBSET Event :
           /\ \A e \in S : Claimable(e)
           /\ \A e \in S : outbox'[e] = Leased(outbox[e], NewToken(e))
           /\ \A e \in Event \ S : outbox'[e] = outbox[e]
    BY <1>0, <1>7, ClaimRows
  <2>2. ASSUME NEW e \in Event
        PROVE  outbox'[e].state = "absent" <=> outbox[e].state = "absent"
    <3>1. CASE e \in S
      <4>1. Claimable(e) /\ outbox'[e] = Leased(outbox[e], NewToken(e))
        BY <2>1, <3>1
      <4> QED
        BY <4>1 DEF Claimable, Leased
    <3> QED
      BY <2>1, <3>1
  <2> QED
    BY <1>6, <1>7, <2>2 DEF ClaimBatch
<1>8. ASSUME NEW s \in Scheduler, Fail(s)
      PROVE  [Contract!Next]_(Contract!vars)
  <2> DEFINE f == cur[s][1]
             r == Released(outbox[f], "pending", RetryDelay(outbox[f].attempts))
  <2>1. CASE Owned(cur[s])
    <3>1. outbox' = [outbox EXCEPT ![f] = r] /\ outbox[f].state = "leased"
      BY <1>8, <2>1 DEF Fail, Owned
    <3>2. r.state = "pending"
      BY DEF Released
    <3>3. \A e \in Event : outbox'[e].state = "absent" <=> outbox[e].state = "absent"
      BY <1>0, <3>1, <3>2 DEF TypeOK
    <3> QED
      BY <1>6, <1>8, <3>3 DEF Fail, LeaveClaim
  <2>2. CASE ~Owned(cur[s])
    BY <1>6, <1>8, <2>2 DEF Fail, LeaveClaim
  <2> QED
    BY <2>1, <2>2
<1>9. ASSUME NEW s \in Scheduler, Heartbeat(s)
       PROVE  [Contract!Next]_(Contract!vars)
  <2>1. \A e \in Event : outbox'[e].state = outbox[e].state
    BY <1>0, <1>9 DEF Heartbeat, TypeOK, Row
  <2> QED
    BY <1>6, <1>9, <2>1 DEF Heartbeat
<1>10. ASSUME Tick
       PROVE  [Contract!Next]_(Contract!vars)
  <2>1. \A e \in Event : outbox'[e].state = outbox[e].state
    BY <1>0, <1>10 DEF Tick, TypeOK, Row
  <2> QED
    BY <1>6, <1>10, <2>1 DEF Tick
<1>11. ASSUME UNCHANGED <<outbox, acks, sent, asserted>>
       PROVE  [Contract!Next]_(Contract!vars)
  BY <1>6, <1>11
<1>12. ASSUME NEW s \in Scheduler, ScanStep(s) \/ ScanFails(s)
       PROVE  [Contract!Next]_(Contract!vars)
  BY <1>5, <1>11, <1>12
    DEF ScanStep, StartCycle, EnqueueSuppressed, EndScan, ScanFails
<1>13. ASSUME NEW s \in Scheduler,
              DrainStep(s) \/ Heartbeat(s) \/ HeartbeatFails(s) \/ Abort(s)
       PROVE  [Contract!Next]_(Contract!vars)
  BY <1>2, <1>3, <1>7, <1>8, <1>9, <1>11, <1>13
    DEF DrainStep, DrainDone, NextClaim, BatchDone, GiveUp, LeaveClaim,
        HeartbeatFails, Abort
<1>14. ASSUME NEW t \in Task, Edit(t)
       PROVE  [Contract!Next]_(Contract!vars)
  BY <1>11, <1>14 DEF Edit
<1>15. CASE UNCHANGED vars
  BY <1>11, <1>15 DEF vars
<1> QED
  BY <1>4, <1>10, <1>12, <1>13, <1>14, <1>15 DEF Next

(* The outbox implements DeliveryContract: it never settles an event that  *)
(* the consumer has not heard and no operator has vouched for.             *)
THEOREM ImplementsContract == Spec => KeepsContract
<1>1. Init => Contract!Init
  BY ContractInit
<1>2. IInv /\ [Next]_vars => [Contract!Next]_(Contract!vars)
  BY ContractStep
<1> QED
  BY <1>1, <1>2, Invariance, PTL DEF Spec, KeepsContract, Contract!Spec
=============================================================================

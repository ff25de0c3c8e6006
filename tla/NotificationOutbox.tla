------------------------- MODULE NotificationOutbox -------------------------
(***************************************************************************)
(* The durable notification outbox of the Moodle adapter (MoodleState in   *)
(* state.py) together with the schedulers that fill and drain it (once,    *)
(* drain and _deliver in scheduler.py).                                    *)
(*                                                                         *)
(* A scheduler cycle scans Moodle, records every revision it has not seen  *)
(* as a row of the outbox, then claims rows in batches under a lease and   *)
(* hands them one by one to a sink (Telegram).  A heartbeat thread renews  *)
(* the lease of the row being handed over.  Several schedulers, an         *)
(* operator's manual acknowledgement and crashes interleave on one SQLite  *)
(* file; every action below that touches the tables is one transaction.    *)
(*                                                                         *)
(* Time is relative: a row's timer is the number of seconds until its      *)
(* available_at (pending) or lease_expires_at (leased), so that "<= now"   *)
(* in the SQL is timer = 0 and "> now" is timer > 0.                       *)
(***************************************************************************)
EXTENDS Integers, FiniteSets

CONSTANTS
  Task,          \* Moodle assignments
  Selected,      \* the assignments of the configured courses
  MaxRevision,   \* bound: how many revisions an assignment goes through
  Scheduler,     \* scheduler processes sharing the database
  LeaseSeconds,  \* SchedulerOptions.lease_seconds
  BatchSize,     \* SchedulerOptions.batch_size
  RetryBase,     \* SchedulerOptions.retry_base_seconds
  RetryMax,      \* SchedulerOptions.retry_max_seconds
  MaxNewEvents,  \* SchedulerOptions.max_new_events_per_cycle
  MaxAttempts    \* _MAX_ATTEMPTS of state.py (1,000,000 there)

ASSUME OptionsAssumption ==
  /\ Selected \subseteq Task
  /\ MaxRevision \in Nat \ {0}
  /\ LeaseSeconds \in Nat \ {0}
  /\ BatchSize \in Nat \ {0}
  /\ RetryBase \in Nat \ {0}
  /\ RetryMax \in Nat \ {0}
  /\ RetryBase <= RetryMax
  /\ MaxNewEvents \in Nat \ {0}
  /\ MaxAttempts \in Nat \ {0}

\* Arithmetic the proofs need and the provers have no rule for; it has no
\* parameters, so TLC's evaluation of it is a complete check.
ASSUME PowersOfTwo == \A k \in 0..20 : 2 ^ k \in Nat

VARIABLES
  moodle,    \* the revision Moodle currently shows for each assignment
  outbox,    \* the outbox table, one row per (task, revision)
  acks,      \* the acknowledgements table
  pc,        \* where each scheduler is in its cycle
  scan,      \* assignments its scan has listed and not yet looked at
  enqueued,  \* rows its scan has inserted in this cycle
  batch,     \* claims it holds and has not yet settled
  cur,       \* the claim it is handing to the sink
  lost,      \* ownership_lost, set by the heartbeat of that claim
  sent,      \* history: the claims whose event the sink has accepted
  asserted   \* history: the events an operator acknowledged by hand

tables    == <<outbox, acks>>
procs     == <<pc, scan, enqueued, batch, cur, lost>>
histories == <<sent, asserted>>
vars      == <<moodle, tables, procs, histories>>

Revision == 1..MaxRevision
Event    == Task \X Revision

(***************************************************************************)
(* A claim pairs an event with the token of its lease.  The random token   *)
(* is represented by the row's attempt number: the claim that raises       *)
(* attempts to k is the only one that ever gets k.  NoToken is SQL NULL.   *)
(***************************************************************************)
NoToken == 0
Claim   == Event \X (1..MaxAttempts)
NoClaim == <<>>

RowStates == {"absent", "pending", "leased", "delivered"}
Statuses  == {"NONE", "NEW", "UPDATED"}
Row == [state: RowStates, attempts: 0..MaxAttempts, timer: Nat,
        token: 0..MaxAttempts, created: Nat, status: Statuses]

AbsentRow == [state |-> "absent", attempts |-> 0, timer |-> 0,
              token |-> NoToken, created |-> 0, status |-> "NONE"]

PcValues == {"idle", "scan", "drain", "next", "sink", "accepted", "rejected"}

TypeOK ==
  /\ moodle \in [Task -> Revision]
  /\ outbox \in [Event -> Row]
  /\ acks \subseteq Event
  /\ pc \in [Scheduler -> PcValues]
  /\ scan \in [Scheduler -> SUBSET Event]
  /\ enqueued \in [Scheduler -> Nat]
  /\ batch \in [Scheduler -> SUBSET Claim]
  /\ cur \in [Scheduler -> Claim \cup {NoClaim}]
  /\ lost \in [Scheduler -> BOOLEAN]
  /\ sent \subseteq Claim
  /\ asserted \subseteq Event

Init ==
  /\ moodle = [t \in Task |-> 1]
  /\ outbox = [e \in Event |-> AbsentRow]
  /\ acks = {}
  /\ pc = [s \in Scheduler |-> "idle"]
  /\ scan = [s \in Scheduler |-> {}]
  /\ enqueued = [s \in Scheduler |-> 0]
  /\ batch = [s \in Scheduler |-> {}]
  /\ cur = [s \in Scheduler |-> NoClaim]
  /\ lost = [s \in Scheduler |-> FALSE]
  /\ sent = {}
  /\ asserted = {}

-----------------------------------------------------------------------------
(* Queries of state.py.                                                    *)

Persisted(e) == outbox[e].state # "absent"

\* _is_suppressed: this exact revision is acknowledged or already queued.
IsSuppressed(e) == e \in acks \/ Persisted(e)

\* Defect: only acknowledgements count as prior, as in _has_prior_ack.
HasPrior_AcksOnly(t) == \E r \in Revision : <<t, r>> \in acks

\* _has_prior: some revision of the task is acknowledged or queued.
HasPrior(t) == \E r \in Revision : IsSuppressed(<<t, r>>)

\* Defects: no limit on attempts; expired leases are never claimed again.
Claimable_NoCap(e) ==
  outbox[e].state \in {"pending", "leased"} /\ outbox[e].timer = 0
Claimable_PendingOnly(e) ==
  outbox[e].state = "pending" /\ outbox[e].timer = 0 /\ outbox[e].attempts < MaxAttempts

\* The WHERE clause of claim.
Claimable(e) ==
  /\ outbox[e].state \in {"pending", "leased"}
  /\ outbox[e].timer = 0
  /\ outbox[e].attempts < MaxAttempts

\* Defect: a reclaimed row keeps the token of the lease that expired.
NewToken_Reused(e) ==
  IF outbox[e].token = NoToken THEN outbox[e].attempts + 1 ELSE outbox[e].token

\* secrets.token_hex: the token of the next claim of a row.
NewToken(e) == outbox[e].attempts + 1

\* The WHERE clause shared by renew, complete and fail.
Owned(c) ==
  /\ outbox[c[1]].state = "leased"
  /\ outbox[c[1]].token = c[2]
  /\ outbox[c[1]].timer > 0

\* The UPDATE of claim, and the one of complete, fail and acknowledge: the
\* lease is dropped and the row becomes available after delay seconds.
Leased(row, token) ==
  [state |-> "leased", attempts |-> row.attempts + 1, timer |-> LeaseSeconds,
   token |-> token, created |-> row.created, status |-> row.status]
Released(row, state, delay) ==
  [state |-> state, attempts |-> row.attempts, timer |-> delay,
   token |-> NoToken, created |-> row.created, status |-> row.status]

Smaller(a, b) == IF a <= b THEN a ELSE b

\* The delay that fail adds, by the attempts made so far.
RetryDelay(attempts) ==
  Smaller(RetryMax, RetryBase * 2 ^ Smaller(attempts - 1, 20))

\* created_at of a new row: the second of the youngest row, or a later one.
CreationStamps ==
  LET used == {outbox[e].created : e \in Event}
  IN  {n \in (used \cup {m + 1 : m \in used}) \ {0} : \A m \in used : m <= n}

\* ORDER BY created_at, event_id LIMIT batch_size: the oldest claimable rows,
\* where rows of the same second are in the (arbitrary) order of their hashes.
OldestClaimable(S) ==
  /\ S \subseteq {e \in Event : Claimable(e)}
  /\ \A e \in S, f \in Event \ S :
       Claimable(f) => outbox[e].created <= outbox[f].created
  /\ \/ Cardinality(S) = BatchSize
     \/ Cardinality(S) < BatchSize /\ S = {e \in Event : Claimable(e)}

-----------------------------------------------------------------------------
(* The scan half of once.                                                  *)

\* service.assignments() returns a snapshot, filtered by course.
StartCycle(s) ==
  /\ pc[s] = "idle"
  /\ pc' = [pc EXCEPT ![s] = "scan"]
  /\ scan' = [scan EXCEPT ![s] = {<<t, moodle[t]>> : t \in Selected}]
  /\ UNCHANGED <<moodle, tables, enqueued, batch, cur, lost, histories>>

\* Defect: revisions already known use up max_new_events_per_cycle.
EnqueueSuppressed_UsesCap(s, e) ==
  /\ pc[s] = "scan" /\ e \in scan[s] /\ enqueued[s] < MaxNewEvents
  /\ IsSuppressed(e)
  /\ scan' = [scan EXCEPT ![s] = @ \ {e}]
  /\ enqueued' = [enqueued EXCEPT ![s] = @ + 1]
  /\ UNCHANGED <<moodle, tables, pc, batch, cur, lost, histories>>

\* enqueue finds the revision suppressed and returns None.
EnqueueSuppressed(s, e) ==
  /\ pc[s] = "scan" /\ e \in scan[s] /\ enqueued[s] < MaxNewEvents
  /\ IsSuppressed(e)
  /\ scan' = [scan EXCEPT ![s] = @ \ {e}]
  /\ UNCHANGED <<moodle, tables, pc, enqueued, batch, cur, lost, histories>>

\* enqueue classifies an unseen revision and inserts its row.
Enqueue(s, e) ==
  /\ pc[s] = "scan" /\ e \in scan[s] /\ enqueued[s] < MaxNewEvents
  /\ ~IsSuppressed(e)
  /\ \E n \in CreationStamps :
       outbox' = [outbox EXCEPT ![e] =
         [state |-> "pending", attempts |-> 0, timer |-> 0, token |-> NoToken,
          created |-> n, status |-> IF HasPrior(e[1]) THEN "UPDATED" ELSE "NEW"]]
  /\ scan' = [scan EXCEPT ![s] = @ \ {e}]
  /\ enqueued' = [enqueued EXCEPT ![s] = @ + 1]
  /\ UNCHANGED <<moodle, acks, pc, batch, cur, lost, histories>>

\* The loop over the assignments ends, or breaks at the cap.
EndScan(s) ==
  /\ pc[s] = "scan"
  /\ scan[s] = {} \/ enqueued[s] >= MaxNewEvents
  /\ pc' = [pc EXCEPT ![s] = "drain"]
  /\ scan' = [scan EXCEPT ![s] = {}]
  /\ enqueued' = [enqueued EXCEPT ![s] = 0]
  /\ UNCHANGED <<moodle, tables, batch, cur, lost, histories>>

\* A connector or database error ends the scan; draining goes on.
ScanFails(s) ==
  /\ pc[s] = "scan"
  /\ pc' = [pc EXCEPT ![s] = "drain"]
  /\ scan' = [scan EXCEPT ![s] = {}]
  /\ enqueued' = [enqueued EXCEPT ![s] = 0]
  /\ UNCHANGED <<moodle, tables, batch, cur, lost, histories>>

-----------------------------------------------------------------------------
(* drain and _deliver.                                                     *)

\* claim leases the oldest claimable rows to s in one transaction.
ClaimBatch(s) ==
  /\ pc[s] = "drain"
  /\ \E S \in SUBSET Event :
       /\ S # {} /\ OldestClaimable(S)
       /\ outbox' = [e \in Event |->
            IF e \in S THEN Leased(outbox[e], NewToken(e)) ELSE outbox[e]]
       /\ batch' = [batch EXCEPT ![s] = {<<e, NewToken(e)>> : e \in S}]
  /\ pc' = [pc EXCEPT ![s] = "next"]
  /\ UNCHANGED <<moodle, acks, scan, enqueued, cur, lost, histories>>

\* claim returns nothing: drain, and with it the cycle, is over.
DrainDone(s) ==
  /\ pc[s] = "drain"
  /\ \A e \in Event : ~Claimable(e)
  /\ pc' = [pc EXCEPT ![s] = "idle"]
  /\ UNCHANGED <<moodle, tables, scan, enqueued, batch, cur, lost, histories>>

\* _deliver of the batch's next claim: start its heartbeat, call the sink.
NextClaim(s) ==
  /\ pc[s] = "next"
  /\ \E c \in batch[s] :
       /\ \A d \in batch[s] : outbox[c[1]].created <= outbox[d[1]].created
       /\ cur' = [cur EXCEPT ![s] = c]
  /\ pc' = [pc EXCEPT ![s] = "sink"]
  /\ UNCHANGED <<moodle, tables, scan, enqueued, batch, lost, histories>>

\* The batch is used up: back to claim.
BatchDone(s) ==
  /\ pc[s] = "next" /\ batch[s] = {}
  /\ pc' = [pc EXCEPT ![s] = "drain"]
  /\ UNCHANGED <<moodle, tables, scan, enqueued, batch, cur, lost, histories>>

SinkAccepts(s) ==
  /\ pc[s] = "sink"
  /\ pc' = [pc EXCEPT ![s] = "accepted"]
  /\ sent' = sent \cup {cur[s]}
  /\ UNCHANGED <<moodle, tables, scan, enqueued, batch, cur, lost, asserted>>

\* The sink raises, perhaps after its side effect (a lost HTTP response).
SinkRaises(s) ==
  /\ pc[s] = "sink"
  /\ pc' = [pc EXCEPT ![s] = "rejected"]
  /\ sent' \in {sent, sent \cup {cur[s]}}
  /\ UNCHANGED <<moodle, tables, scan, enqueued, batch, cur, lost, asserted>>

Delivering(s) == pc[s] \in {"sink", "accepted", "rejected"}

\* One beat of the heartbeat thread: renew, or note that ownership is lost.
\* It may still run between the sink's return and the settling transaction.
Heartbeat(s) ==
  /\ Delivering(s) /\ ~lost[s]
  /\ IF Owned(cur[s])
     THEN /\ outbox' = [outbox EXCEPT ![cur[s][1]].timer = LeaseSeconds]
          /\ UNCHANGED lost
     ELSE /\ lost' = [lost EXCEPT ![s] = TRUE]
          /\ UNCHANGED outbox
  /\ UNCHANGED <<moodle, acks, pc, scan, enqueued, batch, cur, histories>>

\* renew raises (SQLite busy or unreadable).
HeartbeatFails(s) ==
  /\ Delivering(s) /\ ~lost[s]
  /\ lost' = [lost EXCEPT ![s] = TRUE]
  /\ UNCHANGED <<moodle, tables, pc, scan, enqueued, batch, cur, histories>>

\* The tail of _deliver leaves the claim behind and drain takes the next one.
LeaveClaim(s) ==
  /\ pc' = [pc EXCEPT ![s] = "next"]
  /\ batch' = [batch EXCEPT ![s] = @ \ {cur[s]}]
  /\ cur' = [cur EXCEPT ![s] = NoClaim]
  /\ lost' = [lost EXCEPT ![s] = FALSE]
  /\ UNCHANGED <<moodle, scan, enqueued, histories>>

\* Defect: the outcome of the sink call is not looked at.
Complete_AnyOutcome(s) ==
  /\ pc[s] \in {"accepted", "rejected"} /\ ~lost[s] /\ Owned(cur[s])
  /\ outbox' = [outbox EXCEPT ![cur[s][1]] = Released(@, "delivered", 0)]
  /\ acks' = acks \cup {cur[s][1]}
  /\ LeaveClaim(s)

\* complete: delivered and acknowledged in one transaction, if still owned.
Complete(s) ==
  /\ pc[s] = "accepted" /\ ~lost[s]
  /\ IF Owned(cur[s])
     THEN /\ outbox' = [outbox EXCEPT ![cur[s][1]] = Released(@, "delivered", 0)]
          /\ acks' = acks \cup {cur[s][1]}
     ELSE UNCHANGED tables
  /\ LeaveClaim(s)

\* fail: back to pending with a backoff, if still owned.
Fail(s) ==
  /\ pc[s] = "rejected" /\ ~lost[s]
  /\ IF Owned(cur[s])
     THEN outbox' = [outbox EXCEPT
            ![cur[s][1]] = Released(@, "pending", RetryDelay(@.attempts))]
     ELSE UNCHANGED outbox
  /\ UNCHANGED acks
  /\ LeaveClaim(s)

\* The heartbeat saw the lease gone: neither complete nor fail is called.
GiveUp(s) ==
  /\ pc[s] \in {"accepted", "rejected"} /\ lost[s]
  /\ UNCHANGED tables
  /\ LeaveClaim(s)

\* The process is killed, or a database error in claim, complete or fail
\* unwinds the cycle; run starts the next one.  Claims are simply forgotten.
Abort(s) ==
  /\ pc[s] # "idle"
  /\ pc' = [pc EXCEPT ![s] = "idle"]
  /\ scan' = [scan EXCEPT ![s] = {}]
  /\ enqueued' = [enqueued EXCEPT ![s] = 0]
  /\ batch' = [batch EXCEPT ![s] = {}]
  /\ cur' = [cur EXCEPT ![s] = NoClaim]
  /\ lost' = [lost EXCEPT ![s] = FALSE]
  /\ UNCHANGED <<moodle, tables, histories>>

-----------------------------------------------------------------------------
(* The environment: operator, teacher and clock.                           *)

\* Defect: the acknowledgement leaves the queued row behind.
Acknowledge_LeavesRow(e) ==
  /\ e[2] <= moodle[e[1]]
  /\ acks' = acks \cup {e}
  /\ asserted' = asserted \cup {e}
  /\ UNCHANGED <<moodle, outbox, procs, sent>>

\* acknowledge: an operator asserts that this exact revision, one Moodle has
\* shown, was delivered.  It need not be in the outbox.
Acknowledge(e) ==
  /\ e[2] <= moodle[e[1]]
  /\ acks' = acks \cup {e}
  /\ outbox' = IF outbox[e].state \in {"pending", "leased"}
               THEN [outbox EXCEPT ![e] = Released(@, "delivered", 0)]
               ELSE outbox
  /\ asserted' = asserted \cup {e}
  /\ UNCHANGED <<moodle, procs, sent>>

\* A teacher edits an assignment; timemodified makes each revision a new one.
Edit(t) ==
  /\ moodle[t] < MaxRevision
  /\ moodle' = [moodle EXCEPT ![t] = @ + 1]
  /\ UNCHANGED <<tables, procs, histories>>

\* A second passes.
Tick ==
  /\ \E e \in Event : outbox[e].timer > 0
  /\ outbox' = [e \in Event |->
       IF outbox[e].timer > 0 THEN [outbox[e] EXCEPT !.timer = @ - 1] ELSE outbox[e]]
  /\ UNCHANGED <<moodle, acks, procs, histories>>

-----------------------------------------------------------------------------

ScanStep(s) ==
  \/ StartCycle(s)
  \/ \E e \in Event : Enqueue(s, e) \/ EnqueueSuppressed(s, e)
  \/ EndScan(s)

DrainStep(s) ==
  \/ ClaimBatch(s) \/ DrainDone(s) \/ NextClaim(s) \/ BatchDone(s)
  \/ SinkAccepts(s) \/ SinkRaises(s)
  \/ Complete(s) \/ Fail(s) \/ GiveUp(s)

Next ==
  \/ \E s \in Scheduler :
       \/ ScanStep(s) \/ ScanFails(s) \/ DrainStep(s)
       \/ Heartbeat(s) \/ HeartbeatFails(s) \/ Abort(s)
  \/ \E e \in Event : Acknowledge(e)
  \/ \E t \in Task : Edit(t)
  \/ Tick

Spec == Init /\ [][Next]_vars

(***************************************************************************)
(* run loops forever and systemd restarts it, every sink call has an HTTP  *)
(* timeout, and time passes.  Nothing is assumed about the outcome of a    *)
(* sink call, about heartbeats, crashes, operators or teachers.            *)
(***************************************************************************)
Fairness ==
  /\ \A s \in Scheduler : WF_vars(ScanStep(s)) /\ WF_vars(DrainStep(s))
  /\ WF_vars(Tick)

FairSpec == Spec /\ Fairness

-----------------------------------------------------------------------------
(* Properties.                                                             *)

\* The acknowledgement and the row agree: complete and acknowledge write both
\* in one transaction, so a delivered row is acknowledged and no acknowledged
\* revision is still waiting to be delivered (state.py:389-411, 523-546).
AckMatchesOutbox ==
  \A e \in Event :
    /\ outbox[e].state = "delivered" => e \in acks
    /\ e \in acks => outbox[e].state \in {"absent", "delivered"}

\* The outbox keeps the promise of DeliveryContract: an event is settled only
\* after the sink accepted it or an operator vouched for it, and stays settled
\* (at-least-once delivery, state.py:523, docs/architecture.md:35-38).
Contract == INSTANCE DeliveryContract WITH
  phase   <- [e \in Event |-> IF e \in acks THEN "settled"
                              ELSE IF Persisted(e) THEN "queued" ELSE "unseen"],
  heard   <- {c[1] : c \in sent},
  vouched <- asserted

KeepsContract == Contract!Spec

\* Two schedulers never both hold a live lease on the same event, whatever
\* expires, crashes or is reclaimed in between (state.py:450-521).
LeaseExclusive ==
  \A s1, s2 \in Scheduler : s1 # s2 =>
    \A c1 \in batch[s1], c2 \in batch[s2] :
      Owned(c1) /\ Owned(c2) => c1[1] # c2[1]

\* A claim buys one sink call: repeated delivery always costs a new attempt,
\* so attempts bounds how often a consumer can see one event_id
\* (scheduler.py:197-263).
OneSinkCallPerClaim ==
  [][\A s \in Scheduler :
       pc[s] = "sink" /\ pc'[s] \in {"accepted", "rejected"} => cur[s] \notin sent]_vars

\* A task is announced as NEW at most once, even when scans of two schedulers
\* race and revisions are acknowledged before they are queued (state.py:414).
NewAtMostOnce ==
  \A t \in Task : \A r1, r2 \in Revision :
    outbox[<<t, r1>>].status = "NEW" /\ outbox[<<t, r2>>].status = "NEW" => r1 = r2

\* The attempts of a row are used up: claim will never return it again.
Exhausted(e) ==
  outbox[e].state \in {"pending", "leased"} /\ outbox[e].attempts = MaxAttempts

\* Schedulers stop crashing (and hitting database errors) at some point, and
\* their scans stop failing.  A step that also is the normal one is no failure.
CrashesEnd      == <>[][\A s \in Scheduler : Abort(s) => DrainDone(s)]_vars
ScanFailuresEnd == <>[][\A s \in Scheduler : ScanFails(s) => EndScan(s)]_vars

\* No row is stranded: once crashes end, a persisted event is delivered unless
\* it used up all its attempts, even if every scan fails, every lease is lost
\* once and the sink keeps raising (scheduler.py:175-263).
EventuallySettled ==
  CrashesEnd =>
    \A e \in Event : Persisted(e) ~> outbox[e].state = "delivered" \/ Exhausted(e)

\* The per-cycle cap delays but never starves a revision: once scans stop
\* failing and schedulers stop crashing, what Moodle shows is queued or
\* acknowledged, or replaced by a later revision (scheduler.py:178-192).
EventuallyQueued ==
  CrashesEnd /\ ScanFailuresEnd =>
    \A t \in Selected, r \in Revision :
         moodle[t] = r ~> moodle[t] # r \/ IsSuppressed(<<t, r>>)
=============================================================================

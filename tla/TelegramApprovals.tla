-------------------------- MODULE TelegramApprovals --------------------------
(***************************************************************************)
(* Human decisions over Telegram (telegram.py): the sink that sends a      *)
(* revision with its buttons, the pollers that fetch button presses as     *)
(* updates and answer them, and the requests, submissions, callbacks and   *)
(* telegram_cursor tables they share (ApprovalState in approval_state.py). *)
(*                                                                         *)
(* A poller handles the updates it fetched in the order of their ids: one  *)
(* transaction applies the decision, a call to Telegram answers the user,  *)
(* another transaction moves the cursor past the update.  Any of them may  *)
(* fail or be the last thing the process does; the update is then fetched  *)
(* and handled again, by this poller or by another one.                    *)
(***************************************************************************)
EXTENDS Integers, Sequences

CONSTANTS
  Event,      \* revisions the user is asked about
  Scheduler,  \* processes that deliver them through the sink
  Poller,     \* processes that poll: the service, and any poll-once
  MaxUpdates  \* bound: how many updates Telegram delivers in all

ASSUME MaxUpdatesAssumption == MaxUpdates \in Nat

\* What the user decides on: to start the work, to submit its report.
Card == {"start", "submit"} \X Event

\* approve, ignore and details; submit, decline and details.
Actions == {"accept", "reject", "details"}

\* A callback token names a card and an action.  A foreign update has another
\* sender or chat (its token is one that accepts: the others could do less), and
\* a malformed one is no callback or has none of our tokens.
Update == [from: {"user"}, button: Card \X Actions]
            \cup [from: {"foreign"}, button: Card \X {"accept"}]
            \cup {[from |-> "malformed"]}

Answers == {"details", "approved", "rejected", "conflict", "invalid", "unauthorized"}

VARIABLES
  decision, \* requests.decision and submissions.status, up to the decision
  taken,    \* submissions that the worker has taken up (uploading and later)
  work,     \* events with a row in work_items
  notified, \* events whose request is 'notified'
  cursor,   \* telegram_cursor.next_update_id
  sink,     \* where each scheduler is in a call of the sink
  chat,     \* Telegram: the events whose message the user has before them
  updates,  \* Telegram: the updates so far, by update id (from 1)
  pc,       \* where each poller is
  at,       \* the update it is handling
  last,     \* the last of those it fetched
  answer,   \* the answer it is about to give
  begun,    \* history: the submissions that were ever taken up
  told      \* history: the answers each update was given

tables   == <<decision, taken, work, notified>>
telegram == <<chat, updates>>
procs    == <<pc, at, last, answer>>
vars     == <<tables, cursor, sink, telegram, procs, begun, told>>

Decisions == {"absent", "pending", "approved", "rejected"}
NotSending == <<"idle">>

TypeOK ==
  /\ decision \in [Card -> Decisions]
  \* foreign keys and CHECKs: an offer needs work, only decided offers are taken
  /\ taken \subseteq {e \in Event : decision[<<"submit", e>>] = "approved"}
  /\ \A e \in Event : decision[<<"submit", e>>] # "absent" => e \in work
  /\ work \subseteq Event
  /\ notified \subseteq chat
  /\ chat \subseteq {e \in Event : decision[<<"start", e>>] # "absent"}
  /\ cursor \in 1..(MaxUpdates + 1)
  /\ sink \in [Scheduler -> {NotSending} \cup ({"send", "mark"} \X Event)]
  /\ updates \in Seq(Update) /\ Len(updates) <= MaxUpdates
  /\ pc \in [Poller -> {"idle", "next", "resolve", "details", "answer", "advance"}]
  /\ at \in [Poller -> 1..(MaxUpdates + 1)]
  /\ last \in [Poller -> 0..MaxUpdates]
  /\ answer \in [Poller -> Answers \cup {"none"}]
  /\ begun \subseteq Event
  /\ told \in [1..MaxUpdates -> SUBSET Answers]

Init ==
  /\ decision = [c \in Card |-> "absent"]
  /\ taken = {} /\ work = {} /\ notified = {}
  /\ cursor = 1
  /\ sink = [s \in Scheduler |-> NotSending]
  /\ chat = {} /\ updates = <<>>
  /\ pc = [p \in Poller |-> "idle"]
  /\ at = [p \in Poller |-> 1]
  /\ last = [p \in Poller |-> 0]
  /\ answer = [p \in Poller |-> "none"]
  /\ begun = {}
  /\ told = [i \in 1..MaxUpdates |-> {}]

-----------------------------------------------------------------------------
(* The sink, called by a scheduler for each delivery of an event.          *)

\* prepare: the request and its tokens are made once, then found again.
Prepare(s, e) ==
  /\ sink[s] = NotSending
  /\ decision' = [decision EXCEPT ![<<"start", e>>] = IF @ = "absent" THEN "pending" ELSE @]
  /\ sink' = [sink EXCEPT ![s] = <<"send", e>>]
  /\ UNCHANGED <<taken, work, notified, cursor, telegram, procs, begun, told>>

\* Defect: an exception of the call is ignored.
SendMessage_Lenient(s) ==
  /\ sink[s][1] = "send"
  /\ LET e == sink[s][2] IN
       chat' \in {chat, chat \cup {e}} /\ sink' = [sink EXCEPT ![s] = <<"mark", e>>]
  /\ UNCHANGED <<tables, cursor, updates, procs, begun, told>>

\* send_message: the call may raise, with or without the message sent.
SendMessage(s) ==
  /\ sink[s][1] = "send"
  /\ LET e == sink[s][2] IN
       \/ chat' = chat \cup {e} /\ sink' = [sink EXCEPT ![s] = <<"mark", e>>]
       \/ chat' \in {chat, chat \cup {e}} /\ sink' = [sink EXCEPT ![s] = NotSending]
  /\ UNCHANGED <<tables, cursor, updates, procs, begun, told>>

MarkNotified(s) ==
  /\ sink[s][1] = "mark"
  /\ notified' = notified \cup {sink[s][2]}
  /\ sink' = [sink EXCEPT ![s] = NotSending]
  /\ UNCHANGED <<decision, taken, work, cursor, telegram, procs, begun, told>>

\* The scheduler is killed, or the database fails it.
SinkFails(s) ==
  /\ sink[s] # NotSending
  /\ sink' = [sink EXCEPT ![s] = NotSending]
  /\ UNCHANGED <<tables, cursor, telegram, procs, begun, told>>

-----------------------------------------------------------------------------
(* The pollers: process_updates, in a loop with run_polling.               *)

Local(p, there, update, answering) ==
  /\ pc' = [pc EXCEPT ![p] = there]
  /\ at' = [at EXCEPT ![p] = update]
  /\ answer' = [answer EXCEPT ![p] = answering]

Goto(p, there) == Local(p, there, at[p], "none") /\ UNCHANGED last
Reply(p, there, answering) == Local(p, there, at[p], answering) /\ UNCHANGED last

\* The pass ends, normally or not: run_polling starts another.
Return(p) == Local(p, "idle", 1, "none") /\ last' = [last EXCEPT ![p] = 0]

\* get_updates returns what there is from the cursor on, sorted by update id.
\* (If the cursor was read well before, what it has passed meanwhile is skipped.)
GetUpdates(p) ==
  /\ pc[p] = "idle" /\ cursor <= Len(updates)
  /\ Local(p, "next", cursor, "none")
  /\ last' = [last EXCEPT ![p] = Len(updates)]
  /\ UNCHANGED <<tables, cursor, sink, telegram, begun, told>>

\* The update is below the cursor: another poller has handled it.
Skip(p) ==
  /\ pc[p] = "next" /\ at[p] <= last[p] /\ at[p] < cursor
  /\ Local(p, "next", at[p] + 1, "none")
  /\ UNCHANGED <<tables, cursor, sink, telegram, last, begun, told>>

\* The cursor is read again, and _process_callback looks at the update.  A
\* malformed one is answered as invalid if it has a callback to answer.
Examine(p) ==
  /\ pc[p] = "next" /\ at[p] <= last[p] /\ at[p] >= cursor
  /\ CASE updates[at[p]].from = "malformed" ->
            Goto(p, "advance") \/ Reply(p, "answer", "invalid")
       [] updates[at[p]].from = "foreign" ->
            Reply(p, "answer", "unauthorized")
       [] OTHER -> Goto(p, "resolve")
  /\ UNCHANGED <<tables, cursor, sink, telegram, begun, told>>

PassEnds(p) ==
  /\ pc[p] = "next" /\ at[p] > last[p]
  /\ Return(p)
  /\ UNCHANGED <<tables, cursor, sink, telegram, begun, told>>

Requested(action) == IF action = "accept" THEN "approved" ELSE "rejected"

\* Defect: the last press wins.
Decided_Overwrites(c, action) ==
  IF decision[c] = "absent" THEN decision ELSE [decision EXCEPT ![c] = Requested(action)]

\* Only a pending card is decided.
Decided(c, action) ==
  IF decision[c] = "pending" THEN [decision EXCEPT ![c] = Requested(action)] ELSE decision

\* Defect: what was requested is confirmed whether or not it holds.
Outcome_Echo(c, action) == Requested(action)

\* The result: as requested, now or already, or a conflict.  A submission that
\* is being carried out, or was, has a status that equals no request.
Outcome(c, action) ==
  IF decision[c] = "pending" \/ (decision[c] = Requested(action)
                                   /\ ~(c[1] = "submit" /\ c[2] \in taken))
  THEN Requested(action) ELSE "conflict"

\* resolve, and resolve_submission for a token that resolve does not know.  A
\* start that is approved is queued as work, again if it was before (_enqueue_work).
\* If the database fails resolve, resolve_submission does not know its token
\* either: both are answered as invalid, and nothing is decided.
Resolve(p) ==
  /\ pc[p] = "resolve"
  /\ LET c      == updates[at[p]].button[1]
         action == updates[at[p]].button[2]
     IN  \/ /\ action = "details"
            /\ Reply(p, "details", "details")
            /\ UNCHANGED <<decision, work>>
         \/ /\ action # "details"
            /\ Reply(p, "answer", Outcome(c, action))
            /\ decision' = Decided(c, action)
            /\ work' = IF c[1] = "start" /\ Outcome(c, action) = "approved"
                       THEN work \cup {c[2]} ELSE work
         \/ /\ Reply(p, "answer", "invalid")
            /\ UNCHANGED <<decision, work>>
  /\ UNCHANGED <<taken, notified, cursor, sink, telegram, begun, told>>

\* The details are sent; a TelegramError ends the pass at this update.
SendDetails(p) ==
  /\ pc[p] = "details"
  /\ Reply(p, "answer", "details") \/ Return(p)
  /\ UNCHANGED <<tables, cursor, sink, telegram, begun, told>>

\* answer_callback: it may raise with or without the user having been told.
AnswerCallback(p) ==
  /\ pc[p] = "answer"
  /\ LET tell == [told EXCEPT ![at[p]] = @ \cup {answer[p]}] IN
       \/ told' = tell /\ Goto(p, "advance")
       \/ told' \in {told, tell} /\ Return(p)
  /\ UNCHANGED <<tables, cursor, sink, telegram, begun>>

\* Defect: the cursor is moved past all that was fetched.
Advanced_Batch(p) == IF cursor > last[p] THEN cursor ELSE last[p] + 1

\* MAX(next_update_id, update_id + 1)
Advanced(p) == IF cursor > at[p] THEN cursor ELSE at[p] + 1

AdvanceUpdateId(p) ==
  /\ pc[p] = "advance"
  /\ cursor' = Advanced(p)
  /\ Local(p, "next", at[p] + 1, "none")
  /\ UNCHANGED <<tables, sink, telegram, last, begun, told>>

\* get_updates raises, the database fails the cursor, or the poller is killed.
PassFails(p) ==
  /\ pc[p] # "idle"
  /\ Return(p)
  /\ UNCHANGED <<tables, cursor, sink, telegram, begun, told>>

-----------------------------------------------------------------------------
(* The environment: the worker's side of the submissions, and the chat.    *)

\* prepare_submission, by the worker, for work that it has finished.
Offer(e) ==
  /\ e \in work /\ decision[<<"submit", e>>] = "absent"
  /\ decision' = [decision EXCEPT ![<<"submit", e>>] = "pending"]
  /\ UNCHANGED <<taken, work, notified, cursor, sink, telegram, procs, begun, told>>

\* claim_submission takes an approved submission up, and returns it to approved
\* if its upload was interrupted (here: at any time, which allows more).
Take(e) ==
  /\ decision[<<"submit", e>>] = "approved"
  /\ taken' = IF e \in taken THEN taken \ {e} ELSE taken \cup {e}
  /\ begun' = begun \cup {e}
  /\ UNCHANGED <<decision, work, notified, cursor, sink, telegram, procs, told>>

\* The buttons in the chat: those of the messages and documents sent so far.
Visible(c) == IF c[1] = "start" THEN c[2] \in chat ELSE decision[c] # "absent"

\* A button is pressed, any number of times, in any order.
Press(update) ==
  /\ Len(updates) < MaxUpdates
  /\ update.from # "malformed" => Visible(update.button[1])
  /\ updates' = Append(updates, update)
  /\ UNCHANGED <<tables, cursor, sink, chat, procs, begun, told>>

-----------------------------------------------------------------------------

PollerStep(p) ==
  \/ GetUpdates(p) \/ Skip(p) \/ Examine(p) \/ PassEnds(p)
  \/ Resolve(p) \/ SendDetails(p) \/ AnswerCallback(p) \/ AdvanceUpdateId(p)

Next ==
  \/ \E s \in Scheduler :
       (\E e \in Event : Prepare(s, e)) \/ SendMessage(s) \/ MarkNotified(s) \/ SinkFails(s)
  \/ \E p \in Poller : PollerStep(p) \/ PassFails(p)
  \/ \E e \in Event : Offer(e) \/ Take(e)
  \/ \E update \in Update : Press(update)

Spec == Init /\ [][Next]_vars

-----------------------------------------------------------------------------
(* Properties.                                                             *)

\* The user's presses of a card's decisive buttons.
Presses(c) ==
  {i \in 1..Len(updates) : updates[i].from = "user"
     /\ updates[i].button[1] = c /\ updates[i].button[2] # "details"}
Choice(i) == Requested(updates[i].button[2])

\* A card is decided by the user's own first press and by nothing else, except
\* a press the user was told did not count: no later press overtakes it in
\* another poller, and nobody else's counts (approval_state.py:590, telegram.py:416).
FirstPressDecides ==
  \A c \in Card : decision[c] \in {"approved", "rejected"} =>
    \E i \in Presses(c) :
      /\ Choice(i) = decision[c]
      /\ \A j \in Presses(c) : j < i => Choice(j) = Choice(i) \/ "invalid" \in told[j]

\* No press is lost: the cursor passes it only when its card is decided, with
\* the work queued, or the user was told that it did not count (telegram.py:358).
NoPressLost ==
  \A c \in Card : \A i \in Presses(c) : i < cursor =>
    \/ "invalid" \in told[i]
    \/ decision[c] = "approved" /\ c[2] \in work
    \/ decision[c] = "rejected"

TakenUp(c) == c[1] = "submit" /\ c[2] \in begun

\* A decision that the user is told is the one that holds, then and ever after,
\* whatever was pressed since and however often the update was handled again; and
\* "another decision" is no answer to the choice that holds (telegram.py:434-453).
\* The code makes one exception, which is stated here and no wider: once the
\* worker has taken a submission up, its status equals no request, and the user's
\* own choice, pressed or handled again, is answered as a conflict
\* (approval_state.py:1252-1255).  Of "invalid" nothing is claimed here: the press
\* may have counted before, or count when its update is handled again.
AnswersHold ==
  \A c \in Card : \A i \in Presses(c) :
    /\ told[i] \cap {"approved", "rejected"} \subseteq {decision[c]}
    /\ "conflict" \in told[i] =>
         /\ decision[c] \in {"approved", "rejected"}
         /\ decision[c] = Choice(i) => Choice(i) = "approved" /\ TakenUp(c)
=============================================================================

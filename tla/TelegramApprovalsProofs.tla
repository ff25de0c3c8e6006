------------------------ MODULE TelegramApprovalsProofs ------------------------
(***************************************************************************)
(* Proofs about TelegramApprovals, for any events, schedulers and pollers  *)
(* and any number of updates.                                              *)
(***************************************************************************)
EXTENDS TelegramApprovals, TLAPS

-----------------------------------------------------------------------------
(* The inductive invariant.                                                *)

Decisive == {"approved", "rejected"}
Busy == {"resolve", "details", "answer", "advance"}

\* A call of the sink is about a request that exists; it is marked when sent.
SinkInv ==
  \A s \in Scheduler :
    /\ sink[s][1] \in {"send", "mark"} => decision[<<"start", sink[s][2]>>] # "absent"
    /\ sink[s][1] = "mark" => sink[s][2] \in chat

\* A poller is at an update that it fetched, and the cursor is not behind it.
RangeInv ==
  /\ cursor <= Len(updates) + 1
  /\ \A p \in Poller :
       /\ last[p] <= Len(updates)
       /\ pc[p] # "idle" => at[p] <= cursor /\ at[p] <= last[p] + 1
       /\ pc[p] \in Busy => at[p] <= last[p]

\* Buttons are of cards that exist, and who starts is queued.  What is taken up now
\* has been taken up.
CardInv ==
  /\ \A i \in 1..Len(updates) :
       updates[i].from # "malformed" => decision[updates[i].button[1]] # "absent"
  /\ \A e \in Event : decision[<<"start", e>>] = "approved" => e \in work
  /\ taken \subseteq begun

\* The answer a holds for a press that chose r, when d was decided of its card and
\* up says whether what the card is about has been taken up.
Holds(r, a, d, up) ==
  /\ a \in Decisive \cup {"conflict", "invalid"}
  /\ a \in Decisive => d = a
  /\ a = "conflict" => d \in Decisive /\ (d = r => r = "approved" /\ up)
Truthful(c, i, a) == Holds(Choice(i), a, decision[c], TakenUp(c))

\* What a poller has in hand.
HandAt(p) ==
  /\ pc[p] = "resolve" => updates[at[p]].from = "user"
  /\ pc[p] = "details" => updates[at[p]].button[2] = "details"
  /\ pc[p] = "answer" => answer[p] \in Answers
  /\ \A c \in Card : at[p] \in Presses(c) =>
       /\ pc[p] = "answer" => Truthful(c, at[p], answer[p])
       /\ pc[p] = "advance" => "invalid" \in told[at[p]] \/ decision[c] \in Decisive
HandInv == \A p \in Poller : HandAt(p)

\* Nobody is told about an update that is not there.
ToldInv == \A i \in 1..MaxUpdates : i > Len(updates) => told[i] = {}

IInv ==
  /\ TypeOK /\ SinkInv /\ RangeInv /\ CardInv /\ HandInv /\ ToldInv
  /\ FirstPressDecides /\ NoPressLost /\ AnswersHold

-----------------------------------------------------------------------------
(* Updates, presses and the places of pollers.                             *)

LEMMA UpdateFacts ==
  ASSUME NEW u \in Update
  PROVE  /\ u.from \in {"user", "foreign", "malformed"}
         /\ u.from # "malformed" => u.button[1] \in Card /\ u.button[2] \in Actions
  <1>1. CASE u \in [from: {"user"}, button: Card \X Actions]
    BY <1>1
  <1>2. CASE u \in [from: {"foreign"}, button: Card \X {"accept"}]
    BY <1>2 DEF Actions
  <1>3. CASE u = [from |-> "malformed"]
    BY <1>3
  <1>. QED
    BY <1>1, <1>2, <1>3 DEF Update

LEMMA CardFacts ==
  /\ \A k \in {"start", "submit"}, e \in Event :
       <<k, e>> \in Card /\ <<k, e>>[1] = k /\ <<k, e>>[2] = e
  /\ \A c \in Card : c[1] \in {"start", "submit"} /\ c[2] \in Event /\ c = <<c[1], c[2]>>
BY DEF Card

LEMMA PressFacts ==
  ASSUME TypeOK, NEW c \in Card, NEW i \in Presses(c)
  PROVE  /\ i \in 1..Len(updates) /\ i \in 1..MaxUpdates /\ updates[i] \in Update
         /\ updates[i].from = "user" /\ updates[i].button[1] = c
         /\ updates[i].button[2] \in {"accept", "reject"}
         /\ Choice(i) \in Decisive
  <1>1. /\ i \in 1..Len(updates) /\ updates[i].from = "user" /\ updates[i].button[1] = c
        /\ updates[i].button[2] # "details"
    BY DEF Presses
  <1>2. updates \in Seq(Update) /\ Len(updates) \in Nat /\ Len(updates) <= MaxUpdates
    BY DEF TypeOK
  <1>3. updates[i] \in Update
    BY <1>1, <1>2
  <1>4. updates[i].button[2] \in {"accept", "reject"}
    BY <1>1, <1>3, UpdateFacts DEF Actions
  <1>. QED
    BY <1>1, <1>2, <1>3, <1>4, MaxUpdatesAssumption DEF Choice, Requested, Decisive

LEMMA LocalAt ==
  ASSUME TypeOK, NEW p \in Poller, NEW there, NEW update, NEW answering,
         Local(p, there, update, answering)
  PROVE  /\ pc'[p] = there /\ at'[p] = update /\ answer'[p] = answering
         /\ \A q \in Poller \ {p} : pc'[q] = pc[q] /\ at'[q] = at[q] /\ answer'[q] = answer[q]
BY DEF Local, TypeOK

\* A step of a poller that is not at rest concerns an update that there is.
LEMMA InHand ==
  ASSUME TypeOK, RangeInv, NEW p \in Poller, pc[p] \in Busy
  PROVE  at[p] \in 1..Len(updates) /\ at[p] \in 1..MaxUpdates /\ updates[at[p]] \in Update
  <1>1. /\ at[p] \in 1..(MaxUpdates + 1) /\ last[p] \in 0..MaxUpdates
        /\ updates \in Seq(Update) /\ Len(updates) \in Nat /\ Len(updates) <= MaxUpdates
    BY DEF TypeOK
  <1>2. at[p] <= last[p] /\ last[p] <= Len(updates)
    BY DEF RangeInv
  <1>. QED
    BY <1>1, <1>2, MaxUpdatesAssumption

-----------------------------------------------------------------------------
(* What a step does to the tables.                                         *)

\* A card is offered, or decided by the update a poller has in hand.
Decides(p, c) ==
  /\ pc[p] = "resolve" /\ decision[c] = "pending"
  /\ updates[at[p]].button[1] = c /\ updates[at[p]].button[2] # "details"
  /\ decision'[c] = Choice(at[p])
  /\ c[1] = "start" /\ decision'[c] = "approved" => c[2] \in work'

Opens(c) ==
  decision[c] = "absent" /\ decision'[c] = "pending" /\ (c[1] = "submit" => c[2] \in work)

LEMMA DecisionStep ==
  ASSUME TypeOK, RangeInv, HandInv, [Next]_vars, NEW c \in Card
  PROVE  \/ decision'[c] = decision[c]
         \/ Opens(c)
         \/ \E p \in Poller : Decides(p, c)
  <1>0. decision \in [Card -> Decisions]
    BY DEF TypeOK
  <1>1. ASSUME NEW s \in Scheduler, NEW e \in Event, Prepare(s, e)
        PROVE  decision'[c] = decision[c] \/ Opens(c)
    BY <1>0, <1>1, CardFacts DEF Prepare, Opens
  <1>2. ASSUME NEW p \in Poller, Resolve(p)
        PROVE  decision'[c] = decision[c] \/ Decides(p, c)
    <2>. DEFINE d == updates[at[p]].button[1]
                action == updates[at[p]].button[2]
    <2>1. \/ decision' = decision
          \/ /\ action # "details" /\ decision' = Decided(d, action)
             /\ work' = IF d[1] = "start" /\ Outcome(d, action) = "approved"
                        THEN work \cup {d[2]} ELSE work
      BY <1>2 DEF Resolve
    <2>2. pc[p] = "resolve"
      BY <1>2 DEF Resolve
    <2>3. Choice(at[p]) = Requested(action)
      BY DEF Choice
    <2>4. CASE /\ action # "details" /\ decision' = Decided(d, action)
               /\ work' = IF d[1] = "start" /\ Outcome(d, action) = "approved"
                          THEN work \cup {d[2]} ELSE work
      <3>1. CASE decision[d] = "pending"
        <4>1. decision' = [decision EXCEPT ![d] = Requested(action)]
          BY <2>4, <3>1 DEF Decided
        <4>2. CASE c = d
          <5>1. decision'[c] = Requested(action)
            BY <1>0, <4>1, <4>2
          <5>2. Outcome(d, action) = Requested(action)
            BY <3>1 DEF Outcome
          <5>. QED
            BY <2>2, <2>3, <2>4, <3>1, <4>2, <5>1, <5>2 DEF Decides
        <4>3. CASE c # d
          BY <1>0, <4>1, <4>3
        <4>. QED
          BY <4>2, <4>3
      <3>2. CASE decision[d] # "pending"
        BY <2>4, <3>2 DEF Decided
      <3>. QED
        BY <3>1, <3>2
    <2>. QED
      BY <2>1, <2>4
  <1>3. ASSUME NEW e \in Event, Offer(e)
        PROVE  decision'[c] = decision[c] \/ Opens(c)
    BY <1>0, <1>3, CardFacts DEF Offer, Opens
  <1>4. CASE UNCHANGED decision
    BY <1>4
  <1>. QED
    BY <1>1, <1>2, <1>3, <1>4
      DEF Next, PollerStep, SendMessage, MarkNotified, SinkFails, GetUpdates, Skip, Examine, PassEnds,
          SendDetails, AnswerCallback, AdvanceUpdateId, PassFails, Take, Press, vars, tables

\* Nothing is taken back.
LEMMA Growth ==
  ASSUME TypeOK, RangeInv, [Next]_vars
  PROVE  /\ work \subseteq work' /\ chat \subseteq chat' /\ cursor <= cursor'
         /\ begun \subseteq begun'
         /\ \A i \in 1..MaxUpdates : told[i] \subseteq told'[i]
  <1>0. /\ cursor \in 1..(MaxUpdates + 1) /\ \A p \in Poller : at[p] \in 1..(MaxUpdates + 1)
        /\ told \in [1..MaxUpdates -> SUBSET Answers]
    BY DEF TypeOK
  <1>1. work \subseteq work'
    <2>1. ASSUME NEW p \in Poller, Resolve(p) PROVE work \subseteq work'
      BY <2>1 DEF Resolve
    <2>. QED
      BY <2>1 DEF Next, PollerStep, Prepare, SendMessage, MarkNotified, SinkFails, GetUpdates, Skip,
           Examine, PassEnds, SendDetails, AnswerCallback, AdvanceUpdateId, PassFails, Offer, Take,
           Press, vars, tables
  <1>2. chat \subseteq chat'
    <2>1. ASSUME NEW s \in Scheduler, SendMessage(s) PROVE chat \subseteq chat'
      BY <2>1 DEF SendMessage
    <2>. QED
      BY <2>1 DEF Next, PollerStep, Prepare, MarkNotified, SinkFails, GetUpdates, Skip,
           Examine, PassEnds, Resolve, SendDetails, AnswerCallback, AdvanceUpdateId, PassFails, Offer,
           Take, Press, vars, telegram
  <1>3. cursor <= cursor'
    <2>1. ASSUME NEW p \in Poller, AdvanceUpdateId(p) PROVE cursor <= cursor'
      BY <1>0, <2>1, MaxUpdatesAssumption DEF AdvanceUpdateId, Advanced
    <2>2. CASE UNCHANGED cursor
      BY <1>0, <2>2, MaxUpdatesAssumption
    <2>. QED
      BY <2>1, <2>2 DEF Next, PollerStep, Prepare, SendMessage, MarkNotified, SinkFails, GetUpdates,
           Skip, Examine, PassEnds, Resolve, SendDetails, AnswerCallback, PassFails, Offer,
           Take, Press, vars
  <1>4. \A i \in 1..MaxUpdates : told[i] \subseteq told'[i]
    <2>1. ASSUME NEW p \in Poller, AnswerCallback(p)
          PROVE  \A i \in 1..MaxUpdates : told[i] \subseteq told'[i]
      <3>1. told' \in {told, [told EXCEPT ![at[p]] = @ \cup {answer[p]}]}
        BY <2>1 DEF AnswerCallback
      <3>. QED
        BY <1>0, <3>1
    <2>. QED
      BY <2>1 DEF Next, PollerStep, Prepare, SendMessage, MarkNotified, SinkFails, GetUpdates,
           Skip, Examine, PassEnds, Resolve, SendDetails, AdvanceUpdateId, PassFails, Offer,
           Take, Press, vars
  <1>5. begun \subseteq begun'
    <2>1. ASSUME NEW e \in Event, Take(e) PROVE begun \subseteq begun'
      BY <2>1 DEF Take
    <2>. QED
      BY <2>1 DEF Next, PollerStep, Prepare, SendMessage, MarkNotified, SinkFails, GetUpdates, Skip,
           Examine, PassEnds, Resolve, SendDetails, AnswerCallback, AdvanceUpdateId, PassFails, Offer,
           Press, vars
  <1>. QED
    BY <1>1, <1>2, <1>3, <1>4, <1>5

LEMMA UpdatesStep ==
  ASSUME TypeOK, [Next]_vars
  PROVE  /\ updates' \in Seq(Update) /\ Len(updates') <= MaxUpdates
         /\ Len(updates) \in Nat /\ Len(updates') \in Nat /\ Len(updates) <= Len(updates')
         /\ \A i \in 1..Len(updates) : updates'[i] = updates[i]
         /\ \A i \in 1..Len(updates') : i > Len(updates) /\ updates'[i].from # "malformed" =>
              Visible(updates'[i].button[1])
  <1>0. updates \in Seq(Update) /\ Len(updates) \in Nat /\ Len(updates) <= MaxUpdates
    BY DEF TypeOK
  <1>1. updates' = updates \/ \E update \in Update : Press(update)
    BY DEF Next, PollerStep, Prepare, SendMessage, MarkNotified, SinkFails, GetUpdates, Skip, Examine,
           PassEnds, Resolve, SendDetails, AnswerCallback, AdvanceUpdateId, PassFails, Offer, Take,
           vars, telegram
  <1>2. ASSUME NEW update \in Update, Press(update)
        PROVE  /\ updates' \in Seq(Update) /\ Len(updates') = Len(updates) + 1
               /\ Len(updates) < MaxUpdates
               /\ \A i \in 1..Len(updates) : updates'[i] = updates[i]
               /\ updates'[Len(updates) + 1] = update
               /\ update.from # "malformed" => Visible(update.button[1])
    BY <1>0, <1>2 DEF Press
  <1>. QED
    BY <1>0, <1>1, <1>2, MaxUpdatesAssumption

\* An update that there was is the same press.
LEMMA PressesStep ==
  ASSUME TypeOK, [Next]_vars, NEW c \in Card
  PROVE  /\ Presses(c) \subseteq Presses(c)'
         /\ \A i \in Presses(c)' : i \in 1..Len(updates) => i \in Presses(c)
         /\ \A i \in Presses(c) : Choice(i)' = Choice(i)
BY UpdatesStep DEF Presses, Choice, Requested

-----------------------------------------------------------------------------
(* Types, the sink and the ranges.                                         *)

LEMMA DecisionTyped ==
  ASSUME TypeOK, RangeInv, [Next]_vars
  PROVE  decision' \in [Card -> Decisions]
  <1>0. decision \in [Card -> Decisions]
    BY DEF TypeOK
  <1>1. ASSUME NEW p \in Poller, Resolve(p) PROVE decision' \in [Card -> Decisions]
    <2>1. decision' = decision
          \/ \E c, action : decision' = [decision EXCEPT ![c] = Requested(action)]
      BY <1>1, Zenon DEF Resolve, Decided
    <2>2. \A action : Requested(action) \in Decisions
      BY DEF Requested, Decisions
    <2>. QED
      BY <1>0, <2>1, <2>2
  <1>2. ASSUME NEW s \in Scheduler, NEW e \in Event, Prepare(s, e)
        PROVE  decision' \in [Card -> Decisions]
    BY <1>0, <1>2 DEF Prepare, Decisions
  <1>3. ASSUME NEW e \in Event, Offer(e) PROVE decision' \in [Card -> Decisions]
    BY <1>0, <1>3 DEF Offer, Decisions
  <1>. QED
    BY <1>0, <1>1, <1>2, <1>3
      DEF Next, PollerStep, SendMessage, MarkNotified, SinkFails, GetUpdates, Skip, Examine, PassEnds,
          SendDetails, AnswerCallback, AdvanceUpdateId, PassFails, Take, Press, vars, tables

\* Where a step takes a poller.
PollerTypes ==
  /\ pc \in [Poller -> {"idle", "next", "resolve", "details", "answer", "advance"}]
  /\ at \in [Poller -> 1..(MaxUpdates + 1)]
  /\ last \in [Poller -> 0..MaxUpdates]
  /\ answer \in [Poller -> Answers \cup {"none"}]

LEMMA LocalTyped ==
  ASSUME TypeOK, NEW p \in Poller,
         NEW there \in {"idle", "next", "resolve", "details", "answer", "advance"},
         NEW update \in 1..(MaxUpdates + 1), NEW answering \in Answers \cup {"none"},
         Local(p, there, update, answering), last' \in [Poller -> 0..MaxUpdates]
  PROVE  PollerTypes'
BY DEF TypeOK, Local, PollerTypes

LEMMA ReplyTyped ==
  ASSUME TypeOK, NEW p \in Poller,
         NEW there \in {"idle", "next", "resolve", "details", "answer", "advance"},
         NEW answering \in Answers \cup {"none"}, Reply(p, there, answering)
  PROVE  PollerTypes'
  <1>1. at[p] \in 1..(MaxUpdates + 1) /\ last' \in [Poller -> 0..MaxUpdates]
    BY DEF TypeOK, Reply
  <1>. QED
    BY <1>1, LocalTyped DEF Reply

LEMMA ReturnTyped ==
  ASSUME TypeOK, NEW p \in Poller, Return(p)
  PROVE  PollerTypes'
  <1>1. 1 \in 1..(MaxUpdates + 1) /\ last' \in [Poller -> 0..MaxUpdates]
    BY MaxUpdatesAssumption DEF TypeOK, Return
  <1>. QED
    BY <1>1, LocalTyped DEF Return

LEMMA GotoIsReply ==
  ASSUME NEW p, NEW there, Goto(p, there)
  PROVE  Reply(p, there, "none")
BY DEF Goto, Reply

LEMMA PollerTyped ==
  ASSUME TypeOK, RangeInv, NEW p \in Poller, PollerStep(p) \/ PassFails(p)
  PROVE  PollerTypes'
  <1>. USE GotoIsReply, ReplyTyped, ReturnTyped
  <1>0. /\ cursor \in 1..(MaxUpdates + 1) /\ at[p] \in 1..(MaxUpdates + 1)
        /\ last \in [Poller -> 0..MaxUpdates]
        /\ Len(updates) \in Nat /\ Len(updates) <= MaxUpdates
    BY DEF TypeOK
  <1>1. CASE GetUpdates(p)
    <2>1. last' \in [Poller -> 0..MaxUpdates]
      BY <1>0, <1>1, MaxUpdatesAssumption DEF GetUpdates
    <2>. QED
      BY <1>0, <1>1, <2>1, LocalTyped DEF GetUpdates
  <1>2. CASE Skip(p)
    <2>1. at[p] + 1 \in 1..(MaxUpdates + 1)
      BY <1>0, <1>2, MaxUpdatesAssumption DEF Skip
    <2>. QED
      BY <1>0, <1>2, <2>1, LocalTyped DEF Skip
  <1>3. CASE Examine(p)
    <2>1. \/ Goto(p, "advance") \/ Reply(p, "answer", "invalid")
          \/ Reply(p, "answer", "unauthorized") \/ Goto(p, "resolve")
      BY <1>3, Zenon DEF Examine
    <2>. QED
      BY <2>1 DEF Answers
  <1>4. CASE PassEnds(p) \/ PassFails(p)
    BY <1>4 DEF PassEnds, PassFails
  <1>5. CASE Resolve(p)
    <2>1. \A c, action : Outcome(c, action) \in Answers
      BY DEF Outcome, Requested, Answers
    <2>2. \/ Reply(p, "details", "details") \/ Reply(p, "answer", "invalid")
          \/ \E c, action : Reply(p, "answer", Outcome(c, action))
      BY <1>5 DEF Resolve
    <2>. QED
      BY <2>1, <2>2 DEF Answers
  <1>6. CASE SendDetails(p)
    BY <1>6 DEF SendDetails, Answers
  <1>7. CASE AnswerCallback(p)
    <2>1. Goto(p, "advance") \/ Return(p)
      BY <1>7 DEF AnswerCallback
    <2>. QED
      BY <2>1
  <1>8. CASE AdvanceUpdateId(p)
    <2>1. at[p] + 1 \in 1..(MaxUpdates + 1)
      BY <1>0, <1>8, InHand, MaxUpdatesAssumption DEF AdvanceUpdateId, Busy
    <2>. QED
      BY <1>0, <1>8, <2>1, LocalTyped DEF AdvanceUpdateId
  <1>. QED
    BY <1>1, <1>2, <1>3, <1>4, <1>5, <1>6, <1>7, <1>8 DEF PollerStep

\* What the steps of others leave of a poller.
LEMMA ProcsStep ==
  ASSUME TypeOK, [Next]_vars
  PROVE  \/ UNCHANGED procs
         \/ \E p \in Poller : PollerStep(p) \/ PassFails(p)
BY DEF Next, Prepare, SendMessage, MarkNotified, SinkFails, Offer, Take, Press, vars

LEMMA TypeStep ==
  ASSUME TypeOK, SinkInv, RangeInv, HandInv, [Next]_vars
  PROVE  TypeOK'
  <1>0. MaxUpdates \in Nat /\ Len(updates) \in Nat /\ Len(updates) <= MaxUpdates
    BY MaxUpdatesAssumption DEF TypeOK
  <1>1. decision' \in [Card -> Decisions]
    BY DecisionTyped
  <1>2. \A c \in Card : /\ decision[c] = "approved" => decision'[c] = "approved"
                        /\ decision[c] # "absent" => decision'[c] # "absent"
    <2>1. \A p \in Poller, c \in Card : Decides(p, c) => decision[c] = "pending" /\ decision'[c] # "absent"
      BY DEF Decides, Choice, Requested
    <2>. QED
      BY <2>1, DecisionStep DEF Opens
  <1>3. taken' \subseteq {e \in Event : decision'[<<"submit", e>>] = "approved"}
    <2>1. taken' \subseteq taken \/ \E e \in Event : Take(e)
      BY DEF Next, PollerStep, Prepare, SendMessage, MarkNotified, SinkFails, GetUpdates, Skip, Examine,
             PassEnds, Resolve, SendDetails, AnswerCallback, AdvanceUpdateId, PassFails, Offer, Press,
             vars, tables
    <2>2. \A e \in taken' : e \in taken \/ (e \in Event /\ decision[<<"submit", e>>] = "approved")
      BY <2>1 DEF Take
    <2>3. \A e \in taken : e \in Event /\ decision[<<"submit", e>>] = "approved"
      BY DEF TypeOK
    <2>. QED
      BY <1>2, <2>2, <2>3, CardFacts
  <1>4. work' \subseteq Event
    <2>1. ASSUME NEW p \in Poller, Resolve(p) PROVE work' \subseteq Event
      <3>. DEFINE d == updates[at[p]].button[1]
      <3>1. work' = work \/ (d[1] = "start" /\ work' = work \cup {d[2]})
        BY <2>1, Zenon DEF Resolve
      <3>2. d \in Card
        BY <2>1, InHand, UpdateFacts DEF Resolve, HandInv, HandAt, Busy
      <3>. QED
        BY <3>1, <3>2, CardFacts DEF TypeOK
    <2>. QED
      BY <2>1 DEF TypeOK, Next, PollerStep, Prepare, SendMessage, MarkNotified, SinkFails, GetUpdates,
           Skip, Examine, PassEnds, SendDetails, AnswerCallback, AdvanceUpdateId, PassFails, Offer, Take,
           Press, vars, tables
  <1>5. \A e \in Event : decision'[<<"submit", e>>] # "absent" => e \in work'
    <2>. SUFFICES ASSUME NEW e \in Event, decision'[<<"submit", e>>] # "absent"
                  PROVE  e \in work
      BY Growth
    <2>. DEFINE c == <<"submit", e>>
    <2>1. c \in Card /\ c[1] = "submit" /\ c[2] = e
      BY CardFacts
    <2>2. decision[c] # "absent" \/ Opens(c)
      BY <2>1, DecisionStep DEF Decides
    <2>. QED
      BY <2>1, <2>2 DEF TypeOK, Opens
  <1>6. chat' \subseteq {e \in Event : decision'[<<"start", e>>] # "absent"}
    <2>1. \A e \in chat' : e \in Event /\ decision[<<"start", e>>] # "absent"
      <3>1. chat' = chat \/ \E s \in Scheduler : SendMessage(s)
        BY DEF Next, PollerStep, Prepare, MarkNotified, SinkFails, GetUpdates, Skip, Examine, PassEnds,
               Resolve, SendDetails, AnswerCallback, AdvanceUpdateId, PassFails, Offer, Take, Press,
               vars, telegram
      <3>2. ASSUME NEW s \in Scheduler, SendMessage(s)
            PROVE  /\ chat' \in {chat, chat \cup {sink[s][2]}} /\ sink[s][2] \in Event
                   /\ decision[<<"start", sink[s][2]>>] # "absent"
        <4>1. sink[s][1] = "send" /\ chat' \in {chat, chat \cup {sink[s][2]}}
          BY <3>2 DEF SendMessage
        <4>2. sink[s] \in {NotSending} \cup ({"send", "mark"} \X Event)
          BY DEF TypeOK
        <4>. QED
          BY <4>1, <4>2 DEF SinkInv, NotSending
      <3>. QED
        BY <3>1, <3>2 DEF TypeOK
    <2>. QED
      BY <1>2, <2>1, CardFacts
  <1>7. notified' \subseteq chat'
    <2>1. ASSUME NEW s \in Scheduler, MarkNotified(s) PROVE notified' \subseteq chat
      BY <2>1 DEF MarkNotified, SinkInv, TypeOK
    <2>2. notified' = notified \/ \E s \in Scheduler : MarkNotified(s)
      BY DEF Next, PollerStep, Prepare, SendMessage, SinkFails, GetUpdates, Skip, Examine, PassEnds,
             Resolve, SendDetails, AnswerCallback, AdvanceUpdateId, PassFails, Offer, Take, Press,
             vars, tables
    <2>. QED
      BY <2>1, <2>2, Growth DEF TypeOK
  <1>8. cursor' \in 1..(MaxUpdates + 1)
    <2>1. ASSUME NEW p \in Poller, AdvanceUpdateId(p) PROVE cursor' \in 1..(MaxUpdates + 1)
      <3>1. at[p] \in 1..MaxUpdates
        BY <2>1, InHand DEF AdvanceUpdateId, Busy
      <3>. QED
        BY <1>0, <2>1, <3>1 DEF AdvanceUpdateId, Advanced, TypeOK
    <2>2. cursor' = cursor \/ \E p \in Poller : AdvanceUpdateId(p)
      BY DEF Next, PollerStep, Prepare, SendMessage, MarkNotified, SinkFails, GetUpdates, Skip, Examine,
             PassEnds, Resolve, SendDetails, AnswerCallback, PassFails, Offer, Take, Press, vars
    <2>. QED
      BY <2>1, <2>2 DEF TypeOK
  <1>9. sink' \in [Scheduler -> {NotSending} \cup ({"send", "mark"} \X Event)]
    <2>0. sink \in [Scheduler -> {NotSending} \cup ({"send", "mark"} \X Event)]
      BY DEF TypeOK
    <2>1. ASSUME NEW s \in Scheduler, NEW e \in Event, Prepare(s, e)
          PROVE  sink' = [sink EXCEPT ![s] = <<"send", e>>]
      BY <2>1 DEF Prepare
    <2>2. ASSUME NEW s \in Scheduler, SendMessage(s)
          PROVE  /\ \/ sink' = [sink EXCEPT ![s] = <<"mark", sink[s][2]>>]
                    \/ sink' = [sink EXCEPT ![s] = NotSending]
                 /\ sink[s][2] \in Event
      BY <2>0, <2>2 DEF SendMessage, NotSending
    <2>3. ASSUME NEW s \in Scheduler, MarkNotified(s) \/ SinkFails(s)
          PROVE  sink' = [sink EXCEPT ![s] = NotSending]
      BY <2>3 DEF MarkNotified, SinkFails
    <2>4. UNCHANGED sink \/ \E s \in Scheduler :
             (\E e \in Event : Prepare(s, e)) \/ SendMessage(s) \/ MarkNotified(s) \/ SinkFails(s)
      BY DEF Next, PollerStep, GetUpdates, Skip, Examine, PassEnds, Resolve, SendDetails,
             AnswerCallback, AdvanceUpdateId, PassFails, Offer, Take, Press, vars
    <2>. QED
      BY <2>0, <2>1, <2>2, <2>3, <2>4
  <1>10. PollerTypes'
    BY ProcsStep, PollerTyped DEF procs, PollerTypes, TypeOK
  <1>11. told' \in [1..MaxUpdates -> SUBSET Answers]
    <2>1. ASSUME NEW p \in Poller, AnswerCallback(p) PROVE told' \in [1..MaxUpdates -> SUBSET Answers]
      <3>1. told' \in {told, [told EXCEPT ![at[p]] = @ \cup {answer[p]}]} /\ answer[p] \in Answers
        BY <2>1 DEF AnswerCallback, HandInv, HandAt
      <3>2. at[p] \in 1..MaxUpdates
        BY <2>1, InHand DEF AnswerCallback, Busy
      <3>3. told \in [1..MaxUpdates -> SUBSET Answers] /\ told[at[p]] \cup {answer[p]} \in SUBSET Answers
        BY <3>1, <3>2 DEF TypeOK
      <3>. QED
        BY <3>1, <3>3
    <2>2. told' = told \/ \E p \in Poller : AnswerCallback(p)
      BY DEF Next, PollerStep, Prepare, SendMessage, MarkNotified, SinkFails, GetUpdates, Skip, Examine,
             PassEnds, Resolve, SendDetails, AdvanceUpdateId, PassFails, Offer, Take, Press, vars
    <2>. QED
      BY <2>1, <2>2 DEF TypeOK
  <1>12. begun' \subseteq Event
    <2>1. ASSUME NEW e \in Event, Take(e) PROVE begun' \subseteq Event
      BY <2>1 DEF Take, TypeOK
    <2>. QED
      BY <2>1 DEF TypeOK, Next, PollerStep, Prepare, SendMessage, MarkNotified, SinkFails, GetUpdates,
           Skip, Examine, PassEnds, Resolve, SendDetails, AnswerCallback, AdvanceUpdateId, PassFails,
           Offer, Press, vars
  <1>. QED
    BY <1>1, <1>3, <1>4, <1>5, <1>6, <1>7, <1>8, <1>9, <1>10, <1>11, <1>12, UpdatesStep
      DEF TypeOK, PollerTypes

LEMMA SinkStep ==
  ASSUME TypeOK, SinkInv, RangeInv, HandInv, [Next]_vars
  PROVE  SinkInv'
  <1>0. sink \in [Scheduler -> {NotSending} \cup ({"send", "mark"} \X Event)]
    BY DEF TypeOK
  <1>1. \A e \in Event : decision[<<"start", e>>] # "absent" => decision'[<<"start", e>>] # "absent"
    <2>1. \A p \in Poller, c \in Card : Decides(p, c) => decision'[c] # "absent"
      BY DEF Decides, Choice, Requested
    <2>. QED
      BY <2>1, DecisionStep, CardFacts DEF Opens
  <1>2. \A s \in Scheduler : sink[s][1] \in {"send", "mark"} => sink[s][2] \in Event
    BY <1>0 DEF NotSending
  <1>3. NotSending[1] = "idle"
    BY DEF NotSending
  <1>4. ASSUME UNCHANGED sink PROVE SinkInv'
    BY <1>1, <1>2, <1>4, Growth DEF SinkInv
  <1>5. ASSUME NEW s \in Scheduler, NEW r, sink' = [sink EXCEPT ![s] = r],
               /\ r[1] \in {"send", "mark"} => decision'[<<"start", r[2]>>] # "absent"
               /\ r[1] = "mark" => r[2] \in chat'
        PROVE  SinkInv'
    <2>1. sink'[s] = r /\ \A t \in Scheduler \ {s} : sink'[t] = sink[t]
      BY <1>0, <1>5
    <2>. QED
      BY <1>1, <1>2, <1>5, <2>1, Growth DEF SinkInv
  <1>6. ASSUME NEW s \in Scheduler, NEW e \in Event, Prepare(s, e) PROVE SinkInv'
    <2>1. decision'[<<"start", e>>] # "absent"
      BY <1>6, CardFacts DEF Prepare, TypeOK
    <2>2. sink' = [sink EXCEPT ![s] = <<"send", e>>]
      BY <1>6 DEF Prepare
    <2>. QED
      BY <1>5, <2>1, <2>2
  <1>7. ASSUME NEW s \in Scheduler, SendMessage(s) PROVE SinkInv'
    <2>. DEFINE e == sink[s][2]
    <2>1. e \in Event /\ decision'[<<"start", e>>] # "absent"
      BY <1>1, <1>2, <1>7 DEF SendMessage, SinkInv
    <2>2. \/ chat' = chat \cup {e} /\ sink' = [sink EXCEPT ![s] = <<"mark", e>>]
          \/ sink' = [sink EXCEPT ![s] = NotSending]
      BY <1>7 DEF SendMessage
    <2>. HIDE DEF e
    <2>. QED
      BY <1>3, <1>5, <2>1, <2>2
  <1>8. ASSUME NEW s \in Scheduler, MarkNotified(s) \/ SinkFails(s) PROVE SinkInv'
    <2>1. sink' = [sink EXCEPT ![s] = NotSending]
      BY <1>8 DEF MarkNotified, SinkFails
    <2>. QED
      BY <1>3, <1>5, <2>1
  <1>. QED
    BY <1>4, <1>6, <1>7, <1>8
      DEF Next, PollerStep, GetUpdates, Skip, Examine, PassEnds, Resolve, SendDetails, AnswerCallback,
          AdvanceUpdateId, PassFails, Offer, Take, Press, vars

LEMMA RangeStep ==
  ASSUME TypeOK, RangeInv, [Next]_vars
  PROVE  RangeInv'
  <1>0. /\ \A p \in Poller : at[p] \in 1..(MaxUpdates + 1) /\ last[p] \in 0..MaxUpdates
        /\ cursor \in 1..(MaxUpdates + 1) /\ Len(updates) \in Nat
        /\ MaxUpdates \in Nat /\ last \in [Poller -> 0..MaxUpdates]
    BY MaxUpdatesAssumption DEF TypeOK
  <1>1. cursor <= cursor' /\ Len(updates) <= Len(updates') /\ Len(updates') \in Nat
    BY Growth, UpdatesStep
  <1>2. cursor' \in Nat
    <2>1. ASSUME NEW p \in Poller, AdvanceUpdateId(p) PROVE cursor' \in Nat
      BY <1>0, <2>1 DEF AdvanceUpdateId, Advanced
    <2>2. cursor' = cursor \/ \E p \in Poller : AdvanceUpdateId(p)
      BY DEF Next, PollerStep, Prepare, SendMessage, MarkNotified, SinkFails, GetUpdates, Skip, Examine,
             PassEnds, Resolve, SendDetails, AnswerCallback, PassFails, Offer, Take, Press, vars
    <2>. QED
      BY <1>0, <2>1, <2>2
  <1>3. cursor' <= Len(updates') + 1
    <2>1. ASSUME NEW p \in Poller, AdvanceUpdateId(p) PROVE cursor' <= Len(updates) + 1
      <3>1. at[p] <= Len(updates)
        BY <1>0, <2>1 DEF RangeInv, AdvanceUpdateId, Busy
      <3>. QED
        BY <1>0, <2>1, <3>1 DEF AdvanceUpdateId, Advanced, RangeInv
    <2>2. cursor' = cursor \/ \E p \in Poller : AdvanceUpdateId(p)
      BY DEF Next, PollerStep, Prepare, SendMessage, MarkNotified, SinkFails, GetUpdates, Skip, Examine,
             PassEnds, Resolve, SendDetails, AnswerCallback, PassFails, Offer, Take, Press, vars
    <2>. QED
      BY <1>0, <1>1, <1>2, <2>1, <2>2 DEF RangeInv
  <1>4. CASE UNCHANGED procs
    BY <1>0, <1>1, <1>2, <1>3, <1>4 DEF RangeInv, procs
  <1>5. ASSUME NEW p \in Poller, NEW there, NEW update \in Nat, NEW answering,
               Local(p, there, update, answering),
               last' = last \/ \E l \in Nat : last' = [last EXCEPT ![p] = l] /\ l <= Len(updates),
               there # "idle" => update <= cursor' /\ update <= last'[p] + 1,
               there \in Busy => update <= last'[p]
        PROVE  RangeInv'
    <2>1. /\ pc'[p] = there /\ at'[p] = update
          /\ \A q \in Poller \ {p} : pc'[q] = pc[q] /\ at'[q] = at[q]
      BY <1>5, LocalAt
    <2>2. last'[p] <= Len(updates) /\ last'[p] \in Int /\ \A q \in Poller \ {p} : last'[q] = last[q]
      BY <1>0, <1>5 DEF RangeInv
    <2>3. ASSUME NEW q \in Poller
          PROVE  /\ last'[q] <= Len(updates')
                 /\ pc'[q] # "idle" => at'[q] <= cursor' /\ at'[q] <= last'[q] + 1
                 /\ pc'[q] \in Busy => at'[q] <= last'[q]
      <3>1. CASE q = p
        BY <1>0, <1>1, <1>5, <2>1, <2>2, <3>1
      <3>2. CASE q # p
        BY <1>0, <1>1, <1>2, <2>1, <2>2, <3>2 DEF RangeInv
      <3>. QED
        BY <3>1, <3>2
    <2>. QED
      BY <1>3, <2>3 DEF RangeInv
  <1>6. ASSUME NEW p \in Poller, PollerStep(p) \/ PassFails(p) PROVE RangeInv'
    <2>0. /\ at[p] \in Nat /\ last[p] \in Nat /\ last[p] <= Len(updates)
          /\ pc[p] # "idle" => at[p] <= cursor /\ at[p] <= last[p] + 1
          /\ pc[p] \in Busy => at[p] <= last[p]
      BY <1>0 DEF RangeInv
    <2>1. CASE GetUpdates(p)
      <3>1. last' = [last EXCEPT ![p] = Len(updates)] /\ cursor' = cursor /\ cursor <= Len(updates)
            /\ Local(p, "next", cursor, "none") /\ last'[p] = Len(updates)
        BY <1>0, <2>1 DEF GetUpdates
      <3>2. \E l \in Nat : last' = [last EXCEPT ![p] = l] /\ l <= Len(updates)
        <4>1. Len(updates) \in Nat /\ Len(updates) <= Len(updates)
          BY <1>0
        <4>. QED
          BY <3>1, <4>1, Zenon
      <3>3. cursor \in Nat /\ cursor <= cursor' /\ cursor <= last'[p] + 1
        BY <1>0, <3>1
      <3>4. "next" # "idle" /\ "next" \notin Busy
        BY DEF Busy
      <3>. QED
        BY <1>5, <3>1, <3>2, <3>3, <3>4, Zenon
    <2>2. CASE Skip(p)
      <3>1. /\ last' = last /\ cursor' = cursor /\ at[p] + 1 \in Nat
            /\ at[p] + 1 <= cursor /\ at[p] + 1 <= last[p] + 1
            /\ Local(p, "next", at[p] + 1, "none")
        BY <1>0, <2>0, <2>2 DEF Skip
      <3>. QED
        BY <1>5, <3>1 DEF Busy
    <2>3. ASSUME NEW there, NEW answering, Reply(p, there, answering), at[p] <= last[p], at[p] <= cursor
          PROVE  RangeInv'
      <3>1. last' = last /\ Local(p, there, at[p], answering) /\ at[p] <= cursor'
        BY <1>0, <1>1, <1>2, <2>0, <2>3 DEF Reply
      <3>2. at[p] \in Nat /\ at[p] <= last'[p] + 1 /\ at[p] <= last'[p]
        BY <2>0, <2>3, <3>1
      <3>. QED
        BY <1>5, <3>1, <3>2, Zenon
    <2>4. ASSUME Return(p) PROVE RangeInv'
      <3>1. Local(p, "idle", 1, "none") /\ last' = [last EXCEPT ![p] = 0] /\ 0 <= Len(updates)
        BY <1>0, <2>4 DEF Return
      <3>. QED
        BY <1>5, <3>1 DEF Busy
    <2>5. CASE Examine(p)
      <3>1. at[p] <= last[p] /\ at[p] <= cursor
        BY <2>0, <2>5 DEF Examine
      <3>2. \E there, answering : Reply(p, there, answering)
        BY <2>5, GotoIsReply, Zenon DEF Examine
      <3>. QED
        BY <2>3, <3>1, <3>2
    <2>6. CASE Resolve(p) \/ SendDetails(p) \/ AnswerCallback(p)
      <3>1. pc[p] \in Busy /\ pc[p] # "idle"
        BY <2>6 DEF Resolve, SendDetails, AnswerCallback, Busy
      <3>2. Return(p) \/ \E there, answering : Reply(p, there, answering)
        <4>1. CASE Resolve(p)
          BY <4>1, Zenon DEF Resolve
        <4>2. CASE SendDetails(p)
          BY <4>2 DEF SendDetails
        <4>3. CASE AnswerCallback(p)
          BY <4>3, GotoIsReply, Zenon DEF AnswerCallback
        <4>. QED
          BY <2>6, <4>1, <4>2, <4>3
      <3>. QED
        BY <2>0, <2>3, <2>4, <3>1, <3>2
    <2>7. CASE AdvanceUpdateId(p)
      <3>1. /\ last' = last /\ cursor' = Advanced(p) /\ Local(p, "next", at[p] + 1, "none")
            /\ at[p] <= last[p]
        BY <2>0, <2>7 DEF AdvanceUpdateId, Busy
      <3>2. at[p] + 1 <= cursor' /\ at[p] + 1 \in Nat
        BY <1>0, <2>0, <3>1 DEF Advanced
      <3>. QED
        BY <1>5, <2>0, <3>1, <3>2 DEF Busy
    <2>8. CASE PassEnds(p) \/ PassFails(p)
      BY <2>4, <2>8 DEF PassEnds, PassFails
    <2>. QED
      BY <1>6, <2>1, <2>2, <2>5, <2>6, <2>7, <2>8 DEF PollerStep
  <1>. QED
    BY <1>4, <1>6, ProcsStep

-----------------------------------------------------------------------------
(* Cards, and what the pollers have in hand.                               *)

\* A decided card stays as it is, an existing one exists.
LEMMA DecidedStays ==
  ASSUME TypeOK, RangeInv, HandInv, [Next]_vars, NEW c \in Card
  PROVE  /\ decision[c] \in Decisive => decision'[c] = decision[c]
         /\ decision[c] # "absent" => decision'[c] # "absent"
         /\ decision[c] # "absent" => decision[c] = "pending" \/ decision[c] \in Decisive
         /\ decision[c] \notin {"absent", "pending"} => decision'[c] # "pending"
  <1>1. \A p \in Poller : Decides(p, c) => decision[c] = "pending" /\ decision'[c] # "absent"
    BY DEF Decides, Choice, Requested
  <1>2. decision[c] \in Decisions
    BY DEF TypeOK
  <1>. QED
    BY <1>1, <1>2, DecisionStep DEF Opens, Decisive, Decisions

LEMMA CardStep ==
  ASSUME TypeOK, RangeInv, CardInv, HandInv, [Next]_vars
  PROVE  CardInv'
  <1>1. ASSUME NEW i \in 1..Len(updates'), updates'[i].from # "malformed"
        PROVE  decision'[updates'[i].button[1]] # "absent"
    <2>. DEFINE c == updates'[i].button[1]
    <2>0. updates'[i] \in Update
      BY UpdatesStep
    <2>1. c \in Card
      BY <1>1, <2>0, UpdateFacts
    <2>2. decision[c] # "absent"
      <3>1. CASE i \in 1..Len(updates)
        BY <1>1, <3>1, UpdatesStep DEF CardInv
      <3>2. CASE i \notin 1..Len(updates)
        <4>1. i > Len(updates)
          BY <3>2, UpdatesStep
        <4>2. Visible(c)
          BY <1>1, <4>1, UpdatesStep
        <4>. QED
          BY <2>1, <4>2, CardFacts DEF Visible, TypeOK
      <3>. QED
        BY <3>1, <3>2
    <2>. QED
      BY <2>1, <2>2, DecidedStays
  <1>2. ASSUME NEW e \in Event, decision'[<<"start", e>>] = "approved"
        PROVE  e \in work'
    <2>. DEFINE c == <<"start", e>>
    <2>1. c \in Card /\ c[1] = "start" /\ c[2] = e
      BY CardFacts
    <2>2. CASE decision'[c] = decision[c]
      BY <1>2, <2>2, Growth DEF CardInv
    <2>3. ASSUME NEW p \in Poller, Decides(p, c) PROVE e \in work'
      BY <1>2, <2>1, <2>3 DEF Decides
    <2>. QED
      BY <1>2, <2>1, <2>2, <2>3, DecisionStep DEF Opens
  <1>3. taken' \subseteq begun'
    <2>1. ASSUME NEW e \in Event, Take(e) PROVE taken' \subseteq begun'
      BY <2>1 DEF Take, CardInv
    <2>2. CASE taken' = taken
      BY <2>2, Growth DEF CardInv
    <2>. QED
      BY <2>1, <2>2 DEF Next, PollerStep, Prepare, SendMessage, MarkNotified, SinkFails, GetUpdates,
           Skip, Examine, PassEnds, Resolve, SendDetails, AnswerCallback, AdvanceUpdateId, PassFails,
           Offer, Press, vars, tables
  <1>. QED
    BY <1>1, <1>2, <1>3 DEF CardInv

\* An answer that was truthful remains so.
LEMMA TruthStays ==
  ASSUME TypeOK, RangeInv, HandInv, [Next]_vars,
         NEW c \in Card, NEW i \in Presses(c), NEW a, Truthful(c, i, a)
  PROVE  Truthful(c, i, a)'
  <1>1. TakenUp(c) => TakenUp(c)'
    BY Growth DEF TakenUp
  <1>. QED
    BY <1>1, DecidedStays, PressesStep DEF Truthful, Holds, Decisive

\* For a poller whose own place is as it was.
LEMMA HandKept ==
  ASSUME TypeOK, RangeInv, HandInv, [Next]_vars, NEW p \in Poller,
         pc'[p] = pc[p], at'[p] = at[p], answer'[p] = answer[p]
  PROVE  HandAt(p)'
  <1>1. CASE pc[p] \notin Busy
    BY <1>1 DEF HandAt, Busy
  <1>2. CASE pc[p] \in Busy
    <2>1. at[p] \in 1..Len(updates) /\ at[p] \in 1..MaxUpdates /\ updates'[at[p]] = updates[at[p]]
      BY <1>2, InHand, UpdatesStep
    <2>2. told[at[p]] \subseteq told'[at[p]]
      BY <2>1, Growth
    <2>3. \A c \in Card : at[p] \in Presses(c)' => at[p] \in Presses(c)
      BY <2>1, PressesStep
    <2>4. HandAt(p)
      BY DEF HandInv
    <2>5. ASSUME NEW c \in Card, at[p] \in Presses(c)'
          PROVE  /\ pc[p] = "answer" => Truthful(c, at[p], answer[p])'
                 /\ pc[p] = "advance" => "invalid" \in told'[at[p]] \/ decision'[c] \in Decisive
      <3>1. at[p] \in Presses(c)
        BY <2>3, <2>5
      <3>2. pc[p] = "answer" => Truthful(c, at[p], answer[p])'
        BY <2>4, <3>1, TruthStays DEF HandAt
      <3>3. pc[p] = "advance" => "invalid" \in told'[at[p]] \/ decision'[c] \in Decisive
        BY <2>2, <2>4, <3>1, DecidedStays DEF HandAt
      <3>. QED
        BY <3>2, <3>3
    <2>6. /\ pc'[p] = "resolve" => updates'[at'[p]].from = "user"
          /\ pc'[p] = "details" => updates'[at'[p]].button[2] = "details"
          /\ pc'[p] = "answer" => answer'[p] \in Answers
      BY <2>1, <2>4 DEF HandAt
    <2>7. ASSUME NEW c \in Card, at'[p] \in Presses(c)'
          PROVE  /\ pc'[p] = "answer" => Truthful(c, at[p], answer[p])'
                 /\ pc'[p] = "advance" => "invalid" \in told'[at'[p]] \/ decision'[c] \in Decisive
      BY <2>5, <2>7
    <2>. QED
      BY <2>6, <2>7 DEF HandAt
  <1>. QED
    BY <1>1, <1>2

LEMMA ResolveTruthful ==
  ASSUME TypeOK, RangeInv, CardInv, NEW p \in Poller, NEW c \in Card, at[p] \in Presses(c),
         decision' = Decided(c, updates[at[p]].button[2])
  PROVE  Holds(Choice(at[p]), Outcome(c, updates[at[p]].button[2]), decision'[c], TakenUp(c))
  <1>. DEFINE r == Choice(at[p])
              a == Outcome(c, updates[at[p]].button[2])
  <1>1. r \in Decisive /\ r = Requested(updates[at[p]].button[2])
    <2>1. r \in Decisive
      BY PressFacts
    <2>2. r = Requested(updates[at[p]].button[2])
      BY DEF Choice
    <2>. QED
      BY <2>1, <2>2
  <1>3. decision \in [Card -> Decisions]
    BY DEF TypeOK
  <1>4. decision[c] # "absent"
    BY PressFacts DEF CardInv
  <1>5. CASE decision[c] = "pending"
    <2>1. a = r /\ decision' = [decision EXCEPT ![c] = r]
      BY <1>1, <1>5, Zenon DEF Outcome, Decided
    <2>2. decision'[c] = r
      BY <1>3, <2>1
    <2>. HIDE DEF a, r
    <2>3. Holds(r, a, decision'[c], TakenUp(c))
      BY <1>1, <2>1, <2>2 DEF Holds, Decisive
    <2>. QED
      BY <2>3 DEF a, r
  <1>6. CASE decision[c] # "pending"
    <2>1. decision' = decision /\ decision[c] \in Decisive
      BY <1>3, <1>4, <1>6 DEF Decided, Decisions, Decisive
    <2>2. \/ a = r /\ decision[c] = r
          \/ a = "conflict" /\ (decision[c] = r => r = "approved" /\ TakenUp(c))
      <3>1. c[1] = "submit" /\ c[2] \in taken => decision[c] = "approved" /\ TakenUp(c)
        BY CardFacts DEF TypeOK, CardInv, TakenUp
      <3>. QED
        BY <1>1, <1>6, <3>1 DEF Outcome
    <2>. HIDE DEF a, r
    <2>3. Holds(r, a, decision'[c], TakenUp(c))
      BY <1>1, <2>1, <2>2 DEF Holds, Decisive
    <2>. QED
      BY <2>3 DEF a, r
  <1>. QED
    BY <1>5, <1>6

LEMMA HandOwn ==
  ASSUME TypeOK, RangeInv, CardInv, HandInv, NEW p \in Poller, PollerStep(p) \/ PassFails(p)
  PROVE  HandAt(p)'
  <1>1. ASSUME pc'[p] \notin Busy PROVE HandAt(p)'
    BY <1>1 DEF HandAt, Busy
  <1>2. ASSUME Return(p) PROVE HandAt(p)'
    BY <1>1, <1>2, LocalAt DEF Return, Busy
  <1>3. CASE GetUpdates(p) \/ Skip(p) \/ AdvanceUpdateId(p)
    <2>1. pc'[p] = "next"
      BY <1>3, LocalAt DEF GetUpdates, Skip, AdvanceUpdateId
    <2>. QED
      BY <1>1, <2>1 DEF Busy
  <1>4. CASE PassEnds(p) \/ PassFails(p)
    BY <1>2, <1>4 DEF PassEnds, PassFails
  \* An answer to an update that is no press.
  <1>5. ASSUME NEW there \in {"resolve", "answer", "advance"}, NEW answering \in Answers \cup {"none"},
               Reply(p, there, answering), updates' = updates,
               there = "resolve" => updates[at[p]].from = "user",
               there = "answer" => answering \in Answers,
               there # "resolve" => \A c \in Card : at[p] \notin Presses(c)
        PROVE  HandAt(p)'
    <2>1. pc'[p] = there /\ at'[p] = at[p] /\ answer'[p] = answering
      BY <1>5, LocalAt DEF Reply
    <2>2. \A c \in Card : Presses(c)' = Presses(c)
      BY <1>5 DEF Presses
    <2>. QED
      BY <1>5, <2>1, <2>2 DEF HandAt
  <1>6. CASE Examine(p)
    <2>1. at[p] \in 1..Len(updates)
      BY <1>6 DEF Examine, RangeInv, TypeOK
    <2>2. updates[at[p]] \in Update
      BY <2>1 DEF TypeOK
    <2>3. updates' = updates
      BY <1>6 DEF Examine, telegram
    <2>4. \/ updates[at[p]].from # "user" /\ Goto(p, "advance")
          \/ updates[at[p]].from # "user" /\ Reply(p, "answer", "invalid")
          \/ updates[at[p]].from # "user" /\ Reply(p, "answer", "unauthorized")
          \/ updates[at[p]].from = "user" /\ Goto(p, "resolve")
      BY <1>6, <2>2, UpdateFacts DEF Examine
    <2>5. updates[at[p]].from # "user" => \A c \in Card : at[p] \notin Presses(c)
      BY DEF Presses
    <2>. QED
      BY <1>5, <2>3, <2>4, <2>5, GotoIsReply DEF Answers
  <1>7. CASE Resolve(p)
    <2>. DEFINE d == updates[at[p]].button[1]
                action == updates[at[p]].button[2]
    <2>0. /\ at[p] \in 1..Len(updates) /\ updates[at[p]] \in Update
          /\ updates[at[p]].from = "user" /\ updates' = updates
      BY <1>7, InHand DEF Resolve, HandInv, HandAt, Busy, telegram
    <2>1. \/ action = "details" /\ Reply(p, "details", "details")
          \/ /\ action # "details" /\ Reply(p, "answer", Outcome(d, action))
             /\ decision' = Decided(d, action)
          \/ Reply(p, "answer", "invalid")
      BY <1>7 DEF Resolve
    <2>2. CASE action = "details" /\ Reply(p, "details", "details")
      <3>1. pc'[p] = "details" /\ at'[p] = at[p]
        BY <2>2, LocalAt DEF Reply
      <3>. QED
        BY <2>0, <2>2, <3>1 DEF HandAt
    <2>3. CASE /\ action # "details" /\ Reply(p, "answer", Outcome(d, action))
               /\ decision' = Decided(d, action)
      <3>1. pc'[p] = "answer" /\ at'[p] = at[p] /\ answer'[p] = Outcome(d, action)
        BY <2>3, LocalAt DEF Reply
      <3>2. Outcome(d, action) \in Answers
        BY DEF Outcome, Requested, Answers
      <3>3. ASSUME NEW c \in Card, at[p] \in Presses(c)'
            PROVE  Holds(Choice(at[p]), Outcome(d, action), decision'[c], TakenUp(c))
        <4>1. at[p] \in Presses(c) /\ c = d
          BY <2>0, <3>1, <3>3 DEF Presses
        <4>. QED
          BY <2>3, <4>1, ResolveTruthful
      <3>4. ASSUME NEW c \in Card, at'[p] \in Presses(c)'
            PROVE  Truthful(c, at[p], answer[p])'
        <4>1. Holds(Choice(at[p]), Outcome(d, action), decision'[c], TakenUp(c))
          BY <3>1, <3>3, <3>4
        <4>2. Choice(at[p])' = Choice(at[p])
          BY <2>0, <3>1 DEF Choice
        <4>3. TakenUp(c)' = TakenUp(c)
          BY <1>7 DEF Resolve, TakenUp
        <4>. QED
          BY <3>1, <4>1, <4>2, <4>3 DEF Truthful
      <3>. QED
        BY <3>1, <3>2, <3>4 DEF HandAt
    <2>4. CASE Reply(p, "answer", "invalid")
      <3>1. pc'[p] = "answer" /\ at'[p] = at[p] /\ answer'[p] = "invalid"
        BY <2>4, LocalAt DEF Reply
      <3>. QED
        BY <3>1 DEF HandAt, Truthful, Holds, Answers, Decisive
    <2>. QED
      BY <2>1, <2>2, <2>3, <2>4
  <1>8. CASE SendDetails(p)
    <2>1. updates' = updates /\ \A c \in Card : at[p] \notin Presses(c)
      BY <1>8 DEF SendDetails, telegram, HandInv, HandAt, Presses
    <2>. QED
      BY <1>2, <1>5, <1>8, <2>1 DEF SendDetails, Answers
  <1>9. CASE AnswerCallback(p)
    <2>0. at[p] \in 1..MaxUpdates
      BY <1>9, InHand DEF AnswerCallback, Busy
    <2>1. \/ Return(p)
          \/ told' = [told EXCEPT ![at[p]] = @ \cup {answer[p]}] /\ Goto(p, "advance")
      BY <1>9 DEF AnswerCallback
    <2>2. CASE told' = [told EXCEPT ![at[p]] = @ \cup {answer[p]}] /\ Goto(p, "advance")
      <3>1. pc'[p] = "advance" /\ at'[p] = at[p]
        BY <2>2, LocalAt DEF Goto
      <3>2. answer[p] \in told'[at[p]]
        BY <2>0, <2>2 DEF TypeOK
      <3>3. UNCHANGED <<updates, decision>>
        BY <1>9 DEF AnswerCallback, telegram, tables
      <3>4. \A c \in Card : at[p] \in Presses(c)' => Truthful(c, at[p], answer[p])
        BY <1>9, <3>3 DEF HandInv, HandAt, AnswerCallback, Presses
      <3>5. \A c \in Card : at[p] \in Presses(c)' =>
               "invalid" \in told'[at[p]] \/ decision'[c] \in Decisive
        BY <3>2, <3>3, <3>4 DEF Truthful, Holds
      <3>. QED
        BY <3>1, <3>5 DEF HandAt
    <2>. QED
      BY <1>2, <2>1, <2>2
  <1>. QED
    BY <1>3, <1>4, <1>6, <1>7, <1>8, <1>9 DEF PollerStep

LEMMA StepIsLocal ==
  ASSUME NEW p \in Poller, PollerStep(p) \/ PassFails(p)
  PROVE  \E there, update, answering : Local(p, there, update, answering)
  <1>1. ASSUME Return(p) PROVE \E there, update, answering : Local(p, there, update, answering)
    BY <1>1, Zenon DEF Return
  <1>2. ASSUME NEW there, NEW answering, Reply(p, there, answering)
        PROVE  \E t, update, a : Local(p, t, update, a)
    BY <1>2, Zenon DEF Reply
  <1>3. CASE Examine(p) \/ Resolve(p)
    <2>1. \E there, answering : Reply(p, there, answering)
      BY <1>3, GotoIsReply, Zenon DEF Examine, Resolve
    <2>. QED
      BY <1>2, <2>1
  <1>4. CASE SendDetails(p) \/ AnswerCallback(p)
    <2>1. Return(p) \/ \E there, answering : Reply(p, there, answering)
      BY <1>4, GotoIsReply, Zenon DEF SendDetails, AnswerCallback
    <2>. QED
      BY <1>1, <1>2, <2>1
  <1>5. CASE PassEnds(p) \/ PassFails(p)
    BY <1>1, <1>5 DEF PassEnds, PassFails
  <1>6. CASE GetUpdates(p) \/ Skip(p) \/ AdvanceUpdateId(p)
    BY <1>6, Zenon DEF GetUpdates, Skip, AdvanceUpdateId
  <1>. QED
    BY <1>3, <1>4, <1>5, <1>6 DEF PollerStep

LEMMA HandStep ==
  ASSUME TypeOK, RangeInv, CardInv, HandInv, [Next]_vars
  PROVE  HandInv'
  <1>1. SUFFICES ASSUME NEW q \in Poller PROVE HandAt(q)'
    BY DEF HandInv
  <1>2. CASE UNCHANGED procs
    BY <1>2, HandKept DEF procs
  <1>3. ASSUME NEW p \in Poller, PollerStep(p) \/ PassFails(p) PROVE HandAt(q)'
    <2>1. CASE q = p
      BY <1>3, <2>1, HandOwn
    <2>2. CASE q # p
      <3>1. pc'[q] = pc[q] /\ at'[q] = at[q] /\ answer'[q] = answer[q]
        BY <1>3, <2>2, StepIsLocal, LocalAt
      <3>. QED
        BY <3>1, HandKept
    <2>. QED
      BY <2>1, <2>2
  <1>. QED
    BY <1>2, <1>3, ProcsStep

-----------------------------------------------------------------------------
(* The answers.                                                            *)

LEMMA ToldChange ==
  ASSUME [Next]_vars
  PROVE  \/ told' = told
         \/ \E p \in Poller : AnswerCallback(p) /\ told' = [told EXCEPT ![at[p]] = @ \cup {answer[p]}]
  <1>1. ASSUME NEW p \in Poller, AnswerCallback(p)
        PROVE  told' = told \/ told' = [told EXCEPT ![at[p]] = @ \cup {answer[p]}]
    BY <1>1 DEF AnswerCallback
  <1>. QED
    BY <1>1 DEF Next, PollerStep, Prepare, SendMessage, MarkNotified, SinkFails, GetUpdates, Skip, Examine,
      PassEnds, Resolve, SendDetails, AdvanceUpdateId, PassFails, Offer, Take, Press, vars

\* An update is told more only of what a poller has in hand for it.
LEMMA ToldMore ==
  ASSUME TypeOK, RangeInv, [Next]_vars, NEW i \in 1..MaxUpdates, NEW a \in told'[i]
  PROVE  \/ a \in told[i]
         \/ \E p \in Poller : /\ AnswerCallback(p) /\ pc[p] = "answer" /\ at[p] = i /\ answer[p] = a
                              /\ i \in 1..Len(updates)
  <1>1. ASSUME NEW p \in Poller, AnswerCallback(p), told' = [told EXCEPT ![at[p]] = @ \cup {answer[p]}],
               a \notin told[i]
        PROVE  pc[p] = "answer" /\ at[p] = i /\ answer[p] = a /\ i \in 1..Len(updates)
    <2>1. pc[p] = "answer" /\ at[p] \in 1..Len(updates) /\ at[p] \in 1..MaxUpdates
      BY <1>1, InHand DEF AnswerCallback, Busy
    <2>. QED
      BY <1>1, <2>1 DEF TypeOK
  <1>. QED
    BY <1>1, ToldChange

LEMMA ToldStep ==
  ASSUME TypeOK, RangeInv, ToldInv, [Next]_vars
  PROVE  ToldInv'
  <1>1. SUFFICES ASSUME NEW i \in 1..MaxUpdates, i > Len(updates'), NEW a \in told'[i] PROVE FALSE
    BY DEF ToldInv
  <1>2. i > Len(updates) /\ i \notin 1..Len(updates)
    BY <1>1, UpdatesStep
  <1>. QED
    BY <1>2, ToldMore DEF ToldInv

\* The answers in AnswersHold are those that hold.
LEMMA AnswersAreTrue ==
  ASSUME TypeOK, CardInv, AnswersHold, NEW c \in Card, NEW i \in Presses(c),
         NEW a \in told[i], a \in Decisive \cup {"conflict"}
  PROVE  Truthful(c, i, a)
  <1>1. decision[c] \in Decisions /\ decision[c] # "absent"
    <2>1. decision[c] \in Decisions
      BY DEF TypeOK
    <2>2. decision[c] # "absent"
      BY PressFacts DEF CardInv
    <2>. QED
      BY <2>1, <2>2
  <1>2. /\ told[i] \cap {"approved", "rejected"} \subseteq {decision[c]}
        /\ "conflict" \in told[i] =>
             /\ decision[c] \in {"approved", "rejected"}
             /\ decision[c] = Choice(i) => Choice(i) = "approved" /\ TakenUp(c)
    BY DEF AnswersHold
  <1>. QED
    BY <1>1, <1>2 DEF Truthful, Holds, Decisive, Decisions

LEMMA AnswersHoldStep ==
  ASSUME TypeOK, RangeInv, CardInv, HandInv, ToldInv, AnswersHold, [Next]_vars
  PROVE  AnswersHold'
  <1>1. ASSUME NEW c \in Card, NEW i \in Presses(c)', NEW a \in told'[i], a \in Decisive \cup {"conflict"}
        PROVE  Truthful(c, i, a)'
    <2>0. i \in 1..MaxUpdates
      BY UpdatesStep, MaxUpdatesAssumption DEF Presses
    <2>1. i \in Presses(c)
      <3>1. a \in told[i] => i \in 1..Len(updates)
        BY <2>0, UpdatesStep DEF ToldInv
      <3>. QED
        BY <2>0, <3>1, ToldMore, PressesStep
    <2>2. Truthful(c, i, a)
      <3>1. CASE a \in told[i]
        BY <1>1, <2>1, <3>1, AnswersAreTrue
      <3>2. ASSUME NEW p \in Poller, pc[p] = "answer", at[p] = i, answer[p] = a
            PROVE  Truthful(c, i, a)
        BY <2>1, <3>2 DEF HandInv, HandAt
      <3>. QED
        BY <2>0, <3>1, <3>2, ToldMore
    <2>. QED
      BY <2>1, <2>2, TruthStays
  <1>2. ASSUME NEW c \in Card, NEW i \in Presses(c)'
        PROVE  /\ told'[i] \cap {"approved", "rejected"} \subseteq {decision'[c]}
               /\ "conflict" \in told'[i] =>
                    /\ decision'[c] \in {"approved", "rejected"}
                    /\ decision'[c] = Choice(i)' => Choice(i)' = "approved" /\ TakenUp(c)'
    BY <1>1 DEF Truthful, Holds, Decisive
  <1>. QED
    BY <1>2 DEF AnswersHold

-----------------------------------------------------------------------------
(* The decisions.                                                          *)

\* A card that is approved has its work queued.
LEMMA ApprovedIsQueued ==
  ASSUME TypeOK, CardInv, NEW c \in Card, decision[c] = "approved"
  PROVE  c[2] \in work
  <1>1. \A e \in Event : decision[<<"submit", e>>] # "absent" => e \in work
    BY DEF TypeOK
  <1>2. \A e \in Event : decision[<<"start", e>>] = "approved" => e \in work
    BY DEF CardInv
  <1>3. c[1] \in {"start", "submit"} /\ c[2] \in Event /\ c = <<c[1], c[2]>>
    BY CardFacts
  <1>4. CASE c[1] = "start"
    BY <1>2, <1>3, <1>4
  <1>5. CASE c[1] = "submit"
    BY <1>1, <1>3, <1>5
  <1>. QED
    BY <1>3, <1>4, <1>5

LEMMA CursorStep ==
  ASSUME [Next]_vars
  PROVE  cursor' = cursor \/ \E p \in Poller : AdvanceUpdateId(p)
BY DEF Next, PollerStep, Prepare, SendMessage, MarkNotified, SinkFails, GetUpdates, Skip, Examine,
       PassEnds, Resolve, SendDetails, AnswerCallback, PassFails, Offer, Take, Press, vars

LEMMA NoPressLostStep ==
  ASSUME TypeOK, RangeInv, CardInv, HandInv, NoPressLost, [Next]_vars
  PROVE  NoPressLost'
  <1>0. /\ cursor \in Nat /\ cursor <= Len(updates) + 1 /\ Len(updates) \in Nat
        /\ \A p \in Poller : at[p] \in Nat
    BY DEF TypeOK, RangeInv
  <1>1. SUFFICES ASSUME NEW c \in Card, NEW i \in Presses(c)', i < cursor'
                 PROVE  \/ "invalid" \in told'[i]
                        \/ decision'[c] = "approved" /\ c[2] \in work'
                        \/ decision'[c] = "rejected"
    BY DEF NoPressLost
  <1>2. i \in 1..Len(updates')
    BY DEF Presses
  \* What held before the step holds after it.
  <1>3. ASSUME i \in Presses(c), "invalid" \in told[i] \/ decision[c] \in Decisive
        PROVE  \/ "invalid" \in told'[i]
               \/ decision'[c] = "approved" /\ c[2] \in work'
               \/ decision'[c] = "rejected"
    <2>1. i \in 1..MaxUpdates
      BY <1>3, PressFacts
    <2>2. "invalid" \in told[i] => "invalid" \in told'[i]
      BY <2>1, Growth
    <2>3. decision[c] \in Decisive => decision'[c] = decision[c]
      BY DecidedStays
    <2>4. decision[c] = "approved" => c[2] \in work'
      BY ApprovedIsQueued, Growth
    <2>. QED
      BY <1>3, <2>2, <2>3, <2>4 DEF Decisive
  <1>4. CASE cursor' = cursor
    <2>1. i \in Presses(c) /\ i < cursor
      BY <1>0, <1>1, <1>2, <1>4, PressesStep
    <2>. QED
      BY <1>3, <2>1 DEF NoPressLost, Decisive
  <1>5. ASSUME NEW p \in Poller, AdvanceUpdateId(p), cursor' # cursor
        PROVE  \/ "invalid" \in told'[i]
               \/ decision'[c] = "approved" /\ c[2] \in work'
               \/ decision'[c] = "rejected"
    <2>1. /\ pc[p] = "advance" /\ cursor' = Advanced(p) /\ updates' = updates
      BY <1>5 DEF AdvanceUpdateId, telegram
    <2>2. at[p] = cursor /\ cursor' = at[p] + 1
      BY <1>0, <1>5, <2>1 DEF Advanced, RangeInv
    <2>3. i \in Presses(c) /\ (i < cursor \/ i = at[p])
      BY <1>0, <1>1, <1>2, <2>1, <2>2, PressesStep
    <2>4. CASE i < cursor
      BY <1>3, <2>3, <2>4 DEF NoPressLost, Decisive
    <2>5. CASE i = at[p]
      <3>1. "invalid" \in told[i] \/ decision[c] \in Decisive
        BY <2>1, <2>3, <2>5 DEF HandInv, HandAt
      <3>. QED
        BY <1>3, <2>3, <3>1
    <2>. QED
      BY <2>3, <2>4, <2>5
  <1>. QED
    BY <1>4, <1>5, CursorStep

LEMMA FirstPressStep ==
  ASSUME TypeOK, RangeInv, CardInv, HandInv, NoPressLost, FirstPressDecides, [Next]_vars
  PROVE  FirstPressDecides'
  <1>1. SUFFICES ASSUME NEW c \in Card, decision'[c] \in {"approved", "rejected"}
                 PROVE  \E i \in Presses(c)' :
                          /\ Choice(i)' = decision'[c]
                          /\ \A j \in Presses(c)' :
                               j < i => Choice(j)' = Choice(i)' \/ "invalid" \in told'[j]
    BY DEF FirstPressDecides
  \* A press that decides the card before the step, or at it, does so after it.
  <1>2. ASSUME NEW i \in Presses(c), Choice(i) = decision'[c],
               \A j \in Presses(c) : j < i => Choice(j) = Choice(i) \/ "invalid" \in told[j]
        PROVE  \E k \in Presses(c)' :
                 /\ Choice(k)' = decision'[c]
                 /\ \A j \in Presses(c)' :
                      j < k => Choice(j)' = Choice(k)' \/ "invalid" \in told'[j]
    <2>1. i \in Presses(c)' /\ Choice(i)' = Choice(i) /\ i \in 1..Len(updates)
      BY PressesStep, PressFacts
    <2>2. ASSUME NEW j \in Presses(c)', j < i
          PROVE  Choice(j)' = Choice(i)' \/ "invalid" \in told'[j]
      <3>1. j \in 1..Len(updates') /\ Len(updates) \in Nat
        BY UpdatesStep DEF Presses
      <3>2. j \in 1..Len(updates)
        BY <2>1, <2>2, <3>1
      <3>3. j \in Presses(c) /\ Choice(j)' = Choice(j) /\ j \in 1..MaxUpdates
        BY <3>2, PressesStep, PressFacts
      <3>4. Choice(j) = Choice(i) \/ "invalid" \in told[j]
        BY <1>2, <2>2, <3>3
      <3>. QED
        BY <2>1, <3>3, <3>4, Growth
    <2>. QED
      BY <1>2, <2>1, <2>2
  <1>3. CASE decision'[c] = decision[c]
    <2>1. PICK i \in Presses(c) :
            /\ Choice(i) = decision[c]
            /\ \A j \in Presses(c) : j < i => Choice(j) = Choice(i) \/ "invalid" \in told[j]
      BY <1>1, <1>3 DEF FirstPressDecides
    <2>. QED
      BY <1>2, <1>3, <2>1
  <1>4. ASSUME NEW p \in Poller, Decides(p, c)
        PROVE  \E k \in Presses(c)' :
                 /\ Choice(k)' = decision'[c]
                 /\ \A j \in Presses(c)' :
                      j < k => Choice(j)' = Choice(k)' \/ "invalid" \in told'[j]
    <2>1. /\ pc[p] = "resolve" /\ decision[c] = "pending" /\ decision'[c] = Choice(at[p])
          /\ updates[at[p]].button[1] = c /\ updates[at[p]].button[2] # "details"
      BY <1>4 DEF Decides
    <2>2. at[p] \in 1..Len(updates)
      BY <2>1, InHand DEF Busy
    <2>3. updates[at[p]].from = "user"
      BY <2>1 DEF HandInv, HandAt
    <2>4. at[p] \in Presses(c)
      BY <2>1, <2>2, <2>3 DEF Presses
    <2>5. ASSUME NEW j \in Presses(c), j < at[p] PROVE "invalid" \in told[j]
      <3>1. at[p] <= cursor /\ cursor \in Nat /\ j \in Nat /\ at[p] \in Nat
        BY <2>1, PressFacts DEF RangeInv, TypeOK
      <3>2. j < cursor
        BY <2>5, <3>1
      <3>. QED
        BY <2>1, <3>2 DEF NoPressLost
    <2>. QED
      BY <1>2, <2>1, <2>4, <2>5
  <1>. QED
    BY <1>1, <1>3, <1>4, DecisionStep DEF Opens

-----------------------------------------------------------------------------
(* The theorems.                                                           *)

LEMMA InitInv ==
  ASSUME Init
  PROVE  IInv
  <1>0. /\ updates = <<>> /\ Len(updates) = 0 /\ \A c \in Card : Presses(c) = {}
        /\ \A c \in Card : decision[c] = "absent"
    BY DEF Init, Presses
  <1>1. TypeOK
    <2>1. /\ decision \in [Card -> Decisions] /\ taken = {} /\ work = {} /\ notified = {} /\ chat = {}
          /\ updates \in Seq(Update) /\ sink \in [Scheduler -> {NotSending} \cup ({"send", "mark"} \X Event)]
      BY DEF Init, Decisions
    <2>2. /\ cursor \in 1..(MaxUpdates + 1) /\ Len(updates) <= MaxUpdates
          /\ at \in [Poller -> 1..(MaxUpdates + 1)] /\ last \in [Poller -> 0..MaxUpdates]
      BY <1>0, MaxUpdatesAssumption DEF Init
    <2>3. /\ pc \in [Poller -> {"idle", "next", "resolve", "details", "answer", "advance"}]
          /\ answer \in [Poller -> Answers \cup {"none"}] /\ told \in [1..MaxUpdates -> SUBSET Answers]
          /\ begun = {}
      BY DEF Init
    <2>4. \A e \in Event : decision[<<"submit", e>>] = "absent"
      BY <1>0, CardFacts
    <2>. QED
      BY <2>1, <2>2, <2>3, <2>4 DEF TypeOK
  <1>2. SinkInv
    <2>1. \A s \in Scheduler : sink[s] = <<"idle">>
      BY DEF Init, NotSending
    <2>. QED
      BY <2>1 DEF SinkInv
  <1>3. RangeInv
    BY <1>0 DEF Init, RangeInv, Busy
  <1>4. CardInv
    BY <1>0, CardFacts DEF Init, CardInv
  <1>5. HandInv
    BY DEF Init, HandInv, HandAt
  <1>6. ToldInv
    BY DEF Init, ToldInv
  <1>7. FirstPressDecides /\ NoPressLost /\ AnswersHold
    BY <1>0 DEF FirstPressDecides, NoPressLost, AnswersHold
  <1>. QED
    BY <1>1, <1>2, <1>3, <1>4, <1>5, <1>6, <1>7 DEF IInv

\* The invariant is inductive.
THEOREM Inductive == Spec => []IInv
  <1>1. Init => IInv
    BY InitInv
  <1>2. IInv /\ [Next]_vars => IInv'
    BY TypeStep, SinkStep, RangeStep, CardStep, HandStep, ToldStep,
       FirstPressStep, NoPressLostStep, AnswersHoldStep DEF IInv
  <1>. QED
    BY <1>1, <1>2, PTL DEF Spec

\* The tables, the sinks and the pollers keep their types: an offer has work, a
\* message has a request, and only approved submissions are taken up.
THEOREM TypeCorrect == Spec => []TypeOK
  <1>1. IInv => TypeOK
    BY DEF IInv
  <1>. QED
    BY <1>1, Inductive, PTL

\* With any number of pollers and presses, the user's first press of a card that
\* he was not told was invalid is the one that decides it (resolve, process_updates).
THEOREM TheFirstPressDecides == Spec => []FirstPressDecides
  <1>1. IInv => FirstPressDecides
    BY DEF IInv
  <1>. QED
    BY <1>1, Inductive, PTL

\* The cursor passes no press whose card is undecided, unless the user was told
\* that it did not count, and an approved card has its work (advance_update_id).
THEOREM NoPressIsLost == Spec => []NoPressLost
  <1>1. IInv => NoPressLost
    BY DEF IInv
  <1>. QED
    BY <1>1, Inductive, PTL

\* What the user was told to be decided is what is decided, ever after, whichever
\* poller told it and however often the press was handled again; "another decision"
\* is told to no press whose choice holds, except to the approval of a submission
\* that the worker has taken up (_process_callback, resolve_submission).
THEOREM TheAnswersHold == Spec => []AnswersHold
  <1>1. IInv => AnswersHold
    BY DEF IInv
  <1>. QED
    BY <1>1, Inductive, PTL
=============================================================================

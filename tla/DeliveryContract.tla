--------------------------- MODULE DeliveryContract ---------------------------
(***************************************************************************)
(* What the notification outbox promises its consumers, without leases,    *)
(* schedulers, attempts or time: at-least-once delivery of recorded        *)
(* events.  The consumer may hear an event any number of times once it is  *)
(* recorded, also after it is settled; the event is settled only when the  *)
(* consumer has heard it, or when an operator vouches that it has.         *)
(***************************************************************************)
CONSTANT Event

VARIABLES
  phase,    \* unseen, queued (recorded, owed to the consumer) or settled
  heard,    \* the events the consumer has accepted at least once
  vouched   \* the events an operator has vouched for

vars == <<phase, heard, vouched>>

Init ==
  /\ phase = [e \in Event |-> "unseen"]
  /\ heard = {}
  /\ vouched = {}

Record(e) ==
  /\ phase[e] = "unseen"
  /\ phase' = [phase EXCEPT ![e] = "queued"]
  /\ UNCHANGED <<heard, vouched>>

Hear(e) ==
  /\ phase[e] # "unseen"
  /\ heard' = heard \cup {e}
  /\ UNCHANGED <<phase, vouched>>

Settle(e) ==
  /\ phase[e] = "queued" /\ e \in heard
  /\ phase' = [phase EXCEPT ![e] = "settled"]
  /\ UNCHANGED <<heard, vouched>>

Vouch(e) ==
  /\ phase' = [phase EXCEPT ![e] = "settled"]
  /\ vouched' = vouched \cup {e}
  /\ UNCHANGED heard

Next == \E e \in Event : Record(e) \/ Hear(e) \/ Settle(e) \/ Vouch(e)

Spec == Init /\ [][Next]_vars
=============================================================================

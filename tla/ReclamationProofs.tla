------------------------- MODULE ReclamationProofs -------------------------
(***************************************************************************)
(* What a receipt is worth: every tombstone's targets are gone when it is  *)
(* reclaimed, and nothing of it was touched before it was committed.       *)
(***************************************************************************)
EXTENDS Reclamation, TLAPS

\* The targets of a tombstone go in two parts, and none of them comes back.
Emptied ==
  \A t \in Tombstone :
    /\ stage[t] \in {"acknowledged", "reclaimed"} => left \cap AgentTargets[t] = {}
    /\ stage[t] = "reclaimed" => left \cap ControllerTargets[t] = {}

Stages == {"kept", "committed", "acknowledged", "reclaimed"}

Inv == stage \in [Tombstone -> Stages] /\ Emptied

\* A reclaimed tombstone has nothing left, on either side.
ReclaimedMeansGone ==
  \A t \in Tombstone :
    stage[t] = "reclaimed" => left \cap (AgentTargets[t] \cup ControllerTargets[t]) = {}

\* While a tombstone is kept, nothing that is its alone is removed.
Own(t) == AgentTargets[t] \cup ControllerTargets[t]
KeptStays ==
  [][\A t \in Tombstone : stage[t] = "kept" =>
       \A x \in left \cap Own(t) :
         (\A u \in Tombstone \ {t} : x \notin Own(u)) => x \in left']_vars

LEMMA InvStep == Inv /\ [Next]_vars => Inv'
  <1>. SUFFICES ASSUME Inv, [Next]_vars PROVE Inv'
    OBVIOUS
  <1>. USE DEF Inv
  <1>1. ASSUME NEW t \in Tombstone, Commit(t) \/ Acknowledge(t) \/ Finish(t) PROVE Inv'
    BY <1>1 DEF Commit, Acknowledge, Finish, Emptied, Stages
  <1>2. ASSUME NEW t \in Tombstone, NEW x, AgentRemoves(t, x) \/ ControllerRemoves(t, x) PROVE Inv'
    BY <1>2 DEF AgentRemoves, ControllerRemoves, Emptied
  <1>3. CASE UNCHANGED vars
    BY <1>3 DEF vars, Emptied
  <1>. QED
    BY <1>1, <1>2, <1>3 DEF Next

\* A receipt says that all targets of the tombstone are gone, and they are
\* (retention_fs.py, controller_consume_ack).
THEOREM ReceiptMeansGone == Spec => []ReclaimedMeansGone
  <1>1. Init => Inv
    BY DEF Init, Inv, Emptied, Stages
  <1>2. Inv => ReclaimedMeansGone
    BY DEF Inv, Emptied, ReclaimedMeansGone
  <1>. QED
    BY <1>1, <1>2, InvStep, PTL DEF Spec

\* Nothing is removed for the sake of a tombstone that is not committed.
THEOREM KeptIsKept == Spec => KeptStays
  <1>1. ASSUME [Next]_vars, NEW t \in Tombstone, stage[t] = "kept", NEW x \in left \cap Own(t),
               \A u \in Tombstone \ {t} : x \notin Own(u)
        PROVE  x \in left'
    BY <1>1 DEF Next, Commit, AgentRemoves, Acknowledge, ControllerRemoves, Finish, vars, Own
  <1>2. [Next]_vars =>
          [\A t \in Tombstone : stage[t] = "kept" =>
             \A x \in left \cap Own(t) :
               (\A u \in Tombstone \ {t} : x \notin Own(u)) => x \in left']_vars
    BY <1>1
  <1>. QED
    BY <1>2, PTL DEF Spec, KeptStays
=============================================================================

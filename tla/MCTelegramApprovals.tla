------------------------- MODULE MCTelegramApprovals -------------------------
(* Instances of TelegramApprovals for TLC.                                 *)
EXTENDS TelegramApprovals, TLC

\* Pollers are interchangeable.
Symmetry == Permutations(Poller)
=============================================================================

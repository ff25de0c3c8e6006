------------------------ MODULE MCNotificationOutbox ------------------------
(* Instances of NotificationOutbox for TLC.                                *)
EXTENDS NotificationOutbox, TLC

\* Schedulers are interchangeable (sound for invariants and action
\* properties; not used by the run that checks liveness).
Symmetry == Permutations(Scheduler)
=============================================================================

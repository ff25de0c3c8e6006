--------------------------- MODULE MCApprovedWork ---------------------------
(* Instances of ApprovedWork for TLC.                                      *)
EXTENDS ApprovedWork, TLC

\* Workers are interchangeable (not used by the runs that check liveness).
Symmetry == Permutations(Worker)
=============================================================================

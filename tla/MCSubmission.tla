---------------------------- MODULE MCSubmission ----------------------------
(* Instances of Submission for TLC.                                        *)
EXTENDS Submission

CONSTANTS a1, w1, w2

first  == <<a1, 1>>
second == <<a1, 2>>

\* One worker and one report that is edited away, with a student at work; one
\* worker and two reports; two workers, the second one only at the saga.
Edited ==
  [crew |-> {w1}, telling |-> {w1}, last |-> 2, executed |-> {first}, labs |-> {},
   student |-> TRUE]
Queue   == [Edited EXCEPT !.executed = {first, second}, !.student = FALSE]
Overlap == [Edited EXCEPT !.crew = {w1, w2}, !.last = 1, !.student = FALSE]

Situations == {Edited, Queue, Overlap}

\* The first report is of a lab execution.
LabSituations == {[Queue EXCEPT !.labs = {first}]}
=============================================================================

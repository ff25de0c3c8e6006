---------------------------- MODULE MCAgentSpool ----------------------------
(* An instance of AgentSpool for TLC.                                      *)
EXTENDS AgentSpool

CONSTANTS l, c, w1, w2

\* The executor's job comes last, the report's first.
Digests == <<<<l, 2>>, <<c, 1>>, <<l, 1>>, <<c, 3>>, <<c, 2>>>>

\* Two workers that take a lab execution from each other, or a central one, and
\* both executions side by side when nothing fails.
Scenarios ==
  {[approved |-> {l}, workers |-> Worker, faults |-> 2],
   [approved |-> {c}, workers |-> Worker, faults |-> 1],
   [approved |-> {l, c}, workers |-> {w1}, faults |-> 0]}
=============================================================================

---------------------------- MODULE MCRetention ----------------------------
(* Instances of Retention for TLC.                                         *)
EXTENDS Retention, TLC

CONSTANTS c, e, l, j1, j2, k1, k2

\* A central execution and, once it is delivered, its bundle.
Central ==
  [event |-> "central", family |-> "central", phase |-> "scratch", jobs |-> <<j1>>,
   barriers |-> <<j1>>, dispatch |-> FALSE, bundle |-> TRUE, eligible |-> 0]
Evidence ==
  [Central EXCEPT !.phase = "evidence", !.jobs = << >>, !.barriers = << >>]

\* A hybrid execution whose plan was dispatched and reported.
Lab ==
  [event |-> "lab", family |-> "lab", phase |-> "scratch", jobs |-> <<k1, k2>>,
   barriers |-> <<k1, k2>>, dispatch |-> TRUE, bundle |-> FALSE, eligible |-> 0]

TwoOrder == <<c, e, l>>
TwoChain == (c :> Central) @@ (e :> Evidence) @@ (l :> Lab)

LabOrder == <<l>>
\* The dispatch stayed unknown: the report was barred and never published.
UnknownLab == [Lab EXCEPT !.jobs = <<k1>>]
UnknownChain == (l :> UnknownLab)
LabChain == (l :> Lab)

Ample == [o \in {"controller", "shared", "agent", "acks"} |-> 100]

\* Where the protocol survives a crash although the clock runs on and other
\* tombstones are under way: before a file is created or a target is touched,
\* between the trash and its removal, in the final clean-up.
Survived ==
  {<<"point", s>> : s \in Steps}
  \cup {<<"admit", o>> : o \in {"controller", "agent", "acks"}}
  \cup {<<f, "none">> : f \in {"prepared", "abarrier", "intent", "ack", "deleting", "completed"}}
  \cup {<<k, "whole">> : k \in {"workspace", "result", "bundle", "job", "dispatch"}}
  \cup {<<"workspace", "moved">>}
  \cup {<<"erase", f>> : f \in {"prepared", "committed", "deleting"}}

\* And in these publications, if nothing else is published meanwhile.
Resumed ==
  {<<"committed", "linked">>, <<"intent", "staged">>,
   <<"completed", "staged">>, <<"completed", "linked">>}
=============================================================================

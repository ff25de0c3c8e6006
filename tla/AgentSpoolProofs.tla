--------------------------- MODULE AgentSpoolProofs ---------------------------
(***************************************************************************)
(* Proofs about AgentSpool, for any executions, workers, order of jobs,    *)
(* limit of attempts and number of faults.                                 *)
(***************************************************************************)
EXTENDS AgentSpool, TLAPS

-----------------------------------------------------------------------------
(* The inductive invariant.                                                *)

WorkerState == [at: Points, job: Job \cup {None}, saw: {"none", "ok", "failed"},
                end: Returns \cup {None}, upto: 0..3]

\* A worker in step has a job in hand, on the way to the command a report.
OnTheWay == Dispatching \cup {"dispatch", "unknown"}
HasJob(r) ==
  /\ r.at # "idle" => r.job \in Job
  /\ r.at \in OnTheWay => r.job[1] \in Lab /\ r.job = Report(r.job[1])
  /\ r.at = "settle" => r.upto <= Length(r.job[1])

TypeInv ==
  /\ TypeOK
  /\ \A w \in Worker : HasJob(worker[w])
  /\ agent.at # "idle" => agent.job \in Job
  /\ \A e \in Execution : outcome[e].upto <= Length(e)

\* The lock of a report has one holder, and only the holder of an unsent intent
\* sends; an intent is gone without a trace only behind a barrier.
Holds(w, j) == worker[w].job = j /\ worker[w].at \in Dispatching
SendInv ==
  /\ abarred \subseteq barred
  /\ \A j \in Job : \A v, w \in Worker : Holds(v, j) /\ Holds(w, j) => v = w
  /\ \A j \in Job : \A w \in Worker : Holds(w, j) => j \notin barred
  /\ \A e \in Lab : \A w \in Worker : Holds(w, Report(e)) =>
       /\ worker[w].at \in {"paired", "send"} => dispatch[e] = "intent" /\ sent[e] = 0
       /\ worker[w].at = "record" => dispatch[e] = "intent"
  /\ \A e \in Lab : dispatch[e] = "none" => sent[e] = 0 \/ Report(e) \in barred
  /\ SentOnce

\* The agent works on what has no result and is not barred.
AgentInv ==
  agent.at \in {"codex", "publish"} => result[agent.job] = "none" /\ agent.job \notin abarred

\* Where the success of an execution comes from.
Accepted(j) == result[j] = "ok" \/ j \in abarred
Backed(e) == IF e \in Lab THEN sent[e] = 1 /\ command[e] = "ok" ELSE e \in bundle
Earned(e) == Backed(e) /\ \A j \in Chain(e, Length(e)) : Accepted(j)

\* A worker comes to a job after those before it in the chain were answered.
Behind(r) ==
  r.at \notin {"idle", "settle"} => \A k \in 1..(r.job[2] - 1) : Accepted(<<r.job[1], k>>)
BehindInv == \A w \in Worker : Behind(worker[w])

LabAt(e) ==
  /\ command[e] # "none" => sent[e] > 0
  /\ context[e] # "none" => context[e] = command[e]
  /\ Report(e) \in job => context[e] # "none"
  /\ \A w \in Worker : At(w, "publish") /\ worker[w].job = Report(e) =>
       worker[w].saw # "none" /\ worker[w].saw = command[e]
  /\ agent.at = "codex" /\ agent.job = Report(e) => context[e] # "none"
  /\ agent.at = "publish" /\ agent.job = Report(e) /\ agent.out = "ok" => command[e] = "ok"
  /\ result[Report(e)] = "ok" => command[e] = "ok"
LabInv == \A e \in Lab : LabAt(e)

CentralInv ==
  \A e \in Central : \A w \in Worker :
    worker[w].at \in {"publish", "read"} /\ worker[w].job = <<e, 3>> => e \in bundle

EndEarned(w) ==
  At(w, "settle") /\ worker[w].end = "succeeded" => Earned(worker[w].job[1])

EarnInv ==
  LabInv /\ CentralInv /\ BehindInv /\ (\A w \in Worker : EndEarned(w)) /\ SuccessIsEarned

IInv == TypeInv /\ SendInv /\ AgentInv /\ EarnInv

-----------------------------------------------------------------------------
(* Jobs, and how a step moves a worker.                                    *)

LEMMA JobFacts ==
  /\ \A e \in Execution : Length(e) \in {2, 3} /\ (e \in Lab <=> Length(e) = 2)
  /\ \A e \in Execution : \A i \in 1..Length(e) : <<e, i>> \in Job
  /\ \A j \in Job : /\ j[1] \in Execution /\ j[2] \in 1..Length(j[1])
                    /\ j = <<j[1], j[2]>>
  /\ \A e \in Execution : Report(e) \in Job /\ Report(e)[1] = e /\ Report(e)[2] = 2
  /\ \A e, f \in Execution : Report(e) = Report(f) => e = f
  <1>1. \A e \in Execution : Length(e) \in {2, 3} /\ (e \in Lab <=> Length(e) = 2)
    BY DEF Length
  <1>2. \A e \in Execution : \A i \in 1..Length(e) : <<e, i>> \in Job
    BY DEF Job, Chain
  <1>3. \A j \in Job : /\ j[1] \in Execution /\ j[2] \in 1..Length(j[1])
                       /\ j = <<j[1], j[2]>>
    BY DEF Job, Chain
  <1>4. \A e \in Execution : Report(e) \in Job /\ Report(e)[1] = e /\ Report(e)[2] = 2
    BY <1>1, <1>2 DEF Report
  <1>. QED
    BY <1>1, <1>2, <1>3, <1>4 DEF Report

Moved(w, r) == worker' = [worker EXCEPT ![w] = r]
Going(s, point, j) == [s EXCEPT !.at = point, !.job = j]
Settling(s, end, n) == [s EXCEPT !.at = "settle", !.end = end, !.upto = n]
Goes(w, point, j) == Moved(w, Going(worker[w], point, j))
Settled(w, end, n) == Moved(w, Settling(worker[w], end, n))
Settles(w, ends) == \E end \in ends, n \in 0..Length(worker[w].job[1]) : Settled(w, end, n)

LEMMA GoingFields ==
  ASSUME NEW s \in WorkerState, NEW point \in Points, NEW j \in Job
  PROVE  /\ Going(s, point, j) \in WorkerState
         /\ Going(s, point, j).at = point /\ Going(s, point, j).job = j
         /\ Going(s, point, j).saw = s.saw
BY DEF WorkerState, Going

LEMMA SettlingFields ==
  ASSUME NEW s \in WorkerState, NEW end \in Returns, NEW n \in 0..3
  PROVE  /\ Settling(s, end, n) \in WorkerState
         /\ Settling(s, end, n).at = "settle" /\ Settling(s, end, n).job = s.job
         /\ Settling(s, end, n).end = end /\ Settling(s, end, n).upto = n
BY DEF WorkerState, Settling, Points

LEMMA GotoMoves ==
  ASSUME TypeOK, NEW w \in Worker, NEW point, NEW j, Goto(w, point, j)
  PROVE  Goes(w, point, j)
  <1>1. worker \in [Worker -> WorkerState]
    BY DEF TypeOK, WorkerState
  <1>. QED
    BY <1>1 DEF Goto, Goes, Moved, Going

LEMMA ReturnMoves ==
  ASSUME TypeOK, NEW w \in Worker, NEW end, NEW n, Return(w, end, n)
  PROVE  Settled(w, end, n)
  <1>1. worker \in [Worker -> WorkerState]
    BY DEF TypeOK, WorkerState
  <1>. QED
    BY <1>1 DEF Return, Settled, Moved, Settling

LEMMA EndMoves ==
  ASSUME TypeOK, NEW w \in Worker, NEW e, NEW end, NEW read, NEW n \in 0..Length(worker[w].job[1]),
         End(w, e, end, read, n)
  PROVE  Settles(w, {end, "error"})
  <1>1. Return(w, end, n) \/ Return(w, "error", 0)
    BY DEF End
  <1>2. Settled(w, end, n) \/ Settled(w, "error", 0)
    BY <1>1, ReturnMoves
  <1>. QED
    BY <1>2 DEF Settles, Length

LEMMA ErrorMoves ==
  ASSUME TypeOK, NEW w \in Worker, NEW end, Return(w, end, 0)
  PROVE  Settles(w, {end})
BY ReturnMoves DEF Settles, Length

\* What a readable result leads to.
LEMMA AfterMoves ==
  ASSUME TypeInv, NEW w \in Worker, NEW e \in Execution, NEW i \in 1..Length(e),
         worker[w].job[1] = e, After(w, e, i)
  PROVE  \/ Settles(w, {"error", "failed"})
         \/ result[<<e, i>>] = "ok" /\ i = Length(e) /\ Settles(w, {"succeeded", "error"})
         \/ /\ result[<<e, i>>] = "ok" /\ i < Length(e)
            /\ \/ e \in Lab /\ Report(e) \in job /\ Goes(w, "read", Report(e))
               \/ e \in Lab /\ Goes(w, "dispatch", Report(e))
               \/ /\ e \in Central /\ i < 3 /\ (i = 2 => e \in bundle)
                  /\ Goes(w, "publish", <<e, i + 1>>)
  <1>. USE JobFacts DEF TypeInv
  <1>0. i \in 0..Length(worker[w].job[1])
    OBVIOUS
  <1>1. ASSUME Return(w, "error", 0) PROVE Settles(w, {"error", "failed"})
    <2>1. Settles(w, {"error"})
      BY <1>1, ErrorMoves
    <2>. QED
      BY <2>1 DEF Settles
  <1>2. ASSUME End(w, e, "failed", i, i) PROVE Settles(w, {"error", "failed"})
    <2>1. Settles(w, {"failed", "error"})
      BY <1>0, <1>2, EndMoves
    <2>. QED
      BY <2>1 DEF Settles
  <1>3. ASSUME End(w, e, "succeeded", i, i) PROVE Settles(w, {"succeeded", "error"})
    BY <1>0, <1>3, EndMoves
  <1>4. ASSUME Goto(w, IF Report(e) \in job THEN "read" ELSE "dispatch", Report(e))
        PROVE  \/ Report(e) \in job /\ Goes(w, "read", Report(e))
               \/ Goes(w, "dispatch", Report(e))
    BY <1>4, GotoMoves
  <1>5. ASSUME Goto(w, "publish", <<e, i + 1>>) PROVE Goes(w, "publish", <<e, i + 1>>)
    BY <1>5, GotoMoves
  <1>6. i < Length(e) => i < 3
    OBVIOUS
  <1>7. Usable(e, i) /\ result[<<e, i>>] = "ok" /\ e \in Central /\ i = 2 => e \in bundle
    BY DEF Usable
  <1>. QED
    BY <1>1, <1>2, <1>3, <1>4, <1>5, <1>6, <1>7 DEF After

\* Ends of step other than success.
Unearned == Returns \ {"succeeded"}

LEMMA SettlesWithin ==
  ASSUME NEW w \in Worker, NEW some, NEW ends, some \subseteq ends, Settles(w, some)
  PROVE  Settles(w, ends)
BY DEF Settles

LEMMA PublishMoves ==
  ASSUME TypeInv, NEW w \in Worker, PublishJob(w)
  PROVE  \E j \in Job :
           /\ At(w, "publish") /\ worker[w].job = j
           /\ scenario' = scenario \/ Fault
           /\ \/ /\ Goes(w, "read", j) /\ j \notin barred
                 /\ \/ j \in job /\ UNCHANGED <<job, context>>
                    \/ /\ job' = job \cup {j}
                       /\ context' = IF j[2] = 2 /\ j[1] \in Lab
                                     THEN [context EXCEPT ![j[1]] = worker[w].saw] ELSE context
              \/ Settles(w, Unearned) /\ UNCHANGED <<job, context>>
  <1>. USE JobFacts DEF TypeInv
  <1>. DEFINE j == worker[w].job
  <1>1. At(w, "publish") /\ j \in Job /\ j[2] \in 1..3
    BY DEF PublishJob, At, HasJob
  <1>2. ASSUME Return(w, "error", 0) PROVE Settles(w, Unearned)
    BY <1>2, ReturnMoves DEF Settles, Length, Unearned, Returns
  <1>3. ASSUME RefusePublication(w, j[1], j[2]) PROVE Settles(w, Unearned)
    <2>1. \/ End(w, j[1], "capacity_error", 1, 2)
          \/ Return(w, "error", 0) \/ Return(w, "refused", 0)
      BY <1>3 DEF RefusePublication
    <2>2. CASE End(w, j[1], "capacity_error", 1, 2)
      <3>1. Settles(w, {"capacity_error", "error"})
        BY <2>2, EndMoves DEF Length
      <3>. QED
        BY <3>1, SettlesWithin DEF Unearned, Returns, Provenances
    <2>. QED
      BY <2>1, <2>2, ReturnMoves DEF Settles, Length, Unearned, Returns
  <1>4. ASSUME OverBudget(w, j[1], j[2]) PROVE Settles(w, Unearned)
    <2>1. j[2] - 1 \in 0..Length(j[1])
      BY <1>1 DEF Length
    <2>2. Settles(w, {"budget_error", "error"})
      BY <1>4, <2>1, EndMoves DEF OverBudget
    <2>. QED
      BY <2>2, SettlesWithin DEF Unearned, Returns, Provenances
  <1>5. ASSUME Goto(w, "read", j) PROVE Goes(w, "read", j)
    BY <1>5, GotoMoves
  <1>6. <<j[1], j[2]>> = j
    BY <1>1
  <1>7. ASSUME EnsureJob(w, j[1], j[2])
        PROVE  /\ Goes(w, "read", j) /\ job' = job \cup {j}
               /\ context' = IF j[2] = 2 /\ j[1] \in Lab
                             THEN [context EXCEPT ![j[1]] = worker[w].saw] ELSE context
               /\ scenario' = scenario
    BY <1>5, <1>6, <1>7 DEF EnsureJob, NoFault
  <1>. QED
    <2>1. \/ j \in job /\ j \notin barred /\ Goto(w, "read", j) /\ UNCHANGED <<job, context, scenario>>
          \/ j \notin barred /\ EnsureJob(w, j[1], j[2])
          \/ RefusePublication(w, j[1], j[2])
          \/ OverBudget(w, j[1], j[2])
          \/ Return(w, "error", 0) /\ UNCHANGED <<job, context, scenario>>
      BY DEF PublishJob, MayPublish
    <2>. QED
      BY <1>1, <1>2, <1>3, <1>4, <1>5, <1>7, <2>1 DEF RefusePublication, OverBudget

LEMMA ReadMoves ==
  ASSUME TypeInv, NEW w \in Worker, ReadResult(w)
  PROVE  \E e \in Execution, i \in 1..3 :
           /\ At(w, "read") /\ worker[w].job = <<e, i>> /\ i \in 1..Length(e)
           /\ \/ Settles(w, Unearned)
              \/ result[<<e, i>>] = "ok" /\ i = Length(e) /\ Settles(w, {"succeeded", "error"})
              \/ /\ result[<<e, i>>] = "ok" /\ i < Length(e)
                 /\ \/ e \in Lab /\ Report(e) \in job /\ Goes(w, "read", Report(e))
                    \/ e \in Lab /\ Goes(w, "dispatch", Report(e))
                    \/ /\ e \in Central /\ i < 3 /\ (i = 2 => e \in bundle)
                       /\ Goes(w, "publish", <<e, i + 1>>)
  <1>. USE JobFacts DEF TypeInv
  <1>. DEFINE e == worker[w].job[1]
              i == worker[w].job[2]
  <1>1. At(w, "read") /\ worker[w].job \in Job
    BY DEF ReadResult, At, HasJob
  <1>2. e \in Execution /\ i \in 1..Length(e) /\ i \in 1..3 /\ worker[w].job = <<e, i>>
    BY <1>1
  <1>3. ASSUME NEW end \in {"pending", "error"}, Return(w, end, 0) PROVE Settles(w, Unearned)
    BY <1>3, ReturnMoves DEF Settles, Length, Unearned, Returns
  <1>4. ASSUME Settles(w, {"error", "failed"}) PROVE Settles(w, Unearned)
    BY <1>4, SettlesWithin DEF Unearned, Returns, Provenances
  <1>5. \/ Return(w, "pending", 0) \/ Return(w, "error", 0) \/ After(w, e, i)
    BY DEF ReadResult
  <1>6. CASE After(w, e, i)
    <2>. HIDE DEF e, i
    <2>1. worker[w].job[1] = e
      BY DEF e
    <2>2. \/ Settles(w, {"error", "failed"})
          \/ result[<<e, i>>] = "ok" /\ i = Length(e) /\ Settles(w, {"succeeded", "error"})
          \/ /\ result[<<e, i>>] = "ok" /\ i < Length(e)
             /\ \/ e \in Lab /\ Report(e) \in job /\ Goes(w, "read", Report(e))
                \/ e \in Lab /\ Goes(w, "dispatch", Report(e))
                \/ /\ e \in Central /\ i < 3 /\ (i = 2 => e \in bundle)
                   /\ Goes(w, "publish", <<e, i + 1>>)
      BY <1>2, <1>6, <2>1, AfterMoves
    <2>. QED
      BY <1>1, <1>2, <1>4, <2>2, Zenon
  <1>. QED
    BY <1>1, <1>2, <1>3, <1>5, <1>6

LEMMA DispatchMoves ==
  ASSUME TypeInv, NEW w \in Worker, Dispatch(w)
  PROVE  \E e \in Lab :
           /\ At(w, "dispatch") /\ worker[w].job = Report(e) /\ ~Locked(Report(e))
           /\ scenario' = scenario \/ Fault
           /\ \/ Settles(w, Unearned) /\ UNCHANGED <<dispatch, paired>>
              \/ /\ Report(e) \notin barred /\ dispatch[e] # "none"
                 /\ Goes(w, "wait", Report(e)) \/ Goes(w, "unknown", Report(e))
                 /\ UNCHANGED <<dispatch, paired>>
              \/ /\ Report(e) \notin barred /\ dispatch[e] = "none"
                 /\ Goes(w, "paired", Report(e))
                 /\ dispatch' = [dispatch EXCEPT ![e] = "intent"]
                 /\ paired' = paired \cup {e}
  <1>. USE JobFacts DEF TypeInv
  <1>. DEFINE e == worker[w].job[1]
  <1>1. At(w, "dispatch") /\ e \in Lab /\ worker[w].job = Report(e)
    BY DEF Dispatch, At, HasJob, OnTheWay
  <1>2. ASSUME Return(w, "error", 0) PROVE Settles(w, Unearned)
    BY <1>2, ReturnMoves DEF Settles, Length, Unearned, Returns
  <1>3. ASSUME End(w, e, "capacity_error", 1, 1) PROVE Settles(w, Unearned)
    <2>1. Settles(w, {"capacity_error", "error"})
      BY <1>3, EndMoves DEF Length
    <2>. QED
      BY <2>1, SettlesWithin DEF Unearned, Returns, Provenances
  <1>4. ASSUME Resume(w, e) PROVE Goes(w, "wait", Report(e)) \/ Goes(w, "unknown", Report(e))
    BY <1>4, GotoMoves DEF Resume
  <1>5. ASSUME Goto(w, "paired", Report(e)) PROVE Goes(w, "paired", Report(e))
    BY <1>5, GotoMoves
  <1>. QED
    BY <1>1, <1>2, <1>3, <1>4, <1>5 DEF Dispatch, MayPublish, NoFault

LEMMA SendMoves ==
  ASSUME TypeInv, NEW w \in Worker, Send(w)
  PROVE  \E e \in Lab :
           /\ At(w, "send") /\ worker[w].job = Report(e)
           /\ scenario' = scenario \/ Fault
           /\ \/ Settles(w, Unearned) /\ UNCHANGED ssm
              \/ Goes(w, "unknown", Report(e)) /\ UNCHANGED ssm
              \/ /\ Goes(w, "record", Report(e)) \/ Goes(w, "unknown", Report(e))
                 /\ sent' = [sent EXCEPT ![e] = @ + 1]
                 /\ command' = [command EXCEPT ![e] = IF @ = "none" THEN "running" ELSE @]
  <1>. USE JobFacts DEF TypeInv
  <1>. DEFINE e == worker[w].job[1]
  <1>1. At(w, "send") /\ e \in Lab /\ worker[w].job = Report(e)
    BY DEF Send, At, HasJob, OnTheWay, Dispatching
  <1>2. ASSUME Return(w, "error", 0) PROVE Settles(w, Unearned)
    BY <1>2, ReturnMoves DEF Settles, Length, Unearned, Returns
  <1>3. ASSUME End(w, e, "capacity_error", 1, 1) PROVE Settles(w, Unearned)
    <2>1. Settles(w, {"capacity_error", "error"})
      BY <1>3, EndMoves DEF Length
    <2>. QED
      BY <2>1, SettlesWithin DEF Unearned, Returns, Provenances
  <1>4. ASSUME NEW point \in {"record", "unknown"}, Goto(w, point, Report(e))
        PROVE  Goes(w, point, Report(e))
    BY <1>4, GotoMoves
  <1>. QED
    BY <1>1, <1>2, <1>3, <1>4 DEF Send, NoFault

LEMMA RecordMoves ==
  ASSUME TypeInv, NEW w \in Worker, Record(w)
  PROVE  \E e \in Lab :
           /\ At(w, "record") /\ worker[w].job = Report(e)
           /\ Goes(w, "wait", Report(e)) \/ Goes(w, "unknown", Report(e))
           /\ dispatch' \in {dispatch, [dispatch EXCEPT ![e] = "dispatched"]}
  <1>. USE JobFacts DEF TypeInv
  <1>. DEFINE e == worker[w].job[1]
  <1>1. At(w, "record") /\ e \in Lab /\ worker[w].job = Report(e)
    BY DEF Record, At, HasJob, OnTheWay, Dispatching
  <1>2. ASSUME NEW point \in {"wait", "unknown"}, Goto(w, point, Report(e))
        PROVE  Goes(w, point, Report(e))
    BY <1>2, GotoMoves
  <1>. QED
    BY <1>1, <1>2 DEF Record

\* The answer of a command goes with the worker.
Answered(s, status) == [s EXCEPT !.at = "publish", !.saw = status]

LEMMA AnsweredFields ==
  ASSUME NEW s \in WorkerState, NEW status \in {"ok", "failed"}
  PROVE  /\ Answered(s, status) \in WorkerState
         /\ Answered(s, status).at = "publish" /\ Answered(s, status).job = s.job
         /\ Answered(s, status).saw = status
BY DEF WorkerState, Answered, Points

LEMMA WaitMoves ==
  ASSUME TypeInv, NEW w \in Worker, Wait(w)
  PROVE  \E e \in Lab :
           /\ At(w, "wait") /\ worker[w].job = Report(e)
           /\ \/ Settles(w, Unearned)
              \/ command[e] \in {"ok", "failed"} /\ Moved(w, Answered(worker[w], command[e]))
  <1>. USE JobFacts DEF TypeInv
  <1>. DEFINE e == worker[w].job[1]
  <1>1. At(w, "wait") /\ e \in Lab /\ worker[w].job = Report(e)
    BY DEF Wait, At, HasJob, OnTheWay, Dispatching
  <1>2. ASSUME Return(w, "error", 0) PROVE Settles(w, Unearned)
    BY <1>2, ReturnMoves DEF Settles, Length, Unearned, Returns
  <1>3. worker \in [Worker -> WorkerState]
    BY DEF TypeOK, WorkerState
  <1>4. ASSUME worker' = [worker EXCEPT ![w].at = "publish", ![w].saw = command[e]]
        PROVE  Moved(w, Answered(worker[w], command[e]))
    BY <1>3, <1>4 DEF Moved, Answered
  <1>. QED
    BY <1>1, <1>2, <1>4 DEF Wait

LEMMA GiveUpMoves ==
  ASSUME TypeInv, NEW w \in Worker, GiveUpDispatch(w)
  PROVE  At(w, "unknown") /\ Settles(w, Unearned)
  <1>. USE DEF TypeInv
  <1>1. \/ \E e : End(w, e, "dispatch_unknown", 1, 2)
        \/ \E e : End(w, e, "failed", 1, 1)
        \/ Return(w, "error", 0)
    BY Zenon DEF GiveUpDispatch, Unknown
  <1>2. ASSUME NEW e, End(w, e, "dispatch_unknown", 1, 2) PROVE Settles(w, Unearned)
    <2>1. Settles(w, {"dispatch_unknown", "error"})
      BY <1>2, EndMoves DEF Length
    <2>. QED
      BY <2>1, SettlesWithin DEF Unearned, Returns, Provenances
  <1>3. ASSUME NEW e, End(w, e, "failed", 1, 1) PROVE Settles(w, Unearned)
    <2>1. Settles(w, {"failed", "error"})
      BY <1>3, EndMoves DEF Length
    <2>. QED
      BY <2>1, SettlesWithin DEF Unearned, Returns, Provenances
  <1>4. ASSUME Return(w, "error", 0) PROVE Settles(w, Unearned)
    BY <1>4, ReturnMoves DEF Settles, Length, Unearned, Returns
  <1>. QED
    BY <1>1, <1>2, <1>3, <1>4 DEF GiveUpDispatch

LEMMA BeginMoves ==
  ASSUME TypeInv, NEW w \in Worker, NEW e \in Execution, Begin(w, e)
  PROVE  Goes(w, "publish", <<e, 1>>)
BY GotoMoves DEF TypeInv, Begin

LEMMA UnlinkMoves ==
  ASSUME TypeInv, NEW w \in Worker, UnlinkIntent(w)
  PROVE  \E e \in Lab :
           /\ At(w, "paired") /\ worker[w].job = Report(e)
           /\ Goes(w, "send", Report(e))
  <1>. USE JobFacts DEF TypeInv
  <1>1. /\ At(w, "paired") /\ worker[w].job[1] \in Lab
        /\ worker[w].job = Report(worker[w].job[1])
    BY DEF UnlinkIntent, At, HasJob, OnTheWay, Dispatching
  <1>. QED
    BY <1>1, GotoMoves DEF UnlinkIntent

-----------------------------------------------------------------------------
(* Types.                                                                  *)

Sound(w) == \E r \in WorkerState : Moved(w, r) /\ HasJob(r)

LEMMA GoesSound ==
  ASSUME TypeInv, NEW w \in Worker, NEW point \in Points \ {"settle"}, NEW j \in Job,
         Goes(w, point, j),
         point \in OnTheWay => j[1] \in Lab /\ j = Report(j[1])
  PROVE  Sound(w)
  <1>1. worker[w] \in WorkerState
    BY DEF TypeInv, TypeOK, WorkerState
  <1>. DEFINE r == Going(worker[w], point, j)
  <1>2. r \in WorkerState /\ r.at = point /\ r.job = j
    BY <1>1, GoingFields
  <1>. HIDE DEF r
  <1>3. HasJob(r)
    BY <1>2 DEF HasJob
  <1>4. Moved(w, r)
    BY DEF r, Goes
  <1>. QED
    BY <1>2, <1>3, <1>4 DEF Sound

LEMMA SettlesSound ==
  ASSUME TypeInv, NEW w \in Worker, NEW ends, ends \subseteq Returns, Settles(w, ends),
         ~At(w, "idle")
  PROVE  Sound(w)
  <1>1. worker[w] \in WorkerState /\ worker[w].job \in Job
    BY DEF TypeInv, TypeOK, WorkerState, HasJob, At
  <1>2. PICK end \in Returns, n \in 0..3 :
          n <= Length(worker[w].job[1]) /\ Moved(w, Settling(worker[w], end, n))
    BY DEF Settles, Settled, Length
  <1>. DEFINE r == Settling(worker[w], end, n)
  <1>4. r \in WorkerState /\ r.at = "settle" /\ r.job = worker[w].job /\ r.upto = n
    <2>1. worker[w] \in WorkerState
      BY <1>1
    <2>2. r \in WorkerState
      BY <2>1, SettlingFields
    <2>3. r.at = "settle"
      BY <2>1, SettlingFields
    <2>4. r.job = worker[w].job
      BY <2>1 DEF Settling, WorkerState
    <2>5. r.upto = n
      BY <2>1, SettlingFields
    <2>. QED
      BY <2>2, <2>3, <2>4, <2>5
  <1>. HIDE DEF r
  <1>5. HasJob(r)
    BY <1>1, <1>2, <1>4 DEF HasJob, OnTheWay, Dispatching
  <1>. QED
    BY <1>2, <1>4, <1>5 DEF Sound, r

LEMMA StepSound ==
  ASSUME TypeInv, NEW w \in Worker,
         Step(w) \/ CrashWorker(w) \/ \E e \in Execution : Begin(w, e)
  PROVE  Sound(w)
  <1>. USE JobFacts
  <1>0. /\ \A e \in Lab : Report(e) \in Job /\ Report(e)[1] = e
        /\ Unearned \subseteq Returns /\ {"succeeded", "error"} \subseteq Returns
    BY DEF Execution, Unearned, Returns, Provenances
  <1>1. CASE PublishJob(w)
    <2>1. PICK j \in Job : /\ At(w, "publish")
                           /\ Goes(w, "read", j) \/ Settles(w, Unearned)
      BY <1>1, PublishMoves
    <2>. QED
      BY <1>0, <2>1, GoesSound, SettlesSound DEF Points, OnTheWay, Dispatching, At
  <1>2. CASE ReadResult(w)
    <2>1. PICK e \in Execution, i \in 1..3 :
             /\ At(w, "read") /\ i \in 1..Length(e)
             /\ \/ Settles(w, Unearned)
                \/ Settles(w, {"succeeded", "error"})
                \/ e \in Lab /\ Goes(w, "read", Report(e))
                \/ e \in Lab /\ Goes(w, "dispatch", Report(e))
                \/ e \in Central /\ i < 3 /\ Goes(w, "publish", <<e, i + 1>>)
      BY <1>2, ReadMoves
    <2>2. CASE Settles(w, Unearned) \/ Settles(w, {"succeeded", "error"})
      BY <1>0, <2>1, <2>2, SettlesSound DEF At
    <2>3. CASE e \in Lab /\ Goes(w, "read", Report(e))
      BY <1>0, <2>3, GoesSound DEF Points, OnTheWay, Dispatching
    <2>4. CASE e \in Lab /\ Goes(w, "dispatch", Report(e))
      BY <1>0, <2>4, GoesSound DEF Points
    <2>5. CASE e \in Central /\ i < 3 /\ Goes(w, "publish", <<e, i + 1>>)
      <3>1. <<e, i + 1>> \in Job
        <4>1. e \notin Lab
          BY <2>5, SpoolAssumption
        <4>2. i + 1 \in 1..Length(e)
          BY <2>1, <2>5, <4>1
        <4>. QED
          BY <4>2
      <3>. QED
        BY <2>5, <3>1, GoesSound DEF Points, OnTheWay, Dispatching
    <2>. QED
      BY <2>1, <2>2, <2>3, <2>4, <2>5
  <1>3. CASE Dispatch(w)
    <2>1. PICK e \in Lab : /\ At(w, "dispatch")
                           /\ \/ Settles(w, Unearned)
                              \/ \E point \in {"wait", "unknown", "paired"} : Goes(w, point, Report(e))
      BY <1>3, DispatchMoves
    <2>. QED
      BY <1>0, <2>1, GoesSound, SettlesSound DEF Points, At
  <1>4. CASE UnlinkIntent(w)
    <2>1. PICK e \in Lab : Goes(w, "send", Report(e))
      BY <1>4, UnlinkMoves
    <2>. QED
      BY <1>0, <2>1, GoesSound DEF Points
  <1>5. CASE Send(w)
    <2>1. PICK e \in Lab : /\ At(w, "send")
                           /\ \/ Settles(w, Unearned)
                              \/ \E point \in {"record", "unknown"} : Goes(w, point, Report(e))
      BY <1>5, SendMoves
    <2>. QED
      BY <1>0, <2>1, GoesSound, SettlesSound DEF Points, At
  <1>6. CASE Record(w)
    <2>1. PICK e \in Lab : Goes(w, "wait", Report(e)) \/ Goes(w, "unknown", Report(e))
      BY <1>6, RecordMoves
    <2>. QED
      BY <1>0, <2>1, GoesSound DEF Points
  <1>7. CASE Wait(w)
    <2>1. PICK e \in Lab : /\ At(w, "wait") /\ worker[w].job = Report(e)
                           /\ \/ Settles(w, Unearned)
                              \/ /\ command[e] \in {"ok", "failed"}
                                 /\ Moved(w, Answered(worker[w], command[e]))
      BY <1>7, WaitMoves
    <2>2. CASE Settles(w, Unearned)
      BY <1>0, <2>1, <2>2, SettlesSound DEF At
    <2>3. CASE command[e] \in {"ok", "failed"} /\ Moved(w, Answered(worker[w], command[e]))
      <3>1. worker[w] \in WorkerState
        BY DEF TypeInv, TypeOK, WorkerState
      <3>. DEFINE r == Answered(worker[w], command[e])
      <3>2. r \in WorkerState /\ r.at = "publish" /\ r.job = Report(e)
        BY <2>1, <2>3, <3>1, AnsweredFields
      <3>. HIDE DEF r
      <3>3. HasJob(r)
        BY <1>0, <3>2 DEF HasJob, OnTheWay, Dispatching
      <3>. QED
        BY <2>3, <3>2, <3>3 DEF Sound, r
    <2>. QED
      BY <2>1, <2>2, <2>3
  <1>8. CASE GiveUpDispatch(w)
    BY <1>0, <1>8, GiveUpMoves, SettlesSound DEF At
  <1>9. CASE Settle(w) \/ CrashWorker(w)
    <2>1. Moved(w, Idle)
      BY <1>9 DEF Settle, CrashWorker, Moved
    <2>2. Idle \in WorkerState /\ HasJob(Idle)
      BY DEF Idle, WorkerState, Points, HasJob, OnTheWay, Dispatching
    <2>. QED
      BY <2>1, <2>2 DEF Sound
  <1>10. ASSUME NEW e \in Execution, Begin(w, e) PROVE Sound(w)
    <2>1. Goes(w, "publish", <<e, 1>>)
      BY <1>10, BeginMoves
    <2>2. <<e, 1>> \in Job
      BY DEF Length
    <2>. QED
      BY <2>1, <2>2, GoesSound DEF Points, OnTheWay, Dispatching
  <1>. QED
    BY <1>1, <1>2, <1>3, <1>4, <1>5, <1>6, <1>7, <1>8, <1>9, <1>10 DEF Step

LEMMA SoundTyped ==
  ASSUME TypeInv, NEW w \in Worker, Sound(w)
  PROVE  worker' \in [Worker -> WorkerState] /\ \A v \in Worker : HasJob(worker'[v])
  <1>1. PICK r \in WorkerState : worker' = [worker EXCEPT ![w] = r] /\ HasJob(r)
    BY DEF Sound, Moved
  <1>2. worker \in [Worker -> WorkerState]
    BY DEF TypeInv, TypeOK, WorkerState
  <1>. QED
    BY <1>1, <1>2 DEF TypeInv

LEMMA FaultTyped ==
  ASSUME TypeOK, scenario' = scenario \/ Fault
  PROVE  scenario' \in [approved: SUBSET Execution, workers: SUBSET Worker, faults: Nat]
  <1>. DEFINE Scenarios == [approved: SUBSET Execution, workers: SUBSET Worker, faults: Nat]
  <1>1. scenario \in Scenarios
    BY DEF TypeOK
  <1>2. ASSUME Fault PROVE scenario' \in Scenarios
    <2>1. scenario.faults - 1 \in Nat
      BY <1>1, <1>2 DEF Fault
    <2>2. \A n \in Nat : [scenario EXCEPT !.faults = n] \in Scenarios
      BY <1>1
    <2>3. scenario' = [scenario EXCEPT !.faults = scenario.faults - 1]
      BY <1>2 DEF Fault
    <2>. QED
      BY <2>1, <2>2, <2>3
  <1>. QED
    BY <1>1, <1>2

LEMMA WorkerTypeStep ==
  ASSUME TypeInv, NEW w \in Worker,
         Step(w) \/ CrashWorker(w) \/ \E e \in Execution : Begin(w, e)
  PROVE  TypeInv'
  <1>0. worker' \in [Worker -> WorkerState] /\ \A v \in Worker : HasJob(worker'[v])
    BY StepSound, SoundTyped
  <1>. USE <1>0 DEF TypeInv
  <1>1. CASE PublishJob(w)
    <2>1. PICK j \in Job : /\ scenario' = scenario \/ Fault
                           /\ job' \in {job, job \cup {j}}
                           /\ context' \in {context, [context EXCEPT ![j[1]] = worker[w].saw]}
      BY <1>1, PublishMoves, Zenon
    <2>2. worker[w].saw \in {"none", "ok", "failed"}
      BY DEF TypeOK
    <2>3. context' \in [Lab -> {"none", "ok", "failed"}]
      BY <2>1, <2>2 DEF TypeOK
    <2>4. scenario' \in [approved: SUBSET Execution, workers: SUBSET Worker, faults: Nat]
      BY <2>1, FaultTyped
    <2>. QED
      BY <1>1, <2>1, <2>3, <2>4
        DEF PublishJob, TypeOK, WorkerState, ssm, table, barrier
  <1>2. CASE ReadResult(w) \/ Wait(w) \/ GiveUpDispatch(w)
    <2>1. UNCHANGED <<spool, ssm, table, barrier, agent, scenario>>
      BY <1>2 DEF ReadResult, Wait, GiveUpDispatch
    <2>. QED
      BY <2>1 DEF TypeOK, WorkerState, spool, ssm, table, barrier
  <1>3. CASE Dispatch(w)
    <2>1. PICK e \in Lab : /\ scenario' = scenario \/ Fault
                           /\ dispatch' \in {dispatch, [dispatch EXCEPT ![e] = "intent"]}
                           /\ paired' \in {paired, paired \cup {e}}
      BY <1>3, DispatchMoves, Zenon
    <2>2. scenario' \in [approved: SUBSET Execution, workers: SUBSET Worker, faults: Nat]
      BY <2>1, FaultTyped
    <2>. QED
      BY <1>3, <2>1, <2>2 DEF Dispatch, TypeOK, WorkerState, ssm, table, barrier
  <1>4. CASE UnlinkIntent(w)
    BY <1>4 DEF UnlinkIntent, TypeOK, WorkerState, ssm, table, barrier
  <1>5. CASE Send(w)
    <2>1. PICK e \in Lab :
             /\ scenario' = scenario \/ Fault
             /\ sent' \in {sent, [sent EXCEPT ![e] = @ + 1]}
             /\ command' \in {command, [command EXCEPT ![e] = IF @ = "none" THEN "running" ELSE @]}
      BY <1>5, SendMoves, Zenon DEF ssm
    <2>2. scenario' \in [approved: SUBSET Execution, workers: SUBSET Worker, faults: Nat]
      BY <2>1, FaultTyped
    <2>3. sent' \in [Lab -> Nat]
      BY <2>1 DEF TypeOK
    <2>4. command' \in [Lab -> {"none", "running", "ok", "failed"}]
      BY <2>1 DEF TypeOK
    <2>. QED
      BY <1>5, <2>2, <2>3, <2>4 DEF Send, TypeOK, WorkerState, spool, table, barrier
  <1>6. CASE Record(w)
    <2>1. PICK e \in Lab : dispatch' \in {dispatch, [dispatch EXCEPT ![e] = "dispatched"]}
      BY <1>6, RecordMoves
    <2>. QED
      BY <1>6, <2>1 DEF Record, TypeOK, WorkerState, ssm, table, barrier
  <1>7. CASE Settle(w)
    <2>. DEFINE e == worker[w].job[1]
                end == worker[w].end
    <2>1. owner' \in [Execution -> Worker \cup {None}]
      BY <1>7 DEF Settle, TypeOK
    <2>2. /\ end \in Returns \cup {None} /\ worker[w].upto \in 0..3
          /\ worker[w].upto <= Length(e)
      BY <1>7 DEF TypeOK, HasJob, Settle, At
    <2>3. outcome' = outcome \/ \E s \in Provenances \cup {"exhausted"}, n \in 0..3 :
             n <= Length(e) /\ outcome' = [outcome EXCEPT ![e] = [status |-> s, upto |-> n]]
      <3>1. 0 <= Length(e)
        BY DEF Length
      <3>2. \/ outcome' = outcome
            \/ end \in Provenances
               /\ outcome' = [outcome EXCEPT ![e] = [status |-> end, upto |-> worker[w].upto]]
            \/ outcome' = [outcome EXCEPT ![e] = [status |-> "exhausted", upto |-> 0]]
        BY <1>7, Zenon DEF Settle
      <3>3. CASE /\ end \in Provenances
                 /\ outcome' = [outcome EXCEPT ![e] = [status |-> end, upto |-> worker[w].upto]]
        <4>. DEFINE s == end
                    n == worker[w].upto
        <4>1. s \in Provenances \cup {"exhausted"} /\ n \in 0..3 /\ n <= Length(e)
          BY <2>2, <3>3
        <4>2. outcome' = [outcome EXCEPT ![e] = [status |-> s, upto |-> n]]
          BY <3>3
        <4>. HIDE DEF s, n, e, end
        <4>. QED
          BY <4>1, <4>2
      <3>4. CASE outcome' = [outcome EXCEPT ![e] = [status |-> "exhausted", upto |-> 0]]
        <4>1. "exhausted" \in Provenances \cup {"exhausted"} /\ 0 \in 0..3
          OBVIOUS
        <4>. QED
          BY <3>1, <3>4, <4>1, Zenon
      <3>. QED
        BY <3>2, <3>3, <3>4
    <2>4. /\ outcome' \in [Execution -> [status: Provenances \cup {"open", "exhausted"}, upto: 0..3]]
          /\ \A f \in Execution : outcome'[f].upto <= Length(f)
      <3>1. CASE outcome' = outcome
        BY <3>1 DEF TypeOK
      <3>2. ASSUME NEW s \in Provenances \cup {"exhausted"}, NEW n \in 0..3, n <= Length(e),
                   outcome' = [outcome EXCEPT ![e] = [status |-> s, upto |-> n]]
            PROVE  /\ outcome' \in [Execution -> [status: Provenances \cup {"open", "exhausted"},
                                                  upto: 0..3]]
                   /\ \A f \in Execution : outcome'[f].upto <= Length(f)
        <4>. DEFINE r == [status |-> s, upto |-> n]
        <4>1. r \in [status: Provenances \cup {"open", "exhausted"}, upto: 0..3] /\ r.upto = n
          OBVIOUS
        <4>2. outcome' = [outcome EXCEPT ![e] = r]
          BY <3>2, Zenon
        <4>3. /\ outcome \in [Execution -> [status: Provenances \cup {"open", "exhausted"}, upto: 0..3]]
              /\ \A f \in Execution : outcome[f].upto <= Length(f)
          BY DEF TypeOK
        <4>. HIDE DEF r, e, TypeInv
        <4>. QED
          BY <3>2, <4>1, <4>2, <4>3
      <3>. QED
        BY <2>3, <3>1, <3>2
    <2>. QED
      BY <1>7, <2>1, <2>4 DEF Settle, TypeOK, WorkerState, spool, ssm, barrier
  <1>8. CASE CrashWorker(w)
    <2>1. scenario' \in [approved: SUBSET Execution, workers: SUBSET Worker, faults: Nat]
      BY <1>8, FaultTyped DEF CrashWorker
    <2>. QED
      BY <1>8, <2>1 DEF CrashWorker, TypeOK, WorkerState, spool, ssm, table, barrier
  <1>9. ASSUME NEW e \in Execution, Begin(w, e) PROVE TypeInv'
    <2>1. attempts' \in [Execution -> 0..MaxAttempts]
      BY <1>9, SpoolAssumption DEF Begin, TypeOK
    <2>2. owner' \in [Execution -> Worker \cup {None}]
      BY <1>9 DEF Begin, TypeOK
    <2>. QED
      BY <1>9, <2>1, <2>2 DEF Begin, TypeOK, WorkerState, spool, ssm, barrier
  <1>. QED
    BY <1>1, <1>2, <1>3, <1>4, <1>5, <1>6, <1>7, <1>8, <1>9 DEF Step

LEMMA TypeStep ==
  ASSUME TypeInv, [Next]_vars
  PROVE  TypeInv'
  <1>. USE DEF TypeInv
  <1>1. ASSUME NEW w \in Worker, Step(w) \/ CrashWorker(w) \/ \E e \in Execution : Begin(w, e)
        PROVE  TypeInv'
    BY <1>1, WorkerTypeStep
  <1>2. ASSUME NEW e \in Execution, LeaseExpires(e) PROVE TypeInv'
    <2>1. scenario' \in [approved: SUBSET Execution, workers: SUBSET Worker, faults: Nat]
      BY <1>2, FaultTyped DEF LeaseExpires, NoFault
    <2>. QED
      BY <1>2, <2>1 DEF LeaseExpires, TypeOK, spool, ssm, barrier
  <1>3. ASSUME NEW e \in Lab, CommandEnds(e) PROVE TypeInv'
    BY <1>3 DEF CommandEnds, TypeOK, spool, table, barrier
  <1>4. CASE RecoverResults
    BY <1>4 DEF RecoverResults, Recovered, TypeOK, ssm, table, barrier
  <1>5. CASE TakeJob
    <2>1. PICK i \in DOMAIN Order : /\ Unanswered(Order[i])
                                    /\ agent' = [at |-> "codex", job |-> Order[i], out |-> "none"]
      BY <1>5 DEF TakeJob
    <2>2. Order[i] \in Job
      BY <2>1 DEF Unanswered, TypeOK
    <2>. QED
      BY <1>5, <2>1, <2>2 DEF TakeJob, TypeOK, spool, ssm, table, barrier
  <1>6. CASE RunCodex
    <2>1. PICK out \in Answers(agent.job) : /\ agent' = [agent EXCEPT !.at = "publish", !.out = out]
                                            /\ bundle' = Bundled(agent.job, out)
      BY <1>6 DEF RunCodex
    <2>2. out \in {"ok", "failed", "rejected"}
      BY DEF Answers, Verdicts
    <2>3. bundle' \subseteq Central
      BY <2>1 DEF Bundled, TypeOK
    <2>4. agent.job \in Job
      BY <1>6 DEF RunCodex
    <2>. QED
      BY <1>6, <2>1, <2>2, <2>3, <2>4 DEF RunCodex, TypeOK, ssm, table, barrier
  <1>7. CASE LinkResult
    <2>1. scenario' \in [approved: SUBSET Execution, workers: SUBSET Worker, faults: Nat]
      BY <1>7, FaultTyped DEF LinkResult, NoFault
    <2>2. agent.job \in Job /\ agent.out \in {"none", "ok", "failed", "rejected"}
      BY <1>7 DEF LinkResult, TypeOK
    <2>3. \/ UNCHANGED <<result, linked>> /\ agent' = AgentIdle
          \/ \E out \in {"none", "ok", "failed", "rejected"} :
               /\ result' = [result EXCEPT ![agent.job] = out]
               /\ linked' = linked \cup {agent.job}
               /\ agent' = [agent EXCEPT !.at = "linked", !.out = out]
      BY <1>7, <2>2 DEF LinkResult
    <2>4. /\ agent' \in [at: {"idle", "codex", "publish", "linked"}, job: Job \cup {None},
                          out: {"none", "ok", "failed", "rejected"}]
          /\ agent'.at # "idle" => agent'.job \in Job
      <3>. DEFINE Agents == [at: {"idle", "codex", "publish", "linked"}, job: Job \cup {None},
                             out: {"none", "ok", "failed", "rejected"}]
      <3>1. CASE agent' = AgentIdle
        BY <3>1 DEF AgentIdle
      <3>2. ASSUME NEW out \in {"none", "ok", "failed", "rejected"},
                   agent' = [agent EXCEPT !.at = "linked", !.out = out]
            PROVE  agent' \in Agents /\ agent'.job \in Job
        BY <2>2, <3>2 DEF TypeOK
      <3>. QED
        BY <2>3, <3>1, <3>2 DEF AgentIdle
    <2>5. result' \in [Job -> {"none", "ok", "failed", "rejected"}] /\ linked' \subseteq Job
      BY <2>2, <2>3 DEF TypeOK
    <2>. QED
      BY <1>7, <2>1, <2>4, <2>5 DEF LinkResult, TypeOK, ssm, table, barrier
  <1>8. CASE UnlinkResult
    BY <1>8 DEF UnlinkResult, AgentIdle, TypeOK, ssm, table, barrier
  <1>9. CASE CrashAgent
    <2>1. scenario' \in [approved: SUBSET Execution, workers: SUBSET Worker, faults: Nat]
      BY <1>9, FaultTyped DEF CrashAgent
    <2>. QED
      BY <1>9, <2>1 DEF CrashAgent, AgentIdle, TypeOK, spool, ssm, table, barrier
  <1>10. ASSUME NEW e \in Execution, Bar(e) PROVE TypeInv'
    <2>1. outcome[e].upto \in 0..3 /\ outcome[e].upto <= Length(e)
      BY DEF TypeOK
    <2>2. BarrierIds(e) \subseteq Job
      BY <2>1, JobFacts DEF BarrierIds, Chain
    <2>3. barred' \subseteq Job
      BY <1>10, <2>2 DEF Bar, TypeOK
    <2>. QED
      BY <1>10, <2>3 DEF Bar, TypeOK, spool, ssm, table
  <1>11. ASSUME NEW e \in Execution, AgentReclaims(e) PROVE TypeInv'
    <2>1. abarred' \subseteq Job
      BY <1>11 DEF AgentReclaims, TypeOK
    <2>. QED
      BY <1>11, <2>1 DEF AgentReclaims, TypeOK, ssm, table
  <1>12. ASSUME NEW e \in Execution, ControllerReclaims(e) PROVE TypeInv'
    BY <1>12 DEF ControllerReclaims, JobsLeft, TypeOK, ssm, table, barrier
  <1>13. CASE UNCHANGED vars
    BY <1>13 DEF vars, spool, ssm, table, barrier, TypeOK
  <1>. QED
    BY <1>1, <1>2, <1>3, <1>4, <1>5, <1>6, <1>7, <1>8, <1>9, <1>10, <1>11, <1>12, <1>13
      DEF Next, AgentStep
-----------------------------------------------------------------------------
(* The command is sent once.                                               *)

LEMMA MovedAt ==
  ASSUME TypeInv, NEW w \in Worker, NEW r, Moved(w, r)
  PROVE  worker'[w] = r /\ \A v \in Worker \ {w} : worker'[v] = worker[v]
  <1>1. worker \in [Worker -> WorkerState]
    BY DEF TypeInv, TypeOK, WorkerState
  <1>. QED
    BY <1>1 DEF Moved

LEMMA GoesAt ==
  ASSUME TypeInv, NEW w \in Worker, NEW point \in Points, NEW j \in Job, Goes(w, point, j)
  PROVE  /\ worker'[w].at = point /\ worker'[w].job = j /\ worker'[w].saw = worker[w].saw
         /\ \A v \in Worker \ {w} : worker'[v] = worker[v]
  <1>1. worker[w] \in WorkerState
    BY DEF TypeInv, TypeOK, WorkerState
  <1>2. worker'[w] = Going(worker[w], point, j)
        /\ \A v \in Worker \ {w} : worker'[v] = worker[v]
    BY MovedAt DEF Goes
  <1>. QED
    BY <1>1, <1>2, GoingFields

LEMMA SettlesAt ==
  ASSUME TypeInv, NEW w \in Worker, NEW ends, ends \subseteq Returns, Settles(w, ends)
  PROVE  /\ worker'[w].at = "settle" /\ worker'[w].job = worker[w].job /\ worker'[w].end \in ends
         /\ \A v \in Worker \ {w} : worker'[v] = worker[v]
  <1>1. worker[w] \in WorkerState
    BY DEF TypeInv, TypeOK, WorkerState
  <1>2. PICK end \in ends, n \in 0..Length(worker[w].job[1]) :
          Moved(w, Settling(worker[w], end, n))
    BY DEF Settles, Settled
  <1>3. worker'[w] = Settling(worker[w], end, n)
        /\ \A v \in Worker \ {w} : worker'[v] = worker[v]
    BY <1>2, MovedAt
  <1>4. \A s \in WorkerState : /\ Settling(s, end, n).at = "settle"
                               /\ Settling(s, end, n).job = s.job
                               /\ Settling(s, end, n).end = end
    BY DEF WorkerState, Settling
  <1>. QED
    BY <1>1, <1>3, <1>4

\* A worker that is not, or no longer, on its way to the command.
LetsGo(w) == /\ worker'[w].at \notin Dispatching
             /\ \A v \in Worker \ {w} : worker'[v] = worker[v]

LEMMA LetGoKeeps ==
  ASSUME TypeInv, SendInv, NEW w \in Worker, LetsGo(w), UNCHANGED <<dispatch, sent, barrier>>
  PROVE  SendInv'
  <1>1. \A v \in Worker, j \in Job :
           Holds(v, j)' => v # w /\ Holds(v, j) /\ worker'[v] = worker[v]
    BY DEF LetsGo, Holds
  <1>2. \A e \in Lab : Report(e) \in Job
    BY JobFacts DEF Execution
  <1>. QED
    BY <1>1, <1>2 DEF SendInv, SentOnce, barrier

\* One that stays with, or takes, the lock of a report.
LEMMA HoldKeeps ==
  ASSUME TypeInv, SendInv, NEW w \in Worker, NEW e \in Lab,
         NEW point \in {"paired", "send", "record", "wait"}, Goes(w, point, Report(e)),
         \A v \in Worker \ {w} : ~Holds(v, Report(e)),
         Report(e) \notin barred, UNCHANGED barrier,
         \A f \in Lab \ {e} : dispatch'[f] = dispatch[f] /\ sent'[f] = sent[f],
         dispatch'[e] # "none", sent'[e] \in Nat, sent'[e] <= 1,
         point \in {"paired", "send"} => dispatch'[e] = "intent" /\ sent'[e] = 0,
         point = "record" => dispatch'[e] = "intent"
  PROVE  SendInv'
  <1>1. /\ \A f \in Lab : Report(f) \in Job
        /\ \A f \in Lab : Report(f) = Report(e) => f = e
    BY JobFacts DEF Execution
  <1>2. /\ worker'[w].at = point /\ worker'[w].job = Report(e)
        /\ \A v \in Worker \ {w} : worker'[v] = worker[v]
    BY <1>1, GoesAt DEF Points
  <1>3. \A v \in Worker, j \in Job : Holds(v, j)' =>
           \/ v = w /\ j = Report(e) /\ worker'[v].at = point
           \/ v # w /\ j # Report(e) /\ Holds(v, j) /\ worker'[v] = worker[v]
    BY <1>2 DEF Holds
  <1>4. \A j \in Job : \A u, v \in Worker : Holds(u, j)' /\ Holds(v, j)' => u = v
    BY <1>3 DEF SendInv
  <1>5. \A j \in Job : \A v \in Worker : Holds(v, j)' => j \notin barred'
    BY <1>3 DEF SendInv, barrier
  <1>6. \A f \in Lab : \A v \in Worker : Holds(v, Report(f))' =>
          /\ worker'[v].at \in {"paired", "send"} => dispatch'[f] = "intent" /\ sent'[f] = 0
          /\ worker'[v].at = "record" => dispatch'[f] = "intent"
    <2>. SUFFICES ASSUME NEW f \in Lab, NEW v \in Worker, Holds(v, Report(f))'
                  PROVE  /\ worker'[v].at \in {"paired", "send"} =>
                              dispatch'[f] = "intent" /\ sent'[f] = 0
                         /\ worker'[v].at = "record" => dispatch'[f] = "intent"
      OBVIOUS
    <2>1. CASE f = e
      BY <1>1, <1>3, <2>1
    <2>2. CASE f # e
      <3>1. Holds(v, Report(f)) /\ worker'[v] = worker[v]
        BY <1>1, <1>3, <2>2
      <3>. QED
        BY <2>2, <3>1 DEF SendInv
    <2>. QED
      BY <2>1, <2>2
  <1>7. \A f \in Lab : dispatch'[f] = "none" => sent'[f] = 0 \/ Report(f) \in barred'
    BY DEF SendInv, barrier
  <1>8. SentOnce'
    BY DEF SendInv, SentOnce
  <1>. QED
    BY <1>4, <1>5, <1>6, <1>7, <1>8 DEF SendInv, barrier

LEMMA SettlesLetsGo ==
  ASSUME TypeInv, NEW w \in Worker, NEW ends, ends \subseteq Returns, Settles(w, ends)
  PROVE  LetsGo(w)
BY SettlesAt DEF LetsGo, Dispatching

LEMMA GoesLetsGo ==
  ASSUME TypeInv, NEW w \in Worker, NEW point \in Points \ Dispatching, NEW j \in Job,
         Goes(w, point, j)
  PROVE  LetsGo(w)
BY GoesAt DEF LetsGo

LEMMA WorkerSendStep ==
  ASSUME TypeInv, SendInv, NEW w \in Worker,
         Step(w) \/ CrashWorker(w) \/ \E e \in Execution : Begin(w, e)
  PROVE  SendInv'
  <1>0. /\ \A e \in Lab : Report(e) \in Job
        /\ Unearned \subseteq Returns /\ {"succeeded", "error"} \subseteq Returns
        /\ \A point \in {"publish", "read", "dispatch", "unknown"} : point \in Points \ Dispatching
        /\ \A e \in Lab : dispatch[e] \in {"none", "intent", "dispatched"} /\ sent[e] \in Nat
    BY JobFacts DEF Execution, Unearned, Returns, Provenances, Points, Dispatching, TypeInv, TypeOK
  <1>1. CASE PublishJob(w)
    <2>1. UNCHANGED <<dispatch, sent, barrier>>
      BY <1>1 DEF PublishJob, ssm
    <2>2. PICK j \in Job : Goes(w, "read", j) \/ Settles(w, Unearned)
      BY <1>1, PublishMoves
    <2>. QED
      BY <1>0, <2>1, <2>2, GoesLetsGo, SettlesLetsGo, LetGoKeeps
  <1>2. CASE ReadResult(w)
    <2>1. UNCHANGED <<dispatch, sent, barrier>>
      BY <1>2 DEF ReadResult, spool, ssm
    <2>3. PICK e \in Execution, i \in 1..3 :
             \/ Settles(w, Unearned)
             \/ Settles(w, {"succeeded", "error"})
             \/ e \in Lab /\ Goes(w, "read", Report(e))
             \/ e \in Lab /\ Goes(w, "dispatch", Report(e))
             \/ e \in Central /\ i \in 1..Length(e) /\ i < 3 /\ Goes(w, "publish", <<e, i + 1>>)
      BY <1>2, ReadMoves
    <2>4. CASE Settles(w, Unearned) \/ Settles(w, {"succeeded", "error"})
      BY <1>0, <2>1, <2>4, SettlesLetsGo, LetGoKeeps
    <2>5. CASE \E point \in {"read", "dispatch"} : e \in Lab /\ Goes(w, point, Report(e))
      BY <1>0, <2>1, <2>5, GoesLetsGo, LetGoKeeps
    <2>6. CASE e \in Central /\ i \in 1..Length(e) /\ i < 3 /\ Goes(w, "publish", <<e, i + 1>>)
      <3>1. e \notin Lab /\ i + 1 \in 1..Length(e)
        BY <2>6, SpoolAssumption DEF Length
      <3>2. <<e, i + 1>> \in Job
        BY <3>1, JobFacts
      <3>. QED
        BY <1>0, <2>1, <2>6, <3>2, GoesLetsGo, LetGoKeeps
    <2>. QED
      BY <2>3, <2>4, <2>5, <2>6
  <1>3. CASE Dispatch(w)
    <2>1. UNCHANGED <<sent, barrier>>
      BY <1>3 DEF Dispatch, ssm
    <2>2. PICK e \in Lab :
             /\ worker[w].job = Report(e) /\ ~Locked(Report(e))
             /\ \/ Settles(w, Unearned) /\ UNCHANGED dispatch
                \/ /\ Report(e) \notin barred /\ dispatch[e] # "none"
                   /\ Goes(w, "wait", Report(e)) \/ Goes(w, "unknown", Report(e))
                   /\ UNCHANGED dispatch
                \/ /\ Report(e) \notin barred /\ dispatch[e] = "none"
                   /\ Goes(w, "paired", Report(e))
                   /\ dispatch' = [dispatch EXCEPT ![e] = "intent"]
      BY <1>3, DispatchMoves
    <2>3. \A v \in Worker \ {w} : ~Holds(v, Report(e))
      BY <2>2 DEF Locked, Holds
    <2>4. CASE Settles(w, Unearned) /\ UNCHANGED dispatch
      BY <1>0, <2>1, <2>4, SettlesLetsGo, LetGoKeeps
    <2>5. CASE UNCHANGED dispatch /\ Goes(w, "unknown", Report(e))
      BY <1>0, <2>1, <2>5, GoesLetsGo, LetGoKeeps
    <2>6. CASE /\ Report(e) \notin barred /\ dispatch[e] # "none" /\ UNCHANGED dispatch
               /\ Goes(w, "wait", Report(e))
      <3>1. sent[e] <= 1
        BY DEF SendInv, SentOnce
      <3>. QED
        BY <1>0, <2>1, <2>3, <2>6, <3>1, HoldKeeps
    <2>7. CASE /\ Report(e) \notin barred /\ dispatch[e] = "none" /\ Goes(w, "paired", Report(e))
               /\ dispatch' = [dispatch EXCEPT ![e] = "intent"]
      <3>1. sent[e] = 0
        BY <2>7 DEF SendInv
      <3>2. dispatch'[e] = "intent" /\ \A f \in Lab \ {e} : dispatch'[f] = dispatch[f]
        BY <2>7 DEF TypeInv, TypeOK
      <3>. QED
        BY <1>0, <2>1, <2>3, <2>7, <3>1, <3>2, HoldKeeps
    <2>. QED
      BY <2>2, <2>4, <2>5, <2>6, <2>7
  <1>4. CASE UnlinkIntent(w)
    <2>1. UNCHANGED <<dispatch, sent, barrier>>
      BY <1>4 DEF UnlinkIntent, ssm
    <2>2. PICK e \in Lab : /\ At(w, "paired") /\ worker[w].job = Report(e)
                           /\ Goes(w, "send", Report(e))
      BY <1>4, UnlinkMoves
    <2>3. Holds(w, Report(e))
      BY <2>2 DEF Holds, At, Dispatching
    <2>4. /\ \A v \in Worker \ {w} : ~Holds(v, Report(e))
          /\ Report(e) \notin barred /\ dispatch[e] = "intent" /\ sent[e] = 0
      BY <1>0, <2>2, <2>3 DEF SendInv, At
    <2>. QED
      BY <1>0, <2>1, <2>2, <2>4, HoldKeeps
  <1>5. CASE Send(w)
    <2>1. UNCHANGED <<dispatch, barrier>>
      BY <1>5 DEF Send, spool
    <2>2. PICK e \in Lab :
             /\ At(w, "send") /\ worker[w].job = Report(e)
             /\ \/ Settles(w, Unearned) /\ UNCHANGED sent
                \/ Goes(w, "unknown", Report(e)) /\ UNCHANGED sent
                \/ /\ Goes(w, "record", Report(e)) \/ Goes(w, "unknown", Report(e))
                   /\ sent' = [sent EXCEPT ![e] = @ + 1]
      BY <1>5, SendMoves DEF ssm
    <2>3. Holds(w, Report(e))
      BY <2>2 DEF Holds, At, Dispatching
    <2>4. /\ \A v \in Worker \ {w} : ~Holds(v, Report(e))
          /\ Report(e) \notin barred /\ dispatch[e] = "intent" /\ sent[e] = 0
      BY <1>0, <2>2, <2>3 DEF SendInv, At
    <2>5. CASE UNCHANGED sent /\ (Settles(w, Unearned) \/ Goes(w, "unknown", Report(e)))
      BY <1>0, <2>1, <2>5, SettlesLetsGo, GoesLetsGo, LetGoKeeps
    <2>6. CASE /\ Goes(w, "record", Report(e)) \/ Goes(w, "unknown", Report(e))
               /\ sent' = [sent EXCEPT ![e] = @ + 1]
      <3>1. sent'[e] = 1 /\ \A f \in Lab \ {e} : sent'[f] = sent[f]
        BY <2>4, <2>6 DEF TypeInv, TypeOK
      <3>2. CASE Goes(w, "record", Report(e))
        BY <1>0, <2>1, <2>4, <3>1, <3>2, HoldKeeps
      <3>3. CASE Goes(w, "unknown", Report(e))
        <4>1. LetsGo(w)
          BY <1>0, <3>3, GoesLetsGo
        <4>2. \A v \in Worker, j \in Job :
                 Holds(v, j)' => v # w /\ j # Report(e) /\ Holds(v, j) /\ worker'[v] = worker[v]
          BY <2>4, <4>1 DEF LetsGo, Holds
        <4>3. \A f \in Lab : f # e \/ dispatch'[f] # "none"
          BY <2>1, <2>4
        <4>. QED
          BY <1>0, <2>1, <2>4, <3>1, <4>2, <4>3 DEF SendInv, SentOnce, barrier
      <3>. QED
        BY <2>6, <3>2, <3>3
    <2>. QED
      BY <2>2, <2>5, <2>6
  <1>6. CASE Record(w)
    <2>1. UNCHANGED <<sent, barrier>>
      BY <1>6 DEF Record, ssm
    <2>2. PICK e \in Lab :
             /\ At(w, "record") /\ worker[w].job = Report(e)
             /\ Goes(w, "wait", Report(e)) \/ Goes(w, "unknown", Report(e))
             /\ dispatch' \in {dispatch, [dispatch EXCEPT ![e] = "dispatched"]}
      BY <1>6, RecordMoves
    <2>3. Holds(w, Report(e))
      BY <2>2 DEF Holds, At, Dispatching
    <2>4. /\ \A v \in Worker \ {w} : ~Holds(v, Report(e))
          /\ Report(e) \notin barred /\ dispatch[e] = "intent" /\ sent[e] <= 1
      BY <1>0, <2>2, <2>3 DEF SendInv, SentOnce, At
    <2>5. dispatch'[e] # "none" /\ \A f \in Lab \ {e} : dispatch'[f] = dispatch[f]
      BY <2>2, <2>4 DEF TypeInv, TypeOK
    <2>6. CASE Goes(w, "wait", Report(e))
      BY <1>0, <2>1, <2>4, <2>5, <2>6, HoldKeeps
    <2>7. CASE Goes(w, "unknown", Report(e))
      <3>1. LetsGo(w)
        BY <1>0, <2>7, GoesLetsGo
      <3>2. \A v \in Worker, j \in Job :
               Holds(v, j)' => v # w /\ j # Report(e) /\ Holds(v, j) /\ worker'[v] = worker[v]
        BY <2>4, <3>1 DEF LetsGo, Holds
      <3>. QED
        BY <1>0, <2>1, <2>4, <2>5, <3>2 DEF SendInv, SentOnce, barrier
    <2>. QED
      BY <2>2, <2>6, <2>7
  <1>7. CASE Wait(w)
    <2>1. UNCHANGED <<dispatch, sent, barrier>>
      BY <1>7 DEF Wait, spool, ssm
    <2>2. PICK e \in Lab : \/ Settles(w, Unearned)
                           \/ /\ command[e] \in {"ok", "failed"}
                              /\ Moved(w, Answered(worker[w], command[e]))
      BY <1>7, WaitMoves
    <2>3. CASE Settles(w, Unearned)
      BY <1>0, <2>1, <2>3, SettlesLetsGo, LetGoKeeps
    <2>4. CASE command[e] \in {"ok", "failed"} /\ Moved(w, Answered(worker[w], command[e]))
      <3>1. worker[w] \in WorkerState
        BY DEF TypeInv, TypeOK, WorkerState
      <3>2. LetsGo(w)
        BY <2>4, <3>1, MovedAt, AnsweredFields DEF LetsGo, Dispatching
      <3>. QED
        BY <2>1, <3>2, LetGoKeeps
    <2>. QED
      BY <2>2, <2>3, <2>4
  <1>8. CASE GiveUpDispatch(w)
    <2>1. UNCHANGED <<dispatch, sent, barrier>>
      BY <1>8 DEF GiveUpDispatch, spool, ssm
    <2>. QED
      BY <1>0, <1>8, <2>1, GiveUpMoves, SettlesLetsGo, LetGoKeeps
  <1>9. CASE Settle(w) \/ CrashWorker(w)
    <2>1. Moved(w, Idle) /\ UNCHANGED <<dispatch, sent, barrier>>
      BY <1>9 DEF Settle, CrashWorker, Moved, spool, ssm
    <2>2. LetsGo(w)
      BY <2>1, MovedAt DEF LetsGo, Idle, Dispatching
    <2>. QED
      BY <2>1, <2>2, LetGoKeeps
  <1>10. ASSUME NEW e \in Execution, Begin(w, e) PROVE SendInv'
    <2>1. UNCHANGED <<dispatch, sent, barrier>>
      BY <1>10 DEF Begin, spool, ssm
    <2>2. <<e, 1>> \in Job
      BY JobFacts DEF Length
    <2>. QED
      BY <1>0, <1>10, <2>1, <2>2, BeginMoves, GoesLetsGo, LetGoKeeps
  <1>. QED
    BY <1>1, <1>2, <1>3, <1>4, <1>5, <1>6, <1>7, <1>8, <1>9, <1>10 DEF Step

LEMMA SendStep ==
  ASSUME TypeInv, SendInv, [Next]_vars
  PROVE  SendInv'
  <1>1. ASSUME NEW w \in Worker, Step(w) \/ CrashWorker(w) \/ \E e \in Execution : Begin(w, e)
        PROVE  SendInv'
    BY <1>1, WorkerSendStep
  <1>2. ASSUME UNCHANGED <<dispatch, sent, barrier, worker>> PROVE SendInv'
    BY <1>2 DEF SendInv, SentOnce, Holds, barrier
  <1>3. ASSUME NEW e \in Execution, Bar(e) PROVE SendInv'
    <2>1. UNCHANGED <<dispatch, sent, abarred, worker>> /\ barred' = barred \cup BarrierIds(e)
      BY <1>3 DEF Bar, spool, ssm
    <2>2. \A j \in BarrierIds(e), w \in Worker : ~Holds(w, j)
      BY <1>3 DEF Bar, Locked, Holds
    <2>. QED
      BY <2>1, <2>2 DEF SendInv, SentOnce, Holds
  <1>4. ASSUME NEW e \in Execution, AgentReclaims(e) PROVE SendInv'
    <2>1. /\ UNCHANGED <<dispatch, sent, barred, worker>>
          /\ abarred' \subseteq barred
      BY <1>4 DEF AgentReclaims, ssm, SendInv
    <2>. QED
      BY <2>1 DEF SendInv, SentOnce, Holds
  <1>5. ASSUME NEW e \in Execution, ControllerReclaims(e) PROVE SendInv'
    <2>1. UNCHANGED <<sent, barrier, worker>>
      BY <1>5 DEF ControllerReclaims, ssm
    <2>2. CASE dispatch' = dispatch
      BY <1>2, <2>1, <2>2
    <2>3. CASE /\ e \in Lab /\ outcome[e].upto = 2
               /\ dispatch' = [dispatch EXCEPT ![e] = "none"]
      <3>1. Report(e) \in BarrierIds(e)
        BY <2>3 DEF BarrierIds, Chain, Report
      <3>2. Report(e) \in barred
        BY <1>5, <3>1 DEF ControllerReclaims, SendInv
      <3>3. \A w \in Worker : ~Holds(w, Report(e))
        BY <1>5, <3>1 DEF ControllerReclaims, Locked, Holds
      <3>4. \A f \in Lab \ {e} : dispatch'[f] = dispatch[f]
        BY <2>3 DEF TypeInv, TypeOK
      <3>. QED
        BY <2>1, <3>2, <3>3, <3>4 DEF SendInv, SentOnce, Holds, barrier
    <2>. QED
      BY <1>5, <2>2, <2>3 DEF ControllerReclaims
  <1>6. CASE UNCHANGED vars
    BY <1>2, <1>6 DEF vars, spool, ssm
  <1>. QED
    BY <1>1, <1>2, <1>3, <1>4, <1>5, <1>6
      DEF Next, AgentStep, LeaseExpires, CommandEnds, RecoverResults, TakeJob, RunCodex,
          LinkResult, UnlinkResult, CrashAgent, spool, ssm

-----------------------------------------------------------------------------
(* The agent.                                                              *)

LEMMA WorkerLeaves ==
  ASSUME NEW w \in Worker,
         Step(w) \/ CrashWorker(w) \/ \E e \in Execution : Begin(w, e)
  PROVE  UNCHANGED <<result, linked, bundle, barrier, agent>>
BY DEF Step, CrashWorker, Begin, PublishJob, ReadResult, Dispatch, UnlinkIntent, Send, Record,
       Wait, GiveUpDispatch, Settle, spool

LEMMA AgentInvStep ==
  ASSUME TypeInv, AgentInv, [Next]_vars
  PROVE  AgentInv'
  <1>1. ASSUME UNCHANGED <<result, abarred, agent>> PROVE AgentInv'
    BY <1>1 DEF AgentInv
  <1>2. ASSUME NEW w \in Worker, Step(w) \/ CrashWorker(w) \/ \E e \in Execution : Begin(w, e)
        PROVE  AgentInv'
    BY <1>1, <1>2, WorkerLeaves DEF barrier
  <1>3. CASE RecoverResults
    BY <1>1, <1>3 DEF RecoverResults, Recovered, barrier
  <1>4. CASE TakeJob
    <2>1. PICK i \in DOMAIN Order : /\ Unanswered(Order[i]) /\ MayExecute(Order[i])
                                    /\ agent' = [at |-> "codex", job |-> Order[i], out |-> "none"]
      BY <1>4 DEF TakeJob
    <2>. QED
      BY <1>4, <2>1 DEF TakeJob, Unanswered, MayExecute, AgentInv, spool, barrier
  <1>5. CASE RunCodex
    <2>1. agent'.job = agent.job
      BY <1>5 DEF RunCodex, TypeInv, TypeOK
    <2>. QED
      BY <1>5, <2>1 DEF RunCodex, AgentInv, barrier
  <1>6. CASE LinkResult \/ UnlinkResult \/ CrashAgent
    <2>1. agent' = AgentIdle \/ \E out : agent' = [agent EXCEPT !.at = "linked", !.out = out]
      <3>1. CASE LinkResult
        BY <3>1, Zenon DEF LinkResult
      <3>2. CASE UnlinkResult \/ CrashAgent
        BY <3>2 DEF UnlinkResult, CrashAgent
      <3>. QED
        BY <1>6, <3>1, <3>2
    <2>2. agent'.at \in {"idle", "linked"}
      <3>1. agent \in [at: {"idle", "codex", "publish", "linked"}, job: Job \cup {None},
                       out: {"none", "ok", "failed", "rejected"}]
        BY DEF TypeInv, TypeOK
      <3>2. CASE agent' = AgentIdle
        BY <3>2 DEF AgentIdle
      <3>3. ASSUME NEW out, agent' = [agent EXCEPT !.at = "linked", !.out = out]
            PROVE  agent'.at = "linked"
        BY <3>1, <3>3
      <3>. QED
        BY <2>1, <3>2, <3>3, Zenon
    <2>. QED
      BY <2>2 DEF AgentInv
  <1>7. ASSUME NEW e \in Execution, AgentReclaims(e) PROVE AgentInv'
    BY <1>7 DEF AgentReclaims, AgentInv
  <1>8. ASSUME NEW e \in Execution, Bar(e) \/ ControllerReclaims(e) PROVE AgentInv'
    BY <1>1, <1>8 DEF Bar, ControllerReclaims, spool, barrier
  <1>9. CASE UNCHANGED vars
    BY <1>1, <1>9 DEF vars, spool, barrier
  <1>10. ASSUME NEW e \in Execution, LeaseExpires(e) PROVE AgentInv'
    BY <1>1, <1>10 DEF LeaseExpires, spool, barrier
  <1>11. ASSUME NEW e \in Lab, CommandEnds(e) PROVE AgentInv'
    BY <1>1, <1>11 DEF CommandEnds, spool, barrier
  <1>. QED
    BY <1>2, <1>3, <1>4, <1>5, <1>6, <1>7, <1>8, <1>9, <1>10, <1>11 DEF Next, AgentStep

-----------------------------------------------------------------------------
(* Success is earned.                                                      *)

\* Where a step of w takes it.
Fitting(w) ==
  /\ \A e \in Lab : worker'[w].at = "publish" /\ worker'[w].job = Report(e) =>
       command[e] \in {"ok", "failed"} /\ worker'[w].saw = command[e]
  /\ \A e \in Central : worker'[w].at \in {"publish", "read"} /\ worker'[w].job = <<e, 3>> =>
       e \in bundle
  /\ worker'[w].at = "settle" /\ worker'[w].end = "succeeded" => Earned(worker'[w].job[1])
  /\ \A v \in Worker \ {w} : worker'[v] = worker[v]

LEMMA SettlesFitting ==
  ASSUME TypeInv, NEW w \in Worker, Settles(w, Unearned)
  PROVE  Fitting(w)
  <1>1. Unearned \subseteq Returns /\ "succeeded" \notin Unearned
    BY DEF Unearned
  <1>. QED
    BY <1>1, SettlesAt DEF Fitting

LEMMA GoesFitting ==
  ASSUME TypeInv, NEW w \in Worker, NEW j \in Job,
         NEW point \in {"dispatch", "paired", "send", "record", "wait", "unknown"}, Goes(w, point, j)
  PROVE  Fitting(w)
BY GoesAt DEF Fitting, Points

\* A worker that keeps its job, or leaves it for the next one of the chain.
LEMMA GoesOn ==
  ASSUME TypeInv, BehindInv, NEW w \in Worker, NEW point \in Points, NEW e \in Execution,
         NEW i \in Nat, NEW k \in Nat, worker[w].job = <<e, i>>, <<e, k>> \in Job,
         worker[w].at \notin {"idle", "settle"},
         k = i \/ (k = i + 1 /\ Accepted(<<e, i>>)),
         Goes(w, point, <<e, k>>)
  PROVE  Behind(worker'[w])
  <1>1. worker'[w].job = <<e, k>>
    BY GoesAt
  <1>2. \A n \in 1..(i - 1) : Accepted(<<e, n>>)
    BY DEF BehindInv, Behind
  <1>3. \A n \in 1..(k - 1) : Accepted(<<e, n>>)
    BY <1>2
  <1>4. worker'[w].job[1] = e /\ worker'[w].job[2] = k
    BY <1>1
  <1>. QED
    BY <1>3, <1>4 DEF Behind

LEMMA SettlesBehind ==
  ASSUME TypeInv, NEW w \in Worker, NEW ends, ends \subseteq Returns, Settles(w, ends)
  PROVE  Behind(worker'[w])
BY SettlesAt DEF Behind

LEMMA WorkerBehind ==
  ASSUME TypeInv, BehindInv, NEW w \in Worker,
         Step(w) \/ CrashWorker(w) \/ \E e \in Execution : Begin(w, e)
  PROVE  Behind(worker'[w])
  <1>0. /\ \A e \in Lab : e \in Execution /\ Report(e) \in Job /\ Report(e) = <<e, 2>>
        /\ Unearned \subseteq Returns /\ {"succeeded", "error"} \subseteq Returns
    BY JobFacts DEF Execution, Report, Unearned, Returns, Provenances
  <1>1. ASSUME NEW e \in Lab, NEW point \in Points, worker[w].job = Report(e),
               worker[w].at \notin {"idle", "settle"}, Goes(w, point, Report(e))
        PROVE  Behind(worker'[w])
    <2>1. Report(e) = <<e, 2>> /\ <<e, 2>> \in Job /\ e \in Execution
      BY <1>0
    <2>2. worker[w].job = <<e, 2>> /\ Goes(w, point, <<e, 2>>)
      BY <1>1, <2>1
    <2>3. 2 \in Nat
      OBVIOUS
    <2>. QED
      BY <1>1, <2>1, <2>2, <2>3, GoesOn
  <1>2. ASSUME Settles(w, Unearned) PROVE Behind(worker'[w])
    BY <1>0, <1>2, SettlesBehind
  <1>3. CASE PublishJob(w)
    <2>1. PICK j \in Job : /\ At(w, "publish") /\ worker[w].job = j
                           /\ Goes(w, "read", j) \/ Settles(w, Unearned)
      BY <1>3, PublishMoves
    <2>2. CASE Goes(w, "read", j)
      <3>1. PICK e \in Execution, i \in Nat : j = <<e, i>>
        BY JobFacts DEF Length
      <3>2. worker[w].at \notin {"idle", "settle"} /\ "read" \in Points
        BY <2>1 DEF At, Points
      <3>3. worker[w].job = <<e, i>> /\ <<e, i>> \in Job /\ Goes(w, "read", <<e, i>>)
        BY <2>1, <2>2, <3>1
      <3>. QED
        BY <3>2, <3>3, GoesOn
    <2>. QED
      BY <1>2, <2>1, <2>2
  <1>4. CASE ReadResult(w)
    <2>1. PICK e \in Execution, i \in 1..3 :
             /\ At(w, "read") /\ worker[w].job = <<e, i>> /\ i \in 1..Length(e)
             /\ \/ Settles(w, Unearned)
                \/ Settles(w, {"succeeded", "error"})
                \/ /\ result[<<e, i>>] = "ok" /\ i < Length(e)
                   /\ \/ e \in Lab /\ Goes(w, "read", Report(e))
                      \/ e \in Lab /\ Goes(w, "dispatch", Report(e))
                      \/ Goes(w, "publish", <<e, i + 1>>)
      BY <1>4, ReadMoves
    <2>2. CASE /\ result[<<e, i>>] = "ok" /\ i < Length(e)
               /\ \/ e \in Lab /\ Goes(w, "read", Report(e))
                  \/ e \in Lab /\ Goes(w, "dispatch", Report(e))
                  \/ Goes(w, "publish", <<e, i + 1>>)
      <3>1. Accepted(<<e, i>>)
        BY <2>2 DEF Accepted
      <3>2. e \in Lab => Report(e) = <<e, i + 1>>
        BY <1>0, <2>1, <2>2 DEF Length
      <3>3. PICK point \in {"read", "dispatch", "publish"} : Goes(w, point, <<e, i + 1>>)
        BY <2>2, <3>2
      <3>4. <<e, i + 1>> \in Job
        <4>1. i + 1 \in 1..Length(e)
          BY <2>1, <2>2 DEF Length
        <4>. QED
          BY <4>1, JobFacts
      <3>5. worker[w].at \notin {"idle", "settle"}
        BY <2>1 DEF At
      <3>6. point \in Points
        BY DEF Points
      <3>. QED
        BY <2>1, <3>1, <3>3, <3>4, <3>5, <3>6, GoesOn
    <2>. QED
      BY <1>0, <1>2, <2>1, <2>2, SettlesBehind
  <1>5. CASE Dispatch(w)
    <2>1. PICK e \in Lab : /\ At(w, "dispatch") /\ worker[w].job = Report(e)
                           /\ \/ Settles(w, Unearned)
                              \/ \E point \in {"wait", "unknown", "paired"} : Goes(w, point, Report(e))
      BY <1>5, DispatchMoves
    <2>. QED
      BY <1>1, <1>2, <2>1 DEF At, Points
  <1>6. CASE UnlinkIntent(w)
    BY <1>1, <1>6, UnlinkMoves DEF At, Points
  <1>7. CASE Send(w)
    <2>1. PICK e \in Lab : /\ At(w, "send") /\ worker[w].job = Report(e)
                           /\ \/ Settles(w, Unearned)
                              \/ \E point \in {"record", "unknown"} : Goes(w, point, Report(e))
      BY <1>7, SendMoves
    <2>. QED
      BY <1>1, <1>2, <2>1 DEF At, Points
  <1>8. CASE Record(w)
    BY <1>1, <1>8, RecordMoves DEF At, Points
  <1>9. CASE Wait(w)
    <2>1. PICK e \in Lab : /\ At(w, "wait") /\ worker[w].job = Report(e)
                           /\ \/ Settles(w, Unearned)
                              \/ /\ command[e] \in {"ok", "failed"}
                                 /\ Moved(w, Answered(worker[w], command[e]))
      BY <1>9, WaitMoves
    <2>2. CASE command[e] \in {"ok", "failed"} /\ Moved(w, Answered(worker[w], command[e]))
      <3>1. worker[w] \in WorkerState
        BY DEF TypeInv, TypeOK, WorkerState
      <3>2. worker'[w].job = worker[w].job
        BY <2>2, <3>1, MovedAt, AnsweredFields
      <3>. QED
        BY <2>1, <3>2 DEF Behind, BehindInv, At
    <2>. QED
      BY <1>2, <2>1, <2>2
  <1>10. CASE GiveUpDispatch(w)
    BY <1>2, <1>10, GiveUpMoves
  <1>11. CASE Settle(w) \/ CrashWorker(w)
    <2>1. Moved(w, Idle)
      BY <1>11 DEF Settle, CrashWorker, Moved
    <2>. QED
      BY <2>1, MovedAt DEF Behind, Idle
  <1>12. ASSUME NEW e \in Execution, Begin(w, e) PROVE Behind(worker'[w])
    <2>1. <<e, 1>> \in Job
      BY JobFacts DEF Length
    <2>2. worker'[w].job = <<e, 1>>
      BY <1>12, <2>1, BeginMoves, GoesAt DEF Points
    <2>. QED
      BY <2>2 DEF Behind
  <1>. QED
    BY <1>3, <1>4, <1>5, <1>6, <1>7, <1>8, <1>9, <1>10, <1>11, <1>12 DEF Step

\* An answer that counts is not replaced, and removed behind a barrier only.
LEMMA AcceptedStays ==
  ASSUME TypeInv, AgentInv, [Next]_vars, NEW j \in Job, Accepted(j)
  PROVE  Accepted(j)'
  <1>0. result \in [Job -> {"none", "ok", "failed", "rejected"}]
    BY DEF TypeInv, TypeOK
  <1>1. CASE LinkResult
    <2>1. result' = result \/ \E out : result' = [result EXCEPT ![agent.job] = out]
      BY <1>1, Zenon DEF LinkResult
    <2>2. j # agent.job /\ abarred' = abarred
      BY <1>1 DEF AgentInv, LinkResult, Accepted, barrier
    <2>. QED
      BY <1>0, <2>1, <2>2 DEF Accepted
  <1>2. ASSUME NEW e \in Execution, AgentReclaims(e) PROVE Accepted(j)'
    BY <1>0, <1>2 DEF AgentReclaims, Accepted
  <1>3. ASSUME NEW w \in Worker, Step(w) \/ CrashWorker(w) \/ \E e \in Execution : Begin(w, e)
        PROVE  Accepted(j)'
    BY <1>3, WorkerLeaves DEF Accepted, barrier
  <1>4. ASSUME UNCHANGED <<result, abarred>> PROVE Accepted(j)'
    BY <1>4 DEF Accepted
  <1>. QED
    BY <1>1, <1>2, <1>3, <1>4 DEF Next, AgentStep, LeaseExpires, CommandEnds, RecoverResults, Recovered,
         TakeJob, RunCodex, UnlinkResult, CrashAgent, Bar, ControllerReclaims, vars, spool, barrier

LEMMA WorkerFitting ==
  ASSUME TypeInv, SendInv, EarnInv, NEW w \in Worker,
         Step(w) \/ CrashWorker(w) \/ \E e \in Execution : Begin(w, e)
  PROVE  Fitting(w)
  <1>0. /\ \A e \in Lab : Report(e) \in Job /\ Report(e) = <<e, 2>>
        /\ \A e \in Central : e \notin Lab
    BY JobFacts, SpoolAssumption DEF Execution, Report
  <1>1. CASE PublishJob(w)
    <2>1. PICK j \in Job : /\ At(w, "publish") /\ worker[w].job = j
                           /\ Goes(w, "read", j) \/ Settles(w, Unearned)
      BY <1>1, PublishMoves
    <2>2. CASE Goes(w, "read", j)
      <3>1. /\ worker'[w].at = "read" /\ worker'[w].job = j
            /\ \A v \in Worker \ {w} : worker'[v] = worker[v]
        BY <2>2, GoesAt DEF Points
      <3>2. \A e \in Central : j = <<e, 3>> => e \in bundle
        BY <2>1 DEF EarnInv, CentralInv, At
      <3>. QED
        BY <3>1, <3>2 DEF Fitting
    <2>. QED
      BY <2>1, <2>2, SettlesFitting
  <1>2. CASE ReadResult(w)
    <2>1. PICK e \in Execution, i \in 1..3 :
             /\ At(w, "read") /\ worker[w].job = <<e, i>> /\ i \in 1..Length(e)
             /\ \/ Settles(w, Unearned)
                \/ result[<<e, i>>] = "ok" /\ i = Length(e) /\ Settles(w, {"succeeded", "error"})
                \/ e \in Lab /\ Goes(w, "read", Report(e))
                \/ e \in Lab /\ Goes(w, "dispatch", Report(e))
                \/ /\ e \in Central /\ i < 3 /\ (i = 2 => e \in bundle)
                   /\ Goes(w, "publish", <<e, i + 1>>)
      BY <1>2, ReadMoves
    <2>2. CASE result[<<e, i>>] = "ok" /\ i = Length(e) /\ Settles(w, {"succeeded", "error"})
      <3>0. \A j \in Chain(e, Length(e)) : Accepted(j)
        <4>1. \A k \in 1..(i - 1) : Accepted(<<e, k>>)
          BY <2>1 DEF EarnInv, BehindInv, Behind, At
        <4>2. Accepted(<<e, i>>)
          BY <2>2 DEF Accepted
        <4>3. \A k \in 1..Length(e) : k = i \/ k \in 1..(i - 1)
          BY <2>2 DEF Length
        <4>. QED
          BY <4>1, <4>2, <4>3 DEF Chain
      <3>1. Earned(e)
        <4>1. CASE e \in Lab
          <5>1. result[Report(e)] = "ok"
            BY <1>0, <2>2, <4>1 DEF Length
          <5>2. command[e] = "ok" /\ sent[e] > 0 /\ sent[e] <= 1
            BY <4>1, <5>1 DEF EarnInv, LabInv, LabAt, SendInv, SentOnce
          <5>. QED
            BY <3>0, <4>1, <5>2 DEF Earned, Backed, TypeInv, TypeOK
        <4>2. CASE e \notin Lab
          BY <2>1, <2>2, <3>0, <4>2 DEF Earned, Backed, EarnInv, CentralInv, At, Length, Execution
        <4>. QED
          BY <4>1, <4>2
      <3>2. /\ worker'[w].at = "settle" /\ worker'[w].job = <<e, i>>
            /\ \A v \in Worker \ {w} : worker'[v] = worker[v]
        BY <2>1, <2>2, SettlesAt DEF Returns, Provenances
      <3>3. worker'[w].job[1] = e
        BY <3>2
      <3>. QED
        BY <3>1, <3>2, <3>3 DEF Fitting
    <2>3. CASE e \in Lab /\ Goes(w, "read", Report(e))
      <3>1. /\ worker'[w].at = "read" /\ worker'[w].job = <<e, 2>>
            /\ \A v \in Worker \ {w} : worker'[v] = worker[v]
        BY <1>0, <2>3, GoesAt DEF Points
      <3>. QED
        BY <3>1 DEF Fitting
    <2>4. CASE e \in Lab /\ Goes(w, "dispatch", Report(e))
      BY <1>0, <2>4, GoesFitting
    <2>5. CASE /\ e \in Central /\ i < 3 /\ (i = 2 => e \in bundle)
               /\ Goes(w, "publish", <<e, i + 1>>)
      <3>1. <<e, i + 1>> \in Job
        <4>1. i + 1 \in 1..Length(e)
          BY <1>0, <2>5 DEF Length
        <4>. QED
          BY <4>1, JobFacts
      <3>2. /\ worker'[w].at = "publish" /\ worker'[w].job = <<e, i + 1>>
            /\ \A v \in Worker \ {w} : worker'[v] = worker[v]
        BY <2>5, <3>1, GoesAt DEF Points
      <3>3. /\ \A f \in Lab : worker'[w].job # Report(f)
            /\ \A f \in Central : worker'[w].job = <<f, 3>> => f = e /\ i = 2
        BY <1>0, <2>5, <3>2
      <3>. QED
        BY <2>5, <3>2, <3>3 DEF Fitting
    <2>. QED
      BY <2>1, <2>2, <2>3, <2>4, <2>5, SettlesFitting
  <1>3. CASE Dispatch(w)
    <2>1. PICK e \in Lab : \/ Settles(w, Unearned)
                           \/ \E point \in {"wait", "unknown", "paired"} : Goes(w, point, Report(e))
      BY <1>3, DispatchMoves
    <2>. QED
      BY <1>0, <2>1, SettlesFitting, GoesFitting
  <1>4. CASE UnlinkIntent(w)
    BY <1>0, <1>4, UnlinkMoves, GoesFitting
  <1>5. CASE Send(w)
    <2>1. PICK e \in Lab : \/ Settles(w, Unearned)
                           \/ \E point \in {"record", "unknown"} : Goes(w, point, Report(e))
      BY <1>5, SendMoves
    <2>. QED
      BY <1>0, <2>1, SettlesFitting, GoesFitting
  <1>6. CASE Record(w)
    BY <1>0, <1>6, RecordMoves, GoesFitting
  <1>7. CASE Wait(w)
    <2>1. PICK e \in Lab : /\ At(w, "wait") /\ worker[w].job = Report(e)
                           /\ \/ Settles(w, Unearned)
                              \/ /\ command[e] \in {"ok", "failed"}
                                 /\ Moved(w, Answered(worker[w], command[e]))
      BY <1>7, WaitMoves
    <2>2. CASE command[e] \in {"ok", "failed"} /\ Moved(w, Answered(worker[w], command[e]))
      <3>1. worker[w] \in WorkerState
        BY DEF TypeInv, TypeOK, WorkerState
      <3>2. /\ worker'[w] = Answered(worker[w], command[e])
            /\ \A v \in Worker \ {w} : worker'[v] = worker[v]
        BY <2>2, MovedAt
      <3>3. /\ worker'[w].at = "publish" /\ worker'[w].job = <<e, 2>>
            /\ worker'[w].saw = command[e]
        BY <1>0, <2>1, <2>2, <3>1, <3>2, AnsweredFields
      <3>. QED
        BY <1>0, <2>2, <3>2, <3>3 DEF Fitting
    <2>. QED
      BY <2>1, <2>2, SettlesFitting
  <1>8. CASE GiveUpDispatch(w)
    BY <1>8, GiveUpMoves, SettlesFitting
  <1>9. CASE Settle(w) \/ CrashWorker(w)
    <2>1. Moved(w, Idle)
      BY <1>9 DEF Settle, CrashWorker, Moved
    <2>. QED
      BY <2>1, MovedAt DEF Fitting, Idle
  <1>10. ASSUME NEW e \in Execution, Begin(w, e) PROVE Fitting(w)
    <2>1. <<e, 1>> \in Job
      BY JobFacts DEF Length
    <2>2. /\ worker'[w].at = "publish" /\ worker'[w].job = <<e, 1>>
          /\ \A v \in Worker \ {w} : worker'[v] = worker[v]
      BY <1>10, <2>1, BeginMoves, GoesAt DEF Points
    <2>. QED
      BY <1>0, <2>2 DEF Fitting
  <1>. QED
    BY <1>1, <1>2, <1>3, <1>4, <1>5, <1>6, <1>7, <1>8, <1>9, <1>10 DEF Step

\* What only grows: a command is not unsent, its end and a bundle stay.
LEMMA Grows ==
  ASSUME TypeInv, LabInv, [Next]_vars
  PROVE  /\ bundle \subseteq bundle'
         /\ \A e \in Lab : /\ sent[e] <= sent'[e]
                           /\ command[e] \in {"ok", "failed"} => command'[e] = command[e]
                           /\ command'[e] # "none" => sent'[e] > 0
  <1>0. /\ sent \in [Lab -> Nat]
        /\ command \in [Lab -> {"none", "running", "ok", "failed"}]
        /\ \A e \in Lab : command[e] # "none" => sent[e] > 0
    BY DEF TypeInv, TypeOK, LabInv, LabAt
  <1>1. bundle \subseteq bundle'
    <2>1. ASSUME NEW w \in Worker, Step(w) \/ CrashWorker(w) \/ \E e \in Execution : Begin(w, e)
          PROVE  bundle' = bundle
      BY <2>1, WorkerLeaves
    <2>2. CASE RunCodex
      BY <2>2 DEF RunCodex, Bundled
    <2>. QED
      BY <2>1, <2>2 DEF Next, AgentStep, LeaseExpires, CommandEnds, RecoverResults, TakeJob,
           LinkResult, UnlinkResult, CrashAgent, Bar, AgentReclaims, ControllerReclaims, spool, vars
  <1>2. ASSUME UNCHANGED ssm
        PROVE  \A e \in Lab : /\ sent[e] <= sent'[e]
                              /\ command[e] \in {"ok", "failed"} => command'[e] = command[e]
                              /\ command'[e] # "none" => sent'[e] > 0
    BY <1>0, <1>2 DEF ssm
  <1>3. ASSUME NEW w \in Worker, Send(w)
        PROVE  \A e \in Lab : /\ sent[e] <= sent'[e]
                              /\ command[e] \in {"ok", "failed"} => command'[e] = command[e]
                              /\ command'[e] # "none" => sent'[e] > 0
    <2>1. PICK e \in Lab :
             \/ UNCHANGED ssm
             \/ /\ sent' = [sent EXCEPT ![e] = @ + 1]
                /\ command' = [command EXCEPT ![e] = IF @ = "none" THEN "running" ELSE @]
      BY <1>3, SendMoves
    <2>. QED
      BY <1>0, <1>2, <2>1
  <1>4. ASSUME NEW f \in Lab, CommandEnds(f)
        PROVE  \A e \in Lab : /\ sent[e] <= sent'[e]
                              /\ command[e] \in {"ok", "failed"} => command'[e] = command[e]
                              /\ command'[e] # "none" => sent'[e] > 0
    <2>1. PICK status \in {"ok", "failed"} : command' = [command EXCEPT ![f] = status]
      BY <1>4 DEF CommandEnds
    <2>2. sent' = sent /\ command[f] = "running"
      BY <1>4 DEF CommandEnds
    <2>. QED
      BY <1>0, <2>1, <2>2
  <1>5. ASSUME NEW w \in Worker,
               \/ PublishJob(w) \/ ReadResult(w) \/ Dispatch(w) \/ UnlinkIntent(w) \/ Record(w)
               \/ Wait(w) \/ GiveUpDispatch(w) \/ Settle(w) \/ CrashWorker(w)
               \/ \E e \in Execution : Begin(w, e)
        PROVE  UNCHANGED ssm
    BY <1>5 DEF PublishJob, ReadResult, Dispatch, UnlinkIntent, Record, Wait, GiveUpDispatch, Settle,
         CrashWorker, Begin
  <1>6. ASSUME AgentStep \/ CrashAgent \/ (\E e \in Execution : LeaseExpires(e))
               \/ (\E e \in Execution : Bar(e) \/ AgentReclaims(e) \/ ControllerReclaims(e))
               \/ UNCHANGED vars
        PROVE  UNCHANGED ssm
    BY <1>6 DEF AgentStep, LeaseExpires, RecoverResults, TakeJob, RunCodex, LinkResult, UnlinkResult,
         CrashAgent, Bar, AgentReclaims, ControllerReclaims, vars
  <1>. QED
    BY <1>1, <1>2, <1>3, <1>4, <1>5, <1>6 DEF Next, Step

\* The jobs, contexts and results of a step of a worker, and the execution it ends.
LEMMA WorkerSpool ==
  ASSUME TypeInv, NEW w \in Worker,
         Step(w) \/ CrashWorker(w) \/ \E e \in Execution : Begin(w, e)
  PROVE  /\ \/ UNCHANGED <<job, context>>
            \/ \E j \in Job :
                 /\ At(w, "publish") /\ worker[w].job = j /\ j \notin barred
                 /\ job' = job \cup {j}
                 /\ context' = IF j[2] = 2 /\ j[1] \in Lab
                               THEN [context EXCEPT ![j[1]] = worker[w].saw] ELSE context
         /\ UNCHANGED <<result, linked, bundle, barrier, agent>>
  <1>1. UNCHANGED <<result, linked, bundle, barrier, agent>>
    BY WorkerLeaves
  <1>2. CASE PublishJob(w)
    BY <1>1, <1>2, PublishMoves
  <1>3. CASE ~PublishJob(w)
    BY <1>1, <1>3 DEF Step, CrashWorker, Begin, ReadResult, Dispatch, UnlinkIntent, Send, Record,
         Wait, GiveUpDispatch, Settle, spool
  <1>. QED
    BY <1>2, <1>3

LEMMA LabAtStep ==
  ASSUME TypeInv, SendInv, AgentInv, EarnInv, [Next]_vars, NEW e \in Lab
  PROVE  LabAt(e)'
  <1>0. /\ LabAt(e)
        /\ context[e] \in {"none", "ok", "failed"}
        /\ command[e] \in {"none", "running", "ok", "failed"}
        /\ \A w \in Worker : worker[w].saw \in {"none", "ok", "failed"}
        /\ Report(e) \in Job /\ Report(e)[1] = e /\ Report(e)[2] = 2
        /\ \A j \in Job : j[1] = e /\ j[2] = 2 => j = Report(e)
    BY JobFacts DEF EarnInv, LabInv, TypeInv, TypeOK, Execution, Report
  <1>1. /\ command[e] \in {"ok", "failed"} => command'[e] = command[e]
        /\ command'[e] # "none" => sent'[e] > 0
    BY Grows DEF EarnInv
  <1>2. ASSUME UNCHANGED <<context, agent, worker>>, job' \subseteq job,
               result'[Report(e)] \in {"none", result[Report(e)]}
        PROVE  LabAt(e)'
    BY <1>0, <1>1, <1>2 DEF LabAt, At
  <1>3. ASSUME NEW w \in Worker, Step(w) \/ CrashWorker(w) \/ \E f \in Execution : Begin(w, f)
        PROVE  LabAt(e)'
    <2>1. UNCHANGED <<result, agent>>
      BY <1>3, WorkerLeaves
    <2>2. \A v \in Worker : worker'[v].at = "publish" /\ worker'[v].job = Report(e) =>
             worker'[v].saw \in {"ok", "failed"} /\ worker'[v].saw = command[e]
      <3>1. Fitting(w)
        BY <1>3, WorkerFitting
      <3>. QED
        BY <1>0, <3>1 DEF Fitting, LabAt, At
    <2>3. \/ context'[e] = context[e] /\ (Report(e) \in job' => Report(e) \in job)
          \/ context'[e] = command[e] /\ command[e] \in {"ok", "failed"}
      <3>1. CASE UNCHANGED <<job, context>>
        BY <3>1
      <3>2. ASSUME NEW j \in Job, At(w, "publish"), worker[w].job = j, job' = job \cup {j},
                   context' = IF j[2] = 2 /\ j[1] \in Lab
                              THEN [context EXCEPT ![j[1]] = worker[w].saw] ELSE context
            PROVE  \/ context'[e] = context[e] /\ (Report(e) \in job' => Report(e) \in job)
                   \/ context'[e] = command[e] /\ command[e] \in {"ok", "failed"}
        <4>1. CASE j = Report(e)
          <5>1. context'[e] = worker[w].saw
            BY <1>0, <3>2, <4>1 DEF TypeInv, TypeOK
          <5>2. worker[w].saw = command[e] /\ worker[w].saw # "none"
            BY <1>0, <3>2, <4>1 DEF LabAt
          <5>. QED
            BY <1>0, <5>1, <5>2
        <4>2. CASE j # Report(e)
          BY <1>0, <3>2, <4>2 DEF TypeInv, TypeOK
        <4>. QED
          BY <4>1, <4>2
      <3>. QED
        BY <1>3, <3>1, <3>2, WorkerSpool
    <2>. QED
      BY <1>0, <1>1, <2>1, <2>2, <2>3 DEF LabAt, At
  <1>4. CASE TakeJob
    <2>1. PICK i \in DOMAIN Order : /\ Unanswered(Order[i])
                                    /\ agent' = [at |-> "codex", job |-> Order[i], out |-> "none"]
      BY <1>4 DEF TakeJob
    <2>2. agent'.at = "codex" /\ agent'.job \in job
      BY <2>1 DEF Unanswered
    <2>3. UNCHANGED <<job, context, result, worker, ssm>>
      BY <1>4 DEF TakeJob, spool
    <2>. QED
      BY <1>0, <2>2, <2>3 DEF LabAt, At, ssm
  <1>5. CASE RunCodex
    <2>1. UNCHANGED <<job, context, result, worker, ssm>>
      BY <1>5 DEF RunCodex
    <2>2. PICK out \in Answers(agent.job) : agent' = [agent EXCEPT !.at = "publish", !.out = out]
      BY <1>5 DEF RunCodex
    <2>3. agent'.at = "publish" /\ agent'.job = agent.job /\ agent'.out = out
      BY <2>2 DEF TypeInv, TypeOK
    <2>4. agent.job = Report(e) /\ out = "ok" => command[e] = "ok"
      BY <1>0, <1>5, <2>2 DEF LabAt, Answers, RunCodex
    <2>. QED
      BY <1>0, <2>1, <2>3, <2>4 DEF LabAt, At, ssm
  <1>6. CASE LinkResult
    <2>1. UNCHANGED <<job, context, worker, ssm>>
      BY <1>6 DEF LinkResult
    <2>2. agent'.at \notin {"codex", "publish"}
      <3>1. CASE agent' = AgentIdle
        BY <3>1 DEF AgentIdle
      <3>2. ASSUME NEW out, agent' = [agent EXCEPT !.at = "linked", !.out = out]
            PROVE  agent'.at = "linked"
        <4>1. agent \in [at: {"idle", "codex", "publish", "linked"}, job: Job \cup {None},
                         out: {"none", "ok", "failed", "rejected"}]
          BY DEF TypeInv, TypeOK
        <4>. QED
          BY <3>2, <4>1
      <3>3. agent' = AgentIdle \/ \E out : agent' = [agent EXCEPT !.at = "linked", !.out = out]
        BY <1>6, Zenon DEF LinkResult
      <3>. QED
        BY <3>1, <3>2, <3>3, Zenon
    <2>3. result'[Report(e)] = "ok" => command[e] = "ok"
      <3>1. result' = result \/ \E out \in {agent.out, "failed"} :
              result' = [result EXCEPT ![agent.job] = out]
        BY <1>6, Zenon DEF LinkResult
      <3>2. agent.at = "publish"
        BY <1>6 DEF LinkResult
      <3>. QED
        BY <1>0, <3>1, <3>2 DEF LabAt, TypeInv, TypeOK
    <2>. QED
      BY <1>0, <2>1, <2>2, <2>3 DEF LabAt, At, ssm
  <1>7. CASE UnlinkResult \/ CrashAgent
    <2>1. UNCHANGED <<job, context, result, worker, ssm>> /\ agent' = AgentIdle
      BY <1>7 DEF UnlinkResult, CrashAgent, spool
    <2>. QED
      BY <1>0, <2>1 DEF LabAt, At, ssm, AgentIdle
  <1>8. ASSUME NEW f \in Execution, Bar(f) \/ AgentReclaims(f) \/ ControllerReclaims(f)
        PROVE  LabAt(e)'
    <2>1. UNCHANGED <<context, agent, worker>> /\ job' \subseteq job
      BY <1>8 DEF Bar, AgentReclaims, ControllerReclaims, JobsLeft, spool
    <2>2. result'[Report(e)] \in {"none", result[Report(e)]}
      BY <1>0, <1>8 DEF Bar, AgentReclaims, ControllerReclaims, spool
    <2>. QED
      BY <1>2, <2>1, <2>2
  <1>9. CASE RecoverResults \/ (\E f \in Execution : LeaseExpires(f))
             \/ (\E f \in Lab : CommandEnds(f)) \/ UNCHANGED vars
    <2>1. UNCHANGED <<job, context, result, agent, worker>>
      BY <1>9 DEF RecoverResults, Recovered, LeaseExpires, CommandEnds, vars, spool
    <2>. QED
      BY <1>2, <2>1
  <1>. QED
    BY <1>3, <1>4, <1>5, <1>6, <1>7, <1>8, <1>9 DEF Next, AgentStep

LEMMA OthersLeave ==
  ASSUME \/ \E e \in Execution : LeaseExpires(e)
         \/ \E e \in Lab : CommandEnds(e)
         \/ AgentStep \/ CrashAgent
         \/ \E e \in Execution : Bar(e) \/ AgentReclaims(e) \/ ControllerReclaims(e)
         \/ UNCHANGED vars
  PROVE  UNCHANGED <<worker, outcome>>
BY DEF LeaseExpires, CommandEnds, AgentStep, CrashAgent, RecoverResults, TakeJob, RunCodex, LinkResult,
       UnlinkResult, Bar, AgentReclaims, ControllerReclaims, vars, table

\* A worker settles with what it ended with.
LEMMA SettleRecords ==
  ASSUME TypeInv, NEW w \in Worker,
         Step(w) \/ CrashWorker(w) \/ \E e \in Execution : Begin(w, e),
         NEW e \in Execution, outcome'[e].status = "succeeded"
  PROVE  \/ outcome[e].status = "succeeded"
         \/ At(w, "settle") /\ worker[w].end = "succeeded" /\ worker[w].job[1] = e
  <1>1. CASE Settle(w)
    <2>. DEFINE f == worker[w].job[1]
                end == worker[w].end
                r == [status |-> end, upto |-> worker[w].upto]
                x == [status |-> "exhausted", upto |-> 0]
    <2>1. \/ outcome' = outcome
          \/ outcome' = [outcome EXCEPT ![f] = r]
          \/ outcome' = [outcome EXCEPT ![f] = x]
      BY <1>1, Zenon DEF Settle
    <2>2. r.status = end /\ x.status = "exhausted" /\ At(w, "settle")
      BY <1>1 DEF Settle
    <2>3. DOMAIN outcome = Execution
      BY DEF TypeInv, TypeOK
    <2>. HIDE DEF r, x, f, end
    <2>4. \/ outcome[e].status = "succeeded"
          \/ f = e /\ end = "succeeded"
      BY <2>1, <2>2, <2>3
    <2>. QED
      BY <2>2, <2>4 DEF f, end
  <1>2. CASE ~Settle(w)
    BY <1>2 DEF Step, CrashWorker, Begin, PublishJob, ReadResult, Dispatch, UnlinkIntent, Send, Record,
         Wait, GiveUpDispatch, table
  <1>. QED
    BY <1>1, <1>2

LEMMA EarnStep ==
  ASSUME TypeInv, SendInv, SendInv', AgentInv, EarnInv, [Next]_vars
  PROVE  EarnInv'
  <1>1. LabInv'
    BY LabAtStep DEF LabInv
  <1>2. \A e \in Execution : Earned(e) => Earned(e)'
    <2>1. \A e \in Lab : sent[e] \in Nat /\ sent'[e] <= 1 /\ sent[e] <= sent'[e]
                         /\ (command[e] = "ok" => command'[e] = "ok")
      BY Grows DEF EarnInv, TypeInv, TypeOK, SendInv, SentOnce
    <2>2. \A e \in Lab : sent'[e] \in Nat
      BY TypeStep DEF TypeInv, TypeOK
    <2>3. bundle \subseteq bundle'
      BY Grows DEF EarnInv
    <2>4. \A e \in Execution : Backed(e) => Backed(e)'
      BY <2>1, <2>2, <2>3 DEF Backed
    <2>5. \A e \in Execution : \A j \in Chain(e, Length(e)) : Accepted(j) => Accepted(j)'
      <3>1. \A e \in Execution : Chain(e, Length(e)) \subseteq Job
        BY DEF Job
      <3>. QED
        BY <3>1, AcceptedStays
    <2>. QED
      BY <2>4, <2>5 DEF Earned, Chain, Length
  <1>3. ASSUME NEW w \in Worker, Step(w) \/ CrashWorker(w) \/ \E e \in Execution : Begin(w, e)
        PROVE  CentralInv' /\ BehindInv' /\ SuccessIsEarned' /\ \A v \in Worker : EndEarned(v)'
    <2>0. BehindInv'
      <3>1. \A v \in Worker : Behind(worker'[v])
        BY <1>3, WorkerBehind, WorkerFitting DEF EarnInv, BehindInv, Fitting
      <3>2. UNCHANGED <<result, abarred>>
        BY <1>3, WorkerLeaves DEF barrier
      <3>. QED
        BY <3>1, <3>2 DEF BehindInv, Behind, Accepted
    <2>1. Fitting(w) /\ bundle' = bundle
      BY <1>3, WorkerFitting, WorkerLeaves
    <2>2. CentralInv'
      BY <2>1 DEF Fitting, EarnInv, CentralInv
    <2>3. ASSUME NEW v \in Worker, worker'[v].at = "settle", worker'[v].end = "succeeded"
          PROVE  EndEarned(v)'
      <3>1. Earned(worker'[v].job[1])
        BY <2>1, <2>3 DEF Fitting, EarnInv, EndEarned, At
      <3>2. worker'[v].job[1] \in Execution
        <4>1. worker'[v].job \in Job
          BY <1>3, <2>3, StepSound, SoundTyped DEF HasJob
        <4>. QED
          BY <4>1, JobFacts
      <3>3. PICK e \in Execution : e = worker'[v].job[1]
        BY <3>2
      <3>4. Earned(e)'
        BY <1>2, <3>1, <3>3
      <3>. QED
        BY <3>3, <3>4 DEF EndEarned, Earned
    <2>4. SuccessIsEarned'
      <3>. SUFFICES ASSUME NEW e \in Execution, outcome'[e].status = "succeeded"
                    PROVE  Earned(e)'
        BY DEF SuccessIsEarned, Earned, Backed, Accepted
      <3>1. \/ outcome[e].status = "succeeded"
            \/ At(w, "settle") /\ worker[w].end = "succeeded" /\ worker[w].job[1] = e
        BY <1>3, SettleRecords
      <3>2. outcome[e].status = "succeeded" => Earned(e)
        BY DEF EarnInv, SuccessIsEarned, Earned, Backed, Accepted
      <3>3. EndEarned(w)
        BY DEF EarnInv
      <3>4. Earned(e)
        BY <3>1, <3>2, <3>3 DEF EndEarned
      <3>. QED
        BY <1>2, <3>4
    <2>. QED
      BY <2>0, <2>2, <2>3, <2>4 DEF EndEarned, At
  <1>4. ASSUME UNCHANGED <<worker, outcome>>
        PROVE  CentralInv' /\ BehindInv' /\ SuccessIsEarned' /\ \A v \in Worker : EndEarned(v)'
    <2>0. BehindInv'
      <3>. SUFFICES ASSUME NEW w \in Worker, worker[w].at \notin {"idle", "settle"},
                           NEW k \in 1..(worker[w].job[2] - 1)
                    PROVE  Accepted(<<worker[w].job[1], k>>)'
        BY <1>4 DEF BehindInv, Behind
      <3>1. worker[w].job \in Job
        BY DEF TypeInv, HasJob
      <3>2. <<worker[w].job[1], k>> \in Job
        BY <3>1, JobFacts DEF Length
      <3>3. Accepted(<<worker[w].job[1], k>>)
        BY DEF EarnInv, BehindInv, Behind
      <3>4. PICK j \in Job : j = <<worker[w].job[1], k>>
        BY <3>2
      <3>5. Accepted(j)
        BY <3>3, <3>4
      <3>6. Accepted(j)'
        BY <3>5, AcceptedStays
      <3>. QED
        BY <1>4, <3>4, <3>6
    <2>1. CentralInv'
      BY <1>4, Grows DEF EarnInv, CentralInv
    <2>2. SuccessIsEarned'
      BY <1>2, <1>4 DEF EarnInv, SuccessIsEarned, Earned, Backed, Accepted
    <2>3. ASSUME NEW v \in Worker, worker'[v].at = "settle", worker'[v].end = "succeeded"
          PROVE  EndEarned(v)'
      <3>1. Earned(worker[v].job[1]) /\ worker[v].job[1] \in Execution
        BY <1>4, <2>3, JobFacts DEF EarnInv, EndEarned, At, TypeInv, HasJob
      <3>2. PICK e \in Execution : e = worker[v].job[1]
        BY <3>1
      <3>3. Earned(e)'
        BY <1>2, <3>1, <3>2
      <3>. QED
        BY <1>4, <3>2, <3>3 DEF EndEarned, Earned
    <2>. QED
      BY <2>0, <2>1, <2>2, <2>3 DEF EndEarned, At
  <1>5. CentralInv' /\ BehindInv' /\ SuccessIsEarned' /\ \A v \in Worker : EndEarned(v)'
    BY <1>3, <1>4, OthersLeave DEF Next
  <1>. QED
    BY <1>1, <1>5 DEF EarnInv

-----------------------------------------------------------------------------
(* The theorems.                                                           *)

LEMMA InitInv ==
  ASSUME Init
  PROVE  IInv
  <1>. USE DEF Init
  <1>1. TypeOK
    <2>1. Idle \in WorkerState
      BY DEF Idle, WorkerState, Points
    <2>2. Open \in [status: Provenances \cup {"open", "exhausted"}, upto: 0..3]
      BY DEF Open
    <2>3. worker \in [Worker -> WorkerState]
      BY <2>1
    <2>4. outcome \in [Execution -> [status: Provenances \cup {"open", "exhausted"}, upto: 0..3]]
      BY <2>2
    <2>5. agent \in [at: {"idle", "codex", "publish", "linked"}, job: Job \cup {None},
                     out: {"none", "ok", "failed", "rejected"}]
      BY DEF AgentIdle
    <2>. QED
      BY <2>3, <2>4, <2>5, SpoolAssumption DEF TypeOK, WorkerState
  <1>2. \A w \in Worker : worker[w].at = "idle"
    BY DEF Idle
  <1>3. \A e \in Execution : outcome[e].status = "open" /\ outcome[e].upto = 0
    BY DEF Open
  <1>4. agent.at = "idle"
    BY DEF AgentIdle
  <1>5. TypeInv
    BY <1>1, <1>2, <1>3, <1>4 DEF TypeInv, HasJob, OnTheWay, Dispatching, Length
  <1>6. SendInv
    BY <1>2 DEF SendInv, SentOnce, Holds, Dispatching
  <1>7. AgentInv
    BY <1>4 DEF AgentInv
  <1>8. EarnInv
    <2>1. LabInv
      BY <1>2, <1>4, JobFacts DEF LabInv, LabAt, At, Execution
    <2>2. CentralInv
      BY <1>2 DEF CentralInv
    <2>3. SuccessIsEarned
      BY <1>3 DEF SuccessIsEarned
    <2>. QED
      BY <1>2, <2>1, <2>2, <2>3 DEF EarnInv, EndEarned, At, BehindInv, Behind
  <1>. QED
    BY <1>5, <1>6, <1>7, <1>8 DEF IInv

\* The invariant the others follow from: the report's lock with the intent makes
\* the sender the only one, and every success is traced back to its command or
\* its bundle.
THEOREM Inductive == Spec => []IInv
  <1>1. Init => IInv
    BY InitInv
  <1>2. IInv /\ [Next]_vars => IInv'
    BY TypeStep, SendStep, AgentInvStep, EarnStep DEF IInv
  <1>. QED
    BY <1>1, <1>2, PTL DEF Spec

\* The types of the state, of which the guards of step and process_one make use.
THEOREM TypeCorrect == Spec => []TypeOK
  <1>1. IInv => TypeOK
    BY DEF IInv, TypeInv
  <1>. QED
    BY <1>1, Inductive, PTL

\* SendCommand is called once for an execution, by any number of workers and
\* whatever dies (_dispatch_or_resume, _publish_dispatch_record).
THEOREM CommandSentOnce == Spec => []SentOnce
  <1>1. IInv => SentOnce
    BY DEF IInv, SendInv
  <1>. QED
    BY <1>1, Inductive, PTL

\* What is recorded as a success is one: the command succeeded in the lab, the
\* executor's bundle is published (step, _execute, _wrap_central_result).
THEOREM SuccessEarned == Spec => []SuccessIsEarned
  <1>1. IInv => SuccessIsEarned
    BY DEF IInv, EarnInv
  <1>. QED
    BY <1>1, Inductive, PTL

\* Nobody replaces a result, and it is removed only with a settled execution
\* (_publish_result, _recover_result_temporaries).
THEOREM ResultsStand == Spec => ResultStands
  <1>1. ASSUME IInv, [Next]_vars
        PROVE  \A j \in Job : result[j] # "none" =>
                 \/ result'[j] = result[j]
                 \/ result'[j] = "none" /\ outcome[j[1]] # Open
    <2>. SUFFICES ASSUME NEW j \in Job, result[j] # "none", result'[j] # result[j]
                  PROVE  result'[j] = "none" /\ outcome[j[1]] # Open
      OBVIOUS
    <2>1. ~LinkResult
      <3>1. ASSUME LinkResult PROVE FALSE
        <4>1. result' = result \/ \E out : result' = [result EXCEPT ![agent.job] = out]
          BY <3>1, Zenon DEF LinkResult
        <4>2. result[agent.job] = "none"
          BY <1>1, <3>1 DEF IInv, AgentInv, LinkResult
        <4>3. result \in [Job -> {"none", "ok", "failed", "rejected"}]
          BY <1>1 DEF IInv, TypeInv, TypeOK
        <4>. QED
          BY <4>1, <4>2, <4>3
      <3>. QED
        BY <3>1
    <2>2. \E e \in Execution : AgentReclaims(e)
      <3>1. ~\E w \in Worker : Step(w) \/ CrashWorker(w) \/ \E e \in Execution : Begin(w, e)
        BY WorkerLeaves
      <3>. QED
        BY <1>1, <2>1, <3>1 DEF Next, AgentStep, LeaseExpires, CommandEnds, RecoverResults, Recovered,
             TakeJob, RunCodex, UnlinkResult, CrashAgent, Bar, ControllerReclaims, vars, spool
    <2>3. PICK e \in Execution : AgentReclaims(e)
      BY <2>2
    <2>4. j \in BarrierIds(e) /\ result'[j] = "none"
      BY <2>3 DEF AgentReclaims
    <2>5. j[1] = e /\ outcome[e].upto # 0
      BY <1>1, <2>4 DEF BarrierIds, Chain, IInv, TypeInv, TypeOK
    <2>. QED
      BY <2>4, <2>5 DEF Open
  <1>. QED
    BY <1>1, Inductive, PTL DEF Spec, ResultStands

\* What retention removed is not made again: no job, no command, no result
\* (controller_job_barred, agent_job_barred).
THEOREM ReclaimedGone == Spec => ReclaimedStaysGone
  <1>1. ASSUME IInv, [Next]_vars
        PROVE  /\ \A j \in barred : j \notin job => j \notin job'
               /\ \A e \in Lab : Report(e) \in barred => sent'[e] = sent[e]
               /\ \A j \in abarred : result[j] = "none" => result'[j] = "none"
    <2>0. TypeInv /\ SendInv /\ AgentInv
      BY <1>1 DEF IInv
    <2>1. \A j \in barred : j \notin job => j \notin job'
      <3>1. ASSUME NEW w \in Worker, Step(w) \/ CrashWorker(w) \/ \E e \in Execution : Begin(w, e)
            PROVE  \A j \in barred : j \notin job => j \notin job'
        BY <2>0, <3>1, WorkerSpool
      <3>. QED
        BY <1>1, <3>1 DEF Next, AgentStep, LeaseExpires, CommandEnds, RecoverResults, TakeJob, RunCodex,
             LinkResult, UnlinkResult, CrashAgent, Bar, AgentReclaims, ControllerReclaims, JobsLeft,
             vars, spool
    <2>2. \A e \in Lab : Report(e) \in barred => sent'[e] = sent[e]
      <3>1. ASSUME NEW w \in Worker, Send(w), NEW e \in Lab, Report(e) \in barred
            PROVE  sent'[e] = sent[e]
        <4>1. PICK f \in Lab :
                 /\ At(w, "send") /\ worker[w].job = Report(f)
                 /\ UNCHANGED sent \/ sent' = [sent EXCEPT ![f] = @ + 1]
          BY <2>0, <3>1, SendMoves DEF ssm
        <4>2. f # e
          BY <2>0, <3>1, <4>1, JobFacts DEF SendInv, Holds, At, Dispatching, Execution
        <4>. QED
          BY <2>0, <4>1, <4>2 DEF TypeInv, TypeOK
      <3>2. ASSUME ~\E w \in Worker : Send(w)
            PROVE  UNCHANGED sent
        BY <1>1, <3>2 DEF Next, Step, AgentStep, PublishJob, ReadResult, Dispatch, UnlinkIntent, Record,
             Wait, GiveUpDispatch, Settle, CrashWorker, Begin, LeaseExpires, CommandEnds, RecoverResults,
             TakeJob, RunCodex, LinkResult, UnlinkResult, CrashAgent, Bar, AgentReclaims,
             ControllerReclaims, vars, ssm
      <3>. QED
        BY <3>1, <3>2
    <2>3. \A j \in abarred : result[j] = "none" => result'[j] = "none"
      <3>0. result \in [Job -> {"none", "ok", "failed", "rejected"}] /\ abarred \subseteq Job
        BY <2>0 DEF TypeInv, TypeOK
      <3>1. CASE LinkResult
        <4>1. result' = result \/ \E out : result' = [result EXCEPT ![agent.job] = out]
          BY <3>1, Zenon DEF LinkResult
        <4>2. agent.job \notin abarred
          BY <2>0, <3>1 DEF AgentInv, LinkResult
        <4>. QED
          BY <3>0, <4>1, <4>2
      <3>2. ASSUME NEW e \in Execution, AgentReclaims(e)
            PROVE  \A j \in abarred : result[j] = "none" => result'[j] = "none"
        BY <3>0, <3>2 DEF AgentReclaims
      <3>3. ASSUME NEW w \in Worker, Step(w) \/ CrashWorker(w) \/ \E e \in Execution : Begin(w, e)
            PROVE  result' = result
        BY <3>3, WorkerLeaves
      <3>. QED
        BY <1>1, <3>1, <3>2, <3>3 DEF Next, AgentStep, LeaseExpires, CommandEnds, RecoverResults, Recovered,
             TakeJob, RunCodex, UnlinkResult, CrashAgent, Bar, ControllerReclaims, vars, spool
    <2>. QED
      BY <2>1, <2>2, <2>3
  <1>. QED
    BY <1>1, Inductive, PTL DEF Spec, ReclaimedStaysGone
=============================================================================

---------------------------- MODULE RetentionProofs ----------------------------
(***************************************************************************)
(* Proofs about Retention, for any tombstones, wherever a process dies and *)
(* however often: nothing is touched before it is barred, evidence goes    *)
(* after scratch, and the two processes implement Reclamation.             *)
(***************************************************************************)
EXTENDS Retention, TLAPS

-----------------------------------------------------------------------------
(* What files f and targets g say of a tombstone.                          *)

Made(f, n)    == f[n].st # "none"
There(f, n)   == f[n].st \in {"linked", "final"}
Durable(f, n) == f[n].st = "final"

\* Both sides have barred its jobs and the intent is durable.
Safe(f, t) ==
  /\ Durable(f, <<"intent", t>>)
  /\ \A j \in Barred(t) : Durable(f, <<"cbarrier", j>>) /\ Durable(f, <<"abarrier", j>>)

AgentGone(g, t)      == \A n \in AgentSide(t) : g[n] = "gone"
ControllerGone(g, t) == \A n \in ControllerSide(t) : g[n] = "gone"

\* If it is about evidence, then the scratch of its execution is gone.
ScratchGone(g, u) ==
  \A t \in Tombstone :
    Scratch(t) /\ ~Scratch(u) /\ EventOf(t) = EventOf(u) => AgentGone(g, t)

-----------------------------------------------------------------------------
(* What the operations s that a process has still to do rest on.           *)

Erases(s, i, n)    == s[i].op = "erase" /\ s[i].name = n
Publishes(s, i, n) == s[i].op = "publish" /\ s[i].name = n

\* It is gone, or will be by the time that operation i is reached.
GoneBy(s, i, n, g)  == g[n] = "gone" \/ \E j \in 1..(i - 1) : Erases(s, j, n)
ThereBy(s, i, n, f) == There(f, n) \/ \E j \in 1..(i - 1) : Publishes(s, j, n)

\* The acknowledgement is the last of the agent's operations.
AgentOk(s, f, g) ==
  \A i \in 1..Len(s) :
    /\ \A t \in Tombstone : Publishes(s, i, <<"intent", t>>) => ScratchGone(g, t)
    /\ \A t \in Tombstone : Publishes(s, i, <<"ack", t>>) =>
         /\ i = Len(s) /\ Safe(f, t)
         /\ There(f, <<"committed", t>>) \/ There(f, <<"ack", t>>)
         /\ \A n \in AgentSide(t) : GoneBy(s, i, n, g)
    /\ s[i].op = "erase" =>
         \E t \in Tombstone :
           /\ s[i].name \in AgentSide(t) /\ Safe(f, t)
           /\ There(f, <<"committed", t>>) /\ ~There(f, <<"ack", t>>)

\* The receipt comes after the targets and before the metadata is removed.
ControllerOk(s, f, g) ==
  \A i \in 1..Len(s) :
    /\ \A t \in Tombstone : Publishes(s, i, <<"committed", t>>) => ScratchGone(g, t)
    /\ \A t \in Tombstone : Publishes(s, i, <<"completed", t>>) =>
         /\ There(f, <<"ack", t>>)
         /\ \A n \in ControllerSide(t) : GoneBy(s, i, n, g)
         /\ \A j \in i..Len(s) : s[j].op = "erase" => s[j].name \notin TargetName
    /\ s[i].op = "erase" =>
         \/ \E t \in Tombstone :
              /\ s[i].name \in ControllerSide(t)
              /\ There(f, <<"ack", t>>) /\ ~There(f, <<"completed", t>>)
         \/ \E t \in Tombstone :
              /\ s[i].name \in {"prepared", "committed", "deleting"} \X {t}
              /\ ThereBy(s, i, <<"completed", t>>, f)

\* The operations, and the files that each process publishes.
Op ==
  [op: {"admit"}, owner: {"controller", "shared", "agent", "acks"},
   names: SUBSET FileName, value: Seq(Time)]
  \cup [op: {"publish"}, name: FileName, value: Seq(Time)]
  \cup [op: {"erase"}, name: FileName \cup TargetName]

Kinds == [agent      |-> {"abarrier", "intent", "ack"},
          controller |-> {"prepared", "cbarrier", "committed", "deleting", "completed"}]

-----------------------------------------------------------------------------
(* The inductive invariant.                                                *)

TodoInv ==
  /\ todo \in [Process -> Seq(Op)]
  /\ \A p \in Process : \A i \in 1..Len(todo[p]) :
       todo[p][i].op = "publish" => todo[p][i].name[1] \in Kinds[p]

\* It is durable, or is still to be published.
Coming(s, f, n) == Durable(f, n) \/ \E i \in 1..Len(s) : Publishes(s, i, n)

\* The tombstone that the controller is at, and what the agent has still to
\* announce of its own.
ControllerPlace(c, f) ==
  /\ c.step \in {"rest", "scanned", "consume"}
  /\ c.step = "consume" => c.t \in Tombstone /\ There(f, <<"ack", c.t>>)

AgentPlace(a, s, f) ==
  /\ a.step \in {"rest", "consume", "remove"}
  /\ a.step # "rest" =>
       /\ a.t \in Tombstone /\ There(f, <<"committed", a.t>>) /\ ~There(f, <<"ack", a.t>>)
       /\ \A i \in 1..Len(s) :
            s[i].op # "erase" /\ (s[i].op = "publish" => s[i].name[1] # "ack")
  /\ a.step = "remove" =>
       /\ Coming(s, f, <<"intent", a.t>>)
       /\ \A j \in Barred(a.t) :
            Durable(f, <<"cbarrier", j>>) /\ Coming(s, f, <<"abarrier", j>>)

PlaceInv ==
  /\ ControllerPlace(at["controller"], file)
  /\ AgentPlace(at["agent"], todo["agent"], file)

FilesInv ==
  \A t \in Tombstone :
    /\ Made(file, <<"committed", t>>) \/ Made(file, <<"intent", t>>) => ScratchGone(target, t)
    /\ Made(file, <<"ack", t>>) => Safe(file, t) /\ AgentGone(target, t)
    /\ Made(file, <<"completed", t>>) => There(file, <<"ack", t>>) /\ ControllerGone(target, t)
    /\ recorded[t] # -1 => Durable(file, <<"completed", t>>)

IInv ==
  /\ TypeOK /\ TodoInv /\ PlaceInv /\ FilesInv
  /\ AgentOk(todo["agent"], file, target) /\ ControllerOk(todo["controller"], file, target)
  /\ BarredBeforeRemoval

-----------------------------------------------------------------------------
(* Names and operations.                                                   *)

FileKinds   == {"prepared", "committed", "intent", "ack", "deleting", "completed", "cbarrier", "abarrier"}
TargetKinds == {"workspace", "result", "bundle", "job", "dispatch"}

LEMMA FileNames ==
  /\ \A t \in Tombstone, k \in {"prepared", "committed", "intent", "ack", "deleting", "completed"} :
       <<k, t>> \in FileName
  /\ \A j \in Barrier, k \in {"cbarrier", "abarrier"} : <<k, j>> \in FileName
  /\ \A n \in FileName : n[1] \in FileKinds
  /\ \A n \in FileName : \E x \in Tombstone \cup Barrier : n = <<n[1], x>>
BY DEF FileName, FileKinds

LEMMA TargetNames ==
  /\ \A t \in Tombstone : AgentSide(t) \subseteq TargetName /\ ControllerSide(t) \subseteq TargetName
  /\ \A n \in TargetName : \E t \in Tombstone : n \in AgentSide(t) \cup ControllerSide(t)
  /\ \A t \in Tombstone : \A n \in AgentSide(t) : n[1] \in {"workspace", "result", "bundle"}
  /\ \A t \in Tombstone : \A n \in ControllerSide(t) : n[1] \in {"job", "dispatch"}
  /\ \A n \in TargetName : n[1] \in TargetKinds
  /\ \A n \in TargetName : n \notin FileName
  <1>1. /\ \A t \in Tombstone : AgentSide(t) \subseteq TargetName /\ ControllerSide(t) \subseteq TargetName
        /\ \A n \in TargetName : \E t \in Tombstone : n \in AgentSide(t) \cup ControllerSide(t)
    BY DEF TargetName
  <1>2. ASSUME NEW t \in Tombstone, NEW n \in AgentSide(t) PROVE n[1] \in {"workspace", "result", "bundle"}
    BY <1>2 DEF AgentSide
  <1>3. ASSUME NEW t \in Tombstone, NEW n \in ControllerSide(t) PROVE n[1] \in {"job", "dispatch"}
    BY <1>3 DEF ControllerSide
  <1>4. \A n \in TargetName : n[1] \in TargetKinds
    BY <1>1, <1>2, <1>3 DEF TargetKinds
  <1>5. \A n \in TargetName : n \notin FileName
    BY <1>4, FileNames DEF TargetKinds, FileKinds
  <1>. QED
    BY <1>1, <1>2, <1>3, <1>4, <1>5

\* A target belongs to one tombstone.
LEMMA OneOwner ==
  ASSUME NEW t \in Tombstone, NEW u \in Tombstone, NEW n,
         \/ n \in AgentSide(t) /\ n \in AgentSide(u)
         \/ n \in ControllerSide(t) /\ n \in ControllerSide(u)
  PROVE  t = u
  <1>1. /\ \A v, w \in Tombstone : v # w => Barred(v) \cap Barred(w) = {}
        /\ \A v, w \in Tombstone : OneRecord(v, w) /\ ValidRecord(v)
    BY RetentionAssumption
  <1>2. \A v \in Tombstone : JobsOf(v) \subseteq Barred(v)
    BY <1>1 DEF ValidRecord
  <1>3. \A j : j \in JobsOf(t) /\ j \in JobsOf(u) => t = u
    BY <1>1, <1>2
  <1>4. \A v, w \in Tombstone : EventOf(v) = EventOf(w) /\ Scratch(v) = Scratch(w) => v = w
    BY <1>1 DEF OneRecord
  <1>5. CASE n \in AgentSide(t) /\ n \in AgentSide(u)
    <2>1. CASE Scratch(t)
      <3>1. n[1] \in {"workspace", "result"} /\ n[2] \in JobsOf(t)
        BY <1>5, <2>1 DEF AgentSide
      <3>2. n[2] \in JobsOf(u)
        BY <1>5, <3>1 DEF AgentSide
      <3>. QED
        BY <1>3, <3>1, <3>2
    <2>2. CASE ~Scratch(t)
      <3>1. n = <<"bundle", Chain[t].event>>
        BY <1>5, <2>2 DEF AgentSide
      <3>2. ~Scratch(u) /\ n = <<"bundle", Chain[u].event>>
        BY <1>5, <3>1 DEF AgentSide
      <3>3. EventOf(t) = EventOf(u)
        BY <3>1, <3>2 DEF EventOf
      <3>. QED
        BY <1>4, <2>2, <3>2, <3>3 DEF Scratch
    <2>. QED
      BY <2>1, <2>2
  <1>6. CASE n \in ControllerSide(t) /\ n \in ControllerSide(u)
    <2>1. CASE n[1] = "job"
      BY <1>3, <1>6, <2>1 DEF ControllerSide
    <2>2. CASE n[1] # "job"
      BY <1>6, <2>2 DEF ControllerSide
    <2>. QED
      BY <2>1, <2>2
  <1>. QED
    BY <1>5, <1>6

LEMMA OpFields ==
  /\ \A o, n, v : Admit(o, n, v).op = "admit" /\ Admit(o, n, v).names = n /\ Admit(o, n, v).value = v
  /\ \A n, v : Publish(n, v).op = "publish" /\ Publish(n, v).name = n /\ Publish(n, v).value = v
  /\ \A n : Erase(n).op = "erase" /\ Erase(n).name = n
BY DEF Admit, Publish, Erase

LEMMA OpTyped ==
  /\ \A o \in {"controller", "shared", "agent", "acks"}, n \in SUBSET FileName, v \in Seq(Time) :
       Admit(o, n, v) \in Op
  /\ \A n \in FileName, v \in Seq(Time) : Publish(n, v) \in Op
  /\ \A n \in FileName \cup TargetName : Erase(n) \in Op
BY DEF Admit, Publish, Erase, Op

LEMMA OpFacts ==
  ASSUME NEW o \in Op
  PROVE  /\ o.op \in {"admit", "publish", "erase"}
         /\ o.op \in {"admit", "publish"} => o.value \in Seq(Time)
         /\ o.op = "publish" => o.name \in FileName
         /\ o.op = "erase" => o.name \in FileName \cup TargetName
BY DEF Op

-----------------------------------------------------------------------------
(* Sequences of operations.                                                *)

LEMMA TailFacts ==
  ASSUME NEW S, NEW s \in Seq(S), s # << >>
  PROVE  /\ Len(s) \in Nat /\ Len(s) >= 1 /\ Head(s) = s[1] /\ s[1] \in S
         /\ Tail(s) \in Seq(S) /\ Len(Tail(s)) = Len(s) - 1
         /\ \A i \in 1..(Len(s) - 1) : Tail(s)[i] = s[i + 1]
OBVIOUS

LEMMA ConcatFacts ==
  ASSUME NEW S, NEW s \in Seq(S), NEW u \in Seq(S)
  PROVE  /\ s \o u \in Seq(S) /\ Len(s \o u) = Len(s) + Len(u)
         /\ \A i \in 1..Len(s) : (s \o u)[i] = s[i]
         /\ \A i \in (Len(s) + 1)..(Len(s) + Len(u)) : (s \o u)[i] = u[i - Len(s)]
OBVIOUS

-----------------------------------------------------------------------------
(* What steps keep.                                                        *)

\* From files f and targets g to f1 and g1: only metadata is ever removed, and
\* the committed tombstone not before it is acknowledged.
Steady(f, g, f1, g1) ==
  /\ \A n \in FileName : n[1] \notin {"prepared", "committed", "deleting"} =>
       /\ Made(f, n) => Made(f1, n)
       /\ There(f, n) => There(f1, n)
       /\ Durable(f, n) => Durable(f1, n)
  /\ \A t \in Tombstone : There(f, <<"committed", t>>) =>
       There(f1, <<"committed", t>>) \/ There(f, <<"ack", t>>)
  /\ \A n \in TargetName : g[n] = "gone" => g1[n] = "gone"

LEMMA SteadyFacts ==
  ASSUME NEW f, NEW g, NEW f1, NEW g1, Steady(f, g, f1, g1), NEW t \in Tombstone
  PROVE  /\ Safe(f, t) => Safe(f1, t)
         /\ \A k \in {"intent", "ack", "completed"} :
              /\ Made(f, <<k, t>>) => Made(f1, <<k, t>>)
              /\ There(f, <<k, t>>) => There(f1, <<k, t>>)
              /\ Durable(f, <<k, t>>) => Durable(f1, <<k, t>>)
         /\ AgentGone(g, t) => AgentGone(g1, t)
         /\ ControllerGone(g, t) => ControllerGone(g1, t)
         /\ ScratchGone(g, t) => ScratchGone(g1, t)
  <1>1. \A k \in {"intent", "ack", "completed"} :
          /\ Made(f, <<k, t>>) => Made(f1, <<k, t>>)
          /\ There(f, <<k, t>>) => There(f1, <<k, t>>)
          /\ Durable(f, <<k, t>>) => Durable(f1, <<k, t>>)
    BY FileNames DEF Steady
  <1>2. \A j \in Barrier : /\ Durable(f, <<"cbarrier", j>>) => Durable(f1, <<"cbarrier", j>>)
                           /\ Durable(f, <<"abarrier", j>>) => Durable(f1, <<"abarrier", j>>)
    BY FileNames DEF Steady
  <1>3. \A j \in Barred(t) : j \in Barrier
    BY DEF Barrier
  <1>4. Safe(f, t) => Safe(f1, t)
    BY <1>1, <1>2, <1>3 DEF Safe
  <1>5. \A u \in Tombstone : /\ AgentGone(g, u) => AgentGone(g1, u)
                             /\ ControllerGone(g, u) => ControllerGone(g1, u)
    BY TargetNames DEF Steady, AgentGone, ControllerGone
  <1>6. ScratchGone(g, t) => ScratchGone(g1, t)
    BY <1>5 DEF ScratchGone
  <1>. QED
    BY <1>1, <1>4, <1>5, <1>6

LEMMA AgentOkKept ==
  ASSUME NEW f, NEW g, NEW f1, NEW g1, Steady(f, g, f1, g1), NEW s \in Seq(Op), AgentOk(s, f, g),
         \A t \in Tombstone : There(f1, <<"ack", t>>) /\ ~There(f, <<"ack", t>>) =>
           \A i \in 1..Len(s) : s[i].op # "erase"
  PROVE  AgentOk(s, f1, g1)
  <1>1. SUFFICES ASSUME NEW i \in 1..Len(s)
                 PROVE  /\ \A t \in Tombstone : Publishes(s, i, <<"intent", t>>) => ScratchGone(g1, t)
                        /\ \A t \in Tombstone : Publishes(s, i, <<"ack", t>>) =>
                             /\ i = Len(s) /\ Safe(f1, t)
                             /\ There(f1, <<"committed", t>>) \/ There(f1, <<"ack", t>>)
                             /\ \A n \in AgentSide(t) : GoneBy(s, i, n, g1)
                        /\ s[i].op = "erase" =>
                             \E t \in Tombstone :
                               /\ s[i].name \in AgentSide(t) /\ Safe(f1, t)
                               /\ There(f1, <<"committed", t>>) /\ ~There(f1, <<"ack", t>>)
    BY Zenon DEF AgentOk
  <1>2. \A t \in Tombstone : Publishes(s, i, <<"intent", t>>) => ScratchGone(g1, t)
    BY SteadyFacts DEF AgentOk
  <1>3. ASSUME NEW t \in Tombstone, Publishes(s, i, <<"ack", t>>)
        PROVE  /\ i = Len(s) /\ Safe(f1, t)
               /\ There(f1, <<"committed", t>>) \/ There(f1, <<"ack", t>>)
               /\ \A n \in AgentSide(t) : GoneBy(s, i, n, g1)
    <2>1. /\ i = Len(s) /\ Safe(f, t)
          /\ There(f, <<"committed", t>>) \/ There(f, <<"ack", t>>)
          /\ \A n \in AgentSide(t) : GoneBy(s, i, n, g)
      BY <1>3 DEF AgentOk
    <2>2. \A n \in AgentSide(t) : GoneBy(s, i, n, g1)
      BY <2>1, TargetNames DEF GoneBy, Steady
    <2>3. There(f1, <<"committed", t>>) \/ There(f1, <<"ack", t>>)
      BY <2>1, SteadyFacts DEF Steady
    <2>. QED
      BY <2>1, <2>2, <2>3, SteadyFacts
  <1>4. ASSUME s[i].op = "erase"
        PROVE  \E t \in Tombstone :
                 /\ s[i].name \in AgentSide(t) /\ Safe(f1, t)
                 /\ There(f1, <<"committed", t>>) /\ ~There(f1, <<"ack", t>>)
    <2>1. PICK t \in Tombstone : /\ s[i].name \in AgentSide(t) /\ Safe(f, t)
                                 /\ There(f, <<"committed", t>>) /\ ~There(f, <<"ack", t>>)
      BY <1>4 DEF AgentOk
    <2>2. ~There(f1, <<"ack", t>>) /\ There(f1, <<"committed", t>>)
      BY <1>4, <2>1 DEF Steady
    <2>. QED
      BY <2>1, <2>2, SteadyFacts
  <1>. QED
    BY <1>2, <1>3, <1>4

LEMMA ControllerOkKept ==
  ASSUME NEW f, NEW g, NEW f1, NEW g1, Steady(f, g, f1, g1), NEW s \in Seq(Op), ControllerOk(s, f, g),
         \A t \in Tombstone : There(f1, <<"completed", t>>) /\ ~There(f, <<"completed", t>>) =>
           \A i \in 1..Len(s) : s[i].op = "erase" => s[i].name \notin TargetName
  PROVE  ControllerOk(s, f1, g1)
  <1>1. SUFFICES ASSUME NEW i \in 1..Len(s)
                 PROVE  /\ \A t \in Tombstone : Publishes(s, i, <<"committed", t>>) => ScratchGone(g1, t)
                        /\ \A t \in Tombstone : Publishes(s, i, <<"completed", t>>) =>
                             /\ There(f1, <<"ack", t>>)
                             /\ \A n \in ControllerSide(t) : GoneBy(s, i, n, g1)
                             /\ \A j \in i..Len(s) : s[j].op = "erase" => s[j].name \notin TargetName
                        /\ s[i].op = "erase" =>
                             \/ \E t \in Tombstone :
                                  /\ s[i].name \in ControllerSide(t)
                                  /\ There(f1, <<"ack", t>>) /\ ~There(f1, <<"completed", t>>)
                             \/ \E t \in Tombstone :
                                  /\ s[i].name \in {"prepared", "committed", "deleting"} \X {t}
                                  /\ ThereBy(s, i, <<"completed", t>>, f1)
    BY Zenon DEF ControllerOk
  <1>2. \A t \in Tombstone : Publishes(s, i, <<"committed", t>>) => ScratchGone(g1, t)
    BY SteadyFacts DEF ControllerOk
  <1>3. ASSUME NEW t \in Tombstone, Publishes(s, i, <<"completed", t>>)
        PROVE  /\ There(f1, <<"ack", t>>)
               /\ \A n \in ControllerSide(t) : GoneBy(s, i, n, g1)
               /\ \A j \in i..Len(s) : s[j].op = "erase" => s[j].name \notin TargetName
    <2>1. /\ There(f, <<"ack", t>>)
          /\ \A n \in ControllerSide(t) : GoneBy(s, i, n, g)
          /\ \A j \in i..Len(s) : s[j].op = "erase" => s[j].name \notin TargetName
      BY <1>3 DEF ControllerOk
    <2>2. \A n \in ControllerSide(t) : GoneBy(s, i, n, g1)
      BY <2>1, TargetNames DEF GoneBy, Steady
    <2>. QED
      BY <2>1, <2>2, SteadyFacts
  <1>4. ASSUME s[i].op = "erase"
        PROVE  \/ \E t \in Tombstone :
                    /\ s[i].name \in ControllerSide(t)
                    /\ There(f1, <<"ack", t>>) /\ ~There(f1, <<"completed", t>>)
               \/ \E t \in Tombstone :
                    /\ s[i].name \in {"prepared", "committed", "deleting"} \X {t}
                    /\ ThereBy(s, i, <<"completed", t>>, f1)
    <2>1. ASSUME NEW t \in Tombstone, s[i].name \in ControllerSide(t),
                 There(f, <<"ack", t>>), ~There(f, <<"completed", t>>)
          PROVE  There(f1, <<"ack", t>>) /\ ~There(f1, <<"completed", t>>)
      <3>1. s[i].name \in TargetName
        BY <2>1, TargetNames
      <3>. QED
        BY <1>4, <2>1, <3>1, SteadyFacts
    <2>2. ASSUME NEW t \in Tombstone, ThereBy(s, i, <<"completed", t>>, f)
          PROVE  ThereBy(s, i, <<"completed", t>>, f1)
      BY <2>2, SteadyFacts DEF ThereBy
    <2>3. \/ \E t \in Tombstone :
               /\ s[i].name \in ControllerSide(t)
               /\ There(f, <<"ack", t>>) /\ ~There(f, <<"completed", t>>)
          \/ \E t \in Tombstone :
               /\ s[i].name \in {"prepared", "committed", "deleting"} \X {t}
               /\ ThereBy(s, i, <<"completed", t>>, f)
      BY <1>4 DEF ControllerOk
    <2>. QED
      BY <2>1, <2>2, <2>3
  <1>. QED
    BY <1>2, <1>3, <1>4

\* The first operation is done: what it erased is gone, what it published there.
FirstDone(s, f, g) ==
  /\ s[1].op = "erase" /\ s[1].name \in TargetName => g[s[1].name] = "gone"
  /\ s[1].op = "publish" => Durable(f, s[1].name)

LEMMA ByTail ==
  ASSUME NEW f, NEW g, NEW s \in Seq(Op), s # << >>, FirstDone(s, f, g),
         NEW i \in 1..(Len(s) - 1), NEW n
  PROVE  /\ n \in TargetName /\ GoneBy(s, i + 1, n, g) => GoneBy(Tail(s), i, n, g)
         /\ ThereBy(s, i + 1, n, f) => ThereBy(Tail(s), i, n, f)
  <1>0. /\ Len(s) \in Nat /\ \A k \in 1..(Len(s) - 1) : Tail(s)[k] = s[k + 1]
    BY TailFacts
  <1>1. ASSUME n \in TargetName, NEW j \in 1..i, Erases(s, j, n) PROVE GoneBy(Tail(s), i, n, g)
    <2>1. CASE j = 1
      BY <1>1, <2>1 DEF FirstDone, Erases, GoneBy
    <2>2. CASE j # 1
      <3>1. j - 1 \in 1..(i - 1) /\ Tail(s)[j - 1] = s[j]
        BY <1>0, <2>2
      <3>2. Erases(Tail(s), j - 1, n)
        BY <1>1, <3>1 DEF Erases
      <3>. QED
        BY <3>1, <3>2 DEF GoneBy
    <2>. QED
      BY <2>1, <2>2
  <1>2. ASSUME NEW j \in 1..i, Publishes(s, j, n) PROVE ThereBy(Tail(s), i, n, f)
    <2>1. CASE j = 1
      BY <1>2, <2>1 DEF FirstDone, Publishes, ThereBy, There, Durable
    <2>2. CASE j # 1
      <3>1. j - 1 \in 1..(i - 1) /\ Tail(s)[j - 1] = s[j]
        BY <1>0, <2>2
      <3>2. Publishes(Tail(s), j - 1, n)
        BY <1>2, <3>1 DEF Publishes
      <3>. QED
        BY <3>1, <3>2 DEF ThereBy
    <2>. QED
      BY <2>1, <2>2
  <1>3. i + 1 - 1 = i
    OBVIOUS
  <1>. QED
    BY <1>1, <1>2, <1>3 DEF GoneBy, ThereBy

LEMMA AgentOkTail ==
  ASSUME NEW f, NEW g, NEW s \in Seq(Op), s # << >>, FirstDone(s, f, g), AgentOk(s, f, g)
  PROVE  AgentOk(Tail(s), f, g)
  <1>0. /\ Len(s) \in Nat /\ Len(Tail(s)) = Len(s) - 1
        /\ \A k \in 1..(Len(s) - 1) : Tail(s)[k] = s[k + 1]
    BY TailFacts
  <1>1. ASSUME NEW i \in 1..Len(Tail(s))
        PROVE  /\ \A t \in Tombstone : Publishes(Tail(s), i, <<"intent", t>>) => ScratchGone(g, t)
               /\ \A t \in Tombstone : Publishes(Tail(s), i, <<"ack", t>>) =>
                    /\ i = Len(Tail(s)) /\ Safe(f, t)
                    /\ There(f, <<"committed", t>>) \/ There(f, <<"ack", t>>)
                    /\ \A n \in AgentSide(t) : GoneBy(Tail(s), i, n, g)
               /\ Tail(s)[i].op = "erase" =>
                    \E t \in Tombstone :
                      /\ Tail(s)[i].name \in AgentSide(t) /\ Safe(f, t)
                      /\ There(f, <<"committed", t>>) /\ ~There(f, <<"ack", t>>)
    <2>1. i + 1 \in 1..Len(s) /\ Tail(s)[i] = s[i + 1] /\ i \in 1..(Len(s) - 1)
      BY <1>0
    <2>2. \A n : Publishes(Tail(s), i, n) => Publishes(s, i + 1, n)
      BY <2>1 DEF Publishes
    <2>3. ASSUME NEW t \in Tombstone, Publishes(Tail(s), i, <<"ack", t>>)
          PROVE  /\ i = Len(Tail(s)) /\ Safe(f, t)
                 /\ There(f, <<"committed", t>>) \/ There(f, <<"ack", t>>)
                 /\ \A n \in AgentSide(t) : GoneBy(Tail(s), i, n, g)
      <3>1. /\ i + 1 = Len(s) /\ Safe(f, t)
            /\ There(f, <<"committed", t>>) \/ There(f, <<"ack", t>>)
            /\ \A n \in AgentSide(t) : GoneBy(s, i + 1, n, g)
        BY <2>1, <2>2, <2>3 DEF AgentOk
      <3>2. ASSUME NEW n \in AgentSide(t) PROVE GoneBy(Tail(s), i, n, g)
        <4>1. n \in TargetName /\ GoneBy(s, i + 1, n, g)
          BY <3>1, TargetNames
        <4>. QED
          BY <2>1, <4>1, ByTail
      <3>3. i + 1 = Len(s)
        BY <3>1
      <3>4. \A k \in Nat : \A l \in 1..(k - 1) : l + 1 = k => l = k - 1
        OBVIOUS
      <3>5. i = Len(Tail(s))
        BY <1>0, <2>1, <3>3, <3>4, Zenon
      <3>. QED
        BY <3>1, <3>2, <3>5
    <2>4. \A t \in Tombstone : Publishes(Tail(s), i, <<"intent", t>>) => ScratchGone(g, t)
      BY <2>1, <2>2 DEF AgentOk
    <2>5. Tail(s)[i].op = "erase" =>
            \E t \in Tombstone :
              /\ Tail(s)[i].name \in AgentSide(t) /\ Safe(f, t)
              /\ There(f, <<"committed", t>>) /\ ~There(f, <<"ack", t>>)
      BY <2>1 DEF AgentOk
    <2>. QED
      BY <2>3, <2>4, <2>5
  <1>. QED
    BY <1>1, Zenon DEF AgentOk

LEMMA ControllerOkTail ==
  ASSUME NEW f, NEW g, NEW s \in Seq(Op), s # << >>, FirstDone(s, f, g), ControllerOk(s, f, g)
  PROVE  ControllerOk(Tail(s), f, g)
  <1>0. /\ Len(s) \in Nat /\ Len(Tail(s)) = Len(s) - 1
        /\ \A k \in 1..(Len(s) - 1) : Tail(s)[k] = s[k + 1]
    BY TailFacts
  <1>1. ASSUME NEW i \in 1..Len(Tail(s))
        PROVE  /\ \A t \in Tombstone : Publishes(Tail(s), i, <<"committed", t>>) => ScratchGone(g, t)
               /\ \A t \in Tombstone : Publishes(Tail(s), i, <<"completed", t>>) =>
                    /\ There(f, <<"ack", t>>)
                    /\ \A n \in ControllerSide(t) : GoneBy(Tail(s), i, n, g)
                    /\ \A j \in i..Len(Tail(s)) : Tail(s)[j].op = "erase" => Tail(s)[j].name \notin TargetName
               /\ Tail(s)[i].op = "erase" =>
                    \/ \E t \in Tombstone :
                         /\ Tail(s)[i].name \in ControllerSide(t)
                         /\ There(f, <<"ack", t>>) /\ ~There(f, <<"completed", t>>)
                    \/ \E t \in Tombstone :
                         /\ Tail(s)[i].name \in {"prepared", "committed", "deleting"} \X {t}
                         /\ ThereBy(Tail(s), i, <<"completed", t>>, f)
    <2>1. i + 1 \in 1..Len(s) /\ Tail(s)[i] = s[i + 1] /\ i \in 1..(Len(s) - 1)
      BY <1>0
    <2>2. \A n : Publishes(Tail(s), i, n) => Publishes(s, i + 1, n)
      BY <2>1 DEF Publishes
    <2>3. ASSUME NEW t \in Tombstone, Publishes(Tail(s), i, <<"completed", t>>)
          PROVE  /\ There(f, <<"ack", t>>)
                 /\ \A n \in ControllerSide(t) : GoneBy(Tail(s), i, n, g)
                 /\ \A j \in i..Len(Tail(s)) : Tail(s)[j].op = "erase" => Tail(s)[j].name \notin TargetName
      <3>1. /\ There(f, <<"ack", t>>)
            /\ \A n \in ControllerSide(t) : GoneBy(s, i + 1, n, g)
            /\ \A j \in (i + 1)..Len(s) : s[j].op = "erase" => s[j].name \notin TargetName
        BY <2>1, <2>2, <2>3 DEF ControllerOk
      <3>2. \A n \in ControllerSide(t) : GoneBy(Tail(s), i, n, g)
        BY <2>1, <3>1, ByTail, TargetNames
      <3>3. ASSUME NEW j \in i..Len(Tail(s)), Tail(s)[j].op = "erase" PROVE Tail(s)[j].name \notin TargetName
        <4>1. j + 1 \in (i + 1)..Len(s) /\ Tail(s)[j] = s[j + 1]
          BY <1>0, <2>1, <3>3
        <4>. QED
          BY <3>1, <3>3, <4>1
      <3>. QED
        BY <3>1, <3>2, <3>3
    <2>4. \A t \in Tombstone : Publishes(Tail(s), i, <<"committed", t>>) => ScratchGone(g, t)
      BY <2>1, <2>2 DEF ControllerOk
    <2>5. Tail(s)[i].op = "erase" =>
            \/ \E t \in Tombstone :
                 /\ Tail(s)[i].name \in ControllerSide(t)
                 /\ There(f, <<"ack", t>>) /\ ~There(f, <<"completed", t>>)
            \/ \E t \in Tombstone :
                 /\ Tail(s)[i].name \in {"prepared", "committed", "deleting"} \X {t}
                 /\ ThereBy(Tail(s), i, <<"completed", t>>, f)
      <3>1. s[i + 1].op = "erase" =>
              \/ \E t \in Tombstone :
                   /\ s[i + 1].name \in ControllerSide(t)
                   /\ There(f, <<"ack", t>>) /\ ~There(f, <<"completed", t>>)
              \/ \E t \in Tombstone :
                   /\ s[i + 1].name \in {"prepared", "committed", "deleting"} \X {t}
                   /\ ThereBy(s, i + 1, <<"completed", t>>, f)
        BY <2>1 DEF ControllerOk
      <3>2. \A t \in Tombstone : ThereBy(s, i + 1, <<"completed", t>>, f) =>
              ThereBy(Tail(s), i, <<"completed", t>>, f)
        BY <2>1, ByTail
      <3>. QED
        BY <2>1, <3>1, <3>2
    <2>. QED
      BY <2>3, <2>4, <2>5
  <1>. QED
    BY <1>1, Zenon DEF ControllerOk

-----------------------------------------------------------------------------
(* Steps on files and targets.                                             *)

\* The first operation of s takes files f and targets g to f1 and g1: a file is
\* settled, published a step further or erased, a target removed a step further.
Moves(s, f, g, f1, g1) ==
  /\ \A n \in FileName : f1[n] # f[n] =>
       \/ There(f, n) /\ Durable(f1, n)
       \/ /\ Publishes(s, 1, n) /\ Made(f1, n)
          /\ There(f, n) => There(f1, n)
          /\ Durable(f, n) => Durable(f1, n)
          /\ There(f1, n) => Made(f, n)
       \/ Erases(s, 1, n) /\ ~Made(f1, n)
  /\ \A n \in TargetName : g1[n] # g[n] => Erases(s, 1, n) /\ g[n] # "gone"

FilesTyped(f) ==
  /\ f \in [FileName -> FileState]
  /\ \A n \in FileName : f[n].st = "none" => f[n] = Absent

TargetsTyped(g) ==
  /\ g \in [TargetName -> {"whole", "moved", "partial", "gone"}]
  /\ \A n \in TargetName : g[n] = "moved" => n[1] = "workspace"
  /\ \A n \in TargetName : g[n] = "partial" => n[1] \in {"workspace", "job"}

\* What p did: it gave up, or went on with its operations.
Went(p) ==
  /\ \/ at'[p] = AtRest /\ todo'[p] = << >>
     \/ at'[p] = at[p] /\ todo'[p] = todo[p]
     \/ at'[p] = at[p] /\ todo'[p] = Tail(todo[p]) /\ FirstDone(todo[p], file', target')
  /\ at' \in [Process -> [step: Steps, t: Tombstone \cup {None}, now: Time]]
  /\ todo' = [q \in Process |-> todo'[q]]
  /\ \A q \in Process \ {p} : at'[q] = at[q] /\ todo'[q] = todo[q]
  /\ {skipOnce', idle'} \subseteq BOOLEAN
  /\ UNCHANGED <<sqlite, delivered, clock, crashes>>

LEMMA Refused ==
  ASSUME TypeOK, TodoInv, NEW p \in Process, Refuse(p)
  PROVE  /\ at'[p] = AtRest /\ todo'[p] = << >>
         /\ at' \in [Process -> [step: Steps, t: Tombstone \cup {None}, now: Time]]
         /\ todo' = [q \in Process |-> todo'[q]]
         /\ \A q \in Process \ {p} : at'[q] = at[q] /\ todo'[q] = todo[q]
         /\ {skipOnce', idle'} \subseteq BOOLEAN
  <1>1. AtRest \in [step: Steps, t: Tombstone \cup {None}, now: Time]
    BY RetentionAssumption DEF AtRest, Steps, Time
  <1>. QED
    BY <1>1 DEF TypeOK, TodoInv, Refuse

LEMMA DoneFacts ==
  ASSUME TypeOK, TodoInv, NEW p \in Process, Done(p), UNCHANGED <<at, skipOnce, idle>>
  PROVE  /\ todo'[p] = Tail(todo[p]) /\ at'[p] = at[p] /\ todo' = [q \in Process |-> todo'[q]]
         /\ at' \in [Process -> [step: Steps, t: Tombstone \cup {None}, now: Time]]
         /\ \A q \in Process \ {p} : at'[q] = at[q] /\ todo'[q] = todo[q]
         /\ {skipOnce', idle'} \subseteq BOOLEAN
BY DEF TypeOK, TodoInv, Done

\* What a process is to do first.
LEMMA FirstOp ==
  ASSUME TodoInv, NEW p \in Process, NEW o, Do(p, o)
  PROVE  /\ todo[p] \in Seq(Op) /\ todo[p] # << >> /\ Len(todo[p]) \in Nat /\ 1 \in 1..Len(todo[p])
         /\ Head(todo[p]) = todo[p][1] /\ todo[p][1] \in Op /\ todo[p][1].op = o
  <1>1. todo[p] \in Seq(Op) /\ todo[p] # << >> /\ Head(todo[p]).op = o
    BY DEF TodoInv, Do
  <1>. QED
    BY <1>1, TailFacts

LEMMA AdmittingMoves ==
  ASSUME TypeOK, TodoInv, NEW p \in Process, Admitting(p)
  PROVE  /\ Went(p) /\ Moves(todo[p], file, target, file', target')
         /\ FilesTyped(file') /\ target' = target
  <1>1. todo[p][1].op = "admit"
    BY FirstOp DEF Admitting
  <1>2. target' = target /\ UNCHANGED <<sqlite, delivered, clock, crashes>>
    BY DEF Admitting
  <1>3. FirstDone(todo[p], file', target')
    BY <1>1 DEF FirstDone
  <1>4. Went(p)
    <2>1. CASE Refuse(p)
      BY <2>1, <1>2, Refused DEF Went
    <2>2. CASE Done(p) /\ UNCHANGED <<at, skipOnce, idle>>
      BY <2>2, <1>2, <1>3, DoneFacts DEF Went
    <2>. QED
      BY <2>1, <2>2, Zenon DEF Admitting
  <1>5. \A n \in FileName : file[n] \in FileState
    BY DEF TypeOK
  <1>6. CASE UNCHANGED file
    BY <1>2, <1>4, <1>6 DEF Moves, FilesTyped, TypeOK
  <1>7. CASE ~UNCHANGED file
    <2>1. PICK S : file' = [n \in FileName |-> IF n \in S THEN [file[n] EXCEPT !.st = "final"] ELSE file[n]]
                   /\ \A n \in S : file[n].st = "linked"
      <3>1. DEFINE o == Head(todo[p])
                   S == {n \in o.names : file[n].st = "linked" /\ file[n].value = o.value}
      <3>2. file' = [n \in FileName |-> IF n \in S THEN [file[n] EXCEPT !.st = "final"] ELSE file[n]]
        BY <1>7, Zenon DEF Admitting
      <3>3. \A n \in S : file[n].st = "linked"
        OBVIOUS
      <3>. QED
        BY <3>2, <3>3
    <2>2. \A n \in FileName :
            \/ file'[n] = file[n]
            \/ file[n].st = "linked" /\ file'[n].st = "final" /\ file'[n] \in FileState
      BY <1>5, <2>1 DEF FileState
    <2>3. FilesTyped(file')
      <3>1. file' \in [FileName -> FileState]
        BY <1>5, <2>1, <2>2
      <3>. QED
        BY <2>2, <3>1 DEF TypeOK, FilesTyped
    <2>4. Moves(todo[p], file, target, file', target')
      BY <1>2, <2>2 DEF Moves, There, Durable
    <2>. QED
      BY <1>2, <1>4, <2>3, <2>4
  <1>. QED
    BY <1>6, <1>7

LEMMA PublishingMoves ==
  ASSUME TypeOK, TodoInv, NEW p \in Process, Publishing(p)
  PROVE  /\ Went(p) /\ Moves(todo[p], file, target, file', target')
         /\ FilesTyped(file') /\ target' = target
  <1> DEFINE o == Head(todo[p])
             n == o.name
             Put(st) == file' = [file EXCEPT ![n] = [st |-> st, value |-> o.value]]
  <1>1. /\ o = todo[p][1] /\ o.op = "publish" /\ n \in FileName /\ o.value \in Seq(Time)
        /\ Publishes(todo[p], 1, n)
    BY FirstOp, OpFacts DEF Publishing, Publishes
  <1>2. target' = target /\ UNCHANGED <<sqlite, delivered, clock, crashes>>
    BY DEF Publishing
  <1>3. file \in [FileName -> FileState] /\ file[n] \in FileState /\ FilesTyped(file)
    BY <1>1 DEF TypeOK, FilesTyped
  <1>4. CASE Refuse(p) /\ UNCHANGED file
    BY <1>2, <1>3, <1>4, Refused DEF Moves, FilesTyped, Went
  <1>5. CASE /\ \/ file[n].st = "none" /\ Put("torn")
                \/ file[n].st = "torn" /\ Put("staged")
                \/ file[n].st = "staged" /\ Put("linked")
                \/ file[n].st = "linked" /\ Put("final")
                \/ file[n].st = "final" /\ UNCHANGED file
             /\ IF file[n].st \in {"linked", "final"} THEN Done(p) ELSE UNCHANGED todo
             /\ UNCHANGED <<at, skipOnce, idle>>
    <2>1. \/ file[n].st = "none" /\ file'[n].st = "torn"
          \/ file[n].st = "torn" /\ file'[n].st = "staged"
          \/ file[n].st = "staged" /\ file'[n].st = "linked"
          \/ file[n].st = "linked" /\ file'[n].st = "final"
          \/ file[n].st = "final" /\ file'[n].st = "final"
      <3>1. \A st : Put(st) => file'[n] = [st |-> st, value |-> o.value]
        BY <1>1, <1>3
      <3>. QED
        BY <1>5, <3>1
    <2>2. FilesTyped(file')
      <3>1. \A st \in {"torn", "staged", "linked", "final"} : Put(st) => file' \in [FileName -> FileState]
        BY <1>1, <1>3 DEF FileState
      <3>2. file' \in [FileName -> FileState]
        BY <1>3, <1>5, <3>1
      <3>3. \A m \in FileName : m # n => file'[m] = file[m]
        BY <1>1, <1>3, <1>5
      <3>. QED
        BY <1>3, <2>1, <3>2, <3>3 DEF FilesTyped
    <2>3. \A m \in FileName : m # n => file'[m] = file[m]
      BY <1>1, <1>3, <1>5
    <2>4. Moves(todo[p], file, target, file', target')
      BY <1>1, <1>2, <2>1, <2>3 DEF Moves, There, Durable, Made
    <2>5. Went(p)
      <3>1. CASE file[n].st \in {"linked", "final"}
        <4>1. FirstDone(todo[p], file', target')
          BY <1>1, <2>1, <3>1 DEF FirstDone, Durable
        <4>2. Done(p) /\ UNCHANGED <<at, skipOnce, idle>>
          BY <1>5, <3>1
        <4>. QED
          BY <1>2, <4>1, <4>2, DoneFacts DEF Went
      <3>2. CASE file[n].st \notin {"linked", "final"}
        <4>1. UNCHANGED <<todo, at, skipOnce, idle>>
          BY <1>5, <3>2
        <4>. QED
          BY <1>2, <4>1 DEF Went, TypeOK, TodoInv
      <3>. QED
        BY <3>1, <3>2
    <2>. QED
      BY <1>2, <2>2, <2>4, <2>5
  <1>. QED
    BY <1>4, <1>5, Zenon DEF Publishing

LEMMA RemovingMoves ==
  ASSUME TypeOK, TodoInv, NEW p \in Process, Removing(p)
  PROVE  /\ Went(p) /\ Moves(todo[p], file, target, file', target')
         /\ FilesTyped(file') /\ TargetsTyped(target')
  <1> DEFINE n == Head(todo[p]).name
  <1>1. /\ Head(todo[p]) = todo[p][1] /\ n \in FileName \cup TargetName
        /\ todo[p][1].op = "erase" /\ Erases(todo[p], 1, n)
    BY FirstOp, OpFacts DEF Removing, Erases
  <1>2. /\ FilesTyped(file) /\ TargetsTyped(target)
        /\ UNCHANGED <<at, sqlite, skipOnce, idle, delivered, clock, crashes>>
    BY DEF TypeOK, FilesTyped, TargetsTyped, Removing
  <1>3. CASE n \in FileName
    <2>1. file' = [file EXCEPT ![n] = Absent] /\ Done(p) /\ target' = target
      BY <1>3, Zenon DEF Removing
    <2>2. FilesTyped(file')
      BY <1>2, <1>3, <2>1 DEF FilesTyped, FileState, Absent
    <2>3. \A m \in FileName : m # n => file'[m] = file[m]
      BY <1>2, <2>1 DEF FilesTyped
    <2>4. Moves(todo[p], file, target, file', target')
      <3>1. ~Made(file', n)
        BY <1>2, <1>3, <2>1 DEF FilesTyped, Made, Absent
      <3>. QED
        BY <1>1, <2>1, <2>3, <3>1 DEF Moves
    <2>5. FirstDone(todo[p], file', target')
      BY <1>1, <1>3, TargetNames DEF FirstDone
    <2>6. Went(p)
      BY <1>2, <2>1, <2>5, DoneFacts DEF Went
    <2>. QED
      BY <1>2, <2>1, <2>2, <2>4, <2>6
  <1>4. CASE n \notin FileName
    <2>1. /\ target' = [target EXCEPT ![n] = AfterRemoval(n)]
          /\ IF AfterRemoval(n) = "gone" THEN Done(p) ELSE UNCHANGED todo
          /\ file' = file
      BY <1>4, Zenon DEF Removing
    <2>2. n \in TargetName
      BY <1>1, <1>4
    <2>3. /\ target'[n] = AfterRemoval(n)
          /\ \A m \in TargetName : m # n => target'[m] = target[m]
          /\ DOMAIN target' = TargetName
      BY <1>2, <2>1, <2>2 DEF TargetsTyped
    <2>4. /\ AfterRemoval(n) \in {"whole", "moved", "partial", "gone"}
          /\ AfterRemoval(n) = "moved" => n[1] = "workspace"
          /\ AfterRemoval(n) = "partial" => n[1] \in {"workspace", "job"}
          /\ target[n] = "gone" => AfterRemoval(n) = "gone"
      BY DEF AfterRemoval
    <2>5. TargetsTyped(target')
      <3>1. target' \in [TargetName -> {"whole", "moved", "partial", "gone"}]
        BY <1>2, <2>1, <2>4 DEF TargetsTyped
      <3>. QED
        BY <1>2, <2>3, <2>4, <3>1 DEF TargetsTyped
    <2>6. Moves(todo[p], file, target, file', target')
      BY <1>1, <2>1, <2>3, <2>4 DEF Moves
    <2>7. Went(p)
      <3>1. CASE AfterRemoval(n) = "gone"
        <4>1. FirstDone(todo[p], file', target')
          BY <1>1, <2>3, <3>1 DEF FirstDone
        <4>. QED
          BY <1>2, <2>1, <3>1, <4>1, DoneFacts DEF Went
      <3>2. CASE AfterRemoval(n) # "gone"
        BY <1>2, <2>1, <3>2 DEF Went, TypeOK, TodoInv
      <3>. QED
        BY <3>1, <3>2
    <2>. QED
      BY <1>2, <2>1, <2>5, <2>6, <2>7
  <1>. QED
    BY <1>3, <1>4

\* Every step of a process on files and targets.
LEMMA FileStepMoves ==
  ASSUME TypeOK, TodoInv, NEW p \in Process, FileStep(p)
  PROVE  /\ Went(p) /\ Moves(todo[p], file, target, file', target')
         /\ FilesTyped(file') /\ TargetsTyped(target')
         /\ todo[p] \in Seq(Op) /\ todo[p] # << >> /\ 1 \in 1..Len(todo[p])
         /\ todo[p][1] \in Op
  <1>1. TargetsTyped(target)
    BY DEF TypeOK, TargetsTyped
  <1>2. Do(p, "admit") \/ Do(p, "publish") \/ Do(p, "erase")
    BY DEF FileStep, Admitting, Publishing, Removing
  <1>. QED
    BY <1>1, <1>2, FirstOp, AdmittingMoves, PublishingMoves, RemovingMoves DEF FileStep

-----------------------------------------------------------------------------
(* What such a step makes new, and what it keeps.                          *)

LEMMA MovesNew ==
  ASSUME NEW s, NEW f, NEW g, NEW f1, NEW g1, Moves(s, f, g, f1, g1), NEW n \in FileName
  PROVE  /\ Made(f1, n) /\ ~Made(f, n) => Publishes(s, 1, n)
         /\ There(f1, n) /\ ~There(f, n) => Publishes(s, 1, n)
         /\ There(f1, n) => Made(f, n)
BY DEF Moves, Made, There, Durable

LEMMA MovesSteady ==
  ASSUME NEW s \in Seq(Op), 1 \in 1..Len(s), NEW f, NEW g, NEW f1, NEW g1, Moves(s, f, g, f1, g1),
         \/ AgentOk(s, f, g)
         \/ /\ ControllerOk(s, f, g)
            /\ \A t \in Tombstone : There(f, <<"completed", t>>) => There(f, <<"ack", t>>)
  PROVE  Steady(f, g, f1, g1)
  <1>1. ASSUME NEW n \in FileName, Erases(s, 1, n)
        PROVE  \E t \in Tombstone : /\ n \in {"prepared", "committed", "deleting"} \X {t}
                                    /\ There(f, <<"ack", t>>)
    <2>1. n \notin TargetName
      BY TargetNames
    <2>2. \A t \in Tombstone : n \notin AgentSide(t) /\ n \notin ControllerSide(t)
      BY <2>1, TargetNames
    <2>3. ControllerOk(s, f, g) /\ \A t \in Tombstone : There(f, <<"completed", t>>) => There(f, <<"ack", t>>)
      BY <1>1, <2>2 DEF AgentOk, Erases
    <2>4. PICK t \in Tombstone : /\ n \in {"prepared", "committed", "deleting"} \X {t}
                                 /\ ThereBy(s, 1, <<"completed", t>>, f)
      BY <1>1, <2>2, <2>3 DEF ControllerOk, Erases
    <2>5. There(f, <<"completed", t>>)
      BY <2>4 DEF ThereBy
    <2>. QED
      BY <2>3, <2>4, <2>5
  <1>2. ASSUME NEW n \in FileName, n[1] \notin {"prepared", "committed", "deleting"}
        PROVE  /\ Made(f, n) => Made(f1, n)
               /\ There(f, n) => There(f1, n)
               /\ Durable(f, n) => Durable(f1, n)
    <2>1. ~Erases(s, 1, n)
      BY <1>1, <1>2
    <2>. QED
      BY <2>1 DEF Moves, Made, There, Durable
  <1>3. ASSUME NEW t \in Tombstone, There(f, <<"committed", t>>)
        PROVE  There(f1, <<"committed", t>>) \/ There(f, <<"ack", t>>)
    <2> DEFINE n == <<"committed", t>>
    <2>1. n \in FileName
      BY FileNames
    <2>2. CASE Erases(s, 1, n)
      BY <1>1, <2>1, <2>2
    <2>3. CASE ~Erases(s, 1, n)
      BY <1>3, <2>1, <2>3 DEF Moves, There, Durable
    <2>. QED
      BY <2>2, <2>3
  <1>4. \A n \in TargetName : g[n] = "gone" => g1[n] = "gone"
    BY DEF Moves
  <1>. QED
    BY <1>2, <1>3, <1>4 DEF Steady

\* A step of the agent leaves its operations in order.
LEMMA AgentMoves ==
  ASSUME NEW s \in Seq(Op), 1 \in 1..Len(s), NEW f, NEW g, NEW f1, NEW g1, Moves(s, f, g, f1, g1),
         AgentOk(s, f, g), NEW s1, s1 = << >> \/ s1 = s \/ (s1 = Tail(s) /\ FirstDone(s, f1, g1))
  PROVE  AgentOk(s1, f1, g1)
  <1>1. Steady(f, g, f1, g1)
    BY MovesSteady
  <1>2. ASSUME NEW t \in Tombstone, There(f1, <<"ack", t>>), ~There(f, <<"ack", t>>)
        PROVE  \A i \in 1..Len(s) : s[i].op # "erase"
    <2>1. Publishes(s, 1, <<"ack", t>>)
      BY <1>2, MovesNew, FileNames
    <2>2. Len(s) = 1
      BY <2>1 DEF AgentOk
    <2>. QED
      BY <2>1, <2>2 DEF Publishes
  <1>3. AgentOk(s, f1, g1)
    BY <1>1, <1>2, AgentOkKept
  <1>4. s # << >>
    OBVIOUS
  <1>5. CASE s1 = << >>
    BY <1>5 DEF AgentOk
  <1>. QED
    BY <1>3, <1>4, <1>5, AgentOkTail

\* A step of the controller too.
LEMMA ControllerMoves ==
  ASSUME NEW s \in Seq(Op), 1 \in 1..Len(s), NEW f, NEW g, NEW f1, NEW g1, Moves(s, f, g, f1, g1),
         ControllerOk(s, f, g),
         \A t \in Tombstone : There(f, <<"completed", t>>) => There(f, <<"ack", t>>),
         NEW s1, s1 = << >> \/ s1 = s \/ (s1 = Tail(s) /\ FirstDone(s, f1, g1))
  PROVE  ControllerOk(s1, f1, g1)
  <1>1. Steady(f, g, f1, g1)
    BY MovesSteady
  <1>2. ASSUME NEW t \in Tombstone, There(f1, <<"completed", t>>), ~There(f, <<"completed", t>>)
        PROVE  \A i \in 1..Len(s) : s[i].op = "erase" => s[i].name \notin TargetName
    <2>1. Publishes(s, 1, <<"completed", t>>)
      BY <1>2, MovesNew, FileNames
    <2>. QED
      BY <2>1 DEF ControllerOk
  <1>3. ControllerOk(s, f1, g1)
    BY <1>1, <1>2, ControllerOkKept
  <1>4. s # << >>
    OBVIOUS
  <1>5. CASE s1 = << >>
    BY <1>5 DEF ControllerOk
  <1>. QED
    BY <1>3, <1>4, <1>5, ControllerOkTail

\* What a process publishes is no file of the other.
LEMMA OtherKinds ==
  ASSUME TodoInv, NEW p \in Process, todo[p] # << >>, NEW n, Publishes(todo[p], 1, n)
  PROVE  n[1] \in Kinds[p]
  <1>1. 1 \in 1..Len(todo[p])
    BY TailFacts DEF TodoInv
  <1>. QED
    BY <1>1 DEF TodoInv, Publishes

LEMMA TodoMoves ==
  ASSUME TodoInv, NEW p \in Process, Went(p)
  PROVE  TodoInv'
  <1>1. ASSUME NEW q \in Process
        PROVE  /\ todo'[q] \in Seq(Op)
               /\ \A i \in 1..Len(todo'[q]) :
                    todo'[q][i].op = "publish" => todo'[q][i].name[1] \in Kinds[q]
    <2>1. CASE todo'[q] = todo[q]
      BY <2>1 DEF TodoInv
    <2>2. CASE todo'[q] = << >>
      BY <2>2
    <2>3. CASE todo[q] # << >> /\ todo'[q] = Tail(todo[q])
      <3>1. /\ Len(todo[q]) \in Nat /\ Tail(todo[q]) \in Seq(Op) /\ Len(Tail(todo[q])) = Len(todo[q]) - 1
            /\ \A i \in 1..(Len(todo[q]) - 1) : Tail(todo[q])[i] = todo[q][i + 1]
        BY <2>3, TailFacts DEF TodoInv
      <3>2. ASSUME NEW i \in 1..(Len(todo[q]) - 1)
            PROVE  todo[q][i + 1].op = "publish" => todo[q][i + 1].name[1] \in Kinds[q]
        BY <3>1 DEF TodoInv
      <3>. QED
        BY <2>3, <3>1, <3>2
    <2>4. CASE todo[q] = << >> /\ todo'[q] = Tail(todo[q])
      BY <2>4
    <2>. QED
      BY <2>1, <2>2, <2>3, <2>4 DEF Went
  <1>2. todo' \in [Process -> Seq(Op)]
    <2>1. todo' = [q \in Process |-> todo'[q]]
      BY DEF Went
    <2>. QED
      BY <1>1, <2>1
  <1>. QED
    BY <1>1, <1>2 DEF TodoInv

-----------------------------------------------------------------------------
(* Where the processes are.                                                *)

LEMMA ControllerPlaceKept ==
  ASSUME NEW f, NEW g, NEW f1, NEW g1, Steady(f, g, f1, g1), NEW c, ControllerPlace(c, f)
  PROVE  ControllerPlace(c, f1)
BY SteadyFacts DEF ControllerPlace

LEMMA AgentPlaceKept ==
  ASSUME NEW f, NEW g, NEW f1, NEW g1, Steady(f, g, f1, g1), NEW a, NEW s, AgentPlace(a, s, f),
         \/ a.step = "rest"
         \/ \A t \in Tombstone : There(f1, <<"ack", t>>) => There(f, <<"ack", t>>)
  PROVE  AgentPlace(a, s, f1)
  <1>1. CASE a.step = "rest"
    BY <1>1 DEF AgentPlace
  <1>2. CASE a.step # "rest"
    <2>1. a.t \in Tombstone /\ There(f, <<"committed", a.t>>) /\ ~There(f, <<"ack", a.t>>)
      BY <1>2 DEF AgentPlace
    <2>2. There(f1, <<"committed", a.t>>) /\ ~There(f1, <<"ack", a.t>>)
      BY <1>2, <2>1 DEF Steady
    <2>3. ASSUME a.step = "remove"
          PROVE  /\ Coming(s, f1, <<"intent", a.t>>)
                 /\ \A j \in Barred(a.t) :
                      Durable(f1, <<"cbarrier", j>>) /\ Coming(s, f1, <<"abarrier", j>>)
      <3>1. \A j \in Barred(a.t) : <<"cbarrier", j>> \in FileName /\ <<"abarrier", j>> \in FileName
        BY <2>1, FileNames DEF Barrier
      <3>2. <<"intent", a.t>> \in FileName
        BY <2>1, FileNames
      <3>3. \A n \in FileName : n[1] \in {"intent", "cbarrier", "abarrier"} => (Durable(f, n) => Durable(f1, n))
        BY DEF Steady
      <3>4. /\ Coming(s, f, <<"intent", a.t>>)
            /\ \A j \in Barred(a.t) :
                 Durable(f, <<"cbarrier", j>>) /\ Coming(s, f, <<"abarrier", j>>)
        BY <2>3 DEF AgentPlace
      <3>. QED
        BY <3>1, <3>2, <3>3, <3>4 DEF Coming
    <2>. QED
      BY <2>1, <2>2, <2>3 DEF AgentPlace
  <1>. QED
    BY <1>1, <1>2

LEMMA AgentPlaceTail ==
  ASSUME NEW f, NEW g, NEW a, NEW s \in Seq(Op), s # << >>, FirstDone(s, f, g), AgentPlace(a, s, f)
  PROVE  AgentPlace(a, Tail(s), f)
  <1>1. /\ Len(s) \in Nat /\ Len(Tail(s)) = Len(s) - 1
        /\ \A i \in 1..(Len(s) - 1) : Tail(s)[i] = s[i + 1]
    BY TailFacts
  <1>2. ASSUME NEW n, Coming(s, f, n) PROVE Coming(Tail(s), f, n)
    <2>1. CASE Durable(f, n)
      BY <2>1 DEF Coming
    <2>2. ASSUME NEW i \in 1..Len(s), Publishes(s, i, n) PROVE Coming(Tail(s), f, n)
      <3>1. CASE i = 1
        BY <2>2, <3>1 DEF FirstDone, Publishes, Coming
      <3>2. CASE i # 1
        <4>1. i - 1 \in 1..Len(Tail(s)) /\ Tail(s)[i - 1] = s[i]
          BY <1>1, <3>2
        <4>. QED
          BY <2>2, <4>1 DEF Publishes, Coming
      <3>. QED
        BY <3>1, <3>2
    <2>. QED
      BY <1>2, <2>1, <2>2 DEF Coming
  <1>3. ASSUME \A i \in 1..Len(s) : s[i].op # "erase" /\ (s[i].op = "publish" => s[i].name[1] # "ack"),
               NEW i \in 1..Len(Tail(s))
        PROVE  Tail(s)[i].op # "erase" /\ (Tail(s)[i].op = "publish" => Tail(s)[i].name[1] # "ack")
    <2>1. i + 1 \in 1..Len(s) /\ Tail(s)[i] = s[i + 1]
      BY <1>1
    <2>. QED
      BY <1>3, <2>1
  <1>. QED
    BY <1>2, <1>3 DEF AgentPlace

-----------------------------------------------------------------------------
(* Steps on files and targets keep the invariant.                          *)

\* A file that is there has been made, and a durable one is there.
LEMMA Degrees ==
  ASSUME NEW f, NEW n
  PROVE  (Durable(f, n) => There(f, n)) /\ (There(f, n) => Made(f, n))
BY DEF Durable, There, Made

LEMMA FileStepFacts ==
  ASSUME IInv, NEW p \in Process, FileStep(p)
  PROVE  /\ Went(p) /\ Moves(todo[p], file, target, file', target')
         /\ FilesTyped(file') /\ TargetsTyped(target')
         /\ todo[p] \in Seq(Op) /\ todo[p] # << >> /\ 1 \in 1..Len(todo[p])
         /\ Steady(file, target, file', target')
         /\ AgentOk(todo["agent"], file, target) /\ ControllerOk(todo["controller"], file, target)
         /\ \A t \in Tombstone : There(file, <<"completed", t>>) => There(file, <<"ack", t>>)
         /\ \A n : Publishes(todo[p], 1, n) => n[1] \in Kinds[p]
  <1>1. /\ Went(p) /\ Moves(todo[p], file, target, file', target')
        /\ FilesTyped(file') /\ TargetsTyped(target')
        /\ todo[p] \in Seq(Op) /\ todo[p] # << >> /\ 1 \in 1..Len(todo[p])
    BY FileStepMoves DEF IInv
  <1>2. \A t \in Tombstone : There(file, <<"completed", t>>) => There(file, <<"ack", t>>)
    BY Degrees DEF IInv, FilesInv
  <1>3. AgentOk(todo["agent"], file, target) /\ ControllerOk(todo["controller"], file, target)
    BY DEF IInv
  <1>4. Steady(file, target, file', target')
    <2>1. CASE p = "agent"
      BY <1>1, <1>3, <2>1, MovesSteady
    <2>2. CASE p = "controller"
      BY <1>1, <1>2, <1>3, <2>2, MovesSteady
    <2>. QED
      BY <2>1, <2>2 DEF Process
  <1>5. \A n : Publishes(todo[p], 1, n) => n[1] \in Kinds[p]
    BY <1>1, OtherKinds DEF IInv
  <1>. QED
    BY <1>1, <1>2, <1>3, <1>4, <1>5

LEMMA FileStepOk ==
  ASSUME IInv, NEW p \in Process, FileStep(p)
  PROVE  AgentOk(todo'["agent"], file', target') /\ ControllerOk(todo'["controller"], file', target')
  <1>1. CASE p = "agent"
    <2>1. AgentOk(todo'["agent"], file', target')
      BY <1>1, FileStepFacts, AgentMoves DEF Went
    <2>2. ASSUME NEW t \in Tombstone, There(file', <<"completed", t>>) PROVE There(file, <<"completed", t>>)
      <3>1. CASE Publishes(todo[p], 1, <<"completed", t>>)
        BY <1>1, <3>1, FileStepFacts DEF Kinds
      <3>. QED
        BY <2>2, <3>1, FileStepFacts, FileNames, MovesNew
    <2>3. todo'["controller"] = todo["controller"] /\ todo["controller"] \in Seq(Op)
      BY <1>1, FileStepFacts DEF Went, Process, IInv, TodoInv
    <2>4. ControllerOk(todo["controller"], file', target')
      BY <2>2, <2>3, FileStepFacts, ControllerOkKept
    <2>. QED
      BY <2>1, <2>3, <2>4
  <1>2. CASE p = "controller"
    <2>1. ControllerOk(todo'["controller"], file', target')
      BY <1>2, FileStepFacts, ControllerMoves DEF Went
    <2>2. ASSUME NEW t \in Tombstone, There(file', <<"ack", t>>) PROVE There(file, <<"ack", t>>)
      <3>1. CASE Publishes(todo[p], 1, <<"ack", t>>)
        BY <1>2, <3>1, FileStepFacts DEF Kinds
      <3>. QED
        BY <2>2, <3>1, FileStepFacts, FileNames, MovesNew
    <2>3. todo'["agent"] = todo["agent"] /\ todo["agent"] \in Seq(Op)
      BY <1>2, FileStepFacts DEF Went, Process, IInv, TodoInv
    <2>4. AgentOk(todo["agent"], file', target')
      BY <2>2, <2>3, FileStepFacts, AgentOkKept
    <2>. QED
      BY <2>1, <2>3, <2>4
  <1>. QED
    BY <1>1, <1>2 DEF Process

LEMMA FileStepPlace ==
  ASSUME IInv, NEW p \in Process, FileStep(p)
  PROVE  PlaceInv'
  <1> USE DEF Process
  <1>1. ControllerPlace(at["controller"], file') /\ ControllerPlace(AtRest, file')
    BY FileStepFacts, ControllerPlaceKept DEF IInv, PlaceInv, ControllerPlace, AtRest
  <1>2. ControllerPlace(at'["controller"], file')
    BY <1>1, FileStepFacts DEF Went
  <1>3. AgentPlace(AtRest, << >>, file')
    BY DEF AgentPlace, AtRest
  <1>4. CASE at'["agent"] = AtRest /\ todo'["agent"] = << >>
    BY <1>2, <1>3, <1>4 DEF PlaceInv
  <1>5. CASE ~(at'["agent"] = AtRest /\ todo'["agent"] = << >>)
    <2>1. /\ at'["agent"] = at["agent"]
          /\ \/ todo'["agent"] = todo["agent"]
             \/ /\ todo'["agent"] = Tail(todo["agent"]) /\ FirstDone(todo["agent"], file', target')
                /\ todo["agent"] # << >>
      BY <1>5, FileStepFacts DEF Went
    <2>2. ASSUME at["agent"].step # "rest", NEW t \in Tombstone,
                 There(file', <<"ack", t>>), ~There(file, <<"ack", t>>)
          PROVE  FALSE
      <3>1. Publishes(todo[p], 1, <<"ack", t>>)
        BY <2>2, FileStepFacts, FileNames, MovesNew
      <3>2. p = "agent"
        BY <3>1, FileStepFacts DEF Kinds
      <3>3. 1 \in 1..Len(todo["agent"])
        BY <3>2, FileStepFacts
      <3>. QED
        BY <2>2, <3>1, <3>2, <3>3 DEF IInv, PlaceInv, AgentPlace, Publishes
    <2>3. AgentPlace(at["agent"], todo["agent"], file')
      BY <2>2, FileStepFacts, AgentPlaceKept DEF IInv, PlaceInv
    <2>4. todo["agent"] \in Seq(Op)
      BY DEF IInv, TodoInv
    <2>5. AgentPlace(at'["agent"], todo'["agent"], file')
      BY <2>1, <2>3, <2>4, AgentPlaceTail
    <2>. QED
      BY <1>2, <2>5 DEF PlaceInv
  <1>. QED
    BY <1>4, <1>5

LEMMA FileStepFiles ==
  ASSUME IInv, NEW p \in Process, FileStep(p)
  PROVE  FilesInv'
  <1> DEFINE s == todo[p]
  <1>1. /\ Steady(file, target, file', target') /\ recorded' = recorded
        /\ 1 \in 1..Len(s)
        /\ p = "agent" => AgentOk(s, file, target)
        /\ p = "controller" => ControllerOk(s, file, target)
    BY FileStepFacts DEF Went, sqlite
  <1>2. \A n \in FileName : Made(file', n) /\ ~Made(file, n) => Publishes(s, 1, n) /\ n[1] \in Kinds[p]
    BY FileStepFacts, MovesNew
  <1>3. p \in {"agent", "controller"}
    BY DEF Process
  <1> HIDE DEF s
  <1>4. ASSUME NEW t \in Tombstone
        PROVE  /\ Made(file', <<"committed", t>>) \/ Made(file', <<"intent", t>>) => ScratchGone(target', t)
               /\ Made(file', <<"ack", t>>) => Safe(file', t) /\ AgentGone(target', t)
               /\ Made(file', <<"completed", t>>) => There(file', <<"ack", t>>) /\ ControllerGone(target', t)
               /\ recorded'[t] # -1 => Durable(file', <<"completed", t>>)
    <2>1. /\ Made(file, <<"committed", t>>) \/ Made(file, <<"intent", t>>) => ScratchGone(target, t)
          /\ Made(file, <<"ack", t>>) => Safe(file, t) /\ AgentGone(target, t)
          /\ Made(file, <<"completed", t>>) => There(file, <<"ack", t>>) /\ ControllerGone(target, t)
          /\ recorded[t] # -1 => Durable(file, <<"completed", t>>)
      BY DEF IInv, FilesInv
    <2>2. \A k \in {"committed", "intent", "ack", "completed"} :
            Made(file', <<k, t>>) /\ ~Made(file, <<k, t>>) => Publishes(s, 1, <<k, t>>) /\ k \in Kinds[p]
      BY <1>2, FileNames
    <2>3. Publishes(s, 1, <<"committed", t>>) /\ "committed" \in Kinds[p] => ScratchGone(target, t)
      BY <1>1, <1>3 DEF Kinds, ControllerOk
    <2>4. Publishes(s, 1, <<"intent", t>>) /\ "intent" \in Kinds[p] => ScratchGone(target, t)
      BY <1>1, <1>3 DEF Kinds, AgentOk
    <2>5. ASSUME Publishes(s, 1, <<"ack", t>>), "ack" \in Kinds[p]
          PROVE  Safe(file, t) /\ AgentGone(target, t)
      <3>1. Safe(file, t) /\ \A n \in AgentSide(t) : GoneBy(s, 1, n, target)
        <4>1. AgentOk(s, file, target)
          BY <1>1, <1>3, <2>5 DEF Kinds
        <4>. QED
          BY <1>1, <2>5, <4>1 DEF AgentOk
      <3>. QED
        BY <3>1 DEF GoneBy, AgentGone
    <2>6. ASSUME Publishes(s, 1, <<"completed", t>>), "completed" \in Kinds[p]
          PROVE  There(file, <<"ack", t>>) /\ ControllerGone(target, t)
      <3>1. There(file, <<"ack", t>>) /\ \A n \in ControllerSide(t) : GoneBy(s, 1, n, target)
        BY <1>1, <1>3, <2>6 DEF Kinds, ControllerOk
      <3>. QED
        BY <3>1 DEF GoneBy, ControllerGone
    <2>7. Made(file', <<"committed", t>>) \/ Made(file', <<"intent", t>>) => ScratchGone(target, t)
      BY <2>1, <2>2, <2>3, <2>4
    <2>8. Made(file', <<"ack", t>>) => Safe(file, t) /\ AgentGone(target, t)
      BY <2>1, <2>2, <2>5
    <2>9. Made(file', <<"completed", t>>) => There(file, <<"ack", t>>) /\ ControllerGone(target, t)
      BY <2>1, <2>2, <2>6
    <2>. QED
      BY <1>1, <2>1, <2>7, <2>8, <2>9, SteadyFacts
  <1>. QED
    BY <1>4, Zenon DEF FilesInv

\* What is touched is barred, in terms of what the files say.
LEMMA BarredIsSafe ==
  BarredBeforeRemoval <=> \A t \in Tombstone : Touched(t) => Safe(file, t)
BY DEF BarredBeforeRemoval, Safe, Durable, Readable

LEMMA FileStepBarred ==
  ASSUME IInv, NEW p \in Process, FileStep(p)
  PROVE  \A t \in Tombstone : Touched(t)' => Safe(file', t)
  <1>1. /\ Steady(file, target, file', target') /\ 1 \in 1..Len(todo[p])
        /\ AgentOk(todo["agent"], file, target) /\ ControllerOk(todo["controller"], file, target)
        /\ Moves(todo[p], file, target, file', target')
    BY FileStepFacts
  <1>2. ASSUME NEW t \in Tombstone, Touched(t) PROVE Safe(file', t)
    BY <1>1, <1>2, BarredIsSafe, SteadyFacts DEF IInv
  <1>3. ASSUME NEW t \in Tombstone, Touched(t)', ~Touched(t) PROVE Safe(file', t)
    <2>1. PICK n \in AgentSide(t) \cup ControllerSide(t) : target'[n] # target[n]
      BY <1>3 DEF Touched
    <2>2. n \in TargetName /\ n \notin FileName
      BY TargetNames
    <2>3. Erases(todo[p], 1, n)
      BY <1>1, <2>1, <2>2 DEF Moves
    <2>4. CASE p = "agent"
      <3>1. PICK u \in Tombstone : n \in AgentSide(u) /\ Safe(file, u)
        BY <1>1, <2>3, <2>4 DEF AgentOk, Erases
      <3>2. n \in AgentSide(t)
        BY <3>1, TargetNames
      <3>3. u = t
        BY <3>1, <3>2, OneOwner
      <3>. QED
        BY <1>1, <3>1, <3>3, SteadyFacts
    <2>5. CASE p = "controller"
      <3>1. \A u \in Tombstone : n \notin {"prepared", "committed", "deleting"} \X {u}
        BY <2>2 DEF FileName
      <3>2. PICK u \in Tombstone : n \in ControllerSide(u) /\ There(file, <<"ack", u>>)
        BY <1>1, <2>3, <2>5, <3>1 DEF ControllerOk, Erases
      <3>3. n \in ControllerSide(t)
        BY <3>2, TargetNames
      <3>4. u = t
        BY <3>2, <3>3, OneOwner
      <3>5. Safe(file, t)
        BY <3>2, <3>4, Degrees DEF IInv, FilesInv
      <3>. QED
        BY <1>1, <3>5, SteadyFacts
    <2>. QED
      BY <2>4, <2>5 DEF Process
  <1>. QED
    BY <1>2, <1>3

LEMMA FileStepTypes ==
  ASSUME IInv, NEW p \in Process, FileStep(p)
  PROVE  TypeOK' /\ TodoInv'
  <1>1. /\ FilesTyped(file') /\ TargetsTyped(target') /\ Went(p) /\ TodoInv /\ TypeOK
    BY FileStepFacts DEF IInv
  <1>2. \A q \in Process : todo'[q] # << >> => at'[q].step \in {"rest", "consume", "remove"}
    <2>1. ASSUME NEW q \in Process, todo'[q] # << >> PROVE at'[q].step \in {"rest", "consume", "remove"}
      <3>1. CASE at'[q] = AtRest
        BY <3>1 DEF AtRest
      <3>2. CASE at'[q] = at[q] /\ todo[q] # << >>
        BY <1>1, <3>2 DEF TypeOK
      <3>3. todo[q] = << >> => Tail(todo[q]) = << >>
        OBVIOUS
      <3>. QED
        BY <1>1, <2>1, <3>1, <3>2, <3>3 DEF Went
    <2>. QED
      BY <2>1
  <1>3. TypeOK'
    BY <1>1, <1>2 DEF TypeOK, FilesTyped, TargetsTyped, Went, sqlite
  <1>. QED
    BY <1>1, <1>3, TodoMoves

LEMMA FileStepIInv ==
  ASSUME IInv, NEW p \in Process, FileStep(p)
  PROVE  IInv'
  <1>1. BarredBeforeRemoval'
    BY FileStepBarred DEF BarredBeforeRemoval, Safe, Durable, Readable
  <1>. QED
    BY <1>1, FileStepTypes, FileStepOk, FileStepPlace, FileStepFiles DEF IInv

-----------------------------------------------------------------------------
(* Lists of operations.                                                    *)

LEMMA EraseEach ==
  ASSUME NEW S, NEW q \in Seq(S)
  PROVE  /\ DOMAIN Each(Erase, q) = 1..Len(q) /\ Len(Each(Erase, q)) = Len(q)
         /\ \A i \in 1..Len(q) : Each(Erase, q)[i] = Erase(q[i])
         /\ S \subseteq FileName \cup TargetName => Each(Erase, q) \in Seq(Op)
  <1>1. Each(Erase, q) = [i \in 1..Len(q) |-> Erase(q[i])]
    BY DEF Each
  <1>2. ASSUME S \subseteq FileName \cup TargetName PROVE \A i \in 1..Len(q) : Erase(q[i]) \in Op
    BY <1>2, OpTyped
  <1>3. Len(q) \in Nat
    OBVIOUS
  <1>. QED
    BY <1>1, <1>2, <1>3

LEMMA RangeFacts ==
  ASSUME NEW S, NEW q \in Seq(S)
  PROVE  /\ Range(q) \subseteq S
         /\ \A i \in 1..Len(q) : q[i] \in Range(q)
         /\ \A x \in Range(q) : \E i \in 1..Len(q) : q[i] = x
BY DEF Range

\* A chain's own sequences.
LEMMA ChainFacts ==
  ASSUME NEW t \in Tombstone
  PROVE  /\ Chain[t].jobs \in Seq(JobsOf(t)) /\ Chain[t].barriers \in Seq(Barred(t))
         /\ \A j \in JobsOf(t) : \E i \in 1..Len(Chain[t].jobs) : Chain[t].jobs[i] = j
         /\ \A j \in Barred(t) : \E i \in 1..Len(Chain[t].barriers) : Chain[t].barriers[i] = j
         /\ Barred(t) \subseteq Barrier
         /\ Scratch(t) <=> Chain[t].jobs # << >>
         /\ JobsOf(t) = {} <=> ~Scratch(t)
  <1>1. /\ Chain[t].jobs \in Seq(JobsOf(t)) /\ Chain[t].barriers \in Seq(Barred(t))
        /\ Scratch(t) <=> Chain[t].jobs # << >>
    BY RetentionAssumption DEF ValidRecord
  <1>2. /\ \A j \in JobsOf(t) : \E i \in 1..Len(Chain[t].jobs) : Chain[t].jobs[i] = j
        /\ \A j \in Barred(t) : \E i \in 1..Len(Chain[t].barriers) : Chain[t].barriers[i] = j
        /\ \A i \in 1..Len(Chain[t].jobs) : Chain[t].jobs[i] \in JobsOf(t)
    BY <1>1, RangeFacts DEF JobsOf, Barred
  <1>3. Chain[t].jobs # << >> => 1 \in 1..Len(Chain[t].jobs)
    BY <1>1
  <1>4. Chain[t].jobs = << >> => JobsOf(t) = {}
    BY <1>2
  <1>. QED
    BY <1>1, <1>2, <1>3, <1>4 DEF Barrier

LEMMA RecoverFacts ==
  ASSUME TypeOK, NEW t \in Tombstone
  PROVE  /\ CommittedAt(t) \in Seq(Time)
         /\ Recover(t) \in Seq(Op) /\ Len(Recover(t)) = 1 /\ Recover(t)[1].op = "admit"
  <1>1. <<"committed", t>> \in FileName
    BY FileNames
  <1>2. CommittedAt(t) \in Seq(Time)
    BY <1>1 DEF TypeOK, CommittedAt, FileState
  <1>3. Admit("shared", {<<"committed", t>>}, CommittedAt(t)) \in Op
    BY <1>1, <1>2, OpTyped
  <1>. QED
    BY <1>2, <1>3, OpFields DEF Recover

LEMMA FourParts ==
  ASSUME NEW S, NEW a \in Seq(S), NEW b \in Seq(S), NEW c \in S, NEW d \in Seq(S),
         NEW s, s = ((a \o b) \o <<c>>) \o d,
         NEW la, la = Len(a), NEW lb, lb = la + Len(b)
  PROVE  /\ s \in Seq(S) /\ Len(s) = lb + 1 + Len(d)
         /\ la \in Nat /\ lb \in Nat /\ Len(b) \in Nat /\ Len(d) \in Nat
         /\ \A i \in 1..la : s[i] = a[i]
         /\ \A i \in (la + 1)..lb : s[i] = b[i - la]
         /\ s[lb + 1] = c
         /\ \A i \in (lb + 2)..Len(s) : s[i] = d[i - (lb + 1)]
  <1>0. PICK x, y : x = a \o b /\ y = x \o <<c>> /\ s = y \o d
    OBVIOUS
  <1>1. /\ la \in Nat /\ Len(b) \in Nat /\ lb \in Nat /\ Len(d) \in Nat
    OBVIOUS
  <1>2. /\ x \in Seq(S) /\ Len(x) = lb
        /\ \A i \in 1..la : x[i] = a[i]
        /\ \A i \in (la + 1)..lb : x[i] = b[i - la]
    BY <1>0, ConcatFacts
  <1>3. /\ <<c>> \in Seq(S) /\ Len(<<c>>) = 1 /\ <<c>>[1] = c
    OBVIOUS
  <1>4. /\ y \in Seq(S) /\ Len(y) = lb + 1
        /\ \A i \in 1..lb : y[i] = x[i]
        /\ \A i \in (lb + 1)..(lb + 1) : y[i] = <<c>>[i - lb]
    BY <1>0, <1>2, <1>3, ConcatFacts
  <1>5. y[lb + 1] = c
    BY <1>1, <1>3, <1>4
  <1>6. /\ s \in Seq(S) /\ Len(s) = lb + 1 + Len(d)
        /\ \A i \in 1..(lb + 1) : s[i] = y[i]
        /\ \A i \in (lb + 2)..(lb + 1 + Len(d)) : s[i] = d[i - (lb + 1)]
    <2>1. /\ y \o d \in Seq(S) /\ Len(y \o d) = (lb + 1) + Len(d)
          /\ \A i \in 1..(lb + 1) : (y \o d)[i] = y[i]
          /\ \A i \in (lb + 1 + 1)..((lb + 1) + Len(d)) : (y \o d)[i] = d[i - (lb + 1)]
      <3>1. y \in Seq(S) /\ Len(y) = lb + 1
        BY <1>4
      <3>2. /\ y \o d \in Seq(S) /\ Len(y \o d) = Len(y) + Len(d)
            /\ \A i \in 1..Len(y) : (y \o d)[i] = y[i]
            /\ \A i \in (Len(y) + 1)..(Len(y) + Len(d)) : (y \o d)[i] = d[i - Len(y)]
        BY <3>1, ConcatFacts
      <3>. QED
        BY <3>1, <3>2, Zenon
    <2>2. lb + 1 + 1 = lb + 2
      BY <1>1
    <2>. QED
      BY <1>0, <2>1, <2>2
  <1>7. \A i \in 1..la : i \in 1..lb /\ i \in 1..(lb + 1)
    BY <1>1
  <1>8. \A i \in (la + 1)..lb : i \in 1..lb /\ i \in 1..(lb + 1)
    BY <1>1
  <1>9. \A i \in 1..la : s[i] = a[i]
    BY <1>2, <1>4, <1>6, <1>7
  <1>10. \A i \in (la + 1)..lb : s[i] = b[i - la]
    BY <1>2, <1>4, <1>6, <1>8
  <1>11. lb + 1 \in 1..(lb + 1)
    BY <1>1
  <1>12. s[lb + 1] = c
    BY <1>5, <1>6, <1>11
  <1>. QED
    BY <1>1, <1>6, <1>9, <1>10, <1>12

\* The controller's list: marker, targets, receipt, metadata.
ReclaimShape(s, t, la, lb) ==
  /\ la \in Nat /\ lb \in Nat /\ la <= lb /\ Len(s) \in Nat /\ lb + 1 <= Len(s)
  /\ \A i \in 1..la : /\ s[i].op # "erase"
                      /\ s[i].op = "publish" => s[i].name[1] \notin {"committed", "completed"}
  /\ \A i \in (la + 1)..lb : s[i].op = "erase" /\ s[i].name \in ControllerSide(t)
  /\ \A n \in ControllerSide(t) : \E i \in (la + 1)..lb : s[i].name = n
  /\ s[lb + 1].op = "publish" /\ s[lb + 1].name = <<"completed", t>>
  /\ \A i \in (lb + 2)..Len(s) :
       s[i].op = "erase" /\ s[i].name \in {"prepared", "committed", "deleting"} \X {t}

LEMMA ReclaimList ==
  ASSUME NEW f, NEW g, NEW t \in Tombstone, There(f, <<"ack", t>>), ~There(f, <<"completed", t>>),
         NEW s, NEW la, NEW lb, ReclaimShape(s, t, la, lb)
  PROVE  ControllerOk(s, f, g)
  <1> USE DEF ReclaimShape
  <1>2. ASSUME NEW i \in 1..Len(s)
        PROVE  i \in 1..la \/ i \in (la + 1)..lb \/ i = lb + 1 \/ i \in (lb + 2)..Len(s)
    OBVIOUS
  <1>3. \A n \in ControllerSide(t) : \E j \in 1..lb : Erases(s, j, n)
    <2>1. \A i \in (la + 1)..lb : i \in 1..lb
      OBVIOUS
    <2>. QED
      BY <2>1 DEF Erases
  <1>4. ASSUME NEW i \in 1..Len(s), NEW n, Publishes(s, i, n), n[1] \in {"committed", "completed"}
        PROVE  i = lb + 1 /\ n = <<"completed", t>>
    BY <1>2, <1>4 DEF Publishes
  <1>5. ASSUME NEW i \in 1..Len(s), NEW u \in Tombstone, Publishes(s, i, <<"completed", u>>)
        PROVE  /\ There(f, <<"ack", u>>)
               /\ \A n \in ControllerSide(u) : GoneBy(s, i, n, g)
               /\ \A j \in i..Len(s) : s[j].op = "erase" => s[j].name \notin TargetName
    <2>1. i = lb + 1 /\ u = t
      BY <1>4, <1>5
    <2>4. lb + 1 - 1 = lb
      OBVIOUS
    <2>2. \A n \in ControllerSide(t) : GoneBy(s, i, n, g)
      BY <1>3, <2>1, <2>4 DEF GoneBy
    <2>3. ASSUME NEW j \in i..Len(s), s[j].op = "erase" PROVE s[j].name \notin TargetName
      <3>1. j \in 1..Len(s) /\ j \notin 1..lb
        BY <2>1
      <3>2. j \notin 1..la /\ j \notin (la + 1)..lb
        BY <3>1
      <3>3. s[j].name \in {"prepared", "committed", "deleting"} \X {t}
        BY <1>2, <2>3, <3>1, <3>2
      <3>4. s[j].name \in FileName
        BY <3>3 DEF FileName
      <3>. QED
        BY <3>4, TargetNames
    <2>. QED
      BY <2>1, <2>2, <2>3
  <1>6. ASSUME NEW i \in 1..Len(s), s[i].op = "erase"
        PROVE  \/ /\ s[i].name \in ControllerSide(t)
                  /\ There(f, <<"ack", t>>) /\ ~There(f, <<"completed", t>>)
               \/ /\ s[i].name \in {"prepared", "committed", "deleting"} \X {t}
                  /\ ThereBy(s, i, <<"completed", t>>, f)
    <2>1. CASE i \in (lb + 2)..Len(s)
      <3>1. lb + 1 \in 1..(i - 1) /\ Publishes(s, lb + 1, <<"completed", t>>)
        BY <2>1 DEF Publishes
      <3>. QED
        BY <2>1, <3>1 DEF ThereBy
    <2>. QED
      BY <1>2, <1>6, <2>1
  <1>7. ASSUME NEW i \in 1..Len(s)
        PROVE  /\ \A u \in Tombstone : Publishes(s, i, <<"committed", u>>) => ScratchGone(g, u)
               /\ \A u \in Tombstone : Publishes(s, i, <<"completed", u>>) =>
                    /\ There(f, <<"ack", u>>)
                    /\ \A n \in ControllerSide(u) : GoneBy(s, i, n, g)
                    /\ \A j \in i..Len(s) : s[j].op = "erase" => s[j].name \notin TargetName
               /\ s[i].op = "erase" =>
                    \/ \E u \in Tombstone :
                         /\ s[i].name \in ControllerSide(u)
                         /\ There(f, <<"ack", u>>) /\ ~There(f, <<"completed", u>>)
                    \/ \E u \in Tombstone :
                         /\ s[i].name \in {"prepared", "committed", "deleting"} \X {u}
                         /\ ThereBy(s, i, <<"completed", u>>, f)
    <2>1. \A u \in Tombstone : ~Publishes(s, i, <<"committed", u>>)
      BY <1>4
    <2>. QED
      BY <1>5, <1>6, <2>1
  <1>8. ControllerOk(s, f, g)
    BY <1>7, Zenon DEF ControllerOk
  <1>. QED
    BY <1>8

LEMMA ConsFacts ==
  ASSUME NEW S, NEW x \in S, NEW d \in Seq(S), NEW s, s = <<x>> \o d
  PROVE  /\ s \in Seq(S) /\ Len(s) = 1 + Len(d) /\ Len(d) \in Nat /\ s[1] = x
         /\ \A i \in 1..Len(s) : i = 1 \/ (i - 1 \in 1..Len(d) /\ s[i] = d[i - 1])
         /\ \A i \in 1..Len(d) : i + 1 \in 1..Len(s) /\ s[i + 1] = d[i]
  <1>1. <<x>> \in Seq(S) /\ Len(<<x>>) = 1 /\ <<x>>[1] = x
    OBVIOUS
  <1>2. Len(d) \in Nat
    OBVIOUS
  <1>3. /\ s \in Seq(S) /\ Len(s) = Len(<<x>>) + Len(d)
        /\ \A i \in 1..Len(<<x>>) : s[i] = <<x>>[i]
        /\ \A i \in (Len(<<x>>) + 1)..(Len(<<x>>) + Len(d)) : s[i] = d[i - Len(<<x>>)]
    BY <1>1, ConcatFacts, Zenon
  <1>4. /\ s \in Seq(S) /\ Len(s) = 1 + Len(d)
        /\ \A i \in 1..1 : s[i] = <<x>>[i]
        /\ \A i \in (1 + 1)..(1 + Len(d)) : s[i] = d[i - 1]
    BY <1>1, <1>3, Zenon
  <1>5. \A i \in 1..(1 + Len(d)) : i = 1 \/ (i - 1 \in 1..Len(d) /\ i \in (1 + 1)..(1 + Len(d)))
    BY <1>2
  <1>6. \A i \in 1..Len(d) : /\ i + 1 \in 1..(1 + Len(d)) /\ (i + 1) - 1 = i
                             /\ i + 1 \in (1 + 1)..(1 + Len(d))
    BY <1>2
  <1>7. 1 \in 1..1
    OBVIOUS
  <1>8. s[1] = x
    BY <1>1, <1>4, <1>7, Zenon
  <1>9. \A i \in 1..Len(d) : i + 1 \in 1..Len(s) /\ s[i + 1] = d[i]
    BY <1>4, <1>6, Zenon
  <1>10. \A i \in 1..Len(s) : i = 1 \/ (i - 1 \in 1..Len(d) /\ s[i] = d[i - 1])
    BY <1>4, <1>5, Zenon
  <1>. QED
    BY <1>2, <1>4, <1>8, <1>9, <1>10

\* What the controller erases last.
Metadata(t) == <<<<"prepared", t>>, <<"committed", t>>, <<"deleting", t>>>>

LEMMA MetadataErased ==
  ASSUME NEW t \in Tombstone
  PROVE  /\ Each(Erase, Metadata(t)) \in Seq(Op) /\ Len(Each(Erase, Metadata(t))) = 3
         /\ \A i \in 1..3 : /\ Each(Erase, Metadata(t))[i].op = "erase"
                           /\ Each(Erase, Metadata(t))[i].name \in {"prepared", "committed", "deleting"} \X {t}
  <1> DEFINE S == {"prepared", "committed", "deleting"} \X {t}
             d == Each(Erase, Metadata(t))
  <1>1. Metadata(t) \in Seq(S) /\ Len(Metadata(t)) = 3 /\ \A i \in 1..3 : Metadata(t)[i] \in S
    BY DEF Metadata
  <1>2. S \subseteq FileName \cup TargetName
    BY DEF FileName
  <1> HIDE DEF S
  <1>3. /\ Len(d) = Len(Metadata(t)) /\ d \in Seq(Op)
        /\ \A i \in 1..Len(Metadata(t)) : d[i] = Erase(Metadata(t)[i])
    BY <1>1, <1>2, EraseEach
  <1> HIDE DEF d
  <1>4. d \in Seq(Op) /\ Len(d) = 3 /\ \A i \in 1..3 : d[i] = Erase(Metadata(t)[i])
    BY <1>1, <1>3, Zenon
  <1>5. \A i \in 1..3 : d[i].op = "erase" /\ d[i].name \in S
    BY <1>1, <1>4, OpFields
  <1>. QED
    BY <1>4, <1>5 DEF S, d

LEMMA FinishFacts ==
  ASSUME TypeOK, NEW t \in Tombstone, There(file, <<"completed", t>>), NEW s, s = FinishOps(t)
  PROVE  /\ s \in Seq(Op)
         /\ \A i \in 1..Len(s) : s[i].op # "publish"
         /\ ControllerOk(s, file, target)
  <1> DEFINE x == Admit("controller", {<<"completed", t>>}, file[<<"completed", t>>].value)
             d == Each(Erase, Metadata(t))
  <1>1. s = <<x>> \o d
    BY Zenon DEF FinishOps, Metadata
  <1>2. /\ d \in Seq(Op) /\ Len(d) = 3
        /\ \A i \in 1..3 : d[i].op = "erase" /\ d[i].name \in {"prepared", "committed", "deleting"} \X {t}
    BY MetadataErased
  <1>3. x \in Op /\ x.op = "admit"
    <2>1. <<"completed", t>> \in FileName
      BY FileNames
    <2>2. file[<<"completed", t>>].value \in Seq(Time)
      BY <2>1 DEF TypeOK, FileState
    <2>3. {<<"completed", t>>} \in SUBSET FileName
      BY <2>1
    <2>. QED
      BY <2>2, <2>3, OpTyped, OpFields
  <1> HIDE DEF x, d
  <1>4. /\ s \in Seq(Op) /\ s[1] = x
        /\ \A i \in 1..Len(s) : i = 1 \/ (i - 1 \in 1..Len(d) /\ s[i] = d[i - 1])
    <2>1. x \in Op /\ d \in Seq(Op)
      BY <1>2, <1>3
    <2>. QED
      BY <1>1, <2>1, ConsFacts
  <1>5. ASSUME NEW i \in 1..Len(s)
        PROVE  \/ s[i].op = "admit"
               \/ s[i].op = "erase" /\ s[i].name \in {"prepared", "committed", "deleting"} \X {t}
    BY <1>2, <1>3, <1>4
  <1>6. ASSUME NEW i \in 1..Len(s) PROVE s[i].op # "publish"
    BY <1>5
  <1>7. ControllerOk(s, file, target)
    BY <1>5, <1>6 DEF ControllerOk, Publishes, ThereBy
  <1>. QED
    BY <1>4, <1>6, <1>7

\* The head of the controller's list: the ledger is checked, the marker published.
LEMMA MarkerFacts ==
  ASSUME NEW t \in Tombstone, NEW v \in Seq(Time),
         NEW mark \in {<< >>, <<<<"deleting", t>>>>},
         NEW x, x = Admit("controller", Range(mark) \cup {<<"completed", t>>}, v)
  PROVE  /\ x \in Op /\ x.op = "admit" /\ Len(mark) \in Nat
         /\ \A i \in 1..Len(mark) :
              /\ Publish(mark[i], v) \in Op
              /\ Publish(mark[i], v).op = "publish" /\ Publish(mark[i], v).name = <<"deleting", t>>
  <1>1. <<"completed", t>> \in FileName /\ <<"deleting", t>> \in FileName
    BY FileNames
  <1>2. mark \in Seq({<<"deleting", t>>})
    <2>1. << >> \in Seq({<<"deleting", t>>}) /\ <<<<"deleting", t>>>> \in Seq({<<"deleting", t>>})
      OBVIOUS
    <2>2. mark = << >> \/ mark = <<<<"deleting", t>>>>
      OBVIOUS
    <2>. QED
      BY <2>1, <2>2, Zenon
  <1>3. Range(mark) \subseteq FileName /\ \A i \in 1..Len(mark) : mark[i] = <<"deleting", t>>
    BY <1>1, <1>2, RangeFacts
  <1>4. x \in Op /\ x.op = "admit"
    <2>1. Range(mark) \cup {<<"completed", t>>} \in SUBSET FileName
      BY <1>1, <1>3
    <2>. QED
      BY <2>1, OpTyped, OpFields
  <1>5. \A i \in 1..Len(mark) : Publish(mark[i], v) \in Op
    BY <1>1, <1>3, OpTyped
  <1>6. Len(mark) \in Nat
    BY <1>2
  <1>. QED
    BY <1>3, <1>4, <1>5, <1>6, OpFields

\* What the controller reclaims is its side of the tombstone.
Dispatch(t) == IF Chain[t].dispatch THEN <<<<"dispatch", t>>>> ELSE << >>
Reclaimable(t) == Names("job", Chain[t].jobs) \o Dispatch(t)

LEMMA ReclaimedTargets ==
  ASSUME NEW t \in Tombstone
  PROVE  /\ Reclaimable(t) \in Seq(ControllerSide(t))
         /\ \A n \in ControllerSide(t) : \E i \in 1..Len(Reclaimable(t)) : Reclaimable(t)[i] = n
  <1>1. PICK y, j, dispatch, q : /\ y = Names("job", j) /\ j = Chain[t].jobs
                                 /\ dispatch = Dispatch(t) /\ q = Reclaimable(t)
    OBVIOUS
  <1>2. /\ j \in Seq(JobsOf(t))
        /\ \A k \in JobsOf(t) : \E i \in 1..Len(j) : j[i] = k
    BY <1>1, ChainFacts
  <1>3. /\ y \in Seq({"job"} \X JobsOf(t)) /\ Len(y) = Len(j)
        /\ \A i \in 1..Len(j) : y[i] = <<"job", j[i]>>
    <2>1. y = [i \in 1..Len(j) |-> <<"job", j[i]>>]
      BY <1>1, Zenon DEF Names, Each
    <2>2. Len(j) \in Nat /\ \A i \in 1..Len(j) : <<"job", j[i]>> \in {"job"} \X JobsOf(t)
      BY <1>2
    <2>. QED
      BY <2>1, <2>2
  <1>4. y \in Seq(ControllerSide(t)) /\ dispatch \in Seq(ControllerSide(t))
    <2>1. {"job"} \X JobsOf(t) \subseteq ControllerSide(t)
      BY DEF ControllerSide
    <2>2. Chain[t].dispatch => <<"dispatch", t>> \in ControllerSide(t)
      BY DEF ControllerSide
    <2>3. y \in Seq(ControllerSide(t))
      BY <1>3, <2>1
    <2>4. dispatch \in Seq(ControllerSide(t))
      BY <1>1, <2>2 DEF Dispatch
    <2>. QED
      BY <2>3, <2>4
  <1>5. /\ q \in Seq(ControllerSide(t)) /\ Len(q) = Len(y) + Len(dispatch)
        /\ \A i \in 1..Len(y) : q[i] = y[i]
        /\ \A i \in (Len(y) + 1)..(Len(y) + Len(dispatch)) : q[i] = dispatch[i - Len(y)]
    <2>1. q = y \o dispatch
      BY <1>1, Zenon DEF Reclaimable
    <2>. QED
      BY <1>4, <2>1, ConcatFacts
  <1>6. Len(y) \in Nat /\ Len(dispatch) \in Nat
    BY <1>4
  <1>7. ASSUME NEW n \in {"job"} \X JobsOf(t) PROVE \E i \in 1..Len(q) : q[i] = n
    <2>1. PICK i \in 1..Len(j) : n = <<"job", j[i]>>
      BY <1>2
    <2>2. i \in 1..Len(y)
      BY <1>3
    <2>3. \A l, m \in Nat : \A k \in 1..l : k \in 1..(l + m)
      OBVIOUS
    <2>4. i \in 1..Len(q)
      BY <1>5, <1>6, <2>2, <2>3, Zenon
    <2>. QED
      BY <1>3, <1>5, <2>1, <2>2, <2>4, Zenon
  <1>8. ASSUME Chain[t].dispatch PROVE \E i \in 1..Len(q) : q[i] = <<"dispatch", t>>
    <2>1. dispatch = <<<<"dispatch", t>>>>
      BY <1>1, <1>8 DEF Dispatch
    <2>2. Len(dispatch) = 1 /\ dispatch[1] = <<"dispatch", t>>
      <3>1. \A e : Len(<<e>>) = 1 /\ <<e>>[1] = e
        OBVIOUS
      <3>. QED
        BY <2>1, <3>1, Zenon
    <2>3. \A l \in Nat : l + 1 \in 1..(l + 1) /\ l + 1 \in (l + 1)..(l + 1) /\ (l + 1) - l = 1
      OBVIOUS
    <2>4. Len(y) + 1 \in 1..Len(q) /\ q[Len(y) + 1] = dispatch[1]
      BY <1>5, <1>6, <2>2, <2>3
    <2>. QED
      BY <2>2, <2>4
  <1>9. ASSUME NEW n \in ControllerSide(t) PROVE \E i \in 1..Len(q) : q[i] = n
    <2>1. n \in {"job"} \X JobsOf(t) \/ (Chain[t].dispatch /\ n = <<"dispatch", t>>)
      BY DEF ControllerSide
    <2>. QED
      BY <1>7, <1>8, <2>1
  <1>. QED
    BY <1>1, <1>5, <1>9, Zenon

LEMMA ReclaimFacts ==
  ASSUME TypeOK, NEW t \in Tombstone, NEW s, s = ReclaimOps(t),
         There(file, <<"ack", t>>), ~There(file, <<"completed", t>>)
  PROVE  /\ s \in Seq(Op)
         /\ \A i \in 1..Len(s) : s[i].op = "publish" => s[i].name[1] \in {"deleting", "completed"}
         /\ ControllerOk(s, file, target)
  <1> DEFINE v == file[<<"ack", t>>].value
             mark == IF Scratch(t) /\ ~Exists(<<"deleting", t>>) THEN <<<<"deleting", t>>>> ELSE << >>
             r == Each(LAMBDA n : Publish(n, v), mark)
             x == Admit("controller", Range(mark) \cup {<<"completed", t>>}, v)
             q == Reclaimable(t)
             a == <<x>> \o r
             b == Each(Erase, q)
             c == Publish(<<"completed", t>>, v)
             d == Each(Erase, Metadata(t))
  <1>1. s = ((a \o b) \o <<c>>) \o d
    BY Zenon DEF ReclaimOps, Reclaimable, Dispatch, Metadata
  <1>2. v \in Seq(Time) /\ <<"completed", t>> \in FileName
    BY FileNames DEF TypeOK, FileState
  <1>3. mark \in {<< >>, <<<<"deleting", t>>>>}
    OBVIOUS
  <1>4. /\ a \in Seq(Op)
        /\ \A i \in 1..Len(a) : a[i].op = "admit" \/ (a[i].op = "publish" /\ a[i].name = <<"deleting", t>>)
    <2>1. r = [i \in 1..Len(mark) |-> Publish(mark[i], v)]
      BY DEF Each
    <2> HIDE DEF v, mark, r
    <2>2. x = Admit("controller", Range(mark) \cup {<<"completed", t>>}, v)
      OBVIOUS
    <2> HIDE DEF x
    <2>3. /\ x \in Op /\ x.op = "admit" /\ r \in Seq(Op)
          /\ \A i \in 1..Len(r) : r[i].op = "publish" /\ r[i].name = <<"deleting", t>>
      <3>1. /\ x \in Op /\ x.op = "admit" /\ Len(mark) \in Nat
            /\ \A i \in 1..Len(mark) :
                 /\ Publish(mark[i], v) \in Op
                 /\ Publish(mark[i], v).op = "publish" /\ Publish(mark[i], v).name = <<"deleting", t>>
        BY <1>2, <1>3, <2>2, MarkerFacts
      <3>2. /\ r \in Seq(Op) /\ Len(r) = Len(mark)
            /\ \A i \in 1..Len(mark) : r[i] = Publish(mark[i], v)
        BY <2>1, <3>1
      <3>. QED
        BY <3>1, <3>2, Zenon
    <2>4. a = <<x>> \o r
      OBVIOUS
    <2> HIDE DEF a
    <2>5. x \in Op /\ r \in Seq(Op)
      BY <2>3
    <2>6. /\ a \in Seq(Op) /\ a[1] = x
          /\ \A i \in 1..Len(a) : i = 1 \/ (i - 1 \in 1..Len(r) /\ a[i] = r[i - 1])
      BY <2>4, <2>5, ConsFacts
    <2>. QED
      BY <2>3, <2>6, Zenon
  <1>5. /\ q \in Seq(ControllerSide(t))
        /\ \A n \in ControllerSide(t) : \E i \in 1..Len(q) : q[i] = n
    BY ReclaimedTargets
  <1> HIDE DEF q
  <1>6. /\ b \in Seq(Op) /\ Len(b) = Len(q)
        /\ \A i \in 1..Len(q) : b[i].op = "erase" /\ b[i].name = q[i] /\ q[i] \in ControllerSide(t)
    <2>1. ControllerSide(t) \subseteq FileName \cup TargetName
      BY TargetNames
    <2>2. b \in Seq(Op) /\ Len(b) = Len(q) /\ \A i \in 1..Len(q) : b[i] = Erase(q[i])
      BY <1>5, <2>1, EraseEach, Zenon
    <2>3. \A i \in 1..Len(q) : q[i] \in ControllerSide(t)
      BY <1>5
    <2> HIDE DEF b
    <2>. QED
      BY <2>2, <2>3, OpFields
  <1>7. c \in Op /\ c.op = "publish" /\ c.name = <<"completed", t>>
    BY <1>2, OpTyped, OpFields
  <1>8. /\ d \in Seq(Op) /\ Len(d) = 3
        /\ \A i \in 1..3 : d[i].op = "erase" /\ d[i].name \in {"prepared", "committed", "deleting"} \X {t}
    BY MetadataErased, Zenon
  <1> HIDE DEF a, b, c, d
  <1>9. PICK la, lb : la = Len(a) /\ lb = la + Len(b)
    OBVIOUS
  <1>10. /\ s \in Seq(Op) /\ Len(s) = lb + 1 + Len(d)
         /\ la \in Nat /\ lb \in Nat /\ Len(b) \in Nat /\ Len(d) \in Nat
         /\ \A i \in 1..la : s[i] = a[i]
         /\ \A i \in (la + 1)..lb : s[i] = b[i - la]
         /\ s[lb + 1] = c
         /\ \A i \in (lb + 2)..Len(s) : s[i] = d[i - (lb + 1)]
    <2>1. a \in Seq(Op) /\ b \in Seq(Op) /\ c \in Op /\ d \in Seq(Op)
      BY <1>4, <1>6, <1>7, <1>8
    <2>. QED
      BY <1>1, <1>9, <2>1, FourParts
  <1>11. PICK k \in Nat : k = Len(b) /\ k = Len(q) /\ lb = la + k /\ Len(s) = lb + 1 + 3
    BY <1>6, <1>8, <1>9, <1>10, Zenon
  <1>12. \A i \in 1..la : s[i].op = "admit" \/ (s[i].op = "publish" /\ s[i].name = <<"deleting", t>>)
    BY <1>4, <1>9, <1>10, Zenon
  <1>13. \A l, m \in Nat : /\ \A i \in (l + 1)..(l + m) : i - l \in 1..m
                           /\ \A i \in 1..m : l + i \in (l + 1)..(l + m) /\ (l + i) - l = i
    OBVIOUS
  <1>14. \A i \in (la + 1)..lb : s[i].op = "erase" /\ s[i].name \in ControllerSide(t)
    <2>1. ASSUME NEW i \in (la + 1)..lb PROVE s[i].op = "erase" /\ s[i].name \in ControllerSide(t)
      <3>1. i - la \in 1..k
        BY <1>10, <1>11
      <3>2. s[i] = b[i - la] /\ i - la \in 1..Len(q)
        BY <1>10, <1>11, <3>1, Zenon
      <3>. QED
        BY <1>6, <3>2
    <2>. QED
      BY <2>1
  <1>15. ASSUME NEW n \in ControllerSide(t) PROVE \E i \in (la + 1)..lb : s[i].name = n
    <2>1. PICK i \in 1..k : q[i] = n
      BY <1>5, <1>11, Zenon
    <2>2. la + i \in (la + 1)..lb /\ s[la + i] = b[i]
      <3>1. la + i \in (la + 1)..lb /\ (la + i) - la = i
        <4>1. la \in Nat /\ k \in Nat /\ i \in 1..k /\ lb = la + k
          BY <1>10, <1>11
        <4>. QED
          BY <4>1
      <3>2. \A h \in (la + 1)..lb : s[h] = b[h - la]
        BY <1>10, Zenon
      <3>3. s[la + i] = b[(la + i) - la]
        BY <3>1, <3>2, Zenon
      <3>4. (la + i) - la = i
        BY <3>1, Zenon
      <3>5. b[(la + i) - la] = b[i]
        BY <3>4, Zenon
      <3>. QED
        BY <3>1, <3>3, <3>5, Zenon
    <2>3. b[i].name = n
      BY <1>6, <1>11, <2>1, Zenon
    <2>. QED
      BY <2>2, <2>3, Zenon
  <1>17. \A i \in (lb + 2)..Len(s) :
           s[i].op = "erase" /\ s[i].name \in {"prepared", "committed", "deleting"} \X {t}
    <2>1. ASSUME NEW i \in (lb + 2)..Len(s)
          PROVE  s[i].op = "erase" /\ s[i].name \in {"prepared", "committed", "deleting"} \X {t}
      <3>1. i - (lb + 1) \in 1..3
        BY <1>10, <1>11
      <3>2. s[i] = d[i - (lb + 1)]
        BY <1>10
      <3>. QED
        BY <1>8, <3>1, <3>2
    <2>. QED
      BY <2>1
  <1>18. s[lb + 1].op = "publish" /\ s[lb + 1].name = <<"completed", t>>
    BY <1>7, <1>10, Zenon
  <1>19. la \in Nat /\ lb \in Nat /\ 3 \in Nat
    BY <1>10
  <1>20. \A i \in 1..la : /\ s[i].op # "erase"
                          /\ s[i].op = "publish" => s[i].name[1] \notin {"committed", "completed"}
    BY <1>12
  <1>21. ControllerOk(s, file, target)
    <2>1. la <= lb /\ Len(s) \in Nat /\ lb + 1 <= Len(s)
      BY <1>11, <1>19
    <2>2. \A n \in ControllerSide(t) : \E i \in (la + 1)..lb : s[i].name = n
      BY <1>15
    <2>3. ReclaimShape(s, t, la, lb)
      BY <1>14, <1>17, <1>18, <1>19, <1>20, <2>1, <2>2, Zenon DEF ReclaimShape
    <2>. QED
      BY <2>3, ReclaimList
  <1>22. \A l, m \in Nat : \A i \in 1..(l + m + 1 + 3) :
           i \in 1..l \/ i \in (l + 1)..(l + m) \/ i = l + m + 1 \/ i \in (l + m + 2)..(l + m + 1 + 3)
    OBVIOUS
  <1>23. \A i \in 1..Len(s) : i \in 1..la \/ i \in (la + 1)..lb \/ i = lb + 1 \/ i \in (lb + 2)..Len(s)
    BY <1>11, <1>19, <1>22, Zenon
  <1>24. \A i \in 1..Len(s) : s[i].op = "publish" => s[i].name[1] \in {"deleting", "completed"}
    BY <1>12, <1>14, <1>17, <1>18, <1>23
  <1>. QED
    BY <1>10, <1>21, <1>24

\* The barriers of a tombstone, and the record that follows them.
Barriers(k, t, n) == Append(Names(k, Chain[t].barriers), n)

LEMMA BarriersFacts ==
  ASSUME NEW t \in Tombstone, NEW k, NEW n, NEW q, q = Barriers(k, t, n)
  PROVE  /\ q \in Seq(({k} \X Barred(t)) \cup {n})
         /\ \A m \in ({k} \X Barred(t)) \cup {n} : \E i \in 1..Len(q) : q[i] = m
  <1>1. PICK y, j : y = Names(k, j) /\ j = Chain[t].barriers
    OBVIOUS
  <1>2. /\ j \in Seq(Barred(t))
        /\ \A b \in Barred(t) : \E i \in 1..Len(j) : j[i] = b
    BY <1>1, ChainFacts
  <1>3. /\ y \in Seq({k} \X Barred(t)) /\ Len(y) = Len(j) /\ Len(j) \in Nat
        /\ \A i \in 1..Len(j) : y[i] = <<k, j[i]>>
    <2>1. y = [i \in 1..Len(j) |-> <<k, j[i]>>]
      BY <1>1, Zenon DEF Names, Each
    <2>2. Len(j) \in Nat /\ \A i \in 1..Len(j) : <<k, j[i]>> \in {k} \X Barred(t)
      BY <1>2
    <2>. QED
      BY <2>1, <2>2
  <1>4. q = Append(y, n)
    BY <1>1, Zenon DEF Barriers
  <1>5. y \in Seq(({k} \X Barred(t)) \cup {n})
    BY <1>3
  <1>6. /\ q \in Seq(({k} \X Barred(t)) \cup {n}) /\ Len(q) = Len(y) + 1
        /\ \A i \in 1..Len(y) : q[i] = y[i]
        /\ q[Len(y) + 1] = n
    BY <1>4, <1>5
  <1>7. /\ Len(y) + 1 \in 1..Len(q)
        /\ \A i \in 1..Len(j) : i \in 1..Len(q) /\ i \in 1..Len(y)
    BY <1>3, <1>6
  <1>8. ASSUME NEW m \in {k} \X Barred(t) PROVE \E i \in 1..Len(q) : q[i] = m
    <2>1. PICK i \in 1..Len(j) : m = <<k, j[i]>>
      BY <1>2
    <2>. QED
      BY <1>3, <1>6, <1>7, <2>1
  <1>. QED
    BY <1>6, <1>7, <1>8

\* Publications of records with the same times.
LEMMA PublishList ==
  ASSUME NEW S, S \subseteq FileName, NEW v \in Seq(Time), NEW q, q \in Seq(S)
  PROVE  /\ Len(q) \in Nat
         /\ \A i \in 1..Len(q) :
              /\ Publish(q[i], v) \in Op
              /\ Publish(q[i], v).op = "publish" /\ Publish(q[i], v).name = q[i] /\ q[i] \in S
  <1>1. Len(q) \in Nat /\ \A i \in 1..Len(q) : q[i] \in S
    OBVIOUS
  <1>. QED
    BY <1>1, OpTyped, OpFields

\* The files of a tombstone's barriers.
LEMMA BarrierFiles ==
  ASSUME NEW t \in Tombstone, NEW k \in {"cbarrier", "abarrier"}, NEW n \in FileName
  PROVE  ({k} \X Barred(t)) \cup {n} \subseteq FileName
  <1>1. \A j \in Barred(t) : <<k, j>> \in FileName
    BY FileNames, ChainFacts
  <1>. QED
    BY <1>1

LEMMA CommitFacts ==
  ASSUME NEW t \in Tombstone, NEW now \in Time, ScratchGone(target, t), NEW s, s = CommitOps(t, now)
  PROVE  /\ s \in Seq(Op)
         /\ \A i \in 1..Len(s) :
              /\ s[i].op # "erase"
              /\ s[i].op = "publish" => s[i].name[1] \in {"prepared", "cbarrier", "committed"}
         /\ ControllerOk(s, file, target)
  <1> DEFINE q == Barriers("cbarrier", t, <<"committed", t>>)
             S == ({"cbarrier"} \X Barred(t)) \cup {<<"committed", t>>}
             x == Admit("controller", {<<"prepared", t>>}, << >>)
             y == Publish(<<"prepared", t>>, << >>)
             z == Admit("shared", Range(q), <<now>>)
             r == Each(LAMBDA n : Publish(n, <<now>>), q)
  <1>1. s = <<x, y, z>> \o r
    BY Zenon DEF CommitOps, Barriers
  <1>2. <<"prepared", t>> \in FileName /\ <<"committed", t>> \in FileName
    BY FileNames
  <1>3. S \subseteq FileName
    BY <1>2, BarrierFiles
  <1>4. q \in Seq(S)
    BY BarriersFacts
  <1>5. r = [i \in 1..Len(q) |-> Publish(q[i], <<now>>)]
    BY Zenon DEF Each
  <1>6. << >> \in Seq(Time) /\ <<now>> \in Seq(Time)
    OBVIOUS
  <1> HIDE DEF q, S, r
  <1>7. /\ r \in Seq(Op) /\ Len(r) = Len(q)
        /\ \A i \in 1..Len(q) : r[i].op = "publish" /\ r[i].name = q[i] /\ q[i] \in S
    <2>1. /\ Len(q) \in Nat
          /\ \A i \in 1..Len(q) :
               /\ Publish(q[i], <<now>>) \in Op
               /\ Publish(q[i], <<now>>).op = "publish" /\ Publish(q[i], <<now>>).name = q[i]
               /\ q[i] \in S
      BY <1>3, <1>4, <1>6, PublishList
    <2>2. r \in Seq(Op) /\ Len(r) = Len(q) /\ \A i \in 1..Len(q) : r[i] = Publish(q[i], <<now>>)
      BY <1>5, <2>1
    <2>. QED
      BY <2>1, <2>2, Zenon
  <1>8. /\ x \in Op /\ x.op = "admit" /\ z \in Op /\ z.op = "admit"
        /\ y \in Op /\ y.op = "publish" /\ y.name = <<"prepared", t>>
    <2>1. {<<"prepared", t>>} \in SUBSET FileName
      BY <1>2
    <2>2. Range(q) \in SUBSET FileName
      <3>1. Range(q) \subseteq S
        BY <1>4, RangeFacts
      <3>. QED
        BY <1>3, <3>1
    <2>3. x \in Op /\ z \in Op
      BY <1>6, <2>1, <2>2, OpTyped
    <2>4. x.op = "admit" /\ z.op = "admit"
      BY OpFields
    <2>5. y \in Op /\ y.op = "publish" /\ y.name = <<"prepared", t>>
      BY <1>2, <1>6, OpTyped, OpFields
    <2>. QED
      BY <2>3, <2>4, <2>5
  <1> HIDE DEF x, y, z
  <1>9. \A i \in 1..Len(r) : r[i].op = "publish" /\ r[i].name \in S
    BY <1>7
  <1>10. ASSUME NEW i \in 1..Len(s)
         PROVE  \/ s[i].op = "admit"
                \/ s[i].op = "publish" /\ s[i].name \in S \cup {<<"prepared", t>>}
    <2>1. <<x, y, z>> \in Seq(Op) /\ r \in Seq(Op)
      BY <1>7, <1>8
    <2>2. Len(<<x, y, z>>) = 3 /\ Len(r) \in Nat
      BY <1>7
    <2>3. /\ Len(s) = 3 + Len(r)
          /\ \A k \in 1..3 : s[k] = <<x, y, z>>[k]
          /\ \A k \in (3 + 1)..(3 + Len(r)) : s[k] = r[k - 3]
      <3>1. PICK w : w = <<x, y, z>>
        OBVIOUS
      <3>2. /\ w \o r \in Seq(Op) /\ Len(w \o r) = Len(w) + Len(r)
            /\ \A k \in 1..Len(w) : (w \o r)[k] = w[k]
            /\ \A k \in (Len(w) + 1)..(Len(w) + Len(r)) : (w \o r)[k] = r[k - Len(w)]
        BY <2>1, <3>1, ConcatFacts
      <3>. QED
        BY <1>1, <2>2, <3>1, <3>2, Zenon
    <2>4. i = 1 \/ i = 2 \/ i = 3 \/ (i \in (3 + 1)..(3 + Len(r)) /\ i - 3 \in 1..Len(r))
      BY <2>2, <2>3
    <2>5. s[1] = x /\ s[2] = y /\ s[3] = z
      BY <2>3
    <2>. QED
      BY <1>8, <1>9, <2>3, <2>4, <2>5
  <1>11. s \in Seq(Op)
    <2>1. <<x, y, z>> \in Seq(Op) /\ r \in Seq(Op)
      BY <1>7, <1>8
    <2>. QED
      BY <1>1, <2>1, ConcatFacts, Zenon
  <1>12. ASSUME NEW i \in 1..Len(s)
         PROVE  /\ s[i].op # "erase"
                /\ s[i].op = "publish" => s[i].name[1] \in {"prepared", "cbarrier", "committed"}
    BY <1>10 DEF S
  <1>13. ASSUME NEW i \in 1..Len(s), NEW u \in Tombstone
         PROVE  /\ ~Publishes(s, i, <<"completed", u>>)
                /\ Publishes(s, i, <<"committed", u>>) => u = t
    BY <1>10 DEF S, Publishes
  <1>14. ControllerOk(s, file, target)
    BY <1>12, <1>13 DEF ControllerOk
  <1>. QED
    BY <1>11, <1>12, <1>14

\* The agent's announcement: barriers, then the intent.
AnnounceOps(t, v) ==
  <<Admit("agent", Range(Announced(t)), v)>> \o Each(LAMBDA n : Publish(n, v), Announced(t))

LEMMA AnnounceFacts ==
  ASSUME NEW t \in Tombstone, NEW v \in Seq(Time), ScratchGone(target, t),
         NEW s, s = AnnounceOps(t, v)
  PROVE  /\ s \in Seq(Op)
         /\ \A i \in 1..Len(s) :
              /\ s[i].op # "erase"
              /\ s[i].op = "publish" => s[i].name[1] \in {"abarrier", "intent"}
         /\ AgentOk(s, file, target)
         /\ \A f : /\ Coming(s, f, <<"intent", t>>)
                   /\ \A j \in Barred(t) : Coming(s, f, <<"abarrier", j>>)
  <1> DEFINE q == Barriers("abarrier", t, <<"intent", t>>)
             S == ({"abarrier"} \X Barred(t)) \cup {<<"intent", t>>}
             x == Admit("agent", Range(q), v)
             r == Each(LAMBDA n : Publish(n, v), q)
  <1>1. s = <<x>> \o r
    BY Zenon DEF AnnounceOps, Announced, Barriers
  <1>2. <<"intent", t>> \in FileName
    BY FileNames
  <1>3. S \subseteq FileName
    BY <1>2, BarrierFiles
  <1>4. q \in Seq(S) /\ \A m \in S : \E i \in 1..Len(q) : q[i] = m
    BY BarriersFacts
  <1>5. r = [i \in 1..Len(q) |-> Publish(q[i], v)]
    BY Zenon DEF Each
  <1> HIDE DEF q, S, r
  <1>6. /\ r \in Seq(Op) /\ Len(r) = Len(q)
        /\ \A i \in 1..Len(q) : r[i].op = "publish" /\ r[i].name = q[i] /\ q[i] \in S
    <2>1. /\ Len(q) \in Nat
          /\ \A i \in 1..Len(q) :
               /\ Publish(q[i], v) \in Op
               /\ Publish(q[i], v).op = "publish" /\ Publish(q[i], v).name = q[i] /\ q[i] \in S
      BY <1>3, <1>4, PublishList
    <2>2. r \in Seq(Op) /\ Len(r) = Len(q) /\ \A i \in 1..Len(q) : r[i] = Publish(q[i], v)
      BY <1>5, <2>1
    <2>. QED
      BY <2>1, <2>2, Zenon
  <1>7. x \in Op /\ x.op = "admit"
    <2>1. Range(q) \subseteq S
      BY <1>4, RangeFacts
    <2>2. Range(q) \in SUBSET FileName
      BY <1>3, <2>1
    <2>. QED
      BY <2>2, OpTyped, OpFields
  <1> HIDE DEF x
  <1>8. /\ s \in Seq(Op) /\ s[1] = x
        /\ \A i \in 1..Len(s) : i = 1 \/ (i - 1 \in 1..Len(r) /\ s[i] = r[i - 1])
        /\ \A i \in 1..Len(r) : i + 1 \in 1..Len(s) /\ s[i + 1] = r[i]
    <2>1. x \in Op /\ r \in Seq(Op)
      BY <1>6, <1>7
    <2>. QED
      BY <1>1, <2>1, ConsFacts
  <1>9. ASSUME NEW i \in 1..Len(s) PROVE s[i].op = "admit" \/ (s[i].op = "publish" /\ s[i].name \in S)
    <2>1. CASE i = 1
      BY <1>7, <1>8, <2>1
    <2>2. CASE i - 1 \in 1..Len(q) /\ s[i] = r[i - 1]
      BY <1>6, <2>2
    <2>. QED
      BY <1>6, <1>8, <2>1, <2>2
  <1>10. ASSUME NEW i \in 1..Len(s)
         PROVE  /\ s[i].op # "erase"
                /\ s[i].op = "publish" => s[i].name[1] \in {"abarrier", "intent"}
    BY <1>9 DEF S
  <1>11. ASSUME NEW i \in 1..Len(s), NEW u \in Tombstone
         PROVE  /\ ~Publishes(s, i, <<"ack", u>>)
                /\ Publishes(s, i, <<"intent", u>>) => u = t
    BY <1>9 DEF S, Publishes
  <1>12. AgentOk(s, file, target)
    BY <1>10, <1>11 DEF AgentOk
  <1>13. ASSUME NEW f, NEW m \in S PROVE Coming(s, f, m)
    <2>1. PICK i \in 1..Len(q) : q[i] = m
      BY <1>4
    <2>2. Publishes(s, i + 1, m) /\ i + 1 \in 1..Len(s)
      BY <1>6, <1>8, <2>1, Zenon DEF Publishes
    <2>. QED
      BY <2>2, Zenon DEF Coming
  <1>14. <<"intent", t>> \in S /\ \A j \in Barred(t) : <<"abarrier", j>> \in S
    BY DEF S
  <1>. QED
    BY <1>8, <1>10, <1>12, <1>13, <1>14

\* What the agent removes is its side of the tombstone.
Removable(t) ==
  IF Scratch(t) THEN Names("workspace", Chain[t].jobs) \o Names("result", Chain[t].jobs)
                ELSE <<<<"bundle", EventOf(t)>>>>

LEMMA JobNames ==
  ASSUME NEW t \in Tombstone, NEW k
  PROVE  /\ Names(k, Chain[t].jobs) \in Seq({k} \X JobsOf(t)) /\ Len(Names(k, Chain[t].jobs)) \in Nat
         /\ \A b \in JobsOf(t) :
              \E i \in 1..Len(Names(k, Chain[t].jobs)) : Names(k, Chain[t].jobs)[i] = <<k, b>>
  <1>1. PICK j, y : j = Chain[t].jobs /\ y = Names(k, j)
    OBVIOUS
  <1>2. /\ j \in Seq(JobsOf(t))
        /\ \A b \in JobsOf(t) : \E i \in 1..Len(j) : j[i] = b
    BY <1>1, ChainFacts
  <1>3. y = [i \in 1..Len(j) |-> <<k, j[i]>>]
    BY <1>1, Zenon DEF Names, Each
  <1>4. Len(j) \in Nat /\ \A i \in 1..Len(j) : <<k, j[i]>> \in {k} \X JobsOf(t)
    BY <1>2
  <1>5. /\ y \in Seq({k} \X JobsOf(t)) /\ Len(y) = Len(j)
        /\ \A i \in 1..Len(j) : y[i] = <<k, j[i]>>
    BY <1>3, <1>4
  <1>6. ASSUME NEW b \in JobsOf(t) PROVE \E i \in 1..Len(y) : y[i] = <<k, b>>
    BY <1>2, <1>5, Zenon
  <1>. QED
    BY <1>1, <1>4, <1>5, <1>6, Zenon

LEMMA RemovedTargets ==
  ASSUME NEW t \in Tombstone
  PROVE  /\ Removable(t) \in Seq(AgentSide(t))
         /\ \A n \in AgentSide(t) : \E i \in 1..Len(Removable(t)) : Removable(t)[i] = n
  <1>1. CASE ~Scratch(t)
    <2>1. PICK n : n = <<"bundle", EventOf(t)>>
      OBVIOUS
    <2>2. AgentSide(t) = {n} /\ Removable(t) = <<n>>
      BY <1>1, <2>1, Zenon DEF AgentSide, Removable, EventOf
    <2>3. \A e : <<e>> \in Seq({e}) /\ Len(<<e>>) = 1 /\ <<e>>[1] = e
      OBVIOUS
    <2>4. 1 \in 1..1
      OBVIOUS
    <2>. QED
      BY <2>2, <2>3, <2>4
  <1>2. CASE Scratch(t)
    <2> DEFINE y == Names("workspace", Chain[t].jobs)
               z == Names("result", Chain[t].jobs)
    <2>2. Removable(t) = y \o z
      BY <1>2, Zenon DEF Removable
    <2>3. AgentSide(t) = ({"workspace"} \X JobsOf(t)) \cup ({"result"} \X JobsOf(t))
      BY <1>2 DEF AgentSide
    <2>4. /\ y \in Seq({"workspace"} \X JobsOf(t)) /\ Len(y) \in Nat
          /\ \A c \in JobsOf(t) : \E i \in 1..Len(y) : y[i] = <<"workspace", c>>
      BY JobNames
    <2>5. /\ z \in Seq({"result"} \X JobsOf(t)) /\ Len(z) \in Nat
          /\ \A c \in JobsOf(t) : \E i \in 1..Len(z) : z[i] = <<"result", c>>
      BY JobNames
    <2> HIDE DEF y, z
    <2>6. y \in Seq(AgentSide(t)) /\ z \in Seq(AgentSide(t))
      BY <2>3, <2>4, <2>5
    <2>7. PICK q : q = y \o z
      OBVIOUS
    <2>8. /\ q \in Seq(AgentSide(t)) /\ Len(q) = Len(y) + Len(z)
          /\ \A i \in 1..Len(y) : q[i] = y[i]
          /\ \A i \in (Len(y) + 1)..(Len(y) + Len(z)) : q[i] = z[i - Len(y)]
      BY <2>6, <2>7, ConcatFacts
    <2>10. ASSUME NEW i \in 1..Len(y) PROVE i \in 1..Len(q) /\ q[i] = y[i]
      <3>1. Len(y) \in Nat /\ Len(z) \in Nat /\ Len(q) = Len(y) + Len(z)
        BY <2>4, <2>5, <2>8
      <3>2. i \in 1..Len(q)
        BY <3>1
      <3>. QED
        BY <2>8, <3>2
    <2>11. ASSUME NEW i \in 1..Len(z) PROVE Len(y) + i \in 1..Len(q) /\ q[Len(y) + i] = z[i]
      <3>1. Len(y) \in Nat /\ Len(z) \in Nat /\ Len(q) = Len(y) + Len(z)
        BY <2>4, <2>5, <2>8
      <3>2. /\ Len(y) + i \in 1..Len(q) /\ Len(y) + i \in (Len(y) + 1)..(Len(y) + Len(z))
            /\ (Len(y) + i) - Len(y) = i
        BY <3>1
      <3>. QED
        BY <2>8, <3>2, Zenon
    <2>12. ASSUME NEW n \in AgentSide(t) PROVE \E i \in 1..Len(q) : q[i] = n
      <3>1. CASE n \in {"workspace"} \X JobsOf(t)
        <4>1. n[2] \in JobsOf(t) /\ n = <<"workspace", n[2]>>
          BY <3>1
        <4>. QED
          BY <2>4, <2>10, <4>1, Zenon
      <3>2. CASE n \in {"result"} \X JobsOf(t)
        <4>1. n[2] \in JobsOf(t) /\ n = <<"result", n[2]>>
          BY <3>2
        <4>. QED
          BY <2>5, <2>11, <4>1, Zenon
      <3>. QED
        BY <2>3, <3>1, <3>2
    <2>. QED
      BY <2>2, <2>7, <2>8, <2>12
  <1>. QED
    BY <1>1, <1>2

LEMMA RemovalFacts ==
  ASSUME TypeOK, NEW t \in Tombstone, NEW now \in Time, NEW s, s = RemovalOps(t, now),
         Safe(file, t), There(file, <<"committed", t>>), ~There(file, <<"ack", t>>)
  PROVE  /\ s \in Seq(Op)
         /\ \A i \in 1..Len(s) : s[i].op = "publish" => s[i].name[1] = "ack"
         /\ AgentOk(s, file, target)
  <1> DEFINE v == CommittedAt(t) \o <<now>>
             n0 == <<"ack", t>>
             q == Removable(t)
             x == Admit("acks", {n0}, v)
             y == Publish(n0, v)
             b == Each(Erase, q)
  <1>1. s = b \o <<x, y>>
    BY Zenon DEF RemovalOps, Removable
  <1>2. q \in Seq(AgentSide(t)) /\ \A n \in AgentSide(t) : \E i \in 1..Len(q) : q[i] = n
    BY RemovedTargets
  <1>3. n0 \in FileName /\ v \in Seq(Time)
    <2>1. CommittedAt(t) \in Seq(Time) /\ <<now>> \in Seq(Time)
      BY RecoverFacts
    <2>. QED
      BY <2>1, FileNames, ConcatFacts
  <1> HIDE DEF q, v
  <1>4. /\ b \in Seq(Op) /\ Len(b) = Len(q) /\ Len(b) \in Nat
        /\ \A i \in 1..Len(b) : b[i].op = "erase" /\ b[i].name = q[i] /\ q[i] \in AgentSide(t)
    <2>1. AgentSide(t) \subseteq FileName \cup TargetName
      BY TargetNames
    <2>2. b \in Seq(Op) /\ Len(b) = Len(q) /\ \A i \in 1..Len(q) : b[i] = Erase(q[i])
      BY <1>2, <2>1, EraseEach
    <2>3. Len(q) \in Nat /\ \A i \in 1..Len(q) : q[i] \in AgentSide(t)
      BY <1>2
    <2> HIDE DEF b
    <2>. QED
      BY <2>2, <2>3, OpFields
  <1>5. x \in Op /\ x.op = "admit"
    <2>1. {n0} \in SUBSET FileName
      BY <1>3
    <2>. QED
      BY <1>3, <2>1, OpTyped, OpFields
  <1>6. y \in Op /\ y.op = "publish" /\ y.name = n0
    BY <1>3, OpTyped, OpFields
  <1> HIDE DEF b, x, y
  <1>7. PICK lb \in Nat : lb = Len(b)
    BY <1>4
  <1>8. /\ s \in Seq(Op) /\ Len(s) = lb + 2
        /\ \A i \in 1..lb : s[i] = b[i]
        /\ s[lb + 1] = x /\ s[lb + 2] = y
    <2>1. PICK w : w = <<x, y>>
      OBVIOUS
    <2>2. w \in Seq(Op) /\ Len(w) = 2 /\ w[1] = x /\ w[2] = y
      BY <1>5, <1>6, <2>1
    <2>3. /\ b \o w \in Seq(Op) /\ Len(b \o w) = Len(b) + Len(w)
          /\ \A k \in 1..Len(b) : (b \o w)[k] = b[k]
          /\ \A k \in (Len(b) + 1)..(Len(b) + Len(w)) : (b \o w)[k] = w[k - Len(b)]
      <3>1. b \in Seq(Op) /\ w \in Seq(Op)
        BY <1>4, <2>2
      <3>. QED
        BY <3>1, ConcatFacts
    <2>4. /\ s \in Seq(Op) /\ Len(s) = lb + 2
          /\ \A k \in 1..lb : s[k] = b[k]
          /\ \A k \in (lb + 1)..(lb + 2) : s[k] = w[k - lb]
      BY <1>1, <1>7, <2>1, <2>2, <2>3, Zenon
    <2>5. /\ lb + 1 \in (lb + 1)..(lb + 2) /\ lb + 2 \in (lb + 1)..(lb + 2)
          /\ (lb + 1) - lb = 1 /\ (lb + 2) - lb = 2
      OBVIOUS
    <2>. QED
      BY <2>2, <2>4, <2>5, Zenon
  <1>9. \A i \in 1..(lb + 2) : i \in 1..lb \/ i = lb + 1 \/ i = lb + 2
    OBVIOUS
  <1>10. ASSUME NEW i \in 1..Len(s)
         PROVE  \/ i \in 1..lb /\ s[i].op = "erase" /\ s[i].name \in AgentSide(t)
                \/ s[i].op = "admit"
                \/ i = Len(s) /\ s[i].op = "publish" /\ s[i].name = n0
    BY <1>4, <1>5, <1>6, <1>7, <1>8, <1>9
  <1>11. \A n \in AgentSide(t) : \E j \in 1..lb : Erases(s, j, n)
    <2>1. ASSUME NEW n \in AgentSide(t) PROVE \E j \in 1..lb : Erases(s, j, n)
      <3>1. PICK i \in 1..Len(q) : q[i] = n
        BY <1>2
      <3>2. i \in 1..lb /\ b[i].op = "erase" /\ b[i].name = n /\ s[i] = b[i]
        BY <1>4, <1>7, <1>8, <3>1
      <3>. QED
        BY <3>2, Zenon DEF Erases
    <2>. QED
      BY <2>1
  <1>12. ASSUME NEW i \in 1..Len(s), NEW u \in Tombstone, Publishes(s, i, <<"ack", u>>)
         PROVE  /\ i = Len(s) /\ u = t
                /\ \A n \in AgentSide(t) : GoneBy(s, i, n, target)
    <2>1. i = Len(s) /\ u = t
      BY <1>10, <1>12 DEF Publishes
    <2>2. \A j \in 1..lb : j \in 1..(i - 1)
      BY <1>8, <2>1
    <2>. QED
      BY <1>11, <2>1, <2>2 DEF GoneBy
  <1>13. ASSUME NEW i \in 1..Len(s), NEW u \in Tombstone PROVE ~Publishes(s, i, <<"intent", u>>)
    BY <1>10 DEF Publishes
  <1>14. ASSUME NEW i \in 1..Len(s), s[i].op = "erase" PROVE s[i].name \in AgentSide(t)
    BY <1>10, <1>14
  <1>15. AgentOk(s, file, target)
    BY <1>12, <1>13, <1>14 DEF AgentOk
  <1>16. \A i \in 1..Len(s) : s[i].op = "publish" => s[i].name[1] = "ack"
    BY <1>10
  <1>. QED
    BY <1>8, <1>15, <1>16

-----------------------------------------------------------------------------
(* Steps from one point to the next keep the invariant.                    *)

OthersTyped ==
  /\ recorded \in [Tombstone -> Time \cup {-1}]
  /\ cursor \in (Time \X (1..Len(Order))) \cup {<<-1, 0>>}
  /\ {skipOnce, idle} \subseteq BOOLEAN
  /\ delivered \in [Delivery -> Time \cup {-1}]
  /\ clock \in Time
  /\ crashes \in 0..MaxCrashes

Places == [step: Steps, t: Tombstone \cup {None}, now: Time]

\* Process p goes to c with operations ops to do, or gives up.
LEMMA PointStep ==
  ASSUME IInv, NEW p \in Process, NEW c \in Places, NEW ops, ops \in Seq(Op),
         at' = [at EXCEPT ![p] = c], todo' = [todo EXCEPT ![p] = ops],
         file' = file, target' = target, OthersTyped',
         \A i \in 1..Len(ops) : ops[i].op = "publish" => ops[i].name[1] \in Kinds[p],
         ops # << >> => c.step \in {"rest", "consume", "remove"},
         p = "agent" => AgentOk(ops, file, target) /\ AgentPlace(c, ops, file),
         p = "controller" => ControllerOk(ops, file, target) /\ ControllerPlace(c, file),
         \A t \in Tombstone : recorded'[t] # -1 => recorded[t] # -1 \/ Durable(file, <<"completed", t>>)
  PROVE  IInv'
  <1>1. /\ TypeOK /\ TodoInv /\ PlaceInv /\ FilesInv /\ BarredBeforeRemoval
        /\ AgentOk(todo["agent"], file, target) /\ ControllerOk(todo["controller"], file, target)
    BY DEF IInv
  <1>2. /\ at'[p] = c /\ todo'[p] = ops
        /\ \A q \in Process \ {p} : at'[q] = at[q] /\ todo'[q] = todo[q]
        /\ at' \in [Process -> Places] /\ todo' \in [Process -> Seq(Op)]
    BY <1>1 DEF TypeOK, TodoInv, Places
  <1>3. \A q \in Process : todo'[q] # << >> => at'[q].step \in {"rest", "consume", "remove"}
    BY <1>1, <1>2 DEF TypeOK
  <1>4. TypeOK'
    BY <1>1, <1>2, <1>3 DEF TypeOK, OthersTyped, Places
  <1>5. TodoInv'
    <2>1. ASSUME NEW q \in Process, NEW i \in 1..Len(todo'[q]), todo'[q][i].op = "publish"
          PROVE  todo'[q][i].name[1] \in Kinds[q]
      BY <1>1, <1>2, <2>1 DEF TodoInv
    <2>. QED
      BY <1>2, <2>1 DEF TodoInv
  <1>6. /\ AgentOk(todo'["agent"], file, target) /\ ControllerOk(todo'["controller"], file, target)
        /\ AgentPlace(at'["agent"], todo'["agent"], file) /\ ControllerPlace(at'["controller"], file)
    BY <1>1, <1>2 DEF Process, PlaceInv
  <1>7. PlaceInv'
    BY <1>6 DEF PlaceInv
  <1>8. FilesInv'
    BY <1>1 DEF FilesInv
  <1>9. BarredBeforeRemoval'
    BY <1>1 DEF BarredBeforeRemoval, Touched, Readable
  <1>. QED
    BY <1>4, <1>5, <1>6, <1>7, <1>8, <1>9 DEF IInv

LEMMA NoOps ==
  ASSUME NEW f, NEW g
  PROVE  /\ << >> \in Seq(Op) /\ AgentOk(<< >>, f, g) /\ ControllerOk(<< >>, f, g)
         /\ AgentPlace(AtRest, << >>, f) /\ ControllerPlace(AtRest, f) /\ AtRest \in Places
  <1>1. 0 \in Time
    BY RetentionAssumption DEF Time
  <1>2. AtRest \in Places
    BY <1>1 DEF AtRest, Places, Steps
  <1>. QED
    BY <1>2 DEF AgentOk, ControllerOk, AgentPlace, ControllerPlace, AtRest

LEMMA RefuseStep ==
  ASSUME IInv, NEW p \in Process, Refuse(p), UNCHANGED <<file, target, sqlite, delivered, clock>>,
         crashes' \in 0..MaxCrashes
  PROVE  IInv'
  <1>1. at' = [at EXCEPT ![p] = AtRest] /\ todo' = [todo EXCEPT ![p] = << >>]
    BY DEF Refuse
  <1>2. OthersTyped'
    BY DEF Refuse, OthersTyped, IInv, TypeOK, sqlite
  <1>3. \A i \in 1..Len(<< >>) : <<  >>[i].op = "publish" => << >>[i].name[1] \in Kinds[p]
    OBVIOUS
  <1>4. AtRest.step = "rest"
    BY DEF AtRest
  <1>5. /\ file' = file /\ target' = target
        /\ \A t \in Tombstone : recorded'[t] # -1 => recorded[t] # -1 \/ Durable(file, <<"completed", t>>)
    BY DEF sqlite
  <1>. QED
    BY <1>1, <1>2, <1>3, <1>4, <1>5, NoOps, PointStep

\* The controller returns with operations to do.
LEMMA ReturnStep ==
  ASSUME IInv, NEW ops, ops \in Seq(Op), Return(ops), UNCHANGED <<file, target, delivered, clock, crashes>>,
         skipOnce' \in BOOLEAN, recorded' \in [Tombstone -> Time \cup {-1}],
         cursor' \in (Time \X (1..Len(Order))) \cup {<<-1, 0>>},
         \A i \in 1..Len(ops) : ops[i].op = "publish" => ops[i].name[1] \in Kinds["controller"],
         ControllerOk(ops, file, target),
         \A t \in Tombstone : recorded'[t] # -1 => recorded[t] # -1 \/ Durable(file, <<"completed", t>>)
  PROVE  IInv'
  <1>1. at' = [at EXCEPT !["controller"] = AtRest] /\ todo' = [todo EXCEPT !["controller"] = ops]
    BY DEF Return
  <1>2. OthersTyped'
    BY DEF Return, OthersTyped, IInv, TypeOK
  <1>3. AtRest.step = "rest" /\ "controller" \in Process
    BY DEF AtRest, Process
  <1>. QED
    BY <1>1, <1>2, <1>3, NoOps, PointStep

\* A process goes on to the next point of its cycle.
LEMMA GotoStep ==
  ASSUME IInv, NEW p \in Process, NEW step, NEW t, NEW ops, ops \in Seq(Op), Goto(p, step, t, ops),
         UNCHANGED <<file, target, sqlite, delivered, clock, crashes>>, {skipOnce', idle'} \subseteq BOOLEAN,
         step \in Steps, t \in Tombstone \cup {None},
         \A i \in 1..Len(ops) : ops[i].op = "publish" => ops[i].name[1] \in Kinds[p],
         ops # << >> => step \in {"rest", "consume", "remove"},
         p = "agent" => /\ AgentOk(ops, file, target)
                        /\ \A now : AgentPlace([step |-> step, t |-> t, now |-> now], ops, file),
         p = "controller" => /\ ControllerOk(ops, file, target)
                             /\ \A now : ControllerPlace([step |-> step, t |-> t, now |-> now], file)
  PROVE  IInv'
  <1>1. PICK now : now = IF at[p].step = "rest" THEN clock ELSE at[p].now
    OBVIOUS
  <1>2. now \in Time
    BY <1>1 DEF IInv, TypeOK
  <1>3. PICK c : c = [step |-> step, t |-> t, now |-> now]
    OBVIOUS
  <1>4. c \in Places /\ c.step = step
    BY <1>2, <1>3 DEF Places
  <1>5. at' = [at EXCEPT ![p] = c] /\ todo' = [todo EXCEPT ![p] = ops]
    BY <1>1, <1>3, Zenon DEF Goto
  <1>6. OthersTyped'
    BY DEF OthersTyped, IInv, TypeOK, sqlite
  <1>7. /\ p = "agent" => AgentOk(ops, file, target) /\ AgentPlace(c, ops, file)
        /\ p = "controller" => ControllerOk(ops, file, target) /\ ControllerPlace(c, file)
    BY <1>3, Zenon
  <1>8. /\ file' = file /\ target' = target
        /\ \A u \in Tombstone : recorded'[u] # -1 => recorded[u] # -1 \/ Durable(file, <<"completed", u>>)
    BY DEF sqlite
  <1>9. ops # << >> => c.step \in {"rest", "consume", "remove"}
    BY <1>4
  <1>. QED
    BY <1>4, <1>5, <1>6, <1>7, <1>8, <1>9, PointStep

-----------------------------------------------------------------------------
(* The controller's points.                                                *)

LEMMA RankFacts ==
  ASSUME NEW t \in Tombstone
  PROVE  Rank(t) \in 1..Len(Order) /\ Order[Rank(t)] = t
  <1>1. Order \in Seq(Tombstone)
    BY RetentionAssumption
  <1>2. \E i \in DOMAIN Order : Order[i] = t
    BY <1>1 DEF Tombstone, Range
  <1>3. Rank(t) \in DOMAIN Order /\ Order[Rank(t)] = t
    BY <1>2 DEF Rank
  <1>. QED
    BY <1>1, <1>3

LEMMA ReconcileIInv ==
  ASSUME IInv, Reconcile
  PROVE  IInv'
  <1>1. UNCHANGED <<file, target, recorded, delivered, clock, crashes>>
    BY DEF Reconcile, Files
  <1>2. CASE \A t \in Page : Readable(<<"completed", t>>)
    <2>1. PICK t \in Page : cursor' = Key(t)
      BY <1>2 DEF Reconcile
    <2>2. t \in Tombstone /\ recorded[t] # -1
      BY <2>1 DEF Page
    <2>3. recorded[t] \in Time /\ Rank(t) \in 1..Len(Order)
      BY <2>2, RankFacts DEF IInv, TypeOK
    <2>4. cursor' \in (Time \X (1..Len(Order))) \cup {<<-1, 0>>}
      BY <2>1, <2>3 DEF Key
    <2>5. Return(<< >>) /\ skipOnce' = skipOnce
      BY <1>2 DEF Reconcile
    <2>6. recorded' \in [Tombstone -> Time \cup {-1}] /\ skipOnce' \in BOOLEAN
      BY <1>1, <2>5 DEF IInv, TypeOK
    <2>7. << >> \in Seq(Op) /\ ControllerOk(<< >>, file, target)
      BY NoOps
    <2>8. \A i \in 1..Len(<< >>) : << >>[i].op = "publish" => << >>[i].name[1] \in Kinds["controller"]
      OBVIOUS
    <2>. QED
      BY <1>1, <2>4, <2>5, <2>6, <2>7, <2>8, ReturnStep
  <1>3. CASE ~(\A t \in Page : Readable(<<"completed", t>>))
    <2>1. Refuse("controller") /\ UNCHANGED <<file, target, sqlite, delivered, clock>> /\ crashes' = crashes
      BY <1>1, <1>3 DEF Reconcile, sqlite
    <2>2. crashes' \in 0..MaxCrashes
      BY <2>1 DEF IInv, TypeOK
    <2>. QED
      BY <2>1, <2>2, RefuseStep DEF Process
  <1>. QED
    BY <1>2, <1>3

LEMMA WrapIInv ==
  ASSUME IInv, Wrap
  PROVE  IInv'
  <1>1. UNCHANGED <<file, target, recorded, delivered, clock, crashes>> /\ Return(<< >>)
    BY DEF Wrap, Files
  <1>2. skipOnce' \in BOOLEAN /\ cursor' \in (Time \X (1..Len(Order))) \cup {<<-1, 0>>}
    BY DEF Wrap, Start
  <1>3. recorded' \in [Tombstone -> Time \cup {-1}]
    BY <1>1 DEF IInv, TypeOK
  <1>4. << >> \in Seq(Op) /\ ControllerOk(<< >>, file, target)
    BY NoOps
  <1>5. \A i \in 1..Len(<< >>) : << >>[i].op = "publish" => << >>[i].name[1] \in Kinds["controller"]
    OBVIOUS
  <1>. QED
    BY <1>1, <1>2, <1>3, <1>4, <1>5, ReturnStep

\* Completing the committed tombstone of another cycle.
LEMMA RecoverOk ==
  ASSUME TypeOK, NEW t \in Tombstone, NEW s, s = Recover(t)
  PROVE  /\ s \in Seq(Op)
         /\ \A i \in 1..Len(s) : s[i].op \notin {"publish", "erase"}
         /\ AgentOk(s, file, target) /\ ControllerOk(s, file, target)
  <1>1. s \in Seq(Op) /\ Len(s) = 1 /\ s[1].op = "admit"
    BY RecoverFacts
  <1>2. \A i \in 1..Len(s) : s[i].op \notin {"publish", "erase"}
    BY <1>1
  <1>. QED
    BY <1>1, <1>2 DEF AgentOk, ControllerOk, Publishes

LEMMA ScanAcksIInv ==
  ASSUME IInv, ScanAcks
  PROVE  IInv'
  <1>1. UNCHANGED <<file, target, sqlite, delivered, clock, crashes>>
    BY DEF ScanAcks, Files
  <1>2. CASE Refuse("controller")
    <2>1. crashes' \in 0..MaxCrashes
      BY <1>1 DEF IInv, TypeOK
    <2>. QED
      BY <1>1, <1>2, <2>1, RefuseStep DEF Process
  <1>3. ASSUME NEW t \in Actionable, Goto("controller", "consume", t, Recover(t)), idle' = idle, skipOnce' = FALSE
        PROVE  IInv'
    <2>1. t \in Tombstone /\ There(file, <<"ack", t>>)
      BY <1>3 DEF Actionable, Acked, Committed, Exists, There
    <2>2. PICK ops : ops = Recover(t)
      OBVIOUS
    <2>3. /\ ops \in Seq(Op) /\ ControllerOk(ops, file, target)
          /\ \A i \in 1..Len(ops) : ops[i].op \notin {"publish", "erase"}
      BY <2>1, <2>2, RecoverOk DEF IInv
    <2>4. \A now : ControllerPlace([step |-> "consume", t |-> t, now |-> now], file)
      BY <2>1 DEF ControllerPlace
    <2>5. {skipOnce', idle'} \subseteq BOOLEAN
      BY <1>3 DEF IInv, TypeOK
    <2>6. Goto("controller", "consume", t, ops)
      BY <1>3, <2>2
    <2>7. /\ \A i \in 1..Len(ops) : ops[i].op = "publish" => ops[i].name[1] \in Kinds["controller"]
          /\ t \in Tombstone \cup {None} /\ "consume" \in Steps /\ "controller" \in Process
      BY <2>1, <2>3 DEF Steps, Process
    <2>. QED
      BY <1>1, <2>3, <2>4, <2>5, <2>6, <2>7, GotoStep
  <1>4. ASSUME Goto("controller", "scanned", None, << >>), idle' = idle, skipOnce' = FALSE
        PROVE  IInv'
    <2>1. << >> \in Seq(Op) /\ ControllerOk(<< >>, file, target)
      BY NoOps
    <2>2. \A i \in 1..Len(<< >>) : << >>[i].op = "publish" => << >>[i].name[1] \in Kinds["controller"]
      OBVIOUS
    <2>3. \A now : ControllerPlace([step |-> "scanned", t |-> None, now |-> now], file)
      BY DEF ControllerPlace
    <2>4. {skipOnce', idle'} \subseteq BOOLEAN
      BY <1>4 DEF IInv, TypeOK
    <2>5. "scanned" \in Steps /\ None \in Tombstone \cup {None} /\ "controller" \in Process
      BY DEF Steps, Process
    <2>. QED
      BY <1>1, <1>4, <2>1, <2>2, <2>3, <2>4, <2>5, GotoStep
  <1>. QED
    BY <1>2, <1>3, <1>4 DEF ScanAcks

LEMMA ConsumeAckIInv ==
  ASSUME IInv, ConsumeAck
  PROVE  IInv'
  <1>1. UNCHANGED <<file, target, sqlite, delivered, clock, crashes>>
    BY DEF ConsumeAck, Files
  <1>2. /\ TypeOK /\ recorded' \in [Tombstone -> Time \cup {-1}]
        /\ cursor' \in (Time \X (1..Len(Order))) \cup {<<-1, 0>>}
        /\ \A t \in Tombstone : recorded'[t] # -1 => recorded[t] # -1 \/ Durable(file, <<"completed", t>>)
    BY <1>1 DEF IInv, TypeOK, sqlite
  <1>3. PICK t : t = at["controller"].t
    OBVIOUS
  <1>4. t \in Tombstone /\ There(file, <<"ack", t>>)
    BY <1>3 DEF ConsumeAck, Point, IInv, PlaceInv, ControllerPlace
  <1>5. ASSUME NEW ops, ops \in Seq(Op), ControllerOk(ops, file, target), Return(ops), skipOnce' = skipOnce,
               \A i \in 1..Len(ops) : ops[i].op = "publish" => ops[i].name[1] \in {"deleting", "completed"}
        PROVE  IInv'
    <2>1. skipOnce' \in BOOLEAN
      BY <1>2, <1>5 DEF TypeOK
    <2>2. \A i \in 1..Len(ops) : ops[i].op = "publish" => ops[i].name[1] \in Kinds["controller"]
      BY <1>5 DEF Kinds
    <2>. QED
      BY <1>1, <1>2, <1>5, <2>1, <2>2, ReturnStep
  <1>6. CASE Exists(<<"completed", t>>)
    <2>1. PICK ops : ops = FinishOps(t)
      OBVIOUS
    <2>2. There(file, <<"completed", t>>)
      BY <1>6 DEF Exists, There
    <2>3. /\ ops \in Seq(Op) /\ ControllerOk(ops, file, target)
          /\ \A i \in 1..Len(ops) : ops[i].op # "publish"
      BY <1>2, <1>4, <2>1, <2>2, FinishFacts
    <2>4. Return(ops) /\ skipOnce' = skipOnce
      BY <1>3, <1>6, <2>1 DEF ConsumeAck
    <2>. QED
      BY <1>5, <2>3, <2>4
  <1>7. CASE ~Exists(<<"completed", t>>) /\ Refuse("controller")
    <2>1. crashes' \in 0..MaxCrashes
      BY <1>1, <1>2 DEF TypeOK
    <2>. QED
      BY <1>1, <1>7, <2>1, RefuseStep DEF Process
  <1>8. CASE ~Exists(<<"completed", t>>) /\ Return(ReclaimOps(t)) /\ skipOnce' = skipOnce
    <2>1. PICK ops : ops = ReclaimOps(t)
      OBVIOUS
    <2>2. ~There(file, <<"completed", t>>)
      BY <1>8 DEF Exists, There
    <2>3. /\ ops \in Seq(Op) /\ ControllerOk(ops, file, target)
          /\ \A i \in 1..Len(ops) : ops[i].op = "publish" => ops[i].name[1] \in {"deleting", "completed"}
      BY <1>2, <1>4, <2>1, <2>2, ReclaimFacts
    <2>. QED
      BY <1>5, <1>8, <2>1, <2>3
  <1>9. Exists(<<"completed", t>>) \/ Refuse("controller") \/ (Return(ReclaimOps(t)) /\ skipOnce' = skipOnce)
    BY <1>3, Zenon DEF ConsumeAck
  <1>. QED
    BY <1>6, <1>7, <1>8, <1>9

LEMMA AwaitAckIInv ==
  ASSUME IInv, AwaitAck
  PROVE  IInv'
  <1>1. PICK t \in Committed \ Acked : Return(Recover(t))
    BY DEF AwaitAck
  <1>2. t \in Tombstone
    BY DEF Committed
  <1>3. PICK ops : ops = Recover(t)
    OBVIOUS
  <1>4. /\ ops \in Seq(Op) /\ ControllerOk(ops, file, target)
        /\ \A i \in 1..Len(ops) : ops[i].op = "publish" => ops[i].name[1] \in Kinds["controller"]
    BY <1>2, <1>3, RecoverOk DEF IInv
  <1>5. UNCHANGED <<file, target, delivered, clock, crashes>> /\ UNCHANGED <<sqlite, skipOnce>>
    BY DEF AwaitAck, Files
  <1>6. /\ skipOnce' \in BOOLEAN /\ recorded' \in [Tombstone -> Time \cup {-1}]
        /\ cursor' \in (Time \X (1..Len(Order))) \cup {<<-1, 0>>}
        /\ \A u \in Tombstone : recorded'[u] # -1 => recorded[u] # -1 \/ Durable(file, <<"completed", u>>)
    BY <1>5 DEF IInv, TypeOK, sqlite
  <1>. QED
    BY <1>1, <1>3, <1>4, <1>5, <1>6, ReturnStep

LEMMA RecordIInv ==
  ASSUME IInv, Record
  PROVE  IInv'
  <1>1. /\ UNCHANGED <<file, target, delivered, clock, crashes>>
        /\ UNCHANGED <<cursor, skipOnce>> /\ Return(<< >>)
    BY DEF Record, Files
  <1>2. recorded' = [t \in Tombstone |-> IF t \in Receipted /\ recorded[t] = -1 THEN at["controller"].now
                                                                              ELSE recorded[t]]
    BY DEF Record
  <1>3. at["controller"].now \in Time /\ recorded \in [Tombstone -> Time \cup {-1}]
    BY DEF IInv, TypeOK, Process
  <1>4. recorded' \in [Tombstone -> Time \cup {-1}]
    BY <1>2, <1>3
  <1>5. \A t \in Tombstone : recorded'[t] # -1 => recorded[t] # -1 \/ Durable(file, <<"completed", t>>)
    BY <1>2 DEF Receipted, Readable, Durable
  <1>6. skipOnce' \in BOOLEAN /\ cursor' \in (Time \X (1..Len(Order))) \cup {<<-1, 0>>}
    BY <1>1 DEF IInv, TypeOK
  <1>7. << >> \in Seq(Op) /\ ControllerOk(<< >>, file, target)
    BY NoOps
  <1>8. \A i \in 1..Len(<< >>) : << >>[i].op = "publish" => << >>[i].name[1] \in Kinds["controller"]
    OBVIOUS
  <1>. QED
    BY <1>1, <1>4, <1>5, <1>6, <1>7, <1>8, ReturnStep

LEMMA NothingIInv ==
  ASSUME IInv, Nothing
  PROVE  IInv'
  <1>1. UNCHANGED <<file, target, delivered, clock, crashes>> /\ UNCHANGED <<sqlite, todo, skipOnce>>
    BY DEF Nothing, Files
  <1>2. at' = [at EXCEPT !["controller"] = AtRest] /\ idle' = TRUE /\ todo["controller"] = << >>
    BY DEF Nothing, Planning, Point
  <1>3. todo \in [Process -> Seq(Op)]
    BY DEF IInv, TodoInv
  <1>4. todo' = [todo EXCEPT !["controller"] = << >>]
    BY <1>1, <1>2, <1>3
  <1>5. OthersTyped'
    BY <1>1, <1>2 DEF OthersTyped, IInv, TypeOK, sqlite
  <1>6. \A i \in 1..Len(<< >>) : << >>[i].op = "publish" => << >>[i].name[1] \in Kinds["controller"]
    OBVIOUS
  <1>7. \A u \in Tombstone : recorded'[u] # -1 => recorded[u] # -1 \/ Durable(file, <<"completed", u>>)
    BY <1>1 DEF sqlite
  <1>8. "controller" \in Process
    BY DEF Process
  <1>. QED
    BY <1>1, <1>2, <1>4, <1>5, <1>6, <1>7, <1>8, NoOps, PointStep

LEMMA SurprisedIInv ==
  ASSUME IInv, Surprised
  PROVE  IInv'
  <1>1. Refuse("controller") /\ UNCHANGED <<file, target, sqlite, delivered, clock>> /\ crashes' = crashes
    BY DEF Surprised, Files
  <1>2. crashes' \in 0..MaxCrashes
    BY <1>1 DEF IInv, TypeOK
  <1>. QED
    BY <1>1, <1>2, RefuseStep DEF Process

\* Evidence is planned only when the scratch of its execution is gone: its
\* receipt is recorded, or it is planned too and goes first.
LEMMA PlannedScratchGone ==
  ASSUME IInv, NEW t \in Unplanned, \A u \in Unplanned : Precedes(t, u)
  PROVE  ScratchGone(target, t)
  <1> DEFINE now == at["controller"].now
  <1>1. t \in Tombstone /\ Eligible(t, now)
    BY DEF Unplanned, Plans
  <1>2. SUFFICES ASSUME NEW w \in Tombstone, Scratch(w), ~Scratch(t), EventOf(w) = EventOf(t)
                 PROVE  AgentGone(target, w)
    BY DEF ScratchGone
  <1>3. /\ Chain[w].eligible = Chain[t].eligible /\ Rank(w) < Rank(t)
        /\ \A u \in Tombstone : EventOf(u) = EventOf(w) /\ Scratch(u) = Scratch(w) => u = w
    BY <1>1, <1>2, RetentionAssumption DEF OneRecord
  <1>4. Durable(file, <<"completed", w>>) => AgentGone(target, w)
    BY DEF IInv, FilesInv, Durable, Made, There
  <1>5. CASE recorded[w] # -1
    BY <1>4, <1>5 DEF IInv, FilesInv
  <1>6. CASE recorded[w] = -1
    <2>1. ~RecordedPhase(EventOf(w), "scratch")
      BY <1>2, <1>3, <1>6 DEF RecordedPhase, Scratch
    <2>2. ~RecordedPhase(EventOf(w), "evidence") /\ now >= Chain[w].eligible
      BY <1>1, <1>2, <1>3 DEF Eligible
    <2>3. Eligible(w, now)
      BY <1>2, <2>1, <2>2 DEF Eligible
    <2>4. w \in Plans
      BY <2>3 DEF Plans
    <2>5. w \notin Unplanned
      <3>1. Rank(t) \in Int /\ Rank(w) \in Int
        BY <1>1, RankFacts
      <3>. QED
        BY <1>3, <3>1 DEF Precedes
    <2>6. Durable(file, <<"completed", w>>)
      BY <2>4, <2>5 DEF Unplanned, Receipted, Readable, Durable
    <2>. QED
      BY <1>4, <2>6
  <1>. QED
    BY <1>5, <1>6

LEMMA CommitIInv ==
  ASSUME IInv, Commit
  PROVE  IInv'
  <1>1. UNCHANGED <<file, target, delivered, clock, crashes>> /\ UNCHANGED sqlite
    BY DEF Commit, Files
  <1>2. /\ recorded' \in [Tombstone -> Time \cup {-1}] /\ crashes' \in 0..MaxCrashes
        /\ cursor' \in (Time \X (1..Len(Order))) \cup {<<-1, 0>>}
        /\ \A t \in Tombstone : recorded'[t] # -1 => recorded[t] # -1 \/ Durable(file, <<"completed", t>>)
    BY <1>1 DEF IInv, TypeOK, sqlite
  <1>3. PICK t \in Unplanned :
          /\ \A u \in Unplanned : Precedes(t, u)
          /\ \/ Refuse("controller")
             \/ /\ Return(IF Closed(t) THEN << >> ELSE CommitOps(t, at["controller"].now))
                /\ UNCHANGED skipOnce
    BY DEF Commit
  <1>4. ScratchGone(target, t) /\ t \in Tombstone
    BY <1>3, PlannedScratchGone DEF Unplanned, Plans
  <1>5. CASE Refuse("controller")
    BY <1>1, <1>2, <1>5, RefuseStep DEF Process
  <1>6. ASSUME NEW ops, ops \in Seq(Op), ControllerOk(ops, file, target), Return(ops), UNCHANGED skipOnce,
               \A i \in 1..Len(ops) :
                 ops[i].op = "publish" => ops[i].name[1] \in {"prepared", "cbarrier", "committed"}
        PROVE  IInv'
    <2>1. skipOnce' \in BOOLEAN
      BY <1>6 DEF IInv, TypeOK
    <2>2. \A i \in 1..Len(ops) : ops[i].op = "publish" => ops[i].name[1] \in Kinds["controller"]
      BY <1>6 DEF Kinds
    <2>. QED
      BY <1>1, <1>2, <1>6, <2>1, <2>2, ReturnStep
  <1>7. CASE Closed(t) /\ Return(<< >>) /\ UNCHANGED skipOnce
    <2>1. \A i \in 1..Len(<< >>) :
            << >>[i].op = "publish" => << >>[i].name[1] \in {"prepared", "cbarrier", "committed"}
      OBVIOUS
    <2>. QED
      BY <1>6, <1>7, <2>1, NoOps
  <1>8. CASE ~Closed(t) /\ Return(CommitOps(t, at["controller"].now)) /\ UNCHANGED skipOnce
    <2>1. PICK now, ops : now = at["controller"].now /\ ops = CommitOps(t, now)
      OBVIOUS
    <2>2. now \in Time
      BY <2>1 DEF IInv, TypeOK, Process
    <2>3. /\ ops \in Seq(Op) /\ ControllerOk(ops, file, target)
          /\ \A i \in 1..Len(ops) :
               ops[i].op = "publish" => ops[i].name[1] \in {"prepared", "cbarrier", "committed"}
      BY <1>4, <2>1, <2>2, CommitFacts
    <2>. QED
      BY <1>6, <1>8, <2>1, <2>3
  <1>. QED
    BY <1>3, <1>5, <1>7, <1>8

-----------------------------------------------------------------------------
(* The agent's points.                                                     *)

LEMMA FindCommittedIInv ==
  ASSUME IInv, FindCommitted
  PROVE  IInv'
  <1>1. UNCHANGED <<file, target, sqlite, delivered, clock, crashes>>
    BY DEF FindCommitted, Files, AgentOnly
  <1>2. CASE Refuse("agent")
    <2>1. crashes' \in 0..MaxCrashes
      BY <1>1 DEF IInv, TypeOK
    <2>. QED
      BY <1>1, <1>2, <2>1, RefuseStep DEF Process
  <1>3. ASSUME NEW t \in Committed \ Acked, Goto("agent", "consume", t, Recover(t)), UNCHANGED <<skipOnce, idle>>
        PROVE  IInv'
    <2>1. t \in Tombstone /\ There(file, <<"committed", t>>) /\ ~There(file, <<"ack", t>>)
      BY <1>3 DEF Acked, Committed, Exists, There
    <2>2. PICK ops : ops = Recover(t)
      OBVIOUS
    <2>3. /\ ops \in Seq(Op) /\ AgentOk(ops, file, target)
          /\ \A i \in 1..Len(ops) : ops[i].op \notin {"publish", "erase"}
      BY <2>1, <2>2, RecoverOk DEF IInv
    <2>4. \A now : AgentPlace([step |-> "consume", t |-> t, now |-> now], ops, file)
      BY <2>1, <2>3 DEF AgentPlace
    <2>5. {skipOnce', idle'} \subseteq BOOLEAN
      BY <1>3 DEF IInv, TypeOK
    <2>6. Goto("agent", "consume", t, ops)
      BY <1>3, <2>2
    <2>7. /\ \A i \in 1..Len(ops) : ops[i].op = "publish" => ops[i].name[1] \in Kinds["agent"]
          /\ t \in Tombstone \cup {None} /\ "consume" \in Steps /\ "agent" \in Process
      BY <2>1, <2>3 DEF Steps, Process
    <2>. QED
      BY <1>1, <2>3, <2>4, <2>5, <2>6, <2>7, GotoStep
  <1>4. \/ Refuse("agent")
        \/ /\ \E t \in Committed \ Acked : Goto("agent", "consume", t, Recover(t))
           /\ UNCHANGED <<skipOnce, idle>>
    BY DEF FindCommitted, AgentOnly
  <1>. QED
    BY <1>2, <1>3, <1>4

LEMMA AnnounceRemovalIInv ==
  ASSUME IInv, AnnounceRemoval
  PROVE  IInv'
  <1>1. UNCHANGED <<file, target, sqlite, delivered, clock, crashes>>
    BY DEF AnnounceRemoval, Files, AgentOnly
  <1>2. CASE Refuse("agent")
    <2>1. crashes' \in 0..MaxCrashes
      BY <1>1 DEF IInv, TypeOK
    <2>. QED
      BY <1>1, <1>2, <2>1, RefuseStep DEF Process
  <1>3. PICK t, v : t = at["agent"].t /\ v = CommittedAt(t)
    OBVIOUS
  <1>4. /\ t \in Tombstone /\ There(file, <<"committed", t>>) /\ ~There(file, <<"ack", t>>)
        /\ v \in Seq(Time)
    <2>1. t \in Tombstone /\ There(file, <<"committed", t>>) /\ ~There(file, <<"ack", t>>)
      BY <1>3 DEF AnnounceRemoval, Point, IInv, PlaceInv, AgentPlace
    <2>. QED
      BY <1>3, <2>1, RecoverFacts DEF IInv
  <1>5. CASE /\ Readable(<<"committed", t>>)
             /\ \A j \in Barred(t) : file[<<"cbarrier", j>>] = [st |-> "final", value |-> v]
             /\ Goto("agent", "remove", t, AnnounceOps(t, v))
             /\ UNCHANGED <<skipOnce, idle>>
    <2>1. PICK ops : ops = AnnounceOps(t, v)
      OBVIOUS
    <2>2. ScratchGone(target, t)
      BY <1>4, <1>5 DEF IInv, FilesInv, Readable, Made
    <2>3. /\ ops \in Seq(Op) /\ AgentOk(ops, file, target)
          /\ \A i \in 1..Len(ops) :
               /\ ops[i].op # "erase"
               /\ ops[i].op = "publish" => ops[i].name[1] \in {"abarrier", "intent"}
          /\ \A f : /\ Coming(ops, f, <<"intent", t>>)
                    /\ \A j \in Barred(t) : Coming(ops, f, <<"abarrier", j>>)
      BY <1>4, <2>1, <2>2, AnnounceFacts
    <2>4. ASSUME NEW j \in Barred(t) PROVE Durable(file, <<"cbarrier", j>>)
      <3>1. file[<<"cbarrier", j>>] = [st |-> "final", value |-> v]
        BY <1>5
      <3>2. file[<<"cbarrier", j>>].st = "final"
        BY <3>1
      <3>. QED
        BY <3>2 DEF Durable
    <2>5. \A now : AgentPlace([step |-> "remove", t |-> t, now |-> now], ops, file)
      <3>1. /\ Coming(ops, file, <<"intent", t>>)
            /\ \A j \in Barred(t) : Coming(ops, file, <<"abarrier", j>>)
        BY <2>3
      <3>2. \A i \in 1..Len(ops) :
               ops[i].op # "erase" /\ (ops[i].op = "publish" => ops[i].name[1] # "ack")
        BY <2>3
      <3>. QED
        BY <1>4, <2>4, <3>1, <3>2 DEF AgentPlace
    <2>6. Goto("agent", "remove", t, ops)
      BY <1>5, <2>1
    <2>7. {skipOnce', idle'} \subseteq BOOLEAN
      BY <1>5 DEF IInv, TypeOK
    <2>8. \A i \in 1..Len(ops) : ops[i].op = "publish" => ops[i].name[1] \in Kinds["agent"]
      BY <2>3 DEF Kinds
    <2>9. t \in Tombstone \cup {None} /\ "remove" \in Steps /\ "agent" \in Process
      BY <1>4 DEF Steps, Process
    <2>. QED
      BY <1>1, <2>3, <2>5, <2>6, <2>7, <2>8, <2>9, GotoStep
  <1>6. \/ Refuse("agent")
        \/ /\ Readable(<<"committed", t>>)
           /\ \A j \in Barred(t) : file[<<"cbarrier", j>>] = [st |-> "final", value |-> v]
           /\ Goto("agent", "remove", t, AnnounceOps(t, v))
           /\ UNCHANGED <<skipOnce, idle>>
    <2> DEFINE T == at["agent"].t
               V == CommittedAt(T)
    <2>1. \/ Refuse("agent")
          \/ /\ Readable(<<"committed", T>>)
             /\ \A j \in Barred(T) : file[<<"cbarrier", j>>] = [st |-> "final", value |-> V]
             /\ Goto("agent", "remove", T, AnnounceOps(T, V))
             /\ UNCHANGED AgentOnly
      BY Zenon DEF AnnounceRemoval, AnnounceOps
    <2>2. t = T /\ v = V
      BY <1>3
    <2>3. UNCHANGED AgentOnly => UNCHANGED <<skipOnce, idle>>
      BY DEF AgentOnly
    <2> HIDE DEF T, V
    <2>. QED
      BY <2>1, <2>2, <2>3, Zenon
  <1>. QED
    BY <1>2, <1>5, <1>6

LEMMA RemoveTargetsIInv ==
  ASSUME IInv, RemoveTargets
  PROVE  IInv'
  <1>1. UNCHANGED <<file, target, sqlite, delivered, clock, crashes>> /\ UNCHANGED <<skipOnce, idle>>
    BY DEF RemoveTargets, Files, AgentOnly
  <1>2. PICK t, now, ops : t = at["agent"].t /\ now = at["agent"].now /\ ops = RemovalOps(t, now)
    OBVIOUS
  <1>3. at' = [at EXCEPT !["agent"] = AtRest] /\ todo' = [todo EXCEPT !["agent"] = ops]
    BY <1>2 DEF RemoveTargets
  <1>4. todo["agent"] = << >> /\ at["agent"].step = "remove"
    BY DEF RemoveTargets, Point
  <1>5. now \in Time
    BY <1>2 DEF IInv, TypeOK, Process
  <1>6. /\ t \in Tombstone /\ There(file, <<"committed", t>>) /\ ~There(file, <<"ack", t>>)
        /\ Coming(<< >>, file, <<"intent", t>>)
        /\ \A j \in Barred(t) : Durable(file, <<"cbarrier", j>>) /\ Coming(<< >>, file, <<"abarrier", j>>)
    BY <1>2, <1>4 DEF IInv, PlaceInv, AgentPlace
  <1>7. Safe(file, t)
    BY <1>6 DEF Safe, Coming
  <1>8. /\ ops \in Seq(Op) /\ AgentOk(ops, file, target)
        /\ \A i \in 1..Len(ops) : ops[i].op = "publish" => ops[i].name[1] = "ack"
    BY <1>2, <1>5, <1>6, <1>7, RemovalFacts DEF IInv
  <1>9. OthersTyped'
    BY <1>1 DEF OthersTyped, IInv, TypeOK, sqlite
  <1>10. /\ \A i \in 1..Len(ops) : ops[i].op = "publish" => ops[i].name[1] \in Kinds["agent"]
         /\ \A u \in Tombstone : recorded'[u] # -1 => recorded[u] # -1 \/ Durable(file, <<"completed", u>>)
    BY <1>1, <1>8 DEF Kinds, sqlite
  <1>11. AgentPlace(AtRest, ops, file) /\ AtRest \in Places /\ AtRest.step = "rest" /\ "agent" \in Process
    BY NoOps DEF AgentPlace, AtRest, Process
  <1>. QED
    BY <1>1, <1>3, <1>8, <1>9, <1>10, <1>11, PointStep

-----------------------------------------------------------------------------
(* The invariant is inductive.                                             *)

\* A report is delivered, or time goes on.
LEMMA WorldStep ==
  ASSUME IInv, UNCHANGED <<file, target, at, todo, sqlite, skipOnce, idle, crashes>>,
         delivered' \in [Delivery -> Time \cup {-1}], clock' \in Time
  PROVE  IInv'
  <1>1. TypeOK'
    BY DEF IInv, TypeOK, sqlite
  <1>2. TodoInv'
    BY DEF IInv, TodoInv
  <1>3. PlaceInv'
    BY DEF IInv, PlaceInv
  <1>4. FilesInv'
    BY DEF IInv, FilesInv, sqlite
  <1>5. BarredBeforeRemoval'
    BY DEF IInv, BarredBeforeRemoval, Touched, Readable
  <1>6. AgentOk(todo'["agent"], file', target') /\ ControllerOk(todo'["controller"], file', target')
    BY DEF IInv
  <1>. QED
    BY <1>1, <1>2, <1>3, <1>4, <1>5, <1>6 DEF IInv

LEMMA InitIInv ==
  ASSUME Init
  PROVE  IInv
  <1>1. /\ 0 \in Time /\ 0 \in 0..MaxCrashes /\ -1 \notin Time
    BY RetentionAssumption DEF Time
  <1>2. \A n \in FileName : file[n] = Absent
    BY DEF Init
  <1>3. \A n \in FileName : ~Made(file, n) /\ ~There(file, n) /\ ~Durable(file, n)
    BY <1>2 DEF Absent, Made, There, Durable
  <1>4. \A p \in Process : todo[p] = << >> /\ at[p] = AtRest
    BY DEF Init
  <1>5. /\ todo \in [Process -> Seq(Op)] /\ "agent" \in Process /\ "controller" \in Process
    BY DEF Init, Process
  <1>6. AtRest \in Places
    BY NoOps
  <1>7. TypeOK
    <2>1. file \in [FileName -> FileState] /\ \A n \in FileName : file[n].st = "none" => file[n] = Absent
      <3>1. Absent \in FileState
        BY DEF Absent, FileState
      <3>. QED
        BY <1>2, <3>1 DEF Init
    <2>2. /\ target \in [TargetName -> {"whole", "moved", "partial", "gone"}]
          /\ \A n \in TargetName : target[n] = "moved" => n[1] = "workspace"
          /\ \A n \in TargetName : target[n] = "partial" => n[1] \in {"workspace", "job"}
      BY DEF Init
    <2>3. at \in [Process -> [step: Steps, t: Tombstone \cup {None}, now: Time]]
      BY <1>6 DEF Init, Places
    <2>4. \A p \in Process : todo[p] # << >> => at[p].step \in {"rest", "consume", "remove"}
      BY <1>4
    <2>5. recorded \in [Tombstone -> Time \cup {-1}] /\ delivered \in [Delivery -> Time \cup {-1}]
      BY DEF Init
    <2>6. cursor \in (Time \X (1..Len(Order))) \cup {<<-1, 0>>} /\ {skipOnce, idle} \subseteq BOOLEAN
      BY DEF Init, Start
    <2>7. clock \in Time /\ crashes \in 0..MaxCrashes
      BY <1>1 DEF Init
    <2>. QED
      BY <2>1, <2>2, <2>3, <2>4, <2>5, <2>6, <2>7 DEF TypeOK
  <1>8. TodoInv
    BY <1>4, <1>5 DEF TodoInv
  <1>9. PlaceInv
    BY <1>4, <1>5, NoOps DEF PlaceInv
  <1>10. FilesInv
    BY <1>3, FileNames DEF FilesInv, Init
  <1>11. AgentOk(todo["agent"], file, target) /\ ControllerOk(todo["controller"], file, target)
    BY <1>4, <1>5, NoOps
  <1>12. BarredBeforeRemoval
    <2>1. \A n \in TargetName : target[n] # "whole" => n \in {"workspace"} \X NoWorkspace
      BY DEF Init
    <2>2. \A t \in Tombstone : ~Touched(t)
      BY <2>1, TargetNames DEF Touched
    <2>. QED
      BY <2>2 DEF BarredBeforeRemoval
  <1>. QED
    BY <1>7, <1>8, <1>9, <1>10, <1>11, <1>12 DEF IInv

LEMMA NextIInv ==
  ASSUME IInv, [Next]_vars
  PROVE  IInv'
  <1>1. CASE Controller
    BY <1>1, ReconcileIInv, WrapIInv, ScanAcksIInv, ConsumeAckIInv, AwaitAckIInv, RecordIInv,
       NothingIInv, CommitIInv, SurprisedIInv, FileStepIInv DEF Controller, Process
  <1>2. CASE Agent
    BY <1>2, FindCommittedIInv, AnnounceRemovalIInv, RemoveTargetsIInv, FileStepIInv DEF Agent, Process
  <1>3. ASSUME NEW e \in Delivery, Deliver(e) PROVE IInv'
    BY <1>3, WorldStep DEF Deliver, IInv, TypeOK
  <1>4. CASE Tick
    <2>1. clock' \in Time
      BY <1>4, RetentionAssumption DEF Tick, IInv, TypeOK, Time
    <2>2. delivered' \in [Delivery -> Time \cup {-1}]
      BY <1>4 DEF Tick, IInv, TypeOK
    <2>. QED
      BY <1>4, <2>1, <2>2, WorldStep DEF Tick
  <1>5. ASSUME NEW p \in Process, Crash(p) PROVE IInv'
    <2>1. crashes' \in 0..MaxCrashes
      BY <1>5, RetentionAssumption DEF Crash, IInv, TypeOK
    <2>. QED
      BY <1>5, <2>1, RefuseStep DEF Crash
  <1>6. CASE UNCHANGED vars
    <2>1. UNCHANGED <<file, target, at, todo, sqlite, skipOnce, idle, crashes, delivered, clock>>
      BY <1>6 DEF vars
    <2>2. delivered' \in [Delivery -> Time \cup {-1}] /\ clock' \in Time
      BY <2>1 DEF IInv, TypeOK
    <2>. QED
      BY <2>1, <2>2, WorldStep
  <1>. QED
    BY <1>1, <1>2, <1>3, <1>4, <1>5, <1>6 DEF Next

\* The invariant holds in every state, wherever the processes die.
THEOREM Inductive == Spec => []IInv
  <1>1. Init => IInv
    BY InitIInv
  <1>2. IInv /\ [Next]_vars => IInv'
    BY NextIInv
  <1>. QED
    BY <1>1, <1>2, PTL DEF Spec

\* Every file, target, pending operation and row keeps its type: what a process
\* has still to do names only metadata and targets of known tombstones.
THEOREM TypeCorrect == Spec => []TypeOK
  <1>1. IInv => TypeOK
    BY DEF IInv
  <1>. QED
    BY <1>1, Inductive, PTL

\* Nothing of a finished execution is touched before its jobs are barred on both
\* sides and the intent is durable: controller_commit publishes its barriers
\* before the tombstone, agent_consume its own before the intent, and removes
\* nothing until they are all there.
THEOREM BarredFirst == Spec => []BarredBeforeRemoval
  <1>1. IInv => BarredBeforeRemoval
    BY DEF IInv
  <1>. QED
    BY <1>1, Inductive, PTL

\* The bundle of a delivered report goes last: plan_retention plans the scratch
\* of an execution first, and only its receipt lets the evidence be planned.
THEOREM EvidenceGoesLast == Spec => []EvidenceAfterScratch
  <1>1. ASSUME IInv PROVE EvidenceAfterScratch
    <2>1. ASSUME NEW t \in Tombstone, NEW u \in Tombstone,
                 Scratch(t), ~Scratch(u), EventOf(t) = EventOf(u), Touched(u)
          PROVE  AgentGone(target, t)
      <3>1. Readable(<<"intent", u>>)
        BY <1>1, <2>1 DEF IInv, BarredBeforeRemoval
      <3>2. ScratchGone(target, u)
        BY <1>1, <3>1 DEF IInv, FilesInv, Readable, Made
      <3>. QED
        BY <2>1, <3>2 DEF ScratchGone
    <2>. QED
      BY <2>1 DEF EvidenceAfterScratch, AgentGone
  <1>. QED
    BY <1>1, Inductive, PTL

-----------------------------------------------------------------------------
(* The two processes implement Reclamation.                                *)

\* How far files f say that a tombstone is, and what targets g leave.
Stage(f, t) ==
  IF There(f, <<"completed", t>>) THEN "reclaimed"
  ELSE IF There(f, <<"ack", t>>) THEN "acknowledged"
  ELSE IF There(f, <<"committed", t>>) THEN "committed"
  ELSE "kept"
Rest(g) == {n \in TargetName : g[n] # "gone"}

LEMMA StageFacts ==
  /\ \A t : StageOf(t) = Stage(file, t) /\ StageOf(t)' = Stage(file', t)
  /\ Remaining = Rest(target) /\ Remaining' = Rest(target')
BY DEF StageOf, Stage, Exists, There, Remaining, Rest

\* Only publishing it makes a name be there, and only erasing it not.
LEMMA ThereMoves ==
  ASSUME NEW s, NEW f, NEW g, NEW f1, NEW g1, Moves(s, f, g, f1, g1), NEW n \in FileName,
         ~Publishes(s, 1, n), ~Erases(s, 1, n)
  PROVE  There(f1, n) <=> There(f, n)
BY DEF Moves, There, Durable

\* A step of an agent or a controller with operations s, as Reclamation sees it.
Reclaiming(s, f, g, f1, g1) ==
  \/ (\A t \in Tombstone : Stage(f1, t) = Stage(f, t)) /\ Rest(g1) = Rest(g)
  \/ \E t \in Tombstone :
       /\ \A u \in Tombstone \ {t} : Stage(f1, u) = Stage(f, u)
       /\ Rest(g1) = Rest(g)
       /\ \/ Stage(f, t) = "kept" /\ Stage(f1, t) = "committed"
          \/ /\ Stage(f, t) = "committed" /\ Stage(f1, t) = "acknowledged"
             /\ AgentGone(g, t)
          \/ /\ Stage(f, t) = "acknowledged" /\ Stage(f1, t) = "reclaimed"
             /\ ControllerGone(g, t)
  \/ \E t \in Tombstone, n \in TargetName :
       /\ \A u \in Tombstone : Stage(f1, u) = Stage(f, u)
       /\ Rest(g1) = Rest(g) \ {n} /\ n \in Rest(g)
       /\ \/ n \in AgentSide(t) /\ Stage(f, t) = "committed"
          \/ n \in ControllerSide(t) /\ Stage(f, t) = "acknowledged"

\* What the proofs below need of one step.
Reaches(s, f, g, f1, g1) ==
  /\ Moves(s, f, g, f1, g1)
  /\ s \in Seq(Op) /\ 1 \in 1..Len(s)
  /\ \/ AgentOk(s, f, g) /\ \A n : Publishes(s, 1, n) => n[1] \in Kinds["agent"]
     \/ ControllerOk(s, f, g) /\ \A n : Publishes(s, 1, n) => n[1] \in Kinds["controller"]
  /\ \A t \in Tombstone : There(f, <<"completed", t>>) => There(f, <<"ack", t>>)

\* Nothing but the three files that Stage reads.
LEMMA SameStage ==
  ASSUME NEW f, NEW f1, NEW t,
         \A k \in {"committed", "ack", "completed"} : There(f1, <<k, t>>) <=> There(f, <<k, t>>)
  PROVE  Stage(f1, t) = Stage(f, t)
BY DEF Stage

LEMMA NoErase ==
  ASSUME NEW s, NEW f, NEW g, NEW f1, NEW g1, Moves(s, f, g, f1, g1), s[1].op # "erase"
  PROVE  Rest(g1) = Rest(g)
  <1>1. \A n \in TargetName : g1[n] = g[n]
    BY DEF Moves, Erases
  <1>. QED
    BY <1>1 DEF Rest

LEMMA AdmitReclaims ==
  ASSUME NEW s, NEW f, NEW g, NEW f1, NEW g1, Reaches(s, f, g, f1, g1), s[1].op = "admit"
  PROVE  Reclaiming(s, f, g, f1, g1)
  <1>1. Moves(s, f, g, f1, g1)
    BY DEF Reaches
  <1>2. \A n : ~Publishes(s, 1, n) /\ ~Erases(s, 1, n)
    BY DEF Publishes, Erases
  <1>3. \A n \in FileName : There(f1, n) <=> There(f, n)
    BY <1>1, <1>2, ThereMoves
  <1>4. \A t \in Tombstone : Stage(f1, t) = Stage(f, t)
    <2>1. \A t \in Tombstone, k \in {"committed", "ack", "completed"} : <<k, t>> \in FileName
      BY FileNames
    <2>2. \A t \in Tombstone, k \in {"committed", "ack", "completed"} :
            There(f1, <<k, t>>) <=> There(f, <<k, t>>)
      BY <1>3, <2>1
    <2>. QED
      BY <2>2, SameStage
  <1>. QED
    BY <1>1, <1>4, NoErase DEF Reclaiming

LEMMA PublishReclaims ==
  ASSUME NEW s, NEW f, NEW g, NEW f1, NEW g1, Reaches(s, f, g, f1, g1), s[1].op = "publish"
  PROVE  Reclaiming(s, f, g, f1, g1)
  <1>1. Moves(s, f, g, f1, g1) /\ s \in Seq(Op) /\ 1 \in 1..Len(s)
    BY DEF Reaches
  <1>2. Rest(g1) = Rest(g)
    BY <1>1, NoErase
  <1>3. PICK m : m = s[1].name
    OBVIOUS
  <1>4. /\ \A n : ~Erases(s, 1, n) /\ (Publishes(s, 1, n) <=> n = m)
        /\ m \in FileName
    <2>1. s[1] \in Op
      BY <1>1
    <2>. QED
      BY <1>3, <2>1, OpFacts DEF Erases, Publishes
  <1>5. \A n \in FileName : n # m => (There(f1, n) <=> There(f, n))
    BY <1>1, <1>4, ThereMoves
  <1>6. There(f, m) => There(f1, m)
    BY <1>1, <1>4, ThereMoves DEF Moves, There, Durable
  <1>7. CASE (There(f1, m) <=> There(f, m)) \/ m[1] \notin {"committed", "ack", "completed"}
    <2>1. ASSUME NEW t \in Tombstone, NEW k \in {"committed", "ack", "completed"}
          PROVE  There(f1, <<k, t>>) <=> There(f, <<k, t>>)
      <3>1. <<k, t>> \in FileName /\ <<k, t>>[1] = k
        BY FileNames
      <3>. QED
        BY <1>5, <1>7, <3>1
    <2>2. \A t \in Tombstone : Stage(f1, t) = Stage(f, t)
      BY <2>1, SameStage
    <2>. QED
      BY <1>2, <2>2 DEF Reclaiming
  <1>8. ASSUME There(f1, m), ~There(f, m), m[1] \in {"committed", "ack", "completed"}
        PROVE  Reclaiming(s, f, g, f1, g1)
    <2>1. PICK t \in Tombstone : m = <<m[1], t>>
      BY <1>4, <1>8 DEF FileName
    <2>2. PICK k \in {"committed", "ack", "completed"} : m = <<k, t>>
      BY <1>8, <2>1
    <2>3. ASSUME NEW u \in Tombstone, NEW l \in {"committed", "ack", "completed"}, l # k \/ u # t
          PROVE  There(f1, <<l, u>>) <=> There(f, <<l, u>>)
      <3>1. <<l, u>> \in FileName /\ <<l, u>> # m
        BY <2>2, <2>3, FileNames
      <3>. QED
        BY <1>5, <3>1
    <2>4. \A u \in Tombstone \ {t} : Stage(f1, u) = Stage(f, u)
      BY <2>3, SameStage
    <2>5. /\ \A l \in {"committed", "ack", "completed"} : l # k => (There(f1, <<l, t>>) <=> There(f, <<l, t>>))
          /\ There(f1, <<k, t>>) /\ ~There(f, <<k, t>>)
      BY <1>8, <2>2, <2>3
    <2>6. There(f, <<"completed", t>>) => There(f, <<"ack", t>>)
      BY DEF Reaches
    <2>7. Publishes(s, 1, <<k, t>>)
      BY <1>4, <2>2
    <2>8. CASE k = "committed"
      <3>1. CASE There(f, <<"completed", t>>) \/ There(f, <<"ack", t>>)
        <4>1. Stage(f1, t) = Stage(f, t)
          BY <2>5, <2>8, <3>1 DEF Stage
        <4>. QED
          BY <1>2, <2>4, <4>1 DEF Reclaiming
      <3>2. CASE ~There(f, <<"completed", t>>) /\ ~There(f, <<"ack", t>>)
        <4>1. Stage(f, t) = "kept" /\ Stage(f1, t) = "committed"
          BY <2>5, <2>8, <3>2 DEF Stage
        <4>. QED
          BY <1>2, <2>4, <4>1 DEF Reclaiming
      <3>. QED
        BY <3>1, <3>2
    <2>9. CASE k = "ack"
      <3>1. ~There(f, <<"completed", t>>)
        BY <2>5, <2>6, <2>9
      <3>2. AgentOk(s, f, g)
        BY <2>7, <2>9 DEF Reaches, Kinds
      <3>3. There(f, <<"committed", t>>) /\ AgentGone(g, t)
        BY <1>1, <2>5, <2>7, <2>9, <3>2 DEF AgentOk, AgentGone, GoneBy
      <3>4. Stage(f, t) = "committed" /\ Stage(f1, t) = "acknowledged"
        BY <2>5, <2>9, <3>1, <3>3 DEF Stage
      <3>. QED
        BY <1>2, <2>4, <3>3, <3>4 DEF Reclaiming
    <2>10. CASE k = "completed"
      <3>0. ControllerOk(s, f, g)
        BY <2>7, <2>10 DEF Reaches, Kinds
      <3>1. There(f, <<"ack", t>>) /\ ControllerGone(g, t)
        BY <1>1, <2>7, <2>10, <3>0 DEF ControllerOk, ControllerGone, GoneBy
      <3>2. Stage(f, t) = "acknowledged" /\ Stage(f1, t) = "reclaimed"
        BY <2>5, <2>10, <3>1 DEF Stage
      <3>. QED
        BY <1>2, <2>4, <3>1, <3>2 DEF Reclaiming
    <2>. QED
      BY <2>8, <2>9, <2>10
  <1>. QED
    BY <1>6, <1>7, <1>8

LEMMA EraseReclaims ==
  ASSUME NEW s, NEW f, NEW g, NEW f1, NEW g1, Reaches(s, f, g, f1, g1), s[1].op = "erase"
  PROVE  Reclaiming(s, f, g, f1, g1)
  <1>1. Moves(s, f, g, f1, g1) /\ s \in Seq(Op) /\ 1 \in 1..Len(s)
    BY DEF Reaches
  <1>2. PICK m : m = s[1].name
    OBVIOUS
  <1>3. \A n : ~Publishes(s, 1, n) /\ (Erases(s, 1, n) <=> n = m)
    BY <1>2 DEF Erases, Publishes
  <1>4. \A n \in FileName : n # m => (There(f1, n) <=> There(f, n))
    BY <1>1, <1>3, ThereMoves
  <1>5. CASE m \notin TargetName
    <2>1. \A n \in TargetName : g1[n] = g[n]
      BY <1>1, <1>3, <1>5 DEF Moves
    <2>2. PICK t \in Tombstone : m \in {"prepared", "committed", "deleting"} \X {t} /\ There(f, <<"completed", t>>)
      <3>1. \A u \in Tombstone : m \notin AgentSide(u) /\ m \notin ControllerSide(u)
        BY <1>5, TargetNames
      <3>2. ControllerOk(s, f, g)
        BY <1>1, <1>2, <3>1 DEF Reaches, AgentOk
      <3>3. PICK t \in Tombstone : /\ m \in {"prepared", "committed", "deleting"} \X {t}
                                   /\ ThereBy(s, 1, <<"completed", t>>, f)
        BY <1>1, <1>2, <3>1, <3>2 DEF ControllerOk
      <3>4. There(f, <<"completed", t>>)
        BY <3>3 DEF ThereBy
      <3>. QED
        BY <3>3, <3>4
    <2>3. ASSUME NEW u \in Tombstone PROVE Stage(f1, u) = Stage(f, u)
      <3>1. \A k \in {"ack", "completed"} : There(f1, <<k, u>>) <=> There(f, <<k, u>>)
        BY <1>4, <2>2, FileNames
      <3>2. CASE u = t
        BY <2>2, <3>1, <3>2 DEF Stage
      <3>3. CASE u # t
        <4>1. There(f1, <<"committed", u>>) <=> There(f, <<"committed", u>>)
          <5>1. m[2] = t
            BY <2>2
          <5>2. <<"committed", u>> # m
            BY <3>3, <5>1
          <5>3. <<"committed", u>> \in FileName
            BY FileNames
          <5>. QED
            BY <1>4, <5>2, <5>3
        <4>. QED
          BY <3>1, <4>1, SameStage
      <3>. QED
        BY <3>2, <3>3
    <2>. QED
      BY <2>1, <2>3 DEF Reclaiming, Rest
  <1>6. CASE m \in TargetName
    <2>1. \A n \in FileName : n # m
      BY <1>6, TargetNames
    <2>2. \A u \in Tombstone : Stage(f1, u) = Stage(f, u)
      BY <1>4, <2>1, FileNames, SameStage
    <2>3. \A n \in TargetName \ {m} : g1[n] = g[n]
      BY <1>1, <1>3 DEF Moves
    <2>4. CASE g1[m] = g[m] \/ g1[m] # "gone"
      <3>1. g1[m] = "gone" <=> g[m] = "gone"
        BY <1>1, <1>6, <2>4 DEF Moves
      <3>2. Rest(g1) = Rest(g)
        BY <2>3, <3>1 DEF Rest
      <3>. QED
        BY <2>2, <3>2 DEF Reclaiming
    <2>5. CASE g1[m] # g[m] /\ g1[m] = "gone"
      <3>1. Rest(g1) = Rest(g) \ {m} /\ m \in Rest(g)
        BY <1>6, <2>3, <2>5 DEF Rest
      <3>2. m \notin {"prepared", "committed", "deleting"} \X Tombstone
        <4>1. {"prepared", "committed", "deleting"} \X Tombstone \subseteq FileName
          BY DEF FileName
        <4>. QED
          BY <2>1, <4>1
      <3>3. \E t \in Tombstone :
              \/ m \in AgentSide(t) /\ There(f, <<"committed", t>>) /\ ~There(f, <<"ack", t>>)
              \/ m \in ControllerSide(t) /\ There(f, <<"ack", t>>) /\ ~There(f, <<"completed", t>>)
        BY <1>1, <1>2, <3>2 DEF Reaches, AgentOk, ControllerOk
      <3>4. PICK t \in Tombstone :
              \/ m \in AgentSide(t) /\ Stage(f, t) = "committed"
              \/ m \in ControllerSide(t) /\ Stage(f, t) = "acknowledged"
        BY <3>3 DEF Reaches, Stage
      <3>. QED
        BY <1>6, <2>2, <3>1, <3>4 DEF Reclaiming
    <2>. QED
      BY <2>4, <2>5
  <1>. QED
    BY <1>5, <1>6

LEMMA FileStepReclaims ==
  ASSUME IInv, NEW p \in Process, FileStep(p)
  PROVE  Reclaiming(todo[p], file, target, file', target')
  <1>1. /\ Moves(todo[p], file, target, file', target')
        /\ todo[p] \in Seq(Op) /\ 1 \in 1..Len(todo[p])
        /\ AgentOk(todo["agent"], file, target) /\ ControllerOk(todo["controller"], file, target)
        /\ \A t \in Tombstone : There(file, <<"completed", t>>) => There(file, <<"ack", t>>)
        /\ \A n : Publishes(todo[p], 1, n) => n[1] \in Kinds[p]
    BY FileStepFacts
  <1>2. Reaches(todo[p], file, target, file', target')
    <2>1. CASE p = "agent"
      BY <1>1, <2>1 DEF Reaches
    <2>2. CASE p = "controller"
      BY <1>1, <2>2 DEF Reaches
    <2>. QED
      BY <2>1, <2>2 DEF Process
  <1>3. todo[p][1] \in Op
    BY <1>1
  <1>4. todo[p][1].op \in {"admit", "publish", "erase"}
    BY <1>3, OpFacts
  <1>. QED
    BY <1>2, <1>4, AdmitReclaims, PublishReclaims, EraseReclaims

LEMMA NextReclaims ==
  ASSUME IInv, [Next]_vars
  PROVE  [Reclaimed!Next]_(Reclaimed!vars)
  <1>1. CASE UNCHANGED <<file, target>>
    <2>1. \A t \in Tombstone : StageOf(t)' = StageOf(t)
      BY <1>1 DEF StageOf, Exists
    <2>2. Remaining' = Remaining
      BY <1>1 DEF Remaining
    <2>. QED
      BY <2>1, <2>2 DEF Reclaimed!vars
  <1>2. ASSUME NEW p \in Process, FileStep(p) PROVE [Reclaimed!Next]_(Reclaimed!vars)
    <2>1. /\ \A t \in Tombstone : StageOf(t) = Stage(file, t) /\ StageOf(t)' = Stage(file', t)
          /\ Remaining = Rest(target) /\ Remaining' = Rest(target')
      BY StageFacts
    <2>2. CASE (\A t \in Tombstone : Stage(file', t) = Stage(file, t)) /\ Rest(target') = Rest(target)
      BY <2>1, <2>2 DEF Reclaimed!vars
    <2>3. ASSUME NEW t \in Tombstone, \A u \in Tombstone \ {t} : StageOf(u)' = StageOf(u),
                 Remaining' = Remaining,
                 \/ StageOf(t) = "kept" /\ StageOf(t)' = "committed"
                 \/ /\ StageOf(t) = "committed" /\ StageOf(t)' = "acknowledged"
                    /\ AgentGone(target, t)
                 \/ /\ StageOf(t) = "acknowledged" /\ StageOf(t)' = "reclaimed"
                    /\ ControllerGone(target, t)
          PROVE  Reclaimed!Next
      <3>1. AgentGone(target, t) => Remaining \cap AgentSide(t) = {}
        BY DEF AgentGone, Remaining
      <3>2. ControllerGone(target, t) => Remaining \cap ControllerSide(t) = {}
        BY DEF ControllerGone, Remaining
      <3>3. Reclaimed!Commit(t) \/ Reclaimed!Acknowledge(t) \/ Reclaimed!Finish(t)
        BY <2>3, <3>1, <3>2 DEF Reclaimed!Commit, Reclaimed!Acknowledge, Reclaimed!Finish
      <3>. QED
        BY <3>3 DEF Reclaimed!Next
    <2>4. ASSUME NEW t \in Tombstone, NEW n \in TargetName,
                 \A u \in Tombstone : StageOf(u)' = StageOf(u),
                 Remaining' = Remaining \ {n}, n \in Remaining,
                 \/ n \in AgentSide(t) /\ StageOf(t) = "committed"
                 \/ n \in ControllerSide(t) /\ StageOf(t) = "acknowledged"
          PROVE  Reclaimed!Next
      <3>1. CASE n \in AgentSide(t) /\ StageOf(t) = "committed"
        <4>1. Reclaimed!AgentRemoves(t, n)
          BY <2>4, <3>1 DEF Reclaimed!AgentRemoves
        <4>. QED
          BY <3>1, <4>1 DEF Reclaimed!Next
      <3>2. CASE n \in ControllerSide(t) /\ StageOf(t) = "acknowledged"
        <4>1. Reclaimed!ControllerRemoves(t, n)
          BY <2>4, <3>2 DEF Reclaimed!ControllerRemoves
        <4>. QED
          BY <3>2, <4>1 DEF Reclaimed!Next
      <3>. QED
        BY <2>4, <3>1, <3>2
    <2>5. Reclaiming(todo[p], file, target, file', target')
      BY <1>2, FileStepReclaims
    <2>. QED
      BY <2>1, <2>2, <2>3, <2>4, <2>5 DEF Reclaiming
  <1>3. UNCHANGED <<file, target>> \/ \E p \in Process : FileStep(p)
    BY DEF Next, Controller, Agent, Reconcile, Wrap, ScanAcks, ConsumeAck, AwaitAck, Record, Nothing, Commit,
           Surprised, FindCommitted, AnnounceRemoval, RemoveTargets, Deliver, Tick, Crash, AgentOnly, Files,
           vars, Process
  <1>. QED
    BY <1>1, <1>2, <1>3

LEMMA InitReclaims ==
  ASSUME Init
  PROVE  Reclaimed!Init
  <1>1. \A t \in Tombstone : StageOf(t) = "kept"
    <2>1. \A n \in FileName : ~Exists(n)
      BY DEF Init, Absent, Exists
    <2>. QED
      BY <2>1, FileNames DEF StageOf
  <1>2. Remaining \subseteq Reclaimed!Targets
    BY TargetNames DEF Remaining, Reclaimed!Targets
  <1>. QED
    BY <1>1, <1>2 DEF Reclaimed!Init

\* The two processes, their files and the crashes between them implement the
\* order of Reclamation: nothing of the agent's before the committed tombstone,
\* the acknowledgement when all of it is gone, nothing of the controller's
\* before the acknowledgement (controller_consume_ack), and the receipt when
\* nothing is left.
THEOREM ImplementsReclamation == Spec => Reclaims
  <1>1. Init => Reclaimed!Init
    BY InitReclaims
  <1>2. IInv /\ [Next]_vars => [Reclaimed!Next]_(Reclaimed!vars)
    BY NextReclaims
  <1>. QED
    BY <1>1, <1>2, Inductive, PTL DEF Spec, Reclaims, Reclaimed!Spec

\* What the receipt in SQLite says is true: every workspace, result, bundle, job
\* and dispatch record of its tombstone is gone (record_retention_completions,
\* after is_completed).
RecordedMeansGone ==
  \A t \in Tombstone :
    recorded[t] # -1 => \A n \in AgentSide(t) \cup ControllerSide(t) : target[n] = "gone"

\* A recorded receipt stands for work that is gone, whoever died on the way.
THEOREM RecordsAreTrue == Spec => []RecordedMeansGone
  <1>1. ASSUME IInv PROVE RecordedMeansGone
    <2>1. ASSUME NEW t \in Tombstone, recorded[t] # -1
          PROVE  AgentGone(target, t) /\ ControllerGone(target, t)
      <3>1. Made(file, <<"completed", t>>)
        BY <1>1, <2>1 DEF IInv, FilesInv, Durable, Made
      <3>2. There(file, <<"ack", t>>) /\ ControllerGone(target, t)
        BY <1>1, <3>1 DEF IInv, FilesInv
      <3>3. AgentGone(target, t)
        BY <1>1, <3>2 DEF IInv, FilesInv, There, Made
      <3>. QED
        BY <3>2, <3>3
    <2>. QED
      BY <2>1 DEF RecordedMeansGone, AgentGone, ControllerGone
  <1>. QED
    BY <1>1, Inductive, PTL
=============================================================================

-------------------------- MODULE CallGraphProofs --------------------------
(***************************************************************************)
(* Three results, whatever the program, the depth limit and the order of   *)
(* the edges.  What the walk over call paths leaves, the sweep takes, so   *)
(* every function the entry reaches is refreshed.  Edges, nodes and the    *)
(* maps of call sites describe the same calls.  The walk visits exactly    *)
(* the call paths up to the limit that repeat no function.                 *)
(***************************************************************************)
EXTENDS CallGraph, FiniteSetTheorems, TLAPS

-----------------------------------------------------------------------------
(* Sequences *)

LEMMA NoElement ==
  ASSUME NEW q, q = <<>>
  PROVE  ToSet(q) = {}
  BY DEF ToSet

LEMMA OneElement == ASSUME NEW e PROVE ToSet(<<e>>) = {e}
  BY DEF ToSet

LEMMA HeadAndTail ==
  ASSUME NEW S, NEW q \in Seq(S), q # <<>>
  PROVE  /\ Head(q) \in S /\ Tail(q) \in Seq(S)
         /\ ToSet(q) = {Head(q)} \cup ToSet(Tail(q))
  <1>1. Head(q) = q[1] /\ Head(q) \in S /\ Tail(q) \in Seq(S) /\ Len(q) \in Nat \ {0}
    OBVIOUS
  <1>2. Len(Tail(q)) = Len(q) - 1 /\ \A i \in 1 .. Len(q) - 1 : Tail(q)[i] = q[i + 1]
    OBVIOUS
  <1>3. DOMAIN q = 1 .. Len(q) /\ DOMAIN Tail(q) = 1 .. Len(q) - 1
    BY <1>1, <1>2
  <1>4. ASSUME NEW i \in DOMAIN q PROVE q[i] \in {Head(q)} \cup ToSet(Tail(q))
    <2>1. CASE i = 1
      BY <2>1, <1>1
    <2>2. CASE i # 1
      <3>1. i - 1 \in 1 .. Len(q) - 1 /\ (i - 1) + 1 = i
        BY <2>2, <1>1, <1>3
      <3>2. q[i] = Tail(q)[i - 1]
        BY <3>1, <1>2
      <3> QED BY <3>1, <3>2, <1>3 DEF ToSet
    <2> QED BY <2>1, <2>2
  <1>5. ASSUME NEW i \in DOMAIN Tail(q) PROVE Tail(q)[i] \in ToSet(q)
    <2>1. i + 1 \in DOMAIN q /\ Tail(q)[i] = q[i + 1]
      BY <1>1, <1>2, <1>3
    <2> QED BY <2>1 DEF ToSet
  <1>6. Head(q) \in ToSet(q)
    BY <1>1, <1>3 DEF ToSet
  <1>7. ToSet(q) \subseteq {Head(q)} \cup ToSet(Tail(q))
    BY <1>4 DEF ToSet
  <1>8. ToSet(Tail(q)) \subseteq ToSet(q)
    BY <1>5 DEF ToSet
  <1> QED BY <1>1, <1>6, <1>7, <1>8

LEMMA Joined ==
  ASSUME NEW S, NEW p \in Seq(S), NEW q \in Seq(S)
  PROVE  p \o q \in Seq(S) /\ ToSet(p \o q) = ToSet(p) \cup ToSet(q)
  <1>1. /\ p \o q \in Seq(S) /\ Len(p) \in Nat /\ Len(q) \in Nat
        /\ Len(p \o q) = Len(p) + Len(q)
    OBVIOUS
  <1>2. /\ \A i \in 1 .. Len(p) : (p \o q)[i] = p[i]
        /\ \A i \in 1 .. Len(q) : (p \o q)[Len(p) + i] = q[i]
    OBVIOUS
  <1>3. DOMAIN p = 1 .. Len(p) /\ DOMAIN q = 1 .. Len(q) /\ DOMAIN (p \o q) = 1 .. Len(p) + Len(q)
    BY <1>1
  <1>4. ASSUME NEW i \in DOMAIN (p \o q) PROVE (p \o q)[i] \in ToSet(p) \cup ToSet(q)
    <2>1. CASE i <= Len(p)
      <3>1. i \in 1 .. Len(p)
        BY <2>1, <1>1, <1>3
      <3> QED BY <3>1, <1>2, <1>3 DEF ToSet
    <2>2. CASE ~(i <= Len(p))
      <3>1. i - Len(p) \in 1 .. Len(q) /\ Len(p) + (i - Len(p)) = i
        BY <2>2, <1>1, <1>3
      <3>2. (p \o q)[i] = q[i - Len(p)]
        BY <3>1, <1>2
      <3> QED BY <3>1, <3>2, <1>3 DEF ToSet
    <2> QED BY <2>1, <2>2
  <1>5. ASSUME NEW i \in DOMAIN p PROVE p[i] \in ToSet(p \o q)
    <2>1. i \in DOMAIN (p \o q) /\ (p \o q)[i] = p[i]
      BY <1>1, <1>2, <1>3
    <2> QED BY <2>1 DEF ToSet
  <1>6. ASSUME NEW i \in DOMAIN q PROVE q[i] \in ToSet(p \o q)
    <2>1. Len(p) + i \in DOMAIN (p \o q) /\ (p \o q)[Len(p) + i] = q[i]
      BY <1>1, <1>2, <1>3
    <2> QED BY <2>1 DEF ToSet
  <1>7. ToSet(p \o q) \subseteq ToSet(p) \cup ToSet(q)
    BY <1>4 DEF ToSet
  <1>8. ToSet(p) \subseteq ToSet(p \o q) /\ ToSet(q) \subseteq ToSet(p \o q)
    BY <1>5, <1>6 DEF ToSet
  <1> QED BY <1>1, <1>7, <1>8

LEMMA Replaced ==
  ASSUME NEW S, NEW q \in Seq(S), NEW i \in DOMAIN q, NEW v \in S
  PROVE  [q EXCEPT ![i] = v] \in Seq(S)
  OBVIOUS

LEMMA InOrderIsSeq ==
  ASSUME NEW S \in SUBSET Func, NEW s \in InOrder(S), Cardinality(S) \in Nat
  PROVE  s \in Seq(Func) /\ ToSet(s) = S
  <1>1. s \in [1 .. Cardinality(S) -> Func] /\ ToSet(s) = S
    BY DEF InOrder
  <1> QED BY <1>1

-----------------------------------------------------------------------------
(* The inductive invariant *)

Frame == [node : Func, todo : SUBSET Func]

\* Nothing is linked before the graph is built, and what is linked or queued is
\* reached; the successors of what is linked are linked or still queued.
LinkInv ==
  /\ edges \subseteq Func \X Func
  /\ linked \subseteq Func /\ queue \in Seq(Func)
  /\ pc = "build" => linked = {} /\ queue = <<>>
  /\ pc \notin {"build", "link"} => queue = <<>>
  /\ linked \cup ToSet(queue) \subseteq Reached
  /\ pc # "build" /\ Entry # FuncNum => Entry \in linked \cup ToSet(queue)
  /\ \A f \in linked : Succ(f) \subseteq linked \cup ToSet(queue)

\* The frames of DFSNode hold reached functions with bodies, and edges of theirs.
WalkInv ==
  /\ frames \in Seq(Frame)
  /\ pc # "walk" => frames = <<>>
  /\ \A i \in DOMAIN frames :
       /\ frames[i].node \in linked \cap HasBody
       /\ frames[i].todo \subseteq Succ(frames[i].node) \cap HasBody

SweepInv ==
  /\ pc \in {"build", "link", "walk", "sweep", "done"}
  /\ pc \in {"build", "link"} => updated = {}
  /\ updated \subseteq linked \cap HasBody
  /\ left = IF pc = "done" THEN (linked \cap HasBody) \ updated ELSE {}

IInv == LinkInv /\ WalkInv /\ SweepInv

LEMMA FiniteFunc ==
  ASSUME NEW S \in SUBSET Func
  PROVE  Cardinality(S) \in Nat
  <1>1. FuncNum - 1 \in Int /\ 0 \in Int
    BY FuncAssumption
  <1>2. IsFiniteSet(Func)
    BY <1>1, FS_Interval DEF Func
  <1>3. IsFiniteSet(S)
    BY <1>2, FS_Subset
  <1> QED BY <1>3, FS_CardinalityType

LEMMA ReachedFacts ==
  ASSUME edges \subseteq Func \X Func
  PROVE  /\ Entry \in Func => Entry \in Reached
         /\ \A f \in Reached : Succ(f) \subseteq Reached
         /\ Reached \subseteq Func
  <1>1. Entry \in Func => Entry \in Reached
    BY DEF Reached
  <1>2. ASSUME NEW f \in Reached, NEW g \in Succ(f) PROVE g \in Reached
    <2>1. g \in Func /\ <<f, g>> \in edges
      BY <1>2 DEF Succ
    <2>2. ASSUME NEW S \in SUBSET Func, Entry \in S,
                 \A e \in edges : e[1] \in S => e[2] \in S
          PROVE  g \in S
      <3>1. f \in S
        BY <2>2, <1>2 DEF Reached
      <3>2. <<f, g>>[1] = f /\ <<f, g>>[2] = g
        OBVIOUS
      <3> QED BY <2>1, <2>2, <3>1, <3>2
    <2> QED BY <2>1, <2>2 DEF Reached
  <1> QED BY <1>1, <1>2 DEF Reached

LEMMA InitIInv == Init => IInv
  <1> SUFFICES ASSUME Init PROVE IInv
    OBVIOUS
  <1>1. queue \in Seq(Func) /\ ToSet(queue) = {} /\ frames \in Seq(Frame) /\ DOMAIN frames = {}
    BY NoElement DEF Init, ToSet
  <1> QED BY <1>1 DEF Init, IInv, LinkInv, WalkInv, SweepInv

\* Steps that leave the graph, the linking and the sweep alone.
LEMMA LinkKept ==
  ASSUME LinkInv, UNCHANGED <<edges, queue, linked>>,
         pc' = "build" => pc = "build",
         pc = "build" => pc' = "build",
         pc' \notin {"build", "link"} => queue = <<>>
  PROVE  LinkInv'
  <1>1. Reached' = Reached
    BY DEF Reached
  <1>2. \A f \in linked : Succ(f)' = Succ(f)
    BY DEF Succ
  <1> QED BY <1>1, <1>2 DEF LinkInv

LEMMA ReadStep ==
  ASSUME IInv, NEW C \in SUBSET Func, ReadCall, AddCgEdges(scan, C)
  PROVE  IInv'
  <1>1. /\ pc = "build" /\ pc' = "build" /\ scan \in Func
        /\ edges' = edges \cup {<<scan, g>> : g \in C \ {scan}}
        /\ UNCHANGED <<queue, linked, frames, updated, left>>
    BY FuncAssumption DEF ReadCall, AddCgEdges, Func
  <1>2. linked = {} /\ queue = <<>> /\ frames = <<>> /\ updated = {} /\ left = {}
    BY <1>1 DEF IInv, LinkInv, WalkInv, SweepInv
  <1>3. edges' \subseteq Func \X Func
    BY <1>1 DEF IInv, LinkInv
  <1>4. LinkInv'
    <2>1. linked' = {} /\ queue' = <<>>
      BY <1>1, <1>2
    <2>2. queue' \in Seq(Func)
      BY <2>1
    <2>3. ToSet(queue') = {}
      BY <2>1, NoElement
    <2> QED BY <1>1, <1>3, <2>1, <2>2, <2>3 DEF LinkInv
  <1>5. WalkInv'
    BY <1>1, <1>2 DEF WalkInv, IInv, Frame
  <1>6. SweepInv'
    BY <1>1, <1>2 DEF SweepInv, IInv
  <1> QED BY <1>4, <1>5, <1>6 DEF IInv

\* The call DFSNode(f) of a linked function with a body, on a stack without it.
LEMMA EnterStep ==
  ASSUME IInv, NEW fr \in Seq(Frame), NEW f \in linked \cap HasBody, Enter(fr, f),
         UNCHANGED <<edges, queue, linked, left>>,
         pc \in {"link", "walk"}, pc' = "walk", queue = <<>>,
         \A i \in DOMAIN fr : /\ fr[i].node \in linked \cap HasBody
                              /\ fr[i].todo \subseteq Succ(fr[i].node) \cap HasBody
  PROVE  IInv'
  <1> DEFINE end == leaf[f] \/ Len(fr) + 1 >= PathDepth
             new == [node |-> f, todo |-> IF end THEN {} ELSE Succ(f) \cap HasBody]
             now == Append(fr, new)
  <1>1. frames' = now /\ (updated' = updated \/ updated' = updated \cup ToSet(NodeStack(now)))
    BY DEF Enter
  <1>2. new \in Frame /\ f \in Func /\ new.node = f /\ new.todo \subseteq Succ(f) \cap HasBody
    BY DEF Frame, Succ, IInv, LinkInv
  <1> HIDE DEF new
  <1>3. /\ now \in Seq(Frame) /\ Len(now) = Len(fr) + 1 /\ Len(fr) \in Nat
        /\ DOMAIN now = 1 .. Len(fr) + 1 /\ DOMAIN fr = 1 .. Len(fr)
        /\ now[Len(fr) + 1] = new
        /\ \A i \in 1 .. Len(fr) : now[i] = fr[i]
    BY <1>2
  <1> HIDE DEF now
  <1>4. ASSUME NEW i \in DOMAIN now
        PROVE  /\ now[i].node \in linked \cap HasBody
               /\ now[i].todo \subseteq Succ(now[i].node) \cap HasBody
    <2>1. CASE i = Len(fr) + 1
      BY <2>1, <1>2, <1>3
    <2>2. CASE i # Len(fr) + 1
      <3>1. i \in DOMAIN fr /\ now[i] = fr[i]
        BY <2>2, <1>3
      <3> QED BY <3>1
    <2> QED BY <2>1, <2>2
  <1>5. ToSet(NodeStack(now)) \subseteq linked \cap HasBody
    <2>1. DOMAIN NodeStack(now) = DOMAIN now /\ \A i \in DOMAIN now : NodeStack(now)[i] = now[i].node
      BY <1>3 DEF NodeStack
    <2> QED BY <2>1, <1>4 DEF ToSet
  <1>6. \A g \in Func : Succ(g)' = Succ(g)
    BY DEF Succ
  <1>7. WalkInv'
    <2>1. \A i \in DOMAIN now : now[i].node \in Func
      BY <1>4 DEF IInv, LinkInv
    <2> QED BY <1>1, <1>3, <1>4, <1>6, <2>1 DEF WalkInv
  <1>8. LinkInv'
    BY LinkKept DEF IInv
  <1>9. SweepInv'
    BY <1>1, <1>5 DEF IInv, SweepInv
  <1> QED BY <1>7, <1>8, <1>9 DEF IInv

LEMMA LinkStep == IInv /\ Link => IInv'
  <1> SUFFICES ASSUME IInv, Link PROVE IInv'
    OBVIOUS
  <1> DEFINE f == Head(queue)
             new == Succ(f) \ (linked \cup {f})
  <1>1. /\ pc = "link" /\ pc' = "link" /\ queue # <<>> /\ linked' = linked \cup {f}
        /\ UNCHANGED <<edges, frames, updated, left>>
    BY DEF Link, built
  <1>2. PICK s \in InOrder(new) : queue' = Tail(queue) \o s
    BY DEF Link
  <1>3. f \in Func /\ Tail(queue) \in Seq(Func) /\ ToSet(queue) = {f} \cup ToSet(Tail(queue))
    BY <1>1, HeadAndTail DEF IInv, LinkInv
  <1>4. new \in SUBSET Func
    BY DEF Succ
  <1>5. s \in Seq(Func) /\ ToSet(s) = new
    BY <1>2, <1>4, FiniteFunc, InOrderIsSeq
  <1> HIDE DEF f, new
  <1>6. queue' \in Seq(Func) /\ ToSet(queue') = ToSet(Tail(queue)) \cup new
    <2>1. PICK t \in Seq(Func) : t = Tail(queue) /\ queue' = t \o s
      BY <1>2, <1>3
    <2>2. t \o s \in Seq(Func) /\ ToSet(t \o s) = ToSet(t) \cup ToSet(s)
      BY <1>5, Joined
    <2> QED BY <2>1, <2>2, <1>5
  <1> USE DEF f, new
  <1>7. f \in Reached /\ Succ(f) \subseteq Reached
    BY <1>3, ReachedFacts DEF IInv, LinkInv
  <1>8. Reached' = Reached /\ \A g \in Func : Succ(g)' = Succ(g)
    BY <1>1 DEF Reached, Succ
  <1>9. LinkInv'
    <2>1. linked' \cup ToSet(queue') = linked \cup ToSet(queue) \cup Succ(f)
      BY <1>1, <1>3, <1>6
    <2>2. linked' \cup ToSet(queue') \subseteq Reached
      BY <2>1, <1>7 DEF IInv, LinkInv
    <2>3. ASSUME NEW g \in linked' PROVE Succ(g) \subseteq linked' \cup ToSet(queue')
      BY <2>1, <2>3, <1>1 DEF IInv, LinkInv
    <2>4. linked' \subseteq Func
      BY <1>1, <1>3 DEF IInv, LinkInv
    <2> QED BY <2>1, <2>2, <2>3, <2>4, <1>1, <1>6, <1>8 DEF IInv, LinkInv
  <1>10. WalkInv'
    BY <1>1, <1>8 DEF IInv, WalkInv, LinkInv
  <1>11. SweepInv'
    BY <1>1 DEF IInv, SweepInv
  <1> QED BY <1>9, <1>10, <1>11 DEF IInv

LEMMA BuiltStep == IInv /\ Built => IInv'
  <1> SUFFICES ASSUME IInv, Built PROVE IInv'
    OBVIOUS
  <1>1. /\ pc = "build" /\ pc' = "link"
        /\ queue' = IF Entry = FuncNum THEN <<>> ELSE <<Entry>>
        /\ UNCHANGED <<edges, linked, frames, updated, left>>
    BY DEF Built
  <1>2. linked = {} /\ edges \subseteq Func \X Func
    BY <1>1 DEF IInv, LinkInv
  <1>3. Reached' = Reached
    BY <1>1 DEF Reached
  <1>4. queue' \in Seq(Func) /\ ToSet(queue') \subseteq Reached
        /\ (Entry # FuncNum => Entry \in ToSet(queue'))
    <2>1. CASE Entry = FuncNum
      <3>1. queue' = <<>> /\ queue' \in Seq(Func)
        BY <1>1, <2>1
      <3> QED BY <3>1, <2>1, NoElement
    <2>2. CASE Entry # FuncNum
      <3>1. Entry \in Func
        BY <2>2, FuncAssumption
      <3>2. queue' = <<Entry>> /\ queue' \in Seq(Func) /\ Entry \in Reached
        BY <1>1, <1>2, <2>2, <3>1, ReachedFacts
      <3> QED BY <3>2, OneElement
    <2> QED BY <2>1, <2>2
  <1>5. LinkInv'
    BY <1>1, <1>2, <1>3, <1>4 DEF LinkInv
  <1>6. WalkInv' /\ SweepInv'
    BY <1>1 DEF IInv, WalkInv, SweepInv, Succ
  <1> QED BY <1>5, <1>6 DEF IInv

\* Succ does not change, so the frames keep their facts.
LEMMA StartWalkStep == IInv /\ StartWalk => IInv'
  <1> SUFFICES ASSUME IInv, StartWalk PROVE IInv'
    OBVIOUS
  <1>1. pc = "link" /\ queue = <<>> /\ UNCHANGED <<edges, queue, linked, left>>
    BY DEF StartWalk, built
  <1>2. frames = <<>>
    BY <1>1 DEF IInv, WalkInv
  <1>3. CASE Entry = FuncNum
    <2>1. pc' = "sweep" /\ UNCHANGED <<frames, updated>>
      BY <1>3 DEF StartWalk
    <2>2. LinkInv'
      BY <1>1, <2>1, LinkKept DEF IInv
    <2>3. WalkInv' /\ SweepInv'
      BY <1>1, <1>2, <2>1 DEF IInv, WalkInv, SweepInv
    <2> QED BY <2>2, <2>3 DEF IInv
  <1>4. CASE Entry # FuncNum
    <2>1. pc' = "walk" /\ Enter(<<>>, Entry)
      BY <1>4 DEF StartWalk
    <2>2. ToSet(queue) = {}
      BY <1>1, NoElement
    <2>3. Entry \in linked \cap HasBody
      BY <1>1, <1>4, <2>2, FuncAssumption DEF IInv, LinkInv
    <2>4. <<>> \in Seq(Frame) /\ DOMAIN <<>> = {}
      OBVIOUS
    <2> QED BY <1>1, <2>1, <2>3, <2>4, EnterStep
  <1> QED BY <1>3, <1>4

LEMMA StepStep == IInv /\ Step => IInv'
  <1> SUFFICES ASSUME IInv, Step PROVE IInv'
    OBVIOUS
  <1>0. PICK g \in Top.todo :
          LET fr == [frames EXCEPT ![Len(frames)].todo = @ \ {g}] IN
            IF g \in onPath THEN frames' = fr /\ UNCHANGED <<onPath, paths, updated>> ELSE Enter(fr, g)
    BY DEF Step
  <1> DEFINE fr == [frames EXCEPT ![Len(frames)].todo = @ \ {g}]
  <1>1. /\ pc = "walk" /\ pc' = "walk" /\ frames # <<>>
        /\ UNCHANGED <<edges, queue, linked, left>>
        /\ IF g \in onPath THEN frames' = fr /\ UNCHANGED updated ELSE Enter(fr, g)
    BY <1>0 DEF Step, built
  <1>2. /\ frames \in Seq(Frame) /\ Len(frames) \in DOMAIN frames
        /\ DOMAIN frames = 1 .. Len(frames) /\ queue = <<>> /\ linked \subseteq Func
    BY <1>1 DEF IInv, WalkInv, LinkInv
  <1>3. Top \in Frame /\ Top.node \in linked \cap HasBody /\ Top.todo \subseteq Succ(Top.node) \cap HasBody
    BY <1>2 DEF Top, IInv, WalkInv
  <1>5. g \in linked \cap HasBody
    <2>1. ToSet(queue) = {}
      BY <1>2, NoElement
    <2> QED BY <1>3, <2>1 DEF IInv, LinkInv
  <1>6. /\ fr \in Seq(Frame)
        /\ \A i \in DOMAIN fr : /\ fr[i].node \in linked \cap HasBody
                                /\ fr[i].todo \subseteq Succ(fr[i].node) \cap HasBody
    <2>1. DOMAIN fr = DOMAIN frames
      BY <1>2
    <2>2. ASSUME NEW i \in DOMAIN frames
          PROVE  /\ fr[i] \in Frame /\ fr[i].node = frames[i].node
                 /\ fr[i].todo \subseteq frames[i].todo
      <3>1. frames[i] \in Frame
        BY <1>2
      <3>2. CASE i = Len(frames)
        <4>1. fr[i] = [frames[i] EXCEPT !.todo = @ \ {g}]
          BY <1>2, <3>2
        <4> QED BY <3>1, <4>1 DEF Frame
      <3>3. CASE i # Len(frames)
        <4>1. fr[i] = frames[i]
          BY <1>2, <3>3
        <4> QED BY <3>1, <4>1
      <3> QED BY <3>2, <3>3
    <2>4. fr \in Seq(Frame)
      <3>1. PICK v \in Frame : fr = [frames EXCEPT ![Len(frames)] = v]
        <4> DEFINE v == [frames[Len(frames)] EXCEPT !.todo = @ \ {g}]
        <4>1. frames[Len(frames)] \in Frame
          BY <1>2
        <4>2. v \in Frame
          BY <4>1 DEF Frame
        <4>3. fr = [frames EXCEPT ![Len(frames)] = v]
          OBVIOUS
        <4> QED BY <4>2, <4>3
      <3> QED BY <1>2, <3>1, Replaced
    <2> QED BY <2>1, <2>2, <2>4 DEF IInv, WalkInv
  <1> HIDE DEF fr
  <1>7. CASE g \in onPath
    <2>1. frames' = fr /\ UNCHANGED updated
      BY <1>1, <1>7
    <2>2. LinkInv'
      BY <1>1, <1>2, LinkKept DEF IInv
    <2>3. \A n : Succ(n)' = Succ(n)
      BY <1>1 DEF Succ
    <2>4. WalkInv'
      BY <1>1, <1>6, <2>1, <2>3 DEF WalkInv
    <2>5. SweepInv'
      BY <1>1, <2>1 DEF IInv, SweepInv
    <2> QED BY <2>2, <2>4, <2>5 DEF IInv
  <1>8. CASE g \notin onPath
    BY <1>1, <1>2, <1>5, <1>6, <1>8, EnterStep
  <1> QED BY <1>7, <1>8

LEMMA LeaveStep == IInv /\ Leave => IInv'
  <1> SUFFICES ASSUME IInv, Leave PROVE IInv'
    OBVIOUS
  <1>1. /\ pc = "walk" /\ pc' = "walk" /\ frames # <<>> /\ frames' = SubSeq(frames, 1, Len(frames) - 1)
        /\ UNCHANGED <<edges, queue, linked, updated, left>>
    BY DEF Leave, built, Front
  <1>2. frames \in Seq(Frame) /\ Len(frames) \in Nat \ {0}
    BY <1>1 DEF IInv, WalkInv
  <1>3. /\ frames' \in Seq(Frame) /\ DOMAIN frames' \subseteq DOMAIN frames
        /\ \A i \in DOMAIN frames' : frames'[i] = frames[i]
    BY <1>1, <1>2
  <1>4. LinkInv'
    BY <1>1, LinkKept DEF IInv, LinkInv
  <1>5. \A n : Succ(n)' = Succ(n)
    BY <1>1 DEF Succ
  <1>6. WalkInv'
    BY <1>1, <1>3, <1>5 DEF IInv, WalkInv
  <1>7. SweepInv'
    BY <1>1 DEF IInv, SweepInv
  <1> QED BY <1>4, <1>6, <1>7 DEF IInv

\* The steps that leave the graph, the linking and the frames as they are.
LEMMA OtherStep == IInv /\ (NextFunction \/ EndWalk \/ Sweep \/ UNCHANGED vars) => IInv'
  <1> SUFFICES ASSUME IInv, NextFunction \/ EndWalk \/ Sweep \/ UNCHANGED vars PROVE IInv'
    OBVIOUS
  <1>1. UNCHANGED <<edges, queue, linked, frames, updated>>
    BY DEF NextFunction, EndWalk, Sweep, vars, built
  <1>2. \/ pc' = pc /\ UNCHANGED left
        \/ pc = "walk" /\ pc' = "sweep" /\ frames = <<>> /\ UNCHANGED left
        \/ pc = "sweep" /\ pc' = "done" /\ left' = (linked \cap HasBody) \ updated
    BY DEF NextFunction, EndWalk, Sweep, vars, built
  <1>3. LinkInv'
    BY <1>1, <1>2, LinkKept DEF IInv, LinkInv
  <1>4. \A n : Succ(n)' = Succ(n)
    BY <1>1 DEF Succ
  <1>5. WalkInv'
    BY <1>1, <1>2, <1>4 DEF IInv, WalkInv
  <1>6. SweepInv'
    BY <1>1, <1>2 DEF IInv, SweepInv
  <1> QED BY <1>3, <1>5, <1>6 DEF IInv

LEMMA NextIInv == IInv /\ [Next]_vars => IInv'
  <1> SUFFICES ASSUME IInv, [Next]_vars PROVE IInv'
    OBVIOUS
  <1>1. ASSUME NEW g \in Func, DirectCall(g) PROVE IInv'
    <2>1. ReadCall /\ AddCgEdges(scan, {g}) /\ {g} \in SUBSET Func
      BY <1>1 DEF DirectCall
    <2> QED BY <2>1, ReadStep
  <1>2. ASSUME NEW cand \in SUBSET Func, NEW args, IndirectCall(cand, args) PROVE IInv'
    <2> DEFINE C == {g \in cand : ArgNum[g] = args}
    <2>1. ReadCall /\ AddCgEdges(scan, C) /\ C \in SUBSET Func
      BY <1>2 DEF IndirectCall
    <2> HIDE DEF C
    <2> QED BY <2>1, ReadStep
  <1>3. UNION {kSubset(k, Func) : k \in 0 .. MaxCand} \subseteq SUBSET Func
    BY DEF kSubset
  <1>4. CASE \E cand \in UNION {kSubset(k, Func) : k \in 0 .. MaxCand}, args \in {ArgNum[g] : g \in Func} : IndirectCall(cand, args)
    BY <1>2, <1>3, <1>4
  <1> QED
    BY <1>1, <1>4, BuiltStep, LinkStep, StartWalkStep, StepStep, LeaveStep, OtherStep DEF Next, Done

THEOREM Invariant == Spec => []IInv
  BY InitIInv, NextIInv, PTL DEF Spec

-----------------------------------------------------------------------------
(* Types *)

LEMMA ConstantSeq ==
  ASSUME NEW S, NEW n \in Nat, NEW e \in S
  PROVE  [i \in 1 .. n |-> e] \in Seq(S)
  <1>1. [i \in 1 .. n |-> e] \in [1 .. n -> S]
    OBVIOUS
  <1> QED BY <1>1

\* The sites of the next call instruction have the number that ReadCall gives.
LEMMA SitesTyped ==
  ASSUME TypeOK, NEW C \in SUBSET Func, ReadCall, AddCgEdges(scan, C), fail' \subseteq 1 .. MaxCall
  PROVE  TypeOK'
  <1>1. scan \in Func /\ calls + 1 \in 1 .. MaxCall /\ MaxCall \in Nat
    BY FuncAssumption DEF ReadCall, TypeOK, Func
  <1> DEFINE D == C \ {scan}
             site == calls + 1
             new == [i \in 1 .. Cardinality(D) |-> site]
  <1>3. Cardinality(D) \in Nat
    BY FiniteFunc
  <1> HIDE DEF D, site
  <1>4. new \in Seq(1 .. MaxCall)
    <2>1. site \in 1 .. MaxCall
      BY <1>1 DEF site
    <2> QED BY <1>3, <2>1, ConstantSeq
  <1>5. D \subseteq Func
    BY DEF D
  <1>6. edges' \subseteq Func \X Func
    BY <1>1 DEF AddCgEdges, TypeOK
  <1>7. siteEdges' \subseteq (1 .. MaxCall) \X Func \X Func
    BY <1>1 DEF AddCgEdges, TypeOK
  <1>8. outSites' \in [Func -> Seq(1 .. MaxCall)]
    <2>1. outSites' = [outSites EXCEPT ![scan] = @ \o new]
      BY DEF AddCgEdges, D, site
    <2>2. outSites[scan] \o new \in Seq(1 .. MaxCall)
      <3>1. outSites[scan] \in Seq(1 .. MaxCall)
        BY <1>1 DEF TypeOK
      <3> HIDE DEF new
      <3> QED BY <1>4, <3>1
    <2> HIDE DEF new
    <2> QED BY <2>1, <2>2 DEF TypeOK
  <1>9. inSites' \in [Func -> Seq(1 .. MaxCall)]
    <2>1. \A g \in Func : inSites[g] \in Seq(1 .. MaxCall) /\ Append(inSites[g], calls + 1) \in Seq(1 .. MaxCall)
      BY <1>1 DEF TypeOK
    <2> QED BY <2>1 DEF AddCgEdges
  <1>10. leaf' \in [Func -> BOOLEAN]
    BY <1>1 DEF AddCgEdges, TypeOK
  <1>11. /\ calls' = calls + 1
         /\ UNCHANGED <<pc, scan, queue, linked, frames, onPath, paths, updated, left>>
    BY DEF ReadCall
  <1> QED BY <1>1, <1>6, <1>7, <1>8, <1>9, <1>10, <1>11, SMTT(30) DEF TypeOK

\* A call of DFSNode puts one more frame on the stack.
LEMMA EnterTyped ==
  ASSUME TypeOK, NEW fr \in Seq(Frame), NEW f \in Func, Enter(fr, f)
  PROVE  /\ frames' \in Seq(Frame) /\ onPath' \subseteq Func
         /\ paths' \subseteq Seq(Func) /\ updated' \subseteq Func
  <1> DEFINE end == leaf[f] \/ Len(fr) + 1 >= PathDepth
             top == [node |-> f, todo |-> IF end THEN {} ELSE Succ(f) \cap HasBody]
             now == Append(fr, top)
  <1>1. top \in Frame
    BY DEF Frame, Succ
  <1> HIDE DEF top
  <1>2. now \in Seq(Frame)
    BY <1>1
  <1>3. /\ frames' = now /\ onPath' = onPath \cup {f}
        /\ paths' = paths \/ paths' = paths \cup {NodeStack(now)}
        /\ updated' = updated \/ updated' = updated \cup ToSet(NodeStack(now))
    BY DEF Enter, end, top
  <1> HIDE DEF now
  <1>4. NodeStack(now) \in Seq(Func)
    <2>1. Len(now) \in Nat /\ \A i \in 1 .. Len(now) : now[i] \in Frame
      BY <1>2
    <2>2. \A x \in Frame : x.node \in Func
      BY DEF Frame
    <2>3. NodeStack(now) \in [1 .. Len(now) -> Func]
      BY <2>1, <2>2 DEF NodeStack
    <2> QED BY <2>1, <2>3
  <1>5. ToSet(NodeStack(now)) \subseteq Func
    BY <1>4 DEF ToSet
  <1> QED BY <1>2, <1>3, <1>4, <1>5 DEF TypeOK

\* What the passes over the finished graph change.
WalkTypes ==
  /\ pc \in {"build", "link", "walk", "sweep", "done"}
  /\ queue \in Seq(Func) /\ linked \subseteq Func
  /\ frames \in Seq(Frame)
  /\ onPath \subseteq Func /\ paths \subseteq Seq(Func)
  /\ updated \subseteq Func /\ left \subseteq Func

LEMMA BuiltKept == ASSUME TypeOK, UNCHANGED built, WalkTypes' PROVE TypeOK'
  BY DEF TypeOK, built, WalkTypes, Frame

LEMMA WalkTyped ==
  ASSUME TypeOK, Link \/ StartWalk \/ Step \/ Leave \/ EndWalk \/ Sweep \/ UNCHANGED vars
  PROVE  TypeOK'
  <1>0. UNCHANGED built /\ WalkTypes
    BY DEF Link, StartWalk, Step, Leave, EndWalk, Sweep, vars, built, TypeOK, WalkTypes, Frame
  <1>1. CASE Link
    <2>1. /\ queue # <<>> /\ linked' = linked \cup {Head(queue)}
          /\ UNCHANGED <<pc, frames, onPath, paths, updated, left>>
      BY <1>1 DEF Link
    <2>2. Head(queue) \in Func /\ Tail(queue) \in Seq(Func)
      BY <1>0, <2>1, HeadAndTail DEF WalkTypes
    <2>3. PICK s \in InOrder(Succ(Head(queue)) \ (linked \cup {Head(queue)})) : queue' = Tail(queue) \o s
      BY <1>1 DEF Link
    <2>4. Succ(Head(queue)) \ (linked \cup {Head(queue)}) \in SUBSET Func
      BY DEF Succ
    <2>5. s \in Seq(Func)
      BY <2>4, FiniteFunc, InOrderIsSeq
    <2>6. queue' \in Seq(Func)
      BY <2>2, <2>3, <2>5
    <2>7. WalkTypes'
      BY <1>0, <2>1, <2>2, <2>6 DEF WalkTypes
    <2> QED BY <1>0, <2>7, BuiltKept
  <1>2. CASE StartWalk
    <2>1. CASE Entry = FuncNum
      <3>1. WalkTypes'
        BY <1>0, <1>2, <2>1 DEF StartWalk, WalkTypes
      <3> QED BY <1>0, <3>1, BuiltKept
    <2>2. CASE Entry # FuncNum
      <3>1. Entry \in Func /\ <<>> \in Seq(Frame)
        BY <2>2, FuncAssumption
      <3>2. pc' = "walk" /\ Enter(<<>>, Entry) /\ UNCHANGED <<queue, linked, left>>
        BY <1>2, <2>2 DEF StartWalk
      <3>3. WalkTypes'
        BY <1>0, <3>1, <3>2, EnterTyped DEF WalkTypes
      <3> QED BY <1>0, <3>3, BuiltKept
    <2> QED BY <2>1, <2>2
  <1>3. CASE Step
    <2>1. frames # <<>> /\ Len(frames) \in 1 .. Len(frames) /\ Top \in Frame
      <3>1. frames # <<>> /\ frames \in Seq(Frame)
        BY <1>0, <1>3 DEF Step, WalkTypes
      <3> QED BY <3>1 DEF Top
    <2>2. PICK g \in Top.todo :
            LET fr == [frames EXCEPT ![Len(frames)].todo = @ \ {g}] IN
              IF g \in onPath THEN frames' = fr /\ UNCHANGED <<onPath, paths, updated>>
              ELSE Enter(fr, g)
      BY <1>3 DEF Step
    <2> DEFINE fr == [frames EXCEPT ![Len(frames)].todo = @ \ {g}]
    <2>3. g \in Func /\ fr \in Seq(Frame)
      <3>1. g \in Func
        BY <2>1, <2>2 DEF Frame
      <3>2. [Top EXCEPT !.todo = @ \ {g}] \in Frame
        BY <2>1 DEF Frame
      <3>3. fr = [frames EXCEPT ![Len(frames)] = [Top EXCEPT !.todo = @ \ {g}]]
        BY DEF Top
      <3>4. \A x \in Frame : [frames EXCEPT ![Len(frames)] = x] \in Seq(Frame)
        BY <1>0, <2>1 DEF WalkTypes
      <3> QED BY <3>1, <3>2, <3>3, <3>4
    <2>4. UNCHANGED <<pc, queue, linked, left>>
      BY <1>3 DEF Step
    <2>5. CASE g \in onPath
      <3>1. frames' = fr /\ UNCHANGED <<onPath, paths, updated>>
        BY <2>2, <2>5
      <3>2. WalkTypes'
        BY <1>0, <2>3, <2>4, <3>1 DEF WalkTypes
      <3> QED BY <1>0, <3>2, BuiltKept
    <2>6. CASE g \notin onPath
      <3>1. Enter(fr, g)
        BY <2>2, <2>6
      <3> HIDE DEF fr
      <3>2. WalkTypes'
        BY <1>0, <2>3, <2>4, <3>1, EnterTyped DEF WalkTypes
      <3> QED BY <1>0, <3>2, BuiltKept
    <2> QED BY <2>5, <2>6
  <1>4. CASE Leave
    <2>1. frames # <<>> /\ frames' = Front(frames) /\ frames \in Seq(Frame)
      BY <1>0, <1>4 DEF Leave, WalkTypes
    <2>2. frames' \in Seq(Frame)
      BY <2>1 DEF Front
    <2>3. WalkTypes'
      BY <1>0, <1>4, <2>2 DEF Leave, WalkTypes
    <2> QED BY <1>0, <2>3, BuiltKept
  <1>5. CASE EndWalk \/ Sweep \/ UNCHANGED vars
    <2>1. WalkTypes'
      BY <1>0, <1>5 DEF EndWalk, Sweep, vars, WalkTypes
    <2> QED BY <1>0, <2>1, BuiltKept
  <1> QED BY <1>1, <1>2, <1>3, <1>4, <1>5

LEMMA InitTyped == Init => TypeOK
  <1> SUFFICES ASSUME Init PROVE TypeOK
    OBVIOUS
  <1>1. queue \in Seq(Func) /\ frames \in Seq(Frame) /\ <<>> \in Seq(1 .. MaxCall)
    BY DEF Init
  <1> QED BY <1>1, FuncAssumption DEF Init, TypeOK, Frame

LEMMA StepTyped == TypeOK /\ [Next]_vars => TypeOK'
  <1> SUFFICES ASSUME TypeOK, [Next]_vars PROVE TypeOK'
    OBVIOUS
  <1>1. ASSUME ReadCall PROVE calls + 1 \in 1 .. MaxCall
    BY <1>1, FuncAssumption DEF ReadCall, TypeOK
  <1>2. ASSUME NEW g \in Func, DirectCall(g) PROVE TypeOK'
    <2>1. ReadCall /\ AddCgEdges(scan, {g}) /\ {g} \in SUBSET Func /\ fail' \subseteq 1 .. MaxCall
      BY <1>2 DEF DirectCall, TypeOK
    <2> QED BY <2>1, SitesTyped
  <1>3. ASSUME NEW cand \in SUBSET Func, NEW args, IndirectCall(cand, args) PROVE TypeOK'
    <2> DEFINE C == {g \in cand : ArgNum[g] = args}
    <2>1. ReadCall /\ AddCgEdges(scan, C) /\ C \in SUBSET Func /\ fail' \subseteq fail \cup {calls + 1}
      BY <1>3 DEF IndirectCall
    <2>2. fail' \subseteq 1 .. MaxCall
      BY <1>1, <2>1 DEF TypeOK
    <2> HIDE DEF C
    <2> QED BY <2>1, <2>2, SitesTyped
  <1>4. UNION {kSubset(k, Func) : k \in 0 .. MaxCand} \subseteq SUBSET Func
    BY DEF kSubset
  <1>5. CASE \E cand \in UNION {kSubset(k, Func) : k \in 0 .. MaxCand}, args \in {ArgNum[g] : g \in Func} : IndirectCall(cand, args)
    BY <1>3, <1>4, <1>5
  <1>6. CASE NextFunction
    <2>1. scan' \in 0 .. FuncNum /\ UNCHANGED <<pc, calls, edges, siteEdges, inSites, outSites, leaf, fail,
                 queue, linked, frames, onPath, paths, updated, left>>
      BY <1>6, FuncAssumption DEF NextFunction, TypeOK
    <2> QED BY <2>1 DEF TypeOK
  <1>7. CASE Built
    <2>1. queue' \in Seq(Func) /\ fail' = {} /\ pc' = "link"
      BY <1>7, FuncAssumption DEF Built
    <2>2. UNCHANGED <<scan, calls, edges, siteEdges, inSites, outSites, leaf, linked, frames, onPath, paths, updated, left>>
      BY <1>7 DEF Built
    <2> QED BY <2>1, <2>2 DEF TypeOK
  <1> QED BY <1>2, <1>5, <1>6, <1>7, WalkTyped DEF Next, Done

\* Every variable of the call graph keeps its type, the call paths walked and
\* the numbers of call sites included.
THEOREM TypeCorrect == Spec => []TypeOK
  BY InitTyped, StepTyped, PTL DEF Spec

-----------------------------------------------------------------------------

\* The assertion GetFuncDg(CurFunc) != NULL of Dependence.cpp holds for every
\* call graph: the walk and the sweep ask for linked functions with bodies only.
THEOREM WalkAsksForLinked == Spec => []WalkedAreLinked
  <1>1. IInv => WalkedAreLinked
    BY DEF IInv, SweepInv, WalkedAreLinked
  <1> QED BY <1>1, Invariant, PTL

\* When the dependences are built every function with a body that the entry
\* reaches is refreshed: LinkGraph finds exactly the reached functions, and the
\* sweep takes those no call path went through.
THEOREM AllReachedRefreshed == Spec => []EveryReachableRefreshed
  <1>1. ASSUME IInv, pc = "done", Entry # FuncNum PROVE updated \cup left = Reached \cap HasBody
    <2>1. queue = <<>> /\ ToSet(queue) = {}
      BY <1>1, NoElement DEF IInv, LinkInv
    <2>2. Entry \in linked /\ linked \subseteq Func /\ \A f \in linked : Succ(f) \subseteq linked
      BY <1>1, <2>1 DEF IInv, LinkInv
    <2>3. \A e \in edges : e[1] \in linked => e[2] \in linked
      <3> SUFFICES ASSUME NEW e \in edges, e[1] \in linked PROVE e[2] \in linked
        OBVIOUS
      <3>1. e = <<e[1], e[2]>> /\ e[2] \in Func
        BY <1>1 DEF IInv, LinkInv
      <3> QED BY <2>2, <3>1 DEF Succ
    <2>4. Reached \subseteq linked
      BY <2>2, <2>3 DEF Reached
    <2>5. linked \subseteq Reached
      BY <1>1 DEF IInv, LinkInv
    <2>6. updated \cup left = linked \cap HasBody
      BY <1>1 DEF IInv, SweepInv
    <2> QED BY <2>4, <2>5, <2>6
  <1>2. IInv => EveryReachableRefreshed
    BY <1>1 DEF EveryReachableRefreshed
  <1> QED BY <1>2, Invariant, PTL

-----------------------------------------------------------------------------
(* The lists of call sites *)

\* The edges in E out of f, one for each call instruction and callee.
Out(E, f) == {x \in E : x[2] = f}

\* The sites in the map of instructions are of instructions read so far, so the
\* next instruction adds edges that are not there yet.
SitesInv ==
  /\ SitesAgree
  /\ siteEdges \subseteq (1 .. calls) \X Func \X Func
  /\ \A f \in Func : IsFiniteSet(Out(siteEdges, f))

LEMMA SameNumber ==
  ASSUME NEW site, NEW f, NEW D, IsFiniteSet(D),
         NEW T, \A g \in D : <<site, f, g>> \in T, \A x \in T : \E g \in D : x = <<site, f, g>>
  PROVE  IsFiniteSet(T) /\ Cardinality(T) = Cardinality(D)
  <1> DEFINE b == [g \in D |-> <<site, f, g>>]
  <1>1. b \in Bijection(D, T)
    BY DEF Bijection, Injection, Surjection, IsInjective
  <1>2. ExistsBijection(D, T)
    BY <1>1 DEF ExistsBijection
  <1> QED BY <1>2, FS_Bijection

LEMMA Lengthened ==
  ASSUME NEW S, NEW s \in Seq(S), NEW t \in Seq(S)
  PROVE  Len(s \o t) = Len(s) + Len(t)
  OBVIOUS

LEMMA Appended ==
  ASSUME NEW S, NEW q \in Seq(S), NEW e \in S
  PROVE  ToSet(Append(q, e)) = ToSet(q) \cup {e}
  <1>1. /\ DOMAIN q = 1 .. Len(q) /\ DOMAIN Append(q, e) = 1 .. Len(q) + 1 /\ Len(q) \in Nat
        /\ \A i \in 1 .. Len(q) : Append(q, e)[i] = q[i]
        /\ Append(q, e)[Len(q) + 1] = e
    OBVIOUS
  <1> DEFINE r == Append(q, e)
  <1> HIDE DEF r
  <1>2. DOMAIN r = (DOMAIN q) \cup {Len(q) + 1}
    BY <1>1 DEF r
  <1>3. /\ \A i \in DOMAIN q : r[i] = q[i]
        /\ r[Len(q) + 1] = e
    BY <1>1 DEF r
  <1>4. ToSet(r) = ToSet(q) \cup {e}
    BY <1>2, <1>3 DEF ToSet
  <1> QED BY <1>4 DEF r

LEMMA SitesStep ==
  ASSUME TypeOK, SitesInv, NEW C \in SUBSET Func, ReadCall, AddCgEdges(scan, C)
  PROVE  SitesInv'
  <1>0. /\ scan \in Func /\ calls \in Nat /\ calls' = calls + 1 /\ calls + 1 \in 1 .. MaxCall
    BY FuncAssumption DEF ReadCall, TypeOK, Func
  <1>1. PICK c \in Func, site \in 1 .. MaxCall, D \in SUBSET Func :
          c = scan /\ site = calls + 1 /\ D = C \ {c}
    BY <1>0
  <1> DEFINE new == {<<site, c, g>> : g \in D}
  <1>2. /\ siteEdges' = siteEdges \cup new
        /\ edges' = edges \cup {<<c, g>> : g \in D}
        /\ outSites' = [outSites EXCEPT ![c] = @ \o [i \in 1 .. Cardinality(D) |-> site]]
        /\ inSites' = [g \in Func |-> IF g \in D \cap HasBody THEN Append(inSites[g], site) ELSE inSites[g]]
    BY <1>1 DEF AddCgEdges
  <1>3. /\ \A x \in new : x[1] = site /\ x[2] = c /\ x[3] \in D /\ x = <<site, c, x[3]>>
        /\ \A g \in D : <<site, c, g>> \in new
        /\ \A g : <<site, c, g>>[1] = site /\ <<site, c, g>>[2] = c /\ <<site, c, g>>[3] = g
    OBVIOUS
  <1>4. \A x \in siteEdges : x[1] # site
    <2>1. \A x \in siteEdges : x[1] \in 1 .. calls
      BY DEF SitesInv
    <2> QED BY <2>1, <1>0, <1>1
  <1>5. siteEdges' \subseteq (1 .. calls') \X Func \X Func
    <2>1. new \subseteq (1 .. calls') \X Func \X Func
      BY <1>0, <1>1
    <2>2. 1 .. calls \subseteq 1 .. calls'
      BY <1>0
    <2> HIDE DEF new
    <2> QED BY <1>2, <2>1, <2>2 DEF SitesInv
  <1>6. /\ IsFiniteSet(D) /\ Cardinality(D) \in Nat
        /\ IsFiniteSet(new) /\ Cardinality(new) = Cardinality(D)
    <2>1. IsFiniteSet(Func)
      BY FuncAssumption, FS_Interval DEF Func
    <2>2. IsFiniteSet(D)
      BY <2>1, FS_Subset
    <2>3. Cardinality(D) \in Nat
      BY <2>2, FS_CardinalityType
    <2>4. IsFiniteSet(new) /\ Cardinality(new) = Cardinality(D)
      <3>1. (\A g \in D : <<site, c, g>> \in new) /\ (\A x \in new : \E g \in D : x = <<site, c, g>>)
        OBVIOUS
      <3> HIDE DEF new
      <3> QED BY <2>2, <3>1, SameNumber
    <2> QED BY <2>2, <2>3, <2>4
  <1> HIDE DEF new
  <1>7. \A f \in Func : f # c => Out(siteEdges', f) = Out(siteEdges, f)
    BY <1>2, <1>3 DEF Out
  <1>8. Out(siteEdges', c) = Out(siteEdges, c) \cup new /\ Out(siteEdges, c) \cap new = {}
    BY <1>2, <1>3, <1>4 DEF Out
  <1>9. /\ IsFiniteSet(Out(siteEdges', c))
        /\ Cardinality(Out(siteEdges', c)) = Cardinality(Out(siteEdges, c)) + Cardinality(D)
    <2> DEFINE old == Out(siteEdges, c)
    <2>1. IsFiniteSet(old) /\ Cardinality(old) \in Nat
      BY FS_CardinalityType DEF SitesInv
    <2>2. Cardinality(old \cap new) = 0
      BY <1>8, FS_EmptySet
    <2> HIDE DEF old
    <2>3. IsFiniteSet(old \cup new) /\ Cardinality(old \cup new) = Cardinality(old) + Cardinality(D)
      <3>1. IsFiniteSet(old \cup new)
            /\ Cardinality(old \cup new) = Cardinality(old) + Cardinality(new) - Cardinality(old \cap new)
        BY <1>6, <2>1, FS_Union, Zenon
      <3> QED BY <1>6, <2>1, <2>2, <3>1
    <2> QED BY <1>8, <2>3 DEF old
  <1>10. \A f \in Func : Len(outSites'[f]) = Cardinality(Out(siteEdges', f))
    <2> DEFINE more == [i \in 1 .. Cardinality(D) |-> site]
    <2>1. outSites'[c] = outSites[c] \o more
      BY <1>2 DEF TypeOK
    <2>2. more \in Seq(1 .. MaxCall)
      BY <1>6, ConstantSeq
    <2>3. Len(more) = Cardinality(D)
      BY <1>6
    <2> HIDE DEF more
    <2>4. outSites[c] \in Seq(1 .. MaxCall)
      BY DEF TypeOK
    <2>5. Len(outSites'[c]) = Len(outSites[c]) + Cardinality(D)
      BY <2>1, <2>2, <2>3, <2>4, Lengthened
    <2>6. \A f \in Func : Len(outSites[f]) = Cardinality(Out(siteEdges, f))
      BY DEF SitesInv, SitesAgree, Out
    <2>7. \A f \in Func : f # c => outSites'[f] = outSites[f]
      BY <1>2 DEF TypeOK
    <2> QED BY <1>7, <1>9, <2>5, <2>6, <2>7
  <1>11. ASSUME NEW f \in HasBody
         PROVE  ToSet(inSites'[f]) = {e[1] : e \in {x \in siteEdges' : x[3] = f}}
    <2>1. f \in Func /\ inSites[f] \in Seq(1 .. MaxCall)
      BY FuncAssumption DEF TypeOK
    <2>2. ToSet(inSites[f]) = {e[1] : e \in {x \in siteEdges : x[3] = f}}
      BY DEF SitesInv, SitesAgree
    <2>3. CASE f \in D
      <3>1. inSites'[f] = Append(inSites[f], site)
        BY <1>2, <2>1, <2>3
      <3>2. ToSet(inSites'[f]) = ToSet(inSites[f]) \cup {site}
        <4>1. ToSet(Append(inSites[f], site)) = ToSet(inSites[f]) \cup {site}
          <5>1. \A q \in Seq(1 .. MaxCall), e \in 1 .. MaxCall : ToSet(Append(q, e)) = ToSet(q) \cup {e}
            BY Appended
          <5> QED BY <2>1, <5>1
        <4> QED BY <3>1, <4>1
      <3>3. {x \in siteEdges' : x[3] = f} = {x \in siteEdges : x[3] = f} \cup {<<site, c, f>>}
        BY <1>2, <1>3, <2>3
      <3>4. \A A, t : {e[1] : e \in A \cup {t}} = {e[1] : e \in A} \cup {t[1]}
        OBVIOUS
      <3>5. {e[1] : e \in {x \in siteEdges : x[3] = f} \cup {<<site, c, f>>}}
              = {e[1] : e \in {x \in siteEdges : x[3] = f}} \cup {site}
        <4> DEFINE A == {x \in siteEdges : x[3] = f}
        <4> HIDE DEF A
        <4>1. {e[1] : e \in A \cup {<<site, c, f>>}} = {e[1] : e \in A} \cup {<<site, c, f>>[1]}
          BY <3>4
        <4> QED BY <1>3, <4>1 DEF A
      <3> QED BY <2>2, <3>2, <3>3, <3>5
    <2>4. CASE f \notin D
      <3>1. inSites'[f] = inSites[f]
        BY <1>2, <2>1, <2>4
      <3>2. {x \in siteEdges' : x[3] = f} = {x \in siteEdges : x[3] = f}
        BY <1>2, <1>3, <2>4
      <3> QED BY <2>2, <3>1, <3>2
    <2> QED BY <2>3, <2>4
  <1>12. edges' = {<<x[2], x[3]>> : x \in siteEdges'}
    <2>1. \A x \in new : <<x[2], x[3]>> \in {<<c, g>> : g \in D}
      BY <1>3
    <2>2. \A g \in D : <<c, g>> \in {<<x[2], x[3]>> : x \in new}
      BY <1>3
    <2>3. {<<x[2], x[3]>> : x \in new} = {<<c, g>> : g \in D}
      BY <2>1, <2>2
    <2>4. edges = {<<x[2], x[3]>> : x \in siteEdges}
      BY DEF SitesInv, SitesAgree
    <2> QED BY <1>2, <2>3, <2>4
  <1>13. \A f \in Func : IsFiniteSet(Out(siteEdges', f))
    BY <1>7, <1>9 DEF SitesInv
  <1> QED BY <1>5, <1>10, <1>11, <1>12, <1>13 DEF SitesInv, SitesAgree, Out

\* A caller has one entry per edge and a callee with a body knows every site
\* that calls it, for every program.
THEOREM CallSitesAgree == Spec => []SitesAgree
  <1>1. Init => SitesInv
    <2> SUFFICES ASSUME Init PROVE SitesInv
      OBVIOUS
    <2>1. /\ edges = {} /\ siteEdges = {} /\ inSites = [f \in Func |-> <<>>]
          /\ outSites = [f \in Func |-> <<>>]
      BY DEF Init
    <2>2. \A f : Out(siteEdges, f) = {}
      BY <2>1 DEF Out
    <2>3. \A f \in Func : Len(outSites[f]) = 0 /\ ToSet(inSites[f]) = {}
      BY <2>1, NoElement
    <2> QED BY <2>1, <2>2, <2>3, FS_EmptySet, FuncAssumption DEF SitesInv, SitesAgree, Out
  <1>2. TypeOK /\ SitesInv /\ [Next]_vars => SitesInv'
    <2> SUFFICES ASSUME TypeOK, SitesInv, [Next]_vars PROVE SitesInv'
      OBVIOUS
    <2>1. ASSUME NEW g \in Func, DirectCall(g) PROVE SitesInv'
      <3>1. ReadCall /\ AddCgEdges(scan, {g}) /\ {g} \in SUBSET Func
        BY <2>1 DEF DirectCall
      <3> QED BY <3>1, SitesStep
    <2>2. ASSUME NEW cand \in SUBSET Func, NEW args, IndirectCall(cand, args) PROVE SitesInv'
      <3> DEFINE C == {g \in cand : ArgNum[g] = args}
      <3>1. ReadCall /\ AddCgEdges(scan, C) /\ C \in SUBSET Func
        BY <2>2 DEF IndirectCall
      <3> HIDE DEF C
      <3> QED BY <3>1, SitesStep
    <2>3. UNION {kSubset(k, Func) : k \in 0 .. MaxCand} \subseteq SUBSET Func
      BY DEF kSubset
    <2>4. CASE \E cand \in UNION {kSubset(k, Func) : k \in 0 .. MaxCand}, args \in {ArgNum[g] : g \in Func} : IndirectCall(cand, args)
      BY <2>2, <2>3, <2>4
    <2>5. CASE UNCHANGED <<calls, edges, siteEdges, inSites, outSites>>
      BY <2>5 DEF SitesInv, SitesAgree, Out
    <2>6. CASE NextFunction \/ Built \/ Link \/ StartWalk \/ Step \/ Leave \/ EndWalk \/ Sweep
               \/ Done \/ UNCHANGED vars
      <3>1. UNCHANGED <<calls, edges, siteEdges, inSites, outSites>>
        BY <2>6 DEF NextFunction, Built, Link, StartWalk, Step, Leave, EndWalk, Sweep, Done, vars, built
      <3> QED BY <2>5, <3>1
    <2> QED BY <2>1, <2>4, <2>6 DEF Next
  <1>3. SitesInv => SitesAgree
    BY DEF SitesInv
  <1> QED BY <1>1, <1>2, <1>3, TypeCorrect, PTL DEF Spec

-----------------------------------------------------------------------------
(* The call paths *)

\* What the activations of DFSNode are: a call path from the entry that is not
\* longer than the limit, with out edges left to take only below the limit.
Stack(fr) ==
  /\ Len(fr) <= PathDepth
  /\ fr # <<>> => fr[1].node = Entry
  /\ \A i, j \in DOMAIN fr : i # j => fr[i].node # fr[j].node
  /\ \A i \in 1 .. Len(fr) - 1 : <<fr[i].node, fr[i + 1].node>> \in edges
  /\ \A i \in DOMAIN fr :
       /\ fr[i].node \in HasBody
       /\ fr[i].todo \subseteq Succ(fr[i].node) \cap HasBody
       /\ fr[i].todo # {} => i < PathDepth

\* The call path p goes on from the stack with an edge that is still to take.
Pending(fr, p) ==
  \E i \in DOMAIN fr :
    /\ i < Len(p)
    /\ \A j \in 1 .. i : p[j] = fr[j].node
    /\ p[i + 1] \in fr[i].todo

\* A path is walked or pending at every moment of the walk.
PathsInv ==
  /\ \A f \in Func : leaf[f] <=> f \notin Inner
  /\ Stack(frames)
  /\ pc # "walk" => frames = <<>>
  /\ onPath = {frames[i].node : i \in DOMAIN frames}
  /\ pc \in {"build", "link"} => paths = {}
  /\ Entry # FuncNum => paths \subseteq AllPaths
  /\ pc = "walk" => Entry # FuncNum /\ \A p \in AllPaths : p \in paths \/ Pending(frames, p)
  /\ pc \in {"sweep", "done"} /\ Entry # FuncNum => AllPaths \subseteq paths

LEMMA PathIsSeq ==
  ASSUME NEW p \in AllPaths
  PROVE  /\ p \in Seq(Func) /\ Len(p) \in 1 .. PathDepth /\ DOMAIN p = 1 .. Len(p)
         /\ CallPath(p)
         /\ \A i \in 1 .. Len(p) - 1 : p[i] \in Inner
         /\ Len(p) = PathDepth \/ p[Len(p)] \notin Inner
  <1>1. PICK n \in 1 .. PathDepth : p \in [1 .. n -> Func]
    BY DEF AllPaths
  <1>2. p \in Seq(Func) /\ Len(p) = n
    BY <1>1
  <1> QED BY <1>1, <1>2 DEF AllPaths

LEMMA SeqIsPath ==
  ASSUME NEW p \in Seq(Func), Len(p) \in 1 .. PathDepth, CallPath(p),
         \A i \in 1 .. Len(p) - 1 : p[i] \in Inner,
         Len(p) = PathDepth \/ p[Len(p)] \notin Inner
  PROVE  p \in AllPaths
  <1>1. p \in [1 .. Len(p) -> Func]
    OBVIOUS
  <1> QED BY <1>1 DEF AllPaths

LEMMA PathsKept ==
  ASSUME UNCHANGED edges
  PROVE  /\ AllPaths' = AllPaths /\ Inner' = Inner
         /\ \A f : Succ(f)' = Succ(f)
  BY DEF AllPaths, CallPath, Inner, Succ

LEMMA SamePath ==
  ASSUME NEW p \in Seq(Func), NEW q \in Seq(Func), Len(p) = Len(q), \A i \in 1 .. Len(p) : p[i] = q[i]
  PROVE  p = q
  OBVIOUS

\* The call DFSNode(f) takes the paths that go on with f from pending to walked,
\* or leaves them pending behind f.
LEMMA EnterPaths ==
  ASSUME \A h \in Func : leaf[h] <=> h \notin Inner,
         NEW fr \in Seq(Frame), Stack(fr), NEW f \in HasBody, Enter(fr, f),
         edges \subseteq Func \X Func,
         Len(fr) < PathDepth,
         \A i \in DOMAIN fr : fr[i].node # f,
         IF fr = <<>> THEN f = Entry ELSE f \in Succ(fr[Len(fr)].node)
  PROVE  /\ frames' \in Seq(Frame) /\ Stack(frames')
         /\ {frames'[i].node : i \in DOMAIN frames'} = {fr[i].node : i \in DOMAIN fr} \cup {f}
         /\ paths \subseteq paths' /\ paths' \subseteq paths \cup AllPaths
         /\ \A p \in AllPaths : Pending(fr, p) => Pending(frames', p)
         /\ \A p \in AllPaths : /\ Len(p) > Len(fr)
                                /\ \A j \in 1 .. Len(fr) : p[j] = fr[j].node
                                /\ p[Len(fr) + 1] = f
                                => p \in paths' \/ Pending(frames', p)
  <1> DEFINE end == leaf[f] \/ Len(fr) + 1 >= PathDepth
             new == [node |-> f, todo |-> IF end THEN {} ELSE Succ(f) \cap HasBody]
             now == Append(fr, new)
             k == Len(fr) + 1
  <1>1. /\ frames' = now
        /\ paths' = IF end THEN paths \cup {NodeStack(now)} ELSE paths
    BY DEF Enter
  <1>2. /\ new \in Frame /\ f \in Func /\ new.node = f
        /\ new.todo = IF end THEN {} ELSE Succ(f) \cap HasBody
    BY FuncAssumption DEF Frame, Succ
  <1> HIDE DEF new
  <1>3. /\ now \in Seq(Frame) /\ Len(now) = k /\ Len(fr) \in Nat /\ k \in Nat
        /\ DOMAIN now = 1 .. k /\ DOMAIN fr = 1 .. Len(fr)
        /\ now[k] = new
        /\ \A i \in 1 .. Len(fr) : now[i] = fr[i]
        /\ fr = <<>> <=> Len(fr) = 0
    BY <1>2
  <1> HIDE DEF now
  <1>4. 1 .. k = (1 .. Len(fr)) \cup {k} /\ k \notin 1 .. Len(fr) /\ k <= PathDepth /\ PathDepth \in Nat
    BY <1>3, FuncAssumption
  <1> HIDE DEF k
  <1>5. \A i \in 1 .. k - 1 : <<now[i].node, now[i + 1].node>> \in edges
    <2> SUFFICES ASSUME NEW i \in 1 .. k - 1 PROVE <<now[i].node, now[i + 1].node>> \in edges
      OBVIOUS
    <2>1. CASE i = Len(fr)
      <3>1. fr # <<>> /\ i \in 1 .. Len(fr) /\ i + 1 = k
        BY <1>3, <2>1 DEF k
      <3>2. f \in Succ(fr[i].node)
        BY <2>1, <3>1
      <3> QED BY <1>2, <1>3, <3>1, <3>2 DEF Succ
    <2>2. CASE i # Len(fr)
      <3>1. i \in 1 .. Len(fr) - 1 /\ i \in 1 .. Len(fr) /\ i + 1 \in 1 .. Len(fr)
        <4>1. Len(fr) \in Nat /\ k - 1 = Len(fr)
          BY <1>3 DEF k
        <4> QED BY <2>2, <4>1
      <3> QED BY <1>3, <3>1 DEF Stack
    <2> QED BY <2>1, <2>2
  <1>6. \A i \in DOMAIN now : /\ now[i].node \in HasBody
                              /\ now[i].todo \subseteq Succ(now[i].node) \cap HasBody
                              /\ now[i].todo # {} => i < PathDepth
    <2> SUFFICES ASSUME NEW i \in DOMAIN now
                 PROVE  /\ now[i].node \in HasBody
                        /\ now[i].todo \subseteq Succ(now[i].node) \cap HasBody
                        /\ now[i].todo # {} => i < PathDepth
      OBVIOUS
    <2>1. CASE i = k
      <3>1. ~end => k < PathDepth
        BY <1>3, <1>4 DEF k
      <3> QED BY <1>2, <1>3, <2>1, <3>1
    <2>2. CASE i # k
      <3>1. i \in DOMAIN fr /\ now[i] = fr[i]
        BY <1>3, <1>4, <2>2
      <3> QED BY <3>1 DEF Stack
    <2> QED BY <2>1, <2>2
  <1>7. \A i, j \in DOMAIN now : i # j => now[i].node # now[j].node
    <2>1. \A i, j \in DOMAIN fr : i # j => fr[i].node # fr[j].node
      BY DEF Stack
    <2> QED BY <1>2, <1>3, <1>4, <2>1
  <1>8. now[1].node = Entry
    <2>1. CASE fr = <<>>
      BY <1>2, <1>3, <2>1 DEF k
    <2>2. CASE fr # <<>>
      <3>1. 1 \in 1 .. Len(fr) /\ fr[1].node = Entry
        BY <1>3, <2>2 DEF Stack
      <3> QED BY <1>3, <3>1
    <2> QED BY <2>1, <2>2
  <1>9. Stack(now)
    BY <1>3, <1>4, <1>5, <1>6, <1>7, <1>8 DEF Stack
  <1>10. {now[i].node : i \in DOMAIN now} = {fr[i].node : i \in DOMAIN fr} \cup {f}
    BY <1>2, <1>3, <1>4
  <1>11. /\ NodeStack(now) \in Seq(Func) /\ Len(NodeStack(now)) = k
         /\ \A i \in 1 .. k : NodeStack(now)[i] = now[i].node
    <2>1. \A i \in 1 .. k : now[i].node \in Func
      BY <1>3, <1>6, FuncAssumption
    <2>2. NodeStack(now) = [i \in 1 .. k |-> now[i].node]
      BY <1>3 DEF NodeStack
    <2>3. NodeStack(now) \in [1 .. k -> Func]
      BY <2>1, <2>2
    <2> QED BY <1>3, <2>2, <2>3, SMTT(30)
  <1>12. \A i \in 1 .. k - 1 : now[i].node \in Inner
    <2> SUFFICES ASSUME NEW i \in 1 .. k - 1 PROVE now[i].node \in Inner
      OBVIOUS
    <2>1. i \in DOMAIN now /\ i + 1 \in DOMAIN now
      BY <1>3
    <2>2. now[i].node \in Func /\ now[i + 1].node \in Func \cap HasBody
      BY <1>6, <2>1, FuncAssumption
    <2> QED BY <1>5, <2>2 DEF Inner, Succ
  <1>13. ASSUME end PROVE NodeStack(now) \in AllPaths
    <2> DEFINE q == NodeStack(now)
    <2>1. k \in 1 .. PathDepth /\ (k = PathDepth \/ f \notin Inner)
      BY <1>2, <1>3, <1>4, <1>13 DEF k
    <2>2. k \in 1 .. PathDepth /\ 1 \in 1 .. k /\ k \in 1 .. k
      BY <1>3, <1>4 DEF k
    <2>3. CallPath(q)
      <3>1. q[1] = Entry
        BY <1>8, <1>11, <2>2
      <3>2. \A i \in 1 .. k - 1 : <<q[i], q[i + 1]>> \in edges
        <4>1. \A i \in 1 .. k - 1 : i \in 1 .. k /\ i + 1 \in 1 .. k
          BY <1>3
        <4> QED BY <1>5, <1>11, <4>1
      <3>3. \A i, j \in 1 .. k : i # j => q[i] # q[j]
        BY <1>3, <1>7, <1>11
      <3>4. \A i \in 1 .. k : q[i] \in HasBody
        BY <1>3, <1>6, <1>11
      <3> HIDE DEF q
      <3> QED BY <1>11, <3>1, <3>2, <3>3, <3>4 DEF CallPath, q
    <2>4. \A i \in 1 .. k - 1 : q[i] \in Inner
      <3>1. \A i \in 1 .. k - 1 : i \in 1 .. k
        BY <1>3
      <3> QED BY <1>11, <1>12, <3>1
    <2>5. k = PathDepth \/ q[k] \notin Inner
      BY <1>2, <1>3, <1>11, <2>1, <2>2
    <2> HIDE DEF q
    <2>6. q \in Seq(Func) /\ Len(q) = k
      BY <1>11 DEF q
    <2>7. q \in AllPaths
      BY <2>2, <2>3, <2>4, <2>5, <2>6, SeqIsPath
    <2> QED BY <2>7 DEF q
  <1>14. ASSUME NEW p \in AllPaths, Pending(fr, p) PROVE Pending(now, p)
    <2>1. PICK i \in DOMAIN fr : /\ i < Len(p)
                                 /\ \A j \in 1 .. i : p[j] = fr[j].node
                                 /\ p[i + 1] \in fr[i].todo
      BY <1>14 DEF Pending
    <2>2. i \in DOMAIN now /\ now[i] = fr[i] /\ \A j \in 1 .. i : j \in 1 .. Len(fr)
      BY <1>3, <1>4
    <2>3. \A j \in 1 .. i : p[j] = now[j].node
      BY <1>3, <2>1, <2>2
    <2> QED BY <2>1, <2>2, <2>3 DEF Pending
  <1>15. ASSUME NEW p \in AllPaths, Len(p) > Len(fr),
                \A j \in 1 .. Len(fr) : p[j] = fr[j].node, p[Len(fr) + 1] = f
         PROVE  p \in paths' \/ Pending(now, p)
    <2>1. /\ p \in Seq(Func) /\ Len(p) \in 1 .. PathDepth /\ CallPath(p)
          /\ \A i \in 1 .. Len(p) - 1 : p[i] \in Inner
          /\ Len(p) = PathDepth \/ p[Len(p)] \notin Inner
      BY PathIsSeq
    <2>2. \A j \in 1 .. k : p[j] = now[j].node
      BY <1>2, <1>3, <1>4, <1>15 DEF k
    <2>3. CASE end
      <3>1. Len(p) = k
        <4>1. CASE leaf[f]
          BY <1>2, <1>3, <1>15, <2>1, <4>1 DEF k
        <4>2. CASE k >= PathDepth
          BY <1>3, <1>15, <2>1, <4>2, FuncAssumption DEF k
        <4> QED BY <2>3, <4>1, <4>2 DEF k
      <3>2. p = NodeStack(now)
        BY <1>11, <2>1, <2>2, <3>1, SamePath
      <3> QED BY <1>1, <2>3, <3>2
    <2>4. CASE ~end
      <3>1. k < PathDepth /\ f \in Inner
        BY <1>2, <1>3, <2>4, FuncAssumption DEF k
      <3>2. k < Len(p)
        BY <1>3, <1>15, <2>1, <3>1 DEF k
      <3>3. p[k + 1] \in Succ(f) \cap HasBody
        <4>1. k \in 1 .. Len(p) - 1 /\ k + 1 \in 1 .. Len(p) /\ p[k] = f
          BY <1>3, <1>15, <2>1, <3>2 DEF k
        <4>2. <<f, p[k + 1]>> \in edges /\ p[k + 1] \in HasBody
          BY <2>1, <4>1 DEF CallPath
        <4> QED BY <4>2, FuncAssumption DEF Succ
      <3>4. p[k + 1] \in now[k].todo /\ k \in DOMAIN now
        BY <1>2, <1>3, <1>4, <2>4, <3>3
      <3> QED BY <2>2, <3>2, <3>4 DEF Pending
    <2> QED BY <2>3, <2>4
  <1>16. paths \subseteq paths' /\ paths' \subseteq paths \cup AllPaths
    BY <1>1, <1>13
  <1>17. frames' = now /\ now \in Seq(Frame) /\ Stack(now)
    BY <1>1, <1>3, <1>9
  <1> HIDE DEF end
  <1> QED BY <1>10, <1>14, <1>15, <1>16, <1>17

LEMMA StartPaths == TypeOK /\ PathsInv /\ StartWalk => PathsInv'
  <1> SUFFICES ASSUME TypeOK, PathsInv, StartWalk PROVE PathsInv'
    OBVIOUS
  <1>1. pc = "link" /\ UNCHANGED <<edges, leaf>> /\ frames = <<>> /\ paths = {} /\ onPath = {}
    BY DEF StartWalk, built, PathsInv
  <1>2. AllPaths' = AllPaths /\ Inner' = Inner /\ \A f : Succ(f)' = Succ(f)
    BY <1>1, PathsKept
  <1>3. CASE Entry = FuncNum
    <2>1. pc' = "sweep" /\ UNCHANGED <<frames, onPath, paths>>
      BY <1>3 DEF StartWalk
    <2>2. Stack(frames')
      BY <1>1, <2>1, FuncAssumption DEF Stack
    <2> QED BY <1>1, <1>2, <1>3, <2>1, <2>2 DEF PathsInv, Stack
  <1>4. CASE Entry # FuncNum
    <2>1. pc' = "walk" /\ Enter(<<>>, Entry) /\ Entry \in HasBody
      BY <1>4, FuncAssumption DEF StartWalk
    <2>2. PICK fr \in Seq(Frame) : fr = <<>> /\ Len(fr) = 0 /\ DOMAIN fr = {}
      <3>1. <<>> \in Seq(Frame) /\ Len(<<>>) = 0 /\ DOMAIN <<>> = {}
        OBVIOUS
      <3> QED BY <3>1
    <2>3. Stack(fr)
      BY <2>2, FuncAssumption DEF Stack
    <2>4. /\ \A h \in Func : leaf[h] <=> h \notin Inner
          /\ edges \subseteq Func \X Func /\ 0 < PathDepth
      BY FuncAssumption DEF PathsInv, TypeOK
    <2>5. /\ frames' \in Seq(Frame) /\ Stack(frames')
          /\ {frames'[i].node : i \in DOMAIN frames'} = {fr[i].node : i \in DOMAIN fr} \cup {Entry}
          /\ paths' \subseteq paths \cup AllPaths
          /\ \A p \in AllPaths : /\ Len(p) > Len(fr)
                                 /\ \A j \in 1 .. Len(fr) : p[j] = fr[j].node
                                 /\ p[Len(fr) + 1] = Entry
                                 => p \in paths' \/ Pending(frames', p)
      BY <2>1, <2>2, <2>3, <2>4, EnterPaths
    <2>6. \A p \in AllPaths : p \in paths' \/ Pending(frames', p)
      <3> SUFFICES ASSUME NEW p \in AllPaths PROVE p \in paths' \/ Pending(frames', p)
        OBVIOUS
      <3>1. Len(p) > 0 /\ p[1] = Entry
        BY PathIsSeq DEF CallPath
      <3> QED BY <2>2, <2>5, <3>1
    <2>7. onPath' = {frames'[i].node : i \in DOMAIN frames'}
      <3>1. onPath' = {Entry}
        BY <1>1, <2>1 DEF Enter
      <3> QED BY <2>2, <2>5, <3>1
    <2>8. Stack(frames)'
      BY <1>2, <1>1, <2>5 DEF Stack
    <2> QED BY <1>1, <1>2, <1>4, <2>1, <2>4, <2>5, <2>6, <2>7, <2>8 DEF PathsInv, Pending
  <1> QED BY <1>3, <1>4

LEMMA StepPaths == TypeOK /\ PathsInv /\ Step => PathsInv'
  <1> SUFFICES ASSUME TypeOK, PathsInv, Step PROVE PathsInv'
    OBVIOUS
  <1>1. PICK g \in Top.todo :
          LET fr == [frames EXCEPT ![Len(frames)].todo = @ \ {g}] IN
            IF g \in onPath THEN frames' = fr /\ UNCHANGED <<onPath, paths, updated>> ELSE Enter(fr, g)
    BY DEF Step
  <1>2. /\ pc = "walk" /\ pc' = "walk" /\ frames # <<>> /\ UNCHANGED <<edges, leaf>>
        /\ frames \in Seq(Frame) /\ Len(frames) \in Nat \ {0}
        /\ DOMAIN frames = 1 .. Len(frames) /\ Len(frames) \in DOMAIN frames
    BY DEF Step, built, TypeOK, Frame
  <1>3. /\ AllPaths' = AllPaths /\ Inner' = Inner /\ \A f : Succ(f)' = Succ(f)
        /\ Entry # FuncNum /\ edges \subseteq Func \X Func
        /\ \A h \in Func : leaf[h] <=> h \notin Inner
        /\ Stack(frames)
    BY <1>2, PathsKept DEF PathsInv, TypeOK
  <1> DEFINE n == Len(frames)
             top == [Top EXCEPT !.todo = @ \ {g}]
  <1>4. PICK fr : fr = [frames EXCEPT ![n] = top] /\ fr = [frames EXCEPT ![n].todo = @ \ {g}]
    BY DEF Top
  <1>5. Top \in Frame /\ top \in Frame /\ top.node = Top.node /\ top.todo = Top.todo \ {g}
    <2>1. Top \in Frame
      BY <1>2 DEF Top
    <2> QED BY <2>1 DEF Frame
  <1>6. /\ fr \in Seq(Frame) /\ Len(fr) = n /\ DOMAIN fr = 1 .. n /\ fr # <<>>
        /\ fr[n] = top /\ \A i \in 1 .. n : i # n => fr[i] = frames[i]
    BY <1>2, <1>4, <1>5
  <1>7. \A i \in 1 .. n : fr[i].node = frames[i].node /\ fr[i].todo \subseteq frames[i].todo
    BY <1>5, <1>6 DEF Top
  <1>8. Stack(fr)
    <2>1. fr[1].node = Entry
      BY <1>2, <1>3, <1>7 DEF Stack
    <2>2. \A i \in 1 .. n - 1 : <<fr[i].node, fr[i + 1].node>> \in edges
      <3>1. \A i \in 1 .. n - 1 : i \in 1 .. n /\ i + 1 \in 1 .. n
        BY <1>2
      <3> QED BY <1>3, <1>7, <3>1 DEF Stack
    <2>3. \A i \in 1 .. n : /\ fr[i].node \in HasBody
                            /\ fr[i].todo \subseteq Succ(fr[i].node) \cap HasBody
                            /\ fr[i].todo # {} => i < PathDepth
      BY <1>2, <1>3, <1>7 DEF Stack
    <2>4. \A i, j \in 1 .. n : i # j => fr[i].node # fr[j].node
      BY <1>2, <1>3, <1>7 DEF Stack
    <2>5. n <= PathDepth
      BY <1>3 DEF Stack
    <2> QED BY <1>6, <2>1, <2>2, <2>3, <2>4, <2>5 DEF Stack
  <1>9. /\ g \in Succ(fr[n].node) /\ g \in HasBody /\ n < PathDepth
        /\ onPath = {fr[i].node : i \in 1 .. n}
    <2>1. g \in frames[n].todo /\ fr[n].node = frames[n].node
      BY <1>2, <1>7 DEF Top
    <2>2. onPath = {frames[i].node : i \in 1 .. n}
      BY <1>2 DEF PathsInv
    <2>3. {frames[i].node : i \in 1 .. n} = {fr[i].node : i \in 1 .. n}
      BY <1>7
    <2> QED BY <1>2, <1>3, <2>1, <2>2, <2>3 DEF Stack
  \* Only the paths that go on with g can cease to be pending.
  <1>10. ASSUME NEW p \in AllPaths, p \notin paths, ~Pending(fr, p)
         PROVE  Len(p) > n /\ (\A j \in 1 .. n : p[j] = fr[j].node) /\ p[n + 1] = g
    <2>1. PICK i \in 1 .. n : /\ i < Len(p)
                              /\ \A j \in 1 .. i : p[j] = frames[j].node
                              /\ p[i + 1] \in frames[i].todo
      BY <1>2, <1>10 DEF PathsInv, Pending
    <2>2. \A j \in 1 .. i : j \in 1 .. n
      BY <1>2
    <2>3. \A j \in 1 .. i : p[j] = fr[j].node
      BY <1>7, <2>1, <2>2
    <2>4. p[i + 1] \notin fr[i].todo
      BY <1>6, <1>10, <2>1, <2>3 DEF Pending
    <2>5. i = n /\ p[i + 1] = g
      BY <1>5, <1>6, <2>1, <2>4 DEF Top
    <2> QED BY <2>1, <2>3, <2>5
  <1> HIDE DEF top
  <1>11. CASE g \in onPath
    <2>1. frames' = fr /\ UNCHANGED <<onPath, paths>>
      BY <1>1, <1>4, <1>11
    <2>2. ASSUME NEW p \in AllPaths PROVE p \in paths \/ Pending(fr, p)
      <3> SUFFICES ASSUME p \notin paths, ~Pending(fr, p) PROVE FALSE
        OBVIOUS
      <3>1. Len(p) > n /\ (\A j \in 1 .. n : p[j] = fr[j].node) /\ p[n + 1] = g
        BY <1>10
      <3>2. PICK i \in 1 .. n : p[i] = g
        BY <1>9, <1>11, <3>1
      <3>3. Len(p) \in Nat /\ i \in 1 .. Len(p) /\ n + 1 \in 1 .. Len(p) /\ i # n + 1
        BY <1>2, <3>1, PathIsSeq
      <3> QED BY <3>1, <3>2, <3>3, PathIsSeq DEF CallPath
    <2>3. Stack(frames)'
      BY <1>2, <1>3, <1>8, <2>1 DEF Stack
    <2>4. onPath' = {frames'[i].node : i \in DOMAIN frames'}
      BY <1>6, <1>9, <2>1
    <2> QED BY <1>2, <1>3, <2>1, <2>2, <2>3, <2>4 DEF PathsInv
  <1>12. CASE g \notin onPath
    <2>1. Enter(fr, g)
      BY <1>1, <1>4, <1>12
    <2>2. \A i \in DOMAIN fr : fr[i].node # g
      BY <1>6, <1>9, <1>12
    <2>3. g \in Succ(fr[Len(fr)].node) /\ Len(fr) < PathDepth
      BY <1>6, <1>9
    <2>4. /\ frames' \in Seq(Frame) /\ Stack(frames')
          /\ {frames'[i].node : i \in DOMAIN frames'} = {fr[i].node : i \in DOMAIN fr} \cup {g}
          /\ paths \subseteq paths' /\ paths' \subseteq paths \cup AllPaths
          /\ \A p \in AllPaths : Pending(fr, p) => Pending(frames', p)
          /\ \A p \in AllPaths : /\ Len(p) > Len(fr)
                                 /\ \A j \in 1 .. Len(fr) : p[j] = fr[j].node
                                 /\ p[Len(fr) + 1] = g
                                 => p \in paths' \/ Pending(frames', p)
      BY <1>3, <1>6, <1>8, <1>9, <2>1, <2>2, <2>3, EnterPaths
    <2>5. ASSUME NEW p \in AllPaths PROVE p \in paths' \/ Pending(frames', p)
      BY <1>6, <1>10, <2>4
    <2>6. Stack(frames)'
      BY <1>2, <1>3, <2>4 DEF Stack
    <2>7. onPath' = {frames'[i].node : i \in DOMAIN frames'}
      <3>1. onPath' = onPath \cup {g}
        BY <2>1 DEF Enter
      <3> QED BY <1>6, <1>9, <2>4, <3>1
    <2>8. paths' \subseteq AllPaths
      BY <1>3, <2>4 DEF PathsInv
    <2> QED BY <1>2, <1>3, <2>5, <2>6, <2>7, <2>8 DEF PathsInv, Pending
  <1> QED BY <1>11, <1>12

LEMMA LeavePaths == TypeOK /\ PathsInv /\ Leave => PathsInv'
  <1> SUFFICES ASSUME TypeOK, PathsInv, Leave PROVE PathsInv'
    OBVIOUS
  <1>1. /\ pc = "walk" /\ pc' = "walk" /\ frames # <<>> /\ UNCHANGED <<edges, leaf, paths>>
        /\ frames' = SubSeq(frames, 1, Len(frames) - 1) /\ onPath' = onPath \ {Top.node}
        /\ Top.todo = {}
        /\ frames \in Seq(Frame) /\ Len(frames) \in Nat \ {0}
        /\ DOMAIN frames = 1 .. Len(frames)
    BY DEF Leave, built, Front, TypeOK, Frame
  <1>2. /\ AllPaths' = AllPaths /\ Inner' = Inner /\ \A f : Succ(f)' = Succ(f)
        /\ Stack(frames)
    BY <1>1, PathsKept DEF PathsInv
  <1> DEFINE n == Len(frames)
  <1>3. PICK fr : fr = frames'
    OBVIOUS
  <1>4. /\ Len(fr) = n - 1 /\ DOMAIN fr = 1 .. n - 1
        /\ \A i \in 1 .. n - 1 : fr[i] = frames[i]
        /\ fr # <<>> => 1 \in 1 .. n - 1
    BY <1>1, <1>3
  <1>5. 1 .. n = (1 .. n - 1) \cup {n} /\ n \notin 1 .. n - 1
    BY <1>1
  <1>6. Stack(fr)
    <2>1. \A i \in 1 .. n - 2 : i \in 1 .. n - 1 /\ i + 1 \in 1 .. n - 1
      BY <1>1
    <2>2. n - 1 <= PathDepth
      BY <1>1, <1>2, FuncAssumption DEF Stack
    <2>3. \A i \in 1 .. n - 1 - 1 : <<fr[i].node, fr[i + 1].node>> \in edges
      BY <1>1, <1>2, <1>4, <2>1 DEF Stack
    <2>4. \A i \in DOMAIN fr : i \in DOMAIN frames /\ fr[i] = frames[i]
      BY <1>1, <1>4, <1>5
    <2>5. fr # <<>> => fr[1].node = Entry
      BY <1>1, <1>2, <1>4 DEF Stack
    <2> QED BY <1>2, <1>4, <2>2, <2>3, <2>4, <2>5 DEF Stack
  <1>7. onPath' = {fr[i].node : i \in DOMAIN fr}
    <2>1. onPath = {frames[i].node : i \in 1 .. n - 1} \cup {frames[n].node}
      BY <1>1, <1>5 DEF PathsInv
    <2>2. {frames[i].node : i \in 1 .. n - 1} = {fr[i].node : i \in DOMAIN fr}
      BY <1>4
    <2>3. \A i \in 1 .. n - 1 : frames[i].node # frames[n].node
      BY <1>1, <1>2, <1>5 DEF Stack
    <2>4. frames[n].node \notin {frames[i].node : i \in 1 .. n - 1}
      BY <2>3
    <2> QED BY <1>1, <2>1, <2>2, <2>4 DEF Top
  <1>8. ASSUME NEW p \in AllPaths PROVE p \in paths \/ Pending(fr, p)
    <2>1. CASE Pending(frames, p)
      <3>1. PICK i \in 1 .. n : /\ i < Len(p)
                                /\ \A j \in 1 .. i : p[j] = frames[j].node
                                /\ p[i + 1] \in frames[i].todo
        BY <1>1, <2>1 DEF Pending
      <3>2. i \in 1 .. n - 1 /\ \A j \in 1 .. i : j \in 1 .. n - 1
        BY <1>1, <1>5, <3>1 DEF Top
      <3> QED BY <1>4, <3>1, <3>2 DEF Pending
    <2> QED BY <1>1, <2>1 DEF PathsInv
  <1>9. Stack(frames)'
    BY <1>1, <1>2, <1>3, <1>6 DEF Stack
  <1>10. Entry # FuncNum /\ paths \subseteq AllPaths /\ \A f \in Func : leaf[f] <=> f \notin Inner
    BY <1>1 DEF PathsInv
  <1>11. (\A f \in Func : leaf[f] <=> f \notin Inner)'
    BY <1>1, <1>2, <1>10
  <1>12. (\A p \in AllPaths : p \in paths \/ Pending(frames, p))'
    BY <1>1, <1>2, <1>3, <1>8
  <1>13. (onPath = {frames[i].node : i \in DOMAIN frames})'
    BY <1>3, <1>7
  <1>14. paths' \subseteq AllPaths'
    BY <1>1, <1>2, <1>10
  <1>15. pc' = "walk"
    BY <1>1
  <1> QED BY <1>9, <1>10, <1>11, <1>12, <1>13, <1>14, <1>15 DEF PathsInv

\* An edge to a function with a body makes its caller an inner node.
LEMMA ReadPaths ==
  ASSUME TypeOK, PathsInv, NEW C \in SUBSET Func, ReadCall, AddCgEdges(scan, C)
  PROVE  PathsInv'
  <1>1. /\ pc = "build" /\ pc' = "build" /\ UNCHANGED <<frames, onPath, paths>>
        /\ frames = <<>> /\ paths = {} /\ onPath = {} /\ scan \in Func
    BY FuncAssumption DEF ReadCall, PathsInv, TypeOK, Func
  <1>2. \A f \in Func : leaf'[f] <=> f \notin Inner'
    <2> SUFFICES ASSUME NEW f \in Func PROVE leaf'[f] <=> f \notin Inner'
      OBVIOUS
    <2>1. edges' = edges \cup {<<scan, g>> : g \in C \ {scan}}
      BY DEF AddCgEdges
    <2>2. leaf[f] <=> Succ(f) \cap HasBody = {}
      BY DEF PathsInv, Inner
    <2>3. f \in Inner' <=> Succ(f)' \cap HasBody # {}
      BY DEF Inner
    <2>4. CASE f = scan
      <3>1. Succ(f)' = Succ(f) \cup (C \ {scan})
        BY <2>1, <2>4 DEF Succ
      <3>2. leaf'[f] = (leaf[f] /\ (C \ {scan}) \cap HasBody = {})
        BY <2>4 DEF AddCgEdges, TypeOK
      <3> QED BY <2>2, <2>3, <3>1, <3>2
    <2>5. CASE f # scan
      <3>1. Succ(f)' = Succ(f)
        BY <2>1, <2>5 DEF Succ
      <3>2. leaf'[f] = leaf[f]
        BY <2>5 DEF AddCgEdges, TypeOK
      <3> QED BY <2>2, <2>3, <3>1, <3>2
    <2> QED BY <2>4, <2>5
  <1>3. Stack(frames)'
    BY <1>1, FuncAssumption DEF Stack
  <1> QED BY <1>1, <1>2, <1>3 DEF PathsInv

LEMMA OtherPaths ==
  ASSUME TypeOK, PathsInv, NextFunction \/ Built \/ Link \/ EndWalk \/ Sweep \/ UNCHANGED vars
  PROVE  PathsInv'
  <1>1. UNCHANGED <<edges, leaf, frames, paths>>
    BY DEF NextFunction, Built, Link, EndWalk, Sweep, vars, built
  <1>2. AllPaths' = AllPaths /\ Inner' = Inner /\ \A f : Succ(f)' = Succ(f)
    BY <1>1, PathsKept
  <1>3. \/ pc' = pc /\ onPath' = onPath
        \/ pc \in {"build", "link"} /\ pc' = "link" /\ onPath' = onPath
        \/ pc = "sweep" /\ pc' = "done" /\ onPath' = onPath
        \/ pc = "walk" /\ frames = <<>> /\ pc' = "sweep" /\ onPath' = {}
    BY DEF NextFunction, Built, Link, EndWalk, Sweep, vars, built
  <1>4. Stack(frames)'
    BY <1>1, <1>2 DEF PathsInv, Stack
  <1>5. \A p : Pending(frames, p)' <=> Pending(frames, p)
    BY <1>1 DEF Pending
  <1>6. frames = <<>> => \A p : ~Pending(frames, p)
    BY DEF Pending
  <1> QED BY <1>1, <1>2, <1>3, <1>4, <1>5, <1>6 DEF PathsInv, Pending

\* The walk refreshes along every call path from the entry that ends at a leaf
\* or at the depth limit, and along nothing else, for every call graph.
THEOREM WalksEveryPath == Spec => []PathsComplete
  <1>1. Init => PathsInv
    <2> SUFFICES ASSUME Init PROVE PathsInv
      OBVIOUS
    <2>1. /\ edges = {} /\ leaf = [f \in Func |-> TRUE] /\ frames = <<>> /\ pc = "build"
          /\ paths = {} /\ onPath = {}
      BY DEF Init
    <2>2. Stack(frames)
      BY <2>1, FuncAssumption DEF Stack
    <2>3. \A f \in Func : leaf[f] /\ f \notin Inner
      BY <2>1 DEF Inner, Succ
    <2> QED BY <2>1, <2>2, <2>3 DEF PathsInv
  <1>2. TypeOK /\ PathsInv /\ [Next]_vars => PathsInv'
    <2> SUFFICES ASSUME TypeOK, PathsInv, [Next]_vars PROVE PathsInv'
      OBVIOUS
    <2>1. ASSUME NEW g \in Func, DirectCall(g) PROVE PathsInv'
      <3>1. ReadCall /\ AddCgEdges(scan, {g}) /\ {g} \in SUBSET Func
        BY <2>1 DEF DirectCall
      <3> QED BY <3>1, ReadPaths
    <2>2. ASSUME NEW cand \in SUBSET Func, NEW args, IndirectCall(cand, args) PROVE PathsInv'
      <3> DEFINE C == {g \in cand : ArgNum[g] = args}
      <3>1. ReadCall /\ AddCgEdges(scan, C) /\ C \in SUBSET Func
        BY <2>2 DEF IndirectCall
      <3> HIDE DEF C
      <3> QED BY <3>1, ReadPaths
    <2>3. UNION {kSubset(k, Func) : k \in 0 .. MaxCand} \subseteq SUBSET Func
      BY DEF kSubset
    <2>4. CASE \E cand \in UNION {kSubset(k, Func) : k \in 0 .. MaxCand}, args \in {ArgNum[g] : g \in Func} : IndirectCall(cand, args)
      BY <2>2, <2>3, <2>4
    <2> QED BY <2>1, <2>4, StartPaths, StepPaths, LeavePaths, OtherPaths DEF Next, Done
  <1>3. TypeOK /\ PathsInv => PathsComplete
    BY DEF PathsInv, PathsComplete
  <1> QED BY <1>1, <1>2, <1>3, TypeCorrect, PTL DEF Spec
=============================================================================

--------------------------- MODULE AndersonProofs ---------------------------
(***************************************************************************)
(* Theorems about the points-to solver, for every number of nodes and      *)
(* every program.                                                          *)
(***************************************************************************)
EXTENDS Anderson, TLAPS

-----------------------------------------------------------------------------
(* The work list and the edges *)

\* A constraint is determined by its three fields.
LEMMA CstFields ==
  /\ \A c \in Constraint : /\ c.type \in {E_ADDR_OF, E_COPY, E_STORE, E_LOAD}
                           /\ c.src \in Node /\ c.dst \in Node
                           /\ Cst(c.type, c.src, c.dst) = c
  /\ \A t \in {E_ADDR_OF, E_COPY, E_STORE, E_LOAD}, s \in Node, d \in Node :
       Cst(t, s, d) \in Constraint
BY DEF Constraint, Cst

\* InQueue appends to the work list at most once, and loses nothing.
LEMMA InQueueElements ==
  ASSUME NEW q \in Seq(Node), NEW n \in Node
  PROVE  /\ InQueue(q, n) \in Seq(Node)
         /\ {InQueue(q, n)[i] : i \in DOMAIN InQueue(q, n)} = {q[i] : i \in DOMAIN q} \cup {n}
<1>1. CASE \E i \in DOMAIN q : q[i] = n
  BY <1>1 DEF InQueue
<1>2. CASE ~\E i \in DOMAIN q : q[i] = n
  <2>1. InQueue(q, n) = Append(q, n)
    BY <1>2 DEF InQueue
  <2>2. /\ Append(q, n) \in Seq(Node)
        /\ DOMAIN Append(q, n) = 1 .. Len(q) + 1
        /\ Append(q, n)[Len(q) + 1] = n
        /\ \A i \in 1 .. Len(q) : Append(q, n)[i] = q[i]
    OBVIOUS
  <2>3. DOMAIN q = 1 .. Len(q) /\ Len(q) \in Nat
    OBVIOUS
  <2> QED
    BY <2>1, <2>2, <2>3
<1> QED
  BY <1>1, <1>2

\* Taking the head off a work list leaves the other elements in it.
LEMMA TailElements ==
  ASSUME NEW q \in Seq(Node), q # <<>>
  PROVE  /\ Head(q) \in Node /\ Tail(q) \in Seq(Node)
         /\ \A n \in {q[i] : i \in DOMAIN q} :
              n = Head(q) \/ n \in {Tail(q)[i] : i \in DOMAIN Tail(q)}
<1>1. Head(q) \in Node /\ Tail(q) \in Seq(Node) /\ Len(q) \in Nat \ {0}
  OBVIOUS
<1>2. ASSUME NEW i \in DOMAIN q
      PROVE  q[i] = Head(q) \/ \E j \in DOMAIN Tail(q) : Tail(q)[j] = q[i]
  <2>1. CASE i = 1
    BY <2>1
  <2>2. CASE i # 1
    <3>1. i - 1 \in DOMAIN Tail(q) /\ Tail(q)[i - 1] = q[i]
      BY <1>1, <2>2
    <3> QED
      BY <3>1
  <2> QED
    BY <2>1, <2>2
<1> QED
  BY <1>1, <1>2

\* AddCstEdge keeps the edges of the graph well formed.
LEMMA AddCstEdgeTyped ==
  ASSUME GraphTypeOK, NEW t \in {E_ADDR_OF, E_COPY, E_STORE, E_LOAD},
         NEW s \in Node, NEW d \in Node, AddCstEdge(t, s, d)
  PROVE  /\ edges' \subseteq Constraint /\ liveEdges' \subseteq edges'
         /\ succ' \in [Node -> SUBSET Node]
<1>1. Cst(t, s, d) \in Constraint
  BY CstFields
<1> QED
  BY <1>1 DEF AddCstEdge, GraphTypeOK, Reachable

-----------------------------------------------------------------------------
(* Type correctness *)

LEMMA InitTyped == Init => TypeOK
<1> SUFFICES ASSUME Init PROVE TypeOK
  OBVIOUS
<1>1. GraphTypeOK
  BY DEF Init, GraphInit, GraphTypeOK
<1>2. prog \in Seq(Constraint) /\ next \in 1 .. Len(prog) + 1
  BY ProgramsAssumption DEF Init
<1>3. cur \in Node
  BY NodeNumAssumption DEF Init, Node, UniversalPtr
<1> QED
  BY <1>1, <1>2, <1>3 DEF Init, TypeOK

LEMMA MergeNodeTyped ==
  ASSUME GraphTypeOK, NEW s \in Node, NEW d \in Node, MergeNode(s, d)
  PROVE  GraphTypeOK'
<1> DEFINE Ins == {e \in edges : e.dst = s /\ e.src # d}
           Outs == {e \in edges : e.src = s /\ e.dst # d}
           ofS(e) == IF e.type = E_STORE THEN e.dst = s ELSE e.src = s
           Added(m) == {[e EXCEPT !.dst = d] : e \in m} \ edges
<1>1. PICK ins \in SUBSET Ins : \E outs \in SUBSET Outs :
        LET moved == ins \cup outs
        IN  /\ edges' = (edges \ moved) \cup Added(moved)
            /\ liveEdges' = {e \in (liveEdges \ moved) \cup Reachable(Added(moved)) : ~ofS(e)}
            /\ succ' = [n \in Node |->
                 IF n = s THEN {}
                 ELSE succ[n] \cup {e.dst : e \in {f \in Added(moved) : f.src = n}}]
            /\ pts' = [pts EXCEPT ![d] = @ \cup pts[s]]
            /\ rep' = [n \in Node |-> IF rep[n] = s THEN d ELSE rep[n]]
  BY DEF MergeNode, Handled, UnionPts
<1>2. PICK outs \in SUBSET Outs :
        LET moved == ins \cup outs
        IN  /\ edges' = (edges \ moved) \cup Added(moved)
            /\ liveEdges' = {e \in (liveEdges \ moved) \cup Reachable(Added(moved)) : ~ofS(e)}
            /\ succ' = [n \in Node |->
                 IF n = s THEN {}
                 ELSE succ[n] \cup {e.dst : e \in {f \in Added(moved) : f.src = n}}]
            /\ pts' = [pts EXCEPT ![d] = @ \cup pts[s]]
            /\ rep' = [n \in Node |-> IF rep[n] = s THEN d ELSE rep[n]]
  BY <1>1
<1> DEFINE moved == ins \cup outs
           added == Added(moved)
<1>3. added \subseteq Constraint
  BY DEF GraphTypeOK, Constraint
<1>4. edges' \subseteq Constraint
  BY <1>2, <1>3 DEF GraphTypeOK
<1>5. liveEdges' \subseteq edges'
  BY <1>2 DEF GraphTypeOK, Reachable
<1>6. succ' \in [Node -> SUBSET Node]
  <2>1. \A e \in added : e.dst \in Node
    BY <1>3, CstFields
  <2>2. \A n \in Node : {e.dst : e \in {f \in added : f.src = n}} \subseteq Node
    BY <2>1
  <2>3. \A n \in Node : (IF n = s THEN {}
                 ELSE succ[n] \cup {e.dst : e \in {f \in added : f.src = n}}) \in SUBSET Node
    BY <2>2 DEF GraphTypeOK
  <2> HIDE DEF added
  <2> QED
    BY <1>2, <2>3 DEF added
<1>7. pts' \in [Node -> SUBSET Node] /\ rep' \in [Node -> Node]
  BY <1>2 DEF GraphTypeOK
<1> QED
  BY <1>4, <1>5, <1>6, <1>7 DEF GraphTypeOK

LEMMA StepTyped == TypeOK /\ [Next]_vars => TypeOK'
<1> SUFFICES ASSUME TypeOK, [Next]_vars PROVE TypeOK'
  OBVIOUS
<1> USE DEF TypeOK
<1>1. CASE InitCst
  <2> DEFINE c == prog[next]  d == rep[c.dst]  s == rep[c.src]
  <2>1. c \in Constraint /\ next \in 1 .. Len(prog)
    BY <1>1 DEF InitCst
  <2>2. c.type \in {E_ADDR_OF, E_COPY, E_STORE, E_LOAD} /\ c.src \in Node /\ c.dst \in Node
    BY <2>1, CstFields
  <2>3. d \in Node /\ s \in Node
    BY <2>2 DEF GraphTypeOK
  <2>4. AddCstEdge(c.type, s, d)
    BY <1>1 DEF InitCst
  <2>5. edges' \subseteq Constraint /\ liveEdges' \subseteq edges' /\ succ' \in [Node -> SUBSET Node]
    BY <2>2, <2>3, <2>4, AddCstEdgeTyped
  <2>6. \/ pts' = [pts EXCEPT ![d] = @ \cup {c.src}] /\ queue' = InQueue(queue, d)
        \/ UNCHANGED <<pts, queue>>
    BY <1>1 DEF InitCst
  <2>7. pts' \in [Node -> SUBSET Node]
    BY <2>2, <2>3, <2>6 DEF GraphTypeOK
  <2>8. queue' \in Seq(Node)
    BY <2>3, <2>6, InQueueElements
  <2> QED
    BY <1>1, <2>1, <2>5, <2>7, <2>8 DEF InitCst, GraphTypeOK
<1>2. CASE Offline
  BY <1>2 DEF Offline, MergePairs, Inner, GraphTypeOK, graphVars
<1>3. CASE Online
  <2>1. /\ VisitedFrom(Fresh, RepSucc, {rep[n] : n \in cand}) \subseteq Node
        /\ MergePairs(VisitedFrom(Fresh, RepSucc, {rep[n] : n \in cand}), RepSucc) \subseteq Node \X Node
    BY DEF VisitedFrom, Fresh, MergePairs, Inner
  <2> QED
    BY <1>3, <2>1 DEF Online, GraphTypeOK, graphVars
<1>4. CASE Merge
  <2>1. PICK p \in mergeMap : MergeNode(p[1], p[2]) /\ mergeMap' = mergeMap \ {p}
    BY <1>4 DEF Merge
  <2>2. p[1] \in Node /\ p[2] \in Node
    BY <2>1
  <2>3. GraphTypeOK'
    BY <2>1, <2>2, MergeNodeTyped
  <2> QED
    BY <1>4, <2>1, <2>3 DEF Merge
<1>5. CASE MergeEnd
  BY <1>5 DEF MergeEnd, GraphTypeOK, graphVars
<1>6. CASE Pop
  <2>1. Head(queue) \in Node /\ Tail(queue) \in Seq(Node)
    BY <1>6, TailElements DEF Pop
  <2>2. cur' \in Node /\ queue' \in Seq(Node)
    BY <1>6, <2>1 DEF Pop, GraphTypeOK
  <2>3. todo' = DerefItems(pts[cur'], OutLoadEdge(cur') \cup InStoreEdge(cur'))
    BY <1>6 DEF Pop
  <2>4. todo' \subseteq DerefItems(Node, Constraint)
    BY <2>2, <2>3 DEF DerefItems, OutLoadEdge, InStoreEdge, GraphTypeOK
  <2> QED
    BY <1>6, <2>2, <2>4 DEF Pop, GraphTypeOK, graphVars
<1>7. CASE Deref
  <2>1. PICK x \in todo :
          /\ LET o == rep[x.pt]
                 s == DerefSrc(x, o)
                 d == DerefDst(x, o)
             IN  IF o # UniversalObj /\ IsNewEdge(E_COPY, s, d)
                 THEN AddCstEdge(E_COPY, s, d) /\ queue' = InQueue(queue, s)
                 ELSE UNCHANGED <<edges, liveEdges, succ, queue>>
          /\ todo' = todo \ {x}
    BY <1>7 DEF Deref
  <2>2. x \in DerefItems(Node, Constraint)
    BY <1>7 DEF Deref
  <2>3. x.pt \in Node /\ x.edge \in Constraint
    BY <2>2 DEF DerefItems
  <2>4. DerefSrc(x, rep[x.pt]) \in Node /\ DerefDst(x, rep[x.pt]) \in Node
    BY <2>3, CstFields DEF DerefSrc, DerefDst, GraphTypeOK
  <2>5. /\ edges' \subseteq Constraint /\ liveEdges' \subseteq edges'
        /\ succ' \in [Node -> SUBSET Node]
        /\ queue' \in Seq(Node)
    <3>1. CASE /\ AddCstEdge(E_COPY, DerefSrc(x, rep[x.pt]), DerefDst(x, rep[x.pt]))
               /\ queue' = InQueue(queue, DerefSrc(x, rep[x.pt]))
      BY <2>4, <3>1, AddCstEdgeTyped, InQueueElements
    <3>2. CASE UNCHANGED <<edges, liveEdges, succ, queue>>
      BY <3>2 DEF GraphTypeOK
    <3> QED
      BY <2>1, <3>1, <3>2
  <2> QED
    BY <1>7, <2>1, <2>5 DEF Deref, GraphTypeOK
<1>8. CASE DerefEnd
  BY <1>8 DEF DerefEnd, OutCopyEdge, GraphTypeOK, graphVars
<1>9. CASE Propagate
  <2>1. PICK e \in todo :
          /\ pts' = [pts EXCEPT ![e.dst] = @ \cup pts[cur]]
          /\ \/ cand' = cand \cup {e.dst} /\ UNCHANGED queue
             \/ queue' = InQueue(queue, e.dst) /\ UNCHANGED cand
          /\ todo' = todo \ {e}
    BY <1>9 DEF Propagate, UnionPts
  <2>2. e.dst \in Node
    BY <1>9, CstFields DEF Propagate
  <2>3. queue' \in Seq(Node) /\ cand' \subseteq Node
    BY <2>1, <2>2, InQueueElements
  <2>4. pts' \in [Node -> SUBSET Node]
    BY <2>1, <2>2 DEF GraphTypeOK
  <2> QED
    BY <1>9, <2>1, <2>3, <2>4 DEF Propagate, GraphTypeOK
<1>10. CASE Finish
  BY <1>10 DEF Finish, GraphTypeOK, graphVars
<1>11. CASE UNCHANGED vars
  BY <1>11 DEF vars, graphVars, solverVars, GraphTypeOK
<1> QED
  BY <1>1, <1>2, <1>3, <1>4, <1>5, <1>6, <1>7, <1>8, <1>9, <1>10, <1>11 DEF Next

\* Type correctness of the solver.
THEOREM TypeCorrect == Spec => []TypeOK
BY InitTyped, StepTyped, PTL DEF Spec

-----------------------------------------------------------------------------
(* The merge forest *)

\* What one run of cycle detection hands to the solver: pairs that merge
\* nodes of V into smaller nodes of V, no node into two, and none into a node
\* that is itself merged.  The components of a graph are disjoint because
\* reachability is transitive.
LEMMA MergePairsSeparate ==
  ASSUME NEW V \in SUBSET Nat, NEW g
  PROVE  LET M == MergePairs(V, g)
         IN  /\ \A p \in M : p[1] \in V /\ p[2] \in V /\ p[2] < p[1]
             /\ \A p, q \in M : p[1] # q[2] /\ (p[1] = q[1] => p[2] = q[2])
<1> DEFINE I == Inner(V, g)
           r == ReachMap(I, g)
           M == MergePairs(V, g)
<1>1. I \subseteq V /\ I \subseteq Nat
  BY DEF Inner
<1>2. ASSUME NEW p \in M
      PROVE  /\ p[1] \in I /\ p[2] \in I /\ p[2] < p[1]
             /\ SameCycle(r, p[1], p[2])
             /\ \A m \in I : SameCycle(r, p[1], m) => p[2] <= m
  BY DEF MergePairs
<1>3. ASSUME NEW u \in I, NEW v \in I, NEW w \in I, v \in r[u], w \in r[v]
      PROVE  w \in r[u]
  <2> DEFINE closed == ClosedSets(I, g)
  <2>1. \A x \in I : r[x] = {y \in I : \A C \in closed : x \in C => y \in C}
    BY DEF ReachMap
  <2> HIDE DEF closed, r, I
  <2> QED
    BY <1>3, <2>1
<1>4. ASSUME NEW u \in I, NEW v \in I, NEW w \in I, SameCycle(r, u, v), SameCycle(r, v, w)
      PROVE  SameCycle(r, u, w)
  <2> HIDE DEF r, I
  <2> QED
    BY <1>3, <1>4 DEF SameCycle
<1>5. ASSUME NEW p \in M, NEW q \in M, p[1] = q[2]
      PROVE  FALSE
  <2>1. SameCycle(r, q[1], p[2])
    BY <1>2, <1>4, <1>5
  <2>2. q[2] <= p[2] /\ p[2] < p[1]
    BY <1>2, <2>1
  <2> QED
    BY <1>1, <1>2, <1>5, <2>2
<1>6. ASSUME NEW p \in M, NEW q \in M, p[1] = q[1]
      PROVE  p[2] = q[2]
  <2>1. p[2] <= q[2] /\ q[2] <= p[2]
    BY <1>2, <1>6
  <2> QED
    BY <1>1, <1>2, <2>1
<1> QED
  BY <1>1, <1>2, <1>5, <1>6

\* The representatives are the fixed points of rep, the pairs still to
\* merge join two of them, and merging one pair leaves the nodes of the
\* others representatives.  MergeForest alone is not inductive: without the
\* second and third conjunct a pair could merge a node merged already.
MergeInv ==
  /\ MergeForest
  /\ phase # "merge" => mergeMap = {}
  /\ phase = "init" => NothingCollapsed
  /\ \A p \in mergeMap : p[2] < p[1] /\ rep[p[1]] = p[1] /\ rep[p[2]] = p[2]
  /\ \A p, q \in mergeMap : p[1] # q[2] /\ (p[1] = q[1] => p[2] = q[2])

LEMMA MergeInvInit == Init => MergeInv
<1> SUFFICES ASSUME Init PROVE MergeInv
  OBVIOUS
<1>1. \A n \in Node : n \in Nat /\ rep[n] = n
  BY NodeNumAssumption DEF Init, GraphInit, Node
<1> QED
  BY <1>1 DEF Init, MergeInv, MergeForest, NothingCollapsed

\* A step other than Merge leaves rep alone.
LEMMA RepUnchanged ==
  ASSUME [Next]_vars, ~Merge
  PROVE  rep' = rep
BY DEF Next, vars, graphVars, InitCst, Offline, Online, MergeEnd, Pop, Deref,
       DerefEnd, Propagate, Finish

\* What Merge does to rep and to the points-to sets.
LEMMA MergeEffect ==
  ASSUME TypeOK, MergeInv, Merge
  PROVE  \E p \in mergeMap :
           /\ p[1] \in Node /\ p[2] \in Node
           /\ mergeMap' = mergeMap \ {p}
           /\ rep' = [n \in Node |-> IF rep[n] = p[1] THEN p[2] ELSE rep[n]]
           /\ pts' = [pts EXCEPT ![p[2]] = @ \cup pts[p[1]]]
<1>1. PICK p \in mergeMap : MergeNode(p[1], p[2]) /\ mergeMap' = mergeMap \ {p}
  BY DEF Merge
<1>2. p[1] \in Node /\ p[2] \in Node
  BY <1>1 DEF TypeOK
<1>3. /\ rep' = [n \in Node |-> IF rep[n] = p[1] THEN p[2] ELSE rep[n]]
      /\ pts' = [pts EXCEPT ![p[2]] = @ \cup pts[p[1]]]
  BY <1>1, Zenon DEF MergeNode, UnionPts
<1> QED
  BY <1>1, <1>2, <1>3

LEMMA MergeInvStep == TypeOK /\ MergeInv /\ [Next]_vars => MergeInv'
<1> SUFFICES ASSUME TypeOK, MergeInv, [Next]_vars PROVE MergeInv'
  OBVIOUS
<1>0. rep \in [Node -> Node] /\ Node \subseteq Nat
  BY NodeNumAssumption DEF TypeOK, GraphTypeOK, Node
<1>1. CASE Merge
  <2>1. PICK p \in mergeMap :
           /\ p[1] \in Node /\ p[2] \in Node
           /\ mergeMap' = mergeMap \ {p}
           /\ rep' = [n \in Node |-> IF rep[n] = p[1] THEN p[2] ELSE rep[n]]
    BY <1>1, MergeEffect
  <2>2. /\ p[2] < p[1] /\ rep[p[1]] = p[1] /\ rep[p[2]] = p[2]
        /\ \A q \in mergeMap : p[1] # q[2] /\ (p[1] = q[1] => p[2] = q[2])
    BY <2>1 DEF MergeInv
  <2>3. ASSUME NEW n \in Node
        PROVE  rep'[n] <= n /\ rep'[rep'[n]] = rep'[n]
    <3>1. rep[n] <= n /\ rep[rep[n]] = rep[n] /\ rep[n] \in Node
      BY <1>0 DEF MergeInv, MergeForest
    <3>2. CASE rep[n] = p[1]
      <4>1. rep'[n] = p[2]
        BY <2>1, <3>2
      <4>2. p[2] \in Nat /\ p[1] \in Nat /\ n \in Nat /\ p[1] # p[2]
        BY <1>0, <2>1, <2>2
      <4>3. rep'[p[2]] = p[2]
        BY <2>1, <2>2, <4>2
      <4>4. p[2] <= n
        BY <2>2, <3>1, <3>2, <4>2
      <4> QED
        BY <4>1, <4>3, <4>4
    <3>3. CASE rep[n] # p[1]
      BY <2>1, <3>1, <3>3
    <3> QED
      BY <3>2, <3>3
  <2>4. ASSUME NEW q \in mergeMap'
        PROVE  q[2] < q[1] /\ rep'[q[1]] = q[1] /\ rep'[q[2]] = q[2]
    <3>1. q \in mergeMap /\ q # p /\ q[1] \in Node /\ q[2] \in Node
      BY <2>1 DEF TypeOK
    <3>2. q[2] < q[1] /\ rep[q[1]] = q[1] /\ rep[q[2]] = q[2]
      BY <3>1 DEF MergeInv
    <3>3. q[1] # p[1]
      <4>1. q[1] = p[1] => q[2] = p[2]
        BY <2>2, <3>1
      <4>2. p \in Node \X Node /\ q \in Node \X Node
        BY <3>1 DEF TypeOK
      <4> QED
        BY <3>1, <4>1, <4>2
    <3>4. q[2] # p[1]
      BY <2>2, <3>1
    <3> QED
      BY <2>1, <3>1, <3>2, <3>3, <3>4
  <2>5. phase = "merge" /\ phase' = phase
    BY <1>1 DEF Merge
  <2>6. \A q1, q2 \in mergeMap' : q1[1] # q2[2] /\ (q1[1] = q2[1] => q1[2] = q2[2])
    BY <2>1 DEF MergeInv
  <2> QED
    BY <2>3, <2>4, <2>5, <2>6 DEF MergeInv, MergeForest
<1>2. CASE Offline
  <2>1. rep' = rep /\ phase' = "merge" /\ mergeMap' = MergePairs(Node, succ)
    BY <1>2 DEF Offline, graphVars
  <2>2. \A n \in Node : rep[n] = n
    BY <1>2 DEF Offline, MergeInv, NothingCollapsed
  <2>3. /\ \A p \in mergeMap' : p[1] \in Node /\ p[2] \in Node /\ p[2] < p[1]
        /\ \A p, q \in mergeMap' : p[1] # q[2] /\ (p[1] = q[1] => p[2] = q[2])
    BY <1>0, <2>1, MergePairsSeparate
  <2> QED
    BY <2>1, <2>2, <2>3 DEF MergeInv, MergeForest
<1>3. CASE Online
  <2> DEFINE seen == VisitedFrom(Fresh, RepSucc, {rep[n] : n \in cand})
  <2>1. rep' = rep /\ phase' = "merge" /\ mergeMap' = MergePairs(seen, RepSucc)
    BY <1>3 DEF Online, graphVars
  <2>2. seen \subseteq Node /\ \A n \in seen : rep[n] = n
    BY DEF VisitedFrom, Fresh
  <2> HIDE DEF seen
  <2>3. /\ \A p \in mergeMap' : p[1] \in seen /\ p[2] \in seen /\ p[2] < p[1]
        /\ \A p, q \in mergeMap' : p[1] # q[2] /\ (p[1] = q[1] => p[2] = q[2])
    BY <1>0, <2>1, <2>2, MergePairsSeparate
  <2> QED
    BY <2>1, <2>2, <2>3 DEF MergeInv, MergeForest
<1>4. CASE ~Merge /\ ~Offline /\ ~Online
  <2>1. rep' = rep
    BY <1>4, RepUnchanged
  <2>2. mergeMap' = mergeMap
    BY <1>4 DEF Next, vars, solverVars, InitCst, MergeEnd, Pop, Deref, DerefEnd,
                Propagate, Finish
  <2>3. phase' # "merge" => mergeMap = {}
    BY <1>4 DEF MergeInv, Next, vars, solverVars, InitCst, MergeEnd, Pop, Deref, DerefEnd,
                Propagate, Finish
  <2>4. phase' = "init" => phase = "init"
    BY <1>4 DEF Next, vars, solverVars, InitCst, MergeEnd, Pop, Deref, DerefEnd,
                Propagate, Finish
  <2> QED
    BY <2>1, <2>2, <2>3, <2>4 DEF MergeInv, MergeForest, NothingCollapsed
<1> QED
  BY <1>1, <1>2, <1>3, <1>4

\* A node is merged only into a smaller representative, in every run of the
\* solver: the chain GetMergeTarget follows ends.
THEOREM MergeForestHolds == Spec => []MergeForest
<1>1. TypeOK /\ MergeInv => MergeForest
  BY DEF MergeInv
<1> QED
  BY <1>1, InitTyped, StepTyped, MergeInvInit, MergeInvStep, PTL DEF Spec

\* What a step does to the set that stands for a node.
LEMMA SetsKept ==
  ASSUME TypeOK, MergeInv, [Next]_vars, NEW n \in Node
  PROVE  NodePts[n] \subseteq NodePts'[n] /\ rep'[n] = rep'[rep[n]]
<1>0. /\ rep \in [Node -> Node] /\ pts \in [Node -> SUBSET Node]
      /\ rep[n] \in Node /\ rep[rep[n]] = rep[n]
  BY DEF TypeOK, GraphTypeOK, MergeInv, MergeForest
<1>1. NodePts[n] = pts[rep[n]] /\ NodePts'[n] = pts'[rep'[n]]
  BY DEF NodePts
<1>2. CASE Merge
  <2>1. PICK p \in mergeMap :
           /\ p[1] \in Node /\ p[2] \in Node
           /\ rep' = [m \in Node |-> IF rep[m] = p[1] THEN p[2] ELSE rep[m]]
           /\ pts' = [pts EXCEPT ![p[2]] = @ \cup pts[p[1]]]
    BY <1>2, MergeEffect
  <2>2. CASE rep[n] = p[1]
    BY <1>0, <1>1, <2>1, <2>2
  <2>3. CASE rep[n] # p[1]
    BY <1>0, <1>1, <2>1, <2>3
  <2> QED
    BY <2>2, <2>3
<1>3. CASE ~Merge
  <2>1. rep' = rep
    BY <1>3, RepUnchanged
  <2>2. pts[rep[n]] \subseteq pts'[rep[n]]
    <3>1. CASE InitCst
      <4>1. PICK d \in Node, S \in SUBSET Node : pts' = [pts EXCEPT ![d] = @ \cup S]
        <5>1. prog[next] \in Constraint
          BY <3>1 DEF InitCst, TypeOK
        <5>2. rep[prog[next].dst] \in Node /\ {prog[next].src} \in SUBSET Node
          BY <1>0, <5>1, CstFields
        <5>3. CASE prog[next].type = E_ADDR_OF
          BY <3>1, <5>2, <5>3 DEF InitCst
        <5>4. CASE prog[next].type # E_ADDR_OF
          <6>1. pts' = [pts EXCEPT ![rep[prog[next].dst]] = @ \cup {}]
            BY <1>0, <3>1, <5>2, <5>4 DEF InitCst
          <6> QED
            BY <5>2, <6>1
        <5> QED
          BY <5>3, <5>4
      <4> QED
        BY <1>0, <4>1
    <3>2. CASE Propagate
      <4>1. PICK e \in todo : pts' = [pts EXCEPT ![e.dst] = @ \cup pts[cur]]
        BY <3>2 DEF Propagate, UnionPts
      <4> QED
        BY <1>0, <4>1
    <3>3. CASE ~InitCst /\ ~Propagate
      BY <1>3, <3>3 DEF Next, vars, graphVars, Offline, Online, MergeEnd, Pop, Deref,
                        DerefEnd, Finish
    <3> QED
      BY <3>1, <3>2, <3>3
  <2> QED
    BY <1>0, <1>1, <2>1, <2>2
<1> QED
  BY <1>2, <1>3

\* The answer is that set, and what has answered nothing does so for ever.
LEMMA AnswersKept ==
  ASSUME TypeOK, MergeInv, [Next]_vars, NEW n \in Node
  PROVE  PointsTo[n] \subseteq PointsTo'[n] \/ rep'[n] = UniversalPtr
<1>1. NodePts[n] \subseteq NodePts'[n]
  BY SetsKept
<1>2. PointsTo[n] = {} \/ PointsTo[n] = NodePts[n]
  BY DEF PointsTo
<1>3. rep'[n] # UniversalPtr => PointsTo'[n] = NodePts'[n]
  BY DEF PointsTo
<1> QED
  BY <1>1, <1>2, <1>3

\* Collapsing a cycle, or any other step, takes nothing out of the set that
\* stands for a node, and nodes once merged stay merged; what GetPtsTo
\* returned for a node it returns for ever, unless the node is merged into
\* node 0.
THEOREM FactsAreKept == Spec => FactsKept
<1>1. TypeOK /\ MergeInv /\ [Next]_vars =>
        [\A n \in Node : /\ NodePts[n] \subseteq NodePts'[n]
                         /\ PointsTo[n] \subseteq PointsTo'[n] \/ rep'[n] = UniversalPtr
                         /\ rep'[n] = rep'[rep[n]]]_vars
  BY SetsKept, AnswersKept
<1> QED
  BY <1>1, InitTyped, StepTyped, MergeInvInit, MergeInvStep, PTL DEF Spec, FactsKept

-----------------------------------------------------------------------------
(* Until a cycle is collapsed the solver is chaotic iteration: it stops only *)
(* at a solution, and it implements Inclusion.                              *)

\* The node a load or store edge dereferences, the iteration for a target o
\* of it, and the copy edge that iteration asks for.
Pointer(e) == IF e.type = E_LOAD THEN e.src ELSE e.dst
Item(e, o) == [pt |-> o, edge |-> e]
CopySrc(e, o) == DerefSrc(Item(e, o), o)
CopyDst(e, o) == DerefDst(Item(e, o), o)

\* Where the loops stand.
LoopsInPlace ==
  /\ phase # "init" => next = Len(prog) + 1
  /\ phase = "done" => queue = <<>>
  /\ phase = "copy" => todo \subseteq OutCopyEdge(cur)
  /\ phase = "deref" => \A x \in todo : /\ x.edge \in edges
                                        /\ x.edge.type \in {E_LOAD, E_STORE}
                                        /\ x.pt \in pts[Pointer(x.edge)]

\* Every edge can be found through its nodes, and none is a self loop.
EdgesLive ==
  /\ liveEdges = Reachable(edges)
  /\ \A e \in edges : e.src # e.dst

\* Each constraint read so far is in the graph.
Entered ==
  \A i \in 1 .. next - 1 :
    IF prog[i].type = E_ADDR_OF THEN prog[i].src \in pts[prog[i].dst]
    ELSE prog[i].src = prog[i].dst \/ prog[i] \in edges

\* While the graph is built all that points to something waits for a visit.
InitQueued == phase = "init" => \A n \in Node : pts[n] # {} => n \in Queued

\* A copy edge is satisfied, or the visit that will satisfy it is to come.
CopiesPending ==
  \A e \in edges : e.type = E_COPY =>
    \/ pts[e.src] \subseteq pts[e.dst]
    \/ e.src \in Queued
    \/ phase = "deref" /\ cur = e.src
    \/ phase = "copy" /\ e \in todo

\* A target of a dereferenced node has its copy edge, or will get it.
DerefsPending ==
  \A e \in edges : e.type \in {E_LOAD, E_STORE} =>
    \A o \in pts[Pointer(e)] \ {UniversalObj} :
      \/ CopySrc(e, o) = CopyDst(e, o)
      \/ Cst(E_COPY, CopySrc(e, o), CopyDst(e, o)) \in edges
      \/ Pointer(e) \in Queued
      \/ phase = "deref" /\ Item(e, o) \in todo

\* A copy edge is a constraint, or a load or store calls for it.
Justified(e) ==
  \E i \in DOMAIN prog :
    LET c == prog[i]
    IN  \/ c = e
        \/ /\ c.type = E_LOAD /\ c.src # c.dst /\ e.dst = c.dst
           /\ e.src \in pts[c.src] \ {UniversalObj}
        \/ /\ c.type = E_STORE /\ c.src # c.dst /\ e.src = c.src
           /\ e.dst \in pts[c.dst] \ {UniversalObj}

EdgesJustified ==
  \A e \in edges : IF e.type = E_COPY THEN Justified(e)
                   ELSE \E i \in DOMAIN prog : prog[i] = e

WorkInv ==
  /\ LoopsInPlace /\ EdgesLive /\ Entered /\ InitQueued
  /\ CopiesPending /\ DerefsPending /\ EdgesJustified

\* What is preserved by every step until a cycle is collapsed, and implies
\* that an empty work list is a solution.
SolverInv == NothingCollapsed => WorkInv

-----------------------------------------------------------------------------
(* Until a cycle is collapsed *)

\* A step that collapses nothing is not Merge, and nothing was collapsed
\* before it.
LEMMA StillNothingCollapsed ==
  ASSUME TypeOK, MergeInv, [Next]_vars, NothingCollapsed'
  PROVE  NothingCollapsed /\ ~Merge /\ rep' = rep
<1>1. ~Merge
  <2>1. SUFFICES ASSUME Merge PROVE FALSE
    OBVIOUS
  <2>2. PICK p \in mergeMap :
           /\ p[1] \in Node /\ p[2] \in Node
           /\ rep' = [n \in Node |-> IF rep[n] = p[1] THEN p[2] ELSE rep[n]]
    BY <2>1, MergeEffect
  <2>3. rep[p[1]] = p[1] /\ p[2] < p[1]
    BY <2>2 DEF MergeInv
  <2>4. p[1] \in Nat /\ p[2] \in Nat
    BY <2>2, NodeNumAssumption DEF Node
  <2>5. rep'[p[1]] = p[2] /\ rep'[p[1]] = p[1]
    BY <2>2, <2>3 DEF NothingCollapsed
  <2> QED
    BY <2>3, <2>4, <2>5
<1>2. rep' = rep
  BY <1>1, RepUnchanged
<1> QED
  BY <1>1, <1>2 DEF NothingCollapsed

LEMMA WorkInvInit == Init => WorkInv
<1> SUFFICES ASSUME Init PROVE WorkInv
  OBVIOUS
<1>1. /\ edges = {} /\ liveEdges = {} /\ pts = [n \in Node |-> {}]
      /\ next = 1 /\ phase = "init"
  BY DEF Init, GraphInit
<1> QED
  BY <1>1 DEF WorkInv, LoopsInPlace, EdgesLive, Reachable, Entered, InitQueued,
              CopiesPending, DerefsPending, EdgesJustified

\* What adding a constraint to the graph does while nothing is collapsed.
LEMMA InitCstEffect ==
  ASSUME TypeOK, NothingCollapsed, InitCst
  PROVE  LET c == prog[next]
         IN  /\ c \in Constraint /\ next \in 1 .. Len(prog)
             /\ edges' = IF c.src # c.dst THEN edges \cup {c} ELSE edges
             /\ EdgesLive => EdgesLive'
             /\ IF c.type = E_ADDR_OF
                THEN /\ pts' = [pts EXCEPT ![c.dst] = @ \cup {c.src}]
                     /\ Queued' = Queued \cup {c.dst}
                ELSE pts' = pts /\ Queued' = Queued
<1> DEFINE c == prog[next]
<1>1. next \in 1 .. Len(prog) /\ c \in Constraint
  BY DEF TypeOK, InitCst
<1>2. c.src \in Node /\ c.dst \in Node /\ Cst(c.type, c.src, c.dst) = c
  BY <1>1, CstFields
<1>3. rep[c.src] = c.src /\ rep[c.dst] = c.dst
  BY <1>2 DEF NothingCollapsed
<1>4. AddCstEdge(c.type, c.src, c.dst)
  BY <1>3 DEF InitCst
<1>5. edges' = IF c.src # c.dst THEN edges \cup {c} ELSE edges
  BY <1>2, <1>4 DEF AddCstEdge, IsNewEdge
<1>6. EdgesLive => EdgesLive'
  BY <1>2, <1>4, <1>5 DEF AddCstEdge, IsNewEdge, EdgesLive, Reachable
<1>7. ASSUME c.type = E_ADDR_OF
      PROVE  /\ pts' = [pts EXCEPT ![c.dst] = @ \cup {c.src}]
             /\ Queued' = Queued \cup {c.dst}
  <2>1. pts' = [pts EXCEPT ![c.dst] = @ \cup {c.src}] /\ queue' = InQueue(queue, c.dst)
    BY <1>3, <1>7 DEF InitCst
  <2>2. queue \in Seq(Node)
    BY DEF TypeOK
  <2>3. Queued' = {InQueue(queue, c.dst)[i] : i \in DOMAIN InQueue(queue, c.dst)}
    BY <2>1 DEF Queued
  <2>4. Queued' = {queue[i] : i \in DOMAIN queue} \cup {c.dst}
    BY <1>2, <2>2, <2>3, InQueueElements
  <2> QED
    BY <2>1, <2>4 DEF Queued
<1>8. ASSUME c.type # E_ADDR_OF
      PROVE  pts' = pts /\ Queued' = Queued
  BY <1>8 DEF InitCst, Queued
<1> HIDE DEF c
<1> QED
  BY <1>1, <1>5, <1>6, <1>7, <1>8 DEF c

LEMMA WorkInvInitCst ==
  ASSUME TypeOK, NothingCollapsed, WorkInv, InitCst
  PROVE  WorkInv'
<1> DEFINE c == prog[next]
<1>1. /\ c \in Constraint /\ next \in 1 .. Len(prog)
      /\ edges' = IF c.src # c.dst THEN edges \cup {c} ELSE edges
      /\ EdgesLive'
      /\ IF c.type = E_ADDR_OF
         THEN /\ pts' = [pts EXCEPT ![c.dst] = @ \cup {c.src}]
              /\ Queued' = Queued \cup {c.dst}
         ELSE pts' = pts /\ Queued' = Queued
  BY InitCstEffect DEF WorkInv
<1>2. /\ c.type \in {E_ADDR_OF, E_COPY, E_STORE, E_LOAD}
      /\ c.src \in Node /\ c.dst \in Node
  BY <1>1, CstFields
<1>3. phase = "init" /\ phase' = "init" /\ prog' = prog /\ next' = next + 1
  BY DEF InitCst
<1>4. pts \in [Node -> SUBSET Node] /\ edges \subseteq Constraint
  BY DEF TypeOK, GraphTypeOK
<1>5. \A n \in Node : pts[n] \subseteq pts'[n]
  BY <1>1, <1>2, <1>4
<1>6. InitQueued'
  <2>1. \A n \in Node : pts[n] # {} => n \in Queued
    BY <1>3 DEF WorkInv, InitQueued
  <2>2. ASSUME NEW n \in Node, pts'[n] # {} PROVE n \in Queued'
    BY <1>1, <1>2, <1>4, <2>1, <2>2
  <2> QED
    BY <2>2 DEF InitQueued
<1>7. ASSUME NEW n \in Node PROVE pts'[n] = {} \/ n \in Queued'
  BY <1>3, <1>6 DEF InitQueued
<1>8. edges' \subseteq Constraint
  BY <1>1, <1>4
<1>9. CopiesPending'
  <2>1. ASSUME NEW e \in edges' PROVE pts'[e.src] \subseteq pts'[e.dst] \/ e.src \in Queued'
    <3>1. e.src \in Node
      BY <1>8, <2>1, CstFields
    <3> QED
      BY <1>7, <3>1
  <2> QED
    BY <2>1 DEF CopiesPending
<1>10. DerefsPending'
  <2>1. ASSUME NEW e \in edges', NEW o \in pts'[Pointer(e)] PROVE Pointer(e) \in Queued'
    <3>1. Pointer(e) \in Node
      BY <1>8, <2>1, CstFields DEF Pointer
    <3> QED
      BY <1>7, <2>1, <3>1
  <2> QED
    BY <2>1 DEF DerefsPending
<1>11. Entered'
  <2>1. ASSUME NEW i \in 1 .. next
        PROVE  IF prog[i].type = E_ADDR_OF THEN prog[i].src \in pts'[prog[i].dst]
               ELSE prog[i].src = prog[i].dst \/ prog[i] \in edges'
    <3>1. CASE i = next
      BY <1>1, <1>2, <1>4, <3>1
    <3>2. CASE i # next
      <4>1. i \in 1 .. next - 1 /\ prog[i] \in Constraint
        BY <1>1, <3>2 DEF TypeOK
      <4>2. prog[i].dst \in Node
        BY <4>1, CstFields
      <4> QED
        BY <1>1, <1>5, <4>1, <4>2 DEF WorkInv, Entered
    <3> QED
      BY <3>1, <3>2
  <2>2. next' - 1 = next
    BY <1>1, <1>3
  <2> QED
    BY <1>3, <2>1, <2>2 DEF Entered
<1>12. EdgesJustified'
  <2>1. ASSUME NEW e \in edges, Justified(e) PROVE Justified(e)'
    <3>1. \A i \in DOMAIN prog : prog[i].src \in Node /\ prog[i].dst \in Node
      BY CstFields DEF TypeOK
    <3> QED
      BY <1>3, <1>5, <2>1, <3>1 DEF Justified
  <2>2. \E i \in DOMAIN prog : prog[i] = c
    BY <1>1
  <2>3. ASSUME NEW e, \E i \in DOMAIN prog : prog[i] = e PROVE Justified(e)'
    BY <1>3, <2>3 DEF Justified
  <2>4. ASSUME NEW e \in edges'
        PROVE  IF e.type = E_COPY THEN Justified(e)' ELSE \E i \in DOMAIN prog : prog[i] = e
    <3>1. CASE e \in edges
      BY <2>1, <3>1 DEF WorkInv, EdgesJustified
    <3>2. CASE e = c
      BY <2>2, <2>3, <3>2
    <3> QED
      BY <1>1, <3>1, <3>2
  <2> QED
    BY <1>3, <2>4 DEF EdgesJustified
<1>13. LoopsInPlace'
  BY <1>3 DEF LoopsInPlace
<1> QED
  BY <1>1, <1>6, <1>9, <1>10, <1>11, <1>12, <1>13 DEF WorkInv

\* Pop opens the loops over all that the popped node may still owe.
LEMMA WorkInvPop ==
  ASSUME TypeOK, NothingCollapsed, WorkInv, Pop
  PROVE  WorkInv'
<1> DEFINE n == Head(queue)
<1>1. /\ n \in Node
      /\ \A m \in Queued : m = n \/ m \in Queued'
  <2>1. queue \in Seq(Node) /\ queue # <<>> /\ queue' = Tail(queue)
    BY DEF Pop, TypeOK
  <2>2. Queued' = {Tail(queue)[i] : i \in DOMAIN Tail(queue)}
    BY <2>1 DEF Queued
  <2> QED
    BY <2>1, <2>2, TailElements DEF Queued
<1>2. /\ phase = "pop" /\ phase' = "deref" /\ prog' = prog /\ next' = next
      /\ edges' = edges /\ liveEdges' = liveEdges /\ pts' = pts
  BY DEF Pop, graphVars
<1>3. cur' = n /\ todo' = DerefItems(pts[n], OutLoadEdge(n) \cup InStoreEdge(n))
  BY <1>1 DEF Pop, NothingCollapsed
<1>4. LoopsInPlace'
  <2>1. \A x \in todo' : x.edge \in edges /\ x.edge.type \in {E_LOAD, E_STORE}
                         /\ x.pt \in pts[Pointer(x.edge)]
    BY <1>3 DEF DerefItems, OutLoadEdge, InStoreEdge, Pointer, TypeOK, GraphTypeOK,
                E_LOAD, E_STORE
  <2> QED
    BY <1>2, <2>1 DEF WorkInv, LoopsInPlace
<1>5. CopiesPending'
  BY <1>1, <1>2, <1>3 DEF WorkInv, CopiesPending
<1>6. DerefsPending'
  <2>1. ASSUME NEW e \in edges, e.type \in {E_LOAD, E_STORE}, Pointer(e) = n,
               NEW o \in pts[n]
        PROVE  Item(e, o) \in todo'
    <3>1. e \in liveEdges
      BY <2>1 DEF WorkInv, EdgesLive, Reachable, E_ADDR_OF, E_LOAD, E_STORE
    <3>2. e \in OutLoadEdge(n) \cup InStoreEdge(n)
      BY <2>1, <3>1 DEF OutLoadEdge, InStoreEdge, Pointer
    <3> QED
      BY <1>3, <2>1, <3>2 DEF DerefItems, Item
  <2> QED
    BY <1>1, <1>2, <2>1 DEF WorkInv, DerefsPending
<1>7. EdgesLive' /\ Entered' /\ EdgesJustified'
  BY <1>2 DEF WorkInv, EdgesLive, Reachable, Entered, EdgesJustified, Justified
<1> QED
  BY <1>2, <1>4, <1>5, <1>6, <1>7 DEF WorkInv, InitQueued

\* Deref adds the copy edge its iteration asks for, unless there is one or
\* none is needed, and only such an edge.
LEMMA WorkInvDeref ==
  ASSUME TypeOK, NothingCollapsed, WorkInv, Deref
  PROVE  WorkInv'
<1>1. PICK x \in todo :
        /\ LET o == rep[x.pt]
               s == DerefSrc(x, o)
               d == DerefDst(x, o)
           IN  IF o # UniversalObj /\ IsNewEdge(E_COPY, s, d)
               THEN AddCstEdge(E_COPY, s, d) /\ queue' = InQueue(queue, s)
               ELSE UNCHANGED <<edges, liveEdges, succ, queue>>
        /\ todo' = todo \ {x}
  BY DEF Deref
<1> DEFINE e == x.edge
           o == x.pt
           s == CopySrc(e, o)
           d == CopyDst(e, o)
           k == Cst(E_COPY, s, d)
<1>2. /\ phase = "deref" /\ phase' = "deref" /\ prog' = prog /\ next' = next
      /\ cur' = cur /\ pts' = pts
  BY DEF Deref
<1>3. /\ x \in DerefItems(Node, Constraint) /\ x = Item(e, o)
      /\ o \in Node /\ e \in Constraint
  BY <1>1, <1>2 DEF TypeOK, DerefItems, Item
<1>4. /\ e \in edges /\ e.type \in {E_LOAD, E_STORE} /\ o \in pts[Pointer(e)]
  BY <1>1, <1>2 DEF WorkInv, LoopsInPlace
<1>5. s \in Node /\ d \in Node /\ k \in Constraint
      /\ k.type = E_COPY /\ k.src = s /\ k.dst = d
  <2>1. s \in Node /\ d \in Node
    BY <1>3, CstFields DEF CopySrc, CopyDst, DerefSrc, DerefDst, Item
  <2> QED
    BY <2>1, CstFields DEF Cst
<1>6. /\ rep[o] = o /\ s = DerefSrc(x, o) /\ d = DerefDst(x, o)
  BY <1>3 DEF NothingCollapsed, CopySrc, CopyDst
<1>7. CASE o # UniversalObj /\ IsNewEdge(E_COPY, s, d)
  <2>1. AddCstEdge(E_COPY, s, d) /\ queue' = InQueue(queue, s)
    BY <1>1, <1>6, <1>7
  <2>2. /\ edges' = edges \cup {k}
        /\ liveEdges' = liveEdges \cup Reachable({k})
        /\ s # d
    BY <1>7, <2>1 DEF AddCstEdge, IsNewEdge
  <2>3. Queued' = Queued \cup {s}
    <3>1. queue \in Seq(Node)
      BY DEF TypeOK
    <3>2. Queued' = {InQueue(queue, s)[i] : i \in DOMAIN InQueue(queue, s)}
      BY <2>1 DEF Queued
    <3>3. Queued' = {queue[i] : i \in DOMAIN queue} \cup {s}
      BY <1>5, <3>1, <3>2, InQueueElements
    <3> QED
      BY <3>3 DEF Queued
  <2> HIDE DEF k, s, d
  <2>4. LoopsInPlace'
    BY <1>1, <1>2, <2>2 DEF WorkInv, LoopsInPlace
  <2>5. EdgesLive'
    BY <1>5, <2>2 DEF WorkInv, EdgesLive, Reachable
  <2>6. Entered'
    BY <1>2, <2>2 DEF WorkInv, Entered
  <2>7. CopiesPending'
    BY <1>1, <1>2, <1>5, <2>2, <2>3 DEF WorkInv, CopiesPending
  <2>8. DerefsPending'
    <3>1. ASSUME NEW f \in edges, f.type \in {E_LOAD, E_STORE},
                 NEW q \in pts[Pointer(f)] \ {UniversalObj}
          PROVE  \/ CopySrc(f, q) = CopyDst(f, q)
                 \/ Cst(E_COPY, CopySrc(f, q), CopyDst(f, q)) \in edges'
                 \/ Pointer(f) \in Queued'
                 \/ Item(f, q) \in todo'
      <4>1. CASE Item(f, q) = x
        <5>1. f = e /\ q = o
          BY <1>3, <4>1 DEF Item
        <5> QED
          BY <2>2, <5>1 DEF k, s, d
      <4>2. CASE Item(f, q) # x
        BY <1>1, <1>2, <2>2, <2>3, <3>1, <4>2 DEF WorkInv, DerefsPending
      <4> QED
        BY <4>1, <4>2
    <3>2. k.type \notin {E_LOAD, E_STORE}
      BY <1>5 DEF E_COPY, E_LOAD, E_STORE
    <3> QED
      BY <1>2, <2>2, <3>1, <3>2 DEF DerefsPending
  <2>9. EdgesJustified'
    <3>1. PICK i \in DOMAIN prog : prog[i] = e
      BY <1>4 DEF WorkInv, EdgesJustified, E_COPY, E_LOAD, E_STORE
    <3>2. e.src # e.dst
      BY <1>4 DEF WorkInv, EdgesLive
    <3>3. CASE e.type = E_LOAD
      <4>1. s = o /\ d = e.dst /\ Pointer(e) = e.src
        BY <3>3 DEF s, d, CopySrc, CopyDst, DerefSrc, DerefDst, Item, Pointer
      <4> QED
        BY <1>2, <1>4, <1>5, <1>7, <2>2, <3>1, <3>2, <3>3, <4>1
           DEF WorkInv, EdgesJustified, Justified
    <3>4. CASE e.type = E_STORE
      <4>1. s = e.src /\ d = o /\ Pointer(e) = e.dst
        BY <3>4 DEF s, d, CopySrc, CopyDst, DerefSrc, DerefDst, Item, Pointer,
                    E_LOAD, E_STORE
      <4> QED
        BY <1>2, <1>4, <1>5, <1>7, <2>2, <3>1, <3>2, <3>4, <4>1
           DEF WorkInv, EdgesJustified, Justified
    <3> QED
      BY <1>4, <3>3, <3>4
  <2> QED
    BY <1>2, <2>4, <2>5, <2>6, <2>7, <2>8, <2>9 DEF WorkInv, InitQueued
<1>8. CASE ~(o # UniversalObj /\ IsNewEdge(E_COPY, s, d))
  <2>1. UNCHANGED <<edges, liveEdges, succ, queue>>
    BY <1>1, <1>6, <1>8
  <2>2. Queued' = Queued
    BY <2>1 DEF Queued
  <2>3. o = UniversalObj \/ s = d \/ k \in edges
    BY <1>8 DEF IsNewEdge
  <2>4. DerefsPending'
    <3>1. ASSUME NEW f \in edges, f.type \in {E_LOAD, E_STORE},
                 NEW q \in pts[Pointer(f)] \ {UniversalObj}
          PROVE  \/ CopySrc(f, q) = CopyDst(f, q)
                 \/ Cst(E_COPY, CopySrc(f, q), CopyDst(f, q)) \in edges
                 \/ Pointer(f) \in Queued
                 \/ Item(f, q) \in todo'
      <4>1. CASE Item(f, q) = x
        <5>1. f = e /\ q = o
          BY <1>3, <4>1 DEF Item
        <5> QED
          BY <2>3, <5>1
      <4>2. CASE Item(f, q) # x
        BY <1>1, <1>2, <3>1, <4>2 DEF WorkInv, DerefsPending
      <4> QED
        BY <4>1, <4>2
    <3> QED
      BY <1>2, <2>1, <2>2, <3>1 DEF DerefsPending
  <2>5. LoopsInPlace' /\ EdgesLive' /\ Entered' /\ CopiesPending' /\ EdgesJustified'
    BY <1>1, <1>2, <2>1, <2>2
       DEF WorkInv, LoopsInPlace, EdgesLive, Reachable, Entered, CopiesPending,
           EdgesJustified, Justified
  <2> QED
    BY <1>2, <2>4, <2>5 DEF WorkInv, InitQueued
<1> QED
  BY <1>7, <1>8

\* DerefEnd turns to the copy edges, which EdgesLive says are all there.
LEMMA WorkInvDerefEnd ==
  ASSUME TypeOK, NothingCollapsed, WorkInv, DerefEnd
  PROVE  WorkInv'
<1>1. /\ phase = "deref" /\ phase' = "copy" /\ todo = {} /\ todo' = OutCopyEdge(cur)
      /\ UNCHANGED <<edges, liveEdges, pts, prog, next, queue, cur>>
  BY DEF DerefEnd, graphVars
<1>2. Queued' = Queued
  BY <1>1 DEF Queued
<1>3. CopiesPending'
  <2>1. ASSUME NEW e \in edges, e.type = E_COPY, cur = e.src PROVE e \in todo'
    BY <1>1, <2>1 DEF WorkInv, EdgesLive, Reachable, OutCopyEdge, E_COPY, E_ADDR_OF
  <2> QED
    BY <1>1, <1>2, <2>1 DEF WorkInv, CopiesPending
<1>4. LoopsInPlace'
  BY <1>1 DEF WorkInv, LoopsInPlace, OutCopyEdge
<1>5. DerefsPending'
  BY <1>1, <1>2 DEF WorkInv, DerefsPending
<1>6. EdgesLive' /\ Entered' /\ EdgesJustified'
  BY <1>1 DEF WorkInv, EdgesLive, Reachable, Entered, EdgesJustified, Justified
<1> QED
  BY <1>1, <1>3, <1>4, <1>5, <1>6 DEF WorkInv, InitQueued

\* Propagate satisfies its edge; if its target grew, the target is queued.
LEMMA WorkInvPropagate ==
  ASSUME TypeOK, NothingCollapsed, WorkInv, Propagate
  PROVE  WorkInv'
<1>1. PICK e \in todo :
        /\ pts' = [pts EXCEPT ![e.dst] = @ \cup pts[cur]]
        /\ IF pts[cur] \subseteq pts[e.dst]
           THEN UNCHANGED queue
           ELSE queue' = InQueue(queue, e.dst)
        /\ todo' = todo \ {e}
  BY DEF Propagate, UnionPts
<1>2. /\ phase = "copy" /\ phase' = "copy"
      /\ UNCHANGED <<edges, liveEdges, prog, next, cur>>
  BY DEF Propagate
<1>3. /\ e \in edges /\ e.type = E_COPY /\ e.src = cur /\ e.src # e.dst
      /\ e.src \in Node /\ e.dst \in Node
  <2>1. e \in liveEdges /\ e.type = E_COPY /\ e.src = cur
    BY <1>1, <1>2 DEF WorkInv, LoopsInPlace, OutCopyEdge
  <2>2. e \in edges /\ e \in Constraint
    BY <2>1 DEF TypeOK, GraphTypeOK
  <2> QED
    BY <2>1, <2>2, CstFields DEF WorkInv, EdgesLive
<1>4. pts \in [Node -> SUBSET Node] /\ edges \subseteq Constraint
  BY DEF TypeOK, GraphTypeOK
<1>5. \A n \in Node : pts[n] \subseteq pts'[n]
  BY <1>1, <1>3, <1>4
<1>6. /\ Queued \subseteq Queued'
      /\ \A n \in Node : pts'[n] = pts[n] \/ n \in Queued'
  <2>1. CASE pts[cur] \subseteq pts[e.dst]
    <3>1. Queued' = Queued
      BY <1>1, <2>1 DEF Queued
    <3>2. \A n \in Node : pts'[n] = pts[n]
      BY <1>1, <1>3, <1>4, <2>1
    <3> QED
      BY <3>1, <3>2
  <2>2. CASE ~(pts[cur] \subseteq pts[e.dst])
    <3>1. queue \in Seq(Node) /\ queue' = InQueue(queue, e.dst)
      BY <1>1, <2>2 DEF TypeOK
    <3>2. Queued' = Queued \cup {e.dst}
      <4>1. Queued' = {InQueue(queue, e.dst)[i] : i \in DOMAIN InQueue(queue, e.dst)}
        BY <3>1 DEF Queued
      <4>2. Queued' = {queue[i] : i \in DOMAIN queue} \cup {e.dst}
        BY <1>3, <3>1, <4>1, InQueueElements
      <4> QED
        BY <4>2 DEF Queued
    <3>3. \A n \in Node : n # e.dst => pts'[n] = pts[n]
      BY <1>1, <1>3, <1>4
    <3> QED
      BY <3>2, <3>3
  <2> QED
    BY <2>1, <2>2
<1>7. CopiesPending'
  <2>1. ASSUME NEW f \in edges, f.type = E_COPY
        PROVE  pts'[f.src] \subseteq pts'[f.dst] \/ f.src \in Queued' \/ f \in todo'
    <3>0. f.src \in Node /\ f.dst \in Node
      BY <1>4, <2>1, CstFields
    <3>1. CASE f = e
      <4>1. pts'[e.src] = pts[e.src]
        BY <1>1, <1>3, <1>4
      <4>2. pts'[e.dst] = pts[e.dst] \cup pts[e.src]
        BY <1>1, <1>3, <1>4
      <4> QED
        BY <3>1, <4>1, <4>2
    <3>2. CASE f # e
      <4>1. \/ pts[f.src] \subseteq pts[f.dst] \/ f.src \in Queued \/ f \in todo
        BY <1>2, <2>1 DEF WorkInv, CopiesPending
      <4> QED
        BY <1>1, <1>5, <1>6, <3>0, <3>2, <4>1
    <3> QED
      BY <3>1, <3>2
  <2> QED
    BY <1>2, <2>1 DEF CopiesPending
<1>8. DerefsPending'
  <2>1. ASSUME NEW f \in edges, f.type \in {E_LOAD, E_STORE},
               NEW o \in pts'[Pointer(f)] \ {UniversalObj}
        PROVE  \/ CopySrc(f, o) = CopyDst(f, o)
               \/ Cst(E_COPY, CopySrc(f, o), CopyDst(f, o)) \in edges
               \/ Pointer(f) \in Queued'
    <3>1. Pointer(f) \in Node
      BY <1>4, <2>1, CstFields DEF Pointer
    <3> QED
      BY <1>2, <1>6, <2>1, <3>1 DEF WorkInv, DerefsPending
  <2> QED
    BY <1>2, <2>1 DEF DerefsPending
<1>9. EdgesJustified'
  <2>1. ASSUME NEW f \in edges, Justified(f) PROVE Justified(f)'
    <3>1. \A i \in DOMAIN prog : prog[i].src \in Node /\ prog[i].dst \in Node
      BY CstFields DEF TypeOK
    <3> QED
      BY <1>2, <1>5, <2>1, <3>1 DEF Justified
  <2> QED
    BY <1>2, <2>1 DEF WorkInv, EdgesJustified
<1>10. Entered'
  <2>1. \A i \in 1 .. next - 1 : prog[i].dst \in Node
    <3>1. \A i \in 1 .. next - 1 : prog[i] \in Constraint
      BY DEF TypeOK
    <3> QED
      BY <3>1, CstFields
  <2> QED
    BY <1>2, <1>5, <2>1 DEF WorkInv, Entered
<1>11. LoopsInPlace' /\ EdgesLive'
  BY <1>1, <1>2 DEF WorkInv, LoopsInPlace, OutCopyEdge, EdgesLive, Reachable
<1> QED
  BY <1>2, <1>7, <1>8, <1>9, <1>10, <1>11 DEF WorkInv, InitQueued

\* The other steps move between the loops, with nothing left to do in the
\* loop they leave.
LEMMA WorkInvBetweenLoops ==
  ASSUME TypeOK, NothingCollapsed, WorkInv,
         Offline \/ Online \/ MergeEnd \/ Finish \/ UNCHANGED vars
  PROVE  WorkInv'
<1>1. /\ UNCHANGED <<edges, liveEdges, pts, prog, next, queue, cur, todo>>
      /\ Queued' = Queued
  BY DEF Offline, Online, MergeEnd, Finish, vars, graphVars, solverVars, Queued
<1>2. LoopsInPlace'
  <2>1. phase' = "deref" => phase = "deref"
    BY DEF Offline, Online, MergeEnd, Finish, vars, solverVars
  <2>2. phase' = "copy" => phase = "copy"
    BY DEF Offline, Online, MergeEnd, Finish, vars, solverVars
  <2>3. phase' # "init" => next = Len(prog) + 1
    BY DEF Offline, Online, MergeEnd, Finish, vars, solverVars, WorkInv, LoopsInPlace, TypeOK
  <2>4. phase' = "done" => queue = <<>>
    BY DEF Offline, Online, MergeEnd, Finish, vars, solverVars, WorkInv, LoopsInPlace
  <2> QED
    BY <1>1, <2>1, <2>2, <2>3, <2>4 DEF WorkInv, LoopsInPlace, OutCopyEdge
<1>3. InitQueued'
  BY <1>1 DEF WorkInv, InitQueued, Offline, Online, MergeEnd, Finish, vars, solverVars
<1>4. CopiesPending' /\ DerefsPending'
  <2>1. CASE Online
    BY <1>1, <2>1 DEF Online, WorkInv, CopiesPending, DerefsPending
  <2>2. CASE phase # "copy" /\ phase # "deref"
    BY <1>1, <2>2 DEF WorkInv, CopiesPending, DerefsPending
  <2>3. CASE UNCHANGED vars
    BY <1>1, <2>3 DEF WorkInv, CopiesPending, DerefsPending, vars, solverVars
  <2> QED
    BY <2>1, <2>2, <2>3 DEF Offline, MergeEnd, Finish
<1>5. EdgesLive' /\ Entered' /\ EdgesJustified'
  BY <1>1 DEF WorkInv, EdgesLive, Reachable, Entered, EdgesJustified, Justified
<1> QED
  BY <1>2, <1>3, <1>4, <1>5 DEF WorkInv

LEMMA SolverInvStep == TypeOK /\ MergeInv /\ SolverInv /\ [Next]_vars => SolverInv'
<1> SUFFICES ASSUME TypeOK, MergeInv, SolverInv, [Next]_vars, NothingCollapsed'
             PROVE  WorkInv'
  BY DEF SolverInv
<1>1. NothingCollapsed /\ ~Merge
  BY StillNothingCollapsed
<1>2. WorkInv
  BY <1>1 DEF SolverInv
<1> QED
  BY <1>1, <1>2, WorkInvInitCst, WorkInvPop, WorkInvDeref, WorkInvDerefEnd,
     WorkInvPropagate, WorkInvBetweenLoops DEF Next

-----------------------------------------------------------------------------
(* What an empty work list means *)

LEMMA EmptyMeansSolved ==
  ASSUME TypeOK, NothingCollapsed, WorkInv, phase \in {"pop", "done"}, queue = <<>>
  PROVE  IsSolution(pts, prog)
<1>1. Queued = {} /\ next = Len(prog) + 1
  BY DEF Queued, WorkInv, LoopsInPlace
<1>2. SUFFICES ASSUME NEW i \in DOMAIN prog PROVE Satisfies(pts, prog[i])
  BY DEF IsSolution
<1> DEFINE c == prog[i]
<1>3. c \in Constraint /\ i \in 1 .. next - 1
  BY <1>1 DEF TypeOK
<1>4. c.src \in Node /\ c.dst \in Node /\ Cst(c.type, c.src, c.dst) = c
  BY <1>3, CstFields
<1>5. IF c.type = E_ADDR_OF THEN c.src \in pts[c.dst] ELSE c.src = c.dst \/ c \in edges
  BY <1>3 DEF WorkInv, Entered
<1>6. \A s, d \in Node : Cst(E_COPY, s, d) \in edges => pts[s] \subseteq pts[d]
  <2>1. ASSUME NEW s \in Node, NEW d \in Node, Cst(E_COPY, s, d) \in edges
        PROVE  pts[s] \subseteq pts[d]
    <3>1. /\ Cst(E_COPY, s, d).type = E_COPY
          /\ Cst(E_COPY, s, d).src = s /\ Cst(E_COPY, s, d).dst = d
      BY DEF Cst
    <3> QED
      BY <1>1, <2>1, <3>1 DEF WorkInv, CopiesPending
  <2> QED
    BY <2>1
<1>7. CASE c.type = E_ADDR_OF
  BY <1>5, <1>7 DEF Satisfies, E_ADDR_OF, E_COPY, E_LOAD, E_STORE
<1>8. CASE c.type = E_COPY
  <2>1. pts[c.src] \subseteq pts[c.dst]
    BY <1>4, <1>5, <1>6, <1>8 DEF E_ADDR_OF, E_COPY
  <2> QED
    BY <1>8, <2>1 DEF Satisfies, E_ADDR_OF, E_COPY, E_LOAD, E_STORE
<1>9. CASE c.type = E_LOAD
  <2>1. ASSUME c.src # c.dst, NEW o \in pts[c.src] \ {UniversalObj}
        PROVE  pts[o] \subseteq pts[c.dst]
    <3>1. c \in edges /\ Pointer(c) = c.src /\ CopySrc(c, o) = o /\ CopyDst(c, o) = c.dst
      BY <1>5, <1>9, <2>1 DEF Pointer, CopySrc, CopyDst, DerefSrc, DerefDst, Item,
                              E_LOAD, E_ADDR_OF
    <3>2. o \in Node
      BY <1>4, <2>1 DEF TypeOK, GraphTypeOK
    <3>3. o = c.dst \/ Cst(E_COPY, o, c.dst) \in edges
      BY <1>1, <1>9, <2>1, <3>1 DEF WorkInv, DerefsPending
    <3> QED
      BY <1>4, <1>6, <3>2, <3>3
  <2> QED
    BY <1>9, <2>1 DEF Satisfies, E_ADDR_OF, E_COPY, E_LOAD, E_STORE
<1>10. CASE c.type = E_STORE
  <2>1. ASSUME c.src # c.dst, NEW o \in pts[c.dst] \ {UniversalObj}
        PROVE  pts[c.src] \subseteq pts[o]
    <3>1. c \in edges /\ Pointer(c) = c.dst /\ CopySrc(c, o) = c.src /\ CopyDst(c, o) = o
      BY <1>5, <1>10, <2>1 DEF Pointer, CopySrc, CopyDst, DerefSrc, DerefDst, Item,
                               E_LOAD, E_STORE, E_ADDR_OF
    <3>2. o \in Node
      BY <1>4, <2>1 DEF TypeOK, GraphTypeOK
    <3>3. c.src = o \/ Cst(E_COPY, c.src, o) \in edges
      BY <1>1, <1>10, <2>1, <3>1 DEF WorkInv, DerefsPending
    <3> QED
      BY <1>4, <1>6, <3>2, <3>3
  <2> QED
    BY <1>10, <2>1 DEF Satisfies, E_ADDR_OF, E_COPY, E_LOAD, E_STORE
<1> QED
  BY <1>3, <1>7, <1>8, <1>9, <1>10, CstFields

\* The solver, with cycle detection and in every program, returns a solution
\* of the constraints when it collapsed nothing: no change of a points-to set
\* was left unpropagated and no load or store unresolved.
THEOREM SolvedUnlessCollapsedHolds == Spec => []SolvedUnlessCollapsed
<1>1. Init => SolverInv
  BY WorkInvInit DEF SolverInv
<1>2. TypeOK /\ SolverInv => SolvedUnlessCollapsed
  <2> SUFFICES ASSUME TypeOK, SolverInv, phase = "done", NothingCollapsed
               PROVE  IsSolution(NodePts, prog)
    BY DEF SolvedUnlessCollapsed
  <2>1. IsSolution(pts, prog)
    BY EmptyMeansSolved DEF SolverInv, WorkInv, LoopsInPlace
  <2>2. NodePts = pts
    BY DEF NodePts, NothingCollapsed, TypeOK, GraphTypeOK
  <2> QED
    BY <2>1, <2>2
<1> QED
  BY <1>1, <1>2, InitTyped, StepTyped, MergeInvInit, MergeInvStep, SolverInvStep,
     PTL DEF Spec

-----------------------------------------------------------------------------
(* The refinement *)

\* The iteration speaks of the same nodes and constraints.
LEMMA SameTerms ==
  /\ Abstract!Node = Node
  /\ \A S, p : Abstract!IsSolution(S, p) <=> IsSolution(S, p)
  /\ \A S, p, n, o : Abstract!Derivable(S, p, n, o) <=> Derivable(S, p, n, o)
<1>1. Abstract!Node = Node /\ Abstract!UniversalObj = UniversalObj
  BY DEF Abstract!Node, Node, Abstract!UniversalObj, UniversalObj
<1>2. /\ Abstract!E_ADDR_OF = E_ADDR_OF /\ Abstract!E_COPY = E_COPY
      /\ Abstract!E_LOAD = E_LOAD /\ Abstract!E_STORE = E_STORE
  BY DEF Abstract!E_ADDR_OF, Abstract!E_COPY, Abstract!E_LOAD, Abstract!E_STORE,
         E_ADDR_OF, E_COPY, E_LOAD, E_STORE
<1>3. \A S, c : Abstract!Satisfies(S, c) <=> Satisfies(S, c)
  BY <1>1, <1>2 DEF Abstract!Satisfies, Satisfies
<1>4. \A S, p : Abstract!IsSolution(S, p) <=> IsSolution(S, p)
  BY <1>3 DEF Abstract!IsSolution, IsSolution
<1>5. \A S, p, n, o : Abstract!Derivable(S, p, n, o) <=> Derivable(S, p, n, o)
  BY <1>1, <1>2 DEF Abstract!Derivable, Derivable
<1> QED
  BY <1>1, <1>4, <1>5

LEMMA ConstraintsSame == Abstract!Constraint = Constraint
BY SameTerms DEF Abstract!Constraint, Constraint, Abstract!E_ADDR_OF, Abstract!E_COPY,
                 Abstract!E_STORE, Abstract!E_LOAD, E_ADDR_OF, E_COPY, E_STORE, E_LOAD

\* A larger assignment derives more: the lemma that makes the iteration
\* monotone.
LEMMA DerivableBound ==
  ASSUME NEW p \in Seq(Constraint),
         NEW T \in [Node -> SUBSET Node], NEW S \in [Node -> SUBSET Node],
         \A n \in Node : T[n] \subseteq S[n],
         IsSolution(S, p),
         NEW n \in Node, NEW o \in Node, Derivable(T, p, n, o)
  PROVE  o \in S[n]
<1>1. PICK i \in DOMAIN p :
        LET c == p[i]
        IN  \/ c.type = E_ADDR_OF /\ n = c.dst /\ o = c.src
            \/ c.type = E_COPY /\ n = c.dst /\ o \in T[c.src]
            \/ /\ c.type = E_LOAD /\ c.src # c.dst /\ n = c.dst
               /\ \E m \in T[c.src] \ {UniversalObj} : o \in T[m]
            \/ /\ c.type = E_STORE /\ c.src # c.dst
               /\ n \in T[c.dst] \ {UniversalObj} /\ o \in T[c.src]
  BY DEF Derivable
<1> DEFINE c == p[i]
<1>2. c \in Constraint
  BY <1>1
<1>3. c.src \in Node /\ c.dst \in Node
  BY <1>2 DEF Constraint
<1>4. Satisfies(S, c)
  BY <1>1 DEF IsSolution
<1>5. CASE c.type = E_ADDR_OF /\ n = c.dst /\ o = c.src
  BY <1>4, <1>5 DEF Satisfies
<1>6. CASE c.type = E_COPY /\ n = c.dst /\ o \in T[c.src]
  BY <1>3, <1>4, <1>6 DEF Satisfies
<1>7. CASE /\ c.type = E_LOAD /\ c.src # c.dst /\ n = c.dst
           /\ \E m \in T[c.src] \ {UniversalObj} : o \in T[m]
  <2>1. PICK m \in T[c.src] \ {UniversalObj} : o \in T[m]
    BY <1>7
  <2>2. m \in Node /\ m \in S[c.src] \ {UniversalObj}
    BY <1>3, <2>1
  <2>3. S[m] \subseteq S[c.dst]
    BY <1>4, <1>7, <2>2 DEF Satisfies
  <2> QED
    BY <1>7, <2>1, <2>2, <2>3
<1>8. CASE /\ c.type = E_STORE /\ c.src # c.dst
           /\ n \in T[c.dst] \ {UniversalObj} /\ o \in T[c.src]
  <2>1. n \in S[c.dst] \ {UniversalObj}
    BY <1>3, <1>8
  <2>2. S[c.src] \subseteq S[n]
    BY <1>4, <1>8, <2>1 DEF Satisfies
  <2> QED
    BY <1>3, <1>8, <2>2
<1> QED
  BY <1>1, <1>5, <1>6, <1>7, <1>8

\* Chaotic iteration keeps its types and stays below every solution.
LEMMA IterationPrecise ==
  ASSUME Abstract!TypeOK, Abstract!Precise, [Abstract!Next]_(Abstract!vars)
  PROVE  Abstract!TypeOK' /\ Abstract!Precise'
<1>1. prog' = prog
  BY DEF Abstract!Next, Abstract!Grow, Abstract!Finish, Abstract!vars
<1>2. prog \in Seq(Constraint) /\ pts \in [Node -> SUBSET Node]
  BY SameTerms, ConstraintsSame DEF Abstract!TypeOK
<1>3. \A S \in [Node -> SUBSET Node] : IsSolution(S, prog) => \A n \in Node : pts[n] \subseteq S[n]
  BY SameTerms DEF Abstract!Precise
<1>4. CASE Abstract!Grow
  <2>1. PICK m \in Node : \E new \in SUBSET {o \in Node : Derivable(pts, prog, m, o)} :
          pts' = [pts EXCEPT ![m] = @ \cup new]
    BY <1>4, SameTerms DEF Abstract!Grow
  <2>2. PICK new \in SUBSET {o \in Node : Derivable(pts, prog, m, o)} :
          pts' = [pts EXCEPT ![m] = @ \cup new]
    BY <2>1
  <2>3. pts' \in [Node -> SUBSET Node]
    BY <1>2, <2>2
  <2>4. ASSUME NEW S \in [Node -> SUBSET Node], IsSolution(S, prog), NEW n \in Node, NEW o \in pts'[n]
        PROVE  o \in S[n]
    <3>1. \A k \in Node : pts[k] \subseteq S[k]
      BY <1>3, <2>4
    <3>2. CASE o \in pts[n]
      BY <3>1, <3>2
    <3>3. CASE o \notin pts[n]
      <4>1. n = m /\ o \in new
        BY <1>2, <2>2, <2>4, <3>3
      <4>2. o \in Node /\ Derivable(pts, prog, n, o)
        BY <2>2, <4>1
      <4> QED
        BY <1>2, <2>4, <3>1, <4>2, DerivableBound
    <3> QED
      BY <3>2, <3>3
  <2>5. Abstract!TypeOK'
    BY <1>1, <1>2, <1>4, <2>3, SameTerms, ConstraintsSame DEF Abstract!TypeOK
  <2>6. Abstract!Precise'
    BY <1>1, <2>4, SameTerms DEF Abstract!Precise
  <2> QED
    BY <2>5, <2>6
<1>5. CASE Abstract!Finish \/ UNCHANGED Abstract!vars
  <2>1. pts' = pts
    BY <1>5 DEF Abstract!Finish, Abstract!vars
  <2> QED
    BY <1>1, <1>2, <1>3, <2>1, SameTerms, ConstraintsSame DEF Abstract!TypeOK, Abstract!Precise
<1> QED
  BY <1>4, <1>5 DEF Abstract!Next

\* Every behaviour of chaotic iteration stays below every solution: no target
\* it ever reports is spurious.
THEOREM StaysPrecise == Abstract!Spec => []Abstract!Precise
<1>1. Abstract!Init => Abstract!TypeOK /\ Abstract!Precise
  BY DEF Abstract!Init, Abstract!TypeOK, Abstract!Precise
<1>2. Abstract!TypeOK /\ Abstract!Precise /\ [Abstract!Next]_(Abstract!vars)
        => Abstract!TypeOK' /\ Abstract!Precise'
  BY IterationPrecise
<1> QED
  BY <1>1, <1>2, PTL DEF Abstract!Spec

\* A step that collapses nothing is a step of the iteration or changes
\* nothing it speaks of.
LEMMA StepImplements ==
  ASSUME TypeOK, NothingCollapsed, WorkInv, [Next]_vars, ~Merge
  PROVE  [Abstract!Next]_(Abstract!vars)
<1>1. CASE InitCst
  <2> DEFINE c == prog[next]
  <2>1. /\ c \in Constraint /\ next \in 1 .. Len(prog)
        /\ IF c.type = E_ADDR_OF THEN pts' = [pts EXCEPT ![c.dst] = @ \cup {c.src}]
           ELSE pts' = pts
    BY <1>1, InitCstEffect
  <2>2. phase = "init" /\ phase' = "init" /\ prog' = prog
    BY <1>1 DEF InitCst
  <2>3. CASE c.type = E_ADDR_OF
    <3>1. c.src \in Node /\ c.dst \in Node
      BY <2>1, CstFields
    <3>2. Derivable(pts, prog, c.dst, c.src)
      BY <2>1, <2>3 DEF Derivable
    <3>3. {c.src} \in SUBSET {o \in Node : Derivable(pts, prog, c.dst, o)}
      BY <3>1, <3>2
    <3>4. pts' = [pts EXCEPT ![c.dst] = @ \cup {c.src}]
      BY <2>1, <2>3
    <3> HIDE DEF c
    <3>5. Abstract!Grow
      BY <2>2, <3>1, <3>3, <3>4, SameTerms DEF Abstract!Grow
    <3> QED
      BY <3>5 DEF Abstract!Next
  <2>4. CASE c.type # E_ADDR_OF
    BY <2>1, <2>2, <2>4 DEF Abstract!vars
  <2> QED
    BY <2>3, <2>4
<1>2. CASE Propagate
  <2>1. PICK e \in todo : pts' = [pts EXCEPT ![e.dst] = @ \cup pts[cur]]
    BY <1>2 DEF Propagate, UnionPts
  <2>2. /\ phase = "copy" /\ phase' = "copy" /\ prog' = prog
        /\ e \in edges /\ e.type = E_COPY /\ e.src = cur
    BY <1>2, <2>1 DEF Propagate, WorkInv, LoopsInPlace, OutCopyEdge, TypeOK, GraphTypeOK
  <2>3. e.src \in Node /\ e.dst \in Node /\ pts[cur] \subseteq Node
    BY <2>2, CstFields DEF TypeOK, GraphTypeOK
  <2>4. ASSUME NEW o \in pts[cur] PROVE Derivable(pts, prog, e.dst, o)
    <3>1. PICK i \in DOMAIN prog :
            LET c == prog[i]
            IN  \/ c = e
                \/ /\ c.type = E_LOAD /\ c.src # c.dst /\ e.dst = c.dst
                   /\ e.src \in pts[c.src] \ {UniversalObj}
                \/ /\ c.type = E_STORE /\ c.src # c.dst /\ e.src = c.src
                   /\ e.dst \in pts[c.dst] \ {UniversalObj}
      BY <2>2 DEF WorkInv, EdgesJustified, Justified
    <3> QED
      BY <2>2, <2>4, <3>1 DEF Derivable
  <2>5. pts[cur] \in SUBSET {o \in Node : Derivable(pts, prog, e.dst, o)}
    BY <2>3, <2>4
  <2>6. Abstract!Grow
    BY <2>1, <2>2, <2>3, <2>5, SameTerms DEF Abstract!Grow
  <2> QED
    BY <2>6 DEF Abstract!Next
<1>3. CASE Finish
  <2>1. IsSolution(pts, prog)
    BY <1>3, EmptyMeansSolved DEF Finish
  <2>2. Abstract!Finish
    BY <1>3, <2>1, SameTerms DEF Finish, graphVars, Abstract!Finish
  <2> QED
    BY <2>2 DEF Abstract!Next
<1>4. CASE Offline \/ Online \/ MergeEnd \/ Pop \/ Deref \/ DerefEnd \/ UNCHANGED vars
  <2>1. pts' = pts /\ prog' = prog
    BY <1>4 DEF Offline, Online, MergeEnd, Pop, Deref, DerefEnd, vars, graphVars, solverVars
  <2>2. (phase' = "done") = (phase = "done")
    BY <1>4 DEF Offline, Online, MergeEnd, Pop, Deref, DerefEnd, vars, solverVars
  <2> QED
    BY <2>1, <2>2 DEF Abstract!vars
<1> QED
  BY <1>1, <1>2, <1>3, <1>4 DEF Next

LEMMA InitImplements == Init => Abstract!Init
BY ConstraintsSame, ProgramsAssumption, SameTerms DEF Init, GraphInit, Abstract!Init

LEMMA CycleFreeStaysFree ==
  TypeOK /\ MergeInv /\ mergeMap = {} /\ NothingCollapsed /\ [Next /\ mergeMap' = {}]_vars
    => mergeMap' = {} /\ NothingCollapsed' /\ ~Merge /\ [Next]_vars
<1> SUFFICES ASSUME TypeOK, MergeInv, mergeMap = {}, NothingCollapsed,
                    [Next /\ mergeMap' = {}]_vars
             PROVE  mergeMap' = {} /\ NothingCollapsed' /\ ~Merge /\ [Next]_vars
  OBVIOUS
<1>1. ~Merge /\ [Next]_vars
  BY DEF Merge
<1>2. rep' = rep
  BY <1>1, RepUnchanged
<1>3. mergeMap' = {}
  BY DEF vars, solverVars
<1> QED
  BY <1>1, <1>2, <1>3 DEF NothingCollapsed

\* The work-list solver implements chaotic iteration in every behaviour that
\* collapses no cycle: by the theorems on the iteration, what it returns is then
\* the least solution of the constraints.
THEOREM CycleFreeIsInclusion == CycleFreeSpec => Abstract!Spec
<1> DEFINE Inv == TypeOK /\ MergeInv /\ NothingCollapsed /\ mergeMap = {} /\ WorkInv
           Step == [Next /\ mergeMap' = {}]_vars
<1>1. Init => Inv
  <2> SUFFICES ASSUME Init PROVE NothingCollapsed /\ mergeMap = {}
    BY InitTyped, MergeInvInit, WorkInvInit
  <2> QED
    BY DEF Init, GraphInit, NothingCollapsed
<1>2. Inv /\ Step => Inv'
  <2> SUFFICES ASSUME Inv, Step PROVE Inv'
    OBVIOUS
  <2>1. mergeMap' = {} /\ NothingCollapsed' /\ [Next]_vars
    BY CycleFreeStaysFree
  <2>2. TypeOK' /\ MergeInv'
    BY <2>1, StepTyped, MergeInvStep
  <2>3. SolverInv
    BY DEF SolverInv
  <2>4. SolverInv'
    BY <2>1, <2>3, SolverInvStep
  <2> QED
    BY <2>1, <2>2, <2>4 DEF SolverInv
<1>3. Inv /\ Step => [Abstract!Next]_(Abstract!vars)
  <2> SUFFICES ASSUME Inv, Step PROVE [Abstract!Next]_(Abstract!vars)
    OBVIOUS
  <2>1. ~Merge /\ [Next]_vars
    BY CycleFreeStaysFree
  <2> QED
    BY <2>1, StepImplements
<1> HIDE DEF Inv
<1> QED
  BY <1>1, <1>2, <1>3, InitImplements, PTL
     DEF CycleFreeSpec, Abstract!Spec

\* In every behaviour, the steps before the first collapse are steps of
\* chaotic iteration or leave what it sees alone: no target is added that the
\* constraints do not justify, whatever the order of the work list.
THEOREM SolverImplementsInclusion == Spec => ImplementsInclusion
<1> DEFINE Inv == TypeOK /\ MergeInv /\ SolverInv
<1>1. Init => Inv
  BY InitTyped, MergeInvInit, WorkInvInit DEF SolverInv
<1>2. Inv /\ [Next]_vars => Inv'
  BY StepTyped, MergeInvStep, SolverInvStep
<1>3. Inv /\ [Next]_vars => [NothingCollapsed' => Abstract!Next]_(Abstract!vars)
  <2> SUFFICES ASSUME Inv, [Next]_vars, NothingCollapsed'
               PROVE  [Abstract!Next]_(Abstract!vars)
    OBVIOUS
  <2>1. NothingCollapsed /\ ~Merge
    BY StillNothingCollapsed
  <2>2. WorkInv
    BY <2>1 DEF SolverInv
  <2> QED
    BY <2>1, <2>2, StepImplements
<1> HIDE DEF Inv
<1> QED
  BY <1>1, <1>2, <1>3, InitImplements, PTL DEF Spec, ImplementsInclusion

\* The points-to sets at the end of a run that collapsed nothing, and at any
\* moment before, and with them the answers: never more than any solution of
\* the constraints has.
NothingSpurious ==
  NothingCollapsed =>
    \A S \in [Node -> SUBSET Node] :
      IsSolution(S, prog) => \A n \in Node : PointsTo[n] \cup NodePts[n] \subseteq S[n]

LeastUnlessCollapsed ==
  phase = "done" /\ NothingCollapsed =>
    /\ IsSolution(NodePts, prog)
    /\ \A S \in [Node -> SUBSET Node] :
         IsSolution(S, prog) => \A n \in Node : NodePts[n] \subseteq S[n]

\* The work-list solver, cycle detection included, returns the least solution
\* of the constraints of every program in which it collapses nothing, and no
\* answer on the way exceeds it, in whatever order the sets are walked.
THEOREM ReturnsLeastSolution == Spec => [](NothingSpurious /\ LeastUnlessCollapsed)
<1> DEFINE PreciseInv == NothingCollapsed => Abstract!Precise
           Inv == TypeOK /\ MergeInv /\ SolverInv /\ PreciseInv
<1>1. Init => Inv
  <2>1. Init => PreciseInv
    BY InitImplements DEF Abstract!Init, Abstract!Precise
  <2> QED
    BY <2>1, InitTyped, MergeInvInit, WorkInvInit DEF SolverInv
<1>2. Inv /\ [Next]_vars => Inv'
  <2> SUFFICES ASSUME Inv, [Next]_vars PROVE Inv'
    OBVIOUS
  <2>1. TypeOK' /\ MergeInv' /\ SolverInv'
    BY StepTyped, MergeInvStep, SolverInvStep
  <2>2. ASSUME NothingCollapsed' PROVE Abstract!Precise'
    <3>1. NothingCollapsed /\ ~Merge
      BY <2>2, StillNothingCollapsed
    <3>2. WorkInv /\ Abstract!Precise
      BY <3>1 DEF SolverInv
    <3>3. [Abstract!Next]_(Abstract!vars)
      BY <3>1, <3>2, StepImplements
    <3>4. Abstract!TypeOK
      BY SameTerms, ConstraintsSame DEF TypeOK, GraphTypeOK, Abstract!TypeOK
    <3> QED
      BY <3>2, <3>3, <3>4, IterationPrecise
  <2> QED
    BY <2>1, <2>2
<1>3. Inv => NothingSpurious /\ LeastUnlessCollapsed
  <2> SUFFICES ASSUME Inv, NothingCollapsed PROVE NothingSpurious /\ LeastUnlessCollapsed
    BY DEF NothingSpurious, LeastUnlessCollapsed
  <2>1. NodePts = pts
    BY DEF NodePts, NothingCollapsed, TypeOK, GraphTypeOK
  <2>2. \A S \in [Node -> SUBSET Node] : IsSolution(S, prog) => \A n \in Node : pts[n] \subseteq S[n]
    BY SameTerms DEF Abstract!Precise
  <2>4. \A n \in Node : PointsTo[n] \subseteq NodePts[n]
    BY DEF PointsTo
  <2>3. phase = "done" => IsSolution(pts, prog)
    BY EmptyMeansSolved DEF SolverInv, WorkInv, LoopsInPlace
  <2> QED
    BY <2>1, <2>2, <2>3, <2>4 DEF NothingSpurious, LeastUnlessCollapsed
<1> HIDE DEF Inv
<1> QED
  BY <1>1, <1>2, <1>3, PTL DEF Spec

=============================================================================

--------------------------- MODULE MemLeakProofs ---------------------------
(***************************************************************************)
(* The detector, for all dependence graphs: the allocations it collects;   *)
(* the slice of each, whose forward search misses no sink within the       *)
(* function and its callees, whose backward searches trace every sink to   *)
(* the allocation, and whose search for a way out keeps on its way just    *)
(* the nodes it is in and, from a function that is not called, finds one   *)
(* if there is one.                                                        *)
(***************************************************************************)
EXTENDS MemLeak, FiniteSetTheorems, SequenceTheorems, WellFoundedInduction, TLAPS

-----------------------------------------------------------------------------
(* The order of the edges *)

LEMMA Least ==
  ASSUME NEW S \in SUBSET Nat, S # {}
  PROVE  \E m \in S : \A n \in S : m <= n
  <1> DEFINE Below(m) == {k \in Nat : k < m}
             F == {Below(m) : m \in S}
             R == StrictSubsetOrdering(Nat)
  <1>1. IsWellFoundedOn(R, FiniteSubsetsOf(Nat))
    BY FS_StrictSubsetOrderingWellFounded
  <1>2. \A m \in S : Below(m) \in FiniteSubsetsOf(Nat)
    <2> SUFFICES ASSUME NEW m \in S PROVE IsFiniteSet(Below(m))
      BY DEF FiniteSubsetsOf
    <2>1. m \in Nat /\ Below(m) \in SUBSET Nat /\ \A k \in Below(m) : k <= m
      OBVIOUS
    <2> HIDE DEF Below
    <2> QED BY <2>1, FS_BoundedSetOfNaturals
  <1>3. F # {} /\ F \subseteq FiniteSubsetsOf(Nat)
    BY <1>2
  <1>4. PICK X \in F : \A Y \in F : ~ (<<Y, X>> \in R)
    <2> HIDE DEF F, R
    <2> QED BY <1>1, <1>3, WFMin
  <1>5. PICK m \in S : X = Below(m)
    BY <1>4
  <1>6. ASSUME NEW n \in S, n < m PROVE FALSE
    <2>1. Below(n) \subseteq Below(m) /\ n \in Below(m) /\ n \notin Below(n)
      BY <1>6
    <2>2. <<Below(n), Below(m)>> \in R
      BY <2>1 DEF StrictSubsetOrdering
    <2> QED BY <1>4, <1>5, <2>2
  <1> QED BY <1>6

\* A set of edges that is not empty has a first one.
LEMMA FirstIn ==
  ASSUME NEW E \in SUBSET (Nat \X Nat \X Nat), E # {}
  PROVE  First(E) \in E
  <1> DEFINE A == {e[1] : e \in E}
  <1>1. PICK a \in A : \A x \in A : a <= x
    <2>1. A \in SUBSET Nat /\ A # {}
      OBVIOUS
    <2> HIDE DEF A
    <2> QED BY <2>1, Least
  <1> DEFINE B == {e[2] : e \in {d \in E : d[1] = a}}
  <1>2. PICK b \in B : \A x \in B : b <= x
    <2>1. B \in SUBSET Nat /\ B # {}
      OBVIOUS
    <2> HIDE DEF B
    <2> QED BY <2>1, Least
  <1> DEFINE C == {e[3] : e \in {d \in E : d[1] = a /\ d[2] = b}}
  <1>3. PICK c \in C : \A x \in C : c <= x
    <2>1. C \in SUBSET Nat /\ C # {}
      OBVIOUS
    <2> HIDE DEF C
    <2> QED BY <2>1, Least
  <1>4. PICK e \in E : e[1] = a /\ e[2] = b /\ e[3] = c
    OBVIOUS
  <1>5. ASSUME NEW d \in E PROVE d = e \/ EdgeLess(e, d)
    <2>1. /\ d[1] \in Nat /\ d[2] \in Nat /\ d[3] \in Nat /\ d = <<d[1], d[2], d[3]>>
          /\ e[1] \in Nat /\ e[2] \in Nat /\ e[3] \in Nat /\ e = <<e[1], e[2], e[3]>>
      OBVIOUS
    <2>2. a <= d[1]
      BY <1>1
    <2>3. d[1] = a => b <= d[2]
      BY <1>2
    <2>4. d[1] = a /\ d[2] = b => c <= d[3]
      BY <1>3
    <2> HIDE DEF A, B, C
    <2> QED BY <1>4, <2>1, <2>2, <2>3, <2>4 DEF EdgeLess
  <1> QED BY <1>5 DEF First

-----------------------------------------------------------------------------
(* The stack of the searches *)

\* The fields of the graph.
LEMMA GraphType ==
  ASSUME g \in Graphs
  PROVE  /\ Ids = Node /\ Ids \subseteq Nat \ {0} /\ \A n \in Ids : Fun(n) \in Func
         /\ g.edges \subseteq Nat \X Nat \X Nat
         /\ \A e \in g.edges : e[2] \in Ids /\ e[3] \in Ids
  <1>1. /\ g.fun \in Seq(Func)
        /\ g.edges \subseteq (1 .. 31) \X (DOMAIN g.fun) \X (DOMAIN g.fun)
    BY GraphsAssumption
  <1>2. Ids = Node /\ Ids \subseteq Nat \ {0} /\ \A n \in Ids : Fun(n) \in Func
    BY <1>1 DEF Ids, Node, Fun
  <1>3. g.edges \subseteq (1 .. 31) \X Ids \X Ids
    BY <1>1, <1>2 DEF Node
  <1> HIDE DEF Ids
  <1>4. \A e \in (1 .. 31) \X Ids \X Ids : e[2] \in Ids /\ e[3] \in Ids
    OBVIOUS
  <1>5. (1 .. 31) \X Ids \X Ids \subseteq Nat \X Nat \X Nat
    <2>1. 1 .. 31 \subseteq Nat /\ Ids \subseteq Nat
      BY <1>2
    <2> QED BY <2>1
  <1> QED BY <1>2, <1>3, <1>4, <1>5

LEMMA TopFrame ==
  ASSUME TypeOK, stack # <<>>
  PROVE  /\ Len(stack) \in Nat \ {0} /\ DOMAIN stack = 1 .. Len(stack)
         /\ \A i \in 1 .. Len(stack) : stack[i] \in FrameType
         /\ Top \in FrameType /\ Top.node \in Ids /\ Top.edges \subseteq g.edges
  <1>1. stack \in Seq(FrameType)
    BY DEF TypeOK
  <1>2. Len(stack) \in Nat \ {0} /\ DOMAIN stack = 1 .. Len(stack)
    BY <1>1, EmptySeq, LenProperties
  <1>3. \A i \in 1 .. Len(stack) : stack[i] \in FrameType
    BY <1>1, ElementOfSeq
  <1> QED BY <1>2, <1>3 DEF Top, FrameType

LEMMA EdgeOfTop ==
  ASSUME TypeOK, stack # <<>>, Top.edges # {}
  PROVE  Edge \in Top.edges /\ Edge \in g.edges /\ Edge[2] \in Ids /\ Edge[3] \in Ids
  <1>1. Top.edges \subseteq g.edges
    BY TopFrame
  <1>2. g.edges \subseteq Nat \X Nat \X Nat /\ \A e \in g.edges : e[2] \in Ids /\ e[3] \in Ids
    BY GraphType DEF TypeOK
  <1>3. Edge \in Top.edges
    BY <1>1, <1>2, FirstIn DEF Edge
  <1> QED BY <1>1, <1>2, <1>3

\* The stack with the top frame's edges replaced.
WithEdges(s, E) == [s EXCEPT ![Len(s)].edges = E]

LEMMA WithEdgesIs ==
  ASSUME NEW s \in Seq(FrameType), s # <<>>, NEW E \in SUBSET g.edges
  PROVE  /\ WithEdges(s, E) \in Seq(FrameType) /\ Len(WithEdges(s, E)) = Len(s)
         /\ Len(s) \in Nat \ {0} /\ DOMAIN WithEdges(s, E) = 1 .. Len(s)
         /\ \A i \in 1 .. Len(s) : WithEdges(s, E)[i].node = s[i].node
         /\ \A i \in 1 .. Len(s) - 1 : WithEdges(s, E)[i] = s[i]
         /\ WithEdges(s, E)[Len(s)].edges = E
  <1>1. Len(s) \in Nat \ {0} /\ DOMAIN s = 1 .. Len(s) /\ Len(s) \in DOMAIN s
    BY EmptySeq, LenProperties
  <1>2. \A i \in 1 .. Len(s) : s[i] \in FrameType
    BY ElementOfSeq
  <1> DEFINE r == WithEdges(s, E)
  <1>3. r = [i \in 1 .. Len(s) |-> IF i = Len(s) THEN [s[i] EXCEPT !.edges = E] ELSE s[i]]
    BY <1>1 DEF WithEdges
  <1>4. [s[Len(s)] EXCEPT !.edges = E] \in FrameType
    BY <1>1, <1>2 DEF FrameType
  <1>5. \A i \in 1 .. Len(s) : r[i] \in FrameType
    BY <1>2, <1>3, <1>4
  <1>6. r \in [1 .. Len(s) -> FrameType]
    BY <1>3, <1>5
  <1>7. r \in Seq(FrameType) /\ Len(r) = Len(s)
    BY <1>1, <1>6, SeqDef, LenProperties
  <1>8. \A i \in 1 .. Len(s) : r[i].node = s[i].node
    BY <1>1, <1>2, <1>3 DEF FrameType
  <1>9. \A i \in 1 .. Len(s) - 1 : r[i] = s[i]
    BY <1>1, <1>3
  <1>10. r[Len(s)].edges = E
    BY <1>1, <1>2, <1>3 DEF FrameType
  <1> HIDE DEF r
  <1>11. DOMAIN r = 1 .. Len(s)
    BY <1>7, LenProperties
  <1> QED BY <1>1, <1>7, <1>8, <1>9, <1>10, <1>11 DEF r

\* A frame put on the stack.
LEMMA Pushed ==
  ASSUME NEW s \in Seq(FrameType), NEW f \in FrameType
  PROVE  /\ Append(s, f) \in Seq(FrameType) /\ Len(s) \in Nat /\ Len(Append(s, f)) = Len(s) + 1
         /\ DOMAIN s = 1 .. Len(s) /\ DOMAIN Append(s, f) = 1 .. Len(s) + 1
         /\ Append(s, f) # <<>>
         /\ \A i \in 1 .. Len(s) : Append(s, f)[i] = s[i]
         /\ Append(s, f)[Len(s) + 1] = f
  <1>1. Append(s, f) \in Seq(FrameType) /\ Len(Append(s, f)) = Len(s) + 1 /\ Len(s) \in Nat
    BY AppendProperties, LenProperties
  <1>2. /\ \A i \in 1 .. Len(s) : Append(s, f)[i] = s[i]
        /\ Append(s, f)[Len(s) + 1] = f
    BY AppendProperties
  <1>3. DOMAIN s = 1 .. Len(s) /\ DOMAIN Append(s, f) = 1 .. Len(s) + 1
    BY <1>1, LenProperties
  <1>4. Append(s, f) # <<>>
    BY <1>1, EmptySeq
  <1> QED BY <1>1, <1>2, <1>3, <1>4

\* A stack of one frame.
LEMMA Single ==
  ASSUME NEW f \in FrameType
  PROVE  <<f>> \in Seq(FrameType) /\ <<f>> # <<>> /\ Len(<<f>>) = 1 /\ <<f>>[1] = f /\ DOMAIN <<f>> = {1}
  OBVIOUS

\* The stack without its top.
LEMMA Popped ==
  ASSUME NEW s \in Seq(FrameType), s # <<>>
  PROVE  /\ Front(s) \in Seq(FrameType) /\ Len(Front(s)) = Len(s) - 1 /\ Len(s) \in Nat \ {0}
         /\ DOMAIN Front(s) = 1 .. Len(s) - 1 /\ DOMAIN s = 1 .. Len(s)
         /\ Front(s) = <<>> <=> Len(s) = 1
         /\ \A i \in 1 .. Len(s) - 1 : Front(s)[i] = s[i]
  <1>1. Len(s) \in Nat \ {0} /\ DOMAIN s = 1 .. Len(s)
    BY EmptySeq, LenProperties
  <1> DEFINE m == 1
             k == Len(s) - 1
  <1>2. \A i \in 1 .. Len(s) : s[i] \in FrameType
    BY ElementOfSeq
  <1>3. m \in Int /\ k \in Int /\ \A i \in m .. k : s[i] \in FrameType
    BY <1>1, <1>2
  <1>4. k - m + 1 = k /\ \A i \in 1 .. k : m + i - 1 = i
    BY <1>1
  <1>5. Front(s) = SubSeq(s, m, k)
    BY DEF Front
  <1>6. m <= k \/ k = 0
    BY <1>1
  <1> HIDE DEF m, k
  <1>7. /\ SubSeq(s, m, k) \in Seq(FrameType) /\ Len(SubSeq(s, m, k)) = IF m <= k THEN k - m + 1 ELSE 0
        /\ \A i \in 1 .. k - m + 1 : SubSeq(s, m, k)[i] = s[m + i - 1]
    BY <1>3, SubSeqProperties
  <1>8. Front(s) \in Seq(FrameType) /\ Len(Front(s)) = k /\ \A i \in 1 .. k : Front(s)[i] = s[i]
    BY <1>4, <1>5, <1>6, <1>7
  <1>9. DOMAIN Front(s) = 1 .. k /\ (Front(s) = <<>> <=> k = 0)
    BY <1>8, EmptySeq, LenProperties
  <1> QED BY <1>1, <1>8, <1>9 DEF k

LEMMA RestIs ==
  ASSUME TypeOK, stack # <<>>
  PROVE  /\ Rest = WithEdges(stack, Top.edges \ {Edge}) /\ Break = WithEdges(stack, {})
         /\ Rest \in Seq(FrameType) /\ Break \in Seq(FrameType) /\ Front(stack) \in Seq(FrameType)
  <1>1. Rest = WithEdges(stack, Top.edges \ {Edge}) /\ Break = WithEdges(stack, {})
    BY DEF Rest, Break, WithEdges, Top
  <1>2. stack \in Seq(FrameType) /\ Top.edges \ {Edge} \in SUBSET g.edges /\ {} \in SUBSET g.edges
    BY TopFrame DEF TypeOK
  <1>3. WithEdges(stack, Top.edges \ {Edge}) \in Seq(FrameType) /\ WithEdges(stack, {}) \in Seq(FrameType)
    BY <1>2, WithEdgesIs
  <1>4. Front(stack) \in Seq(FrameType)
    BY <1>2, Popped
  <1> QED BY <1>1, <1>3, <1>4

\* The frames the searches put on the stack.
LEMMA FramesTyped ==
  ASSUME NEW n \in Ids
  PROVE  /\ \A attr : Frame(n, OutEdges(n, attr)) \in FrameType /\ Frame(n, InEdges(n, attr)) \in FrameType
         /\ \A path : CfgFrame(n, path) \in FrameType /\ CfgFrame(n, path).node = n
  BY DEF Frame, FrameType, OutEdges, InEdges, CfgFrame

-----------------------------------------------------------------------------
(* Types *)

LEMMA GraphStays == [Next]_vars => g' = g /\ FrameType' = FrameType /\ Ids' = Ids
  <1> SUFFICES ASSUME [Next]_vars PROVE g' = g
    BY DEF FrameType, Ids
  <1>1. ASSUME SliceStep PROVE g' = g
    BY <1>1 DEF SliceStep, ForwardVisited, ForwardBack, Forward, ForwardReturn, BackwardStart, BackwardHit,
         Backward, BackwardReturn, CfgStart, NoSink, CfgOnPath, CfgOut, CfgLeave, CfgGo, CfgReturn, CheckNode
  <1> QED BY <1>1 DEF Next, Go, Finish, vars, TakeSite, TakeSource, AddCaller, CollectSinks, NextSource,
            StartSlice, Slice, ReportBug

LEMMA InitTyped == Init => TypeOK
  <1> SUFFICES ASSUME Init PROVE TypeOK
    OBVIOUS
  <1>1. Node = Ids /\ g \in Graphs
    BY GraphType DEF Init
  <1>2. /\ phase = "sources" /\ todo \subseteq Node /\ queue = <<>> /\ callers = {} /\ srcSet = {} /\ toSlice = {}
        /\ sinkSet = {}
    BY DEF Init
  <1>3. /\ root = 0 /\ stack = <<>> /\ visited = {} /\ toSinks = {} /\ sinks = {}
        /\ forward = {} /\ fdFuncs = {} /\ maxId = [f \in Func |-> 0] /\ backward = {} /\ bdFuncs = {}
        /\ pathFuncs = {} /\ reachType = "none" /\ reachOut = FALSE /\ crossFuncNum = 0
    BY DEF Init, SliceInit
  <1>4. maxId \in [Func -> Nat] /\ stack \in Seq(FrameType) /\ queue \in Seq(Ids)
    BY <1>2, <1>3
  <1> QED BY <1>1, <1>2, <1>3, <1>4 DEF TypeOK

LEMMA ForwardTyped == TypeOK /\ (ForwardVisited \/ ForwardBack \/ Forward \/ ForwardReturn) /\ UNCHANGED leakVars => TypeOK'
  <1> SUFFICES ASSUME TypeOK, ForwardVisited \/ ForwardBack \/ Forward \/ ForwardReturn, UNCHANGED leakVars
               PROVE  TypeOK'
    OBVIOUS
  <1>0. g' = g /\ FrameType' = FrameType /\ Ids' = Ids
    BY DEF ForwardVisited, ForwardBack, Forward, ForwardReturn, FrameType, Ids
  <1>1. stack # <<>> /\ Rest \in Seq(FrameType) /\ Break \in Seq(FrameType) /\ Front(stack) \in Seq(FrameType)
    BY RestIs DEF ForwardVisited, ForwardBack, Forward, ForwardReturn, Running, Leaving
  <1>2. CASE ForwardVisited \/ ForwardBack
    BY <1>0, <1>1, <1>2 DEF ForwardVisited, ForwardBack, TypeOK, leakVars, fdVars, bdVars, outVars
  <1>3. CASE Forward
    <2>1. /\ Edge[3] \in Ids /\ Fun(Edge[3]) \in Func /\ Edge[3] \in Nat
      BY <1>1, <1>3, EdgeOfTop, GraphType DEF Forward, Running, TypeOK
    <2>2. maxId' \in [Func -> Nat]
      BY <1>3, <2>1 DEF Forward, NoteForward, TypeOK
    <2>3. Append(Rest, Frame(Edge[3], OutEdges(Edge[3], EA_DD))) \in Seq(FrameType)
      BY <1>1, <2>1, FramesTyped, Pushed
    <2>4. stack' \in Seq(FrameType)
      BY <1>1, <1>3, <2>3 DEF Forward
    <2>5. visited' \subseteq Ids /\ reachType' \in {"none", "partial", "all"}
      BY <1>3, <2>1 DEF Forward, TypeOK
    <2>6. forward' = forward \cup {Edge[3]} /\ fdFuncs' = fdFuncs \cup {Fun(Edge[3])} /\ toSinks' = toSinks
      BY <1>3 DEF Forward, bdVars
    <2>7. sinks' \subseteq forward' /\ sinks \subseteq sinks'
      BY <1>3, <2>6 DEF Forward, TypeOK
    <2>8. UNCHANGED <<phase, root, sinkSet, backward, bdFuncs, pathFuncs, reachOut, crossFuncNum, leakVars>>
      BY <1>3 DEF Forward, bdVars, outVars
    <2> QED BY <1>0, <2>1, <2>2, <2>4, <2>5, <2>6, <2>7, <2>8 DEF TypeOK, leakVars
  <1>4. CASE ForwardReturn
    <2>1. phase = "forward" /\ phase' \in {phase, "sinks"} /\ toSinks' \subseteq sinks /\ stack' \in Seq(FrameType)
      BY <1>1, <1>4 DEF ForwardReturn, Leaving, TypeOK
    <2> QED BY <1>0, <1>4, <2>1 DEF ForwardReturn, TypeOK, leakVars, fdVars, outVars
  <1> QED BY <1>2, <1>3, <1>4

BackwardStep == BackwardStart \/ BackwardHit \/ Backward \/ BackwardReturn

LEMMA BackwardTyped == TypeOK /\ BackwardStep /\ UNCHANGED leakVars => TypeOK'
  <1> SUFFICES ASSUME TypeOK, BackwardStep, UNCHANGED leakVars PROVE TypeOK'
    OBVIOUS
  <1>0. g' = g /\ FrameType' = FrameType /\ Ids' = Ids
    BY DEF BackwardStep, BackwardStart, BackwardHit, Backward, BackwardReturn, FrameType, Ids
  <1>1. /\ UNCHANGED <<root, sinkSet, sinks, forward, fdFuncs, maxId, reachType, reachOut, crossFuncNum>>
        /\ phase \in {"sinks", "backward"} /\ phase' \in {phase, "backward", "sinks"}
    BY DEF BackwardStep, BackwardStart, BackwardHit, Backward, BackwardReturn, fdVars, outVars, Running, Leaving
  <1>2. \A n \in Ids : Fun(n) \in Func
    BY GraphType DEF TypeOK
  <1>3. /\ stack' \in Seq(FrameType) /\ visited' \subseteq Ids /\ toSinks' \subseteq sinks
        /\ backward' \subseteq Ids /\ bdFuncs' \subseteq Func /\ pathFuncs' \subseteq Func
    <2>1. CASE BackwardStart
      <3>1. PICK s \in toSinks : /\ toSinks' = toSinks \ {s} /\ pathFuncs' = pathFuncs \cup {Fun(s)}
                                 /\ stack' = <<Frame(s, InEdges(s, EA_DD))>> /\ visited' = {s}
        BY <2>1 DEF BackwardStart
      <3>2. s \in Ids
        BY DEF TypeOK
      <3>3. <<Frame(s, InEdges(s, EA_DD))>> \in Seq(FrameType)
        BY <3>2, FramesTyped, Single
      <3> QED BY <1>2, <2>1, <3>1, <3>2, <3>3 DEF BackwardStart, TypeOK
    <2>2. CASE BackwardHit \/ Backward
      <3>1. /\ Edge[2] \in Ids /\ Fun(Edge[2]) \in Func
            /\ Rest \in Seq(FrameType) /\ Break \in Seq(FrameType)
        BY <1>2, <2>2, EdgeOfTop, RestIs DEF BackwardHit, Backward, Running
      <3>2. Append(Rest, Frame(Edge[2], InEdges(Edge[2], EA_DD))) \in Seq(FrameType)
        BY <3>1, FramesTyped, Pushed
      <3>3. pathFuncs' \subseteq Func
        BY <2>2, <3>1 DEF BackwardHit, Backward, NotePath, TypeOK
      <3> QED BY <2>2, <3>1, <3>2, <3>3 DEF BackwardHit, Backward, TypeOK
    <2>3. CASE BackwardReturn
      <3>1. Front(stack) \in Seq(FrameType)
        BY <2>3, RestIs DEF BackwardReturn, Leaving
      <3> QED BY <2>3, <3>1 DEF BackwardReturn, TypeOK, bdVars
    <2> QED BY <2>1, <2>2, <2>3 DEF BackwardStep
  <1> QED BY <1>0, <1>1, <1>3 DEF TypeOK, leakVars

CfgStep == CfgStart \/ NoSink \/ CfgOnPath \/ CfgOut \/ CfgLeave \/ CfgGo \/ CfgReturn \/ CheckNode

\* What stands below a frame that returns: the caller may have to stop.
Below == IF Len(stack) > 1 /\ reachOut THEN [Front(stack) EXCEPT ![Len(stack) - 1].edges = {}] ELSE Front(stack)

LEMMA BelowIs ==
  ASSUME TypeOK, stack # <<>>
  PROVE  /\ Below \in Seq(FrameType) /\ DOMAIN Below = 1 .. Len(stack) - 1
         /\ Len(stack) \in Nat \ {0} /\ DOMAIN stack = 1 .. Len(stack)
         /\ \A i \in 1 .. Len(stack) - 1 : Below[i].node = stack[i].node
  <1> DEFINE f == Front(stack)
  <1>1. /\ f \in Seq(FrameType) /\ Len(f) = Len(stack) - 1 /\ DOMAIN f = 1 .. Len(stack) - 1
        /\ Len(stack) \in Nat \ {0} /\ DOMAIN stack = 1 .. Len(stack)
        /\ (f = <<>> <=> Len(stack) = 1)
        /\ \A i \in 1 .. Len(stack) - 1 : f[i] = stack[i]
    BY Popped DEF TypeOK
  <1>2. CASE Len(stack) > 1 /\ reachOut
    <2>1. Below = WithEdges(f, {})
      BY <1>1, <1>2 DEF Below, WithEdges
    <2>2. f # <<>> /\ {} \in SUBSET g.edges
      BY <1>1, <1>2
    <2> HIDE DEF f
    <2>3. /\ WithEdges(f, {}) \in Seq(FrameType) /\ DOMAIN WithEdges(f, {}) = 1 .. Len(f)
          /\ \A i \in 1 .. Len(f) : WithEdges(f, {})[i].node = f[i].node
      BY <1>1, <2>2, WithEdgesIs
    <2> QED BY <1>1, <2>1, <2>3
  <1>3. CASE ~(Len(stack) > 1 /\ reachOut)
    BY <1>1, <1>3 DEF Below
  <1> QED BY <1>2, <1>3

\* Checking a way changes the verdict on it only.
LEMMA CheckEffect ==
  ASSUME CheckNode
  PROVE  /\ UNCHANGED <<g, phase, root, sinkSet, searchVars, fdVars, bdVars, reachType, crossFuncNum>>
         /\ reachOut' = reachOut \/ reachOut' \in BOOLEAN
  <1>1. UNCHANGED <<g, phase, root, sinkSet, searchVars, fdVars, bdVars, reachType, crossFuncNum>>
    BY DEF CheckNode
  <1>2. (~IsDeBranch) \in BOOLEAN
    OBVIOUS
  <1>3. PICK next : IF root \in ToSet(next) THEN reachOut' = FALSE /\ check' = <<>>
                    ELSE check' = next /\ reachOut' = IF next = <<>> THEN ~IsDeBranch ELSE reachOut
    BY DEF CheckNode
  <1>4. reachOut' \in {FALSE, ~IsDeBranch, reachOut}
    BY <1>3
  <1> QED BY <1>1, <1>2, <1>4

LEMMA CfgTyped == TypeOK /\ CfgStep /\ UNCHANGED leakVars => TypeOK'
  <1> SUFFICES ASSUME TypeOK, CfgStep, UNCHANGED leakVars PROVE TypeOK'
    OBVIOUS
  <1>0. g' = g /\ FrameType' = FrameType /\ Ids' = Ids
    BY DEF CfgStep, CfgStart, NoSink, CfgOnPath, CfgOut, CfgLeave, CfgGo, CfgReturn, CheckNode, FrameType, Ids
  <1>1. /\ UNCHANGED <<root, sinkSet, fdVars, bdVars>>
        /\ phase' = phase \/ (phase' \in {"path", "sliced"} /\ phase \in {"sinks", "path"})
        /\ reachType' \in {reachType, "none", "all"}
    <2>1. CASE CheckNode
      BY <2>1, CheckEffect DEF searchVars
    <2>2. CASE ~CheckNode
      BY <2>2 DEF CfgStep, CfgStart, NoSink, CfgOnPath, CfgOut, CfgLeave, CfgGo, CfgReturn, Leaving,
                  CfgInto, CfgEdge, Running
    <2> QED BY <2>1, <2>2
  <1>2. stack' \in Seq(FrameType) /\ visited' \subseteq Ids
    <2>1. CASE CfgStart
      <3>1. root \in Ids /\ visited' = {root} /\ stack' = <<CfgFrame(root, {root})>>
        BY <2>1 DEF CfgStart, TypeOK
      <3>2. <<CfgFrame(root, {root})>> \in Seq(FrameType)
        BY <3>1, FramesTyped, Single
      <3> QED BY <3>1, <3>2
    <2>2. CASE NoSink \/ CheckNode
      BY <2>2 DEF NoSink, CheckNode, searchVars, TypeOK
    <2>3. CASE CfgOnPath \/ CfgOut \/ CfgLeave
      BY <2>3, RestIs DEF CfgOnPath, CfgOut, CfgLeave, CfgInto, CfgEdge, Running, TypeOK
    <2>4. CASE CfgGo
      <3>1. stack # <<>> /\ Top.edges # {}
        BY <2>4 DEF CfgGo, CfgInto, CfgEdge, Running
      <3>2. Edge[3] \in Ids /\ Rest \in Seq(FrameType) /\ Break \in Seq(FrameType)
        BY <3>1, EdgeOfTop, RestIs
      <3>3. \A s \in Seq(FrameType) : \A path : Append(s, CfgFrame(Edge[3], path)) \in Seq(FrameType)
        BY <3>2, FramesTyped, Pushed
      <3> QED BY <2>4, <3>2, <3>3 DEF CfgGo, CfgCall, TypeOK
    <2>5. CASE CfgReturn
      <3>1. stack # <<>> /\ stack' = Below /\ visited' \subseteq visited
        BY <2>5 DEF CfgReturn, Leaving, Below
      <3> QED BY <3>1, BelowIs DEF TypeOK
    <2> QED BY <2>1, <2>2, <2>3, <2>4, <2>5 DEF CfgStep
  <1>3. reachOut' \in BOOLEAN /\ crossFuncNum' \in Nat
    <2>1. reachOut \in BOOLEAN /\ crossFuncNum \in Nat
      BY DEF TypeOK
    <2>2. CASE CheckNode
      BY <2>1, <2>2, CheckEffect
    <2>3. CASE CfgGo
      BY <2>1, <2>3 DEF CfgGo
    <2>4. CASE CfgStart \/ CfgLeave \/ CfgOut
      <3>1. reachOut' \in {TRUE, FALSE, reachOut}
        BY <2>4 DEF CfgStart, CfgLeave, CfgOut
      <3>2. crossFuncNum' \in {0, crossFuncNum}
        BY <2>4 DEF CfgStart, CfgLeave, CfgOut
      <3>3. reachOut \in BOOLEAN
        BY <2>1
      <3>4. reachOut' \in BOOLEAN
        BY ONLY <3>1, <3>3, Zenon
      <3>5. crossFuncNum \in Nat
        BY <2>1
      <3>6. crossFuncNum' \in Nat
        BY <3>2, <3>5
      <3> QED BY <3>4, <3>6
    <2>5. CASE NoSink \/ CfgOnPath \/ CfgReturn
      BY <2>1, <2>5 DEF NoSink, CfgOnPath, CfgReturn, outVars
    <2> QED BY <2>2, <2>3, <2>4, <2>5 DEF CfgStep
  <1> QED BY <1>0, <1>1, <1>2, <1>3 DEF TypeOK, leakVars, fdVars, bdVars

LEMMA DetectorTyped ==
  TypeOK /\ (TakeSite \/ TakeSource \/ AddCaller \/ CollectSinks \/ NextSource \/ ReportBug) => TypeOK'
  <1> SUFFICES ASSUME TypeOK, TakeSite \/ TakeSource \/ AddCaller \/ CollectSinks \/ NextSource \/ ReportBug
               PROVE  TypeOK'
    OBVIOUS
  <1>0. g' = g /\ FrameType' = FrameType /\ Ids' = Ids
    BY DEF TakeSite, TakeSource, AddCaller, CollectSinks, NextSource, StartSlice, ReportBug, FrameType, Ids
  <1>1. CASE TakeSite
    <2>1. PICK n \in todo : todo' = todo \ {n} /\ queue' = <<n>>
      BY <1>1 DEF TakeSite
    <2>2. <<n>> \in Seq(Ids)
      BY DEF TypeOK
    <2> QED BY <1>0, <1>1, <2>1, <2>2 DEF TakeSite, TypeOK, sliceVars, searchVars, fdVars, bdVars, outVars
  <1>2. CASE TakeSource
    <2>1. queue \in Seq(Ids) /\ queue # <<>>
      BY <1>2 DEF TakeSource, TypeOK
    <2>2. Head(queue) \in Ids /\ Tail(queue) \in Seq(Ids)
      BY <2>1, HeadTailProperties
    <2>3. \A r : CallersOf(r) \subseteq g.edges
      BY DEF CallersOf, OutEdges
    <2>4. callers' \subseteq g.edges
      BY <1>2, <2>3 DEF TakeSource, TypeOK
    <2>5. srcSet' \subseteq Ids /\ srcSet \subseteq srcSet'
      BY <1>2, <2>2 DEF TakeSource, TypeOK
    <2> QED BY <1>0, <1>2, <2>2, <2>4, <2>5 DEF TakeSource, TypeOK, sliceVars, searchVars, fdVars, bdVars, outVars
  <1>3. CASE AddCaller
    <2>1. callers # {} /\ callers \in SUBSET g.edges /\ callers \in SUBSET (Nat \X Nat \X Nat)
      BY <1>3, GraphType DEF AddCaller, TypeOK
    <2>2. First(callers)[3] \in Ids
      BY <2>1, FirstIn, GraphType DEF TypeOK
    <2>3. queue \in Seq(Ids)
      BY DEF TypeOK
    <2>4. Append(queue, First(callers)[3]) \in Seq(Ids)
      BY <2>2, <2>3, AppendProperties
    <2>5. queue' \in Seq(Ids)
      BY <1>3, <2>3, <2>4 DEF AddCaller
    <2>6. callers' \subseteq g.edges
      BY <1>3, <2>1 DEF AddCaller
    <2> QED BY <1>0, <1>3, <2>5, <2>6 DEF AddCaller, TypeOK, sliceVars, searchVars, fdVars, bdVars, outVars
  <1>4. CASE CollectSinks
    <2>1. Node = Ids
      BY GraphType DEF TypeOK
    <2>2. sinks' = sinks /\ forward' = forward
      BY <1>4 DEF CollectSinks, fdVars, TypeOK
    <2> QED BY <1>0, <1>4, <2>1, <2>2 DEF CollectSinks, TypeOK, searchVars, fdVars, bdVars, outVars
  <1>5. CASE NextSource
    <2>1. PICK n \in toSlice : toSlice' = toSlice \ {n} /\ StartSlice(n)
      BY <1>5 DEF NextSource
    <2>2. n \in Ids
      BY DEF TypeOK
    <2>3. <<Frame(n, OutEdges(n, EA_DD))>> \in Seq(FrameType)
      BY <2>2, FramesTyped, Single
    <2>4. /\ toSinks' = {} /\ sinks' = {} /\ forward' = {} /\ backward' = {} /\ fdFuncs' = {} /\ bdFuncs' = {}
          /\ pathFuncs' = {} /\ reachType' = "none" /\ reachOut' = FALSE /\ crossFuncNum' = 0
          /\ root' = n /\ visited' = {n} /\ stack' \in Seq(FrameType) /\ maxId' \in [Func -> Nat]
          /\ phase' = "forward" /\ sinkSet' = sinkSet
      BY <2>1, <2>3 DEF StartSlice
    <2> QED BY <1>0, <1>5, <2>1, <2>2, <2>4 DEF NextSource, TypeOK
  <1>6. CASE ReportBug
    BY <1>0, <1>6 DEF ReportBug, TypeOK, searchVars, fdVars, bdVars, outVars
  <1> QED BY <1>1, <1>2, <1>3, <1>4, <1>5, <1>6

\* Every variable keeps its type: the frames of the searches hold nodes and
\* edges of the graph, and the sinks are among what the forward search met.
LEMMA StepTyped == TypeOK /\ [Next]_vars => TypeOK'
  <1> SUFFICES ASSUME TypeOK, [Next]_vars PROVE TypeOK'
    OBVIOUS
  <1>1. CASE Slice
    <2>1. UNCHANGED leakVars
      BY <1>1 DEF Slice
    <2>2. \/ ForwardVisited \/ ForwardBack \/ Forward \/ ForwardReturn
          \/ BackwardStep \/ CfgStep
      BY <1>1 DEF Slice, SliceStep, BackwardStep, CfgStep
    <2> QED BY <2>1, <2>2, ForwardTyped, BackwardTyped, CfgTyped
  <1>2. CASE UNCHANGED vars
    <2>1. FrameType' = FrameType /\ Ids' = Ids
      BY GraphStays
    <2> QED BY <1>2, <2>1 DEF TypeOK, vars, sliceVars, searchVars, fdVars, bdVars, outVars, leakVars
  <1> QED BY <1>1, <1>2, DetectorTyped DEF Next, Go, Finish

THEOREM TypeCorrect == Spec => []TypeOK
  <1> QED BY InitTyped, StepTyped, PTL DEF Spec

-----------------------------------------------------------------------------
(* The way of the control flow search *)

Nodes(s) == {s[i].node : i \in DOMAIN s}
Distinct(s) == \A i, j \in DOMAIN s : s[i].node = s[j].node => i = j

LEMMA NodesWithEdges ==
  ASSUME NEW s \in Seq(FrameType), s # <<>>, NEW E \in SUBSET g.edges
  PROVE  /\ Nodes(WithEdges(s, E)) = Nodes(s)
         /\ Distinct(s) => Distinct(WithEdges(s, E))
  <1>1. /\ DOMAIN WithEdges(s, E) = DOMAIN s
        /\ \A i \in DOMAIN s : WithEdges(s, E)[i].node = s[i].node
    BY WithEdgesIs, LenProperties
  <1> QED BY <1>1 DEF Nodes, Distinct

LEMMA NodesPushed ==
  ASSUME NEW s \in Seq(FrameType), NEW f \in FrameType
  PROVE  /\ Nodes(Append(s, f)) = Nodes(s) \cup {f.node}
         /\ Distinct(s) /\ f.node \notin Nodes(s) => Distinct(Append(s, f))
  <1> DEFINE t == Append(s, f)
             n == Len(s) + 1
  <1>1. /\ DOMAIN s = 1 .. Len(s) /\ DOMAIN t = 1 .. n /\ Len(s) \in Nat
        /\ \A i \in 1 .. Len(s) : t[i] = s[i]
        /\ t[n] = f
    BY Pushed
  <1>2. DOMAIN t = DOMAIN s \cup {n} /\ n \notin DOMAIN s
    BY <1>1
  <1>3. \A i \in DOMAIN s : t[i] = s[i]
    BY <1>1
  <1>4. t[n] = f
    BY <1>1
  <1> HIDE DEF t, n
  <1>5. Nodes(t) = Nodes(s) \cup {f.node}
    BY <1>2, <1>3, <1>4 DEF Nodes
  <1>6. Distinct(s) /\ f.node \notin Nodes(s) => Distinct(t)
    BY <1>2, <1>3, <1>4 DEF Nodes, Distinct
  <1> QED BY <1>5, <1>6 DEF t

LEMMA NodesBelow ==
  ASSUME TypeOK, stack # <<>>, Distinct(stack)
  PROVE  Nodes(Below) = Nodes(stack) \ {Top.node} /\ Distinct(Below)
  <1> DEFINE n == Len(stack)
  <1>1. /\ DOMAIN Below = 1 .. n - 1 /\ DOMAIN stack = 1 .. n /\ n \in Nat \ {0}
        /\ \A i \in 1 .. n - 1 : Below[i].node = stack[i].node
    BY BelowIs
  <1>2. DOMAIN stack = DOMAIN Below \cup {n} /\ n \notin DOMAIN Below
    BY <1>1
  <1>3. \A i \in DOMAIN Below : Below[i].node = stack[i].node
    BY <1>1
  <1>4. Top.node = stack[n].node
    BY DEF Top
  <1> HIDE DEF n
  <1> QED BY <1>2, <1>3, <1>4 DEF Nodes, Distinct

LEMMA NodesCounted ==
  ASSUME NEW s \in Seq(FrameType), Distinct(s)
  PROVE  Cardinality(Nodes(s)) = Len(s)
  <1> DEFINE n == Len(s)
             f == [i \in 1 .. n |-> s[i].node]
  <1>1. n \in Nat /\ DOMAIN s = 1 .. n
    BY LenProperties
  <1>2. f \in Bijection(1 .. n, Nodes(s))
    BY <1>1 DEF Bijection, Injection, Surjection, IsInjective, Nodes, Distinct
  <1>3. ExistsBijection(1 .. n, Nodes(s))
    BY <1>2 DEF ExistsBijection
  <1> HIDE DEF n
  <1>4. Cardinality(Nodes(s)) = n
    BY <1>1, <1>3, FS_CountingElements
  <1> QED BY <1>4 DEF n

\* While the control flow search runs, its way is the nodes of its calls, no
\* two of them the same.
WayIsCalls ==
  phase = "path" => visited = Nodes(stack) /\ Distinct(stack)

LEMMA WayCfg == TypeOK /\ WayIsCalls /\ CfgStep => WayIsCalls'
  <1> SUFFICES ASSUME TypeOK, WayIsCalls, CfgStep, phase' = "path"
               PROVE  visited' = Nodes(stack') /\ Distinct(stack')
    BY DEF WayIsCalls
  <1>1. CASE CfgStart
    <2> DEFINE f == CfgFrame(root, {root})
    <2>1. root \in Ids /\ visited' = {root} /\ stack' = <<f>>
      BY <1>1 DEF CfgStart, TypeOK
    <2>2. f \in FrameType /\ f.node = root
      BY <2>1, FramesTyped
    <2>3. DOMAIN <<f>> = {1} /\ <<f>>[1] = f
      BY <2>2, Single
    <2> HIDE DEF f
    <2> QED BY <2>1, <2>2, <2>3 DEF Nodes, Distinct
  <1>2. CASE NoSink
    BY <1>2 DEF NoSink
  <1>3. CASE CheckNode
    BY <1>3, CheckEffect DEF WayIsCalls, searchVars
  <1>4. ASSUME stack # <<>>, phase = "path"
        PROVE  /\ Rest \in Seq(FrameType) /\ Break \in Seq(FrameType)
               /\ Nodes(Rest) = visited /\ Distinct(Rest) /\ Nodes(Break) = visited /\ Distinct(Break)
    <2>1. /\ Rest = WithEdges(stack, Top.edges \ {Edge}) /\ Break = WithEdges(stack, {})
          /\ Rest \in Seq(FrameType) /\ Break \in Seq(FrameType)
      BY <1>4, RestIs
    <2>2. visited = Nodes(stack) /\ Distinct(stack)
      BY <1>4 DEF WayIsCalls
    <2>3. stack \in Seq(FrameType) /\ Top.edges \ {Edge} \in SUBSET g.edges /\ {} \in SUBSET g.edges
      BY <1>4, TopFrame DEF TypeOK
    <2> QED BY <1>4, <2>1, <2>2, <2>3, NodesWithEdges
  <1>5. CASE CfgOnPath \/ CfgOut \/ CfgLeave
    <2>1. stack # <<>> /\ phase = "path" /\ stack' \in {Rest, Break} /\ visited' = visited
      BY <1>5 DEF CfgOnPath, CfgOut, CfgLeave, CfgInto, CfgEdge, Running
    <2> QED BY <1>4, <2>1
  <1>6. CASE CfgGo
    <2>1. stack # <<>> /\ phase = "path" /\ Top.edges # {} /\ Edge[3] \notin visited
      BY <1>6 DEF CfgGo, CfgInto, CfgEdge, Running
    <2>2. Edge[3] \in Ids
      BY <2>1, EdgeOfTop
    <2>3. CASE stack' \in {Rest, Break} /\ visited' = visited
      BY <1>4, <2>1, <2>3
    <2>4. CASE \E frames \in {Rest, Break} : /\ stack' = Append(frames, CfgFrame(Edge[3], visited \cup {Edge[3]}))
                                            /\ visited' = visited \cup {Edge[3]}
      <3>1. PICK frames \in {Rest, Break} :
                   /\ stack' = Append(frames, CfgFrame(Edge[3], visited \cup {Edge[3]}))
                   /\ visited' = visited \cup {Edge[3]}
        BY <2>4
      <3>2. CfgFrame(Edge[3], visited \cup {Edge[3]}) \in FrameType /\ CfgFrame(Edge[3], visited \cup {Edge[3]}).node = Edge[3]
        BY <2>2, FramesTyped
      <3>3. frames \in Seq(FrameType) /\ Nodes(frames) = visited /\ Distinct(frames)
        BY <1>4, <2>1
      <3> QED BY <2>1, <3>1, <3>2, <3>3, NodesPushed
    <2> QED BY <1>6, <2>3, <2>4 DEF CfgGo, CfgCall
  <1>7. CASE CfgReturn
    <2>1. phase = "path" /\ stack # <<>> /\ stack' = Below /\ visited' = visited \ {Top.node}
      BY <1>7 DEF CfgReturn, Leaving, Below
    <2> QED BY <2>1, NodesBelow DEF WayIsCalls
  <1> QED BY <1>1, <1>2, <1>3, <1>5, <1>6, <1>7 DEF CfgStep

LEMMA WayStep == TypeOK /\ WayIsCalls /\ [Next]_vars => WayIsCalls'
  <1> SUFFICES ASSUME TypeOK, WayIsCalls, [Next]_vars PROVE WayIsCalls'
    OBVIOUS
  <1>1. CASE CfgStep
    BY <1>1, WayCfg
  <1>2. CASE ForwardVisited \/ ForwardBack \/ Forward \/ ForwardReturn \/ BackwardStep
    <2>1. phase' # "path"
      BY <1>2 DEF ForwardVisited, ForwardBack, Forward, ForwardReturn, BackwardStep, BackwardStart, BackwardHit,
           Backward, BackwardReturn, Running, Leaving
    <2> QED BY <2>1 DEF WayIsCalls
  <1>3. CASE TakeSite \/ TakeSource \/ AddCaller \/ CollectSinks \/ NextSource \/ ReportBug
    <2>1. phase' # "path"
      BY <1>3 DEF TakeSite, TakeSource, AddCaller, CollectSinks, NextSource, StartSlice, ReportBug, sliceVars
    <2> QED BY <2>1 DEF WayIsCalls
  <1>4. CASE UNCHANGED vars
    BY <1>4 DEF WayIsCalls, vars, sliceVars, searchVars
  <1> QED BY <1>1, <1>2, <1>3, <1>4 DEF Next, Go, Finish, Slice, SliceStep, CfgStep, BackwardStep

\* Way holds exactly the nodes whose call of CfgPathDfs has not returned, for
\* every dependence graph: a node is never entered again while it is on the
\* way, and none is left behind.
THEOREM WayIsTheCalls == Spec => []PathIsStack
  <1>1. Init => WayIsCalls
    BY DEF Init, WayIsCalls
  <1>2. TypeOK /\ WayIsCalls => PathIsStack
    <2> SUFFICES ASSUME TypeOK, WayIsCalls, phase = "path"
                 PROVE  visited = Nodes(stack) /\ Cardinality(visited) = Len(stack)
      BY DEF PathIsStack, Nodes
    <2> QED BY NodesCounted DEF WayIsCalls, TypeOK
  <1> QED BY <1>1, <1>2, TypeCorrect, WayStep, PTL DEF Spec

-----------------------------------------------------------------------------
(* The edges left to the searches along data dependences *)

Pending(s) == UNION {s[i].edges : i \in DOMAIN s}
OutFrames(s, V) ==
  \A i \in DOMAIN s : s[i].node \in V /\ s[i].edges \subseteq OutEdges(s[i].node, EA_DD)

LEMMA PendingRest ==
  ASSUME TypeOK, stack # <<>>
  PROVE  /\ \A e \in Pending(stack) : e = Edge \/ e \in Pending(Rest)
         /\ \A V : OutFrames(stack, V) => OutFrames(Rest, V) /\ OutFrames(Break, V)
  <1> DEFINE n == Len(stack)
  <1>1. stack \in Seq(FrameType) /\ Top.edges \ {Edge} \in SUBSET g.edges /\ {} \in SUBSET g.edges
    BY TopFrame DEF TypeOK
  <1>2. Rest = WithEdges(stack, Top.edges \ {Edge}) /\ Break = WithEdges(stack, {})
    BY RestIs
  <1>3. n \in Nat \ {0} /\ DOMAIN stack = 1 .. n /\ Top = stack[n]
    BY TopFrame DEF Top
  <1>4. \A E \in SUBSET g.edges :
          /\ DOMAIN WithEdges(stack, E) = 1 .. n
          /\ \A i \in 1 .. n : WithEdges(stack, E)[i].node = stack[i].node
          /\ \A i \in 1 .. n - 1 : WithEdges(stack, E)[i] = stack[i]
          /\ WithEdges(stack, E)[n].edges = E
    BY <1>1, WithEdgesIs
  <1>5. \A i \in 1 .. n : i \in 1 .. n - 1 \/ i = n
    <2>1. n \in Nat
      BY <1>3
    <2> HIDE DEF n
    <2> QED BY <2>1
  <1>6. n \in 1 .. n /\ 1 .. n - 1 \subseteq 1 .. n
    BY <1>3
  <1> HIDE DEF n
  <1>7. ASSUME NEW e \in Pending(stack), e # Edge PROVE e \in Pending(Rest)
    <2>1. PICK i \in 1 .. n : e \in stack[i].edges
      BY <1>3 DEF Pending
    <2>2. e \in Rest[i].edges
      BY <1>1, <1>2, <1>3, <1>4, <1>5, <1>7, <2>1
    <2>3. i \in DOMAIN Rest
      BY <1>1, <1>2, <1>4
    <2> QED BY <2>2, <2>3 DEF Pending
  <1>8. ASSUME NEW V, OutFrames(stack, V), NEW E \in SUBSET Top.edges PROVE OutFrames(WithEdges(stack, E), V)
    <2>1. E \in SUBSET g.edges
      BY <1>1, TopFrame
    <2>2. ASSUME NEW i \in 1 .. n
          PROVE  /\ WithEdges(stack, E)[i].node = stack[i].node
                 /\ WithEdges(stack, E)[i].edges \subseteq stack[i].edges
      BY <1>3, <1>4, <1>5, <2>1
    <2> QED BY <1>3, <1>4, <1>8, <2>1, <2>2 DEF OutFrames
  <1> QED BY <1>2, <1>7, <1>8

LEMMA PendingPushed ==
  ASSUME NEW s \in Seq(FrameType), NEW f \in FrameType
  PROVE  /\ Pending(Append(s, f)) = Pending(s) \cup f.edges
         /\ \A V, W : OutFrames(s, V) /\ V \subseteq W /\ f.node \in W /\ f.edges \subseteq OutEdges(f.node, EA_DD)
                        => OutFrames(Append(s, f), W)
  <1> DEFINE t == Append(s, f)
             n == Len(s) + 1
  <1>1. /\ DOMAIN s = 1 .. Len(s) /\ DOMAIN t = 1 .. n /\ Len(s) \in Nat
        /\ \A i \in 1 .. Len(s) : t[i] = s[i]
        /\ t[n] = f
    BY Pushed
  <1>2. DOMAIN t = DOMAIN s \cup {n}
    BY <1>1
  <1>3. (\A i \in DOMAIN s : t[i] = s[i]) /\ t[n] = f
    BY <1>1
  <1> HIDE DEF t, n
  <1>4. Pending(t) = Pending(s) \cup f.edges
    <2>1. \A e : e \in Pending(t) <=> \E i \in DOMAIN t : e \in t[i].edges
      BY DEF Pending
    <2>2. \A e : e \in Pending(s) <=> \E i \in DOMAIN s : e \in s[i].edges
      BY DEF Pending
    <2>3. \A e : e \in Pending(t) <=> e \in Pending(s) \/ e \in f.edges
      BY <1>2, <1>3, <2>1, <2>2
    <2> QED BY <2>3
  <1>5. \A V, W : OutFrames(s, V) /\ V \subseteq W /\ f.node \in W /\ f.edges \subseteq OutEdges(f.node, EA_DD)
                    => OutFrames(t, W)
    BY <1>2, <1>3 DEF OutFrames
  <1> QED BY <1>4, <1>5 DEF t

LEMMA PendingSingle ==
  ASSUME NEW f \in FrameType
  PROVE  Pending(<<f>>) = f.edges
  <1>1. DOMAIN <<f>> = {1} /\ <<f>>[1] = f
    BY Single
  <1> QED BY <1>1 DEF Pending

LEMMA PendingPopped ==
  ASSUME TypeOK, stack # <<>>, Top.edges = {}
  PROVE  /\ Pending(Front(stack)) = Pending(stack)
         /\ Len(stack) = 1 => Pending(stack) = {}
         /\ \A V : OutFrames(stack, V) => OutFrames(Front(stack), V)
  <1> DEFINE n == Len(stack)
             f == Front(stack)
  <1>1. /\ n \in Nat \ {0} /\ DOMAIN f = 1 .. n - 1 /\ DOMAIN stack = 1 .. n
        /\ \A i \in 1 .. n - 1 : f[i] = stack[i]
    BY Popped DEF TypeOK
  <1>2. DOMAIN stack = DOMAIN f \cup {n} /\ (n = 1 => DOMAIN f = {})
    BY <1>1
  <1>3. (\A i \in DOMAIN f : f[i] = stack[i]) /\ stack[n].edges = {}
    BY <1>1 DEF Top
  <1> HIDE DEF n, f
  <1>4. \A e : e \in Pending(f) <=> e \in Pending(stack)
    <2>1. \A e : e \in Pending(stack) <=> \E i \in DOMAIN stack : e \in stack[i].edges
      BY DEF Pending
    <2>2. \A e : e \in Pending(f) <=> \E i \in DOMAIN f : e \in f[i].edges
      BY DEF Pending
    <2> QED BY <1>2, <1>3, <2>1, <2>2
  <1>5. n = 1 => Pending(stack) = {}
    BY <1>2, <1>3 DEF Pending
  <1>6. \A V : OutFrames(stack, V) => OutFrames(f, V)
    BY <1>2, <1>3 DEF OutFrames
  <1> QED BY <1>4, <1>5, <1>6 DEF f, n

-----------------------------------------------------------------------------
(* The forward and the backward slice *)

Slicing == phase \in {"forward", "sinks", "backward", "path", "sliced"}

\* Every node of the forward slice is reached from the root within the slice:
\* it is in every set that has the root and is closed under its edges.
ClosedIn(S) ==
  root \in S /\ \A e \in DataEdges : e[2] \in S \cap (forward \cup {root}) /\ e[3] \in forward => e[3] \in S
Chained == \A S \in SUBSET Ids : ClosedIn(S) => forward \subseteq S

ForwardInv ==
  Slicing =>
    /\ root \notin forward /\ \A n \in forward : Fun(n) \in fdFuncs
    /\ Chained
    /\ phase = "forward" =>
         /\ backward = {}
         /\ root \in visited /\ visited \subseteq forward \cup {root}
         /\ OutFrames(stack, visited)

\* While it goes back from s, the search has reached the slice, or each edge
\* that leads to what it visited is done or left to one of its calls.
Pursued(s) ==
  /\ s \in sinks /\ s \in visited /\ sinks \ toSinks \subseteq backward \cup {s}
  /\ s \in backward \/ \A e \in DataEdges : e[3] \in visited /\ e[2] \in forward \cup {root} =>
                           e[2] \in visited \/ e \in Pending(stack)

BackwardInv ==
  /\ Slicing /\ backward # {} => root \in backward
  /\ phase = "sinks" => sinks \ toSinks \subseteq backward
  /\ phase = "backward" => visited \subseteq forward /\ \E s \in sinks : Pursued(s)
  /\ phase \in {"path", "sliced"} => sinks \subseteq backward

ForwardStep == ForwardVisited \/ ForwardBack \/ Forward \/ ForwardReturn

LEMMA EdgeForward ==
  ASSUME TypeOK, stack # <<>>, Top.edges # {}, NEW V, OutFrames(stack, V)
  PROVE  Edge \in DataEdges /\ Edge[2] \in V
  <1>1. Edge \in Top.edges /\ Edge \in g.edges
    BY EdgeOfTop
  <1>2. Len(stack) \in DOMAIN stack
    BY TopFrame
  <1>3. Top.node \in V /\ Top.edges \subseteq OutEdges(Top.node, EA_DD)
    BY <1>2 DEF OutFrames, Top
  <1> QED BY <1>1, <1>3 DEF OutEdges, DataEdges

LEMMA ForwardForward == TypeOK /\ ForwardInv /\ ForwardStep => ForwardInv'
  <1> SUFFICES ASSUME TypeOK, ForwardInv, ForwardStep PROVE ForwardInv'
    OBVIOUS
  <1>0. /\ g' = g /\ root' = root /\ Ids' = Ids /\ DataEdges' = DataEdges /\ backward' = backward
        /\ stack # <<>> /\ phase = "forward" /\ phase' \in {"forward", "sinks"}
    BY DEF ForwardStep, ForwardVisited, ForwardBack, Forward, ForwardReturn, Running, Leaving, bdVars, Ids, DataEdges
  <1>1. /\ root \notin forward /\ \A n \in forward : Fun(n) \in fdFuncs
        /\ Chained /\ backward = {}
        /\ root \in visited /\ visited \subseteq forward \cup {root}
        /\ OutFrames(stack, visited)
    BY <1>0 DEF ForwardInv, Slicing
  <1>2. OutFrames(Rest, visited) /\ OutFrames(Break, visited)
    BY <1>0, <1>1, PendingRest
  <1>3. OutFrames(stack, visited)' <=> OutFrames(stack', visited')
    BY <1>0 DEF OutFrames, OutEdges
  <1>4. CASE ForwardVisited \/ ForwardBack
    <2>1. UNCHANGED <<visited, forward, fdFuncs, phase>> /\ stack' = Rest
      BY <1>4 DEF ForwardVisited, ForwardBack, fdVars
    <2>2. Chained'
      BY <1>0, <1>1, <2>1 DEF Chained, ClosedIn
    <2>3. OutFrames(stack, visited)'
      BY <1>2, <1>3, <2>1
    <2>4. \A n \in forward' : Fun(n)' \in fdFuncs'
      BY <1>0, <1>1, <2>1 DEF Fun
    <2> QED BY <1>0, <1>1, <2>1, <2>2, <2>3, <2>4 DEF ForwardInv
  <1>5. CASE Forward
    <2>1. /\ Top.edges # {} /\ Edge[3] \notin visited /\ phase' = phase
          /\ forward' = forward \cup {Edge[3]} /\ fdFuncs' = fdFuncs \cup {Fun(Edge[3])}
          /\ \/ stack' = Break /\ visited' = visited
             \/ /\ stack' = Append(Rest, Frame(Edge[3], OutEdges(Edge[3], EA_DD)))
                /\ visited' = visited \cup {Edge[3]}
      BY <1>5 DEF Forward, Running
    <2>2. Edge \in DataEdges /\ Edge[2] \in visited
      BY <1>0, <1>1, <2>1, EdgeForward
    <2>3. ASSUME NEW S \in SUBSET Ids, ClosedIn(S)' PROVE forward' \subseteq S
      <3>1. root \in S /\ \A e \in DataEdges : e[2] \in S \cap (forward' \cup {root}) /\ e[3] \in forward' => e[3] \in S
        BY <1>0, <2>3 DEF ClosedIn
      <3>2. ClosedIn(S)
        BY <2>1, <3>1 DEF ClosedIn
      <3>3. forward \subseteq S
        BY <1>1, <3>2 DEF Chained
      <3>4. Edge[2] \in S \cap (forward \cup {root})
        BY <1>1, <2>2, <3>1, <3>3
      <3> QED BY <2>1, <2>2, <3>1, <3>3, <3>4
    <2>4. Chained'
      BY <1>0, <2>3 DEF Chained
    <2>5. OutFrames(stack, visited)'
      <3>1. CASE stack' = Break /\ visited' = visited
        BY <1>2, <1>3, <3>1
      <3>2. CASE /\ stack' = Append(Rest, Frame(Edge[3], OutEdges(Edge[3], EA_DD)))
                 /\ visited' = visited \cup {Edge[3]}
        <4> DEFINE f == Frame(Edge[3], OutEdges(Edge[3], EA_DD))
        <4>1. Edge[3] \in Ids
          BY <1>0, <2>1, EdgeOfTop
        <4>2. f \in FrameType /\ f.node = Edge[3] /\ f.edges = OutEdges(Edge[3], EA_DD)
          BY <4>1, FramesTyped DEF Frame
        <4>3. Rest \in Seq(FrameType)
          BY <1>0, RestIs
        <4> HIDE DEF f
        <4>4. OutFrames(Append(Rest, f), visited \cup {Edge[3]})
          BY <1>2, <4>2, <4>3, PendingPushed
        <4> QED BY <1>3, <3>2, <4>4 DEF f
      <3> QED BY <2>1, <3>1, <3>2
    <2>6. \A n \in forward' : Fun(n)' \in fdFuncs'
      BY <1>0, <1>1, <2>1 DEF Fun
    <2>7. root \notin forward' /\ root \in visited' /\ visited' \subseteq forward' \cup {root}
      BY <1>1, <2>1
    <2> QED BY <1>0, <1>1, <2>4, <2>5, <2>6, <2>7 DEF ForwardInv
  <1>6. CASE ForwardReturn
    <2>1. Top.edges = {} /\ UNCHANGED <<visited, forward, fdFuncs>> /\ stack' = Front(stack)
      BY <1>6 DEF ForwardReturn, Leaving, fdVars
    <2>2. Chained'
      BY <1>0, <1>1, <2>1 DEF Chained, ClosedIn
    <2>3. OutFrames(stack, visited)'
      BY <1>0, <1>1, <1>3, <2>1, PendingPopped
    <2>4. \A n \in forward' : Fun(n)' \in fdFuncs'
      BY <1>0, <1>1, <2>1 DEF Fun
    <2> QED BY <1>0, <1>1, <2>1, <2>2, <2>3, <2>4 DEF ForwardInv
  <1> QED BY <1>4, <1>5, <1>6 DEF ForwardStep

LEMMA ForwardStarts == TypeOK /\ NextSource => ForwardInv' /\ BackwardInv'
  <1> SUFFICES ASSUME TypeOK, NextSource PROVE ForwardInv' /\ BackwardInv'
    OBVIOUS
  <1>1. PICK n \in toSlice : StartSlice(n)
    BY DEF NextSource
  <1>2. /\ g' = g /\ root' = n /\ forward' = {} /\ backward' = {} /\ phase' = "forward" /\ visited' = {n}
        /\ stack' = <<Frame(n, OutEdges(n, EA_DD))>> /\ n \in Ids
    BY <1>1 DEF StartSlice, TypeOK
  <1> DEFINE f == Frame(n, OutEdges(n, EA_DD))
  <1>3. f \in FrameType /\ f.node = n /\ f.edges = OutEdges(n, EA_DD)
    BY <1>2, FramesTyped DEF Frame
  <1>4. DOMAIN <<f>> = {1} /\ <<f>>[1] = f /\ stack' = <<f>>
    BY <1>2, <1>3, Single
  <1> HIDE DEF f
  <1>5. OutFrames(stack', {n})
    BY <1>3, <1>4 DEF OutFrames
  <1>6. OutFrames(stack, visited)' <=> OutFrames(stack', visited')
    BY <1>2 DEF OutFrames, OutEdges
  <1>7. Chained'
    BY <1>2 DEF Chained, ClosedIn
  <1>8. ForwardInv'
    BY <1>2, <1>5, <1>6, <1>7 DEF ForwardInv
  <1>9. BackwardInv'
    BY <1>2 DEF BackwardInv
  <1> QED BY <1>8, <1>9

\* Back at the start with nothing left, the search has reached the root: else
\* the rest of the nodes would be closed, and without the sink.
LEMMA Reached ==
  ASSUME TypeOK, Chained, NEW s \in forward, s \in visited, root \notin forward, root \in Ids,
         visited \subseteq forward, Pending(stack) = {}, Pursued(s)
  PROVE  s \in backward
  <1> SUFFICES ASSUME s \notin backward PROVE FALSE
    OBVIOUS
  <1>1. \A e \in DataEdges : e[3] \in visited /\ e[2] \in forward \cup {root} => e[2] \in visited
    BY DEF Pursued
  <1> DEFINE S == Ids \ visited
  <1>2. \A e \in DataEdges : e[2] \in Ids /\ e[3] \in Ids
    BY GraphType DEF TypeOK, DataEdges
  <1>3. ClosedIn(S)
    BY <1>1, <1>2 DEF ClosedIn
  <1>4. forward \subseteq S
    BY <1>3 DEF Chained
  <1> QED BY <1>4

LEMMA BackwardBackward == TypeOK /\ ForwardInv /\ BackwardInv /\ BackwardStep => BackwardInv'
  <1> SUFFICES ASSUME TypeOK, ForwardInv, BackwardInv, BackwardStep PROVE BackwardInv'
    OBVIOUS
  <1>0. /\ UNCHANGED <<g, root, sinks, forward, fdFuncs>> /\ DataEdges' = DataEdges
        /\ phase \in {"sinks", "backward"} /\ phase' \in {"sinks", "backward"} /\ root \in Ids
    BY DEF BackwardStep, BackwardStart, BackwardHit, Backward, BackwardReturn, Running, Leaving, fdVars, DataEdges, TypeOK
  <1>1. /\ root \notin forward /\ Chained /\ \A n \in forward : Fun(n) \in fdFuncs
        /\ backward # {} => root \in backward
    BY <1>0 DEF ForwardInv, BackwardInv, Slicing
  <1>2. CASE BackwardStart
    <2>1. PICK s \in toSinks : /\ toSinks' = toSinks \ {s} /\ visited' = {s} /\ backward' = backward
                               /\ stack' = <<Frame(s, InEdges(s, EA_DD))>>
                               /\ phase = "sinks" /\ phase' = "backward"
      BY <1>2 DEF BackwardStart
    <2>2. s \in sinks /\ s \in forward /\ s \in Ids
      BY DEF TypeOK
    <2> DEFINE f == Frame(s, InEdges(s, EA_DD))
    <2>3. f \in FrameType /\ f.edges = InEdges(s, EA_DD)
      BY <2>2, FramesTyped DEF Frame
    <2>4. Pending(<<f>>) = InEdges(s, EA_DD)
      BY <2>3, PendingSingle
    <2> HIDE DEF f
    <2>5. stack' = <<f>>
      BY <2>1 DEF f
    <2>6. \A e \in DataEdges : e[3] \in visited' => e \in Pending(stack')
      BY <2>1, <2>4, <2>5 DEF InEdges, DataEdges
    <2>7. sinks \ toSinks \subseteq backward
      BY <2>1 DEF BackwardInv
    <2>8. Pursued(s)'
      BY <1>0, <2>1, <2>2, <2>6, <2>7 DEF Pursued
    <2> QED BY <1>0, <1>1, <2>1, <2>2, <2>8 DEF BackwardInv
  <1>3. ASSUME phase = "backward"
        PROVE  visited \subseteq forward /\ \E s \in sinks : Pursued(s)
    BY <1>3 DEF BackwardInv
  <1>4. CASE BackwardHit
    <2>1. /\ phase = "backward" /\ phase' = phase /\ backward' = backward \cup visited \cup {Edge[2]}
          /\ Edge[2] = root \/ Edge[2] \in backward
          /\ toSinks' = toSinks /\ visited' = visited
      BY <1>4 DEF BackwardHit, Running
    <2>2. visited \subseteq forward
      BY <1>3, <2>1
    <2>3. PICK s \in sinks : Pursued(s)
      BY <1>3, <2>1
    <2>4. s \in visited /\ sinks \ toSinks \subseteq backward \cup {s}
      BY <2>3 DEF Pursued
    <2>5. Pursued(s)'
      BY <1>0, <2>1, <2>3, <2>4 DEF Pursued
    <2>6. root \in backward'
      BY <1>1, <2>1
    <2> QED BY <1>0, <2>1, <2>2, <2>5, <2>6 DEF BackwardInv
  <1>5. CASE Backward
    <2>1. /\ phase = "backward" /\ phase' = phase /\ stack # <<>> /\ Top.edges # {}
          /\ Edge[2] # root /\ UNCHANGED <<backward, toSinks>>
          /\ IF BackwardGoes
             THEN /\ stack' = Append(Rest, Frame(Edge[2], InEdges(Edge[2], EA_DD)))
                  /\ visited' = visited \cup {Edge[2]}
             ELSE stack' = Rest /\ visited' = visited
      BY <1>5 DEF Backward, Running
    <2>2. visited \subseteq forward
      BY <1>3, <2>1
    <2>3. PICK s \in sinks : Pursued(s)
      BY <1>3, <2>1
    <2>4. \A e \in Pending(stack) : e = Edge \/ e \in Pending(Rest)
      BY <2>1, PendingRest
    <2>5. Rest \in Seq(FrameType) /\ Edge[2] \in Ids
      BY <2>1, RestIs, EdgeOfTop
    <2>6. CASE BackwardGoes
      <3> DEFINE f == Frame(Edge[2], InEdges(Edge[2], EA_DD))
      <3>1. f \in FrameType /\ f.edges = InEdges(Edge[2], EA_DD)
        BY <2>5, FramesTyped DEF Frame
      <3>2. stack' = Append(Rest, f) /\ visited' = visited \cup {Edge[2]} /\ Edge[2] \in forward
        BY <2>1, <2>6 DEF BackwardGoes
      <3> HIDE DEF f
      <3>3. Pending(stack') = Pending(Rest) \cup InEdges(Edge[2], EA_DD)
        BY <2>5, <3>1, <3>2, PendingPushed
      <3>4. ASSUME NEW e \in DataEdges, e[3] \in visited', e[2] \in forward \cup {root}, s \notin backward
            PROVE  e[2] \in visited' \/ e \in Pending(stack')
        <4>1. CASE e[3] = Edge[2]
          BY <3>3, <4>1 DEF InEdges, DataEdges
        <4>2. CASE e[3] \in visited
          <5>1. e[2] \in visited \/ e \in Pending(stack)
            BY <2>3, <3>4, <4>2 DEF Pursued
          <5> QED BY <2>4, <3>2, <3>3, <5>1
        <4> QED BY <3>2, <3>4, <4>1, <4>2
      <3>5. Pursued(s)'
        BY <1>0, <2>1, <2>3, <3>2, <3>4 DEF Pursued
      <3> QED BY <1>0, <1>1, <2>1, <2>2, <3>2, <3>5 DEF BackwardInv
    <2>7. CASE ~BackwardGoes
      <3>1. stack' = Rest /\ visited' = visited
        BY <2>1, <2>7
      <3>2. Edge[2] \in visited \/ Edge[2] \notin forward
        BY <1>1, <2>7 DEF BackwardGoes
      <3>3. ASSUME NEW e \in DataEdges, e[3] \in visited', e[2] \in forward \cup {root}, s \notin backward
            PROVE  e[2] \in visited' \/ e \in Pending(stack')
        <4>1. e[2] \in visited \/ e \in Pending(stack)
          BY <2>3, <3>1, <3>3 DEF Pursued
        <4>2. CASE e = Edge
          BY <2>1, <3>1, <3>2, <3>3, <4>2
        <4> QED BY <2>4, <3>1, <4>1, <4>2
      <3>4. Pursued(s)'
        BY <1>0, <2>1, <2>3, <3>1, <3>3 DEF Pursued
      <3> QED BY <1>0, <1>1, <2>1, <2>2, <3>1, <3>4 DEF BackwardInv
    <2> QED BY <2>6, <2>7
  <1>6. CASE BackwardReturn
    <2>1. /\ phase = "backward" /\ stack # <<>> /\ Top.edges = {} /\ stack' = Front(stack)
          /\ phase' = IF Len(stack) = 1 THEN "sinks" ELSE phase
          /\ UNCHANGED <<backward, toSinks, visited>>
      BY <1>6 DEF BackwardReturn, Leaving, bdVars
    <2>2. visited \subseteq forward
      BY <1>3, <2>1
    <2>3. PICK s \in sinks : Pursued(s)
      BY <1>3, <2>1
    <2>4. Pending(Front(stack)) = Pending(stack) /\ (Len(stack) = 1 => Pending(stack) = {})
      BY <2>1, PendingPopped
    <2>5. Pursued(s)'
      BY <1>0, <2>1, <2>3, <2>4 DEF Pursued
    <2>6. CASE Len(stack) = 1
      <3>1. s \in forward /\ s \in visited /\ sinks \ toSinks \subseteq backward \cup {s}
        BY <2>3 DEF Pursued, TypeOK
      <3>2. s \in backward
        BY <1>0, <1>1, <2>2, <2>3, <2>4, <2>6, <3>1, Reached
      <3> QED BY <1>0, <1>1, <2>1, <2>6, <3>1, <3>2 DEF BackwardInv
    <2>7. CASE Len(stack) # 1
      BY <1>0, <1>1, <2>1, <2>2, <2>5, <2>7 DEF BackwardInv
    <2> QED BY <2>6, <2>7
  <1> QED BY <1>2, <1>4, <1>5, <1>6 DEF BackwardStep

LEMMA TracedStep == TypeOK /\ ForwardInv /\ BackwardInv /\ [Next]_vars => ForwardInv' /\ BackwardInv'
  <1> SUFFICES ASSUME TypeOK, ForwardInv, BackwardInv, [Next]_vars PROVE ForwardInv' /\ BackwardInv'
    OBVIOUS
  \* The phases after the forward search keep what it found.
  <1>1. ASSUME UNCHANGED <<g, root, forward, fdFuncs>>, phase' # "forward", Slicing' => Slicing
        PROVE  ForwardInv'
    <2> SUFFICES ASSUME Slicing'
                 PROVE  Chained' /\ root' \notin forward' /\ \A n \in forward' : Fun(n)' \in fdFuncs'
      BY <1>1 DEF ForwardInv
    <2>1. Chained /\ root \notin forward /\ \A n \in forward : Fun(n) \in fdFuncs
      BY <1>1 DEF ForwardInv
    <2>2. Ids' = Ids /\ DataEdges' = DataEdges
      BY <1>1 DEF Ids, DataEdges
    <2> QED BY <1>1, <2>1, <2>2 DEF Chained, ClosedIn, Fun
  <1>2. CASE ForwardStep
    <2>1. ForwardInv'
      BY <1>2, ForwardForward
    <2>2. /\ phase = "forward" /\ phase' \in {"forward", "sinks"} /\ backward' = backward
          /\ phase' = "sinks" => sinks' \ toSinks' = {}
      BY <1>2 DEF ForwardStep, ForwardVisited, ForwardBack, Forward, ForwardReturn, Running, Leaving, bdVars, fdVars
    <2>3. backward = {}
      BY <2>2 DEF ForwardInv, Slicing
    <2> QED BY <2>1, <2>2, <2>3 DEF BackwardInv
  <1>3. CASE BackwardStep
    <2>1. UNCHANGED <<g, root, forward, fdFuncs>> /\ phase' # "forward" /\ Slicing
      BY <1>3 DEF BackwardStep, BackwardStart, BackwardHit, Backward, BackwardReturn, fdVars, Running, Leaving, Slicing
    <2> QED BY <1>1, <1>3, <2>1, BackwardBackward
  <1>4. ASSUME UNCHANGED <<g, phase, root, stack, visited, toSinks, sinks, forward, fdFuncs, backward>>
        PROVE  ForwardInv' /\ BackwardInv'
    BY <1>4 DEF ForwardInv, BackwardInv, Slicing, Chained, ClosedIn, Ids, DataEdges, Fun, OutFrames, OutEdges,
                Pursued, Pending
  <1>5. CASE CheckNode
    BY <1>4, <1>5, CheckEffect DEF searchVars, fdVars, bdVars
  <1>6. CASE CfgStep /\ ~CheckNode
    <2>1. /\ UNCHANGED <<g, root, sinks, forward, fdFuncs, backward, toSinks>>
          /\ phase \in {"sinks", "path"} /\ phase' \in {"path", "sliced"} /\ (phase = "sinks" => toSinks = {})
      BY <1>6 DEF CfgStep, CfgStart, NoSink, CfgOnPath, CfgOut, CfgLeave, CfgInto, CfgEdge, CfgGo, CfgReturn,
                  Running, Leaving, fdVars, bdVars
    <2>2. ForwardInv'
      BY <1>1, <2>1 DEF Slicing
    <2>3. sinks \subseteq backward /\ (backward # {} => root \in backward)
      BY <2>1 DEF BackwardInv, Slicing
    <2> QED BY <2>1, <2>2, <2>3 DEF BackwardInv
  <1>7. CASE TakeSite \/ TakeSource \/ AddCaller
    BY <1>4, <1>7 DEF TakeSite, TakeSource, AddCaller, sliceVars, searchVars, fdVars, bdVars
  <1>8. CASE CollectSinks \/ ReportBug
    <2>1. phase' = "next"
      BY <1>8 DEF CollectSinks, ReportBug
    <2> QED BY <2>1 DEF ForwardInv, BackwardInv, Slicing
  <1>9. CASE UNCHANGED vars
    BY <1>4, <1>9 DEF vars, sliceVars, searchVars, fdVars, bdVars
  <1> QED BY <1>2, <1>3, <1>5, <1>6, <1>7, <1>8, <1>9, ForwardStarts
          DEF Next, Go, Finish, Slice, SliceStep, ForwardStep, BackwardStep, CfgStep

\* Every sink that the forward search meets is traced back to the allocation
\* within the forward slice, for every dependence graph and whatever order the
\* sinks are taken in: a search that finds neither the root nor the slice has
\* left no edge of the forward slice out, and so cannot end in vain.
THEOREM SinksAreTraced == Spec => []SinksTraced
  <1>1. Init => ForwardInv /\ BackwardInv
    BY DEF Init, ForwardInv, BackwardInv, Slicing
  <1>2. BackwardInv => SinksTraced
    BY DEF BackwardInv, SinksTraced, Slicing
  <1> QED BY <1>1, <1>2, TypeCorrect, TracedStep, PTL DEF Spec

-----------------------------------------------------------------------------
(* Allocations that are never freed *)

\* Without a sink, the nodes visited are closed under the data dependences that
\* are no returns, but for the edges left to the search, and none frees.
NoSinkInv ==
  /\ phase \in {"backward", "path"} => sinks # {}
  /\ Slicing /\ sinks # {} => reachType # "none"
  /\ phase \in {"forward", "sinks", "sliced"} /\ sinks = {} =>
       root \in visited /\ visited \cap sinkSet \subseteq {root}
  /\ phase = "forward" /\ sinks = {} =>
       \A e \in DataEdges : e[2] \in visited => Has(e, EA_RET) \/ e[3] \in visited \/ e \in Pending(stack)
  /\ phase \in {"sinks", "sliced"} /\ sinks = {} =>
       \A e \in DataEdges : e[2] \in visited => Has(e, EA_RET) \/ e[3] \in visited

LEMMA NoSinkForward == TypeOK /\ NoSinkInv /\ ForwardStep => NoSinkInv'
  <1> SUFFICES ASSUME TypeOK, NoSinkInv, ForwardStep PROVE NoSinkInv'
    OBVIOUS
  <1>0. /\ UNCHANGED <<g, root, sinkSet>> /\ DataEdges' = DataEdges
        /\ stack # <<>> /\ phase = "forward" /\ phase' \in {"forward", "sinks"}
    BY DEF ForwardStep, ForwardVisited, ForwardBack, Forward, ForwardReturn, Running, Leaving, DataEdges
  <1>2. /\ sinks # {} => reachType # "none"
        /\ sinks = {} => /\ root \in visited /\ visited \cap sinkSet \subseteq {root}
                         /\ \A e \in DataEdges : e[2] \in visited =>
                              Has(e, EA_RET) \/ e[3] \in visited \/ e \in Pending(stack)
    BY <1>0 DEF NoSinkInv, Slicing
  <1>3. \A e \in Pending(stack) : e = Edge \/ e \in Pending(Rest)
    BY <1>0, PendingRest
  <1>4. CASE ForwardVisited \/ ForwardBack
    <2>1. /\ UNCHANGED <<phase, visited, sinks, reachType>> /\ stack' = Rest
          /\ Edge[3] \in visited \/ Has(Edge, EA_RET)
      BY <1>4 DEF ForwardVisited, ForwardBack, fdVars
    <2> QED BY <1>0, <1>2, <1>3, <2>1 DEF NoSinkInv
  <1>5. CASE Forward
    <2>1. /\ phase' = phase /\ Top.edges # {}
          /\ \/ sinks' # {} /\ reachType' = "partial"
             \/ /\ Edge[3] \notin sinkSet /\ UNCHANGED <<sinks, reachType>>
                /\ stack' = Append(Rest, Frame(Edge[3], OutEdges(Edge[3], EA_DD)))
                /\ visited' = visited \cup {Edge[3]}
      BY <1>5 DEF Forward, Running
    <2>2. CASE sinks' # {} /\ reachType' = "partial"
      BY <1>0, <2>1, <2>2 DEF NoSinkInv
    <2>3. CASE /\ Edge[3] \notin sinkSet /\ UNCHANGED <<sinks, reachType>>
               /\ stack' = Append(Rest, Frame(Edge[3], OutEdges(Edge[3], EA_DD)))
               /\ visited' = visited \cup {Edge[3]}
      <3> DEFINE f == Frame(Edge[3], OutEdges(Edge[3], EA_DD))
      <3>1. Edge[3] \in Ids /\ Rest \in Seq(FrameType)
        BY <1>0, <2>1, EdgeOfTop, RestIs
      <3>2. f \in FrameType /\ f.edges = OutEdges(Edge[3], EA_DD)
        BY <3>1, FramesTyped DEF Frame
      <3>3. stack' = Append(Rest, f)
        BY <2>3
      <3> HIDE DEF f
      <3>4. Pending(stack') = Pending(Rest) \cup OutEdges(Edge[3], EA_DD)
        BY <3>1, <3>2, <3>3, PendingPushed
      <3>5. \A e \in DataEdges : e[2] = Edge[3] => e \in OutEdges(Edge[3], EA_DD)
        BY DEF DataEdges, OutEdges
      <3>6. sinks' = {} => \A e \in DataEdges : e[2] \in visited' =>
                             Has(e, EA_RET) \/ e[3] \in visited' \/ e \in Pending(stack')
        BY <1>2, <1>3, <2>3, <3>4, <3>5
      <3>7. sinks' = {} => root \in visited' /\ visited' \cap sinkSet \subseteq {root}
        BY <1>2, <2>3
      <3> QED BY <1>0, <1>2, <2>1, <2>3, <3>6, <3>7 DEF NoSinkInv
    <2> QED BY <2>1, <2>2, <2>3
  <1>6. CASE ForwardReturn
    <2>1. /\ Top.edges = {} /\ stack' = Front(stack) /\ UNCHANGED <<visited, sinks, reachType>>
          /\ phase' = "sinks" => Len(stack) = 1
      BY <1>0, <1>6 DEF ForwardReturn, Leaving, fdVars
    <2>2. Pending(Front(stack)) = Pending(stack) /\ (Len(stack) = 1 => Pending(stack) = {})
      BY <1>0, <2>1, PendingPopped
    <2> QED BY <1>0, <1>2, <2>1, <2>2 DEF NoSinkInv
  <1> QED BY <1>4, <1>5, <1>6 DEF ForwardStep

LEMMA NoSinkStarts == TypeOK /\ NextSource => NoSinkInv'
  <1> SUFFICES ASSUME TypeOK, NextSource PROVE NoSinkInv'
    OBVIOUS
  <1>1. PICK n \in toSlice : StartSlice(n)
    BY DEF NextSource
  <1>2. /\ g' = g /\ root' = n /\ phase' = "forward" /\ visited' = {n} /\ sinks' = {} /\ n \in Ids
        /\ DataEdges' = DataEdges /\ stack' = <<Frame(n, OutEdges(n, EA_DD))>>
    BY <1>1 DEF StartSlice, TypeOK, DataEdges
  <1> DEFINE f == Frame(n, OutEdges(n, EA_DD))
  <1>3. f \in FrameType /\ f.edges = OutEdges(n, EA_DD)
    BY <1>2, FramesTyped DEF Frame
  <1>4. Pending(<<f>>) = OutEdges(n, EA_DD)
    BY <1>3, PendingSingle
  <1>5. stack' = <<f>>
    BY <1>2
  <1> HIDE DEF f
  <1>6. \A e \in DataEdges : e[2] = n => e \in Pending(stack')
    BY <1>4, <1>5 DEF DataEdges, OutEdges
  <1> QED BY <1>2, <1>6 DEF NoSinkInv

LEMMA NoSinkStep == TypeOK /\ NoSinkInv /\ [Next]_vars => NoSinkInv'
  <1> SUFFICES ASSUME TypeOK, NoSinkInv, [Next]_vars PROVE NoSinkInv'
    OBVIOUS
  <1>1. CASE BackwardStep
    <2>1. /\ UNCHANGED <<sinks, reachType>> /\ phase \in {"sinks", "backward"} /\ phase' \in {"sinks", "backward"}
          /\ phase = "sinks" => toSinks # {}
      BY <1>1 DEF BackwardStep, BackwardStart, BackwardHit, Backward, BackwardReturn, fdVars, Running, Leaving
    <2>2. sinks # {}
      BY <2>1 DEF NoSinkInv, TypeOK
    <2>3. reachType # "none"
      BY <2>1, <2>2 DEF NoSinkInv, Slicing
    <2> QED BY <2>1, <2>2, <2>3 DEF NoSinkInv
  <1>2. ASSUME UNCHANGED <<g, phase, root, sinkSet, stack, visited, sinks, reachType>>
        PROVE  NoSinkInv'
    BY <1>2 DEF NoSinkInv, Slicing, DataEdges, Pending
  <1>3. CASE CheckNode
    BY <1>2, <1>3, CheckEffect DEF searchVars, fdVars
  <1>4. CASE NoSink
    <2>1. /\ UNCHANGED <<g, root, sinkSet, visited, sinks>> /\ phase = "sinks" /\ phase' = "sliced" /\ sinks = {}
          /\ DataEdges' = DataEdges
      BY <1>4 DEF NoSink, searchVars, fdVars, DataEdges
    <2> QED BY <2>1 DEF NoSinkInv
  <1>5. CASE CfgStep /\ ~CheckNode /\ ~NoSink
    <2>1. /\ UNCHANGED sinks /\ phase \in {"sinks", "path"} /\ phase' \in {"path", "sliced"} /\ (phase = "sinks" => sinks # {})
          /\ reachType' \in {reachType, "all"}
      BY <1>5 DEF CfgStep, CfgStart, CfgOnPath, CfgOut, CfgLeave, CfgInto, CfgEdge, CfgGo, CfgReturn,
                  Running, Leaving, fdVars
    <2>2. sinks # {}
      BY <2>1 DEF NoSinkInv
    <2>3. reachType # "none"
      BY <2>1, <2>2 DEF NoSinkInv, Slicing
    <2> QED BY <2>1, <2>2, <2>3 DEF NoSinkInv
  <1>6. CASE TakeSite \/ TakeSource \/ AddCaller
    BY <1>2, <1>6 DEF TakeSite, TakeSource, AddCaller, sliceVars, searchVars, fdVars
  <1>7. CASE CollectSinks \/ ReportBug
    <2>1. phase' = "next"
      BY <1>7 DEF CollectSinks, ReportBug
    <2> QED BY <2>1 DEF NoSinkInv, Slicing
  <1>8. CASE UNCHANGED vars
    BY <1>2, <1>8 DEF vars, sliceVars, searchVars, fdVars
  <1> QED BY <1>1, <1>3, <1>4, <1>5, <1>6, <1>7, <1>8, NoSinkForward, NoSinkStarts
          DEF Next, Go, Finish, Slice, SliceStep, ForwardStep, BackwardStep, CfgStep

LEMMA NoneIsReal == TypeOK /\ NoSinkInv => NeverFreeIsReal
  <1> SUFFICES ASSUME TypeOK, NoSinkInv, phase = "sliced", reachType = "none",
                      NEW m \in Dependents(root, {e \in DataEdges : ~Has(e, EA_RET)}), m \in sinkSet, m # root
               PROVE  FALSE
    BY DEF NeverFreeIsReal
  <1>1. sinks = {}
    BY DEF NoSinkInv, Slicing
  <1>2. /\ root \in visited /\ visited \cap sinkSet \subseteq {root}
        /\ \A e \in DataEdges : e[2] \in visited => Has(e, EA_RET) \/ e[3] \in visited
    BY <1>1 DEF NoSinkInv
  <1> DEFINE E == {e \in DataEdges : ~Has(e, EA_RET)}
             dst == {root} \cup {e[3] : e \in E}
             C == visited \cap dst
  <1>3. m \in dst /\ \A D \in SUBSET dst : root \in D /\ (\A e \in E : e[2] \in D => e[3] \in D) => m \in D
    BY DEF Dependents
  <1>4. C \in SUBSET dst /\ root \in C /\ \A e \in E : e[2] \in C => e[3] \in C
    BY <1>2
  <1>5. m \in visited
    <2> HIDE DEF E, dst
    <2> QED BY <1>3, <1>4
  <1> QED BY <1>2, <1>5

\* An allocation is called never freed only if no sink depends on it within its
\* function and the functions it calls, for every dependence graph: the search
\* that stops early at a return it has passed loses nothing else.
THEOREM NeverFreedIsReal == Spec => []NeverFreeIsReal
  <1>1. Init => NoSinkInv
    BY DEF Init, NoSinkInv, Slicing
  <1> QED BY <1>1, NoneIsReal, TypeCorrect, NoSinkStep, PTL DEF Spec

-----------------------------------------------------------------------------
(* Ways past the sinks *)

\* What is reached from n along E past the nodes of P: what is in every set
\* that has n and is closed under the edges of E that do not lead into P.
From(n, P, E) ==
  {m \in Ids : \A C \in SUBSET Ids :
     n \in C /\ (\A e \in E : e[2] \in C /\ e[3] \notin P => e[3] \in C) => m \in C}

LEMMA FromClosed ==
  ASSUME g \in Graphs, NEW n \in Ids, NEW P, NEW E \in SUBSET g.edges
  PROVE  /\ From(n, P, E) \in SUBSET Ids /\ n \in From(n, P, E)
         /\ \A e \in E : e[2] \in From(n, P, E) /\ e[3] \notin P => e[3] \in From(n, P, E)
  <1>1. \A e \in E : e[3] \in Ids
    BY GraphType
  <1>2. From(n, P, E) \in SUBSET Ids /\ n \in From(n, P, E)
    BY DEF From
  <1>3. ASSUME NEW e \in E, e[2] \in From(n, P, E), e[3] \notin P PROVE e[3] \in From(n, P, E)
    <2> SUFFICES ASSUME NEW C \in SUBSET Ids, n \in C,
                        \A d \in E : d[2] \in C /\ d[3] \notin P => d[3] \in C
                 PROVE  e[3] \in C
      BY <1>1 DEF From
    <2>1. e[2] \in C
      BY <1>3 DEF From
    <2> QED BY <1>3, <2>1
  <1> QED BY <1>2, <1>3

LEMMA FromWithin ==
  ASSUME NEW n, NEW P, NEW E, NEW C \in SUBSET Ids, n \in C,
         \A e \in E : e[2] \in C /\ e[3] \notin P => e[3] \in C
  PROVE  From(n, P, E) \subseteq C
  BY DEF From

\* A way that goes on from n goes on from a node behind n, and does not come
\* back to n.
LEMMA FirstStep ==
  ASSUME g \in Graphs, NEW n \in Ids, NEW P, NEW E \in SUBSET g.edges,
         NEW t \in From(n, P, E), t # n
  PROVE  \E e \in E : e[2] = n /\ e[3] \notin P \cup {n} /\ t \in From(e[3], P \cup {n}, E)
  <1> DEFINE Q == P \cup {n}
             behind == {e \in E : e[2] = n /\ e[3] \notin Q}
             C == {n} \cup UNION {From(e[3], Q, E) : e \in behind}
  <1>1. \A e \in E : e[3] \in Ids
    BY GraphType
  <1>2. \A e \in behind : /\ From(e[3], Q, E) \in SUBSET Ids /\ e[3] \in From(e[3], Q, E)
                          /\ \A d \in E : d[2] \in From(e[3], Q, E) /\ d[3] \notin Q => d[3] \in From(e[3], Q, E)
    <2> SUFFICES ASSUME NEW e \in behind
                 PROVE  /\ From(e[3], Q, E) \in SUBSET Ids /\ e[3] \in From(e[3], Q, E)
                        /\ \A d \in E : d[2] \in From(e[3], Q, E) /\ d[3] \notin Q => d[3] \in From(e[3], Q, E)
      OBVIOUS
    <2>1. e[3] \in Ids
      BY <1>1
    <2> HIDE DEF Q, behind
    <2> QED BY <2>1, FromClosed
  <1>3. C \in SUBSET Ids /\ n \in C
    BY <1>2
  <1>4. ASSUME NEW d \in E, d[2] \in C, d[3] \notin P PROVE d[3] \in C
    <2>1. CASE d[3] = n
      BY <2>1
    <2>2. CASE d[3] # n /\ d[2] = n
      <3>1. d \in behind
        BY <1>4, <2>2
      <3> QED BY <1>2, <3>1
    <2>3. CASE d[3] # n /\ d[2] # n
      <3>1. PICK e \in behind : d[2] \in From(e[3], Q, E)
        BY <1>4, <2>3
      <3>2. d[3] \in From(e[3], Q, E)
        BY <1>2, <1>4, <2>3, <3>1
      <3> QED BY <3>1, <3>2
    <2> QED BY <2>1, <2>2, <2>3
  <1>5. t \in C
    <2> HIDE DEF C
    <2> QED BY <1>3, <1>4, FromWithin
  <1>6. PICK e \in behind : t \in From(e[3], Q, E)
    BY <1>5
  <1> QED BY <1>6

LEMMA FromPast ==
  ASSUME NEW n, NEW P, NEW Q, NEW E, \A e \in E : e[3] \in Q => e[3] \in P
  PROVE  From(n, P, E) \subseteq From(n, Q, E)
  <1> SUFFICES ASSUME NEW m \in From(n, P, E), NEW C \in SUBSET Ids, n \in C,
                      \A e \in E : e[2] \in C /\ e[3] \notin Q => e[3] \in C
               PROVE  m \in Ids /\ m \in C
    BY DEF From
  <1>1. \A e \in E : e[2] \in C /\ e[3] \notin P => e[3] \in C
    OBVIOUS
  <1> QED BY <1>1 DEF From

LEMMA FromDependents ==
  ASSUME g \in Graphs, NEW n \in Ids, NEW E \in SUBSET g.edges
  PROVE  Dependents(n, E) \subseteq From(n, {}, E)
  <1> DEFINE dst == {n} \cup {e[3] : e \in E}
  <1>1. \A e \in E : e[3] \in Ids
    BY GraphType
  <1> SUFFICES ASSUME NEW m \in Dependents(n, E) PROVE m \in From(n, {}, E)
    OBVIOUS
  <1>2. /\ m \in dst
        /\ \A D \in SUBSET dst : n \in D /\ (\A e \in E : e[2] \in D => e[3] \in D) => m \in D
    BY DEF Dependents
  <1>3. m \in Ids
    BY <1>1, <1>2
  <1>4. ASSUME NEW C \in SUBSET Ids, n \in C, \A e \in E : e[2] \in C /\ e[3] \notin {} => e[3] \in C
        PROVE  m \in C
    <2> DEFINE D == C \cap dst
    <2>1. D \in SUBSET dst /\ n \in D /\ \A e \in E : e[2] \in D => e[3] \in D
      BY <1>4
    <2>2. m \in D
      <3> HIDE DEF D, dst
      <3> QED BY <1>2, <2>1
    <2> QED BY <2>2
  <1> QED BY <1>3, <1>4 DEF From

\* More edges, more dependents.
LEMMA DependentsGrow ==
  ASSUME NEW n, NEW E, NEW F, E \subseteq F
  PROVE  Dependents(n, E) \subseteq Dependents(n, F)
  <1> DEFINE dst == {n} \cup {e[3] : e \in E}
             all == {n} \cup {e[3] : e \in F}
  <1> SUFFICES ASSUME NEW m \in Dependents(n, E) PROVE m \in Dependents(n, F)
    OBVIOUS
  <1>1. /\ m \in dst
        /\ \A C \in SUBSET dst : n \in C /\ (\A e \in E : e[2] \in C => e[3] \in C) => m \in C
    BY DEF Dependents
  <1>2. m \in all
    BY <1>1
  <1>3. ASSUME NEW C \in SUBSET all, n \in C, \A e \in F : e[2] \in C => e[3] \in C
        PROVE  m \in C
    <2> DEFINE D == C \cap dst
    <2>1. D \in SUBSET dst /\ n \in D /\ \A e \in E : e[2] \in D => e[3] \in D
      BY <1>3
    <2>2. m \in D
      <3> HIDE DEF D, dst
      <3> QED BY <1>1, <2>1
    <2> QED BY <2>2
  <1> QED BY <1>2, <1>3 DEF Dependents

LEMMA PassesGrow ==
  ASSUME NEW f, NEW P, NEW Q, P \subseteq Q, Passes(f, P)
  PROVE  Passes(f, Q)
  <1>1. InnerFlow(f, P) \subseteq InnerFlow(f, Q)
    BY DEF InnerFlow
  <1>2. Dependents(HeadOf(f), InnerFlow(f, P)) \subseteq Dependents(HeadOf(f), InnerFlow(f, Q))
    BY <1>1, DependentsGrow
  <1> QED BY <1>2 DEF Passes, Ends

\* Of the least set every function passes by way of the others.
LEMMA PassablePass ==
  ASSUME NEW f \in PassableFuncs
  PROVE  Passes(f, PassableFuncs)
  <1> DEFINE all == {h \in Func : \E n \in Ids : Fun(n) = h}
             A == PassableFuncs
             B == A \ {f}
             Closed(P) == \A h \in all : Passes(h, P) => h \in P
  <1>1. \A h : h \in A <=> h \in all /\ \A P \in SUBSET all : Closed(P) => h \in P
    BY DEF PassableFuncs
  <1> HIDE DEF A
  <1> SUFFICES ASSUME ~Passes(f, A) PROVE FALSE
    BY DEF A
  <1>2. ASSUME NEW h \in all, Passes(h, A) PROVE h \in A
    <2> SUFFICES ASSUME NEW P \in SUBSET all, Closed(P) PROVE h \in P
      BY <1>1
    <2>1. A \subseteq P
      BY <1>1
    <2>2. Passes(h, P)
      BY <1>2, <2>1, PassesGrow
    <2> QED BY <2>2
  <1>3. B \in SUBSET all
    BY <1>1
  <1>4. ASSUME NEW h \in all, Passes(h, B) PROVE h \in B
    <2>1. Passes(h, A)
      BY <1>4, PassesGrow
    <2>2. h \in A
      BY <1>2, <2>1
    <2> QED BY <2>1, <2>2
  <1>5. f \in B
    <2>1. f \in A
      BY DEF A
    <2>2. Closed(B)
      BY <1>4
    <2> HIDE DEF B, Closed
    <2> QED BY <1>1, <1>3, <2>1, <2>2
  <1> QED BY <1>5

-----------------------------------------------------------------------------
(* The way out that is left *)

Calls(n, f) == \E e \in g.edges : IsCallEdge(e) /\ e[2] = n /\ Fun(e[3]) = f
Free(n) == n \notin sinks /\ g.kind[n] # "exit"
Flow(f) == InnerFlow(f, PassableFuncs)

LEMMA BuiltGraph ==
  ASSUME g \in Graphs
  PROVE  /\ \A e \in g.edges : IsInnerEdge(e) => Fun(e[2]) = Fun(e[3])
         /\ \A e \in g.edges : Has(e, EA_CFG) /\ Has(e, EA_CFG_DMY) /\ e[2] \notin g.invokes => \E c \in g.edges : IsCallEdge(c) /\ c[2] = e[2]
         /\ \A c \in g.edges : IsCallEdge(c) => ~Has(c, EA_RET) /\ c[3] = HeadOf(Fun(c[3]))
         /\ \A c, e \in g.edges : IsCallEdge(c) /\ IsInnerEdge(e) /\ c[2] = e[2] /\ c[2] \notin g.invokes =>
              /\ Has(e, EA_CFG_DMY)
              /\ \A d \in g.edges : Has(d, EA_CFG) /\ ~Has(d, EA_RET) /\ d[3] = e[3] => d[2] = e[2]
         /\ \A e \in g.edges : g.kind[e[2]] = "ret" => \E c \in g.edges : IsCallEdge(c) /\ Fun(c[3]) = Fun(e[2])
  <1> DEFINE flow == {e \in g.edges : Has(e, EA_CFG)}
             calls == {e \in flow : Has(e, EA_CALL)}
             rets == {e \in flow : Has(e, EA_RET)}
             inner == flow \ (calls \cup rets)
  <1>1. /\ \A e \in inner : g.fun[e[2]] = g.fun[e[3]]
        /\ \A e \in flow : Has(e, EA_CFG_DMY) /\ e[2] \notin g.invokes => \E c \in calls : c[2] = e[2]
        /\ \A c \in calls : /\ ~Has(c, EA_RET)
                            /\ \A n \in DOMAIN g.fun : g.fun[n] = g.fun[c[3]] => c[3] <= n
        /\ \A c \in calls, e \in inner : c[2] = e[2] /\ c[2] \notin g.invokes =>
             /\ Has(e, EA_CFG_DMY)
             /\ \A d \in flow \ rets : d[3] = e[3] => d[2] = e[2]
        /\ \A e \in g.edges : g.kind[e[2]] = "ret" => \E c \in calls : g.fun[c[3]] = g.fun[e[2]]
    <2>1. Built(g)
      BY GraphsAssumption
    <2> QED BY <2>1 DEF Built
  <1>2. /\ Ids = DOMAIN g.fun /\ Ids \subseteq Nat /\ \A e \in g.edges : e[2] \in Ids /\ e[3] \in Ids
    BY GraphType DEF Node
  <1>3. /\ \A e : e \in calls <=> e \in g.edges /\ IsCallEdge(e)
        /\ \A e : e \in inner <=> e \in g.edges /\ IsInnerEdge(e)
        /\ \A e : e \in rets <=> e \in g.edges /\ Has(e, EA_CFG) /\ Has(e, EA_RET)
        /\ \A e : e \in flow <=> e \in g.edges /\ Has(e, EA_CFG)
    BY <1>2 DEF IsCallEdge, IsInnerEdge, Fun
  <1>4. ASSUME NEW c \in g.edges, IsCallEdge(c) PROVE c[3] = HeadOf(Fun(c[3]))
    <2> DEFINE f == Fun(c[3])
    <2>1. c[3] \in Ids /\ Fun(c[3]) = f /\ \A m \in Ids : Fun(m) = f => c[3] <= m
      BY <1>1, <1>2, <1>3, <1>4 DEF Fun
    <2>2. \A n \in Ids : Fun(n) = f /\ (\A m \in Ids : Fun(m) = f => n <= m) => n = c[3]
      BY <1>2, <2>1
    <2> HIDE DEF f
    <2>3. HeadOf(f) \in Ids /\ Fun(HeadOf(f)) = f /\ \A m \in Ids : Fun(m) = f => HeadOf(f) <= m
      BY <2>1 DEF HeadOf
    <2>4. HeadOf(f) = c[3]
      BY <2>2, <2>3
    <2> QED BY <2>4 DEF f
  <1> HIDE DEF flow, calls, rets, inner
  <1> QED BY <1>1, <1>3, <1>4 DEF Fun

LEMMA FlowIs ==
  ASSUME g \in Graphs, NEW f
  PROVE  /\ Flow(f) \in SUBSET g.edges
         /\ \A e \in Flow(f) : /\ e[2] \in Ids /\ e[3] \in Ids /\ IsInnerEdge(e) /\ Free(e[3])
                               /\ g.kind[e[2]] # "exit" /\ Fun(e[2]) = f /\ Fun(e[3]) = f
                               /\ \A c \in g.edges : IsCallEdge(c) /\ c[2] = e[2] =>
                                    \E d \in g.edges : IsCallEdge(d) /\ d[2] = e[2] /\ Fun(d[3]) \in PassableFuncs
  <1>1. Flow(f) \in SUBSET g.edges
    BY DEF Flow, InnerFlow
  <1>2. \A e \in Flow(f) : e \in g.edges /\ IsInnerEdge(e) /\ Free(e[3]) /\ Fun(e[2]) = f /\ g.kind[e[2]] # "exit"
    BY DEF Flow, InnerFlow, IsInnerEdge, Free
  <1>3. \A e \in Flow(f) : Fun(e[3]) = f
    BY <1>2, BuiltGraph
  <1>4. ASSUME NEW e \in Flow(f), NEW c \in g.edges, IsCallEdge(c), c[2] = e[2]
        PROVE  \E d \in g.edges : IsCallEdge(d) /\ d[2] = e[2] /\ Fun(d[3]) \in PassableFuncs
    BY <1>4 DEF Flow, InnerFlow
  <1> QED BY <1>1, <1>2, <1>3, <1>4, GraphType

\* The end of the function of n is reached from n past P.
EndFrom(n, P) == \E t \in From(n, P, Flow(Fun(n))) : g.kind[t] = "ret"

\* The call n can be left again past P.
Back(n, P) ==
  \E e \in g.edges : IsInnerEdge(e) /\ e[2] = n /\ e[3] \notin P /\ Free(e[3]) /\ EndFrom(e[3], P)

\* The functions of the way P, but for that of the root, have been entered at
\* their heads.
Entered(P) ==
  \A n \in P : Fun(n) = Fun(root) \/ (Fun(n) \in bdFuncs /\ HeadOf(Fun(n)) \in P)

\* O is calls of the way P that are open in f, one in each function: they lead
\* from the function of the root to f, and each can be left.  An invoke is
\* stepped over.
Open(O, P, f) ==
  /\ O \subseteq P
  /\ f = Fun(root) \/ \E c \in O : Calls(c, f)
  /\ \A c \in O : /\ Back(c, P) /\ Fun(c) # f /\ c \notin g.invokes
                  /\ Fun(c) = Fun(root) \/ \E d \in O : Calls(d, Fun(c))
                  /\ \A d \in O : Fun(c) = Fun(d) => c = d

\* Behind the way P a way leads from n out of the function of the root.
Route(n, P, O) ==
  /\ n \in Ids \ P /\ P \in SUBSET Ids
  /\ Entered(P \cup {n}) /\ Open(O, P, Fun(n)) /\ EndFrom(n, P)

Leads(e, P) ==
  /\ Free(e[3]) /\ \E O \in SUBSET Ids : Route(e[3], P, O)
  /\ Has(e, EA_RET) => /\ Fun(e[3]) \in fdFuncs
                       /\ \A d \in g.edges : Has(d, EA_CFG) /\ ~Has(d, EA_RET) /\ d[3] = e[3] => d[2] \in P

InEntry == IsEntry(Fun(root)) /\ CallsDirect /\ ReturnsLead /\ SlicesAgree

\* A node of another function does not stand in the way.
LEMMA EndPast ==
  ASSUME g \in Graphs, NEW n \in Ids, NEW P, NEW m, Fun(m) # Fun(n), EndFrom(n, P)
  PROVE  EndFrom(n, P \cup {m})
  <1>1. \A e \in Flow(Fun(n)) : Fun(e[3]) = Fun(n)
    BY FlowIs
  <1>2. From(n, P, Flow(Fun(n))) \subseteq From(n, P \cup {m}, Flow(Fun(n)))
    <2> DEFINE E == Flow(Fun(n))
               Q == P \cup {m}
    <2>1. \A e \in E : e[3] \in Q => e[3] \in P
      BY <1>1
    <2>2. From(n, P, E) \subseteq From(n, Q, E)
      <3> HIDE DEF E, Q
      <3> QED BY <2>1, FromPast
    <2> QED BY <2>2
  <1> QED BY <1>2 DEF EndFrom

LEMMA BackPast ==
  ASSUME g \in Graphs, NEW c \in Ids, NEW P, NEW m, Fun(m) # Fun(c), Back(c, P)
  PROVE  Back(c, P \cup {m})
  <1>1. PICK e \in g.edges : IsInnerEdge(e) /\ e[2] = c /\ e[3] \notin P /\ Free(e[3]) /\ EndFrom(e[3], P)
    BY DEF Back
  <1>2. e[3] \in Ids /\ Fun(e[3]) = Fun(c)
    BY <1>1, BuiltGraph, GraphType
  <1>3. EndFrom(e[3], P \cup {m})
    BY <1>1, <1>2, EndPast
  <1> QED BY <1>1, <1>2, <1>3 DEF Back

\* The edges of a node that the search follows.
LEMMA FrameIs ==
  ASSUME g \in Graphs, NEW n, NEW Q, NEW e \in g.edges, e[2] = n, Has(e, EA_CFG)
  PROVE  /\ ~IsCallInst(n) => e \in CfgFrame(n, Q).edges
         /\ IsCallInst(n) /\ IsInnerEdge(e) =>
              \/ e \in CfgFrame(n, Q).edges
              \/ \E k \in CfgFrame(n, Q).edges : k \in g.edges /\ k[2] = n /\ IsCallEdge(k) /\ Fun(k[3]) \in bdFuncs /\ k[3] \notin Q
  <1>1. e \in OutEdges(n, EA_CFG)
    BY DEF OutEdges
  <1>2. CfgFrame(n, Q).edges = {d \in OutEdges(n, EA_CFG) : Has(d, VisitEdgeType(n, Q))}
    BY DEF CfgFrame, Frame
  <1>3. ASSUME ~IsCallInst(n) PROVE e \in CfgFrame(n, Q).edges
    <2>1. VisitEdgeType(n, Q) = EA_CFG
      BY <1>3 DEF VisitEdgeType
    <2> QED BY <1>1, <1>2, <2>1
  <1>4. ASSUME IsCallInst(n), IsInnerEdge(e)
        PROVE  \/ e \in CfgFrame(n, Q).edges
               \/ \E k \in CfgFrame(n, Q).edges : k \in g.edges /\ k[2] = n /\ IsCallEdge(k) /\ Fun(k[3]) \in bdFuncs /\ k[3] \notin Q
    <2>1. CASE \E k \in OutEdges(n, EA_CFG) : Has(k, EA_CALL) /\ Fun(k[3]) \in bdFuncs /\ k[3] \notin Q
      <3>1. VisitEdgeType(n, Q) = EA_CALL
        BY <1>4, <2>1 DEF VisitEdgeType
      <3>2. PICK k \in OutEdges(n, EA_CFG) : Has(k, EA_CALL) /\ Fun(k[3]) \in bdFuncs /\ k[3] \notin Q
        BY <2>1
      <3>3. k \in CfgFrame(n, Q).edges
        BY <1>2, <3>1, <3>2
      <3> QED BY <3>2, <3>3 DEF OutEdges, IsCallEdge
    <2>2. CASE /\ ~\E k \in OutEdges(n, EA_CFG) : Has(k, EA_CALL) /\ Fun(k[3]) \in bdFuncs /\ k[3] \notin Q
               /\ \E d \in OutEdges(n, EA_CFG) : Has(d, EA_CFG_DMY)
      <3>1. VisitEdgeType(n, Q) = EA_CFG_DMY
        BY <1>4, <2>2 DEF VisitEdgeType
      <3>2. PICK d \in g.edges : d[2] = n /\ Has(d, EA_CFG) /\ Has(d, EA_CFG_DMY)
        BY <2>2 DEF OutEdges
      <3>3. PICK c \in g.edges : IsCallEdge(c) /\ c[2] = n
        BY <1>4, <3>2, BuiltGraph DEF IsCallInst
      <3>4. Has(e, EA_CFG_DMY)
        BY <1>4, <3>3, BuiltGraph DEF IsCallInst
      <3> QED BY <1>1, <1>2, <3>1, <3>4
    <2>3. CASE /\ ~\E k \in OutEdges(n, EA_CFG) : Has(k, EA_CALL) /\ Fun(k[3]) \in bdFuncs /\ k[3] \notin Q
               /\ ~\E d \in OutEdges(n, EA_CFG) : Has(d, EA_CFG_DMY)
      <3>1. VisitEdgeType(n, Q) = EA_CFG
        BY <1>4, <2>3 DEF VisitEdgeType
      <3> QED BY <1>1, <1>2, <3>1
    <2> QED BY <2>1, <2>2, <2>3
  <1> QED BY <1>3, <1>4

\* The head of a function that passes leads to its end, if the way has no node
\* of the function.
LEMMA HeadLeads ==
  ASSUME g \in Graphs, NEW k \in g.edges, IsCallEdge(k), Fun(k[3]) \in PassableFuncs, NEW Q,
         \A m \in Q : Fun(m) # Fun(k[3])
  PROVE  Free(k[3]) /\ EndFrom(k[3], Q)
  <1> DEFINE h == Fun(k[3])
             E == Flow(h)
  <1>1. k[3] = HeadOf(h) /\ k[3] \in Ids
    BY BuiltGraph, GraphType
  <1>2. Passes(h, PassableFuncs)
    BY PassablePass
  <1>3. PICK t \in Dependents(k[3], E) : k[3] \notin sinks /\ g.kind[t] = "ret"
    BY <1>1, <1>2 DEF Passes, Ends, Flow
  <1>4. E \in SUBSET g.edges /\ \A e \in E : Fun(e[3]) = h /\ g.kind[e[2]] # "exit"
    BY FlowIs
  <1>5. t \in From(k[3], {}, E)
    <2> HIDE DEF E, h
    <2> QED BY <1>1, <1>3, <1>4, FromDependents
  <1>6. g.kind[k[3]] # "exit"
    <2>1. CASE t = k[3]
      BY <1>3, <2>1
    <2>2. CASE t # k[3]
      <3>1. \E e \in E : e[2] = k[3] /\ e[3] \notin {} \cup {k[3]} /\ t \in From(e[3], {} \cup {k[3]}, E)
        <4>1. k[3] \in Ids /\ E \in SUBSET g.edges
          BY <1>1, <1>4
        <4> HIDE DEF E, h
        <4> DEFINE x == k[3]
                   none == {}
        <4>2. x \in Ids /\ t \in From(x, none, E) /\ t # x
          BY <1>5, <2>2, <4>1
        <4> HIDE DEF x, none
        <4>3. \E e \in E : e[2] = x /\ e[3] \notin none \cup {x} /\ t \in From(e[3], none \cup {x}, E)
          BY <4>1, <4>2, FirstStep
        <4> QED BY <4>3 DEF x, none
      <3> QED BY <1>4, <3>1
    <2> QED BY <2>1, <2>2
  <1>7. t \in From(k[3], Q, E)
    <2>1. \A e \in E : e[3] \in Q => e[3] \in {}
      BY <1>4
    <2>2. From(k[3], {}, E) \subseteq From(k[3], Q, E)
      <3> HIDE DEF E
      <3> QED BY <2>1, FromPast
    <2> QED BY <1>5, <2>2
  <1> QED BY <1>3, <1>6, <1>7 DEF EndFrom, Free

\* A route goes on along an edge that the search follows.
LEMMA NextOfRoute ==
  ASSUME g \in Graphs, InEntry, NEW n, NEW P, NEW O \in SUBSET Ids, Route(n, P, O), ~EndsHere(n)
  PROVE  \E e \in CfgFrame(n, P \cup {n}).edges : Leads(e, P \cup {n})
  <1> DEFINE Q == P \cup {n}
             f == Fun(n)
  <1>1. /\ n \in Ids /\ n \notin P /\ P \in SUBSET Ids /\ Q \in SUBSET Ids /\ Entered(Q) /\ Open(O, P, f) /\ O \subseteq P
    BY DEF Route, Open
  <1>2. PICK t \in From(n, P, Flow(f)) : g.kind[t] = "ret"
    BY DEF Route, EndFrom
  \* The calls that are open can still be left.
  <1>3. \A c \in O : Fun(c) # f /\ Back(c, Q) /\ c \notin g.invokes
    <2> SUFFICES ASSUME NEW c \in O PROVE Fun(c) # f /\ Back(c, Q) /\ c \notin g.invokes
      OBVIOUS
    <2>1. c \in Ids /\ Fun(c) # Fun(n) /\ Back(c, P) /\ c \notin g.invokes
      BY <1>1 DEF Open
    <2> QED BY <2>1, BackPast
  <1>4. \A c, d \in g.edges : IsCallEdge(c) /\ IsCallEdge(d) /\ c[2] = d[2] => c[3] = d[3]
    BY DEF InEntry, CallsDirect
  <1>5. CASE t = n
    <2>1. \E e \in g.edges : e[2] = n
      BY DEF EndsHere
    <2>2. f # Fun(root)
      <3>1. \E c \in g.edges : IsCallEdge(c) /\ Fun(c[3]) = f
        BY <1>2, <1>5, <2>1, BuiltGraph
      <3> QED BY <3>1 DEF InEntry, IsEntry
    <2>3. PICK c \in O : Calls(c, f)
      BY <1>1, <2>2 DEF Open
    <2>4. PICK k \in g.edges : IsCallEdge(k) /\ k[2] = c /\ Fun(k[3]) = f
      BY <2>3 DEF Calls
    <2>5. PICK e \in g.edges : IsInnerEdge(e) /\ e[2] = c /\ e[3] \notin Q /\ Free(e[3]) /\ EndFrom(e[3], Q)
      BY <1>3 DEF Back
    <2>6. e[3] \in Ids /\ Fun(e[3]) = Fun(c)
      BY <2>5, BuiltGraph, GraphType
    <2>7. PICK r \in g.edges : Has(r, EA_CFG) /\ Has(r, EA_RET) /\ r[2] = n /\ r[3] = e[3]
      BY <1>1, <1>2, <1>5, <2>4, <2>5 DEF InEntry, ReturnsLead
    <2>8. r \in CfgFrame(n, Q).edges
      <3>1. ~IsCallInst(n)
        BY <1>2, <1>5 DEF IsCallInst, IsCallSite
      <3> QED BY <2>7, <3>1, FrameIs
    <2> DEFINE U == O \ {c}
    <2>9. Open(U, Q, Fun(c))
      <3>1. \A d \in O : Calls(c, Fun(d)) => Fun(d) = f
        BY <1>4, <2>4 DEF Calls
      <3>2. \A d \in O : ~Calls(c, Fun(d))
        BY <1>3, <3>1
      <3>3. Fun(c) = Fun(root) \/ \E d \in U : Calls(d, Fun(c))
        BY <1>1, <3>2 DEF Open
      <3>4. \A x \in U : /\ Back(x, Q) /\ Fun(x) # Fun(c) /\ x \notin g.invokes
                         /\ Fun(x) = Fun(root) \/ \E d \in U : Calls(d, Fun(x))
                         /\ \A d \in U : Fun(x) = Fun(d) => x = d
        BY <1>1, <1>3, <3>2 DEF Open
      <3>5. U \subseteq Q
        BY <1>1
      <3> HIDE DEF U, Q
      <3> QED BY <3>3, <3>4, <3>5 DEF Open
    <2>10. Entered(Q \cup {e[3]})
      BY <1>1, <2>3, <2>6 DEF Entered
    <2>11. Route(r[3], Q, U)
      BY <1>1, <2>5, <2>6, <2>7, <2>9, <2>10 DEF Route
    <2>12. Fun(r[3]) \in fdFuncs
      <3>1. Fun(c) = Fun(root) \/ Fun(c) \in bdFuncs
        BY <1>1, <2>3 DEF Entered
      <3> QED BY <2>6, <2>7, <3>1 DEF InEntry, SlicesAgree
    <2>13. \A d \in g.edges : Has(d, EA_CFG) /\ ~Has(d, EA_RET) /\ d[3] = r[3] => d[2] \in Q
      <3>1. \A d \in g.edges : Has(d, EA_CFG) /\ ~Has(d, EA_RET) /\ d[3] = e[3] => d[2] = e[2]
        BY <1>3, <2>3, <2>4, <2>5, BuiltGraph
      <3> QED BY <1>1, <2>5, <2>7, <3>1
    <2>14. U \in SUBSET Ids
      OBVIOUS
    <2>15. Free(r[3])
      BY <2>5, <2>7
    <2>16. Leads(r, Q)
      <3> HIDE DEF U, Q
      <3> QED BY <2>11, <2>12, <2>13, <2>14, <2>15 DEF Leads
    <2> QED BY <2>8, <2>16
  <1>6. CASE t # n
    <2>1. PICK e \in Flow(f) : e[2] = n /\ e[3] \notin Q /\ t \in From(e[3], Q, Flow(f))
      <3>1. Flow(f) \in SUBSET g.edges
        BY FlowIs
      <3>2. \E e \in Flow(f) : e[2] = n /\ e[3] \notin P \cup {n} /\ t \in From(e[3], P \cup {n}, Flow(f))
        <4> HIDE DEF f
        <4> QED BY <1>1, <1>2, <1>6, <3>1, FirstStep
      <3> QED BY <3>2
    <2>2. /\ e \in g.edges /\ e[3] \in Ids /\ IsInnerEdge(e) /\ Has(e, EA_CFG) /\ ~Has(e, EA_RET) /\ Free(e[3]) /\ Fun(e[3]) = f
          /\ \A c \in g.edges : IsCallEdge(c) /\ c[2] = n =>
               \E d \in g.edges : IsCallEdge(d) /\ d[2] = n /\ Fun(d[3]) \in PassableFuncs
      BY <2>1, FlowIs DEF IsInnerEdge
    <2>3. EndFrom(e[3], Q)
      BY <1>2, <2>1, <2>2 DEF EndFrom
    <2>4. CASE e \in CfgFrame(n, Q).edges
      <3>1. Entered(Q \cup {e[3]})
        BY <1>1, <2>2 DEF Entered
      <3>2. Open(O, Q, f)
        BY <1>1, <1>3 DEF Open
      <3>3. Route(e[3], Q, O)
        BY <1>1, <2>1, <2>2, <2>3, <3>1, <3>2 DEF Route
      <3>4. Leads(e, Q)
        BY <2>2, <3>3 DEF Leads
      <3> QED BY <2>4, <3>4
    <2>5. CASE e \notin CfgFrame(n, Q).edges
      <3>0. n \notin g.invokes
        BY <2>1, <2>2, <2>5, FrameIs DEF IsCallInst
      <3>1. PICK k \in CfgFrame(n, Q).edges :
                   k \in g.edges /\ k[2] = n /\ IsCallEdge(k) /\ Fun(k[3]) \in bdFuncs /\ k[3] \notin Q
        BY <2>1, <2>2, <2>5, FrameIs
      <3> DEFINE h == Fun(k[3])
                 U == O \cup {n}
      <3>2. /\ ~Has(k, EA_RET) /\ k[3] = HeadOf(h) /\ k[3] \in Ids /\ h # Fun(root)
        BY <3>1, BuiltGraph, GraphType DEF InEntry, IsEntry
      <3>3. h \in PassableFuncs
        BY <1>4, <2>2, <3>1
      <3>4. \A m \in Q : Fun(m) # h
        BY <1>1, <3>1, <3>2 DEF Entered
      <3>5. Free(k[3]) /\ EndFrom(k[3], Q)
        BY <3>1, <3>3, <3>4, HeadLeads
      <3>6. Entered(Q \cup {k[3]})
        BY <1>1, <3>1, <3>2 DEF Entered
      <3>7. Open(U, Q, h)
        <4>1. Calls(n, h)
          BY <3>1 DEF Calls
        <4>2. Back(n, Q)
          BY <2>1, <2>2, <2>3 DEF Back
        <4>3. f = Fun(root) \/ \E d \in U : Calls(d, f)
          BY <1>1 DEF Open
        <4>4. \A x \in U : Back(x, Q) /\ Fun(x) # h /\ x \notin g.invokes
          BY <1>1, <1>3, <3>0, <3>4, <4>2
        <4>5. \A x \in U : Fun(x) = Fun(root) \/ \E d \in U : Calls(d, Fun(x))
          BY <1>1, <4>3 DEF Open
        <4>6. \A x, d \in U : Fun(x) = Fun(d) => x = d
          BY <1>1, <1>3 DEF Open
        <4>7. U \subseteq Q /\ n \in U
          BY <1>1
        <4> HIDE DEF U, Q, h
        <4> QED BY <4>1, <4>4, <4>5, <4>6, <4>7 DEF Open
      <3>8. U \in SUBSET Ids
        BY <1>1
      <3>9. Route(k[3], Q, U)
        <4> HIDE DEF U
        <4> QED BY <1>1, <3>1, <3>2, <3>5, <3>6, <3>7 DEF Route
      <3>10. Leads(k, Q)
        <4> HIDE DEF U, Q, h
        <4> QED BY <3>2, <3>5, <3>8, <3>9 DEF Leads
      <3> QED BY <3>1, <3>10
    <2> QED BY <2>4, <2>5
  <1> QED BY <1>5, <1>6

\* The edges behind ways that lead out.
Leading == {x \in g.edges \X SUBSET Ids : Leads(x[1], x[2])}

Before(s, i) == {s[j].node : j \in 1 .. i}

\* A call of s has an edge of L left.
WayLeft(s, L) == \E i \in DOMAIN s : \E e \in s[i].edges : <<e, Before(s, i)>> \in L

LEMMA LeftWithEdges ==
  ASSUME NEW s \in Seq(FrameType), s # <<>>, NEW E \in SUBSET g.edges, NEW L, WayLeft(s, L),
         \A e \in s[Len(s)].edges : <<e, Nodes(s)>> \in L => e \in E
  PROVE  WayLeft(WithEdges(s, E), L)
  <1> DEFINE n == Len(s)
             t == WithEdges(s, E)
  <1>1. /\ n \in Nat \ {0} /\ DOMAIN t = 1 .. n /\ DOMAIN s = 1 .. n
        /\ \A i \in 1 .. n : t[i].node = s[i].node
        /\ \A i \in 1 .. n - 1 : t[i] = s[i]
        /\ t[n].edges = E
    BY WithEdgesIs, LenProperties
  <1>2. PICK i \in 1 .. n : \E e \in s[i].edges : <<e, Before(s, i)>> \in L
    BY <1>1 DEF WayLeft
  <1>0. PICK e \in s[i].edges : <<e, Before(s, i)>> \in L
    BY <1>2
  <1> HIDE DEF n, t
  <1>3. Before(t, i) = Before(s, i)
    BY <1>1 DEF Before
  <1>4. e \in t[i].edges
    <2>1. CASE i = n
      <3>1. Before(s, n) = Nodes(s)
        BY <1>1 DEF Before, Nodes
      <3>2. e \in s[Len(s)].edges /\ <<e, Nodes(s)>> \in L
        BY <1>0, <2>1, <3>1 DEF n
      <3> QED BY <1>1, <2>1, <3>2
    <2>2. CASE i # n
      <3>1. i \in 1 .. n - 1
        BY <1>1, <2>2
      <3> QED BY <1>0, <1>1, <3>1
    <2> QED BY <2>1, <2>2
  <1>5. WayLeft(t, L)
    BY <1>0, <1>1, <1>3, <1>4 DEF WayLeft
  <1> QED BY <1>5 DEF t

LEMMA LeftPushed ==
  ASSUME NEW s \in Seq(FrameType), NEW f \in FrameType, NEW L,
         WayLeft(s, L) \/ \E e \in f.edges : <<e, Nodes(s) \cup {f.node}>> \in L
  PROVE  WayLeft(Append(s, f), L)
  <1> DEFINE t == Append(s, f)
             n == Len(s)
  <1>1. /\ n \in Nat /\ DOMAIN s = 1 .. n /\ DOMAIN t = 1 .. n + 1
        /\ \A i \in 1 .. n : t[i] = s[i]
        /\ t[n + 1] = f
    BY Pushed
  <1>2. n + 1 \in DOMAIN t /\ \A i \in 1 .. n : i \in DOMAIN t
    BY <1>1
  <1> HIDE DEF t, n
  <1>3. CASE WayLeft(s, L)
    <2>0. PICK i \in 1 .. n : \E e \in s[i].edges : <<e, Before(s, i)>> \in L
      BY <1>1, <1>3 DEF WayLeft
    <2>1. PICK e \in s[i].edges : <<e, Before(s, i)>> \in L
      BY <2>0
    <2>2. \A j \in 1 .. i : j \in 1 .. n
      BY <1>1
    <2>3. Before(t, i) = Before(s, i)
      BY <1>1, <2>2 DEF Before
    <2>4. e \in t[i].edges
      BY <1>1, <2>1
    <2>5. WayLeft(t, L)
      BY <1>2, <2>1, <2>3, <2>4 DEF WayLeft
    <2> QED BY <2>5 DEF t
  <1>4. CASE \E e \in f.edges : <<e, Nodes(s) \cup {f.node}>> \in L
    <2>1. Nodes(t) = Nodes(s) \cup {f.node}
      BY NodesPushed DEF t
    <2>2. Before(t, n + 1) = Nodes(t)
      BY <1>1 DEF Before, Nodes
    <2>3. WayLeft(t, L)
      BY <1>1, <1>2, <1>4, <2>1, <2>2 DEF WayLeft
    <2> QED BY <2>3 DEF t
  <1> QED BY <1>3, <1>4

LEMMA LeftPopped ==
  ASSUME NEW s \in Seq(FrameType), s # <<>>, s[Len(s)].edges = {}, NEW L, WayLeft(s, L)
  PROVE  WayLeft(Front(s), L) /\ Len(s) # 1
  <1> DEFINE n == Len(s)
             t == Front(s)
  <1>1. /\ n \in Nat \ {0} /\ DOMAIN t = 1 .. n - 1 /\ DOMAIN s = 1 .. n
        /\ \A i \in 1 .. n - 1 : t[i] = s[i]
    BY Popped
  <1>2. s[n].edges = {}
    OBVIOUS
  <1>9. PICK i \in 1 .. n : \E e \in s[i].edges : <<e, Before(s, i)>> \in L
    BY <1>1 DEF WayLeft
  <1>3. PICK e \in s[i].edges : <<e, Before(s, i)>> \in L
    BY <1>9
  <1> HIDE DEF n, t
  <1>4. i \in 1 .. n - 1
    <2>1. i # n
      BY <1>2, <1>3
    <2> QED BY <1>1, <2>1
  <1>5. \A j \in 1 .. i : j \in 1 .. n - 1
    BY <1>1, <1>4
  <1>6. Before(t, i) = Before(s, i) /\ e \in t[i].edges
    BY <1>1, <1>3, <1>4, <1>5 DEF Before
  <1>7. WayLeft(t, L)
    BY <1>1, <1>3, <1>4, <1>6 DEF WayLeft
  <1>8. n # 1
    BY <1>1, <1>4
  <1> QED BY <1>7, <1>8 DEF t, n

\* Unless the search has found a way out and is leaving, a way out is left to
\* it if there is one.
OutInv ==
  /\ check # <<>> => phase = "path"
  /\ phase \in {"forward", "sinks", "backward", "path"} => reachType # "all"
  /\ phase = "path" /\ InEntry /\ EscapesHere =>
       WayLeft(stack, Leading) \/ (stack # <<>> /\ Top.edges = {} /\ reachOut /\ check = <<>>)
  /\ AllMeansAllInEntry

\* The ways depend on the graph and on the slices only.
LEMMA LeadingStays ==
  ASSUME UNCHANGED <<g, root, sinks, fdFuncs, bdFuncs>>
  PROVE  (InEntry' <=> InEntry) /\ (EscapesHere' <=> EscapesHere) /\ Leading' = Leading
  <1>1. InEntry' <=> InEntry
    BY DEF InEntry, IsEntry, IsCallEdge, Fun, CallsDirect, ReturnsLead, IsInnerEdge, Ids, SlicesAgree
  <1>2. PassableFuncs' = PassableFuncs
    BY DEF PassableFuncs, Passes, HeadOf, InnerFlow, IsCallEdge, IsInnerEdge, Fun, Ends, Ids
  <1>3. \A f : InnerFlow(f, PassableFuncs)' = InnerFlow(f, PassableFuncs)
    BY <1>2 DEF InnerFlow, IsCallEdge, IsInnerEdge, Fun
  <1>4. EscapesHere' <=> EscapesHere
    BY <1>3 DEF EscapesHere, Ends, Fun
  <1>5. Leading' = Leading
    BY <1>2, <1>3 DEF Leading, Leads, Route, Open, Entered, Back, EndFrom, Flow, From, IsInnerEdge, Calls, IsCallEdge,
                Free, Fun, HeadOf, Ids, InnerFlow
  <1> QED BY <1>1, <1>4, <1>5

\* Where a way leads out of the function of the root, the search begins on one.
LEMMA RouteBegins ==
  ASSUME g \in Graphs, InEntry, EscapesHere, root \in Ids, ~EndsHere(root)
  PROVE  \E e \in CfgFrame(root, {root}).edges : Leads(e, {root})
  <1> DEFINE E == Flow(Fun(root))
  <1>1. PICK t \in Dependents(root, E) : g.kind[t] = "ret"
    BY DEF EscapesHere, Ends, Flow
  <1>2. t \in From(root, {}, E)
    <2>1. E \in SUBSET g.edges
      BY FlowIs
    <2> HIDE DEF E
    <2> QED BY <1>1, <2>1, FromDependents
  <1>3. EndFrom(root, {})
    BY <1>1, <1>2 DEF EndFrom
  <1>4. Open({}, {}, Fun(root)) /\ Entered({} \cup {root})
    BY DEF Open, Entered
  <1>5. Route(root, {}, {})
    BY <1>3, <1>4 DEF Route
  <1>6. \E e \in CfgFrame(root, {} \cup {root}).edges : Leads(e, {} \cup {root})
    <2>1. {} \in SUBSET Ids
      OBVIOUS
    <2> QED BY <1>5, <2>1, NextOfRoute
  <1>7. {} \cup {root} = {root}
    OBVIOUS
  <1> QED BY <1>6, <1>7

\* The root of a slice with sinks leads somewhere.
LEMMA RootGoesOn ==
  ASSUME TypeOK, ForwardInv, Slicing, sinks # {}
  PROVE  root \in Ids /\ ~EndsHere(root)
  <1>1. root \in Ids /\ sinks \subseteq forward
    BY DEF TypeOK, Slicing
  <1>2. ASSUME EndsHere(root) PROVE FALSE
    <2>1. ClosedIn({root})
      BY <1>2 DEF ClosedIn, DataEdges, EndsHere
    <2>2. forward \subseteq {root}
      BY <1>1, <2>1 DEF ForwardInv, Chained
    <2> QED BY <1>1, <2>2 DEF ForwardInv
  <1> QED BY <1>1, <1>2

\* The search for a way out keeps one to search as long as there is one.
LEMMA OutCfg == TypeOK /\ ForwardInv /\ WayIsCalls /\ OutInv /\ CfgStep => OutInv'
  <1> SUFFICES ASSUME TypeOK, ForwardInv, WayIsCalls, OutInv, CfgStep PROVE OutInv'
    OBVIOUS
  <1>1. UNCHANGED <<g, root, sinks, fdFuncs, bdFuncs>> /\ phase \in {"sinks", "path"}
    <2>1. CASE CheckNode
      <3>1. phase = "path"
        BY <2>1 DEF CheckNode, OutInv
      <3> QED BY <2>1, <3>1, CheckEffect DEF searchVars, fdVars, bdVars
    <2>2. CASE ~CheckNode
      BY <2>2 DEF CfgStep, CfgStart, NoSink, CfgOnPath, CfgOut, CfgLeave, CfgGo, CfgReturn, Leaving,
                  CfgInto, CfgEdge, Running, fdVars, bdVars
    <2> QED BY <2>1, <2>2
  <1>2. (InEntry' <=> InEntry) /\ (EscapesHere' <=> EscapesHere) /\ Leading' = Leading /\ reachType # "all"
    BY <1>1, LeadingStays DEF OutInv
  <1> DEFINE L == Leading
             A == InEntry /\ EscapesHere
             Leaves(s, out, chk) == s # <<>> /\ s[Len(s)].edges = {} /\ out /\ chk = <<>>
  <1>3. SUFFICES /\ check' # <<>> => phase' = "path"
                 /\ phase' = "path" => reachType' # "all"
                 /\ phase' = "path" /\ A => WayLeft(stack', L) \/ Leaves(stack', reachOut', check')
                 /\ phase' \in {"path", "sliced"}
                 /\ phase' = "sliced" /\ reachType' = "all" => ~A
    BY <1>2 DEF OutInv, AllMeansAllInEntry, InEntry, Top
  <1>4. phase = "path" /\ A => WayLeft(stack, L) \/ Leaves(stack, reachOut, check)
    BY DEF OutInv, Top
  <1>5. g \in Graphs /\ stack \in Seq(FrameType)
    BY DEF TypeOK
  <1> HIDE DEF L, A, Leaves
  \* An edge of the top frame that does not lead out may go.
  <1>6. ASSUME phase = "path", stack # <<>>, Top.edges # {}, A
        PROVE  /\ WayLeft(stack, L)
               /\ Leads(Edge, visited) \/ WayLeft(Rest, L)
               /\ reachOut' /\ check' = <<>> => Leaves(Break, reachOut', check')
               /\ Rest \in Seq(FrameType) /\ Nodes(Rest) = visited
    <2>1. WayLeft(stack, L)
      BY <1>4, <1>6 DEF Leaves, Top
    <2>2. /\ Rest = WithEdges(stack, Top.edges \ {Edge}) /\ Break = WithEdges(stack, {})
          /\ Rest \in Seq(FrameType) /\ Break \in Seq(FrameType)
      BY <1>6, RestIs
    <2>3. Top.edges \ {Edge} \in SUBSET g.edges /\ {} \in SUBSET g.edges
      BY <1>6, TopFrame
    <2>4. visited = Nodes(stack)
      BY <1>6 DEF WayIsCalls
    <2>5. Nodes(Rest) = visited
      BY <1>5, <1>6, <2>2, <2>3, <2>4, NodesWithEdges
    <2>6. ASSUME ~Leads(Edge, visited) PROVE WayLeft(Rest, L)
      <3>1. <<Edge, Nodes(stack)>> \notin L
        BY <2>4, <2>6 DEF L, Leading
      <3>2. \A e \in stack[Len(stack)].edges : <<e, Nodes(stack)>> \in L => e \in Top.edges \ {Edge}
        BY <3>1 DEF Top
      <3> QED BY <1>5, <1>6, <2>1, <2>2, <2>3, <3>2, LeftWithEdges
    <2>7. Break # <<>> /\ Break[Len(Break)].edges = {}
      <3>1. /\ WithEdges(stack, {}) \in Seq(FrameType) /\ Len(WithEdges(stack, {})) = Len(stack)
            /\ Len(stack) \in Nat \ {0} /\ WithEdges(stack, {})[Len(stack)].edges = {}
        BY <1>5, <1>6, <2>3, WithEdgesIs
      <3> QED BY <2>2, <3>1, EmptySeq
    <2> QED BY <2>1, <2>2, <2>5, <2>6, <2>7 DEF Leaves
  <1>7. CASE CfgStart
    <2>1. /\ phase = "sinks" /\ phase' = "path" /\ reachType' = reachType /\ check' = check
          /\ stack' = <<CfgFrame(root, {root})>> /\ sinks # {}
      BY <1>7 DEF CfgStart
    <2>2. ASSUME A PROVE WayLeft(stack', L)
      <3>1. root \in Ids /\ ~EndsHere(root)
        BY <2>1, RootGoesOn DEF Slicing
      <3>2. PICK e \in CfgFrame(root, {root}).edges : Leads(e, {root})
        BY <1>5, <2>2, <3>1, RouteBegins DEF A
      <3>3. CfgFrame(root, {root}) \in FrameType /\ CfgFrame(root, {root}).node = root
        BY <3>1, FramesTyped
      <3>4. e \in g.edges /\ {root} \in SUBSET Ids
        BY <3>1, <3>3 DEF FrameType
      <3>5. <<e, {root}>> \in L
        BY <3>2, <3>4 DEF L, Leading
      <3> DEFINE s == <<CfgFrame(root, {root})>>
      <3>6. DOMAIN s = {1} /\ s[1] = CfgFrame(root, {root})
        BY <3>3, Single
      <3>7. Before(s, 1) = {root}
        BY <3>3, <3>6 DEF Before
      <3>8. WayLeft(s, L)
        <4> HIDE DEF s
        <4> QED BY <3>2, <3>5, <3>6, <3>7 DEF WayLeft
      <3> QED BY <2>1, <3>8
    <2>3. check = <<>>
      BY <2>1 DEF OutInv
    <2> QED BY <1>2, <2>1, <2>2, <2>3
  <1>8. CASE NoSink
    <2>1. phase' = "sliced" /\ reachType' = "none" /\ check' = check /\ phase = "sinks"
      BY <1>8 DEF NoSink, outVars
    <2> QED BY <2>1 DEF OutInv
  <1>9. CASE CfgOnPath \/ CfgLeave
    <2>1. /\ phase = "path" /\ phase' = "path" /\ stack # <<>> /\ Top.edges # {} /\ check = <<>> /\ check' = <<>>
          /\ stack' = Rest /\ reachType' = reachType
      BY <1>9 DEF CfgOnPath, CfgLeave, CfgInto, CfgEdge, Running, outVars
    <2>2. ~Leads(Edge, visited)
      <3>1. CASE CfgOnPath
        BY <3>1 DEF CfgOnPath, Leads, Route
      <3>2. CASE CfgLeave
        <4>1. Has(Edge, EA_RET) /\ (Fun(Edge[3]) \notin fdFuncs \/ ~IsRetContext(Edge[3]))
          BY <3>2 DEF CfgLeave
        <4> QED BY <4>1 DEF Leads, IsRetContext, InEdges
      <3> QED BY <1>9, <3>1, <3>2
    <2> QED BY <1>2, <1>6, <2>1, <2>2
  <1>10. CASE CfgOut
    <2>1. /\ phase = "path" /\ phase' = "path" /\ stack # <<>> /\ Top.edges # {} /\ check' = <<>>
          /\ stack' = Break /\ reachOut' = TRUE /\ reachType' = reachType
      BY <1>10 DEF CfgOut, CfgEdge, Running
    <2> QED BY <1>2, <1>6, <2>1
  <1>11. CASE CfgGo
    <2>1. /\ phase = "path" /\ phase' = "path" /\ stack # <<>> /\ Top.edges # {} /\ check = <<>>
          /\ reachType' = reachType /\ reachOut' = reachOut /\ ~EndsHere(Edge[3]) /\ Edge[3] \notin visited
      BY <1>11 DEF CfgGo, CfgInto, CfgEdge, Running
    <2>2. ASSUME A PROVE WayLeft(stack', L) \/ Leaves(stack', reachOut', check')
      <3>1. CASE Edge[3] \in sinks
        <4>1. stack' = Rest
          BY <1>11, <3>1 DEF CfgGo
        <4>2. ~Leads(Edge, visited)
          BY <3>1 DEF Leads, Free
        <4> QED BY <1>6, <2>1, <2>2, <4>1, <4>2
      <3>2. CASE Edge[3] \notin sinks /\ g.kind[Edge[3]] = "exit"
        <4>1. stack' = (IF reachOut THEN Break ELSE Rest) /\ check' = <<>>
          BY <1>11, <2>1, <3>2 DEF CfgGo, CfgCall
        <4>2. ~Leads(Edge, visited)
          BY <3>2 DEF Leads, Free
        <4> QED BY <1>6, <2>1, <2>2, <4>1, <4>2
      <3>3. CASE Edge[3] \notin sinks /\ g.kind[Edge[3]] # "exit"
        <4> DEFINE f == CfgFrame(Edge[3], visited \cup {Edge[3]})
        <4>1. stack' = Append(Rest, f)
          BY <1>11, <3>3 DEF CfgGo, CfgCall
        <4>2. Edge[3] \in Ids /\ f \in FrameType /\ f.node = Edge[3]
          BY <2>1, EdgeOfTop, FramesTyped
        <4>3. Rest \in Seq(FrameType) /\ Nodes(Rest) = visited
          BY <1>6, <2>1, <2>2
        <4>4. CASE WayLeft(Rest, L)
          <5> HIDE DEF f
          <5> QED BY <4>1, <4>2, <4>3, <4>4, LeftPushed
        <4>5. CASE Leads(Edge, visited)
          <5>1. PICK O \in SUBSET Ids : Route(Edge[3], visited, O)
            BY <4>5 DEF Leads
          <5>2. PICK e \in f.edges : Leads(e, visited \cup {Edge[3]})
            BY <1>5, <2>1, <2>2, <5>1, NextOfRoute DEF A
          <5>3. e \in g.edges /\ visited \cup {Edge[3]} \in SUBSET Ids
            BY <4>2, <5>1 DEF FrameType, Route
          <5>4. <<e, Nodes(Rest) \cup {f.node}>> \in L
            BY <4>2, <4>3, <5>2, <5>3 DEF L, Leading
          <5> HIDE DEF f
          <5> QED BY <4>1, <4>2, <4>3, <5>4, LeftPushed
        <4> QED BY <1>6, <2>1, <2>2, <4>4, <4>5
      <3> QED BY <3>1, <3>2, <3>3
    <2> QED BY <1>2, <2>1, <2>2
  <1>12. CASE CfgReturn
    <2>1. /\ phase = "path" /\ stack # <<>> /\ Top.edges = {} /\ check = <<>> /\ check' = <<>>
          /\ stack' = Below /\ reachOut' = reachOut
          /\ IF Len(stack) = 1 THEN phase' = "sliced" /\ reachType' = IF reachOut THEN reachType ELSE "all"
             ELSE phase' = phase /\ reachType' = reachType
      BY <1>12 DEF CfgReturn, Leaving, Below, outVars
    <2>2. ASSUME A, ~reachOut PROVE WayLeft(Front(stack), L) /\ Len(stack) # 1
      <3>1. WayLeft(stack, L)
        BY <1>4, <2>1, <2>2 DEF Leaves
      <3> QED BY <1>5, <2>1, <3>1, LeftPopped DEF Top
    <2>3. ASSUME reachOut, Len(stack) # 1 PROVE Leaves(stack', reachOut', check')
      <3> DEFINE s == Front(stack)
      <3>1. s \in Seq(FrameType) /\ Len(s) = Len(stack) - 1 /\ Len(stack) \in Nat \ {0} /\ (s = <<>> <=> Len(stack) = 1)
        BY <1>5, <2>1, Popped
      <3>2. Below = WithEdges(s, {})
        BY <2>3, <3>1 DEF Below, WithEdges
      <3>3. {} \in SUBSET g.edges /\ s # <<>>
        BY <2>3, <3>1
      <3>4. /\ WithEdges(s, {}) \in Seq(FrameType) /\ Len(WithEdges(s, {})) = Len(s)
            /\ Len(s) \in Nat \ {0} /\ WithEdges(s, {})[Len(s)].edges = {}
        <4> HIDE DEF s
        <4> QED BY <3>1, <3>3, WithEdgesIs
      <3>5. WithEdges(s, {}) # <<>>
        <4> HIDE DEF s
        <4> QED BY <3>4, EmptySeq
      <3> HIDE DEF s
      <3> QED BY <2>1, <2>3, <3>2, <3>4, <3>5 DEF Leaves
    <2>4. ~reachOut => Below = Front(stack)
      BY DEF Below
    <2> QED BY <1>2, <2>1, <2>2, <2>3, <2>4
  <1>13. CASE CheckNode
    <2>1. /\ phase = "path" /\ phase' = "path" /\ stack' = stack /\ reachType' = reachType /\ check # <<>>
      BY <1>13, CheckEffect DEF OutInv, searchVars, CheckNode
    <2>2. A => WayLeft(stack, L)
      BY <1>4, <2>1 DEF Leaves
    <2> QED BY <1>2, <2>1, <2>2
  <1> QED BY <1>7, <1>8, <1>9, <1>10, <1>11, <1>12, <1>13 DEF CfgStep

LEMMA OutStep == TypeOK /\ ForwardInv /\ WayIsCalls /\ OutInv /\ [Next]_vars => OutInv'
  <1> SUFFICES ASSUME TypeOK, ForwardInv, WayIsCalls, OutInv, [Next]_vars PROVE OutInv'
    OBVIOUS
  <1>1. CASE CfgStep
    BY <1>1, OutCfg
  <1>2. CASE ForwardVisited \/ ForwardBack \/ Forward \/ ForwardReturn \/ BackwardStep
    <2>1. /\ phase \in {"forward", "sinks", "backward"} /\ phase' \in {"forward", "sinks", "backward"}
          /\ check' = check /\ reachType' \in {reachType, "partial"}
      BY <1>2 DEF ForwardVisited, ForwardBack, Forward, ForwardReturn, BackwardStep, BackwardStart, BackwardHit,
           Backward, BackwardReturn, Running, Leaving, outVars
    <2> QED BY <2>1 DEF OutInv, AllMeansAllInEntry
  <1>3. CASE TakeSite \/ TakeSource \/ AddCaller \/ CollectSinks \/ NextSource \/ ReportBug
    <2>1. CASE TakeSite \/ TakeSource \/ AddCaller
      <3>1. phase = "sources" /\ phase' = "sources" /\ check' = check
        BY <2>1 DEF TakeSite, TakeSource, AddCaller, sliceVars, outVars
      <3> QED BY <3>1 DEF OutInv, AllMeansAllInEntry
    <2>2. CASE CollectSinks \/ ReportBug
      <3>1. phase # "path" /\ phase' = "next" /\ check' = check
        BY <2>2 DEF CollectSinks, ReportBug, outVars
      <3> QED BY <3>1 DEF OutInv, AllMeansAllInEntry
    <2>3. CASE NextSource
      <3>1. phase' = "forward" /\ check' = <<>> /\ reachType' = "none"
        BY <2>3 DEF NextSource, StartSlice
      <3> QED BY <3>1 DEF OutInv, AllMeansAllInEntry
    <2> QED BY <1>3, <2>1, <2>2, <2>3
  <1>4. CASE UNCHANGED vars
    <2>1. UNCHANGED <<g, root, sinks, fdFuncs, bdFuncs, phase, check, stack, reachOut, reachType>>
      BY <1>4 DEF vars, sliceVars, searchVars, fdVars, bdVars, outVars
    <2> QED BY <2>1, LeadingStays DEF OutInv, AllMeansAllInEntry, InEntry, Top
  <1> QED BY <1>1, <1>2, <1>3, <1>4 DEF Next, Go, Finish, Slice, SliceStep, CfgStep, BackwardStep

\* An allocation of a function that is never called is freed on every way that
\* ends the function, if the detector says so: in every dependence graph in
\* which a call enters at most one function, every return leads back behind the
\* calls, and the backward slice enters no function that the forward slice has
\* missed.  Callees may be nested, shared, recursive and called again.
THEOREM AllMeansAllThere == Spec => []AllMeansAllInEntry
  <1>1. Init => OutInv
    BY DEF Init, SliceInit, OutInv, AllMeansAllInEntry
  <1>2. Init => WayIsCalls
    BY DEF Init, WayIsCalls
  <1>3. Init => ForwardInv /\ BackwardInv
    BY DEF Init, ForwardInv, BackwardInv, Slicing
  <1>4. OutInv => AllMeansAllInEntry
    BY DEF OutInv
  <1> QED BY <1>1, <1>2, <1>3, <1>4, TypeCorrect, TracedStep, WayStep, OutStep, PTL DEF Spec

-----------------------------------------------------------------------------
(* The sources *)

\* What a wrapper returns to does not change.
LEMMA WrappersStay ==
  g' = g => /\ \A n : RetNodes(n)' = RetNodes(n) /\ CallersOf(n)' = CallersOf(n)
            /\ \A n : IsSrcInAWrapper(n)' = IsSrcInAWrapper(n)
  <1> SUFFICES ASSUME g' = g
               PROVE  /\ \A n : RetNodes(n)' = RetNodes(n) /\ CallersOf(n)' = CallersOf(n)
                      /\ \A n : IsSrcInAWrapper(n)' = IsSrcInAWrapper(n)
    OBVIOUS
  <1>1. \A n : Within(n)' = Within(n)
    BY DEF Within, DataSuccs, OutEdges, Node, Fun
  <1>2. \A n : Returns(n)' = Returns(n) /\ CallersOf(n)' = CallersOf(n)
    BY DEF Returns, CallersOf, OutEdges
  <1>3. \A n : RetNodes(n)' = RetNodes(n)
    BY <1>1, <1>2 DEF RetNodes
  <1>4. \A n : IsSrcInAWrapper(n)' = IsSrcInAWrapper(n)
    BY <1>3 DEF IsSrcInAWrapper, IsNormalCheck, Node, Fun
  <1> QED BY <1>2, <1>3, <1>4

\* The nodes H are accounted for: each is still to be looked at, or is a source,
\* or has passed its allocation on to the callers of one of its returns.
Accounted(H) ==
  /\ \A n \in Ids : g.kind[n] = "malloc" => n \in H
  /\ \A n \in H : \/ n \in todo \/ n \in ToSet(queue) \/ \E e \in callers : e[3] = n
                  \/ n \in srcSet \/ GivenTo(n, H)

SourcesInv ==
  /\ \E H \in SUBSET Ids : Accounted(H)
  /\ phase # "sources" => todo = {} /\ queue = <<>> /\ callers = {}

LEMMA SourcesInit == Init => SourcesInv
  <1> SUFFICES ASSUME Init PROVE SourcesInv
    OBVIOUS
  <1>1. Node = Ids
    BY GraphType DEF Init
  <1>2. Accounted(todo) /\ todo \in SUBSET Ids /\ phase = "sources"
    BY <1>1 DEF Init, Accounted
  <1> QED BY <1>2 DEF SourcesInv

LEMMA QueueGrows ==
  ASSUME NEW q \in Seq(Ids), NEW n \in Ids
  PROVE  \A m : m \in ToSet(q) \/ m = n => m \in ToSet(IF n \in ToSet(q) THEN q ELSE Append(q, n))
  <1> DEFINE t == Append(q, n)
  <1>1. /\ Len(q) \in Nat /\ DOMAIN q = 1 .. Len(q) /\ DOMAIN t = 1 .. Len(q) + 1
        /\ \A i \in 1 .. Len(q) : t[i] = q[i]
        /\ t[Len(q) + 1] = n
    BY AppendProperties, LenProperties
  <1>2. \A m \in ToSet(q) : m \in ToSet(t)
    BY <1>1 DEF ToSet
  <1>3. n \in ToSet(t)
    <2>1. Len(q) + 1 \in DOMAIN t
      BY <1>1
    <2> QED BY <1>1, <2>1 DEF ToSet
  <1> HIDE DEF t
  <1>4. (IF n \in ToSet(q) THEN q ELSE t) \in {q, t}
    OBVIOUS
  <1> QED BY <1>2, <1>3 DEF t

LEMMA QueueTaken ==
  ASSUME NEW q \in Seq(Ids), q # <<>>
  PROVE  \A m \in ToSet(q) : m = Head(q) \/ m \in ToSet(Tail(q))
  <1>1. /\ Len(q) \in Nat \ {0} /\ DOMAIN q = 1 .. Len(q) /\ Head(q) = q[1]
        /\ DOMAIN Tail(q) = 1 .. Len(q) - 1 /\ \A i \in 1 .. Len(q) - 1 : Tail(q)[i] = q[i + 1]
    BY EmptySeq, LenProperties, HeadTailProperties
  <1> SUFFICES ASSUME NEW i \in 1 .. Len(q), i # 1 PROVE q[i] \in ToSet(Tail(q))
    BY <1>1 DEF ToSet
  <1>2. i - 1 \in DOMAIN Tail(q) /\ Tail(q)[i - 1] = q[i]
    BY <1>1
  <1> QED BY <1>2 DEF ToSet

\* Accounting is kept by a step that keeps the graph, and for each node its
\* share of the work.
LEMMA AccountedStays ==
  ASSUME g' = g, NEW H \in SUBSET Ids, NEW K \in SUBSET Ids, H \subseteq K, Accounted(H),
         \A n \in H : n \in todo \/ n \in ToSet(queue) \/ (\E e \in callers : e[3] = n) \/ n \in srcSet
            => \/ n \in todo' \/ n \in ToSet(queue') \/ \E e \in callers' : e[3] = n
               \/ n \in srcSet' \/ GivenTo(n, K),
         \A n \in K \ H : \/ n \in todo' \/ n \in ToSet(queue') \/ \E e \in callers' : e[3] = n
                          \/ n \in srcSet' \/ GivenTo(n, K)
  PROVE  Accounted(K)' /\ K \in (SUBSET Ids)'
  <1>1. \A n : GivenTo(n, H) => GivenTo(n, K)
    BY DEF GivenTo
  <1>2. \A n : GivenTo(n, K)' <=> GivenTo(n, K)
    BY WrappersStay DEF GivenTo
  <1>3. Ids' = Ids
    BY DEF Ids
  <1>4. \A n \in Ids : g.kind[n] = "malloc" => n \in K
    BY DEF Accounted
  <1>5. \A n \in K : \/ n \in todo' \/ n \in ToSet(queue') \/ \E e \in callers' : e[3] = n
                     \/ n \in srcSet' \/ GivenTo(n, K)
    BY <1>1 DEF Accounted
  <1> QED BY <1>2, <1>3, <1>4, <1>5 DEF Accounted

LEMMA SourcesStep == TypeOK /\ SourcesInv /\ [Next]_vars => SourcesInv'
  <1> SUFFICES ASSUME TypeOK, SourcesInv, [Next]_vars PROVE SourcesInv'
    OBVIOUS
  <1>0. g' = g
    BY GraphStays
  <1>1. PICK H \in SUBSET Ids : Accounted(H)
    BY DEF SourcesInv
  <1>2. CASE TakeSite
    <2>1. PICK n \in todo : todo' = todo \ {n} /\ queue' = <<n>>
      BY <1>2 DEF TakeSite
    <2>2. /\ phase' = phase /\ phase = "sources" /\ queue = <<>> /\ UNCHANGED <<callers, srcSet>>
      BY <1>2 DEF TakeSite, sliceVars
    <2>3. ToSet(queue) = {} /\ ToSet(queue') = {n}
      BY <2>1, <2>2 DEF ToSet
    <2>4. Accounted(H)' /\ H \in (SUBSET Ids)'
      BY <1>0, <1>1, <2>1, <2>2, <2>3, AccountedStays
    <2> QED BY <2>2, <2>4 DEF SourcesInv
  <1>3. CASE TakeSource
    <2> DEFINE n == Head(queue)
    <2>1. /\ phase' = phase /\ phase = "sources" /\ queue # <<>> /\ callers = {} /\ todo' = todo
          /\ queue' = Tail(queue) /\ queue \in Seq(Ids)
      BY <1>3 DEF TakeSource, sliceVars, TypeOK
    <2>2. \A m \in ToSet(queue) : m = n \/ m \in ToSet(queue')
      BY <2>1, QueueTaken
    <2>3. CASE ~IsSrcInAWrapper(n)
      <3>1. srcSet' = srcSet \cup {n} /\ callers' = callers
        BY <1>3, <2>3 DEF TakeSource
      <3>2. Accounted(H)' /\ H \in (SUBSET Ids)'
        BY <1>0, <1>1, <2>1, <2>2, <3>1, AccountedStays
      <3> QED BY <2>1, <3>2 DEF SourcesInv
    <2>4. CASE IsSrcInAWrapper(n)
      <3>1. PICK r \in RetNodes(n) : callers' = CallersOf(r) /\ srcSet' = srcSet
        BY <1>3, <2>4 DEF TakeSource
      <3>2. \A e \in callers' : e[3] \in Ids
        BY <3>1, GraphType DEF CallersOf, OutEdges, TypeOK
      <3>3. PICK K \in SUBSET Ids : K = H \cup {e[3] : e \in callers'}
        BY <3>2
      <3>4. /\ H \subseteq K /\ \A e \in callers' : e[3] \in K
            /\ \A m \in K \ H : \E e \in callers' : e[3] = m
        BY <3>3
      <3>5. GivenTo(n, K)
        BY <2>4, <3>1, <3>4 DEF GivenTo
      <3> HIDE DEF n
      <3>6. Accounted(K)' /\ K \in (SUBSET Ids)'
        BY <1>0, <1>1, <2>1, <2>2, <3>1, <3>4, <3>5, AccountedStays
      <3> QED BY <2>1, <3>6 DEF SourcesInv
    <2> QED BY <2>3, <2>4
  <1>4. CASE AddCaller
    <2> DEFINE n == First(callers)[3]
    <2>1. /\ phase' = phase /\ phase = "sources" /\ callers # {} /\ UNCHANGED <<todo, srcSet>> /\ queue \in Seq(Ids)
          /\ queue' = (IF n \in ToSet(queue) THEN queue ELSE Append(queue, n))
          /\ callers' = callers \ {First(callers)}
      BY <1>4 DEF AddCaller, sliceVars, TypeOK
    <2>2. callers \in SUBSET (Nat \X Nat \X Nat) /\ callers \subseteq g.edges
      BY GraphType DEF TypeOK
    <2>3. n \in Ids
      BY <2>1, <2>2, FirstIn, GraphType DEF TypeOK
    <2> HIDE DEF n
    <2>4. \A m : m \in ToSet(queue) \/ m = n => m \in ToSet(queue')
      BY <2>1, <2>3, QueueGrows
    <2>5. \A e \in callers : e[3] = n \/ e \in callers'
      BY <2>1 DEF n
    <2>6. Accounted(H)' /\ H \in (SUBSET Ids)'
      BY <1>0, <1>1, <2>1, <2>4, <2>5, AccountedStays
    <2> QED BY <2>1, <2>6 DEF SourcesInv
  <1>5. ASSUME UNCHANGED <<todo, queue, callers, srcSet>>,
               phase' # "sources" => phase # "sources" \/ (todo = {} /\ queue = <<>> /\ callers = {})
        PROVE  SourcesInv'
    <2>1. Accounted(H)' /\ H \in (SUBSET Ids)'
      BY <1>0, <1>1, <1>5, AccountedStays
    <2> QED BY <1>5, <2>1 DEF SourcesInv
  <1>6. CASE CollectSinks
    BY <1>5, <1>6 DEF CollectSinks
  <1>7. CASE NextSource \/ ReportBug
    BY <1>5, <1>7 DEF NextSource, ReportBug
  <1>8. CASE Slice
    <2>1. phase' # "sources" => phase # "sources"
      <3>1. CASE CheckNode
        BY <3>1, CheckEffect
      <3>2. CASE ~CheckNode
        BY <1>8, <3>2 DEF Slice, SliceStep, ForwardVisited, ForwardBack, Forward, ForwardReturn, BackwardStart,
             BackwardHit, Backward, BackwardReturn, CfgStart, NoSink, CfgOnPath, CfgOut, CfgLeave, CfgInto, CfgEdge,
             CfgGo, CfgReturn, Running, Leaving
      <3> QED BY <3>1, <3>2
    <2> QED BY <1>5, <1>8, <2>1 DEF Slice, leakVars
  <1>9. CASE UNCHANGED vars
    BY <1>5, <1>9 DEF vars, sliceVars, leakVars
  <1> QED BY <1>2, <1>3, <1>4, <1>6, <1>7, <1>8, <1>9 DEF Next, Go, Finish

\* Whatever the program: when the sources are collected, each allocation is a
\* source or has been passed on to the call sites that get it, and those have
\* been treated alike.  Nothing is forgotten on the queue that refuses what it
\* holds.
THEOREM AllocationsPassedOn == Spec => []PassedOn
  <1>1. SourcesInv => PassedOn
    <2> SUFFICES ASSUME SourcesInv, phase = "next" PROVE PassedOn
      BY DEF PassedOn
    <2>1. PICK H \in SUBSET Ids : Accounted(H)
      BY DEF SourcesInv
    <2>2. todo = {} /\ ToSet(queue) = {} /\ callers = {}
      BY DEF SourcesInv, ToSet
    <2>3. \A n \in H : n \in srcSet \/ GivenTo(n, H)
      BY <2>1, <2>2 DEF Accounted
    <2> DEFINE W == H \ srcSet
    <2>4. W \in SUBSET {n \in Ids : IsSrcInAWrapper(n)}
      BY <2>3 DEF GivenTo
    <2>5. \A n \in Ids : g.kind[n] = "malloc" => n \in srcSet \cup W
      BY <2>1 DEF Accounted
    <2>6. \A n \in W : GivenTo(n, srcSet \cup W)
      BY <2>3 DEF GivenTo
    <2> HIDE DEF W
    <2> QED BY <2>4, <2>5, <2>6 DEF PassedOn
  <1> QED BY <1>1, SourcesInit, TypeCorrect, SourcesStep, PTL DEF Spec

=============================================================================

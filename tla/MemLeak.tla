------------------------------- MODULE MemLeak -------------------------------
(***************************************************************************)
(* The detector of lib/app/leakdetect/MemLeak.cpp: it collects the         *)
(* allocations, those in small wrappers given to their callers, and what   *)
(* frees, slices from each allocation and keeps a verdict for its place in *)
(* the source.                                                             *)
(***************************************************************************)
EXTENDS ProgramSlice

VARIABLES
  todo,     \* call sites of the allocating functions still to look at
  queue,    \* Queue of CollectSources
  callers,  \* what IsSrcInAWrapper has left to put on it
  srcSet,   \* m_SrcSet
  toSlice,  \* the part of it still to slice
  result    \* m_CheckResult

leakVars == <<todo, queue, callers, srcSet, toSlice, result>>
vars == <<g, sinkSet, sliceVars, leakVars>>

Init ==
  /\ g \in Graphs /\ SliceInit
  /\ phase = "sources" /\ todo = {n \in Node : g.kind[n] = "malloc"}
  /\ sinkSet = {} /\ queue = <<>> /\ callers = {} /\ srcSet = {} /\ toSlice = {} /\ result = <<>>

\* IsNormalCheck: a small function that calls an allocating function once; calls
\* through pointers do not count.
IsNormalCheck(f) ==
  ~g.large[f] /\ Cardinality({n \in Node \ g.pointed : Fun(n) = f /\ g.kind[n] = "malloc"}) = 1

\* The destinations of data dependences before the first return among them.
DataSuccs(n) ==
  {e[3] : e \in {d \in OutEdges(n, EA_DD) :
     \A c \in OutEdges(n, EA_DD) : c = d \/ EdgeLess(c, d) => g.kind[c[3]] # "ret"}}
Returns(n) == {e[3] : e \in {d \in OutEdges(n, EA_DD) : g.kind[d[3]] = "ret"}}

\* What IsSrcInAWrapper visits within the function of n, and where it returns.
Within(n) ==
  LET grow[S \in SUBSET Node] ==
        LET T == S \cup {m \in UNION {DataSuccs(k) : k \in S} : Fun(m) = Fun(n)}
        IN IF T = S THEN S ELSE grow[T]
  IN grow[{n}]
RetNodes(n) == UNION {Returns(m) : m \in Within(n)}
IsSrcInAWrapper(n) == IsNormalCheck(Fun(n)) /\ RetNodes(n) # {}

\* Where the value is returned to.
CallersOf(r) == {e \in OutEdges(r, EA_DD) : Has(e, EA_RET)}

\* The call sites are in the order of addresses.
TakeSite ==
  /\ phase = "sources" /\ queue = <<>> /\ callers = {} /\ todo # {}
  /\ \E n \in todo : todo' = todo \ {n} /\ queue' = <<n>>
  /\ UNCHANGED <<g, sinkSet, sliceVars, callers, srcSet, toSlice, result>>

\* One round of CollectSources: a wrapper gives way to its call sites.
TakeSource ==
  /\ phase = "sources" /\ queue # <<>> /\ callers = {}
  /\ queue' = Tail(queue)
  /\ LET n == Head(queue) IN
       IF IsSrcInAWrapper(n)
       THEN UNCHANGED srcSet /\ \E r \in RetNodes(n) : callers' = CallersOf(r)
       ELSE srcSet' = srcSet \cup {n} /\ UNCHANGED callers
  /\ UNCHANGED <<g, sinkSet, sliceVars, todo, toSlice, result>>

\* Seeded fault: the first call site of a wrapper becomes the source, no other.
AddCallerFirst ==
  /\ phase = "sources" /\ callers # {}
  /\ LET n == First(callers)[3] IN queue' = IF n \in ToSet(queue) THEN queue ELSE Append(queue, n)
  /\ callers' = {}
  /\ UNCHANGED <<g, sinkSet, sliceVars, todo, srcSet, toSlice, result>>

\* The queue refuses what it holds.
AddCaller ==
  /\ phase = "sources" /\ callers # {}
  /\ LET n == First(callers)[3] IN queue' = IF n \in ToSet(queue) THEN queue ELSE Append(queue, n)
  /\ callers' = callers \ {First(callers)}
  /\ UNCHANGED <<g, sinkSet, sliceVars, todo, srcSet, toSlice, result>>

CollectSinks ==
  /\ phase = "sources" /\ queue = <<>> /\ callers = {} /\ todo = {}
  /\ sinkSet' = {n \in Node : g.kind[n] = "free"}
  /\ toSlice' = srcSet
  /\ phase' = "next"
  /\ UNCHANGED <<g, root, searchVars, fdVars, bdVars, reachType, outVars, todo, queue, callers, srcSet, result>>

\* Seeded fault: the source stays in the set.
NextSourceAgain ==
  /\ phase = "next"
  /\ \E n \in toSlice : StartSlice(n)
  /\ UNCHANGED <<todo, queue, callers, srcSet, toSlice, result>>

NextSource ==
  /\ phase = "next"
  /\ \E n \in toSlice : toSlice' = toSlice \ {n} /\ StartSlice(n)
  /\ UNCHANGED <<todo, queue, callers, srcSet, result>>

Slice == SliceStep /\ UNCHANGED leakVars

\* A verdict for the place in the source, which another one may share.
ReportBug ==
  /\ phase = "sliced" /\ phase' = "next"
  /\ result' = [l \in DOMAIN result \cup {g.loc[root]} |->
                  IF l = g.loc[root] THEN reachType ELSE result[l]]
  /\ UNCHANGED <<g, root, sinkSet, searchVars, fdVars, bdVars, reachType, outVars, todo, queue, callers, srcSet, toSlice>>

Finish == phase = "next" /\ toSlice = {} /\ UNCHANGED vars

\* A step of the program: it has one thread.
Go == TakeSite \/ TakeSource \/ AddCaller \/ CollectSinks \/ NextSource \/ Slice \/ ReportBug

Next == Go \/ Finish

Spec == Init /\ [][Next]_vars /\ WF_vars(Go)

-----------------------------------------------------------------------------
Ids == 1 .. Len(g.fun)

FrameType == [node : Ids, edges : SUBSET g.edges]

TypeOK ==
  /\ g \in Graphs
  /\ phase \in {"sources", "next", "forward", "sinks", "backward", "path", "sliced"}
  /\ todo \subseteq Ids /\ queue \in Seq(Ids) /\ callers \subseteq g.edges
  /\ srcSet \subseteq Ids /\ toSlice \subseteq srcSet
  /\ root \in IF phase \in {"sources", "next"} THEN Ids \cup {0} ELSE Ids
  /\ sinkSet \subseteq Ids
  /\ stack \in Seq(FrameType) /\ visited \subseteq Ids
  /\ toSinks \subseteq sinks /\ sinks \subseteq forward
  /\ forward \subseteq Ids /\ backward \subseteq Ids /\ maxId \in [Func -> Nat]
  /\ fdFuncs \subseteq Func /\ bdFuncs \subseteq Func /\ pathFuncs \subseteq Func
  /\ reachType \in {"none", "partial", "all"} /\ reachOut \in BOOLEAN /\ crossFuncNum \in Nat

\* The nodes reached from S along edges of E.
ReachedFrom(S, E) ==
  LET grow[T \in SUBSET Node] ==
        LET U == T \cup {e[3] : e \in {d \in E : d[2] \in T}} IN IF U = T THEN T ELSE grow[U]
  IN grow[S]
DataEdges == {e \in g.edges : Has(e, EA_DD)}

\* The nodes that depend on n along E: those in every set that has n and is
\* closed under E.
Dependents(n, E) ==
  LET dst == {n} \cup {e[3] : e \in E}
  IN {m \in dst : \A C \in SUBSET dst :
        n \in C /\ (\A e \in E : e[2] \in C => e[3] \in C) => m \in C}

\* An allocation is called never freed only if no sink depends on it within its
\* function and the functions it calls.
NeverFreeIsReal ==
  phase = "sliced" /\ reachType = "none" =>
    Dependents(root, {e \in DataEdges : ~Has(e, EA_RET)}) \cap (sinkSet \ {root}) = {}

\* Every sink that the forward search meets is traced back to the allocation,
\* by a way within the forward slice.
SinksTraced ==
  phase \in {"path", "sliced"} /\ sinks # {} => sinks \cup {root} \subseteq backward

\* Way holds exactly the nodes whose call of CfgPathDfs has not returned.
PathIsStack ==
  phase = "path" => /\ visited = {stack[i].node : i \in DOMAIN stack}
                    /\ Cardinality(visited) = Len(stack)

IsCallEdge(e) == Has(e, EA_CFG) /\ Has(e, EA_CALL)
IsInnerEdge(e) == Has(e, EA_CFG) /\ ~Has(e, EA_CALL) /\ ~Has(e, EA_RET)

\* Reference: the flow within f without a sink and without an end of the program;
\* a call of functions that the program has is passed if one of them is in P.
InnerFlow(f, P) ==
  {e \in g.edges : /\ Fun(e[2]) = f /\ IsInnerEdge(e) /\ e[3] \notin sinks
                   /\ g.kind[e[3]] # "exit" /\ g.kind[e[2]] # "exit"
                   /\ \A c \in g.edges : IsCallEdge(c) /\ c[2] = e[2] =>
                        \E d \in g.edges : IsCallEdge(d) /\ d[2] = e[2] /\ Fun(d[3]) \in P}
Ends(S) == {n \in S : g.kind[n] = "ret"}
HeadOf(f) == CHOOSE n \in Ids : Fun(n) = f /\ \A m \in Ids : Fun(m) = f => n <= m
Passes(f, P) == HeadOf(f) \notin sinks /\ Ends(Dependents(HeadOf(f), InnerFlow(f, P))) # {}
\* The functions that can return without a sink: the least set.
PassableFuncs ==
  LET all == {h \in Func : \E n \in Ids : Fun(n) = h}
  IN {f \in all : \A P \in SUBSET all : (\A h \in all : Passes(h, P) => h \in P) => f \in P}

IsEntry(f) == \A e \in g.edges : IsCallEdge(e) => Fun(e[3]) # f

\* Some way leads from the allocation to the end of its function past every sink.
EscapesHere == Ends(Dependents(root, InnerFlow(Fun(root), PassableFuncs))) # {}

\* ... and from there out of the callers.
Escapes ==
  LET up == {e \in g.edges : e[1] = EA_CFG + EA_RET /\ e[3] \notin sinks /\ g.kind[e[3]] # "exit"}
      all == ReachedFrom({root}, up \cup UNION {InnerFlow(f, PassableFuncs) : f \in Func})
  IN \E n \in Ends(all) : IsEntry(Fun(n))

\* No call through a pointer enters two functions.
CallsDirect ==
  \A c, d \in g.edges : IsCallEdge(c) /\ IsCallEdge(d) /\ c[2] = d[2] => c[3] = d[3]
\* Every return of a called function leads to the node behind each of its calls:
\* it is the exit node of the function, and no other end of a block has been
\* taken for that (Dependence.cpp:130).
ReturnsLead ==
  \A c, e \in g.edges : IsCallEdge(c) /\ IsInnerEdge(e) /\ c[2] = e[2] =>
    \A n \in Ids : Fun(n) = Fun(c[3]) /\ g.kind[n] = "ret" =>
      \E r \in g.edges : Has(r, EA_CFG) /\ Has(r, EA_RET) /\ r[2] = n /\ r[3] = e[3]
\* The search enters no function that the forward slice has missed.
SlicesAgree == bdFuncs \cup {Fun(root)} \subseteq fdFuncs

\* An allocation of a function that is never called is freed on every way that
\* ends the function, if the detector says so, and neither calls through pointers
\* nor functions with another end nor the slices mislead the search.
AllMeansAllInEntry ==
  /\ phase = "sliced" /\ reachType = "all" /\ IsEntry(Fun(root))
  /\ CallsDirect /\ ReturnsLead /\ SlicesAgree
  => ~EscapesHere

\* "be reached through all branchs" (lib/analysis/ProgramSlice.cpp:519).
AllMeansAll == phase = "sliced" /\ reachType = "all" => ~Escapes

\* A wrapper has passed its allocation on to the callers of one of its returns.
GivenTo(n, H) ==
  IsSrcInAWrapper(n) /\ \E r \in RetNodes(n) : \A e \in CallersOf(r) : e[3] \in H

\* When the sources are collected, each allocation is one or belongs to a
\* wrapper; and all the call sites that get the value of a wrapper are sources
\* or belong to wrappers, too.  Only the value of a wrapper that is never called
\* is dropped.
PassedOn ==
  phase = "next" => \E W \in SUBSET {n \in Ids : IsSrcInAWrapper(n)} :
    /\ \A n \in Ids : g.kind[n] = "malloc" => n \in srcSet \cup W
    /\ \A n \in W : GivenTo(n, srcSet \cup W)

\* The detector ends, unless the value of an allocation flows in a circle.
Acyclic == \A n \in Ids : n \notin ReachedFrom({e[3] : e \in {d \in DataEdges : d[2] = n}}, DataEdges)
DetectorEnds == Acyclic ~> (phase = "next" /\ toSlice = {})
=============================================================================

----------------------------- MODULE Dependence -----------------------------
(***************************************************************************)
(* The dependence graph of lib/analysis/Dependence.cpp: control flow       *)
(* within and between functions, reaching definitions, and the data        *)
(* dependences within functions, from actual parameters to the callee and  *)
(* back.  Edges are sets: flow, call and return edges of the control flow, *)
(* and dd, a function from the data edges <<attribute, source,             *)
(* destination>> to the value of the edge.                                 *)
(***************************************************************************)
EXTENDS DefUse, SequencesExt

VARIABLES
  phase,   \* "intra", "pts", "reach", "acts", "done" or "aborted"
  order,   \* the functions in the order of the call graph's node map
  at,      \* position in order
  walk,    \* call paths UpdatePtsByFs is still called for
  flow,    \* EA_CFG edges within functions
  calls,   \* EA_CFG|EA_CALL edges
  rets,    \* EA_CFG|EA_RET edges
  dummy,   \* sources of the edges that became EA_CFG|EA_CFG_DMY
  exit,    \* m_ExitNode
  ids,     \* m_Id2DefVal: value and instruction of each id
  pos,     \* position in m_FuncDgNode
  change,  \* Change of ReachingDefs
  in,      \* m_InSet
  out,     \* m_OutSet
  todo,    \* entries of the call-site map BuildInterDdg has still to visit
  more,    \* the callees of the entry's call still to relate
  cur,     \* the call and the callee at hand
  queue,   \* Queue of RelateActPara
  seen,    \* Visited of RelateActPara
  dd       \* the data dependences

cfgVars == <<flow, calls, rets, dummy, exit, ids>>
rdVars == <<pos, change, in, out>>
interVars == <<todo, more, cur, queue, seen>>
vars == <<prog, duVars, phase, order, at, walk, cfgVars, rdVars, interVars, dd>>

Orders == {s \in [1 .. Cardinality(Func) -> Func] : ToSet(s) = Func}
CallPairs == {p \in Inst \X Func : IsCall(p[1]) /\ p[2] \in At(p[1]).callees}

Init ==
  /\ DuInit
  /\ phase = "intra" /\ order \in Orders /\ at = 1 /\ walk = prog.paths
  /\ flow = {} /\ calls = {} /\ rets = {} /\ dummy = {}
  /\ exit = [f \in Func |-> <<f, 1>>] /\ ids = [f \in Func |-> <<>>]
  /\ pos = 1 /\ change = FALSE
  /\ in = [x \in Inst |-> {}] /\ out = [x \in Inst |-> {}]
  /\ todo = {} /\ more = {} /\ cur = <<>> /\ queue = <<>> /\ seen = {}
  /\ dd = <<>>

-----------------------------------------------------------------------------
(* BuildCfg *)

\* Instructions of one function in the order they have there.
InOrder(S) ==
  [k \in 1 .. Cardinality(S) |-> CHOOSE x \in S : Cardinality({y \in S : y[2] < x[2]}) = k - 1]

\* The definitions of f in the order of its instructions get the ids 1, 2, ...
IdsOf(f, def) ==
  LET defs == InOrder({x \in InstsOf(f) : def[x] # {}})
  IN [k \in DOMAIN defs |-> [val |-> CHOOSE v \in def[defs[k]] : TRUE, inst |-> defs[k]]]

FlowOf(f) == {<<<<f, e[1]>>, <<f, e[2]>>>> : e \in prog.flow[f]}
Ends(f) == {x \in InstsOf(f) : \A e \in FlowOf(f) : e[1] # x}

\* Definitions and uses of the next function, its control flow and the ids of
\* its definitions.  Of several blocks that nothing follows the last one in the
\* order of addresses has the exit node.
BuildIntraCfg ==
  /\ phase = "intra" /\ at <= Len(order)
  /\ LET f == order[at] IN
       /\ GetDefUseInfo(f)
       /\ flow' = flow \cup FlowOf(f)
       /\ \E x \in Ends(f) : exit' = [exit EXCEPT ![f] = x]
       /\ ids' = [ids EXCEPT ![f] = IdsOf(f, ddef')]
  /\ at' = at + 1
  /\ UNCHANGED <<prog, phase, order, walk, calls, rets, dummy, rdVars, interVars, dd>>

\* A function that never ends, so that no block is without successors, has no
\* exit node: the assertion fails.
NoExitNode ==
  /\ phase = "intra" /\ at <= Len(order) /\ Ends(order[at]) = {}
  /\ phase' = "aborted"
  /\ UNCHANGED <<prog, duVars, order, at, walk, cfgVars, rdVars, interVars, dd>>

\* BuildInterCfg: the first edge that leaves a call leads to its successor in
\* the function, and becomes a dummy if something returns there.
BuildInterCfg ==
  /\ phase = "intra" /\ at > Len(order)
  /\ LET next == [c \in {p[1] : p \in CallPairs} |-> CHOOSE y \in Inst : <<c, y>> \in flow]
         ret == {<<exit[p[2]], next[p[1]]>> : p \in CallPairs}
         Incoming(y) == {e \in flow \cup ret : e[2] = y}
     IN /\ calls' = {<<p[1], <<p[2], 1>>>> : p \in CallPairs}
        /\ rets' = ret
        /\ dummy' = {c \in DOMAIN next : Cardinality(Incoming(next[c])) > 1}
  /\ phase' = "pts"
  /\ UNCHANGED <<prog, duVars, order, at, walk, flow, exit, ids, rdVars, interVars, dd>>

-----------------------------------------------------------------------------
(* UpdatePtsByFs *)

\* One function of a call path; the value set lasts as long as the path.
Walk ==
  /\ phase = "pts" /\ walk # <<>> /\ Head(walk) # <<>>
  /\ GetPDefUseInfo(Head(Head(walk)), FALSE)
  /\ walk' = <<Tail(Head(walk))>> \o Tail(walk)
  /\ UNCHANGED <<prog, phase, order, at, cfgVars, rdVars, interVars, dd>>

NextPath ==
  /\ phase = "pts" /\ walk # <<>> /\ Head(walk) = <<>>
  /\ walk' = Tail(walk)
  /\ valueSet' = {}
  /\ UNCHANGED <<prog, ddef, pdef, uses, puse, fields, actSet, phase, order, at, cfgVars, rdVars, interVars, dd>>

Left == Func \ UNION {ToSet(prog.paths[i]) : i \in DOMAIN prog.paths}

\* The functions on no path, with all that their pointers may point to.
WalkLeft ==
  /\ phase = "pts" /\ walk = <<>>
  /\ \/ /\ at > Len(order) + Cardinality(Left)
        /\ phase' = "reach" /\ at' = 1
        /\ UNCHANGED duVars
     \/ /\ at <= Len(order) + Cardinality(Left)
        /\ GetPDefUseInfo(SetToSeq(Left)[at - Len(order)], TRUE)
        /\ at' = at + 1
        /\ UNCHANGED phase
  /\ UNCHANGED <<prog, order, walk, cfgVars, rdVars, interVars, dd>>

-----------------------------------------------------------------------------
(* ReachingDefs and BuildDdg of a function *)

Gen(x) == {k \in DOMAIN ids[x[1]] : ids[x[1]][k].inst = x}

\* Seeded fault: a definition kills itself only.
KillOwn(x) == Gen(x)

Kill(x) == {k \in DOMAIN ids[x[1]] : ids[x[1]][k].val \in ddef[x]}
Preds(x) == {e[1] : e \in {d \in flow \cup calls \cup rets : d[2] = x}}

\* Every predecessor counts, those in other functions included; the head has no
\* definitions coming in.
InOf(x) == IF x[2] = 1 THEN in[x] ELSE in[x] \cup UNION {out[p] : p \in Preds(x)}

\* Seeded fault: only the last node decides on another round.
SetOutLast(x, new) == out' = [out EXCEPT ![x] = @ \cup new] /\ change' = ~(new \subseteq out[x])

\* Seeded fault: any definition counts as a change.
SetOutAlways(x, new) == out' = [out EXCEPT ![x] = @ \cup new] /\ change' = (change \/ new # {})

SetOut(x, new) == out' = [out EXCEPT ![x] = @ \cup new] /\ change' = (change \/ ~(new \subseteq out[x]))

ReachNode ==
  /\ phase = "reach" /\ at <= Len(order) /\ pos <= Len(prog.code[order[at]])
  /\ LET x == <<order[at], pos>> IN
       /\ in' = [in EXCEPT ![x] = InOf(x)]
       /\ SetOut(x, Gen(x) \cup (InOf(x) \ Kill(x)))
  /\ pos' = pos + 1
  /\ UNCHANGED <<prog, duVars, phase, order, at, walk, cfgVars, interVars, dd>>

NextRound ==
  /\ phase = "reach" /\ at <= Len(order) /\ pos > Len(prog.code[order[at]]) /\ change
  /\ pos' = 1 /\ change' = FALSE
  /\ UNCHANGED <<prog, duVars, phase, order, at, walk, cfgVars, in, out, interVars, dd>>

\* AddDdgEdge: an edge with the same attribute and ends is kept as it is.
AddEdges(new) ==
  [e \in DOMAIN dd \cup {t[1] : t \in new} |->
     IF e \in DOMAIN dd THEN dd[e] ELSE (CHOOSE t \in new : t[1] = e)[2]]

\* The ids that come in stand for definitions of this function, wherever they
\* come from.  Nodes without a DefUse keep their sets.
BuildDdg ==
  /\ phase = "reach" /\ at <= Len(order) /\ pos > Len(prog.code[order[at]]) /\ ~change
  /\ LET f == order[at]
         users == {x \in InstsOf(f) : HasDu(x)}
     IN /\ dd' = AddEdges(UNION {{<<<<"DD", ids[f][k].inst, u>>, ids[f][k].val>> :
                                     k \in {j \in in[u] \cap DOMAIN ids[f] : ids[f][j].val \in uses[u]}} :
                                   u \in users})
        /\ in' = [x \in Inst |-> IF x \in users THEN {} ELSE in[x]]
        /\ out' = [x \in Inst |-> IF x \in users THEN {} ELSE out[x]]
        /\ ids' = [ids EXCEPT ![f] = <<>>]
  /\ at' = at + 1 /\ pos' = 1
  /\ UNCHANGED <<prog, duVars, phase, order, walk, flow, calls, rets, dummy, exit, change, interVars>>

-----------------------------------------------------------------------------
(* BuildInterDdg *)

StartInter ==
  /\ phase = "reach" /\ at > Len(order)
  /\ phase' = "acts" /\ todo' = CallPairs
  /\ UNCHANGED <<prog, duVars, order, at, walk, cfgVars, rdVars, more, cur, queue, seen, dd>>

Succs(x) == {e[2] : e \in {d \in flow : d[1] = x}}
ReturnsFrom(x) == \E e \in rets : e[1] = x

\* ComQueue refuses what it holds already.
InQueue(q, S) == q \o InOrder(S \ ToSet(q))

\* The map has an entry for each callee of a call, those of one call in a row;
\* with each of them all callees of the call are related.
TakeCall ==
  /\ phase = "acts" /\ cur = <<>> /\ more = {} /\ todo # {}
  /\ LET begun == {p \in todo : \E q \in CallPairs \ todo : q[1] = p[1]} IN
       \E p \in IF begun = {} THEN todo ELSE begun :
         /\ todo' = todo \ {p}
         /\ more' = {q \in CallPairs : q[1] = p[1]}
  /\ UNCHANGED <<prog, duVars, phase, order, at, walk, cfgVars, rdVars, cur, queue, seen, dd>>

\* The search of RelateActPara starts behind the call, if the callee defines
\* anything of its callers.
TakeCallee ==
  /\ phase = "acts" /\ cur = <<>>
  /\ \E p \in more :
       /\ cur' = p /\ more' = more \ {p}
       /\ queue' = IF actSet[p[2]] = <<>> THEN <<>> ELSE InOrder(Succs(p[1]))
  /\ seen' = {}
  /\ UNCHANGED <<prog, duVars, phase, order, at, walk, cfgVars, rdVars, todo, dd>>

\* The uses at x of what callee g defines.  An address is compared with its
\* field; another use with the whole object, or else with any field of it.
Related(g, x) ==
  LET Whole(v) == <<v, None>> \in DOMAIN actSet[g] IN
    IF Is(x, "gep")
    THEN {<<<<"DD", actSet[g][k], x>>, At(actSet[g][k]).args[2]>> : k \in {Field(x)} \cap DOMAIN actSet[g]}
    ELSE {<<<<"DD", actSet[g][k], x>>, k[1]>> :
            k \in {l \in DOMAIN actSet[g] : /\ l[1] \in uses[x] \ puse[x]
                                            /\ Whole(l[1]) => l[2] = None}}

\* Seeded fault: a node that is queued counts as seen.
RelateActParaEarly ==
  /\ phase = "acts" /\ queue # <<>>
  /\ LET x == Head(queue) IN
       /\ seen' = seen \cup {x} \cup Succs(x)
       /\ IF x \in seen THEN UNCHANGED dd ELSE dd' = AddEdges(Related(cur[2], x))
       /\ queue' = IF x \in seen THEN Tail(queue)
                   ELSE IF ReturnsFrom(x) THEN <<>>
                   ELSE InQueue(Tail(queue), Succs(x))
  /\ UNCHANGED <<prog, duVars, phase, order, at, walk, cfgVars, rdVars, todo, more, cur>>

\* One round of the search; at a node that returns to a caller all of it ends.
RelateActPara ==
  /\ phase = "acts" /\ queue # <<>>
  /\ LET x == Head(queue) IN
       /\ seen' = seen \cup {x}
       /\ IF x \in seen THEN UNCHANGED dd ELSE dd' = AddEdges(Related(cur[2], x))
       /\ queue' = IF x \in seen THEN Tail(queue)
                   ELSE IF ReturnsFrom(x) THEN <<>>
                   ELSE InQueue(Tail(queue), Succs(x))
  /\ UNCHANGED <<prog, duVars, phase, order, at, walk, cfgVars, rdVars, todo, more, cur>>

\* GetFpByAp: the formal of the first actual parameter that is v.
Formal(c, g, v) ==
  {prog.formals[g][k] : k \in {j \in DOMAIN At(c).args \cap DOMAIN prog.formals[g] :
                                 /\ At(c).args[j] = v
                                 /\ \A i \in 1 .. j - 1 : At(c).args[i] # v}}

InEdges(x) == {e \in DOMAIN dd : e[3] = x}

ParaEdges(c, g, edges) ==
  UNION {{<<<<IF e[2][1] = c[1] THEN "DDCall" ELSE "DD", e[2], x>>, dd[e]>> :
             x \in UNION {FpInst(g, p) : p \in Formal(c, g, dd[e])}} : e \in edges}

\* Seeded fault: one definition of the actual parameters is related.
ParaOne(c, g) == LET e == InEdges(c) IN ParaEdges(c, g, IF e = {} THEN {} ELSE {CHOOSE d \in e : TRUE})

Para(c, g) == ParaEdges(c, g, InEdges(c))

\* The definitions of the actual parameters reach the stores of the formal ones,
\* and the returned value, if anything defines it, reaches the call.
RelateFpRet ==
  /\ phase = "acts" /\ cur # <<>> /\ queue = <<>>
  /\ LET c == cur[1]
         g == cur[2]
         results == {<<<<"DDRet", r, c>>, c>> : r \in {q \in RetInst(g) : ddef[c] # {} /\ ~prog.void[g] /\ InEdges(q) # {}}}
     IN dd' = AddEdges(Para(c, g) \cup results)
  /\ cur' = <<>>
  /\ UNCHANGED <<prog, duVars, phase, order, at, walk, cfgVars, rdVars, todo, more, queue, seen>>

\* UpdateGlobalDd: every load of a global depends on every store to it.
UpdateGlobalDd ==
  /\ phase = "acts" /\ cur = <<>> /\ todo = {} /\ more = {}
  /\ dd' = AddEdges({<<<<"DD", p[1], p[2]>>, At(p[2]).args[1]>> :
                       p \in {q \in Inst \X Inst : /\ Is(q[1], "store") /\ Is(q[2], "load")
                                                   /\ At(q[2]).args[1] \in Global
                                                   /\ At(q[1]).args[2] = At(q[2]).args[1]}})
  /\ phase' = "done"
  /\ UNCHANGED <<prog, duVars, order, at, walk, cfgVars, rdVars, interVars>>

Done == phase \in {"done", "aborted"} /\ UNCHANGED vars

\* A step of the program: it has one thread.
Go ==
  \/ BuildIntraCfg \/ NoExitNode \/ BuildInterCfg \/ Walk \/ NextPath \/ WalkLeft
  \/ ReachNode \/ NextRound \/ BuildDdg
  \/ StartInter \/ TakeCall \/ TakeCallee \/ RelateActPara \/ RelateFpRet \/ UpdateGlobalDd

Next == Go \/ Done

Spec == Init /\ [][Next]_vars /\ WF_vars(Go)

-----------------------------------------------------------------------------
TypeOK ==
  /\ DuTypeOK
  /\ phase \in {"intra", "pts", "reach", "acts", "done", "aborted"}
  /\ order \in Orders /\ at \in 1 .. 2 * Len(order) + 1
  /\ flow \cup calls \cup rets \subseteq Inst \X Inst /\ dummy \subseteq Inst
  /\ \A f \in Func : exit[f] \in InstsOf(f)
  /\ \A f \in Func : ids[f] \in Seq([val : Value, inst : InstsOf(f)])
  /\ pos \in Nat \ {0} /\ change \in BOOLEAN
  /\ in \in [Inst -> SUBSET Nat] /\ out \in [Inst -> SUBSET Nat]
  /\ todo \cup more \subseteq CallPairs /\ cur \in CallPairs \cup {<<>>}
  /\ queue \in Seq(Inst) /\ seen \subseteq Inst
  /\ DOMAIN dd \subseteq {"DD", "DDCall", "DDRet"} \X Inst \X Inst
  /\ \A e \in DOMAIN dd : dd[e] \in Value

\* Reference: the instructions of its function that definition d of v reaches
\* without another definition of v in between.
ReachedBy(d) ==
  LET grow[S \in SUBSET Inst] ==
        LET T == S \cup UNION {Succs(x) : x \in {y \in S : ddef[y] # ddef[d]} \cup {d}}
        IN IF T = S THEN S ELSE grow[T]
  IN grow[Succs(d)]

IntraDone == phase = "acts" /\ cur = <<>> /\ todo = CallPairs /\ more = {}

\* Definitions come into f along a return edge: f calls itself, or a callee that
\* was processed before f and whose exit node has no DefUse.
Leaky(f) ==
  \E p \in CallPairs :
    /\ p[1][1] = f
    /\ \/ p[2] = f
       \/ /\ ~HasDu(exit[p[2]])
          /\ \E i, j \in DOMAIN order : order[i] = p[2] /\ order[j] = f /\ i < j

\* No dependence of a direct definition within its function is missed: what the
\* definition reaches on a path that does not define the value again, and uses
\* it, has an edge from it.  Possible definitions are none of these: they are
\* found after the ids were given out, and have no edges.
IntraComplete ==
  IntraDone => \A d \in {x \in Inst : ddef[x] # {}} : \A u \in ReachedBy(d) :
    ddef[d] \cap uses[u] # {} => <<"DD", d, u>> \in DOMAIN dd

\* ... and none is invented, unless ids came into the function by its calls.
IntraSound ==
  IntraDone => \A e \in DOMAIN dd : ~Leaky(e[2][1]) => e[3] \in ReachedBy(e[2])

Behind(c) ==
  LET grow[S \in SUBSET Inst] == LET T == S \cup UNION {Succs(x) : x \in S} IN IF T = S THEN S ELSE grow[T]
  IN grow[Succs(c)]

\* The stores of g that may go into o, and those of them that go into one field
\* of it, by the address g takes first of the field.
StoresInto(g, o) == {s \in InstsOf(g) : Is(s, "store") /\ o \in pdef[s]}
StoresIntoField(g, o, off) ==
  {s \in StoresInto(g, o) : IsFirst(At(s).args[2]) /\ At(At(s).args[2]).off = off}

\* A field the callee stores into, of an object the call passes to it, has a
\* dependence at every address of it behind the call; the object has one at
\* every instruction that names it, unless points-to makes it a possible use.
\* That is so in functions that are never called, and one store stands for all
\* of them: of a field the first one is kept, and with a store into the whole
\* object those into its fields are not looked at.
StoresReachRoot ==
  phase = "done" => \A p \in CallPairs : Callers(p[1][1]) = {} =>
    \A o \in Range(At(p[1]).args), x \in Behind(p[1]) :
      LET g == p[2]
          Reach(S) == S # {} => \E s \in S : <<"DD", s, x>> \in DOMAIN dd
      IN IF Is(x, "gep") THEN Base(At(x).args[1]) = o => Reach(StoresIntoField(g, o, At(x).off))
         ELSE o \in uses[x] \ puse[x] => Reach(StoresInto(g, o))

\* A direct definition of an actual parameter within the caller that reaches the
\* call reaches the callee's copy of the formal one: its only store, if it has
\* one.  What f(x, x) passes reaches the first formal only.
ActualsReachFormals ==
  phase = "done" => \A p \in CallPairs, d \in Inst :
    \A k \in DOMAIN At(p[1]).args \cap DOMAIN prog.formals[p[2]] :
      LET v == At(p[1]).args[k]
          copies == {x \in InstsOf(p[2]) : Is(x, "store") /\ At(x).args[1] = prog.formals[p[2]][k]}
      IN (/\ d[1] = p[1][1] /\ ddef[d] = {v} /\ p[1] \in ReachedBy(d)
          /\ \A j \in 1 .. k - 1 : At(p[1]).args[j] # v) =>
           \A x \in Inst : copies = {x} => <<"DDCall", d, x>> \in DOMAIN dd

\* The loops of the construction end.
BuildEnds == <>(phase \in {"done", "aborted"})
=============================================================================

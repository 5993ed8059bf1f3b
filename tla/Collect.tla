------------------------------ MODULE Collect ------------------------------
(***************************************************************************)
(* How the points-to analysis gets its constraints: CollectConstraints of  *)
(* lib/analysis/points-to/Anderson.cpp with the tables of Anderson.h.      *)
(* The values of the program get nodes, every instruction its constraints, *)
(* one action per kind of instruction.  A value is looked up by            *)
(* GetValueNode, which answers 0 for a value without a node; 0 is also the *)
(* node of the pointer to anything.  An assertion that fails ends the run: *)
(* assertions are active in the build.                                     *)
(***************************************************************************)
EXTENDS Constraint, PointerFlow

CONSTANT Sources   \* the programs analysed

-----------------------------------------------------------------------------
(* The library *)

ExtTables == <<"normal", "malloc", "realloc", "memcpy", "retarg0", "cast">>

\* Seeded fault: the first table a name is in counts.
SearchFirst(lists) ==
  IF lists = {} THEN "none" ELSE Head(SelectSeq(ExtTables, LAMBDA t : t \in lists))

\* Search of ExternalLib: the last table a name is in is the one that counts.
Search(lists) ==
  IF lists = {} THEN "none" ELSE Last(SelectSeq(ExtTables, LAMBDA t : t \in lists))

-----------------------------------------------------------------------------
(* What the front end and LLVM's verifier make sure of *)

InstType == [op : STRING, res : STRING, args : Seq(STRING), fun : STRING]
FuncType ==
  [name : STRING, params : Seq(STRING), ptr : BOOLEAN, vararg : BOOLEAN, debug : BOOLEAN,
   lists : SUBSET STRING, def : STRING, body : Seq(InstType)]
GlobalType == [name : STRING, string : BOOLEAN, init : Seq(STRING)]
ProgramType == [globals : Seq(GlobalType), funcs : Seq(FuncType)]

Constants == {NULL, UNDEF, ADDRESS, ALIAS}
Results(f) == {f.body[k].res : k \in DOMAIN f.body}

\* Constants, globals, functions, and what the function f itself names.
Operands(p, f) ==
  Constants \cup Names(p.globals) \cup Names(p.funcs) \cup ToSet(f.params) \cup Results(f)

\* The operands of an instruction that have the type of a pointer; the
\* functions of the C library that ExternalLib knows are called by their types.
\* Not all that return their first argument have a pointer there: strerror_r
\* takes a number first.
PointerAt(p, i) ==
  CASE i.op = "load" \/ i.op = "gep" \/ (i.op = "cast" /\ IsPtr(i.res)) -> {1}
    [] i.op = "store" -> {2}
    [] i.op = "select" -> {1, 2}
    [] i.op = "call" /\ IsDecl(Entered(p, i.fun)) ->
         IF Search(Entered(p, i.fun).lists) \in {"memcpy", "cast"} THEN {1, 2} ELSE {}
    [] OTHER -> {}

LegalInst(p, f, i) ==
  /\ i.op # "inttoptr" => PtrArgs(i) \subseteq Operands(p, f)
  /\ PointerAt(p, i) \subseteq {k \in DOMAIN i.args : IsPtr(i.args[k])}
  /\ i.op \in {"alloca", "phi", "select", "inttoptr"} => IsPtr(i.res)
  /\ i.op = "inttoptr" => i.args # <<>>
  /\ i.op = "call" => i.fun \in Names(p.funcs)
  /\ i.op = "call" /\ Search(Entered(p, i.fun).lists) = "retarg0" => i.args # <<>>
  /\ i.op = "call" /\ IsPtr(i.res) /\ ~IsDecl(Entered(p, i.fun)) => Entered(p, i.fun).ptr
  /\ i.op = "ret" /\ PtrArgs(i) # {} => f.ptr

Legal(p) ==
  /\ p \in ProgramType
  /\ \A f \in ToSet(p.funcs) :
       /\ f.def \in Names(p.funcs) \cup {NOPTR}
       /\ (ToSet(f.params) \cup Results(f)) \cap Constants = {}
       /\ \A i \in ToSet(f.body) : LegalInst(p, f, i)
  /\ (Names(p.globals) \cup Names(p.funcs)) \cap Constants = {}
  /\ \A g \in ToSet(p.globals) :
       \/ g.init = <<EXTERNAL>>
       \/ ToSet(g.init) \subseteq {ZERO, NULL, ADDRESS, ALIAS} \cup Names(p.globals) \cup Names(p.funcs)

ASSUME SourcesAssumption == \A p \in Sources : Legal(p)

VARIABLES
  source,   \* the program
  phase,    \* "globals", "functions", "inits", "values", "insts", "solve", "done" or "aborted"
  at,       \* the global or function looked at
  pc,       \* the instruction
  an,       \* the tables of Anderson and m_Constraints
  sol       \* the points-to sets of the nodes

vars == <<source, phase, at, pc, an, sol>>

Globals == source.globals
Funcs == source.funcs
Func == Funcs[at]
Inst == Func.body[pc]

-----------------------------------------------------------------------------
(* Nodes and their tables *)

Put(t, v, id) == [x \in DOMAIN t \cup {v} |-> IF x = v THEN id ELSE t[x]]
NewId(a) == Len(a.nodes)

\* AddCstNode: the next node, for the value v or for none.
AddCstNode(a, v) == [a EXCEPT !.nodes = Append(@, v)]
CreateValueNode(a, v) == [AddCstNode(a, v) EXCEPT !.value = Put(@, v, NewId(a))]
CreateObjNode(a, v) == [AddCstNode(a, v) EXCEPT !.object = Put(@, v, NewId(a))]
CreateRetNode(a, f) == [AddCstNode(a, f) EXCEPT !.ret = Put(@, f, NewId(a))]
CreateVarArgNode(a, f) == [AddCstNode(a, f) EXCEPT !.vararg = Put(@, f, NewId(a))]

Find(t, v) == IF v \in DOMAIN t THEN t[v] ELSE 0

\* GetValueNode, with GetConstValueNode for the constants.
GetValueNode(a, v) ==
  IF v \in {NULL, UNDEF} THEN NullPtr
  ELSE IF v = ADDRESS THEN UniversalPtr
  ELSE Find(a.value, v)

\* GetObjNode, with GetConstObjNode.
GetObjNode(a, v) ==
  IF v = NULL THEN NullObject
  ELSE IF v = ADDRESS THEN UniversalObj
  ELSE Find(a.object, v)

\* Nodes for those of the values s that are pointers.
CreateValueNodes(a, s) ==
  LET create(b, v) == IF IsPtr(v) THEN CreateValueNode(b, v) ELSE b IN FoldLeft(create, a, s)

AddConstraint(a, t, d, s) == [a EXCEPT !.constraints = Append(@, Cst(t, s, d))]
Require(a, id) == [a EXCEPT !.ok = @ /\ id # 0]

\* dst = src for two nodes that an assertion checks.
Copy(a, d, s) == AddConstraint(Require(Require(a, d), s), E_COPY, d, s)

\* A value in an operand that may have no node yet gets one.
EnsureNode(a, v) == IF GetValueNode(a, v) = 0 THEN CreateValueNode(a, v) ELSE a
\* The node EnsureNode leaves v with.
Ensured(a, v) == IF GetValueNode(a, v) = 0 THEN NewId(a) ELSE GetValueNode(a, v)

NoNodes == [x \in {} |-> 0]
BaseConstraints ==
  << Cst(E_ADDR_OF, UniversalObj, UniversalPtr), Cst(E_STORE, UniversalObj, UniversalObj),
     Cst(E_ADDR_OF, NullObject, NullPtr) >>

Init ==
  /\ source \in Sources
  /\ phase = "globals" /\ at = 1 /\ pc = 1 /\ sol = [n \in Node |-> {}]
  /\ an = [nodes |-> <<UNKNOWN, UNKNOWN, NULL, NULL>>, value |-> NoNodes, object |-> NoNodes,
           ret |-> NoNodes, vararg |-> NoNodes, constraints |-> BaseConstraints, ok |-> TRUE]

-----------------------------------------------------------------------------
(* Globals and functions: CollectCstOfGlobal *)

Running(ph) == phase = ph /\ an.ok
NextItem == at' = at + 1 /\ UNCHANGED <<source, phase, pc, sol>>

ObjectOf(a, v) == AddConstraint(a, E_ADDR_OF, a.value[v], a.object[v])

GlobalNode ==
  /\ Running("globals") /\ at <= Len(Globals)
  /\ LET g == Globals[at]
         valued == CreateValueNode(an, g.name)
     IN an' = ObjectOf(IF g.string THEN [valued EXCEPT !.object = Put(@, g.name, UniversalObj)]
                       ELSE CreateObjNode(valued, g.name), g.name)
  /\ NextItem

\* Seeded fault: the parameters get no nodes.
FuncNodesNoFormals(a, f) ==
  LET returned == IF f.ptr THEN CreateRetNode(a, f.name) ELSE a
  IN IF f.vararg THEN CreateVarArgNode(returned, f.name) ELSE returned

\* Nodes of a function with a body: what it returns, its further arguments,
\* and its parameters.
FuncNodes(a, f) ==
  LET returned == IF f.ptr THEN CreateRetNode(a, f.name) ELSE a
      further == IF f.vararg THEN CreateVarArgNode(returned, f.name) ELSE returned
  IN CreateValueNodes(further, f.params)

FuncNode ==
  /\ Running("functions") /\ at <= Len(Funcs)
  /\ LET f == Func
         named == ObjectOf(CreateObjNode(CreateValueNode(an, f.name), f.name), f.name)
     IN an' = IF IsDecl(f) THEN named ELSE FuncNodes(named, f)
  /\ NextItem

\* AddGlbInitialCst: what an element v of an initializer puts into object o.
AddGlbInitialCst(a, o, v) ==
  IF v = ZERO THEN AddConstraint(a, E_COPY, o, NullObject)
  ELSE AddConstraint(Require(a, GetObjNode(a, v)), E_ADDR_OF, o, GetObjNode(a, v))

AddGlbInitialCsts(a, o, init) ==
  LET add(b, v) == AddGlbInitialCst(b, o, v) IN FoldLeft(add, a, init)

GlobalInit ==
  /\ Running("inits") /\ at <= Len(Globals)
  /\ LET g == Globals[at]
         o == GetObjNode(an, g.name)
     IN an' = IF g.init = <<EXTERNAL>> THEN AddConstraint(an, E_COPY, o, UniversalObj)
              ELSE AddGlbInitialCsts(an, o, g.init)
  /\ NextItem

-----------------------------------------------------------------------------
(* Calls *)

\* The memory an allocation gives; the result is asked for here.
AddAllocation(a, i) ==
  LET v == GetValueNode(a, i.res)
  IN IF v = 0 THEN a ELSE AddConstraint(CreateObjNode(a, i.res), E_ADDR_OF, v, NewId(a))

\* Only a pointer has a node.
AddRetArg0(a, i) ==
  LET v == GetValueNode(a, i.res)
  IN IF ~IsPtr(i.res) \/ v = 0 THEN a ELSE Copy(a, v, GetValueNode(a, i.args[1]))

\* The result gets a node here though it may have one; a call for nothing
\* gets one too, which nobody looks up.
CreateResultNode(a, i) == IF IsPtr(i.res) THEN CreateValueNode(a, i.res) ELSE AddCstNode(a, NULL)

\* Seeded fault: the memory is copied to the source.
AddMoveBack(a, to, from) ==
  LET moved == AddCstNode(Require(Require(a, to), from), NULL)
  IN AddConstraint(AddConstraint(moved, E_LOAD, NewId(a), to), E_STORE, from, NewId(a))

\* What to points to gets the content of what from points to.
AddMove(a, to, from) ==
  LET moved == AddCstNode(Require(Require(a, to), from), NULL)
  IN AddConstraint(AddConstraint(moved, E_LOAD, NewId(a), from), E_STORE, to, NewId(a))

AddMemcpy(a, i) ==
  LET to == GetValueNode(a, i.args[1])
      moved == AddMove(a, to, GetValueNode(a, i.args[2]))
  IN AddConstraint(CreateResultNode(moved, i), E_COPY, NewId(moved), to)

AddCast(a, i) ==
  LET str == GetValueNode(a, i.args[1])
      end == GetValueNode(a, i.args[2])
  IN IF i.args[2] = NULL THEN a
     ELSE AddConstraint(Require(Require(a, str), end), E_STORE, str, end)

\* v may be anything.
Unknown(a, v) ==
  IF IsPtr(v) THEN AddConstraint(EnsureNode(a, v), E_COPY, Ensured(a, v), UniversalPtr) ELSE a

AllUnknown(a, s) == FoldLeft(Unknown, a, s)

AddUnknownCall(a, i) ==
  LET result == GetValueNode(a, i.res)
      returned == IF IsPtr(i.res) THEN AddConstraint(Require(a, result), E_COPY, result, UniversalPtr)
                  ELSE a
  IN AllUnknown(returned, i.args)

AddExtLibCst(a, i, lists) ==
  LET type == Search(lists)
  IN CASE type = "normal" -> a
       [] type = "malloc" \/ (type = "realloc" /\ i.args[1] # NULL) -> AddAllocation(a, i)
       [] type = "retarg0" -> AddRetArg0(a, i)
       [] type = "memcpy" -> AddMemcpy(a, i)
       [] type = "cast" -> AddCast(a, i)
       [] OTHER -> AddUnknownCall(a, i)

\* The actual in operand k goes to the formal, or to the further arguments.
AddFormal(a, f, i, k) ==
  LET formal == GetValueNode(a, f.params[k])
      asked == Require(a, formal)
  IN IF ~IsPtr(f.params[k]) THEN a
     ELSE IF IsPtr(i.args[k])
     THEN AddConstraint(EnsureNode(asked, i.args[k]), E_COPY, formal, Ensured(a, i.args[k]))
     ELSE AddConstraint(asked, E_COPY, formal, UniversalPtr)

AddExtra(a, f, i, k) ==
  IF f.vararg /\ IsPtr(i.args[k]) THEN Copy(a, Find(a.vararg, f.name), GetValueNode(a, i.args[k]))
  ELSE a

AddFuncArg(a, f, i, k) == IF k \in DOMAIN f.params THEN AddFormal(a, f, i, k) ELSE AddExtra(a, f, i, k)
AddFuncArgCst(a, f, i) ==
  LET add(b, k) == AddFuncArg(b, f, i, k) IN FoldLeft(add, a, [k \in DOMAIN i.args |-> k])

AddCallSiteCst(a, caller, i) ==
  LET f == Entered(source, i.fun)
  IN IF f.debug THEN a
     ELSE IF IsDecl(f) THEN AddExtLibCst(a, i, f.lists)
     ELSE IF f.name = caller THEN a
     ELSE AddFuncArgCst(IF IsPtr(i.res) THEN Copy(a, GetValueNode(a, i.res), Find(a.ret, f.name))
                        ELSE a, f, i)

-----------------------------------------------------------------------------
(* Instructions: CollectCstOfInst, one action per kind *)

\* The function at hand has no code to look at.
Skipped(f) == IsDecl(f) \/ f.debug

EnterFunction ==
  /\ Running("values") /\ at <= Len(Funcs) /\ ~Skipped(Func)
  /\ an' = CreateValueNodes(an, [k \in DOMAIN Func.body |-> Func.body[k].res])
  /\ phase' = "insts" /\ pc' = 1
  /\ UNCHANGED <<source, at, sol>>

SkipFunction ==
  /\ Running("values") /\ at <= Len(Funcs) /\ Skipped(Func)
  /\ UNCHANGED an /\ NextItem

LeaveFunction ==
  /\ Running("insts") /\ pc > Len(Func.body)
  /\ phase' = "values" /\ at' = at + 1
  /\ UNCHANGED <<source, pc, an, sol>>

AtInst(op) == Running("insts") /\ pc <= Len(Func.body) /\ Inst.op = op
NextInst == pc' = pc + 1 /\ UNCHANGED <<source, phase, at, sol>>

Res == GetValueNode(an, Inst.res)
Opnd(k) == GetValueNode(an, Inst.args[k])

CollectAlloca ==
  /\ AtInst("alloca")
  /\ an' = AddConstraint(CreateObjNode(Require(an, Res), Inst.res), E_ADDR_OF, Res, NewId(an))
  /\ NextInst

CollectCall ==
  /\ AtInst("call")
  /\ an' = AddCallSiteCst(an, Func.name, Inst)
  /\ NextInst

\* A call through a pointer, or of a function cast to another type.
CollectIndirectCall ==
  /\ AtInst("icall")
  /\ an' = IF IsPtr(Inst.res) THEN AddConstraint(Require(an, Res), E_COPY, Res, UniversalPtr) ELSE an
  /\ NextInst

CollectRet ==
  /\ AtInst("ret")
  /\ LET returned == Find(an.ret, Func.name)
     IN an' = IF PtrArgs(Inst) = {} THEN an
              ELSE AddConstraint(EnsureNode(Require(an, returned), Inst.args[1]),
                                 E_COPY, returned, Ensured(an, Inst.args[1]))
  /\ NextInst

CollectLoad ==
  /\ AtInst("load")
  /\ an' = IF IsPtr(Inst.res) THEN AddConstraint(Require(Require(an, Opnd(1)), Res), E_LOAD, Res, Opnd(1))
           ELSE an
  /\ NextInst

CollectStore ==
  /\ AtInst("store")
  /\ LET v == Inst.args[1]
         ensured == EnsureNode(an, v)
         d == GetValueNode(ensured, Inst.args[2])
     IN an' = IF IsPtr(v) THEN AddConstraint(Require(ensured, d), E_STORE, d, Ensured(an, v)) ELSE an
  /\ NextInst

CollectBitCast ==
  /\ AtInst("cast")
  /\ an' = IF IsPtr(Inst.res) THEN Copy(an, Res, Opnd(1)) ELSE an
  /\ NextInst

\* An address computed from a pointer has that pointer's targets.  A vector
\* of addresses is no pointer, and the first assertion refuses it before the
\* case meant for it is reached.
CollectGetElementPtr ==
  /\ AtInst("gep")
  /\ an' = IF IsPtr(Inst.res) THEN Copy(an, Res, Opnd(1)) ELSE [an EXCEPT !.ok = FALSE]
  /\ NextInst

\* A member taken out of a structure value counts as null.
CollectInstExtractValue ==
  /\ AtInst("extract")
  /\ an' = IF IsPtr(Inst.res) THEN Copy(an, Res, NullPtr) ELSE an
  /\ NextInst

\* d is any of the values s; a value without a node counts as node 0 here.
AnyOf(a, d, s) ==
  LET add(b, v) == AddConstraint(b, E_COPY, d, GetValueNode(b, v)) IN FoldLeft(add, a, s)

CollectPHI ==
  /\ AtInst("phi")
  /\ an' = AnyOf(Require(an, Res), Res, Inst.args)
  /\ NextInst

CollectSelect ==
  /\ AtInst("select")
  /\ an' = Copy(Copy(an, Res, Opnd(1)), Res, Opnd(2))
  /\ NextInst

\* The test is the wrong way round: a pointer gets nothing.
CollectVAArg ==
  /\ AtInst("va_arg")
  /\ an' = IF IsPtr(Inst.res) THEN an ELSE Copy(an, Res, GetValueNode(an, Inst.fun))
  /\ NextInst

\* An integer made a pointer points to an object named by the integer.
CollectIntToPtr ==
  /\ AtInst("inttoptr")
  /\ an' = AddConstraint(CreateObjNode(Require(an, Res), Inst.args[1]), E_ADDR_OF, Res, NewId(an))
  /\ NextInst

CollectCstOfInst ==
  \/ CollectAlloca \/ CollectCall \/ CollectIndirectCall \/ CollectRet
  \/ CollectLoad \/ CollectStore \/ CollectBitCast \/ CollectGetElementPtr
  \/ CollectInstExtractValue \/ CollectPHI \/ CollectSelect \/ CollectVAArg
  \/ CollectIntToPtr

-----------------------------------------------------------------------------
(* The whole of it *)

Advance(from, to, seq) ==
  /\ Running(from) /\ at > Len(seq)
  /\ phase' = to /\ at' = 1

NextPhase ==
  /\ \/ Advance("globals", "functions", Globals)
     \/ Advance("functions", "inits", Funcs)
     \/ Advance("inits", "values", Globals)
  /\ UNCHANGED <<source, pc, an, sol>>

\* The tables a query does not need are cleared.
Finish ==
  /\ Advance("values", "solve", Funcs)
  /\ an' = [an EXCEPT !.object = NoNodes, !.ret = NoNodes, !.vararg = NoNodes]
  /\ UNCHANGED <<source, pc, sol>>

\* S with what one constraint asks of it.
Enforce(S, c) ==
  CASE c.type = E_ADDR_OF -> [S EXCEPT ![c.dst] = @ \cup {c.src}]
    [] c.type = E_COPY -> [S EXCEPT ![c.dst] = @ \cup S[c.src]]
    [] c.src = c.dst -> S
    [] c.type = E_LOAD -> [S EXCEPT ![c.dst] = @ \cup UNION {S[o] : o \in S[c.src] \ {UniversalObj}}]
    [] OTHER -> [n \in Node |-> IF n \in S[c.dst] \ {UniversalObj} THEN S[n] \cup S[c.src] ELSE S[n]]

LeastSolution(p) ==
  LET grow[S \in [Node -> SUBSET Node]] ==
        LET T == FoldLeft(Enforce, S, p) IN IF T = S THEN S ELSE grow[T]
  IN grow[[n \in Node |-> {}]]

\* What Anderson returns for these constraints, unless it collapses a cycle.
Solve ==
  /\ phase = "solve"
  /\ sol' = LeastSolution(an.constraints) /\ phase' = "done"
  /\ UNCHANGED <<source, at, pc, an>>

Abort ==
  /\ ~an.ok /\ phase # "aborted"
  /\ phase' = "aborted"
  /\ UNCHANGED <<source, at, pc, an, sol>>

Stop == phase \in {"done", "aborted"} /\ UNCHANGED vars

Next ==
  \/ GlobalNode \/ FuncNode \/ GlobalInit \/ NextPhase
  \/ EnterFunction \/ SkipFunction \/ LeaveFunction \/ CollectCstOfInst
  \/ Finish \/ Solve \/ Abort \/ Stop

Spec == Init /\ [][Next]_vars

\* GetPtsTo: the objects v is said to point to, none for a value without a node.
GetPtsTo(v) ==
  LET n == GetValueNode(an, v) IN IF n = 0 THEN {} ELSE {an.nodes[o + 1] : o \in sol[n]}

-----------------------------------------------------------------------------
(* Properties *)

\* The instructions whose effect on pointers is lost in function f: a further
\* argument read, a member taken out of a structure value, an integer made a
\* pointer again, a call of f itself, what strtol and its kin leave in their
\* argument, a pointer stored into itself, and an earlier use of the result of
\* a move of memory, which gets a new node when the move is looked at.
Table(i) == IF i.op = "call" /\ IsDecl(Entered(source, i.fun)) THEN Search(Entered(source, i.fun).lists)
            ELSE "none"
Lost(f, k) ==
  LET i == f.body[k]
  IN \/ i.op \in {"va_arg", "extract", "inttoptr"}
     \/ i.op = "call" /\ Entered(source, i.fun).name = f.name
     \/ Table(i) = "cast"
     \/ i.op = "store" /\ i.args[1] = i.args[2]
     \/ \E m \in k .. Len(f.body) : Table(f.body[m]) = "memcpy" /\ f.body[m].res \in PtrArgs(i)

\* Where only operands are lost: those of a call through a pointer, the old
\* block of a realloc, and a second name of a global.
Understand(i) ==
  [i EXCEPT !.args =
     IF i.op = "icall" \/ Table(i) = "realloc" THEN [k \in DOMAIN @ |-> NOPTR]
     ELSE [k \in DOMAIN @ |-> IF @[k] = ALIAS THEN UNDEF ELSE @[k]]]

\* The program without what is lost, and with the functions for debug output
\* taken for unknown ones.
Understood ==
  LET kept(f) == SelectSeq([k \in DOMAIN f.body |-> k], LAMBDA k : ~Lost(f, k))
      known(f) == [f EXCEPT !.body = IF f.debug THEN <<>>
                                     ELSE [n \in DOMAIN kept(f) |-> Understand(f.body[kept(f)[n]])]]
  IN [source EXCEPT !.funcs = [n \in DOMAIN @ |-> known(@[n])]]

Objects ==
  Names(Globals) \cup Names(Funcs)
  \cup {i.res : i \in {j \in Code(source) : j.op = "alloca" \/ Table(j) \in {"malloc", "realloc"}}}

\* Wherever the address of an object of the program may get, the object is
\* among the answers for that value, or the answer is that it may be anything.
\* Every kind of instruction, call and initializer has its part in this, and
\* what the code leaves out is named by Lost and Understand.  Pointers that come
\* from outside the program are not asked for: "If it doesn't have an
\* initializer [...] it points to the universal set" (Anderson.cpp:224) is not
\* what the constraint there, a copy of an empty set, achieves.
Covers ==
  phase = "done" =>
    \A x \in Flows(Understood) :
      x[1][1] = "value" /\ x[2] \in Objects => {x[2], UNKNOWN} \cap GetPtsTo(x[1][2]) # {}

\* An object is among the answers only if its address may get there, in every
\* program without a call of strtol and its kin, whose operands are swapped.
Justified ==
  phase = "done" /\ (\A i \in Code(source) : Table(i) # "cast") =>
    LET flows == Flows(source)
    IN \A v \in DOMAIN an.value \ (Names(Globals) \cup Names(Funcs)) :
          \A o \in GetPtsTo(v) \cap Objects : <<Val(v), o>> \in flows

\* An operand the code insists on having a node.
Insists(i, v) ==
  \/ i.op \in {"load", "cast", "gep", "select"} /\ v \in PtrArgs(i)
  \/ i.op = "store" /\ v = i.args[2] /\ IsPtr(i.args[1])
  \/ i.op = "call" /\ LET f == Entered(source, i.fun)
                      IN IF IsDecl(f) THEN Table(i) \in {"retarg0", "memcpy", "cast"} /\ v \in PtrArgs(i)
                         ELSE f.vararg /\ v \in {i.args[k] : k \in DOMAIN i.args \ DOMAIN f.params}

\* What the collection gives up on: a constant address or a second name of a
\* global where a node is insisted on, a vector of addresses computed, an
\* integer read by va_arg, and a number as first argument of a function that is
\* taken to return that, as of strerror_r.
Unsupported ==
  \/ \E i \in Code(source) : Insists(i, ADDRESS) \/ Insists(i, ALIAS)
  \/ \E i \in Code(source) : ~IsPtr(i.res) /\ i.op \in {"gep", "va_arg"}
  \/ \E g \in ToSet(Globals) : ALIAS \in ToSet(g.init)
  \/ \E i \in Code(source) : Table(i) = "retarg0" /\ IsPtr(i.res) /\ ~IsPtr(i.args[1])

\* The collection comes to its end, whatever the order of functions and the
\* links between modules, in every program without such an instruction; the
\* constants are those that PointerFlow tells.
CollectsAll == phase = "aborted" => Unsupported

=============================================================================

------------------------------- MODULE DefUse -------------------------------
(***************************************************************************)
(* Definitions and uses of instructions: class InstAnalyzer of             *)
(* include/llvmadpt/LlvmAdpt.h and lib/llvmadpt/LlvmAdpt.cpp.  A first     *)
(* pass over a function notes what its instructions define and use         *)
(* directly; a second one, along a call path, adds what the points-to sets *)
(* say is possible, as far as it was created on the path.                  *)
(*                                                                         *)
(* An instruction is <<f, i>>, the i-th of function f, and stands for its  *)
(* result.  Its operands are args: a store has the value and the address,  *)
(* a call the actual parameters; off is the field of a GetElementPtr.      *)
(***************************************************************************)
EXTENDS Naturals, Sequences, FiniteSets, Functions

CONSTANTS
  Func,      \* the functions with bodies that the entry reaches
  Atom,      \* values that are no instructions: globals, formals, constants
  Global,    \* the global ones
  None,      \* NULL, and what is no value of the program
  Junk,      \* what may be read where nothing was written
  Programs   \* the programs analysed: code, block structure, formal parameters,
             \* points-to sets, and the call paths that are walked

Value == Atom \cup (Func \X Nat)

Op == {"alloca", "store", "load", "gep", "op", "call", "vcall", "br", "ret"}
Code == Seq([op : Op, args : Seq(Value), off : Atom \cup {None}, callees : SUBSET Func])

\* Rules of LLVM: the entry block, where the first instruction is, has no
\* predecessors, and a call is not the last instruction of its function; a field
\* has an offset.
Arity(op) == IF op = "store" THEN 2 ELSE IF op \in {"load", "gep"} THEN 1 ELSE 0
IsBody(code, flow) ==
  /\ code \in Code /\ code # <<>> /\ flow \subseteq (DOMAIN code) \X (DOMAIN code)
  /\ \A e \in flow : e[2] # 1
  /\ \A i \in DOMAIN code :
       /\ Len(code[i].args) >= Arity(code[i].op)
       /\ code[i].op = "gep" => code[i].off # None
       /\ code[i].op \in {"call", "vcall"} => \E e \in flow : e[1] = i

ASSUME ProgramsAssumption ==
  /\ IsFiniteSet(Func) /\ Global \subseteq Atom /\ None \notin Value
  /\ Junk \subseteq Value \cup {None}
  /\ \A p \in Programs :
       /\ p.paths \in Seq(Seq(Func))
       /\ Range(p.pts) \subseteq SUBSET Value /\ DOMAIN p.pts \subseteq Value
       /\ \A f \in Func :
            IsBody(p.code[f], p.flow[f]) /\ p.formals[f] \in Seq(Atom) /\ p.void[f] \in BOOLEAN

VARIABLES
  prog,     \* the program
  ddef,     \* m_DDef of each DefUse
  pdef,     \* the possible definitions, m_PDefFlg
  uses,     \* m_UseVal
  puse,     \* the possible ones, m_PUseFlg
  fields,   \* m_ElemSet of each function: DefVal of each field
  actSet,   \* m_PDefActSet: the store and the address of it, by field
  valueSet  \* m_ValueSet of DgGraph

duVars == <<ddef, pdef, uses, puse, fields, actSet, valueSet>>

InstsOf(f) == {<<f, i>> : i \in DOMAIN prog.code[f]}
Inst == UNION {InstsOf(f) : f \in Func}
At(x) == prog.code[x[1]][x[2]]
Is(x, op) == x \in Inst /\ At(x).op = op
IsCall(x) == At(x).op \in {"call", "vcall"}
Callers(f) == {c \in Inst : IsCall(c) /\ f \in At(c).callees}
PtsTo(v) == IF v \in DOMAIN prog.pts THEN prog.pts[v] ELSE {}

\* HasDefUse: only then the DefUse is kept.
HasDu(x) == uses[x] # {} \/ ddef[x] # {} \/ pdef[x] # {}

DuInit ==
  /\ prog \in Programs
  /\ ddef = [x \in Inst |-> {}] /\ pdef = [x \in Inst |-> {}]
  /\ uses = [x \in Inst |-> {}] /\ puse = [x \in Inst |-> {}]
  /\ fields = [f \in Func |-> <<>>] /\ actSet = [f \in Func |-> <<>>]
  /\ valueSet = {}

-----------------------------------------------------------------------------
(* GetDefUseInfo *)

\* Seeded fault: taking the address of a field defines the object as well.
DirectDefGep(x) ==
  IF At(x).op = "gep" THEN {x, At(x).args[1]}
  ELSE IF At(x).op \in {"load", "op", "call"} THEN {x}
  ELSE IF At(x).op = "store" THEN {At(x).args[2]} ELSE {}

\* ProcInst of the instructions: what they define.
DirectDef(x) ==
  IF At(x).op \in {"load", "gep", "op", "call"} THEN {x}
  ELSE IF At(x).op = "store" THEN {At(x).args[2]} ELSE {}

\* GetElemBaseValue, and the key of m_ElemSet.
Base(v) == IF Is(v, "load") THEN At(v).args[1] ELSE v
Field(x) == <<Base(At(x).args[1]), At(x).off>>
FieldsOf(f) == {Field(x) : x \in {y \in InstsOf(f) : Is(y, "gep")}}

\* The address in m_ElemPtrMap: the first one taken of a field; no later one
\* gets an entry.
IsFirst(x) == Is(x, "gep") /\ \A y \in InstsOf(x[1]) : Is(y, "gep") /\ Field(y) = Field(x) => x[2] <= y[2]
FirstOf(f, k) == CHOOSE x \in InstsOf(f) : IsFirst(x) /\ Field(x) = k

\* DefVal of field k before instruction i of f.  Element has no constructor:
\* until a store through the first address DefVal is what was on the stack.
DefVal(f, k, i, junk) ==
  IF \E y \in InstsOf(f) : Is(y, "store") /\ y[2] < i /\ At(y).args[2] = FirstOf(f, k)
  THEN FirstOf(f, k) ELSE junk[k]

DirectUse(x, junk) ==
  CASE At(x).op = "store" -> {At(x).args[1]}
    [] Is(x, "gep") /\ ~IsFirst(x) -> {At(x).args[1], DefVal(x[1], Field(x), x[2], junk)}
    [] OTHER -> Range(At(x).args)

\* The constructor of InstAnalyzer for function f.
GetDefUseInfo(f) ==
  \E junk \in [FieldsOf(f) -> Junk] :
    /\ ddef' = [x \in Inst |-> IF x[1] = f THEN DirectDef(x) ELSE ddef[x]]
    /\ uses' = [x \in Inst |-> IF x[1] = f THEN DirectUse(x, junk) ELSE uses[x]]
    /\ fields' = [fields EXCEPT ![f] =
                    [k \in FieldsOf(f) |-> DefVal(f, k, Len(prog.code[f]) + 1, junk)]]
    /\ UNCHANGED <<pdef, puse, actSet, valueSet>>

\* SetFormalPara: the last store of a formal, but none after every formal of f
\* has been stored.
FpInst(f, p) ==
  LET Stores(q) == {x \in InstsOf(f) : Is(x, "store") /\ At(x).args[1] = q}
      open == {x \in Stores(p) : \E q \in Range(prog.formals[f]) : \A y \in Stores(q) : y[2] >= x[2]}
  IN {x \in open : \A y \in open : y[2] <= x[2]}

\* m_RetInst: the last return of f.
RetInst(f) ==
  LET rets == {x \in InstsOf(f) : Is(x, "ret")}
  IN {x \in rets : \A y \in rets : y[2] <= x[2]}

-----------------------------------------------------------------------------
(* GetPDefUseInfo *)

IsActualPara(f, v) == \E c \in Callers(f) : v \in Range(At(c).args)

\* The results CollectDefOfInst has added before x is reached: not those of
\* stores, branches and returns.
Created(x) == {y \in InstsOf(x[1]) : y[2] < x[2] /\ At(y).op \notin {"store", "br", "ret"}}

\* What v may point to at x: all of it without a value set (left functions).
Possible(x, v, all, W) ==
  {o \in PtsTo(v) \ {v} : all \/ o \in W \cup Created(x) \/ o \in Global}

NewUses(x, all, W) ==
  IF ~Is(x, "load") THEN {}
  ELSE LET v == At(x).args[1]
       IN Possible(x, v, all, W) \cup
          (IF IsActualPara(x[1], v) THEN {}
           ELSE {fields[x[1]][k] : k \in {l \in DOMAIN fields[x[1]] : l[1] = v}})

NewDefs(x, all, W) ==
  IF Is(x, "store") THEN Possible(x, At(x).args[2], all, W) ELSE {}

\* ActualParaProcess: a field of an object the callers pass is defined through
\* address v of the callee.
ActKey(v, o) == <<o, IF v \in Inst /\ IsFirst(v) THEN At(v).off ELSE None>>

Acts(x, all, W) == {ActKey(At(x).args[2], o) : o \in {q \in NewDefs(x, all, W) : IsActualPara(x[1], q)}}

\* std::set::insert keeps the first element of a key, not the last definition.
AddActs(f, all, W) ==
  LET new == UNION {Acts(x, all, W) : x \in InstsOf(f)}
  IN [k \in DOMAIN actSet[f] \cup new |->
        IF k \in DOMAIN actSet[f] THEN actSet[f][k]
        ELSE CHOOSE x \in InstsOf(f) : /\ k \in Acts(x, all, W)
                                       /\ \A y \in InstsOf(f) : k \in Acts(y, all, W) => x[2] <= y[2]]

\* A pass over f with the values of the path so far, or with none (all).
GetPDefUseInfo(f, all) ==
  LET Mine(x) == x[1] = f IN
    /\ uses' = [x \in Inst |-> uses[x] \cup IF Mine(x) THEN NewUses(x, all, valueSet) ELSE {}]
    /\ puse' = [x \in Inst |-> puse[x] \cup IF Mine(x) THEN NewUses(x, all, valueSet) ELSE {}]
    /\ pdef' = [x \in Inst |-> pdef[x] \cup IF Mine(x) THEN NewDefs(x, all, valueSet) ELSE {}]
    /\ actSet' = [actSet EXCEPT ![f] = AddActs(f, all, valueSet)]
    /\ valueSet' = IF all THEN valueSet
                   ELSE valueSet \cup {x \in InstsOf(f) : At(x).op \notin {"store", "br", "ret"}}
    /\ UNCHANGED <<ddef, fields>>

DuTypeOK ==
  /\ ddef \in [Inst -> SUBSET Value] /\ pdef \in [Inst -> SUBSET Value]
  /\ uses \in [Inst -> SUBSET (Value \cup {None})] /\ puse \in [Inst -> SUBSET (Value \cup {None})]
  /\ \A x \in Inst : puse[x] \subseteq uses[x] /\ Cardinality(ddef[x]) <= 1
  /\ \A f \in Func : Range(fields[f]) \subseteq Value \cup {None} /\ Range(actSet[f]) \subseteq InstsOf(f)
  /\ valueSet \subseteq Inst
=============================================================================

---------------------------- MODULE PointerFlow ----------------------------
(***************************************************************************)
(* The programs the points-to analysis is given, and where pointers flow   *)
(* in them: the reference the collection of constraints is compared with.  *)
(*                                                                         *)
(* A program is                                                            *)
(*   globals  a sequence of [name, string, init]; init holds the pointers  *)
(*            of the initializer, <<EXTERNAL>> for one defined elsewhere,  *)
(*            <<ZERO>> for an aggregate of zeros                           *)
(*   funcs    a sequence of [name, params, ptr, vararg, debug, lists, def, *)
(*            body]: lists are the tables of ExternalLib a declaration is  *)
(*            in, def the definition another module has of it, ptr tells   *)
(*            that a pointer is returned                                   *)
(* and an instruction [op, res, args, fun]: res is NOPTR unless it yields  *)
(* a pointer, args are its operands, fun the function or, in an "icall",   *)
(* the value called.  Of "extract" and "inttoptr", whose operand is no      *)
(* pointer, fun is the pointer that was put into the structure value or    *)
(* made the integer.  A constant expression over a global, which is an     *)
(* address within it or a cast of it, is the global; other constant        *)
(* expressions and addresses of blocks are left out.                       *)
(***************************************************************************)
EXTENDS Naturals, Sequences, SequencesExt

NOPTR    == "-"         \* no pointer: an integer operand, a call for nothing
NULL     == "null"
UNDEF    == "undef"
ADDRESS  == "address"   \* a constant integer cast to a pointer
ALIAS    == "alias"     \* a second name of the first global, an llvm::GlobalAlias
UNKNOWN  == "unknown"   \* whatever is outside of the program
EXTERNAL == "external"
ZERO     == "zero"

Instruction(op, res, args, fun) == [op |-> op, res |-> res, args |-> args, fun |-> fun]

Names(seq) == {seq[i].name : i \in DOMAIN seq}
Named(seq, n) == seq[CHOOSE i \in DOMAIN seq : seq[i].name = n]

IsDecl(f) == f.body = <<>>
\* What a call of the function named n enters.
Entered(p, n) == LET f == Named(p.funcs, n) IN IF f.def = NOPTR THEN f ELSE Named(p.funcs, f.def)
Returned(f) == {f.body[i].args[1] : i \in {j \in DOMAIN f.body : f.body[j].op = "ret" /\ f.body[j].args # <<>>}}
Code(p) == UNION {ToSet(p.funcs[i].body) : i \in DOMAIN p.funcs}

IsPtr(v) == v # NOPTR
PtrArgs(i) == {i.args[k] : k \in DOMAIN i.args} \ {NOPTR}

-----------------------------------------------------------------------------
\* A flow is a place and an object whose address gets there; the place is a
\* value, the content of an object or the further arguments of a function.
Val(v) == <<"value", v>>
Mem(o) == <<"content", o>>
Extra(f) == <<"extra", f>>

Content(F, o) == {x[2] : x \in {y \in F : y[1] = Mem(o)}}
Holds(p, F, v) ==
  IF v \in {NULL, UNDEF} THEN {NULL}
  ELSE IF v = ADDRESS THEN {UNKNOWN}
  ELSE IF v = ALIAS THEN {p.globals[1].name}
  ELSE IF v \in Names(p.funcs) \cup Names(p.globals) THEN {v}
  ELSE {x[2] : x \in {y \in F : y[1] = Val(v)}}

Callees(p, F, i) ==
  IF i.op = "call" THEN {Entered(p, i.fun)}
  ELSE {Entered(p, n) : n \in Holds(p, F, i.fun) \cap Names(p.funcs)}

Arg(p, F, i, k) == IF k \in DOMAIN i.args /\ IsPtr(i.args[k]) THEN Holds(p, F, i.args[k]) ELSE {}

\* What external functions do with pointers, by what ExternalLib knows them as.
\* An integer passed for a pointer is a pointer to anything.
ExternalFlow(p, F, i, lists) ==
  LET a == Arg(p, F, i, 1)  b == Arg(p, F, i, 2)
  IN (IF lists \cap {"malloc", "realloc"} # {} THEN {Val(i.res)} \X {i.res} ELSE {})
     \cup (IF lists \cap {"memcpy", "retarg0"} # {} THEN {Val(i.res)} \X a ELSE {})
     \cup (IF "realloc" \in lists THEN {Mem(i.res)} \X UNION {Content(F, x) : x \in a} ELSE {})
     \cup (IF "memcpy" \in lists
           THEN {Mem(o) : o \in a \ {UNKNOWN}} \X UNION {Content(F, x) : x \in b} ELSE {})
     \cup (IF "cast" \in lists THEN {Mem(o) : o \in b \ {UNKNOWN}} \X a ELSE {})
     \cup (IF lists = {} THEN {Val(i.res)} \X {UNKNOWN} ELSE {})

CallFlow(p, F, i, f) ==
  LET actual(k) == IF IsPtr(i.args[k]) THEN Holds(p, F, i.args[k]) ELSE {UNKNOWN}
      formals == {k \in DOMAIN f.params \cap DOMAIN i.args : IsPtr(f.params[k])}
      extras == {k \in DOMAIN i.args \ DOMAIN f.params : IsPtr(i.args[k])}
  IN IF IsDecl(f) THEN ExternalFlow(p, F, i, f.lists)
     ELSE {Val(i.res)} \X UNION {Holds(p, F, r) : r \in Returned(f)}
          \cup UNION {{Val(f.params[k])} \X actual(k) : k \in formals}
          \cup {Extra(f.name)} \X UNION {actual(k) : k \in extras}

\* The flows of one instruction, given flows F.
Flow(p, F, i) ==
  LET from(k) == Arg(p, F, i, k)
  IN CASE i.op = "alloca" -> {<<Val(i.res), i.res>>}
       [] i.op \in {"cast", "gep"} -> {Val(i.res)} \X from(1)
       [] i.op \in {"extract", "inttoptr"} -> {Val(i.res)} \X IF IsPtr(i.fun) THEN Holds(p, F, i.fun) ELSE {}
       [] i.op \in {"phi", "select"} -> {Val(i.res)} \X UNION {from(k) : k \in DOMAIN i.args}
       [] i.op = "load" -> {Val(i.res)} \X UNION {Content(F, o) : o \in from(1) \ {UNKNOWN}}
       [] i.op = "store" -> {Mem(o) : o \in from(2) \ {UNKNOWN}} \X from(1)
       [] i.op \in {"call", "icall"} -> UNION {CallFlow(p, F, i, f) : f \in Callees(p, F, i)}
       [] i.op = "va_arg" -> {Val(i.res)} \X {x[2] : x \in {y \in F : y[1] = Extra(i.fun)}}
       [] OTHER -> {}

InitialFlow(p) ==
  UNION {{Mem(g.name)} \X UNION {Holds(p, {}, v) : v \in ToSet(g.init) \ {EXTERNAL, ZERO}}
         : g \in ToSet(p.globals)}

\* All flows, for the instructions executed in any order and any number of times.
Flows(p) ==
  LET grow[F \in SUBSET ((STRING \X STRING) \X STRING)] ==
        LET G == F \cup UNION {Flow(p, F, i) : i \in Code(p)} IN IF G = F THEN F ELSE grow[G]
  IN {x \in grow[InitialFlow(p)] : IsPtr(x[1][2])}

=============================================================================

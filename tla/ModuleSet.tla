----------------------------- MODULE ModuleSet -----------------------------
(***************************************************************************)
(* The loading of modules: lib/llvmadpt/ModuleSet.cpp.  An earlier run     *)
(* with -pre writes, for every defined function, the module that defines   *)
(* it (FUNC_MODULE); a run reads the file, loads the modules it is given,  *)
(* scans their functions, loads on demand the modules the file names for   *)
(* declared functions while it scans, and relates declarations to          *)
(* definitions.                                                            *)
(* A module is known by the path it was loaded from, as a string: two      *)
(* paths can lead to one file, which is then two modules.  A function is   *)
(* <<id, name>>: the module it is in, by its index in m_Modules, and its   *)
(* name.                                                                   *)
(***************************************************************************)
EXTENDS Naturals, Sequences, FiniteSets, Functions

CONSTANTS
  Path,        \* the paths that lead to a module file
  Cut,         \* a path that names no file: the end of a line is missing
  NameSeq,     \* function names in the order of a module's function list
  Main,        \* "main"
  NoFunc,      \* NULL
  Contents,    \* what the files at the paths can hold
  PreRuns,     \* possible arguments of the run with -pre
  Args,        \* possible arguments of the run
  MaxModuleNum \* MAX_MODULE_NUM

Name == Range(NameSeq)

ASSUME ModuleAssumption ==
  /\ NameSeq \in Seq(Name) /\ Main \in Name /\ Cut \notin Path
  /\ \A i, j \in DOMAIN NameSeq : i # j => NameSeq[i] # NameSeq[j]
  /\ Contents \subseteq [Path -> [Name -> {"none", "decl", "def"}]]
  /\ PreRuns \subseteq Seq(Path) /\ Args \subseteq Seq(Path)
  /\ <<>> \notin Args
  /\ MaxModuleNum \in Nat
  /\ NoFunc \notin (Nat \X Name)

VARIABLES
  content,      \* what the file at a path holds
  funcToModule, \* m_FuncToModule
  args,         \* the paths given; none if a module in memory is
  paths,        \* the path of each module of m_Modules; m_ModuleNum is its length
  id,           \* Id of InitModuleSet
  pos,          \* the next function of module id
  funcs,        \* m_FuncVector
  entry,        \* m_EntryFunc
  declToDef,    \* m_FunDeclToDefMap
  defToDecls,   \* m_FunDefToDeclsMap
  pc            \* "scan", "map", "done"; "abort", "exit" or "overrun"

vars == <<content, funcToModule, args, paths, id, pos, funcs, entry, declToDef, defToDecls, pc>>

-----------------------------------------------------------------------------
(* PreProcess and InitFmMap *)

\* Seeded fault: declared functions get a line as well.
LinesOfAll(c, run) ==
  {x \in (DOMAIN run) \X (DOMAIN NameSeq) : c[run[x[1]]][NameSeq[x[2]]] # "none"}

\* The lines PreProcess writes: module by module, the defined functions.
Lines(c, run) ==
  {x \in (DOMAIN run) \X (DOMAIN NameSeq) : c[run[x[1]]][NameSeq[x[2]]] = "def"}

Before(x, y) == x[1] < y[1] \/ (x[1] = y[1] /\ x[2] < y[2])

\* What InitFmMap reads: the last line of a function counts, and the last line
\* of all may have lost the end of its path.
FmMap(run, lines, cut) ==
  [n \in {NameSeq[x[2]] : x \in lines} |->
     LET last == CHOOSE x \in lines : /\ NameSeq[x[2]] = n
                                      /\ \A y \in lines : NameSeq[y[2]] = n => y = x \/ Before(y, x)
     IN IF cut /\ \A y \in lines : y = last \/ Before(y, last) THEN Cut ELSE run[last[1]]]

\* A run with -pre that is killed leaves the lines it had flushed.
Flushed(c, run) ==
  {L \in SUBSET Lines(c, run) : \A x \in L, y \in Lines(c, run) : Before(y, x) => y \in L}

\* loadModules up to InitModuleSet.
GivenPaths == args \in Args /\ paths = args

\* The other constructor, of one module that was read from somewhere.
GivenModule == args = <<>> /\ \E p \in Path : paths = <<p>>

Init ==
  /\ content \in Contents
  /\ \E run \in PreRuns : \E lines \in Flushed(content, run), cut \in BOOLEAN :
       funcToModule = FmMap(run, lines, cut)
  /\ GivenPaths \/ GivenModule
  /\ id = 1 /\ pos = 1
  /\ funcs = <<>> /\ entry = NoFunc
  /\ declToDef = <<>> /\ defToDecls = <<>>
  /\ pc = "scan"

-----------------------------------------------------------------------------
(* InitModuleSet *)

Kind(f) == content[paths[f[1]]][f[2]]

\* m_ModulePathVec, which does not have the module given in memory.
ModulePaths == IF args = <<>> THEN Tail(paths) ELSE paths

\* Seeded fault: no room for the modules given.
CapacityOnDemand == MaxModuleNum

\* The length of the array m_Modules.
Capacity == IF args = <<>> THEN 1 ELSE Len(args) + MaxModuleNum

\* Seeded fault: only the modules given demand others.
MustLoadGiven(f) ==
  /\ Kind(f) = "decl" /\ f[1] <= Len(args)
  /\ f[2] \in DOMAIN funcToModule
  /\ funcToModule[f[2]] \notin Range(ModulePaths)

\* LoadModuleOnDemand loads a module for f; IsModuleExist compares the paths.
MustLoad(f) ==
  /\ Kind(f) = "decl"
  /\ f[2] \in DOMAIN funcToModule
  /\ funcToModule[f[2]] \notin Range(ModulePaths)

\* AddFunction and the check for the entry, a declaration of it included; an
\* assertion ends the program at a second entry.
Record(f) ==
  /\ funcs' = Append(funcs, f)
  /\ pos' = pos + 1
  /\ entry' = IF f[2] = Main /\ entry = NoFunc THEN f ELSE entry
  /\ pc' = IF f[2] = Main /\ entry # NoFunc THEN "abort" ELSE pc

\* One round of the loop over the functions of module id.  A file that cannot be
\* loaded ends the program; a module beyond the array is undefined behaviour.
ScanFunction ==
  /\ pc = "scan" /\ id <= Len(paths) /\ pos <= Len(NameSeq)
  /\ LET f == <<id, NameSeq[pos]>> IN
       /\ Kind(f) # "none"
       /\ \/ /\ ~MustLoad(f)
             /\ Record(f) /\ UNCHANGED paths
          \/ /\ MustLoad(f) /\ Len(paths) < Capacity /\ funcToModule[f[2]] \in Path
             /\ paths' = Append(paths, funcToModule[f[2]])
             /\ Record(f)
          \/ /\ MustLoad(f) /\ Len(paths) < Capacity /\ funcToModule[f[2]] \notin Path
             /\ pc' = "exit" /\ UNCHANGED <<paths, funcs, pos, entry>>
          \/ /\ MustLoad(f) /\ Len(paths) >= Capacity
             /\ pc' = "overrun" /\ UNCHANGED <<paths, funcs, pos, entry>>
  /\ UNCHANGED <<content, funcToModule, args, id, declToDef, defToDecls>>

SkipName ==
  /\ pc = "scan" /\ id <= Len(paths) /\ pos <= Len(NameSeq)
  /\ Kind(<<id, NameSeq[pos]>>) = "none"
  /\ pos' = pos + 1
  /\ UNCHANGED <<content, funcToModule, args, paths, id, funcs, entry, declToDef, defToDecls, pc>>

\* Id < m_ModuleNum is tested against the number the loop itself increases.
NextModule ==
  /\ pc = "scan" /\ id <= Len(paths) /\ pos > Len(NameSeq)
  /\ id' = id + 1 /\ pos' = 1
  /\ UNCHANGED <<content, funcToModule, args, paths, funcs, entry, declToDef, defToDecls, pc>>

-----------------------------------------------------------------------------
(* BuildFuncMap *)

Decls == {f \in Range(funcs) : Kind(f) = "decl"}
Defs == {f \in Range(funcs) : Kind(f) = "def"}
NamesOf(S) == {f[2] : f \in S}
DefAndDecl == NamesOf(Decls) \cap NamesOf(Defs)

\* Seeded fault: the declarations of earlier modules are not in the list.
DeclsOfLater(d) == {f \in Decls : f[2] = d[2] /\ f[1] > d[1]}

DeclsOf(d) == {f \in Decls : f[2] = d[2]}

\* The sets of functions are ordered by address, so with several definitions of
\* a name any of them may be the last one, which all its declarations get.
BuildFuncMap ==
  /\ pc = "scan" /\ id > Len(paths)
  /\ \E last \in [DefAndDecl -> Defs] :
       /\ \A n \in DefAndDecl : last[n][2] = n
       /\ declToDef' = [d \in {f \in Decls : f[2] \in DefAndDecl} |-> last[d[2]]]
  /\ defToDecls' = [d \in {f \in Defs : f[2] \in DefAndDecl} |-> DeclsOf(d)]
  /\ pc' = "done"
  /\ UNCHANGED <<content, funcToModule, args, paths, id, pos, funcs, entry>>

Stopped == pc # "scan" /\ UNCHANGED vars

Next == ScanFunction \/ SkipName \/ NextModule \/ BuildFuncMap \/ Stopped

Spec == Init /\ [][Next]_vars

-----------------------------------------------------------------------------
Functions == (1 .. Len(paths)) \X Name

TypeOK ==
  /\ content \in Contents
  /\ DOMAIN funcToModule \subseteq Name
  /\ args \in Args \cup {<<>>} /\ paths \in Seq(Path)
  /\ id \in 1 .. Len(paths) + 1 /\ pos \in 1 .. Len(NameSeq) + 1
  /\ funcs \in Seq(Functions) /\ entry \in Functions \cup {NoFunc}
  /\ DOMAIN declToDef \subseteq Functions /\ Range(declToDef) \subseteq Functions
  /\ DOMAIN defToDecls \subseteq Functions
  /\ pc \in {"scan", "done", "abort", "exit", "overrun"}

\* Every declaration of the loaded modules, those loaded on demand included,
\* had the module loaded that the file names for it.
DemandsMet ==
  pc = "done" => \A f \in Decls : f[2] \in DOMAIN funcToModule => funcToModule[f[2]] \in Range(paths)

\* ... and gets a definition, if the file is the result of a run with -pre.
DeclarationsResolved ==
  pc = "done" => \A f \in Decls : f[2] \in DOMAIN funcToModule => f \in DOMAIN declToDef

\* m_FunDeclToDefMap and m_FunDefToDeclsMap agree: the definition of a
\* declaration is a definition of the same name that has the declaration in its
\* list, so that GetDeclaration of a definition found by GetDefinition does not
\* fail ("has no declaration?"); with several definitions of a name as well.
MapsAgree ==
  pc = "done" =>
    \A d \in DOMAIN declToDef :
      /\ declToDef[d] \in Defs /\ declToDef[d][2] = d[2]
      /\ d \in defToDecls[declToDef[d]]

\* Modules stay within m_Modules as long as modules are given by path and the
\* file names at most MaxModuleNum other paths.  Nothing in the code sees to
\* either: beyond that a module is written behind the array.
WithinCapacity ==
  args # <<>> /\ Cardinality(Range(funcToModule) \ Range(args)) <= MaxModuleNum =>
    pc # "overrun"
=============================================================================

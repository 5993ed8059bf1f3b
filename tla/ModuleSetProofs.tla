-------------------------- MODULE ModuleSetProofs --------------------------
(***************************************************************************)
(* Loading on demand, for all contents of the files and all maps: the      *)
(* table of modules overflows only when more modules are named than it is  *)
(* made for, no declaration is left behind or without its definition, and  *)
(* the two maps between declarations and definitions agree.                *)
(***************************************************************************)
EXTENDS ModuleSet, FiniteSetTheorems, TLAPS

LEMMA Appended ==
  ASSUME NEW S, NEW q \in Seq(S), NEW e \in S
  PROVE  /\ Append(q, e) \in Seq(S) /\ Len(Append(q, e)) = Len(q) + 1 /\ Len(q) \in Nat
         /\ Range(Append(q, e)) = Range(q) \cup {e}
         /\ DOMAIN q = 1 .. Len(q) /\ DOMAIN Append(q, e) = 1 .. Len(q) + 1
         /\ Append(q, e)[Len(q) + 1] = e
         /\ \A i \in DOMAIN q : Append(q, e)[i] = q[i]
  <1>1. /\ Append(q, e) \in Seq(S) /\ Len(Append(q, e)) = Len(q) + 1 /\ Len(q) \in Nat
        /\ DOMAIN q = 1 .. Len(q) /\ DOMAIN Append(q, e) = 1 .. Len(q) + 1
        /\ Append(q, e)[Len(q) + 1] = e
        /\ \A i \in DOMAIN q : Append(q, e)[i] = q[i]
    OBVIOUS
  <1>2. \A i \in 1 .. Len(q) + 1 : i = Len(q) + 1 \/ i \in 1 .. Len(q)
    BY <1>1
  <1>3. Len(q) + 1 \in 1 .. Len(q) + 1 /\ 1 .. Len(q) \subseteq 1 .. Len(q) + 1
    BY <1>1
  <1> DEFINE r == Append(q, e)
  <1>4. /\ DOMAIN r = 1 .. Len(q) + 1 /\ r[Len(q) + 1] = e
        /\ \A i \in DOMAIN q : r[i] = q[i]
    BY <1>1
  <1> HIDE DEF r
  <1>5. Range(r) \subseteq Range(q) \cup {e}
    <2> SUFFICES ASSUME NEW i \in DOMAIN r PROVE r[i] \in Range(q) \cup {e}
      BY DEF Range
    <2> QED BY <1>1, <1>2, <1>4 DEF Range
  <1>6. Range(q) \cup {e} \subseteq Range(r)
    <2>1. \A i \in DOMAIN q : q[i] \in Range(r)
      BY <1>1, <1>3, <1>4 DEF Range
    <2>2. e \in Range(r)
      BY <1>3, <1>4 DEF Range
    <2> QED BY <2>1, <2>2 DEF Range
  <1>7. Range(r) = Range(q) \cup {e}
    BY <1>5, <1>6
  <1> QED BY <1>1, <1>7 DEF r

-----------------------------------------------------------------------------
(* Types *)

LEMMA GivenTyped ==
  ASSUME GivenPaths \/ GivenModule
  PROVE  paths \in Seq(Path) /\ args \in Args \cup {<<>>}
  <1>1. CASE GivenPaths
    BY <1>1, ModuleAssumption DEF GivenPaths
  <1>2. CASE GivenModule
    BY <1>2 DEF GivenModule
  <1> QED BY <1>1, <1>2

LEMMA InitTyped == Init => TypeOK
  <1> SUFFICES ASSUME Init PROVE TypeOK
    OBVIOUS
  <1>1. PICK run \in PreRuns :
          \E lines \in Flushed(content, run), cut \in BOOLEAN : funcToModule = FmMap(run, lines, cut)
    BY DEF Init
  <1>2. PICK lines \in Flushed(content, run), cut \in BOOLEAN : funcToModule = FmMap(run, lines, cut)
    BY <1>1
  <1>3. \A x \in lines : x[2] \in DOMAIN NameSeq
    BY <1>2 DEF Flushed, Lines
  <1>4. DOMAIN funcToModule = {NameSeq[x[2]] : x \in lines}
    BY <1>2 DEF FmMap
  <1>5. DOMAIN funcToModule \subseteq Name
    BY <1>3, <1>4 DEF Name, Range
  <1>6. paths \in Seq(Path) /\ Len(paths) \in Nat /\ Len(NameSeq) \in Nat
    BY GivenTyped, ModuleAssumption DEF Init
  <1>7. funcs \in Seq(Functions) /\ DOMAIN declToDef = {} /\ DOMAIN defToDecls = {}
    BY DEF Init
  <1>8. Range(declToDef) = {}
    BY <1>7 DEF Range
  <1>9. args \in Args \cup {<<>>}
    BY GivenTyped DEF Init
  <1> QED BY <1>5, <1>6, <1>7, <1>8, <1>9 DEF Init, TypeOK

\* A function recorded is one of a loaded module, of those loaded by now.
LEMMA ScanTyped == TypeOK /\ ScanFunction => TypeOK'
  <1> SUFFICES ASSUME TypeOK, ScanFunction PROVE TypeOK'
    OBVIOUS
  <1> DEFINE f == <<id, NameSeq[pos]>>
  <1>1. /\ id \in 1 .. Len(paths) /\ pos \in DOMAIN NameSeq /\ pos \in Nat /\ id \in Nat
        /\ Len(paths) \in Nat /\ Len(NameSeq) \in Nat /\ pos + 1 \in 1 .. Len(NameSeq) + 1
        /\ UNCHANGED <<content, funcToModule, args, id, declToDef, defToDecls>>
    BY ModuleAssumption DEF ScanFunction, TypeOK
  <1>2. f \in Functions
    BY <1>1 DEF Functions, Name, Range
  <1>3. /\ paths' = paths \/ \E p \in Path : paths' = Append(paths, p)
        /\ \/ Record(f)
           \/ pc' \in {"exit", "overrun"} /\ UNCHANGED <<paths, funcs, pos, entry>>
    BY DEF ScanFunction
  <1>4. paths' \in Seq(Path) /\ Len(paths') \in Nat /\ Len(paths) <= Len(paths')
    <2>0. paths \in Seq(Path)
      BY DEF TypeOK
    <2>1. CASE paths' = paths
      BY <1>1, <2>0, <2>1
    <2>2. ASSUME NEW p \in Path, paths' = Append(paths, p) PROVE paths' \in Seq(Path) /\ Len(paths') = Len(paths) + 1
      BY <2>0, <2>2, Appended
    <2> QED BY <1>1, <1>3, <2>1, <2>2
  <1>5. Functions \subseteq Functions'
    BY <1>1, <1>4 DEF Functions
  <1>6. funcs \in Seq(Functions') /\ entry \in Functions' \cup {NoFunc} /\ id' \in 1 .. Len(paths') + 1
    <2>1. \A S, T, q : S \subseteq T /\ q \in Seq(S) => q \in Seq(T)
      OBVIOUS
    <2> QED BY <1>1, <1>4, <1>5, <2>1 DEF TypeOK
  <1>7. /\ DOMAIN declToDef \subseteq Functions' /\ Range(declToDef) \subseteq Functions'
        /\ DOMAIN defToDecls \subseteq Functions'
    BY <1>5 DEF TypeOK
  <1> HIDE DEF f
  <1>8. CASE Record(f)
    <2>1. /\ funcs' = Append(funcs, f) /\ pos' = pos + 1
          /\ entry' \in {f, entry} /\ pc' \in {"abort", pc}
      BY <1>8 DEF Record
    <2>2. f \in Functions'
      BY <1>2, <1>5
    <2>3. Append(funcs, f) \in Seq(Functions')
      BY <1>6, <2>2
    <2>4. pos' \in 1 .. Len(NameSeq) + 1 /\ entry' \in Functions' \cup {NoFunc}
      BY <1>1, <1>6, <2>1, <2>2
    <2>5. Range(declToDef') \subseteq Functions'
      BY <1>1, <1>7
    <2> QED BY <1>1, <1>4, <1>6, <1>7, <2>1, <2>3, <2>4, <2>5 DEF TypeOK
  <1>9. CASE pc' \in {"exit", "overrun"} /\ UNCHANGED <<paths, funcs, pos, entry>>
    BY <1>1, <1>4, <1>6, <1>7, <1>9 DEF TypeOK
  <1> QED BY <1>3, <1>8, <1>9

LEMMA MapTyped == TypeOK /\ BuildFuncMap => TypeOK'
  <1> SUFFICES ASSUME TypeOK, BuildFuncMap PROVE TypeOK'
    OBVIOUS
  <1>1. Range(funcs) \subseteq Functions
    BY DEF TypeOK, Range
  <1>2. Decls \subseteq Functions /\ Defs \subseteq Functions
    BY <1>1 DEF Decls, Defs
  <1>3. PICK last \in [DefAndDecl -> Defs] :
          declToDef' = [d \in {f \in Decls : f[2] \in DefAndDecl} |-> last[d[2]]]
    BY DEF BuildFuncMap
  <1>4. DOMAIN declToDef' \subseteq Functions /\ Range(declToDef') \subseteq Functions
    BY <1>2, <1>3 DEF Range
  <1>5. DOMAIN defToDecls' \subseteq Functions
    BY <1>2 DEF BuildFuncMap
  <1>6. pc' = "done" /\ UNCHANGED <<content, funcToModule, args, paths, id, pos, funcs, entry>>
    BY DEF BuildFuncMap
  <1>7. Functions' = Functions
    BY <1>6 DEF Functions
  <1> QED BY <1>4, <1>5, <1>6, <1>7 DEF TypeOK

LEMMA OtherTyped == TypeOK /\ (SkipName \/ NextModule \/ UNCHANGED vars) => TypeOK'
  <1> SUFFICES ASSUME TypeOK, SkipName \/ NextModule \/ UNCHANGED vars PROVE TypeOK'
    OBVIOUS
  <1>1. UNCHANGED <<content, funcToModule, args, paths, funcs, entry, declToDef, defToDecls, pc>>
    BY DEF SkipName, NextModule, vars
  <1>2. Len(paths) \in Nat /\ Len(NameSeq) \in Nat
    BY ModuleAssumption DEF TypeOK
  <1>3. id' \in 1 .. Len(paths) + 1 /\ pos' \in 1 .. Len(NameSeq) + 1
    BY <1>2 DEF SkipName, NextModule, vars, TypeOK
  <1>4. Functions' = Functions /\ Range(declToDef') = Range(declToDef)
    BY <1>1 DEF Functions
  <1> QED BY <1>1, <1>3, <1>4 DEF TypeOK

\* Every variable keeps its type: a recorded function, the entry and the ends of
\* both maps are functions of loaded modules.
THEOREM TypeCorrect == Spec => []TypeOK
  <1>1. TypeOK /\ [Next]_vars => TypeOK'
    BY ScanTyped, MapTyped, OtherTyped DEF Next, Stopped
  <1> QED BY <1>1, InitTyped, PTL DEF Spec

-----------------------------------------------------------------------------
(* What is loaded *)

\* The demand of a recorded function that is met.
Met(f) ==
  /\ f[1] \in DOMAIN paths
  /\ Kind(f) = "decl" /\ f[2] \in DOMAIN funcToModule => funcToModule[f[2]] \in Range(paths)

DemandInv ==
  /\ funcs \in Seq((Nat \ {0}) \X Name)
  /\ \A f \in Range(funcs) : Met(f)

IInv ==
  /\ paths \in Seq(Path)
  /\ id \in Nat \ {0} /\ pos \in Nat \ {0}
  /\ DemandInv

\* Every path in m_ModulePathVec is that of a loaded module.
LEMMA KnownPaths ==
  ASSUME paths \in Seq(Path), paths # <<>>
  PROVE  Range(ModulePaths) \subseteq Range(paths)
  <1>1. CASE args # <<>>
    BY <1>1 DEF ModulePaths
  <1>2. CASE args = <<>>
    <2>1. ModulePaths = Tail(paths)
      BY <1>2 DEF ModulePaths
    <2>2. /\ Len(paths) \in Nat /\ DOMAIN paths = 1 .. Len(paths)
          /\ DOMAIN Tail(paths) = 1 .. Len(paths) - 1
          /\ \A i \in 1 .. Len(paths) - 1 : Tail(paths)[i] = paths[i + 1] /\ i + 1 \in 1 .. Len(paths)
      OBVIOUS
    <2> QED BY <2>1, <2>2 DEF Range
  <1> QED BY <1>1, <1>2

LEMMA InitIInv == Init => IInv
  <1> SUFFICES ASSUME Init PROVE IInv
    OBVIOUS
  <1>1. id = 1 /\ pos = 1 /\ funcs = <<>>
    BY DEF Init
  <1>2. paths \in Seq(Path)
    BY GivenTyped DEF Init
  <1>3. funcs \in Seq((Nat \ {0}) \X Name) /\ \A f \in Range(funcs) : FALSE
    BY <1>1 DEF Range
  <1> QED BY <1>1, <1>2, <1>3 DEF IInv, DemandInv

\* Paths are only appended, so what was met stays met.
LEMMA MetKept ==
  ASSUME IInv, UNCHANGED <<content, funcToModule>>, paths' \in Seq(Path),
         DOMAIN paths \subseteq DOMAIN paths', \A i \in DOMAIN paths : paths'[i] = paths[i],
         NEW f, Met(f)
  PROVE  Met(f)'
  <1>1. f[1] \in DOMAIN paths' /\ paths'[f[1]] = paths[f[1]]
    BY DEF Met
  <1>2. Kind(f)' = Kind(f)
    BY <1>1 DEF Kind
  <1>3. Range(paths) \subseteq Range(paths')
    BY DEF Range
  <1> QED BY <1>1, <1>2, <1>3 DEF Met

\* Recording the function of a module, after its demand is met.
LEMMA RecordStep ==
  ASSUME IInv, UNCHANGED <<content, funcToModule, id>>, paths' \in Seq(Path),
         DOMAIN paths \subseteq DOMAIN paths', \A i \in DOMAIN paths : paths'[i] = paths[i],
         NEW f \in (Nat \ {0}) \X Name, Record(f), Met(f)'
  PROVE  IInv'
  <1>1. funcs' = Append(funcs, f) /\ pos' \in Nat \ {0}
    BY DEF Record, IInv
  <1>2. funcs' \in Seq((Nat \ {0}) \X Name) /\ Range(funcs') = Range(funcs) \cup {f}
    BY <1>1, Appended DEF IInv, DemandInv
  <1>3. \A h \in Range(funcs) : Met(h)'
    BY MetKept DEF IInv, DemandInv
  <1>4. DemandInv'
    BY <1>2, <1>3 DEF DemandInv
  <1> QED BY <1>1, <1>4 DEF IInv

LEMMA ScanStep == IInv /\ ScanFunction => IInv'
  <1> SUFFICES ASSUME IInv, ScanFunction PROVE IInv'
    OBVIOUS
  <1>1. /\ id \in 1 .. Len(paths) /\ pos \in DOMAIN NameSeq
        /\ UNCHANGED <<content, funcToModule, id>>
    BY ModuleAssumption DEF ScanFunction, IInv
  <1>2. PICK f \in (Nat \ {0}) \X Name : f = <<id, NameSeq[pos]>> /\ f[1] \in DOMAIN paths
    <2>1. NameSeq[pos] \in Name
      BY <1>1 DEF Name, Range
    <2>2. id \in Nat \ {0} /\ id \in DOMAIN paths
      BY <1>1 DEF IInv
    <2>3. <<id, NameSeq[pos]>> \in (Nat \ {0}) \X Name /\ <<id, NameSeq[pos]>>[1] = id
      BY <2>1, <2>2
    <2> QED BY <2>2, <2>3
  <1>3. CASE ~MustLoad(f) /\ Record(f) /\ UNCHANGED paths
    <2>1. Met(f)
      BY <1>2, <1>3, KnownPaths DEF Met, MustLoad, IInv
    <2>2. paths' \in Seq(Path)
      BY <1>3 DEF IInv
    <2>3. Met(f)'
      BY <1>1, <1>3, <2>1, <2>2 DEF Met, Kind
    <2> QED BY <1>1, <1>2, <1>3, <2>2, <2>3, RecordStep
  <1>4. CASE MustLoad(f) /\ funcToModule[f[2]] \in Path /\ paths' = Append(paths, funcToModule[f[2]]) /\ Record(f)
    <2>0. PICK p \in Path : p = funcToModule[f[2]]
      BY <1>4
    <2>1. p \in Path /\ paths' = Append(paths, p) /\ paths \in Seq(Path)
      BY <1>4, <2>0 DEF IInv
    <2>2. /\ paths' \in Seq(Path) /\ Range(paths') = Range(paths) \cup {p}
          /\ Len(paths) \in Nat /\ DOMAIN paths = 1 .. Len(paths) /\ DOMAIN paths' = 1 .. Len(paths) + 1
          /\ paths'[Len(paths) + 1] = p
          /\ \A i \in DOMAIN paths : paths'[i] = paths[i]
      BY <2>1, Appended
    <2>3. DOMAIN paths \subseteq DOMAIN paths' /\ \A i \in DOMAIN paths' : i = Len(paths) + 1 \/ i \in DOMAIN paths
      BY <2>2
    <2>6. Met(f)'
      <3>1. f[1] \in DOMAIN paths' /\ p \in Range(paths')
        BY <1>2, <2>2, <2>3
      <3>2. funcToModule'[f[2]] = p
        BY <1>1, <2>0
      <3> QED BY <1>1, <3>1, <3>2 DEF Met
    <2> QED BY <1>1, <1>2, <1>4, <2>2, <2>3, <2>6, RecordStep
  <1>5. CASE UNCHANGED <<paths, funcs, pos, entry>>
    BY <1>1, <1>5 DEF IInv, DemandInv, Met, Kind
  <1> QED BY <1>2, <1>3, <1>4, <1>5 DEF ScanFunction

\* The other steps load and record nothing.
LEMMA OtherStep ==
  ASSUME IInv, SkipName \/ NextModule \/ BuildFuncMap \/ UNCHANGED vars
  PROVE  IInv'
  <1>1. UNCHANGED <<content, funcToModule, paths, funcs>>
    BY DEF SkipName, NextModule, BuildFuncMap, vars
  <1>2. id' \in Nat \ {0} /\ pos' \in Nat \ {0}
    BY DEF IInv, SkipName, NextModule, BuildFuncMap, vars
  <1>3. DemandInv'
    BY <1>1 DEF IInv, DemandInv, Met, Kind
  <1> QED BY <1>1, <1>2, <1>3 DEF IInv

THEOREM LoadInvariant == Spec => []IInv
  <1>1. IInv /\ [Next]_vars => IInv'
    BY ScanStep, OtherStep DEF Next, Stopped
  <1> QED BY <1>1, InitIInv, PTL DEF Spec

\* When the maps are built every declaration of every loaded module has had the
\* module loaded that the file names for it, on demand over any number of rounds.
THEOREM AllDemandsMet == Spec => []DemandsMet
  <1>1. IInv => DemandsMet
    BY DEF IInv, DemandInv, Met, DemandsMet, Decls
  <1> QED BY <1>1, LoadInvariant, PTL

-----------------------------------------------------------------------------
(* The table of modules *)

Extra == Range(paths) \ Range(args)
Named == Range(funcToModule) \ Range(args)

\* The modules loaded on demand are different ones, all named by the file.
CapacityInv ==
  args # <<>> =>
    /\ IsFiniteSet(Extra) /\ Len(paths) = Len(args) + Cardinality(Extra)
    /\ Range(args) \subseteq Range(paths)
    /\ Extra \subseteq Named /\ IsFiniteSet(Named)
    /\ pc = "overrun" => Cardinality(Named) > MaxModuleNum

LEMMA FiniteRange ==
  ASSUME NEW f, NEW S, IsFiniteSet(S), DOMAIN f \subseteq S
  PROVE  IsFiniteSet(Range(f))
  <1>1. IsFiniteSet(DOMAIN f)
    BY FS_Subset
  <1>2. PICK g : g = [x \in DOMAIN f |-> f[x]]
    OBVIOUS
  <1>3. g \in Surjection(DOMAIN f, Range(f))
    BY <1>2 DEF Surjection, Range
  <1> QED BY <1>1, <1>3, FS_Surjection

LEMMA InitCapacity == Init /\ TypeOK => CapacityInv
  <1> SUFFICES ASSUME Init, TypeOK, args # <<>> PROVE CapacityInv
    BY DEF CapacityInv
  <1>1. Extra = {} /\ paths = args /\ pc = "scan" /\ Len(paths) \in Nat
    BY DEF Init, GivenPaths, GivenModule, Extra, TypeOK
  <1>2. IsFiniteSet(DOMAIN NameSeq)
    <2>1. DOMAIN NameSeq = 1 .. Len(NameSeq) /\ Len(NameSeq) \in Int
      BY ModuleAssumption
    <2> QED BY <2>1, FS_Interval
  <1>3. IsFiniteSet(Name)
    BY <1>2, FiniteRange DEF Name
  <1>4. IsFiniteSet(Range(funcToModule))
    BY <1>3, FiniteRange DEF TypeOK
  <1>5. IsFiniteSet(Named)
    BY <1>4, FS_Subset DEF Named
  <1> QED BY <1>1, <1>5, FS_EmptySet DEF CapacityInv

LEMMA ScanCapacity == TypeOK /\ CapacityInv /\ ScanFunction => CapacityInv'
  <1> SUFFICES ASSUME TypeOK, CapacityInv, ScanFunction, args # <<>> PROVE CapacityInv'
    BY DEF ScanFunction, CapacityInv
  <1>0. UNCHANGED <<funcToModule, args>> /\ Named' = Named /\ pc = "scan"
    BY DEF ScanFunction, Named
  <1>1. /\ paths \in Seq(Path) /\ Len(paths) \in Nat /\ Len(args) \in Nat
        /\ IsFiniteSet(Extra) /\ Cardinality(Extra) \in Nat
        /\ IsFiniteSet(Named) /\ Cardinality(Named) \in Nat
    BY ModuleAssumption, FS_CardinalityType DEF TypeOK, CapacityInv
  <1>2. PICK f : f = <<id, NameSeq[pos]>>
    OBVIOUS
  <1>3. MustLoad(f) => funcToModule[f[2]] \in Named \ Extra
    BY DEF MustLoad, ModulePaths, Named, Extra, CapacityInv, Range
  <1>4. CASE paths' = paths /\ pc' # "overrun"
    BY <1>0, <1>4 DEF CapacityInv, Extra
  <1>5. CASE MustLoad(f) /\ funcToModule[f[2]] \in Path /\ paths' = Append(paths, funcToModule[f[2]]) /\ pc' # "overrun"
    <2>1. PICK p \in Path : p = funcToModule[f[2]]
      BY <1>5
    <2>2. p \in Named /\ p \notin Extra /\ paths' = Append(paths, p)
      BY <1>3, <1>5, <2>1
    <2>3. Range(paths') = Range(paths) \cup {p} /\ Len(paths') = Len(paths) + 1
      BY <1>1, <2>2, Appended
    <2>4. Extra' = Extra \cup {p}
      BY <1>0, <2>2, <2>3 DEF Extra, Named
    <2>5. IsFiniteSet(Extra') /\ Cardinality(Extra') = Cardinality(Extra) + 1
      BY <1>1, <2>2, <2>4, FS_AddElement
    <2>6. Extra' \subseteq Named /\ Range(args) \subseteq Range(paths')
      BY <2>2, <2>3, <2>4 DEF CapacityInv
    <2>7. Len(paths') = Len(args) + Cardinality(Extra')
      BY <1>1, <2>3, <2>5 DEF CapacityInv
    <2>8. /\ args' = args /\ Range(args') = Range(args) /\ Len(args') = Len(args)
          /\ pc' # "overrun" /\ IsFiniteSet(Named) /\ Named' = Named
      BY <1>0, <1>1, <1>5
    <2> QED BY <2>5, <2>6, <2>7, <2>8 DEF CapacityInv
  <1>6. CASE MustLoad(f) /\ Len(paths) >= Capacity /\ paths' = paths
    <2>1. PICK p : p \in Named /\ p \notin Extra
      BY <1>3, <1>6
    <2>2. IsFiniteSet(Extra \cup {p}) /\ Cardinality(Extra \cup {p}) = Cardinality(Extra) + 1
      BY <1>1, <2>1, FS_AddElement
    <2>3. Extra \cup {p} \subseteq Named
      BY <2>1 DEF CapacityInv
    <2>4. Cardinality(Extra) + 1 <= Cardinality(Named)
      BY <1>1, <2>2, <2>3, FS_Subset
    <2>5. Cardinality(Extra) >= MaxModuleNum
      BY <1>1, <1>6, ModuleAssumption DEF CapacityInv, Capacity
    <2>6. Cardinality(Named) > MaxModuleNum
      BY <1>1, <2>4, <2>5, ModuleAssumption
    <2> QED BY <1>0, <1>6, <2>6 DEF CapacityInv, Extra
  <1> QED BY <1>0, <1>2, <1>4, <1>5, <1>6 DEF ScanFunction, Record

\* With modules given by path, the table m_Modules is overrun only when the file
\* names more than MaxModuleNum other paths.
THEOREM TableSuffices == Spec => []WithinCapacity
  <1>1. TypeOK /\ CapacityInv /\ [Next]_vars => CapacityInv'
    <2> SUFFICES ASSUME TypeOK, CapacityInv, [Next]_vars PROVE CapacityInv'
      OBVIOUS
    <2>1. CASE SkipName \/ NextModule \/ BuildFuncMap \/ Stopped \/ UNCHANGED vars
      <3>1. UNCHANGED <<paths, args, funcToModule>> /\ (pc' = pc \/ pc' = "done")
        BY <2>1 DEF SkipName, NextModule, BuildFuncMap, Stopped, vars
      <3>2. Extra' = Extra /\ Named' = Named
        BY <3>1 DEF Extra, Named
      <3>3. pc' = "overrun" => pc = "overrun"
        BY <3>1
      <3> QED BY <3>1, <3>2, <3>3 DEF CapacityInv
    <2> QED BY <2>1, ScanCapacity DEF Next
  <1>2. TypeOK /\ CapacityInv => WithinCapacity
    <2> SUFFICES ASSUME CapacityInv, args # <<>>, Cardinality(Named) <= MaxModuleNum
                 PROVE  pc # "overrun"
      BY DEF WithinCapacity, Named
    <2>1. Cardinality(Named) \in Nat
      BY FS_CardinalityType DEF CapacityInv
    <2> QED BY <2>1, ModuleAssumption DEF CapacityInv
  <1> QED BY <1>1, <1>2, InitCapacity, InitTyped, TypeCorrect, PTL DEF Spec

-----------------------------------------------------------------------------
(* The two maps *)

\* The definition found for a declaration lists that declaration: whichever of
\* several definitions the order of the addresses makes the last.  This is about
\* m_FunDeclToDefMap and m_FunDefToDeclsMap.
THEOREM FuncMapsAgree == Spec => []MapsAgree
  <1>1. Init => MapsAgree
    BY DEF Init, MapsAgree
  <1>2. MapsAgree /\ [Next]_vars => MapsAgree'
    <2> SUFFICES ASSUME MapsAgree, [Next]_vars PROVE MapsAgree'
      OBVIOUS
    <2>1. CASE BuildFuncMap
      <3>1. PICK last \in [DefAndDecl -> Defs] :
              /\ \A n \in DefAndDecl : last[n][2] = n
              /\ declToDef' = [d \in {f \in Decls : f[2] \in DefAndDecl} |-> last[d[2]]]
        BY <2>1 DEF BuildFuncMap
      <3>2. /\ defToDecls' = [d \in {f \in Defs : f[2] \in DefAndDecl} |-> DeclsOf(d)]
            /\ Defs' = Defs
        BY <2>1 DEF BuildFuncMap, Defs, Kind
      <3>3. ASSUME NEW d \in DOMAIN declToDef'
            PROVE  /\ declToDef'[d] \in Defs /\ declToDef'[d][2] = d[2]
                   /\ d \in defToDecls'[declToDef'[d]]
        <4>1. d \in Decls /\ d[2] \in DefAndDecl /\ declToDef'[d] = last[d[2]]
          BY <3>1
        <4>2. last[d[2]] \in Defs /\ last[d[2]][2] = d[2]
          BY <3>1, <4>1
        <4>3. d \in DeclsOf(last[d[2]])
          BY <4>1, <4>2 DEF DeclsOf
        <4> QED BY <3>2, <4>1, <4>2, <4>3
      <3> QED BY <3>2, <3>3 DEF MapsAgree
    <2>2. CASE ScanFunction \/ SkipName \/ NextModule
      <3>1. pc = "scan" /\ pc' \in {"scan", "abort", "exit", "overrun"}
        BY <2>2 DEF ScanFunction, Record, SkipName, NextModule
      <3> QED BY <3>1 DEF MapsAgree
    <2>3. CASE UNCHANGED vars
      BY <2>3 DEF vars, MapsAgree, Defs, Kind
    <2> QED BY <2>1, <2>2, <2>3 DEF Next, Stopped
  <1> QED BY <1>1, <1>2, PTL DEF Spec

-----------------------------------------------------------------------------
(* From the file to the definitions *)

\* Of finitely many lines one is the last.
LEMMA LastLine ==
  ASSUME NEW L, IsFiniteSet(L), L \subseteq Nat \X Nat, L # {}
  PROVE  \E x \in L : \A y \in L : y = x \/ Before(y, x)
  <1> DEFINE After(x) == {y \in L : Before(x, y)}
             R == StrictSubsetOrdering(L)
             F == {After(x) : x \in L}
  <1>1. IsWellFoundedOn(R, FiniteSubsetsOf(L))
    BY FS_StrictSubsetOrderingWellFounded
  <1>2. F # {} /\ F \subseteq FiniteSubsetsOf(L)
    <2>1. \A x \in L : After(x) \in SUBSET L
      OBVIOUS
    <2>2. \A x \in L : IsFiniteSet(After(x))
      BY <2>1, FS_Subset
    <2> QED BY <2>1, <2>2 DEF FiniteSubsetsOf
  <1>3. PICK X \in F : \A Y \in F : ~ (<<Y, X>> \in R)
    <2> HIDE DEF F, R
    <2> QED BY <1>1, <1>2, WFMin
  <1>4. PICK x \in L : X = After(x)
    BY <1>3
  <1>5. ASSUME NEW y \in L, Before(x, y) PROVE FALSE
    <2>1. \A z \in L : Before(y, z) => Before(x, z)
      <3> SUFFICES ASSUME NEW z \in L, Before(y, z) PROVE Before(x, z)
        OBVIOUS
      <3>1. /\ x[1] \in Nat /\ y[1] \in Nat /\ z[1] \in Nat
            /\ x[2] \in Nat /\ y[2] \in Nat /\ z[2] \in Nat
        OBVIOUS
      <3> QED BY <1>5, <3>1 DEF Before
    <2>2. ~Before(y, y)
      <3>1. y[1] \in Nat /\ y[2] \in Nat
        OBVIOUS
      <3> QED BY <3>1 DEF Before
    <2>3. After(y) \subseteq After(x) /\ y \in After(x) /\ y \notin After(y)
      BY <1>5, <2>1, <2>2
    <2>4. <<After(y), After(x)>> \in R
      BY <2>3 DEF StrictSubsetOrdering
    <2>5. After(y) \in F
      OBVIOUS
    <2> HIDE DEF R, F, After
    <2> QED BY <1>3, <1>4, <2>4, <2>5
  <1>6. ASSUME NEW y \in L PROVE y = x \/ Before(y, x)
    <2>1. /\ x[1] \in Nat /\ y[1] \in Nat /\ x[2] \in Nat /\ y[2] \in Nat
          /\ x = <<x[1], x[2]>> /\ y = <<y[1], y[2]>>
      OBVIOUS
    <2>2. ~Before(x, y)
      BY <1>5
    <2> QED BY <2>1, <2>2 DEF Before
  <1> QED BY <1>6

\* The module the file names for a function defines it, if its line is whole.
MapRight ==
  \A n \in DOMAIN funcToModule :
    \/ funcToModule[n] = Cut
    \/ funcToModule[n] \in Path /\ content[funcToModule[n]][n] = "def"

LEMMA InitMapRight == Init => MapRight
  <1> SUFFICES ASSUME Init PROVE MapRight
    OBVIOUS
  <1>1. PICK run \in PreRuns :
          \E lines \in Flushed(content, run), cut \in BOOLEAN : funcToModule = FmMap(run, lines, cut)
    BY DEF Init
  <1>2. PICK lines \in Flushed(content, run), cut \in BOOLEAN : funcToModule = FmMap(run, lines, cut)
    BY <1>1
  <1>3. /\ run \in Seq(Path) /\ DOMAIN run = 1 .. Len(run) /\ Len(run) \in Nat
        /\ DOMAIN NameSeq = 1 .. Len(NameSeq) /\ Len(NameSeq) \in Nat
    BY ModuleAssumption
  <1>4. lines \subseteq Lines(content, run)
    BY <1>2 DEF Flushed
  <1>5. lines \subseteq (DOMAIN run) \X (DOMAIN NameSeq) /\ lines \subseteq Nat \X Nat
    BY <1>3, <1>4 DEF Lines
  <1>6. IsFiniteSet(lines)
    <2>1. IsFiniteSet(DOMAIN run) /\ IsFiniteSet(DOMAIN NameSeq)
      BY <1>3, FS_Interval
    <2>2. IsFiniteSet((DOMAIN run) \X (DOMAIN NameSeq))
      BY <2>1, FS_Product
    <2> QED BY <1>5, <2>2, FS_Subset
  <1> SUFFICES ASSUME NEW n \in DOMAIN funcToModule
               PROVE  \/ funcToModule[n] = Cut
                      \/ funcToModule[n] \in Path /\ content[funcToModule[n]][n] = "def"
    BY DEF MapRight
  <1> DEFINE IsLast(x) == NameSeq[x[2]] = n /\ \A y \in lines : NameSeq[y[2]] = n => y = x \/ Before(y, x)
  <1>7. \E x \in lines : IsLast(x)
    <2> DEFINE L == {x \in lines : NameSeq[x[2]] = n}
    <2>1. L # {}
      BY <1>2 DEF FmMap
    <2>2. IsFiniteSet(L) /\ L \subseteq Nat \X Nat
      BY <1>5, <1>6, FS_Subset
    <2>3. \E x \in L : \A y \in L : y = x \/ Before(y, x)
      <3> HIDE DEF L
      <3> QED BY <2>1, <2>2, LastLine
    <2> QED BY <2>3
  <1> DEFINE last == CHOOSE x \in lines : IsLast(x)
  <1>8. last \in lines /\ NameSeq[last[2]] = n
    <2>1. last \in lines /\ IsLast(last)
      BY <1>7
    <2> QED BY <2>1
  <1>9. funcToModule[n] = Cut \/ funcToModule[n] = run[last[1]]
    BY <1>2 DEF FmMap
  <1> HIDE DEF last
  <1>10. /\ last[1] \in DOMAIN run /\ content[run[last[1]]][NameSeq[last[2]]] = "def"
    BY <1>4, <1>8 DEF Lines
  <1> QED BY <1>3, <1>8, <1>9, <1>10

\* The functions the scan has passed are recorded.
Passed(k, i) == k < id \/ (k = id /\ i < pos)

ScanInv ==
  /\ MapRight
  /\ \A k \in DOMAIN paths, i \in DOMAIN NameSeq :
       Passed(k, i) /\ Kind(<<k, NameSeq[i]>>) # "none" => <<k, NameSeq[i]>> \in Range(funcs)
  /\ DeclarationsResolved

LEMMA ScanStepRecords == TypeOK /\ ScanInv /\ ScanFunction => ScanInv'
  <1> SUFFICES ASSUME TypeOK, ScanInv, ScanFunction PROVE ScanInv'
    OBVIOUS
  <1>1. /\ UNCHANGED <<content, funcToModule, id>> /\ pc = "scan" /\ pc' # "done"
        /\ id \in Nat /\ pos \in Nat /\ id <= Len(paths)
    <2>1. pc = "scan" /\ pc' # "done"
      BY DEF ScanFunction, Record
    <2>2. Len(paths) \in Nat /\ Len(NameSeq) \in Nat
      BY ModuleAssumption DEF TypeOK
    <2> QED BY <2>1, <2>2 DEF ScanFunction, TypeOK
  <1>2. MapRight' /\ DeclarationsResolved'
    BY <1>1 DEF ScanInv, MapRight, DeclarationsResolved
  <1> SUFFICES ASSUME NEW k \in DOMAIN paths', NEW i \in DOMAIN NameSeq, Passed(k, i)',
                      Kind(<<k, NameSeq[i]>>)' # "none"
               PROVE  <<k, NameSeq[i]>> \in Range(funcs')
    BY <1>2 DEF ScanInv
  <1>3. /\ k \in Nat \ {0} /\ i \in Nat
        /\ paths \in Seq(Path) /\ DOMAIN paths = 1 .. Len(paths) /\ Len(paths) \in Nat
    <2>1. paths \in Seq(Path) /\ paths' \in Seq(Path)
      BY ScanTyped DEF TypeOK
    <2> QED BY <2>1, ModuleAssumption
  <1>4. k \in DOMAIN paths /\ paths'[k] = paths[k]
    <2>1. k <= id
      BY <1>1, <1>3 DEF Passed
    <2>2. k \in DOMAIN paths
      BY <1>1, <1>3, <2>1
    <2>3. paths' = paths \/ \E p \in Path : paths' = Append(paths, p)
      BY DEF ScanFunction
    <2> QED BY <1>3, <2>2, <2>3, Appended
  <1>5. Kind(<<k, NameSeq[i]>>) # "none"
    BY <1>1, <1>4 DEF Kind
  <1>6. CASE Passed(k, i)
    <2>1. <<k, NameSeq[i]>> \in Range(funcs)
      BY <1>4, <1>5, <1>6 DEF ScanInv
    <2>2. Range(funcs) \subseteq Range(funcs')
      <3>1. \/ funcs' = funcs
            \/ \E f \in Functions : funcs' = Append(funcs, f)
        <4>1. <<id, NameSeq[pos]>> \in Functions
          <5>1. pos \in DOMAIN NameSeq /\ id \in 1 .. Len(paths)
            BY <1>1, <1>3, ModuleAssumption DEF ScanFunction, TypeOK
          <5> QED BY <5>1 DEF Functions, Name, Range
        <4> QED BY <4>1 DEF ScanFunction, Record
      <3>2. funcs \in Seq(Functions)
        BY DEF TypeOK
      <3>3. CASE funcs' = funcs
        BY <3>3
      <3>4. ASSUME NEW f \in Functions, funcs' = Append(funcs, f) PROVE Range(funcs') = Range(funcs) \cup {f}
        BY <3>2, <3>4, Appended
      <3> QED BY <3>1, <3>3, <3>4
    <2> QED BY <2>1, <2>2
  <1>7. CASE ~Passed(k, i)
    <2>1. k = id /\ i = pos /\ pos' # pos
      BY <1>1, <1>3, <1>7 DEF Passed, ScanFunction, Record
    <2>2. funcs' = Append(funcs, <<k, NameSeq[i]>>)
      BY <2>1 DEF ScanFunction, Record
    <2>3. <<k, NameSeq[i]>> \in Functions /\ funcs \in Seq(Functions)
      BY <1>3, <1>4 DEF Functions, Name, Range, TypeOK
    <2> QED BY <2>2, <2>3, Appended
  <1> QED BY <1>6, <1>7

LEMMA MapsResolve ==
  ASSUME TypeOK, IInv, ScanInv, BuildFuncMap
  PROVE  ScanInv'
  <1>1. /\ UNCHANGED <<content, funcToModule, args, paths, id, pos, funcs, entry>> /\ id > Len(paths)
        /\ Decls' = Decls
    BY DEF BuildFuncMap, Decls, Kind
  <1>2. DOMAIN declToDef' = {f \in Decls : f[2] \in DefAndDecl}
    BY DEF BuildFuncMap
  <1>3. ASSUME NEW f \in Decls, f[2] \in DOMAIN funcToModule PROVE f[2] \in DefAndDecl
    <2>1. f \in Range(funcs) /\ f[2] \in Name /\ f[2] \in NamesOf(Decls)
      BY <1>3 DEF Decls, TypeOK, NamesOf
    <2>2. funcToModule[f[2]] \in Range(paths) /\ Range(paths) \subseteq Path
      <3>1. Range(paths) \subseteq Path
        BY DEF IInv, Range
      <3>2. Met(f) /\ Kind(f) = "decl"
        BY <1>3, <2>1 DEF IInv, DemandInv, Decls
      <3> QED BY <1>3, <3>1, <3>2 DEF Met
    <2>3. content[funcToModule[f[2]]][f[2]] = "def"
      BY <1>3, <2>2, ModuleAssumption DEF ScanInv, MapRight
    <2>4. PICK k \in DOMAIN paths : paths[k] = funcToModule[f[2]]
      BY <2>2 DEF Range
    <2>5. PICK i \in DOMAIN NameSeq : NameSeq[i] = f[2]
      BY <2>1 DEF Name, Range
    <2>6. Kind(<<k, NameSeq[i]>>) = "def"
      BY <2>3, <2>4, <2>5 DEF Kind
    <2>7. Passed(k, i)
      BY <1>1 DEF Passed, IInv
    <2>8. <<k, NameSeq[i]>> \in Defs
      BY <2>6, <2>7 DEF ScanInv, Defs
    <2>9. <<k, NameSeq[i]>>[2] = f[2]
      BY <2>5
    <2> QED BY <2>1, <2>8, <2>9 DEF DefAndDecl, NamesOf
  <1>4. DeclarationsResolved'
    BY <1>1, <1>2, <1>3 DEF DeclarationsResolved
  <1> QED BY <1>1, <1>4 DEF ScanInv, MapRight, Passed, Kind

\* If the file comes from a run with -pre over the same modules, whole or cut
\* short, every declaration of a function it names gets a definition.
THEOREM AllDeclarationsResolved == Spec => []DeclarationsResolved
  <1>1. Init => ScanInv
    <2> SUFFICES ASSUME Init PROVE ScanInv
      OBVIOUS
    <2>1. id = 1 /\ pos = 1 /\ pc = "scan" /\ paths \in Seq(Path)
      BY GivenTyped DEF Init
    <2>2. \A k \in DOMAIN paths, i \in DOMAIN NameSeq : ~Passed(k, i)
      BY <2>1, ModuleAssumption DEF Passed
    <2> QED BY <2>1, <2>2, InitMapRight DEF ScanInv, DeclarationsResolved
  <1>2. TypeOK /\ IInv /\ ScanInv /\ [Next]_vars => ScanInv'
    <2> SUFFICES ASSUME TypeOK, IInv, ScanInv, [Next]_vars PROVE ScanInv'
      OBVIOUS
    <2>1. CASE SkipName \/ NextModule
      <3>1. /\ UNCHANGED <<content, funcToModule, paths, funcs, declToDef, pc>> /\ pc = "scan"
            /\ id \in Nat /\ pos \in Nat
        BY <2>1 DEF SkipName, NextModule, IInv
      <3>2. ASSUME NEW k \in DOMAIN paths, NEW i \in DOMAIN NameSeq, Passed(k, i)',
                   Kind(<<k, NameSeq[i]>>) # "none"
            PROVE  Passed(k, i)
        <4>1. k \in Nat /\ i \in Nat /\ i <= Len(NameSeq) /\ Len(NameSeq) \in Nat
          BY ModuleAssumption DEF IInv
        <4> QED BY <2>1, <3>1, <3>2, <4>1 DEF Passed, SkipName, NextModule
      <3>3. MapRight' /\ DeclarationsResolved'
        BY <3>1 DEF ScanInv, MapRight, DeclarationsResolved
      <3> QED BY <3>1, <3>2, <3>3 DEF ScanInv, Kind
    <2>2. CASE UNCHANGED vars
      BY <2>2 DEF vars, ScanInv, MapRight, Passed, Kind, DeclarationsResolved, Decls
    <2> QED BY <2>1, <2>2, ScanStepRecords, MapsResolve DEF Next, Stopped
  <1>3. ScanInv => DeclarationsResolved
    BY DEF ScanInv
  <1> QED BY <1>1, <1>2, <1>3, TypeCorrect, LoadInvariant, PTL DEF Spec
=============================================================================

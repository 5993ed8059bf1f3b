------------------------- MODULE DependenceProofs -------------------------
(***************************************************************************)
(* The dependence graph misses no dependence within a function and invents *)
(* none, and what it adds along calls is what the callees promise, for     *)
(* every program, every order of the functions and every set of call       *)
(* paths.                                                                  *)
(***************************************************************************)
EXTENDS Dependence, FiniteSetTheorems, SequenceTheorems, WellFoundedInduction, TLAPS

-----------------------------------------------------------------------------
(* Recursive references *)

\* The equation by which g grows the subsets of I along T ...
Grows(g, I, T) == g = [S \in SUBSET I |-> IF T[S] = S THEN S ELSE g[T[S]]]
\* ... and the least set with S that T does not enlarge.
IsLeast(M, S, I, T) ==
  /\ M \in SUBSET I /\ S \subseteq M /\ T[M] = M
  /\ \A C \in SUBSET I : S \subseteq C /\ T[C] = C => M \subseteq C

\* The equation has a solution, and every solution gives the least sets.
LEMMA Growing ==
  ASSUME NEW I, IsFiniteSet(I), NEW T \in [SUBSET I -> SUBSET I],
         \A S \in SUBSET I : S \subseteq T[S],
         \A R, S \in SUBSET I : R \subseteq S => T[R] \subseteq T[S]
  PROVE  /\ \E g : Grows(g, I, T)
         /\ \A g : Grows(g, I, T) => \A S \in SUBSET I : IsLeast(g[S], S, I, T)
<1> DEFINE Least(S) == {x \in I : \A C \in SUBSET I : S \subseteq C /\ T[C] = C => x \in C}
           least == [S \in SUBSET I |-> Least(S)]
<1>1. ASSUME NEW S \in SUBSET I
      PROVE  /\ Least(S) \in SUBSET I /\ S \subseteq Least(S) /\ T[Least(S)] = Least(S)
             /\ \A C \in SUBSET I : S \subseteq C /\ T[C] = C => Least(S) \subseteq C
             /\ T[S] = S => Least(S) = S
             /\ Least(T[S]) = Least(S)
  <2>1. /\ Least(S) \in SUBSET I /\ S \subseteq Least(S)
        /\ \A C \in SUBSET I : S \subseteq C /\ T[C] = C => Least(S) \subseteq C
        /\ T[S] = S => Least(S) = S
    OBVIOUS
  <2>2. T[Least(S)] = Least(S)
    <3>1. \A C \in SUBSET I : S \subseteq C /\ T[C] = C => T[Least(S)] \subseteq C
      BY <2>1
    <3>2. T[Least(S)] \subseteq Least(S)
      BY <2>1, <3>1
    <3> QED
      BY <2>1, <3>2
  <2>3. \A C \in SUBSET I : T[C] = C => (S \subseteq C <=> T[S] \subseteq C)
    OBVIOUS
  <2>4. Least(T[S]) = Least(S)
    BY <2>3
  <2> HIDE DEF Least
  <2> QED
    BY <2>1, <2>2, <2>4
<1> HIDE DEF Least
<1>2. least = [S \in SUBSET I |-> IF T[S] = S THEN S ELSE least[T[S]]]
  BY <1>1
<1>3. ASSUME NEW g, g = [S \in SUBSET I |-> IF T[S] = S THEN S ELSE g[T[S]]]
      PROVE  \A S \in SUBSET I : g[S] = Least(S)
  <2> DEFINE Bad == {S \in SUBSET I : g[S] # Least(S)}
             Rest == {I \ S : S \in Bad}
  <2> SUFFICES ASSUME Bad # {} PROVE FALSE
    OBVIOUS
  <2>1. Rest \in SUBSET FiniteSubsetsOf(I) /\ Rest # {}
    <3>1. \A R \in Rest : R \in SUBSET I
      OBVIOUS
    <3>2. PICK S \in Bad : TRUE
      OBVIOUS
    <3>3. I \ S \in Rest
      OBVIOUS
    <3> QED
      BY <3>1, <3>3, FS_FiniteSubsetsOfFinite
  <2>2. PICK L \in Rest : \A M \in Rest : <<M, L>> \notin StrictSubsetOrdering(I)
    BY <2>1, FS_StrictSubsetOrderingWellFounded, WFMin
  <2>3. PICK S \in Bad : L = I \ S
    OBVIOUS
  <2>4. S \in SUBSET I /\ g[S] # Least(S)
    OBVIOUS
  <2>5. T[S] # S /\ T[S] \in SUBSET I /\ S \subseteq T[S]
    BY <1>1, <1>3, <2>4
  <2>6. T[S] \notin Bad
    <3> SUFFICES ASSUME T[S] \in Bad PROVE FALSE
      OBVIOUS
    <3>1. I \ T[S] \in Rest /\ I \ T[S] \subseteq L /\ I \ T[S] # L /\ L \subseteq I
      BY <2>3, <2>4, <2>5
    <3>2. <<I \ T[S], L>> \in StrictSubsetOrdering(I)
      BY <3>1 DEF StrictSubsetOrdering
    <3> QED
      BY <2>2, <3>1, <3>2
  <2>7. g[T[S]] = Least(T[S])
    BY <2>5, <2>6
  <2> QED
    BY <1>1, <1>3, <2>4, <2>5, <2>7
<1>4. \E g : Grows(g, I, T)
  BY <1>2 DEF Grows
<1>5. ASSUME NEW g, Grows(g, I, T), NEW S \in SUBSET I PROVE IsLeast(g[S], S, I, T)
  <2>1. g[S] = Least(S)
    BY <1>3, <1>5 DEF Grows
  <2> QED
    BY <1>1, <2>1 DEF IsLeast
<1> QED
  BY <1>4, <1>5

Through(S, d) == S \cup UNION {Succs(x) : x \in {y \in S : ddef[y] # ddef[d]} \cup {d}}

LEMMA ReachedByIsLeast ==
  ASSUME IsFiniteSet(Inst), flow \subseteq Inst \X Inst, NEW d \in Inst
  PROVE  /\ ReachedBy(d) \in SUBSET Inst /\ Succs(d) \subseteq ReachedBy(d)
         /\ \A x \in ReachedBy(d) : ddef[x] # ddef[d] => Succs(x) \subseteq ReachedBy(d)
         /\ \A C \in SUBSET Inst : Succs(d) \subseteq C /\ (\A x \in C : ddef[x] # ddef[d] => Succs(x) \subseteq C)
              => ReachedBy(d) \subseteq C
<1> DEFINE T == [S \in SUBSET Inst |-> Through(S, d)]
           grow == CHOOSE g : g = [S \in SUBSET Inst |-> IF Through(S, d) = S THEN S ELSE g[Through(S, d)]]
<1>1. \A x \in Inst : Succs(x) \in SUBSET Inst
  BY DEF Succs
<1>2. T \in [SUBSET Inst -> SUBSET Inst] /\ \A S \in SUBSET Inst : T[S] = Through(S, d)
  BY <1>1 DEF Through
<1>3. /\ \A S \in SUBSET Inst : S \subseteq T[S]
      /\ \A R, S \in SUBSET Inst : R \subseteq S => T[R] \subseteq T[S]
  BY <1>2 DEF Through
<1>4. ReachedBy(d) = grow[Succs(d)]
  BY DEF ReachedBy, Through
<1> HIDE DEF T, grow
<1>5. /\ \E g : Grows(g, Inst, T)
      /\ \A g : Grows(g, Inst, T) => \A S \in SUBSET Inst : IsLeast(g[S], S, Inst, T)
  BY <1>2, <1>3, Growing
<1>6. \A g : Grows(g, Inst, T) <=> g = [S \in SUBSET Inst |-> IF Through(S, d) = S THEN S ELSE g[Through(S, d)]]
  BY <1>2 DEF Grows
<1>7. Grows(grow, Inst, T)
  BY <1>5, <1>6 DEF grow
<1>8. IsLeast(ReachedBy(d), Succs(d), Inst, T)
  BY <1>1, <1>4, <1>5, <1>7
<1>9. \A C \in SUBSET Inst : T[C] = C /\ Succs(d) \subseteq C <=> Succs(d) \subseteq C /\ \A x \in C : ddef[x] # ddef[d] => Succs(x) \subseteq C
  <2> SUFFICES ASSUME NEW C \in SUBSET Inst
               PROVE  T[C] = C /\ Succs(d) \subseteq C <=>
                        Succs(d) \subseteq C /\ \A x \in C : ddef[x] # ddef[d] => Succs(x) \subseteq C
    OBVIOUS
  <2>1. T[C] = C \cup UNION {Succs(x) : x \in {y \in C : ddef[y] # ddef[d]} \cup {d}}
    BY <1>2 DEF Through
  <2>2. ASSUME T[C] = C, NEW x \in C, ddef[x] # ddef[d] PROVE Succs(x) \subseteq C
    BY <2>1, <2>2
  <2>3. ASSUME Succs(d) \subseteq C, \A x \in C : ddef[x] # ddef[d] => Succs(x) \subseteq C PROVE T[C] = C
    BY <2>1, <2>3
  <2> QED
    BY <2>2, <2>3
<1> QED
  BY <1>8, <1>9 DEF IsLeast

LEMMA ReachedBySame == ASSUME UNCHANGED <<prog, flow, ddef>>, NEW d PROVE ReachedBy(d)' = ReachedBy(d)
  BY DEF ReachedBy, Inst, InstsOf, Succs
-----------------------------------------------------------------------------
(* Programs *)

LEMMA Body ==
  ASSUME prog \in Programs, NEW f \in Func
  PROVE  /\ prog.code[f] \in Code /\ Len(prog.code[f]) \in Nat \ {0}
         /\ DOMAIN prog.code[f] = 1 .. Len(prog.code[f])
         /\ InstsOf(f) = {<<f, i>> : i \in 1 .. Len(prog.code[f])}
         /\ InstsOf(f) \subseteq Inst /\ <<f, 1>> \in InstsOf(f)
         /\ FlowOf(f) \subseteq InstsOf(f) \X InstsOf(f) /\ \A e \in FlowOf(f) : e[2][2] # 1
         /\ prog.formals[f] \in Seq(Atom)
<1>1. IsBody(prog.code[f], prog.flow[f]) /\ prog.formals[f] \in Seq(Atom)
  BY ProgramsAssumption
<1>2. /\ prog.code[f] \in Code /\ prog.code[f] # <<>>
      /\ prog.flow[f] \subseteq (DOMAIN prog.code[f]) \X (DOMAIN prog.code[f])
      /\ \A e \in prog.flow[f] : e[2] # 1
  BY <1>1 DEF IsBody
<1>3. DOMAIN prog.code[f] = 1 .. Len(prog.code[f]) /\ Len(prog.code[f]) \in Nat \ {0}
  <2> DEFINE c == prog.code[f]  Rec == [op : Op, args : Seq(Value), off : Atom \cup {None}, callees : SUBSET Func]
  <2>1. c \in Seq(Rec) /\ c # <<>>
    BY <1>2 DEF Code
  <2> HIDE DEF c, Rec
  <2>2. DOMAIN c = 1 .. Len(c) /\ Len(c) \in Nat \ {0}
    BY <2>1
  <2> QED
    BY <2>2 DEF c
<1>4. InstsOf(f) = {<<f, i>> : i \in 1 .. Len(prog.code[f])}
  BY <1>3 DEF InstsOf
<1>5. InstsOf(f) \subseteq Inst /\ <<f, 1>> \in InstsOf(f)
  BY <1>3, <1>4 DEF Inst
<1>6. FlowOf(f) \subseteq InstsOf(f) \X InstsOf(f) /\ \A e \in FlowOf(f) : e[2][2] # 1
  <2> SUFFICES ASSUME NEW e \in prog.flow[f]
               PROVE  <<f, e[1]>> \in InstsOf(f) /\ <<f, e[2]>> \in InstsOf(f) /\ e[2] # 1
    BY DEF FlowOf
  <2> QED
    BY <1>2 DEF InstsOf
<1> QED
  BY <1>1, <1>2, <1>3, <1>4, <1>5, <1>6

LEMMA BodyAt ==
  ASSUME NEW code, NEW edges, IsBody(code, edges), NEW i \in DOMAIN code
  PROVE  /\ Len(code[i].args) >= Arity(code[i].op)
         /\ code[i].op \in {"call", "vcall"} => \E e \in edges : e[1] = i
         /\ code[i].op = "gep" => code[i].off # None
BY DEF IsBody

LEMMA InstFacts ==
  ASSUME prog \in Programs, NEW x \in Inst
  PROVE  /\ x = <<x[1], x[2]>> /\ x[1] \in Func /\ x \in InstsOf(x[1]) /\ x[2] \in 1 .. Len(prog.code[x[1]])
         /\ x \in Value
         /\ At(x).op \in Op /\ At(x).args \in Seq(Value) /\ At(x).callees \subseteq Func
         /\ At(x).op = "store" => At(x).args[1] \in Value /\ At(x).args[2] \in Value
         /\ At(x).op \in {"load", "gep"} => At(x).args[1] \in Value
         /\ At(x).op = "gep" => At(x).off # None
         /\ IsCall(x) => \E y \in InstsOf(x[1]) : <<x, y>> \in FlowOf(x[1])
<1>1. PICK f \in Func : x \in InstsOf(f)
  BY DEF Inst
<1>2. PICK i \in 1 .. Len(prog.code[f]) : x = <<f, i>>
  BY <1>1, Body
<1>3. x = <<x[1], x[2]>> /\ x[1] = f /\ x[2] = i
  BY <1>2
<1>4. i \in DOMAIN prog.code[f] /\ At(x) = prog.code[f][i] /\ prog.code[f] \in Code
  <2>1. At(x) = prog.code[f][i]
    BY <1>3 DEF At
  <2>2. i \in DOMAIN prog.code[f] /\ prog.code[f] \in Code
    BY Body
  <2> QED
    BY <2>1, <2>2
<1>5. At(x) \in [op : Op, args : Seq(Value), off : Atom \cup {None}, callees : SUBSET Func]
  <2> DEFINE c == prog.code[f]  Rec == [op : Op, args : Seq(Value), off : Atom \cup {None}, callees : SUBSET Func]
  <2>1. c \in Seq(Rec) /\ i \in DOMAIN c
    BY <1>4 DEF Code
  <2> HIDE DEF c, Rec
  <2>2. c[i] \in Rec
    BY <2>1
  <2> QED
    BY <1>4, <2>2 DEF c, Rec
<1>6. IsBody(prog.code[f], prog.flow[f])
  BY ProgramsAssumption
<1>7. /\ Len(At(x).args) >= Arity(At(x).op) /\ (At(x).op \in {"call", "vcall"} => \E e \in prog.flow[f] : e[1] = i)
      /\ At(x).op = "gep" => At(x).off # None
  BY <1>4, <1>6, BodyAt
<1>8. \A s \in Seq(Value) : \A n \in 1 .. Len(s) : s[n] \in Value
  OBVIOUS
<1>9. At(x).op = "store" => At(x).args[1] \in Value /\ At(x).args[2] \in Value
  <2> SUFFICES ASSUME At(x).op = "store" PROVE At(x).args[1] \in Value /\ At(x).args[2] \in Value
    OBVIOUS
  <2>1. Len(At(x).args) >= 2 /\ At(x).args \in Seq(Value)
    BY <1>5, <1>7 DEF Arity
  <2>2. Len(At(x).args) \in Nat
    BY <2>1
  <2>3. 1 \in 1 .. Len(At(x).args) /\ 2 \in 1 .. Len(At(x).args)
    BY <2>1, <2>2
  <2> QED
    BY <1>8, <2>1, <2>3
<1>10. At(x).op \in {"load", "gep"} => At(x).args[1] \in Value
  <2> SUFFICES ASSUME At(x).op \in {"load", "gep"} PROVE At(x).args[1] \in Value
    OBVIOUS
  <2>1. Len(At(x).args) >= 1 /\ At(x).args \in Seq(Value)
    BY <1>5, <1>7 DEF Arity
  <2>2. Len(At(x).args) \in Nat
    BY <2>1
  <2>3. 1 \in 1 .. Len(At(x).args)
    BY <2>1, <2>2
  <2> QED
    BY <1>8, <2>1, <2>3
<1>11. IsCall(x) => \E y \in InstsOf(f) : <<x, y>> \in FlowOf(f)
  <2> SUFFICES ASSUME IsCall(x) PROVE \E y \in InstsOf(f) : <<x, y>> \in FlowOf(f)
    OBVIOUS
  <2>1. PICK e \in prog.flow[f] : e[1] = i
    BY <1>7 DEF IsCall
  <2>2. <<<<f, e[1]>>, <<f, e[2]>>>> \in FlowOf(f) /\ <<f, e[1]>> = x
    BY <1>2, <2>1 DEF FlowOf
  <2> QED
    BY <2>2, Body
<1> QED
  <2>1. At(x).op \in Op /\ At(x).args \in Seq(Value) /\ At(x).callees \subseteq Func
    BY <1>5
  <2>2. x = <<x[1], x[2]>> /\ x[1] \in Func /\ x \in InstsOf(x[1]) /\ x[2] \in 1 .. Len(prog.code[x[1]])
    BY <1>1, <1>2, <1>3
  <2>3. x \in Value
    <3>1. x[2] \in Nat
      BY <2>2, Body
    <3> QED
      BY <2>2, <3>1 DEF Value
  <2> QED
    BY <1>1, <1>3, <1>7, <1>9, <1>10, <1>11, <2>1, <2>2, <2>3

LEMMA Finite ==
  ASSUME prog \in Programs
  PROVE  IsFiniteSet(Inst) /\ \A f \in Func : IsFiniteSet(InstsOf(f))
<1>1. ASSUME NEW f \in Func PROVE IsFiniteSet(InstsOf(f))
  <2> DEFINE n == Len(prog.code[f])
  <2>1. n \in Nat /\ InstsOf(f) = {<<f, i>> : i \in 1 .. n}
    BY Body
  <2> HIDE DEF n
  <2>2. [i \in 1 .. n |-> <<f, i>>] \in Surjection(1 .. n, InstsOf(f))
    BY <2>1 DEF Surjection
  <2>3. IsFiniteSet(1 .. n)
    BY <2>1, FS_Interval
  <2> QED
    BY <2>2, <2>3, FS_Surjection
<1>2. IsFiniteSet(Func)
  BY ProgramsAssumption
<1>3. [f \in Func |-> InstsOf(f)] \in Surjection(Func, {InstsOf(f) : f \in Func})
  BY DEF Surjection
<1>4. IsFiniteSet({InstsOf(f) : f \in Func})
  BY <1>2, <1>3, FS_Surjection
<1>5. IsFiniteSet(UNION {InstsOf(f) : f \in Func})
  BY <1>1, <1>4, FS_UNION
<1> QED
  BY <1>1, <1>5 DEF Inst

-----------------------------------------------------------------------------
(* Instructions in order, and their ids *)

\* An instruction stands where as many as come before it have been counted.
LEMMA InOrderIsAll ==
  ASSUME NEW S, IsFiniteSet(S), \A x \in S : x[2] \in Nat, \A x, y \in S : x[2] = y[2] => x = y
  PROVE  /\ Cardinality(S) \in Nat /\ InOrder(S) \in [1 .. Cardinality(S) -> S]
         /\ \A x \in S : \E k \in 1 .. Cardinality(S) : InOrder(S)[k] = x
<1> DEFINE Before(x) == {y \in S : y[2] < x[2]}
           rank == [x \in S |-> Cardinality(Before(x))]
           n == Cardinality(S)
<1>1. n \in Nat
  BY FS_CardinalityType
<1>2. ASSUME NEW x \in S PROVE IsFiniteSet(Before(x)) /\ rank[x] \in 0 .. n - 1
  <2>1. Before(x) \in SUBSET S /\ x \notin Before(x)
    OBVIOUS
  <2>2. IsFiniteSet(Before(x)) /\ Cardinality(Before(x)) <= n /\ Cardinality(Before(x)) # n
    BY <2>1, FS_Subset
  <2>3. Cardinality(Before(x)) \in Nat
    BY <2>2, FS_CardinalityType
  <2> HIDE DEF Before, n
  <2>4. rank[x] = Cardinality(Before(x))
    OBVIOUS
  <2> QED
    BY <1>1, <2>2, <2>3, <2>4
<1>3. ASSUME NEW x \in S, NEW z \in S, x[2] < z[2] PROVE rank[x] # rank[z]
  <2>1. Before(x) \in SUBSET Before(z) /\ x \in Before(z) /\ x \notin Before(x)
    BY <1>3
  <2>2. Cardinality(Before(x)) # Cardinality(Before(z))
    BY <1>2, <2>1, FS_Subset
  <2> QED
    BY <2>2
<1>4. \A x, z \in S : rank[x] = rank[z] => x = z
  <2> HIDE DEF rank
  <2> SUFFICES ASSUME NEW x \in S, NEW z \in S, rank[x] = rank[z], x # z PROVE FALSE
    OBVIOUS
  <2>1. x[2] \in Nat /\ z[2] \in Nat /\ x[2] # z[2]
    OBVIOUS
  <2>2. CASE x[2] < z[2]
    BY <1>3, <2>2
  <2>3. CASE z[2] < x[2]
    BY <1>3, <2>3
  <2> QED
    BY <2>1, <2>2, <2>3
<1>5. \A k \in 1 .. n : \E x \in S : rank[x] = k - 1
  <2>1. DOMAIN rank = S /\ rank \in [S -> 0 .. n - 1]
    BY <1>2
  <2>2. IsFiniteSet(0 .. n - 1) /\ Cardinality(0 .. n - 1) = n
    <3> HIDE DEF n
    <3>1. n - 1 \in Int /\ 0 \in Int /\ (0 > n - 1 => n = 0) /\ (n - 1) - 0 + 1 = n
      BY <1>1
    <3> QED
      BY <3>1, FS_Interval
  <2> HIDE DEF rank
  <2>3. rank \in Injection(S, 0 .. n - 1)
    BY <1>4, <2>1 DEF Injection, IsInjective
  <2>4. rank \in Surjection(S, 0 .. n - 1)
    BY <2>2, <2>3, FS_Injection
  <2>5. \A i \in 0 .. n - 1 : \E x \in S : rank[x] = i
    BY <2>4 DEF Surjection
  <2> HIDE DEF n
  <2>6. \A k \in 1 .. n : k - 1 \in 0 .. n - 1
    BY <1>1
  <2> QED
    BY <2>5, <2>6
<1>6. InOrder(S) = [k \in 1 .. n |-> CHOOSE x \in S : Cardinality(Before(x)) = k - 1]
  BY DEF InOrder
<1>7. ASSUME NEW k \in 1 .. n PROVE InOrder(S)[k] \in S /\ rank[InOrder(S)[k]] = k - 1
  <2>1. \E x \in S : Cardinality(Before(x)) = k - 1
    BY <1>5
  <2> HIDE DEF Before, n
  <2>2. InOrder(S)[k] = CHOOSE x \in S : Cardinality(Before(x)) = k - 1
    BY <1>6
  <2> QED
    BY <2>1, <2>2
<1>8. ASSUME NEW x \in S PROVE \E k \in 1 .. n : InOrder(S)[k] = x
  <2> HIDE DEF rank, n
  <2>0. \A i \in 0 .. n - 1 : i + 1 \in 1 .. n /\ i = (i + 1) - 1
    BY <1>1
  <2>1. PICK k \in 1 .. n : rank[x] = k - 1
    BY <1>2, <2>0
  <2> QED
    BY <1>4, <1>7, <2>1
<1>9. InOrder(S) \in [1 .. n -> S]
  <2> HIDE DEF rank, n
  <2> QED
    BY <1>6, <1>7
<1> QED
  BY <1>1, <1>8, <1>9

LEMMA InOrderOfBody ==
  ASSUME prog \in Programs, NEW f \in Func, NEW S \in SUBSET InstsOf(f)
  PROVE  /\ InOrder(S) \in Seq(S) /\ ToSet(InOrder(S)) = S
         /\ DOMAIN InOrder(S) = 1 .. Len(InOrder(S)) /\ Len(InOrder(S)) \in Nat
<1>1. IsFiniteSet(S)
  BY Finite, FS_Subset
<1>2. \A x \in S : x[2] \in Nat /\ x[1] = f /\ x = <<x[1], x[2]>>
  <2> DEFINE n == Len(prog.code[f])
  <2>1. n \in Nat /\ S \subseteq {<<f, i>> : i \in 1 .. n}
    BY Body
  <2> HIDE DEF n
  <2>2. \A x \in S : \E i \in 1 .. n : x = <<f, i>>
    BY <2>1
  <2> QED
    BY <2>1, <2>2
<1>3. /\ Cardinality(S) \in Nat /\ InOrder(S) \in [1 .. Cardinality(S) -> S]
      /\ \A x \in S : \E k \in 1 .. Cardinality(S) : InOrder(S)[k] = x
  BY <1>1, <1>2, InOrderIsAll
<1>4. InOrder(S) \in Seq(S) /\ DOMAIN InOrder(S) = 1 .. Cardinality(S)
  BY <1>3
<1> QED
  BY <1>3, <1>4 DEF ToSet

\* Each id stands for a definition and its value, and each definition has one.
StandFor(s, f, def) ==
  /\ s \in Seq([val : Value, inst : InstsOf(f)])
  /\ \A k \in DOMAIN s : def[s[k].inst] = {s[k].val}
  /\ \A x \in InstsOf(f) : def[x] # {} => \E k \in DOMAIN s : s[k].inst = x

LEMMA IdsFacts ==
  ASSUME prog \in Programs, NEW f \in Func, NEW def,
         \A x \in InstsOf(f) : def[x] \in SUBSET Value /\ \A v, w \in def[x] : v = w
  PROVE  StandFor(IdsOf(f, def), f, def)
<1> DEFINE D == {x \in InstsOf(f) : def[x] # {}}
           s == InOrder(D)
           r == [k \in DOMAIN s |-> [val |-> CHOOSE v \in def[s[k]] : TRUE, inst |-> s[k]]]
<1>1. s \in Seq(D) /\ ToSet(s) = D /\ DOMAIN s = 1 .. Len(s) /\ Len(s) \in Nat
  BY InOrderOfBody
<1>2. IdsOf(f, def) = r
  BY DEF IdsOf
<1> HIDE DEF s
<1>3. ASSUME NEW k \in DOMAIN s
      PROVE  s[k] \in D /\ r[k].inst = s[k] /\ r[k].val \in Value /\ def[s[k]] = {r[k].val}
             /\ r[k] \in [val : Value, inst : InstsOf(f)]
  <2>1. s[k] \in D
    BY <1>1
  <2>2. r[k].inst = s[k] /\ r[k].val = CHOOSE v \in def[s[k]] : TRUE
    OBVIOUS
  <2>3. (CHOOSE v \in def[s[k]] : TRUE) \in def[s[k]]
    BY <2>1
  <2> QED
    BY <2>1, <2>2, <2>3
<1>4. DOMAIN r = DOMAIN s
  OBVIOUS
<1>5. r \in Seq([val : Value, inst : InstsOf(f)])
  <2> DEFINE Rec == [val : Value, inst : InstsOf(f)]
  <2>1. r = [k \in 1 .. Len(s) |-> r[k]] /\ \A k \in 1 .. Len(s) : r[k] \in Rec
    BY <1>1, <1>3
  <2> HIDE DEF r, Rec
  <2>2. r \in Seq(Rec)
    BY <1>1, <2>1
  <2> QED
    BY <2>2 DEF Rec
<1>6. \A x \in D : \E k \in DOMAIN s : s[k] = x
  BY <1>1 DEF ToSet
<1> HIDE DEF r, D
<1>7. \A x \in InstsOf(f) : def[x] # {} => x \in D
  BY DEF D
<1> QED
  BY <1>2, <1>3, <1>4, <1>5, <1>6, <1>7 DEF StandFor

-----------------------------------------------------------------------------
(* The inductive invariant *)

\* BuildIntraCfg, or BuildDdg, has been called for f.
Analysed(f) == \E i \in DOMAIN order : order[i] = f /\ (phase \in {"intra", "aborted"} => i < at)
Built(f) ==
  \/ phase \in {"acts", "done"}
  \/ phase = "reach" /\ \E i \in DOMAIN order : order[i] = f /\ i < at

PhaseInv ==
  /\ prog \in Programs /\ order \in Orders /\ at \in Nat \ {0}
  /\ phase \in {"intra", "pts", "reach", "acts", "done", "aborted"}
  /\ phase \in {"intra", "reach", "aborted"} => at <= Len(order) + 1
  /\ phase = "pts" => at > Len(order) /\ at <= Len(order) + Cardinality(Left) + 1
  /\ phase \in {"acts", "done"} => at = Len(order) + 1
  /\ walk \in Seq(Seq(Func))
  /\ pos \in Nat \ {0} /\ change \in BOOLEAN
  /\ phase \in {"intra", "pts"} => pos = 1 /\ ~change

\* What is kept of a callee's stores are stores of it, by object and field, and
\* none of what its callers pass is missing.
Stored(f, k, x) ==
  /\ x \in InstsOf(f) /\ At(x).op = "store"
  /\ k[1] \in Value /\ k[1] \in pdef[x] /\ k = ActKey(At(x).args[2], k[1])
DuInv ==
  /\ pdef \in [Inst -> SUBSET Value] /\ puse \in [Inst -> SUBSET (Value \cup {None})]
  /\ uses \in [Inst -> SUBSET (Value \cup {None})]
  /\ \A x \in Inst : puse[x] \subseteq uses[x] /\ (phase = "intra" => puse[x] = {})
  /\ DOMAIN fields = Func /\ \A f \in Func : Range(fields[f]) \subseteq Value \cup {None}
  /\ DOMAIN actSet = Func
  /\ \A f \in Func : \A k \in DOMAIN actSet[f] :
       Stored(f, k, actSet[f][k])
  /\ \A x \in Inst : Is(x, "store") => \A o \in pdef[x] :
       IsActualPara(x[1], o) => ActKey(At(x).args[2], o) \in DOMAIN actSet[x[1]]
  /\ valueSet \subseteq Inst

\* Definitions and control flow are those of the functions analysed; what comes
\* in from other functions comes in at heads and behind calls.
CfgInv ==
  /\ ddef = [x \in Inst |-> IF Analysed(x[1]) THEN DirectDef(x) ELSE {}]
  /\ \A c \in Inst : IsCall(c) /\ Analysed(c[1]) => Range(At(c).args) \subseteq uses[c]
  /\ flow = UNION {FlowOf(f) : f \in {g \in Func : Analysed(g)}}
  /\ DOMAIN exit = Func /\ \A f \in Func : exit[f] \in InstsOf(f)
  /\ DOMAIN ids = Func
  /\ \A f \in Func : ids[f] = IF Analysed(f) /\ ~Built(f) THEN IdsOf(f, ddef) ELSE <<>>
  /\ phase = "intra" => rets = {}
  /\ calls \subseteq Inst \X Inst /\ \A e \in calls : e[2][2] = 1
  /\ rets \subseteq Inst \X Inst
  /\ \A e \in rets : \E p \in CallPairs : e[1] = exit[p[2]] /\ e[2] \in InstsOf(p[1][1])
  /\ dummy \subseteq Inst

\* What an id in the sets of x, in the function at hand, says.
ComesIn(f, k, x) == k \in DOMAIN ids[f] /\ x \in ReachedBy(ids[f][k].inst)
GoesOut(f, k, x) ==
  /\ k \in DOMAIN ids[f]
  /\ \/ x = ids[f][k].inst
     \/ x \in ReachedBy(ids[f][k].inst) /\ ddef[x] # ddef[ids[f][k].inst]

\* Sets of functions to come are empty, those of functions done where there is
\* a DefUse; in between they hold only what reaches the instruction.
SoundInv ==
  /\ in \in [Inst -> SUBSET Nat] /\ out \in [Inst -> SUBSET Nat]
  /\ phase \in {"intra", "pts"} => \A x \in Inst : in[x] = {} /\ out[x] = {}
  /\ phase = "reach" => \A i \in DOMAIN order : \A x \in InstsOf(order[i]) :
       /\ i > at => in[x] = {} /\ out[x] = {}
       /\ i < at /\ HasDu(x) => out[x] = {}
       /\ i = at /\ ~Leaky(order[i]) => /\ \A k \in in[x] : ComesIn(order[i], k, x)
                                        /\ \A k \in out[x] : GoesOut(order[i], k, x)

\* Nothing is missing at the instructions of the round, as long as nothing has
\* changed in it.
FoundInv ==
  phase = "reach" /\ at <= Len(order) /\ ~change =>
    \A x \in InstsOf(order[at]) : x[2] < pos =>
      /\ Gen(x) \cup (in[x] \ Kill(x)) \subseteq out[x]
      /\ x[2] # 1 => \A p \in Preds(x) : out[p] \subseteq in[x]

\* The dependences of the functions done are all there, with the value defined;
\* until calls are looked at, there are no others.
Missing(d) ==
  \E u \in ReachedBy(d) : /\ ddef[d] \cap uses[u] # {}
                          /\ ~(<<"DD", d, u>> \in DOMAIN dd /\ dd[<<"DD", d, u>>] \in ddef[d])
Invented(e) == ~Leaky(e[2][1]) /\ e[3] \notin ReachedBy(e[2])
DepsInv ==
  /\ phase \in {"intra", "pts"} => dd = <<>>
  /\ phase = "reach" => \A e \in DOMAIN dd : Built(e[2][1])
  /\ phase = "reach" \/ IntraDone => \A e \in DOMAIN dd : ~Invented(e)
  /\ \A d \in Inst : Built(d[1]) => ~Missing(d)

DdInv ==
  /\ DOMAIN dd \subseteq {"DD", "DDCall", "DDRet"} \X Inst \X Inst
  /\ \A e \in DOMAIN dd : dd[e] \in Value

InterInv ==
  /\ todo \cup more \subseteq CallPairs /\ cur \in CallPairs \cup {<<>>}
  /\ cur # <<>> \/ more # {} => todo # CallPairs
  /\ queue \in Seq(Inst) /\ seen \subseteq Inst
  /\ phase # "acts" => cur = <<>> /\ more = {}
  /\ phase = "done" => todo = {}
  /\ cur = <<>> => queue = <<>>

StoresReach(g, x) == \A t \in Related(g, x) : t[1] \in DOMAIN dd

\* In a function that is never called the search behind a call goes everywhere.
SearchInv ==
  cur # <<>> /\ Callers(cur[1][1]) = {} /\ actSet[cur[2]] # <<>> =>
    /\ seen \cup ToSet(queue) \subseteq InstsOf(cur[1][1])
    /\ Succs(cur[1]) \subseteq seen \cup ToSet(queue)
    /\ \A x \in seen : Succs(x) \subseteq seen \cup ToSet(queue) /\ StoresReach(cur[2], x)

ActualsPassed(p) ==
  \A d \in Inst, v \in Range(At(p[1]).args) :
    d[1] = p[1][1] /\ ddef[d] = {v} /\ p[1] \in ReachedBy(d) =>
      \A q \in Formal(p[1], p[2], v) : \A x \in FpInst(p[2], q) : <<"DDCall", d, x>> \in DOMAIN dd

CallsInv ==
  phase \in {"acts", "done"} => \A p \in CallPairs \ (todo \cup more \cup {cur}) :
    /\ Callers(p[1][1]) = {} => \A x \in Behind(p[1]) : StoresReach(p[2], x)
    /\ ActualsPassed(p)

IInv ==
  PhaseInv /\ DuInv /\ CfgInv /\ SoundInv /\ FoundInv /\ DepsInv /\ DdInv /\ InterInv /\ SearchInv /\ CallsInv

-----------------------------------------------------------------------------
(* Orders, and what stays while the program does *)

LEMMA OrderFacts ==
  ASSUME order \in Orders
  PROVE  /\ Len(order) \in Nat /\ DOMAIN order = 1 .. Len(order) /\ order \in Seq(Func)
         /\ \A i \in DOMAIN order : order[i] \in Func
         /\ \A f \in Func : \E i \in DOMAIN order : order[i] = f
         /\ \A i, j \in DOMAIN order : order[i] = order[j] => i = j
         /\ Len(order) = Cardinality(Func)
<1> DEFINE n == Cardinality(Func)
<1>1. IsFiniteSet(Func) /\ n \in Nat
  BY ProgramsAssumption, FS_CardinalityType
<1>2. order \in [1 .. n -> Func] /\ ToSet(order) = Func
  BY DEF Orders
<1>3. order \in Surjection(1 .. n, Func)
  BY <1>2 DEF Surjection, ToSet
<1>4. IsFiniteSet(1 .. n) /\ Cardinality(1 .. n) = n
  <2> HIDE DEF n
  <2>1. 1 \in Int /\ n \in Int /\ (1 > n => n = 0) /\ n - 1 + 1 = n
    BY <1>1
  <2> QED
    BY <2>1, FS_Interval
<1>5. order \in Injection(1 .. n, Func)
  BY <1>3, <1>4, FS_SurjSameCardinalityImpliesInj
<1>6. \A i, j \in 1 .. n : order[i] = order[j] => i = j
  BY <1>5 DEF Injection, IsInjective
<1>7. \A f \in Func : \E i \in 1 .. n : order[i] = f
  BY <1>3 DEF Surjection
<1> HIDE DEF n
<1>8. order \in Seq(Func) /\ Len(order) = n /\ DOMAIN order = 1 .. n
  BY <1>1, <1>2
<1> QED
  BY <1>1, <1>2, <1>6, <1>7, <1>8 DEF n

LEMMA LeftFacts ==
  /\ Cardinality(Left) \in Nat /\ Cardinality(Left) <= Cardinality(Func)
  /\ \A i \in 1 .. Cardinality(Left) : SetToSeq(Left)[i] \in Func
<1> DEFINE n == Cardinality(Left)
<1>1. IsFiniteSet(Left) /\ n \in Nat /\ n <= Cardinality(Func) /\ Left \in SUBSET Func
  <2>1. Left \in SUBSET Func
    BY DEF Left
  <2> HIDE DEF Left
  <2> QED
    BY <2>1, ProgramsAssumption, FS_Subset, FS_CardinalityType
<1> HIDE DEF Left
<1>2. \E s \in [1 .. n -> Left] : IsInjective(s)
  <2>1. ExistsBijection(1 .. n, Left)
    BY <1>1, FS_CardinalityType
  <2> QED
    BY <2>1 DEF ExistsBijection, Bijection, Injection
<1>3. SetToSeq(Left) \in [1 .. n -> Left]
  BY <1>2 DEF SetToSeq
<1> QED
  BY <1>1, <1>3

\* The program does not change, and with it what is derived from it.
LEMMA Same ==
  ASSUME prog' = prog
  PROVE  /\ Inst' = Inst /\ CallPairs' = CallPairs /\ Left' = Left
         /\ \A f : InstsOf(f)' = InstsOf(f) /\ FlowOf(f)' = FlowOf(f) /\ Callers(f)' = Callers(f)
         /\ \A x : At(x)' = At(x) /\ IsCall(x)' = IsCall(x) /\ DirectDef(x)' = DirectDef(x)
<1>1. Inst' = Inst /\ Left' = Left
  BY DEF Inst, InstsOf, Left
<1>2. /\ \A f : InstsOf(f)' = InstsOf(f) /\ FlowOf(f)' = FlowOf(f)
      /\ \A x : At(x)' = At(x) /\ IsCall(x)' = IsCall(x) /\ DirectDef(x)' = DirectDef(x)
  BY DEF InstsOf, FlowOf, At, IsCall, DirectDef
<1>3. CallPairs' = CallPairs
  BY <1>1, <1>2 DEF CallPairs
<1>4. \A f : Callers(f)' = Callers(f)
  BY <1>1, <1>2 DEF Callers
<1> QED
  BY <1>1, <1>2, <1>3, <1>4

\* So are the keys of the callee's stores.
LEMMA KeySame ==
  ASSUME prog' = prog
  PROVE  /\ \A f, v : IsActualPara(f, v)' = IsActualPara(f, v)
         /\ \A x, o : ActKey(At(x).args[2], o)' = ActKey(At(x).args[2], o)
         /\ \A x, op : Is(x, op)' = Is(x, op)
         /\ (\A v : Base(v)' = Base(v)) /\ \A v : IsFirst(v)' = IsFirst(v)
<1>1. /\ Inst' = Inst /\ (\A f : InstsOf(f)' = InstsOf(f)) /\ (\A f : Callers(f)' = Callers(f))
      /\ \A x : At(x)' = At(x)
  BY Same
<1>2. \A x, op : Is(x, op)' = Is(x, op)
  BY <1>1 DEF Is
<1>3. \A f, v : IsActualPara(f, v)' = IsActualPara(f, v)
  BY <1>1 DEF IsActualPara
<1>4. \A v : Base(v)' = Base(v)
  BY <1>1, <1>2 DEF Base
<1>5. \A x : Field(x)' = Field(x)
  BY <1>1, <1>4 DEF Field
<1>6. \A v : IsFirst(v)' = IsFirst(v)
  BY <1>1, <1>2, <1>5 DEF IsFirst
<1>7. \A x, o : ActKey(At(x).args[2], o)' = ActKey(At(x).args[2], o)
  BY <1>1, <1>6 DEF ActKey
<1> QED
  BY <1>2, <1>3, <1>4, <1>6, <1>7

\* An instruction belongs to one function.
LEMMA OneFunction ==
  ASSUME prog \in Programs, NEW f \in Func, NEW x
  PROVE  x \in InstsOf(f) <=> x \in Inst /\ x[1] = f
<1>1. ASSUME x \in InstsOf(f) PROVE x[1] = f
  BY <1>1 DEF InstsOf
<1>2. ASSUME x \in Inst PROVE x \in InstsOf(x[1])
  BY <1>2, InstFacts
<1> QED
  BY <1>1, <1>2, Body

LEMMA CallPairFacts ==
  ASSUME prog \in Programs, NEW p \in CallPairs
  PROVE  /\ p = <<p[1], p[2]>> /\ p[1] \in Inst /\ p[2] \in Func /\ IsCall(p[1]) /\ p[1] \in Callers(p[2])
         /\ p[1][1] \in Func /\ p[1] \in InstsOf(p[1][1])
         /\ Range(At(p[1]).args) \subseteq Value
<1>1. p = <<p[1], p[2]>> /\ p[1] \in Inst /\ p[2] \in Func /\ IsCall(p[1]) /\ p[2] \in At(p[1]).callees
  BY DEF CallPairs
<1>2. p[1] \in Callers(p[2])
  BY <1>1 DEF Callers
<1>3. p[1][1] \in Func /\ p[1] \in InstsOf(p[1][1]) /\ At(p[1]).args \in Seq(Value)
  BY <1>1, InstFacts
<1>4. \A s \in Seq(Value) : Range(s) \subseteq Value
  BY DEF Range
<1> QED
  BY <1>1, <1>2, <1>3, <1>4

\* Control flow within functions stays within them.
LEMMA FlowFacts ==
  ASSUME prog \in Programs, flow = UNION {FlowOf(f) : f \in {g \in Func : Analysed(g)}}
  PROVE  /\ flow \subseteq Inst \X Inst
         /\ \A e \in flow : e = <<e[1], e[2]>> /\ e[2][1] = e[1][1] /\ e[2][2] # 1 /\ e \in FlowOf(e[1][1])
         /\ \A x \in Inst : Succs(x) \subseteq InstsOf(x[1])
         /\ \A x \in Inst : \A y \in Succs(x) : y \in Inst /\ y[1] = x[1] /\ y[2] # 1
<1>1. ASSUME NEW e \in flow
      PROVE  e \in Inst \X Inst /\ e = <<e[1], e[2]>> /\ e[2][1] = e[1][1] /\ e[2][2] # 1 /\ e \in FlowOf(e[1][1])
  <2>1. PICK f \in Func : e \in FlowOf(f)
    OBVIOUS
  <2>2. e \in InstsOf(f) \X InstsOf(f) /\ e[2][2] # 1
    BY <2>1, Body
  <2>3. e = <<e[1], e[2]>> /\ e[1] \in InstsOf(f) /\ e[2] \in InstsOf(f)
    BY <2>2
  <2> QED
    BY <2>1, <2>2, <2>3, OneFunction
<1>2. ASSUME NEW x \in Inst, NEW y \in Succs(x) PROVE y \in Inst /\ y[1] = x[1] /\ y[2] # 1 /\ y \in InstsOf(x[1])
  <2>1. PICK e \in flow : e[1] = x /\ e[2] = y
    BY DEF Succs
  <2>2. y \in Inst /\ y[1] = x[1] /\ y[2] # 1
    BY <1>1, <2>1
  <2> QED
    BY <2>2, InstFacts
<1> QED
  BY <1>1, <1>2

Beyond(S) == S \cup UNION {Succs(x) : x \in S}

LEMMA BehindIsLeast ==
  ASSUME IsFiniteSet(Inst), flow \subseteq Inst \X Inst, NEW c \in Inst
  PROVE  /\ Behind(c) \in SUBSET Inst
         /\ \A C \in SUBSET Inst : Succs(c) \subseteq C /\ (\A x \in C : Succs(x) \subseteq C) => Behind(c) \subseteq C
<1> DEFINE T == [S \in SUBSET Inst |-> Beyond(S)]
           grow == CHOOSE g : g = [S \in SUBSET Inst |-> IF Beyond(S) = S THEN S ELSE g[Beyond(S)]]
<1>1. \A x \in Inst : Succs(x) \in SUBSET Inst
  BY DEF Succs
<1>2. T \in [SUBSET Inst -> SUBSET Inst] /\ \A S \in SUBSET Inst : T[S] = Beyond(S)
  BY <1>1 DEF Beyond
<1>3. /\ \A S \in SUBSET Inst : S \subseteq T[S]
      /\ \A R, S \in SUBSET Inst : R \subseteq S => T[R] \subseteq T[S]
  BY <1>2 DEF Beyond
<1>4. Behind(c) = grow[Succs(c)]
  BY DEF Behind, Beyond
<1> HIDE DEF T, grow
<1>5. /\ \E g : Grows(g, Inst, T)
      /\ \A g : Grows(g, Inst, T) => \A S \in SUBSET Inst : IsLeast(g[S], S, Inst, T)
  BY <1>2, <1>3, Growing
<1>6. \A g : Grows(g, Inst, T) <=> g = [S \in SUBSET Inst |-> IF Beyond(S) = S THEN S ELSE g[Beyond(S)]]
  BY <1>2 DEF Grows
<1>7. Grows(grow, Inst, T)
  BY <1>5, <1>6 DEF grow
<1>8. IsLeast(Behind(c), Succs(c), Inst, T)
  BY <1>1, <1>4, <1>5, <1>7
<1>9. ASSUME NEW C \in SUBSET Inst, \A x \in C : Succs(x) \subseteq C PROVE T[C] = C
  <2>1. T[C] = Beyond(C)
    BY <1>2
  <2>2. Beyond(C) = C
    BY <1>9 DEF Beyond
  <2> QED
    BY <2>1, <2>2
<1> QED
  BY <1>8, <1>9 DEF IsLeast

LEMMA BehindSame == ASSUME UNCHANGED <<prog, flow>>, NEW c PROVE Behind(c)' = Behind(c)
  BY DEF Behind, Inst, InstsOf, Succs

\* What a step leaves as it is when it changes none of what it is made of.
LEMMA ReachSame ==
  ASSUME UNCHANGED <<prog, flow, ddef>>
  PROVE  /\ \A d : ReachedBy(d)' = ReachedBy(d)
         /\ \A c : Behind(c)' = Behind(c)
         /\ \A x : Succs(x)' = Succs(x)
<1>1. \A d : ReachedBy(d)' = ReachedBy(d)
  BY ReachedBySame
<1>2. \A c : Behind(c)' = Behind(c)
  BY BehindSame
<1> QED
  BY <1>1, <1>2 DEF Succs

LEMMA DuSame ==
  ASSUME UNCHANGED <<prog, duVars>>
  PROVE  /\ \A x : HasDu(x)' = HasDu(x)
         /\ \A g, x : Related(g, x)' = Related(g, x)
<1>1. Inst' = Inst /\ \A x : At(x)' = At(x)
  BY Same
<1>2. \A v : Base(v)' = Base(v)
  BY <1>1 DEF Base, Is
<1>3. \A x : Field(x)' = Field(x)
  BY <1>1, <1>2 DEF Field
<1>4. \A x : HasDu(x)' = HasDu(x)
  BY DEF HasDu, duVars
<1>5. UNCHANGED <<actSet, uses, puse>> /\ \A x, op : Is(x, op)' = Is(x, op)
  BY <1>1 DEF Is, duVars
<1>6. \A g, x : Related(g, x)' = Related(g, x)
  BY <1>1, <1>3, <1>5 DEF Related
<1> QED
  BY <1>4, <1>6

\* The pieces of a call's parameters depend on the program alone.
LEMMA ParaSame ==
  ASSUME prog' = prog
  PROVE  /\ \A c, g, v : Formal(c, g, v)' = Formal(c, g, v)
         /\ \A f, p : FpInst(f, p)' = FpInst(f, p)
<1>1. Inst' = Inst /\ (\A x : At(x)' = At(x)) /\ \A f : InstsOf(f)' = InstsOf(f)
  BY Same
<1>2. \A c, g, v : Formal(c, g, v)' = Formal(c, g, v)
  BY <1>1 DEF Formal
<1>3. \A f, p : FpInst(f, p)' = FpInst(f, p)
  BY <1>1 DEF FpInst, Is
<1> QED
  BY <1>2, <1>3

-----------------------------------------------------------------------------
(* Edges *)

LEMMA EdgesAdded ==
  ASSUME NEW new, dd' = AddEdges(new)
  PROVE  /\ \A e \in DOMAIN dd : e \in DOMAIN dd' /\ dd'[e] = dd[e]
         /\ \A t \in new : t[1] \in DOMAIN dd'
         /\ \A e \in DOMAIN dd' : e \in DOMAIN dd \/ \E t \in new : e = t[1] /\ dd'[e] = t[2]
<1>1. DOMAIN dd' = DOMAIN dd \cup {t[1] : t \in new}
  BY DEF AddEdges
<1>2. \A e \in DOMAIN dd : dd'[e] = dd[e]
  BY DEF AddEdges
<1>3. ASSUME NEW e \in DOMAIN dd', e \notin DOMAIN dd PROVE \E t \in new : e = t[1] /\ dd'[e] = t[2]
  <2>1. dd'[e] = (CHOOSE t \in new : t[1] = e)[2]
    BY <1>1, <1>3 DEF AddEdges
  <2>2. \E t \in new : t[1] = e
    BY <1>1, <1>3
  <2>3. (CHOOSE t \in new : t[1] = e) \in new /\ (CHOOSE t \in new : t[1] = e)[1] = e
    BY <2>2
  <2> QED
    BY <2>1, <2>3
<1> QED
  BY <1>1, <1>2, <1>3

IsEdge(t) ==
  /\ \E a \in {"DD", "DDCall", "DDRet"}, x, y \in Inst : t[1] = <<a, x, y>>
  /\ t[2] \in Value

LEMMA EdgesTyped ==
  ASSUME DdInv, prog' = prog, NEW new, dd' = AddEdges(new), \A t \in new : IsEdge(t)
  PROVE  DdInv'
<1>1. Inst' = Inst
  BY Same
<1>2. /\ \A e \in DOMAIN dd : e \in DOMAIN dd' /\ dd'[e] = dd[e]
      /\ \A e \in DOMAIN dd' : e \in DOMAIN dd \/ \E t \in new : e = t[1] /\ dd'[e] = t[2]
  BY EdgesAdded
<1>3. ASSUME NEW e \in DOMAIN dd' PROVE e \in {"DD", "DDCall", "DDRet"} \X Inst \X Inst /\ dd'[e] \in Value
  <2>1. CASE e \in DOMAIN dd
    BY <1>2, <2>1 DEF DdInv
  <2>2. CASE \E t \in new : e = t[1] /\ dd'[e] = t[2]
    BY <2>2 DEF IsEdge
  <2> QED
    BY <1>2, <2>1, <2>2
<1> QED
  BY <1>1, <1>3 DEF DdInv

\* What is related at x comes from a store of the callee.
LEMMA RelatedFacts ==
  ASSUME prog \in Programs, DuInv, NEW g \in Func, NEW x \in Inst, NEW t \in Related(g, x)
  PROVE  IsEdge(t) /\ \E d \in Range(actSet[g]) : t[1] = <<"DD", d, x>>
<1>1. PICK k \in DOMAIN actSet[g] :
        /\ t[1] = <<"DD", actSet[g][k], x>>
        /\ t[2] \in {At(actSet[g][k]).args[2], k[1]}
  <2>1. CASE Is(x, "gep")
    <3>1. PICK k \in {Field(x)} \cap DOMAIN actSet[g] : t = <<<<"DD", actSet[g][k], x>>, At(actSet[g][k]).args[2]>>
      BY <2>1 DEF Related
    <3>2. t[1] = <<"DD", actSet[g][k], x>> /\ t[2] = At(actSet[g][k]).args[2]
      BY <3>1
    <3> QED
      BY <3>2
  <2>2. CASE ~Is(x, "gep")
    <3>1. PICK k \in DOMAIN actSet[g] : t = <<<<"DD", actSet[g][k], x>>, k[1]>>
      BY <2>2 DEF Related
    <3>2. t[1] = <<"DD", actSet[g][k], x>> /\ t[2] = k[1]
      BY <3>1
    <3> QED
      BY <3>2
  <2> QED
    BY <2>1, <2>2
<1>2. k[1] \in Value /\ actSet[g][k] \in InstsOf(g) /\ At(actSet[g][k]).op = "store"
  BY DEF DuInv, Stored
<1>3. actSet[g][k] \in Inst /\ At(actSet[g][k]).args[2] \in Value
  BY <1>2, Body, InstFacts
<1>4. actSet[g][k] \in Range(actSet[g])
  BY DEF Range
<1> QED
  BY <1>1, <1>2, <1>3, <1>4 DEF IsEdge

-----------------------------------------------------------------------------
(* The passes over definitions and uses *)

LEMMA Position ==
  ASSUME prog \in Programs, NEW x \in Inst
  PROVE  x[2] \in Nat \ {0} /\ x[2] <= Len(prog.code[x[1]]) /\ Len(prog.code[x[1]]) \in Nat \ {0}
<1> DEFINE n == Len(prog.code[x[1]])
<1>1. x[2] \in 1 .. n /\ n \in Nat \ {0}
  BY InstFacts, Body
<1> HIDE DEF n
<1>2. x[2] \in Nat \ {0} /\ x[2] <= n
  BY <1>1
<1> QED
  BY <1>1, <1>2 DEF n

LEMMA LeastInst ==
  ASSUME prog \in Programs, NEW f \in Func, NEW S \in SUBSET InstsOf(f), S # {}
  PROVE  \E x \in S : \A y \in S : x[2] <= y[2]
<1> DEFINE T == {x[2] : x \in S}
<1>1. T \in SUBSET Nat /\ T # {}
  <2>1. \A x \in S : x[2] \in Nat
    BY Body, Position
  <2> QED
    BY <2>1
<1> HIDE DEF T
<1>2. \E m \in T : \A n \in T : <<n, m>> \notin OpToRel(<,Nat)
  BY <1>1, WFMin, NatLessThanWellFounded, Zenon
<1>3. \A m, n \in Nat : <<n, m>> \notin OpToRel(<,Nat) => m <= n
  BY DEF OpToRel
<1>4. \E m \in T : \A n \in T : m <= n
  BY <1>1, <1>2, <1>3
<1> QED
  BY <1>4 DEF T

LEMMA DirectFacts ==
  ASSUME prog \in Programs, NEW x \in Inst
  PROVE  DirectDef(x) \in SUBSET Value /\ \A v, w \in DirectDef(x) : v = w
<1>1. x \in Value /\ (At(x).op = "store" => At(x).args[2] \in Value)
  BY InstFacts
<1>2. DirectDef(x) \in {{x}, {}} \/ (At(x).op = "store" /\ DirectDef(x) = {At(x).args[2]})
  BY DEF DirectDef
<1> QED
  BY <1>1, <1>2

LEMMA DirectUseFacts ==
  ASSUME prog \in Programs, NEW f \in Func, NEW x \in InstsOf(f),
         NEW junk \in [FieldsOf(f) -> Junk]
  PROVE  /\ DirectUse(x, junk) \in SUBSET (Value \cup {None})
         /\ IsCall(x) => Range(At(x).args) \subseteq DirectUse(x, junk)
<1>1. x \in Inst /\ x[1] = f /\ Junk \subseteq Value \cup {None}
  BY OneFunction, ProgramsAssumption
<1>2. /\ At(x).args \in Seq(Value)
      /\ At(x).op = "store" => At(x).args[1] \in Value
      /\ At(x).op \in {"load", "gep"} => At(x).args[1] \in Value
  BY <1>1, InstFacts
<1>3. ASSUME Is(x, "gep") PROVE DefVal(x[1], Field(x), x[2], junk) \in Value \cup {None}
  <2>1. CASE \E y \in InstsOf(f) : Is(y, "store") /\ y[2] < x[2] /\ At(y).args[2] = FirstOf(f, Field(x))
    <3>1. PICK y \in InstsOf(f) : Is(y, "store") /\ At(y).args[2] = FirstOf(f, Field(x))
      BY <2>1
    <3>2. At(y).args[2] \in Value
      BY <3>1, Body, InstFacts DEF Is
    <3> QED
      BY <1>1, <2>1, <3>1, <3>2 DEF DefVal
  <2>2. CASE ~\E y \in InstsOf(f) : Is(y, "store") /\ y[2] < x[2] /\ At(y).args[2] = FirstOf(f, Field(x))
    <3>1. Field(x) \in FieldsOf(f)
      BY <1>3 DEF FieldsOf
    <3>2. DefVal(x[1], Field(x), x[2], junk) = junk[Field(x)]
      BY <1>1, <2>2 DEF DefVal
    <3> QED
      BY <1>1, <3>1, <3>2
  <2> QED
    BY <2>1, <2>2
<1>4. Range(At(x).args) \subseteq Value
  BY <1>2 DEF Range
<1>5. CASE At(x).op = "store"
  <2>1. DirectUse(x, junk) = {At(x).args[1]} /\ ~IsCall(x)
    BY <1>5 DEF DirectUse, IsCall, Is
  <2> QED
    BY <1>2, <1>5, <2>1
<1>6. CASE At(x).op = "gep" /\ ~IsFirst(x)
  <2>1. DirectUse(x, junk) = {At(x).args[1], DefVal(x[1], Field(x), x[2], junk)} /\ ~IsCall(x)
    BY <1>1, <1>6 DEF DirectUse, IsCall, Is
  <2> QED
    BY <1>1, <1>2, <1>3, <1>6, <2>1 DEF Is
<1>7. CASE At(x).op # "store" /\ ~(At(x).op = "gep" /\ ~IsFirst(x))
  <2>1. DirectUse(x, junk) = Range(At(x).args)
    BY <1>1, <1>7 DEF DirectUse, Is
  <2> QED
    BY <1>4, <2>1
<1> QED
  BY <1>5, <1>6, <1>7

\* The first pass over f.
LEMMA DefUseFound ==
  ASSUME prog \in Programs, prog' = prog, DuInv, phase = "intra", NEW f \in Func, GetDefUseInfo(f)
  PROVE  /\ DuInv'
         /\ ddef' = [x \in Inst |-> IF x[1] = f THEN DirectDef(x) ELSE ddef[x]]
         /\ \A x \in Inst : IF x[1] = f THEN IsCall(x) => Range(At(x).args) \subseteq uses'[x] ELSE uses'[x] = uses[x]
<1>1. PICK junk \in [FieldsOf(f) -> Junk] :
        /\ ddef' = [x \in Inst |-> IF x[1] = f THEN DirectDef(x) ELSE ddef[x]]
        /\ uses' = [x \in Inst |-> IF x[1] = f THEN DirectUse(x, junk) ELSE uses[x]]
        /\ fields' = [fields EXCEPT ![f] = [k \in FieldsOf(f) |-> DefVal(f, k, Len(prog.code[f]) + 1, junk)]]
        /\ UNCHANGED <<pdef, puse, actSet, valueSet>>
  BY DEF GetDefUseInfo
<1>2. /\ Inst' = Inst /\ \A g : InstsOf(g)' = InstsOf(g)
      /\ \A x : At(x)' = At(x)
  BY Same
<1>3. ASSUME NEW x \in Inst
      PROVE  /\ uses'[x] \in SUBSET (Value \cup {None})
             /\ IF x[1] = f THEN IsCall(x) => Range(At(x).args) \subseteq uses'[x] ELSE uses'[x] = uses[x]
  <2>1. CASE x[1] = f
    <3>1. uses'[x] = DirectUse(x, junk) /\ x \in InstsOf(f)
      BY <1>1, <2>1, OneFunction
    <3> QED
      BY <2>1, <3>1, DirectUseFacts
  <2>2. CASE x[1] # f
    BY <1>1, <2>2 DEF DuInv
  <2> QED
    BY <2>1, <2>2
<1>4. DOMAIN fields' = Func /\ \A g \in Func : Range(fields'[g]) \subseteq Value \cup {None}
  <2>1. DOMAIN fields' = Func /\ \A g \in Func \ {f} : fields'[g] = fields[g]
    BY <1>1 DEF DuInv
  <2>2. ASSUME NEW k \in FieldsOf(f) PROVE fields'[f][k] \in Value \cup {None} /\ DOMAIN fields'[f] = FieldsOf(f)
    <3>1. fields'[f] = [l \in FieldsOf(f) |-> DefVal(f, l, Len(prog.code[f]) + 1, junk)]
      BY <1>1 DEF DuInv
    <3>2. CASE \E y \in InstsOf(f) : Is(y, "store") /\ y[2] < Len(prog.code[f]) + 1 /\ At(y).args[2] = FirstOf(f, k)
      <4>1. PICK y \in InstsOf(f) : Is(y, "store") /\ At(y).args[2] = FirstOf(f, k)
        BY <3>2
      <4>2. At(y).args[2] \in Value
        BY <4>1, Body, InstFacts DEF Is
      <4> QED
        BY <3>1, <3>2, <4>1, <4>2 DEF DefVal
    <3>3. CASE ~\E y \in InstsOf(f) : Is(y, "store") /\ y[2] < Len(prog.code[f]) + 1 /\ At(y).args[2] = FirstOf(f, k)
      <4>1. fields'[f][k] = junk[k] /\ junk[k] \in Junk
        BY <3>1, <3>3 DEF DefVal
      <4>2. Junk \subseteq Value \cup {None}
        BY ProgramsAssumption
      <4> QED
        BY <3>1, <4>1, <4>2
    <3> QED
      BY <3>2, <3>3
  <2>3. Range(fields'[f]) \subseteq Value \cup {None}
    <3>1. DOMAIN fields'[f] = FieldsOf(f)
      BY <1>1 DEF DuInv
    <3> QED
      BY <2>2, <3>1 DEF Range
  <2> QED
    BY <2>1, <2>3 DEF DuInv
<1>5. \A x \in Inst : puse'[x] = {}
  BY <1>1 DEF DuInv
<1>6. uses' \in [Inst -> SUBSET (Value \cup {None})]
  BY <1>1, <1>3
<1>7. DuInv'
  <2>1. \A g \in Func : \A k \in DOMAIN actSet[g] : Stored(g, k, actSet[g][k])'
    <3> SUFFICES ASSUME NEW g \in Func, NEW k \in DOMAIN actSet[g] PROVE Stored(g, k, actSet[g][k])'
      OBVIOUS
    <3>1. Stored(g, k, actSet[g][k])
      BY DEF DuInv
    <3>2. \A x : ActKey(At(x).args[2], k[1])' = ActKey(At(x).args[2], k[1])
      BY KeySame
    <3> QED
      BY <1>1, <1>2, <3>1, <3>2 DEF Stored
  <2>2. \A x \in Inst : Is(x, "store")' => \A o \in pdef'[x] :
          IsActualPara(x[1], o)' => ActKey(At(x).args[2], o)' \in DOMAIN actSet'[x[1]]
    <3> SUFFICES ASSUME NEW x \in Inst, Is(x, "store")', NEW o \in pdef'[x], IsActualPara(x[1], o)'
                 PROVE  ActKey(At(x).args[2], o)' \in DOMAIN actSet'[x[1]]
      OBVIOUS
    <3>1. Is(x, "store") /\ IsActualPara(x[1], o) /\ ActKey(At(x).args[2], o)' = ActKey(At(x).args[2], o)
      BY KeySame
    <3> QED
      BY <1>1, <3>1 DEF DuInv
  <2> QED
    BY <1>1, <1>2, <1>4, <1>5, <1>6, <2>1, <2>2 DEF DuInv
<1> QED
  BY <1>1, <1>3, <1>7

LEMMA PtsFacts == ASSUME prog \in Programs, NEW v PROVE PtsTo(v) \in SUBSET Value
<1>1. Range(prog.pts) \subseteq SUBSET Value
  BY ProgramsAssumption
<1> QED
  BY <1>1 DEF PtsTo, Range

\* What a callee does to its callers' objects it does by stores, and the first
\* of them is known.
LEMMA ActsFound ==
  ASSUME prog \in Programs, DuInv, NEW f \in Func, NEW all, NEW W, NEW k \in DOMAIN AddActs(f, all, W)
  PROVE  /\ k[1] \in Value /\ AddActs(f, all, W)[k] \in InstsOf(f)
         /\ At(AddActs(f, all, W)[k]).op = "store"
         /\ k[1] \in pdef[AddActs(f, all, W)[k]] \cup NewDefs(AddActs(f, all, W)[k], all, W)
         /\ k = ActKey(At(AddActs(f, all, W)[k]).args[2], k[1])
<1> DEFINE new == UNION {Acts(x, all, W) : x \in InstsOf(f)}
           act == AddActs(f, all, W)
           X == {x \in InstsOf(f) : k \in Acts(x, all, W)}
           First(x) == k \in Acts(x, all, W) /\ \A y \in InstsOf(f) : k \in Acts(y, all, W) => x[2] <= y[2]
<1>1. ASSUME NEW x \in InstsOf(f), k \in Acts(x, all, W)
      PROVE  /\ k[1] \in Value /\ At(x).op = "store"
             /\ k[1] \in NewDefs(x, all, W) /\ k = ActKey(At(x).args[2], k[1])
  <2>1. PICK o \in NewDefs(x, all, W) : k = ActKey(At(x).args[2], o)
    BY <1>1 DEF Acts
  <2>2. k[1] = o
    BY <2>1 DEF ActKey
  <2>3. Is(x, "store") /\ o \in Possible(x, At(x).args[2], all, W)
    BY <2>1 DEF NewDefs
  <2>4. o \in Value
    BY <2>3, PtsFacts DEF Possible
  <2> QED
    BY <2>1, <2>2, <2>3, <2>4 DEF Is
<1>2. CASE k \in DOMAIN actSet[f]
  <2>1. AddActs(f, all, W)[k] = actSet[f][k] /\ Stored(f, k, actSet[f][k])
    BY <1>2 DEF AddActs, DuInv
  <2> QED
    BY <2>1 DEF Stored
<1>3. CASE k \notin DOMAIN actSet[f]
  <2>1. X \in SUBSET InstsOf(f) /\ X # {}
    BY <1>3 DEF AddActs
  <2>2. \E x \in InstsOf(f) : First(x)
    <3>1. PICK x \in X : \A y \in X : x[2] <= y[2]
      BY <2>1, LeastInst
    <3> QED
      BY <3>1
  <2>3. act[k] = CHOOSE x \in InstsOf(f) : First(x)
    BY <1>3 DEF AddActs
  <2> HIDE DEF act, First
  <2>4. act[k] \in InstsOf(f) /\ First(act[k])
    BY <2>2, <2>3
  <2>5. k \in Acts(act[k], all, W)
    BY <2>4 DEF First
  <2> QED
    BY <1>1, <2>4, <2>5 DEF act
<1> QED
  BY <1>2, <1>3

LEMMA NewFacts ==
  ASSUME prog \in Programs, DuInv, NEW x \in Inst, NEW all, NEW W
  PROVE  /\ NewDefs(x, all, W) \in SUBSET Value
         /\ NewUses(x, all, W) \in SUBSET (Value \cup {None})
<1>1. \A v : Possible(x, v, all, W) \in SUBSET Value
  BY PtsFacts DEF Possible
<1>2. \A k \in DOMAIN fields[x[1]] : fields[x[1]][k] \in Value \cup {None}
  BY InstFacts DEF DuInv, Range
<1>3. NewUses(x, all, W) \in SUBSET (Value \cup {None})
  <2>1. {fields[x[1]][k] : k \in {l \in DOMAIN fields[x[1]] : l[1] = At(x).args[1]}} \in SUBSET (Value \cup {None})
    BY <1>2
  <2> QED
    BY <1>1, <2>1 DEF NewUses
<1> QED
  BY <1>1, <1>3 DEF NewDefs

\* The second pass over f.
LEMMA PossibleFound ==
  ASSUME prog \in Programs, UNCHANGED <<prog, phase>>, DuInv, phase # "intra", NEW f \in Func, NEW all \in BOOLEAN,
         GetPDefUseInfo(f, all)
  PROVE  /\ DuInv' /\ ddef' = ddef
         /\ \A x \in Inst : uses[x] \subseteq uses'[x]
<1>1. /\ Inst' = Inst /\ \A g : InstsOf(g)' = InstsOf(g)
      /\ \A x : At(x)' = At(x)
  BY Same
<1>2. /\ uses' = [x \in Inst |-> uses[x] \cup IF x[1] = f THEN NewUses(x, all, valueSet) ELSE {}]
      /\ puse' = [x \in Inst |-> puse[x] \cup IF x[1] = f THEN NewUses(x, all, valueSet) ELSE {}]
      /\ pdef' = [x \in Inst |-> pdef[x] \cup IF x[1] = f THEN NewDefs(x, all, valueSet) ELSE {}]
      /\ actSet' = [actSet EXCEPT ![f] = AddActs(f, all, valueSet)]
      /\ valueSet' = IF all THEN valueSet
                     ELSE valueSet \cup {x \in InstsOf(f) : At(x).op \notin {"store", "br", "ret"}}
      /\ UNCHANGED <<ddef, fields>>
  BY DEF GetPDefUseInfo
<1>3. ASSUME NEW x \in Inst
      PROVE  /\ uses'[x] \in SUBSET (Value \cup {None}) /\ puse'[x] \in SUBSET (Value \cup {None})
             /\ pdef'[x] \in SUBSET Value /\ puse'[x] \subseteq uses'[x] /\ uses[x] \subseteq uses'[x]
  <2>1. NewDefs(x, all, valueSet) \in SUBSET Value /\ NewUses(x, all, valueSet) \in SUBSET (Value \cup {None})
    BY NewFacts
  <2>2. uses[x] \in SUBSET (Value \cup {None}) /\ puse[x] \subseteq uses[x] /\ pdef[x] \in SUBSET Value
    BY DEF DuInv
  <2> QED
    BY <1>2, <2>1, <2>2
<1>4. uses' \in [Inst -> SUBSET (Value \cup {None})] /\ puse' \in [Inst -> SUBSET (Value \cup {None})]
      /\ pdef' \in [Inst -> SUBSET Value]
  BY <1>2, <1>3
<1>5. /\ DOMAIN actSet' = Func
      /\ \A g \in Func : \A k \in DOMAIN actSet'[g] :
           Stored(g, k, actSet[g][k])'
  <2>1. DOMAIN actSet' = Func /\ actSet'[f] = AddActs(f, all, valueSet) /\ \A g \in Func \ {f} : actSet'[g] = actSet[g]
    BY <1>2 DEF DuInv
  <2>2. ASSUME NEW k \in DOMAIN actSet'[f] PROVE Stored(f, k, actSet[f][k])'
    <3>1. PICK x : x = AddActs(f, all, valueSet)[k]
      OBVIOUS
    <3>2. /\ k[1] \in Value /\ x \in InstsOf(f) /\ At(x).op = "store"
          /\ k[1] \in pdef[x] \cup NewDefs(x, all, valueSet) /\ k = ActKey(At(x).args[2], k[1])
      BY <2>1, <3>1, ActsFound
    <3>3. x \in Inst /\ x[1] = f
      BY <3>2, OneFunction
    <3>4. k[1] \in pdef'[x]
      BY <1>2, <3>2, <3>3
    <3>5. ActKey(At(x).args[2], k[1])' = ActKey(At(x).args[2], k[1])
      BY KeySame
    <3>6. actSet'[f][k] = x
      BY <2>1, <3>1
    <3> QED
      BY <1>1, <3>2, <3>4, <3>5, <3>6 DEF Stored
  <2>3. ASSUME NEW g \in Func \ {f}, NEW k \in DOMAIN actSet'[g] PROVE Stored(g, k, actSet[g][k])'
    <3>1. Stored(g, k, actSet[g][k]) /\ actSet'[g] = actSet[g]
      BY <2>1 DEF DuInv
    <3>2. actSet[g][k] \in Inst /\ pdef[actSet[g][k]] \subseteq pdef'[actSet[g][k]]
      BY <1>2, <3>1, OneFunction DEF Stored
    <3>3. ActKey(At(actSet[g][k]).args[2], k[1])' = ActKey(At(actSet[g][k]).args[2], k[1])
      <4>1. PICK x : x = actSet[g][k]
        OBVIOUS
      <4>2. ActKey(At(x).args[2], k[1])' = ActKey(At(x).args[2], k[1]) /\ actSet'[g][k] = x
        BY <3>1, <4>1, KeySame
      <4> QED
        BY <1>1, <3>1, <4>1, <4>2 DEF ActKey
    <3> QED
      BY <1>1, <3>1, <3>2, <3>3 DEF Stored
  <2> QED
    BY <2>1, <2>2, <2>3
<1>8. ASSUME NEW x \in Inst, Is(x, "store"), NEW o \in pdef'[x], IsActualPara(x[1], o)
      PROVE  ActKey(At(x).args[2], o) \in DOMAIN actSet'[x[1]]
  <2>1. x[1] \in Func /\ x \in InstsOf(x[1])
    BY InstFacts
  <2>2. CASE o \in pdef[x]
    <3>1. ActKey(At(x).args[2], o) \in DOMAIN actSet[x[1]]
      BY <1>8, <2>2 DEF DuInv
    <3>2. CASE x[1] = f
      BY <1>2, <3>1, <3>2 DEF AddActs, DuInv
    <3>3. CASE x[1] # f
      BY <1>2, <2>1, <3>1, <3>3 DEF DuInv
    <3> QED
      BY <3>2, <3>3
  <2>3. CASE o \notin pdef[x]
    <3>1. x[1] = f /\ o \in NewDefs(x, all, valueSet)
      BY <1>2, <1>8, <2>3
    <3>2. ActKey(At(x).args[2], o) \in Acts(x, all, valueSet)
      BY <1>8, <3>1 DEF Acts
    <3>3. ActKey(At(x).args[2], o) \in DOMAIN AddActs(f, all, valueSet)
      BY <2>1, <3>1, <3>2 DEF AddActs
    <3> QED
      BY <1>2, <3>1, <3>3 DEF DuInv
  <2> QED
    BY <2>2, <2>3
<1>6. valueSet' \subseteq Inst
  BY <1>2, Body DEF DuInv
<1>7. DuInv'
  <2>1. \A x \in Inst : Is(x, "store")' => \A o \in pdef'[x] :
          IsActualPara(x[1], o)' => ActKey(At(x).args[2], o)' \in DOMAIN actSet'[x[1]]
    <3> SUFFICES ASSUME NEW x \in Inst, Is(x, "store")', NEW o \in pdef'[x], IsActualPara(x[1], o)'
                 PROVE  ActKey(At(x).args[2], o)' \in DOMAIN actSet'[x[1]]
      OBVIOUS
    <3>1. Is(x, "store") /\ IsActualPara(x[1], o) /\ ActKey(At(x).args[2], o)' = ActKey(At(x).args[2], o)
      BY KeySame
    <3> QED
      BY <1>8, <3>1
  <2> QED
    BY <1>1, <1>2, <1>3, <1>4, <1>5, <1>6, <2>1 DEF DuInv
<1> QED
  BY <1>2, <1>3, <1>7

-----------------------------------------------------------------------------
(* What holds when little changes *)

LEMMA WhereSame ==
  ASSUME UNCHANGED <<phase, order, at>>
  PROVE  \A f : Analysed(f)' = Analysed(f) /\ Built(f)' = Built(f)
BY DEF Analysed, Built

LEMMA DuKept ==
  ASSUME DuInv, UNCHANGED <<prog, pdef, uses, puse, fields, actSet>>, valueSet' \subseteq Inst,
         phase' = "intra" => phase = "intra"
  PROVE  DuInv'
<1>1. Inst' = Inst /\ (\A f : InstsOf(f)' = InstsOf(f)) /\ \A x : At(x)' = At(x)
  BY Same
<1>3. \A f, k, x : Stored(f, k, x)' = Stored(f, k, x)
  <2> SUFFICES ASSUME NEW f, NEW k, NEW x PROVE Stored(f, k, x)' = Stored(f, k, x)
    OBVIOUS
  <2>1. ActKey(At(x).args[2], k[1])' = ActKey(At(x).args[2], k[1])
    BY KeySame
  <2> QED
    BY <1>1, <2>1 DEF Stored
<1>4. \A x \in Inst : Is(x, "store") => \A o \in pdef[x] :
        IsActualPara(x[1], o)' => ActKey(At(x).args[2], o)' \in DOMAIN actSet[x[1]]
  <2> SUFFICES ASSUME NEW x \in Inst, Is(x, "store"), NEW o \in pdef[x], IsActualPara(x[1], o)'
               PROVE  ActKey(At(x).args[2], o)' \in DOMAIN actSet[x[1]]
    OBVIOUS
  <2>1. IsActualPara(x[1], o) /\ ActKey(At(x).args[2], o)' = ActKey(At(x).args[2], o)
    BY KeySame
  <2> QED
    BY <2>1 DEF DuInv
<1>5. \A f \in Func : \A k \in DOMAIN actSet[f] : Stored(f, k, actSet[f][k])'
  BY <1>3 DEF DuInv
<1> QED
  BY <1>1, <1>4, <1>5, KeySame DEF DuInv

LEMMA DuFrame ==
  ASSUME DuInv, UNCHANGED <<prog, duVars>>, phase' = "intra" => phase = "intra"
  PROVE  DuInv'
<1>1. valueSet' \subseteq Inst
  BY DEF DuInv, duVars
<1> QED
  BY <1>1, DuKept DEF duVars

LEMMA CfgFrame ==
  ASSUME CfgInv, UNCHANGED <<prog, ddef, cfgVars>>, phase' = "intra" => phase = "intra",
         \A f \in Func : Analysed(f)' = Analysed(f) /\ Built(f)' = Built(f),
         prog \in Programs, \A x \in Inst : uses[x] \subseteq uses'[x]
  PROVE  CfgInv'
<1>1. /\ Inst' = Inst /\ CallPairs' = CallPairs
      /\ \A f : InstsOf(f)' = InstsOf(f) /\ FlowOf(f)' = FlowOf(f)
      /\ \A x : At(x)' = At(x) /\ IsCall(x)' = IsCall(x) /\ DirectDef(x)' = DirectDef(x)
  BY Same
<1>2. \A f : IdsOf(f, ddef)' = IdsOf(f, ddef)
  BY <1>1 DEF IdsOf
<1>3. UNCHANGED <<flow, calls, rets, dummy, exit, ids>>
  BY DEF cfgVars
<1>4. \A x \in Inst : x[1] \in Func
  BY InstFacts
<1>5. ddef' = [x \in Inst' |-> IF Analysed(x[1])' THEN DirectDef(x)' ELSE {}]
  BY <1>1, <1>4 DEF CfgInv
<1>6. flow' = UNION {FlowOf(f)' : f \in {g \in Func : Analysed(g)'}}
  BY <1>1, <1>3 DEF CfgInv
<1>7. \A c \in Inst : IsCall(c) /\ Analysed(c[1])' => Range(At(c).args) \subseteq uses'[c]
  BY <1>4 DEF CfgInv
<1>8. \A f \in Func : ids'[f] = IF Analysed(f)' /\ ~Built(f)' THEN IdsOf(f, ddef)' ELSE <<>>
  BY <1>2, <1>3 DEF CfgInv
<1> QED
  BY <1>1, <1>3, <1>5, <1>6, <1>7, <1>8 DEF CfgInv

\* In the phases before and after the one that fills them, the sets say nothing.
LEMMA SoundFrame ==
  ASSUME SoundInv, UNCHANGED <<prog, in, out>>, phase' # "reach",
         phase' \in {"intra", "pts"} => phase \in {"intra", "pts"}
  PROVE  SoundInv' /\ FoundInv'
<1>1. Inst' = Inst
  BY Same
<1> QED
  BY <1>1 DEF SoundInv, FoundInv

\* Edges are only added.
LEMMA DepsFrame ==
  ASSUME DepsInv, UNCHANGED <<prog, flow, ddef, uses>>, phase' \in {"acts", "done"}, ~IntraDone',
         prog \in Programs, \A f \in Func : Built(f), \A e \in DOMAIN dd : e \in DOMAIN dd' /\ dd'[e] = dd[e]
  PROVE  DepsInv'
<1>1. Inst' = Inst /\ (\A d : ReachedBy(d)' = ReachedBy(d)) /\ \A x \in Inst : x[1] \in Func
  BY Same, ReachSame, InstFacts
<1>2. ASSUME NEW d \in Inst PROVE ~Missing(d)'
  <2>1. ~Missing(d)
    BY <1>1 DEF DepsInv
  <2> QED
    BY <1>1, <2>1 DEF Missing
<1> QED
  BY <1>1, <1>2 DEF DepsInv

LEMMA CallsFrame ==
  ASSUME CallsInv, UNCHANGED <<prog, duVars, flow>>, phase \in {"acts", "done"},
         \A e \in DOMAIN dd : e \in DOMAIN dd',
         NEW p \in CallPairs \ (todo \cup more \cup {cur})
  PROVE  /\ Callers(p[1][1])' = {} => \A x \in Behind(p[1])' : StoresReach(p[2], x)'
         /\ ActualsPassed(p)'
<1>1. /\ Inst' = Inst /\ (\A f : Callers(f)' = Callers(f)) /\ \A x : At(x)' = At(x)
      /\ (\A c : Behind(c)' = Behind(c)) /\ \A d : ReachedBy(d)' = ReachedBy(d)
  BY Same, ReachSame DEF duVars
<1>2. \A g, x : Related(g, x)' = Related(g, x)
  BY DuSame
<1>3. \A g, x : StoresReach(g, x) => StoresReach(g, x)'
  BY <1>2 DEF StoresReach, duVars
<1>4. (\A c, g, v : Formal(c, g, v)' = Formal(c, g, v)) /\ \A f, q : FpInst(f, q)' = FpInst(f, q)
  BY ParaSame
<1>5. ActualsPassed(p) => ActualsPassed(p)'
  BY <1>1, <1>4 DEF ActualsPassed, duVars
<1> QED
  BY <1>1, <1>3, <1>5 DEF CallsInv

-----------------------------------------------------------------------------
(* The initial states *)

LEMMA InitHolds == Init => IInv
<1> SUFFICES ASSUME Init PROVE IInv
  OBVIOUS
<1>0. /\ prog \in Programs /\ order \in Orders /\ phase = "intra" /\ at = 1 /\ walk = prog.paths
      /\ flow = {} /\ calls = {} /\ rets = {} /\ dummy = {}
      /\ exit = [f \in Func |-> <<f, 1>>] /\ ids = [f \in Func |-> <<>>]
      /\ pos = 1 /\ change = FALSE
      /\ in = [x \in Inst |-> {}] /\ out = [x \in Inst |-> {}]
      /\ todo = {} /\ more = {} /\ cur = <<>> /\ queue = <<>> /\ seen = {} /\ dd = <<>>
      /\ ddef = [x \in Inst |-> {}] /\ pdef = [x \in Inst |-> {}]
      /\ uses = [x \in Inst |-> {}] /\ puse = [x \in Inst |-> {}]
      /\ fields = [f \in Func |-> <<>>] /\ actSet = [f \in Func |-> <<>>] /\ valueSet = {}
  BY DEF Init, DuInit
<1>1. /\ Len(order) \in Nat /\ DOMAIN order = 1 .. Len(order)
      /\ \A f \in Func : ~Analysed(f)
      /\ \A f \in Func : ~Built(f)
  BY <1>0, OrderFacts DEF Analysed, Built
<1>2. \A x \in Inst : x[1] \in Func
  BY <1>0, InstFacts
<1>3. DOMAIN dd = {}
  BY <1>0
<1>4. PhaseInv
  <2>1. walk \in Seq(Seq(Func))
    BY <1>0, ProgramsAssumption
  <2>2. at \in Nat \ {0} /\ pos \in Nat \ {0} /\ at <= Len(order) + 1
    BY <1>0, <1>1
  <2>3. change \in BOOLEAN /\ ~change
    BY <1>0
  <2> QED
    BY <1>0, <2>1, <2>2, <2>3 DEF PhaseInv
<1>5. DuInv
  BY <1>0 DEF DuInv, Range
<1>6. CfgInv
  <2>1. ddef = [x \in Inst |-> IF Analysed(x[1]) THEN DirectDef(x) ELSE {}]
    BY <1>0, <1>1, <1>2
  <2>2. \A f \in Func : exit[f] \in InstsOf(f)
    BY <1>0, Body
  <2>3. \A f \in Func : ids[f] = IF Analysed(f) /\ ~Built(f) THEN IdsOf(f, ddef) ELSE <<>>
    BY <1>0, <1>1
  <2>4. flow = UNION {FlowOf(f) : f \in {g \in Func : Analysed(g)}}
    BY <1>0, <1>1
  <2>5. \A c \in Inst : ~Analysed(c[1])
    BY <1>1, <1>2
  <2> QED
    BY <1>0, <2>1, <2>2, <2>3, <2>4, <2>5 DEF CfgInv
<1>7. SoundInv
  BY <1>0 DEF SoundInv
<1>8. FoundInv /\ DepsInv
  <2>1. \A d \in Inst : ~Built(d[1])
    BY <1>1, <1>2
  <2> QED
    BY <1>0, <1>3, <2>1 DEF FoundInv, DepsInv, IntraDone
<1>9. DdInv
  BY <1>3 DEF DdInv
<1>10. InterInv
  BY <1>0 DEF InterInv
<1>11. SearchInv /\ CallsInv
  BY <1>0 DEF SearchInv, CallsInv
<1> QED
  BY <1>4, <1>5, <1>6, <1>7, <1>8, <1>9, <1>10, <1>11 DEF IInv

-----------------------------------------------------------------------------
(* The functions one by one *)

LEMMA IdsSame ==
  ASSUME prog \in Programs, prog' = prog, NEW f \in Func, \A x \in InstsOf(f) : ddef'[x] = ddef[x]
  PROVE  IdsOf(f, ddef)' = IdsOf(f, ddef)
<1> DEFINE D == {x \in InstsOf(f) : ddef[x] # {}}
           s == InOrder(D)
<1>1. InstsOf(f)' = InstsOf(f)
  BY Same
<1>2. {x \in InstsOf(f) : ddef'[x] # {}} = D
  OBVIOUS
<1>3. \A k \in DOMAIN s : s[k] \in InstsOf(f)
  BY InOrderOfBody DEF ToSet
<1>4. IdsOf(f, ddef)' = [k \in DOMAIN s |-> [val |-> CHOOSE v \in ddef'[s[k]] : TRUE, inst |-> s[k]]]
  BY <1>1, <1>2 DEF IdsOf
<1>5. IdsOf(f, ddef) = [k \in DOMAIN s |-> [val |-> CHOOSE v \in ddef[s[k]] : TRUE, inst |-> s[k]]]
  BY DEF IdsOf
<1> HIDE DEF s
<1> QED
  BY <1>3, <1>4, <1>5

LEMMA IntraCfg == IInv /\ BuildIntraCfg => IInv'
<1> SUFFICES ASSUME IInv, BuildIntraCfg PROVE IInv'
  OBVIOUS
<1>0. PICK f : f = order[at]
  OBVIOUS
<1>1. /\ phase = "intra" /\ at <= Len(order) /\ GetDefUseInfo(f) /\ flow' = flow \cup FlowOf(f)
      /\ at' = at + 1
      /\ UNCHANGED <<prog, phase, order, walk, calls, rets, dummy, rdVars, interVars, dd>>
  BY <1>0 DEF BuildIntraCfg
<1>2. PICK x \in Ends(f) : exit' = [exit EXCEPT ![f] = x]
  BY <1>0 DEF BuildIntraCfg
<1>3. ids' = [ids EXCEPT ![f] = IdsOf(f, ddef)']
  <2>1. IdsOf(f, ddef)' = IdsOf(f, ddef')
    <3>1. InstsOf(f)' = InstsOf(f)
      BY <1>1, Same
    <3> QED
      BY <3>1 DEF IdsOf
  <2> QED
    BY <1>0, <2>1 DEF BuildIntraCfg
<1>4. PhaseInv /\ DuInv /\ CfgInv /\ SoundInv /\ FoundInv /\ DepsInv /\ DdInv /\ InterInv
  BY DEF IInv
<1>5. prog \in Programs /\ order \in Orders /\ at \in Nat \ {0}
  BY <1>4 DEF PhaseInv
<1>6. /\ Inst' = Inst /\ CallPairs' = CallPairs /\ Left' = Left
      /\ \A g : InstsOf(g)' = InstsOf(g) /\ FlowOf(g)' = FlowOf(g)
      /\ \A y : At(y)' = At(y) /\ IsCall(y)' = IsCall(y) /\ DirectDef(y)' = DirectDef(y)
  BY <1>1, Same
<1>7. f \in Func /\ at \in DOMAIN order /\ Len(order) \in Nat
      /\ \A i, j \in DOMAIN order : order[i] = order[j] => i = j
  BY <1>0, <1>1, <1>5, OrderFacts
<1>8. \A y \in Inst : y[1] \in Func
  BY <1>5, InstFacts
<1>9. /\ \A g \in Func : Analysed(g)' <=> Analysed(g) \/ g = f
      /\ ~Analysed(f)
      /\ \A g \in Func : ~Built(g) /\ ~Built(g)'
  <2>1. \A i \in DOMAIN order : i \in Nat
    BY <1>5, OrderFacts
  <2>2. \A i \in DOMAIN order : i < at + 1 <=> i < at \/ i = at
    BY <1>5, <2>1
  <2>3. \A g \in Func : Analysed(g)' <=> Analysed(g) \/ g = f
    BY <1>0, <1>1, <1>7, <2>2 DEF Analysed
  <2>4. ~Analysed(f)
    BY <1>0, <1>1, <1>5, <1>7 DEF Analysed
  <2> QED
    BY <1>1, <2>3, <2>4 DEF Built
<1>10. /\ DuInv'
       /\ ddef' = [y \in Inst |-> IF y[1] = f THEN DirectDef(y) ELSE ddef[y]]
       /\ \A y \in Inst : IF y[1] = f THEN IsCall(y) => Range(At(y).args) \subseteq uses'[y] ELSE uses'[y] = uses[y]
  BY <1>1, <1>4, <1>5, <1>7, DefUseFound
<1>11. PhaseInv'
  <2>1. at' \in Nat \ {0} /\ at' <= Len(order) + 1
    BY <1>1, <1>5, <1>7
  <2> QED
    BY <1>1, <1>4, <2>1 DEF PhaseInv, rdVars
<1>12. CfgInv'
  <2>1. ddef' = [y \in Inst' |-> IF Analysed(y[1])' THEN DirectDef(y)' ELSE {}]
    <3>1. ddef = [y \in Inst |-> IF Analysed(y[1]) THEN DirectDef(y) ELSE {}]
      BY <1>4 DEF CfgInv
    <3> QED
      BY <1>6, <1>8, <1>9, <1>10, <3>1
  <2>2. \A c \in Inst : IsCall(c) /\ Analysed(c[1])' => Range(At(c).args) \subseteq uses'[c]
    BY <1>4, <1>8, <1>9, <1>10 DEF CfgInv
  <2>3. flow' = UNION {FlowOf(g)' : g \in {h \in Func : Analysed(h)'}}
    <3>1. flow = UNION {FlowOf(g) : g \in {h \in Func : Analysed(h)}}
      BY <1>4 DEF CfgInv
    <3> QED
      BY <1>1, <1>6, <1>7, <1>9, <3>1
  <2>4. DOMAIN exit' = Func /\ \A g \in Func : exit'[g] \in InstsOf(g)
    BY <1>2, <1>4 DEF CfgInv, Ends
  <2>5. DOMAIN ids' = Func /\ \A g \in Func : ids'[g] = IF Analysed(g)' /\ ~Built(g)' THEN IdsOf(g, ddef)' ELSE <<>>
    <3>1. ASSUME NEW g \in Func, g # f PROVE IdsOf(g, ddef)' = IdsOf(g, ddef)
      <4>1. \A y \in InstsOf(g) : y \in Inst /\ y[1] = g
        BY <1>5, OneFunction
      <4>2. \A y \in InstsOf(g) : ddef'[y] = ddef[y]
        BY <1>10, <3>1, <4>1
      <4> QED
        BY <1>1, <1>5, <4>2, IdsSame
    <3>2. DOMAIN ids' = Func /\ ids'[f] = IdsOf(f, ddef)' /\ \A g \in Func \ {f} : ids'[g] = ids[g]
      BY <1>3, <1>4, <1>7 DEF CfgInv
    <3>3. \A g \in Func : ids[g] = IF Analysed(g) /\ ~Built(g) THEN IdsOf(g, ddef) ELSE <<>>
      BY <1>4 DEF CfgInv
    <3> QED
      BY <1>9, <3>1, <3>2, <3>3
  <2> QED
    BY <1>1, <1>4, <1>6, <2>1, <2>2, <2>3, <2>4, <2>5 DEF CfgInv
<1>13. SoundInv' /\ FoundInv'
  BY <1>1, <1>4, <1>6, SoundFrame DEF SoundInv, FoundInv, rdVars
<1>14. DepsInv'
  BY <1>1, <1>4, <1>6, <1>8, <1>9 DEF DepsInv, IntraDone
<1>15. DdInv' /\ InterInv' /\ SearchInv' /\ CallsInv'
  BY <1>1, <1>4, <1>6 DEF DdInv, InterInv, SearchInv, CallsInv, interVars
<1> QED
  BY <1>10, <1>11, <1>12, <1>13, <1>14, <1>15 DEF IInv

LEMMA NoExitHolds == IInv /\ NoExitNode => IInv'
<1> SUFFICES ASSUME IInv, NoExitNode PROVE IInv'
  OBVIOUS
<1>1. /\ phase = "intra" /\ at <= Len(order) /\ phase' = "aborted"
      /\ UNCHANGED <<prog, duVars, order, at, walk, cfgVars, rdVars, interVars, dd>>
  BY DEF NoExitNode
<1>2. PhaseInv /\ DuInv /\ CfgInv /\ SoundInv /\ DepsInv /\ DdInv /\ InterInv
  BY DEF IInv
<1>3. prog \in Programs /\ order \in Orders /\ at \in Nat \ {0} /\ Len(order) \in Nat
  BY <1>2, OrderFacts DEF PhaseInv
<1>4. /\ Inst' = Inst /\ CallPairs' = CallPairs /\ \A x \in Inst : x[1] \in Func
  BY <1>1, <1>3, Same, InstFacts
<1>5. \A g \in Func : /\ Analysed(g)' = Analysed(g) /\ Built(g)' = Built(g)
                      /\ ~Built(g)'
  BY <1>1 DEF Analysed, Built
<1>6. PhaseInv'
  <2>1. at <= Len(order) + 1
    BY <1>1, <1>3
  <2> QED
    BY <1>1, <1>2, <2>1 DEF PhaseInv, rdVars
<1>7. DuInv'
  BY <1>1, <1>2, DuFrame
<1>8. CfgInv'
  BY <1>1, <1>2, <1>3, <1>5, CfgFrame DEF duVars
<1>9. SoundInv' /\ FoundInv'
  BY <1>1, <1>2, SoundFrame DEF rdVars
<1>10. DepsInv'
  BY <1>1, <1>4, <1>5 DEF DepsInv, IntraDone
<1>11. DdInv' /\ InterInv' /\ SearchInv' /\ CallsInv'
  BY <1>1, <1>2, <1>4 DEF DdInv, InterInv, SearchInv, CallsInv, interVars
<1> QED
  BY <1>6, <1>7, <1>8, <1>9, <1>10, <1>11 DEF IInv

LEMMA AllAnalysed ==
  ASSUME order \in Orders, at \in Nat, phase \notin {"intra", "aborted"} \/ at > Len(order), NEW f \in Func
  PROVE  Analysed(f)
<1>1. PICK i \in DOMAIN order : order[i] = f
  BY OrderFacts
<1>2. i \in 1 .. Len(order) /\ Len(order) \in Nat
  BY OrderFacts
<1>3. phase \in {"intra", "aborted"} => i < at
  BY <1>2
<1> QED
  BY <1>1, <1>3 DEF Analysed

LEMMA InterCfg == IInv /\ BuildInterCfg => IInv'
<1> SUFFICES ASSUME IInv, BuildInterCfg PROVE IInv'
  OBVIOUS
<1> DEFINE next == [c \in {p[1] : p \in CallPairs} |-> CHOOSE y \in Inst : <<c, y>> \in flow]
           ret == {<<exit[p[2]], next[p[1]]>> : p \in CallPairs}
<1>1. /\ phase = "intra" /\ at > Len(order)
      /\ calls' = {<<p[1], <<p[2], 1>>>> : p \in CallPairs}
      /\ rets' = ret /\ dummy' \subseteq DOMAIN next
      /\ phase' = "pts"
      /\ UNCHANGED <<prog, duVars, order, at, walk, flow, exit, ids, rdVars, interVars, dd>>
  BY DEF BuildInterCfg
<1>2. PhaseInv /\ DuInv /\ CfgInv /\ SoundInv /\ FoundInv /\ DepsInv /\ DdInv /\ InterInv
  BY DEF IInv
<1>3. prog \in Programs /\ order \in Orders /\ at \in Nat \ {0} /\ Len(order) \in Nat /\ Len(order) = Cardinality(Func)
  BY <1>2, OrderFacts DEF PhaseInv
<1>4. /\ Inst' = Inst /\ CallPairs' = CallPairs /\ Left' = Left
      /\ \A g : InstsOf(g)' = InstsOf(g) /\ FlowOf(g)' = FlowOf(g)
      /\ \A y : At(y)' = At(y) /\ IsCall(y)' = IsCall(y) /\ DirectDef(y)' = DirectDef(y)
  BY <1>1, Same
<1>5. \A g \in Func : Analysed(g) /\ Analysed(g)' /\ ~Built(g) /\ ~Built(g)'
  <2>1. \A g \in Func : Analysed(g) /\ ~Built(g)
    BY <1>1, <1>3, AllAnalysed DEF Built
  <2> QED
    BY <1>1, <2>1 DEF Analysed, Built
<1>6. PhaseInv'
  <2>1. at <= Len(order) + Cardinality(Left) + 1
    BY <1>1, <1>2, <1>3, LeftFacts DEF PhaseInv
  <2> QED
    BY <1>1, <1>2, <1>4, <2>1 DEF PhaseInv, rdVars
<1>7. DuInv'
  BY <1>1, <1>2, DuFrame
<1>8. \A y \in Inst : y[1] \in Func
  BY <1>3, InstFacts
<1>9. ASSUME NEW p \in CallPairs PROVE p[1] \in Inst /\ p[2] \in Func /\ next[p[1]] \in InstsOf(p[1][1])
  <2>1. p[1] \in Inst /\ p[2] \in Func /\ IsCall(p[1]) /\ p[1][1] \in Func
    BY <1>3, CallPairFacts
  <2>2. PICK y \in InstsOf(p[1][1]) : <<p[1], y>> \in FlowOf(p[1][1])
    BY <1>3, <2>1, InstFacts
  <2>3. <<p[1], y>> \in flow /\ y \in Inst
    <3>1. y \in Inst
      BY <1>3, <2>1, Body
    <3>2. flow = UNION {FlowOf(f) : f \in {g \in Func : Analysed(g)}}
      BY <1>2 DEF CfgInv
    <3> QED
      BY <1>5, <2>1, <2>2, <3>1, <3>2
  <2>4. next[p[1]] \in Inst /\ <<p[1], next[p[1]]>> \in flow
    BY <2>3
  <2> HIDE DEF next
  <2>5. next[p[1]] \in Succs(p[1])
    <3>1. <<p[1], next[p[1]]>>[1] = p[1] /\ <<p[1], next[p[1]]>>[2] = next[p[1]]
      OBVIOUS
    <3> QED
      BY <2>4, <3>1 DEF Succs
  <2> QED
    BY <1>2, <1>3, <2>1, <2>5, FlowFacts DEF CfgInv
<1> HIDE DEF next
<1>10. CfgInv'
  <2>1. calls' \subseteq Inst \X Inst /\ \A e \in calls' : e[2][2] = 1
    BY <1>1, <1>3, <1>9, Body
  <2>2. rets' \subseteq Inst \X Inst
    <3>1. \A p \in CallPairs : exit[p[2]] \in Inst /\ next[p[1]] \in Inst
      BY <1>2, <1>3, <1>8, <1>9, Body DEF CfgInv
    <3> QED
      BY <1>1, <3>1
  <2>3. \A e \in rets' : \E p \in CallPairs : e[1] = exit[p[2]] /\ e[2] \in InstsOf(p[1][1])
    BY <1>1, <1>9
  <2>4. dummy' \subseteq Inst
    <3>1. DOMAIN next = {p[1] : p \in CallPairs}
      BY DEF next
    <3> QED
      BY <1>1, <1>9, <3>1
  <2>5. \A f \in Func : IdsOf(f, ddef)' = IdsOf(f, ddef)
    BY <1>1, <1>4 DEF IdsOf, duVars
  <2>6. \A f \in Func : ids'[f] = IF Analysed(f)' /\ ~Built(f)' THEN IdsOf(f, ddef)' ELSE <<>>
    BY <1>1, <1>2, <1>5, <2>5 DEF CfgInv
  <2>7. ddef' = [x \in Inst' |-> IF Analysed(x[1])' THEN DirectDef(x)' ELSE {}]
    BY <1>1, <1>2, <1>4, <1>5, <1>8 DEF CfgInv, duVars
  <2>8. flow' = UNION {FlowOf(f)' : f \in {g \in Func : Analysed(g)'}}
    BY <1>1, <1>2, <1>4, <1>5 DEF CfgInv
  <2>9. \A c \in Inst : IsCall(c) /\ Analysed(c[1])' => Range(At(c).args) \subseteq uses'[c]
    BY <1>1, <1>2, <1>5, <1>8 DEF CfgInv, duVars
  <2> QED
    BY <1>1, <1>2, <1>4, <2>1, <2>2, <2>3, <2>4, <2>6, <2>7, <2>8, <2>9 DEF CfgInv
<1>11. SoundInv' /\ FoundInv'
  BY <1>1, <1>2, SoundFrame DEF rdVars
<1>12. DepsInv'
  BY <1>1, <1>2, <1>4, <1>5, <1>8 DEF DepsInv, IntraDone
<1>13. DdInv' /\ InterInv' /\ SearchInv' /\ CallsInv'
  BY <1>1, <1>2, <1>4 DEF DdInv, InterInv, SearchInv, CallsInv, interVars
<1> QED
  BY <1>6, <1>7, <1>10, <1>11, <1>12, <1>13 DEF IInv

\* The second passes, in the order of the paths and then of the functions left.
LEMMA Pass ==
  ASSUME IInv, PhaseInv', NEW f \in Func, NEW all \in BOOLEAN, GetPDefUseInfo(f, all), phase = "pts",
         UNCHANGED <<prog, phase, order, cfgVars, rdVars, interVars, dd>>
  PROVE  IInv'
<1>1. PhaseInv /\ DuInv /\ CfgInv /\ SoundInv /\ DepsInv /\ DdInv /\ InterInv
  BY DEF IInv
<1>2. prog \in Programs /\ order \in Orders /\ at \in Nat /\ at' \in Nat
  BY <1>1 DEF PhaseInv
<1>3. DuInv' /\ ddef' = ddef /\ \A x \in Inst : uses[x] \subseteq uses'[x]
  BY <1>1, <1>2, PossibleFound
<1>4. Inst' = Inst /\ CallPairs' = CallPairs /\ \A x \in Inst : x[1] \in Func
  BY <1>2, Same, InstFacts
<1>5. \A g \in Func : /\ Analysed(g)' = Analysed(g) /\ Built(g)' = Built(g)
                      /\ ~Built(g)'
  BY DEF Analysed, Built
<1>6. CfgInv'
  BY <1>1, <1>2, <1>3, <1>5, CfgFrame
<1>7. SoundInv' /\ FoundInv'
  BY <1>1, SoundFrame DEF rdVars
<1>8. DepsInv'
  BY <1>1, <1>4, <1>5 DEF DepsInv, IntraDone
<1>9. DdInv' /\ InterInv' /\ SearchInv' /\ CallsInv'
  BY <1>1, <1>4 DEF DdInv, InterInv, SearchInv, CallsInv, interVars
<1> QED
  BY <1>3, <1>6, <1>7, <1>8, <1>9 DEF IInv

LEMMA WalkHolds == IInv /\ Walk => IInv'
<1> SUFFICES ASSUME IInv, Walk PROVE IInv'
  OBVIOUS
<1>1. /\ phase = "pts" /\ walk # <<>> /\ Head(walk) # <<>>
      /\ GetPDefUseInfo(Head(Head(walk)), FALSE)
      /\ walk' = <<Tail(Head(walk))>> \o Tail(walk)
      /\ UNCHANGED <<prog, phase, order, at, cfgVars, rdVars, interVars, dd>>
  BY DEF Walk
<1>2. PhaseInv
  BY DEF IInv
<1>3. Head(Head(walk)) \in Func /\ walk' \in Seq(Seq(Func))
  <2>1. walk \in Seq(Seq(Func))
    BY <1>2 DEF PhaseInv
  <2>2. Head(walk) \in Seq(Func) /\ Tail(walk) \in Seq(Seq(Func))
    BY <1>1, <2>1
  <2>3. Head(Head(walk)) \in Func /\ Tail(Head(walk)) \in Seq(Func)
    BY <1>1, <2>2
  <2> QED
    BY <1>1, <2>2, <2>3
<1>4. PhaseInv'
  <2>1. Left' = Left
    BY <1>1, Same
  <2> QED
    BY <1>1, <1>2, <1>3, <2>1 DEF PhaseInv, rdVars
<1> QED
  BY <1>1, <1>3, <1>4, Pass

LEMMA NextPathHolds == IInv /\ NextPath => IInv'
<1> SUFFICES ASSUME IInv, NextPath PROVE IInv'
  OBVIOUS
<1>1. /\ phase = "pts" /\ walk # <<>> /\ walk' = Tail(walk) /\ valueSet' = {}
      /\ UNCHANGED <<prog, ddef, pdef, uses, puse, fields, actSet, phase, order, at, cfgVars, rdVars, interVars, dd>>
  BY DEF NextPath
<1>2. PhaseInv /\ DuInv /\ CfgInv /\ SoundInv /\ DepsInv /\ DdInv /\ InterInv
  BY DEF IInv
<1>3. prog \in Programs
  BY <1>2 DEF PhaseInv
<1>4. /\ Inst' = Inst /\ CallPairs' = CallPairs /\ Left' = Left /\ \A x \in Inst : x[1] \in Func
      /\ (\A f : InstsOf(f)' = InstsOf(f)) /\ \A x : At(x)' = At(x)
  BY <1>1, <1>3, Same, InstFacts
<1>5. PhaseInv'
  BY <1>1, <1>2, <1>4 DEF PhaseInv, rdVars
<1>6. DuInv'
  BY <1>1, <1>2, DuKept
<1>7. \A g \in Func : /\ Analysed(g)' = Analysed(g) /\ Built(g)' = Built(g)
                      /\ ~Built(g)'
  BY <1>1 DEF Analysed, Built
<1>8. CfgInv'
  BY <1>1, <1>2, <1>3, <1>7, CfgFrame
<1>9. SoundInv' /\ FoundInv'
  BY <1>1, <1>2, SoundFrame DEF rdVars
<1>10. DepsInv'
  BY <1>1, <1>2, <1>4, <1>7 DEF DepsInv, IntraDone
<1>11. DdInv' /\ InterInv' /\ SearchInv' /\ CallsInv'
  BY <1>1, <1>2, <1>4 DEF DdInv, InterInv, SearchInv, CallsInv, interVars
<1> QED
  BY <1>5, <1>6, <1>8, <1>9, <1>10, <1>11 DEF IInv

LEMMA WalkLeftHolds == IInv /\ WalkLeft => IInv'
<1> SUFFICES ASSUME IInv, WalkLeft PROVE IInv'
  OBVIOUS
<1>1. /\ phase = "pts" /\ UNCHANGED <<prog, order, walk, cfgVars, rdVars, interVars, dd>>
      /\ \/ phase' = "reach" /\ at' = 1 /\ UNCHANGED duVars
         \/ /\ at <= Len(order) + Cardinality(Left)
            /\ GetPDefUseInfo(SetToSeq(Left)[at - Len(order)], TRUE)
            /\ at' = at + 1 /\ UNCHANGED phase
  BY DEF WalkLeft
<1>2. PhaseInv /\ DuInv /\ CfgInv /\ SoundInv /\ DepsInv /\ DdInv /\ InterInv
  BY DEF IInv
<1>3. prog \in Programs /\ order \in Orders /\ at \in Nat \ {0} /\ pos = 1 /\ ~change
  BY <1>1, <1>2 DEF PhaseInv
<1>4. Inst' = Inst /\ CallPairs' = CallPairs /\ Left' = Left /\ \A x \in Inst : x[1] \in Func
  BY <1>1, <1>3, Same, InstFacts
<1>5. Len(order) \in Nat /\ DOMAIN order = 1 .. Len(order) /\ Cardinality(Left) \in Nat
  BY <1>3, OrderFacts, LeftFacts
<1>6. CASE phase' = "reach" /\ at' = 1 /\ UNCHANGED duVars
  <2>1. PhaseInv'
    BY <1>1, <1>2, <1>4, <1>5, <1>6 DEF PhaseInv, rdVars
  <2>2. DuInv'
    BY <1>1, <1>2, <1>6, DuFrame
  <2>3. \A g \in Func : /\ Analysed(g)' = Analysed(g) /\ Built(g)' = Built(g)
                        /\ ~Built(g)'
    BY <1>1, <1>5, <1>6 DEF Analysed, Built
  <2>4. CfgInv'
    BY <1>1, <1>2, <1>3, <1>6, <2>3, CfgFrame DEF duVars
  <2>5. (\A x \in Inst : in'[x] = {} /\ out'[x] = {}) /\ UNCHANGED <<in, out, pos, dd>> /\ dd = <<>>
    BY <1>1, <1>2 DEF SoundInv, DepsInv, rdVars
  <2>6. \A f \in Func : \A x \in InstsOf(f)' : x \in Inst /\ x[2] \in Nat \ {0}
    <3>1. \A f : InstsOf(f)' = InstsOf(f)
      BY <1>1, Same
    <3>2. \A f \in Func : \A x \in InstsOf(f) : x \in Inst /\ x[2] \in Nat \ {0}
      BY <1>3, Body, Position
    <3> QED
      BY <3>1, <3>2
  <2>7. SoundInv'
    <3>1. order' = order /\ \A i \in DOMAIN order : order[i] \in Func
      BY <1>1, <1>3, OrderFacts
    <3> QED
      BY <1>1, <1>2, <1>4, <1>6, <2>5, <2>6, <3>1 DEF SoundInv
  <2>8. FoundInv'
    <3>1. ASSUME at' <= Len(order) PROVE \A x \in InstsOf(order[at])' : ~(x[2] < pos')
      <4>1. order'[at'] \in Func /\ pos' = 1
        BY <1>1, <1>3, <1>5, <1>6, <2>5, <3>1, OrderFacts
      <4>2. \A x \in InstsOf(order[at])' : x[2] \in Nat \ {0}
        BY <2>6, <4>1
      <4> QED
        BY <4>1, <4>2
    <3> QED
      BY <1>1, <3>1 DEF FoundInv
  <2>9. DepsInv'
    BY <1>1, <1>4, <1>6, <2>3, <2>5 DEF DepsInv, IntraDone
  <2>10. DdInv' /\ InterInv' /\ SearchInv' /\ CallsInv'
    BY <1>1, <1>2, <1>4, <1>6 DEF DdInv, InterInv, SearchInv, CallsInv, interVars
  <2> QED
    BY <2>1, <2>2, <2>4, <2>7, <2>8, <2>9, <2>10 DEF IInv
<1>7. CASE /\ at <= Len(order) + Cardinality(Left)
           /\ GetPDefUseInfo(SetToSeq(Left)[at - Len(order)], TRUE)
           /\ at' = at + 1 /\ UNCHANGED phase
  <2>1. at - Len(order) \in 1 .. Cardinality(Left)
    <3>1. at > Len(order)
      BY <1>1, <1>2 DEF PhaseInv
    <3> QED
      BY <1>3, <1>5, <1>7, <3>1
  <2>2. SetToSeq(Left)[at - Len(order)] \in Func
    BY <2>1, LeftFacts
  <2>3. PhaseInv'
    <3>1. at' \in Nat \ {0} /\ at' > Len(order) /\ at' <= Len(order) + Cardinality(Left) + 1
      BY <1>3, <1>5, <1>7, <2>1
    <3> QED
      BY <1>1, <1>2, <1>4, <1>7, <3>1 DEF PhaseInv, rdVars
  <2> QED
    BY <1>1, <1>7, <2>2, <2>3, Pass
<1> QED
  BY <1>1, <1>6, <1>7

-----------------------------------------------------------------------------
(* Reaching definitions *)

\* The function at hand has an id for each of its definitions.
LEMMA AtHand ==
  ASSUME IInv, phase = "reach", at <= Len(order), NEW f, f = order[at]
  PROVE  /\ f \in Func /\ at \in DOMAIN order /\ (\A g \in Func : Analysed(g)) /\ ~Built(f)
         /\ StandFor(ids[f], f, ddef)
         /\ \A k \in DOMAIN ids[f] : /\ k \in Nat /\ ids[f][k].inst \in InstsOf(f)
                                     /\ ids[f][k].val \in Value
                                     /\ ddef[ids[f][k].inst] = {ids[f][k].val}
         /\ \A x \in InstsOf(f) : ddef[x] # {} => \E k \in DOMAIN ids[f] : ids[f][k].inst = x
         /\ \A x \in Inst : \A v, w \in ddef[x] : v = w
         /\ \A x : Gen(x) = {k \in DOMAIN ids[x[1]] : ids[x[1]][k].inst = x}
<1>1. PhaseInv /\ CfgInv
  BY DEF IInv
<1>2. prog \in Programs /\ order \in Orders /\ at \in Nat \ {0}
  BY <1>1 DEF PhaseInv
<1>3. f \in Func /\ at \in DOMAIN order
  BY <1>2, OrderFacts
<1>4. \A g \in Func : Analysed(g)
  BY <1>2, AllAnalysed
<1>5. ~Built(f)
  <2> SUFFICES ASSUME Built(f) PROVE FALSE
    OBVIOUS
  <2>1. PICK i \in DOMAIN order : order[i] = f /\ i < at
    BY DEF Built
  <2>2. i = at
    BY <1>2, <1>3, <2>1, OrderFacts
  <2> QED
    BY <1>2, <2>1, <2>2
<1>6. \A x \in Inst : ddef[x] = DirectDef(x)
  BY <1>1, <1>2, <1>4, InstFacts DEF CfgInv
<1>7. \A x \in Inst : ddef[x] \in SUBSET Value /\ \A v, w \in ddef[x] : v = w
  BY <1>2, <1>6, DirectFacts
<1>8. \A x \in InstsOf(f) : ddef[x] \in SUBSET Value /\ \A v, w \in ddef[x] : v = w
  BY <1>2, <1>3, <1>7, Body
<1>9. ids[f] = IdsOf(f, ddef)
  BY <1>1, <1>3, <1>4, <1>5 DEF CfgInv
<1>10. StandFor(ids[f], f, ddef)
  BY <1>2, <1>3, <1>8, <1>9, IdsFacts
<1>11. \A k \in DOMAIN ids[f] : k \in Nat /\ ids[f][k].inst \in InstsOf(f) /\ ids[f][k].val \in Value
  <2> DEFINE Rec == [val : Value, inst : InstsOf(f)]
  <2>1. \A r \in Rec : r.val \in Value /\ r.inst \in InstsOf(f)
    OBVIOUS
  <2>2. ids[f] \in Seq(Rec)
    BY <1>10 DEF StandFor
  <2> HIDE DEF Rec
  <2>3. \A k \in DOMAIN ids[f] : k \in Nat /\ ids[f][k] \in Rec
    BY <2>2
  <2> QED
    BY <2>1, <2>3
<1> QED
  BY <1>3, <1>4, <1>5, <1>7, <1>10, <1>11 DEF Gen, StandFor

\* What flows along the edges while nothing else changes.
LEMMA FlowSame ==
  ASSUME UNCHANGED <<prog, duVars, order, flow, calls, rets, exit, ids>>
  PROVE  /\ \A x : Gen(x)' = Gen(x) /\ Kill(x)' = Kill(x) /\ Preds(x)' = Preds(x)
         /\ \A f : Leaky(f)' = Leaky(f)
         /\ \A f, k, x : ComesIn(f, k, x)' = ComesIn(f, k, x) /\ GoesOut(f, k, x)' = GoesOut(f, k, x)
<1>1. UNCHANGED ddef
  BY DEF duVars
<1>2. \A d : ReachedBy(d)' = ReachedBy(d)
  BY <1>1, ReachSame
<1>3. CallPairs' = CallPairs /\ \A x : HasDu(x)' = HasDu(x)
  BY Same, DuSame
<1>4. \A f : Leaky(f)' = Leaky(f)
  BY <1>3 DEF Leaky
<1>5. \A x : Gen(x)' = Gen(x) /\ Kill(x)' = Kill(x) /\ Preds(x)' = Preds(x)
  BY <1>1 DEF Gen, Kill, Preds
<1>6. \A f, k, x : ComesIn(f, k, x)' = ComesIn(f, k, x) /\ GoesOut(f, k, x)' = GoesOut(f, k, x)
  BY <1>1, <1>2 DEF ComesIn, GoesOut
<1> QED
  BY <1>4, <1>5, <1>6

\* What comes into an instruction is a definition that reaches it: along the
\* flow of the function, and not along the return edges, whose source either
\* is still to come or has a DefUse, which has been deleted.
LEMMA InSound ==
  ASSUME IInv, phase = "reach", at <= Len(order), NEW f, f = order[at], ~Leaky(f),
         NEW x \in InstsOf(f), NEW k \in InOf(x)
  PROVE  ComesIn(f, k, x)
<1>1. PhaseInv /\ CfgInv /\ SoundInv
  BY DEF IInv
<1>2. prog \in Programs /\ order \in Orders /\ at \in Nat \ {0}
  BY <1>1 DEF PhaseInv
<1>3. f \in Func /\ at \in DOMAIN order /\ \A k1 \in DOMAIN ids[f] : ids[f][k1].inst \in InstsOf(f)
  BY AtHand
<1>4. /\ \A y \in InstsOf(f) : /\ \A j \in in[y] : ComesIn(f, j, y)
                               /\ \A j \in out[y] : GoesOut(f, j, y)
      /\ \A i \in DOMAIN order : \A y \in InstsOf(order[i]) :
           (i > at \/ (i < at /\ HasDu(y))) => out[y] = {}
  BY <1>1, <1>3 DEF SoundInv
<1>5. CASE k \in in[x]
  BY <1>4, <1>5
<1>6. CASE x[2] # 1 /\ \E p \in Preds(x) : k \in out[p]
  <2>1. PICK e \in flow \cup calls \cup rets : e[2] = x /\ k \in out[e[1]]
    BY <1>6 DEF Preds
  <2>2. flow = UNION {FlowOf(g) : g \in {h \in Func : Analysed(h)}}
    BY <1>1 DEF CfgInv
  <2>3. CASE e \in flow
    <3>1. e[1] \in Inst /\ e[2][1] = e[1][1]
      BY <1>2, <2>2, <2>3, FlowFacts
    <3>2. e[1] \in InstsOf(f)
      BY <1>2, <1>3, <2>1, <3>1, OneFunction
    <3>3. GoesOut(f, k, e[1])
      BY <1>4, <2>1, <3>2
    <3>4. x \in Succs(e[1])
      BY <2>1, <2>3 DEF Succs
    <3> DEFINE d == ids[f][k].inst
    <3>5. k \in DOMAIN ids[f] /\ d \in Inst
      BY <1>2, <1>3, <3>3, Body DEF GoesOut
    <3>6. IsFiniteSet(Inst) /\ flow \subseteq Inst \X Inst
      BY <1>2, <2>2, Finite, FlowFacts
    <3>7. /\ Succs(d) \subseteq ReachedBy(d)
          /\ \A y \in ReachedBy(d) : ddef[y] # ddef[d] => Succs(y) \subseteq ReachedBy(d)
      BY <3>5, <3>6, ReachedByIsLeast
    <3>8. e[1] = d \/ (e[1] \in ReachedBy(d) /\ ddef[e[1]] # ddef[d])
      BY <3>3 DEF GoesOut
    <3> QED
      BY <3>4, <3>5, <3>7, <3>8 DEF ComesIn
  <2>4. CASE e \in calls
    BY <1>1, <1>6, <2>1, <2>4 DEF CfgInv
  <2>5. CASE e \in rets
    <3>1. PICK p \in CallPairs : e[1] = exit[p[2]] /\ x \in InstsOf(p[1][1])
      BY <1>1, <2>1, <2>5 DEF CfgInv
    <3>2. p[1][1] \in Func /\ p[2] \in Func
      BY <1>2, CallPairFacts
    <3>3. p[1][1] = f
      BY <1>2, <1>3, <3>1, <3>2, OneFunction
    <3>4. PICK i \in DOMAIN order : order[i] = p[2]
      BY <1>2, <3>2, OrderFacts
    <3>5. exit[p[2]] \in InstsOf(order[i])
      BY <1>1, <3>2, <3>4 DEF CfgInv
    <3>6. p[2] # f /\ (i < at => HasDu(exit[p[2]]))
      BY <1>3, <3>3, <3>4 DEF Leaky
    <3>7. i # at
      BY <3>4, <3>6
    <3>8. i < at \/ i > at
      BY <1>2, <3>4, <3>7, OrderFacts
    <3>9. out[e[1]] = {}
      BY <1>4, <3>1, <3>5, <3>6, <3>8
    <3> QED
      BY <2>1, <3>9
  <2> QED
    BY <2>1, <2>3, <2>4, <2>5
<1> QED
  BY <1>5, <1>6 DEF InOf

LEMMA ReachNodeHolds == IInv /\ ReachNode => IInv'
<1> SUFFICES ASSUME IInv, ReachNode PROVE IInv'
  OBVIOUS
<1>0. PICK f, x : f = order[at] /\ x = <<f, pos>>
  OBVIOUS
<1>1. /\ phase = "reach" /\ at <= Len(order) /\ pos <= Len(prog.code[f])
      /\ in' = [in EXCEPT ![x] = InOf(x)]
      /\ out' = [out EXCEPT ![x] = @ \cup (Gen(x) \cup (InOf(x) \ Kill(x)))]
      /\ change' = (change \/ ~((Gen(x) \cup (InOf(x) \ Kill(x))) \subseteq out[x]))
      /\ pos' = pos + 1
      /\ UNCHANGED <<prog, duVars, phase, order, at, walk, cfgVars, interVars, dd>>
  BY <1>0 DEF ReachNode, SetOut
<1>2. PhaseInv /\ DuInv /\ CfgInv /\ SoundInv /\ FoundInv /\ DepsInv /\ DdInv /\ InterInv
  BY DEF IInv
<1>3. prog \in Programs /\ order \in Orders /\ at \in Nat \ {0} /\ pos \in Nat \ {0} /\ change \in BOOLEAN
  BY <1>2 DEF PhaseInv
<1>4. /\ f \in Func /\ at \in DOMAIN order /\ \A g \in Func : Analysed(g)
      /\ \A k \in DOMAIN ids[f] : k \in Nat /\ ddef[ids[f][k].inst] = {ids[f][k].val}
      /\ \A y : Gen(y) = {k \in DOMAIN ids[y[1]] : ids[y[1]][k].inst = y}
  BY <1>0, <1>1, AtHand
<1>5. x \in InstsOf(f) /\ x \in Inst /\ x[1] = f /\ x[2] = pos
  <2>1. pos \in 1 .. Len(prog.code[f])
    BY <1>1, <1>3, <1>4, Body
  <2>2. x \in InstsOf(f)
    <3>1. pos \in DOMAIN prog.code[f]
      BY <1>3, <1>4, <2>1, Body
    <3> QED
      BY <1>0, <3>1 DEF InstsOf
  <2> QED
    BY <1>0, <1>3, <1>4, <2>2, Body
<1>6. /\ Inst' = Inst /\ CallPairs' = CallPairs /\ Left' = Left
      /\ (\A g : InstsOf(g)' = InstsOf(g)) /\ \A y \in Inst : y[1] \in Func
  BY <1>1, <1>3, Same, InstFacts
<1>7. \A g \in Func : Analysed(g)' = Analysed(g) /\ Built(g)' = Built(g)
  BY <1>1, WhereSame
<1>8. /\ \A y : Gen(y)' = Gen(y) /\ Kill(y)' = Kill(y) /\ Preds(y)' = Preds(y)
      /\ \A g : Leaky(g)' = Leaky(g)
      /\ \A g, k, y : ComesIn(g, k, y)' = ComesIn(g, k, y) /\ GoesOut(g, k, y)' = GoesOut(g, k, y)
  BY <1>1, FlowSame DEF cfgVars
<1>9. UNCHANGED <<flow, ddef, uses, ids>> /\ \A y : HasDu(y)' = HasDu(y)
  BY <1>1, DuSame DEF cfgVars, duVars
<1>10. \A y \in Inst : Preds(y) \subseteq Inst
  <2>1. flow \subseteq Inst \X Inst
    BY <1>2, <1>3, FlowFacts DEF CfgInv
  <2>2. calls \subseteq Inst \X Inst /\ rets \subseteq Inst \X Inst
    BY <1>2 DEF CfgInv
  <2> QED
    BY <2>1, <2>2 DEF Preds
<1>11. in \in [Inst -> SUBSET Nat] /\ out \in [Inst -> SUBSET Nat]
  BY <1>2 DEF SoundInv
<1>12. InOf(x) \in SUBSET Nat /\ Gen(x) \in SUBSET Nat /\ in[x] \subseteq InOf(x)
       /\ (x[2] # 1 => \A p \in Preds(x) : out[p] \subseteq InOf(x))
  <2>1. Gen(x) \in SUBSET Nat
    BY <1>4, <1>5
  <2>2. InOf(x) \in SUBSET Nat
    BY <1>5, <1>10, <1>11 DEF InOf
  <2> QED
    BY <2>1, <2>2 DEF InOf
<1>13. /\ in'[x] = InOf(x) /\ \A y \in Inst \ {x} : in'[y] = in[y]
       /\ out'[x] = out[x] \cup (Gen(x) \cup (InOf(x) \ Kill(x))) /\ \A y \in Inst \ {x} : out'[y] = out[y]
       /\ in' \in [Inst -> SUBSET Nat] /\ out' \in [Inst -> SUBSET Nat]
  BY <1>1, <1>5, <1>11, <1>12
<1>14. PhaseInv'
  <2>1. pos' \in Nat \ {0} /\ change' \in BOOLEAN
    BY <1>1, <1>3
  <2> QED
    BY <1>1, <1>2, <1>6, <2>1 DEF PhaseInv
<1>15. DuInv'
  BY <1>1, <1>2, DuFrame
<1>16. CfgInv'
  BY <1>1, <1>2, <1>3, <1>7, CfgFrame DEF duVars
<1>17. SoundInv'
  <2>1. ASSUME NEW i \in DOMAIN order, NEW y \in InstsOf(order[i])
        PROVE  /\ i > at => in'[y] = {} /\ out'[y] = {}
               /\ i < at /\ HasDu(y) => out'[y] = {}
               /\ i = at /\ ~Leaky(order[i]) => /\ \A k \in in'[y] : ComesIn(order[i], k, y)
                                                /\ \A k \in out'[y] : GoesOut(order[i], k, y)
    <3>1. /\ i > at => in[y] = {} /\ out[y] = {}
          /\ i < at /\ HasDu(y) => out[y] = {}
          /\ i = at /\ ~Leaky(order[i]) => /\ \A k \in in[y] : ComesIn(order[i], k, y)
                                           /\ \A k \in out[y] : GoesOut(order[i], k, y)
      BY <1>1, <1>2 DEF SoundInv
    <3>2. order[i] \in Func /\ y \in Inst /\ y[1] = order[i]
      BY <1>3, OrderFacts, OneFunction
    <3>3. CASE y # x
      BY <1>13, <3>1, <3>2, <3>3
    <3>4. CASE y = x
      <4>1. i = at /\ order[i] = f
        BY <1>0, <1>3, <1>4, <1>5, <3>2, <3>4, OrderFacts
      <4>2. ASSUME ~Leaky(f), NEW k \in InOf(x) PROVE ComesIn(f, k, x)
        BY <1>0, <1>1, <1>5, <4>2, InSound
      <4>3. ASSUME ~Leaky(f), NEW k \in out'[x] PROVE GoesOut(f, k, x)
        <5>1. CASE k \in out[x]
          BY <3>1, <3>4, <4>1, <4>3, <5>1
        <5>2. CASE k \in Gen(x)
          BY <1>4, <1>5, <5>2 DEF GoesOut
        <5>3. CASE k \in InOf(x) /\ k \notin Kill(x)
          <6>1. ComesIn(f, k, x)
            BY <4>2, <4>3, <5>3
          <6>2. k \in DOMAIN ids[f] /\ ids[f][k].val \notin ddef[x]
            BY <1>5, <5>3, <6>1 DEF ComesIn, Kill
          <6>3. ddef[x] # ddef[ids[f][k].inst]
            BY <1>4, <6>2
          <6> QED
            BY <6>1, <6>3 DEF ComesIn, GoesOut
        <5> QED
          BY <1>13, <4>3, <5>1, <5>2, <5>3
      <4>4. ~(i > at) /\ ~(i < at)
        BY <1>3, <4>1
      <4> QED
        BY <1>13, <3>4, <4>1, <4>2, <4>3, <4>4
    <3> QED
      BY <3>3, <3>4
  <2>2. /\ order' = order /\ at' = at /\ phase' = "reach"
        /\ \A i : InstsOf(order[i])' = InstsOf(order[i])
    BY <1>1, <1>6
  <2>3. \A i \in DOMAIN order' : \A y \in InstsOf(order[i])' :
          /\ i > at' => in'[y] = {} /\ out'[y] = {}
          /\ i < at' /\ HasDu(y)' => out'[y] = {}
          /\ i = at' /\ ~Leaky(order[i])' => /\ \A k \in in'[y] : ComesIn(order[i], k, y)'
                                             /\ \A k \in out'[y] : GoesOut(order[i], k, y)'
    BY <1>8, <1>9, <2>1, <2>2
  <2> QED
    BY <1>6, <1>13, <2>2, <2>3 DEF SoundInv
<1>18. FoundInv'
  <2> SUFFICES ASSUME ~change', NEW y \in InstsOf(f), y[2] < pos'
               PROVE  /\ Gen(y) \cup (in'[y] \ Kill(y)) \subseteq out'[y]
                      /\ y[2] # 1 => \A p \in Preds(y) : out'[p] \subseteq in'[y]
    <3>1. order'[at'] = f /\ InstsOf(order[at])' = InstsOf(f)
      BY <1>0, <1>1, <1>6
    <3> QED
      BY <1>8, <3>1 DEF FoundInv
  <2>1. ~change /\ (Gen(x) \cup (InOf(x) \ Kill(x))) \subseteq out[x]
    BY <1>1
  <2>2. \A z \in Inst : out'[z] = out[z]
    BY <1>13, <2>1
  <2>3. y \in Inst /\ y[1] = f /\ y[2] \in Nat /\ y = <<y[1], y[2]>>
    BY <1>3, <1>4, OneFunction, Position, InstFacts
  <2>4. CASE y = x
    BY <1>5, <1>10, <1>12, <1>13, <2>1, <2>2, <2>4
  <2>5. CASE y # x
    <3>1. y[2] # pos
      BY <1>0, <2>3, <2>5
    <3>2. y[2] < pos
      BY <1>1, <1>3, <2>3, <3>1
    <3>3. /\ Gen(y) \cup (in[y] \ Kill(y)) \subseteq out[y]
          /\ y[2] # 1 => \A p \in Preds(y) : out[p] \subseteq in[y]
      BY <1>0, <1>1, <1>2, <2>1, <3>2 DEF FoundInv
    <3> QED
      BY <1>10, <1>13, <2>2, <2>3, <2>5, <3>3
  <2> QED
    BY <2>4, <2>5
<1>19. DepsInv'
  <2>1. \A d : ReachedBy(d)' = ReachedBy(d)
    BY <1>1, <1>9, ReachSame
  <2>2. \A d : Missing(d)' = Missing(d)
    BY <1>1, <1>9, <2>1 DEF Missing
  <2>3. \A e : Invented(e)' = Invented(e)
    BY <1>1, <1>8, <2>1 DEF Invented
  <2>4. \A e \in DOMAIN dd : e[2][1] \in Func
    BY <1>2, <1>6 DEF DdInv
  <2> QED
    BY <1>1, <1>2, <1>6, <1>7, <2>2, <2>3, <2>4 DEF DepsInv, IntraDone
<1>20. DdInv' /\ InterInv' /\ SearchInv' /\ CallsInv'
  BY <1>1, <1>2, <1>6 DEF DdInv, InterInv, SearchInv, CallsInv, interVars
<1> QED
  BY <1>14, <1>15, <1>16, <1>17, <1>18, <1>19, <1>20 DEF IInv

LEMMA NextRoundHolds == IInv /\ NextRound => IInv'
<1> SUFFICES ASSUME IInv, NextRound PROVE IInv'
  OBVIOUS
<1>1. /\ phase = "reach" /\ at <= Len(order) /\ pos' = 1 /\ change' = FALSE
      /\ UNCHANGED <<prog, duVars, phase, order, at, walk, cfgVars, in, out, interVars, dd>>
  BY DEF NextRound
<1>2. PhaseInv /\ DuInv /\ CfgInv /\ SoundInv /\ FoundInv /\ DepsInv /\ DdInv /\ InterInv
  BY DEF IInv
<1>3. prog \in Programs /\ order \in Orders /\ at \in Nat \ {0}
  BY <1>2 DEF PhaseInv
<1>4. /\ Inst' = Inst /\ CallPairs' = CallPairs /\ Left' = Left
      /\ (\A g : InstsOf(g)' = InstsOf(g)) /\ \A y \in Inst : y[1] \in Func
  BY <1>1, <1>3, Same, InstFacts
<1>5. \A g \in Func : Analysed(g)' = Analysed(g) /\ Built(g)' = Built(g)
  BY <1>1, WhereSame
<1>6. /\ \A g : Leaky(g)' = Leaky(g)
      /\ \A g, k, y : ComesIn(g, k, y)' = ComesIn(g, k, y) /\ GoesOut(g, k, y)' = GoesOut(g, k, y)
  BY <1>1, FlowSame DEF cfgVars
<1>7. UNCHANGED <<flow, ddef, uses, ids>> /\ \A y : HasDu(y)' = HasDu(y)
  BY <1>1, DuSame DEF cfgVars, duVars
<1>8. PhaseInv'
  <2>1. pos' \in Nat \ {0}
    BY <1>1
  <2>2. change' \in BOOLEAN
    BY <1>1
  <2> QED
    BY <1>1, <1>2, <1>4, <2>1, <2>2 DEF PhaseInv
<1>9. DuInv'
  BY <1>1, <1>2, DuFrame
<1>10. CfgInv'
  BY <1>1, <1>2, <1>3, <1>5, CfgFrame DEF duVars
<1>11. SoundInv'
  <2>1. \A i : InstsOf(order[i])' = InstsOf(order[i])
    BY <1>1, <1>4
  <2> QED
    BY <1>1, <1>2, <1>4, <1>6, <1>7, <2>1 DEF SoundInv
<1>12. FoundInv'
  <2>1. order'[at'] = order[at] /\ order[at] \in Func /\ \A x \in InstsOf(order[at])' : x \in InstsOf(order[at])
    BY <1>1, <1>3, <1>4, OrderFacts
  <2>2. \A x \in InstsOf(order[at]) : x[2] \in Nat \ {0}
    BY <1>3, <2>1, Body, Position
  <2>3. \A x \in InstsOf(order[at])' : ~(x[2] < pos')
    BY <1>1, <2>1, <2>2
  <2> QED
    BY <2>3 DEF FoundInv
<1>13. DepsInv'
  <2>1. \A d : ReachedBy(d)' = ReachedBy(d)
    BY <1>1, <1>7, ReachSame
  <2>2. \A d : Missing(d)' = Missing(d)
    BY <1>1, <1>7, <2>1 DEF Missing
  <2>3. \A e : Invented(e)' = Invented(e)
    BY <1>1, <1>6, <2>1 DEF Invented
  <2>4. \A e \in DOMAIN dd : e[2][1] \in Func
    BY <1>2, <1>4 DEF DdInv
  <2> QED
    BY <1>1, <1>2, <1>4, <1>5, <2>2, <2>3, <2>4 DEF DepsInv, IntraDone
<1>14. DdInv' /\ InterInv' /\ SearchInv' /\ CallsInv'
  BY <1>1, <1>2, <1>4 DEF DdInv, InterInv, SearchInv, CallsInv, interVars
<1> QED
  BY <1>8, <1>9, <1>10, <1>11, <1>12, <1>13, <1>14 DEF IInv

\* When a round has changed nothing, every definition of the function has come
\* to all it reaches.
LEMMA InComplete ==
  ASSUME IInv, phase = "reach", at <= Len(order), NEW f, f = order[at],
         pos > Len(prog.code[f]), ~change,
         NEW k \in DOMAIN ids[f], NEW u \in ReachedBy(ids[f][k].inst)
  PROVE  u \in InstsOf(f) /\ k \in in[u]
<1> DEFINE d == ids[f][k].inst
           C == {y \in InstsOf(f) : k \in in[y]}
<1>1. PhaseInv /\ CfgInv /\ FoundInv /\ SoundInv
  BY DEF IInv
<1>2. prog \in Programs /\ order \in Orders /\ pos \in Nat
  BY <1>1 DEF PhaseInv
<1>3. /\ f \in Func /\ d \in InstsOf(f) /\ ddef[d] = {ids[f][k].val} /\ k \in Gen(d)
      /\ \A x \in Inst : \A v, w \in ddef[x] : v = w
  <2>1. /\ f \in Func /\ d \in InstsOf(f) /\ ddef[d] = {ids[f][k].val}
        /\ \A x \in Inst : \A v, w \in ddef[x] : v = w
    BY AtHand
  <2>2. d[1] = f
    BY <1>2, <2>1, OneFunction
  <2> QED
    BY <2>1, <2>2 DEF Gen
<1>4. \A x \in InstsOf(f) : x \in Inst /\ x[1] = f /\ x[2] < pos
  <2>1. \A x \in InstsOf(f) : x \in Inst /\ x[1] = f
    BY <1>2, <1>3, OneFunction
  <2>2. \A x \in InstsOf(f) : x[2] \in Nat /\ x[2] <= Len(prog.code[f]) /\ Len(prog.code[f]) \in Nat
    BY <1>2, <2>1, Position
  <2>3. \A x \in InstsOf(f) : x[2] < pos
    BY <1>2, <2>2
  <2> QED
    BY <2>1, <2>3
<1>5. \A x \in InstsOf(f) : /\ Gen(x) \cup (in[x] \ Kill(x)) \subseteq out[x]
                            /\ x[2] # 1 => \A p \in Preds(x) : out[p] \subseteq in[x]
  BY <1>1, <1>4 DEF FoundInv
<1>6. IsFiniteSet(Inst) /\ flow \subseteq Inst \X Inst /\ \A x \in InstsOf(f) : \A y \in Succs(x) : y \in InstsOf(f) /\ y[2] # 1
  <2>1. flow = UNION {FlowOf(g) : g \in {h \in Func : Analysed(h)}}
    BY <1>1 DEF CfgInv
  <2> QED
    BY <1>2, <1>4, <2>1, Finite, FlowFacts
<1>7. ASSUME NEW x \in InstsOf(f), NEW y \in Succs(x), k \in out[x] PROVE y \in C
  <2>1. y \in InstsOf(f) /\ y[2] # 1
    BY <1>6
  <2>2. x \in Preds(y)
    BY DEF Succs, Preds
  <2> QED
    BY <1>5, <1>7, <2>1, <2>2
<1>8. Succs(d) \subseteq C
  BY <1>3, <1>5, <1>7
<1>9. ASSUME NEW x \in C, ddef[x] # ddef[d] PROVE Succs(x) \subseteq C
  <2>1. k \notin Kill(x)
    <3> SUFFICES ASSUME ids[f][k].val \in ddef[x] PROVE FALSE
      BY <1>4 DEF Kill
    <3> QED
      BY <1>3, <1>4, <1>9
  <2> QED
    BY <1>5, <1>7, <2>1
<1>10. C \in SUBSET Inst /\ d \in Inst
  BY <1>3, <1>4
<1> HIDE DEF C, d
<1>11. ReachedBy(d) \subseteq C
  BY <1>6, <1>8, <1>9, <1>10, ReachedByIsLeast
<1> QED
  BY <1>11 DEF C, d

LEMMA BuildDdgHolds == IInv /\ BuildDdg => IInv'
<1> SUFFICES ASSUME IInv, BuildDdg PROVE IInv'
  OBVIOUS
<1>0. PICK f, users, new :
        /\ f = order[at] /\ users = {x \in InstsOf(f) : HasDu(x)}
        /\ new = UNION {{<<<<"DD", ids[f][k].inst, u>>, ids[f][k].val>> :
                            k \in {j \in in[u] \cap DOMAIN ids[f] : ids[f][j].val \in uses[u]}} :
                          u \in users}
  OBVIOUS
<1>1. /\ phase = "reach" /\ at <= Len(order) /\ pos > Len(prog.code[f]) /\ ~change
      /\ dd' = AddEdges(new)
      /\ in' = [x \in Inst |-> IF x \in users THEN {} ELSE in[x]]
      /\ out' = [x \in Inst |-> IF x \in users THEN {} ELSE out[x]]
      /\ ids' = [ids EXCEPT ![f] = <<>>]
      /\ at' = at + 1 /\ pos' = 1
      /\ UNCHANGED <<prog, duVars, phase, order, walk, flow, calls, rets, dummy, exit, change, interVars>>
  BY <1>0 DEF BuildDdg
<1>2. PhaseInv /\ DuInv /\ CfgInv /\ SoundInv /\ FoundInv /\ DepsInv /\ DdInv /\ InterInv
  BY DEF IInv
<1>3. prog \in Programs /\ order \in Orders /\ at \in Nat \ {0} /\ Len(order) \in Nat
  BY <1>2, OrderFacts DEF PhaseInv
<1>4. /\ f \in Func /\ at \in DOMAIN order /\ ~Built(f)
      /\ \A k \in DOMAIN ids[f] : /\ k \in Nat /\ ids[f][k].inst \in InstsOf(f) /\ ids[f][k].val \in Value
                                  /\ ddef[ids[f][k].inst] = {ids[f][k].val}
      /\ \A x \in InstsOf(f) : ddef[x] # {} => \E k \in DOMAIN ids[f] : ids[f][k].inst = x
  <2>1. f = order[at]
    BY <1>0
  <2>2. phase = "reach" /\ at <= Len(order)
    BY <1>1
  <2>3. f \in Func /\ at \in DOMAIN order /\ ~Built(f)
    BY <2>1, <2>2, AtHand
  <2>4. StandFor(ids[f], f, ddef)
    BY <2>1, <2>2, AtHand
  <2>5. \A k \in DOMAIN ids[f] : k \in Nat /\ ids[f][k].inst \in InstsOf(f) /\ ids[f][k].val \in Value
    BY <2>1, <2>2, AtHand
  <2> QED
    BY <2>3, <2>4, <2>5 DEF StandFor
<1>5. /\ Inst' = Inst /\ CallPairs' = CallPairs /\ Left' = Left
      /\ (\A g : InstsOf(g)' = InstsOf(g)) /\ \A y \in Inst : y[1] \in Func
  BY <1>1, <1>3, Same, InstFacts
<1>6. \A i \in DOMAIN order : i \in Nat /\ (i < at' <=> i < at \/ i = at) /\ (i > at' => i > at) /\ (i = at' => i > at)
  <2>1. \A i \in DOMAIN order : i \in Nat
    BY <1>3, OrderFacts
  <2> QED
    BY <1>1, <1>3, <2>1
<1>7. /\ \A g \in Func : Analysed(g)' = Analysed(g) /\ (Built(g)' <=> Built(g) \/ g = f)
      /\ \A g \in Func : Analysed(g)
  <2>1. \A g \in Func : Built(g)' <=> Built(g) \/ g = f
    BY <1>0, <1>1, <1>4, <1>6 DEF Built
  <2>2. \A g \in Func : Analysed(g)
    BY <1>0, <1>1, AtHand
  <2> QED
    BY <1>1, <2>1, <2>2 DEF Analysed
<1>8. UNCHANGED <<flow, ddef, uses>> /\ \A y : HasDu(y)' = HasDu(y)
  BY <1>1, DuSame DEF duVars
<1>9. (\A d : ReachedBy(d)' = ReachedBy(d)) /\ (\A g : Leaky(g)' = Leaky(g))
  <2>1. \A d : ReachedBy(d)' = ReachedBy(d)
    BY <1>1, <1>8, ReachSame
  <2> QED
    BY <1>1, <1>5, <1>8, <2>1 DEF Leaky
<1>10. ASSUME NEW t \in new
       PROVE  \E u \in users : \E k \in in[u] \cap DOMAIN ids[f] :
                t[1] = <<"DD", ids[f][k].inst, u>> /\ t[2] = ids[f][k].val
  <2>1. PICK u \in users : t \in {<<<<"DD", ids[f][k].inst, u>>, ids[f][k].val>> :
                                    k \in {j \in in[u] \cap DOMAIN ids[f] : ids[f][j].val \in uses[u]}}
    BY <1>0
  <2> QED
    BY <2>1
<1>11. \A u \in users : u \in InstsOf(f) /\ u \in Inst /\ HasDu(u)
  BY <1>0, <1>3, <1>4, Body
<1>12. /\ \A e \in DOMAIN dd : e \in DOMAIN dd' /\ dd'[e] = dd[e]
       /\ \A t \in new : t[1] \in DOMAIN dd'
       /\ \A e \in DOMAIN dd' : e \in DOMAIN dd \/ \E t \in new : e = t[1] /\ dd'[e] = t[2]
  BY <1>1, EdgesAdded
<1>13. PhaseInv'
  <2>1. at' \in Nat \ {0} /\ at' <= Len(order) + 1
    BY <1>1, <1>3
  <2> QED
    BY <1>1, <1>2, <1>5, <2>1 DEF PhaseInv
<1>14. DuInv'
  BY <1>1, <1>2, DuFrame
<1>15. CfgInv'
  <2>1. \A g : IdsOf(g, ddef)' = IdsOf(g, ddef)
    BY <1>5, <1>8 DEF IdsOf
  <2>2. DOMAIN ids' = Func /\ \A g \in Func : ids'[g] = IF Analysed(g)' /\ ~Built(g)' THEN IdsOf(g, ddef)' ELSE <<>>
    <3>1. DOMAIN ids' = Func /\ ids'[f] = <<>> /\ \A g \in Func \ {f} : ids'[g] = ids[g]
      BY <1>1, <1>2, <1>4 DEF CfgInv
    <3>2. \A g \in Func : ids[g] = IF Analysed(g) /\ ~Built(g) THEN IdsOf(g, ddef) ELSE <<>>
      BY <1>2 DEF CfgInv
    <3> QED
      BY <1>7, <2>1, <3>1, <3>2
  <2>3. \A x : At(x)' = At(x) /\ IsCall(x)' = IsCall(x) /\ DirectDef(x)' = DirectDef(x)
    BY <1>1, Same
  <2>4. ddef' = [x \in Inst' |-> IF Analysed(x[1])' THEN DirectDef(x)' ELSE {}]
    BY <1>2, <1>5, <1>7, <1>8, <2>3 DEF CfgInv
  <2>5. flow' = UNION {FlowOf(g)' : g \in {h \in Func : Analysed(h)'}}
    <3>1. \A g : FlowOf(g)' = FlowOf(g)
      BY <1>1, Same
    <3> QED
      BY <1>2, <1>7, <1>8, <3>1 DEF CfgInv
  <2>6. \A c \in Inst : IsCall(c) => Range(At(c).args) \subseteq uses'[c]
    BY <1>2, <1>5, <1>7, <1>8 DEF CfgInv
  <2>7. DOMAIN exit' = Func /\ \A g \in Func : exit'[g] \in InstsOf(g)'
    BY <1>1, <1>2, <1>5 DEF CfgInv
  <2> QED
    BY <1>1, <1>2, <1>5, <2>2, <2>3, <2>4, <2>5, <2>6, <2>7 DEF CfgInv
<1>16. SoundInv'
  <2>1. in' \in [Inst -> SUBSET Nat] /\ out' \in [Inst -> SUBSET Nat]
    BY <1>1, <1>2 DEF SoundInv
  <2>2. ASSUME NEW i \in DOMAIN order, NEW y \in InstsOf(order[i])
        PROVE  /\ i > at' => in'[y] = {} /\ out'[y] = {}
               /\ i < at' /\ HasDu(y) => out'[y] = {}
               /\ i = at' => in'[y] = {} /\ out'[y] = {}
    <3>1. /\ i > at => in[y] = {} /\ out[y] = {}
          /\ i < at /\ HasDu(y) => out[y] = {}
      BY <1>1, <1>2 DEF SoundInv
    <3>2. y \in Inst
      BY <1>3, OrderFacts, Body
    <3>3. i > at => in'[y] = {} /\ out'[y] = {}
      BY <1>1, <3>1, <3>2
    <3>4. i < at /\ HasDu(y) => out'[y] = {}
      BY <1>1, <3>1, <3>2
    <3>5. i = at /\ HasDu(y) => out'[y] = {}
      BY <1>0, <1>1, <3>2
    <3> QED
      BY <1>6, <3>3, <3>4, <3>5
  <2>3. /\ order' = order /\ phase' = "reach"
        /\ \A i : InstsOf(order[i])' = InstsOf(order[i])
    BY <1>1, <1>5
  <2> QED
    BY <1>5, <1>8, <2>1, <2>2, <2>3 DEF SoundInv
<1>17. FoundInv'
  <2>1. ASSUME at' <= Len(order) PROVE \A x \in InstsOf(order[at])' : ~(x[2] < pos')
    <3>1. order'[at'] \in Func
      <4>1. at' \in DOMAIN order
        BY <1>1, <1>3, <2>1, OrderFacts
      <4> QED
        BY <1>1, <1>3, <4>1, OrderFacts
    <3>2. \A g \in Func : \A x \in InstsOf(g) : x[2] \in Nat \ {0}
      BY <1>3, Body, Position
    <3>3. \A x \in InstsOf(order[at])' : x[2] \in Nat \ {0}
      BY <1>5, <3>1, <3>2
    <3> QED
      BY <1>1, <3>3
  <2>2. order' = order
    BY <1>1
  <2> QED
    BY <2>1, <2>2 DEF FoundInv
<1>18. DepsInv'
  <2>1. \A e \in DOMAIN dd : e[2][1] \in Func /\ Built(e[2][1]) /\ ~Invented(e)
    BY <1>1, <1>2, <1>5 DEF DepsInv, DdInv
  <2>2. ASSUME NEW e \in DOMAIN dd' PROVE Built(e[2][1])' /\ ~Invented(e)'
    <3>1. CASE e \in DOMAIN dd
      BY <1>7, <1>9, <2>1, <3>1 DEF Invented
    <3>2. CASE \E t \in new : e = t[1]
      <4>1. PICK u \in users, k \in DOMAIN ids[f] : k \in in[u] /\ e = <<"DD", ids[f][k].inst, u>>
        BY <1>10, <3>2
      <4>2. e[2] = ids[f][k].inst /\ e[3] = u /\ e[2][1] = f
        BY <1>3, <1>4, <4>1, OneFunction
      <4>3. ASSUME ~Leaky(f) PROVE u \in ReachedBy(ids[f][k].inst)
        <5>1. k \in InOf(u)
          BY <4>1 DEF InOf
        <5> QED
          BY <1>0, <1>1, <1>11, <4>3, <5>1, InSound DEF ComesIn
      <4> QED
        BY <1>4, <1>7, <1>9, <4>2, <4>3 DEF Invented
    <3> QED
      BY <1>12, <3>1, <3>2
  <2>3. ASSUME NEW d \in Inst, Built(d[1])' PROVE ~Missing(d)'
    <3> SUFFICES ASSUME NEW u \in ReachedBy(d), ddef[d] \cap uses[u] # {}
                 PROVE  <<"DD", d, u>> \in DOMAIN dd' /\ dd'[<<"DD", d, u>>] \in ddef[d]
      BY <1>8, <1>9 DEF Missing
    <3>1. CASE Built(d[1])
      BY <1>2, <1>12, <3>1 DEF DepsInv, Missing
    <3>2. CASE d[1] = f
      <4>1. d \in InstsOf(f)
        BY <1>3, <1>4, <3>2, OneFunction
      <4>2. PICK k \in DOMAIN ids[f] : ids[f][k].inst = d
        BY <1>4, <4>1
      <4>3. u \in InstsOf(f) /\ k \in in[u]
        BY <1>0, <1>1, <4>2, InComplete
      <4>4. ids[f][k].val \in uses[u] /\ ddef[d] = {ids[f][k].val}
        BY <1>4, <4>2
      <4>5. u \in users
        BY <1>0, <4>3, <4>4 DEF HasDu
      <4>6. <<<<"DD", ids[f][k].inst, u>>, ids[f][k].val>> \in new
        BY <1>0, <4>3, <4>4, <4>5
      <4>7. <<"DD", d, u>> \in DOMAIN dd'
        BY <1>12, <4>2, <4>6
      <4>8. <<"DD", d, u>> \notin DOMAIN dd
        BY <1>4, <2>1, <3>2
      <4>9. PICK t \in new : <<"DD", d, u>> = t[1] /\ dd'[<<"DD", d, u>>] = t[2]
        BY <1>12, <4>7, <4>8
      <4>10. PICK w \in users, j \in DOMAIN ids[f] : t[1] = <<"DD", ids[f][j].inst, w>> /\ t[2] = ids[f][j].val
        BY <1>10
      <4>11. ids[f][j].inst = d /\ dd'[<<"DD", d, u>>] = ids[f][j].val
        BY <4>9, <4>10
      <4> QED
        BY <1>4, <4>7, <4>11
    <3> QED
      BY <1>5, <1>7, <2>3, <3>1, <3>2
  <2> QED
    BY <1>1, <1>5, <2>2, <2>3 DEF DepsInv
<1>19. DdInv'
  <2>1. \A t \in new : IsEdge(t)
    <3> SUFFICES ASSUME NEW t \in new PROVE IsEdge(t)
      OBVIOUS
    <3>1. PICK u \in users, k \in DOMAIN ids[f] : t[1] = <<"DD", ids[f][k].inst, u>> /\ t[2] = ids[f][k].val
      BY <1>10
    <3>2. ids[f][k].inst \in Inst /\ u \in Inst /\ ids[f][k].val \in Value
      BY <1>3, <1>4, <1>11, Body
    <3> QED
      BY <3>1, <3>2 DEF IsEdge
  <2> QED
    BY <1>1, <1>2, <2>1, EdgesTyped
<1>20. InterInv' /\ SearchInv' /\ CallsInv'
  BY <1>1, <1>2, <1>5 DEF InterInv, SearchInv, CallsInv, interVars
<1> QED
  BY <1>13, <1>14, <1>15, <1>16, <1>17, <1>18, <1>19, <1>20 DEF IInv

-----------------------------------------------------------------------------
(* Calls *)

LEMMA StartInterHolds == IInv /\ StartInter => IInv'
<1> SUFFICES ASSUME IInv, StartInter PROVE IInv'
  OBVIOUS
<1>1. /\ phase = "reach" /\ at > Len(order) /\ phase' = "acts" /\ todo' = CallPairs
      /\ UNCHANGED <<prog, duVars, order, at, walk, cfgVars, rdVars, more, cur, queue, seen, dd>>
  BY DEF StartInter
<1>2. PhaseInv /\ DuInv /\ CfgInv /\ SoundInv /\ FoundInv /\ DepsInv /\ DdInv /\ InterInv
  BY DEF IInv
<1>3. prog \in Programs /\ order \in Orders /\ at \in Nat \ {0} /\ Len(order) \in Nat
  BY <1>2, OrderFacts DEF PhaseInv
<1>4. /\ Inst' = Inst /\ CallPairs' = CallPairs /\ Left' = Left /\ \A x \in Inst : x[1] \in Func
  BY <1>1, <1>3, Same, InstFacts
<1>5. \A g \in Func : Analysed(g)' = Analysed(g) /\ Built(g)' = Built(g) /\ Built(g)
  <2>1. \A i \in DOMAIN order : i < at
    BY <1>1, <1>3, OrderFacts
  <2>2. \A g \in Func : Built(g)
    BY <1>1, <1>3, <2>1, OrderFacts DEF Built
  <2> QED
    BY <1>1, <2>2 DEF Analysed, Built
<1>6. PhaseInv'
  <2>1. at = Len(order) + 1
    BY <1>1, <1>2, <1>3 DEF PhaseInv
  <2> QED
    BY <1>1, <1>2, <1>4, <2>1 DEF PhaseInv, rdVars
<1>7. DuInv'
  BY <1>1, <1>2, DuFrame
<1>8. CfgInv'
  BY <1>1, <1>2, <1>3, <1>5, CfgFrame DEF duVars
<1>9. SoundInv' /\ FoundInv'
  BY <1>1, <1>2, SoundFrame DEF rdVars
<1>10. DepsInv'
  <2>1. UNCHANGED <<prog, flow, ddef, uses, exit, order, duVars, dd>>
    BY <1>1 DEF cfgVars, duVars
  <2>2. (\A d : ReachedBy(d)' = ReachedBy(d)) /\ \A y : HasDu(y)' = HasDu(y)
    BY <2>1, ReachSame, DuSame
  <2>3. \A g : Leaky(g)' = Leaky(g)
    BY <1>4, <2>1, <2>2 DEF Leaky
  <2>4. (\A d : Missing(d)' = Missing(d)) /\ \A e : Invented(e)' = Invented(e)
    BY <2>1, <2>2, <2>3 DEF Missing, Invented
  <2> QED
    BY <1>1, <1>2, <1>4, <1>5, <2>1, <2>4 DEF DepsInv
<1>11. DdInv' /\ InterInv'
  <2>1. \A p \in CallPairs : p # <<>>
    BY <1>3, CallPairFacts
  <2> QED
    BY <1>1, <1>2, <1>4, <2>1 DEF DdInv, InterInv
<1>12. SearchInv' /\ CallsInv'
  BY <1>1, <1>2, <1>4 DEF InterInv, SearchInv, CallsInv
<1> QED
  BY <1>6, <1>7, <1>8, <1>9, <1>10, <1>11, <1>12 DEF IInv

\* What the steps of the last phase leave as it is.
LEMMA ActsFrame ==
  ASSUME IInv, phase = "acts", phase' \in {"acts", "done"}, ~IntraDone',
         UNCHANGED <<prog, duVars, order, at, walk, cfgVars, rdVars>>,
         \A e \in DOMAIN dd : e \in DOMAIN dd' /\ dd'[e] = dd[e]
  PROVE  PhaseInv' /\ DuInv' /\ CfgInv' /\ SoundInv' /\ FoundInv' /\ DepsInv'
<1>1. PhaseInv /\ DuInv /\ CfgInv /\ SoundInv /\ FoundInv /\ DepsInv
  BY DEF IInv
<1>2. prog \in Programs
  BY <1>1 DEF PhaseInv
<1>3. \A g \in Func : Analysed(g)' = Analysed(g) /\ Built(g)' = Built(g) /\ Built(g)
  BY DEF Analysed, Built
<1>4. UNCHANGED <<flow, ddef, uses, in, out>>
  BY DEF cfgVars, duVars, rdVars
<1>5. PhaseInv'
  <2>1. Left' = Left
    BY Same
  <2> QED
    BY <1>1, <2>1 DEF PhaseInv, rdVars
<1>6. DuInv'
  BY <1>1, DuFrame
<1>7. CfgInv'
  <2>1. \A g \in Func : Analysed(g)' = Analysed(g) /\ Built(g)' = Built(g)
    BY <1>3
  <2>2. \A x \in Inst : uses[x] \subseteq uses'[x]
    BY <1>4
  <2>3. UNCHANGED <<prog, ddef, cfgVars>> /\ (phase' = "intra" => phase = "intra")
    BY <1>4
  <2> QED
    BY <1>1, <1>2, <2>1, <2>2, <2>3, CfgFrame
<1>8. SoundInv' /\ FoundInv'
  BY <1>1, <1>4, SoundFrame
<1>9. DepsInv'
  BY <1>1, <1>2, <1>3, <1>4, DepsFrame
<1> QED
  BY <1>5, <1>6, <1>7, <1>8, <1>9

\* The flow and the edges of calls, as far as the last phase needs them.
LEMMA ActsFacts ==
  ASSUME IInv, phase = "acts"
  PROVE  /\ prog \in Programs /\ DuInv /\ DdInv /\ InterInv
         /\ flow \subseteq Inst \X Inst /\ IsFiniteSet(Inst)
         /\ \A x \in Inst : Succs(x) \subseteq InstsOf(x[1]) /\ x[1] \in Func
         /\ \A p \in CallPairs : p # <<>> /\ p[1] \in Inst /\ p[2] \in Func
<1>1. PhaseInv /\ DuInv /\ CfgInv /\ DdInv /\ InterInv
  BY DEF IInv
<1>2. prog \in Programs /\ IsFiniteSet(Inst)
  BY <1>1, Finite DEF PhaseInv
<1>3. flow \subseteq Inst \X Inst /\ \A x \in Inst : Succs(x) \subseteq InstsOf(x[1])
  BY <1>1, <1>2, FlowFacts DEF CfgInv
<1>4. \A x \in Inst : x[1] \in Func
  BY <1>2, InstFacts
<1>5. \A p \in CallPairs : p # <<>> /\ p[1] \in Inst /\ p[2] \in Func
  BY <1>2, CallPairFacts
<1> QED
  BY <1>1, <1>2, <1>3, <1>4, <1>5

LEMMA TakeCallHolds == IInv /\ TakeCall => IInv'
<1> SUFFICES ASSUME IInv, TakeCall PROVE IInv'
  OBVIOUS
<1>1. PICK p \in todo :
        /\ phase = "acts" /\ cur = <<>> /\ more = {}
        /\ todo' = todo \ {p} /\ more' = {q \in CallPairs : q[1] = p[1]}
        /\ UNCHANGED <<prog, duVars, phase, order, at, walk, cfgVars, rdVars, cur, queue, seen, dd>>
  BY DEF TakeCall
<1>2. prog \in Programs /\ DdInv /\ InterInv /\ \A q \in CallPairs : q # <<>>
  BY <1>1, ActsFacts
<1>3. p \in CallPairs /\ p \in more' /\ more' \subseteq CallPairs
  BY <1>1, <1>2 DEF InterInv
<1>4. Inst' = Inst /\ CallPairs' = CallPairs
  BY <1>1, Same
<1>5. todo' # CallPairs'
  BY <1>1, <1>3, <1>4
<1>6. PhaseInv' /\ DuInv' /\ CfgInv' /\ SoundInv' /\ FoundInv' /\ DepsInv'
  BY <1>1, <1>5, ActsFrame DEF IntraDone
<1>7. DdInv' /\ InterInv' /\ SearchInv'
  BY <1>1, <1>2, <1>3, <1>4, <1>5 DEF DdInv, InterInv, SearchInv
<1>8. CallsInv'
  <2>1. CallsInv /\ UNCHANGED <<prog, duVars, flow>> /\ \A e \in DOMAIN dd : e \in DOMAIN dd'
    BY <1>1 DEF IInv, cfgVars
  <2>2. \A q \in CallPairs \ (todo' \cup more' \cup {cur'}) : q \in CallPairs \ (todo \cup more \cup {cur})
    BY <1>1, <1>3
  <2>3. ASSUME NEW q \in CallPairs \ (todo' \cup more' \cup {cur'})
        PROVE  /\ Callers(q[1][1])' = {} => \A x \in Behind(q[1])' : StoresReach(q[2], x)'
               /\ ActualsPassed(q)'
    BY <1>1, <2>1, <2>2, CallsFrame
  <2> QED
    BY <1>4, <2>3 DEF CallsInv
<1> QED
  BY <1>6, <1>7, <1>8 DEF IInv

LEMMA TakeCalleeHolds == IInv /\ TakeCallee => IInv'
<1> SUFFICES ASSUME IInv, TakeCallee PROVE IInv'
  OBVIOUS
<1>1. PICK p \in more :
        /\ phase = "acts" /\ cur = <<>>
        /\ cur' = p /\ more' = more \ {p}
        /\ queue' = IF actSet[p[2]] = <<>> THEN <<>> ELSE InOrder(Succs(p[1]))
        /\ seen' = {}
        /\ UNCHANGED <<prog, duVars, phase, order, at, walk, cfgVars, rdVars, todo, dd>>
  BY DEF TakeCallee
<1>2. /\ prog \in Programs /\ DdInv /\ InterInv
      /\ \A x \in Inst : Succs(x) \subseteq InstsOf(x[1]) /\ x[1] \in Func
      /\ \A q \in CallPairs : q # <<>> /\ q[1] \in Inst /\ q[2] \in Func
  BY <1>1, ActsFacts
<1>3. p \in CallPairs /\ p # <<>> /\ p[1] \in Inst
  BY <1>2 DEF InterInv
<1>4. Inst' = Inst /\ CallPairs' = CallPairs /\ (\A f : InstsOf(f)' = InstsOf(f)) /\ \A f : Callers(f)' = Callers(f)
  BY <1>1, Same
<1>5. PhaseInv' /\ DuInv' /\ CfgInv' /\ SoundInv' /\ FoundInv' /\ DepsInv'
  BY <1>1, <1>3, ActsFrame DEF IntraDone
<1>6. InOrder(Succs(p[1])) \in Seq(InstsOf(p[1][1])) /\ ToSet(InOrder(Succs(p[1]))) = Succs(p[1])
  <2>1. InOrder(Succs(p[1])) \in Seq(Succs(p[1])) /\ ToSet(InOrder(Succs(p[1]))) = Succs(p[1])
    BY <1>2, <1>3, InOrderOfBody
  <2> QED
    BY <1>2, <1>3, <2>1
<1>7. DdInv' /\ InterInv'
  <2>1. queue' \in Seq(Inst)
    <3>1. InstsOf(p[1][1]) \subseteq Inst
      BY <1>2, <1>3, Body
    <3>2. InOrder(Succs(p[1])) \in Seq(Inst)
      BY <1>6, <3>1
    <3> QED
      BY <1>1, <3>2
  <2> QED
    BY <1>1, <1>2, <1>3, <1>4, <2>1 DEF DdInv, InterInv
<1>8. SearchInv'
  <2>1. Succs(p[1])' = Succs(p[1]) /\ actSet' = actSet
    BY <1>1 DEF Succs, cfgVars, duVars
  <2>2. actSet[p[2]] # <<>> => queue' = InOrder(Succs(p[1]))
    BY <1>1
  <2>3. ToSet(InOrder(Succs(p[1]))) = Succs(p[1]) /\ Succs(p[1]) \subseteq InstsOf(p[1][1])
    BY <1>2, <1>3, <1>6
  <2>4. SearchInv' <=> (cur' # <<>> /\ Callers(cur[1][1])' = {} /\ actSet'[cur'[2]] # <<>> =>
          /\ seen' \cup ToSet(queue') \subseteq InstsOf(cur[1][1])'
          /\ Succs(cur[1])' \subseteq seen' \cup ToSet(queue')
          /\ \A x \in seen' : Succs(x)' \subseteq seen' \cup ToSet(queue') /\ StoresReach(cur[2], x)')
    BY DEF SearchInv
  <2>5. InstsOf(cur[1][1])' = InstsOf(p[1][1]) /\ Succs(cur[1])' = Succs(p[1])
    <3>1. cur' = p /\ \A c : Succs(c)' = Succs(c)
      BY <1>1 DEF Succs, cfgVars
    <3> QED
      BY <1>4, <3>1
  <2> QED
    BY <1>1, <2>1, <2>2, <2>3, <2>4, <2>5
<1>9. CallsInv'
  <2>1. CallsInv
    BY DEF IInv
  <2>2. \A q \in CallPairs \ (todo' \cup more' \cup {cur'}) : q \in CallPairs \ (todo \cup more \cup {cur})
    BY <1>1, <1>2
  <2>3. UNCHANGED <<prog, duVars, flow>> /\ \A e \in DOMAIN dd : e \in DOMAIN dd'
    BY <1>1 DEF cfgVars
  <2>4. ASSUME NEW q \in CallPairs \ (todo' \cup more' \cup {cur'})
        PROVE  /\ Callers(q[1][1])' = {} => \A x \in Behind(q[1])' : StoresReach(q[2], x)'
               /\ ActualsPassed(q)'
    BY <1>1, <2>1, <2>2, <2>3, CallsFrame
  <2> QED
    BY <1>4, <2>4 DEF CallsInv
<1> QED
  BY <1>5, <1>7, <1>8, <1>9 DEF IInv

\* Whatever the search has still to do, a callee's stores reach no less.
LEMMA CallsStay ==
  ASSUME IInv, phase = "acts", UNCHANGED <<prog, duVars, cfgVars, todo, more, cur>>,
         \A e \in DOMAIN dd : e \in DOMAIN dd'
  PROVE  CallsInv'
<1>1. CallsInv
  BY DEF IInv
<1>2. CallPairs' = CallPairs
  BY Same
<1>3. UNCHANGED flow
  BY DEF cfgVars
<1>4. ASSUME NEW q \in CallPairs \ (todo \cup more \cup {cur})
      PROVE  /\ Callers(q[1][1])' = {} => \A x \in Behind(q[1])' : StoresReach(q[2], x)'
             /\ ActualsPassed(q)'
  BY <1>1, <1>3, CallsFrame
<1> QED
  BY <1>2, <1>4 DEF CallsInv

LEMMA InQueueFacts ==
  ASSUME prog \in Programs, NEW f \in Func, NEW S \in SUBSET InstsOf(f), NEW q \in Seq(Inst)
  PROVE  InQueue(q, S) \in Seq(Inst) /\ ToSet(InQueue(q, S)) = ToSet(q) \cup S
<1> DEFINE r == InOrder(S \ ToSet(q))
<1>1. r \in Seq(S \ ToSet(q)) /\ ToSet(r) = S \ ToSet(q)
  BY InOrderOfBody
<1>2. S \subseteq Inst
  BY Body
<1> HIDE DEF r
<1>3. r \in Seq(Inst)
  BY <1>1, <1>2
<1>4. q \o r \in Seq(Inst) /\ ToSet(q \o r) = ToSet(q) \cup ToSet(r)
  <2>1. q \o r \in Seq(Inst) /\ Len(q \o r) = Len(q) + Len(r) /\ Len(q) \in Nat /\ Len(r) \in Nat
    BY <1>3
  <2>2. /\ DOMAIN (q \o r) = 1 .. Len(q) + Len(r)
        /\ DOMAIN q = 1 .. Len(q) /\ DOMAIN r = 1 .. Len(r)
        /\ \A i \in 1 .. Len(q) : (q \o r)[i] = q[i]
        /\ \A i \in 1 .. Len(r) : (q \o r)[Len(q) + i] = r[i]
    BY <1>3, <2>1
  <2>3. \A i \in 1 .. Len(q) + Len(r) : i \in 1 .. Len(q) \/ \E j \in 1 .. Len(r) : i = Len(q) + j
    <3> SUFFICES ASSUME NEW i \in 1 .. Len(q) + Len(r), i \notin 1 .. Len(q)
                 PROVE  i - Len(q) \in 1 .. Len(r) /\ i = Len(q) + (i - Len(q))
      OBVIOUS
    <3> QED
      BY <2>1
  <2>4. (\A j \in 1 .. Len(r) : Len(q) + j \in 1 .. Len(q) + Len(r)) /\ \A i \in 1 .. Len(q) : i \in 1 .. Len(q) + Len(r)
    BY <2>1
  <2>5. ToSet(q \o r) \subseteq ToSet(q) \cup ToSet(r)
    <3>1. ASSUME NEW i \in 1 .. Len(q) + Len(r) PROVE (q \o r)[i] \in ToSet(q) \cup ToSet(r)
      <4>1. CASE i \in 1 .. Len(q)
        BY <2>2, <4>1 DEF ToSet
      <4>2. CASE \E j \in 1 .. Len(r) : i = Len(q) + j
        BY <2>2, <4>2 DEF ToSet
      <4> QED
        BY <2>3, <4>1, <4>2
    <3> QED
      BY <2>2, <3>1 DEF ToSet
  <2>6. ToSet(q) \cup ToSet(r) \subseteq ToSet(q \o r)
    BY <2>2, <2>4 DEF ToSet
  <2> QED
    BY <2>1, <2>5, <2>6
<1> QED
  BY <1>1, <1>4 DEF InQueue, r

LEMMA QueueFacts ==
  ASSUME NEW S, NEW q \in Seq(S), q # <<>>
  PROVE  Head(q) \in S /\ Tail(q) \in Seq(S) /\ ToSet(q) = {Head(q)} \cup ToSet(Tail(q))
<1>1. /\ Len(q) \in Nat \ {0} /\ Head(q) = q[1] /\ Head(q) \in S /\ Tail(q) \in Seq(S)
      /\ DOMAIN q = 1 .. Len(q) /\ DOMAIN Tail(q) = 1 .. Len(q) - 1
      /\ \A i \in 1 .. Len(q) - 1 : Tail(q)[i] = q[i + 1]
  OBVIOUS
<1>2. /\ 1 \in 1 .. Len(q) /\ \A i \in 1 .. Len(q) - 1 : i + 1 \in 1 .. Len(q)
      /\ \A i \in 1 .. Len(q) : i = 1 \/ (i - 1 \in 1 .. Len(q) - 1 /\ i = (i - 1) + 1)
  BY <1>1
<1>3. ToSet(q) \subseteq {Head(q)} \cup ToSet(Tail(q))
  <2>1. ASSUME NEW i \in 1 .. Len(q), i # 1 PROVE q[i] \in ToSet(Tail(q))
    <3>1. i - 1 \in 1 .. Len(q) - 1 /\ i = (i - 1) + 1
      BY <1>2, <2>1
    <3>2. Tail(q)[i - 1] = q[i]
      BY <1>1, <3>1
    <3> QED
      BY <1>1, <3>1, <3>2 DEF ToSet
  <2>2. \A i \in 1 .. Len(q) : q[i] \in {Head(q)} \cup ToSet(Tail(q))
    BY <1>1, <2>1
  <2> QED
    BY <1>1, <2>2 DEF ToSet
<1>4. {Head(q)} \cup ToSet(Tail(q)) \subseteq ToSet(q)
  BY <1>1, <1>2 DEF ToSet
<1> QED
  BY <1>1, <1>3, <1>4

LEMMA RelateActParaHolds == IInv /\ RelateActPara => IInv'
<1> SUFFICES ASSUME IInv, RelateActPara PROVE IInv'
  OBVIOUS
<1>0. PICK x : x = Head(queue)
  OBVIOUS
<1>1. /\ phase = "acts" /\ queue # <<>> /\ seen' = seen \cup {x}
      /\ IF x \in seen THEN UNCHANGED dd ELSE dd' = AddEdges(Related(cur[2], x))
      /\ queue' = IF x \in seen THEN Tail(queue)
                  ELSE IF ReturnsFrom(x) THEN <<>> ELSE InQueue(Tail(queue), Succs(x))
      /\ UNCHANGED <<prog, duVars, phase, order, at, walk, cfgVars, rdVars, todo, more, cur>>
  BY <1>0 DEF RelateActPara
<1>2. /\ prog \in Programs /\ DuInv /\ DdInv /\ InterInv
      /\ \A y \in Inst : Succs(y) \subseteq InstsOf(y[1]) /\ y[1] \in Func
      /\ \A p \in CallPairs : p # <<>> /\ p[1] \in Inst /\ p[2] \in Func
  BY <1>1, ActsFacts
<1>3. cur # <<>> /\ cur \in CallPairs /\ queue \in Seq(Inst) /\ cur[2] \in Func
  BY <1>1, <1>2 DEF InterInv
<1>4. x \in Inst /\ Tail(queue) \in Seq(Inst) /\ ToSet(queue) = {x} \cup ToSet(Tail(queue))
  BY <1>0, <1>1, <1>3, QueueFacts
<1>5. /\ InQueue(Tail(queue), Succs(x)) \in Seq(Inst)
      /\ ToSet(InQueue(Tail(queue), Succs(x))) = ToSet(Tail(queue)) \cup Succs(x)
  BY <1>2, <1>4, InQueueFacts
<1>6. \A e \in DOMAIN dd : e \in DOMAIN dd' /\ dd'[e] = dd[e]
  <2>1. CASE x \in seen
    BY <1>1, <2>1
  <2>2. CASE x \notin seen
    BY <1>1, <2>2, EdgesAdded
  <2> QED
    BY <2>1, <2>2
<1>7. /\ Inst' = Inst /\ CallPairs' = CallPairs
      /\ (\A f : InstsOf(f)' = InstsOf(f)) /\ \A f : Callers(f)' = Callers(f)
  BY <1>1, Same
<1>8. PhaseInv' /\ DuInv' /\ CfgInv' /\ SoundInv' /\ FoundInv' /\ DepsInv'
  <2>1. ~IntraDone'
    BY <1>1, <1>3 DEF IntraDone
  <2> QED
    BY <1>1, <1>6, <2>1, ActsFrame
<1>9. DdInv'
  <2>1. CASE x \in seen
    BY <1>1, <1>2, <1>7, <2>1 DEF DdInv
  <2>2. CASE x \notin seen
    <3>1. \A t \in Related(cur[2], x) : IsEdge(t)
      BY <1>2, <1>3, <1>4, RelatedFacts
    <3>2. dd' = AddEdges(Related(cur[2], x)) /\ prog' = prog
      BY <1>1, <2>2
    <3> QED
      BY <1>2, <3>1, <3>2, EdgesTyped
  <2> QED
    BY <2>1, <2>2
<1>10. InterInv'
  <2>1. queue' \in Seq(Inst)
    BY <1>1, <1>4, <1>5
  <2> QED
    BY <1>1, <1>2, <1>3, <1>4, <1>7, <2>1 DEF InterInv
<1>11. SearchInv'
  <2> SUFFICES ASSUME Callers(cur[1][1]) = {}, actSet[cur[2]] # <<>>
               PROVE  /\ seen' \cup ToSet(queue') \subseteq InstsOf(cur[1][1])
                      /\ Succs(cur[1])' \subseteq seen' \cup ToSet(queue')
                      /\ \A y \in seen' : Succs(y)' \subseteq seen' \cup ToSet(queue') /\ StoresReach(cur[2], y)'
    <3>1. UNCHANGED <<cur, actSet>>
      BY <1>1 DEF duVars
    <3>2. Callers(cur[1][1])' = Callers(cur[1][1]) /\ InstsOf(cur[1][1])' = InstsOf(cur[1][1])
      BY <1>7, <3>1
    <3> QED
      BY <3>1, <3>2 DEF SearchInv
  <2>1. /\ seen \cup ToSet(queue) \subseteq InstsOf(cur[1][1])
        /\ Succs(cur[1]) \subseteq seen \cup ToSet(queue)
        /\ \A y \in seen : Succs(y) \subseteq seen \cup ToSet(queue) /\ StoresReach(cur[2], y)
    <3>1. SearchInv
      BY DEF IInv
    <3> QED
      BY <1>3, <3>1 DEF SearchInv
  <2>2. (\A y : Succs(y)' = Succs(y)) /\ (\A g, y : Related(g, y)' = Related(g, y)) /\ actSet' = actSet /\ cur' = cur
    BY <1>1, DuSame DEF Succs, cfgVars, duVars
  <2>3. Succs(cur[1])' = Succs(cur[1])
    BY <2>2
  <2>4. \A y : StoresReach(cur[2], y) => StoresReach(cur[2], y)'
    BY <1>6, <2>2 DEF StoresReach
  <2>5. CASE x \in seen
    <3>1. seen' = seen /\ queue' = Tail(queue) /\ seen \cup ToSet(Tail(queue)) = seen \cup ToSet(queue)
      BY <1>1, <1>4, <2>5
    <3> QED
      BY <2>1, <2>2, <2>3, <2>4, <3>1
  <2>6. CASE x \notin seen
    <3>1. ~ReturnsFrom(x)
      <4> SUFFICES ASSUME NEW e \in rets, e[1] = x PROVE FALSE
        BY DEF ReturnsFrom
      <4>1. CfgInv
        BY DEF IInv
      <4>2. PICK p \in CallPairs : e[1] = exit[p[2]]
        BY <4>1 DEF CfgInv
      <4>3. p[2] \in Func /\ p[1] \in Callers(p[2]) /\ cur[1][1] \in Func
        BY <1>2, <1>3, CallPairFacts
      <4>4. x \in InstsOf(p[2]) /\ x \in InstsOf(cur[1][1])
        BY <1>4, <2>1, <4>1, <4>2, <4>3 DEF CfgInv
      <4>5. p[2] = cur[1][1]
        BY <1>2, <4>3, <4>4, OneFunction
      <4> QED
        BY <4>3, <4>5
    <3>2. queue' = InQueue(Tail(queue), Succs(x))
      BY <1>1, <2>6, <3>1
    <3>3. seen' \cup ToSet(queue') = seen \cup ToSet(queue) \cup Succs(x)
      BY <1>1, <1>4, <1>5, <3>2
    <3>4. Succs(x) \subseteq InstsOf(cur[1][1])
      <4>1. x \in InstsOf(cur[1][1]) /\ cur[1][1] \in Func
        BY <1>2, <1>3, <1>4, <2>1
      <4>2. x[1] = cur[1][1]
        BY <1>2, <4>1, OneFunction
      <4> QED
        BY <1>2, <1>4, <4>2
    <3>5. StoresReach(cur[2], x)'
      <4>1. dd' = AddEdges(Related(cur[2], x))
        BY <1>1, <2>6
      <4>2. \A t \in Related(cur[2], x) : t[1] \in DOMAIN dd'
        BY <4>1, EdgesAdded
      <4> QED
        BY <2>2, <4>2 DEF StoresReach
    <3> QED
      BY <1>1, <2>1, <2>2, <2>3, <2>4, <3>3, <3>4, <3>5
  <2> QED
    BY <2>5, <2>6
<1>12. CallsInv'
  BY <1>1, <1>6, CallsStay
<1> QED
  BY <1>8, <1>9, <1>10, <1>11, <1>12 DEF IInv

\* What RelateFpRet adds are edges, ...
LEMMA ParaTyped ==
  ASSUME prog \in Programs, DdInv, NEW c \in Inst, NEW g \in Func, NEW t \in Para(c, g)
  PROVE  IsEdge(t)
<1>1. PICK e \in InEdges(c) :
        t \in {<<<<IF e[2][1] = c[1] THEN "DDCall" ELSE "DD", e[2], x>>, dd[e]>> :
                 x \in UNION {FpInst(g, p) : p \in Formal(c, g, dd[e])}}
  BY DEF Para, ParaEdges
<1>2. PICK x \in UNION {FpInst(g, p) : p \in Formal(c, g, dd[e])} :
        t = <<<<IF e[2][1] = c[1] THEN "DDCall" ELSE "DD", e[2], x>>, dd[e]>>
  BY <1>1
<1>3. x \in InstsOf(g)
  BY <1>2 DEF FpInst
<1>4. x \in Inst
  BY <1>3, Body
<1>5. e[2] \in Inst /\ dd[e] \in Value
  BY DEF InEdges, DdInv
<1>6. /\ t[1] = <<IF e[2][1] = c[1] THEN "DDCall" ELSE "DD", e[2], x>> /\ t[2] = dd[e]
      /\ (IF e[2][1] = c[1] THEN "DDCall" ELSE "DD") \in {"DD", "DDCall", "DDRet"}
  BY <1>2
<1> QED
  BY <1>4, <1>5, <1>6 DEF IsEdge

\* ... and those of the actual parameters are among them: a definition of one
\* in the caller that reaches the call has an edge to it.
ParaPassed(c, g) ==
  \A d \in Inst, v \in Range(At(c).args) :
    d[1] = c[1] /\ ddef[d] = {v} /\ c \in ReachedBy(d) =>
      \A q \in Formal(c, g, v) : \A x \in FpInst(g, q) :
        \E t \in Para(c, g) : t[1] = <<"DDCall", d, x>>

LEMMA ParaComplete ==
  ASSUME NEW c \in Inst, NEW g, DepsInv, Built(c[1]), Range(At(c).args) \subseteq uses[c]
  PROVE  ParaPassed(c, g)
<1> SUFFICES ASSUME NEW d \in Inst, NEW v \in Range(At(c).args),
                    d[1] = c[1], ddef[d] = {v}, c \in ReachedBy(d),
                    NEW q \in Formal(c, g, v), NEW x \in FpInst(g, q)
             PROVE  \E t \in Para(c, g) : t[1] = <<"DDCall", d, x>>
  BY DEF ParaPassed
<1> DEFINE e == <<"DD", d, c>>
<1>1. e \in DOMAIN dd /\ dd[e] = v
  <2>1. ddef[d] \cap uses[c] # {}
    OBVIOUS
  <2>2. ~Missing(d)
    BY DEF DepsInv
  <2> QED
    BY <2>1, <2>2 DEF Missing
<1>2. e[2] = d /\ e[3] = c
  OBVIOUS
<1> HIDE DEF e
<1>3. e \in InEdges(c)
  BY <1>1, <1>2 DEF InEdges
<1>4. x \in UNION {FpInst(g, p) : p \in Formal(c, g, dd[e])}
  BY <1>1
<1>5. <<<<"DDCall", d, x>>, v>> \in Para(c, g)
  BY <1>1, <1>2, <1>3, <1>4 DEF Para, ParaEdges
<1> QED
  BY <1>5

LEMMA RelateFpRetHolds == IInv /\ RelateFpRet => IInv'
<1> SUFFICES ASSUME IInv, RelateFpRet PROVE IInv'
  OBVIOUS
<1>0. PICK call, c, g, results, new :
        /\ call = cur /\ c = call[1] /\ g = call[2]
        /\ results = {<<<<"DDRet", r, c>>, c>> : r \in {q \in RetInst(g) : ddef[c] # {} /\ ~prog.void[g] /\ InEdges(q) # {}}}
        /\ new = Para(c, g) \cup results
  OBVIOUS
<1>1. /\ phase = "acts" /\ cur # <<>> /\ queue = <<>> /\ dd' = AddEdges(new) /\ cur' = <<>>
      /\ UNCHANGED <<prog, duVars, phase, order, at, walk, cfgVars, rdVars, todo, more, queue, seen>>
  BY <1>0 DEF RelateFpRet
<1>2. /\ prog \in Programs /\ DuInv /\ DdInv /\ InterInv
      /\ flow \subseteq Inst \X Inst /\ IsFiniteSet(Inst)
      /\ \A y \in Inst : Succs(y) \subseteq InstsOf(y[1]) /\ y[1] \in Func
      /\ \A p \in CallPairs : p # <<>> /\ p[1] \in Inst /\ p[2] \in Func
  BY <1>1, ActsFacts
<1>3. cur \in CallPairs /\ c \in Inst /\ g \in Func
      /\ call = cur /\ c = call[1] /\ g = call[2] /\ c = cur[1] /\ g = cur[2]
  BY <1>0, <1>1, <1>2 DEF InterInv
<1>4. /\ \A e \in DOMAIN dd : e \in DOMAIN dd' /\ dd'[e] = dd[e]
      /\ \A t \in new : t[1] \in DOMAIN dd'
  BY <1>1, EdgesAdded
<1>5. Inst' = Inst /\ CallPairs' = CallPairs /\ \A f : Callers(f)' = Callers(f)
  BY <1>1, Same
<1>6. PhaseInv' /\ DuInv' /\ CfgInv' /\ SoundInv' /\ FoundInv' /\ DepsInv'
  <2>1. ~IntraDone'
    BY <1>1, <1>2, <1>5 DEF IntraDone, InterInv
  <2> QED
    BY <1>1, <1>4, <2>1, ActsFrame
<1>7. DdInv'
  <2>1. \A t \in Para(c, g) : IsEdge(t)
    BY <1>2, <1>3, ParaTyped
  <2>2. \A t \in results : IsEdge(t)
    <3> SUFFICES ASSUME NEW t \in results PROVE IsEdge(t)
      OBVIOUS
    <3>1. PICK r \in RetInst(g) : t = <<<<"DDRet", r, c>>, c>>
      BY <1>0
    <3>2. r \in InstsOf(g) /\ t[1] = <<"DDRet", r, c>> /\ t[2] = c
      BY <3>1 DEF RetInst
    <3>3. r \in Inst /\ c \in Value
      BY <1>2, <1>3, <3>2, Body, InstFacts
    <3> QED
      BY <1>3, <3>2, <3>3 DEF IsEdge
  <2>3. \A t \in new : IsEdge(t)
    BY <1>0, <2>1, <2>2
  <2>4. dd' = AddEdges(new) /\ prog' = prog
    BY <1>1
  <2> QED
    BY <1>2, <2>3, <2>4, EdgesTyped
<1>8. InterInv' /\ SearchInv'
  BY <1>1, <1>2, <1>3, <1>5 DEF InterInv, SearchInv
<1>9. CallsInv'
  <2>1. CallsInv /\ DepsInv /\ CfgInv /\ SearchInv
    BY DEF IInv
  <2>2. UNCHANGED <<prog, duVars, flow>> /\ \A e \in DOMAIN dd : e \in DOMAIN dd'
    BY <1>1, <1>4 DEF cfgVars
  <2>3. ASSUME NEW p \in CallPairs \ (todo \cup more \cup {cur})
        PROVE  /\ Callers(p[1][1])' = {} => \A x \in Behind(p[1])' : StoresReach(p[2], x)'
               /\ ActualsPassed(p)'
    BY <1>1, <2>1, <2>2, CallsFrame
  <2>4. /\ \A x : At(x)' = At(x) /\ Behind(x)' = Behind(x) /\ ReachedBy(x)' = ReachedBy(x)
        /\ \A h, x : Related(h, x)' = Related(h, x)
        /\ UNCHANGED <<actSet, ddef>>
    <3>1. UNCHANGED <<actSet, ddef>>
      BY <1>1 DEF duVars
    <3>2. \A x : At(x)' = At(x)
      BY <1>1, Same
    <3>3. (\A x : Behind(x)' = Behind(x)) /\ (\A x : ReachedBy(x)' = ReachedBy(x))
      BY <2>2, <3>1, ReachSame
    <3>4. \A h, x : Related(h, x)' = Related(h, x)
      BY <2>2, DuSame
    <3> QED
      BY <3>1, <3>2, <3>3, <3>4
  <2>5. ASSUME Callers(c[1]) = {}, NEW x \in Behind(c) PROVE StoresReach(g, x)'
    <3>1. CASE actSet[g] = <<>>
      <4>1. Related(g, x) = {}
        BY <3>1 DEF Related
      <4> QED
        BY <2>4, <4>1 DEF StoresReach
    <3>2. CASE actSet[g] # <<>>
      <4>1. /\ seen \cup ToSet(queue) \subseteq InstsOf(c[1])
            /\ Succs(c) \subseteq seen \cup ToSet(queue)
            /\ \A y \in seen : Succs(y) \subseteq seen \cup ToSet(queue) /\ StoresReach(g, y)
        BY <1>1, <1>3, <2>1, <2>5, <3>2 DEF SearchInv
      <4>2. ToSet(queue) = {}
        BY <1>1 DEF ToSet
      <4>3. seen \subseteq Inst
        BY <1>2 DEF InterInv
      <4>4. Behind(c) \subseteq seen
        BY <1>2, <1>3, <4>1, <4>2, <4>3, BehindIsLeast
      <4>5. StoresReach(g, x)
        BY <2>5, <4>1, <4>4
      <4> QED
        BY <2>2, <2>4, <4>5 DEF StoresReach
    <3> QED
      BY <3>1, <3>2
  <2>6. ASSUME NEW d \in Inst, NEW v \in Range(At(c).args), d[1] = c[1], ddef[d] = {v}, c \in ReachedBy(d),
               NEW q \in Formal(c, g, v), NEW x \in FpInst(g, q)
        PROVE  <<"DDCall", d, x>> \in DOMAIN dd'
    <3>1. Built(c[1])
      BY <1>1 DEF Built
    <3>2. Range(At(c).args) \subseteq uses[c]
      <4>1. IsCall(c) /\ c[1] \in Func
        BY <1>2, <1>3, CallPairFacts
      <4>2. Analysed(c[1])
        <5>1. PhaseInv
          BY DEF IInv
        <5> QED
          BY <1>1, <4>1, <5>1, AllAnalysed DEF PhaseInv
      <4> QED
        BY <1>3, <2>1, <4>1, <4>2 DEF CfgInv
    <3>3. PICK t \in Para(c, g) : t[1] = <<"DDCall", d, x>>
      <4>1. ParaPassed(c, g)
        BY <1>3, <2>1, <3>1, <3>2, ParaComplete
      <4> QED
        BY <2>6, <4>1 DEF ParaPassed
    <3>4. t \in new
      BY <1>0
    <3> QED
      BY <1>4, <3>3, <3>4
  <2>7. ActualsPassed(call)'
    <3>1. (\A e, h, v : Formal(e, h, v)' = Formal(e, h, v)) /\ \A h, p : FpInst(h, p)' = FpInst(h, p)
      BY <1>1, ParaSame
    <3>2. ActualsPassed(call)' <=>
            \A d \in Inst', v \in Range(At(call[1]).args)' :
              d[1] = call[1][1] /\ ddef'[d] = {v} /\ call[1] \in ReachedBy(d)' =>
                \A q \in Formal(call[1], call[2], v)' : \A x \in FpInst(call[2], q)' : <<"DDCall", d, x>> \in DOMAIN dd'
      BY DEF ActualsPassed
    <3>3. Range(At(call[1]).args)' = Range(At(c).args)
      <4>1. At(c)' = At(c)
        BY <2>4
      <4> QED
        BY <1>3, <4>1
    <3>4. \A d \in Inst, v \in Range(At(c).args) :
            d[1] = c[1] /\ ddef[d] = {v} /\ c \in ReachedBy(d) =>
              \A q \in Formal(c, g, v) : \A x \in FpInst(g, q) : <<"DDCall", d, x>> \in DOMAIN dd'
      BY <2>6
    <3> QED
      BY <1>3, <1>5, <2>4, <3>1, <3>2, <3>3, <3>4
  <2>8. Callers(call[1][1])' = {} => \A x \in Behind(call[1])' : StoresReach(call[2], x)'
    BY <1>3, <1>5, <2>4, <2>5
  <2>9. ASSUME NEW p \in CallPairs \ (todo' \cup more' \cup {cur'})
        PROVE  /\ Callers(p[1][1])' = {} => \A x \in Behind(p[1])' : StoresReach(p[2], x)'
               /\ ActualsPassed(p)'
    <3>1. CASE p = call
      BY <2>7, <2>8, <3>1
    <3>2. CASE p # call
      BY <1>1, <1>3, <2>3, <3>2
    <3> QED
      BY <3>1, <3>2
  <2> QED
    BY <1>5, <2>9 DEF CallsInv
<1> QED
  BY <1>6, <1>7, <1>8, <1>9 DEF IInv

LEMMA UpdateGlobalDdHolds == IInv /\ UpdateGlobalDd => IInv'
<1> SUFFICES ASSUME IInv, UpdateGlobalDd PROVE IInv'
  OBVIOUS
<1>0. PICK pairs, new :
        /\ pairs = {q \in Inst \X Inst : /\ Is(q[1], "store") /\ Is(q[2], "load")
                                         /\ At(q[2]).args[1] \in Global
                                         /\ At(q[1]).args[2] = At(q[2]).args[1]}
        /\ new = {<<<<"DD", p[1], p[2]>>, At(p[2]).args[1]>> : p \in pairs}
  OBVIOUS
<1>1. /\ phase = "acts" /\ cur = <<>> /\ todo = {} /\ more = {} /\ phase' = "done"
      /\ dd' = AddEdges(new)
      /\ UNCHANGED <<prog, duVars, order, at, walk, cfgVars, rdVars, interVars>>
  BY <1>0 DEF UpdateGlobalDd
<1>2. prog \in Programs /\ DdInv /\ InterInv
  BY <1>1, ActsFacts
<1>3. \A e \in DOMAIN dd : e \in DOMAIN dd' /\ dd'[e] = dd[e]
  BY <1>1, EdgesAdded
<1>4. Inst' = Inst /\ CallPairs' = CallPairs
  BY <1>1, Same
<1>5. PhaseInv' /\ DuInv' /\ CfgInv' /\ SoundInv' /\ FoundInv' /\ DepsInv'
  <2>1. ~IntraDone'
    BY <1>1 DEF IntraDone
  <2> QED
    BY <1>1, <1>3, <2>1, ActsFrame
<1>6. DdInv'
  <2>1. \A t \in new : IsEdge(t)
    <3> SUFFICES ASSUME NEW t \in new PROVE IsEdge(t)
      OBVIOUS
    <3>1. PICK p \in pairs : t = <<<<"DD", p[1], p[2]>>, At(p[2]).args[1]>>
      BY <1>0
    <3>2. p[1] \in Inst /\ p[2] \in Inst /\ At(p[2]).op = "load"
      BY <1>0 DEF Is
    <3>3. At(p[2]).args[1] \in Value
      BY <1>2, <3>2, InstFacts
    <3>4. t[1] = <<"DD", p[1], p[2]>> /\ t[2] = At(p[2]).args[1]
      BY <3>1
    <3> QED
      BY <3>2, <3>3, <3>4 DEF IsEdge
  <2>2. dd' = AddEdges(new) /\ prog' = prog
    BY <1>1
  <2> QED
    BY <1>2, <2>1, <2>2, EdgesTyped
<1>7. InterInv' /\ SearchInv'
  BY <1>1, <1>2, <1>4 DEF InterInv, SearchInv, interVars
<1>8. CallsInv'
  <2>1. UNCHANGED <<todo, more, cur>>
    BY <1>1 DEF interVars
  <2> QED
    BY <1>1, <1>3, <2>1, CallsStay
<1> QED
  BY <1>5, <1>6, <1>7, <1>8 DEF IInv

LEMMA Stutters == IInv /\ UNCHANGED vars => IInv'
<1> SUFFICES ASSUME IInv, UNCHANGED vars PROVE IInv'
  OBVIOUS
<1>1. /\ UNCHANGED <<prog, phase, order, at, walk, dd, flow, calls, rets, dummy, exit, ids, pos, change, in, out>>
      /\ UNCHANGED <<todo, more, cur, queue, seen, ddef, pdef, uses, puse, fields, actSet, valueSet>>
      /\ UNCHANGED <<duVars, cfgVars, rdVars, interVars>>
  BY DEF vars, duVars, cfgVars, rdVars, interVars
<1>2. PhaseInv /\ DuInv /\ CfgInv /\ SoundInv /\ FoundInv /\ DepsInv /\ DdInv /\ InterInv /\ SearchInv /\ CallsInv
  BY DEF IInv
<1>3. prog \in Programs
  BY <1>2 DEF PhaseInv
<1>4. /\ Inst' = Inst /\ CallPairs' = CallPairs /\ Left' = Left
      /\ (\A f : InstsOf(f)' = InstsOf(f)) /\ (\A f : Callers(f)' = Callers(f)) /\ \A x \in Inst : x[1] \in Func
  BY <1>1, <1>3, Same, InstFacts
<1>5. \A g : Analysed(g)' = Analysed(g) /\ Built(g)' = Built(g)
  BY <1>1, WhereSame
<1>6. /\ \A y : Gen(y)' = Gen(y) /\ Kill(y)' = Kill(y) /\ Preds(y)' = Preds(y)
      /\ \A g : Leaky(g)' = Leaky(g)
      /\ \A g, k, y : ComesIn(g, k, y)' = ComesIn(g, k, y) /\ GoesOut(g, k, y)' = GoesOut(g, k, y)
  BY <1>1, FlowSame
<1>7. /\ \A d : ReachedBy(d)' = ReachedBy(d) /\ Behind(d)' = Behind(d) /\ Succs(d)' = Succs(d)
      /\ (\A y : HasDu(y)' = HasDu(y)) /\ \A g, y : Related(g, y)' = Related(g, y)
  BY <1>1, ReachSame, DuSame
<1>8. PhaseInv'
  BY <1>1, <1>2, <1>4 DEF PhaseInv
<1>9. DuInv' /\ CfgInv'
  <2>1. DuInv'
    BY <1>1, <1>2, DuFrame
  <2> QED
    BY <1>1, <1>2, <1>3, <1>5, <2>1, CfgFrame
<1>10. SoundInv' /\ FoundInv'
  <2>1. InstsOf(order[at])' = InstsOf(order[at]) /\ \A i : InstsOf(order[i])' = InstsOf(order[i])
    BY <1>1, <1>4
  <2>2. SoundInv'
    BY <1>1, <1>2, <1>4, <1>6, <1>7, <2>1 DEF SoundInv
  <2>3. FoundInv'
    BY <1>1, <1>2, <1>6, <2>1 DEF FoundInv
  <2> QED
    BY <2>2, <2>3
<1>11. DepsInv'
  <2>1. (\A d : Missing(d)' = Missing(d)) /\ \A e : Invented(e)' = Invented(e)
    BY <1>1, <1>6, <1>7 DEF Missing, Invented
  <2> QED
    BY <1>1, <1>2, <1>4, <1>5, <2>1 DEF DepsInv, IntraDone
<1>12. DdInv' /\ InterInv'
  BY <1>1, <1>2, <1>4 DEF DdInv, InterInv
<1>13. SearchInv'
  <2>1. \A y : StoresReach(cur[2], y)' = StoresReach(cur[2], y)
    BY <1>1, <1>7 DEF StoresReach
  <2>2. Callers(cur[1][1])' = Callers(cur[1][1]) /\ InstsOf(cur[1][1])' = InstsOf(cur[1][1]) /\ Succs(cur[1])' = Succs(cur[1])
    BY <1>1, <1>4, <1>7
  <2> QED
    BY <1>1, <1>2, <1>7, <2>1, <2>2 DEF SearchInv
<1>14. CallsInv'
  <2>1. ASSUME phase \in {"acts", "done"}, NEW q \in CallPairs \ (todo \cup more \cup {cur})
        PROVE  /\ Callers(q[1][1])' = {} => \A x \in Behind(q[1])' : StoresReach(q[2], x)'
               /\ ActualsPassed(q)'
    BY <1>1, <1>2, <2>1, CallsFrame
  <2> QED
    BY <1>1, <1>4, <2>1 DEF CallsInv
<1> QED
  BY <1>8, <1>9, <1>10, <1>11, <1>12, <1>13, <1>14 DEF IInv

-----------------------------------------------------------------------------
(* The theorems *)

LEMMA Invariance == Spec => []IInv
<1>1. IInv /\ [Next]_vars => IInv'
  <2> SUFFICES ASSUME IInv, [Next]_vars PROVE IInv'
    OBVIOUS
  <2>1. CASE Go
    BY <2>1, IntraCfg, NoExitHolds, InterCfg, WalkHolds, NextPathHolds, WalkLeftHolds, ReachNodeHolds, NextRoundHolds,
       BuildDdgHolds, StartInterHolds, TakeCallHolds, TakeCalleeHolds, RelateActParaHolds, RelateFpRetHolds,
       UpdateGlobalDdHolds DEF Go
  <2>2. CASE UNCHANGED vars
    BY <2>2, Stutters
  <2> QED
    BY <2>1, <2>2 DEF Next, Done
<1> QED
  BY <1>1, InitHolds, PTL DEF Spec

\* In every state the sets, the ids, the queue and the edges are about
\* instructions and values of the program.
THEOREM TypeCorrect == Spec => []TypeOK
<1>1. IInv => TypeOK
  <2> SUFFICES ASSUME IInv PROVE TypeOK
    OBVIOUS
  <2>1. PhaseInv /\ DuInv /\ CfgInv /\ SoundInv /\ DdInv /\ InterInv
    BY DEF IInv
  <2>2. /\ prog \in Programs /\ order \in Orders /\ at \in Nat \ {0} /\ Len(order) \in Nat
        /\ Len(order) = Cardinality(Func) /\ Cardinality(Left) \in Nat /\ Cardinality(Left) <= Cardinality(Func)
    BY <2>1, OrderFacts, LeftFacts DEF PhaseInv
  <2>3. at \in 1 .. 2 * Len(order) + 1
    <3>1. at <= Len(order) + 1 \/ at <= Len(order) + Cardinality(Left) + 1
      BY <2>1, <2>2 DEF PhaseInv
    <3> QED
      BY <2>2, <3>1
  <2>4. ASSUME NEW x \in Inst PROVE ddef[x] \in SUBSET Value /\ Cardinality(ddef[x]) <= 1
    <3>1. ddef[x] = DirectDef(x) \/ ddef[x] = {}
      BY <2>1 DEF CfgInv
    <3>2. ddef[x] \in SUBSET Value /\ \A v, w \in ddef[x] : v = w
      BY <2>2, <3>1, DirectFacts
    <3>3. ddef[x] = {} \/ \E v : ddef[x] = {v}
      BY <3>2
    <3>4. CASE ddef[x] = {}
      <4>1. Cardinality(ddef[x]) = 0
        BY <3>4, FS_EmptySet
      <4> QED
        BY <3>2, <4>1
    <3>5. CASE \E v : ddef[x] = {v}
      <4>1. PICK v : ddef[x] = {v}
        BY <3>5
      <4>2. Cardinality({v}) = 1
        BY FS_Singleton
      <4> QED
        BY <3>2, <4>1, <4>2
    <3> QED
      BY <3>3, <3>4, <3>5
  <2>5. DuTypeOK
    <3>1. ddef \in [Inst -> SUBSET Value]
      BY <2>1, <2>4 DEF CfgInv
    <3>2. \A f \in Func : Range(actSet[f]) \subseteq InstsOf(f)
      BY <2>1 DEF DuInv, Stored, Range
    <3> QED
      BY <2>1, <2>4, <3>1, <3>2 DEF DuTypeOK, DuInv
  <2>6. flow \cup calls \cup rets \subseteq Inst \X Inst /\ dummy \subseteq Inst
    <3>1. flow \subseteq Inst \X Inst
      BY <2>1, <2>2, FlowFacts DEF CfgInv
    <3> QED
      BY <2>1, <3>1 DEF CfgInv
  <2>7. \A f \in Func : ids[f] \in Seq([val : Value, inst : InstsOf(f)])
    <3> SUFFICES ASSUME NEW f \in Func PROVE ids[f] \in Seq([val : Value, inst : InstsOf(f)])
      OBVIOUS
    <3>1. \A x \in InstsOf(f) : ddef[x] \in SUBSET Value /\ \A v, w \in ddef[x] : v = w
      <4>1. \A x \in Inst : ddef[x] = DirectDef(x) \/ ddef[x] = {}
        BY <2>1 DEF CfgInv
      <4>2. \A x \in Inst : ddef[x] \in SUBSET Value /\ \A v, w \in ddef[x] : v = w
        BY <2>2, <4>1, DirectFacts
      <4> QED
        BY <2>2, <4>2, Body
    <3>2. IdsOf(f, ddef) \in Seq([val : Value, inst : InstsOf(f)])
      BY <2>2, <3>1, IdsFacts DEF StandFor
    <3>3. <<>> \in Seq([val : Value, inst : InstsOf(f)])
      OBVIOUS
    <3>4. ids[f] = IdsOf(f, ddef) \/ ids[f] = <<>>
      BY <2>1 DEF CfgInv
    <3> QED
      BY <3>2, <3>3, <3>4
  <2>8. \A f \in Func : exit[f] \in InstsOf(f)
    BY <2>1 DEF CfgInv
  <2>9. todo \cup more \subseteq CallPairs /\ cur \in CallPairs \cup {<<>>} /\ queue \in Seq(Inst) /\ seen \subseteq Inst
    BY <2>1 DEF InterInv
  <2>10. in \in [Inst -> SUBSET Nat] /\ out \in [Inst -> SUBSET Nat]
    BY <2>1 DEF SoundInv
  <2>11. /\ phase \in {"intra", "pts", "reach", "acts", "done", "aborted"} /\ pos \in Nat \ {0} /\ change \in BOOLEAN
    BY <2>1 DEF PhaseInv
  <2>12. DOMAIN dd \subseteq {"DD", "DDCall", "DDRet"} \X Inst \X Inst /\ \A e \in DOMAIN dd : dd[e] \in Value
    BY <2>1 DEF DdInv
  <2> QED
    BY <2>2, <2>3, <2>5, <2>6, <2>7, <2>8, <2>9, <2>10, <2>11, <2>12 DEF TypeOK
<1> QED
  BY <1>1, Invariance, PTL

\* In every program, what a direct definition reaches without another
\* definition of the value in between has a data dependence on it.  The possible
\* definitions of the second pass are no such definitions.
THEOREM NothingMissing == Spec => []IntraComplete
<1>1. IInv => IntraComplete
  <2> SUFFICES ASSUME IInv, IntraDone, NEW d \in Inst, NEW u \in ReachedBy(d), ddef[d] \cap uses[u] # {}
               PROVE  <<"DD", d, u>> \in DOMAIN dd
    BY DEF IntraComplete
  <2>1. DepsInv /\ Built(d[1])
    BY DEF IInv, Built, IntraDone
  <2>2. ~Missing(d)
    BY <2>1 DEF DepsInv
  <2> QED
    BY <2>2 DEF Missing
<1> QED
  BY <1>1, Invariance, PTL

\* ... and there is no other one, except where the return edges bring the ids
\* of other functions into a function.
THEOREM NothingInvented == Spec => []IntraSound
<1>1. IInv => IntraSound
  <2> SUFFICES ASSUME IInv, IntraDone, NEW e \in DOMAIN dd, ~Leaky(e[2][1]) PROVE e[3] \in ReachedBy(e[2])
    BY DEF IntraSound
  <2>1. ~Invented(e)
    BY DEF IInv, DepsInv
  <2> QED
    BY <2>1 DEF Invented
<1> QED
  BY <1>1, Invariance, PTL

\* In a function that is never called, the uses of an object behind a call that
\* passes it depend on a store of the callee that may go there, if there is one;
\* of several stores into the same field one is kept.
THEOREM StoresReachAll == Spec => []StoresReachRoot
<1>1. IInv => StoresReachRoot
  <2> SUFFICES ASSUME IInv, phase = "done", NEW p \in CallPairs, Callers(p[1][1]) = {},
                      NEW o \in Range(At(p[1]).args), NEW x \in Behind(p[1])
               PROVE  /\ Is(x, "gep") /\ Base(At(x).args[1]) = o =>
                           \A t \in StoresIntoField(p[2], o, At(x).off) :
                             \E s \in StoresIntoField(p[2], o, At(x).off) : <<"DD", s, x>> \in DOMAIN dd
                      /\ ~Is(x, "gep") /\ o \in uses[x] \ puse[x] =>
                           \A t \in StoresInto(p[2], o) : \E s \in StoresInto(p[2], o) : <<"DD", s, x>> \in DOMAIN dd
    BY DEF StoresReachRoot
  <2>0. PICK g : g = p[2]
    OBVIOUS
  <2>1. PhaseInv /\ InterInv /\ CallsInv /\ DuInv /\ prog \in Programs
    BY DEF IInv, PhaseInv
  <2>2. p \in CallPairs \ (todo \cup more \cup {cur})
    <3>1. p # <<>>
      BY <2>1, CallPairFacts
    <3> QED
      BY <2>1, <3>1 DEF InterInv
  <2>3. StoresReach(g, x)
    BY <2>0, <2>1, <2>2 DEF CallsInv
  <2>4. g \in Func /\ p[1] \in Callers(g) /\ IsActualPara(g, o)
    BY <2>0, <2>1, CallPairFacts DEF IsActualPara
  <2>5. ASSUME NEW s \in StoresInto(g, o)
        PROVE  ActKey(At(s).args[2], o) \in DOMAIN actSet[g] /\ s \in Inst
    <3>1. s \in InstsOf(g) /\ Is(s, "store") /\ o \in pdef[s]
      BY DEF StoresInto
    <3>2. s \in Inst /\ s[1] = g
      BY <2>1, <2>4, <3>1, OneFunction
    <3> QED
      BY <2>1, <2>4, <3>1, <3>2 DEF DuInv
  <2>6. ASSUME NEW k \in DOMAIN actSet[g], k[1] = o
        PROVE  actSet[g][k] \in StoresInto(g, o) /\ k = ActKey(At(actSet[g][k]).args[2], o)
    <3>1. Stored(g, k, actSet[g][k])
      BY <2>1, <2>4 DEF DuInv
    <3>2. actSet[g][k] \in Inst
      BY <2>1, <2>4, <3>1, OneFunction DEF Stored
    <3> QED
      BY <2>6, <3>1, <3>2 DEF Stored, StoresInto, Is
  <2>7. ASSUME Is(x, "gep"), Base(At(x).args[1]) = o, NEW s \in StoresIntoField(g, o, At(x).off)
        PROVE  \E t \in StoresIntoField(g, o, At(x).off) : <<"DD", t, x>> \in DOMAIN dd
    <3>1. s \in StoresInto(g, o) /\ IsFirst(At(s).args[2]) /\ At(At(s).args[2]).off = At(x).off
      BY DEF StoresIntoField
    <3>2. Field(x) = <<o, At(x).off>>
      BY <2>7 DEF Field
    <3>3. At(s).args[2] \in Inst
      BY <3>1 DEF IsFirst, Is
    <3>4. ActKey(At(s).args[2], o) = Field(x)
      BY <3>1, <3>2, <3>3 DEF ActKey
    <3>5. Field(x) \in DOMAIN actSet[g]
      BY <2>5, <3>1, <3>4
    <3>6. PICK t : t = actSet[g][Field(x)]
      OBVIOUS
    <3>7. t \in StoresInto(g, o) /\ Field(x) = ActKey(At(t).args[2], o)
      <4>1. Field(x)[1] = o
        BY <3>2
      <4> QED
        BY <2>6, <3>5, <3>6, <4>1
    <3>8. At(x).off # None
      <4>1. x \in Inst /\ At(x).op = "gep"
        BY <2>7 DEF Is
      <4> QED
        BY <2>1, <4>1, InstFacts
    <3>9. t \in StoresIntoField(g, o, At(x).off)
      <4>1. (IF At(t).args[2] \in Inst /\ IsFirst(At(t).args[2]) THEN At(At(t).args[2]).off ELSE None) = At(x).off
        BY <3>2, <3>7 DEF ActKey
      <4> QED
        BY <3>7, <3>8, <4>1 DEF StoresIntoField
    <3>10. <<<<"DD", t, x>>, At(t).args[2]>> \in Related(g, x)
      BY <2>7, <3>5, <3>6 DEF Related
    <3>11. <<"DD", t, x>> \in DOMAIN dd
      BY <2>3, <3>10 DEF StoresReach
    <3> QED
      BY <3>9, <3>11
  <2>8. ASSUME ~Is(x, "gep"), o \in uses[x] \ puse[x], NEW s \in StoresInto(g, o)
        PROVE  \E t \in StoresInto(g, o) : <<"DD", t, x>> \in DOMAIN dd
    <3>1. PICK l \in DOMAIN actSet[g] : l[1] = o
      <4>1. ActKey(At(s).args[2], o)[1] = o
        BY DEF ActKey
      <4> QED
        BY <2>5, <4>1
    <3>2. PICK k \in DOMAIN actSet[g] : k[1] = o /\ (<<o, None>> \in DOMAIN actSet[g] => k[2] = None)
      <4>1. CASE <<o, None>> \in DOMAIN actSet[g]
        <5>1. <<o, None>>[1] = o /\ <<o, None>>[2] = None
          OBVIOUS
        <5> QED
          BY <4>1, <5>1
      <4>2. CASE <<o, None>> \notin DOMAIN actSet[g]
        BY <3>1, <4>2
      <4> QED
        BY <4>1, <4>2
    <3>3. <<<<"DD", actSet[g][k], x>>, k[1]>> \in Related(g, x)
      BY <2>8, <3>2 DEF Related
    <3>4. <<"DD", actSet[g][k], x>> \in DOMAIN dd
      BY <2>3, <3>3 DEF StoresReach
    <3> QED
      BY <2>6, <3>2, <3>4
  <2> QED
    BY <2>0, <2>7, <2>8
<1> QED
  BY <1>1, Invariance, PTL

\* The direct definitions of an actual parameter within the caller that reach
\* the call reach the only store of the formal one in the callee, if no earlier
\* parameter is the same.
THEOREM ActualsReachAll == Spec => []ActualsReachFormals
<1>1. IInv => ActualsReachFormals
  <2> SUFFICES ASSUME IInv, phase = "done", NEW p \in CallPairs, NEW d \in Inst,
                      NEW k \in DOMAIN At(p[1]).args \cap DOMAIN prog.formals[p[2]],
                      d[1] = p[1][1], ddef[d] = {At(p[1]).args[k]}, p[1] \in ReachedBy(d),
                      \A j \in 1 .. k - 1 : At(p[1]).args[j] # At(p[1]).args[k],
                      NEW x \in Inst,
                      {y \in InstsOf(p[2]) : Is(y, "store") /\ At(y).args[1] = prog.formals[p[2]][k]} = {x}
               PROVE  <<"DDCall", d, x>> \in DOMAIN dd
    BY DEF ActualsReachFormals
  <2>1. PhaseInv /\ InterInv /\ CallsInv
    BY DEF IInv
  <2>2. p \in CallPairs \ (todo \cup more \cup {cur})
    <3>1. p # <<>>
      BY <2>1, CallPairFacts DEF PhaseInv
    <3> QED
      BY <2>1, <3>1 DEF InterInv
  <2>3. ActualsPassed(p)
    BY <2>1, <2>2 DEF CallsInv
  <2>4. PICK q : q = prog.formals[p[2]][k]
    OBVIOUS
  <2>5. At(p[1]).args[k] \in Range(At(p[1]).args) /\ q \in Formal(p[1], p[2], At(p[1]).args[k])
    BY <2>4 DEF Range, Formal
  <2>6. x \in FpInst(p[2], q)
    <3>1. \A y \in InstsOf(p[2]) : Is(y, "store") /\ At(y).args[1] = q <=> y = x
      BY <2>4
    <3>2. x \in InstsOf(p[2]) /\ q \in Range(prog.formals[p[2]])
      BY <2>4 DEF Range
    <3>3. x[2] \in Nat
      BY <2>1, InstFacts DEF PhaseInv
    <3> QED
      BY <3>1, <3>2, <3>3 DEF FpInst
  <2> QED
    BY <2>3, <2>5, <2>6 DEF ActualsPassed
<1> QED
  BY <1>1, Invariance, PTL
=============================================================================

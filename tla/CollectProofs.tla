--------------------------- MODULE CollectProofs ---------------------------
(***************************************************************************)
(* The collection of constraints comes to its end for every set of legal   *)
(* programs: no look-up that an assertion checks answers 0, unless the     *)
(* program has what the collection does not support.  Values that are      *)
(* asked for get their nodes in time: globals and functions before any     *)
(* initializer, what a function returns and its parameters before any      *)
(* call, the results of a function before its first instruction.  And what *)
(* it hands on to the solver is a program as the solver takes it.          *)
(***************************************************************************)
EXTENDS Collect, NaturalsInduction, WellFoundedInduction, TLAPS

-----------------------------------------------------------------------------
(* Folds *)

\* A set of numbers that holds zero, and each number after one of its own up
\* to n, holds all numbers up to n.
LEMMA UpTo ==
  ASSUME NEW n \in Nat, NEW P, 0 \in P, \A k \in 1 .. n : k - 1 \in P => k \in P
  PROVE  \A k \in 0 .. n : k \in P
<1> SUFFICES ASSUME NEW k0 \in 0 .. n, k0 \notin P
             PROVE  FALSE
  OBVIOUS
<1> DEFINE T == {k \in 0 .. n : k \notin P}
<1>1. T \in SUBSET Nat /\ T # {}
  BY DEF T
<1>2. PICK m \in T : \A k \in T : <<k, m>> \notin OpToRel(<,Nat)
  <2> HIDE DEF T
  <2> QED BY <1>1, WFMin, NatLessThanWellFounded, Zenon
<1>3. \A k \in T : ~(k < m)
  BY <1>1, <1>2 DEF OpToRel
<1>4. m \in 0 .. n /\ m \notin P /\ m # 0
  BY DEF T
<1>5. m - 1 \in 0 .. n /\ m - 1 < m /\ m \in 1 .. n
  BY <1>4
<1>6. m - 1 \in P
  BY <1>3, <1>5 DEF T
<1> QED
  BY <1>4, <1>5, <1>6

\* What Max picks from a nonempty set of numbers up to n.
LEMMA Greatest ==
  ASSUME NEW n \in Nat, NEW S \in SUBSET (1 .. n), S # {}
  PROVE  Max(S) \in S /\ \A y \in S : Max(S) >= y
<1> DEFINE T == {k \in 0 .. n : n - k \in S}
<1>1. T \in SUBSET Nat /\ T # {}
  <2>1. PICK x \in S : TRUE
    OBVIOUS
  <2>2. n - x \in 0 .. n /\ n - (n - x) = x
    OBVIOUS
  <2>3. n - x \in T
    BY <2>1, <2>2 DEF T
  <2>4. T \in SUBSET Nat
    BY DEF T
  <2> HIDE DEF T
  <2> QED BY <2>3, <2>4
<1>2. PICK m \in T : \A k \in T : <<k, m>> \notin OpToRel(<,Nat)
  <2> HIDE DEF T
  <2> QED BY <1>1, WFMin, NatLessThanWellFounded, Zenon
<1>3. \A k \in T : ~(k < m)
  BY <1>1, <1>2 DEF OpToRel
<1>4. n - m \in S /\ m \in 0 .. n
  BY DEF T
<1>5. ASSUME NEW y \in S
      PROVE  n - m >= y
  <2>1. n - y \in 0 .. n /\ n - (n - y) = y
    OBVIOUS
  <2>2. n - y \in T
    BY <2>1 DEF T
  <2> HIDE DEF T
  <2> QED BY <1>3, <1>4, <2>1, <2>2
<1>6. \E x \in S : \A y \in S : x >= y
  BY <1>4, <1>5
<1> QED
  BY <1>6 DEF Max

\* The greatest of the numbers up to k, and what is left without it.
LEMMA Prefix ==
  ASSUME NEW n \in Nat, NEW k \in 1 .. n
  PROVE  /\ (1 .. k) \in SUBSET (1 .. n) /\ (1 .. k) # {}
         /\ Max(1 .. k) = k /\ (1 .. k) \ {k} = 1 .. k - 1
<1>1. (1 .. k) \in SUBSET (1 .. n) /\ (1 .. k) # {} /\ (1 .. k) \ {k} = 1 .. k - 1 /\ k \in 1 .. k
  OBVIOUS
<1>2. Max(1 .. k) \in 1 .. k /\ \A y \in 1 .. k : Max(1 .. k) >= y
  BY <1>1, Greatest
<1> QED
  BY <1>1, <1>2

\* What solves the recursion of FoldLeft: the fold over every set of places of
\* a sequence of length n, where Op[k][a] is a combined with the element at k.
Folding(h, n, base, Op) ==
  h = [s \in SUBSET (1 .. n) |-> IF s = {} THEN base ELSE Op[Max(s)][h[s \ {Max(s)}]]]

\* The recursion has a solution.
LEMMA FoldExists ==
  ASSUME NEW n \in Nat, NEW A, NEW base \in A, NEW Op \in [1 .. n -> [A -> A]]
  PROVE  \E h \in [SUBSET (1 .. n) -> A] : Folding(h, n, base, Op)
<1> DEFINE Upto(k) == SUBSET (1 .. k)
           Solves(h, k) == h = [s \in Upto(k) |-> IF s = {} THEN base ELSE Op[Max(s)][h[s \ {Max(s)}]]]
           P == {k \in 0 .. n : \E h \in [Upto(k) -> A] : Solves(h, k)}
<1>1. 0 \in P
  <2> DEFINE h == [s \in Upto(0) |-> base]
  <2>1. Upto(0) = {{}}
    OBVIOUS
  <2>2. h \in [Upto(0) -> A] /\ Solves(h, 0)
    BY <2>1
  <2> QED BY <2>2
<1>2. ASSUME NEW k \in 1 .. n, k - 1 \in P
      PROVE  k \in P
  <2>1. PICK g \in [Upto(k - 1) -> A] : Solves(g, k - 1)
    BY <1>2
  <2> DEFINE h == [s \in Upto(k) |-> IF s \in Upto(k - 1) THEN g[s] ELSE Op[k][g[s \ {k}]]]
  <2>2. ASSUME NEW s \in Upto(k)
        PROVE  /\ h[s] \in A
               /\ h[s] = IF s = {} THEN base ELSE Op[Max(s)][h[s \ {Max(s)}]]
    <3>1. CASE s = {}
      <4>1. s \in Upto(k - 1)
        BY <3>1
      <4>2. h[s] = g[s] /\ g[s] = base
        BY <4>1, <2>1, <3>1
      <4> QED BY <3>1, <4>2
    <3>2. CASE s # {} /\ s \in Upto(k - 1)
      <4> s \in SUBSET (1 .. n)
        OBVIOUS
      <4>1. Max(s) \in s
        BY <3>2, Greatest
      <4>2. s \ {Max(s)} \in Upto(k - 1) /\ s \ {Max(s)} \in Upto(k)
        BY <3>2
      <4>3. h[s] = g[s] /\ h[s \ {Max(s)}] = g[s \ {Max(s)}]
        BY <3>2, <4>2
      <4>4. g[s] = Op[Max(s)][g[s \ {Max(s)}]]
        BY <2>1, <3>2
      <4> QED BY <3>2, <4>3, <4>4, <2>1
    <3>3. CASE s \notin Upto(k - 1)
      <4>1. k \in s /\ s # {} /\ s \ {k} \in Upto(k - 1) /\ s \ {k} \in Upto(k)
        BY <3>3
      <4>2. s \in SUBSET (1 .. n)
        OBVIOUS
      <4>3. Max(s) \in s /\ \A y \in s : Max(s) >= y
        BY <4>1, <4>2, Greatest
      <4>4. Max(s) = k
        <5>1. Max(s) \in 1 .. k /\ Max(s) >= k
          BY <4>1, <4>3
        <5> QED BY <5>1
      <4>5. h[s] = Op[k][g[s \ {k}]] /\ h[s \ {k}] = g[s \ {k}] /\ g[s \ {k}] \in A
        BY <3>3, <4>1, <2>1
      <4>6. Op[k] \in [A -> A]
        OBVIOUS
      <4> HIDE DEF h
      <4> QED BY <4>1, <4>4, <4>5, <4>6
    <3> QED BY <3>1, <3>2, <3>3
  <2>3. h \in [Upto(k) -> A]
    BY <2>2
  <2>4. Solves(h, k)
    <3>1. h = [s \in Upto(k) |-> h[s]]
      OBVIOUS
    <3> HIDE DEF h
    <3> QED BY <2>2, <3>1
  <2> HIDE DEF h
  <2>5. \E f \in [Upto(k) -> A] : Solves(f, k)
    BY <2>3, <2>4
  <2> HIDE DEF Upto, Solves
  <2> QED BY <2>5
<1>3. n \in P
  <2> HIDE DEF P
  <2>1. \A k \in 0 .. n : k \in P
    BY <1>1, <1>2, UpTo, Zenon
  <2> QED BY <2>1
<1> QED
  BY <1>3 DEF Folding

\* it[1 .. k] is what a fold has after k elements ...
StepsBy(it, n, A, Op) == \A k \in 1 .. n : it[1 .. k - 1] \in A => it[1 .. k] = Op[k][it[1 .. k - 1]]
\* ... and each step leads from one of the sets PP to the next,
Leads(n, Op, PP) == \A k \in 1 .. n : \A a \in PP[k - 1] : Op[k][a] \in PP[k]

\* and so the fold is in the last of them.
LEMMA FoldKeeps ==
  ASSUME NEW n \in Nat, NEW A, NEW PP \in [0 .. n -> SUBSET A], NEW Op \in [1 .. n -> [A -> A]],
         NEW it, it[{}] \in PP[0],
         StepsBy(it, n, A, Op), Leads(n, Op, PP)
  PROVE  it[1 .. n] \in PP[n]
<1> DEFINE P == {k \in 0 .. n : it[1 .. k] \in PP[k]}
<1>1. 0 \in P
  <2>1. 1 .. 0 = {}
    OBVIOUS
  <2> QED BY <2>1
<1>2. ASSUME NEW k \in 1 .. n, k - 1 \in P
      PROVE  k \in P
  <2>1. k - 1 \in 0 .. n /\ it[1 .. k - 1] \in PP[k - 1]
    BY <1>2
  <2>2. it[1 .. k - 1] \in A
    BY <2>1
  <2>3. it[1 .. k] = Op[k][it[1 .. k - 1]]
    BY <2>2 DEF StepsBy
  <2>4. it[1 .. k] \in PP[k]
    BY <2>1, <2>3 DEF Leads
  <2> QED BY <2>4
<1>3. n \in P
  <2> HIDE DEF P
  <2>1. \A k \in 0 .. n : k \in P
    BY <1>1, <1>2, UpTo, Zenon
  <2> QED BY <2>1
<1> QED
  BY <1>3

-----------------------------------------------------------------------------
(* The tables *)

\* What a node is named after.
Labels == STRING \cup {NULL, UNKNOWN}

\* Tables, constraints and all over the first m nodes; the nodes of a value
\* and of an object are never 0.
Types == {E_ADDR_OF, E_COPY, E_STORE, E_LOAD}
Over(S) == UNION {[D -> S] : D \in SUBSET STRING}
TableOver(m) == Over(1 .. m - 1)
EdgeOver(m) == [type : Types, src : 0 .. m - 1, dst : 0 .. m - 1]
ConstraintsOver(m) == Seq(EdgeOver(m))
TablesOver(m) ==
  [nodes : Seq(Labels), value : TableOver(m), object : TableOver(m), ret : TableOver(m),
   vararg : TableOver(m), constraints : ConstraintsOver(m), ok : BOOLEAN]
Tables == {a \in UNION {TablesOver(m) : m \in Nat} : NewId(a) >= 4 /\ a \in TablesOver(NewId(a))}

\* The nodes there are.
Ids(a) == 0 .. NewId(a) - 1

Grows(a, b) ==
  /\ DOMAIN a.value \subseteq DOMAIN b.value /\ DOMAIN a.object \subseteq DOMAIN b.object
  /\ DOMAIN a.ret \subseteq DOMAIN b.ret /\ DOMAIN a.vararg \subseteq DOMAIN b.vararg
  /\ NewId(a) <= NewId(b)

\* From a to b nothing is lost, and no assertion fails but for what is not
\* supported.
Keeps(a, b) == b \in Tables /\ Grows(a, b) /\ (a.ok => b.ok \/ Unsupported)

LEMMA TablesAre ==
  /\ \A a \in Tables : NewId(a) \in Nat \ {0} /\ NewId(a) >= 4 /\ a \in TablesOver(NewId(a))
  /\ \A m \in Nat : \A a \in TablesOver(m) : m >= 4 /\ NewId(a) = m => a \in Tables
<1>1. \A m \in Nat : \A a \in TablesOver(m) : NewId(a) \in Nat
  BY DEF TablesOver, NewId
<1> QED
  BY <1>1 DEF Tables

LEMMA OverWider ==
  ASSUME NEW S, NEW T, S \subseteq T
  PROVE  Over(S) \subseteq Over(T)
<1> SUFFICES ASSUME NEW t \in Over(S)
             PROVE  t \in Over(T)
  OBVIOUS
<1>1. PICK D \in SUBSET STRING : t \in [D -> S]
  BY DEF Over
<1>2. t \in [D -> T]
  BY <1>1
<1> QED
  BY <1>2 DEF Over

LEMMA Wider ==
  ASSUME NEW m \in Nat, NEW n \in Nat, m <= n
  PROVE  TableOver(m) \subseteq TableOver(n) /\ ConstraintsOver(m) \subseteq ConstraintsOver(n)
<1>1. 1 .. m - 1 \subseteq 1 .. n - 1 /\ 0 .. m - 1 \subseteq 0 .. n - 1
  OBVIOUS
<1>2. EdgeOver(m) \subseteq EdgeOver(n)
  BY <1>1 DEF EdgeOver
<1>3. TableOver(m) \subseteq TableOver(n)
  BY <1>1, OverWider DEF TableOver
<1>4. \A c \in ConstraintsOver(m) : c \in ConstraintsOver(n)
  BY <1>2 DEF ConstraintsOver
<1> QED
  BY <1>3, <1>4

\* A node is put into a table.
LEMMA PutDomain == \A t, v, id : DOMAIN Put(t, v, id) = DOMAIN t \cup {v}
BY DEF Put

LEMMA PutOver ==
  \A S : \A t \in Over(S) : \A v \in STRING : \A id \in S : Put(t, v, id) \in Over(S)
<1> SUFFICES ASSUME NEW S, NEW t \in Over(S), NEW v \in STRING, NEW id \in S
             PROVE  Put(t, v, id) \in Over(S)
  OBVIOUS
<1>1. PICK D \in SUBSET STRING : t \in [D -> S]
  BY DEF Over
<1>2. D \cup {v} \in SUBSET STRING /\ Put(t, v, id) \in [D \cup {v} -> S]
  BY <1>1 DEF Put
<1> QED
  BY <1>2 DEF Over

\* The next node, or one there is, is put into a table.
LEMMA PutTyped ==
  ASSUME NEW m \in Nat \ {0}, NEW t \in TableOver(m), NEW v \in STRING
  PROVE  Put(t, v, m) \in TableOver(m + 1) /\ \A id \in 1 .. m - 1 : Put(t, v, id) \in TableOver(m)
<1> DEFINE S == 1 .. m - 1
           T == 1 .. (m + 1) - 1
<1>1. t \in Over(T) /\ m \in T
  BY Wider DEF TableOver
<1>2. t \in Over(S) /\ TableOver(m) = Over(S) /\ TableOver(m + 1) = Over(T)
  BY DEF TableOver
<1> HIDE DEF T
<1>3. Put(t, v, m) \in Over(T)
  BY <1>1, PutOver
<1> HIDE DEF S
<1>4. \A id \in S : Put(t, v, id) \in Over(S)
  BY <1>2, PutOver
<1> QED
  BY <1>2, <1>3, <1>4 DEF S

\* The next node is there, and the tables may name it.
LEMMA WiderByOne ==
  ASSUME NEW a \in Tables
  PROVE  /\ a.value \in TableOver(NewId(a) + 1) /\ a.object \in TableOver(NewId(a) + 1)
         /\ a.ret \in TableOver(NewId(a) + 1) /\ a.vararg \in TableOver(NewId(a) + 1)
         /\ a.constraints \in ConstraintsOver(NewId(a) + 1)
<1>1. NewId(a) \in Nat /\ NewId(a) + 1 \in Nat /\ NewId(a) <= NewId(a) + 1 /\ a \in TablesOver(NewId(a))
  BY TablesAre
<1>2. /\ TableOver(NewId(a)) \subseteq TableOver(NewId(a) + 1)
      /\ ConstraintsOver(NewId(a)) \subseteq ConstraintsOver(NewId(a) + 1)
  BY <1>1, Wider
<1> QED
  BY <1>1, <1>2 DEF TablesOver

LEMMA NodeAdded ==
  ASSUME NEW a \in Tables, NEW b \in TablesOver(NewId(a) + 1), Len(b.nodes) = NewId(a) + 1
  PROVE  b \in Tables /\ NewId(b) = NewId(a) + 1
BY TablesAre DEF NewId

LEMMA KeepsFacts ==
  /\ \A a \in Tables : Keeps(a, a)
  /\ \A a \in Tables : \A b, c : Keeps(a, b) /\ Keeps(b, c) => Keeps(a, c)
  /\ \A a \in Tables : \A b : Keeps(a, b) => b \in Tables /\ Ids(a) \subseteq Ids(b) /\ NewId(a) \in 0 .. NewId(b)
<1>1. \A a \in Tables : NewId(a) \in Nat
  BY TablesAre
<1> QED
  BY <1>1 DEF Keeps, Grows, Ids

LEMMA ValueNode ==
  ASSUME NEW a \in Tables, NEW v \in STRING
  PROVE  LET b == CreateValueNode(a, v)
         IN  Keeps(a, b) /\ v \in DOMAIN b.value /\ 0 .. NewId(a) \subseteq Ids(b)
<1> DEFINE b == CreateValueNode(a, v)
           t == Put(a.value, v, NewId(a))
           ns == Append(a.nodes, v)
           m == NewId(a) + 1
<1>1. /\ NewId(a) \in Nat \ {0} /\ NewId(a) \in 1 .. NewId(a) /\ a.value \in TableOver(NewId(a))
      /\ a \in TablesOver(NewId(a))
  BY TablesAre DEF TablesOver
<1>2. t \in TableOver(m) /\ DOMAIN t = DOMAIN a.value \cup {v}
  BY <1>1, PutTyped, PutDomain
<1>3. ns \in Seq(Labels) /\ Len(ns) = m
  BY TablesAre DEF TablesOver, NewId, Labels
<1>4. b = [a EXCEPT !.nodes = ns, !.value = t]
  BY <1>1 DEF CreateValueNode, AddCstNode, NewId, TablesOver
<1> HIDE DEF b, t, ns
<1>5. [a EXCEPT !.nodes = ns, !.value = t] \in TablesOver(m)
  BY <1>1, <1>2, <1>3, WiderByOne DEF TablesOver
<1>6. b \in Tables /\ NewId(b) = m
  <2>1. b.nodes = ns
    BY <1>1, <1>4 DEF TablesOver
  <2> QED BY <1>3, <1>4, <1>5, <2>1, NodeAdded
<1>7. Grows(a, b) /\ DOMAIN b.value = DOMAIN t /\ b.ok = a.ok
  BY <1>1, <1>2, <1>4, <1>6 DEF Grows, TablesOver
<1>8. 0 .. NewId(a) \subseteq Ids(b)
  BY <1>1, <1>6 DEF Ids
<1> QED
  BY <1>2, <1>6, <1>7, <1>8 DEF Keeps, b

LEMMA ObjNode ==
  ASSUME NEW a \in Tables, NEW v \in STRING
  PROVE  LET b == CreateObjNode(a, v)
         IN  Keeps(a, b) /\ v \in DOMAIN b.object /\ 0 .. NewId(a) \subseteq Ids(b)
<1> DEFINE b == CreateObjNode(a, v)
           t == Put(a.object, v, NewId(a))
           ns == Append(a.nodes, v)
           m == NewId(a) + 1
<1>1. /\ NewId(a) \in Nat \ {0} /\ NewId(a) \in 1 .. NewId(a) /\ a.object \in TableOver(NewId(a))
      /\ a \in TablesOver(NewId(a))
  BY TablesAre DEF TablesOver
<1>2. t \in TableOver(m) /\ DOMAIN t = DOMAIN a.object \cup {v}
  BY <1>1, PutTyped, PutDomain
<1>3. ns \in Seq(Labels) /\ Len(ns) = m
  BY TablesAre DEF TablesOver, NewId, Labels
<1>4. b = [a EXCEPT !.nodes = ns, !.object = t]
  BY <1>1 DEF CreateObjNode, AddCstNode, NewId, TablesOver
<1> HIDE DEF b, t, ns
<1>5. [a EXCEPT !.nodes = ns, !.object = t] \in TablesOver(m)
  BY <1>1, <1>2, <1>3, WiderByOne DEF TablesOver
<1>6. b \in Tables /\ NewId(b) = m
  <2>1. b.nodes = ns
    BY <1>1, <1>4 DEF TablesOver
  <2> QED BY <1>3, <1>4, <1>5, <2>1, NodeAdded
<1>7. Grows(a, b) /\ DOMAIN b.object = DOMAIN t /\ b.ok = a.ok
  BY <1>1, <1>2, <1>4, <1>6 DEF Grows, TablesOver
<1>8. 0 .. NewId(a) \subseteq Ids(b)
  BY <1>1, <1>6 DEF Ids
<1> QED
  BY <1>2, <1>6, <1>7, <1>8 DEF Keeps, b

LEMMA RetNode ==
  ASSUME NEW a \in Tables, NEW v \in STRING
  PROVE  LET b == CreateRetNode(a, v)
         IN  Keeps(a, b) /\ v \in DOMAIN b.ret /\ 0 .. NewId(a) \subseteq Ids(b)
<1> DEFINE b == CreateRetNode(a, v)
           t == Put(a.ret, v, NewId(a))
           ns == Append(a.nodes, v)
           m == NewId(a) + 1
<1>1. /\ NewId(a) \in Nat \ {0} /\ NewId(a) \in 1 .. NewId(a) /\ a.ret \in TableOver(NewId(a))
      /\ a \in TablesOver(NewId(a))
  BY TablesAre DEF TablesOver
<1>2. t \in TableOver(m) /\ DOMAIN t = DOMAIN a.ret \cup {v}
  BY <1>1, PutTyped, PutDomain
<1>3. ns \in Seq(Labels) /\ Len(ns) = m
  BY TablesAre DEF TablesOver, NewId, Labels
<1>4. b = [a EXCEPT !.nodes = ns, !.ret = t]
  BY <1>1 DEF CreateRetNode, AddCstNode, NewId, TablesOver
<1> HIDE DEF b, t, ns
<1>5. [a EXCEPT !.nodes = ns, !.ret = t] \in TablesOver(m)
  BY <1>1, <1>2, <1>3, WiderByOne DEF TablesOver
<1>6. b \in Tables /\ NewId(b) = m
  <2>1. b.nodes = ns
    BY <1>1, <1>4 DEF TablesOver
  <2> QED BY <1>3, <1>4, <1>5, <2>1, NodeAdded
<1>7. Grows(a, b) /\ DOMAIN b.ret = DOMAIN t /\ b.ok = a.ok
  BY <1>1, <1>2, <1>4, <1>6 DEF Grows, TablesOver
<1>8. 0 .. NewId(a) \subseteq Ids(b)
  BY <1>1, <1>6 DEF Ids
<1> QED
  BY <1>2, <1>6, <1>7, <1>8 DEF Keeps, b

LEMMA VarArgNode ==
  ASSUME NEW a \in Tables, NEW v \in STRING
  PROVE  LET b == CreateVarArgNode(a, v)
         IN  Keeps(a, b) /\ v \in DOMAIN b.vararg /\ 0 .. NewId(a) \subseteq Ids(b)
<1> DEFINE b == CreateVarArgNode(a, v)
           t == Put(a.vararg, v, NewId(a))
           ns == Append(a.nodes, v)
           m == NewId(a) + 1
<1>1. /\ NewId(a) \in Nat \ {0} /\ NewId(a) \in 1 .. NewId(a) /\ a.vararg \in TableOver(NewId(a))
      /\ a \in TablesOver(NewId(a))
  BY TablesAre DEF TablesOver
<1>2. t \in TableOver(m) /\ DOMAIN t = DOMAIN a.vararg \cup {v}
  BY <1>1, PutTyped, PutDomain
<1>3. ns \in Seq(Labels) /\ Len(ns) = m
  BY TablesAre DEF TablesOver, NewId, Labels
<1>4. b = [a EXCEPT !.nodes = ns, !.vararg = t]
  BY <1>1 DEF CreateVarArgNode, AddCstNode, NewId, TablesOver
<1> HIDE DEF b, t, ns
<1>5. [a EXCEPT !.nodes = ns, !.vararg = t] \in TablesOver(m)
  BY <1>1, <1>2, <1>3, WiderByOne DEF TablesOver
<1>6. b \in Tables /\ NewId(b) = m
  <2>1. b.nodes = ns
    BY <1>1, <1>4 DEF TablesOver
  <2> QED BY <1>3, <1>4, <1>5, <2>1, NodeAdded
<1>7. Grows(a, b) /\ DOMAIN b.vararg = DOMAIN t /\ b.ok = a.ok
  BY <1>1, <1>2, <1>4, <1>6 DEF Grows, TablesOver
<1>8. 0 .. NewId(a) \subseteq Ids(b)
  BY <1>1, <1>6 DEF Ids
<1> QED
  BY <1>2, <1>6, <1>7, <1>8 DEF Keeps, b

\* A node for no value: the tables of names stay.
LEMMA CstNode ==
  ASSUME NEW a \in Tables, NEW v \in Labels
  PROVE  LET b == AddCstNode(a, v) IN Keeps(a, b) /\ 0 .. NewId(a) \subseteq Ids(b)
<1> DEFINE b == AddCstNode(a, v)
           ns == Append(a.nodes, v)
           m == NewId(a) + 1
<1>1. NewId(a) \in Nat \ {0} /\ a \in TablesOver(NewId(a))
  BY TablesAre
<1>2. ns \in Seq(Labels) /\ Len(ns) = m
  BY TablesAre DEF TablesOver, NewId
<1>3. b = [a EXCEPT !.nodes = ns]
  BY <1>1 DEF AddCstNode, TablesOver
<1> HIDE DEF b, ns
<1>4. [a EXCEPT !.nodes = ns] \in TablesOver(m)
  BY <1>1, <1>2, WiderByOne DEF TablesOver
<1>5. b \in Tables /\ NewId(b) = m
  <2>1. b.nodes = ns
    BY <1>1, <1>3 DEF TablesOver
  <2> QED BY <1>2, <1>3, <1>4, <2>1, NodeAdded
<1>6. Grows(a, b) /\ b.ok = a.ok
  BY <1>1, <1>3, <1>5 DEF Grows, TablesOver
<1>7. 0 .. NewId(a) \subseteq Ids(b)
  BY <1>1, <1>5 DEF Ids
<1> QED
  BY <1>5, <1>6, <1>7 DEF Keeps, b

LEMMA SpecialIds ==
  ASSUME NEW a \in Tables
  PROVE  /\ UniversalPtr \in Ids(a) /\ UniversalObj \in Ids(a) \ {0}
         /\ NullPtr \in Ids(a) \ {0} /\ NullObject \in Ids(a) \ {0}
<1>1. NewId(a) \in Nat /\ NewId(a) >= 4
  BY TablesAre
<1> QED
  BY <1>1 DEF Ids, UniversalPtr, UniversalObj, NullPtr, NullObject

LEMMA StringObject ==
  ASSUME NEW a \in Tables, NEW v \in STRING
  PROVE  LET b == [a EXCEPT !.object = Put(@, v, UniversalObj)]
         IN  Keeps(a, b) /\ v \in DOMAIN b.object
<1> DEFINE b == [a EXCEPT !.object = Put(@, v, UniversalObj)]
           t == Put(a.object, v, UniversalObj)
<1>1. a \in TablesOver(NewId(a)) /\ NewId(a) \in Nat \ {0} /\ NewId(a) >= 4
  BY TablesAre
<1>2. UniversalObj \in 1 .. NewId(a) - 1 /\ UniversalObj \in 1 .. NewId(a)
  BY <1>1 DEF UniversalObj
<1>3. t \in TableOver(NewId(a)) /\ DOMAIN t = DOMAIN a.object \cup {v}
  <2>1. a.object \in TableOver(NewId(a))
    BY <1>1 DEF TablesOver
  <2>2. t \in TableOver(NewId(a))
    <3> HIDE DEF UniversalObj
    <3> QED BY <1>1, <1>2, <2>1, PutTyped
  <2> QED BY <2>2, PutDomain
<1>4. b = [a EXCEPT !.object = t]
  BY <1>1 DEF TablesOver
<1> HIDE DEF t
<1>5. b \in TablesOver(NewId(a)) /\ NewId(b) = NewId(a)
  BY <1>1, <1>3, <1>4 DEF TablesOver, NewId
<1>6. b \in Tables
  BY <1>1, <1>5, TablesAre
<1>7. DOMAIN a.object \subseteq DOMAIN b.object /\ v \in DOMAIN b.object
      /\ b.value = a.value /\ b.ret = a.ret /\ b.vararg = a.vararg /\ b.ok = a.ok
  BY <1>1, <1>3, <1>4 DEF TablesOver
<1> HIDE DEF b
<1>8. Keeps(a, b)
  BY <1>1, <1>5, <1>6, <1>7 DEF Keeps, Grows
<1> QED
  BY <1>7, <1>8 DEF b

\* What a look-up answers.
LEMMA FindFacts ==
  ASSUME NEW a \in Tables, NEW t \in TableOver(NewId(a)), NEW v
  PROVE  Find(t, v) \in Ids(a) /\ (v \in DOMAIN t => t[v] \in Ids(a) /\ Find(t, v) # 0)
<1>1. PICK D \in SUBSET STRING : t \in [D -> 1 .. NewId(a) - 1]
  BY DEF TableOver, Over
<1>2. NewId(a) \in Nat /\ NewId(a) >= 4
  BY TablesAre
<1>3. v \in DOMAIN t => t[v] \in 1 .. NewId(a) - 1
  BY <1>1
<1>4. 0 \in Ids(a) /\ \A x \in 1 .. NewId(a) - 1 : x \in Ids(a) /\ x # 0
  BY <1>2 DEF Ids
<1> QED
  BY <1>3, <1>4 DEF Find

LEMMA NodeFacts ==
  ASSUME NEW a \in Tables, NEW v
  PROVE  /\ GetValueNode(a, v) \in Ids(a) /\ GetObjNode(a, v) \in Ids(a)
         /\ Find(a.ret, v) \in Ids(a) /\ Find(a.vararg, v) \in Ids(a)
         /\ v \in DOMAIN a.value \cup {NULL, UNDEF} /\ v # ADDRESS => GetValueNode(a, v) # 0
         /\ v \in DOMAIN a.object \cup {NULL, ADDRESS} => GetObjNode(a, v) # 0
         /\ v \in DOMAIN a.ret => Find(a.ret, v) # 0
         /\ v \in DOMAIN a.vararg => Find(a.vararg, v) # 0
<1>1. /\ a.value \in TableOver(NewId(a)) /\ a.object \in TableOver(NewId(a))
      /\ a.ret \in TableOver(NewId(a)) /\ a.vararg \in TableOver(NewId(a))
  BY TablesAre DEF TablesOver
<1>2. /\ Find(a.value, v) \in Ids(a) /\ Find(a.object, v) \in Ids(a)
      /\ Find(a.ret, v) \in Ids(a) /\ Find(a.vararg, v) \in Ids(a)
      /\ v \in DOMAIN a.value => Find(a.value, v) # 0
      /\ v \in DOMAIN a.object => Find(a.object, v) # 0
      /\ v \in DOMAIN a.ret => Find(a.ret, v) # 0
      /\ v \in DOMAIN a.vararg => Find(a.vararg, v) # 0
  BY <1>1, FindFacts
<1>3. GetValueNode(a, v) \in Ids(a) /\ (v \in DOMAIN a.value \cup {NULL, UNDEF} /\ v # ADDRESS => GetValueNode(a, v) # 0)
  BY <1>2, SpecialIds DEF GetValueNode
<1>4. GetObjNode(a, v) \in Ids(a) /\ (v \in DOMAIN a.object \cup {NULL, ADDRESS} => GetObjNode(a, v) # 0)
  BY <1>2, SpecialIds DEF GetObjNode
<1> QED
  BY <1>2, <1>3, <1>4

\* A value with a node keeps one.
LEMMA NodeStays ==
  ASSUME NEW a \in Tables, NEW b \in Tables, Grows(a, b), NEW v, GetValueNode(a, v) # 0
  PROVE  GetValueNode(b, v) # 0
<1>1. v \in DOMAIN a.value \cup {NULL, UNDEF} /\ (v # ADDRESS \/ v \in {NULL, UNDEF})
  BY DEF GetValueNode, Find, UniversalPtr
<1>2. v # ADDRESS
  BY <1>1 DEF NULL, UNDEF, ADDRESS
<1>3. v \in DOMAIN b.value \cup {NULL, UNDEF}
  BY <1>1 DEF Grows
<1> QED
  BY <1>2, <1>3, NodeFacts

-----------------------------------------------------------------------------
(* Constraints and assertions *)

LEMMA TypesAre == E_ADDR_OF \in Types /\ E_COPY \in Types /\ E_STORE \in Types /\ E_LOAD \in Types
BY DEF Types

\* What an assertion asks does not change the nodes.
LEMMA RequireSame ==
  ASSUME NEW a \in Tables, NEW id, NEW v
  PROVE  /\ NewId(Require(a, id)) = NewId(a) /\ GetValueNode(Require(a, id), v) = GetValueNode(a, v)
         /\ Ensured(Require(a, id), v) = Ensured(a, v)
<1>1. a \in TablesOver(NewId(a))
  BY TablesAre
<1>2. Require(a, id).nodes = a.nodes /\ Require(a, id).value = a.value
  BY <1>1 DEF Require, TablesOver
<1> QED
  BY <1>2 DEF NewId, GetValueNode, Ensured

LEMMA ConstraintKept ==
  ASSUME NEW a \in Tables, NEW t \in Types, NEW d \in Ids(a), NEW s \in Ids(a)
  PROVE  Keeps(a, AddConstraint(a, t, d, s))
<1> DEFINE b == AddConstraint(a, t, d, s)
           cs == Append(a.constraints, Cst(t, s, d))
<1>1. a \in TablesOver(NewId(a)) /\ NewId(a) \in Nat \ {0} /\ NewId(a) >= 4
  BY TablesAre
<1>2. Cst(t, s, d) \in EdgeOver(NewId(a))
  BY DEF Cst, Ids, EdgeOver
<1>3. a.constraints \in ConstraintsOver(NewId(a))
  BY <1>1 DEF TablesOver
<1>4. cs \in ConstraintsOver(NewId(a))
  BY <1>2, <1>3 DEF ConstraintsOver
<1>5. b = [a EXCEPT !.constraints = cs]
  BY <1>1 DEF AddConstraint, TablesOver
<1> HIDE DEF b, cs
<1>6. b \in TablesOver(NewId(a)) /\ NewId(b) = NewId(a)
  BY <1>1, <1>4, <1>5 DEF TablesOver, NewId
<1>7. b \in Tables
  BY <1>1, <1>6, TablesAre
<1>8. b.value = a.value /\ b.object = a.object /\ b.ret = a.ret /\ b.vararg = a.vararg /\ b.ok = a.ok
  BY <1>1, <1>5 DEF TablesOver
<1> QED
  BY <1>1, <1>6, <1>7, <1>8 DEF Keeps, Grows, b

LEMMA RequireKept ==
  ASSUME NEW a \in Tables, NEW id, id # 0 \/ Unsupported
  PROVE  Keeps(a, Require(a, id))
<1> DEFINE b == Require(a, id)
           k == (a.ok /\ id # 0)
<1>1. a \in TablesOver(NewId(a)) /\ NewId(a) \in Nat \ {0} /\ NewId(a) >= 4
  BY TablesAre
<1>2. k \in BOOLEAN
  OBVIOUS
<1>3. b = [a EXCEPT !.ok = k] /\ (b.ok <=> k)
  BY <1>1 DEF Require, TablesOver
<1>4. a.ok => k \/ Unsupported
  OBVIOUS
<1> HIDE DEF b, k
<1>5. b \in TablesOver(NewId(a)) /\ NewId(b) = NewId(a)
  BY <1>1, <1>2, <1>3 DEF TablesOver, NewId
<1>6. b \in Tables
  BY <1>1, <1>5, TablesAre
<1>7. b.value = a.value /\ b.object = a.object /\ b.ret = a.ret /\ b.vararg = a.vararg
  BY <1>1, <1>3 DEF TablesOver
<1>8. Grows(a, b)
  BY <1>1, <1>5, <1>7 DEF Grows
<1> QED
  BY <1>3, <1>4, <1>6, <1>8 DEF Keeps, b

LEMMA CopyKept ==
  ASSUME NEW a \in Tables, NEW d \in Ids(a), NEW s \in Ids(a), d # 0 \/ Unsupported, s # 0 \/ Unsupported
  PROVE  Keeps(a, Copy(a, d, s))
<1> DEFINE b == Require(a, d)
           c == Require(b, s)
<1>1. Keeps(a, b) /\ b \in Tables
  BY RequireKept DEF Keeps
<1>2. Keeps(b, c) /\ c \in Tables
  BY <1>1, RequireKept DEF Keeps
<1>3. Copy(a, d, s) = AddConstraint(c, E_COPY, d, s)
  BY DEF Copy
<1> HIDE DEF b, c
<1>4. Keeps(a, c) /\ d \in Ids(c) /\ s \in Ids(c)
  BY <1>1, <1>2, KeepsFacts
<1>5. Keeps(c, Copy(a, d, s))
  BY <1>2, <1>3, <1>4, ConstraintKept, TypesAre
<1> QED
  BY <1>4, <1>5, KeepsFacts

LEMMA EnsureKept ==
  ASSUME NEW a \in Tables, NEW v \in STRING
  PROVE  Keeps(a, EnsureNode(a, v)) /\ Ensured(a, v) \in Ids(EnsureNode(a, v))
<1>1. GetValueNode(a, v) \in Ids(a) /\ NewId(a) \in 0 .. NewId(a)
  BY NodeFacts, TablesAre
<1> QED
  BY <1>1, ValueNode, KeepsFacts DEF EnsureNode, Ensured

LEMMA ValueNodes ==
  ASSUME NEW a \in Tables, NEW s \in Seq(STRING)
  PROVE  /\ Keeps(a, CreateValueNodes(a, s))
         /\ \A k \in DOMAIN s : IsPtr(s[k]) => s[k] \in DOMAIN CreateValueNodes(a, s).value
<1> DEFINE n == Len(s)
           op(b, v) == IF IsPtr(v) THEN CreateValueNode(b, v) ELSE b
           Op == [k \in 1 .. n |-> [b \in Tables |-> op(b, s[k])]]
           Named1(b, k) == \A m \in 1 .. k : IsPtr(s[m]) => s[m] \in DOMAIN b.value
           PP == [k \in 0 .. n |-> {b \in Tables : Keeps(a, b) /\ Named1(b, k)}]
           Iter(f) == f = [S \in SUBSET DOMAIN s |-> IF S = {} THEN a ELSE op(f[S \ {Max(S)}], s[Max(S)])]
           it == CHOOSE f : Iter(f)
<1>1. DOMAIN s = 1 .. n /\ n \in Nat
  OBVIOUS
<1>2. CreateValueNodes(a, s) = it[1 .. n]
  BY <1>1 DEF FoldLeft, MapThenFoldSet, CreateValueNodes
<1>3. ASSUME NEW k \in 1 .. n, NEW b \in Tables
      PROVE  Keeps(b, op(b, s[k])) /\ (IsPtr(s[k]) => s[k] \in DOMAIN op(b, s[k]).value)
  <2>1. s[k] \in STRING
    OBVIOUS
  <2> QED BY <2>1, ValueNode, KeepsFacts
<1> HIDE DEF op
<1>4. Op \in [1 .. n -> [Tables -> Tables]]
  BY <1>3 DEF Keeps
<1> HIDE DEF n, it
<1>5. \A k \in 1 .. n, b \in Tables : Op[k][b] = op(b, s[k])
  OBVIOUS
<1> HIDE DEF Op
<1>6. PICK h \in [SUBSET (1 .. n) -> Tables] : Folding(h, n, a, Op)
  BY <1>1, <1>4, FoldExists
<1>7. Iter(h)
  <2>1. ASSUME NEW S \in SUBSET (1 .. n), S # {}
        PROVE  Op[Max(S)][h[S \ {Max(S)}]] = op(h[S \ {Max(S)}], s[Max(S)])
    <3>1. Max(S) \in 1 .. n
      BY <1>1, <2>1, Greatest
    <3>2. h[S \ {Max(S)}] \in Tables
      OBVIOUS
    <3> QED BY <1>5, <3>1, <3>2
  <2> QED BY <1>1, <1>6, <2>1 DEF Folding
<1>8. Iter(it)
  BY <1>7 DEF it
<1>9. it[{}] = a
  BY <1>8
<1>10. ASSUME NEW k \in 1 .. n
       PROVE  it[1 .. k] = op(it[1 .. k - 1], s[k])
  <2>1. (1 .. k) \in SUBSET DOMAIN s /\ (1 .. k) # {} /\ Max(1 .. k) = k /\ (1 .. k) \ {k} = 1 .. k - 1
    BY <1>1, Prefix
  <2> QED BY <1>8, <2>1
<1>11. StepsBy(it, n, Tables, Op)
  BY <1>5, <1>10 DEF StepsBy
<1> HIDE DEF Iter
<1>12. PP \in [0 .. n -> SUBSET Tables]
  OBVIOUS
<1>13. it[{}] \in PP[0]
  <2>1. a \in PP[0]
    BY <1>1, KeepsFacts
  <2> QED BY <1>9, <2>1
<1>14. ASSUME NEW k \in 1 .. n, NEW b \in PP[k - 1]
       PROVE  Op[k][b] \in PP[k]
  <2>1. k - 1 \in 0 .. n /\ k \in 0 .. n /\ \A m \in 1 .. k : m \in 1 .. k - 1 \/ m = k
    BY <1>1
  <2>2. b \in Tables /\ Keeps(a, b) /\ Named1(b, k - 1)
    BY <2>1
  <2>3. Op[k][b] = op(b, s[k])
    BY <1>5, <2>2
  <2>4. Keeps(b, Op[k][b]) /\ (IsPtr(s[k]) => s[k] \in DOMAIN Op[k][b].value)
    BY <1>3, <2>2, <2>3
  <2>5. Op[k][b] \in Tables /\ Keeps(a, Op[k][b])
    BY <2>2, <2>4, KeepsFacts DEF Keeps
  <2>6. Named1(Op[k][b], k)
    BY <2>1, <2>2, <2>4 DEF Keeps, Grows
  <2> HIDE DEF Named1
  <2> QED BY <2>1, <2>5, <2>6
<1>15. it[1 .. n] \in PP[n]
  <2> HIDE DEF PP
  <2>1. Leads(n, Op, PP)
    BY <1>14 DEF Leads
  <2> QED BY <1>1, <1>4, <1>11, <1>12, <1>13, <2>1, FoldKeeps
<1> QED
  BY <1>1, <1>2, <1>15

\* The elements of an initializer, each with an object.
LEMMA InitsKept ==
  ASSUME NEW a \in Tables, NEW o \in Ids(a), NEW init \in Seq(STRING),
         \A v \in ToSet(init) : v = ZERO \/ v \in DOMAIN a.object \cup {NULL, ADDRESS} \/ Unsupported
  PROVE  Keeps(a, AddGlbInitialCsts(a, o, init))
<1> DEFINE s == init
           n == Len(s)
           A == {b \in Tables : Keeps(a, b)}
           op(b, x) == AddGlbInitialCst(b, o, x)
           Op == [k \in 1 .. n |-> [b \in A |-> op(b, s[k])]]
           PP == [k \in 0 .. n |-> A]
           Iter(g) == g = [S \in SUBSET DOMAIN s |-> IF S = {} THEN a ELSE op(g[S \ {Max(S)}], s[Max(S)])]
           it == CHOOSE g : Iter(g)
<1>1. DOMAIN s = 1 .. n /\ n \in Nat
  OBVIOUS
<1>2. AddGlbInitialCsts(a, o, init) = it[1 .. n]
  BY <1>1 DEF FoldLeft, MapThenFoldSet, AddGlbInitialCsts
<1>3. ASSUME NEW k \in 1 .. n, NEW b \in Tables, Keeps(a, b)
      PROVE  Keeps(b, op(b, s[k]))
  <2>1. s[k] \in ToSet(init)
    BY <1>1 DEF ToSet
  <2> HIDE DEF s
  <2>2. GetObjNode(b, s[k]) \in Ids(b) /\ o \in Ids(b) /\ (s[k] = ZERO \/ GetObjNode(b, s[k]) # 0 \/ Unsupported)
    BY <1>3, <2>1, NodeFacts, KeepsFacts DEF Keeps, Grows
  <2>3. CASE s[k] = ZERO
    BY <2>2, <2>3, ConstraintKept, TypesAre, SpecialIds DEF AddGlbInitialCst
  <2>4. CASE s[k] # ZERO
    <3> DEFINE m == GetObjNode(b, s[k])
               c == Require(b, m)
    <3>1. Keeps(b, c) /\ c \in Tables /\ o \in Ids(c) /\ m \in Ids(c)
      BY <2>2, <2>4, RequireKept, KeepsFacts DEF Keeps
    <3>2. op(b, s[k]) = AddConstraint(c, E_ADDR_OF, o, m)
      BY <2>4 DEF AddGlbInitialCst
    <3> HIDE DEF c, m, op
    <3>3. Keeps(c, op(b, s[k]))
      BY <3>1, <3>2, ConstraintKept, TypesAre
    <3> QED BY <3>1, <3>3, KeepsFacts
  <2> QED BY <2>3, <2>4
<1> HIDE DEF op
<1>4. Op \in [1 .. n -> [A -> A]]
  <2>1. ASSUME NEW k \in 1 .. n, NEW b \in A
        PROVE  op(b, s[k]) \in A
    BY <1>3, KeepsFacts DEF Keeps
  <2> HIDE DEF A
  <2> QED BY <2>1
<1> HIDE DEF n, it, s
<1>5. \A k \in 1 .. n, b \in A : Op[k][b] = op(b, s[k])
  OBVIOUS
<1>6. a \in A
  BY KeepsFacts
<1> HIDE DEF Op, A
<1>7. PICK h \in [SUBSET (1 .. n) -> A] : Folding(h, n, a, Op)
  BY <1>1, <1>4, <1>6, FoldExists
<1>8. Iter(h)
  <2>1. ASSUME NEW S \in SUBSET (1 .. n), S # {}
        PROVE  Op[Max(S)][h[S \ {Max(S)}]] = op(h[S \ {Max(S)}], s[Max(S)])
    <3>1. Max(S) \in 1 .. n
      BY <1>1, <2>1, Greatest
    <3>2. h[S \ {Max(S)}] \in A
      OBVIOUS
    <3> QED BY <1>5, <3>1, <3>2
  <2> QED BY <1>1, <1>7, <2>1 DEF Folding
<1>9. Iter(it)
  BY <1>8 DEF it
<1>10. ASSUME NEW k \in 1 .. n
       PROVE  it[1 .. k] = op(it[1 .. k - 1], s[k])
  <2>1. (1 .. k) \in SUBSET DOMAIN s /\ (1 .. k) # {} /\ Max(1 .. k) = k /\ (1 .. k) \ {k} = 1 .. k - 1
    BY <1>1, Prefix
  <2> QED BY <1>9, <2>1
<1>11. StepsBy(it, n, A, Op)
  BY <1>5, <1>10 DEF StepsBy
<1>12. it[{}] \in PP[0]
  BY <1>1, <1>6, <1>9
<1> HIDE DEF Iter
<1>13. PP \in [0 .. n -> SUBSET A] /\ Leads(n, Op, PP)
  BY <1>1, <1>4 DEF Leads
<1>14. it[1 .. n] \in PP[n]
  <2> HIDE DEF PP
  <2> QED BY <1>1, <1>4, <1>11, <1>12, <1>13, FoldKeeps
<1> QED
  BY <1>1, <1>2, <1>14 DEF A

\* A copy of each of several values to one node.
LEMMA CopiesKept ==
  ASSUME NEW a \in Tables, NEW d \in Ids(a), NEW args \in Seq(STRING)
  PROVE  Keeps(a, AnyOf(a, d, args))
<1> DEFINE s == args
           n == Len(s)
           A == {b \in Tables : Keeps(a, b)}
           op(b, x) == AddConstraint(b, E_COPY, d, GetValueNode(b, x))
           Op == [k \in 1 .. n |-> [b \in A |-> op(b, s[k])]]
           PP == [k \in 0 .. n |-> A]
           Iter(g) == g = [S \in SUBSET DOMAIN s |-> IF S = {} THEN a ELSE op(g[S \ {Max(S)}], s[Max(S)])]
           it == CHOOSE g : Iter(g)
<1>1. DOMAIN s = 1 .. n /\ n \in Nat
  OBVIOUS
<1>2. AnyOf(a, d, args) = it[1 .. n]
  BY <1>1 DEF FoldLeft, MapThenFoldSet, AnyOf
<1>3. ASSUME NEW k \in 1 .. n, NEW b \in Tables, Keeps(a, b)
      PROVE  Keeps(b, op(b, s[k]))
  <2>1. d \in Ids(b) /\ GetValueNode(b, s[k]) \in Ids(b)
    BY <1>3, NodeFacts, KeepsFacts
  <2> QED BY <2>1, ConstraintKept, TypesAre
<1> HIDE DEF op
<1>4. Op \in [1 .. n -> [A -> A]]
  <2>1. ASSUME NEW k \in 1 .. n, NEW b \in A
        PROVE  op(b, s[k]) \in A
    BY <1>3, KeepsFacts DEF Keeps
  <2> HIDE DEF A
  <2> QED BY <2>1
<1> HIDE DEF n, it, s
<1>5. \A k \in 1 .. n, b \in A : Op[k][b] = op(b, s[k])
  OBVIOUS
<1>6. a \in A
  BY KeepsFacts
<1> HIDE DEF Op, A
<1>7. PICK h \in [SUBSET (1 .. n) -> A] : Folding(h, n, a, Op)
  BY <1>1, <1>4, <1>6, FoldExists
<1>8. Iter(h)
  <2>1. ASSUME NEW S \in SUBSET (1 .. n), S # {}
        PROVE  Op[Max(S)][h[S \ {Max(S)}]] = op(h[S \ {Max(S)}], s[Max(S)])
    <3>1. Max(S) \in 1 .. n
      BY <1>1, <2>1, Greatest
    <3>2. h[S \ {Max(S)}] \in A
      OBVIOUS
    <3> QED BY <1>5, <3>1, <3>2
  <2> QED BY <1>1, <1>7, <2>1 DEF Folding
<1>9. Iter(it)
  BY <1>8 DEF it
<1>10. ASSUME NEW k \in 1 .. n
       PROVE  it[1 .. k] = op(it[1 .. k - 1], s[k])
  <2>1. (1 .. k) \in SUBSET DOMAIN s /\ (1 .. k) # {} /\ Max(1 .. k) = k /\ (1 .. k) \ {k} = 1 .. k - 1
    BY <1>1, Prefix
  <2> QED BY <1>9, <2>1
<1>11. StepsBy(it, n, A, Op)
  BY <1>5, <1>10 DEF StepsBy
<1>12. it[{}] \in PP[0]
  BY <1>1, <1>6, <1>9
<1> HIDE DEF Iter
<1>13. PP \in [0 .. n -> SUBSET A] /\ Leads(n, Op, PP)
  BY <1>1, <1>4 DEF Leads
<1>14. it[1 .. n] \in PP[n]
  <2> HIDE DEF PP
  <2> QED BY <1>1, <1>4, <1>11, <1>12, <1>13, FoldKeeps
<1> QED
  BY <1>1, <1>2, <1>14 DEF A

\* The arguments of an unknown function.
LEMMA UnknownsKept ==
  ASSUME NEW a \in Tables, NEW args \in Seq(STRING)
  PROVE  Keeps(a, AllUnknown(a, args))
<1> DEFINE s == args
           n == Len(s)
           A == {b \in Tables : Keeps(a, b)}
           op(b, x) == Unknown(b, x)
           Op == [k \in 1 .. n |-> [b \in A |-> op(b, s[k])]]
           PP == [k \in 0 .. n |-> A]
           Iter(g) == g = [S \in SUBSET DOMAIN s |-> IF S = {} THEN a ELSE op(g[S \ {Max(S)}], s[Max(S)])]
           it == CHOOSE g : Iter(g)
<1>1. DOMAIN s = 1 .. n /\ n \in Nat
  OBVIOUS
<1>2. AllUnknown(a, args) = it[1 .. n]
  BY <1>1 DEF FoldLeft, MapThenFoldSet, AllUnknown
<1>3. ASSUME NEW k \in 1 .. n, NEW b \in Tables, Keeps(a, b)
      PROVE  Keeps(b, op(b, s[k]))
  <2>1. s[k] \in STRING
    OBVIOUS
  <2>2. /\ Keeps(b, EnsureNode(b, s[k])) /\ EnsureNode(b, s[k]) \in Tables
        /\ Ensured(b, s[k]) \in Ids(EnsureNode(b, s[k]))
    BY <2>1, EnsureKept DEF Keeps
  <2>3. Keeps(EnsureNode(b, s[k]), AddConstraint(EnsureNode(b, s[k]), E_COPY, Ensured(b, s[k]), UniversalPtr))
    BY <2>2, ConstraintKept, TypesAre, SpecialIds
  <2> QED BY <2>2, <2>3, KeepsFacts DEF Unknown
<1> HIDE DEF op
<1>4. Op \in [1 .. n -> [A -> A]]
  <2>1. ASSUME NEW k \in 1 .. n, NEW b \in A
        PROVE  op(b, s[k]) \in A
    BY <1>3, KeepsFacts DEF Keeps
  <2> HIDE DEF A
  <2> QED BY <2>1
<1> HIDE DEF n, it, s
<1>5. \A k \in 1 .. n, b \in A : Op[k][b] = op(b, s[k])
  OBVIOUS
<1>6. a \in A
  BY KeepsFacts
<1> HIDE DEF Op, A
<1>7. PICK h \in [SUBSET (1 .. n) -> A] : Folding(h, n, a, Op)
  BY <1>1, <1>4, <1>6, FoldExists
<1>8. Iter(h)
  <2>1. ASSUME NEW S \in SUBSET (1 .. n), S # {}
        PROVE  Op[Max(S)][h[S \ {Max(S)}]] = op(h[S \ {Max(S)}], s[Max(S)])
    <3>1. Max(S) \in 1 .. n
      BY <1>1, <2>1, Greatest
    <3>2. h[S \ {Max(S)}] \in A
      OBVIOUS
    <3> QED BY <1>5, <3>1, <3>2
  <2> QED BY <1>1, <1>7, <2>1 DEF Folding
<1>9. Iter(it)
  BY <1>8 DEF it
<1>10. ASSUME NEW k \in 1 .. n
       PROVE  it[1 .. k] = op(it[1 .. k - 1], s[k])
  <2>1. (1 .. k) \in SUBSET DOMAIN s /\ (1 .. k) # {} /\ Max(1 .. k) = k /\ (1 .. k) \ {k} = 1 .. k - 1
    BY <1>1, Prefix
  <2> QED BY <1>9, <2>1
<1>11. StepsBy(it, n, A, Op)
  BY <1>5, <1>10 DEF StepsBy
<1>12. it[{}] \in PP[0]
  BY <1>1, <1>6, <1>9
<1> HIDE DEF Iter
<1>13. PP \in [0 .. n -> SUBSET A] /\ Leads(n, Op, PP)
  BY <1>1, <1>4 DEF Leads
<1>14. it[1 .. n] \in PP[n]
  <2> HIDE DEF PP
  <2> QED BY <1>1, <1>4, <1>11, <1>12, <1>13, FoldKeeps
<1> QED
  BY <1>1, <1>2, <1>14 DEF A

\* The arguments of a function with a body: formals and the node for the
\* further arguments are there, and what is passed for those is a value.
LEMMA ArgsKept ==
  ASSUME NEW a \in Tables, NEW f \in FuncType, NEW i \in InstType,
         \A k \in DOMAIN f.params : IsPtr(f.params[k]) => GetValueNode(a, f.params[k]) # 0,
         f.vararg => Find(a.vararg, f.name) # 0,
         \A k \in DOMAIN i.args \ DOMAIN f.params :
           f.vararg /\ IsPtr(i.args[k]) => GetValueNode(a, i.args[k]) # 0 \/ Unsupported
  PROVE  Keeps(a, AddFuncArgCst(a, f, i))
<1> DEFINE s == [k \in DOMAIN i.args |-> k]
           n == Len(s)
           A == {b \in Tables : Keeps(a, b)}
           op(b, x) == AddFuncArg(b, f, i, x)
           Op == [k \in 1 .. n |-> [b \in A |-> op(b, s[k])]]
           PP == [k \in 0 .. n |-> A]
           Iter(g) == g = [S \in SUBSET DOMAIN s |-> IF S = {} THEN a ELSE op(g[S \ {Max(S)}], s[Max(S)])]
           it == CHOOSE g : Iter(g)
<1>1. DOMAIN s = 1 .. n /\ n \in Nat
  OBVIOUS
<1>2. AddFuncArgCst(a, f, i) = it[1 .. n]
  BY <1>1 DEF FoldLeft, MapThenFoldSet, AddFuncArgCst
<1>3. ASSUME NEW k \in 1 .. n, NEW b \in Tables, Keeps(a, b)
      PROVE  Keeps(b, op(b, s[k]))
  <2>1. k \in DOMAIN i.args /\ i.args[k] \in STRING /\ s[k] = k
    BY <1>1 DEF InstType
  <2>2. CASE k \in DOMAIN f.params
    <3> DEFINE m == GetValueNode(b, f.params[k])
               c == Require(b, m)
    <3>1. CASE ~IsPtr(f.params[k])
      BY <2>1, <2>2, <3>1, KeepsFacts DEF AddFuncArg, AddFormal
    <3>2. CASE IsPtr(f.params[k])
      <4>1. m \in Ids(b) /\ m # 0
        BY <1>3, <2>2, <3>2, NodeFacts, NodeStays DEF Keeps
      <4>2. Keeps(b, c) /\ c \in Tables /\ m \in Ids(c)
        BY <4>1, RequireKept, KeepsFacts DEF Keeps
      <4>3. /\ Keeps(c, EnsureNode(c, i.args[k])) /\ EnsureNode(c, i.args[k]) \in Tables
            /\ Ensured(b, i.args[k]) \in Ids(EnsureNode(c, i.args[k])) /\ m \in Ids(EnsureNode(c, i.args[k]))
        <5>1. Ensured(c, i.args[k]) = Ensured(b, i.args[k])
          BY RequireSame
        <5> HIDE DEF c, m
        <5>2. Keeps(c, EnsureNode(c, i.args[k])) /\ Ensured(c, i.args[k]) \in Ids(EnsureNode(c, i.args[k]))
          BY <2>1, <4>2, EnsureKept
        <5> QED BY <4>2, <5>1, <5>2, KeepsFacts
      <4>4. Keeps(EnsureNode(c, i.args[k]), AddConstraint(EnsureNode(c, i.args[k]), E_COPY, m, Ensured(b, i.args[k])))
        BY <4>3, ConstraintKept, TypesAre
      <4>5. Keeps(c, AddConstraint(c, E_COPY, m, UniversalPtr))
        BY <4>2, ConstraintKept, TypesAre, SpecialIds
      <4>6. op(b, s[k]) = IF IsPtr(i.args[k])
                          THEN AddConstraint(EnsureNode(c, i.args[k]), E_COPY, m, Ensured(b, i.args[k]))
                          ELSE AddConstraint(c, E_COPY, m, UniversalPtr)
        BY <2>1, <2>2, <3>2 DEF AddFuncArg, AddFormal
      <4> HIDE DEF c, m, op
      <4> QED BY <4>2, <4>3, <4>4, <4>5, <4>6, KeepsFacts
    <3> QED BY <3>1, <3>2
  <2>3. CASE k \notin DOMAIN f.params
    <3>1. CASE f.vararg /\ IsPtr(i.args[k])
      <4>1. Find(b.vararg, f.name) \in Ids(b) /\ GetValueNode(b, i.args[k]) \in Ids(b)
        BY NodeFacts
      <4>2. Find(b.vararg, f.name) # 0
        <5>1. f.name \in DOMAIN a.vararg
          BY <3>1 DEF Find
        <5>2. f.name \in DOMAIN b.vararg
          BY <1>3, <5>1 DEF Keeps, Grows
        <5> QED BY <5>2, NodeFacts
      <4>3. GetValueNode(b, i.args[k]) # 0 \/ Unsupported
        BY <1>3, <2>1, <2>3, <3>1, NodeStays DEF Keeps
      <4>4. Keeps(b, Copy(b, Find(b.vararg, f.name), GetValueNode(b, i.args[k])))
        BY <4>1, <4>2, <4>3, CopyKept
      <4> QED BY <2>1, <2>3, <3>1, <4>4 DEF AddFuncArg, AddExtra
    <3>2. CASE ~(f.vararg /\ IsPtr(i.args[k]))
      BY <2>1, <2>3, <3>2, KeepsFacts DEF AddFuncArg, AddExtra
    <3> QED BY <3>1, <3>2
  <2> QED BY <2>2, <2>3
<1> HIDE DEF op
<1>4. Op \in [1 .. n -> [A -> A]]
  <2>1. ASSUME NEW k \in 1 .. n, NEW b \in A
        PROVE  op(b, s[k]) \in A
    BY <1>3, KeepsFacts DEF Keeps
  <2> HIDE DEF A
  <2> QED BY <2>1
<1> HIDE DEF n, it, s
<1>5. \A k \in 1 .. n, b \in A : Op[k][b] = op(b, s[k])
  OBVIOUS
<1>6. a \in A
  BY KeepsFacts
<1> HIDE DEF Op, A
<1>7. PICK h \in [SUBSET (1 .. n) -> A] : Folding(h, n, a, Op)
  BY <1>1, <1>4, <1>6, FoldExists
<1>8. Iter(h)
  <2>1. ASSUME NEW S \in SUBSET (1 .. n), S # {}
        PROVE  Op[Max(S)][h[S \ {Max(S)}]] = op(h[S \ {Max(S)}], s[Max(S)])
    <3>1. Max(S) \in 1 .. n
      BY <1>1, <2>1, Greatest
    <3>2. h[S \ {Max(S)}] \in A
      OBVIOUS
    <3> QED BY <1>5, <3>1, <3>2
  <2> QED BY <1>1, <1>7, <2>1 DEF Folding
<1>9. Iter(it)
  BY <1>8 DEF it
<1>10. ASSUME NEW k \in 1 .. n
       PROVE  it[1 .. k] = op(it[1 .. k - 1], s[k])
  <2>1. (1 .. k) \in SUBSET DOMAIN s /\ (1 .. k) # {} /\ Max(1 .. k) = k /\ (1 .. k) \ {k} = 1 .. k - 1
    BY <1>1, Prefix
  <2> QED BY <1>9, <2>1
<1>11. StepsBy(it, n, A, Op)
  BY <1>5, <1>10 DEF StepsBy
<1>12. it[{}] \in PP[0]
  BY <1>1, <1>6, <1>9
<1> HIDE DEF Iter
<1>13. PP \in [0 .. n -> SUBSET A] /\ Leads(n, Op, PP)
  BY <1>1, <1>4 DEF Leads
<1>14. it[1 .. n] \in PP[n]
  <2> HIDE DEF PP
  <2> QED BY <1>1, <1>4, <1>11, <1>12, <1>13, FoldKeeps
<1> QED
  BY <1>1, <1>2, <1>14 DEF A

-----------------------------------------------------------------------------
(* The invariant *)

\* A global and a function the first passes have dealt with.
GlobalNamed(a, g) == g.name \in DOMAIN a.value /\ g.name \in DOMAIN a.object
FuncNamed(a, f) ==
  /\ f.name \in DOMAIN a.value /\ f.name \in DOMAIN a.object
  /\ ~IsDecl(f) =>
       /\ f.ptr => f.name \in DOMAIN a.ret
       /\ f.vararg => f.name \in DOMAIN a.vararg
       /\ \A k \in DOMAIN f.params : IsPtr(f.params[k]) => f.params[k] \in DOMAIN a.value

Phases == {"globals", "functions", "inits", "values", "insts", "solve", "done", "aborted"}
Typed ==
  /\ source \in Sources /\ phase \in Phases
  /\ at \in Nat \ {0} /\ pc \in Nat \ {0} /\ an \in Tables

Past(k, ph, later) == (phase = ph /\ k < at) \/ phase \in later
GlobalsNamed ==
  \A k \in DOMAIN Globals :
    Past(k, "globals", {"functions", "inits", "values", "insts"}) => GlobalNamed(an, Globals[k])
FuncsNamed ==
  \A k \in DOMAIN Funcs :
    Past(k, "functions", {"inits", "values", "insts"}) => FuncNamed(an, Funcs[k])

\* In a function every pointer it computes has its node.
InBody ==
  phase = "insts" =>
    /\ at <= Len(Funcs) /\ ~Skipped(Func)
    /\ \A k \in DOMAIN Func.body : IsPtr(Func.body[k].res) => Func.body[k].res \in DOMAIN an.value

Failed == (~an.ok => Unsupported) /\ (phase = "aborted" => ~an.ok)

IInv == Typed /\ GlobalsNamed /\ FuncsNamed /\ InBody /\ Failed

LEMMA NamedStays ==
  ASSUME NEW a, NEW b, Grows(a, b)
  PROVE  /\ \A g : GlobalNamed(a, g) => GlobalNamed(b, g)
         /\ \A f : FuncNamed(a, f) => FuncNamed(b, f)
BY DEF Grows, GlobalNamed, FuncNamed

-----------------------------------------------------------------------------
(* Legal programs *)

LEMMA SourceTyped ==
  ASSUME source \in Sources
  PROVE  /\ Legal(source) /\ Globals \in Seq(GlobalType) /\ Funcs \in Seq(FuncType)
         /\ \A k \in DOMAIN Globals : Globals[k] \in GlobalType /\ Globals[k] \in ToSet(Globals)
         /\ \A k \in DOMAIN Funcs : Funcs[k] \in FuncType /\ Funcs[k] \in ToSet(Funcs)
<1>1. Legal(source)
  BY SourcesAssumption
<1>2. Globals \in Seq(GlobalType) /\ Funcs \in Seq(FuncType)
  BY <1>1 DEF Legal, ProgramType, Globals, Funcs
<1> QED
  BY <1>1, <1>2 DEF ToSet

LEMMA NamedIs ==
  ASSUME NEW seq, NEW n \in Names(seq)
  PROVE  Named(seq, n) \in ToSet(seq) /\ Named(seq, n).name = n
BY DEF Named, Names, ToSet

\* A call enters a function of the program.
LEMMA EnteredIs ==
  ASSUME source \in Sources, NEW n \in Names(Funcs)
  PROVE  Entered(source, n) \in ToSet(Funcs)
<1>1. Named(Funcs, n) \in ToSet(Funcs)
  BY NamedIs
<1>2. Named(Funcs, n).def \in Names(Funcs) \cup {NOPTR}
  BY <1>1, SourceTyped DEF Legal, Funcs
<1>3. Named(Funcs, n).def # NOPTR => Named(Funcs, Named(Funcs, n).def) \in ToSet(Funcs)
  BY <1>2, NamedIs
<1> QED
  BY <1>1, <1>3 DEF Entered, Funcs

LEMMA FuncIn ==
  ASSUME source \in Sources, NEW f \in ToSet(Funcs)
  PROVE  /\ f \in FuncType /\ \E k \in DOMAIN Funcs : f = Funcs[k]
         /\ \A i \in ToSet(f.body) : i \in InstType /\ i \in Code(source) /\ LegalInst(source, f, i)
         /\ (ToSet(f.params) \cup Results(f)) \cap Constants = {}
         /\ \A k \in DOMAIN f.body : f.body[k] \in InstType /\ f.body[k] \in ToSet(f.body)
<1>1. PICK k \in DOMAIN Funcs : f = Funcs[k]
  BY DEF ToSet
<1>2. f \in FuncType /\ f.body \in Seq(InstType)
  BY <1>1, SourceTyped DEF FuncType
<1>3. \A i \in ToSet(f.body) : i \in InstType
  BY <1>2 DEF ToSet
<1>4. \A i \in ToSet(f.body) : i \in Code(source)
  BY <1>1 DEF Code, Funcs
<1>5. /\ \A i \in ToSet(f.body) : LegalInst(source, f, i)
      /\ (ToSet(f.params) \cup Results(f)) \cap Constants = {}
  BY SourceTyped DEF Legal, Funcs
<1>6. \A j \in DOMAIN f.body : f.body[j] \in ToSet(f.body)
  BY DEF ToSet
<1> QED
  BY <1>1, <1>2, <1>3, <1>4, <1>5, <1>6

\* All functions are named once the instructions are looked at.
LEMMA AllNamed ==
  ASSUME IInv, phase = "insts"
  PROVE  /\ \A f \in ToSet(Funcs) : FuncNamed(an, f)
         /\ \A n \in Names(Globals) \cup Names(Funcs) : GetValueNode(an, n) # 0
<1>1. source \in Sources /\ an \in Tables
  BY DEF IInv, Typed
<1>2. \A f \in ToSet(Funcs) : FuncNamed(an, f)
  BY DEF IInv, FuncsNamed, Past, ToSet
<1>3. \A k \in DOMAIN Globals : GlobalNamed(an, Globals[k])
  BY DEF IInv, GlobalsNamed, Past
<1>4. ASSUME NEW n \in Names(Globals) \cup Names(Funcs)
      PROVE  n \in DOMAIN an.value
  <2>1. CASE n \in Names(Globals)
    BY <1>3, <2>1 DEF Names, GlobalNamed
  <2>2. CASE n \in Names(Funcs)
    BY <1>2, <2>2 DEF Names, FuncNamed, ToSet
  <2> QED BY <2>1, <2>2
<1>5. \A n \in Names(Globals) \cup Names(Funcs) : n # ADDRESS
  BY <1>1, SourceTyped DEF Legal, Globals, Funcs, Constants
<1> QED
  BY <1>1, <1>2, <1>4, <1>5, NodeFacts

\* The instruction looked at: its result has a node, and so has every operand
\* but a constant address and a second name of a global.
LEMMA InstFacts ==
  ASSUME IInv, phase = "insts", pc <= Len(Func.body)
  PROVE  /\ Func \in ToSet(Funcs) /\ Func \in FuncType /\ ~IsDecl(Func)
         /\ Inst \in InstType /\ Inst \in Code(source) /\ LegalInst(source, Func, Inst)
         /\ Inst.res \in STRING /\ Inst.args \in Seq(STRING)
         /\ IsPtr(Inst.res) => Res # 0
         /\ \A k \in DOMAIN Inst.args :
              Inst.op # "inttoptr" /\ IsPtr(Inst.args[k]) =>
                Inst.args[k] \in {ADDRESS, ALIAS} \/ Opnd(k) # 0
<1>1. source \in Sources /\ an \in Tables /\ at \in DOMAIN Funcs /\ pc \in Nat \ {0} /\ ~IsDecl(Func)
  BY SourceTyped DEF IInv, Typed, InBody, Skipped
<1>2. Func \in ToSet(Funcs)
  BY <1>1, SourceTyped DEF Func
<1>3. Func \in FuncType /\ pc \in DOMAIN Func.body
  BY <1>1, <1>2, FuncIn DEF FuncType
<1>4. Inst \in ToSet(Func.body) /\ Inst \in InstType /\ Inst \in Code(source) /\ LegalInst(source, Func, Inst)
  BY <1>1, <1>2, <1>3, FuncIn DEF Inst
<1>5. Inst.res \in STRING /\ Inst.args \in Seq(STRING)
  BY <1>4 DEF InstType
<1>6. \A k \in DOMAIN Func.body : IsPtr(Func.body[k].res) => Func.body[k].res \in DOMAIN an.value
  BY DEF IInv, InBody
<1>7. \A v \in ToSet(Func.params) \cup Results(Func) : v \notin Constants
  BY <1>1, <1>2, FuncIn
<1>8. ASSUME NEW v \in Results(Func), IsPtr(v)
      PROVE  GetValueNode(an, v) # 0
  BY <1>1, <1>6, <1>7, <1>8, NodeFacts DEF Results, Constants
<1>9. ASSUME NEW v \in ToSet(Func.params), IsPtr(v)
      PROVE  GetValueNode(an, v) # 0
  <2>1. FuncNamed(an, Func)
    BY <1>2, AllNamed
  <2>2. v \in DOMAIN an.value
    BY <1>1, <1>9, <2>1 DEF FuncNamed, ToSet
  <2> QED BY <1>1, <1>7, <2>2, NodeFacts DEF Constants
<1>10. IsPtr(Inst.res) => Res # 0
  <2>1. Inst.res \in Results(Func)
    BY <1>3 DEF Results, Inst
  <2> QED BY <1>8, <2>1 DEF Res
<1>11. ASSUME NEW k \in DOMAIN Inst.args, Inst.op # "inttoptr", IsPtr(Inst.args[k])
       PROVE  Inst.args[k] \in {ADDRESS, ALIAS} \/ Opnd(k) # 0
  <2>1. Inst.args[k] \in Operands(source, Func)
    BY <1>4, <1>11 DEF LegalInst, PtrArgs, IsPtr
  <2>2. \A v \in {NULL, UNDEF} : GetValueNode(an, v) # 0
    BY DEF GetValueNode, NullPtr
  <2> QED BY <1>8, <1>9, <1>11, <2>1, <2>2, AllNamed DEF Operands, Opnd, Constants, Globals, Funcs
<1> QED
  BY <1>1, <1>2, <1>3, <1>4, <1>5, <1>10, <1>11

\* An operand insisted on has a node, or is what is not supported.
LEMMA Insisted ==
  ASSUME IInv, phase = "insts", pc <= Len(Func.body),
         NEW k \in DOMAIN Inst.args, Inst.op # "inttoptr", IsPtr(Inst.args[k]), Insists(Inst, Inst.args[k])
  PROVE  Opnd(k) # 0 \/ Unsupported
<1>1. Inst \in Code(source) /\ (Inst.args[k] \in {ADDRESS, ALIAS} \/ Opnd(k) # 0)
  BY InstFacts
<1>2. Inst.args[k] \in {ADDRESS, ALIAS} => Insists(Inst, ADDRESS) \/ Insists(Inst, ALIAS)
  OBVIOUS
<1> QED
  BY <1>1, <1>2 DEF Unsupported

-----------------------------------------------------------------------------
(* Calls *)

LEMMA NullLabel == NULL \in Labels
BY DEF Labels

LEMMA MoveKept ==
  ASSUME NEW a \in Tables, NEW to \in Ids(a), NEW from \in Ids(a), to # 0 \/ Unsupported, from # 0 \/ Unsupported
  PROVE  Keeps(a, AddMove(a, to, from))
<1> DEFINE b == Require(a, to)
           c == Require(b, from)
           d == AddCstNode(c, NULL)
           e == AddConstraint(d, E_LOAD, NewId(a), from)
<1>1. Keeps(a, b) /\ b \in Tables
  BY RequireKept DEF Keeps
<1>2. Keeps(b, c) /\ c \in Tables
  BY <1>1, RequireKept DEF Keeps
<1>3. NewId(c) = NewId(a)
  BY <1>1, <1>2, RequireSame
<1> HIDE DEF c
<1>4. /\ Keeps(c, d) /\ d \in Tables /\ NewId(a) \in Ids(d) /\ to \in Ids(d) /\ from \in Ids(d)
  <2>1. Keeps(c, d) /\ 0 .. NewId(c) \subseteq Ids(d) /\ NewId(c) \in 0 .. NewId(c)
    BY <1>2, CstNode, NullLabel, KeepsFacts
  <2>2. to \in Ids(c) /\ from \in Ids(c)
    BY <1>1, <1>2, KeepsFacts
  <2> HIDE DEF d
  <2> QED BY <1>2, <1>3, <2>1, <2>2, KeepsFacts
<1> HIDE DEF d
<1>5. Keeps(d, e) /\ e \in Tables /\ NewId(a) \in Ids(e) /\ to \in Ids(e)
  BY <1>4, ConstraintKept, TypesAre, KeepsFacts
<1>6. AddMove(a, to, from) = AddConstraint(e, E_STORE, to, NewId(a))
  BY DEF AddMove, c, d
<1> HIDE DEF b, e
<1>7. Keeps(e, AddMove(a, to, from))
  BY <1>5, <1>6, ConstraintKept, TypesAre
<1> QED
  BY <1>1, <1>2, <1>4, <1>5, <1>7, KeepsFacts

LEMMA AllocationKept ==
  ASSUME NEW a \in Tables, NEW i \in InstType
  PROVE  Keeps(a, AddAllocation(a, i))
<1> DEFINE b == CreateObjNode(a, i.res)
           n == GetValueNode(a, i.res)
<1>1. n \in Ids(a) /\ i.res \in STRING /\ NewId(a) \in 0 .. NewId(a)
  BY NodeFacts, KeepsFacts DEF InstType
<1>2. Keeps(a, b) /\ b \in Tables /\ NewId(a) \in Ids(b) /\ n \in Ids(b)
  <2>1. Keeps(a, b) /\ 0 .. NewId(a) \subseteq Ids(b)
    BY <1>1, ObjNode
  <2> HIDE DEF b, n
  <2> QED BY <1>1, <2>1, KeepsFacts
<1>3. Keeps(b, AddConstraint(b, E_ADDR_OF, n, NewId(a)))
  BY <1>2, ConstraintKept, TypesAre
<1> QED
  BY <1>2, <1>3, KeepsFacts DEF AddAllocation

LEMMA ResultKept ==
  ASSUME NEW a \in Tables, NEW i \in InstType
  PROVE  Keeps(a, CreateResultNode(a, i)) /\ 0 .. NewId(a) \subseteq Ids(CreateResultNode(a, i))
<1>1. i.res \in STRING
  BY DEF InstType
<1>2. /\ Keeps(a, CreateValueNode(a, i.res)) /\ 0 .. NewId(a) \subseteq Ids(CreateValueNode(a, i.res))
      /\ Keeps(a, AddCstNode(a, NULL)) /\ 0 .. NewId(a) \subseteq Ids(AddCstNode(a, NULL))
  BY <1>1, ValueNode, CstNode, NullLabel
<1> QED
  BY <1>2 DEF CreateResultNode

\* The operands that a library function's constraints insist on are pointers.
LEMMA LibraryKept ==
  ASSUME IInv, phase = "insts", pc <= Len(Func.body), Inst.op = "call",
         IsDecl(Entered(source, Inst.fun))
  PROVE  Keeps(an, AddExtLibCst(an, Inst, Entered(source, Inst.fun).lists))
<1> DEFINE lists == Entered(source, Inst.fun).lists
           type == Search(lists)
<1>1. /\ an \in Tables /\ Inst \in InstType /\ LegalInst(source, Func, Inst)
      /\ Inst.args \in Seq(STRING) /\ Inst.res \in STRING /\ (IsPtr(Inst.res) => Res # 0)
  BY InstFacts DEF IInv, Typed
<1>2. PointerAt(source, Inst) =
        IF type \in {"memcpy", "cast"} THEN {1, 2} ELSE {}
  BY DEF PointerAt
<1>3. \A k \in PointerAt(source, Inst) : k \in DOMAIN Inst.args /\ IsPtr(Inst.args[k])
  BY <1>1 DEF LegalInst
<1>4. Table(Inst) = type
  BY DEF Table
<1>5. ASSUME type \in {"retarg0", "memcpy", "cast"}, NEW k \in PointerAt(source, Inst)
      PROVE  Opnd(k) # 0 \/ Unsupported
  <2>1. k \in DOMAIN Inst.args /\ IsPtr(Inst.args[k])
    BY <1>3
  <2>2. Insists(Inst, Inst.args[k])
    BY <1>4, <1>5, <2>1 DEF Insists, PtrArgs, IsPtr
  <2> QED BY <2>1, <2>2, Insisted
<1> HIDE DEF type
<1>6. CASE type = "retarg0"
  <2>0. 1 \in DOMAIN Inst.args /\ Inst \in Code(source)
    <3>1. Inst.args # <<>>
      BY <1>1, <1>6 DEF LegalInst, type
    <3>2. DOMAIN Inst.args = 1 .. Len(Inst.args) /\ Len(Inst.args) \in Nat
      BY <1>1
    <3>3. Len(Inst.args) # 0
      BY <1>1, <3>1
    <3>4. 1 \in DOMAIN Inst.args
      BY <3>2, <3>3
    <3> QED BY <3>4, InstFacts DEF IInv, Typed
  <2>1. IsPtr(Inst.res) => Opnd(1) # 0 \/ Unsupported
    <3>1. CASE IsPtr(Inst.args[1])
      <4>1. Insists(Inst, Inst.args[1])
        BY <1>4, <1>6, <2>0, <3>1 DEF Insists, PtrArgs, IsPtr
      <4> QED BY <2>0, <3>1, <4>1, Insisted
    <3>2. CASE ~IsPtr(Inst.args[1])
      BY <1>4, <1>6, <2>0, <3>2 DEF Unsupported
    <3> QED BY <3>1, <3>2
  <2>2. Opnd(1) \in Ids(an) /\ GetValueNode(an, Inst.res) \in Ids(an)
    BY <1>1, <2>0, NodeFacts DEF Opnd
  <2>3. Keeps(an, AddRetArg0(an, Inst))
    BY <1>1, <2>1, <2>2, CopyKept, KeepsFacts DEF AddRetArg0, Opnd
  <2> QED BY <1>6, <2>3 DEF AddExtLibCst, type
<1>7. CASE type = "memcpy"
  <2> DEFINE to == GetValueNode(an, Inst.args[1])
             from == GetValueNode(an, Inst.args[2])
             b == AddMove(an, to, from)
             c == CreateResultNode(b, Inst)
  <2>1. (to # 0 \/ Unsupported) /\ (from # 0 \/ Unsupported)
    BY <1>2, <1>5, <1>7 DEF Opnd
  <2>2. to \in Ids(an) /\ from \in Ids(an)
    BY <1>1, NodeFacts
  <2>3. Keeps(an, b) /\ b \in Tables
    BY <1>1, <2>1, <2>2, MoveKept DEF Keeps
  <2> HIDE DEF b, to
  <2>4. Keeps(b, c) /\ c \in Tables /\ NewId(b) \in Ids(c) /\ to \in Ids(c)
    <3>1. Keeps(b, c) /\ 0 .. NewId(b) \subseteq Ids(c) /\ NewId(b) \in 0 .. NewId(b)
      BY <1>1, <2>3, ResultKept, KeepsFacts
    <3> HIDE DEF c
    <3> QED BY <1>1, <2>2, <2>3, <3>1, KeepsFacts
  <2>5. AddMemcpy(an, Inst) = AddConstraint(c, E_COPY, NewId(b), to)
    BY DEF AddMemcpy, b, to
  <2> HIDE DEF c
  <2>7. Keeps(c, AddMemcpy(an, Inst))
    BY <2>4, <2>5, ConstraintKept, TypesAre
  <2>6. Keeps(an, AddMemcpy(an, Inst))
    BY <1>1, <2>3, <2>4, <2>7, KeepsFacts
  <2> QED BY <1>7, <2>6 DEF AddExtLibCst, type
<1>8. CASE type = "cast"
  <2> DEFINE str == GetValueNode(an, Inst.args[1])
             end == GetValueNode(an, Inst.args[2])
             b == Require(an, str)
             c == Require(b, end)
  <2>1. (str # 0 \/ Unsupported) /\ (end # 0 \/ Unsupported)
    BY <1>2, <1>5, <1>8 DEF Opnd
  <2>2. str \in Ids(an) /\ end \in Ids(an)
    BY <1>1, NodeFacts
  <2>3. Keeps(an, b) /\ b \in Tables
    BY <1>1, <2>1, <2>2, RequireKept DEF Keeps
  <2>4. Keeps(b, c) /\ c \in Tables
    BY <2>1, <2>2, <2>3, RequireKept DEF Keeps
  <2>5. Keeps(c, AddConstraint(c, E_STORE, str, end))
    <3>1. str \in Ids(c) /\ end \in Ids(c)
      <4> HIDE DEF b, c, str, end
      <4> QED BY <1>1, <2>2, <2>3, <2>4, KeepsFacts
    <3> QED BY <2>4, <3>1, ConstraintKept, TypesAre
  <2>6. Keeps(an, AddCast(an, Inst))
    BY <1>1, <2>3, <2>4, <2>5, KeepsFacts DEF AddCast
  <2> QED BY <1>8, <2>6 DEF AddExtLibCst, type
<1>9. CASE type \notin {"retarg0", "memcpy", "cast"}
  <2>1. Keeps(an, an) /\ Keeps(an, AddAllocation(an, Inst))
    BY <1>1, AllocationKept, KeepsFacts
  <2>2. Keeps(an, AddUnknownCall(an, Inst))
    <3> DEFINE r == GetValueNode(an, Inst.res)
               b == AddConstraint(Require(an, r), E_COPY, r, UniversalPtr)
               c == IF IsPtr(Inst.res) THEN b ELSE an
    <3>1. r \in Ids(an)
      BY <1>1, NodeFacts
    <3>2. ASSUME IsPtr(Inst.res)
          PROVE  Keeps(an, b) /\ b \in Tables
      <4>1. Keeps(an, Require(an, r)) /\ Require(an, r) \in Tables
        BY <1>1, <3>1, <3>2, RequireKept DEF Keeps, Res
      <4>2. Keeps(Require(an, r), b) /\ b \in Tables
        <5>1. r \in Ids(Require(an, r))
          BY <1>1, <3>1, <4>1, KeepsFacts
        <5> QED BY <4>1, <5>1, ConstraintKept, TypesAre, SpecialIds DEF Keeps
      <4> QED BY <1>1, <4>1, <4>2, KeepsFacts
    <3>3. Keeps(an, c) /\ c \in Tables
      BY <1>1, <3>2, KeepsFacts
    <3>4. Keeps(c, AllUnknown(c, Inst.args))
      BY <1>1, <3>3, UnknownsKept
    <3>5. AddUnknownCall(an, Inst) = AllUnknown(c, Inst.args)
      BY DEF AddUnknownCall
    <3> HIDE DEF c
    <3> QED BY <1>1, <3>3, <3>4, <3>5, KeepsFacts
  <2>3. AddExtLibCst(an, Inst, lists) \in {an, AddAllocation(an, Inst), AddUnknownCall(an, Inst)}
    BY <1>9 DEF AddExtLibCst, type
  <2> QED BY <2>1, <2>2, <2>3
<1> QED
  BY <1>6, <1>7, <1>8, <1>9

LEMMA CallKept ==
  ASSUME IInv, phase = "insts", pc <= Len(Func.body), Inst.op = "call"
  PROVE  Keeps(an, AddCallSiteCst(an, Func.name, Inst))
<1> DEFINE f == Entered(source, Inst.fun)
           r == GetValueNode(an, Inst.res)
           b == IF IsPtr(Inst.res) THEN Copy(an, r, Find(an.ret, f.name)) ELSE an
<1>1. /\ an \in Tables /\ source \in Sources /\ Inst \in InstType /\ Inst.args \in Seq(STRING)
      /\ LegalInst(source, Func, Inst) /\ (IsPtr(Inst.res) => Res # 0)
  BY InstFacts DEF IInv, Typed
<1>2. f \in ToSet(Funcs)
  BY <1>1, EnteredIs DEF LegalInst, Funcs
<1>3. f \in FuncType /\ FuncNamed(an, f) /\ \A v \in ToSet(f.params) : v # ADDRESS
  BY <1>1, <1>2, FuncIn, AllNamed DEF Constants
<1>4. CASE f.debug
  BY <1>1, <1>4, KeepsFacts DEF AddCallSiteCst
<1>5. CASE ~f.debug /\ IsDecl(f)
  BY <1>5, LibraryKept DEF AddCallSiteCst
<1>6. CASE ~f.debug /\ ~IsDecl(f) /\ f.name = Func.name
  BY <1>1, <1>6, KeepsFacts DEF AddCallSiteCst
<1>7. CASE ~f.debug /\ ~IsDecl(f) /\ f.name # Func.name
  <2>1. Keeps(an, b) /\ b \in Tables
    <3>1. CASE IsPtr(Inst.res)
      <4>1. f.ptr
        BY <1>1, <1>7, <3>1 DEF LegalInst
      <4>2. Find(an.ret, f.name) # 0 /\ Find(an.ret, f.name) \in Ids(an) /\ r \in Ids(an) /\ r # 0
        BY <1>1, <1>3, <1>7, <3>1, <4>1, NodeFacts DEF FuncNamed, Res
      <4> QED BY <1>1, <3>1, <4>2, CopyKept DEF Keeps
    <3>2. CASE ~IsPtr(Inst.res)
      BY <1>1, <3>2, KeepsFacts
    <3> QED BY <3>1, <3>2
  <2>2. \A k \in DOMAIN f.params : IsPtr(f.params[k]) => GetValueNode(b, f.params[k]) # 0
    <3>1. ASSUME NEW k \in DOMAIN f.params, IsPtr(f.params[k])
          PROVE  f.params[k] \in DOMAIN b.value /\ f.params[k] # ADDRESS
      BY <1>3, <1>7, <2>1, <3>1 DEF FuncNamed, Keeps, Grows, ToSet
    <3> HIDE DEF b
    <3> QED BY <2>1, <3>1, NodeFacts
  <2>3. f.vararg => Find(b.vararg, f.name) # 0
    <3>1. f.vararg => f.name \in DOMAIN b.vararg
      BY <1>3, <1>7, <2>1 DEF FuncNamed, Keeps, Grows
    <3> HIDE DEF b
    <3> QED BY <2>1, <3>1, NodeFacts
  <2>4. ASSUME NEW k \in DOMAIN Inst.args \ DOMAIN f.params, f.vararg, IsPtr(Inst.args[k])
        PROVE  GetValueNode(b, Inst.args[k]) # 0 \/ Unsupported
    <3>1. Insists(Inst, Inst.args[k])
      BY <1>7, <2>4 DEF Insists
    <3>2. GetValueNode(an, Inst.args[k]) # 0 \/ Unsupported
      BY <2>4, <3>1, Insisted DEF Opnd
    <3> HIDE DEF b
    <3> QED BY <1>1, <2>1, <3>2, NodeStays DEF Keeps
  <2>5. AddCallSiteCst(an, Func.name, Inst) = AddFuncArgCst(b, f, Inst)
    BY <1>7 DEF AddCallSiteCst
  <2> HIDE DEF b, f
  <2>6. Keeps(b, AddFuncArgCst(b, f, Inst))
    BY <1>1, <1>3, <2>1, <2>2, <2>3, <2>4, ArgsKept
  <2> QED BY <1>1, <2>1, <2>5, <2>6, KeepsFacts
<1> QED
  BY <1>4, <1>5, <1>6, <1>7

-----------------------------------------------------------------------------
(* Instructions *)

LEMMA InstKept ==
  ASSUME IInv, CollectCstOfInst
  PROVE  Keeps(an, an') /\ NextInst /\ phase = "insts"
<1> DEFINE req == Require(an, Res)
<1>1. phase = "insts" /\ pc <= Len(Func.body) /\ an.ok
  BY DEF CollectCstOfInst, CollectAlloca, CollectCall, CollectIndirectCall, CollectRet, CollectLoad,
         CollectStore, CollectBitCast, CollectGetElementPtr, CollectInstExtractValue, CollectPHI,
         CollectSelect, CollectVAArg, CollectIntToPtr, AtInst, Running
<1>2. NextInst
  BY DEF CollectCstOfInst, CollectAlloca, CollectCall, CollectIndirectCall, CollectRet, CollectLoad,
         CollectStore, CollectBitCast, CollectGetElementPtr, CollectInstExtractValue, CollectPHI,
         CollectSelect, CollectVAArg, CollectIntToPtr
<1>3. /\ an \in Tables /\ Inst \in InstType /\ Inst \in Code(source) /\ LegalInst(source, Func, Inst)
      /\ Inst.args \in Seq(STRING) /\ Inst.res \in STRING /\ (IsPtr(Inst.res) => Res # 0)
  BY <1>1, InstFacts DEF IInv, Typed
<1>4. Res \in Ids(an) /\ Opnd(1) \in Ids(an) /\ Opnd(2) \in Ids(an)
  BY <1>3, NodeFacts DEF Res, Opnd
<1>5. Keeps(an, an)
  BY <1>3, KeepsFacts
<1>6. IsPtr(Inst.res) => Keeps(an, req) /\ req \in Tables /\ Res \in Ids(req) /\ NewId(an) \in 0 .. NewId(req)
  <2>1. IsPtr(Inst.res) => Keeps(an, req)
    BY <1>3, RequireKept
  <2> HIDE DEF req
  <2> QED BY <1>3, <1>4, <2>1, KeepsFacts
<1>7. \A k \in PointerAt(source, Inst) : k \in DOMAIN Inst.args /\ IsPtr(Inst.args[k])
  BY <1>3 DEF LegalInst
<1>8. CASE CollectAlloca
  <2>1. IsPtr(Inst.res) /\ an' = AddConstraint(CreateObjNode(req, Inst.res), E_ADDR_OF, Res, NewId(an))
    BY <1>3, <1>8 DEF CollectAlloca, AtInst, LegalInst
  <2> HIDE DEF req
  <2> DEFINE b == CreateObjNode(req, Inst.res)
  <2>2. Keeps(req, b) /\ 0 .. NewId(req) \subseteq Ids(b)
    BY <1>3, <1>6, <2>1, ObjNode
  <2> HIDE DEF b
  <2>3. b \in Tables /\ Res \in Ids(b) /\ NewId(an) \in Ids(b)
    BY <1>6, <2>1, <2>2, KeepsFacts
  <2>4. an' = AddConstraint(b, E_ADDR_OF, Res, NewId(an))
    BY <2>1 DEF b
  <2>5. Keeps(b, an')
    BY <2>3, <2>4, ConstraintKept, TypesAre
  <2>6. Keeps(an, an')
    BY <1>3, <1>6, <2>1, <2>2, <2>5, KeepsFacts
  <2> QED BY <1>1, <1>2, <2>6
<1>9. CASE CollectCall
  <2>1. Inst.op = "call" /\ an' = AddCallSiteCst(an, Func.name, Inst)
    BY <1>9 DEF CollectCall, AtInst
  <2>2. Keeps(an, AddCallSiteCst(an, Func.name, Inst))
    BY <1>1, <2>1, CallKept
  <2> QED BY <1>1, <1>2, <2>1, <2>2
<1>10. CASE CollectIndirectCall
  <2>1. an' = IF IsPtr(Inst.res) THEN AddConstraint(req, E_COPY, Res, UniversalPtr) ELSE an
    BY <1>10 DEF CollectIndirectCall
  <2> HIDE DEF req
  <2>2. IsPtr(Inst.res) => Keeps(req, AddConstraint(req, E_COPY, Res, UniversalPtr))
    BY <1>6, ConstraintKept, TypesAre, SpecialIds
  <2>3. Keeps(an, an')
    BY <1>3, <1>5, <1>6, <2>1, <2>2, KeepsFacts
  <2> QED BY <1>1, <1>2, <2>3
<1>11. CASE CollectRet
  <2> DEFINE ret == Find(an.ret, Func.name)
             b == Require(an, ret)
             v == Inst.args[1]
             c == EnsureNode(b, v)
             d == AddConstraint(c, E_COPY, ret, Ensured(an, v))
  <2>1. Inst.op = "ret" /\ an' = IF PtrArgs(Inst) = {} THEN an ELSE d
    BY <1>11 DEF CollectRet, AtInst
  <2>2. ASSUME PtrArgs(Inst) # {}
        PROVE  Keeps(an, d)
    <3>1. Func.ptr /\ v \in STRING
      <4>1. Func.ptr
        BY <1>3, <2>1, <2>2 DEF LegalInst
      <4>2. PICK k \in DOMAIN Inst.args : TRUE
        BY <2>2 DEF PtrArgs
      <4>3. Len(Inst.args) \in Nat /\ DOMAIN Inst.args = 1 .. Len(Inst.args)
        BY <1>3
      <4>4. 1 \in DOMAIN Inst.args
        BY <4>2, <4>3
      <4> QED BY <1>3, <4>1, <4>4
    <3>2. ret \in Ids(an) /\ ret # 0
      <4>1. FuncNamed(an, Func) /\ ~IsDecl(Func)
        BY <1>1, InstFacts, AllNamed
      <4> QED BY <1>3, <3>1, <4>1, NodeFacts DEF FuncNamed
    <3> HIDE DEF ret, v
    <3>3. Keeps(an, b) /\ b \in Tables /\ Ensured(b, v) = Ensured(an, v)
      BY <1>3, <3>2, RequireKept, RequireSame DEF Keeps
    <3> HIDE DEF b
    <3>4. Keeps(b, c) /\ Ensured(an, v) \in Ids(c)
      <4>1. Keeps(b, c) /\ Ensured(b, v) \in Ids(c)
        BY <3>1, <3>3, EnsureKept
      <4> QED BY <3>3, <4>1
    <3> HIDE DEF c
    <3>5. c \in Tables /\ ret \in Ids(c)
      BY <1>3, <3>2, <3>3, <3>4, KeepsFacts
    <3>6. Keeps(c, d)
      BY <3>4, <3>5, ConstraintKept, TypesAre
    <3> HIDE DEF d
    <3> QED BY <1>3, <3>3, <3>4, <3>6, KeepsFacts
  <2> HIDE DEF d
  <2> QED BY <1>1, <1>2, <1>5, <2>1, <2>2
<1>12. CASE CollectLoad
  <2> DEFINE b == Require(an, Opnd(1))
             c == Require(b, Res)
             d == AddConstraint(c, E_LOAD, Res, Opnd(1))
  <2>1. Inst.op = "load" /\ an' = IF IsPtr(Inst.res) THEN d ELSE an
    BY <1>12 DEF CollectLoad, AtInst
  <2>2. 1 \in PointerAt(source, Inst)
    BY <2>1 DEF PointerAt
  <2>3. Opnd(1) # 0 \/ Unsupported
    <3>1. Insists(Inst, Inst.args[1])
      BY <1>7, <2>1, <2>2 DEF Insists, PtrArgs, IsPtr
    <3> QED BY <1>1, <1>7, <2>1, <2>2, <3>1, Insisted
  <2>4. Keeps(an, b) /\ b \in Tables
    BY <1>3, <2>3, RequireKept DEF Keeps
  <2> HIDE DEF b
  <2>5. IsPtr(Inst.res) => Keeps(b, c)
    BY <1>3, <2>4, RequireKept
  <2> HIDE DEF c
  <2>6. IsPtr(Inst.res) => Keeps(an, c) /\ c \in Tables /\ Res \in Ids(c) /\ Opnd(1) \in Ids(c)
    BY <1>3, <1>4, <2>4, <2>5, KeepsFacts
  <2>7. IsPtr(Inst.res) => Keeps(c, d)
    BY <2>6, ConstraintKept, TypesAre
  <2> HIDE DEF d
  <2>8. Keeps(an, an')
    BY <1>3, <1>5, <2>1, <2>6, <2>7, KeepsFacts
  <2> QED BY <1>1, <1>2, <2>8
<1>13. CASE CollectStore
  <2> DEFINE v == Inst.args[1]
             b == EnsureNode(an, v)
             n == GetValueNode(b, Inst.args[2])
             c == Require(b, n)
             d == AddConstraint(c, E_STORE, n, Ensured(an, v))
  <2>1. Inst.op = "store" /\ an' = IF IsPtr(v) THEN d ELSE an
    BY <1>13 DEF CollectStore, AtInst
  <2>2. 2 \in PointerAt(source, Inst)
    BY <2>1 DEF PointerAt
  <2>3. v \in STRING /\ 2 \in DOMAIN Inst.args /\ IsPtr(Inst.args[2])
    BY <1>3, <1>7, <2>2
  <2>4. IsPtr(v) => Opnd(2) # 0 \/ Unsupported
    <3>1. IsPtr(v) => Insists(Inst, Inst.args[2])
      BY <2>1 DEF Insists
    <3> QED BY <1>1, <2>1, <2>3, <3>1, Insisted
  <2> HIDE DEF v
  <2>5. Keeps(an, b) /\ b \in Tables /\ Ensured(an, v) \in Ids(b)
    BY <1>3, <2>3, EnsureKept DEF Keeps
  <2>6. IsPtr(v) => n # 0 \/ Unsupported
    BY <1>3, <2>4, <2>5, NodeStays DEF Opnd, Keeps
  <2>7. n \in Ids(b)
    BY <2>5, NodeFacts
  <2> HIDE DEF b, n
  <2>8. IsPtr(v) => Keeps(b, c)
    BY <2>5, <2>6, RequireKept
  <2> HIDE DEF c
  <2>9. IsPtr(v) => c \in Tables /\ n \in Ids(c) /\ Ensured(an, v) \in Ids(c)
    BY <2>5, <2>7, <2>8, KeepsFacts
  <2>10. IsPtr(v) => Keeps(c, d)
    BY <2>9, ConstraintKept, TypesAre
  <2> HIDE DEF d
  <2>11. Keeps(an, an')
    BY <1>3, <1>5, <2>1, <2>5, <2>8, <2>10, KeepsFacts
  <2> QED BY <1>1, <1>2, <2>11
<1>14. CASE CollectBitCast \/ CollectGetElementPtr
  <2>1. CASE IsPtr(Inst.res)
    <3>1. Inst.op \in {"cast", "gep"} /\ an' = Copy(an, Res, Opnd(1))
      BY <1>14, <2>1 DEF CollectBitCast, CollectGetElementPtr, AtInst
    <3>2. 1 \in PointerAt(source, Inst)
      BY <2>1, <3>1 DEF PointerAt
    <3>3. Opnd(1) # 0 \/ Unsupported
      <4>1. Insists(Inst, Inst.args[1])
        BY <1>7, <3>1, <3>2 DEF Insists, PtrArgs, IsPtr
      <4> QED BY <1>1, <1>7, <3>1, <3>2, <4>1, Insisted
    <3>4. Keeps(an, Copy(an, Res, Opnd(1)))
      BY <1>3, <1>4, <2>1, <3>3, CopyKept
    <3> QED BY <1>1, <1>2, <3>1, <3>4
  <2>2. CASE ~IsPtr(Inst.res) /\ CollectBitCast
    BY <1>1, <1>2, <1>5, <2>2 DEF CollectBitCast
  <2>3. CASE ~IsPtr(Inst.res) /\ CollectGetElementPtr
    <3>1. Inst.op = "gep" /\ an' = [an EXCEPT !.ok = FALSE]
      BY <2>3 DEF CollectGetElementPtr, AtInst
    <3>2. Unsupported
      BY <1>3, <2>3, <3>1 DEF Unsupported
    <3>3. an' = Require(an, 0)
      <4>1. an \in TablesOver(NewId(an))
        BY <1>3, TablesAre
      <4> QED BY <3>1, <4>1 DEF Require, TablesOver
    <3>4. Keeps(an, Require(an, 0))
      BY <1>3, <3>2, RequireKept
    <3> QED BY <1>1, <1>2, <3>3, <3>4
  <2> QED BY <1>14, <2>1, <2>2, <2>3
<1>15. CASE CollectInstExtractValue
  <2>1. an' = IF IsPtr(Inst.res) THEN Copy(an, Res, NullPtr) ELSE an
    BY <1>15 DEF CollectInstExtractValue
  <2>2. IsPtr(Inst.res) => Keeps(an, Copy(an, Res, NullPtr))
    BY <1>3, <1>4, SpecialIds, CopyKept
  <2> QED BY <1>1, <1>2, <1>5, <2>1, <2>2
<1>16. CASE CollectPHI
  <2>1. IsPtr(Inst.res) /\ an' = AnyOf(req, Res, Inst.args)
    BY <1>3, <1>16 DEF CollectPHI, AtInst, LegalInst
  <2> HIDE DEF req
  <2>2. Keeps(req, AnyOf(req, Res, Inst.args))
    BY <1>3, <1>6, <2>1, CopiesKept
  <2>3. Keeps(an, an')
    BY <1>3, <1>6, <2>1, <2>2, KeepsFacts
  <2> QED BY <1>1, <1>2, <2>3
<1>17. CASE CollectSelect
  <2> DEFINE b == Copy(an, Res, Opnd(1))
  <2>1. Inst.op = "select" /\ an' = Copy(b, Res, Opnd(2)) /\ IsPtr(Inst.res)
    BY <1>3, <1>17 DEF CollectSelect, AtInst, LegalInst
  <2>2. 1 \in PointerAt(source, Inst) /\ 2 \in PointerAt(source, Inst)
    BY <2>1 DEF PointerAt
  <2>3. \A k \in {1, 2} : Insists(Inst, Inst.args[k])
    BY <1>7, <2>1, <2>2 DEF Insists, PtrArgs, IsPtr
  <2>4. Opnd(1) # 0 \/ Unsupported
    BY <1>1, <1>7, <2>1, <2>2, <2>3, Insisted
  <2>5. Opnd(2) # 0 \/ Unsupported
    BY <1>1, <1>7, <2>1, <2>2, <2>3, Insisted
  <2>6. Keeps(an, b) /\ b \in Tables
    BY <1>3, <1>4, <2>1, <2>4, CopyKept DEF Keeps
  <2> HIDE DEF b
  <2>7. Res \in Ids(b) /\ Opnd(2) \in Ids(b)
    BY <1>3, <1>4, <2>6, KeepsFacts
  <2>8. Keeps(b, Copy(b, Res, Opnd(2)))
    BY <1>3, <2>1, <2>5, <2>6, <2>7, CopyKept
  <2>9. Keeps(an, an')
    BY <1>3, <2>1, <2>6, <2>8, KeepsFacts
  <2> QED BY <1>1, <1>2, <2>9
<1>18. CASE CollectVAArg
  <2> DEFINE n == GetValueNode(an, Inst.fun)
  <2>1. Inst.op = "va_arg" /\ an' = IF IsPtr(Inst.res) THEN an ELSE Copy(an, Res, n)
    BY <1>18 DEF CollectVAArg, AtInst
  <2>2. ~IsPtr(Inst.res) => Unsupported
    BY <1>3, <2>1 DEF Unsupported
  <2>3. n \in Ids(an)
    BY <1>3, NodeFacts
  <2> HIDE DEF n
  <2>4. ~IsPtr(Inst.res) => Keeps(an, Copy(an, Res, n))
    BY <1>3, <1>4, <2>2, <2>3, CopyKept
  <2> QED BY <1>1, <1>2, <1>5, <2>1, <2>4
<1>19. CASE CollectIntToPtr
  <2> DEFINE b == CreateObjNode(req, Inst.args[1])
  <2>1. Inst.op = "inttoptr" /\ an' = AddConstraint(b, E_ADDR_OF, Res, NewId(an))
    BY <1>19 DEF CollectIntToPtr, AtInst
  <2>2. IsPtr(Inst.res) /\ Inst.args[1] \in STRING
    BY <1>3, <2>1 DEF LegalInst
  <2> HIDE DEF req
  <2>3. Keeps(req, b) /\ 0 .. NewId(req) \subseteq Ids(b)
    BY <1>6, <2>2, ObjNode
  <2> HIDE DEF b
  <2>4. b \in Tables /\ Res \in Ids(b) /\ NewId(an) \in Ids(b)
    BY <1>6, <2>2, <2>3, KeepsFacts
  <2>5. Keeps(b, an')
    BY <2>1, <2>4, ConstraintKept, TypesAre
  <2>6. Keeps(an, an')
    BY <1>3, <1>6, <2>2, <2>3, <2>5, KeepsFacts
  <2> QED BY <1>1, <1>2, <2>6
<1> QED
  BY <1>8, <1>9, <1>10, <1>11, <1>12, <1>13, <1>14, <1>15, <1>16, <1>17, <1>18, <1>19
     DEF CollectCstOfInst

-----------------------------------------------------------------------------
(* Every step keeps the invariant *)

LEMMA InitInv == Init => IInv
<1> SUFFICES ASSUME Init
             PROVE  IInv
  OBVIOUS
<1> DEFINE nodes == <<UNKNOWN, UNKNOWN, NULL, NULL>>
<1>1. nodes \in Seq(Labels) /\ Len(nodes) = 4
  BY DEF Labels
<1>2. NoNodes \in TableOver(4)
  <2>1. NoNodes \in [{} -> 1 .. 4 - 1]
    BY DEF NoNodes
  <2> QED BY <2>1 DEF TableOver, Over
<1>3. BaseConstraints \in ConstraintsOver(4)
  <2>1. \A t \in Types : \A s, o \in 0 .. 4 - 1 : Cst(t, s, o) \in EdgeOver(4)
    BY DEF EdgeOver, Cst
  <2>2. /\ UniversalObj \in 0 .. 4 - 1 /\ UniversalPtr \in 0 .. 4 - 1
        /\ NullObject \in 0 .. 4 - 1 /\ NullPtr \in 0 .. 4 - 1
    BY DEF UniversalObj, UniversalPtr, NullObject, NullPtr
  <2>3. /\ Cst(E_ADDR_OF, UniversalObj, UniversalPtr) \in EdgeOver(4)
        /\ Cst(E_STORE, UniversalObj, UniversalObj) \in EdgeOver(4)
        /\ Cst(E_ADDR_OF, NullObject, NullPtr) \in EdgeOver(4)
    BY <2>1, <2>2, TypesAre
  <2> QED BY <2>3 DEF BaseConstraints, ConstraintsOver
<1>4. an = [nodes |-> nodes, value |-> NoNodes, object |-> NoNodes, ret |-> NoNodes,
            vararg |-> NoNodes, constraints |-> BaseConstraints, ok |-> TRUE]
      /\ source \in Sources /\ phase = "globals" /\ at = 1 /\ pc = 1
  BY DEF Init
<1> HIDE DEF nodes
<1>5. an \in Tables /\ an.ok
  <2>1. ASSUME NEW ns \in Seq(Labels), Len(ns) = 4, NEW t \in TableOver(4),
               NEW cs \in ConstraintsOver(4), NEW ok \in BOOLEAN
        PROVE  [nodes |-> ns, value |-> t, object |-> t, ret |-> t, vararg |-> t,
                constraints |-> cs, ok |-> ok] \in Tables
    <3> DEFINE r == [nodes |-> ns, value |-> t, object |-> t, ret |-> t, vararg |-> t,
                     constraints |-> cs, ok |-> ok]
    <3> HIDE DEF TableOver, Labels, ConstraintsOver
    <3>1. r \in TablesOver(4)
      BY DEF TablesOver
    <3>2. NewId(r) = 4
      BY <2>1 DEF NewId
    <3> HIDE DEF r
    <3>3. r \in Tables
      BY <3>1, <3>2, TablesAre
    <3> QED BY <3>3 DEF r
  <2>2. an.ok
    BY <1>4
  <2>3. [nodes |-> nodes, value |-> NoNodes, object |-> NoNodes, ret |-> NoNodes,
         vararg |-> NoNodes, constraints |-> BaseConstraints, ok |-> TRUE] \in Tables
    BY <1>1, <1>2, <1>3, <2>1
  <2> QED BY <1>4, <2>2, <2>3
<1>6. Typed /\ Failed /\ InBody
  BY <1>4, <1>5 DEF Typed, Phases, Failed, InBody
<1>7. \A k \in DOMAIN Globals : k \in Nat \ {0}
  BY <1>4, SourceTyped
<1>8. GlobalsNamed /\ FuncsNamed
  BY <1>4, <1>7 DEF GlobalsNamed, FuncsNamed, Past
<1> QED
  BY <1>6, <1>8 DEF IInv

\* What is left to show of a step that keeps the tables.
LEMMA KeptStep ==
  ASSUME IInv, Keeps(an, an'), an.ok, source' = source, phase \notin {"done", "solve", "aborted"},
         phase' \in Phases, phase' # "aborted", at' \in Nat \ {0}, pc' \in Nat \ {0}
  PROVE  /\ Typed' /\ Failed'
         /\ \A k \in DOMAIN Globals : GlobalNamed(an, Globals[k]) => GlobalNamed(an', Globals[k])
         /\ \A k \in DOMAIN Funcs : FuncNamed(an, Funcs[k]) => FuncNamed(an', Funcs[k])
         /\ Globals' = Globals /\ Funcs' = Funcs
<1>1. Unsupported' = Unsupported
  BY DEF Unsupported, Globals, Insists, Table
<1>2. an' \in Tables /\ Grows(an, an') /\ (an'.ok \/ Unsupported)
  BY DEF Keeps
<1>3. Typed'
  BY <1>2 DEF IInv, Typed
<1>4. Failed'
  BY <1>1, <1>2 DEF Failed
<1> QED
  BY <1>2, <1>3, <1>4, NamedStays DEF Globals, Funcs

LEMMA GlobalNodeInv == IInv /\ GlobalNode => IInv'
<1> SUFFICES ASSUME IInv, GlobalNode
             PROVE  IInv'
  OBVIOUS
<1> DEFINE g == Globals[at]
           b == CreateValueNode(an, g.name)
           c == IF g.string THEN [b EXCEPT !.object = Put(@, g.name, UniversalObj)]
                ELSE CreateObjNode(b, g.name)
<1>1. /\ source \in Sources /\ an \in Tables /\ phase = "globals" /\ an.ok /\ at \in DOMAIN Globals
      /\ at' = at + 1 /\ pc' = pc /\ source' = source /\ phase' = phase /\ at \in Nat \ {0} /\ pc \in Nat \ {0}
  BY SourceTyped DEF GlobalNode, Running, NextItem, IInv, Typed
<1>2. g.name \in STRING
  BY <1>1, SourceTyped DEF GlobalType
<1>3. an' = AddConstraint(c, E_ADDR_OF, c.value[g.name], c.object[g.name])
  BY DEF GlobalNode, ObjectOf
<1> HIDE DEF g
<1>4. Keeps(an, b) /\ b \in Tables /\ g.name \in DOMAIN b.value
  BY <1>1, <1>2, ValueNode DEF Keeps
<1> HIDE DEF b
<1>5. Keeps(b, c) /\ c \in Tables /\ g.name \in DOMAIN c.object
  BY <1>2, <1>4, ObjNode, StringObject DEF Keeps
<1> HIDE DEF c
<1>6. g.name \in DOMAIN c.value
  BY <1>4, <1>5 DEF Keeps, Grows
<1>7. c.value[g.name] \in Ids(c) /\ c.object[g.name] \in Ids(c)
  <2>1. c.value \in TableOver(NewId(c)) /\ c.object \in TableOver(NewId(c))
    BY <1>5, TablesAre DEF TablesOver
  <2> QED BY <1>5, <1>6, <2>1, FindFacts
<1>8. Keeps(c, an')
  BY <1>3, <1>5, <1>7, ConstraintKept, TypesAre
<1>9. Keeps(an, an') /\ GlobalNamed(an', g)
  <2>1. GlobalNamed(c, g)
    BY <1>5, <1>6 DEF GlobalNamed
  <2>2. Keeps(an, an')
    BY <1>1, <1>4, <1>5, <1>8, KeepsFacts
  <2> QED BY <1>8, <2>1, <2>2, NamedStays DEF Keeps
<1>10. /\ Typed' /\ Failed' /\ Globals' = Globals
       /\ \A k \in DOMAIN Globals : GlobalNamed(an, Globals[k]) => GlobalNamed(an', Globals[k])
  BY <1>1, <1>9, KeptStep DEF Phases
<1>11. \A k \in DOMAIN Globals : k < at => GlobalNamed(an, Globals[k])
  BY <1>1 DEF IInv, GlobalsNamed, Past
<1>12. DOMAIN Globals = 1 .. Len(Globals) /\ Len(Globals) \in Nat
  BY <1>1, SourceTyped
<1>13. \A k \in DOMAIN Globals : k < at + 1 => GlobalNamed(an', Globals[k])
  BY <1>1, <1>9, <1>10, <1>11, <1>12 DEF g
<1>14. GlobalsNamed'
  BY <1>1, <1>10, <1>13 DEF GlobalsNamed, Past
<1>15. FuncsNamed' /\ InBody'
  BY <1>1 DEF FuncsNamed, Past, InBody
<1> QED
  BY <1>10, <1>14, <1>15 DEF IInv

LEMMA FuncNodesKept ==
  ASSUME NEW a \in Tables, NEW f \in FuncType, f.name \in DOMAIN a.value, f.name \in DOMAIN a.object
  PROVE  Keeps(a, FuncNodes(a, f)) /\ FuncNamed(FuncNodes(a, f), f)
<1> DEFINE b == IF f.ptr THEN CreateRetNode(a, f.name) ELSE a
           c == IF f.vararg THEN CreateVarArgNode(b, f.name) ELSE b
           d == CreateValueNodes(c, f.params)
<1>1. f.name \in STRING /\ f.params \in Seq(STRING)
  BY DEF FuncType
<1>2. Keeps(a, b) /\ b \in Tables /\ (f.ptr => f.name \in DOMAIN b.ret)
  BY <1>1, RetNode, KeepsFacts DEF Keeps
<1>3. FuncNodes(a, f) = d
  BY DEF FuncNodes
<1> HIDE DEF b
<1>4. Keeps(b, c) /\ c \in Tables /\ (f.vararg => f.name \in DOMAIN c.vararg)
  BY <1>1, <1>2, VarArgNode, KeepsFacts DEF Keeps
<1> HIDE DEF c
<1>5. /\ Keeps(c, d) /\ \A k \in DOMAIN f.params : IsPtr(f.params[k]) => f.params[k] \in DOMAIN d.value
  BY <1>1, <1>4, ValueNodes
<1> HIDE DEF d
<1>6. Keeps(a, d)
  BY <1>2, <1>4, <1>5, KeepsFacts
<1>7. FuncNamed(d, f)
  BY <1>2, <1>4, <1>5 DEF Keeps, Grows, FuncNamed
<1> QED
  BY <1>3, <1>6, <1>7

LEMMA FuncNodeInv == IInv /\ FuncNode => IInv'
<1> SUFFICES ASSUME IInv, FuncNode
             PROVE  IInv'
  OBVIOUS
<1> DEFINE f == Funcs[at]
           b == CreateValueNode(an, f.name)
           c == CreateObjNode(b, f.name)
           d == AddConstraint(c, E_ADDR_OF, c.value[f.name], c.object[f.name])
<1>1. /\ source \in Sources /\ an \in Tables /\ phase = "functions" /\ an.ok /\ at \in DOMAIN Funcs
      /\ at' = at + 1 /\ pc' = pc /\ source' = source /\ phase' = phase /\ at \in Nat \ {0} /\ pc \in Nat \ {0}
  BY SourceTyped DEF FuncNode, Running, NextItem, IInv, Typed
<1>2. f \in FuncType /\ f.name \in STRING
  BY <1>1, SourceTyped DEF FuncType
<1>3. an' = IF IsDecl(f) THEN d ELSE FuncNodes(d, f)
  BY DEF FuncNode, ObjectOf, Func
<1> HIDE DEF f
<1>4. Keeps(an, b) /\ b \in Tables /\ f.name \in DOMAIN b.value
  BY <1>1, <1>2, ValueNode DEF Keeps
<1> HIDE DEF b
<1>5. Keeps(b, c) /\ c \in Tables /\ f.name \in DOMAIN c.object
  BY <1>2, <1>4, ObjNode DEF Keeps
<1> HIDE DEF c
<1>6. f.name \in DOMAIN c.value
  BY <1>4, <1>5 DEF Keeps, Grows
<1>7. c.value[f.name] \in Ids(c) /\ c.object[f.name] \in Ids(c)
  <2>1. c.value \in TableOver(NewId(c)) /\ c.object \in TableOver(NewId(c))
    BY <1>5, TablesAre DEF TablesOver
  <2> QED BY <1>5, <1>6, <2>1, FindFacts
<1>8. Keeps(c, d) /\ d \in Tables
  BY <1>5, <1>7, ConstraintKept, TypesAre DEF Keeps
<1> HIDE DEF d
<1>9. f.name \in DOMAIN d.value /\ f.name \in DOMAIN d.object
  BY <1>5, <1>6, <1>8 DEF Keeps, Grows
<1>10. Keeps(d, an') /\ FuncNamed(an', f)
  <2>1. CASE IsDecl(f)
    BY <1>3, <1>8, <1>9, <2>1, KeepsFacts DEF FuncNamed
  <2>2. CASE ~IsDecl(f)
    BY <1>2, <1>3, <1>8, <1>9, <2>2, FuncNodesKept
  <2> QED BY <2>1, <2>2
<1>11. Keeps(an, an')
  BY <1>1, <1>4, <1>5, <1>8, <1>10, KeepsFacts
<1>12. /\ Typed' /\ Failed' /\ Globals' = Globals /\ Funcs' = Funcs
       /\ \A k \in DOMAIN Globals : GlobalNamed(an, Globals[k]) => GlobalNamed(an', Globals[k])
       /\ \A k \in DOMAIN Funcs : FuncNamed(an, Funcs[k]) => FuncNamed(an', Funcs[k])
  BY <1>1, <1>11, KeptStep DEF Phases
<1>13. \A k \in DOMAIN Funcs : k < at => FuncNamed(an, Funcs[k])
  BY <1>1 DEF IInv, FuncsNamed, Past
<1>14. DOMAIN Funcs = 1 .. Len(Funcs) /\ Len(Funcs) \in Nat
  BY <1>1, SourceTyped
<1>15. \A k \in DOMAIN Funcs : k < at + 1 => FuncNamed(an', Funcs[k])
  BY <1>1, <1>10, <1>12, <1>13, <1>14 DEF f
<1>16. FuncsNamed'
  BY <1>1, <1>12, <1>15 DEF FuncsNamed, Past
<1>17. GlobalsNamed'
  BY <1>1, <1>12 DEF IInv, GlobalsNamed, Past
<1>18. InBody'
  BY <1>1 DEF InBody
<1> QED
  BY <1>12, <1>16, <1>17, <1>18 DEF IInv

LEMMA GlobalInitInv == IInv /\ GlobalInit => IInv'
<1> SUFFICES ASSUME IInv, GlobalInit
             PROVE  IInv'
  OBVIOUS
<1> DEFINE g == Globals[at]
           o == GetObjNode(an, g.name)
<1>1. /\ source \in Sources /\ an \in Tables /\ phase = "inits" /\ an.ok /\ at \in DOMAIN Globals
      /\ at' = at + 1 /\ pc' = pc /\ source' = source /\ phase' = phase /\ at \in Nat \ {0} /\ pc \in Nat \ {0}
  BY SourceTyped DEF GlobalInit, Running, NextItem, IInv, Typed
<1>2. g \in ToSet(Globals) /\ g.init \in Seq(STRING) /\ o \in Ids(an)
  BY <1>1, SourceTyped, NodeFacts DEF GlobalType
<1>3. an' = IF g.init = <<EXTERNAL>> THEN AddConstraint(an, E_COPY, o, UniversalObj)
            ELSE AddGlbInitialCsts(an, o, g.init)
  BY DEF GlobalInit
<1>4. \A n \in Names(Globals) \cup Names(Funcs) : n \in DOMAIN an.object
  <2>1. \A k \in DOMAIN Globals : GlobalNamed(an, Globals[k])
    BY <1>1 DEF IInv, GlobalsNamed, Past
  <2>2. \A k \in DOMAIN Funcs : FuncNamed(an, Funcs[k])
    BY <1>1 DEF IInv, FuncsNamed, Past
  <2> QED BY <2>1, <2>2 DEF Names, GlobalNamed, FuncNamed
<1>5. g.init = <<EXTERNAL>> \/
      ToSet(g.init) \subseteq {ZERO, NULL, ADDRESS, ALIAS} \cup Names(Globals) \cup Names(Funcs)
  BY <1>1, <1>2, SourceTyped DEF Legal, Globals, Funcs
<1>6. ALIAS \in ToSet(g.init) => Unsupported
  BY <1>2 DEF Unsupported
<1> HIDE DEF g, o
<1>7. Keeps(an, AddConstraint(an, E_COPY, o, UniversalObj))
  BY <1>1, <1>2, ConstraintKept, TypesAre, SpecialIds
<1>8. ASSUME g.init # <<EXTERNAL>>
      PROVE  Keeps(an, AddGlbInitialCsts(an, o, g.init))
  <2>1. \A v \in ToSet(g.init) : v = ZERO \/ v \in DOMAIN an.object \cup {NULL, ADDRESS} \/ Unsupported
    BY <1>4, <1>5, <1>6, <1>8
  <2> QED BY <1>1, <1>2, <2>1, InitsKept
<1>9. Keeps(an, an')
  BY <1>3, <1>7, <1>8
<1>10. /\ Typed' /\ Failed' /\ Globals' = Globals /\ Funcs' = Funcs
       /\ \A k \in DOMAIN Globals : GlobalNamed(an, Globals[k]) => GlobalNamed(an', Globals[k])
       /\ \A k \in DOMAIN Funcs : FuncNamed(an, Funcs[k]) => FuncNamed(an', Funcs[k])
  BY <1>1, <1>9, KeptStep DEF Phases
<1>11. GlobalsNamed' /\ FuncsNamed'
  BY <1>1, <1>10 DEF IInv, GlobalsNamed, FuncsNamed, Past
<1>12. InBody'
  BY <1>1 DEF InBody
<1> QED
  BY <1>10, <1>11, <1>12 DEF IInv

LEMMA EnterFunctionInv == IInv /\ EnterFunction => IInv'
<1> SUFFICES ASSUME IInv, EnterFunction
             PROVE  IInv'
  OBVIOUS
<1> DEFINE s == [k \in DOMAIN Func.body |-> Func.body[k].res]
<1>1. /\ source \in Sources /\ an \in Tables /\ phase = "values" /\ an.ok /\ at \in DOMAIN Funcs
      /\ at <= Len(Funcs) /\ ~Skipped(Func) /\ at' = at /\ pc' = 1 /\ source' = source
      /\ phase' = "insts" /\ at \in Nat \ {0} /\ an' = CreateValueNodes(an, s)
  BY SourceTyped DEF EnterFunction, Running, IInv, Typed
<1>2. Func \in FuncType
  BY <1>1, SourceTyped DEF Func
<1>3. s \in Seq(STRING) /\ DOMAIN s = DOMAIN Func.body
  <2>1. Func.body \in Seq(InstType)
    BY <1>2 DEF FuncType
  <2>2. \A k \in DOMAIN Func.body : Func.body[k].res \in STRING
    <3>1. \A k \in DOMAIN Func.body : Func.body[k] \in InstType
      BY <2>1
    <3> QED BY <3>1 DEF InstType
  <2>3. s \in [1 .. Len(Func.body) -> STRING] /\ Len(Func.body) \in Nat
    BY <2>1, <2>2
  <2> QED BY <2>1, <2>3
<1>4. /\ Keeps(an, an')
      /\ \A k \in DOMAIN Func.body : IsPtr(Func.body[k].res) => Func.body[k].res \in DOMAIN an'.value
  <2>1. \A k \in DOMAIN Func.body : s[k] = Func.body[k].res
    OBVIOUS
  <2> HIDE DEF s
  <2> QED BY <1>1, <1>3, <2>1, ValueNodes
<1>5. /\ Typed' /\ Failed' /\ Globals' = Globals /\ Funcs' = Funcs
      /\ \A k \in DOMAIN Globals : GlobalNamed(an, Globals[k]) => GlobalNamed(an', Globals[k])
      /\ \A k \in DOMAIN Funcs : FuncNamed(an, Funcs[k]) => FuncNamed(an', Funcs[k])
  BY <1>1, <1>4, KeptStep DEF Phases
<1>6. GlobalsNamed' /\ FuncsNamed'
  BY <1>1, <1>5 DEF IInv, GlobalsNamed, FuncsNamed, Past
<1>7. InBody'
  <2>1. Func' = Func
    BY <1>1 DEF Func, Funcs
  <2> QED BY <1>1, <1>4, <1>5, <2>1 DEF InBody, Skipped
<1> QED
  BY <1>5, <1>6, <1>7 DEF IInv

LEMMA InstInv == IInv /\ CollectCstOfInst => IInv'
<1> SUFFICES ASSUME IInv, CollectCstOfInst
             PROVE  IInv'
  OBVIOUS
<1>1. Keeps(an, an') /\ NextInst /\ phase = "insts"
  BY InstKept
<1>2. an.ok
  BY DEF CollectCstOfInst, CollectAlloca, CollectCall, CollectIndirectCall, CollectRet, CollectLoad,
         CollectStore, CollectBitCast, CollectGetElementPtr, CollectInstExtractValue, CollectPHI,
         CollectSelect, CollectVAArg, CollectIntToPtr, AtInst, Running
<1>3. /\ pc' = pc + 1 /\ source' = source /\ phase' = phase /\ at' = at
      /\ at \in Nat \ {0} /\ pc' \in Nat \ {0}
  BY <1>1 DEF NextInst, IInv, Typed
<1>4. /\ Typed' /\ Failed' /\ Globals' = Globals /\ Funcs' = Funcs
      /\ \A k \in DOMAIN Globals : GlobalNamed(an, Globals[k]) => GlobalNamed(an', Globals[k])
      /\ \A k \in DOMAIN Funcs : FuncNamed(an, Funcs[k]) => FuncNamed(an', Funcs[k])
  BY <1>1, <1>2, <1>3, KeptStep DEF Phases
<1>5. GlobalsNamed' /\ FuncsNamed'
  BY <1>1, <1>3, <1>4 DEF IInv, GlobalsNamed, FuncsNamed, Past
<1>6. InBody'
  <2>1. Func' = Func
    BY <1>3 DEF Func, Funcs
  <2>2. \A v \in DOMAIN an.value : v \in DOMAIN an'.value
    BY <1>1 DEF Keeps, Grows
  <2> QED BY <1>1, <1>3, <1>4, <2>1, <2>2 DEF IInv, InBody, Skipped
<1> QED
  BY <1>4, <1>5, <1>6 DEF IInv

\* The steps that leave the tables alone.
LEMMA MoveInv == IInv /\ (NextPhase \/ SkipFunction \/ LeaveFunction) => IInv'
<1> SUFFICES ASSUME IInv, NextPhase \/ SkipFunction \/ LeaveFunction
             PROVE  IInv'
  OBVIOUS
<1>1. an \in Tables /\ source \in Sources /\ at \in Nat \ {0} /\ pc \in Nat \ {0}
  BY DEF IInv, Typed
<1>2. an' = an /\ source' = source /\ pc' = pc /\ an.ok /\ Keeps(an, an')
  BY <1>1, KeepsFacts DEF NextPhase, SkipFunction, LeaveFunction, NextItem, Running, Advance
<1>3. \/ phase = "globals" /\ phase' = "functions" /\ at > Len(Globals) /\ at' = 1
      \/ phase = "functions" /\ phase' = "inits" /\ at > Len(Funcs) /\ at' = 1
      \/ phase = "inits" /\ phase' = "values" /\ at' = 1
      \/ phase = "values" /\ phase' = "values" /\ at' = at + 1
      \/ phase = "insts" /\ phase' = "values" /\ at' = at + 1
  BY DEF NextPhase, SkipFunction, LeaveFunction, NextItem, Running, Advance
<1>4. at' \in Nat \ {0} /\ phase' \in Phases /\ phase' # "aborted" /\ phase \notin {"done", "solve", "aborted"}
  BY <1>1, <1>3 DEF Phases
<1>5. Typed' /\ Failed' /\ Globals' = Globals /\ Funcs' = Funcs
  BY <1>1, <1>2, <1>4, KeptStep
<1>6. \A k \in DOMAIN Globals : k \in Nat /\ k <= Len(Globals) /\ Len(Globals) \in Nat
  BY <1>1, SourceTyped
<1>7. \A k \in DOMAIN Funcs : k \in Nat /\ k <= Len(Funcs) /\ Len(Funcs) \in Nat
  BY <1>1, SourceTyped
<1>8. \A k \in DOMAIN Globals : Past(k, "globals", {"functions", "inits", "values", "insts"})'
                                  => Past(k, "globals", {"functions", "inits", "values", "insts"})
  BY <1>1, <1>3, <1>6 DEF Past
<1>9. \A k \in DOMAIN Funcs : Past(k, "functions", {"inits", "values", "insts"})'
                                => Past(k, "functions", {"inits", "values", "insts"})
  BY <1>1, <1>3, <1>7 DEF Past
<1>10. GlobalsNamed' /\ FuncsNamed'
  BY <1>2, <1>5, <1>8, <1>9 DEF IInv, GlobalsNamed, FuncsNamed
<1>11. InBody'
  BY <1>3 DEF InBody
<1> QED
  BY <1>5, <1>10, <1>11 DEF IInv

\* The steps after the collection.
LEMMA EndInv == IInv /\ (Finish \/ Solve \/ Abort \/ UNCHANGED vars) => IInv'
<1> SUFFICES ASSUME IInv, Finish \/ Solve \/ Abort \/ UNCHANGED vars
             PROVE  IInv'
  OBVIOUS
<1>1. source' = source
  BY DEF Finish, Solve, Abort, vars
<1>2. Unsupported' = Unsupported
  BY <1>1 DEF Unsupported, Globals, Insists, Table
<1>3. CASE Finish
  <2>1. an' = [an EXCEPT !.object = NoNodes, !.ret = NoNodes, !.vararg = NoNodes]
        /\ an \in Tables /\ phase' = "solve" /\ at' = 1 /\ pc' = pc /\ an.ok /\ pc \in Nat \ {0}
    BY <1>3 DEF Finish, Advance, Running, IInv, Typed
  <2>2. an' \in Tables /\ an'.ok
    <3> DEFINE n == NewId(an)
    <3>1. an \in TablesOver(n) /\ n \in Nat /\ n >= 4
      BY <2>1, TablesAre
    <3>2. NoNodes \in TableOver(n)
      <4>1. NoNodes \in [{} -> 1 .. n - 1]
        BY DEF NoNodes
      <4> QED BY <4>1 DEF TableOver, Over
    <3>3. an'.nodes = an.nodes /\ an'.ok
      BY <2>1, <3>1 DEF TablesOver
    <3>4. NewId(an') = n
      BY <3>3 DEF NewId
    <3> HIDE DEF n
    <3>5. an' \in TablesOver(n)
      BY <2>1, <3>1, <3>2 DEF TablesOver
    <3> QED BY <3>1, <3>3, <3>4, <3>5, TablesAre
  <2> QED BY <1>1, <2>1, <2>2
             DEF IInv, Typed, Phases, GlobalsNamed, FuncsNamed, Past, InBody, Failed
<1>4. CASE Solve
  BY <1>1, <1>2, <1>4 DEF Solve, IInv, Typed, Phases, GlobalsNamed, FuncsNamed, Past, InBody, Failed
<1>5. CASE Abort
  BY <1>1, <1>2, <1>5 DEF Abort, IInv, Typed, Phases, GlobalsNamed, FuncsNamed, Past, InBody, Failed
<1>6. CASE UNCHANGED vars
  <2>1. phase' = phase /\ at' = at /\ pc' = pc /\ an' = an /\ Func' = Func /\ Globals' = Globals /\ Funcs' = Funcs
    BY <1>6 DEF vars, Func, Funcs, Globals
  <2> QED BY <1>1, <1>2, <2>1
             DEF IInv, Typed, Phases, GlobalsNamed, FuncsNamed, Past, InBody, Failed, Skipped
<1> QED
  BY <1>3, <1>4, <1>5, <1>6

LEMMA StepInv == IInv /\ [Next]_vars => IInv'
BY GlobalNodeInv, FuncNodeInv, GlobalInitInv, EnterFunctionInv, InstInv, MoveInv, EndInv DEF Next, Stop

\* The invariant holds in every state, for every set of legal programs.
THEOREM Invariant == Spec => []IInv
<1> QED
  BY InitInv, StepInv, PTL DEF Spec

\* CollectCstOfGlobal and CollectCstOfInst run into no assertion, whatever
\* the order of the functions and the links between modules, unless the
\* program has what the collection does not support.
THEOREM CollectsAllPrograms == Spec => []CollectsAll
<1>1. IInv => CollectsAll
  BY DEF IInv, Failed, CollectsAll
<1> QED
  BY <1>1, Invariant, PTL

\* What is handed to the solver is a program as Anderson takes it
\* (ProgramsAssumption there): every id in a constraint is that of a node, in
\* every phase and after a failed assertion too.
THEOREM HandsOnConstraints == Spec => [](Len(an.nodes) <= NodeNum => an.constraints \in Seq(Constraint))
<1>1. IInv => (Len(an.nodes) <= NodeNum => an.constraints \in Seq(Constraint))
  <2> SUFFICES ASSUME an \in Tables, Len(an.nodes) <= NodeNum
               PROVE  an.constraints \in Seq(Constraint)
    BY DEF IInv, Typed
  <2> DEFINE n == NewId(an)
  <2>1. n \in Nat /\ an \in TablesOver(n) /\ n <= NodeNum
    BY TablesAre DEF NewId
  <2> HIDE DEF n
  <2>2. an.constraints \in ConstraintsOver(NodeNum)
    BY <2>1, Wider, NodeNumAssumption DEF TablesOver
  <2> QED BY <2>2 DEF ConstraintsOver, EdgeOver, Constraint, Node, Types
<1> QED
  BY <1>1, Invariant, PTL

=============================================================================

-------------------------- MODULE SccDetectProofs --------------------------
(***************************************************************************)
(* Type correctness of the cycle search, that it leaves no node on its     *)
(* stack when the outermost call ends, and that what it returns are the    *)
(* strongly connected components of what it visited, for every graph and   *)
(* every set of nodes visited by earlier runs.                             *)
(*                                                                         *)
(* The last of them is the correctness of the algorithm, which is not quite*)
(* the one of the textbook: there is one number per node, so that a node   *)
(* takes over whatever number an open neighbour has by then, where Tarjan's*)
(* takes the number of the neighbour's visit.  The invariant says what a   *)
(* number still tells: which calls a node is reached from and which it     *)
(* reaches (ReachInv), where an edge that was looked at may lead           *)
(* (EdgesInv), and which part of the stack will be each call's component   *)
(* (BaseInv).                                                              *)
(***************************************************************************)
EXTENDS SccDetect, FiniteSetTheorems, SequenceTheorems, WellFoundedInduction, TLAPS

OnStack == {sccStack[i] : i \in DOMAIN sccStack}
Active == {calls[i].node : i \in DOMAIN calls}
Open == Visited \ inComp

\* The outermost call is the one that clears the stack.  It can, because
\* every node not yet in a component is on the stack or in a call, and none
\* of them is numbered before the outermost call; that call's own number
\* therefore never goes down, and it ends as the root of a component.
StackInv ==
  /\ OnStack \cup Active \subseteq Visited
  /\ Open \subseteq OnStack \cup Active
  /\ calls = <<>> => sccStack = <<>> /\ Open = {}
  /\ calls # <<>> =>
       /\ low[calls[1].node] = calls[1].stamp /\ calls[1].stamp <= timeStamp
       /\ \A n \in OnStack \cup Active : low[n] >= calls[1].stamp

IInv == TypeOK /\ StackInv

Activation == [node : Nodes, stamp : Nat, todo : SUBSET Nodes]

\* A call and the number of its node.
LEMMA CallType ==
  ASSUME TypeOK, NEW n \in Nodes
  PROVE  Call(n) \in Activation /\ Call(n).node = n /\ Call(n).stamp = timeStamp
<1>1. graph \in [Nodes -> SUBSET Nodes]
  BY SccAssumption DEF TypeOK
<1> QED
  BY <1>1 DEF Call, Activation, TypeOK

\* A call with one child less to look at.
LEMMA ShorterCall ==
  ASSUME NEW a \in Activation, NEW c
  PROVE  LET f == [a EXCEPT !.todo = @ \ {c}]
         IN  f \in Activation /\ f.node = a.node /\ f.stamp = a.stamp /\ f.todo = a.todo \ {c}
BY DEF Activation

LEMMA TopType ==
  ASSUME TypeOK, calls # <<>>
  PROVE  /\ Len(calls) \in Nat \ {0} /\ DOMAIN calls = 1 .. Len(calls)
         /\ \A i \in 1 .. Len(calls) : calls[i] \in Activation
         /\ Top(calls) = calls[Len(calls)] /\ Top(calls) \in Activation
<1>1. calls \in Seq(Activation)
  BY DEF TypeOK, Activation
<1>2. Len(calls) \in Nat \ {0} /\ DOMAIN calls = 1 .. Len(calls)
  BY <1>1, EmptySeq, LenProperties
<1> QED
  BY <1>1, <1>2, ElementOfSeq DEF Top

LEMMA Prefix ==
  ASSUME NEW S, NEW s \in Seq(S), NEW k \in 0 .. Len(s)
  PROVE  /\ SubSeq(s, 1, k) \in Seq(S) /\ Len(SubSeq(s, 1, k)) = k
         /\ \A i \in 1 .. k : SubSeq(s, 1, k)[i] = s[i]
<1> DEFINE m == 1
<1>1. Len(s) \in Nat /\ \A i \in 1 .. Len(s) : s[i] \in S
  BY LenProperties, ElementOfSeq
<1>2. m \in Int /\ k \in Int /\ \A i \in m .. k : s[i] \in S
  BY <1>1
<1>3. k - m + 1 = k /\ \A i \in 1 .. k : m + i - 1 = i
  BY <1>1
<1> HIDE DEF m
<1>4. /\ SubSeq(s, m, k) \in Seq(S) /\ Len(SubSeq(s, m, k)) = IF m <= k THEN k - m + 1 ELSE 0
      /\ \A i \in 1 .. k - m + 1 : SubSeq(s, m, k)[i] = s[m + i - 1]
  BY <1>2, SubSeqProperties
<1>5. Len(SubSeq(s, m, k)) = k
  BY <1>1, <1>3, <1>4 DEF m
<1>6. \A i \in 1 .. k : SubSeq(s, m, k)[i] = s[i]
  BY <1>3, <1>4
<1> QED
  BY <1>4, <1>5, <1>6 DEF m

\* The sequence of calls without the innermost one.
LEMMA FrontCalls ==
  ASSUME TypeOK, calls # <<>>
  PROVE  /\ Front(calls) \in Seq(Activation) /\ Len(Front(calls)) = Len(calls) - 1
         /\ \A i \in 1 .. Len(calls) - 1 : Front(calls)[i] = calls[i]
<1>1. calls \in Seq(Activation) /\ Len(calls) - 1 \in 0 .. Len(calls)
  BY TopType DEF TypeOK, Activation
<1> QED
  BY <1>1, Prefix DEF Front

\* A non-empty set of numbers up to L has one whose predecessor is not in it.
LEMMA FirstOfSet ==
  ASSUME NEW L \in Nat, NEW T \in SUBSET (0 .. L), T # {}
  PROVE  \E k \in T : k - 1 \notin T
<1> DEFINE S == 0 .. L
           R == StrictSubsetOrdering(S)
           F == {0 .. k : k \in T}
<1>1. IsWellFoundedOn(R, FiniteSubsetsOf(S))
  BY FS_StrictSubsetOrderingWellFounded
<1>2. IsFiniteSet(S)
  BY FS_Interval
<1>3. F # {} /\ F \subseteq FiniteSubsetsOf(S)
  <2>1. \A k \in T : (0 .. k) \in SUBSET S
    OBVIOUS
  <2>2. \A k \in T : IsFiniteSet(0 .. k)
    BY <1>2, <2>1, FS_Subset
  <2> QED
    BY <2>1, <2>2 DEF FiniteSubsetsOf
<1>4. PICK X \in F : \A Y \in F : ~ (<<Y, X>> \in R)
  <2> HIDE DEF F, R
  <2> QED
    BY <1>1, <1>3, WFMin
<1>5. PICK k \in T : X = 0 .. k
  BY <1>4
<1>6. ASSUME k - 1 \in T PROVE FALSE
  <2>1. (0 .. k - 1) \subseteq X /\ (0 .. k - 1) # X /\ X \subseteq S
    BY <1>5, <1>6
  <2>2. <<0 .. k - 1, X>> \in R
    BY <2>1 DEF StrictSubsetOrdering
  <2> QED
    BY <1>4, <1>6, <2>2
<1> QED
  BY <1>6

\* There is a length to which the stack is popped, and what is above it is
\* numbered stamp or later, what is at it earlier.
LEMMA PoppedIsLength ==
  ASSUME TypeOK, OnStack \subseteq Visited, NEW stamp \in Nat
  PROVE  LET k == PoppedTo(stamp)
         IN /\ k \in 0 .. Len(sccStack)
            /\ \A i \in k + 1 .. Len(sccStack) : low[sccStack[i]] >= stamp
            /\ k > 0 => low[sccStack[k]] < stamp
<1> DEFINE L == Len(sccStack)
           T == {k \in 0 .. L : \A i \in k + 1 .. L : low[sccStack[i]] >= stamp}
<1>1. L \in Nat /\ DOMAIN sccStack = 1 .. L
  BY DEF TypeOK
<1>2. L \in T /\ T \subseteq 0 .. L
  BY <1>1
<1>3. PICK k \in T : k - 1 \notin T
  <2> HIDE DEF T
  <2> QED
    BY <1>1, <1>2, FirstOfSet
<1>4. ASSUME k > 0 PROVE low[sccStack[k]] < stamp
  <2>1. k \in 1 .. L /\ low[sccStack[k]] \in Nat
    <3>1. k \in 1 .. L
      BY <1>1, <1>4
    <3>2. sccStack[k] \in Visited
      BY <3>1, <1>1 DEF OnStack
    <3> QED
      BY <3>1, <3>2 DEF TypeOK
  <2>3. k - 1 \in 0 .. L
    BY <2>1, <1>1
  <2>4. PICK i \in k .. L : ~ (low[sccStack[i]] >= stamp)
    BY <1>3, <2>3, <2>1, <1>1
  <2>5. i = k
    BY <2>4, <2>1, <1>1, <1>3
  <2> QED
    BY <2>4, <2>5, <2>1
<1> DEFINE P(j) == /\ \A i \in j + 1 .. L : low[sccStack[i]] >= stamp
                   /\ j > 0 => low[sccStack[j]] < stamp
<1>5. k \in 0 .. L /\ P(k)
  BY <1>3, <1>4
<1>6. PoppedTo(stamp) = CHOOSE j \in 0 .. L : P(j)
  BY DEF PoppedTo
<1> HIDE DEF P
<1>7. PoppedTo(stamp) \in 0 .. L /\ P(PoppedTo(stamp))
  BY <1>5, <1>6
<1> QED
  BY <1>7 DEF P

-----------------------------------------------------------------------------
LEMMA InitHolds == Init => IInv
<1> SUFFICES ASSUME Init PROVE IInv
  OBVIOUS
<1>1. timeStamp \in Nat
  BY SccAssumption, FS_Subset, FS_CardinalityType DEF Init
<1>2. Visited = earlier
  BY DEF Init, Visited
<1>3. TypeOK
  BY <1>1, <1>2 DEF Init, TypeOK
<1>4. StackInv
  BY <1>2 DEF Init, StackInv, OnStack, Active, Open
<1> QED
  BY <1>3, <1>4 DEF IInv

\* A new call, the outermost one or one more.
LEMMA EnterKeeps ==
  ASSUME IInv, NEW n \in Nodes \ Visited, Enter(n), calls' = Append(calls, Call(n)),
         UNCHANGED <<graph, earlier, start, inComp, sccStack, mergeMap>>, roots' \subseteq start
  PROVE  IInv'
<1>1. /\ Call(n) \in Activation /\ Call(n).node = n /\ Call(n).stamp = timeStamp
      /\ calls \in Seq(Activation)
  BY CallType DEF IInv, TypeOK, Activation
<1>2. /\ calls' \in Seq(Activation) /\ calls' # <<>> /\ Len(calls') = Len(calls) + 1
      /\ \A i \in 1 .. Len(calls) : calls'[i] = calls[i]
      /\ calls'[Len(calls) + 1] = Call(n)
  BY <1>1, AppendProperties
<1>3. Len(calls) \in Nat /\ DOMAIN calls = 1 .. Len(calls) /\ DOMAIN calls' = 1 .. Len(calls) + 1
  BY <1>1, <1>2, LenProperties
<1>4. timeStamp \in Nat /\ timeStamp' = timeStamp + 1
  BY DEF IInv, TypeOK, Enter
<1>5. Visited' = Visited \cup {n} /\ low'[n] = timeStamp /\ \A m \in Visited : low'[m] = low[m]
  BY DEF Enter, Visited
<1>6. TypeOK'
  <2>1. Visited' \subseteq Nodes /\ inComp' \subseteq Visited' /\ \A m \in Visited' : low'[m] \in Nat
    BY <1>4, <1>5 DEF IInv, TypeOK
  <2>2. calls' \in Seq([node : Nodes, stamp : Nat, todo : SUBSET Nodes])
    BY <1>2 DEF Activation
  <2>3. timeStamp' \in Nat /\ roots' \subseteq start'
    BY <1>4
  <2> QED
    BY <2>1, <2>2, <2>3 DEF IInv, TypeOK
<1>7. Active' = Active \cup {n} /\ OnStack' = OnStack /\ Open' = Open \cup {n}
  <2>1. Active' = Active \cup {n}
    BY <1>1, <1>2, <1>3 DEF Active
  <2>2. Open' = Open \cup {n}
    BY <1>5 DEF Open, IInv, TypeOK
  <2> QED
    BY <2>1, <2>2 DEF OnStack
<1>8. /\ OnStack' \cup Active' \subseteq Visited'
      /\ Open' \subseteq OnStack' \cup Active'
  BY <1>5, <1>7 DEF IInv, StackInv
<1>9. /\ low'[calls'[1].node] = calls'[1].stamp /\ calls'[1].stamp <= timeStamp'
      /\ \A m \in OnStack' \cup Active' : low'[m] >= calls'[1].stamp
  <2>1. CASE calls = <<>>
    <3>1. calls'[1] = Call(n)
      BY <2>1, <1>2
    <3>2. Active = {} /\ OnStack = {}
      BY <2>1 DEF IInv, StackInv, OnStack, Active
    <3> QED
      BY <3>1, <3>2, <1>1, <1>4, <1>5, <1>7
  <2>2. CASE calls # <<>>
    <3>1. calls'[1] = calls[1] /\ calls[1].node \in Visited /\ calls[1].stamp \in Nat
      <4>1. 1 \in 1 .. Len(calls) /\ calls[1] \in Activation
        BY <2>2, TopType DEF IInv
      <4> QED
        BY <4>1, <1>2, <1>3 DEF IInv, StackInv, Active, Activation
    <3>2. low'[calls'[1].node] = calls'[1].stamp /\ calls'[1].stamp <= timeStamp
      BY <2>2, <3>1, <1>5 DEF IInv, StackInv
    <3>3. \A m \in OnStack \cup Active : m \in Visited /\ low[m] >= calls[1].stamp
      BY <2>2 DEF IInv, StackInv
    <3>4. low'[n] >= calls[1].stamp
      BY <3>1, <3>2, <1>4, <1>5
    <3> QED
      BY <3>1, <3>2, <3>3, <3>4, <1>4, <1>5, <1>7
  <2> QED
    BY <2>1, <2>2
<1> QED
  BY <1>2, <1>6, <1>8, <1>9 DEF IInv, StackInv

LEMMA StartKeeps == ASSUME IInv, NEW n \in Nodes, StartFrom(n) PROVE IInv'
<1>1. CASE n \in Visited
  <2>1. UNCHANGED <<low, timeStamp, calls, graph, earlier, start, inComp, sccStack, mergeMap>>
    BY <1>1 DEF StartFrom
  <2>2. roots' \subseteq start'
    BY <2>1 DEF IInv, TypeOK, StartFrom
  <2>3. TypeOK'
    BY <2>1, <2>2 DEF IInv, TypeOK, Visited
  <2>4. StackInv'
    BY <2>1 DEF IInv, StackInv, Visited, OnStack, Active, Open
  <2> QED
    BY <2>3, <2>4 DEF IInv
<1>2. CASE n \notin Visited
  <2>1. calls' = Append(calls, Call(n))
    BY <1>2 DEF StartFrom
  <2> QED
    BY <1>2, <2>1, EnterKeeps DEF StartFrom, IInv, TypeOK
<1> QED
  BY <1>1, <1>2

LEMMA DescendKeeps == ASSUME IInv, Descend PROVE IInv'
<1>1. PICK c \in Nodes \ Visited : Enter(c) /\ calls' = Append(calls, Call(c))
  BY DEF Descend
<1> QED
  BY <1>1, EnterKeeps DEF Descend, IInv, TypeOK

\* The number of the innermost call's node goes down to that of an open
\* node, which is not below the number of the outermost call.
LEMMA RelaxKeeps == ASSUME IInv, Relax PROVE IInv'
<1> DEFINE L == Len(calls)  n == Top(calls).node
<1>1. /\ calls # <<>> /\ L \in Nat \ {0} /\ DOMAIN calls = 1 .. L /\ calls \in Seq(Activation)
      /\ \A i \in 1 .. L : calls[i] \in Activation
      /\ Top(calls) = calls[L]
  BY TopType DEF IInv, Relax, TypeOK, Activation
<1>2. n \in Visited
  BY <1>1 DEF IInv, StackInv, Active
<1>3. PICK c \in Visited :
        /\ low' = IF c \notin inComp /\ low[n] > low[c] THEN [low EXCEPT ![n] = low[c]] ELSE low
        /\ calls' = [calls EXCEPT ![L].todo = @ \ {c}]
  BY DEF Relax
<1>4. /\ calls' \in Seq(Activation) /\ Len(calls') = L
      /\ \A i \in 1 .. L : calls'[i].node = calls[i].node /\ calls'[i].stamp = calls[i].stamp
  <2> DEFINE e == [calls[L] EXCEPT !.todo = @ \ {c}]
  <2>1. e \in Activation /\ e.node = calls[L].node /\ e.stamp = calls[L].stamp
    <3>1. calls[L] \in Activation
      BY <1>1
    <3> QED
      BY <3>1, ShorterCall
  <2>2. e.node = calls[L].node /\ e.stamp = calls[L].stamp
    BY <2>1
  <2>4. calls' = [calls EXCEPT ![L] = e]
    BY <1>3
  <2> HIDE DEF e
  <2>3. /\ calls' \in Seq(Activation) /\ Len(calls') = L
        /\ \A j \in 1 .. L : calls'[j] = IF j = L THEN e ELSE calls[j]
    BY <1>1, <2>1, <2>4, ExceptSeq
  <2> QED
    BY <2>2, <2>3
<1>5. Visited' = Visited /\ (\A m \in Visited : low[m] \in Nat /\ low'[m] \in Nat)
  BY <1>2, <1>3 DEF IInv, TypeOK, Visited
<1>6. TypeOK'
  <2>1. calls' \in Seq([node : Nodes, stamp : Nat, todo : SUBSET Nodes])
    BY <1>4 DEF Activation
  <2> QED
    BY <2>1, <1>5 DEF IInv, TypeOK, Relax
<1>7. calls' # <<>> /\ DOMAIN calls' = 1 .. L
  BY <1>1, <1>4, EmptySeq, LenProperties
<1>8. Active' = Active /\ OnStack' = OnStack /\ Open' = Open
  BY <1>1, <1>4, <1>5, <1>7 DEF Active, OnStack, Open, Relax
<1>9. calls'[1].node = calls[1].node /\ calls'[1].stamp = calls[1].stamp /\ calls[1].stamp \in Nat
      /\ calls[1].node \in Visited
  BY <1>1, <1>4 DEF Activation, IInv, StackInv, Active
<1>10. \A m \in Visited : low'[m] = low[m] \/ (m = n /\ c \in OnStack \cup Active /\ low'[m] = low[c] /\ low[m] > low[c])
  BY <1>2, <1>3, <1>5 DEF Open, IInv, StackInv
<1>11. \A m \in OnStack \cup Active : m \in Visited /\ low[m] >= calls[1].stamp
  BY <1>1 DEF IInv, StackInv
<1>12. \A m \in OnStack \cup Active : low'[m] >= calls[1].stamp
  BY <1>5, <1>10, <1>11
<1>13. low'[calls[1].node] = calls[1].stamp
  <2>1. calls[1].node \in Active /\ low[calls[1].node] = calls[1].stamp
    BY <1>1 DEF IInv, StackInv, Active
  <2> QED
    BY <2>1, <1>5, <1>9, <1>10, <1>11
<1>14. calls'[1].stamp <= timeStamp'
  BY <1>1, <1>9 DEF IInv, StackInv, Relax
<1> QED
  BY <1>5, <1>6, <1>7, <1>8, <1>9, <1>12, <1>13, <1>14 DEF IInv, StackInv

\* The outermost call never ends like this.
LEMMA LeaveInnerKeeps == ASSUME IInv, LeaveInner PROVE IInv'
<1> DEFINE L == Len(calls)  n == Top(calls).node
<1>1. /\ calls # <<>> /\ L \in Nat \ {0} /\ DOMAIN calls = 1 .. L
      /\ \A i \in 1 .. L : calls[i] \in Activation
      /\ Top(calls) = calls[L] /\ n \in Nodes
  BY TopType DEF IInv, LeaveInner, Activation
<1>2. L # 1
  BY <1>1 DEF IInv, StackInv, LeaveInner
<1>3. /\ calls' \in Seq(Activation) /\ Len(calls') = L - 1
      /\ \A i \in 1 .. L - 1 : calls'[i] = calls[i]
  BY <1>1, FrontCalls DEF IInv, LeaveInner
<1>4. calls' # <<>> /\ DOMAIN calls' = 1 .. L - 1 /\ calls'[1] = calls[1]
  BY <1>1, <1>2, <1>3, EmptySeq, LenProperties
<1>5. sccStack \in Seq(Nodes) /\ sccStack' = Append(sccStack, n)
  BY DEF IInv, TypeOK, LeaveInner
<1>6. /\ sccStack' \in Seq(Nodes) /\ Len(sccStack') = Len(sccStack) + 1
      /\ \A i \in 1 .. Len(sccStack) : sccStack'[i] = sccStack[i]
      /\ sccStack'[Len(sccStack) + 1] = n
  BY <1>1, <1>5, AppendProperties
<1>7. Len(sccStack) \in Nat /\ DOMAIN sccStack = 1 .. Len(sccStack)
      /\ DOMAIN sccStack' = 1 .. Len(sccStack) + 1
  BY <1>5, <1>6, LenProperties
<1>8. OnStack' = OnStack \cup {n}
  BY <1>6, <1>7 DEF OnStack
<1>9. Active \subseteq Active' \cup {n} /\ Active' \subseteq Active /\ n \in Active
  BY <1>1, <1>3, <1>4 DEF Active
<1>10. UNCHANGED <<graph, earlier, start, roots, low, inComp, timeStamp, mergeMap>>
       /\ Visited' = Visited /\ Open' = Open
  BY DEF LeaveInner, Visited, Open
<1>11. TypeOK'
  <2>1. calls' \in Seq([node : Nodes, stamp : Nat, todo : SUBSET Nodes])
    BY <1>3 DEF Activation
  <2> QED
    BY <2>1, <1>6, <1>10 DEF IInv, TypeOK
<1>12. low[n] >= calls[1].stamp
  BY <1>1, <1>9 DEF IInv, StackInv
<1> QED
  BY <1>1, <1>4, <1>8, <1>9, <1>10, <1>11, <1>12 DEF IInv, StackInv

\* The end of a component.  When it is the outermost call's, the whole stack
\* is numbered from it on, and popped.
LEMMA LeaveRootKeeps == ASSUME IInv, LeaveRoot PROVE IInv'
<1> DEFINE L == Len(calls)  n == Top(calls).node  k == PoppedTo(Top(calls).stamp)
           K == Len(sccStack)
           scc == {sccStack[i] : i \in k + 1 .. K} \cup {n}
<1>1. /\ calls # <<>> /\ L \in Nat \ {0} /\ DOMAIN calls = 1 .. L
      /\ \A i \in 1 .. L : calls[i] \in Activation
      /\ Top(calls) = calls[L] /\ n \in Nodes /\ Top(calls).stamp \in Nat
  BY TopType DEF IInv, LeaveRoot, Activation
<1>2. /\ k \in 0 .. K
      /\ \A i \in k + 1 .. K : low[sccStack[i]] >= Top(calls).stamp
      /\ k > 0 => low[sccStack[k]] < Top(calls).stamp
  BY <1>1, PoppedIsLength DEF IInv, StackInv
<1>3. /\ calls' \in Seq(Activation) /\ Len(calls') = L - 1
      /\ \A i \in 1 .. L - 1 : calls'[i] = calls[i]
  BY <1>1, FrontCalls DEF IInv, LeaveRoot
<1>4. DOMAIN calls' = 1 .. L - 1
  BY <1>3, LenProperties
<1>5. sccStack \in Seq(Nodes) /\ K \in Nat /\ DOMAIN sccStack = 1 .. K /\ sccStack' = SubSeq(sccStack, 1, k)
  BY LenProperties DEF IInv, TypeOK, LeaveRoot
<1>6. /\ sccStack' \in Seq(Nodes) /\ Len(sccStack') = k
      /\ \A i \in 1 .. k : sccStack'[i] = sccStack[i]
  BY <1>2, <1>5, Prefix
<1>7. DOMAIN sccStack' = 1 .. k
  BY <1>6, LenProperties
<1>8. inComp' = inComp \cup scc
  BY DEF LeaveRoot
<1>9. OnStack = OnStack' \cup {sccStack[i] : i \in k + 1 .. K} /\ scc \subseteq OnStack \cup Active
  <2>1. 1 .. K = (1 .. k) \cup (k + 1 .. K)
    BY <1>2, <1>5
  <2>2. OnStack = {sccStack[i] : i \in 1 .. k} \cup {sccStack[i] : i \in k + 1 .. K}
    BY <2>1, <1>5 DEF OnStack
  <2>3. OnStack' = {sccStack[i] : i \in 1 .. k}
    BY <1>6, <1>7 DEF OnStack
  <2> QED
    BY <2>2, <2>3, <1>1 DEF Active
<1>10. Active' \subseteq Active /\ Active \subseteq Active' \cup {n}
  BY <1>1, <1>3, <1>4 DEF Active
<1>11. /\ UNCHANGED <<graph, earlier, start, roots, low, timeStamp>> /\ Visited' = Visited
       /\ Open' = Open \ scc
  BY <1>8 DEF LeaveRoot, Visited, Open
<1>12. TypeOK'
  <2>1. calls' \in Seq([node : Nodes, stamp : Nat, todo : SUBSET Nodes])
    BY <1>3 DEF Activation
  <2>2. scc \subseteq Visited
    BY <1>9 DEF IInv, StackInv
  <2>3. mergeMap' \subseteq mergeMap \cup (scc \X scc)
    BY DEF LeaveRoot
  <2>4. inComp' \subseteq Visited' /\ mergeMap' \subseteq Nodes \X Nodes
    BY <2>2, <2>3, <1>8, <1>11 DEF IInv, TypeOK
  <2> QED
    BY <2>1, <2>4, <1>6, <1>11 DEF IInv, TypeOK
<1>13. OnStack' \cup Active' \subseteq Visited' /\ Open' \subseteq OnStack' \cup Active'
  BY <1>9, <1>10, <1>11 DEF IInv, StackInv
<1>14. CASE L = 1
  <2>1. calls' = <<>>
    BY <1>3, <1>14, EmptySeq
  <2>2. Top(calls) = calls[1]
    BY <1>1, <1>14
  <2>3. k = 0
    <3>1. ASSUME k > 0 PROVE FALSE
      <4>1. k \in 1 .. K
        BY <1>2, <1>5, <3>1
      <4>2. sccStack[k] \in OnStack /\ low[sccStack[k]] \in Nat
        BY <4>1, <1>5 DEF OnStack, IInv, StackInv, TypeOK
      <4>3. low[sccStack[k]] >= calls[1].stamp
        BY <4>2, <1>1 DEF IInv, StackInv
      <4> QED
        BY <4>2, <4>3, <3>1, <1>1, <1>2, <2>2
    <3> QED
      BY <3>1, <1>2, <1>5
  <2>4. sccStack' = <<>> /\ OnStack' = {}
    <3>1. sccStack' = <<>>
      BY <2>3, <1>6, EmptySeq
    <3> QED
      BY <3>1, <2>3, <1>7 DEF OnStack
  <2>5. Active' = {}
    BY <1>4, <1>14 DEF Active
  <2> QED
    BY <2>1, <2>4, <2>5, <1>12, <1>13 DEF IInv, StackInv
<1>15. CASE L # 1
  <2>1. calls' # <<>> /\ calls'[1] = calls[1]
    BY <1>1, <1>3, <1>15, EmptySeq
  <2>2. /\ low'[calls'[1].node] = calls'[1].stamp /\ calls'[1].stamp <= timeStamp'
        /\ \A m \in OnStack' \cup Active' : low'[m] >= calls'[1].stamp
    BY <1>1, <2>1, <1>9, <1>10, <1>11 DEF IInv, StackInv
  <2> QED
    BY <2>1, <2>2, <1>12, <1>13 DEF IInv, StackInv
<1> QED
  BY <1>14, <1>15

-----------------------------------------------------------------------------
LEMMA NextKeeps == IInv /\ [Next]_vars => IInv'
<1> SUFFICES ASSUME IInv, [Next]_vars PROVE IInv'
  OBVIOUS
<1>1. ASSUME NEW n \in Nodes, StartFrom(n) PROVE IInv'
  BY <1>1, StartKeeps
<1>2. CASE Descend
  BY <1>2, DescendKeeps
<1>3. CASE Relax
  BY <1>3, RelaxKeeps
<1>4. CASE LeaveInner
  BY <1>4, LeaveInnerKeeps
<1>5. CASE LeaveRoot
  BY <1>5, LeaveRootKeeps
<1>6. CASE UNCHANGED vars
  BY <1>6 DEF vars, IInv, TypeOK, StackInv, Visited, OnStack, Active, Open
<1> QED
  BY <1>1, <1>2, <1>3, <1>4, <1>5, <1>6 DEF Next

LEMMA IInvHolds == Spec => []IInv
<1> QED
  BY InitHolds, NextKeeps, PTL DEF Spec

\* The values of the variables are those SccDetect.h can hold, in every run
\* on every graph.
THEOREM TypeCorrect == Spec => []TypeOK
<1>1. IInv => TypeOK
  BY DEF IInv
<1> QED
  BY <1>1, IInvHolds, PTL

\* The assertions of RunOnGraph and RunOnNode: no node is left on the stack
\* when no call is active, and every node visited is in a component.
THEOREM NothingLeftBehind == Spec => []StackEmptyBetweenCalls
<1>1. IInv => StackEmptyBetweenCalls
  BY DEF IInv, TypeOK, StackInv, StackEmptyBetweenCalls, Open
<1> QED
  BY <1>1, IInvHolds, PTL

-----------------------------------------------------------------------------
(* Reachability *)

\* v is in every set of nodes of V that has u and is closed under g.
Reach(V, g, u, v) == \A C \in ClosedSets(V, g) : u \in C => v \in C

LEMMA ReachSelf == \A V, g, u : Reach(V, g, u, u)
BY DEF Reach

LEMMA ReachTrans == \A V, g, u, v, w : Reach(V, g, u, v) /\ Reach(V, g, v, w) => Reach(V, g, u, w)
BY DEF Reach

LEMMA ReachEdge == \A V, g, u, v : u \in V /\ v \in g[u] /\ v \in V => Reach(V, g, u, v)
BY DEF Reach, ClosedSets

\* What a closed set does not have it does not reach.
LEMMA ReachClosed ==
  ASSUME NEW V, NEW g, NEW C \in ClosedSets(V, g), NEW u \in C, NEW v, Reach(V, g, u, v)
  PROVE  v \in C
BY DEF Reach

Cycle(V, g, u, v) == Reach(V, g, u, v) /\ Reach(V, g, v, u)

\* The pairs of MergePairs, stated for all nodes rather than for those that
\* have a neighbour on either side.
CyclePairs(V, g) ==
  {p \in V \X V : /\ p[2] < p[1] /\ Cycle(V, g, p[1], p[2])
                  /\ \A m \in V : Cycle(V, g, p[1], m) => p[2] <= m}

\* Two nodes of a cycle have neighbours on it, and reach each other without
\* leaving the nodes that have neighbours.
LEMMA CycleIsInner ==
  ASSUME NEW V, NEW g, NEW u \in V, NEW v \in V, u # v, Cycle(V, g, u, v)
  PROVE  u \in Inner(V, g)
<1>1. ASSUME \A w \in V \ {u} : w \notin g[u] PROVE FALSE
  <2>1. {u} \in ClosedSets(V, g)
    BY <1>1 DEF ClosedSets
  <2> QED
    BY <2>1, ReachClosed DEF Cycle
<1>2. ASSUME \A w \in V \ {u} : u \notin g[w] PROVE FALSE
  <2>1. V \ {u} \in ClosedSets(V, g)
    BY <1>2 DEF ClosedSets
  <2> QED
    BY <2>1, ReachClosed DEF Cycle
<1> QED
  BY <1>1, <1>2 DEF Inner

LEMMA CycleWithinInner ==
  ASSUME NEW V, NEW g, NEW u \in V, NEW v \in V, u # v, Cycle(V, g, u, v)
  PROVE  Reach(Inner(V, g), g, u, v)
<1> DEFINE I == Inner(V, g)
<1>1. I \subseteq V
  BY DEF Inner
<1> SUFFICES ASSUME NEW C \in ClosedSets(I, g), u \in C, v \notin C PROVE FALSE
  BY DEF Reach
<1> DEFINE D == {w \in V : ~Reach(V, g, w, v) \/ (w \in C /\ Reach(V, g, u, w))}
<1>2. ASSUME NEW w \in D, NEW y \in g[w] \cap V PROVE y \in D
  <2>1. Reach(V, g, w, y)
    BY ReachEdge
  <2>2. CASE ~Reach(V, g, y, v)
    BY <2>2
  <2>3. CASE Reach(V, g, y, v)
    <3>1. Reach(V, g, w, v)
      BY <2>1, <2>3, ReachTrans
    <3>2. w \in C /\ Reach(V, g, u, w)
      BY <3>1
    <3>3. Reach(V, g, u, y) /\ Reach(V, g, y, u)
      BY <2>1, <2>3, <3>2, ReachTrans DEF Cycle
    <3>4. y \in I
      <4>1. CASE y = u
        BY <4>1, CycleIsInner
      <4>2. CASE y # u
        <5>1. Cycle(V, g, y, u) /\ y \in V
          BY <3>3 DEF Cycle
        <5> HIDE DEF D
        <5> QED
          BY <4>2, <5>1, CycleIsInner
      <4> QED
        BY <4>1, <4>2
    <3>5. y \in C
      BY <3>2, <3>4 DEF ClosedSets
    <3> QED
      BY <3>3, <3>5
  <2> QED
    BY <2>2, <2>3
<1>3. D \in ClosedSets(V, g)
  BY <1>2 DEF ClosedSets
<1>4. u \in D
  BY ReachSelf
<1>5. v \notin D
  BY ReachSelf
<1> HIDE DEF D
<1> QED
  BY <1>3, <1>4, <1>5, ReachClosed DEF Cycle

LEMMA InnerReaches ==
  ASSUME NEW V, NEW g, NEW u \in Inner(V, g), NEW v, Reach(Inner(V, g), g, u, v)
  PROVE  Reach(V, g, u, v)
<1> SUFFICES ASSUME NEW C \in ClosedSets(V, g), u \in C PROVE v \in C
  BY DEF Reach
<1>1. Inner(V, g) \subseteq V
  BY DEF Inner
<1>2. C \cap Inner(V, g) \in ClosedSets(Inner(V, g), g)
  BY <1>1 DEF ClosedSets
<1> QED
  BY <1>2, ReachClosed

LEMMA SameCycleIs ==
  ASSUME NEW V, NEW g, NEW u \in Inner(V, g), NEW v \in Inner(V, g)
  PROVE  SameCycle(ReachMap(Inner(V, g), g), u, v) <=> Cycle(V, g, u, v)
<1> DEFINE I == Inner(V, g)
<1>1. SameCycle(ReachMap(I, g), u, v) <=> Reach(I, g, u, v) /\ Reach(I, g, v, u)
  BY DEF SameCycle, ReachMap, Reach
<1>2. Reach(I, g, u, v) /\ Reach(I, g, v, u) => Cycle(V, g, u, v)
  BY InnerReaches DEF Cycle
<1>3. ASSUME Cycle(V, g, u, v), u # v PROVE Reach(I, g, u, v) /\ Reach(I, g, v, u)
  <2>1. u \in V /\ v \in V /\ Cycle(V, g, v, u)
    BY <1>3 DEF Inner, Cycle
  <2> QED
    BY <1>3, <2>1, CycleWithinInner
<1>4. u = v => Reach(I, g, u, v) /\ Reach(I, g, v, u)
  BY ReachSelf
<1> QED
  BY <1>1, <1>2, <1>3, <1>4

LEMMA MergePairsAre ==
  ASSUME NEW V \in SUBSET Nat, NEW g
  PROVE  MergePairs(V, g) = CyclePairs(V, g)
<1> DEFINE I == Inner(V, g)
           r == ReachMap(I, g)
<1>1. I \subseteq V
  BY DEF Inner
<1>2. \A u, v \in I : SameCycle(r, u, v) <=> Cycle(V, g, u, v)
  BY SameCycleIs
<1>3. \A u, v \in V : u # v /\ Cycle(V, g, u, v) => u \in I /\ v \in I
  <2> SUFFICES ASSUME NEW u \in V, NEW v \in V, u # v, Cycle(V, g, u, v) PROVE u \in I /\ v \in I
    OBVIOUS
  <2>1. Cycle(V, g, v, u)
    BY DEF Cycle
  <2> QED
    BY <2>1, CycleIsInner
<1> HIDE DEF I, r
<1>4. ASSUME NEW a \in V, NEW b \in V, b < a
      PROVE  (/\ a \in I /\ b \in I /\ SameCycle(r, a, b) /\ \A m \in I : SameCycle(r, a, m) => b <= m)
               <=> (Cycle(V, g, a, b) /\ \A m \in V : Cycle(V, g, a, m) => b <= m)
  <2>1. a # b /\ a \in Nat /\ b \in Nat
    BY <1>4
  <2>2. ASSUME a \in I, b \in I, SameCycle(r, a, b), \A m \in I : SameCycle(r, a, m) => b <= m,
               NEW m \in V, Cycle(V, g, a, m)
        PROVE  b <= m
    BY <1>2, <1>3, <1>4, <2>1, <2>2
  <2> QED
    BY <1>1, <1>2, <1>3, <2>1, <2>2
<1>5. MergePairs(V, g) = {p \in I \X I : /\ p[2] < p[1] /\ SameCycle(r, p[1], p[2])
                                         /\ \A m \in I : SameCycle(r, p[1], m) => p[2] <= m}
  BY DEF MergePairs, I, r
<1>6. \A p : p \in MergePairs(V, g) <=> p \in CyclePairs(V, g)
  <2>1. MergePairs(V, g) \subseteq V \X V /\ CyclePairs(V, g) \subseteq V \X V
    BY <1>1, <1>5 DEF CyclePairs
  <2>2. ASSUME NEW a \in V, NEW b \in V PROVE <<a, b>> \in MergePairs(V, g) <=> <<a, b>> \in CyclePairs(V, g)
    <3>1. <<a, b>> \in MergePairs(V, g) <=> /\ a \in I /\ b \in I /\ b < a /\ SameCycle(r, a, b)
                                           /\ \A m \in I : SameCycle(r, a, m) => b <= m
      BY <1>5
    <3>2. <<a, b>> \in CyclePairs(V, g) <=> /\ b < a /\ Cycle(V, g, a, b)
                                           /\ \A m \in V : Cycle(V, g, a, m) => b <= m
      BY DEF CyclePairs
    <3> QED
      BY <1>4, <3>1, <3>2
  <2> SUFFICES ASSUME NEW p \in V \X V PROVE p \in MergePairs(V, g) <=> p \in CyclePairs(V, g)
    BY <2>1
  <2>3. p[1] \in V /\ p[2] \in V /\ p = <<p[1], p[2]>>
    OBVIOUS
  <2> QED
    BY <2>2, <2>3
<1> QED
  BY <1>6

\* Within a part of the graph that no edge leaves nothing else is reached.
LEMMA ReachWithin ==
  ASSUME NEW V, NEW g, NEW S \in ClosedSets(V, g), NEW u \in S, NEW v
  PROVE  Reach(S, g, u, v) <=> Reach(V, g, u, v)
<1>1. S \subseteq V
  BY DEF ClosedSets
<1>2. ASSUME Reach(S, g, u, v), NEW C \in ClosedSets(V, g), u \in C PROVE v \in C
  <2>1. C \cap S \in ClosedSets(S, g)
    BY <1>1 DEF ClosedSets
  <2> QED
    BY <1>2, <2>1, ReachClosed
<1>3. ASSUME Reach(V, g, u, v), NEW C \in ClosedSets(S, g), u \in C PROVE v \in C
  <2>1. C \in ClosedSets(V, g)
    BY <1>1 DEF ClosedSets
  <2> QED
    BY <1>3, <2>1, ReachClosed
<1> QED
  BY <1>2, <1>3 DEF Reach

-----------------------------------------------------------------------------
(* The invariant of the search *)

\* The graph of this run: the nodes no earlier run has visited.
Unvisited == Nodes \ earlier
Reaches(u, v) == Reach(Unvisited, graph, u, v)
Done == inComp \ earlier

\* The active calls are a path of the graph, each in the loop over the children
\* at the one that is called, with increasing time stamps.
CallsInv ==
  /\ OnStack \subseteq Open /\ Active \subseteq Open /\ OnStack \cap Active = {} /\ earlier \subseteq inComp
  /\ \A x \in Open : low[x] < timeStamp
  /\ \A i \in DOMAIN calls :
       /\ calls[i].todo \subseteq graph[calls[i].node]
       /\ low[calls[i].node] <= calls[i].stamp /\ calls[i].stamp < timeStamp
       /\ i + 1 \in DOMAIN calls => calls[i + 1].node \in calls[i].todo
  /\ \A i, j \in DOMAIN calls : i < j =>
       /\ calls[i].stamp < calls[j].stamp /\ calls[i].node # calls[j].node
       /\ Reaches(calls[i].node, calls[j].node)

\* A node in no component is reached from each call whose stamp is not above
\* its number, and reaches the last of these calls and every later one.
ReachInv ==
  \A i \in DOMAIN calls : \A x \in Open :
    /\ low[x] >= calls[i].stamp => Reaches(calls[i].node, x)
    /\ (i + 1 \in DOMAIN calls => low[x] < calls[i + 1].stamp) => Reaches(x, calls[i].node)

\* An edge out of such a node that has been looked at leads into a component;
\* or to a call, whose stamp is not below the node's number; or to a node on
\* the stack, which was there already, so that its number has been taken over
\* too, or has been put there since, above the node itself.
Processed(x, y) == \A i \in DOMAIN calls : calls[i].node = x => y \notin calls[i].todo
ToCall(x, y) ==
  \E j \in DOMAIN calls : /\ y = calls[j].node /\ low[x] <= calls[j].stamp
                          /\ x \in OnStack \/ \E i \in DOMAIN calls : j <= i /\ x = calls[i].node
ToStack(x, y) ==
  \E q \in DOMAIN sccStack : /\ y = sccStack[q]
                             /\ low[x] <= low[y] \/ \E p \in 1 .. q : x = sccStack[p]
EdgesInv ==
  \A x \in Open : \A y \in graph[x] \ earlier :
    Processed(x, y) => y \in inComp \/ ToCall(x, y) \/ ToStack(x, y)

\* The stack had b[i] nodes when call i was made: those have smaller numbers.
\* What was put on it since, by the calls it made itself, has told its number to
\* the call, or is about to: the child it came from is still in the loop.
Told(i, x) == low[x] >= low[calls[i].node] \/ \E c \in calls[i].todo \cap Open : low[x] >= low[c]
Based(b) ==
  /\ \A i \in DOMAIN calls : b[i] \in 0 .. Len(sccStack)
  /\ \A i, j \in DOMAIN calls : i < j => b[i] <= b[j]
  /\ \A i \in DOMAIN calls : \A p \in DOMAIN sccStack :
       /\ p <= b[i] => low[sccStack[p]] < calls[i].stamp
       /\ b[i] < p /\ (i + 1 \in DOMAIN calls => p <= b[i + 1]) => Told(i, sccStack[p])
BaseInv == \E b : Based(b)

\* The components are closed, and their merge pairs made.
Merged(p) ==
  /\ p[2] < p[1] /\ Reaches(p[1], p[2]) /\ Reaches(p[2], p[1])
  /\ \A m \in Unvisited : Reaches(p[1], m) /\ Reaches(m, p[1]) => p[2] <= m
DoneInv ==
  /\ \A u \in Done : graph[u] \ earlier \subseteq Done
  /\ mergeMap = {p \in Done \X Done : Merged(p)}

SeenInv ==
  /\ Visited \ earlier \subseteq VisitedFrom(Unvisited, graph, start)
  /\ start \subseteq Visited \cup roots

-----------------------------------------------------------------------------
(* What the steps do to the calls and the stack *)

LEMMA ReachesStay ==
  UNCHANGED <<graph, earlier>> => \A u, v : Reaches(u, v)' <=> Reaches(u, v)
BY DEF Reaches, Unvisited

LEMMA StateType ==
  ASSUME TypeOK
  PROVE  /\ graph \in [Nodes -> SUBSET Nodes] /\ Nodes \subseteq Nat /\ timeStamp \in Nat
         /\ \A x \in Visited : low[x] \in Nat
         /\ Len(calls) \in Nat /\ DOMAIN calls = 1 .. Len(calls)
         /\ \A i \in DOMAIN calls : /\ calls[i].node \in Nodes /\ calls[i].stamp \in Nat
                                    /\ calls[i].todo \subseteq Nodes
         /\ Len(sccStack) \in Nat /\ DOMAIN sccStack = 1 .. Len(sccStack)
         /\ \A p \in DOMAIN sccStack : sccStack[p] \in OnStack
         /\ \A i \in DOMAIN calls : calls[i].node \in Active
<1>1. calls \in Seq(Activation) /\ sccStack \in Seq(Nodes)
  BY DEF TypeOK, Activation
<1>2. Len(calls) \in Nat /\ DOMAIN calls = 1 .. Len(calls) /\ \A i \in 1 .. Len(calls) : calls[i] \in Activation
  BY <1>1, LenProperties, ElementOfSeq
<1>3. Len(sccStack) \in Nat /\ DOMAIN sccStack = 1 .. Len(sccStack)
  BY <1>1, LenProperties
<1> QED
  BY <1>2, <1>3, SccAssumption DEF TypeOK, Activation, OnStack, Active

\* A call is made.
MakesCall(n) ==
  /\ n \in Nodes \ Visited /\ Enter(n) /\ calls' = Append(calls, Call(n))
  /\ UNCHANGED <<graph, earlier, start, inComp, sccStack, mergeMap>>

LEMMA CallEffect ==
  ASSUME IInv, NEW n, MakesCall(n)
  PROVE  /\ DOMAIN calls' = DOMAIN calls \cup {Len(calls) + 1} /\ Len(calls) + 1 \notin DOMAIN calls
         /\ Len(calls') = Len(calls) + 1
         /\ \A i \in DOMAIN calls : calls'[i] = calls[i]
         /\ calls'[Len(calls) + 1].node = n /\ calls'[Len(calls) + 1].stamp = timeStamp
         /\ calls'[Len(calls) + 1].todo = graph[n]
         /\ n \notin Visited /\ Visited' = Visited \cup {n} /\ low'[n] = timeStamp /\ timeStamp' = timeStamp + 1
         /\ \A x \in Visited : low'[x] = low[x]
         /\ Open' = Open \cup {n} /\ n \notin Open /\ OnStack' = OnStack /\ Active' = Active \cup {n}
<1>1. calls \in Seq(Activation) /\ Call(n) \in Activation /\ Call(n).node = n /\ Call(n).stamp = timeStamp
      /\ Call(n).todo = graph[n]
  BY CallType DEF MakesCall, IInv, TypeOK, Activation, Call
<1>2. /\ Len(calls') = Len(calls) + 1 /\ calls' \in Seq(Activation)
      /\ \A i \in 1 .. Len(calls) : calls'[i] = calls[i]
      /\ calls'[Len(calls) + 1] = Call(n)
  BY <1>1, AppendProperties DEF MakesCall
<1>3. DOMAIN calls = 1 .. Len(calls) /\ DOMAIN calls' = 1 .. Len(calls) + 1 /\ Len(calls) \in Nat
  BY <1>1, <1>2, LenProperties
<1>4. DOMAIN calls' = DOMAIN calls \cup {Len(calls) + 1} /\ Len(calls) + 1 \notin DOMAIN calls
  BY <1>3
<1>5. /\ n \notin Visited /\ Visited' = Visited \cup {n} /\ low'[n] = timeStamp /\ timeStamp' = timeStamp + 1
      /\ \A x \in Visited : low'[x] = low[x]
  BY DEF MakesCall, Enter, Visited
<1>6. Open' = Open \cup {n} /\ n \notin Open /\ OnStack' = OnStack
  BY <1>5 DEF MakesCall, Open, OnStack, IInv, TypeOK
<1>7. Active' = Active \cup {n}
  BY <1>1, <1>2, <1>3, <1>4 DEF Active
<1> QED
  BY <1>1, <1>2, <1>3, <1>4, <1>5, <1>6, <1>7

LEMMA RelaxEffect ==
  ASSUME IInv, CallsInv, Relax
  PROVE  LET L == Len(calls)  n == Top(calls).node
         IN /\ L \in DOMAIN calls /\ L + 1 \notin DOMAIN calls /\ Top(calls) = calls[L]
            /\ DOMAIN calls' = DOMAIN calls /\ Len(calls') = L
            /\ \A i \in DOMAIN calls : /\ calls'[i].node = calls[i].node /\ calls'[i].stamp = calls[i].stamp
                                       /\ i # L => calls'[i].todo = calls[i].todo
            /\ n \in Open /\ Visited' = Visited /\ Open' = Open /\ OnStack' = OnStack /\ Active' = Active
            /\ \A x \in Visited : x # n => low'[x] = low[x]
            /\ low'[n] <= low[n] /\ low'[n] \in Nat
            /\ \E c \in calls[L].todo \cap Visited :
                  /\ calls'[L].todo = calls[L].todo \ {c}
                  /\ c \in Open => low'[n] <= low[c]
                  /\ low'[n] = low[n] \/ (c \in Open /\ low'[n] = low[c])
<1> DEFINE L == Len(calls)  n == Top(calls).node
<1>1. /\ calls # <<>> /\ L \in Nat \ {0} /\ DOMAIN calls = 1 .. L /\ calls \in Seq(Activation)
      /\ \A i \in 1 .. L : calls[i] \in Activation
      /\ Top(calls) = calls[L]
  BY TopType DEF IInv, Relax, TypeOK, Activation
<1>2. n \in Open /\ n \in Visited
  <2>1. n \in Active
    BY <1>1 DEF Active
  <2> QED
    BY <2>1 DEF CallsInv, Open
<1>3. PICK c \in Visited :
        /\ c \in Top(calls).todo
        /\ low' = IF c \notin inComp /\ low[n] > low[c] THEN [low EXCEPT ![n] = low[c]] ELSE low
        /\ calls' = [calls EXCEPT ![L].todo = @ \ {c}]
  BY DEF Relax, IsNextChild
<1> DEFINE e == [calls[L] EXCEPT !.todo = @ \ {c}]
<1>4. e \in Activation /\ e.node = calls[L].node /\ e.stamp = calls[L].stamp /\ e.todo = calls[L].todo \ {c}
  <2>1. calls[L] \in Activation
    BY <1>1
  <2> QED
    BY <2>1, ShorterCall
<1>5. calls' = [calls EXCEPT ![L] = e]
  BY <1>3
<1> HIDE DEF e
<1>6. /\ calls' \in Seq(Activation) /\ Len(calls') = L
      /\ \A j \in 1 .. L : calls'[j] = IF j = L THEN e ELSE calls[j]
  BY <1>1, <1>4, <1>5, ExceptSeq
<1>7. DOMAIN calls' = 1 .. L
  BY <1>6, LenProperties
<1>8. /\ \A i \in DOMAIN calls : /\ calls'[i].node = calls[i].node /\ calls'[i].stamp = calls[i].stamp
                                 /\ i # L => calls'[i].todo = calls[i].todo
      /\ calls'[L].todo = calls[L].todo \ {c}
  <2>1. calls'[L] = e
    <3>1. L \in 1 .. L
      BY <1>1
    <3> HIDE DEF L
    <3> QED
      BY <3>1, <1>6
  <2>2. \A i \in 1 .. L : i # L => calls'[i] = calls[i]
    BY <1>6
  <2> QED
    BY <1>1, <1>4, <2>1, <2>2
<1>9. Visited' = Visited /\ Open' = Open /\ OnStack' = OnStack
  BY <1>2, <1>3 DEF Visited, Open, OnStack, Relax
<1>10. Active' = Active
  BY <1>1, <1>7, <1>8 DEF Active
<1>11. \A x \in Visited : low[x] \in Nat
  BY DEF IInv, TypeOK
<1>12. /\ \A x \in Visited : x # n => low'[x] = low[x]
       /\ low'[n] <= low[n] /\ low'[n] \in Nat
       /\ c \in Open => low'[n] <= low[c]
       /\ low'[n] = low[n] \/ (c \in Open /\ low'[n] = low[c])
  <2>1. CASE c \notin inComp /\ low[n] > low[c]
    <3>1. low' = [low EXCEPT ![n] = low[c]] /\ c \in Open
      BY <1>3, <2>1 DEF Open
    <3> QED
      BY <1>2, <1>11, <2>1, <3>1 DEF Visited
  <2>2. CASE ~(c \notin inComp /\ low[n] > low[c])
    <3>1. low' = low
      BY <1>3, <2>2
    <3> QED
      BY <1>2, <1>3, <1>11, <2>2, <3>1 DEF Open
  <2> QED
    BY <2>1, <2>2
<1>13. L \in DOMAIN calls /\ L + 1 \notin DOMAIN calls
  BY <1>1
<1>14. c \in calls[L].todo \cap Visited
  BY <1>1, <1>3
<1> QED
  BY <1>1, <1>2, <1>6, <1>7, <1>8, <1>9, <1>10, <1>12, <1>13, <1>14

LEMMA InnerEffect ==
  ASSUME IInv, CallsInv, LeaveInner
  PROVE  LET L == Len(calls)  n == Top(calls).node  K == Len(sccStack)
         IN /\ L \in DOMAIN calls /\ L - 1 \in DOMAIN calls /\ L + 1 \notin DOMAIN calls /\ Top(calls) = calls[L]
            /\ DOMAIN calls' = DOMAIN calls \ {L} /\ Len(calls') = L - 1
            /\ \A i \in DOMAIN calls' : calls'[i] = calls[i]
            /\ n \in Open /\ OnStack' = OnStack \cup {n} /\ Active \subseteq Active' \cup {n} /\ Active' \subseteq Active
            /\ calls[L].todo = {} /\ low[n] < calls[L].stamp
            /\ DOMAIN sccStack' = DOMAIN sccStack \cup {K + 1} /\ K + 1 \notin DOMAIN sccStack
            /\ \A p \in DOMAIN sccStack : sccStack'[p] = sccStack[p]
            /\ sccStack'[K + 1] = n /\ Len(sccStack') = K + 1
            /\ UNCHANGED <<graph, earlier, start, roots, low, inComp, timeStamp, mergeMap>>
            /\ Visited' = Visited /\ Open' = Open
<1> DEFINE L == Len(calls)  n == Top(calls).node  K == Len(sccStack)
<1>1. /\ calls # <<>> /\ L \in Nat \ {0} /\ DOMAIN calls = 1 .. L
      /\ \A i \in 1 .. L : calls[i] \in Activation
      /\ Top(calls) = calls[L] /\ n \in Nodes
  BY TopType DEF IInv, LeaveInner, Activation
<1>2. L # 1
  BY <1>1 DEF IInv, StackInv, LeaveInner
<1>3. /\ calls' \in Seq(Activation) /\ Len(calls') = L - 1
      /\ \A i \in 1 .. L - 1 : calls'[i] = calls[i]
  BY <1>1, FrontCalls DEF IInv, LeaveInner
<1>4. DOMAIN calls' = 1 .. L - 1
  BY <1>3, LenProperties
<1>5. /\ DOMAIN calls' = DOMAIN calls \ {L} /\ L \in DOMAIN calls /\ L - 1 \in DOMAIN calls /\ L + 1 \notin DOMAIN calls
      /\ DOMAIN calls = DOMAIN calls' \cup {L}
  BY <1>1, <1>2, <1>4
<1>6. sccStack \in Seq(Nodes) /\ sccStack' = Append(sccStack, n)
  BY DEF IInv, TypeOK, LeaveInner
<1>7. /\ sccStack' \in Seq(Nodes) /\ Len(sccStack') = K + 1
      /\ \A i \in 1 .. K : sccStack'[i] = sccStack[i]
      /\ sccStack'[K + 1] = n
  BY <1>1, <1>6, AppendProperties
<1>8. K \in Nat /\ DOMAIN sccStack = 1 .. K /\ DOMAIN sccStack' = 1 .. K + 1
  BY <1>6, <1>7, LenProperties
<1>9. DOMAIN sccStack' = DOMAIN sccStack \cup {K + 1} /\ K + 1 \notin DOMAIN sccStack
  BY <1>8
<1>10. OnStack' = OnStack \cup {n}
  BY <1>7, <1>8 DEF OnStack
<1>11. Active \subseteq Active' \cup {n} /\ Active' \subseteq Active /\ n \in Active
  BY <1>1, <1>3, <1>4, <1>5 DEF Active
<1>12. n \in Open
  BY <1>11 DEF CallsInv
<1>13. calls[L].todo = {} /\ low[n] # calls[L].stamp /\ low[n] <= calls[L].stamp
  BY <1>1, <1>5 DEF LeaveInner, CallsInv
<1>14. low[n] \in Nat /\ calls[L].stamp \in Nat
  <2>1. calls[L].stamp \in Nat
    BY <1>1 DEF Activation
  <2>2. n \in Visited
    BY <1>12 DEF Open
  <2> QED
    BY <2>1, <2>2 DEF IInv, TypeOK
<1>15. low[n] < calls[L].stamp
  BY <1>13, <1>14
<1>16. /\ UNCHANGED <<graph, earlier, start, roots, low, inComp, timeStamp, mergeMap>>
       /\ Visited' = Visited /\ Open' = Open
  BY DEF LeaveInner, Visited, Open
<1> QED
  BY <1>1, <1>3, <1>4, <1>5, <1>7, <1>8, <1>9, <1>10, <1>11, <1>12, <1>13, <1>15, <1>16

\* The end of a root: with the numbers as told, the component is the nodes put
\* on the stack since its call was made, and these are the ones whose number is
\* not below its own.
LEMMA RootEffect ==
  ASSUME IInv, CallsInv, LeaveRoot, NEW b, Based(b)
  PROVE  LET L == Len(calls)  n == Top(calls).node  s == calls[L].stamp
             scc == {x \in Open : low[x] >= s}
         IN /\ L \in DOMAIN calls /\ L + 1 \notin DOMAIN calls /\ Top(calls) = calls[L]
            /\ DOMAIN calls' = DOMAIN calls \ {L} /\ Len(calls') = L - 1
            /\ \A i \in DOMAIN calls' : calls'[i] = calls[i]
            /\ calls[L].todo = {} /\ low[n] = s /\ n \in scc
            /\ Len(sccStack') = b[L] /\ DOMAIN sccStack' = {p \in DOMAIN sccStack : p <= b[L]}
            /\ \A p \in DOMAIN sccStack' : sccStack'[p] = sccStack[p]
            /\ \A p \in DOMAIN sccStack : b[L] < p <=> low[sccStack[p]] >= s
            /\ \A i \in DOMAIN calls' : calls[i].node \notin scc
            /\ inComp' = inComp \cup scc /\ Open' = Open \ scc /\ Visited' = Visited
            /\ mergeMap' = mergeMap \cup {p \in scc \X scc : p[2] < p[1] /\ \A m \in scc : p[2] <= m}
            /\ UNCHANGED <<graph, earlier, start, roots, low, timeStamp>>
<1> DEFINE L == Len(calls)  n == Top(calls).node  s == calls[L].stamp
           scc == {x \in Open : low[x] >= s}
           k == PoppedTo(Top(calls).stamp)
           K == Len(sccStack)
           cyc == {sccStack[i] : i \in k + 1 .. K} \cup {n}
<1>1. /\ calls # <<>> /\ L \in Nat \ {0} /\ DOMAIN calls = 1 .. L
      /\ \A i \in 1 .. L : calls[i] \in Activation
      /\ Top(calls) = calls[L] /\ n \in Nodes /\ Top(calls).stamp \in Nat /\ s \in Nat
  BY TopType DEF IInv, LeaveRoot, Activation
<1>2. /\ k \in 0 .. K
      /\ \A i \in k + 1 .. K : low[sccStack[i]] >= s
      /\ k > 0 => low[sccStack[k]] < s
  BY <1>1, PoppedIsLength DEF IInv, StackInv
<1>3. /\ calls' \in Seq(Activation) /\ Len(calls') = L - 1
      /\ \A i \in 1 .. L - 1 : calls'[i] = calls[i]
  BY <1>1, FrontCalls DEF IInv, LeaveRoot
<1>4. DOMAIN calls' = 1 .. L - 1
  BY <1>3, LenProperties
<1>5. DOMAIN calls' = DOMAIN calls \ {L} /\ L \in DOMAIN calls /\ L + 1 \notin DOMAIN calls
  BY <1>1, <1>4
<1>6. sccStack \in Seq(Nodes) /\ K \in Nat /\ DOMAIN sccStack = 1 .. K /\ sccStack' = SubSeq(sccStack, 1, k)
  BY LenProperties DEF IInv, TypeOK, LeaveRoot
<1>7. calls[L].todo = {} /\ low[n] = s
  BY <1>1 DEF LeaveRoot
<1>8. \A p \in 1 .. K : low[sccStack[p]] \in Nat /\ sccStack[p] \in OnStack
  BY <1>6 DEF OnStack, IInv, StackInv, TypeOK
<1>9. \A p \in 1 .. K : (p <= b[L] => low[sccStack[p]] < s) /\ (b[L] < p => low[sccStack[p]] >= s)
  <2>1. \A p \in 1 .. K : p <= b[L] => low[sccStack[p]] < s
    BY <1>5, <1>6 DEF Based
  <2>2. \A p \in 1 .. K : b[L] < p => Told(L, sccStack[p])
    BY <1>5, <1>6 DEF Based
  <2>3. \A p \in 1 .. K : b[L] < p => low[sccStack[p]] >= low[n]
    BY <1>1, <1>7, <2>2 DEF Told
  <2> QED
    BY <1>7, <2>1, <2>3
<1>10. b[L] \in 0 .. K
  BY <1>5 DEF Based
<1>11. k = b[L]
  <2>1. ASSUME k > b[L] PROVE FALSE
    <3>1. k \in 1 .. K
      BY <1>2, <1>6, <1>10, <2>1
    <3>2. low[sccStack[k]] >= s /\ low[sccStack[k]] < s
      BY <1>2, <1>9, <1>10, <2>1, <3>1
    <3> QED
      BY <1>1, <1>8, <3>1, <3>2
  <2>2. ASSUME k < b[L] PROVE FALSE
    <3>1. b[L] \in k + 1 .. K /\ b[L] \in 1 .. K
      BY <1>2, <1>6, <1>10, <2>2
    <3>2. low[sccStack[b[L]]] >= s
      BY <1>2, <3>1
    <3>3. low[sccStack[b[L]]] < s
      BY <1>9, <1>10, <3>1
    <3> QED
      BY <1>1, <1>8, <3>1, <3>2, <3>3
  <2> QED
    BY <1>2, <1>6, <1>10, <2>1, <2>2
<1>12. /\ sccStack' \in Seq(Nodes) /\ Len(sccStack') = k
       /\ \A i \in 1 .. k : sccStack'[i] = sccStack[i]
  BY <1>2, <1>6, Prefix
<1>13. DOMAIN sccStack' = 1 .. k
  BY <1>12, LenProperties
<1>14. DOMAIN sccStack' = {p \in DOMAIN sccStack : p <= b[L]} /\ \A p \in DOMAIN sccStack' : sccStack'[p] = sccStack[p]
  BY <1>2, <1>6, <1>10, <1>11, <1>12, <1>13
<1>15. \A p \in DOMAIN sccStack : b[L] < p <=> low[sccStack[p]] >= s
  <2> SUFFICES ASSUME NEW p \in 1 .. K PROVE b[L] < p <=> low[sccStack[p]] >= s
    BY <1>6
  <2>1. b[L] \in Nat /\ p \in Nat /\ low[sccStack[p]] \in Nat /\ s \in Nat
    BY <1>1, <1>8, <1>10
  <2> QED
    BY <1>9, <2>1
<1>16. \A i \in DOMAIN calls' : calls[i].node \notin scc
  <2> SUFFICES ASSUME NEW i \in DOMAIN calls, i < L, low[calls[i].node] >= s PROVE FALSE
    BY <1>1, <1>4, <1>5
  <2>1. low[calls[i].node] <= calls[i].stamp /\ calls[i].stamp < s
    BY <1>5 DEF CallsInv
  <2>2. calls[i].node \in Active
    BY DEF Active
  <2>3. low[calls[i].node] \in Nat /\ calls[i].stamp \in Nat
    BY <1>1, <2>2 DEF IInv, StackInv, TypeOK, Activation
  <2> QED
    BY <1>1, <2>1, <2>3
<1>17. n \in scc
  <2>1. n \in Active
    BY <1>1, <1>5 DEF Active
  <2> QED
    BY <1>1, <1>7, <2>1 DEF CallsInv
<1>18. cyc = scc
  <2>1. ASSUME NEW i \in k + 1 .. K PROVE sccStack[i] \in scc
    <3>1. i \in DOMAIN sccStack /\ low[sccStack[i]] >= s
      BY <1>2, <1>6
    <3> QED
      BY <3>1 DEF OnStack, CallsInv
  <2>2. ASSUME NEW x \in scc, x # n PROVE \E i \in k + 1 .. K : x = sccStack[i]
    <3>1. x \in OnStack \cup Active
      BY DEF IInv, StackInv
    <3>2. x \notin Active
      BY <1>1, <1>5, <1>16, <2>2 DEF Active
    <3>3. PICK i \in DOMAIN sccStack : x = sccStack[i]
      BY <3>1, <3>2 DEF OnStack
    <3>4. b[L] < i
      BY <1>15, <3>3
    <3>5. i \in k + 1 .. K
      BY <1>6, <1>10, <1>11, <3>4
    <3> QED
      BY <3>3, <3>5
  <2> QED
    BY <1>17, <2>1, <2>2
<1>19. /\ inComp' = inComp \cup cyc
       /\ mergeMap' = mergeMap \cup {p \in cyc \X cyc : p[2] < p[1] /\ \A m \in cyc : p[2] <= m}
       /\ UNCHANGED <<graph, earlier, start, roots, low, timeStamp>>
  BY DEF LeaveRoot
<1>20. Open' = Open \ scc /\ Visited' = Visited
  BY <1>18, <1>19 DEF Open, Visited
<1> HIDE DEF cyc, k
<1>21. Len(sccStack') = b[L]
  BY <1>11, <1>12
<1> QED
  BY <1>1, <1>3, <1>5, <1>7, <1>14, <1>15, <1>16, <1>17, <1>18, <1>19, <1>20, <1>21, <1>4

PathInv == CallsInv /\ ReachInv /\ EdgesInv /\ BaseInv /\ DoneInv

LEMMA OpenType ==
  ASSUME TypeOK, CallsInv
  PROVE  /\ Open \subseteq Unvisited /\ Open \subseteq Visited /\ Open \subseteq Nodes
         /\ \A x \in Open : low[x] \in Nat /\ x \notin earlier
BY DEF TypeOK, CallsInv, Open, Unvisited

LEMMA ReachesEdge ==
  ASSUME NEW u \in Unvisited, NEW v \in Unvisited, v \in graph[u]
  PROVE  Reaches(u, v)
BY ReachEdge DEF Reaches

LEMMA ReachesSelf == \A u : Reaches(u, u)
BY ReachSelf DEF Reaches

LEMMA ReachesTrans == \A u, v, w : Reaches(u, v) /\ Reaches(v, w) => Reaches(u, w)
BY ReachTrans DEF Reaches

\* A step that leaves these alone.
LEMMA DoneStays ==
  DoneInv /\ UNCHANGED <<graph, earlier, inComp, mergeMap>> => DoneInv'
BY DEF DoneInv, Done, Merged, Unvisited, Reaches

-----------------------------------------------------------------------------
\* Every node in no component reaches the innermost call, and its node the new one.
LEMMA CallKeepsPath ==
  ASSUME IInv, PathInv, NEW n, MakesCall(n), calls # <<>> => n \in Top(calls).todo
  PROVE  PathInv'
<1> DEFINE L == Len(calls)
<1>1. /\ DOMAIN calls' = DOMAIN calls \cup {L + 1} /\ L + 1 \notin DOMAIN calls
      /\ Len(calls') = L + 1
      /\ \A i \in DOMAIN calls : calls'[i] = calls[i]
      /\ calls'[L + 1].node = n /\ calls'[L + 1].stamp = timeStamp
      /\ calls'[L + 1].todo = graph[n]
  BY CallEffect
<1>2. /\ n \notin Visited /\ Visited' = Visited \cup {n} /\ low'[n] = timeStamp /\ timeStamp' = timeStamp + 1
      /\ \A x \in Visited : low'[x] = low[x]
      /\ Open' = Open \cup {n} /\ n \notin Open /\ OnStack' = OnStack /\ Active' = Active \cup {n}
  BY CallEffect
<1>3. UNCHANGED <<graph, earlier, start, inComp, sccStack, mergeMap>> /\ n \in Unvisited
  <2>1. earlier \subseteq Visited
    BY DEF IInv, TypeOK, PathInv, CallsInv
  <2> QED
    BY <2>1, <1>2 DEF MakesCall, Unvisited
<1>4. /\ L \in Nat /\ DOMAIN calls = 1 .. L /\ timeStamp \in Nat
      /\ \A i \in DOMAIN calls : calls[i].node \in Active /\ calls[i].stamp \in Nat
      /\ Len(sccStack) \in Nat /\ DOMAIN sccStack = 1 .. Len(sccStack)
      /\ \A p \in DOMAIN sccStack : sccStack[p] \in OnStack
  BY StateType DEF IInv
<1>5. /\ Open \subseteq Unvisited /\ Open \subseteq Visited
      /\ \A x \in Open : low[x] \in Nat /\ low[x] < timeStamp
      /\ OnStack \subseteq Open /\ Active \subseteq Open /\ OnStack \cap Active = {} /\ earlier \subseteq inComp
  BY OpenType DEF IInv, PathInv, CallsInv
<1>6. \A i \in DOMAIN calls :
         /\ calls[i].todo \subseteq graph[calls[i].node]
         /\ low[calls[i].node] <= calls[i].stamp /\ calls[i].stamp < timeStamp
         /\ i + 1 \in DOMAIN calls => calls[i + 1].node \in calls[i].todo
  BY DEF PathInv, CallsInv
<1>7. \A i, j \in DOMAIN calls : i < j =>
       /\ calls[i].stamp < calls[j].stamp /\ calls[i].node # calls[j].node
       /\ Reaches(calls[i].node, calls[j].node)
  BY DEF PathInv, CallsInv
<1>8. L \in DOMAIN calls => n \in calls[L].todo
  <2>1. ASSUME L \in DOMAIN calls PROVE calls # <<>>
    BY <2>1
  <2> QED
    BY <2>1 DEF Top
<1>9. L \in DOMAIN calls => Reaches(calls[L].node, n)
  BY <1>3, <1>4, <1>5, <1>6, <1>8, ReachesEdge
<1>10. \A i \in DOMAIN calls : Reaches(calls[i].node, n)
  <2> SUFFICES ASSUME NEW i \in DOMAIN calls PROVE Reaches(calls[i].node, n)
    OBVIOUS
  <2>1. L \in DOMAIN calls /\ (i = L \/ i < L)
    BY <1>4
  <2> QED
    BY <2>1, <1>7, <1>9, ReachesTrans
<1>11. \A x \in Open : Reaches(x, n)
  <2> SUFFICES ASSUME NEW x \in Open PROVE Reaches(x, n)
    OBVIOUS
  <2>1. L \in DOMAIN calls
    BY <1>4, EmptySeq DEF IInv, StackInv, TypeOK
  <2>2. Reaches(x, calls[L].node)
    BY <1>1, <2>1 DEF PathInv, ReachInv
  <2> QED
    BY <1>9, <2>1, <2>2, ReachesTrans
<1> HIDE DEF L
<1>12. CallsInv'
  <2>1. /\ OnStack' \subseteq Open' /\ Active' \subseteq Open' /\ OnStack' \cap Active' = {} /\ earlier' \subseteq inComp'
        /\ \A x \in Open' : low'[x] < timeStamp'
    BY <1>2, <1>3, <1>4, <1>5
  <2>2. ASSUME NEW i \in DOMAIN calls'
        PROVE  /\ calls'[i].todo \subseteq graph'[calls'[i].node]
               /\ low'[calls'[i].node] <= calls'[i].stamp /\ calls'[i].stamp < timeStamp'
               /\ i + 1 \in DOMAIN calls' => calls'[i + 1].node \in calls'[i].todo
    <3>1. CASE i = L + 1
      BY <1>1, <1>2, <1>3, <1>4, <3>1
    <3>2. CASE i \in DOMAIN calls
      <4>1. /\ calls'[i].todo \subseteq graph'[calls'[i].node]
            /\ low'[calls'[i].node] <= calls'[i].stamp /\ calls'[i].stamp < timeStamp'
        BY <1>1, <1>2, <1>3, <1>4, <1>5, <1>6, <3>2
      <4>2. ASSUME i + 1 \in DOMAIN calls' PROVE calls'[i + 1].node \in calls'[i].todo
        <5>1. CASE i + 1 \in DOMAIN calls
          BY <1>1, <1>6, <3>2, <5>1
        <5>2. CASE i + 1 = L + 1
          <6>1. i = L
            BY <1>4, <3>2, <5>2
          <6> QED
            BY <1>1, <1>8, <3>2, <6>1
        <5> QED
          BY <1>1, <4>2, <5>1, <5>2
      <4> QED
        BY <4>1, <4>2
    <3> QED
      BY <1>1, <3>1, <3>2
  <2>3. ASSUME NEW i \in DOMAIN calls', NEW j \in DOMAIN calls', i < j
        PROVE  /\ calls'[i].stamp < calls'[j].stamp /\ calls'[i].node # calls'[j].node
               /\ Reaches(calls'[i].node, calls'[j].node)
    <3>1. i \in DOMAIN calls
      BY <1>1, <1>4, <2>3
    <3>2. CASE j = L + 1
      BY <1>1, <1>2, <1>4, <1>5, <1>6, <1>10, <3>1, <3>2
    <3>3. CASE j \in DOMAIN calls
      BY <1>1, <1>7, <2>3, <3>1, <3>3
    <3> QED
      BY <1>1, <3>2, <3>3
  <2> QED
    BY <1>3, <2>1, <2>2, <2>3 DEF CallsInv, Reaches, Unvisited
<1>13. ReachInv'
  <2> SUFFICES ASSUME NEW i \in DOMAIN calls', NEW x \in Open'
               PROVE  /\ low'[x] >= calls'[i].stamp => Reaches(calls'[i].node, x)
                      /\ (i + 1 \in DOMAIN calls' => low'[x] < calls'[i + 1].stamp) => Reaches(x, calls'[i].node)
    BY <1>3 DEF ReachInv, Reaches, Unvisited
  <2>1. CASE i = L + 1
    BY <1>1, <1>2, <1>4, <1>5, <1>11, <2>1, ReachesSelf
  <2>2. CASE i \in DOMAIN calls /\ x = n
    <3>1. i + 1 \in DOMAIN calls' /\ calls'[i + 1].stamp <= timeStamp
      <4>1. i + 1 \in DOMAIN calls \/ i + 1 = L + 1
        BY <1>4, <2>2
      <4>2. CASE i + 1 \in DOMAIN calls
        BY <1>1, <1>4, <1>6, <4>2
      <4>3. CASE i + 1 = L + 1
        BY <1>1, <1>4, <4>3
      <4> QED
        BY <4>1, <4>2, <4>3
    <3>2. calls'[i + 1].stamp \in Nat
      BY <1>1, <1>4, <3>1
    <3> QED
      BY <1>1, <1>2, <1>4, <1>10, <2>2, <3>1, <3>2
  <2>3. CASE i \in DOMAIN calls /\ x \in Open
    <3>1. /\ low[x] >= calls[i].stamp => Reaches(calls[i].node, x)
          /\ (i + 1 \in DOMAIN calls => low[x] < calls[i + 1].stamp) => Reaches(x, calls[i].node)
      BY <2>3 DEF PathInv, ReachInv
    <3> QED
      BY <1>1, <1>2, <1>5, <2>3, <3>1
  <2> QED
    BY <1>1, <1>2, <2>1, <2>2, <2>3
<1>14. EdgesInv'
  <2> SUFFICES ASSUME NEW x \in Open', NEW y \in graph'[x] \ earlier', Processed(x, y)'
               PROVE  y \in inComp' \/ ToCall(x, y)' \/ ToStack(x, y)'
    BY DEF EdgesInv
  <2>1. x # n
    BY <1>1, <1>3 DEF Processed
  <2>2. x \in Open /\ low'[x] = low[x]
    BY <1>2, <1>5, <2>1
  <2>3. Processed(x, y)
    BY <1>1 DEF Processed
  <2>4. y \in inComp \/ ToCall(x, y) \/ ToStack(x, y)
    BY <1>3, <2>2, <2>3 DEF PathInv, EdgesInv
  <2>5. ToCall(x, y) => ToCall(x, y)'
    BY <1>1, <1>2, <2>2 DEF ToCall
  <2>6. ToStack(x, y) => ToStack(x, y)'
    BY <1>2, <1>3, <1>4, <1>5, <2>2 DEF ToStack
  <2> QED
    BY <1>3, <2>4, <2>5, <2>6
<1>15. BaseInv'
  <2>1. PICK b : Based(b)
    BY DEF PathInv, BaseInv
  <2> DEFINE K == Len(sccStack)
  <2>2. PICK d : d = [i \in DOMAIN calls' |-> IF i = L + 1 THEN K ELSE b[i]]
    OBVIOUS
  <2>3. d[L + 1] = K /\ \A i \in DOMAIN calls : d[i] = b[i]
    BY <1>1, <2>2
  <2>4. \A i \in DOMAIN calls : b[i] \in 0 .. K
    BY <2>1 DEF Based
  <2> HIDE DEF K
  <2>5. \A i \in DOMAIN calls' : d[i] \in 0 .. Len(sccStack')
    BY <1>1, <1>3, <1>4, <2>3, <2>4 DEF K
  <2>6. \A i, j \in DOMAIN calls' : i < j => d[i] <= d[j]
    <3> SUFFICES ASSUME NEW i \in DOMAIN calls', NEW j \in DOMAIN calls', i < j PROVE d[i] <= d[j]
      OBVIOUS
    <3>1. i \in DOMAIN calls
      BY <1>1, <1>4
    <3>2. CASE j = L + 1
      BY <2>3, <2>4, <3>1, <3>2
    <3>3. CASE j \in DOMAIN calls
      BY <2>1, <2>3, <3>1, <3>3 DEF Based
    <3> QED
      BY <1>1, <3>2, <3>3
  <2>7. ASSUME NEW i \in DOMAIN calls', NEW p \in DOMAIN sccStack', p <= d[i]
        PROVE  low'[sccStack'[p]] < calls'[i].stamp
    <3>1. p \in DOMAIN sccStack /\ sccStack'[p] = sccStack[p] /\ sccStack[p] \in Open
          /\ low'[sccStack[p]] = low[sccStack[p]]
      BY <1>2, <1>3, <1>4, <1>5
    <3>2. CASE i = L + 1
      BY <1>1, <1>5, <3>1, <3>2
    <3>3. CASE i \in DOMAIN calls
      BY <1>1, <2>1, <2>3, <2>7, <3>1, <3>3 DEF Based
    <3> QED
      BY <1>1, <3>2, <3>3
  <2>8. ASSUME NEW i \in DOMAIN calls', NEW p \in DOMAIN sccStack',
               d[i] < p, i + 1 \in DOMAIN calls' => p <= d[i + 1]
        PROVE  low'[sccStack'[p]] >= low'[calls'[i].node]
                 \/ \E c \in calls'[i].todo \cap Open' : low'[sccStack'[p]] >= low'[c]
    <3>1. p \in DOMAIN sccStack /\ sccStack'[p] = sccStack[p] /\ sccStack[p] \in Open
          /\ low'[sccStack[p]] = low[sccStack[p]] /\ p \in 1 .. K
      BY <1>2, <1>3, <1>4, <1>5 DEF K
    <3>2. i \in DOMAIN calls
      BY <1>1, <1>4, <2>3, <2>8, <3>1 DEF K
    <3>3. b[i] < p /\ (i + 1 \in DOMAIN calls => p <= b[i + 1])
      BY <1>1, <2>3, <2>8, <3>2
    <3>4. Told(i, sccStack[p])
      BY <2>1, <3>1, <3>2, <3>3 DEF Based
    <3>5. calls'[i] = calls[i] /\ calls[i].node \in Open /\ low'[calls[i].node] = low[calls[i].node]
      BY <1>1, <1>2, <1>4, <1>5, <3>2
    <3>6. CASE low[sccStack[p]] >= low[calls[i].node]
      BY <3>1, <3>5, <3>6
    <3>7. ASSUME NEW c \in calls[i].todo \cap Open, low[sccStack[p]] >= low[c]
          PROVE  c \in calls'[i].todo \cap Open' /\ low'[sccStack'[p]] >= low'[c]
      BY <1>2, <1>5, <3>1, <3>5, <3>7
    <3> QED
      BY <3>4, <3>6, <3>7 DEF Told
  <2>9. Based(d)'
    BY <2>5, <2>6, <2>7, <2>8 DEF Based, Told
  <2> QED
    BY <2>9 DEF BaseInv
<1> QED
  BY <1>3, <1>12, <1>13, <1>14, <1>15, DoneStays DEF PathInv

\* The number a node takes over is that of a node it has an edge to, so what
\* it tells of the calls is still so.
LEMMA RelaxKeepsPath == ASSUME IInv, PathInv, Relax PROVE PathInv'
<1> DEFINE L == Len(calls)  n == Top(calls).node
<1>0. CallsInv
  BY DEF PathInv
<1>1. /\ L \in DOMAIN calls /\ L + 1 \notin DOMAIN calls /\ Top(calls) = calls[L]
      /\ DOMAIN calls' = DOMAIN calls
      /\ \A i \in DOMAIN calls : /\ calls'[i].node = calls[i].node /\ calls'[i].stamp = calls[i].stamp
                                 /\ i # L => calls'[i].todo = calls[i].todo
      /\ n \in Open /\ Visited' = Visited /\ Open' = Open /\ OnStack' = OnStack /\ Active' = Active
      /\ \A x \in Visited : x # n => low'[x] = low[x]
      /\ low'[n] <= low[n] /\ low'[n] \in Nat
      /\ \E c \in calls[L].todo \cap Visited :
            /\ calls'[L].todo = calls[L].todo \ {c}
            /\ c \in Open => low'[n] <= low[c]
            /\ low'[n] = low[n] \/ (c \in Open /\ low'[n] = low[c])
  BY <1>0, RelaxEffect
<1>2. PICK c \in calls[L].todo \cap Visited :
            /\ calls'[L].todo = calls[L].todo \ {c}
            /\ c \in Open => low'[n] <= low[c]
            /\ low'[n] = low[n] \/ (c \in Open /\ low'[n] = low[c])
  BY <1>1
<1>3. UNCHANGED <<graph, earlier, start, roots, inComp, sccStack, timeStamp, mergeMap>> /\ n = calls[L].node
  BY <1>1 DEF Relax
<1>4. /\ L \in Nat /\ DOMAIN calls = 1 .. L /\ timeStamp \in Nat
      /\ \A i \in DOMAIN calls : calls[i].node \in Active /\ calls[i].stamp \in Nat
      /\ Len(sccStack) \in Nat /\ DOMAIN sccStack = 1 .. Len(sccStack)
      /\ \A p \in DOMAIN sccStack : sccStack[p] \in OnStack
  BY StateType DEF IInv
<1>5. /\ Open \subseteq Unvisited /\ Open \subseteq Visited
      /\ \A x \in Open : low[x] \in Nat /\ low[x] < timeStamp
      /\ OnStack \subseteq Open /\ Active \subseteq Open /\ OnStack \cap Active = {} /\ earlier \subseteq inComp
  BY <1>0, OpenType DEF IInv, CallsInv
<1>6. \A i \in DOMAIN calls :
         /\ calls[i].todo \subseteq graph[calls[i].node]
         /\ low[calls[i].node] <= calls[i].stamp /\ calls[i].stamp < timeStamp
         /\ i + 1 \in DOMAIN calls => calls[i + 1].node \in calls[i].todo
  BY <1>0 DEF CallsInv
<1>7. \A i, j \in DOMAIN calls : i < j =>
       /\ calls[i].stamp < calls[j].stamp /\ calls[i].node # calls[j].node
       /\ Reaches(calls[i].node, calls[j].node)
  BY <1>0 DEF CallsInv
<1>8. \A x \in Open : low'[x] \in Nat /\ low'[x] <= low[x] /\ (x # n => low'[x] = low[x])
  <2> HIDE DEF n
  <2> QED
    BY <1>1, <1>5
<1>9. c \in Open => Reaches(n, c)
  BY <1>1, <1>2, <1>3, <1>5, <1>6, ReachesEdge
<1>10. n \notin OnStack
  BY <1>1, <1>3, <1>4, <1>5
<1>11. \A p \in DOMAIN sccStack : sccStack[p] \in Open /\ low'[sccStack[p]] = low[sccStack[p]]
  BY <1>4, <1>5, <1>8, <1>10
<1> HIDE DEF L, n
<1>12. CallsInv'
  <2>1. /\ OnStack' \subseteq Open' /\ Active' \subseteq Open' /\ OnStack' \cap Active' = {} /\ earlier' \subseteq inComp'
        /\ \A x \in Open' : low'[x] < timeStamp'
    BY <1>1, <1>3, <1>4, <1>5, <1>8
  <2>2. ASSUME NEW i \in DOMAIN calls'
        PROVE  /\ calls'[i].todo \subseteq graph'[calls'[i].node]
               /\ low'[calls'[i].node] <= calls'[i].stamp /\ calls'[i].stamp < timeStamp'
               /\ i + 1 \in DOMAIN calls' => calls'[i + 1].node \in calls'[i].todo
    <3>1. i \in DOMAIN calls /\ calls'[i].todo \subseteq calls[i].todo
      BY <1>1, <1>2
    <3>2. calls'[i].todo \subseteq graph'[calls'[i].node]
      BY <1>1, <1>3, <1>6, <3>1
    <3>3. low'[calls'[i].node] <= calls'[i].stamp /\ calls'[i].stamp < timeStamp'
      <4>1. calls'[i].node = calls[i].node /\ calls'[i].stamp = calls[i].stamp /\ timeStamp' = timeStamp
        BY <1>1, <1>3, <3>1
      <4>2. calls[i].node \in Open /\ calls[i].stamp \in Nat
        BY <1>4, <1>5, <3>1
      <4>3. /\ low'[calls[i].node] <= low[calls[i].node] /\ low[calls[i].node] <= calls[i].stamp
            /\ low'[calls[i].node] \in Nat /\ low[calls[i].node] \in Nat
        BY <1>5, <1>6, <1>8, <3>1, <4>2
      <4> QED
        BY <1>6, <3>1, <4>1, <4>2, <4>3
    <3>4. i + 1 \in DOMAIN calls' => i # L
      BY <1>1, <1>4
    <3> QED
      BY <1>1, <1>6, <3>1, <3>2, <3>3, <3>4
  <2>3. \A i, j \in DOMAIN calls' : i < j =>
           /\ calls'[i].stamp < calls'[j].stamp /\ calls'[i].node # calls'[j].node
           /\ Reaches(calls'[i].node, calls'[j].node)
    BY <1>1, <1>7
  <2> QED
    BY <1>3, <2>1, <2>2, <2>3 DEF CallsInv, Reaches, Unvisited
<1>13. ReachInv'
  <2> SUFFICES ASSUME NEW i \in DOMAIN calls, NEW x \in Open
               PROVE  /\ low'[x] >= calls[i].stamp => Reaches(calls[i].node, x)
                      /\ (i + 1 \in DOMAIN calls => low'[x] < calls[i + 1].stamp) => Reaches(x, calls[i].node)
    BY <1>1, <1>3 DEF ReachInv, Reaches, Unvisited
  <2>1. \A y \in Open : /\ low[y] >= calls[i].stamp => Reaches(calls[i].node, y)
                        /\ (i + 1 \in DOMAIN calls => low[y] < calls[i + 1].stamp) => Reaches(y, calls[i].node)
    BY DEF PathInv, ReachInv
  <2>2. low'[x] >= calls[i].stamp => Reaches(calls[i].node, x)
    BY <1>4, <1>5, <1>8, <2>1
  <2>3. CASE low'[x] = low[x]
    BY <2>1, <2>2, <2>3
  <2>4. CASE low'[x] # low[x]
    <3>1. x = n /\ c \in Open /\ low'[x] = low[c]
      BY <1>2, <1>8, <2>4
    <3>2. (i + 1 \in DOMAIN calls => low'[x] < calls[i + 1].stamp) => Reaches(c, calls[i].node)
      BY <2>1, <3>1
    <3> QED
      BY <1>9, <2>2, <3>1, <3>2, ReachesTrans
  <2> QED
    BY <2>3, <2>4
<1>14. EdgesInv'
  <2> SUFFICES ASSUME NEW x \in Open, NEW y \in graph[x] \ earlier, Processed(x, y)'
               PROVE  y \in inComp \/ ToCall(x, y)' \/ ToStack(x, y)'
    BY <1>1, <1>3 DEF EdgesInv
  <2>1. CASE Processed(x, y)
    <3>1. y \in inComp \/ ToCall(x, y) \/ ToStack(x, y)
      BY <2>1 DEF PathInv, EdgesInv
    <3>2. ASSUME ToCall(x, y) PROVE ToCall(x, y)'
      <4>1. PICK j \in DOMAIN calls : /\ y = calls[j].node /\ low[x] <= calls[j].stamp
                                      /\ x \in OnStack \/ \E i \in DOMAIN calls : j <= i /\ x = calls[i].node
        BY <3>2 DEF ToCall
      <4>2. y = calls'[j].node /\ low'[x] <= calls'[j].stamp
        BY <1>1, <1>4, <1>5, <1>8, <4>1
      <4>3. x \in OnStack' \/ \E i \in DOMAIN calls' : j <= i /\ x = calls'[i].node
        BY <1>1, <4>1
      <4> QED
        BY <1>1, <4>2, <4>3 DEF ToCall
    <3>3. ASSUME ToStack(x, y) PROVE ToStack(x, y)'
      <4>1. PICK q \in DOMAIN sccStack : /\ y = sccStack[q]
                                         /\ low[x] <= low[y] \/ \E p \in 1 .. q : x = sccStack[p]
        BY <3>3 DEF ToStack
      <4>2. low[x] <= low[y] => low'[x] <= low'[y]
        BY <1>5, <1>8, <1>11, <4>1
      <4> QED
        BY <1>3, <4>1, <4>2 DEF ToStack
    <3> QED
      BY <3>1, <3>2, <3>3
  <2>2. CASE ~Processed(x, y)
    <3>1. PICK i \in DOMAIN calls : calls[i].node = x /\ y \in calls[i].todo
      BY <2>2 DEF Processed
    <3>2. y \notin calls'[i].todo
      BY <1>1, <3>1 DEF Processed
    <3>3. i = L /\ x = n /\ y = c
      BY <1>1, <1>2, <1>3, <3>1, <3>2
    <3>4. CASE c \in inComp
      BY <3>3, <3>4
    <3>5. CASE c \in OnStack
      <4>1. PICK q \in DOMAIN sccStack : c = sccStack[q]
        BY <3>5 DEF OnStack
      <4>2. low'[n] <= low'[c]
        BY <1>2, <1>11, <4>1
      <4> QED
        BY <1>3, <3>3, <4>1, <4>2 DEF ToStack
    <3>6. CASE c \in Active
      <4>1. PICK j \in DOMAIN calls : c = calls[j].node
        BY <3>6 DEF Active
      <4>2. c \in Open
        BY <1>5, <3>6
      <4>3. low'[n] <= low[c] /\ low[c] <= calls[j].stamp
        BY <1>2, <1>6, <4>1, <4>2
      <4>4. low'[n] <= calls[j].stamp
        BY <1>1, <1>4, <1>5, <4>2, <4>3
      <4>5. j <= L
        BY <1>4
      <4> QED
        BY <1>1, <1>3, <3>3, <4>1, <4>4, <4>5 DEF ToCall
    <3>7. c \in inComp \/ c \in OnStack \cup Active
      BY DEF Open, IInv, StackInv
    <3> QED
      BY <3>4, <3>5, <3>6, <3>7
  <2> QED
    BY <2>1, <2>2
<1>15. BaseInv'
  <2>1. PICK b : Based(b)
    BY DEF PathInv, BaseInv
  <2>2. ASSUME NEW i \in DOMAIN calls, NEW p \in DOMAIN sccStack,
               b[i] < p, i + 1 \in DOMAIN calls => p <= b[i + 1]
        PROVE  low'[sccStack[p]] >= low'[calls[i].node]
                 \/ \E d \in calls'[i].todo \cap Open : low'[sccStack[p]] >= low'[d]
    <3>1. Told(i, sccStack[p])
      BY <2>1, <2>2 DEF Based
    <3>2. low'[sccStack[p]] = low[sccStack[p]] /\ low[sccStack[p]] \in Nat /\ calls[i].node \in Open
      BY <1>4, <1>5, <1>11
    <3>3. CASE low[sccStack[p]] >= low[calls[i].node]
      BY <1>5, <1>8, <3>2, <3>3
    <3>4. CASE \E d \in calls[i].todo \cap Open : low[sccStack[p]] >= low[d]
      <4>1. PICK d \in calls[i].todo \cap Open : low[sccStack[p]] >= low[d]
        BY <3>4
      <4>2. CASE i = L /\ d = c
        <5>1. low'[n] <= low[d] /\ calls[i].node = n
          BY <1>2, <1>3, <4>2
        <5> QED
          BY <1>5, <1>8, <3>2, <4>1, <5>1
      <4>3. CASE ~(i = L /\ d = c)
        <5>1. d \in calls'[i].todo
          BY <1>1, <1>2, <4>1, <4>3
        <5> QED
          BY <1>5, <1>8, <3>2, <4>1, <5>1
      <4> QED
        BY <4>2, <4>3
    <3> QED
      BY <3>1, <3>3, <3>4 DEF Told
  <2>3. /\ \A i \in DOMAIN calls' : b[i] \in 0 .. Len(sccStack')
        /\ \A i, j \in DOMAIN calls' : i < j => b[i] <= b[j]
        /\ \A i \in DOMAIN calls' : \A p \in DOMAIN sccStack' : p <= b[i] => low'[sccStack'[p]] < calls'[i].stamp
    BY <1>1, <1>3, <1>11, <2>1 DEF Based
  <2>4. Based(b)'
    BY <1>1, <1>3, <2>2, <2>3 DEF Based, Told
  <2> QED
    BY <2>4 DEF BaseInv
<1> QED
  BY <1>3, <1>12, <1>13, <1>14, <1>15, DoneStays DEF PathInv

\* The node put on the stack reaches the next call: whatever reaches the one
\* reaches the other.
LEMMA InnerKeepsPath == ASSUME IInv, PathInv, LeaveInner PROVE PathInv'
<1> DEFINE L == Len(calls)  n == Top(calls).node  K == Len(sccStack)
<1>0. CallsInv
  BY DEF PathInv
<1>1. /\ L \in DOMAIN calls /\ L - 1 \in DOMAIN calls /\ L + 1 \notin DOMAIN calls /\ Top(calls) = calls[L]
      /\ DOMAIN calls' = DOMAIN calls \ {L} /\ Len(calls') = L - 1
      /\ \A i \in DOMAIN calls' : calls'[i] = calls[i]
      /\ n \in Open /\ OnStack' = OnStack \cup {n} /\ Active \subseteq Active' \cup {n} /\ Active' \subseteq Active
      /\ calls[L].todo = {} /\ low[n] < calls[L].stamp
  BY <1>0, InnerEffect
<1>2. /\ DOMAIN sccStack' = DOMAIN sccStack \cup {K + 1} /\ K + 1 \notin DOMAIN sccStack
      /\ \A p \in DOMAIN sccStack : sccStack'[p] = sccStack[p]
      /\ sccStack'[K + 1] = n /\ Len(sccStack') = K + 1
  BY <1>0, InnerEffect
<1>3. /\ UNCHANGED <<graph, earlier, start, roots, low, inComp, timeStamp, mergeMap>>
      /\ Visited' = Visited /\ Open' = Open /\ n = calls[L].node
  BY <1>0, <1>1, InnerEffect
<1>4. /\ L \in Nat /\ DOMAIN calls = 1 .. L /\ timeStamp \in Nat
      /\ \A i \in DOMAIN calls : calls[i].node \in Active /\ calls[i].stamp \in Nat
      /\ K \in Nat /\ DOMAIN sccStack = 1 .. K
      /\ \A p \in DOMAIN sccStack : sccStack[p] \in OnStack
  BY StateType DEF IInv
<1>5. /\ Open \subseteq Unvisited /\ Open \subseteq Visited
      /\ \A x \in Open : low[x] \in Nat /\ low[x] < timeStamp
      /\ OnStack \subseteq Open /\ Active \subseteq Open /\ OnStack \cap Active = {} /\ earlier \subseteq inComp
  BY <1>0, OpenType DEF IInv, CallsInv
<1>6. \A i \in DOMAIN calls :
         /\ calls[i].todo \subseteq graph[calls[i].node]
         /\ low[calls[i].node] <= calls[i].stamp /\ calls[i].stamp < timeStamp
         /\ i + 1 \in DOMAIN calls => calls[i + 1].node \in calls[i].todo
  BY <1>0 DEF CallsInv
<1>7. \A i, j \in DOMAIN calls : i < j =>
       /\ calls[i].stamp < calls[j].stamp /\ calls[i].node # calls[j].node
       /\ Reaches(calls[i].node, calls[j].node)
  BY <1>0 DEF CallsInv
<1>8. \A i \in DOMAIN calls' : i \in DOMAIN calls /\ i < L /\ calls'[i] = calls[i] /\ calls[i].node # n
                                /\ (i # L - 1 => i + 1 \in DOMAIN calls')
  <2> SUFFICES ASSUME NEW i \in DOMAIN calls'
               PROVE i \in DOMAIN calls /\ i < L /\ calls'[i] = calls[i] /\ calls[i].node # n
                                /\ (i # L - 1 => i + 1 \in DOMAIN calls')
    OBVIOUS
  <2>1. i \in DOMAIN calls /\ i < L /\ calls'[i] = calls[i] /\ (i # L - 1 => i + 1 \in DOMAIN calls')
    BY <1>1, <1>4
  <2> QED
    BY <1>1, <1>3, <1>7, <2>1
<1>9. n \in calls[L - 1].todo
  <2>1. (L - 1) + 1 = L
    BY <1>4
  <2> QED
    BY <1>1, <1>3, <1>6, <2>1
<1> HIDE DEF L, n, K
<1>10. CallsInv'
  <2>1. /\ OnStack' \subseteq Open' /\ Active' \subseteq Open' /\ OnStack' \cap Active' = {} /\ earlier' \subseteq inComp'
        /\ \A x \in Open' : low'[x] < timeStamp'
    <3>1. n \notin Active'
      <4>1. \A i \in DOMAIN calls' : calls'[i].node # n
        BY <1>8
      <4> QED
        BY <4>1 DEF Active
    <3> QED
      BY <1>1, <1>3, <1>5, <3>1
  <2>2. \A i \in DOMAIN calls' :
           /\ calls'[i].todo \subseteq graph'[calls'[i].node]
           /\ low'[calls'[i].node] <= calls'[i].stamp /\ calls'[i].stamp < timeStamp'
           /\ i + 1 \in DOMAIN calls' => calls'[i + 1].node \in calls'[i].todo
    BY <1>3, <1>6, <1>8
  <2>3. \A i, j \in DOMAIN calls' : i < j =>
           /\ calls'[i].stamp < calls'[j].stamp /\ calls'[i].node # calls'[j].node
           /\ Reaches(calls'[i].node, calls'[j].node)
    BY <1>7, <1>8
  <2> QED
    BY <1>3, <2>1, <2>2, <2>3 DEF CallsInv, Reaches, Unvisited
<1>11. ReachInv'
  <2> SUFFICES ASSUME NEW i \in DOMAIN calls', NEW x \in Open
               PROVE  /\ low[x] >= calls'[i].stamp => Reaches(calls'[i].node, x)
                      /\ (i + 1 \in DOMAIN calls' => low[x] < calls'[i + 1].stamp) => Reaches(x, calls'[i].node)
    BY <1>3 DEF ReachInv, Reaches, Unvisited
  <2>1. \A j \in DOMAIN calls : \A y \in Open :
          /\ low[y] >= calls[j].stamp => Reaches(calls[j].node, y)
          /\ (j + 1 \in DOMAIN calls => low[y] < calls[j + 1].stamp) => Reaches(y, calls[j].node)
    BY DEF PathInv, ReachInv
  <2>2. CASE i # L - 1
    BY <1>8, <2>1, <2>2
  <2>3. CASE i = L - 1
    <3>1. Reaches(x, n)
      BY <1>1, <1>3, <2>1
    <3>2. i + 1 = L
      BY <1>4, <2>3
    <3>3. Reaches(n, calls[i].node)
      BY <1>1, <1>8, <2>1, <3>2
    <3> QED
      BY <1>8, <2>1, <3>1, <3>3, ReachesTrans
  <2> QED
    BY <2>2, <2>3
<1>12. EdgesInv'
  <2> SUFFICES ASSUME NEW x \in Open, NEW y \in graph[x] \ earlier, Processed(x, y)'
               PROVE  y \in inComp \/ ToCall(x, y)' \/ ToStack(x, y)'
    BY <1>3 DEF EdgesInv
  <2>1. Processed(x, y)
    <3> SUFFICES ASSUME NEW i \in DOMAIN calls, calls[i].node = x, y \in calls[i].todo PROVE FALSE
      BY DEF Processed
    <3>1. i # L /\ i \in DOMAIN calls'
      BY <1>1
    <3> QED
      BY <1>8, <3>1 DEF Processed
  <2>2. y \in inComp \/ ToCall(x, y) \/ ToStack(x, y)
    BY <2>1 DEF PathInv, EdgesInv
  <2>3. ASSUME ToCall(x, y) PROVE ToCall(x, y)' \/ ToStack(x, y)'
    <3>1. PICK j \in DOMAIN calls : /\ y = calls[j].node /\ low[x] <= calls[j].stamp
                                    /\ x \in OnStack \/ \E i \in DOMAIN calls : j <= i /\ x = calls[i].node
      BY <2>3 DEF ToCall
    <3>2. CASE j # L
      <4>1. j \in DOMAIN calls' /\ calls'[j] = calls[j]
        BY <1>1, <3>2
      <4>2. x \in OnStack' \/ \E i \in DOMAIN calls' : j <= i /\ x = calls'[i].node
        <5>1. CASE x \in OnStack
          BY <1>1, <5>1
        <5>2. ASSUME NEW i \in DOMAIN calls, j <= i, x = calls[i].node
              PROVE  x \in OnStack' \/ \E m \in DOMAIN calls' : j <= m /\ x = calls'[m].node
          <6>1. CASE i = L
            BY <1>1, <1>3, <5>2, <6>1
          <6>2. CASE i # L
            BY <1>1, <5>2, <6>2
          <6> QED
            BY <6>1, <6>2
        <5> QED
          BY <3>1, <5>1, <5>2
      <4> QED
        BY <1>3, <3>1, <4>1, <4>2 DEF ToCall
    <3>3. CASE j = L
      <4>1. y = sccStack'[K + 1] /\ K + 1 \in DOMAIN sccStack'
        BY <1>2, <1>3, <3>1, <3>3
      <4>2. \E p \in 1 .. K + 1 : x = sccStack'[p]
        <5>1. CASE x \in OnStack
          <6>1. PICK p \in DOMAIN sccStack : x = sccStack[p]
            BY <5>1 DEF OnStack
          <6> QED
            BY <1>2, <1>4, <6>1
        <5>2. ASSUME NEW i \in DOMAIN calls, j <= i, x = calls[i].node
              PROVE  \E p \in 1 .. K + 1 : x = sccStack'[p]
          <6>1. i = L
            BY <1>4, <3>3, <5>2
          <6>2. x = sccStack'[K + 1] /\ K + 1 \in 1 .. K + 1
            BY <1>2, <1>3, <1>4, <5>2, <6>1
          <6> QED
            BY <6>2
        <5> QED
          BY <3>1, <5>1, <5>2
      <4> QED
        BY <4>1, <4>2 DEF ToStack
    <3> QED
      BY <3>2, <3>3
  <2>4. ASSUME ToStack(x, y) PROVE ToStack(x, y)'
    <3>1. PICK q \in DOMAIN sccStack : /\ y = sccStack[q]
                                       /\ low[x] <= low[y] \/ \E p \in 1 .. q : x = sccStack[p]
      BY <2>4 DEF ToStack
    <3>2. q \in DOMAIN sccStack' /\ sccStack'[q] = sccStack[q]
      BY <1>2
    <3>3. \A p \in 1 .. q : p \in DOMAIN sccStack
      BY <1>4
    <3>4. low'[x] <= low'[y] \/ \E p \in 1 .. q : x = sccStack'[p]
      BY <1>2, <1>3, <3>1, <3>3
    <3> QED
      BY <3>1, <3>2, <3>4 DEF ToStack
  <2> QED
    BY <2>2, <2>3, <2>4
<1>13. BaseInv'
  <2>1. PICK b : Based(b)
    BY DEF PathInv, BaseInv
  <2>0. /\ \A i \in DOMAIN calls : b[i] \in 0 .. K
        /\ \A i, j \in DOMAIN calls : i < j => b[i] <= b[j]
        /\ \A i \in DOMAIN calls : \A p \in DOMAIN sccStack :
           /\ p <= b[i] => low[sccStack[p]] < calls[i].stamp
           /\ b[i] < p /\ (i + 1 \in DOMAIN calls => p <= b[i + 1]) => Told(i, sccStack[p])
    BY <2>1 DEF Based, K
  <2>2. \A i \in DOMAIN calls' : b[i] \in 0 .. Len(sccStack')
    BY <1>2, <1>4, <1>8, <2>0
  <2>3. \A i, j \in DOMAIN calls' : i < j => b[i] <= b[j]
    BY <1>8, <2>0
  <2>4. \A i \in DOMAIN calls' : \A p \in DOMAIN sccStack' : p <= b[i] => low[sccStack'[p]] < calls'[i].stamp
    <3> SUFFICES ASSUME NEW i \in DOMAIN calls', NEW p \in DOMAIN sccStack', p <= b[i]
                 PROVE  low[sccStack'[p]] < calls'[i].stamp
      OBVIOUS
    <3>1. p # K + 1
      BY <1>4, <1>8, <2>0
    <3> QED
      BY <1>2, <1>8, <2>0, <3>1
  <2>5. ASSUME NEW i \in DOMAIN calls', NEW p \in DOMAIN sccStack',
               b[i] < p, i + 1 \in DOMAIN calls' => p <= b[i + 1]
        PROVE  low[sccStack'[p]] >= low[calls'[i].node]
                 \/ \E d \in calls'[i].todo \cap Open : low[sccStack'[p]] >= low[d]
    <3>1. calls'[i] = calls[i] /\ i \in DOMAIN calls
      BY <1>8
    <3>2. CASE i # L - 1
      <4>1. i + 1 \in DOMAIN calls' /\ i + 1 \in DOMAIN calls
        BY <1>8, <3>2
      <4>2. p # K + 1
        BY <1>4, <2>0, <2>5, <4>1
      <4>3. p \in DOMAIN sccStack /\ sccStack'[p] = sccStack[p]
        BY <1>2, <4>2
      <4>4. Told(i, sccStack[p])
        BY <2>0, <2>5, <3>1, <4>1, <4>3
      <4> QED
        BY <3>1, <4>3, <4>4 DEF Told
    <3>3. CASE i = L - 1
      <4>0. i + 1 = L
        BY <1>4, <3>3
      <4>1. CASE p = K + 1
        <5>1. sccStack'[p] = n /\ low[n] \in Nat /\ n \in calls'[i].todo \cap Open
          BY <1>1, <1>2, <1>5, <1>9, <3>1, <3>3, <4>1
        <5> QED
          BY <5>1
      <4>2. CASE p # K + 1 /\ p <= b[L]
        <5>1. p \in DOMAIN sccStack /\ sccStack'[p] = sccStack[p]
          BY <1>2, <4>2
        <5>2. Told(i, sccStack[p])
          BY <2>0, <2>5, <3>1, <4>0, <4>2, <5>1
        <5> QED
          BY <3>1, <5>1, <5>2 DEF Told
      <4>3. CASE p # K + 1 /\ b[L] < p
        <5>1. p \in DOMAIN sccStack /\ sccStack'[p] = sccStack[p]
          BY <1>2, <4>3
        <5>2. Told(L, sccStack[p])
          BY <1>1, <2>0, <4>3, <5>1
        <5>3. low[sccStack[p]] >= low[n]
          BY <1>1, <1>3, <5>2 DEF Told
        <5>4. n \in calls'[i].todo \cap Open
          BY <1>1, <1>9, <3>1, <3>3
        <5> QED
          BY <5>1, <5>3, <5>4
      <4>4. p \in Nat /\ b[L] \in Nat
        BY <1>1, <1>2, <1>4, <2>0
      <4> QED
        BY <4>1, <4>2, <4>3, <4>4
    <3> QED
      BY <3>2, <3>3
  <2>6. Based(b)'
    BY <1>3, <2>2, <2>3, <2>4, <2>5 DEF Based, Told
  <2> QED
    BY <2>6 DEF BaseInv
<1> QED
  BY <1>3, <1>10, <1>11, <1>12, <1>13, DoneStays DEF PathInv

\* What is popped is the cycle of the root: its nodes reach the root and are
\* reached from it, and their edges stay among them or lead into a component.
LEMMA RootClosesCycle ==
  ASSUME IInv, PathInv, LeaveRoot
  PROVE  LET L == Len(calls)  s == calls[L].stamp  scc == {x \in Open : low[x] >= s}
         IN /\ \A x, y \in scc : Reaches(x, y)
            /\ \A x \in scc : graph[x] \ earlier \subseteq scc \cup Done
<1> DEFINE L == Len(calls)  n == Top(calls).node  s == calls[L].stamp
           scc == {x \in Open : low[x] >= s}
<1>0. CallsInv
  BY DEF PathInv
<1>b. PICK b : Based(b)
  BY DEF PathInv, BaseInv
<1>1. /\ L \in DOMAIN calls /\ L + 1 \notin DOMAIN calls /\ Top(calls) = calls[L]
      /\ DOMAIN calls' = DOMAIN calls \ {L}
      /\ calls[L].todo = {} /\ n \in scc
      /\ \A p \in DOMAIN sccStack : b[L] < p <=> low[sccStack[p]] >= s
      /\ \A i \in DOMAIN calls' : calls[i].node \notin scc
  BY <1>0, <1>b, RootEffect
<1>2. /\ L \in Nat /\ DOMAIN calls = 1 .. L
      /\ \A i \in DOMAIN calls : calls[i].stamp \in Nat
      /\ Len(sccStack) \in Nat /\ DOMAIN sccStack = 1 .. Len(sccStack)
      /\ \A p \in DOMAIN sccStack : sccStack[p] \in OnStack
  BY StateType DEF IInv
<1>3. (\A x \in Open : low[x] \in Nat) /\ OnStack \subseteq Open
  BY <1>0, OpenType DEF IInv, CallsInv
<1>4. b[L] \in Nat
  BY <1>1, <1>2, <1>b DEF Based
<1>5. \A x, y \in scc : Reaches(x, y)
  <2>1. \A x \in scc : Reaches(calls[L].node, x) /\ Reaches(x, calls[L].node)
    BY <1>1 DEF PathInv, ReachInv
  <2> QED
    BY <2>1, ReachesTrans
<1>6. ASSUME NEW x \in scc, NEW y \in graph[x] \ earlier PROVE y \in scc \cup Done
  <2>1. Processed(x, y)
    BY <1>1 DEF Processed
  <2>2. y \in inComp \/ ToCall(x, y) \/ ToStack(x, y)
    BY <1>6, <2>1 DEF PathInv, EdgesInv
  <2>3. CASE y \in inComp
    BY <2>3 DEF Done
  <2>4. ASSUME ToCall(x, y) PROVE y \in scc
    <3>1. PICK j \in DOMAIN calls : y = calls[j].node /\ low[x] <= calls[j].stamp
      BY <2>4 DEF ToCall
    <3>2. calls[j].stamp >= s
      BY <1>1, <1>2, <1>3, <3>1
    <3>3. j < L => calls[j].stamp < s
      BY <1>0, <1>1 DEF CallsInv
    <3>4. j = L
      BY <1>1, <1>2, <3>2, <3>3
    <3> QED
      BY <1>1, <3>1, <3>4
  <2>5. ASSUME ToStack(x, y) PROVE y \in scc
    <3>1. PICK q \in DOMAIN sccStack : /\ y = sccStack[q]
                                       /\ low[x] <= low[y] \/ \E p \in 1 .. q : x = sccStack[p]
      BY <2>5 DEF ToStack
    <3>2. y \in Open /\ low[y] \in Nat /\ low[x] \in Nat /\ low[x] >= s /\ s \in Nat
      BY <1>1, <1>2, <1>3, <3>1
    <3>3. CASE low[x] <= low[y]
      BY <3>2, <3>3
    <3>4. ASSUME NEW p \in 1 .. q, x = sccStack[p] PROVE y \in scc
      <4>1. p \in DOMAIN sccStack
        BY <1>2
      <4>2. b[L] < p
        BY <1>1, <3>2, <3>4, <4>1
      <4>3. b[L] < q
        BY <1>2, <1>4, <4>1, <4>2
      <4> QED
        BY <1>1, <3>1, <3>2, <4>3
    <3> QED
      BY <3>1, <3>3, <3>4
  <2> QED
    BY <2>2, <2>3, <2>4, <2>5
<1> QED
  BY <1>5, <1>6

\* Closing a part of the graph that is one cycle and has edges only to itself
\* and to what is closed adds the merge pairs of that cycle.
LEMMA ClosingKeepsDone ==
  ASSUME TypeOK, DoneInv, NEW C \in SUBSET Unvisited, C \cap inComp = {},
         \A x, y \in C : Reaches(x, y),
         \A x \in C : graph[x] \ earlier \subseteq C \cup Done,
         UNCHANGED <<graph, earlier>>, inComp' = inComp \cup C,
         mergeMap' = mergeMap \cup {p \in C \X C : p[2] < p[1] /\ \A m \in C : p[2] <= m}
  PROVE  DoneInv'
<1>1. Done' = Done \cup C /\ Done \cap C = {} /\ Unvisited' = Unvisited
  BY DEF Done, Unvisited
<1>2. \A u \in Done' : graph'[u] \ earlier' \subseteq Done'
  BY <1>1 DEF DoneInv
<1>3. Done \subseteq Unvisited /\ Done \cup C \subseteq Unvisited
  BY DEF Done, Unvisited, TypeOK
<1>4. Done \in ClosedSets(Unvisited, graph)
  BY <1>3 DEF ClosedSets, DoneInv, Unvisited
<1>5. Done \cup C \in ClosedSets(Unvisited, graph)
  BY <1>1, <1>2, <1>3 DEF ClosedSets, Unvisited
<1>6. \A u \in Done, v \in C : ~Reaches(u, v)
  BY <1>1, <1>4, ReachClosed DEF Reaches
<1>7. \A u \in C, v \in Unvisited : Reaches(u, v) => v \in Done \cup C
  BY <1>5, ReachClosed DEF Reaches
<1>8. \A p : Merged(p)' <=> Merged(p)
  BY <1>1 DEF Merged, Reaches
<1>9. ASSUME NEW u \in C, NEW v \in C
      PROVE  Merged(<<u, v>>) <=> v < u /\ \A m \in C : v <= m
  <2>1. ASSUME NEW m \in Unvisited, Reaches(u, m), Reaches(m, u) PROVE m \in C
    BY <1>6, <1>7, <2>1
  <2> QED
    BY <2>1 DEF Merged
<1>10. ASSUME NEW p \in Done' \X Done'
       PROVE  p \in mergeMap' <=> Merged(p)
  <2>1. PICK u \in Done', v \in Done' : p = <<u, v>>
    OBVIOUS
  <2>2. CASE u \in C /\ v \in C
    <3>1. p \notin mergeMap
      BY <1>1, <2>1, <2>2 DEF DoneInv
    <3> QED
      BY <1>9, <2>1, <2>2, <3>1
  <2>3. CASE u \in Done /\ v \in Done
    <3>1. p \in mergeMap <=> Merged(p)
      BY <2>1, <2>3 DEF DoneInv
    <3>2. p \notin C \X C
      BY <1>1, <2>1, <2>3
    <3> QED
      BY <3>1, <3>2
  <2>4. CASE (u \in Done /\ v \in C) \/ (u \in C /\ v \in Done)
    <3>1. p \notin mergeMap'
      BY <1>1, <2>1, <2>4 DEF DoneInv
    <3>2. ~Merged(p)
      BY <1>6, <2>1, <2>4 DEF Merged
    <3> QED
      BY <3>1, <3>2
  <2> QED
    BY <1>1, <2>1, <2>2, <2>3, <2>4
<1>11. mergeMap' \subseteq Done' \X Done'
  BY <1>1 DEF DoneInv
<1>12. mergeMap' = {p \in Done' \X Done' : Merged(p)'}
  BY <1>8, <1>10, <1>11
<1> QED
  BY <1>2, <1>12 DEF DoneInv

\* What is left on the stack and of the calls has smaller numbers than the cycle.
LEMMA RootKeepsPath == ASSUME IInv, PathInv, LeaveRoot PROVE PathInv'
<1> DEFINE L == Len(calls)  n == Top(calls).node  s == calls[L].stamp
           scc == {x \in Open : low[x] >= s}
<1>0. CallsInv
  BY DEF PathInv
<1>b. PICK b : Based(b)
  BY DEF PathInv, BaseInv
<1>1. /\ L \in DOMAIN calls /\ L + 1 \notin DOMAIN calls /\ Top(calls) = calls[L]
      /\ DOMAIN calls' = DOMAIN calls \ {L} /\ Len(calls') = L - 1
      /\ \A i \in DOMAIN calls' : calls'[i] = calls[i]
      /\ calls[L].todo = {} /\ low[n] = s /\ n \in scc
      /\ \A i \in DOMAIN calls' : calls[i].node \notin scc
  BY <1>0, <1>b, RootEffect
<1>2. /\ Len(sccStack') = b[L] /\ DOMAIN sccStack' = {p \in DOMAIN sccStack : p <= b[L]}
      /\ \A p \in DOMAIN sccStack' : sccStack'[p] = sccStack[p]
      /\ \A p \in DOMAIN sccStack : b[L] < p <=> low[sccStack[p]] >= s
  BY <1>0, <1>b, RootEffect
<1>3. /\ inComp' = inComp \cup scc /\ Open' = Open \ scc /\ Visited' = Visited
      /\ mergeMap' = mergeMap \cup {p \in scc \X scc : p[2] < p[1] /\ \A m \in scc : p[2] <= m}
      /\ UNCHANGED <<graph, earlier, start, roots, low, timeStamp>>
  BY <1>0, <1>b, RootEffect
<1>4. /\ L \in Nat /\ DOMAIN calls = 1 .. L /\ timeStamp \in Nat
      /\ \A i \in DOMAIN calls : calls[i].node \in Active /\ calls[i].stamp \in Nat
      /\ Len(sccStack) \in Nat /\ DOMAIN sccStack = 1 .. Len(sccStack)
      /\ \A p \in DOMAIN sccStack : sccStack[p] \in OnStack
  BY StateType DEF IInv
<1>5. /\ Open \subseteq Unvisited /\ Open \subseteq Visited
      /\ \A x \in Open : low[x] \in Nat /\ low[x] < timeStamp
      /\ OnStack \subseteq Open /\ Active \subseteq Open /\ OnStack \cap Active = {} /\ earlier \subseteq inComp
  BY <1>0, OpenType DEF IInv, CallsInv
<1>6. \A i \in DOMAIN calls :
         /\ calls[i].todo \subseteq graph[calls[i].node]
         /\ low[calls[i].node] <= calls[i].stamp /\ calls[i].stamp < timeStamp
         /\ i + 1 \in DOMAIN calls => calls[i + 1].node \in calls[i].todo
  BY <1>0 DEF CallsInv
<1>7. \A i, j \in DOMAIN calls : i < j =>
       /\ calls[i].stamp < calls[j].stamp /\ calls[i].node # calls[j].node
       /\ Reaches(calls[i].node, calls[j].node)
  BY <1>0 DEF CallsInv
<1>8. /\ \A i \in DOMAIN calls : b[i] \in 0 .. Len(sccStack)
      /\ \A i, j \in DOMAIN calls : i < j => b[i] <= b[j]
      /\ \A i \in DOMAIN calls : \A p \in DOMAIN sccStack :
           /\ p <= b[i] => low[sccStack[p]] < calls[i].stamp
           /\ b[i] < p /\ (i + 1 \in DOMAIN calls => p <= b[i + 1]) => Told(i, sccStack[p])
  BY <1>b DEF Based
<1>9. \A x, y \in scc : Reaches(x, y)
  BY RootClosesCycle
<1>10. \A x \in scc : graph[x] \ earlier \subseteq scc \cup Done
  BY RootClosesCycle
<1>11. n = calls[L].node /\ s \in Nat /\ b[L] \in Nat
  BY <1>1, <1>4, <1>8
<1>12. \A i \in DOMAIN calls' : i \in DOMAIN calls /\ i < L /\ calls'[i] = calls[i] /\ calls[i].node \in Open'
                                /\ (i # L - 1 => i + 1 \in DOMAIN calls')
  <2> SUFFICES ASSUME NEW i \in DOMAIN calls'
               PROVE i \in DOMAIN calls /\ i < L /\ calls'[i] = calls[i] /\ calls[i].node \in Open'
                                /\ (i # L - 1 => i + 1 \in DOMAIN calls')
    OBVIOUS
  <2>1. i \in DOMAIN calls /\ i < L /\ calls'[i] = calls[i] /\ (i # L - 1 => i + 1 \in DOMAIN calls')
    BY <1>1, <1>4
  <2>2. calls[i].node \in Open'
    BY <1>1, <1>3, <1>4, <1>5, <2>1
  <2> QED
    BY <2>1, <2>2
<1>13. \A x \in Open' : x \in Open /\ low[x] < s
  BY <1>3, <1>5, <1>11
<1>14. /\ \A p \in DOMAIN sccStack' : p \in DOMAIN sccStack /\ p <= b[L] /\ sccStack'[p] = sccStack[p]
                                      /\ sccStack[p] \in Open'
       /\ \A p \in DOMAIN sccStack : p <= b[L] => p \in DOMAIN sccStack' /\ sccStack'[p] = sccStack[p]
       /\ \A p \in DOMAIN sccStack : sccStack[p] \notin Open' => b[L] < p
       /\ \A p \in DOMAIN sccStack : b[L] < p => sccStack[p] \in scc
  <2> SUFFICES ASSUME NEW p \in DOMAIN sccStack
               PROVE  /\ p \in DOMAIN sccStack' => p <= b[L] /\ sccStack'[p] = sccStack[p] /\ sccStack[p] \in Open'
                      /\ p <= b[L] => p \in DOMAIN sccStack' /\ sccStack'[p] = sccStack[p]
                      /\ sccStack[p] \notin Open' => b[L] < p
                      /\ b[L] < p => sccStack[p] \in scc
    BY <1>2
  <2>1. sccStack[p] \in Open /\ low[sccStack[p]] \in Nat /\ p \in Nat
    BY <1>4, <1>5
  <2>2. b[L] < p <=> sccStack[p] \in scc
    BY <1>2, <2>1
  <2>3. ~(p <= b[L]) <=> b[L] < p
    BY <1>11, <2>1
  <2> QED
    BY <1>2, <1>3, <2>1, <2>2, <2>3
<1>15. DoneInv'
  <2>1. scc \subseteq Unvisited /\ scc \cap inComp = {}
    BY <1>5 DEF Open
  <2>2. DoneInv /\ TypeOK
    BY DEF PathInv, IInv
  <2> HIDE DEF scc
  <2> QED
    BY <1>3, <1>9, <1>10, <2>1, <2>2, ClosingKeepsDone
<1> HIDE DEF L, n, s, scc
<1>16. CallsInv'
  <2>1. /\ OnStack' \subseteq Open' /\ Active' \subseteq Open' /\ OnStack' \cap Active' = {} /\ earlier' \subseteq inComp'
        /\ \A x \in Open' : low'[x] < timeStamp'
    <3>1. OnStack' \subseteq Open' /\ OnStack' \subseteq OnStack
      BY <1>4, <1>14 DEF OnStack
    <3>2. Active' \subseteq Open' /\ Active' \subseteq Active
      BY <1>4, <1>12 DEF Active
    <3> QED
      BY <1>3, <1>5, <1>13, <3>1, <3>2
  <2>2. \A i \in DOMAIN calls' :
           /\ calls'[i].todo \subseteq graph'[calls'[i].node]
           /\ low'[calls'[i].node] <= calls'[i].stamp /\ calls'[i].stamp < timeStamp'
           /\ i + 1 \in DOMAIN calls' => calls'[i + 1].node \in calls'[i].todo
    BY <1>3, <1>6, <1>12
  <2>3. \A i, j \in DOMAIN calls' : i < j =>
           /\ calls'[i].stamp < calls'[j].stamp /\ calls'[i].node # calls'[j].node
           /\ Reaches(calls'[i].node, calls'[j].node)
    BY <1>7, <1>12
  <2> QED
    BY <1>3, <2>1, <2>2, <2>3 DEF CallsInv, Reaches, Unvisited
<1>17. ReachInv'
  <2> SUFFICES ASSUME NEW i \in DOMAIN calls', NEW x \in Open'
               PROVE  /\ low[x] >= calls'[i].stamp => Reaches(calls'[i].node, x)
                      /\ (i + 1 \in DOMAIN calls' => low[x] < calls'[i + 1].stamp) => Reaches(x, calls'[i].node)
    BY <1>3 DEF ReachInv, Reaches, Unvisited
  <2>1. /\ low[x] >= calls[i].stamp => Reaches(calls[i].node, x)
        /\ (i + 1 \in DOMAIN calls => low[x] < calls[i + 1].stamp) => Reaches(x, calls[i].node)
    BY <1>12, <1>13 DEF PathInv, ReachInv
  <2>2. CASE i # L - 1
    BY <1>12, <2>1, <2>2
  <2>3. CASE i = L - 1
    <3>1. i + 1 = L
      BY <1>4, <2>3
    <3>2. low[x] < calls[i + 1].stamp
      BY <1>13, <3>1 DEF s
    <3> QED
      BY <1>12, <2>1, <3>2
  <2> QED
    BY <2>2, <2>3
<1>18. EdgesInv'
  <2> SUFFICES ASSUME NEW x \in Open', NEW y \in graph[x] \ earlier, Processed(x, y)'
               PROVE  y \in inComp' \/ ToCall(x, y)' \/ ToStack(x, y)'
    BY <1>3 DEF EdgesInv
  <2>0. x \in Open /\ x # n
    BY <1>1, <1>3
  <2>1. Processed(x, y)
    <3> SUFFICES ASSUME NEW i \in DOMAIN calls, calls[i].node = x, y \in calls[i].todo PROVE FALSE
      BY DEF Processed
    <3>1. i # L /\ i \in DOMAIN calls'
      BY <1>1
    <3> QED
      BY <1>12, <3>1 DEF Processed
  <2>2. y \in inComp \/ ToCall(x, y) \/ ToStack(x, y)
    BY <2>0, <2>1 DEF PathInv, EdgesInv
  <2>3. ASSUME ToCall(x, y) PROVE y \in inComp' \/ ToCall(x, y)'
    <3>1. PICK j \in DOMAIN calls : /\ y = calls[j].node /\ low[x] <= calls[j].stamp
                                    /\ x \in OnStack \/ \E i \in DOMAIN calls : j <= i /\ x = calls[i].node
      BY <2>3 DEF ToCall
    <3>2. CASE j = L
      BY <1>1, <1>3, <1>11, <3>1, <3>2
    <3>3. CASE j # L
      <4>1. j \in DOMAIN calls' /\ calls'[j] = calls[j]
        BY <1>1, <3>3
      <4>2. x \in OnStack' \/ \E i \in DOMAIN calls' : j <= i /\ x = calls'[i].node
        <5>1. CASE x \in OnStack
          <6>1. PICK p \in DOMAIN sccStack : x = sccStack[p]
            BY <5>1 DEF OnStack
          <6>2. p <= b[L]
            <7>1. ~(b[L] < p)
              BY <1>3, <1>14, <6>1
            <7> QED
              BY <1>4, <1>11, <7>1
          <6> QED
            BY <1>14, <6>1, <6>2 DEF OnStack
        <5>2. ASSUME NEW i \in DOMAIN calls, j <= i, x = calls[i].node
              PROVE  \E m \in DOMAIN calls' : j <= m /\ x = calls'[m].node
          <6>1. i # L
            BY <1>11, <2>0, <5>2
          <6> QED
            BY <1>1, <5>2, <6>1
        <5> QED
          BY <3>1, <5>1, <5>2
      <4> QED
        BY <1>3, <3>1, <4>1, <4>2 DEF ToCall
    <3> QED
      BY <3>2, <3>3
  <2>4. ASSUME ToStack(x, y) PROVE y \in inComp' \/ ToStack(x, y)'
    <3>1. PICK q \in DOMAIN sccStack : /\ y = sccStack[q]
                                       /\ low[x] <= low[y] \/ \E p \in 1 .. q : x = sccStack[p]
      BY <2>4 DEF ToStack
    <3>2. CASE b[L] < q
      BY <1>3, <1>14, <3>1, <3>2
    <3>3. CASE q <= b[L]
      <4>1. q \in DOMAIN sccStack' /\ sccStack'[q] = sccStack[q]
        BY <1>14, <3>3
      <4>2. ASSUME NEW p \in 1 .. q PROVE sccStack'[p] = sccStack[p]
        <5>1. p \in DOMAIN sccStack /\ p <= b[L]
          BY <1>4, <1>11, <3>3
        <5> QED
          BY <1>14, <5>1
      <4>3. low'[x] <= low'[y] \/ \E p \in 1 .. q : x = sccStack'[p]
        BY <1>3, <3>1, <4>2
      <4> QED
        BY <3>1, <4>1, <4>3 DEF ToStack
    <3>4. b[L] < q \/ q <= b[L]
      BY <1>4, <1>11
    <3> QED
      BY <3>2, <3>3, <3>4
  <2> QED
    BY <1>3, <2>2, <2>3, <2>4
<1>19. BaseInv'
  <2>1. /\ \A i \in DOMAIN calls' : b[i] \in 0 .. Len(sccStack')
        /\ \A i, j \in DOMAIN calls' : i < j => b[i] <= b[j]
    <3>1. \A i \in DOMAIN calls' : b[i] <= b[L] /\ b[i] \in Nat
      BY <1>1, <1>8, <1>12
    <3> QED
      BY <1>2, <1>8, <1>11, <1>12, <3>1
  <2>2. \A i \in DOMAIN calls' : \A p \in DOMAIN sccStack' : p <= b[i] => low[sccStack'[p]] < calls'[i].stamp
    BY <1>8, <1>12, <1>14
  <2>3. ASSUME NEW i \in DOMAIN calls', NEW p \in DOMAIN sccStack',
               b[i] < p, i + 1 \in DOMAIN calls' => p <= b[i + 1]
        PROVE  low[sccStack'[p]] >= low[calls'[i].node]
                 \/ \E d \in calls'[i].todo \cap Open' : low[sccStack'[p]] >= low[d]
    <3>1. /\ calls'[i] = calls[i] /\ i \in DOMAIN calls
          /\ p \in DOMAIN sccStack /\ p <= b[L] /\ sccStack'[p] = sccStack[p] /\ sccStack[p] \in Open'
      BY <1>12, <1>14
    <3>2. i + 1 \in DOMAIN calls => p <= b[i + 1]
      <4>1. CASE i # L - 1
        BY <1>12, <2>3, <4>1
      <4>2. CASE i = L - 1
        <5>1. i + 1 = L
          BY <1>4, <4>2
        <5> QED
          BY <3>1, <5>1
      <4> QED
        BY <4>1, <4>2
    <3>3. Told(i, sccStack[p])
      BY <1>8, <2>3, <3>1, <3>2
    <3>4. ASSUME NEW d \in calls[i].todo \cap Open, low[sccStack[p]] >= low[d] PROVE d \in Open'
      <4>1. low[sccStack[p]] < s /\ low[sccStack[p]] \in Nat /\ low[d] \in Nat
        BY <1>5, <1>13, <3>1
      <4>2. ~(low[d] >= s)
        BY <1>11, <3>4, <4>1
      <4> QED
        BY <1>3, <4>2 DEF scc
    <3> QED
      BY <3>1, <3>3, <3>4 DEF Told
  <2>4. Based(b)'
    BY <1>3, <2>1, <2>2, <2>3 DEF Based, Told
  <2> QED
    BY <2>4 DEF BaseInv
<1> QED
  BY <1>15, <1>16, <1>17, <1>18, <1>19 DEF PathInv

LEMMA InitHasPath == Init => PathInv /\ SeenInv
<1> SUFFICES ASSUME Init PROVE PathInv /\ SeenInv
  OBVIOUS
<1>1. Visited = earlier /\ Open = {} /\ OnStack = {} /\ Active = {} /\ Done = {}
  BY DEF Init, Visited, Open, OnStack, Active, Done
<1>2. DOMAIN calls = {} /\ DOMAIN sccStack = {} /\ mergeMap = {} /\ inComp = earlier
  BY DEF Init
<1>3. CallsInv /\ ReachInv
  BY <1>1, <1>2 DEF CallsInv, ReachInv
<1>4. EdgesInv
  BY <1>1 DEF EdgesInv
<1>5. BaseInv
  BY <1>2 DEF BaseInv, Based
<1>6. DoneInv
  BY <1>1, <1>2 DEF DoneInv
<1>7. SeenInv
  BY <1>1 DEF SeenInv, Init
<1> QED
  BY <1>3, <1>4, <1>5, <1>6, <1>7 DEF PathInv

LEMMA PathStays ==
  ASSUME PathInv, UNCHANGED <<graph, earlier, low, inComp, sccStack, calls, timeStamp, mergeMap>>
  PROVE  PathInv'
<1>1. Open' = Open /\ OnStack' = OnStack /\ Active' = Active /\ Unvisited' = Unvisited
  BY DEF Open, Visited, OnStack, Active, Unvisited
<1>2. CallsInv'
  BY <1>1 DEF PathInv, CallsInv, Reaches
<1>3. ReachInv'
  BY <1>1 DEF PathInv, ReachInv, Reaches
<1>4. EdgesInv'
  BY <1>1 DEF PathInv, EdgesInv, Processed, ToCall, ToStack
<1>5. BaseInv'
  <2>1. PICK b : Based(b)
    BY DEF PathInv, BaseInv
  <2>2. Based(b)'
    BY <1>1, <2>1 DEF Based, Told
  <2> QED
    BY <2>2 DEF BaseInv
<1> QED
  BY <1>2, <1>3, <1>4, <1>5, DoneStays DEF PathInv

LEMMA NextKeepsPath == ASSUME IInv, PathInv, [Next]_vars PROVE PathInv'
<1>1. ASSUME NEW n \in Nodes, StartFrom(n) PROVE PathInv'
  <2>1. CASE n \in Visited
    <3>1. UNCHANGED <<graph, earlier, low, inComp, sccStack, calls, timeStamp, mergeMap>>
      BY <1>1, <2>1 DEF StartFrom
    <3> QED
      BY <3>1, PathStays
  <2>2. CASE n \notin Visited
    <3>1. MakesCall(n)
      BY <1>1, <2>2 DEF StartFrom, MakesCall
    <3>2. calls = <<>>
      BY <1>1 DEF StartFrom
    <3> QED
      BY <3>1, <3>2, CallKeepsPath
  <2> QED
    BY <2>1, <2>2
<1>2. CASE Descend
  <2>1. PICK n \in Nodes \ Visited : IsNextChild(n, Top(calls).todo) /\ Enter(n) /\ calls' = Append(calls, Call(n))
    BY <1>2 DEF Descend
  <2>2. MakesCall(n) /\ n \in Top(calls).todo
    BY <1>2, <2>1 DEF Descend, MakesCall, IsNextChild
  <2> QED
    BY <2>2, CallKeepsPath
<1>3. CASE Relax
  BY <1>3, RelaxKeepsPath
<1>4. CASE LeaveInner
  BY <1>4, InnerKeepsPath
<1>5. CASE LeaveRoot
  BY <1>5, RootKeepsPath
<1>6. CASE UNCHANGED vars
  BY <1>6, PathStays DEF vars
<1> QED
  BY <1>1, <1>2, <1>3, <1>4, <1>5, <1>6 DEF Next

\* What is visited is reached from the nodes the run started from.
LEMMA NextKeepsSeen == ASSUME IInv, PathInv, SeenInv, [Next]_vars PROVE SeenInv'
<1> DEFINE F == VisitedFrom(Unvisited, graph, start)
<1>1. UNCHANGED <<graph, earlier, start>> /\ F' = F
  BY DEF Next, vars, StartFrom, Descend, Relax, LeaveInner, LeaveRoot, Unvisited
<1>2. start \cap Unvisited \subseteq F
  BY DEF VisitedFrom
<1>3. \A u \in F : graph[u] \cap Unvisited \subseteq F
  BY DEF VisitedFrom, ClosedSets
<1>4. Visited \ earlier \subseteq F /\ start \subseteq Visited \cup roots
  BY DEF SeenInv
<1> HIDE DEF F
<1>5. ASSUME NEW n \in Nodes, StartFrom(n) PROVE SeenInv'
  <2>1. n \in start /\ roots' = roots \ {n}
    BY <1>5 DEF StartFrom, IInv, TypeOK
  <2>2. Visited' = Visited \cup {n}
    BY <1>5 DEF StartFrom, Enter, Visited
  <2>3. Visited' \ earlier \subseteq F
    BY <1>2, <1>4, <1>5, <2>1, <2>2 DEF Unvisited
  <2> QED
    BY <1>1, <1>4, <2>1, <2>2, <2>3 DEF SeenInv, F
<1>6. CASE Descend
  <2>1. PICK n \in Nodes \ Visited : n \in Top(calls).todo /\ Enter(n)
    BY <1>6 DEF Descend, IsNextChild
  <2>2. Visited' = Visited \cup {n} /\ roots' = roots
    BY <1>6, <2>1 DEF Descend, Enter, Visited
  <2>3. n \in Unvisited
    BY <2>1 DEF Unvisited, IInv, TypeOK, PathInv, CallsInv
  <2>4. Top(calls).node \in Visited \ earlier /\ n \in graph[Top(calls).node]
    <3>1. Len(calls) \in DOMAIN calls /\ Top(calls) = calls[Len(calls)]
      BY <1>6, TopType DEF Descend, IInv
    <3>2. Top(calls).node \in Open
      BY <3>1 DEF PathInv, CallsInv, Active
    <3> QED
      BY <2>1, <3>1, <3>2 DEF PathInv, CallsInv, Open
  <2>5. Visited' \ earlier \subseteq F
    BY <1>3, <1>4, <2>2, <2>3, <2>4
  <2> QED
    BY <1>1, <1>4, <2>2, <2>5 DEF SeenInv, F
<1>7. CASE Relax \/ LeaveInner \/ LeaveRoot \/ UNCHANGED vars
  <2>1. Visited' = Visited /\ roots' = roots
    BY <1>7 DEF Relax, LeaveInner, LeaveRoot, vars, Visited
  <2> QED
    BY <1>1, <1>4, <2>1 DEF SeenInv, F
<1> QED
  BY <1>5, <1>6, <1>7 DEF Next

LEMMA PathHolds == Spec => [](IInv /\ PathInv /\ SeenInv)
<1>1. Init => IInv /\ PathInv /\ SeenInv
  BY InitHolds, InitHasPath
<1>2. (IInv /\ PathInv /\ SeenInv) /\ [Next]_vars => (IInv /\ PathInv /\ SeenInv)'
  BY NextKeeps, NextKeepsPath, NextKeepsSeen
<1> QED
  BY <1>1, <1>2, PTL DEF Spec

LEMMA EndedIsDone == ASSUME IInv, PathInv, SeenInv PROVE FindsTheCycles
<1> DEFINE seen == VisitedFrom(Unvisited, graph, start)
<1> SUFFICES ASSUME Ended PROVE Visited = earlier \cup seen /\ mergeMap = MergePairs(seen, graph)
  BY DEF FindsTheCycles, Unvisited
<1>1. inComp = Visited /\ earlier \subseteq inComp
  BY DEF Ended, IInv, StackInv, Open, TypeOK, PathInv, CallsInv
<1>2. Done = Visited \ earlier /\ Done \subseteq Unvisited
  BY <1>1 DEF Done, IInv, TypeOK, Unvisited
<1>3. Done \in ClosedSets(Unvisited, graph)
  BY <1>2 DEF ClosedSets, PathInv, DoneInv, Unvisited
<1>4. start \cap Unvisited \subseteq Done
  BY <1>2 DEF SeenInv, Ended, Unvisited
<1>5. seen = Done
  <2>1. seen \subseteq Done
    BY <1>3, <1>4 DEF VisitedFrom
  <2> QED
    BY <1>2, <2>1 DEF SeenInv
<1>6. Done \in SUBSET Nat
  BY <1>2, SccAssumption DEF Unvisited
<1>7. \A u, v \in Done : Reach(Done, graph, u, v) <=> Reaches(u, v)
  BY <1>3, ReachWithin DEF Reaches
<1>8. \A u \in Done, v \in Unvisited : Reaches(u, v) => v \in Done
  BY <1>3, ReachClosed DEF Reaches
<1>9. \A p \in Done \X Done :
        Merged(p) <=> /\ p[2] < p[1] /\ Cycle(Done, graph, p[1], p[2])
                      /\ \A m \in Done : Cycle(Done, graph, p[1], m) => p[2] <= m
  <2> SUFFICES ASSUME NEW u \in Done, NEW v \in Done
               PROVE Merged(<<u, v>>) <=> /\ v < u /\ Cycle(Done, graph, u, v)
                                          /\ \A m \in Done : Cycle(Done, graph, u, m) => v <= m
    OBVIOUS
  <2>1. \A m \in Done : Cycle(Done, graph, u, m) <=> Reaches(u, m) /\ Reaches(m, u)
    BY <1>7 DEF Cycle
  <2>2. Merged(<<u, v>>) <=> /\ v < u /\ Reaches(u, v) /\ Reaches(v, u)
                             /\ \A m \in Unvisited : Reaches(u, m) /\ Reaches(m, u) => v <= m
    BY DEF Merged
  <2> QED
    BY <1>2, <1>8, <2>1, <2>2
<1>10. mergeMap = CyclePairs(Done, graph)
  BY <1>9 DEF PathInv, DoneInv, CyclePairs
<1> QED
  BY <1>1, <1>2, <1>5, <1>6, <1>10, MergePairsAre

\* A run of the cycle detectors returns what module CycleDetect states: every
\* strongly connected component of what it visited, with its least node to
\* merge into, and nothing else, on every graph and after any earlier runs.
THEOREM FindsAllCycles == Spec => []FindsTheCycles
<1>1. IInv /\ PathInv /\ SeenInv => FindsTheCycles
  BY EndedIsDone
<1> QED
  BY <1>1, PathHolds, PTL

=============================================================================

---------------------------- MODULE HelperProofs ----------------------------
(***************************************************************************)
(* What the small components promise to the large ones: the pool of        *)
(* threads, the work list and the merge targets, each on its own.          *)
(***************************************************************************)
EXTENDS MultiTask, BitQueue, MergeTarget, TLAPS

-----------------------------------------------------------------------------
(* The thread pool: when the threads leave their loops, and with what, for    *)
(* every number of tasks and of data and every meeting of push and pop.       *)

\* Wait has told task t to exit.
Asked(t) == mainPc \in {"poll", "returned"} \/ (mainPc = "signal" /\ t < at)

\* What a task knows, what it has done, and what the loops of Wait have
\* counted.  An exited task stays exited because Wait wrote its READY_EXIT
\* before; so a round of polling that counted every task so far saw them out.
PoolInv ==
  /\ \A t \in Task : status[t] = "READY_EXIT" => Asked(t)
  /\ \A t \in Task : taskPc[t] \in {"finish", "exit", "ended"} => Asked(t)
  /\ \A t \in Task : status[t] = "EXITED" <=> taskPc[t] = "ended"
  /\ mainPc \notin {"create", "add", "grow", "push"} => index = DataNum
  /\ mainPc \in {"grow", "push"} => index < DataNum
  /\ mainPc # "poll" => exitNum = 0
  /\ exitNum <= at
  /\ mainPc = "poll" /\ exitNum = at => \A t \in Task : t < at => taskPc[t] = "ended"
  /\ mainPc = "create" => \A t \in Task : t >= at => taskPc[t] = "absent"
  /\ mainPc \in {"add", "grow", "push", "returned"} => at = 0
  /\ mainPc = "returned" => \A t \in Task : taskPc[t] = "ended"

\* Only the task itself moves the front of its queue, and only behind a datum
\* it saw; the end never goes back.
QueueInv ==
  \A t \in Task :
    /\ torn[t] \/ front[t] <= end[t]
    /\ taskPc[t] \in {"move", "drop", "exit", "ended"} => torn[t] \/ front[t] < end[t]

IInv == TypeOK /\ PoolInv /\ QueueInv

LEMMA TaskNumbers == 0 \in Task /\ Task \subseteq Nat /\ TaskNum \in Nat \ {0}
BY MultiTaskAssumption DEF Task

LEMMA OwnerIsTask == TypeOK => Owner \in Task
BY MultiTaskAssumption DEF TypeOK, Owner, Task

LEMMA InitHolds == Init => IInv
BY TaskNumbers, MultiTaskAssumption DEF Init, IInv, TypeOK, PoolInv, QueueInv, Asked

LEMMA StepTyped == IInv /\ [Next]_vars => TypeOK'
<1> SUFFICES ASSUME TypeOK, PoolInv, [Next]_vars PROVE TypeOK'
  BY DEF IInv
<1> USE DEF TypeOK
<1>0. Owner \in Task
  BY OwnerIsTask
<1>1. CASE Create
  BY <1>1, TaskNumbers DEF Create, Task, queueVars
<1>2. CASE AddData
  BY <1>0, <1>2 DEF AddData, queueVars
<1>a. CASE MoveTable
  BY <1>0, <1>a DEF MoveTable
<1>b. CASE StorePushed
  <2>1. PICK s \in stores : /\ stores' = stores \ {s}
                            /\ end' = IF s = "end" THEN [end EXCEPT ![Owner] = @ + 1] ELSE end
    BY <1>b DEF StorePushed
  <2>2. end' \in [Task -> Nat]
    BY <1>0, <2>1
  <2> QED
    BY <1>b, <2>1, <2>2 DEF StorePushed
<1>c. CASE EndAddData
  BY <1>c, MultiTaskAssumption DEF EndAddData, PoolInv, queueVars
<1>3. CASE StartSignal
  BY <1>3 DEF StartSignal, queueVars
<1>4. CASE Signal
  BY <1>4, SMTT(30), TaskNumbers DEF Signal, Task, queueVars
<1>5. CASE Poll
  <2>1. at' \in Task /\ exitNum' \in Task
    <3>1. at \in Nat /\ exitNum \in Nat /\ exitNum <= at
      BY TaskNumbers DEF PoolInv
    <3>2. CASE at + 1 < TaskNum
      <4>1. at' = at + 1 /\ exitNum' \in {exitNum, exitNum + 1}
        BY <1>5, <3>1, <3>2 DEF Poll
      <4> QED
        BY <3>1, <3>2, <4>1, TaskNumbers DEF Task
    <3>3. CASE ~(at + 1 < TaskNum)
      BY <1>5, <3>3, TaskNumbers DEF Poll
    <3> QED
      BY <3>2, <3>3
  <2> QED
    BY <1>5, <2>1 DEF Poll, queueVars
<1>6. ASSUME NEW t \in Task, TaskStep(t) PROVE TypeOK'
  <2>1. CASE Pop(t) \/ CheckFinish(t)
    BY <2>1 DEF Pop, CheckFinish, Goto, mainVars, queueVars
  <2>2. CASE Start(t) \/ CheckStatus(t) \/ CallFunc(t) \/ Exit(t)
    BY <2>2 DEF Start, CheckStatus, CallFunc, Exit, Goto, mainVars, queueVars
  <2>3. CASE MoveFront(t)
    BY <2>3 DEF MoveFront, Goto, mainVars
  <2> QED
    BY <1>6, <2>1, <2>2, <2>3 DEF TaskStep
<1>7. CASE UNCHANGED vars
  BY <1>7 DEF vars, mainVars, queueVars
<1> QED
  BY <1>1, <1>2, <1>3, <1>4, <1>5, <1>6, <1>7, <1>a, <1>b, <1>c DEF Next

LEMMA StepKeepsPool == IInv /\ [Next]_vars => PoolInv'
<1> SUFFICES ASSUME TypeOK, PoolInv, [Next]_vars PROVE PoolInv'
  BY DEF IInv
<1> USE TaskNumbers DEF PoolInv, Asked, Task
<1>1. CASE Create
  BY <1>1, SMTT(30) DEF Create, TypeOK
<1>2. CASE AddData
  BY <1>2, MultiTaskAssumption DEF AddData, TypeOK
<1>a. CASE MoveTable
  BY <1>a DEF MoveTable, TypeOK
<1>b. CASE StorePushed
  BY <1>b DEF StorePushed, TypeOK
<1>c. CASE EndAddData
  BY <1>c DEF EndAddData, TypeOK
<1>3. CASE StartSignal
  BY <1>3 DEF StartSignal, TypeOK
<1>4. CASE Signal
  <2>1. \A t \in Task : taskPc'[t] \in {"finish", "exit", "ended"} => Asked(t)'
    BY <1>4 DEF Signal, TypeOK
  <2>2. \A t \in Task : status'[t] = "READY_EXIT" => Asked(t)'
    BY <1>4 DEF Signal, TypeOK
  <2>3. taskPc[at] \notin {"ended"}
    BY <1>4 DEF Signal, TypeOK
  <2>4. \A t \in Task : status'[t] = "EXITED" <=> taskPc'[t] = "ended"
    BY <1>4, <2>3 DEF Signal, TypeOK
  <2> QED
    BY <1>4, <2>1, <2>2, <2>4 DEF Signal, TypeOK
<1>5. CASE Poll
  <2> DEFINE num == exitNum + (IF status[at] = "EXITED" THEN 1 ELSE 0)
  <2>1. num = at + 1 => \A t \in Task : t < at + 1 => taskPc[t] = "ended"
    BY <1>5 DEF Poll, TypeOK
  <2>2. num <= at + 1 /\ num \in Nat
    BY DEF TypeOK
  <2>3. CASE at + 1 < TaskNum
    BY <1>5, <2>1, <2>2, <2>3 DEF Poll, TypeOK
  <2>4. CASE ~(at + 1 < TaskNum)
    BY <1>5, <2>1, <2>2, <2>4 DEF Poll, TypeOK
  <2> QED
    BY <2>3, <2>4
<1>6. ASSUME NEW t \in Task, TaskStep(t) PROVE PoolInv'
  <2>1. CASE Start(t)
    BY <2>1 DEF Start, Goto, TypeOK, mainVars
  <2>2. CASE CheckStatus(t)
    BY <2>2 DEF CheckStatus, Goto, TypeOK, mainVars
  <2>3. CASE CheckFinish(t)
    BY <2>3 DEF CheckFinish, Goto, TypeOK, mainVars
  <2>4. CASE Pop(t) \/ MoveFront(t)
    <3>1. UNCHANGED <<mainVars, status>> /\ taskPc[t] \in {"pop", "move", "drop"}
      BY <2>4 DEF Pop, MoveFront, Goto
    <3>2. \E p \in {"check", "move", "drop", "call"} : taskPc' = [taskPc EXCEPT ![t] = p]
      BY <2>4 DEF Pop, MoveFront, Goto
    <3>3. /\ \A u \in Task : taskPc'[u] \in {"finish", "exit", "ended"} =>
                              taskPc'[u] = taskPc[u]
          /\ \A u \in Task : taskPc[u] = "absent" => taskPc'[u] = "absent"
          /\ \A u \in Task : taskPc[u] = "ended" => taskPc'[u] = "ended"
      BY <3>1, <3>2 DEF TypeOK
    <3> QED
      BY <3>1, <3>3 DEF TypeOK, mainVars
  <2>5. CASE CallFunc(t)
    BY <2>5 DEF CallFunc, Goto, TypeOK, mainVars
  <2>6. CASE Exit(t)
    BY <2>6 DEF Exit, Goto, TypeOK, mainVars
  <2> QED
    BY <1>6, <2>1, <2>2, <2>3, <2>4, <2>5, <2>6 DEF TaskStep
<1>7. CASE UNCHANGED vars
  BY <1>7 DEF vars, mainVars
<1> QED
  BY <1>1, <1>2, <1>3, <1>4, <1>5, <1>6, <1>7, <1>a, <1>b, <1>c DEF Next

LEMMA StepKeepsQueue == IInv /\ [Next]_vars => QueueInv'
<1> SUFFICES ASSUME TypeOK, PoolInv, QueueInv, [Next]_vars PROVE QueueInv'
  BY DEF IInv
<1> USE DEF TypeOK, QueueInv
<1>0. Owner \in Task
  BY OwnerIsTask
<1>1. CASE Create
  BY <1>1 DEF Create, queueVars
<1>2. CASE MoveTable
  <2>1. \A t \in Task : torn[t] => torn'[t]
    BY <1>0, <1>2 DEF MoveTable
  <2> QED
    BY <1>2, <2>1 DEF MoveTable
<1>3. CASE StorePushed
  <2>1. \A t \in Task : end[t] <= end'[t] /\ end'[t] \in Nat
    BY <1>0, <1>3 DEF StorePushed
  <2>2. UNCHANGED <<taskPc, front, torn>>
    BY <1>3 DEF StorePushed
  <2> QED
    BY <2>1, <2>2
<1>4. ASSUME NEW t \in Task, Pop(t) \/ CheckFinish(t) PROVE QueueInv'
  <2>1. UNCHANGED queueVars
    BY <1>4 DEF Pop, CheckFinish
  <2>2. \A u \in Task : u # t => taskPc'[u] = taskPc[u]
    BY <1>4 DEF Pop, CheckFinish, Goto
  <2>3. taskPc'[t] \in {"move", "drop", "exit", "ended"} => FALSE \in EmptyAnswers(t)
    BY <1>4 DEF Pop, CheckFinish, Goto, EmptyAnswers
  <2>4. FALSE \in EmptyAnswers(t) => torn[t] \/ front[t] # end[t]
    BY DEF EmptyAnswers
  <2>5. torn[t] \/ (front[t] # end[t] => front[t] < end[t])
    OBVIOUS
  <2>6. taskPc'[t] \in {"move", "drop", "exit", "ended"} => torn[t] \/ front[t] < end[t]
    BY <2>3, <2>4, <2>5, Zenon
  <2>7. UNCHANGED <<front, end, torn>>
    BY <2>1 DEF queueVars
  <2> QED
    BY <2>2, <2>6, <2>7
<1>5. ASSUME NEW t \in Task, MoveFront(t) PROVE QueueInv'
  <2>1. /\ taskPc[t] \in {"move", "drop"} /\ taskPc'[t] \in {"call", "check"}
        /\ \A u \in Task : u # t => taskPc'[u] = taskPc[u] /\ front'[u] = front[u]
        /\ front'[t] = IF torn[t] THEN front[t] ELSE front[t] + 1
        /\ UNCHANGED <<end, torn>>
    BY <1>5 DEF MoveFront, Goto
  <2> QED
    BY <2>1
<1>6. ASSUME NEW t \in Task, Start(t) \/ CheckStatus(t) \/ CallFunc(t) \/ Exit(t)
      PROVE  QueueInv'
  BY <1>6 DEF Start, CheckStatus, CallFunc, Exit, Goto, queueVars
<1>7. CASE UNCHANGED <<taskPc, queueVars>>
  BY <1>7 DEF queueVars
<1>8. CASE AddData \/ EndAddData \/ StartSignal \/ Signal \/ Poll \/ UNCHANGED vars
  BY <1>7, <1>8 DEF AddData, EndAddData, StartSignal, Signal, Poll, vars
<1> QED
  BY <1>1, <1>2, <1>3, <1>4, <1>5, <1>6, <1>8 DEF Next, TaskStep

LEMMA PoolInvariant == Spec => []IInv
<1>1. IInv /\ [Next]_vars => IInv'
  BY StepTyped, StepKeepsPool, StepKeepsQueue DEF IInv
<1> QED
  BY <1>1, InitHolds, PTL DEF Spec

\* No thread leaves its loop before all data are dealt: no datum is queued
\* for a thread that is gone.
THEOREM ThreadsLeaveWhenAsked == Spec => []LeavesOnlyWhenAsked
<1>1. IInv => LeavesOnlyWhenAsked
  BY DEF IInv, PoolInv, Asked, LeavesOnlyWhenAsked
<1> QED
  BY <1>1, PoolInvariant, PTL

\* Run does not return while a thread is in its loop.
THEOREM RunWaitsForAll == Spec => []ReturnsAfterAllExit
<1>1. IInv => ReturnsAfterAllExit
  BY DEF IInv, PoolInv, ReturnsAfterAllExit
<1> QED
  BY <1>1, PoolInvariant, PTL

\* A thread leaves its loop only with a datum left in its queue: threads that
\* have done all their work keep Run waiting for ever.
THEOREM ThreadsLeaveData == Spec => []LeavesDataBehind
<1>1. IInv => LeavesDataBehind
  BY DEF IInv, QueueInv, LeavesDataBehind
<1> QED
  BY <1>1, PoolInvariant, PTL

-----------------------------------------------------------------------------
(* The work list is a queue without repetitions, for every size of the bitmap *)
(* and every set of elements, until a bit is written beyond the bitmap.       *)

\* The properties need each other, and that the bits set are within the
\* bytes: an old bit found again only after the bitmap has grown would stand
\* for an element that has left the queue.
ListInv ==
  /\ ListTypeOK
  /\ ~wild => BitsMatchList /\ QueuedOnce /\ \A e \in bits : e \div 8 < bytes

LEMMA ListStarts == ListInit => ListInv
<1> SUFFICES ASSUME ListInit PROVE ListInv
  OBVIOUS
<1>1. list = <<>> /\ DOMAIN list = {} /\ bits = {} /\ bytes = InitialBytes /\ wild = FALSE
  BY DEF ListInit
<1>2. InitialBytes \in Nat \ {0}
  BY BitSizeAssumption DEF InitialBytes
<1>3. list \in Seq(Elem)
  BY <1>1
<1>4. ListTypeOK
  BY <1>1, <1>2, <1>3 DEF ListTypeOK
<1>5. BitsMatchList /\ QueuedOnce
  BY <1>1 DEF BitsMatchList, QueuedOnce, CheckBit
<1> QED
  BY <1>1, <1>4, <1>5 DEF ListInv

\* Setting or clearing a bit that ends within the bitmap.
LEMMA SetBitEffect ==
  ASSUME ListTypeOK, NEW e \in Elem, NEW val \in BOOLEAN, SetBit(e, val)
  PROVE  /\ bytes' \in Nat \ {0} /\ bits' \subseteq Elem /\ wild' \in BOOLEAN
         /\ wild => wild'
         /\ ~wild' => /\ bytes <= bytes' /\ e \div 8 < bytes'
                      /\ bits' = IF val THEN bits \cup {e} ELSE bits \ {e}
<1> DEFINE k == e \div 8
<1>1. k \in Nat /\ bytes \in Nat \ {0} /\ bits \subseteq Elem /\ wild \in BOOLEAN
  BY ElemAssumption DEF ListTypeOK
<1>2. bytes' = IF k >= bytes THEN 2 * bytes ELSE bytes
  BY DEF SetBit, Extended
<1>3. IF k < bytes'
      THEN bits' = (IF val THEN bits \cup {e} ELSE bits \ {e}) /\ UNCHANGED wild
      ELSE wild' = TRUE /\ UNCHANGED bits
  BY DEF SetBit, Extended
<1> HIDE DEF k
<1>4. bytes' \in Nat \ {0} /\ bytes <= bytes'
  BY <1>1, <1>2
<1>5. bits' \subseteq Elem /\ wild' \in BOOLEAN /\ (wild => wild')
  BY <1>1, <1>3
<1>6. ~wild' => k < bytes' /\ bits' = IF val THEN bits \cup {e} ELSE bits \ {e}
  BY <1>3
<1> QED
  BY <1>4, <1>5, <1>6 DEF k

LEMMA ListStays == ListInv /\ [ListNext]_listVars => ListInv'
<1> SUFFICES ASSUME ListInv, [ListNext]_listVars PROVE ListInv'
  OBVIOUS
<1>0. /\ ListTypeOK /\ list \in Seq(Elem) /\ bits \subseteq Elem /\ bytes \in Nat
      /\ \A e \in Elem : e \div 8 \in Nat
      /\ ~wild => /\ \A e \in bits : e \div 8 < bytes
                  /\ \A e \in Elem : e \in bits <=> \E i \in DOMAIN list : list[i] = e
                  /\ \A i, j \in DOMAIN list : list[i] = list[j] => i = j
  BY ElemAssumption DEF ListInv, ListTypeOK, BitsMatchList, CheckBit, QueuedOnce
<1>1. ASSUME NEW e \in Elem, InQueue(e), ~CheckBit(e) PROVE ListInv'
  <2>1. list' = Append(list, e) /\ SetBit(e, TRUE)
    BY <1>1 DEF InQueue
  <2>2. /\ bytes' \in Nat \ {0} /\ bits' \subseteq Elem /\ wild' \in BOOLEAN
        /\ wild => wild'
        /\ ~wild' => bytes <= bytes' /\ bits' = bits \cup {e} /\ e \div 8 < bytes'
    BY <1>0, <2>1, SetBitEffect
  <2>3. /\ list' \in Seq(Elem) /\ DOMAIN list' = 1 .. Len(list) + 1
        /\ list'[Len(list) + 1] = e /\ DOMAIN list = 1 .. Len(list) /\ Len(list) \in Nat
        /\ \A i \in 1 .. Len(list) : list'[i] = list[i]
    BY <1>0, <2>1
  <2>4. ASSUME ~wild' PROVE BitsMatchList' /\ QueuedOnce' /\ \A x \in bits' : x \div 8 < bytes'
    <3>0. ~wild /\ bytes <= bytes' /\ bits' = bits \cup {e} /\ e \div 8 < bytes'
      BY <2>2, <2>4
    <3>1. \A i \in DOMAIN list : list[i] # e
      BY <1>0, <1>1, <3>0 DEF CheckBit
    <3>2. QueuedOnce'
      <4>1. \A i, j \in DOMAIN list : list[i] = list[j] => i = j
        BY <1>0, <3>0
      <4>2. ASSUME NEW i \in DOMAIN list', NEW j \in DOMAIN list', list'[i] = list'[j]
            PROVE  i = j
        <5>1. i \in DOMAIN list \/ i = Len(list) + 1
          BY <2>3
        <5>2. j \in DOMAIN list \/ j = Len(list) + 1
          BY <2>3
        <5> QED
          BY <2>3, <3>1, <4>1, <4>2, <5>1, <5>2
      <4> QED
        BY <4>2 DEF QueuedOnce
    <3>3. \A x \in bits' : x \div 8 < bytes'
      <4>1. \A x \in bits : x \div 8 \in Nat
        BY <1>0
      <4> QED
        BY <1>0, <2>2, <3>0, <4>1
    <3>4. ASSUME NEW x \in Elem PROVE x \in bits' <=> \E i \in DOMAIN list' : list'[i] = x
      <4>1. x \in bits <=> \E i \in 1 .. Len(list) : list[i] = x
        BY <1>0, <2>3, <3>0
      <4>2. x \in bits' <=> x \in bits \/ x = e
        BY <3>0
      <4>3. (\E i \in DOMAIN list' : list'[i] = x)
              <=> (\E i \in 1 .. Len(list) : list[i] = x) \/ x = e
        BY <2>3
      <4> QED
        BY <4>1, <4>2, <4>3
    <3>5. BitsMatchList'
      BY <3>3, <3>4 DEF BitsMatchList, CheckBit
    <3> QED
      BY <3>2, <3>3, <3>5
  <2> QED
    BY <2>2, <2>3, <2>4 DEF ListInv, ListTypeOK
<1>2. CASE OutQueue
  <2> DEFINE h == Head(list)
  <2>1. list # <<>> /\ list' = Tail(list) /\ SetBit(h, FALSE)
    BY <1>2 DEF OutQueue
  <2>2. /\ h \in Elem /\ h = list[1] /\ Len(list) \in Nat \ {0}
        /\ list' \in Seq(Elem) /\ DOMAIN list' = 1 .. Len(list) - 1
        /\ DOMAIN list = 1 .. Len(list)
        /\ \A i \in 1 .. Len(list) - 1 : list'[i] = list[i + 1]
    BY <1>0, <2>1
  <2> HIDE DEF h
  <2>3. /\ bytes' \in Nat \ {0} /\ bits' \subseteq Elem /\ wild' \in BOOLEAN
        /\ wild => wild'
        /\ ~wild' => bytes <= bytes' /\ bits' = bits \ {h}
    BY <1>0, <2>1, <2>2, SetBitEffect
  <2>4. ASSUME ~wild' PROVE BitsMatchList' /\ QueuedOnce' /\ \A x \in bits' : x \div 8 < bytes'
    <3>0. ~wild /\ bytes <= bytes' /\ bits' = bits \ {h}
      BY <2>3, <2>4
    <3>1. QueuedOnce'
      <4>1. ASSUME NEW i \in DOMAIN list', NEW j \in DOMAIN list', list'[i] = list'[j]
            PROVE  i = j
        <5>1. i + 1 \in DOMAIN list /\ j + 1 \in DOMAIN list /\ list[i + 1] = list[j + 1]
          BY <2>2, <4>1
        <5> QED
          BY <1>0, <2>2, <3>0, <5>1
      <4> QED
        BY <4>1 DEF QueuedOnce
    <3>2. \A x \in bits' : x \div 8 < bytes'
      <4>1. \A x \in bits : x \div 8 \in Nat
        BY <1>0
      <4> QED
        BY <1>0, <2>3, <3>0, <4>1
    <3>3. ASSUME NEW x \in Elem PROVE x \in bits' <=> \E i \in DOMAIN list' : list'[i] = x
      <4>1. ASSUME x \in bits' PROVE \E i \in DOMAIN list' : list'[i] = x
        <5>1. PICK i \in DOMAIN list : list[i] = x
          BY <1>0, <3>0, <4>1
        <5>2. i # 1
          BY <2>2, <3>0, <4>1, <5>1
        <5>3. i - 1 \in DOMAIN list' /\ list'[i - 1] = x
          BY <2>2, <5>1, <5>2
        <5> QED
          BY <5>3
      <4>2. ASSUME NEW i \in DOMAIN list', list'[i] = x PROVE x \in bits'
        <5>1. i + 1 \in DOMAIN list /\ list[i + 1] = x /\ i + 1 # 1
          BY <2>2, <4>2
        <5>2. x # h
          BY <1>0, <2>2, <3>0, <5>1
        <5> QED
          BY <1>0, <3>0, <5>1, <5>2
      <4> QED
        BY <4>1, <4>2
    <3>4. BitsMatchList'
      BY <3>2, <3>3 DEF BitsMatchList, CheckBit
    <3> QED
      BY <3>1, <3>2, <3>4
  <2> QED
    BY <2>2, <2>3, <2>4 DEF ListInv, ListTypeOK
<1>3. CASE UNCHANGED listVars
  BY <1>3 DEF listVars, ListInv, ListTypeOK, BitsMatchList, QueuedOnce, CheckBit
<1>4. ASSUME NEW e \in Elem, InQueue(e), CheckBit(e) PROVE ListInv'
  BY <1>3, <1>4 DEF InQueue
<1> QED
  BY <1>1, <1>2, <1>3, <1>4 DEF ListNext

LEMMA QueueInvariant == ListSpec => []ListInv
BY ListStarts, ListStays, PTL DEF ListSpec

\* The work list is a queue without repetitions that agrees with its bitmap as
\* long as no bit has been written beyond it.
THEOREM WorkListIsExact == ListSpec => []ExactQueue
<1>1. ListInv => ExactQueue
  BY DEF ListInv, ExactQueue
<1> QED
  BY <1>1, QueueInvariant, PTL

-----------------------------------------------------------------------------
(* GetMergeTarget answers with the representative, for every number of nodes  *)
(* and every order of merges and calls.  This is what lets ConstraintGraph    *)
(* keep rep in place of the chains.                                           *)

\* Beside ChainsLeadToRep: the walk stays among the nodes that share the
\* representative asked for, and its path holds none that is one.
WalkInv ==
  /\ \A n \in Node : rep[rep[n]] = rep[n]
  /\ pc # "idle" => rep[did] = rep[sid]
  /\ pc \in {"compress", "answer"} => target[did] = did
  /\ pc # "idle" => \A n \in path : rep[n] = rep[sid] /\ rep[n] # n

ChainInv == ChainTypeOK /\ ChainsLeadToRep /\ WalkInv

LEMMA ChainStarts == ChainInit => ChainInv
BY NodeNumAssumption DEF ChainInit, ChainInv, ChainTypeOK, ChainsLeadToRep, WalkInv, Node

LEMMA ChainStays == ChainInv /\ [ChainNext]_chainVars => ChainInv'
<1> SUFFICES ASSUME ChainInv, [ChainNext]_chainVars PROVE ChainInv'
  OBVIOUS
<1> USE DEF ChainInv, ChainTypeOK, ChainsLeadToRep, WalkInv
<1>1. ASSUME NEW s \in Node, NEW d \in Node, SetMergeTarget(s, d)
      PROVE  ChainInv'
  <2>1. /\ pc = "idle" /\ rep[s] = s /\ rep[d] = d
        /\ target' = [target EXCEPT ![s] = d]
        /\ rep' = [n \in Node |-> IF rep[n] = s THEN d ELSE rep[n]]
        /\ UNCHANGED <<pc, sid, did, path>>
    BY <1>1 DEF SetMergeTarget
  <2>2. s # d
    BY <1>1, NodeNumAssumption DEF SetMergeTarget, Node
  <2>3. ASSUME NEW n \in Node
        PROVE  /\ rep'[n] = rep'[target'[n]] /\ (target'[n] = n <=> rep'[n] = n)
               /\ rep'[rep'[n]] = rep'[n]
    <3>1. CASE n = s
      BY <2>1, <2>2, <3>1
    <3>2. CASE n # s /\ rep[n] = s
      BY <2>1, <2>2, <3>2
    <3>3. CASE n # s /\ rep[n] # s
      BY <2>1, <2>2, <3>3
    <3> QED
      BY <3>1, <3>2, <3>3
  <2>4. ChainTypeOK'
    BY <2>1
  <2> QED
    BY <2>1, <2>3, <2>4
<1>2. ASSUME NEW n \in Node, Ask(n) PROVE ChainInv'
  BY <1>2 DEF Ask
<1>3. CASE Walk
  BY <1>3 DEF Walk
<1>4. CASE EndWalk
  BY <1>4 DEF EndWalk
<1>5. CASE Compress
  <2>1. PICK n \in path : target' = [target EXCEPT ![n] = did] /\ path' = path \ {n}
    BY <1>5 DEF Compress
  <2>2. /\ pc = "compress" /\ UNCHANGED <<rep, pc, sid, did>>
    BY <1>5 DEF Compress
  <2>3. n \in Node /\ rep[n] = rep[did] /\ rep[n] # n /\ rep[did] = did /\ n # did
    BY <2>1, <2>2
  <2> QED
    BY <2>1, <2>2, <2>3
<1>6. CASE EndCompress
  BY <1>6 DEF EndCompress
<1>7. CASE Return
  BY <1>7 DEF Return
<1>8. CASE UNCHANGED chainVars
  BY <1>8 DEF chainVars
<1> QED
  BY <1>1, <1>2, <1>3, <1>4, <1>5, <1>6, <1>7, <1>8 DEF ChainNext

\* Every call that returns answers with the representative of its node.
THEOREM AnswersAreRepresentatives == ChainSpec => []AnswersRepresentative
<1>1. ChainInv => AnswersRepresentative
  BY DEF ChainInv, ChainTypeOK, ChainsLeadToRep, WalkInv, AnswersRepresentative
<1> QED
  BY <1>1, ChainStarts, ChainStays, PTL DEF ChainSpec

\* Path compression never changes what a node answers, now or later.
THEOREM CompressionKeepsAnswers == ChainSpec => []ChainsLeadToRep
<1>1. ChainInv => ChainsLeadToRep
  BY DEF ChainInv
<1> QED
  BY <1>1, ChainStarts, ChainStays, PTL DEF ChainSpec

=============================================================================

----------------------------- MODULE MultiTask -----------------------------
(***************************************************************************)
(* The thread pool of include/common/MultiTask.h and                       *)
(* lib/common/MultiTask.cpp: a main thread deals data out to the queues of *)
(* TaskNum task threads, asks them all to exit and polls until they have.  *)
(*                                                                         *)
(* Neither m_Status nor m_DataQueue is guarded or atomic.  Each access to  *)
(* m_Status is a step of its own, and so is each access by which push and  *)
(* pop of one std::queue can meet: its two ends, the slot of the datum     *)
(* that is being pushed, and the table of blocks, which a push may move.   *)
(* A queue is the numbers of the data pushed and popped so far; what a     *)
(* datum is does not matter.  That a racing access may crash the program   *)
(* or that the compiler may let a loop never read again is covered by      *)
(* there being no fairness: any thread may stay where it is for ever.      *)
(***************************************************************************)
EXTENDS Naturals

CONSTANTS
  TaskNum,   \* m_TaskNum
  DataNum    \* the size of DataSet

ASSUME MultiTaskAssumption ==
  TaskNum \in Nat \ {0} /\ DataNum \in Nat

Task == 0 .. TaskNum - 1

VARIABLES
  index,    \* Index of Run: the data dealt out so far
  mainPc,   \* "create", "add", "grow", "push", "signal", "poll" or "returned"
  at,       \* the task the loop of the constructor or of Wait stands at
  exitNum,  \* ExitNum
  stores,   \* the stores AddData has yet to make: of "slot" and of "end"
  seen,     \* the front AddData has read to move the table of blocks
  taskPc,   \* "absent", "start", "check", "finish", "pop", "move", "drop", "call", "exit", "ended"
  status,   \* m_Status of each task
  front,    \* m_DataQueue of each task: the number of the data popped,
  end,      \*   the number of the data pushed,
  torn      \*   and whether moving the table has met a pop

mainVars == <<index, mainPc, at, exitNum, stores, seen>>
queueVars == <<front, end, torn>>
vars == <<mainVars, taskPc, status, queueVars>>

Init ==
  /\ index = 0 /\ mainPc = "create" /\ at = 0 /\ exitNum = 0 /\ stores = {} /\ seen = 0
  /\ taskPc = [t \in Task |-> "absent"]
  /\ status = [t \in Task |-> "INIT"]
  /\ front = [t \in Task |-> 0]
  /\ end = [t \in Task |-> 0]
  /\ torn = [t \in Task |-> FALSE]

-----------------------------------------------------------------------------
(* The main thread *)

\* The task of the datum that is being dealt, Index++ % m_TaskNum.
Owner == index % TaskNum

\* MultiTask::MultiTask, one Task::Task: the thread runs from here on.
Create ==
  /\ mainPc = "create"
  /\ taskPc' = [taskPc EXCEPT ![at] = "start"]
  /\ IF at + 1 < TaskNum
     THEN at' = at + 1 /\ UNCHANGED mainPc
     ELSE at' = 0 /\ mainPc' = "add"
  /\ UNCHANGED <<index, exitNum, stores, seen, status, queueVars>>

\* AddData: push finds room in the last block, or has to add a block and for
\* that may have to move the table of the blocks, whose start it reads now.
AddData ==
  /\ mainPc = "add" /\ index < DataNum
  /\ mainPc' \in {"push", "grow"}
  /\ stores' = {"slot", "end"}
  /\ seen' = front[Owner]
  /\ UNCHANGED <<index, at, exitNum, taskPc, status, queueVars>>

\* The table is written back.  If the task has popped since it was read, or
\* is about to, the front may now belong to another table than the end.
MoveTable ==
  /\ mainPc = "grow"
  /\ mainPc' = "push"
  /\ \/ UNCHANGED torn
     \/ /\ front[Owner] # seen \/ taskPc[Owner] \in {"move", "drop"}
        /\ torn' = [torn EXCEPT ![Owner] = TRUE]
  /\ UNCHANGED <<index, at, exitNum, stores, seen, taskPc, status, front, end>>

\* The datum and the new end are stored, in the order the build gives them.
StorePushed ==
  /\ mainPc = "push"
  /\ \E s \in stores :
       /\ stores' = stores \ {s}
       /\ end' = IF s = "end" THEN [end EXCEPT ![Owner] = @ + 1] ELSE end
  /\ UNCHANGED <<index, mainPc, at, exitNum, seen, taskPc, status, front, torn>>

\* AddData returns to the loop of Run.
EndAddData ==
  /\ mainPc = "push" /\ stores = {}
  /\ mainPc' = "add"
  /\ index' = index + 1
  /\ UNCHANGED <<at, exitNum, stores, seen, taskPc, status, queueVars>>

\* Seeded fault: the tasks are asked to exit while data are left to deal.
StartSignalEarly ==
  /\ mainPc = "add"
  /\ mainPc' = "signal"
  /\ UNCHANGED <<index, at, exitNum, stores, seen, taskPc, status, queueVars>>

StartSignal ==
  /\ mainPc = "add" /\ index = DataNum
  /\ mainPc' = "signal"
  /\ UNCHANGED <<index, at, exitNum, stores, seen, taskPc, status, queueVars>>

\* The first loop of Wait.
Signal ==
  /\ mainPc = "signal"
  /\ status' = [status EXCEPT ![at] = "READY_EXIT"]
  /\ IF at + 1 < TaskNum
     THEN at' = at + 1 /\ UNCHANGED mainPc
     ELSE at' = 0 /\ mainPc' = "poll"
  /\ UNCHANGED <<index, exitNum, stores, seen, taskPc, queueVars>>

\* Seeded fault: ExitNum is not reset, so a task is counted again and again.
PollNoReset ==
  /\ mainPc = "poll"
  /\ LET num == exitNum + (IF status[at] = "EXITED" THEN 1 ELSE 0)
     IN  IF at + 1 < TaskNum
         THEN at' = at + 1 /\ exitNum' = num /\ UNCHANGED mainPc
         ELSE /\ at' = 0
              /\ exitNum' = num
              /\ mainPc' = IF num >= TaskNum THEN "returned" ELSE "poll"
  /\ UNCHANGED <<index, stores, seen, taskPc, status, queueVars>>

\* The second loop of Wait; Run returns when one round counted every task.
Poll ==
  /\ mainPc = "poll"
  /\ LET num == exitNum + (IF status[at] = "EXITED" THEN 1 ELSE 0)
     IN  IF at + 1 < TaskNum
         THEN at' = at + 1 /\ exitNum' = num /\ UNCHANGED mainPc
         ELSE /\ at' = 0
              /\ exitNum' = 0
              /\ mainPc' = IF num = TaskNum THEN "returned" ELSE "poll"
  /\ UNCHANGED <<index, stores, seen, taskPc, status, queueVars>>

-----------------------------------------------------------------------------
(* A task thread: Task::Run *)

Goto(t, from, to) == taskPc[t] = from /\ taskPc' = [taskPc EXCEPT ![t] = to]

\* What empty() can answer: a torn queue may answer either.
EmptyAnswers(t) == IF torn[t] THEN BOOLEAN ELSE {front[t] = end[t]}

\* front() can read a slot AddData has not written yet: the end moved first.
Unwritten(t) ==
  "slot" \in stores /\ "end" \notin stores /\ t = Owner /\ front[t] + 1 = end[t]

Start(t) ==
  /\ Goto(t, "start", "check")
  /\ status' = [status EXCEPT ![t] = "RUNNING"]
  /\ UNCHANGED <<mainVars, queueVars>>

\* m_Status != READY_EXIT, the left operand of the loop condition.
CheckStatus(t) ==
  /\ Goto(t, "check", IF status[t] = "READY_EXIT" THEN "finish" ELSE "pop")
  /\ UNCHANGED <<mainVars, status, queueVars>>

\* Seeded fault: the loop is left when the queue is empty.
CheckFinishEmpty(t) ==
  /\ \E empty \in EmptyAnswers(t) : Goto(t, "finish", IF empty THEN "exit" ELSE "pop")
  /\ UNCHANGED <<mainVars, status, queueVars>>

\* The right operand, !Finish(): Finish returns that the queue is not empty.
CheckFinish(t) ==
  /\ \E empty \in EmptyAnswers(t) : Goto(t, "finish", IF empty THEN "pop" ELSE "exit")
  /\ UNCHANGED <<mainVars, status, queueVars>>

\* PopData as far as the read of the first datum.  A slot that is not
\* written, or any slot of a torn queue, can be read as NULL.
Pop(t) ==
  /\ \E empty \in EmptyAnswers(t) :
       IF empty THEN Goto(t, "pop", "check")
       ELSE \/ Goto(t, "pop", "move")
            \/ (torn[t] \/ Unwritten(t)) /\ Goto(t, "pop", "drop")
  /\ UNCHANGED <<mainVars, status, queueVars>>

\* The rest of PopData: the datum is popped and returned.  After NULL the
\* inner loop of Run ends.
MoveFront(t) ==
  /\ Goto(t, "move", "call") \/ Goto(t, "drop", "check")
  /\ front' = IF torn[t] THEN front ELSE [front EXCEPT ![t] = @ + 1]
  /\ UNCHANGED <<mainVars, status, end, torn>>

\* Func(Data) has returned.
CallFunc(t) ==
  /\ Goto(t, "call", "pop")
  /\ UNCHANGED <<mainVars, status, queueVars>>

Exit(t) ==
  /\ Goto(t, "exit", "ended")
  /\ status' = [status EXCEPT ![t] = "EXITED"]
  /\ UNCHANGED <<mainVars, queueVars>>

TaskStep(t) ==
  \/ Start(t) \/ CheckStatus(t) \/ CheckFinish(t) \/ Pop(t) \/ MoveFront(t)
  \/ CallFunc(t) \/ Exit(t)

Next ==
  \/ Create \/ AddData \/ MoveTable \/ StorePushed \/ EndAddData \/ StartSignal
  \/ Signal \/ Poll
  \/ \E t \in Task : TaskStep(t)

Spec == Init /\ [][Next]_vars

-----------------------------------------------------------------------------
(* Properties *)

TypeOK ==
  /\ index \in 0 .. DataNum
  /\ mainPc \in {"create", "add", "grow", "push", "signal", "poll", "returned"}
  /\ at \in Task /\ exitNum \in Task
  /\ stores \in SUBSET {"slot", "end"} /\ seen \in Nat
  /\ taskPc \in [Task -> {"absent", "start", "check", "finish", "pop", "move", "drop",
                          "call", "exit", "ended"}]
  /\ status \in [Task -> {"INIT", "RUNNING", "READY_EXIT", "EXITED"}]
  /\ front \in [Task -> Nat] /\ end \in [Task -> Nat] /\ torn \in [Task -> BOOLEAN]

\* A task leaves its loop only once all data are dealt and Wait has asked it
\* to: no datum is queued for a task that has left.
LeavesOnlyWhenAsked ==
  \A t \in Task : taskPc[t] \in {"exit", "ended"} =>
    index = DataNum /\ mainPc \notin {"create", "add", "grow", "push"}

\* Run returns only when every thread has ended its loop for good.
ReturnsAfterAllExit ==
  mainPc = "returned" => \A t \in Task : taskPc[t] = "ended"

\* Finish answers that the queue is not empty, so a task that has worked off
\* its data goes on for ever, and each task Run stops waiting for has left a
\* datum in its queue, unless the race for the queue has torn it.
LeavesDataBehind ==
  \A t \in Task : taskPc[t] \in {"exit", "ended"} => torn[t] \/ front[t] < end[t]

=============================================================================

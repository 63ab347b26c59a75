--------------------------- MODULE ThreadPrimitives ---------------------------
(***************************************************************************)
(* Threads that use a wait group, or a blocking queue, over the project's  *)
(* own Mutex and CondVar.                                                  *)
(***************************************************************************)
EXTENDS ThreadWaitGroup, BlockingQueue

VARIABLE primitive  \* what the threads use

vars == <<futexVars, groupVars, queueVars, primitive>>

Init ==
  /\ primitive \in {"wait group", "queue"}
  /\ FutexInit
  /\ GroupInit
  /\ QueueInit

Step(t) ==
  \/ FutexStep(t) /\ UNCHANGED <<groupVars, queueVars, primitive>>
  \/ GroupStep(t) /\ UNCHANGED <<queueVars, primitive>>
  \/ QueueStep(t) /\ UNCHANGED <<groupVars, primitive>>

Call(t) ==
  \/ primitive = "wait group" /\ GroupCall(t) /\ UNCHANGED <<queueVars, primitive>>
  \/ primitive = "queue" /\ QueueCall(t) /\ UNCHANGED <<groupVars, primitive>>

Wakeup(t) == SpuriousWakeup(t) /\ UNCHANGED <<groupVars, queueVars, primitive>>

Next == \E t \in Threads : Step(t) \/ Call(t) \/ Wakeup(t)

Spec == Init /\ [][Next]_vars

\* The threads are scheduled, and a thread that owes a Done calls it.
LiveSpec == Spec /\ \A t \in Threads : WF_vars(Step(t))

-----------------------------------------------------------------------------
(* Properties.                                                             *)

\* The mutex has one owner, no sleeper is forgotten, by the mutex, a Done, a Push or a
\* Close, and the queue is first-in first-out (with the type invariant).
SyncInv ==
  /\ FutexTypeOK /\ GroupTypeOK /\ QueueTypeOK
  /\ MutualExclusion /\ SleepersCovered
  /\ WaitersTold
  /\ FirstInFirstOut /\ PoppersTold

\* No thread is inside a call, but those in Pop of an open queue that is empty.
Settled ==
  \A t \in Threads : op[t] # "none" => op[t] = "pop" /\ buffer_ = << >> /\ ~is_closed_

\* Every Wait returns once the owed calls of Done are made, every Pop once there is a
\* value for it or the queue is closed, and the other calls return.
CallsReturn == []<>Settled
================================================================================

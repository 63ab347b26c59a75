----------------------------- MODULE BlockingQueue -----------------------------
(***************************************************************************)
(* detail/queue.hpp, UnboundedBlockingQueue, over Mutex and CondVar: a     *)
(* call, and what it does while it holds the mutex.  ThreadPool takes its  *)
(* critical sections as steps and the condition variable as given; here    *)
(* they are the project's own.                                             *)
(***************************************************************************)
EXTENDS FutexSync, Sequences

CONSTANTS
  MaxPushes,  \* bound: calls of Push in all; the n-th pushes the value n
  MaxPops     \* bound: calls of Pop in all

ASSUME QueueAssumption == MaxPushes \in Nat /\ MaxPops \in Nat

VARIABLES
  buffer_,     \* UnboundedBlockingQueue::buffer_
  waiting_,    \* UnboundedBlockingQueue::waiting_
  is_closed_,  \* UnboundedBlockingQueue::is_closed_
  pushed,      \* the number of values pushed so far
  popped,      \* the values popped so far, in this order
  pops         \* calls of Pop so far

queueVars == <<buffer_, waiting_, is_closed_, pushed, popped, pops>>

QueueInit ==
  /\ buffer_ = << >>
  /\ waiting_ = 0
  /\ is_closed_ = FALSE
  /\ pushed = 0
  /\ popped = << >>
  /\ pops = 0

\* Calls of Push, Pop and Close: Close is called once.
Push(t) ==
  /\ Calls(t, "push", "value")
  /\ pushed + Cardinality({s \in Threads : op[s] = "push"}) < MaxPushes
  /\ UNCHANGED queueVars

Pop(t) ==
  /\ Calls(t, "pop", "enter")
  /\ pops < MaxPops
  /\ pops' = pops + 1
  /\ UNCHANGED <<buffer_, waiting_, is_closed_, pushed, popped>>

Close(t) ==
  /\ Calls(t, "close", "close")
  /\ ~is_closed_ /\ \A s \in Threads : op[s] # "close"
  /\ UNCHANGED queueVars

-----------------------------------------------------------------------------
(* Their critical sections.                                                *)

\* Mutant of PushValue: the first value only is notified of.
PushNotifiesOnce(t) ==
  /\ op[t] = "push"
  /\ Section(t, "value", IF waiting_ > 0 /\ buffer_ = << >> THEN "notify_one" ELSE "unlock")
  /\ pushed' = pushed + 1
  /\ buffer_' = Append(buffer_, pushed')
  /\ UNCHANGED <<waiting_, is_closed_, popped, pops>>

PushValue(t) ==
  /\ op[t] = "push"
  /\ Section(t, "value", IF waiting_ > 0 THEN "notify_one" ELSE "unlock")
  /\ pushed' = pushed + 1
  /\ buffer_' = Append(buffer_, pushed')
  /\ UNCHANGED <<waiting_, is_closed_, popped, pops>>

PopEnter(t) ==
  /\ op[t] = "pop"
  /\ Section(t, "enter", "test")
  /\ waiting_' = waiting_ + 1
  /\ UNCHANGED <<buffer_, is_closed_, pushed, popped, pops>>

\* The loop of Pop: it waits, returns the front, or nothing.
PopTest(t) ==
  /\ op[t] = "pop"
  /\ \/ /\ ~is_closed_ /\ buffer_ = << >>
        /\ Section(t, "test", "cv_wait")
        /\ UNCHANGED queueVars
     \/ /\ buffer_ # << >>
        /\ Section(t, "test", "unlock")
        /\ waiting_' = waiting_ - 1
        /\ buffer_' = Tail(buffer_)
        /\ popped' = Append(popped, Head(buffer_))
        /\ UNCHANGED <<is_closed_, pushed, pops>>
     \/ /\ is_closed_ /\ buffer_ = << >>
        /\ Section(t, "test", "unlock")
        /\ waiting_' = waiting_ - 1
        /\ UNCHANGED <<buffer_, is_closed_, pushed, popped, pops>>

CloseQueue(t) ==
  /\ op[t] = "close"
  /\ Section(t, "close", IF waiting_ > 0 THEN "notify_all" ELSE "unlock")
  /\ is_closed_' = TRUE
  /\ UNCHANGED <<buffer_, waiting_, pushed, popped, pops>>

QueueStep(t) == PushValue(t) \/ PopEnter(t) \/ PopTest(t) \/ CloseQueue(t)

QueueCall(t) == Push(t) \/ Pop(t) \/ Close(t)

-----------------------------------------------------------------------------
(* Properties.                                                             *)

QueueTypeOK ==
  /\ buffer_ \in Seq(1 .. MaxPushes)
  /\ waiting_ \in Nat
  /\ is_closed_ \in BOOLEAN
  /\ pushed \in 0 .. MaxPushes
  /\ popped \in Seq(1 .. MaxPushes)
  /\ pops \in 0 .. MaxPops

\* Values leave the queue in the order they came in, each of them once.
FirstInFirstOut == popped \o buffer_ = [n \in 1 .. pushed |-> n]

\* A thread that t's notification has reached, or will: it tests the queue again.
Told(t) ==
  /\ op[t] = "pop"
  /\ \/ pc[t] \in {"cv_loop", "cv_futex"} /\ atom_ > order[t]
     \/ pc[t] \in {"enter", "test"} \/ (pc[t] \in {"unlock", "unlock_wake"} /\ ret[t] = "cv_loop"
                                        /\ atom_ > order[t])
     \/ pc[t] \in {"lock", "lock_loop", "lock_wait", "lock_sleep"}

\* While a thread sleeps in Pop the queue is open, or Close is about to wake it, and for
\* every value in the queue a thread is on its way to it, or is about to be woken.
PoppersTold ==
  (\E t \in In("cv_sleep") : op[t] = "pop") =>
    /\ is_closed_ => In("notify_all") \cup In("wake_all") # {}
    /\ Len(buffer_) <= Cardinality({t \in Threads : Told(t)})
                       + Cardinality(In("notify_one") \cup In("wake_one"))
================================================================================

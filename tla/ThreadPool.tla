------------------------------ MODULE ThreadPool ------------------------------
(***************************************************************************)
(* runtime/multi_thread/v1: a pool of threads over one blocking queue      *)
(* (detail/queue.hpp).  Stop closes the queue and joins the threads, which *)
(* run what is in the queue before they exit.                              *)
(*                                                                         *)
(* The queue is a list under a mutex with a condition variable: each       *)
(* critical section is a step, and waiting on the condition variable ends  *)
(* one.  Mutex and condition variable are the library's; a wait may end    *)
(* without a notification.                                                 *)
(***************************************************************************)
EXTENDS Integers, Sequences, FiniteSets

CONSTANTS
  Workers,
  Tasks,     \* each is submitted once, from outside or by a task that runs
  NULL

\* A pool without threads runs nothing.
ASSUME PoolAssumption == IsFiniteSet(Workers) /\ Workers # {} /\ NULL \notin Tasks

VARIABLES
  buffer_,      \* UnboundedBlockingQueue::buffer_
  waiting_,     \* UnboundedBlockingQueue::waiting_
  is_closed_,   \* UnboundedBlockingQueue::is_closed_
  worker,       \* worker[w]: where the thread is in Work and Pop
  task,         \* task[w]: the task w runs
  main,         \* where the thread that starts and stops the pool is
  unsubmitted,  \* the tasks no one has submitted
  late          \* the tasks submitted from outside to a closed queue

poolVars == <<buffer_, waiting_, is_closed_, worker, task, main, unsubmitted, late>>

PoolInit ==
  /\ buffer_ = << >>
  /\ waiting_ = 0
  /\ is_closed_ = FALSE
  /\ worker = [w \in Workers |-> "new"]
  /\ task = [w \in Workers |-> NULL]
  /\ main = "start"
  /\ unsubmitted = Tasks
  /\ late = {}

In(label) == {w \in Workers : worker[w] = label}

Becomes(w, label) == [worker EXCEPT ![w] = label]

-----------------------------------------------------------------------------
(* UnboundedBlockingQueue::Push                                            *)

\* Mutant of NotifyOne: no notification when the queue was not empty.
NotifyOneIfEmpty(f) ==
  IF waiting_ > 0 /\ In("wait") # {} /\ buffer_ = << >>
    THEN \E v \in In("wait") : worker' = [f EXCEPT ![v] = "woken"]
    ELSE worker' = f

\* notify_one if waiting_ > 0: a thread that waits, if any does, will go on.
\* f is what the step does to the workers besides.
NotifyOne(f) ==
  IF waiting_ > 0 /\ In("wait") # {}
    THEN \E v \in In("wait") : worker' = [f EXCEPT ![v] = "woken"]
    ELSE worker' = f

Push(t, f) ==
  /\ buffer_' = Append(buffer_, t)
  /\ NotifyOne(f)
  /\ UNCHANGED <<waiting_, is_closed_>>

-----------------------------------------------------------------------------
(* UnboundedBlockingQueue::Pop, in Work                                    *)

\* A thread in Pop, one of the n that have announced themselves, with the mutex.
PopSection(w, n) ==
  \/ /\ ~is_closed_ /\ buffer_ = << >>
     /\ waiting_' = n
     /\ worker' = Becomes(w, "wait")
     /\ UNCHANGED <<buffer_, task>>
  \/ /\ buffer_ # << >>
     /\ waiting_' = n - 1
     /\ buffer_' = Tail(buffer_)
     /\ task' = [task EXCEPT ![w] = Head(buffer_)]
     /\ worker' = Becomes(w, "run")
  \/ /\ is_closed_ /\ buffer_ = << >>
     /\ waiting_' = n - 1
     /\ worker' = Becomes(w, "exited")
     /\ UNCHANGED <<buffer_, task>>

Pop(w) ==
  /\ worker[w] = "pop"
  /\ PopSection(w, waiting_ + 1)
  /\ UNCHANGED <<is_closed_, main, unsubmitted, late>>

\* The thread has the mutex again and tests the condition again.
PopAgain(w) ==
  /\ worker[w] = "woken"
  /\ PopSection(w, waiting_)
  /\ UNCHANGED <<is_closed_, main, unsubmitted, late>>

SpuriousWakeup(w) ==
  /\ worker[w] = "wait"
  /\ worker' = Becomes(w, "woken")
  /\ UNCHANGED <<buffer_, waiting_, is_closed_, task, main, unsubmitted, late>>

-----------------------------------------------------------------------------
(* ThreadPool                                                              *)

\* Submit by a task that runs on w.
SubmitInside(w, t) ==
  /\ worker[w] = "run"
  /\ t \in unsubmitted
  /\ unsubmitted' = unsubmitted \ {t}
  /\ Push(t, worker)
  /\ UNCHANGED <<task, main, late>>

\* Submit by another thread, at any time.
SubmitOutside(t) ==
  /\ t \in unsubmitted
  /\ unsubmitted' = unsubmitted \ {t}
  /\ late' = IF is_closed_ THEN late \cup {t} ELSE late
  /\ Push(t, worker)
  /\ UNCHANGED <<task, main>>

Finish(w) ==
  /\ worker[w] = "run"
  /\ worker' = Becomes(w, "pop")
  /\ task' = [task EXCEPT ![w] = NULL]
  /\ UNCHANGED <<buffer_, waiting_, is_closed_, main, unsubmitted, late>>

\* Start creates the threads one by one.
Start(w) ==
  /\ main = "start"
  /\ worker[w] = "new"
  /\ worker' = Becomes(w, "pop")
  /\ main' = IF In("new") = {w} THEN "started" ELSE "start"
  /\ UNCHANGED <<buffer_, waiting_, is_closed_, task, unsubmitted, late>>

\* Mutant of NotifyAll: Close wakes one thread.
NotifyAllOne == NotifyOne(worker)

NotifyAll ==
  worker' = IF waiting_ > 0
              THEN [w \in Workers |-> IF worker[w] = "wait" THEN "woken" ELSE worker[w]]
              ELSE worker

\* Stop: Close ...
Stop ==
  /\ main = "started"
  /\ is_closed_' = TRUE
  /\ NotifyAll
  /\ main' = "join"
  /\ UNCHANGED <<buffer_, waiting_, task, unsubmitted, late>>

\* ... and join.
StopReturn ==
  /\ main = "join"
  /\ In("exited") = Workers
  /\ main' = "stopped"
  /\ UNCHANGED <<buffer_, waiting_, is_closed_, worker, task, unsubmitted, late>>

-----------------------------------------------------------------------------
Work(w) == Pop(w) \/ PopAgain(w) \/ Finish(w)

Terminated == main = "stopped" /\ unsubmitted = {} /\ UNCHANGED poolVars

Next ==
  \/ Stop \/ StopReturn
  \/ \E t \in Tasks : SubmitOutside(t)
  \/ \E w \in Workers :
       Start(w) \/ Work(w) \/ SpuriousWakeup(w) \/ \E t \in Tasks : SubmitInside(w, t)
  \/ Terminated

Spec == PoolInit /\ [][Next]_poolVars

-----------------------------------------------------------------------------
\* "set", "timer_join" and "finished" are used by TimedRuntime.
Labels == {"new", "pop", "wait", "woken", "run", "set", "exited"}
MainLabels == {"start", "started", "join", "stopped", "timer_join", "finished"}

InBuffer == {buffer_[i] : i \in DOMAIN buffer_}

TypeOK ==
  /\ buffer_ \in Seq(Tasks)
  /\ waiting_ \in Nat
  /\ is_closed_ \in BOOLEAN
  /\ worker \in [Workers -> Labels]
  /\ task \in [Workers -> Tasks \cup {NULL}]
  /\ main \in MainLabels
  /\ unsubmitted \subseteq Tasks
  /\ late \subseteq Tasks

\* waiting_ counts the threads in Pop, so that Push and Close never omit a
\* notification that a thread needs.
WaitingCounts == waiting_ = Cardinality(In("wait")) + Cardinality(In("woken"))

\* While a thread sleeps, at least as many have been woken as there are tasks:
\* no task waits for a notification that has been lost.
EnoughWoken ==
  In("wait") # {} => ~is_closed_ /\ Len(buffer_) <= Cardinality(In("woken"))

\* Stop drains the queue: as long as it holds a task that was submitted before
\* Close, or by a task, a thread is left to run it.
StopDrains == InBuffer \subseteq late \/ In("exited") # Workers

\* Threads exit only when the queue is closed.
ExitedClosed == In("exited") # {} => is_closed_

\* The queue and the threads of the pool: no notification and no task is lost (with
\* the type invariant).  It is inductive.
PoolInv == TypeOK /\ WaitingCounts /\ EnoughWoken /\ ExitedClosed /\ StopDrains
=============================================================================

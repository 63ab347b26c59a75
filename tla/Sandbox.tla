------------------------------- MODULE Sandbox -------------------------------
(***************************************************************************)
(* runtime/sandbox: one thread runs the tasks of a queue by hand, and      *)
(* moves a virtual clock, which puts the timers that are due into the      *)
(* queue.  A running task may submit tasks and set timers.                 *)
(*                                                                         *)
(* The timers are in a LeftistHeap.  Timers are also the tasks that are    *)
(* submitted without a delay: those have the deadline -1.                  *)
(***************************************************************************)
EXTENDS LeftistHeap

CONSTANTS
  Delays,     \* not negative
  Limits,     \* the arguments of RunAtMostTasks
  SizeMax,    \* the greatest size_t
  MaxTime     \* bound: the clock and the deadlines

\* A queue is shorter than SizeMax, the limit of RunTasks, -1.
ASSUME SandboxAssumption ==
  /\ MaxTime \in Nat /\ Delays \subseteq Nat /\ Deadlines = {-1} \cup (0 .. MaxTime)
  /\ SizeMax \in Nat /\ Limits \subseteq 0 .. SizeMax
  /\ IsFiniteSet(Timers) /\ Cardinality(Timers) < SizeMax

VARIABLES
  task_queue_,   \* ManualLoop::task_queue_
  now_,          \* Clock::now_
  mode,          \* where the thread is in a call, or "idle"
  ready,         \* the local of that name in PopReadyTimers
  limit,         \* the argument of RunAtMostTasks
  count,         \* its local; at "return", what is returned
  completed,     \* the tasks that this call has run to their end
  unused         \* the tasks no one has submitted or set

calls == <<limit, count, completed>>
loopVars == <<task_queue_, now_, mode, ready, calls, unused>>
vars == <<heapVars, loopVars>>

Size(n) == n % (SizeMax + 1)

Init ==
  /\ HeapInit
  /\ \A t \in Timers : nodes[t].deadline = -1
  /\ task_queue_ = << >>
  /\ now_ = 0
  /\ mode = "idle"
  /\ ready = << >>
  /\ limit = 0
  /\ count = 0
  /\ completed = 0
  /\ unused = Timers

Calm == mode \in {"idle", "run"}

-----------------------------------------------------------------------------
(* Submit and Set, by the thread or by the task it runs                    *)

Submit(t) ==
  /\ Calm
  /\ t \in unused
  /\ unused' = unused \ {t}
  /\ task_queue_' = Append(task_queue_, t)
  /\ UNCHANGED <<heapVars, now_, mode, ready, calls>>

Set(t, delay) ==
  /\ Calm
  /\ t \in unused
  /\ now_ + delay <= MaxTime
  /\ unused' = unused \ {t}
  /\ Push(t, delay + now_)
  /\ UNCHANGED <<task_queue_, now_, mode, ready, calls>>

-----------------------------------------------------------------------------
(* ManualLoop::RunAtMostTasks; RunTasks is RunAtMostTasks(-1)              *)

RunAtMostTasks(n) ==
  /\ mode = "idle"
  /\ mode' = "loop"
  /\ limit' = n
  /\ count' = 0
  /\ completed' = 0
  /\ UNCHANGED <<heapVars, task_queue_, now_, ready, unused>>

\* Mutant of LoopTest: the loop counts only tasks.
LoopTestFirst ==
  IF task_queue_ # << >> /\ count < limit
    THEN mode' = "run" /\ count' = Size(count + 1)
    ELSE mode' = "return" /\ count' = Size(count - 1)

\* count++ < limit && !IsEmpty(); after the loop, count - 1.
LoopTest ==
  IF count < limit /\ task_queue_ # << >>
    THEN mode' = "run" /\ count' = Size(count + 1)
    ELSE mode' = "return" /\ count' = Size(Size(count + 1) - 1)

Loop ==
  /\ mode = "loop"
  /\ LoopTest
  /\ task_queue_' = IF mode' = "run" THEN Tail(task_queue_) ELSE task_queue_
  /\ UNCHANGED <<heapVars, now_, ready, limit, completed, unused>>

Finish ==
  /\ mode = "run"
  /\ mode' = "loop"
  /\ completed' = completed + 1
  /\ UNCHANGED <<heapVars, task_queue_, now_, ready, limit, count, unused>>

Return ==
  /\ mode = "return"
  /\ mode' = "idle"
  /\ UNCHANGED <<heapVars, task_queue_, now_, ready, calls, unused>>

-----------------------------------------------------------------------------
(* Runtime::AdvanceClockBy and AdvanceClockToNextDeadline                  *)

\* The clock moves; MoveReadyToQueue follows.
Advance(time) ==
  /\ mode = "idle"
  /\ now_' = time
  /\ mode' = "ready"
  /\ UNCHANGED <<heapVars, task_queue_, ready, calls, unused>>

AdvanceClockBy(delta) == now_ + delta <= MaxTime /\ Advance(now_ + delta)

\* Without timers the clock stays.
AdvanceClockToNextDeadline == Advance(IF top_ = NULL THEN now_ ELSE nodes[top_].deadline)

\* Mutant of TopIsReady: a timer that is due now is not ready yet.
TopIsOverdue == top_ # NULL /\ nodes[top_].deadline < now_

TopIsReady == top_ # NULL /\ nodes[top_].deadline <= now_

\* The loop of PopReadyTimers.
PopReady ==
  /\ mode = "ready"
  /\ TopIsReady
  /\ Pop
  /\ UNCHANGED loopVars

\* The loop of MoveReadyToQueue.
MoveReadyToQueue ==
  /\ mode = "ready"
  /\ ~ TopIsReady
  /\ task_queue_' = task_queue_ \o ready
  /\ ready' = << >>
  /\ mode' = "idle"
  /\ UNCHANGED <<heapVars, now_, calls, unused>>

-----------------------------------------------------------------------------
(* Merge, in Push or Pop: the thread does nothing else meanwhile           *)

Merging ==
  /\ call # "none"
  /\ \/ (MergeCalls \/ MergeReturns \/ PushReturns) /\ UNCHANGED loopVars
     \/ /\ PopReturns
        /\ ready' = Append(ready, last)
        /\ UNCHANGED <<task_queue_, now_, mode, calls, unused>>

-----------------------------------------------------------------------------
Next ==
  \/ /\ call = "none"
     /\ \/ \E t \in Timers : Submit(t) \/ \E d \in Delays : Set(t, d)
        \/ \E n \in Limits : RunAtMostTasks(n)
        \/ Loop \/ Finish \/ Return
        \/ \E d \in Delays : AdvanceClockBy(d)
        \/ AdvanceClockToNextDeadline
        \/ PopReady \/ MoveReadyToQueue
  \/ Merging

Spec == Init /\ [][Next]_vars

-----------------------------------------------------------------------------
LoopTypeOK ==
  /\ task_queue_ \in Seq(Timers)
  /\ ready \in Seq(Timers)
  /\ now_ \in 0 .. MaxTime
  /\ mode \in {"idle", "loop", "run", "return", "ready"}
  /\ count \in 0 .. SizeMax

\* "Returns number of completed tasks", at most as many as were asked for, and
\* fewer only when the queue is empty; RunTasks leaves it empty.
CountIsRight ==
  mode = "return" =>
    /\ count = completed
    /\ count <= limit
    /\ count < limit => task_queue_ = << >>
    /\ limit = SizeMax => task_queue_ = << >>

\* No timer in the heap has missed its deadline, so that the assertion of AdvanceTo,
\* future >= now_, holds whenever it is called; and when the clock has moved, every
\* timer that is due by then is in the queue.
NotOverdue ==
  [][mode' # "ready" =>
       \A t \in InHeap' : /\ now_' <= nodes'[t].deadline
                          /\ mode = "ready" => now_' # nodes'[t].deadline]_vars

\* Timers run in the order of their deadlines, whatever calls have put them in
\* the queue, and none before its deadline.
DeadlineOrder ==
  LET due == [i \in DOMAIN task_queue_ |-> nodes[task_queue_[i]].deadline]
  IN /\ \A i, j \in DOMAIN due : i < j /\ due[j] # -1 => due[i] <= due[j]
     /\ \A i \in DOMAIN due : due[i] <= now_

\* Every call returns the number it must, and tasks are queued in the order in which
\* they are due (with the type invariant).
ManualLoopInv == LoopTypeOK /\ CountIsRight /\ DeadlineOrder
=============================================================================

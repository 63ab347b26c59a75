------------------------------- MODULE RunLoop -------------------------------
(***************************************************************************)
(* runtime/run_loop: one thread runs the tasks and the timers that other   *)
(* threads, or tasks it runs, submit and set, until another thread stops   *)
(* it.  The queue of tasks is the blocking one (detail/queue.hpp), the     *)
(* timers are polled between tasks (detail/timer_queue.hpp).               *)
(*                                                                         *)
(* The critical sections of the queues are steps; mutexes and condition    *)
(* variables are the library's.                                            *)
(***************************************************************************)
EXTENDS Integers, Sequences

CONSTANTS
  Tasks,      \* tasks and timers: each is submitted or set once
  Durations,
  LastTime,   \* bound: the clock stops here, and deadlines are not later
  NoTask

ASSUME RunLoopAssumption == Durations \subseteq Nat /\ LastTime \in Nat /\ NoTask \notin Tasks

VARIABLES
  buffer_,      \* tasks_.buffer_
  waiting_,     \* tasks_.waiting_
  tasks_closed, \* tasks_.is_closed_
  timers,       \* timers_.buffer_: [task, deadline]
  is_closed_,   \* Runtime::is_closed_
  now,          \* Clock::now()
  setting,      \* the calls of Set between the two steps: [task, deadline]
  loop,         \* where the thread is in Run and GetTask
  task,         \* the task it runs, or NoTask
  deadline,     \* the local of that name in GetTask
  stop,         \* where the thread that calls Stop is
  unsent,       \* the tasks no one has submitted or set
  late          \* the tasks submitted from outside to the closed queue

runLoopVars == <<buffer_, waiting_, tasks_closed, timers, is_closed_, now, setting, loop, task,
                 deadline, stop, unsent, late>>

RunLoopInit ==
  /\ buffer_ = << >>
  /\ waiting_ = 0
  /\ tasks_closed = FALSE
  /\ timers = {}
  /\ is_closed_ = FALSE
  /\ now = 0
  /\ setting = {}
  /\ loop = "get"
  /\ task = NoTask
  /\ deadline = 0
  /\ stop = "none"
  /\ unsent = Tasks
  /\ late = {}

Tick ==
  /\ now < LastTime
  /\ now' = now + 1
  /\ UNCHANGED <<buffer_, waiting_, tasks_closed, timers, is_closed_, setting, loop, task, deadline,
                 stop, unsent, late>>

-----------------------------------------------------------------------------
(* Submit and Set, by the running task (inside) or by another thread       *)

Notified == IF waiting_ > 0 /\ loop = "wait" THEN "woken" ELSE loop

\* Mutant of SubmitTask: the loop is not notified.
SubmitSilently(t, inside) ==
  /\ inside => loop = "run"
  /\ t \in unsent
  /\ unsent' = unsent \ {t}
  /\ buffer_' = Append(buffer_, t)
  /\ late' = IF tasks_closed /\ ~inside THEN late \cup {t} ELSE late
  /\ UNCHANGED <<waiting_, tasks_closed, timers, is_closed_, now, setting, loop, task,
                 deadline, stop>>

SubmitTask(t, inside) ==
  /\ inside => loop = "run"
  /\ t \in unsent
  /\ unsent' = unsent \ {t}
  /\ buffer_' = Append(buffer_, t)
  /\ loop' = Notified
  /\ late' = IF tasks_closed /\ ~inside THEN late \cup {t} ELSE late
  /\ UNCHANGED <<waiting_, tasks_closed, timers, is_closed_, now, setting, task, deadline, stop>>

Timer(t, delay) == [task |-> t, deadline |-> now + delay]

\* The running task reads the clock and pushes; no one else runs in its thread.
SetInside(t, delay) ==
  /\ loop = "run"
  /\ t \in unsent /\ now + delay <= LastTime
  /\ unsent' = unsent \ {t}
  /\ timers' = timers \cup {Timer(t, delay)}
  /\ UNCHANGED <<buffer_, waiting_, tasks_closed, is_closed_, now, setting, loop, task, deadline,
                 stop, late>>

SetOutside(t, delay) ==
  /\ t \in unsent /\ now + delay <= LastTime
  /\ unsent' = unsent \ {t}
  /\ setting' = setting \cup {Timer(t, delay)}
  /\ UNCHANGED <<buffer_, waiting_, tasks_closed, timers, is_closed_, now, loop, task, deadline,
                 stop, late>>

PushTimer(r) ==
  /\ r \in setting
  /\ setting' = setting \ {r}
  /\ timers' = timers \cup {r}
  /\ UNCHANGED <<buffer_, waiting_, tasks_closed, is_closed_, now, loop, task, deadline, stop,
                 unsent, late>>

-----------------------------------------------------------------------------
(* Runtime::Run and GetTask                                                *)

Goes(label) ==
  /\ loop' = label
  /\ UNCHANGED <<tasks_closed, is_closed_, now, setting, stop, unsent, late>>

Earliest(r) == r \in timers /\ \A s \in timers : r.deadline <= s.deadline

TryNearestDeadLine ==
  /\ loop = "get"
  /\ \/ timers = {} /\ Goes("pop") /\ UNCHANGED deadline
     \/ \E r \in timers : Earliest(r) /\ deadline' = r.deadline /\ Goes("clock")
  /\ UNCHANGED <<buffer_, waiting_, timers, task>>

ReadClock ==
  /\ loop = "clock"
  /\ Goes(IF now >= deadline THEN "closest" ELSE "pop")
  /\ UNCHANGED <<buffer_, waiting_, timers, task, deadline>>

\* The earliest timer now; the queue is not empty, only this thread takes
\* timers out.
GetClosestTimer ==
  /\ loop = "closest"
  /\ \E r \in timers :
       /\ Earliest(r)
       /\ timers' = timers \ {r}
       /\ task' = r.task
       /\ deadline' = r.deadline
  /\ Goes("run")
  /\ UNCHANGED <<buffer_, waiting_>>

\* UnboundedBlockingQueue::Pop, n times announced.
PopSection(n) ==
  \/ /\ buffer_ = << >> /\ ~tasks_closed
     /\ waiting_' = n
     /\ Goes("wait")
     /\ UNCHANGED <<buffer_, task>>
  \/ /\ buffer_ = << >> /\ tasks_closed
     /\ waiting_' = n - 1
     /\ Goes("test")
     /\ UNCHANGED <<buffer_, task>>
  \/ /\ buffer_ # << >>
     /\ waiting_' = n - 1
     /\ buffer_' = Tail(buffer_)
     /\ task' = Head(buffer_)
     /\ Goes("run")

PopTask ==
  /\ \/ loop = "pop" /\ PopSection(waiting_ + 1)
     \/ loop = "woken" /\ PopSection(waiting_)
  /\ UNCHANGED <<timers, deadline>>

SpuriousWakeup ==
  /\ loop = "wait"
  /\ Goes("woken")
  /\ UNCHANGED <<buffer_, waiting_, timers, task, deadline>>

\* Mutant of TestClosed: the loop ends when Pop has returned nothing.
TestNothing ==
  /\ loop = "test"
  /\ Goes("returned")
  /\ UNCHANGED <<buffer_, waiting_, timers, task, deadline>>

\* while (!is_closed_.load())
TestClosed ==
  /\ loop = "test"
  /\ Goes(IF is_closed_ THEN "returned" ELSE "get")
  /\ UNCHANGED <<buffer_, waiting_, timers, task, deadline>>

FinishTask ==
  /\ loop = "run"
  /\ task' = NoTask
  /\ Goes("get")
  /\ UNCHANGED <<buffer_, waiting_, timers, deadline>>

-----------------------------------------------------------------------------
(* Runtime::Stop                                                           *)

\* timers_.Close() changes nothing that the loop reads.
StopTimers ==
  /\ stop = "none"
  /\ stop' = "timers"
  /\ UNCHANGED <<buffer_, waiting_, tasks_closed, timers, is_closed_, now, setting, loop, task,
                 deadline, unsent, late>>

StopTasks ==
  /\ stop = "timers"
  /\ stop' = "tasks"
  /\ tasks_closed' = TRUE
  /\ loop' = Notified
  /\ UNCHANGED <<buffer_, waiting_, timers, is_closed_, now, setting, task, deadline, unsent, late>>

StopStore ==
  /\ stop = "tasks"
  /\ stop' = "stopped"
  /\ is_closed_' = TRUE
  /\ UNCHANGED <<buffer_, waiting_, tasks_closed, timers, now, setting, loop, task, deadline,
                 unsent, late>>

-----------------------------------------------------------------------------
Run == TryNearestDeadLine \/ ReadClock \/ GetClosestTimer \/ PopTask \/ TestClosed \/ FinishTask

Stop == StopTimers \/ StopTasks \/ StopStore

Terminated == loop = "returned" /\ unsent = {} /\ UNCHANGED runLoopVars

RunLoopNext ==
  \/ Tick \/ Run \/ SpuriousWakeup \/ Stop
  \/ \E t \in Tasks :
       \/ \E inside \in BOOLEAN : SubmitTask(t, inside)
       \/ \E d \in Durations : SetInside(t, d) \/ SetOutside(t, d)
  \/ \E r \in setting : PushTimer(r)
  \/ Terminated

RunLoopSpec == RunLoopInit /\ [][RunLoopNext]_runLoopVars

\* The thread of the loop is scheduled, time passes, and calls end; Stop is
\* called or not.
RunLoopLiveSpec ==
  /\ RunLoopSpec
  /\ WF_runLoopVars(Run) /\ WF_runLoopVars(Tick) /\ WF_runLoopVars(StopTasks \/ StopStore)
  /\ WF_runLoopVars(\E r \in setting : PushTimer(r))

-----------------------------------------------------------------------------
InBuffer == {buffer_[i] : i \in DOMAIN buffer_}

TimerType == [task : Tasks, deadline : 0 .. LastTime]

RunLoopTypeOK ==
  /\ buffer_ \in Seq(Tasks)
  /\ waiting_ = IF loop \in {"wait", "woken"} THEN 1 ELSE 0
  /\ timers \subseteq TimerType
  /\ setting \subseteq TimerType
  /\ task \in Tasks \cup {NoTask}
  /\ (task # NoTask) = (loop = "run")
  /\ tasks_closed = (stop \in {"tasks", "stopped"})
  /\ is_closed_ = (stop = "stopped")

\* A timer that has been taken to be run is due, although its deadline was not
\* the one compared with the clock.
NeverEarly == [][loop = "closest" /\ loop' = "run" => deadline' <= now]_runLoopVars

\* The loop sleeps only while there is no task and the queue is open.
AwakeForTasks == loop = "wait" => buffer_ = << >> /\ ~tasks_closed

\* Run returns after Stop, and leaves only tasks that were submitted from outside
\* to the closed queue; timers that are pending are left.
ReturnDrains == loop = "returned" => stop = "stopped" /\ InBuffer \subseteq late

\* The loop sleeps and returns only when it may (with the type invariant).
LoopInv == RunLoopTypeOK /\ AwakeForTasks /\ ReturnDrains

\* Nothing is left to do: the tasks have been run, or Stop has been called and Run has
\* returned.
Settled == IF stop = "stopped" THEN loop = "returned" ELSE buffer_ = << >>

\* What is submitted in time runs, timers not before they are due, and Run ends.
LoopProgress == NeverEarly /\ []<>Settled
=============================================================================

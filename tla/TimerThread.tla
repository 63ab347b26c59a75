----------------------------- MODULE TimerThread -----------------------------
(***************************************************************************)
(* runtime/multi_thread/v1/timer_thread: a thread that takes timers from a *)
(* blocking queue (detail/timer_queue.hpp), sleeps until the nearest       *)
(* deadline and submits the timer's task to a pool.  Both runtimes of      *)
(* thread pools have one: they say what Submit does.                       *)
(***************************************************************************)
EXTENDS Integers

CONSTANTS
  Tasks,     \* the tasks of timers
  NULL,      \* no timer
  Callers,   \* the threads that call Set
  MaxTime    \* bound: the clock stops here, and deadlines are not later

VARIABLES
  timer_enable_,    \* TimerThread::timer_enable_
  now,              \* Clock::now()
  timers,           \* TimerBlockingQueue::buffer_: [task, deadline]
  timers_waiting,   \* TimerBlockingQueue::waiting_
  timers_closed,    \* TimerBlockingQueue::is_closed_
  setting,          \* setting[c]: the timer c passes to Set, or NULL
  timer,            \* where the timer thread is in Run
  deadline,         \* the local of that name in Run
  closest,          \* what GetClosestTimer has returned, or NULL
  orphans           \* the timers pushed when the queue was closed

timerQueue == <<timers, timers_waiting, timers_closed>>
timerThread == <<timer_enable_, timer, deadline, closest>>
timerVars == <<timerQueue, timerThread, now, setting, orphans>>

\* EnableTimer may have been called; the thread has not been started.
TimerInit ==
  /\ timer_enable_ \in BOOLEAN
  /\ now = 0
  /\ timers = {}
  /\ timers_waiting = 0
  /\ timers_closed = FALSE
  /\ setting = [c \in Callers |-> NULL]
  /\ timer = "off"
  /\ deadline = 0
  /\ closest = NULL
  /\ orphans = {}

Tick ==
  /\ now < MaxTime
  /\ now' = now + 1
  /\ UNCHANGED <<timerQueue, timerThread, setting, orphans>>

-----------------------------------------------------------------------------
(* TimerThread::Set                                                        *)

\* The deadline, from the clock ...
Set(c, t, delay) ==
  /\ timer_enable_
  /\ setting[c] = NULL
  /\ now + delay <= MaxTime
  /\ setting' = [setting EXCEPT ![c] = [task |-> t, deadline |-> now + delay]]
  /\ UNCHANGED <<timerQueue, timerThread, now, orphans>>

\* Mutant of NotifyTimer: the waiting thread is not told.
NotifyNoTimer == timer' = timer

\* A notification of the queue: the thread that waits goes on.
NotifyTimer == timer' = IF timers_waiting > 0 /\ timer = "wait" THEN "woken" ELSE timer

\* ... and TimerBlockingQueue::Push.
PushTimer(c) ==
  /\ setting[c] # NULL
  /\ timers' = timers \cup {setting[c]}
  /\ orphans' = IF timers_closed THEN orphans \cup {setting[c]} ELSE orphans
  /\ setting' = [setting EXCEPT ![c] = NULL]
  /\ NotifyTimer
  /\ UNCHANGED <<timers_waiting, timers_closed, timer_enable_, deadline, closest, now>>

-----------------------------------------------------------------------------
(* TimerThread::Run                                                        *)

Earliest(r) == r \in timers /\ \A s \in timers : r.deadline <= s.deadline

\* NearestDeadLine, for the n-th time that its thread is announced.
NearestSection(n) ==
  \/ /\ timers = {} /\ ~timers_closed
     /\ timers_waiting' = n
     /\ timer' = "wait"
     /\ UNCHANGED deadline
  \/ /\ timers = {} /\ timers_closed
     /\ timers_waiting' = n - 1
     /\ timer' = "exited"
     /\ UNCHANGED deadline
  \/ \E r \in timers :
       /\ Earliest(r)
       /\ timers_waiting' = n - 1
       /\ deadline' = r.deadline
       /\ timer' = "sleep"

NearestDeadLine ==
  /\ \/ timer = "nearest" /\ NearestSection(timers_waiting + 1)
     \/ timer = "woken" /\ NearestSection(timers_waiting)
  /\ UNCHANGED <<timers, timers_closed, timer_enable_, closest, now, setting, orphans>>

TimerSpurious ==
  /\ timer = "wait"
  /\ timer' = "woken"
  /\ UNCHANGED <<timerQueue, timer_enable_, deadline, closest, now, setting, orphans>>

\* The deadline has passed, or sleep_for returns when it has.
Sleep ==
  /\ timer = "sleep"
  /\ now >= deadline
  /\ timer' = "closest"
  /\ UNCHANGED <<timerQueue, timer_enable_, deadline, closest, now, setting, orphans>>

TakeTimer(r) ==
  /\ timer = "closest"
  /\ timers' = timers \ {r}
  /\ closest' = r
  /\ timer' = "submit"
  /\ UNCHANGED <<timers_waiting, timers_closed, timer_enable_, deadline, now, setting, orphans>>

\* Mutant of GetClosestTimer: any timer.
GetAnyTimer == \E r \in timers : TakeTimer(r)

\* The queue is not empty: this thread alone takes timers out.
GetClosestTimer == \E r \in timers : Earliest(r) /\ TakeTimer(r)

\* The timer goes to Submit, which the thread leaves for the step after.
SubmitClosest(after) ==
  /\ timer = "submit"
  /\ closest' = NULL
  /\ timer' = after
  /\ UNCHANGED <<timerQueue, timer_enable_, deadline, now, setting, orphans>>

\* Until Submit.
TimerRun == NearestDeadLine \/ Sleep \/ GetClosestTimer

-----------------------------------------------------------------------------
(* TimerThread::Start and Stop                                             *)

StartThread ==
  /\ timer_enable_
  /\ timer = "off"
  /\ timer' = "nearest"
  /\ UNCHANGED <<timerQueue, timer_enable_, deadline, closest, now, setting, orphans>>

\* Stop closes the queue, and joins the thread.
CloseTimers ==
  /\ timers_closed' = TRUE
  /\ NotifyTimer
  /\ UNCHANGED <<timers, timers_waiting, timer_enable_, deadline, closest, now, setting, orphans>>

\* The thread has been started, if the runtime has one.
TimerStarted == timer_enable_ => timer # "off"

-----------------------------------------------------------------------------
TimerType == [task : Tasks, deadline : 0 .. MaxTime]

TimerTypeOK ==
  /\ timer_enable_ \in BOOLEAN
  /\ timers \subseteq TimerType
  /\ orphans \subseteq TimerType
  /\ setting \in [Callers -> TimerType \cup {NULL}]
  /\ closest \in TimerType \cup {NULL}
  /\ timer \in {"off", "nearest", "wait", "woken", "sleep", "closest", "submit", "notify", "wake",
                "exited"}
  /\ timers_waiting = IF timer \in {"wait", "woken"} THEN 1 ELSE 0

\* No timer fires before its deadline, although the thread has slept for a
\* deadline it read before it took the timer.
NeverEarly == timer = "submit" => closest.deadline <= now

\* GetClosestTimer never waits and never returns a null pointer to Submit.
ClosestFinds == timer = "closest" => timers # {}

\* While the timer thread waits for a timer there is none and the queue is open:
\* neither Push nor Close omits a notification.
AwakeForTimers == timer = "wait" => timers = {} /\ ~timers_closed

\* The timer thread takes timers that are there and due, and sleeps for a reason (with
\* the type invariant).
TimerInv == TimerTypeOK /\ NeverEarly /\ ClosestFinds /\ AwakeForTimers
=============================================================================

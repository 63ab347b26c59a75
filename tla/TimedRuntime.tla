----------------------------- MODULE TimedRuntime -----------------------------
(***************************************************************************)
(* runtime/multi_thread/v1/runtime with timers: the pool and its timer     *)
(* thread, which submits to the pool.                                      *)
(*                                                                         *)
(* Any running task and one thread outside call Set.  Stop stops the pool  *)
(* first and the timer thread after it.  FiberRuntime says what the tasks  *)
(* do.                                                                     *)
(***************************************************************************)
EXTENDS ThreadPool

CONSTANTS
  Client,    \* the thread outside
  Delays,
  MaxTime    \* bound: the clock stops here, and deadlines are not later

VARIABLES timer_enable_, now, timers, timers_waiting, timers_closed, setting, timer, deadline,
          closest, orphans

Callers == Workers \cup {Client}

INSTANCE TimerThread

ASSUME TimedAssumption ==
  Client \notin Workers /\ Delays \subseteq Nat /\ MaxTime \in Nat /\ NULL \notin TimerType

timerState == <<timer_enable_, now, timers, timers_waiting, timers_closed, setting, timer,
                deadline, closest, orphans>>
runtimeVars == <<poolVars, timerState>>

RuntimeInit == PoolInit /\ TimerInit

-----------------------------------------------------------------------------
(* IScheduler::Set, from a task and from outside.                          *)

Sets(c, t, delay) ==
  /\ t \in unsubmitted
  /\ unsubmitted' = unsubmitted \ {t}
  /\ Set(c, t, delay)
  /\ UNCHANGED <<buffer_, waiting_, is_closed_, task, main, late>>

SetInside(w, t, delay) ==
  worker[w] = "run" /\ worker' = Becomes(w, "set") /\ Sets(w, t, delay)

SetOutside(t, delay) ==
  UNCHANGED worker /\ Sets(Client, t, delay)

\* Set returns.
SetReturns(c) ==
  /\ PushTimer(c)
  /\ worker' = IF c = Client THEN worker ELSE Becomes(c, "run")
  /\ UNCHANGED <<buffer_, waiting_, is_closed_, task, main, unsubmitted, late>>

\* Submit to the pool, closed or not.
SubmitTimer ==
  /\ SubmitClosest("nearest")
  /\ Push(closest.task, worker)
  /\ late' = IF is_closed_ THEN late \cup {closest.task} ELSE late
  /\ UNCHANGED <<task, main, unsubmitted>>

-----------------------------------------------------------------------------
(* Runtime::Start and Stop                                                 *)

StartTimer ==
  main = "started" /\ StartThread /\ UNCHANGED poolVars

\* TimerThread::Stop, once ThreadPool::Stop has returned.
StopTimer ==
  /\ main = "stopped"
  /\ timer_enable_
  /\ CloseTimers
  /\ main' = "timer_join"
  /\ UNCHANGED <<buffer_, waiting_, is_closed_, worker, task, unsubmitted, late>>

StopTimerReturn ==
  /\ \/ main = "timer_join" /\ timer = "exited"
     \/ main = "stopped" /\ ~timer_enable_
  /\ main' = "finished"
  /\ UNCHANGED <<buffer_, waiting_, is_closed_, worker, task, unsubmitted, late, timerState>>

-----------------------------------------------------------------------------
TimerStep == \/ TimerRun /\ UNCHANGED poolVars
             \/ SubmitTimer

\* Everything but what running tasks do.
RuntimeStep ==
  \/ /\ \/ Stop /\ TimerStarted
        \/ StopReturn
        \/ \E t \in Tasks : SubmitOutside(t)
        \/ \E w \in Workers : Start(w) \/ Pop(w) \/ PopAgain(w) \/ SpuriousWakeup(w)
     /\ UNCHANGED timerState
  \/ (Tick \/ TimerSpurious) /\ UNCHANGED poolVars
  \/ TimerStep
  \/ StartTimer \/ StopTimer \/ StopTimerReturn
  \/ \E c \in Callers : SetReturns(c)

-----------------------------------------------------------------------------
\* When Stop has returned the timer thread has fired every timer of the queue
\* that was not closed, and the pool has run every task but those it was given
\* when it was closed; a timer that a running task has set is never an orphan.
RuntimeStopDrains ==
  /\ main = "finished" => timers \subseteq orphans /\ InBuffer \subseteq late
  /\ \A w \in Workers : setting[w] # NULL => ~timers_closed

\* The timer thread fires timers that are there and due, and leaves none (with its type
\* invariant).
RuntimeInv == TimerInv /\ RuntimeStopDrains
=============================================================================

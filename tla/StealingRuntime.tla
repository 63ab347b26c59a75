---------------------------- MODULE StealingRuntime ----------------------------
(***************************************************************************)
(* runtime/multi_thread/v2/runtime: the work-stealing pool and the timer   *)
(* thread of v1, which submits the tasks of timers from outside the pool:  *)
(* to the global queue, and then it looks for a stopped worker to wake.    *)
(*                                                                         *)
(* Any running task and the client thread call Submit and Set.  The client *)
(* thread then calls Stop, which stops the pool first and the timer thread *)
(* after it.                                                               *)
(***************************************************************************)
EXTENDS WorkStealingPool

CONSTANTS
  Client,      \* the thread outside
  TimerTasks,  \* the tasks of timers
  Delays,
  MaxTime      \* bound: the clock stops here, and deadlines are not later

VARIABLES timer_enable_, now, timers, timers_waiting, timers_closed, setting, timer, deadline,
          closest, orphans

Callers == Workers \cup {Client}

INSTANCE TimerThread

ASSUME RuntimeAssumption ==
  /\ Client \notin Workers /\ TimerTasks \subseteq Tasks
  /\ Delays \subseteq Nat /\ MaxTime \in Nat /\ NULL \notin TimerType

timerState == <<timer_enable_, now, timers, timers_waiting, timers_closed, setting, timer,
                deadline, closest, orphans>>
runtimeVars == <<vars, timerState>>

RuntimeInit == Init /\ TimerInit

-----------------------------------------------------------------------------
(* IScheduler::Set, from a task and from outside.                          *)

\* The timer's task is one the pool has not seen; it counts as submitted.
Sets(c, t, delay) ==
  /\ Set(c, t, delay)
  /\ submitted' = submitted \cup {t}
  /\ UNCHANGED <<queues, coord, locals, mworker, done>>

SetInside(w, t, delay) ==
  pc[w] = "run" /\ Goto(w, "set") /\ Sets(w, t, delay) /\ UNCHANGED mpc

SetOutside(t, delay) ==
  mpc = "client" /\ mpc' = "set" /\ Sets(Client, t, delay) /\ UNCHANGED pc

\* Set returns.
SetReturns(c) ==
  /\ PushTimer(c)
  /\ IF c = Client THEN mpc' = "client" /\ UNCHANGED pc
                   ELSE Goto(c, "run") /\ UNCHANGED mpc
  /\ UNCHANGED <<queues, coord, locals, mworker, history>>

-----------------------------------------------------------------------------
(* ThreadPool::Submit, by the timer thread, which is not a worker.         *)

TimerLocals == <<timers, timers_waiting, timers_closed, timer_enable_, deadline, now, setting,
                 orphans>>

SubmitTimer ==
  /\ SubmitClosest("notify")
  /\ global_queue_' = Append(global_queue_, closest.task)
  /\ UNCHANGED <<local_queue_, lifo_slot_, filo_chain_, iter_, coord, pc, locals, client, history>>

\* Mutant of TimerNotify: the timer thread does not look at the coordinator.
TimerNotifiesNobody ==
  /\ timer = "notify"
  /\ timer' = "nearest"
  /\ UNCHANGED <<closest, TimerLocals, vars>>

TimerNotify ==
  /\ timer = "notify"
  /\ timer' = IF approximate_size_ > 0 THEN "wake" ELSE "nearest"
  /\ UNCHANGED <<closest, TimerLocals, vars>>

TimerWake ==
  /\ timer = "wake"
  /\ WakeWorker(pc)
  /\ timer' = "nearest"
  /\ UNCHANGED <<closest, TimerLocals, queues, has_stopped_, locals, client, history>>

TimerStep ==
  \/ TimerRun /\ UNCHANGED vars
  \/ SubmitTimer \/ TimerNotify \/ TimerWake

-----------------------------------------------------------------------------
(* Runtime::Start and Stop; the workers run from the initial state on.     *)

StartTimer ==
  mpc = "client" /\ StartThread /\ UNCHANGED vars

\* TimerThread::Stop, once ThreadPool::Stop has returned.
StopTimer ==
  /\ mpc = "joined"
  /\ timer_enable_
  /\ CloseTimers
  /\ mpc' = "timer_join"
  /\ UNCHANGED <<queues, coord, pc, locals, mworker, history>>

\* Mutant of StopTimerReturn: it does not join the timer thread.
StopTimerDetaches ==
  /\ mpc = "timer_join" \/ (mpc = "joined" /\ ~timer_enable_)
  /\ mpc' = "finished"
  /\ UNCHANGED <<queues, coord, pc, locals, mworker, history, timerState>>

StopTimerReturn ==
  /\ \/ mpc = "timer_join" /\ timer = "exited"
     \/ mpc = "joined" /\ ~timer_enable_
  /\ mpc' = "finished"
  /\ UNCHANGED <<queues, coord, pc, locals, mworker, history, timerState>>

StartStop == StartTimer \/ StopTimer \/ StopTimerReturn

-----------------------------------------------------------------------------
\* A task is one that is submitted or one that a timer has.
Submittable == Fresh \ TimerTasks

\* What the pool does by itself; the client calls nothing before Start returns.
PoolStep ==
  /\ \/ \E w \in Workers : Schedule(w) \/ RunReturns(w) \/ SpuriousWake(w)
     \/ \E w \in Workers, t \in Submittable :
          PushUpToYou(w, t) \/ PushNext(w, t) \/ PushYield(w, t)
     \/ TimerStarted /\ (StopWorker \/ \E t \in Submittable : Submit(t))
     \/ ClientNotify \/ ClientWake \/ StopWake \/ Join
  /\ UNCHANGED timerState

RuntimeNext ==
  \/ PoolStep
  \/ (Tick \/ TimerSpurious) /\ UNCHANGED vars
  \/ TimerStep
  \/ StartStop
  \/ \E t \in Fresh \cap TimerTasks, d \in Delays :
       (TimerStarted /\ SetOutside(t, d)) \/ \E w \in Workers : SetInside(w, t, d)
  \/ \E c \in Callers : SetReturns(c)

RuntimeSpec == RuntimeInit /\ [][RuntimeNext]_runtimeVars

(* Threads are scheduled, tasks return, and time passes; a client that is  *)
(* inside a call finishes it.  A step of a thread changes where it is, or  *)
(* a local of it.                                                          *)
WorkerRuns(w) == (Schedule(w) \/ RunReturns(w)) /\ UNCHANGED timerState

RuntimeLiveSpec ==
  /\ RuntimeSpec
  /\ \A w \in Workers : WF_<<pc, locals>>(WorkerRuns(w) \/ SetReturns(w))
  /\ WF_<<mpc, timer>>((ClientStops /\ UNCHANGED timerState) \/ SetReturns(Client) \/ StartStop)
  /\ WF_timer(TimerStep)
  /\ WF_now(Tick /\ UNCHANGED vars)

-----------------------------------------------------------------------------
\* The tasks in the hands of Set, of the queue of timers and of the timer thread.
TimersHold ==
  {r.task : r \in timers} \cup {setting[c].task : c \in {d \in Callers : setting[d] # NULL}}
  \cup (IF closest = NULL THEN {} ELSE {closest.task})

PoolHolds == (UNION {SeqRange(Held(w)) : w \in Workers}) \cup SeqRange(global_queue_)

\* The runtime loses no task and has none twice: one that was submitted or set and
\* has not run is with the timers or with the pool.  When Stop has returned no timer
\* is left, and what has not run is in the global queue, which the workers left before
\* the client or the timer thread submitted it.
RuntimeKeepsTasks ==
  /\ TimersHold \cap PoolHolds = {}
  /\ TimersHold \cup PoolHolds = submitted \ done
  /\ mpc = "finished" =>
       /\ TimersHold = {}
       /\ SeqRange(global_queue_) = submitted \ done

\* No lost wake-up with two threads outside, the client and the timer thread, which may
\* submit at the same time: while a worker is parked next to a task in a queue, some
\* thread looks for tasks or is about to wake a worker.
NoStrandedTimer ==
  NoStrandedTask \/ timer \in {"notify", "wake"}

\* Nothing is left to do: what was submitted or set has run, or Stop has been called
\* and has returned.
Settled ==
  IF \E w \in Workers : has_stopped_[w] THEN mpc = "finished" ELSE submitted = done

\* A task that is submitted or set runs unless Stop is called; Stop returns: of the
\* pool, although the timer thread may still submit to it, and of the timer thread,
\* which sleeps for every timer that was set.
RuntimeProgress == []<>Settled
=============================================================================

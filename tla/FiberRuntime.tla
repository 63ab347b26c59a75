----------------------------- MODULE FiberRuntime -----------------------------
(***************************************************************************)
(* fiber/core and fiber/sched on a runtime of threads with timers.         *)
(*                                                                         *)
(* Some tasks are fibers: they are submitted by Go, spawn others, Yield    *)
(* and SleepFor.  The timer of SleepFor is on the stack of the sleeping    *)
(* fiber, and so is the callback that schedules the fiber again; a timer   *)
(* in the queue of the pool stands here for its fiber.  The other tasks    *)
(* are functions that are submitted or set.                                *)
(***************************************************************************)
EXTENDS TimedRuntime

CONSTANTS
  Fibers,
  MaxSuspensions  \* bound: how often each fiber is suspended

ASSUME FiberAssumption ==
  /\ Fibers \subseteq Tasks /\ MaxSuspensions \in Nat
  /\ Workers \cap {"suspended", "ready", "ended"} = {}  \* see FiberScheduler

VARIABLES
  coroutine,    \* coroutine[f]: "suspended", "running", "done" (is_done_), "deleted"
  cb_,          \* cb_[f]: the callback of the last Suspend: "none", "yield" or "sleep"
  suspensions,  \* suspensions[f]
  this_ptr,     \* this_ptr of the thread: a fiber or NULL
  at            \* at[w]: where w is in the task's Run

fiberState == <<coroutine, cb_, suspensions, this_ptr, at>>
allVars == <<runtimeVars, fiberState>>

FiberInit ==
  /\ RuntimeInit
  /\ coroutine = [f \in Fibers |-> "suspended"]
  /\ cb_ = [f \in Fibers |-> "none"]
  /\ suspensions = [f \in Fibers |-> 0]
  /\ this_ptr = [w \in Workers |-> NULL]
  /\ at = [w \in Workers |-> "enter"]

GoesTo(w, place) == at' = [at EXCEPT ![w] = place]

\* Worker w is in the Run of a fiber, or of the timer that runs it, at the place.
InRun(w, place) == worker[w] = "run" /\ task[w] \in Fibers /\ at[w] = place

-----------------------------------------------------------------------------
(* Fiber::Run, up to the function of the fiber.                            *)

\* this_ptr is set, and Coroutine::Resume switches to the routine's context.
Resume(w) ==
  /\ InRun(w, "enter")
  /\ this_ptr' = [this_ptr EXCEPT ![w] = task[w]]
  /\ coroutine' = [coroutine EXCEPT ![task[w]] = "running"]
  /\ GoesTo(w, "body")
  /\ UNCHANGED <<cb_, suspensions, runtimeVars>>

-----------------------------------------------------------------------------
(* The function of the fiber: Self() is this_ptr of the thread it is on.   *)

\* Suspend: the callback is stored, and the thread's context comes back.
Suspend(w, callback) ==
  LET f == this_ptr[w] IN
  /\ InRun(w, "body")
  /\ suspensions[f] < MaxSuspensions
  /\ suspensions' = [suspensions EXCEPT ![f] = @ + 1]
  /\ cb_' = [cb_ EXCEPT ![f] = callback]
  /\ coroutine' = [coroutine EXCEPT ![f] = "suspended"]
  /\ GoesTo(w, "switched")
  /\ UNCHANGED <<this_ptr, runtimeVars>>

Yield(w) == Suspend(w, "yield")

\* SleepFor, in a runtime with timers.
SleepFor(w) == timer_enable_ /\ Suspend(w, "sleep")

\* Routine::Run: the function has returned.
Exit(w) ==
  /\ InRun(w, "body")
  /\ coroutine' = [coroutine EXCEPT ![this_ptr[w]] = "done"]
  /\ GoesTo(w, "switched")
  /\ UNCHANGED <<cb_, suspensions, this_ptr, runtimeVars>>

\* Go, and calls of Submit and Set for functions.
Calls(w) ==
  /\ \/ \E t \in Tasks : SubmitInside(w, t) /\ UNCHANGED timerState
     \/ \E t \in Tasks \ Fibers, d \in Delays : SetInside(w, t, d)
  /\ UNCHANGED fiberState

-----------------------------------------------------------------------------
(* The rest of Fiber::Resume, on the thread's own stack.                   *)

\* Mutant of SwitchedBack: the callback is called of every fiber.
SwitchedBackCalls(w) ==
  /\ InRun(w, "switched")
  /\ this_ptr' = [this_ptr EXCEPT ![w] = NULL]
  /\ GoesTo(w, IF cb_[task[w]] = "none" THEN "return" ELSE "callback")
  /\ UNCHANGED <<coroutine, cb_, suspensions, runtimeVars>>

\* A fiber that is done is deleted; of another one the callback is called.
SwitchedBack(w) ==
  LET f == task[w] IN
  /\ InRun(w, "switched")
  /\ this_ptr' = [this_ptr EXCEPT ![w] = NULL]
  /\ \/ /\ coroutine[f] = "done"
        /\ coroutine' = [coroutine EXCEPT ![f] = "deleted"]
        /\ GoesTo(w, "return")
     \/ /\ coroutine[f] # "done"
        /\ UNCHANGED coroutine
        /\ GoesTo(w, "callback")
  /\ UNCHANGED <<cb_, suspensions, runtimeVars>>

\* Mutant of YieldCallback: IsDone is tested when the callback has been called.
YieldThenTest(w) ==
  /\ InRun(w, "callback")
  /\ cb_[task[w]] = "yield"
  /\ Push(task[w], worker)
  /\ GoesTo(w, "switched")
  /\ UNCHANGED <<task, main, unsubmitted, late, timerState>>
  /\ UNCHANGED <<coroutine, cb_, suspensions, this_ptr>>

\* FiberHandle::Schedule, from the callback of Yield.
YieldCallback(w) ==
  /\ InRun(w, "callback")
  /\ cb_[task[w]] = "yield"
  /\ Push(task[w], worker)
  /\ GoesTo(w, "return")
  /\ UNCHANGED <<task, main, unsubmitted, late, timerState>>
  /\ UNCHANGED <<coroutine, cb_, suspensions, this_ptr>>

\* ... and from the callback of SleepFor: Set for the timer on the fiber's stack.
SleepCallback(w) ==
  /\ InRun(w, "callback")
  /\ cb_[task[w]] = "sleep"
  /\ \E delay \in Delays : Set(w, task[w], delay)
  /\ worker' = Becomes(w, "set")
  /\ GoesTo(w, "return")
  /\ UNCHANGED <<buffer_, waiting_, is_closed_, task, main, unsubmitted, late>>
  /\ UNCHANGED <<coroutine, cb_, suspensions, this_ptr>>

\* Run of the task returns to the worker.
Returns(w) ==
  /\ task[w] \in Fibers => at[w] = "return"
  /\ Finish(w)
  /\ GoesTo(w, "enter")
  /\ UNCHANGED <<timerState, coroutine, cb_, suspensions, this_ptr>>

-----------------------------------------------------------------------------
\* What a task does that ends in time, and what it may do besides.
RunStep(w) ==
  Resume(w) \/ Exit(w) \/ SwitchedBack(w) \/ YieldCallback(w) \/ SleepCallback(w) \/ Returns(w)

Optional(w) ==
  \/ Yield(w) \/ SleepFor(w)
  \/ (task[w] \in Fibers => at[w] = "body") /\ Calls(w)

\* Functions are set by the thread outside.
SetFunction ==
  /\ \E t \in Tasks \ Fibers, d \in Delays : SetOutside(t, d)
  /\ UNCHANGED fiberState

FiberNext ==
  \/ RuntimeStep /\ UNCHANGED fiberState
  \/ SetFunction
  \/ \E w \in Workers : RunStep(w) \/ Optional(w)

FiberSpec == FiberInit /\ [][FiberNext]_allVars

\* All threads are scheduled, tasks end, and time passes.
WorkerRuns(w) ==
  RunStep(w) \/ ((Pop(w) \/ PopAgain(w) \/ Start(w)) /\ UNCHANGED <<timerState, fiberState>>)
             \/ (SetReturns(w) /\ UNCHANGED fiberState)

MainRuns ==
  /\ \/ StartTimer \/ StopTimer \/ StopTimerReturn \/ SetReturns(Client)
     \/ StopReturn /\ UNCHANGED timerState
  /\ UNCHANGED fiberState

FiberLiveSpec ==
  /\ FiberSpec
  /\ \A w \in Workers : WF_allVars(WorkerRuns(w))
  /\ WF_allVars(MainRuns)
  /\ WF_allVars(TimerStep /\ UNCHANGED fiberState)
  /\ WF_allVars(Tick /\ UNCHANGED <<poolVars, fiberState>>)

-----------------------------------------------------------------------------
(* Properties.                                                             *)

FiberTypeOK ==
  /\ coroutine \in [Fibers -> {"suspended", "running", "done", "deleted"}]
  /\ cb_ \in [Fibers -> {"none", "yield", "sleep"}]
  /\ suspensions \in [Fibers -> 0 .. MaxSuspensions]
  /\ this_ptr \in [Workers -> Fibers \cup {NULL}]
  /\ at \in [Workers -> {"enter", "body", "switched", "callback", "return"}]

\* The timers that someone may still read: their task is one, set or taken.
LiveTimers ==
  timers \cup {setting[c] : c \in {d \in Callers : setting[d] # NULL}}
  \cup (IF closest = NULL THEN {} ELSE {closest})

\* A fiber that sleeps stays suspended in SleepFor for as long as its timer, which is
\* on its stack, is in anyone's hands.
TimersOnStack ==
  \A r \in LiveTimers : r.task \in Fibers =>
    coroutine[r.task] = "suspended" /\ cb_[r.task] = "sleep"

\* Fiber::Resume uses the fiber after the switch only while nobody else can reach it:
\* what it tests, deletes, or whose callback it calls is the fiber that has left.
OwnFiber ==
  \A w \in Workers :
    /\ InRun(w, "switched") => coroutine[task[w]] \in {"suspended", "done"}
    /\ InRun(w, "callback") => coroutine[task[w]] = "suspended"
    /\ at[w] \in {"switched", "callback"} =>
         /\ task[w] \notin {buffer_[i] : i \in DOMAIN buffer_}
         /\ \A r \in LiveTimers : r.task # task[w]

\* Self() is the fiber whose code the thread executes, also after the fiber has moved
\* to another thread.
SelfIsRunning ==
  \A w \in Workers : at[w] = "body" => this_ptr[w] = task[w] /\ coroutine[task[w]] = "running"

\* Fibers and what is on their stacks are used only while they are there (with the type
\* invariant).
FiberInv == FiberTypeOK /\ TimersOnStack /\ OwnFiber /\ SelfIsRunning

\* Scheduled means submitted: in the queue of the pool, or taken from it.
Status(f) ==
  CASE \E w \in Workers : at[w] = "body" /\ task[w] = f ->
         CHOOSE w \in Workers : at[w] = "body" /\ task[w] = f
    [] coroutine[f] \in {"done", "deleted"} -> "ended"
    [] f \in InBuffer \/ \E w \in Workers : InRun(w, "enter") /\ task[w] = f -> "ready"
    [] OTHER -> "suspended"

\* The runtime and fiber/core implement the scheduler of fibers: no fiber is executed by
\* two threads, or goes on while no one has scheduled it.
Scheduler ==
  INSTANCE FiberScheduler WITH
    Threads <- Workers,
    status <- [f \in Fibers |-> Status(f)]

SchedulerSpec == Scheduler!Spec

\* Nothing is left to do: every task that was submitted or set has run, fibers to their
\* end, or Stop has been called and has returned; nobody has to call Start.
Settled ==
  CASE main = "start" -> TRUE
    [] main = "started" ->
         /\ \A w \in Workers : task[w] = NULL
         /\ \A t \in Fibers \ unsubmitted : coroutine[t] = "deleted"
         /\ buffer_ = << >> /\ LiveTimers = {}
    [] OTHER -> main = "finished"

\* Once the runtime has been started, a task that was submitted or set runs, a fiber that
\* yields or sleeps goes on and ends, and Stop returns.
RuntimeProgress == []<>Settled
=============================================================================

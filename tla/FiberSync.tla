------------------------------ MODULE FiberSync ------------------------------
(***************************************************************************)
(* What the fiber synchronization primitives are built from: fibers that   *)
(* run on the threads of a runtime (fiber/core), a spin lock held through  *)
(* thread::UniqueLock, and WaitQueue (fiber/sync/wait_queue).              *)
(*                                                                         *)
(* A fiber that suspends itself leaves its thread inside Fiber::Resume,    *)
(* which runs the suspend callback; another thread may resume the fiber    *)
(* as soon as the callback has made it reachable, while the first thread   *)
(* is still in the callback.  cb[w] is the step of the callback thread w   *)
(* is at.  The runtime is modelled by what it promises the fibers: a       *)
(* submitted fiber is run once, by some thread, in no particular order.    *)
(***************************************************************************)
EXTENDS Integers, Sequences, FiniteSets

CONSTANTS
  Fibers,
  Workers,   \* the threads of the runtime
  NULL       \* no fiber

ASSUME FiberAssumption ==
  /\ NULL \notin Fibers
  /\ Fibers \cap Workers = {}

VARIABLES
  locked_,    \* SpinLock::locked_ of the primitive's spin_
  fibers_,    \* WaitQueue::fibers_
  is_owned_,  \* is_owned_[f]: UniqueLock::is_owned_ of the running call of f
  ready,      \* the fibers submitted to the runtime
  running,    \* running[w]: the fiber whose Run thread w is in, or NULL
  cb,         \* cb[w]: the step of the suspend callback w is at, or "none"
  pc          \* pc[f]: the step fiber f does when a thread runs it

scheduler == <<ready, running, cb>>
syncVars == <<locked_, fibers_, is_owned_, ready, running, cb, pc>>

SyncInit ==
  /\ locked_ = FALSE
  /\ fibers_ = << >>
  /\ is_owned_ = [f \in Fibers |-> FALSE]
  /\ ready = Fibers
  /\ running = [w \in Workers |-> NULL]
  /\ cb = [w \in Workers |-> "none"]
  /\ pc = [f \in Fibers |-> "idle"]

Goto(f, label) == pc' = [pc EXCEPT ![f] = label]

\* Thread w executes the code of fiber f.
Runs(w, f) == running[w] = f /\ cb[w] = "none"

-----------------------------------------------------------------------------
(* Fibers and threads.                                                     *)

\* Fiber::Run: a thread resumes a submitted fiber.
Resume(w, f) ==
  /\ running[w] = NULL
  /\ f \in ready
  /\ ready' = ready \ {f}
  /\ running' = [running EXCEPT ![w] = f]
  /\ UNCHANGED <<locked_, fibers_, is_owned_, cb, pc>>

\* Fiber::Suspend: the coroutine stops, and w goes on with the callback.
Suspend(w, f, callback, label) ==
  /\ cb' = [cb EXCEPT ![w] = callback]
  /\ Goto(f, label)
  /\ UNCHANGED <<ready, running>>

\* The callback returns, and with it Fiber::Resume.
CallbackReturns(w) ==
  /\ cb' = [cb EXCEPT ![w] = "none"]
  /\ running' = [running EXCEPT ![w] = NULL]

\* The callback of Yield: FiberHandle::Schedule.
YieldCallback(w) ==
  /\ cb[w] = "yield"
  /\ ready' = ready \cup {running[w]}
  /\ CallbackReturns(w)
  /\ UNCHANGED <<locked_, fibers_, is_owned_, pc>>

\* The callback of WaitQueue::Park: PushBack(&*node) ...
ParkCallback(w) ==
  /\ cb[w] = "park"
  /\ fibers_' = Append(fibers_, running[w])
  /\ cb' = [cb EXCEPT ![w] = "disown"]
  /\ UNCHANGED <<locked_, is_owned_, ready, running, pc>>

\* Mutant of ParkUnlock: the flag is cleared after the spin lock is released.
ParkUnlockLateFlag(w) ==
  \/ /\ cb[w] = "disown"
     /\ locked_' = FALSE
     /\ cb' = [cb EXCEPT ![w] = "release"]
     /\ UNCHANGED <<fibers_, is_owned_, ready, running, pc>>
  \/ /\ cb[w] = "release"
     /\ is_owned_' = [is_owned_ EXCEPT ![running[w]] = FALSE]
     /\ CallbackReturns(w)
     /\ UNCHANGED <<locked_, fibers_, ready, pc>>

\* ... and UniqueLock::unlock, which clears is_owned_ and then releases spin_.
ParkUnlock(w) ==
  \/ /\ cb[w] = "disown"
     /\ is_owned_' = [is_owned_ EXCEPT ![running[w]] = FALSE]
     /\ cb' = [cb EXCEPT ![w] = "release"]
     /\ UNCHANGED <<locked_, fibers_, ready, running, pc>>
  \/ /\ cb[w] = "release"
     /\ locked_' = FALSE
     /\ CallbackReturns(w)
     /\ UNCHANGED <<fibers_, is_owned_, ready, pc>>

\* The fiber's function returns: the thread deletes the fiber.
Finish(w, f) ==
  /\ Runs(w, f)
  /\ pc[f] = "idle"
  /\ Goto(f, "finished")
  /\ running' = [running EXCEPT ![w] = NULL]
  /\ UNCHANGED <<locked_, fibers_, is_owned_, ready, cb>>

-----------------------------------------------------------------------------
(* The spin lock and the wait queue, as a call of the primitive uses them. *)

\* SpinLock::Lock, by a lock_guard: w spins until the exchange returns 0.
SpinLock(w, f, from, to) ==
  /\ Runs(w, f)
  /\ pc[f] = from
  /\ ~ locked_
  /\ locked_' = TRUE
  /\ Goto(f, to)

\* SpinLock::Unlock, by the destructor of the lock_guard.
SpinUnlock(w, f, from, to) ==
  /\ Runs(w, f)
  /\ pc[f] = from
  /\ locked_' = FALSE
  /\ Goto(f, to)

\* UniqueLock::lock
UniqueLock(w, f, from, to) ==
  /\ Runs(w, f)
  /\ pc[f] = from
  /\ ~ is_owned_[f] => ~ locked_
  /\ locked_' = TRUE
  /\ is_owned_' = [is_owned_ EXCEPT ![f] = TRUE]
  /\ Goto(f, to)

\* ~UniqueLock
UniqueUnlock(w, f, from, to) ==
  /\ Runs(w, f)
  /\ pc[f] = from
  /\ locked_' = IF is_owned_[f] THEN FALSE ELSE locked_
  /\ is_owned_' = [is_owned_ EXCEPT ![f] = FALSE]
  /\ Goto(f, to)

\* Mutant of WakeOne: the last fiber is not woken.
WakeOneOfMany ==
  IF Len(fibers_) <= 1
  THEN UNCHANGED <<fibers_, ready>>
  ELSE /\ fibers_' = Tail(fibers_)
       /\ ready' = ready \cup {Head(fibers_)}

\* Mutant of WakeOne: the fiber stays in the queue.
WakeOneStays ==
  /\ ready' = IF fibers_ = << >> THEN ready ELSE ready \cup {Head(fibers_)}
  /\ UNCHANGED fibers_

\* WaitQueue::WakeOne
WakeOne ==
  IF fibers_ = << >>
  THEN UNCHANGED <<fibers_, ready>>
  ELSE /\ fibers_' = Tail(fibers_)
       /\ ready' = ready \cup {Head(fibers_)}

\* WaitQueue::WakeAll
WakeAll ==
  /\ fibers_' = << >>
  /\ ready' = ready \cup {fibers_[k] : k \in DOMAIN fibers_}

\* What thread w does inside Fiber::Resume after the coroutine has suspended.
Callback(w) == YieldCallback(w) \/ ParkCallback(w) \/ ParkUnlock(w)

-----------------------------------------------------------------------------
(* Properties of the machinery, whatever primitive uses it.                *)

CallbackSteps == {"none", "yield", "park", "disown", "release"}

SyncTypeOK ==
  /\ locked_ \in BOOLEAN
  /\ fibers_ \in Seq(Fibers)
  /\ is_owned_ \in [Fibers -> BOOLEAN]
  /\ ready \subseteq Fibers
  /\ running \in [Workers -> Fibers \cup {NULL}]
  /\ cb \in [Workers -> CallbackSteps]
  /\ \A w \in Workers : cb[w] # "none" => running[w] # NULL

\* A fiber can be resumed at one place only: it is submitted once, or waits in
\* fibers_ once, or runs on one thread.  A FiberHandle is used once, and no two
\* threads run the same coroutine.  While the callback of Park is between PushBack
\* and the end of unlock, the fiber is already in fibers_.
Published == {"disown", "release"}

OnePlace ==
  /\ \A i, j \in DOMAIN fibers_ : i # j => fibers_[i] # fibers_[j]
  /\ \A k \in DOMAIN fibers_ : fibers_[k] \notin ready
  /\ \A w \in Workers : running[w] # NULL =>
       /\ running[w] \notin ready
       /\ \A v \in Workers : v # w => running[v] # running[w]
       /\ (\E k \in DOMAIN fibers_ : fibers_[k] = running[w]) <=> cb[w] \in Published
=============================================================================

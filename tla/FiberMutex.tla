------------------------------ MODULE FiberMutex ------------------------------
(***************************************************************************)
(* fiber/sync/mutex: a mutex whose Lock suspends the fiber, not its thread.*)
(*                                                                         *)
(* A fiber makes up to MaxCalls calls of Lock or TryLock, may yield its    *)
(* thread while it holds the mutex, and unlocks it.  Unlock does not hand  *)
(* the mutex over: it wakes one waiter, and any fiber may take the mutex   *)
(* before the waiter does.                                                 *)
(***************************************************************************)
EXTENDS FiberSync

CONSTANT MaxCalls   \* bound: calls of Lock and TryLock by one fiber

ASSUME CallsAssumption == MaxCalls \in Nat

VARIABLES
  is_locked_,   \* Mutex::is_locked_
  calls         \* calls[f]: the calls of Lock and TryLock made by f

vars == <<syncVars, is_locked_, calls>>

Init ==
  /\ SyncInit
  /\ is_locked_ = FALSE
  /\ calls = [f \in Fibers |-> 0]

-----------------------------------------------------------------------------
(* Mutex::Lock                                                             *)

Begin(w, f, label) ==
  /\ Runs(w, f)
  /\ pc[f] = "idle"
  /\ calls[f] < MaxCalls
  /\ calls' = [calls EXCEPT ![f] = @ + 1]
  /\ Goto(f, label)
  /\ UNCHANGED <<locked_, fibers_, is_owned_, scheduler, is_locked_>>

Lock(w, f) == Begin(w, f, "lock")

\* The constructor of UniqueLock, or mutex.lock() at the end of Park.
LockSpin(w, f) ==
  /\ UniqueLock(w, f, "lock", "exchange")
  /\ UNCHANGED <<fibers_, scheduler, is_locked_, calls>>

\* The loop: std::exchange(is_locked_, true) reads the plain bool ...
LockRead(w, f) ==
  /\ Runs(w, f)
  /\ pc[f] = "exchange"
  /\ Goto(f, IF is_locked_ THEN "taken" ELSE "free")
  /\ UNCHANGED <<locked_, fibers_, is_owned_, scheduler, is_locked_, calls>>

\* Mutant of LockExchange: a woken waiter does not test the mutex again.
LockOnce(w, f) ==
  /\ Runs(w, f)
  /\ is_locked_' = TRUE
  /\ \/ pc[f] = "taken" /\ Suspend(w, f, "park", "lock_return")
     \/ pc[f] = "free" /\ Goto(f, "lock_return") /\ UNCHANGED scheduler
  /\ UNCHANGED <<locked_, fibers_, is_owned_, calls>>

\* ... and writes it; Park while the mutex was taken.
LockExchange(w, f) ==
  /\ Runs(w, f)
  /\ is_locked_' = TRUE
  /\ \/ pc[f] = "taken" /\ Suspend(w, f, "park", "lock")
     \/ pc[f] = "free" /\ Goto(f, "lock_return") /\ UNCHANGED scheduler
  /\ UNCHANGED <<locked_, fibers_, is_owned_, calls>>

LockReturn(w, f) ==
  /\ UniqueUnlock(w, f, "lock_return", "critical")
  /\ UNCHANGED <<fibers_, scheduler, is_locked_, calls>>

-----------------------------------------------------------------------------
(* Mutex::TryLock                                                          *)

TryLock(w, f) == Begin(w, f, "trylock")

TryLockSpin(w, f) ==
  /\ SpinLock(w, f, "trylock", "try_exchange")
  /\ UNCHANGED <<fibers_, is_owned_, scheduler, is_locked_, calls>>

TryLockRead(w, f) ==
  /\ Runs(w, f)
  /\ pc[f] = "try_exchange"
  /\ Goto(f, IF is_locked_ THEN "try_taken" ELSE "try_free")
  /\ UNCHANGED <<locked_, fibers_, is_owned_, scheduler, is_locked_, calls>>

TryLockExchange(w, f) ==
  /\ Runs(w, f)
  /\ is_locked_' = TRUE
  /\ \/ pc[f] = "try_taken" /\ Goto(f, "try_failed")
     \/ pc[f] = "try_free" /\ Goto(f, "try_locked")
  /\ UNCHANGED <<locked_, fibers_, is_owned_, scheduler, calls>>

TryLockReturn(w, f) ==
  /\ SpinUnlock(w, f, "try_locked", "critical") \/ SpinUnlock(w, f, "try_failed", "idle")
  /\ UNCHANGED <<fibers_, is_owned_, scheduler, is_locked_, calls>>

-----------------------------------------------------------------------------
(* The critical section, and Mutex::Unlock                                 *)

\* The fiber yields its thread while it holds the mutex (once).
Yield(w, f) ==
  /\ Runs(w, f)
  /\ pc[f] = "critical"
  /\ Suspend(w, f, "yield", "yielded")
  /\ UNCHANGED <<locked_, fibers_, is_owned_, is_locked_, calls>>

UnlockSpin(w, f) ==
  /\ SpinLock(w, f, "critical", "unlock") \/ SpinLock(w, f, "yielded", "unlock")
  /\ UNCHANGED <<fibers_, is_owned_, scheduler, is_locked_, calls>>

\* is_locked_ = false, and WakeOne.
UnlockWake(w, f) ==
  /\ Runs(w, f)
  /\ pc[f] = "unlock"
  /\ is_locked_' = FALSE
  /\ WakeOne
  /\ Goto(f, "unlock_return")
  /\ UNCHANGED <<locked_, is_owned_, running, cb, calls>>

UnlockReturn(w, f) ==
  /\ SpinUnlock(w, f, "unlock_return", "idle")
  /\ UNCHANGED <<fibers_, is_owned_, scheduler, is_locked_, calls>>

-----------------------------------------------------------------------------
\* What a thread does on its own: everything but the fiber's choice of a call.
Inside(w, f) ==
  \/ LockSpin(w, f) \/ LockRead(w, f) \/ LockExchange(w, f) \/ LockReturn(w, f)
  \/ TryLockSpin(w, f) \/ TryLockRead(w, f) \/ TryLockExchange(w, f) \/ TryLockReturn(w, f)
  \/ UnlockSpin(w, f) \/ UnlockWake(w, f) \/ UnlockReturn(w, f)

Sched(w) ==
  /\ Callback(w) \/ \E f \in Fibers : Resume(w, f) \/ Finish(w, f)
  /\ UNCHANGED <<is_locked_, calls>>

Step(w) == Sched(w) \/ \E f \in Fibers : Inside(w, f)

Terminated == (\A f \in Fibers : pc[f] = "finished") /\ UNCHANGED vars

Next ==
  \/ \E w \in Workers :
       Step(w) \/ \E f \in Fibers : Lock(w, f) \/ TryLock(w, f) \/ Yield(w, f)
  \/ Terminated

Spec == Init /\ [][Next]_vars

-----------------------------------------------------------------------------
(* Properties.                                                             *)

Labels == {"idle", "lock", "exchange", "taken", "free", "lock_return",
           "trylock", "try_exchange", "try_taken", "try_free", "try_locked", "try_failed",
           "critical", "yielded", "unlock", "unlock_return", "finished"}

TypeOK ==
  /\ SyncTypeOK
  /\ pc \in [Fibers -> Labels]
  /\ is_locked_ \in BOOLEAN
  /\ calls \in [Fibers -> 0 .. MaxCalls]

\* The fibers that hold the mutex, from the exchange to the store in Unlock.
HolderPcs == {"lock_return", "try_locked", "critical", "yielded", "unlock"}
Holders == {f \in Fibers : pc[f] \in HolderPcs}

\* Mutual exclusion: at most one fiber holds the mutex, and is_locked_ says so.
MutualExclusion ==
  /\ \A f, g \in Holders : f = g
  /\ is_locked_ <=> Holders # {}

\* The pcs at which a fiber, and the steps at which a callback, owns spin_; at
\* those of FlagPcs its is_owned_ is set.
FlagPcs == {"exchange", "taken", "free", "lock_return"}
SpinPcs == FlagPcs \cup {"try_exchange", "try_taken", "try_free", "try_locked", "try_failed",
                         "unlock", "unlock_return"}
ParkSteps == {"park", "disown", "release"}
SpinOwner(w) == \/ cb[w] \in ParkSteps
                \/ cb[w] = "none" /\ running[w] # NULL /\ pc[running[w]] \in SpinPcs

\* spin_ has one owner, and it is a thread that is executing: spin_ stays owned
\* while Park suspends its fiber, but never after the fiber has left the thread,
\* so a thread that spins always waits for one that runs.
SpinOwned ==
  /\ \A w, v \in Workers : SpinOwner(w) /\ SpinOwner(v) => w = v
  /\ locked_ <=> \E w \in Workers : SpinOwner(w)

(* The inductive invariant.  RunningOK, SpinRuns, WaitersLock: where a fiber *)
(* is tells what it does next.  FlagOwned: is_owned_ says that the fiber's   *)
(* own call, or the callback of its Park, owns spin_.                        *)
RunningOK ==
  \A w \in Workers :
    /\ cb[w] \in ParkSteps => pc[running[w]] = "lock"
    /\ cb[w] = "yield" => pc[running[w]] = "yielded"

SpinRuns == \A f \in Fibers : pc[f] \in SpinPcs => \E w \in Workers : Runs(w, f)

WaitersLock == \A k \in DOMAIN fibers_ : pc[fibers_[k]] = "lock"

FlagOwner(w, f) ==
  /\ running[w] = f
  /\ cb[w] \in {"park", "disown"} \/ (cb[w] = "none" /\ pc[f] \in FlagPcs)

FlagOwned == \A f \in Fibers : is_owned_[f] <=> \E w \in Workers : FlagOwner(w, f)

SyncInv == SyncTypeOK /\ OnePlace /\ SpinOwned /\ RunningOK /\ SpinRuns /\ WaitersLock /\ FlagOwned

\* What a fiber has read of is_locked_ is still so when it writes it.
ReadIsFresh ==
  \A f \in Fibers :
    /\ pc[f] \in {"free", "try_free"} => ~ is_locked_
    /\ pc[f] \in {"taken", "try_taken"} => is_locked_

MutexInv == TypeOK /\ SyncInv /\ ReadIsFresh /\ MutualExclusion

\* No lost wake-up: when the mutex is free and fibers wait for it, one that has
\* been woken is on its way to the test, or the thread in Unlock still owns spin_.
NoLostWakeup ==
  ~ is_locked_ /\ fibers_ # << >> =>
    \E f \in Fibers : /\ pc[f] \in {"lock", "exchange", "free"}
                      /\ \A k \in DOMAIN fibers_ : fibers_[k] # f
=============================================================================

---------------------------- MODULE FiberWaitGroup ----------------------------
(***************************************************************************)
(* fiber/sync/wait_group, and Event, which is a WaitGroup with one Add(1). *)
(*                                                                         *)
(* Any fiber may call Add(1), up to MaxAdds calls in all; it owes a Done   *)
(* for each, and calls Wait only while it owes none.  The WaitGroup may be *)
(* used again after its counter has reached zero.                          *)
(***************************************************************************)
EXTENDS FiberSync

CONSTANTS
  MaxAdds,    \* bound: calls of Add
  MaxWaits    \* bound: calls of Wait by one fiber

VARIABLES
  count_,   \* WaitGroup::count_
  adds,     \* calls of Add so far
  waits,    \* waits[f]: calls of Wait by f so far
  owed,     \* owed[f]: calls of Done that f still has to make
  zero      \* history: zero[f]: count_ has been 0 since f called Wait

history == <<adds, waits, owed>>
vars == <<syncVars, count_, history, zero>>

Init ==
  /\ SyncInit
  /\ count_ = 0
  /\ adds = 0
  /\ waits = [f \in Fibers |-> 0]
  /\ owed = [f \in Fibers |-> 0]
  /\ zero = [f \in Fibers |-> FALSE]

Call(w, f, label) ==
  /\ Runs(w, f)
  /\ pc[f] = "idle"
  /\ Goto(f, label)
  /\ UNCHANGED <<locked_, fibers_, is_owned_, scheduler, count_>>

-----------------------------------------------------------------------------
(* Add and Done                                                            *)

Add(w, f) ==
  /\ Call(w, f, "add")
  /\ adds < MaxAdds
  /\ adds' = adds + 1
  /\ UNCHANGED <<waits, owed, zero>>

AddSpin(w, f) ==
  /\ SpinLock(w, f, "add", "add_count")
  /\ UNCHANGED <<fibers_, is_owned_, scheduler, count_, history, zero>>

AddCount(w, f) ==
  /\ Runs(w, f)
  /\ pc[f] = "add_count"
  /\ count_' = count_ + 1
  /\ owed' = [owed EXCEPT ![f] = @ + 1]
  /\ Goto(f, "return")
  /\ UNCHANGED <<locked_, fibers_, is_owned_, scheduler, adds, waits, zero>>

Done(w, f) ==
  /\ Call(w, f, "done")
  /\ owed[f] > 0
  /\ owed' = [owed EXCEPT ![f] = @ - 1]
  /\ UNCHANGED <<adds, waits, zero>>

DoneSpin(w, f) ==
  /\ SpinLock(w, f, "done", "done_count")
  /\ UNCHANGED <<fibers_, is_owned_, scheduler, count_, history, zero>>

\* Mutant of DoneCount: spin_ is released before the lock_guard does it.
DoneUnlocksTwice(w, f) ==
  /\ Runs(w, f)
  /\ pc[f] = "done_count"
  /\ count_' = count_ - 1
  /\ IF count_' = 0 THEN WakeAll ELSE UNCHANGED <<fibers_, ready>>
  /\ zero' = [g \in Fibers |-> zero[g] \/ count_' = 0]
  /\ locked_' = FALSE
  /\ Goto(f, "return")
  /\ UNCHANGED <<is_owned_, running, cb, history>>

\* --count_, and WakeAll when it is 0.
DoneCount(w, f) ==
  /\ Runs(w, f)
  /\ pc[f] = "done_count"
  /\ count_' = count_ - 1
  /\ IF count_' = 0 THEN WakeAll ELSE UNCHANGED <<fibers_, ready>>
  /\ zero' = [g \in Fibers |-> zero[g] \/ count_' = 0]
  /\ Goto(f, "return")
  /\ UNCHANGED <<locked_, is_owned_, running, cb, history>>

\* The end of the lock_guard, in Add and in Done.
Return(w, f) ==
  /\ SpinUnlock(w, f, "return", "idle")
  /\ UNCHANGED <<fibers_, is_owned_, scheduler, count_, history, zero>>

-----------------------------------------------------------------------------
(* Wait                                                                    *)

Wait(w, f) ==
  /\ Call(w, f, "wait")
  /\ owed[f] = 0
  /\ waits[f] < MaxWaits
  /\ waits' = [waits EXCEPT ![f] = @ + 1]
  /\ zero' = [zero EXCEPT ![f] = (count_ = 0)]
  /\ UNCHANGED <<adds, owed>>

WaitSpin(w, f) ==
  /\ UniqueLock(w, f, "wait", "wait_test")
  /\ UNCHANGED <<fibers_, scheduler, count_, history, zero>>

\* Park, if the counter is not 0; a woken waiter does not look at it again.
WaitTest(w, f) ==
  /\ Runs(w, f)
  /\ pc[f] = "wait_test"
  /\ IF count_ # 0
     THEN Suspend(w, f, "park", "woken")
     ELSE Goto(f, "wait_return") /\ UNCHANGED scheduler
  /\ UNCHANGED <<locked_, fibers_, is_owned_, count_, history, zero>>

\* mutex.lock() at the end of Park.
WaitRelock(w, f) ==
  /\ UniqueLock(w, f, "woken", "wait_return")
  /\ UNCHANGED <<fibers_, scheduler, count_, history, zero>>

WaitReturn(w, f) ==
  /\ UniqueUnlock(w, f, "wait_return", "idle")
  /\ UNCHANGED <<fibers_, scheduler, count_, history, zero>>

-----------------------------------------------------------------------------
Inside(w, f) ==
  \/ AddSpin(w, f) \/ AddCount(w, f) \/ DoneSpin(w, f) \/ DoneCount(w, f) \/ Return(w, f)
  \/ WaitSpin(w, f) \/ WaitTest(w, f) \/ WaitRelock(w, f) \/ WaitReturn(w, f)

\* A fiber ends only when it owes no Done.
Sched(w) ==
  /\ Callback(w) \/ \E f \in Fibers : Resume(w, f) \/ (owed[f] = 0 /\ Finish(w, f))
  /\ UNCHANGED <<count_, history, zero>>

Step(w) == Sched(w) \/ \E f \in Fibers : Inside(w, f) \/ Done(w, f)

Terminated == (\A f \in Fibers : pc[f] = "finished") /\ UNCHANGED vars

Next ==
  \/ \E w \in Workers : Step(w) \/ \E f \in Fibers : Add(w, f) \/ Wait(w, f)
  \/ Terminated

Spec == Init /\ [][Next]_vars

-----------------------------------------------------------------------------
(* Properties.                                                             *)

Labels == {"idle", "add", "add_count", "done", "done_count", "return", "wait", "wait_test",
           "woken", "wait_return", "finished"}

TypeOK ==
  /\ SyncTypeOK
  /\ pc \in [Fibers -> Labels]
  /\ count_ \in Nat
  /\ adds \in 0 .. MaxAdds
  /\ waits \in [Fibers -> 0 .. MaxWaits]
  /\ owed \in [Fibers -> Nat]
  /\ zero \in [Fibers -> BOOLEAN]

\* Wait returns only if the counter was 0 at some instant of the call, although a
\* woken waiter does not test it again and the WaitGroup may be in use again.
ReturnsAfterZero == \A f \in Fibers : pc[f] = "wait_return" => zero[f]

\* No waiter is left behind: fibers wait only while a Done is still to come, or
\* while the fiber that is about to park them or to wake them owns spin_.
WaitersExpectDone == fibers_ # << >> => count_ # 0

\* When Wait has returned and the counter is still 0, the thread of the last Done
\* has left it: the owner may destroy the WaitGroup (Event on the waiter's stack).
Touching == {"add_count", "done", "done_count", "return"}
DoneIsOver ==
  [][\A f \in Fibers : pc[f] = "wait_return" /\ pc'[f] = "idle" /\ count_ = 0 =>
       \A g \in Fibers \ {f} : pc'[g] \notin Touching]_vars
=============================================================================

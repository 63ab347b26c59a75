---------------------------- MODULE ThreadWaitGroup ----------------------------
(***************************************************************************)
(* thread/wait_group.hpp over Mutex and CondVar: a call, and what it does  *)
(* while it holds the mutex.                                               *)
(*                                                                         *)
(* Any thread may call Add, owes a Done for each unit it added, and calls  *)
(* Wait only while it owes none.                                           *)
(***************************************************************************)
EXTENDS FutexSync

CONSTANTS
  MaxCount,   \* bound: units added in all
  MaxWaits    \* bound: calls of Wait in all

ASSUME WaitGroupAssumption == MaxCount \in Nat /\ MaxWaits \in Nat

VARIABLES
  count_,      \* WaitGroup::count_
  waiters,     \* WaitGroup::waiting_
  owed,        \* owed[t]: calls of Done that t still has to make
  adds,        \* units added so far
  waits        \* calls of Wait so far

groupVars == <<count_, waiters, owed, adds, waits>>

GroupInit ==
  /\ count_ = 0
  /\ waiters = 0
  /\ owed = [t \in Threads |-> 0]
  /\ adds = 0
  /\ waits = 0

Add(t, n) ==
  /\ Calls(t, "add", "count")
  /\ owed[t] = 0
  /\ adds + n <= MaxCount
  /\ adds' = adds + n
  /\ owed' = [owed EXCEPT ![t] = n]
  /\ UNCHANGED <<count_, waiters, waits>>

AddCount(t) ==
  /\ op[t] = "add"
  /\ Section(t, "count", "unlock")
  /\ count_' = count_ + owed[t]
  /\ UNCHANGED <<waiters, owed, adds, waits>>

Done(t) ==
  /\ Calls(t, "done", "count")
  /\ owed[t] > 0
  /\ owed' = [owed EXCEPT ![t] = @ - 1]
  /\ UNCHANGED <<count_, waiters, adds, waits>>

\* Mutant of DoneCount: the waiters are notified after the mutex is released.
DoneCountUnlocks(t) ==
  /\ op[t] = "done"
  /\ pc[t] = "count"
  /\ count_' = count_ - 1
  /\ Enter(t, "unlock", IF waiters > 0 THEN "notify_all" ELSE "idle")
  /\ UNCHANGED <<is_vacant_, atom_, order, op, waiters, owed, adds, waits>>

DoneCount(t) ==
  /\ op[t] = "done"
  /\ Section(t, "count", IF waiters > 0 THEN "notify_all" ELSE "unlock")
  /\ count_' = count_ - 1
  /\ UNCHANGED <<waiters, owed, adds, waits>>

Wait(t) ==
  /\ Calls(t, "wait", "enter")
  /\ owed[t] = 0
  /\ waits < MaxWaits
  /\ waits' = waits + 1
  /\ UNCHANGED <<count_, waiters, owed, adds>>

WaitEnter(t) ==
  /\ op[t] = "wait"
  /\ Section(t, "enter", "test")
  /\ waiters' = waiters + 1
  /\ UNCHANGED <<count_, owed, adds, waits>>

WaitTest(t) ==
  /\ op[t] = "wait"
  /\ Section(t, "test", IF count_ # 0 THEN "cv_wait" ELSE "unlock")
  /\ waiters' = IF count_ # 0 THEN waiters ELSE waiters - 1
  /\ UNCHANGED <<count_, owed, adds, waits>>

GroupStep(t) == AddCount(t) \/ Done(t) \/ DoneCount(t) \/ WaitEnter(t) \/ WaitTest(t)

GroupCall(t) == Wait(t) \/ \E n \in 1 .. MaxCount : Add(t, n)

-----------------------------------------------------------------------------
(* Properties.                                                             *)

GroupTypeOK ==
  /\ count_ \in Nat /\ waiters \in Nat
  /\ owed \in [Threads -> 0 .. MaxCount]
  /\ adds \in 0 .. MaxCount /\ waits \in 0 .. MaxWaits

\* A thread sleeps in CondVar::Wait only while a Done is to come, or its
\* notification is being given: a thread that has counted itself in waiting_ is
\* told, though Done looks at waiting_ and not at who sleeps.
WaitersTold ==
  (\E t \in In("cv_sleep") : op[t] = "wait") =>
    count_ # 0 \/ In("notify_all") \cup In("wake_all") # {}

\* When a Wait is about to return, a thread that made a Done has at most its WakeOne
\* left, which does not touch the mutex: the waiter may destroy the WaitGroup.
DoneIsOver ==
  \A t, s \in Threads :
    (op[t] = "wait" /\ pc[t] = "unlock" /\ count_ = 0 /\ op[s] = "done") => pc[s] = "unlock_wake"
================================================================================

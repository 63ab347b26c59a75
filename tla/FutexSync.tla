------------------------------ MODULE FutexSync ------------------------------
(***************************************************************************)
(* The project's own Mutex (thread/mutex.hpp) and CondVar                  *)
(* (thread/condvar.hpp), which wait with futexes, and the thread that      *)
(* calls them from a wait group or a blocking queue.                       *)
(*                                                                         *)
(* Lock, Unlock, Wait and Notify are written as procedures: ret[t] is the  *)
(* label after the call of Lock or Unlock.  The futex is the library's     *)
(* (external): Wait sleeps if the word has the expected value, in one      *)
(* step, and may return for no reason; Wake wakes threads that sleep.      *)
(***************************************************************************)
EXTENDS Integers, FiniteSets

CONSTANTS
  Threads,
  Width       \* bits of the CondVar's counter: 32 in the code

ASSUME FutexAssumption == IsFiniteSet(Threads) /\ Width \in Nat

VARIABLES
  is_vacant_,  \* Mutex::is_vacant_
  atom_,       \* CondVar::atom_
  pc,          \* pc[t]: the label of the next step of t
  ret,         \* ret[t]: where t goes on when it has locked or unlocked
  order,       \* order[t]: my_order in CondVar::Wait
  op           \* op[t]: the operation t is in, of what uses the two

futexVars == <<is_vacant_, atom_, pc, ret, order, op>>

Unlocked == 0
Locked == 1
Waiting == 2

FutexInit ==
  /\ is_vacant_ = Unlocked
  /\ atom_ = 0
  /\ pc = [t \in Threads |-> "idle"]
  /\ ret = [t \in Threads |-> "idle"]
  /\ order = [t \in Threads |-> 0]
  /\ op = [t \in Threads |-> "none"]

In(label) == {t \in Threads : pc[t] = label}

Goto(t, label) == pc' = [pc EXCEPT ![t] = label]

\* Call Lock, Unlock or Notify, and go on at "after".
Enter(t, label, after) == Goto(t, label) /\ ret' = [ret EXCEPT ![t] = after]

\* What the return of Lock or Unlock to t's caller does to op.
Returns(t) == op' = IF ret[t] = "idle" THEN [op EXCEPT ![t] = "none"] ELSE op

\* A call begins, which locks the mutex and goes on at label "section".
Calls(t, name, section) ==
  /\ pc[t] = "idle"
  /\ op' = [op EXCEPT ![t] = name]
  /\ Enter(t, "lock", section)
  /\ UNCHANGED <<is_vacant_, atom_, order>>

\* In its critical section t goes on at label, with the mutex.
Section(t, from, label) ==
  /\ pc[t] = from
  /\ Enter(t, label, "idle")
  /\ UNCHANGED <<is_vacant_, atom_, order, op>>

-----------------------------------------------------------------------------
(* Mutex                                                                   *)

Lock(t) ==
  /\ pc[t] = "lock"
  /\ IF is_vacant_ = Unlocked
       THEN is_vacant_' = Locked /\ Goto(t, ret[t])
       ELSE Goto(t, "lock_loop") /\ UNCHANGED is_vacant_
  /\ UNCHANGED <<ret, atom_, order, op>>

LockLoop(t) ==
  /\ pc[t] = "lock_loop"
  /\ is_vacant_' = Waiting
  /\ Goto(t, IF is_vacant_ = Unlocked THEN ret[t] ELSE "lock_wait")
  /\ UNCHANGED <<ret, atom_, order, op>>

LockWait(t) ==
  /\ pc[t] = "lock_wait"
  /\ Goto(t, IF is_vacant_ = Waiting THEN "lock_sleep" ELSE "lock_loop")
  /\ UNCHANGED <<is_vacant_, ret, atom_, order, op>>

Unlock(t) ==
  /\ pc[t] = "unlock"
  /\ is_vacant_' = Unlocked
  /\ IF is_vacant_ = Waiting
       THEN Goto(t, "unlock_wake") /\ UNCHANGED op
       ELSE Goto(t, ret[t]) /\ Returns(t)
  /\ UNCHANGED <<ret, atom_, order>>

\* WakeOne by a key made before is_vacant_ was given up.
UnlockWake(t) ==
  /\ pc[t] = "unlock_wake"
  /\ IF In("lock_sleep") = {}
       THEN Goto(t, ret[t])
       ELSE \E s \in In("lock_sleep") :
              pc' = [pc EXCEPT ![t] = ret[t], ![s] = "lock_loop"]
  /\ Returns(t)
  /\ UNCHANGED <<is_vacant_, ret, atom_, order>>

-----------------------------------------------------------------------------
(* CondVar                                                                 *)

CvWait(t) ==
  /\ pc[t] = "cv_wait"
  /\ order' = [order EXCEPT ![t] = atom_]
  /\ Enter(t, "unlock", "cv_loop")
  /\ UNCHANGED <<is_vacant_, atom_, op>>

CvLoop(t) ==
  /\ pc[t] = "cv_loop"
  /\ IF atom_ <= order[t]
       THEN Goto(t, "cv_futex") /\ UNCHANGED ret
       ELSE Enter(t, "lock", "test")
  /\ UNCHANGED <<is_vacant_, atom_, order, op>>

CvFutex(t) ==
  /\ pc[t] = "cv_futex"
  /\ Goto(t, IF atom_ = order[t] THEN "cv_sleep" ELSE "cv_loop")
  /\ UNCHANGED <<is_vacant_, ret, atom_, order, op>>

\* Mutant of NotifyAdd: the waiters are woken but not told.
NotifyAddNothing(t) ==
  /\ pc[t] \in {"notify_one", "notify_all"}
  /\ Goto(t, IF pc[t] = "notify_one" THEN "wake_one" ELSE "wake_all")
  /\ UNCHANGED <<is_vacant_, ret, atom_, order, op>>

\* NotifyOne and NotifyAll: fetch_add ...
NotifyAdd(t) ==
  /\ pc[t] \in {"notify_one", "notify_all"}
  /\ atom_' = (atom_ + 1) % 2^Width
  /\ Goto(t, IF pc[t] = "notify_one" THEN "wake_one" ELSE "wake_all")
  /\ UNCHANGED <<is_vacant_, ret, order, op>>

\* ... and WakeAll or WakeOne; the caller then releases the mutex.
NotifyWakeAll(t) ==
  /\ pc[t] = "wake_all"
  /\ pc' = [s \in Threads |->
              IF s = t THEN "unlock" ELSE IF pc[s] = "cv_sleep" THEN "cv_loop" ELSE pc[s]]
  /\ UNCHANGED <<is_vacant_, ret, atom_, order, op>>

NotifyWakeOne(t) ==
  /\ pc[t] = "wake_one"
  /\ IF In("cv_sleep") = {}
       THEN Goto(t, "unlock")
       ELSE \E s \in In("cv_sleep") : pc' = [pc EXCEPT ![t] = "unlock", ![s] = "cv_loop"]
  /\ UNCHANGED <<is_vacant_, ret, atom_, order, op>>

SpuriousWakeup(t) ==
  /\ \/ pc[t] = "lock_sleep" /\ Goto(t, "lock_loop")
     \/ pc[t] = "cv_sleep" /\ Goto(t, "cv_loop")
  /\ UNCHANGED <<is_vacant_, ret, atom_, order, op>>

-----------------------------------------------------------------------------
FutexStep(t) ==
  \/ Lock(t) \/ LockLoop(t) \/ LockWait(t) \/ Unlock(t) \/ UnlockWake(t)
  \/ CvWait(t) \/ CvLoop(t) \/ CvFutex(t)
  \/ NotifyAdd(t) \/ NotifyWakeOne(t) \/ NotifyWakeAll(t)

-----------------------------------------------------------------------------
(* Properties.                                                             *)

\* The labels at which a thread has the mutex; "count", "value", "close" and "enter" are
\* those of the operations that use it, and "test" that of their loops.
Sections ==
  {"count", "value", "close", "enter", "test", "notify_one", "notify_all", "wake_one",
   "wake_all", "cv_wait", "unlock"}

Owners == {t \in Threads : pc[t] \in Sections}

Labels ==
  Sections \cup {"idle", "lock", "lock_loop", "lock_wait", "lock_sleep", "unlock_wake",
                 "cv_loop", "cv_futex", "cv_sleep"}

FutexTypeOK ==
  /\ is_vacant_ \in {Unlocked, Locked, Waiting}
  /\ atom_ \in 0 .. 2^Width - 1
  /\ pc \in [Threads -> Labels]
  /\ ret \in [Threads -> Labels]
  /\ order \in [Threads -> 0 .. 2^Width - 1]

\* One thread has the mutex, and none if its word says so: a lock is neither given
\* twice nor lost, whether it is taken at once or after a sleep.
MutualExclusion ==
  Cardinality(Owners) = IF is_vacant_ = Unlocked THEN 0 ELSE 1

\* A thread sleeps on the mutex only while its owner is bound to wake someone, or
\* while a thread is awake that will mark the mutex again: no Unlock leaves out
\* the WakeOne that a sleeper depends on.
SleepersCovered ==
  In("lock_sleep") # {} =>
    \/ is_vacant_ = Waiting
    \/ In("unlock_wake") \cup In("lock_loop") # {}
=============================================================================

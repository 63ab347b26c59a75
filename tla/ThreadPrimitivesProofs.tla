------------------------ MODULE ThreadPrimitivesProofs ------------------------
(* Proofs about ThreadPrimitives, for any finite number of threads: the futex   *)
(* mutex excludes and forgets no sleeper, a wait group may be destroyed as soon *)
(* as a Wait has seen zero, no waiter and no Pop sleeps for nothing, and the    *)
(* queue is first-in first-out.                                                 *)
EXTENDS ThreadPrimitives, TLAPS, FiniteSetTheorems, SequenceTheorems

Locking == {"lock", "lock_loop", "lock_wait", "lock_sleep"}
Critical == {"count", "value", "close", "enter", "test"}
Releasing == {"unlock", "unlock_wake"}
Notifying == {"notify_one", "notify_all", "wake_one", "wake_all"}

Owns(t) == pc[t] \in Sections

ControlTypeOK ==
  /\ is_vacant_ \in {Unlocked, Locked, Waiting}
  /\ pc \in [Threads -> Labels]
  /\ ret \in [Threads -> Labels]
  /\ op \in [Threads -> {"none", "add", "done", "wait", "push", "pop", "close"}]

\* Where the thread goes on after Lock and Unlock, by its label; a thread in Add
\* or Done never waits for a notification.
ControlOK(t) ==
  /\ pc[t] \in Locking => ret[t] \in Critical
  /\ pc[t] \in Releasing => ret[t] \in {"idle", "cv_loop"}
  /\ pc[t] \in Notifying => ret[t] = "idle"
  /\ op[t] \in {"add", "done"} =>
       /\ pc[t] \in Locking \cup {"count", "notify_all", "wake_all"} \cup Releasing
       /\ pc[t] \in Locking => ret[t] = "count"
       /\ pc[t] \in Releasing => ret[t] = "idle"

OneOwner ==
  /\ \A s, t \in Threads : Owns(s) /\ Owns(t) => s = t
  /\ is_vacant_ = Unlocked <=> \A t \in Threads : ~ Owns(t)

LockInv ==
  /\ ControlTypeOK
  /\ \A t \in Threads : ControlOK(t)
  /\ OneOwner

-----------------------------------------------------------------------------
(* What a step of thread t does to the mutex and to the other threads.      *)

\* The others stay where they are, but for those that t wakes.
Others(t) ==
  \A u \in Threads \ {t} :
    /\ ret'[u] = ret[u] /\ op'[u] = op[u]
    /\ \/ pc'[u] = pc[u]
       \/ pc[u] = "lock_sleep" /\ pc'[u] = "lock_loop"
       \/ pc[u] = "cv_sleep" /\ pc'[u] = "cv_loop"

\* t keeps, takes, or releases the mutex.
Ownership(t) ==
  \/ (Owns(t)' <=> Owns(t)) /\ (is_vacant_' = Unlocked <=> is_vacant_ = Unlocked)
  \/ ~ Owns(t) /\ Owns(t)' /\ is_vacant_ = Unlocked /\ is_vacant_' # Unlocked
  \/ Owns(t) /\ ~ Owns(t)' /\ is_vacant_' = Unlocked

Effect(t) == ControlTypeOK' /\ ControlOK(t)' /\ Others(t) /\ Ownership(t)

\* Such a step preserves the invariant.
LEMMA EffectKeeps ==
  ASSUME LockInv, NEW t \in Threads, Effect(t)
  PROVE  LockInv'
<1>1. \A u \in Threads \ {t} : ControlOK(u)' /\ (Owns(u)' <=> Owns(u))
  <2> SUFFICES ASSUME NEW u \in Threads \ {t} PROVE ControlOK(u)' /\ (Owns(u)' <=> Owns(u))
    OBVIOUS
  <2>1. ret'[u] = ret[u] /\ op'[u] = op[u] /\ ControlOK(u)
    BY DEF Effect, Others, LockInv
  <2>2. CASE pc'[u] = pc[u]
    BY <2>1, <2>2 DEF ControlOK, Owns
  <2>3. CASE pc[u] = "lock_sleep" /\ pc'[u] = "lock_loop"
    BY <2>1, <2>3 DEF ControlOK, Owns, Sections, Locking, Releasing, Notifying
  <2>4. CASE pc[u] = "cv_sleep" /\ pc'[u] = "cv_loop"
    BY <2>1, <2>4 DEF ControlOK, Owns, Sections, Locking, Releasing, Notifying
  <2> QED BY <2>2, <2>3, <2>4 DEF Effect, Others
<1>2. OneOwner'
  <2>1. CASE (Owns(t)' <=> Owns(t)) /\ (is_vacant_' = Unlocked <=> is_vacant_ = Unlocked)
    BY <1>1, <2>1 DEF LockInv, OneOwner
  <2>2. CASE ~ Owns(t) /\ Owns(t)' /\ is_vacant_ = Unlocked /\ is_vacant_' # Unlocked
    BY <1>1, <2>2 DEF LockInv, OneOwner
  <2>3. CASE Owns(t) /\ ~ Owns(t)' /\ is_vacant_' = Unlocked
    BY <1>1, <2>3 DEF LockInv, OneOwner
  <2> QED BY <2>1, <2>2, <2>3 DEF Effect, Ownership
<1> QED BY <1>1, <1>2 DEF LockInv, Effect

\* Steps of Mutex and CondVar.
LEMMA FutexEffect ==
  ASSUME LockInv, NEW t \in Threads, FutexStep(t) \/ SpuriousWakeup(t)
  PROVE  Effect(t)
<1> USE DEF Effect, ControlTypeOK, ControlOK, Others, Ownership, Owns, Goto, Enter,
            Sections, Locking, Critical, Releasing, Notifying, Labels,
            Unlocked, Locked, Waiting
<1>0. ControlTypeOK /\ ControlOK(t)
  BY DEF LockInv
<1>1. CASE Lock(t)
  BY <1>0, <1>1 DEF Lock
<1>2. CASE LockLoop(t)
  BY <1>0, <1>2 DEF LockLoop
<1>3. CASE LockWait(t)
  BY <1>0, <1>3 DEF LockWait
<1>4. CASE Unlock(t)
  BY <1>0, <1>4 DEF Unlock, Returns
<1>5. CASE UnlockWake(t)
  <2>1. CASE In("lock_sleep") = {}
    BY <1>0, <1>5, <2>1 DEF UnlockWake, Returns
  <2>2. ASSUME NEW s \in In("lock_sleep"),
               pc' = [pc EXCEPT ![t] = ret[t], ![s] = "lock_loop"]
        PROVE  Effect(t)
    BY <1>0, <1>5, <2>2 DEF UnlockWake, Returns, In
  <2> QED BY <1>5, <2>1, <2>2 DEF UnlockWake
<1>6. CASE CvWait(t)
  BY <1>0, <1>6 DEF CvWait
<1>7. CASE CvLoop(t)
  BY <1>0, <1>7 DEF CvLoop
<1>8. CASE CvFutex(t)
  BY <1>0, <1>8 DEF CvFutex
<1>9. CASE NotifyAdd(t)
  BY <1>0, <1>9 DEF NotifyAdd
<1>10. CASE NotifyWakeOne(t)
  <2>1. CASE In("cv_sleep") = {}
    BY <1>0, <1>10, <2>1 DEF NotifyWakeOne
  <2>2. ASSUME NEW s \in In("cv_sleep"),
               pc' = [pc EXCEPT ![t] = "unlock", ![s] = "cv_loop"]
        PROVE  Effect(t)
    BY <1>0, <1>10, <2>2 DEF NotifyWakeOne, In
  <2> QED BY <1>10, <2>1, <2>2 DEF NotifyWakeOne
<1>11. CASE NotifyWakeAll(t)
  BY <1>0, <1>11 DEF NotifyWakeAll
<1>12. CASE SpuriousWakeup(t)
  BY <1>0, <1>12 DEF SpuriousWakeup
<1> QED
  BY <1>1, <1>2, <1>3, <1>4, <1>5, <1>6, <1>7, <1>8, <1>9, <1>10, <1>11, <1>12 DEF FutexStep

\* A call begins outside the mutex and is going to lock it.
LEMMA CallEffect ==
  ASSUME LockInv, NEW t \in Threads, NEW name, NEW section,
         name \in {"add", "done", "wait", "push", "pop", "close"},
         section \in Critical,
         name \in {"add", "done"} => section = "count",
         Calls(t, name, section)
  PROVE  Effect(t)
BY DEF LockInv, Effect, ControlTypeOK, ControlOK, Others, Ownership, Owns, Goto, Enter, Calls,
       Sections, Locking, Critical, Releasing, Notifying, Labels

\* What a thread does with the mutex keeps it.
LEMMA SectionEffect ==
  ASSUME LockInv, NEW t \in Threads, NEW from \in Critical, NEW label,
         label \in {"unlock", "test", "cv_wait", "notify_one", "notify_all"},
         op[t] \in {"add", "done"} => label \in {"unlock", "notify_all"},
         Section(t, from, label)
  PROVE  Effect(t)
BY DEF LockInv, Effect, ControlTypeOK, ControlOK, Others, Ownership, Owns, Goto, Enter, Section,
       Sections, Locking, Critical, Releasing, Notifying, Labels

LEMMA GroupEffect ==
  ASSUME LockInv, NEW t \in Threads, GroupStep(t) \/ GroupCall(t)
  PROVE  Effect(t)
<1> USE DEF Critical
<1>1. CASE AddCount(t)
  BY <1>1, SectionEffect DEF AddCount
<1>2. CASE Done(t)
  BY <1>2, CallEffect DEF Done
<1>3. CASE DoneCount(t)
  BY <1>3, SectionEffect DEF DoneCount
<1>4. CASE WaitEnter(t)
  BY <1>4, SectionEffect DEF WaitEnter
<1>5. CASE WaitTest(t)
  BY <1>5, SectionEffect DEF WaitTest
<1>6. CASE Wait(t)
  BY <1>6, CallEffect DEF Wait
<1>7. CASE \E n \in 1 .. MaxCount : Add(t, n)
  BY <1>7, CallEffect DEF Add
<1> QED BY <1>1, <1>2, <1>3, <1>4, <1>5, <1>6, <1>7 DEF GroupStep, GroupCall

LEMMA QueueEffect ==
  ASSUME LockInv, NEW t \in Threads, QueueStep(t) \/ QueueCall(t)
  PROVE  Effect(t)
<1> USE DEF Critical
<1>1. CASE PushValue(t)
  BY <1>1, SectionEffect DEF PushValue
<1>2. CASE PopEnter(t)
  BY <1>2, SectionEffect DEF PopEnter
<1>3. CASE PopTest(t)
  BY <1>3, SectionEffect DEF PopTest
<1>4. CASE CloseQueue(t)
  BY <1>4, SectionEffect DEF CloseQueue
<1>5. CASE Push(t) \/ Pop(t) \/ Close(t)
  BY <1>5, CallEffect DEF Push, Pop, Close
<1> QED BY <1>1, <1>2, <1>3, <1>4, <1>5 DEF QueueStep, QueueCall

\* Every step is one of a thread.
LEMMA NextEffect ==
  ASSUME LockInv, Next
  PROVE  \E t \in Threads : Effect(t)
BY FutexEffect, GroupEffect, QueueEffect DEF Next, Step, Call, Wakeup

LEMMA InitLocks == Init => LockInv
BY DEF Init, FutexInit, LockInv, ControlTypeOK, ControlOK, OneOwner, Owns, Sections, Labels,
       Locking, Releasing, Notifying

LEMMA NextLocks == LockInv /\ [Next]_vars => LockInv'
<1>1. ASSUME LockInv, Next PROVE LockInv'
  BY <1>1, NextEffect, EffectKeeps
<1>2. ASSUME LockInv, UNCHANGED vars PROVE LockInv'
  BY <1>2 DEF vars, futexVars, LockInv, ControlTypeOK, ControlOK, OneOwner, Owns
<1> QED BY <1>1, <1>2

LEMMA LocksAlways == Spec => []LockInv
BY InitLocks, NextLocks, PTL DEF Spec

-----------------------------------------------------------------------------
(* The mutex.                                                              *)

\* The futex mutex of thread/mutex.hpp has one owner, and none when its word says so.
THEOREM FutexExcludes == Spec => []MutualExclusion
<1>1. LockInv => MutualExclusion
  <2> SUFFICES ASSUME LockInv PROVE MutualExclusion
    OBVIOUS
  <2>1. CASE is_vacant_ = Unlocked
    <3>1. Owners = {}
      BY <2>1 DEF LockInv, OneOwner, Owns, Owners
    <3> QED BY <2>1, <3>1, FS_EmptySet DEF MutualExclusion
  <2>2. CASE is_vacant_ # Unlocked
    <3>1. PICK t \in Threads : Owns(t)
      BY <2>2 DEF LockInv, OneOwner
    <3>2. Owners = {t}
      BY <3>1 DEF LockInv, OneOwner, Owns, Owners
    <3> QED BY <2>2, <3>2, FS_Singleton DEF MutualExclusion
  <2> QED BY <2>1, <2>2
<1> QED BY <1>1, LocksAlways, PTL

\* A step that leaves the mutex's word alone, or sets it to Waiting, and sends nobody
\* from the labels that cover the sleepers, or to sleep.
LEMMA StillCovered ==
  ASSUME SleepersCovered,
         In("lock_sleep")' \subseteq In("lock_sleep"),
         is_vacant_' = is_vacant_ \/ is_vacant_' = Waiting \/ is_vacant_ = Unlocked,
         In("unlock_wake") \cup In("lock_loop") \subseteq (In("unlock_wake") \cup In("lock_loop"))'
  PROVE  SleepersCovered'
BY DEF SleepersCovered, Unlocked, Waiting

\* A step that does not touch the mutex.
LEMMA Elsewhere ==
  ASSUME SleepersCovered, NEW t \in Threads,
         pc[t] \notin {"unlock_wake", "lock_loop", "lock_sleep"}, Others(t),
         pc'[t] # "lock_sleep", is_vacant_' = is_vacant_
  PROVE  SleepersCovered'
<1>1. In("lock_sleep")' \subseteq In("lock_sleep")
  BY DEF In, Others
<1>2. In("unlock_wake") \cup In("lock_loop") \subseteq (In("unlock_wake") \cup In("lock_loop"))'
  BY DEF In, Others
<1> QED BY <1>1, <1>2, StillCovered

LEMMA FutexCovers ==
  ASSUME LockInv, SleepersCovered, NEW t \in Threads, FutexStep(t) \/ SpuriousWakeup(t)
  PROVE  SleepersCovered'
<1>0. pc \in [Threads -> Labels] /\ ControlOK(t)
  BY DEF LockInv, ControlTypeOK
<1> USE DEF Goto, Enter, In, Unlocked, Locked, Waiting
<1>1. CASE Lock(t)
  BY <1>0, <1>1 DEF Lock, ControlOK, Locking, Critical, SleepersCovered
<1>2. CASE LockLoop(t)
  BY <1>0, <1>2 DEF LockLoop, SleepersCovered
<1>3. CASE LockWait(t)
  BY <1>0, <1>3 DEF LockWait, SleepersCovered
<1>4. CASE Unlock(t)
  BY <1>0, <1>4 DEF Unlock, SleepersCovered, ControlOK, Releasing
<1>5. CASE UnlockWake(t)
  <2>1. CASE In("lock_sleep") = {}
    BY <1>0, <1>5, <2>1 DEF UnlockWake, SleepersCovered, ControlOK, Releasing
  <2>2. ASSUME NEW s \in In("lock_sleep"),
               pc' = [pc EXCEPT ![t] = ret[t], ![s] = "lock_loop"]
        PROVE  s \in In("lock_loop")'
    BY <1>0, <2>2
  <2> QED BY <1>5, <2>1, <2>2 DEF UnlockWake, SleepersCovered
<1>6. CASE SpuriousWakeup(t)
  BY <1>0, <1>6 DEF SpuriousWakeup, SleepersCovered
<1>7. CASE CvWait(t) \/ CvLoop(t) \/ CvFutex(t) \/ NotifyAdd(t) \/ NotifyWakeOne(t)
           \/ NotifyWakeAll(t)
  <2>1. pc[t] \notin {"unlock_wake", "lock_loop", "lock_sleep"} /\ is_vacant_' = is_vacant_
    BY <1>7 DEF CvWait, CvLoop, CvFutex, NotifyAdd, NotifyWakeOne, NotifyWakeAll
  <2>2. pc'[t] # "lock_sleep"
    BY <1>0, <1>7 DEF CvWait, CvLoop, CvFutex, NotifyAdd, NotifyWakeOne, NotifyWakeAll
  <2>3. Others(t)
    BY FutexEffect DEF Effect
  <2> QED BY <2>1, <2>2, <2>3, Elsewhere
<1> QED BY <1>1, <1>2, <1>3, <1>4, <1>5, <1>6, <1>7 DEF FutexStep

LEMMA NextCovers ==
  ASSUME LockInv, SleepersCovered, [Next]_vars
  PROVE  SleepersCovered'
<1>1. ASSUME NEW t \in Threads, FutexStep(t) \/ SpuriousWakeup(t)
      PROVE  SleepersCovered'
  BY <1>1, FutexCovers
<1>2. ASSUME NEW t \in Threads, GroupStep(t) \/ GroupCall(t) \/ QueueStep(t) \/ QueueCall(t)
      PROVE  SleepersCovered'
  <2>1. Others(t)
    BY <1>2, GroupEffect, QueueEffect DEF Effect
  <2>2. /\ pc[t] \notin {"unlock_wake", "lock_loop", "lock_sleep"}
        /\ pc'[t] # "lock_sleep" /\ is_vacant_' = is_vacant_
    <3>1. pc \in [Threads -> Labels]
      BY DEF LockInv, ControlTypeOK
    <3> QED BY <1>2, <3>1
              DEF GroupStep, GroupCall, QueueStep, QueueCall, AddCount, Done, DoneCount, WaitEnter,
                  WaitTest, Wait, Add, PushValue, PopEnter, PopTest, CloseQueue, Push, Pop, Close,
                  Section, Calls, Enter, Goto
  <2> QED BY <1>2, <2>1, <2>2, Elsewhere
<1>3. CASE UNCHANGED vars
  BY <1>3 DEF vars, futexVars, SleepersCovered, In
<1> QED BY <1>1, <1>2, <1>3 DEF Next, Step, Call, Wakeup

\* No Unlock leaves out the WakeOne that a thread asleep in Lock depends on.
THEOREM NoForgottenSleeper == Spec => []SleepersCovered
<1>1. Init => SleepersCovered
  BY DEF Init, FutexInit, SleepersCovered, In
<1> QED BY <1>1, NextCovers, LocksAlways, PTL DEF Spec

-----------------------------------------------------------------------------
(* The wait group: count_ is the number of units of which Done has not yet  *)
(* been counted.                                                           *)

\* t has not yet counted what it is in Add or Done for.
Before(t) == pc[t] \in Locking \cup {"count"}

\* The units of t in count_.
pending ==
  [t \in Threads |->
     IF op[t] = "add" /\ Before(t) THEN 0
     ELSE IF op[t] = "done" /\ Before(t) THEN owed[t] + 1
     ELSE owed[t]]

Units(f) == {x \in Threads \X (1 .. MaxCount) : x[2] <= f[x[1]]}

CountInv ==
  /\ owed \in [Threads -> 0 .. MaxCount]
  /\ pending \in [Threads -> 0 .. MaxCount]
  /\ count_ = Cardinality(Units(pending))

LEMMA UnitsFinite ==
  ASSUME NEW f
  PROVE  IsFiniteSet(Units(f)) /\ Cardinality(Units(f)) \in Nat
<1>1. IsFiniteSet(Threads) /\ IsFiniteSet(1 .. MaxCount)
  BY FutexAssumption, WaitGroupAssumption, FS_Interval
<1>2. IsFiniteSet(Threads \X (1 .. MaxCount))
  BY <1>1, FS_Product
<1>3. IsFiniteSet(Units(f))
  BY <1>2, FS_Subset DEF Units
<1> QED BY <1>3, FS_CardinalityType

LEMMA RemoveUnit ==
  ASSUME NEW f \in [Threads -> 0 .. MaxCount], NEW g \in [Threads -> 0 .. MaxCount],
         NEW t \in Threads, f[t] > 0, g = [f EXCEPT ![t] = f[t] - 1]
  PROVE  Cardinality(Units(g)) = Cardinality(Units(f)) - 1
<1>1. Units(g) = Units(f) \ {<<t, f[t]>>}
  <2>1. \A u \in Threads, i \in 1 .. MaxCount :
          i <= g[u] <=> i <= f[u] /\ <<u, i>> # <<t, f[t]>>
    BY WaitGroupAssumption
  <2> QED BY <2>1 DEF Units
<1>2. <<t, f[t]>> \in Units(f)
  BY DEF Units
<1> QED BY <1>1, <1>2, UnitsFinite, FS_RemoveElement

LEMMA AddUnits ==
  ASSUME NEW f \in [Threads -> 0 .. MaxCount], NEW g \in [Threads -> 0 .. MaxCount],
         NEW t \in Threads, NEW n \in 0 .. MaxCount, f[t] = 0, g[t] = n,
         \A u \in Threads \ {t} : g[u] = f[u]
  PROVE  Cardinality(Units(g)) = Cardinality(Units(f)) + n
<1> DEFINE New == {t} \X (1 .. n)
<1>1. Units(g) = Units(f) \cup New
  <2>1. \A u \in Threads, i \in 1 .. MaxCount :
          i <= g[u] <=> i <= f[u] \/ (u = t /\ i <= n)
    BY WaitGroupAssumption
  <2> QED BY <2>1, WaitGroupAssumption DEF Units
<1>2. Units(f) \cap New = {}
  BY WaitGroupAssumption DEF Units
<1>3. IsFiniteSet(New) /\ Cardinality(New) = n
  <2>1. IsFiniteSet({t}) /\ Cardinality({t}) = 1
    BY FS_Singleton
  <2>2. IsFiniteSet(1 .. n) /\ Cardinality(1 .. n) = n
    BY FS_Interval
  <2>3. IsFiniteSet(New) /\ Cardinality(New) = Cardinality({t}) * Cardinality(1 .. n)
    BY <2>1, <2>2, FS_Product
  <2> QED BY <2>1, <2>2, <2>3
<1>4. Cardinality(Units(f) \cup New)
        = Cardinality(Units(f)) + Cardinality(New) - Cardinality(Units(f) \cap New)
  <2>1. IsFiniteSet(Units(f)) /\ IsFiniteSet(New)
    BY <1>3, UnitsFinite
  <2> HIDE DEF New
  <2> QED BY <2>1, FS_Union
<1>5. Cardinality({}) = 0
  BY FS_EmptySet
<1>6. Cardinality(Units(f)) \in Nat /\ n \in Nat
  BY UnitsFinite
<1>7. Cardinality(New) = n
  BY <1>3
<1>8. Cardinality(Units(g)) = Cardinality(Units(f)) + Cardinality(New) - Cardinality({})
  BY <1>1, <1>2, <1>4, Zenon
<1> HIDE DEF New
<1> QED BY <1>5, <1>6, <1>7, <1>8

\* A step that changes neither what is owed nor who has counted.
LEMMA SameUnits ==
  ASSUME CountInv, owed' = owed, count_' = count_,
         \A u \in Threads : op[u]' = op[u] \/ (~ Before(u) /\ ~ Before(u)'),
         \A u \in Threads : op[u] \in {"add", "done"} => (Before(u)' <=> Before(u))
  PROVE  CountInv'
<1>1. \A u \in Threads : pending'[u] = pending[u]
  BY DEF pending
<1>2. pending' = pending
  BY <1>1 DEF pending
<1> QED BY <1>2 DEF CountInv

\* What the others do while t takes a step.
LEMMA OthersUnits ==
  ASSUME NEW t \in Threads, Others(t), NEW u \in Threads \ {t}
  PROVE  op'[u] = op[u] /\ (Before(u)' <=> Before(u))
BY DEF Others, Before, Locking

\* Steps of the mutex and the condition variable.
LEMMA FutexCounts ==
  ASSUME LockInv, CountInv, NEW t \in Threads, FutexStep(t) \/ SpuriousWakeup(t),
         UNCHANGED groupVars
  PROVE  CountInv'
<1>0. /\ pc \in [Threads -> Labels] /\ op \in [Threads -> {"none", "add", "done", "wait", "push",
                                                           "pop", "close"}]
      /\ ControlOK(t)
  BY DEF LockInv, ControlTypeOK
<1>1. /\ op'[t] = op[t] \/ (~ Before(t) /\ ~ Before(t)')
      /\ op[t] \in {"add", "done"} => (Before(t)' <=> Before(t))
  <2> USE <1>0 DEF Before, Locking, Goto, Enter, ControlOK, Releasing
  <2>1. CASE Lock(t)
    BY <2>1 DEF Lock
  <2>7. CASE LockLoop(t)
    BY <2>7 DEF LockLoop
  <2>8. CASE LockWait(t)
    BY <2>8 DEF LockWait
  <2>9. CASE SpuriousWakeup(t)
    BY <2>9 DEF SpuriousWakeup
  <2>2. CASE Unlock(t)
    BY <2>2 DEF Unlock, Returns
  <2>3. CASE UnlockWake(t)
    <3>1. CASE In("lock_sleep") = {}
      BY <2>3, <3>1 DEF UnlockWake, Returns
    <3>2. CASE \E s \in In("lock_sleep") : pc' = [pc EXCEPT ![t] = ret[t], ![s] = "lock_loop"]
      BY <2>3, <3>2 DEF UnlockWake, Returns, In
    <3> QED BY <2>3, <3>1, <3>2 DEF UnlockWake
  <2>4. CASE CvWait(t)
    BY <2>4 DEF CvWait
  <2>10. CASE CvLoop(t)
    BY <2>10 DEF CvLoop
  <2>11. CASE CvFutex(t)
    BY <2>11 DEF CvFutex
  <2>5. CASE NotifyAdd(t) \/ NotifyWakeAll(t)
    BY <2>5 DEF NotifyAdd, NotifyWakeAll
  <2>6. CASE NotifyWakeOne(t)
    <3>1. CASE In("cv_sleep") = {}
      BY <2>6, <3>1 DEF NotifyWakeOne
    <3>2. CASE \E s \in In("cv_sleep") : pc' = [pc EXCEPT ![t] = "unlock", ![s] = "cv_loop"]
      BY <2>6, <3>2 DEF NotifyWakeOne, In
    <3> QED BY <2>6, <3>1, <3>2 DEF NotifyWakeOne
  <2> QED BY <2>1, <2>2, <2>3, <2>4, <2>5, <2>6, <2>7, <2>8, <2>9, <2>10, <2>11 DEF FutexStep
<1>2. \A u \in Threads \ {t} : op'[u] = op[u] /\ (Before(u)' <=> Before(u))
  BY FutexEffect, OthersUnits DEF Effect
<1>3. \A u \in Threads : op[u]' = op[u] \/ (~ Before(u) /\ ~ Before(u)')
  BY <1>1, <1>2
<1>4. \A u \in Threads : op[u] \in {"add", "done"} => (Before(u)' <=> Before(u))
  BY <1>1, <1>2
<1> QED BY <1>3, <1>4, SameUnits DEF groupVars

\* Steps that do not concern the wait group: t is not in Add or Done.
LEMMA QueueCounts ==
  ASSUME LockInv, CountInv, NEW t \in Threads, QueueStep(t) \/ QueueCall(t), UNCHANGED groupVars
  PROVE  CountInv'
<1>0. op \in [Threads -> {"none", "add", "done", "wait", "push", "pop", "close"}] /\ ControlOK(t)
  BY DEF LockInv, ControlTypeOK
<1>1. op[t] \notin {"add", "done"} /\ op'[t] \notin {"add", "done"}
  BY <1>0 DEF QueueStep, QueueCall, PushValue, PopEnter, PopTest, CloseQueue, Push, Pop, Close,
              Section, Calls, ControlOK, Locking, Releasing
<1>2. \A u \in Threads \ {t} : op'[u] = op[u] /\ (Before(u)' <=> Before(u))
  BY QueueEffect, OthersUnits DEF Effect
<1>3. \A u \in Threads : pending'[u] = pending[u]
  BY <1>1, <1>2 DEF pending, groupVars
<1>4. pending' = pending
  BY <1>3 DEF pending
<1> QED BY <1>4 DEF CountInv, groupVars

\* A step of t in the wait group after which pending is f.
LEMMA PendingIs ==
  ASSUME LockInv, NEW t \in Threads, GroupStep(t) \/ GroupCall(t),
         \A u \in Threads \ {t} : owed'[u] = owed[u],
         NEW f, f = [pending EXCEPT ![t] = pending'[t]]
  PROVE  pending' = f
<1>1. \A u \in Threads \ {t} : op'[u] = op[u] /\ (Before(u)' <=> Before(u))
  BY GroupEffect, OthersUnits DEF Effect
<1>2. \A u \in Threads \ {t} : pending'[u] = pending[u]
  BY <1>1 DEF pending
<1> QED BY <1>2 DEF pending

LEMMA GroupCounts ==
  ASSUME LockInv, CountInv, NEW t \in Threads, GroupStep(t) \/ GroupCall(t)
  PROVE  CountInv'
<1> USE DEF Goto, Enter
<1>0. /\ pc \in [Threads -> Labels] /\ ret \in [Threads -> Labels]
      /\ op \in [Threads -> {"none", "add", "done", "wait", "push", "pop", "close"}]
      /\ ControlOK(t)
  BY DEF LockInv, ControlTypeOK
<1>a. /\ owed \in [Threads -> 0 .. MaxCount]
      /\ pending \in [Threads -> 0 .. MaxCount]
      /\ count_ = Cardinality(Units(pending))
  BY DEF CountInv
<1>b. pending[t] = IF op[t] = "add" /\ Before(t) THEN 0
                   ELSE IF op[t] = "done" /\ Before(t) THEN owed[t] + 1 ELSE owed[t]
  BY DEF pending
<1>c. pending'[t] = IF op'[t] = "add" /\ Before(t)' THEN 0
                    ELSE IF op'[t] = "done" /\ Before(t)' THEN owed'[t] + 1 ELSE owed'[t]
  BY DEF pending
<1>1. CASE AddCount(t)
  <2>1. op[t] = "add" /\ Before(t) /\ ~ Before(t)' /\ owed' = owed
    BY <1>0, <1>1 DEF AddCount, Section, Before, Locking
  <2>2. pending[t] = 0 /\ pending'[t] = owed[t]
    BY <1>b, <1>c, <2>1
  <2>3. pending' = [pending EXCEPT ![t] = owed[t]]
    BY <1>1, <2>1, <2>2, PendingIs DEF GroupStep
  <2>4. owed[t] \in 0 .. MaxCount /\ pending' \in [Threads -> 0 .. MaxCount]
    BY <1>a, <2>3
  <2>5. Cardinality(Units(pending')) = Cardinality(Units(pending)) + owed[t]
    <3>1. pending'[t] = owed[t] /\ \A u \in Threads \ {t} : pending'[u] = pending[u]
      BY <1>a, <2>3, <2>4
    <3> QED BY <1>a, <2>2, <2>4, <3>1, AddUnits
  <2> QED BY <1>1, <1>a, <2>1, <2>4, <2>5 DEF CountInv, AddCount, Units
<1>2. CASE Done(t)
  <2>1. op'[t] = "done" /\ ~ Before(t) /\ Before(t)' /\ owed' = [owed EXCEPT ![t] = owed[t] - 1]
        /\ owed[t] > 0 /\ count_' = count_
    BY <1>0, <1>2 DEF Done, Calls, Before, Locking
  <2>2. pending[t] = owed[t] /\ pending'[t] = owed[t]
    BY <1>a, <1>b, <1>c, <2>1
  <2>3. pending' = [pending EXCEPT ![t] = pending[t]]
    BY <1>a, <1>2, <2>1, <2>2, PendingIs DEF GroupStep
  <2>4. pending' = pending
    BY <1>a, <2>3
  <2>5. owed' \in [Threads -> 0 .. MaxCount]
    BY <1>a, <2>1, WaitGroupAssumption
  <2> QED BY <1>a, <2>1, <2>4, <2>5 DEF CountInv
<1>3. CASE DoneCount(t)
  <2>1. op[t] = "done" /\ Before(t) /\ ~ Before(t)' /\ owed' = owed /\ count_' = count_ - 1
    BY <1>0, <1>3 DEF DoneCount, Section, Before, Locking
  <2>2. pending[t] = owed[t] + 1 /\ pending'[t] = owed[t]
    BY <1>3, <1>b, <1>c, <2>1 DEF DoneCount, Section
  <2>3. pending' = [pending EXCEPT ![t] = owed[t]]
    BY <1>3, <2>1, <2>2, PendingIs DEF GroupStep
  <2>4. owed[t] = pending[t] - 1 /\ pending[t] > 0 /\ pending' \in [Threads -> 0 .. MaxCount]
    BY <1>a, <2>2, <2>3, WaitGroupAssumption
  <2>5. pending' = [pending EXCEPT ![t] = pending[t] - 1]
    BY <2>3, <2>4
  <2>6. Cardinality(Units(pending')) = Cardinality(Units(pending)) - 1
    BY <1>a, <2>4, <2>5, RemoveUnit
  <2> QED BY <1>a, <2>1, <2>4, <2>6 DEF CountInv, Units
<1>4. CASE WaitEnter(t) \/ WaitTest(t) \/ Wait(t)
  <2>1. op[t] \notin {"add", "done"} /\ op'[t] \notin {"add", "done"} /\ owed' = owed
        /\ count_' = count_
    BY <1>0, <1>4 DEF WaitEnter, WaitTest, Wait, Section, Calls, ControlOK, Locking, Releasing
  <2>2. pending'[t] = pending[t]
    BY <1>b, <1>c, <2>1
  <2>3. pending' = [pending EXCEPT ![t] = pending[t]]
    BY <1>4, <2>1, <2>2, PendingIs DEF GroupStep, GroupCall
  <2>4. pending' = pending
    BY <1>a, <2>3
  <2> QED BY <1>a, <2>1, <2>4 DEF CountInv
<1>5. ASSUME NEW n \in 1 .. MaxCount, Add(t, n) PROVE CountInv'
  <2>1. op'[t] = "add" /\ ~ Before(t) /\ Before(t)' /\ owed' = [owed EXCEPT ![t] = n]
        /\ owed[t] = 0 /\ count_' = count_
    BY <1>0, <1>5 DEF Add, Calls, Before, Locking
  <2>2. pending[t] = 0 /\ pending'[t] = 0
    BY <1>b, <1>c, <2>1
  <2>3. pending' = [pending EXCEPT ![t] = pending[t]]
    BY <1>a, <1>5, <2>1, <2>2, PendingIs DEF GroupCall
  <2>4. pending' = pending
    BY <1>a, <2>3
  <2>5. owed' \in [Threads -> 0 .. MaxCount]
    BY <1>a, <2>1, WaitGroupAssumption
  <2> QED BY <1>a, <2>1, <2>4, <2>5 DEF CountInv
<1> QED BY <1>1, <1>2, <1>3, <1>4, <1>5 DEF GroupStep, GroupCall

LEMMA InitCounts == Init => CountInv
<1> SUFFICES ASSUME Init PROVE CountInv
  OBVIOUS
<1>1. pending = [t \in Threads |-> 0]
  BY DEF Init, FutexInit, GroupInit, pending
<1>2. Units(pending) = {}
  BY <1>1, WaitGroupAssumption DEF Units
<1>3. count_ = Cardinality(Units(pending))
  BY <1>2, FS_EmptySet DEF Init, GroupInit
<1>4. owed \in [Threads -> 0 .. MaxCount] /\ pending \in [Threads -> 0 .. MaxCount]
  <2>1. owed = [t \in Threads |-> 0]
    BY DEF Init, GroupInit
  <2>2. 0 \in 0 .. MaxCount
    BY WaitGroupAssumption
  <2> QED BY <1>1, <2>1, <2>2
<1> QED BY <1>3, <1>4 DEF CountInv

LEMMA NextCounts == LockInv /\ CountInv /\ [Next]_vars => CountInv'
<1>1. ASSUME LockInv, CountInv, Next PROVE CountInv'
  BY <1>1, FutexCounts, GroupCounts, QueueCounts DEF Next, Step, Call, Wakeup
<1>2. ASSUME CountInv, UNCHANGED vars PROVE CountInv'
  <2>1. pending' = pending /\ owed' = owed /\ count_' = count_
    BY <1>2 DEF vars, futexVars, groupVars, pending, Before
  <2> QED BY <1>2, <2>1 DEF CountInv
<1> QED BY <1>1, <1>2

\* When a Wait is about to return every Done has been counted and its thread has
\* released the mutex: it has its WakeOne left, so the wait group may be destroyed.
THEOREM SafeToDestroy == Spec => []DoneIsOver
<1>1. LockInv /\ CountInv => DoneIsOver
  <2> SUFFICES ASSUME LockInv, CountInv, NEW t \in Threads, NEW s \in Threads,
                      op[t] = "wait", pc[t] = "unlock", count_ = 0, op[s] = "done"
               PROVE  pc[s] = "unlock_wake"
    BY DEF DoneIsOver
  <2>1. pc[s] \in Locking \cup {"count", "notify_all", "wake_all"} \cup Releasing
    BY DEF LockInv, ControlOK
  <2>2. ~ Owns(s)
    BY DEF LockInv, OneOwner, Owns, Sections
  <2>3. ~ Before(s)
    <3>1. Units(pending) = {}
      BY UnitsFinite, FS_EmptySet DEF CountInv
    <3>2. pending[s] \in 0 .. MaxCount /\ pending[s] <= 0
      <4>1. pending[s] \in 0 .. MaxCount
        BY DEF CountInv
      <4>2. pending[s] > 0 => <<s, pending[s]>> \in Units(pending)
        BY <4>1, WaitGroupAssumption DEF Units
      <4> QED BY <3>1, <4>1, <4>2, WaitGroupAssumption
    <3>3. owed[s] \in Nat
      BY DEF CountInv
    <3> QED BY <3>2, <3>3 DEF pending
  <2> QED BY <2>1, <2>2, <2>3 DEF Owns, Sections, Before, Locking, Releasing
<1>2. Spec => []CountInv
  BY InitCounts, NextCounts, LocksAlways, PTL DEF Spec
<1> QED BY <1>1, <1>2, LocksAlways, PTL

-----------------------------------------------------------------------------
(* The condition variable.  Its counter must not come back to a value that a *)
(* waiter remembers, which it does when it wraps.                           *)

\* There are fewer notifications than the counter has values: every Done and every Push
\* makes one at most, and Close.
NotificationsFit == 2^Width \in Nat /\ MaxCount < 2^Width /\ MaxPushes + 1 < 2^Width

Pausing == {"enter", "test", "cv_wait", "cv_loop", "cv_futex", "cv_sleep"}

\* What t does at its label belongs to the call it is in.
CallOK(t) ==
  /\ op[t] = "none" <=> pc[t] = "idle"
  /\ pc[t] \in Locking =>
       /\ op[t] = "push" => ret[t] = "value"
       /\ op[t] = "close" => ret[t] = "close"
       /\ op[t] \in {"wait", "pop"} => ret[t] \in {"enter", "test"}
  /\ pc[t] = "count" => op[t] \in {"add", "done"}
  /\ pc[t] = "value" => op[t] = "push"
  /\ pc[t] = "close" => op[t] = "close"
  /\ pc[t] \in Pausing => op[t] \in {"wait", "pop"}
  /\ pc[t] \in Releasing /\ ret[t] = "cv_loop" => op[t] \in {"wait", "pop"}
  /\ pc[t] \in {"notify_one", "wake_one"} => op[t] = "push"
  /\ pc[t] \in {"notify_all", "wake_all"} => op[t] \in {"done", "close"}

Calling ==
  /\ primitive \in {"wait group", "queue"}
  /\ \A t \in Threads :
       /\ primitive = "queue" => owed[t] = 0
       /\ op[t] \in IF primitive = "queue" THEN {"none", "push", "pop", "close"}
                                           ELSE {"none", "add", "done", "wait"}
       /\ CallOK(t)

LEMMA FutexCalling ==
  ASSUME LockInv, NEW t \in Threads, CallOK(t), FutexStep(t) \/ SpuriousWakeup(t)
  PROVE  CallOK(t)' /\ op'[t] \in {op[t], "none"}
<1> USE DEF CallOK, Goto, Enter, Locking, Critical, Releasing, Notifying, Pausing
<1>0. /\ pc \in [Threads -> Labels] /\ ret \in [Threads -> Labels]
      /\ op \in [Threads -> {"none", "add", "done", "wait", "push", "pop", "close"}]
      /\ ControlOK(t)
  BY DEF LockInv, ControlTypeOK
<1> USE DEF ControlOK
<1>1. CASE Lock(t)
  BY <1>0, <1>1 DEF Lock
<1>2. CASE LockLoop(t)
  BY <1>0, <1>2 DEF LockLoop
<1>3. CASE LockWait(t)
  BY <1>0, <1>3 DEF LockWait
<1>4. CASE Unlock(t)
  BY <1>0, <1>4 DEF Unlock, Returns
<1>5. CASE UnlockWake(t)
  <2>1. pc'[t] = ret[t]
    <3>1. CASE In("lock_sleep") = {}
      BY <1>0, <1>5, <3>1 DEF UnlockWake
    <3>2. ASSUME NEW s \in In("lock_sleep"), pc' = [pc EXCEPT ![t] = ret[t], ![s] = "lock_loop"]
          PROVE  pc'[t] = ret[t]
      BY <1>0, <1>5, <3>2 DEF UnlockWake, In
    <3> QED BY <1>5, <3>1, <3>2 DEF UnlockWake
  <2> QED BY <1>0, <1>5, <2>1 DEF UnlockWake, Returns
<1>6. CASE CvWait(t)
  BY <1>0, <1>6 DEF CvWait
<1>7. CASE CvLoop(t)
  BY <1>0, <1>7 DEF CvLoop
<1>8. CASE CvFutex(t)
  BY <1>0, <1>8 DEF CvFutex
<1>9. CASE NotifyAdd(t)
  BY <1>0, <1>9 DEF NotifyAdd
<1>10. CASE NotifyWakeOne(t)
  <2>1. pc'[t] = "unlock"
    <3>1. CASE In("cv_sleep") = {}
      BY <1>0, <1>10, <3>1 DEF NotifyWakeOne
    <3>2. ASSUME NEW s \in In("cv_sleep"), pc' = [pc EXCEPT ![t] = "unlock", ![s] = "cv_loop"]
          PROVE  pc'[t] = "unlock"
      BY <1>0, <1>10, <3>2 DEF NotifyWakeOne, In
    <3> QED BY <1>10, <3>1, <3>2 DEF NotifyWakeOne
  <2> QED BY <1>0, <1>10, <2>1 DEF NotifyWakeOne
<1>11. CASE NotifyWakeAll(t)
  BY <1>0, <1>11 DEF NotifyWakeAll
<1>12. CASE SpuriousWakeup(t)
  BY <1>0, <1>12 DEF SpuriousWakeup
<1> QED
  BY <1>1, <1>2, <1>3, <1>4, <1>5, <1>6, <1>7, <1>8, <1>9, <1>10, <1>11, <1>12 DEF FutexStep

LEMMA UseCalling ==
  ASSUME LockInv, NEW t \in Threads, CallOK(t),
         GroupStep(t) \/ GroupCall(t) \/ QueueStep(t) \/ QueueCall(t)
  PROVE  CallOK(t)'
<1> USE DEF CallOK, Goto, Enter, Locking, Critical, Releasing, Notifying, Pausing, Section, Calls
<1>0. /\ pc \in [Threads -> Labels] /\ ret \in [Threads -> Labels]
      /\ op \in [Threads -> {"none", "add", "done", "wait", "push", "pop", "close"}]
      /\ ControlOK(t)
  BY DEF LockInv, ControlTypeOK
<1>1. CASE AddCount(t) \/ DoneCount(t)
  BY <1>0, <1>1 DEF AddCount, DoneCount
<1>2. CASE WaitEnter(t) \/ WaitTest(t)
  BY <1>0, <1>2 DEF WaitEnter, WaitTest
<1>3. CASE GroupCall(t) \/ Done(t)
  BY <1>0, <1>3 DEF GroupCall, Wait, Add, Done
<1>4. CASE PushValue(t) \/ CloseQueue(t)
  BY <1>0, <1>4 DEF PushValue, CloseQueue
<1>5. CASE PopEnter(t) \/ PopTest(t)
  BY <1>0, <1>5 DEF PopEnter, PopTest
<1>6. CASE QueueCall(t)
  BY <1>0, <1>6 DEF QueueCall, Push, Pop, Close
<1> QED BY <1>1, <1>2, <1>3, <1>4, <1>5, <1>6 DEF GroupStep, QueueStep

\* The others are where they were, or have been woken.
LEMMA OthersCalling ==
  ASSUME NEW t \in Threads, Others(t), NEW u \in Threads \ {t}, CallOK(u)
  PROVE  CallOK(u)' /\ op'[u] = op[u]
BY DEF Others, CallOK, Locking, Releasing, Pausing

LEMMA NextCalling ==
  ASSUME LockInv, Calling, [Next]_vars
  PROVE  Calling'
<1>1. ASSUME NEW t \in Threads, Step(t) \/ Call(t) \/ Wakeup(t)
      PROVE  Calling'
  <2>1. CallOK(t) /\ primitive' = primitive
    BY <1>1 DEF Calling, Step, Call, Wakeup
  <2>0. ASSUME Done(t) PROVE primitive # "queue"
    <3>1. owed[t] > 0
      BY <2>0 DEF Done
    <3>2. primitive = "queue" => owed[t] = 0
      BY DEF Calling
    <3> QED BY <3>1, <3>2
  <2>2. Others(t) /\ CallOK(t)'
    BY <1>1, <2>1, FutexCalling, UseCalling, FutexEffect, GroupEffect, QueueEffect
       DEF Step, Call, Wakeup, Effect
  <2>3. op'[t] \in IF primitive = "queue" THEN {"none", "push", "pop", "close"}
                                          ELSE {"none", "add", "done", "wait"}
    <3>0. op \in [Threads -> {"none", "add", "done", "wait", "push", "pop", "close"}] /\ CallOK(t)
      BY <2>1 DEF LockInv, ControlTypeOK
    <3>1. CASE FutexStep(t) \/ SpuriousWakeup(t)
      BY <3>0, <3>1, FutexCalling DEF Calling
    <3>2. CASE GroupStep(t)
      BY <2>0, <3>0, <3>2 DEF Calling, GroupStep, AddCount, Done, DoneCount, WaitEnter, WaitTest, Section, Calls,
         CallOK
    <3>3. CASE QueueStep(t)
      BY <3>0, <3>3 DEF Calling, QueueStep, PushValue, PopEnter, PopTest, CloseQueue, Section
    <3>4. CASE Call(t)
      BY <3>0, <3>4 DEF Calling, Call, GroupCall, QueueCall, Wait, Add, Push, Pop, Close, Calls
    <3> QED BY <1>1, <3>1, <3>2, <3>3, <3>4 DEF Step, Wakeup
  <2>5. primitive = "queue" => owed' = owed
    <3>1. CASE GroupStep(t)
      <4>1. ~ Done(t) \/ primitive # "queue"
        BY <2>0
      <4> QED BY <3>1, <4>1 DEF GroupStep, AddCount, DoneCount, WaitEnter, WaitTest
    <3>2. CASE ~ GroupStep(t)
      BY <1>1, <3>2 DEF Step, Call, Wakeup, groupVars
    <3> QED BY <3>1, <3>2
  <2>4. \A u \in Threads \ {t} : CallOK(u)' /\ op'[u] = op[u]
    BY <2>2, OthersCalling DEF Calling
  <2> QED BY <2>1, <2>2, <2>3, <2>4, <2>5 DEF Calling
<1>2. CASE UNCHANGED vars
  BY <1>2 DEF vars, futexVars, groupVars, Calling, CallOK
<1> QED BY <1>1, <1>2 DEF Next

-----------------------------------------------------------------------------
(* waiters and waiting_: a thread that may wait is counted, from before it  *)
(* tests until it has found what it waits for.                              *)

InLoop(t) ==
  \/ pc[t] \in {"test", "cv_wait", "cv_loop", "cv_futex", "cv_sleep"}
  \/ pc[t] \in Releasing /\ ret[t] = "cv_loop"
  \/ pc[t] \in Locking /\ ret[t] = "test"

Inside(name) == {t \in Threads : op[t] = name /\ InLoop(t)}

Counted ==
  /\ waiters = Cardinality(Inside("wait"))
  /\ waiting_ = Cardinality(Inside("pop"))

LEMMA FiniteThreads ==
  ASSUME NEW S, S \subseteq Threads
  PROVE  IsFiniteSet(S) /\ Cardinality(S) \in Nat
BY FutexAssumption, FS_Subset, FS_CardinalityType

\* Steps of the mutex and the condition variable take nobody out of the loop.
LEMMA FutexStaysInside ==
  ASSUME LockInv, Calling, NEW t \in Threads, FutexStep(t) \/ SpuriousWakeup(t)
  PROVE  /\ op'[t] = "none" => ~ InLoop(t) /\ ~ InLoop(t)'
         /\ InLoop(t)' <=> InLoop(t)
<1> USE DEF InLoop, CallOK, Goto, Enter, Locking, Critical, Releasing, Notifying, Pausing
<1>0. /\ pc \in [Threads -> Labels] /\ ret \in [Threads -> Labels]
      /\ op \in [Threads -> {"none", "add", "done", "wait", "push", "pop", "close"}]
      /\ ControlOK(t) /\ CallOK(t)
  BY DEF LockInv, ControlTypeOK, Calling
<1> USE DEF ControlOK
<1>1. CASE Lock(t)
  BY <1>0, <1>1 DEF Lock
<1>2. CASE LockLoop(t)
  BY <1>0, <1>2 DEF LockLoop
<1>3. CASE LockWait(t)
  BY <1>0, <1>3 DEF LockWait
<1>4. CASE Unlock(t)
  BY <1>0, <1>4 DEF Unlock, Returns
<1>5. CASE UnlockWake(t)
  <2>1. pc'[t] = ret[t]
    <3>1. CASE In("lock_sleep") = {}
      BY <1>0, <1>5, <3>1 DEF UnlockWake
    <3>2. ASSUME NEW s \in In("lock_sleep"), pc' = [pc EXCEPT ![t] = ret[t], ![s] = "lock_loop"]
          PROVE  pc'[t] = ret[t]
      BY <1>0, <1>5, <3>2 DEF UnlockWake, In
    <3> QED BY <1>5, <3>1, <3>2 DEF UnlockWake
  <2> QED BY <1>0, <1>5, <2>1 DEF UnlockWake, Returns
<1>6. CASE CvWait(t)
  BY <1>0, <1>6 DEF CvWait
<1>7. CASE CvLoop(t)
  BY <1>0, <1>7 DEF CvLoop
<1>8. CASE CvFutex(t)
  BY <1>0, <1>8 DEF CvFutex
<1>9. CASE NotifyAdd(t)
  BY <1>0, <1>9 DEF NotifyAdd
<1>10. CASE NotifyWakeOne(t)
  <2>1. pc'[t] = "unlock"
    <3>1. CASE In("cv_sleep") = {}
      BY <1>0, <1>10, <3>1 DEF NotifyWakeOne
    <3>2. ASSUME NEW s \in In("cv_sleep"), pc' = [pc EXCEPT ![t] = "unlock", ![s] = "cv_loop"]
          PROVE  pc'[t] = "unlock"
      BY <1>0, <1>10, <3>2 DEF NotifyWakeOne, In
    <3> QED BY <1>10, <3>1, <3>2 DEF NotifyWakeOne
  <2> QED BY <1>0, <1>10, <2>1 DEF NotifyWakeOne
<1>11. CASE NotifyWakeAll(t)
  BY <1>0, <1>11 DEF NotifyWakeAll
<1>12. CASE SpuriousWakeup(t)
  BY <1>0, <1>12 DEF SpuriousWakeup
<1> QED
  BY <1>1, <1>2, <1>3, <1>4, <1>5, <1>6, <1>7, <1>8, <1>9, <1>10, <1>11, <1>12 DEF FutexStep

LEMMA OthersStayInside ==
  ASSUME NEW t \in Threads, Others(t), NEW u \in Threads \ {t}
  PROVE  op'[u] = op[u] /\ (InLoop(u)' <=> InLoop(u))
BY DEF Others, InLoop, Locking, Releasing

\* What a step of t does to the set of those that are counted.
LEMMA InsideIs ==
  ASSUME NEW t \in Threads, Others(t), NEW name
  PROVE  /\ (t \in Inside(name))' = (t \in Inside(name)) => Inside(name)' = Inside(name)
         /\ t \notin Inside(name) /\ op'[t] = name /\ InLoop(t)' =>
              Cardinality(Inside(name)') = Cardinality(Inside(name)) + 1
         /\ t \in Inside(name) /\ ~ InLoop(t)' =>
              Cardinality(Inside(name)') = Cardinality(Inside(name)) - 1
<1>1. \A u \in Threads \ {t} : u \in Inside(name)' <=> u \in Inside(name)
  BY OthersStayInside DEF Inside
<1>2. Inside(name) \subseteq Threads /\ Inside(name)' \subseteq Threads
  BY DEF Inside
<1>3. IsFiniteSet(Inside(name))
  BY <1>2, FiniteThreads
<1>4. (t \in Inside(name)) = (t \in Inside(name))' => Inside(name)' = Inside(name)
  BY <1>1, <1>2
<1>5. ASSUME t \notin Inside(name), op'[t] = name, InLoop(t)'
      PROVE  Cardinality(Inside(name)') = Cardinality(Inside(name)) + 1
  <2>1. t \in Inside(name)'
    BY <1>5 DEF Inside
  <2>2. Inside(name)' = Inside(name) \cup {t}
    BY <1>1, <1>2, <2>1
  <2> QED BY <1>3, <1>5, <2>2, FS_AddElement
<1>6. ASSUME t \in Inside(name), ~ InLoop(t)'
      PROVE  Cardinality(Inside(name)') = Cardinality(Inside(name)) - 1
  <2>1. t \notin Inside(name)'
    BY <1>6 DEF Inside
  <2>2. Inside(name)' = Inside(name) \ {t}
    BY <1>1, <1>2, <2>1
  <2> QED BY <1>3, <1>6, <2>2, FS_RemoveElement
<1> QED BY <1>4, <1>5, <1>6

\* A step is one of the mutex or the condition variable, of the wait group, or of the queue.
LEMMA StepCases ==
  ASSUME Calling, NEW t \in Threads, Step(t) \/ Call(t) \/ Wakeup(t)
  PROVE  \/ (FutexStep(t) \/ SpuriousWakeup(t)) /\ UNCHANGED <<groupVars, queueVars, primitive>>
         \/ /\ GroupStep(t) \/ GroupCall(t)
            /\ primitive = "wait group" /\ UNCHANGED <<queueVars, primitive>>
         \/ /\ QueueStep(t) \/ QueueCall(t)
            /\ primitive = "queue" /\ UNCHANGED <<groupVars, primitive>>
<1>1. ASSUME GroupStep(t) PROVE primitive = "wait group"
  <2>1. CASE Done(t)
    <3>1. owed[t] > 0
      BY <2>1 DEF Done
    <3>2. primitive = "queue" => owed[t] = 0
      BY DEF Calling
    <3>3. primitive # "queue"
      BY <3>1, <3>2
    <3> QED BY <3>3 DEF Calling
  <2>2. CASE ~ Done(t)
    <3>1. op[t] \in {"add", "done", "wait"}
      BY <1>1, <2>2 DEF GroupStep, AddCount, DoneCount, WaitEnter, WaitTest
    <3> QED BY <3>1 DEF Calling
  <2> QED BY <2>1, <2>2
<1>2. ASSUME QueueStep(t) PROVE primitive = "queue"
  <2>1. op[t] \in {"push", "pop", "close"}
    BY <1>2 DEF QueueStep, PushValue, PopEnter, PopTest, CloseQueue
  <2> QED BY <2>1 DEF Calling
<1> QED BY <1>1, <1>2 DEF Step, Call, Wakeup

LEMMA NextCounted ==
  ASSUME LockInv, Calling, Counted, [Next]_vars
  PROVE  Counted'
<1>1. ASSUME NEW t \in Threads, Step(t) \/ Call(t) \/ Wakeup(t)
      PROVE  Counted'
  <2> USE DEF Goto, Enter, Section, Calls
  <2>0. /\ pc \in [Threads -> Labels] /\ ret \in [Threads -> Labels]
        /\ op \in [Threads -> {"none", "add", "done", "wait", "push", "pop", "close"}]
        /\ ControlOK(t) /\ CallOK(t)
    BY DEF LockInv, ControlTypeOK, Calling
  <2>1. Others(t)
    BY <1>1, FutexEffect, GroupEffect, QueueEffect DEF Step, Call, Wakeup, Effect
  <2>2. ASSUME NEW name, (op'[t] = name /\ InLoop(t)') <=> (op[t] = name /\ InLoop(t))
        PROVE  Cardinality(Inside(name)') = Cardinality(Inside(name))
    <3>1. t \in Inside(name)' <=> t \in Inside(name)
      BY <2>2 DEF Inside
    <3> QED BY <2>1, <3>1, InsideIs
  <2>3. ASSUME UNCHANGED <<waiters, waiting_>>,
               \A name \in {"wait", "pop"} : (op'[t] = name /\ InLoop(t)') <=> (op[t] = name /\ InLoop(t))
        PROVE  Counted'
    BY <2>2, <2>3 DEF Counted
  <2>4. CASE (FutexStep(t) \/ SpuriousWakeup(t)) /\ UNCHANGED <<groupVars, queueVars, primitive>>
    <3>1. op'[t] \in {op[t], "none"}
      BY <2>0, <2>4, FutexCalling
    <3>2. \A name \in {"wait", "pop"} : (op'[t] = name /\ InLoop(t)') <=> (op[t] = name /\ InLoop(t))
      BY <2>4, <3>1, FutexStaysInside
    <3> QED BY <2>3, <2>4, <3>2 DEF groupVars, queueVars
  <2>5. CASE (GroupStep(t) \/ GroupCall(t)) /\ UNCHANGED <<queueVars, primitive>>
    <3> USE <2>0 DEF InLoop, Locking, Releasing, CallOK, Critical, ControlOK
    <3>1. CASE WaitEnter(t)
      <4>1. op[t] = "wait" /\ op' = op /\ ~ InLoop(t) /\ InLoop(t)' /\ waiters' = waiters + 1
        BY <3>1 DEF WaitEnter
      <4>2. Cardinality(Inside("wait")') = Cardinality(Inside("wait")) + 1
        BY <2>1, <4>1, InsideIs DEF Inside
      <4>3. Cardinality(Inside("pop")') = Cardinality(Inside("pop"))
        BY <2>2, <4>1
      <4> QED BY <2>5, <4>1, <4>2, <4>3 DEF Counted, queueVars
    <3>2. CASE WaitTest(t) /\ count_ = 0
      <4>1. op[t] = "wait" /\ op' = op /\ InLoop(t) /\ ~ InLoop(t)' /\ waiters' = waiters - 1
        BY <3>2 DEF WaitTest
      <4>2. Cardinality(Inside("wait")') = Cardinality(Inside("wait")) - 1
        BY <2>1, <4>1, InsideIs DEF Inside
      <4>3. Cardinality(Inside("pop")') = Cardinality(Inside("pop"))
        BY <2>2, <4>1
      <4> QED BY <2>5, <4>1, <4>2, <4>3 DEF Counted, queueVars
    <3>3. CASE WaitTest(t) /\ count_ # 0
      <4>1. op' = op /\ InLoop(t) /\ InLoop(t)' /\ waiters' = waiters
        BY <3>3 DEF WaitTest
      <4> QED BY <2>3, <2>5, <4>1 DEF queueVars
    <3>4. CASE AddCount(t) \/ DoneCount(t)
      <4>1. op' = op /\ ~ InLoop(t) /\ ~ InLoop(t)' /\ waiters' = waiters
        BY <3>4 DEF AddCount, DoneCount
      <4> QED BY <2>3, <2>5, <4>1 DEF queueVars
    <3>5. CASE Done(t) \/ GroupCall(t)
      <4>1. ~ InLoop(t) /\ ~ InLoop(t)' /\ waiters' = waiters
        BY <3>5 DEF Done, GroupCall, Wait, Add
      <4> QED BY <2>3, <2>5, <4>1 DEF queueVars
    <3> QED BY <2>5, <3>1, <3>2, <3>3, <3>4, <3>5 DEF GroupStep
  <2>6. CASE (QueueStep(t) \/ QueueCall(t)) /\ UNCHANGED <<groupVars, primitive>>
    <3> USE <2>0 DEF InLoop, Locking, Releasing, CallOK, Critical, ControlOK
    <3>1. CASE PopEnter(t)
      <4>1. op[t] = "pop" /\ op' = op /\ ~ InLoop(t) /\ InLoop(t)' /\ waiting_' = waiting_ + 1
        BY <3>1 DEF PopEnter
      <4>2. Cardinality(Inside("pop")') = Cardinality(Inside("pop")) + 1
        BY <2>1, <4>1, InsideIs DEF Inside
      <4>3. Cardinality(Inside("wait")') = Cardinality(Inside("wait"))
        BY <2>2, <4>1
      <4> QED BY <2>6, <4>1, <4>2, <4>3 DEF Counted, groupVars
    <3>2. CASE PopTest(t) /\ pc'[t] = "unlock"
      <4>1. op[t] = "pop" /\ op' = op /\ InLoop(t) /\ ~ InLoop(t)' /\ waiting_' = waiting_ - 1
        BY <3>2 DEF PopTest
      <4>2. Cardinality(Inside("pop")') = Cardinality(Inside("pop")) - 1
        BY <2>1, <4>1, InsideIs DEF Inside
      <4>3. Cardinality(Inside("wait")') = Cardinality(Inside("wait"))
        BY <2>2, <4>1
      <4> QED BY <2>6, <4>1, <4>2, <4>3 DEF Counted, groupVars
    <3>3. CASE PopTest(t) /\ pc'[t] # "unlock"
      <4>1. op' = op /\ InLoop(t) /\ InLoop(t)' /\ waiting_' = waiting_
        BY <3>3 DEF PopTest, queueVars
      <4> QED BY <2>3, <2>6, <4>1 DEF groupVars
    <3>4. CASE PushValue(t) \/ CloseQueue(t)
      <4>1. op' = op /\ ~ InLoop(t) /\ ~ InLoop(t)' /\ waiting_' = waiting_
        BY <3>4 DEF PushValue, CloseQueue
      <4> QED BY <2>3, <2>6, <4>1 DEF groupVars
    <3>5. CASE QueueCall(t)
      <4>1. ~ InLoop(t) /\ ~ InLoop(t)' /\ waiting_' = waiting_
        BY <3>5 DEF QueueCall, Push, Pop, Close, queueVars
      <4> QED BY <2>3, <2>6, <4>1 DEF groupVars
    <3> QED BY <2>6, <3>1, <3>2, <3>3, <3>4, <3>5 DEF QueueStep
  <2> QED BY <1>1, <2>4, <2>5, <2>6, StepCases
<1>2. CASE UNCHANGED vars
  BY <1>2 DEF vars, futexVars, groupVars, queueVars, Counted, Inside, InLoop
<1> QED BY <1>1, <1>2 DEF Next

-----------------------------------------------------------------------------
(* The steps of a thread, as the condition variable sees them.             *)

Locks(t) ==
  /\ pc[t] \in Locking /\ pc'[t] \in Locking \cup {ret[t]}
  /\ ret'[t] = ret[t] /\ op'[t] = op[t] /\ atom_' = atom_ /\ order' = order

Releases(t) ==
  /\ pc[t] \in Releasing /\ pc'[t] \in {"unlock_wake", ret[t]}
  /\ ret'[t] = ret[t] /\ atom_' = atom_ /\ order' = order
  /\ IF pc'[t] = "idle" THEN op'[t] = "none" ELSE op'[t] = op[t]

Remembers(t) ==
  /\ pc[t] = "cv_wait" /\ pc'[t] = "unlock" /\ ret'[t] = "cv_loop"
  /\ op'[t] = op[t] /\ atom_' = atom_ /\ order' = [order EXCEPT ![t] = atom_]

Looks(t) ==
  /\ pc[t] = "cv_loop"
  /\ IF atom_ <= order[t] THEN pc'[t] = "cv_futex" ELSE pc'[t] = "lock" /\ ret'[t] = "test"
  /\ op'[t] = op[t] /\ atom_' = atom_ /\ order' = order

Sleeps(t) ==
  /\ pc[t] = "cv_futex"
  /\ IF atom_ = order[t] THEN pc'[t] = "cv_sleep" ELSE pc'[t] = "cv_loop"
  /\ op'[t] = op[t] /\ atom_' = atom_ /\ order' = order

WakesUp(t) ==
  /\ pc[t] = "cv_sleep" /\ pc'[t] = "cv_loop"
  /\ op'[t] = op[t] /\ atom_' = atom_ /\ order' = order

Notifies(t) ==
  /\ \/ pc[t] = "notify_one" /\ pc'[t] = "wake_one"
     \/ pc[t] = "notify_all" /\ pc'[t] = "wake_all"
  /\ op'[t] = op[t] /\ atom_' = (atom_ + 1) % 2^Width /\ order' = order

Wakes(t) ==
  /\ NotifyWakeOne(t) \/ NotifyWakeAll(t)
  /\ pc[t] \in {"wake_one", "wake_all"} /\ pc'[t] = "unlock" /\ ret'[t] = "idle"
  /\ op'[t] = op[t] /\ atom_' = atom_ /\ order' = order

Begins(t) ==
  /\ GroupCall(t) \/ Done(t) \/ QueueCall(t)
  /\ pc[t] = "idle" /\ pc'[t] = "lock" /\ ret'[t] \in Critical \ {"test"}
  /\ atom_' = atom_ /\ order' = order

Works(t) ==
  /\ (GroupStep(t) /\ ~ Done(t)) \/ QueueStep(t)
  /\ pc[t] \in Critical /\ ret'[t] = "idle"
  /\ pc'[t] \in {"unlock", "test", "cv_wait", "notify_one", "notify_all"}
  /\ op'[t] = op[t] /\ atom_' = atom_ /\ order' = order

Moves(t) ==
  /\ Others(t)
  /\ \/ Locks(t) \/ Releases(t)
     \/ Remembers(t) \/ Looks(t) \/ Sleeps(t) \/ WakesUp(t) \/ Notifies(t) \/ Wakes(t)
     \/ Begins(t) \/ Works(t)

LEMMA FutexMoves ==
  ASSUME LockInv, NEW t \in Threads, FutexStep(t) \/ SpuriousWakeup(t)
  PROVE  Moves(t)
<1>0. /\ pc \in [Threads -> Labels] /\ ret \in [Threads -> Labels]
      /\ op \in [Threads -> {"none", "add", "done", "wait", "push", "pop", "close"}]
      /\ ControlOK(t)
  BY DEF LockInv, ControlTypeOK
<1>a. Others(t)
  BY FutexEffect DEF Effect
<1> USE DEF Goto, Enter, Locking, Releasing, Notifying, ControlOK
<1>1. CASE Lock(t) \/ LockLoop(t) \/ LockWait(t)
  <2>1. Locks(t)
    BY <1>0, <1>1 DEF Lock, LockLoop, LockWait, Locks
  <2> QED BY <1>a, <2>1 DEF Moves
<1>2. CASE Unlock(t)
  <2>1. Releases(t)
    <3>1. op'[t] = IF pc'[t] = "idle" THEN "none" ELSE op[t]
      BY <1>0, <1>2 DEF Unlock, Returns
    <3> QED BY <1>0, <1>2, <3>1 DEF Unlock, Releases
  <2> QED BY <1>a, <2>1 DEF Moves
<1>3. CASE UnlockWake(t)
  <2>1. pc'[t] = ret[t]
    <3>1. CASE In("lock_sleep") = {}
      BY <1>0, <1>3, <3>1 DEF UnlockWake
    <3>2. ASSUME NEW s \in In("lock_sleep"), pc' = [pc EXCEPT ![t] = ret[t], ![s] = "lock_loop"]
          PROVE  pc'[t] = ret[t]
      BY <1>0, <1>3, <3>2 DEF UnlockWake, In
    <3> QED BY <1>3, <3>1, <3>2 DEF UnlockWake
  <2>2. Releases(t)
    <3>1. op'[t] = IF pc'[t] = "idle" THEN "none" ELSE op[t]
      BY <1>0, <1>3, <2>1 DEF UnlockWake, Returns
    <3> QED BY <1>0, <1>3, <2>1, <3>1 DEF UnlockWake, Releases
  <2> QED BY <1>a, <2>2 DEF Moves
<1>4. CASE CvWait(t)
  <2>1. Remembers(t)
    BY <1>0, <1>4 DEF CvWait, Remembers
  <2> QED BY <1>a, <2>1 DEF Moves
<1>5. CASE CvLoop(t)
  <2>1. Looks(t)
    BY <1>0, <1>5 DEF CvLoop, Looks
  <2> QED BY <1>a, <2>1 DEF Moves
<1>6. CASE CvFutex(t)
  <2>1. Sleeps(t)
    BY <1>0, <1>6 DEF CvFutex, Sleeps
  <2> QED BY <1>a, <2>1 DEF Moves
<1>7. CASE NotifyAdd(t)
  <2>1. Notifies(t)
    BY <1>0, <1>7 DEF NotifyAdd, Notifies
  <2> QED BY <1>a, <2>1 DEF Moves
<1>8. CASE NotifyWakeOne(t) \/ NotifyWakeAll(t)
  <2>1. pc'[t] = "unlock"
    <3>1. CASE In("cv_sleep") = {} /\ NotifyWakeOne(t)
      BY <1>0, <3>1 DEF NotifyWakeOne
    <3>2. ASSUME NEW s \in In("cv_sleep"), pc[t] = "wake_one",
                 pc' = [pc EXCEPT ![t] = "unlock", ![s] = "cv_loop"]
          PROVE  pc'[t] = "unlock"
      BY <1>0, <3>2 DEF In
    <3>3. CASE NotifyWakeAll(t)
      BY <1>0, <3>3 DEF NotifyWakeAll
    <3> QED BY <1>8, <3>1, <3>2, <3>3 DEF NotifyWakeOne
  <2>2. Wakes(t)
    BY <1>0, <1>8, <2>1 DEF NotifyWakeOne, NotifyWakeAll, Wakes
  <2> QED BY <1>a, <2>2 DEF Moves
<1>9. CASE SpuriousWakeup(t)
  <2>1. Locks(t) \/ WakesUp(t)
    BY <1>0, <1>9 DEF SpuriousWakeup, Locks, WakesUp
  <2> QED BY <1>a, <2>1 DEF Moves
<1> QED BY <1>1, <1>2, <1>3, <1>4, <1>5, <1>6, <1>7, <1>8, <1>9 DEF FutexStep

LEMMA UseMoves ==
  ASSUME LockInv, NEW t \in Threads, GroupStep(t) \/ GroupCall(t) \/ QueueStep(t) \/ QueueCall(t)
  PROVE  Moves(t)
<1>0. /\ pc \in [Threads -> Labels] /\ ret \in [Threads -> Labels]
      /\ op \in [Threads -> {"none", "add", "done", "wait", "push", "pop", "close"}]
  BY DEF LockInv, ControlTypeOK
<1>a. Others(t)
  BY GroupEffect, QueueEffect DEF Effect
<1> USE DEF Goto, Enter, Critical, Calls, Section
<1>1. CASE GroupCall(t) \/ Done(t) \/ QueueCall(t)
  <2>1. Begins(t)
    BY <1>0, <1>1 DEF Begins, GroupCall, Wait, Add, Done, QueueCall, Push, Pop, Close
  <2> QED BY <1>a, <2>1 DEF Moves
<1>2. CASE GroupStep(t) /\ ~ Done(t)
  <2>1. Works(t)
    BY <1>0, <1>2 DEF Works, GroupStep, AddCount, DoneCount, WaitEnter, WaitTest
  <2> QED BY <1>a, <2>1 DEF Moves
<1>3. CASE QueueStep(t)
  <2>1. Works(t)
    BY <1>0, <1>3 DEF Works, QueueStep, PushValue, PopEnter, PopTest, CloseQueue
  <2> QED BY <1>a, <2>1 DEF Moves
<1> QED BY <1>1, <1>2, <1>3

LEMMA NextMoves ==
  ASSUME LockInv, NEW t \in Threads, Step(t) \/ Call(t) \/ Wakeup(t)
  PROVE  Moves(t)
BY FutexMoves, UseMoves DEF Step, Call, Wakeup

-----------------------------------------------------------------------------
(* my_order: a thread that has given the mutex up in CondVar::Wait remembers *)
(* the counter, and misses no notification made after.                      *)

Past(t) ==
  \/ pc[t] \in {"cv_loop", "cv_futex", "cv_sleep"}
  \/ pc[t] \in Releasing /\ ret[t] = "cv_loop"

\* t waits for a notification that has not been made, or sleeps.
Untold(t) ==
  \/ pc[t] = "cv_wait"
  \/ Past(t) /\ (pc[t] = "cv_sleep" \/ atom_ <= order[t])

Waking == In("wake_one") \cup In("wake_all")
ToNotify == In("notify_one") \cup In("notify_all")

Orders ==
  /\ atom_ \in Nat /\ order \in [Threads -> Nat]
  /\ \A t \in Threads : order[t] <= atom_
  /\ Waking # {} => \A t \in Threads : Past(t) => order[t] < atom_

\* The counter has not wrapped.
Counts(t) == Notifies(t) => atom_' = atom_ + 1

LEMMA PastBefore ==
  ASSUME LockInv, NEW t \in Threads, Moves(t), NEW u \in Threads, Past(u)'
  PROVE  op'[u] = op[u] /\ (Past(u) \/ (u = t /\ Remembers(t)))
<1> USE DEF Past, Releasing, Locking, Critical
<1>1. CASE u # t
  BY <1>1 DEF Moves, Others
<1>2. CASE u = t
  <2>0. ControlOK(t)
    BY DEF LockInv
  <2>1. CASE Locks(t) \/ Begins(t) \/ Works(t) \/ Notifies(t) \/ Wakes(t)
    <3>1. ~ Locks(t) \/ ret[t] \in Critical
      BY <2>0 DEF Locks, ControlOK
    <3> QED BY <1>2, <2>1, <3>1 DEF Locks, Begins, Works, Notifies, Wakes
  <2>2. CASE Releases(t) \/ Remembers(t)
    BY <1>2, <2>0, <2>2 DEF Releases, Remembers, ControlOK
  <2>3. CASE Looks(t) \/ Sleeps(t) \/ WakesUp(t)
    BY <1>2, <2>3 DEF Looks, Sleeps, WakesUp
  <2> QED BY <2>1, <2>2, <2>3 DEF Moves
<1> QED BY <1>1, <1>2

LEMMA WakingBefore ==
  ASSUME LockInv, NEW t \in Threads, Moves(t), ~ Notifies(t)
  PROVE  Waking' \subseteq Waking
<1> SUFFICES ASSUME NEW u \in Threads, pc'[u] \in {"wake_one", "wake_all"}
             PROVE  pc[u] \in {"wake_one", "wake_all"}
  BY DEF Waking, In
<1>1. CASE u # t
  BY <1>1 DEF Moves, Others
<1>2. CASE u = t
  <2>1. ControlOK(t)
    BY DEF LockInv
  <2>2. ~ (Locks(t) \/ Releases(t))
    BY <1>2, <2>1 DEF Locks, Releases, ControlOK, Locking, Releasing, Critical
  <2> QED BY <1>2, <2>2 DEF Moves, Remembers, Looks, Sleeps, WakesUp, Wakes, Begins, Works
<1> QED BY <1>1, <1>2

LEMMA NextOrders ==
  ASSUME LockInv, Orders, NEW t \in Threads, Moves(t), Counts(t)
  PROVE  Orders'
<1>1. /\ atom_ \in Nat /\ order \in [Threads -> Nat]
      /\ \A u \in Threads : order[u] <= atom_
      /\ Waking # {} => \A u \in Threads : Past(u) => order[u] < atom_
  BY DEF Orders
<1>2. CASE Notifies(t)
  <2>1. atom_' = atom_ + 1 /\ order' = order
    BY <1>2 DEF Notifies, Counts
  <2>2. atom_' \in Nat /\ order' \in [Threads -> Nat] /\ \A u \in Threads : order'[u] < atom_'
    BY <1>1, <2>1
  <2>3. \A u \in Threads : order'[u] <= atom_'
    BY <2>2
  <2> QED BY <2>2, <2>3 DEF Orders
<1>3. CASE Remembers(t)
  <2>1. atom_' = atom_ /\ order' = [order EXCEPT ![t] = atom_]
    BY <1>3 DEF Remembers
  <2>2. atom_' \in Nat /\ order' \in [Threads -> Nat] /\ \A u \in Threads : order'[u] <= atom_'
    BY <1>1, <2>1
  <2>3. Waking' = {}
    <3>1. Waking' \subseteq Waking
      <4>1. ~ Notifies(t)
        BY <1>3 DEF Remembers, Notifies
      <4> QED BY <4>1, WakingBefore
    <3>2. Waking = {}
      <4>1. Owns(t) /\ pc[t] \notin {"wake_one", "wake_all"}
        BY <1>3 DEF Remembers, Owns, Sections
      <4> QED BY <4>1 DEF LockInv, OneOwner, Owns, Sections, Waking, In
    <3> QED BY <3>1, <3>2
  <2> QED BY <2>2, <2>3 DEF Orders
<1>4. CASE ~ Notifies(t) /\ ~ Remembers(t)
  <2>1. atom_' = atom_ /\ order' = order
    BY <1>4 DEF Moves, Locks, Releases, Looks, Sleeps, WakesUp, Wakes, Begins, Works
  <2>2. Waking' \subseteq Waking
    BY <1>4, WakingBefore
  <2>3. ASSUME NEW u \in Threads, Past(u)' PROVE Past(u)
    BY <1>4, <2>3, PastBefore
  <2> QED BY <1>1, <2>1, <2>2, <2>3 DEF Orders
<1> QED BY <1>2, <1>3, <1>4

\* Only the test of the loop makes a thread wait, and a notification reaches all that do.
LEMMA UntoldBefore ==
  ASSUME LockInv, Orders, NEW t \in Threads, Moves(t), Counts(t), NEW u \in Threads, Untold(u)'
  PROVE  /\ op'[u] = op[u]
         /\ Untold(u) \/ (u = t /\ Works(t) /\ pc'[t] = "cv_wait")
<1>0. atom_ \in Nat /\ order \in [Threads -> Nat]
  BY DEF Orders
<1>1. CASE pc'[u] = "cv_wait"
  <2>1. CASE u # t
    BY <1>1, <2>1 DEF Moves, Others, Untold
  <2>2. CASE u = t
    <3>1. ControlOK(t)
      BY DEF LockInv
    <3>2. ~ (Locks(t) \/ Releases(t))
      BY <1>1, <2>2, <3>1 DEF Locks, Releases, ControlOK, Locking, Releasing, Critical
    <3>3. Works(t)
      BY <1>1, <2>2, <3>2 DEF Moves, Remembers, Looks, Sleeps, WakesUp, Notifies, Wakes, Begins
    <3> QED BY <1>1, <2>2, <3>3 DEF Works
  <2> QED BY <2>1, <2>2
<1>2. CASE Past(u)' /\ pc'[u] = "cv_sleep"
  <2>1. op'[u] = op[u] /\ (Past(u) \/ (u = t /\ Remembers(t)))
    BY <1>2, PastBefore
  <2>2. CASE u = t
    <3>1. ControlOK(t)
      BY DEF LockInv
    <3>2. ~ (Locks(t) \/ Releases(t))
      BY <1>2, <2>2, <3>1 DEF Locks, Releases, ControlOK, Locking, Releasing, Critical
    <3>3. Sleeps(t)
      BY <1>2, <2>2, <3>2 DEF Moves, Remembers, Looks, WakesUp, Notifies, Wakes, Begins, Works
    <3>4. atom_ <= order[t]
      BY <1>0, <1>2, <2>2, <3>3 DEF Sleeps
    <3>5. pc[t] = "cv_futex"
      BY <3>3 DEF Sleeps
    <3> QED BY <2>1, <2>2, <3>4, <3>5 DEF Untold, Past
  <2>3. CASE u # t
    <3>1. pc[u] = "cv_sleep"
      BY <1>2, <2>3 DEF Moves, Others
    <3> QED BY <2>1, <3>1 DEF Untold, Past
  <2> QED BY <2>2, <2>3
<1>3. CASE Past(u)' /\ atom_' <= order'[u]
  <2>1. op'[u] = op[u] /\ (Past(u) \/ (u = t /\ Remembers(t)))
    BY <1>3, PastBefore
  <2>2. CASE u = t /\ Remembers(t)
    BY <2>1, <2>2 DEF Remembers, Untold
  <2>3. CASE Past(u) /\ ~ (u = t /\ Remembers(t))
    <3>1. order'[u] = order[u]
      <4>1. CASE Remembers(t)
        BY <1>0, <2>3, <4>1 DEF Remembers
      <4>2. CASE ~ Remembers(t)
        BY <4>2 DEF Moves, Locks, Releases, Looks, Sleeps, WakesUp, Notifies, Wakes, Begins, Works
      <4> QED BY <4>1, <4>2
    <3>2. atom_' = atom_ \/ atom_' = atom_ + 1
      BY DEF Moves, Locks, Releases, Remembers, Looks, Sleeps, WakesUp, Notifies, Wakes, Begins, Works,
             Counts
    <3>3. atom_ <= order[u]
      BY <1>0, <1>3, <3>1, <3>2
    <3> QED BY <2>1, <2>3, <3>3 DEF Untold
  <2> QED BY <2>1, <2>2, <2>3
<1> QED BY <1>1, <1>2, <1>3 DEF Untold

\* Nobody who has been told in Pop is told twice, but by its own test.
LEMMA ToldAfter ==
  ASSUME LockInv, Calling, Orders, NEW t \in Threads, Moves(t), Counts(t), NEW u \in Threads, Told(u)
  PROVE  Told(u)' \/ (u = t /\ Works(t) /\ pc[t] = "test")
<1>0. atom_ \in Nat /\ order \in [Threads -> Nat] /\ op[u] = "pop"
  BY DEF Orders, Told
<1>a. atom_' = atom_ \/ atom_' = atom_ + 1
  BY DEF Moves, Locks, Releases, Remembers, Looks, Sleeps, WakesUp, Notifies, Wakes, Begins, Works,
         Counts
<1>1. CASE u # t
  <2>1. order'[u] = order[u]
    <3>1. CASE Remembers(t)
      BY <1>0, <1>1, <3>1 DEF Remembers
    <3>2. CASE ~ Remembers(t)
      BY <3>2 DEF Moves, Locks, Releases, Looks, Sleeps, WakesUp, Notifies, Wakes, Begins, Works
    <3> QED BY <3>1, <3>2
  <2>2. op'[u] = op[u] /\ ret'[u] = ret[u]
        /\ (pc'[u] = pc[u] \/ (pc[u] = "lock_sleep" /\ pc'[u] = "lock_loop"))
    BY <1>1 DEF Moves, Others, Told
  <2>3. atom_ > order[u] => atom_' > order'[u]
    BY <1>0, <1>a, <2>1
  <2> QED BY <2>2, <2>3 DEF Told
<1>2. CASE u = t
  <2>0. ControlOK(t) /\ CallOK(t)
    BY DEF LockInv, Calling
  <2>1. CASE Locks(t)
    <3>1. ret[t] \in {"enter", "test"}
      BY <1>0, <1>2, <2>0, <2>1 DEF Locks, CallOK
    <3> QED BY <1>0, <1>2, <2>1, <3>1 DEF Told, Locks, Locking
  <2>2. CASE Releases(t)
    BY <1>0, <1>2, <2>0, <2>2 DEF Told, Releases, Releasing, ControlOK
  <2>3. CASE Looks(t) \/ Sleeps(t)
    BY <1>0, <1>2, <2>3 DEF Told, Looks, Sleeps
  <2>4. CASE Remembers(t) \/ WakesUp(t) \/ Notifies(t) \/ Wakes(t) \/ Begins(t)
    BY <1>0, <1>2, <2>4 DEF Told, Remembers, WakesUp, Notifies, Wakes, Begins
  <2>5. CASE Works(t)
    <3>1. pc[t] \in {"enter", "test"}
      BY <1>2, <2>5 DEF Told, Works, Critical
    <3>2. CASE pc[t] = "enter"
      <4>1. PopEnter(t)
        BY <1>0, <1>2, <2>5, <3>2 DEF Works, GroupStep, AddCount, DoneCount, WaitEnter, WaitTest,
           QueueStep, PushValue, PopTest, CloseQueue, Section
      <4>2. pc'[t] = "test"
        BY <4>1 DEF PopEnter, Section, Enter, Goto, LockInv, ControlTypeOK
      <4> QED BY <1>0, <1>2, <2>5, <4>2 DEF Told, Works
    <3> QED BY <1>2, <2>5, <3>1, <3>2
  <2> QED BY <1>2, <2>1, <2>2, <2>3, <2>4, <2>5 DEF Moves
<1> QED BY <1>1, <1>2

-----------------------------------------------------------------------------
(* The notifications: one at most for each Done, Push and Close.           *)

Notices == IF ToNotify = {} THEN 0 ELSE 1

LEMMA NoticesAfter ==
  ASSUME LockInv, NEW t \in Threads, Moves(t)
  PROVE  /\ Notices' <= Notices \/ (Works(t) /\ pc'[t] \in {"notify_one", "notify_all"})
         /\ Works(t) => Notices = 0
         /\ Notifies(t) => Notices = 1 /\ Notices' = 0
<1>1. \A u \in Threads \ {t} : u \in ToNotify' <=> u \in ToNotify
  BY DEF Moves, Others, ToNotify, In
<1>2. CASE pc'[t] \in {"notify_one", "notify_all"}
  <2>1. ControlOK(t)
    BY DEF LockInv
  <2>2. ~ (Locks(t) \/ Releases(t))
    BY <1>2, <2>1 DEF Locks, Releases, ControlOK, Locking, Releasing, Critical
  <2>3. Works(t)
    BY <1>2, <2>2 DEF Moves, Remembers, Looks, Sleeps, WakesUp, Notifies, Wakes, Begins
  <2>4. pc[t] \in Critical
    BY <2>3 DEF Works
  <2>5. ToNotify = {}
    BY <2>4 DEF LockInv, OneOwner, Owns, Sections, ToNotify, In, Critical
  <2>6. Notices = 0
    BY <2>5 DEF Notices
  <2>7. ~ Notifies(t)
    BY <2>4 DEF Notifies, Critical
  <2> QED BY <1>2, <2>3, <2>6, <2>7
<1>3. CASE pc'[t] \notin {"notify_one", "notify_all"}
  <2>1. ToNotify' \subseteq ToNotify
    BY <1>1, <1>3 DEF ToNotify, In
  <2>2. Notices' <= Notices
    BY <2>1 DEF Notices
  <2>3. ASSUME Works(t) PROVE Notices = 0
    <3>1. pc[t] \in Critical
      BY <2>3 DEF Works
    <3>2. ToNotify = {}
      BY <3>1 DEF LockInv, OneOwner, Owns, Sections, ToNotify, In, Critical
    <3> QED BY <3>2 DEF Notices
  <2>4. ASSUME Notifies(t) PROVE Notices = 1 /\ Notices' = 0
    <3>1. pc[t] \in {"notify_one", "notify_all"}
      BY <2>4 DEF Notifies
    <3>2. t \in ToNotify
      BY <3>1 DEF ToNotify, In
    <3>3. ToNotify' = {}
      <4>1. ToNotify \subseteq {t}
        BY <3>1 DEF LockInv, OneOwner, Owns, Sections, ToNotify, In
      <4>2. t \notin ToNotify'
        BY <1>3 DEF ToNotify, In
      <4> QED BY <2>1, <4>1, <4>2
    <3> QED BY <3>2, <3>3 DEF Notices
  <2> QED BY <2>2, <2>3, <2>4
<1> QED BY <1>2, <1>3

\* t has not yet counted its Done.
Undone(t) == op[t] = "done" /\ Before(t)

\* The calls of Done that t has not yet counted.
togo == [t \in Threads |-> IF Undone(t) THEN owed[t] + 1 ELSE owed[t]]

LEMMA TogoType ==
  ASSUME CountInv
  PROVE  togo \in [Threads -> 0 .. MaxCount]
<1> SUFFICES ASSUME NEW t \in Threads PROVE togo[t] \in 0 .. MaxCount
  BY DEF togo
<1>1. owed[t] \in 0 .. MaxCount /\ pending[t] \in 0 .. MaxCount
  BY DEF CountInv
<1>2. Undone(t) => togo[t] = pending[t]
  BY DEF togo, pending, Undone
<1>3. ~ Undone(t) => togo[t] = owed[t]
  BY DEF togo
<1> QED BY <1>1, <1>2, <1>3

\* What the others do while t takes a step.
LEMMA UndoneAfter ==
  ASSUME LockInv, Calling, NEW t \in Threads, Moves(t), NEW u \in Threads,
         u # t \/ ~ (Begins(t) \/ Works(t))
  PROVE  Undone(u)' <=> Undone(u)
<1>1. CASE u # t
  BY <1>1, OthersUnits DEF Moves, Undone
<1>2. CASE u = t
  <2>0. ControlOK(t) /\ CallOK(t)
    BY DEF LockInv, Calling
  <2> USE DEF Undone, Before
  <2>1. CASE Locks(t)
    BY <1>2, <2>0, <2>1 DEF Locks, ControlOK, Locking, Critical
  <2>2. CASE Releases(t)
    BY <1>2, <2>0, <2>2 DEF Releases, ControlOK, Locking, Releasing
  <2>3. CASE Looks(t)
    BY <1>2, <2>0, <2>3 DEF Looks, CallOK, Pausing
  <2>4. CASE Remembers(t) \/ Sleeps(t) \/ WakesUp(t) \/ Notifies(t) \/ Wakes(t)
    BY <1>2, <2>4 DEF Remembers, Sleeps, WakesUp, Notifies, Wakes, Locking
  <2> QED BY <1>2, <2>1, <2>2, <2>3, <2>4 DEF Moves
<1> QED BY <1>1, <1>2

\* Steps after which each thread has as many to count as before.
LEMMA TogoStays ==
  ASSUME LockInv, Calling, NEW t \in Threads, Moves(t), owed'[t] = owed[t],
         \A u \in Threads \ {t} : owed'[u] = owed[u],
         Undone(t)' <=> Undone(t)
  PROVE  togo' = togo
<1>1. \A u \in Threads : Undone(u)' <=> Undone(u)
  BY UndoneAfter
<1>2. \A u \in Threads : owed'[u] = owed[u]
  OBVIOUS
<1>3. \A u \in Threads : togo'[u] = togo[u]
  BY <1>1, <1>2 DEF togo
<1> QED BY <1>3 DEF togo

LEMMA GroupTogo ==
  ASSUME LockInv, Calling, CountInv, NEW t \in Threads, GroupStep(t) \/ GroupCall(t)
  PROVE  /\ \/ /\ togo' = togo /\ adds' = adds
               /\ pc'[t] \notin {"notify_one", "notify_all"}
            \/ DoneCount(t) /\ togo[t] > 0 /\ togo' = [togo EXCEPT ![t] = togo[t] - 1] /\ adds' = adds
            \/ \E n \in 1 .. MaxCount :
                 /\ Add(t, n) /\ togo[t] = 0 /\ togo'[t] = n
                 /\ \A u \in Threads \ {t} : togo'[u] = togo[u]
<1> USE DEF Goto, Enter, Section, Calls
<1>0. /\ pc \in [Threads -> Labels] /\ ret \in [Threads -> Labels]
      /\ op \in [Threads -> {"none", "add", "done", "wait", "push", "pop", "close"}]
      /\ ControlOK(t) /\ CallOK(t) /\ Moves(t)
  BY UseMoves DEF LockInv, ControlTypeOK, Calling
<1>a. owed \in [Threads -> 0 .. MaxCount] /\ togo \in [Threads -> 0 .. MaxCount]
  BY TogoType DEF CountInv
<1>1. CASE AddCount(t) \/ WaitEnter(t) \/ WaitTest(t) \/ Wait(t)
  <2>1. owed' = owed /\ adds' = adds /\ pc'[t] \notin {"notify_one", "notify_all"}
    BY <1>0, <1>1 DEF AddCount, WaitEnter, WaitTest, Wait
  <2>2. op[t] # "done" /\ op'[t] # "done"
    BY <1>0, <1>1 DEF AddCount, WaitEnter, WaitTest, Wait, CallOK
  <2>3. togo' = togo
    BY <1>0, <2>1, <2>2, TogoStays DEF Undone
  <2> QED BY <2>1, <2>3
<1>2. CASE Done(t)
  <2>1. ~ Undone(t) /\ Undone(t)' /\ owed' = [owed EXCEPT ![t] = owed[t] - 1]
        /\ adds' = adds /\ pc'[t] = "lock"
    BY <1>0, <1>2 DEF Done, Undone, Before, Locking
  <2>2. togo'[t] = togo[t]
    BY <1>a, <2>1 DEF togo
  <2>3. \A u \in Threads \ {t} : togo'[u] = togo[u]
    BY <1>0, <1>a, <2>1, UndoneAfter DEF togo
  <2>4. togo' = togo
    BY <2>2, <2>3 DEF togo
  <2> QED BY <2>1, <2>4
<1>3. CASE DoneCount(t)
  <2>1. Undone(t) /\ ~ Undone(t)' /\ owed' = owed /\ adds' = adds
    BY <1>0, <1>3 DEF DoneCount, Undone, Before, Locking
  <2>2. togo[t] = owed[t] + 1 /\ togo'[t] = owed[t]
    BY <2>1 DEF togo
  <2>3. \A u \in Threads \ {t} : togo'[u] = togo[u]
    BY <1>0, <2>1, UndoneAfter DEF togo
  <2>4. togo[t] > 0 /\ togo'[t] = togo[t] - 1
    BY <1>a, <2>2
  <2>5. togo' = [togo EXCEPT ![t] = togo[t] - 1]
    BY <2>3, <2>4 DEF togo
  <2> QED BY <1>3, <2>1, <2>4, <2>5
<1>4. ASSUME NEW n \in 1 .. MaxCount, Add(t, n)
      PROVE  togo[t] = 0 /\ togo'[t] = n /\ \A u \in Threads \ {t} : togo'[u] = togo[u]
  <2>1. ~ Undone(t) /\ ~ Undone(t)' /\ owed[t] = 0 /\ owed' = [owed EXCEPT ![t] = n]
    BY <1>0, <1>4 DEF Add, Undone, Before, Locking
  <2>2. togo[t] = 0 /\ togo'[t] = n
    BY <1>a, <2>1 DEF togo
  <2>3. \A u \in Threads \ {t} : togo'[u] = togo[u]
    BY <1>0, <1>a, <2>1, UndoneAfter DEF togo
  <2> QED BY <2>2, <2>3
<1> QED BY <1>1, <1>2, <1>3, <1>4 DEF GroupStep, GroupCall

LEMMA TogoTypeNext ==
  ASSUME CountInv'
  PROVE  togo' \in [Threads -> 0 .. MaxCount]
<1> SUFFICES ASSUME NEW t \in Threads PROVE togo'[t] \in 0 .. MaxCount
  BY DEF togo
<1>1. owed'[t] \in 0 .. MaxCount /\ pending'[t] \in 0 .. MaxCount
  BY DEF CountInv
<1>2. Undone(t)' => togo'[t] = pending'[t]
  BY DEF togo, pending, Undone
<1>3. ~ Undone(t)' => togo'[t] = owed'[t]
  BY DEF togo
<1> QED BY <1>1, <1>2, <1>3

GroupFits ==
  /\ adds \in 0 .. MaxCount /\ waits \in 0 .. MaxWaits
  /\ primitive = "wait group" => atom_ + Notices + Cardinality(Units(togo)) <= adds

LEMMA NextGroupFits ==
  ASSUME LockInv, Calling, CountInv, Orders, GroupFits,
         NEW t \in Threads, Step(t) \/ Call(t) \/ Wakeup(t), Counts(t)
  PROVE  GroupFits'
<1>0. Moves(t)
  BY NextMoves
<1>a. /\ adds \in 0 .. MaxCount /\ waits \in 0 .. MaxWaits /\ atom_ \in Nat
      /\ togo \in [Threads -> 0 .. MaxCount]
      /\ MaxCount \in Nat /\ MaxWaits \in Nat
  BY TogoType, WaitGroupAssumption DEF GroupFits, Orders
<1>b. togo' \in [Threads -> 0 .. MaxCount]
  <2>1. CountInv'
    BY NextCounts DEF Next
  <2> QED BY <2>1, TogoTypeNext
<1>c. Notices \in Nat /\ Notices' \in Nat
  BY DEF Notices
<1>f. Notices' <= 1
  BY DEF Notices
<1>d. PICK k \in Nat : k = Cardinality(Units(togo))
  BY UnitsFinite
<1>e. PICK m \in Nat : m = Cardinality(Units(togo'))
  BY UnitsFinite
<1>g. PICK n0 \in Nat : n0 = Notices
  BY <1>c
<1>k. PICK n1 \in Nat : n1 = Notices' /\ n1 <= 1
  BY <1>c, <1>f
<1>l. PICK a0 \in Nat, d0 \in 0 .. MaxCount : a0 = atom_ /\ d0 = adds
  BY <1>a
<1>m. primitive = "wait group" => a0 + n0 + k <= d0
  BY <1>d, <1>g, <1>l DEF GroupFits
<1>n. PICK a1 \in Nat : a1 = atom_'
  BY <1>0, <1>a DEF Moves, Locks, Releases, Remembers, Looks, Sleeps, WakesUp, Wakes, Notifies, Counts,
                    Begins, Works
<1>h. ASSUME NEW d1 \in 0 .. MaxCount, adds' = d1, waits' \in 0 .. MaxWaits, primitive' = primitive,
             primitive = "wait group" => a1 + n1 + m <= d1
      PROVE  GroupFits'
  <2>1. Cardinality(Units(togo)') = m
    BY <1>e DEF Units
  <2> QED BY <1>h, <1>k, <1>n, <2>1 DEF GroupFits
<1>1. CASE (FutexStep(t) \/ SpuriousWakeup(t)) /\ UNCHANGED <<groupVars, queueVars, primitive>>
  <2>1. Moves(t) /\ ~ Begins(t) /\ ~ Works(t)
    <3>1. pc[t] \notin Critical \cup {"idle"}
      BY <1>1 DEF FutexStep, SpuriousWakeup, Lock, LockLoop, LockWait, Unlock, UnlockWake,
                  CvWait, CvLoop, CvFutex, NotifyAdd, NotifyWakeOne, NotifyWakeAll, Critical
    <3> QED BY <1>0, <3>1 DEF Begins, Works
  <2>2. togo' = togo
    BY <1>1, <2>1, UndoneAfter, TogoStays DEF groupVars
  <2>3. a1 + n1 <= a0 + n0
    <3>1. CASE Notifies(t)
      <4>1. a1 = a0 + 1
        BY <1>l, <1>n, <3>1 DEF Counts
      <4>2. n0 = 1 /\ n1 = 0
        BY <1>g, <1>k, <2>1, <3>1, NoticesAfter
      <4> QED BY <4>1, <4>2
    <3>2. CASE ~ Notifies(t)
      <4>1. a1 = a0
        BY <1>l, <1>n, <2>1, <3>2 DEF Moves, Locks, Releases, Remembers, Looks, Sleeps, WakesUp, Wakes
      <4>2. n1 <= n0
        BY <1>g, <1>k, <2>1, NoticesAfter
      <4> QED BY <4>1, <4>2
    <3> QED BY <3>1, <3>2
  <2>4. adds' = d0 /\ waits' \in 0 .. MaxWaits /\ primitive' = primitive
    BY <1>1, <1>a, <1>l DEF groupVars
  <2>5. m = k
    BY <1>d, <1>e, <2>2
  <2>6. primitive = "wait group" => a1 + n1 + m <= d0
    <3>1. a0 + n0 + k <= d0 => a1 + n1 + m <= d0
      BY <2>3, <2>5
    <3> QED BY <1>m, <3>1
  <2> QED BY <1>h, <2>4, <2>6
<1>2. CASE (GroupStep(t) \/ GroupCall(t)) /\ primitive = "wait group"
           /\ UNCHANGED <<queueVars, primitive>>
  <2>1. a1 = a0 /\ waits' \in 0 .. MaxWaits /\ primitive' = primitive
    <3>1. atom_' = atom_
      BY <1>2 DEF GroupStep, GroupCall, AddCount, Done, DoneCount, WaitEnter, WaitTest, Wait, Add, Section,
                  Calls
    <3>2. waits' = waits \/ (waits < MaxWaits /\ waits' = waits + 1)
      BY <1>2 DEF GroupStep, GroupCall, AddCount, Done, DoneCount, WaitEnter, WaitTest, Wait, Add
    <3>3. waits' \in 0 .. MaxWaits
      BY <1>a, <3>2
    <3> QED BY <1>2, <1>l, <1>n, <3>1, <3>3
  <2>0. a0 + n0 + k <= d0
    BY <1>2, <1>m
  <2>2. CASE togo' = togo /\ adds' = adds /\ pc'[t] \notin {"notify_one", "notify_all"}
    <3>1. n1 <= n0
      BY <1>0, <1>g, <1>k, <2>2, NoticesAfter
    <3>2. m = k
      BY <1>d, <1>e, <2>2
    <3>3. a1 + n1 + m <= d0
      BY <2>0, <2>1, <3>1, <3>2
    <3> QED BY <1>h, <1>l, <2>1, <2>2, <3>3
  <2>3. CASE DoneCount(t) /\ togo[t] > 0 /\ togo' = [togo EXCEPT ![t] = togo[t] - 1] /\ adds' = adds
    <3>1. Works(t)
      <4>1. pc[t] = "count"
        BY <2>3 DEF DoneCount, Section
      <4> QED BY <1>0, <4>1 DEF Moves, Locks, Releases, Remembers, Looks, Sleeps, WakesUp, Notifies, Wakes,
                                Begins, Locking, Releasing
    <3>2. n0 = 0
      BY <1>0, <1>g, <3>1, NoticesAfter
    <3>3. m = k - 1
      <4>1. Cardinality(Units(togo')) = Cardinality(Units(togo)) - 1
        BY <1>a, <1>b, <2>3, RemoveUnit
      <4> QED BY <1>d, <1>e, <4>1
    <3>4. n1 <= 1
      BY <1>k
    <3>5. a1 + n1 + m <= d0
      BY <2>0, <2>1, <3>2, <3>3, <3>4
    <3> QED BY <1>h, <1>l, <2>1, <2>3, <3>5
  <2>4. ASSUME NEW n \in 1 .. MaxCount, Add(t, n), togo[t] = 0, togo'[t] = n,
               \A u \in Threads \ {t} : togo'[u] = togo[u]
        PROVE  GroupFits'
    <3>1. pc'[t] = "lock"
      BY <2>4 DEF Add, Calls, Enter, Goto, LockInv, ControlTypeOK
    <3>2. n1 <= n0
      BY <1>0, <1>g, <1>k, <3>1, NoticesAfter
    <3>3. m = k + n
      <4>1. Cardinality(Units(togo')) = Cardinality(Units(togo)) + n
        BY <1>a, <1>b, <2>4, AddUnits
      <4> QED BY <1>d, <1>e, <4>1
    <3>4. d0 + n \in 0 .. MaxCount /\ adds' = d0 + n
      BY <1>a, <1>l, <2>4 DEF Add
    <3>5. a1 + n1 + m <= d0 + n
      BY <2>0, <2>1, <3>2, <3>3
    <3> QED BY <1>h, <2>1, <3>4, <3>5
  <2> QED BY <1>2, <2>2, <2>3, <2>4, GroupTogo
<1>3. CASE (QueueStep(t) \/ QueueCall(t)) /\ primitive = "queue" /\ UNCHANGED <<groupVars, primitive>>
  BY <1>3, <1>a DEF GroupFits, groupVars
<1> QED BY <1>1, <1>2, <1>3, StepCases

\* t has not yet pushed its value; t has not yet closed the queue.
ToPush(t) == op[t] = "push" /\ pc[t] \in Locking \cup {"value"}
ToClose(t) == op[t] = "close" /\ pc[t] \in Locking \cup {"close"}

Pushing == {t \in Threads : ToPush(t)}

QueueBounds ==
  /\ pushed \in Nat /\ is_closed_ \in BOOLEAN /\ pops \in 0 .. MaxPops
  /\ pushed + Cardinality(Pushing) <= MaxPushes
  /\ \A s, t \in Threads : op[s] = "close" /\ op[t] = "close" => s = t
  /\ \A t \in Threads : ToClose(t) => ~ is_closed_

LEMMA ToPushAfter ==
  ASSUME LockInv, Calling, NEW t \in Threads, Moves(t), NEW u \in Threads,
         u # t \/ ~ (Begins(t) \/ Works(t))
  PROVE  (ToPush(u)' <=> ToPush(u)) /\ (ToClose(u)' <=> ToClose(u))
<1> USE DEF ToPush, ToClose
<1>1. CASE u # t
  BY <1>1 DEF Moves, Others, Locking
<1>2. CASE u = t
  <2>0. ControlOK(t) /\ CallOK(t)
    BY DEF LockInv, Calling
  <2>1. CASE Locks(t)
    BY <1>2, <2>0, <2>1 DEF Locks, ControlOK, CallOK, Locking, Critical
  <2>2. CASE Releases(t)
    BY <1>2, <2>0, <2>2 DEF Releases, ControlOK, Locking, Releasing
  <2>3. CASE Looks(t)
    BY <1>2, <2>0, <2>3 DEF Looks, CallOK, Pausing
  <2>4. CASE Remembers(t) \/ Sleeps(t) \/ WakesUp(t) \/ Notifies(t) \/ Wakes(t)
    BY <1>2, <2>4 DEF Remembers, Sleeps, WakesUp, Notifies, Wakes, Locking
  <2> QED BY <1>2, <2>1, <2>2, <2>3, <2>4 DEF Moves
<1> QED BY <1>1, <1>2

\* The others keep their calls.
LEMMA OthersClose ==
  ASSUME LockInv, QueueBounds, NEW t \in Threads, Moves(t), op'[t] \in {op[t], "none", "pop", "push"}
  PROVE  \A s, u \in Threads : op'[s] = "close" /\ op'[u] = "close" => s = u
BY DEF QueueBounds, Moves, Others

LEMMA NextQueueBounds ==
  ASSUME LockInv, Calling, QueueBounds, NEW t \in Threads, Step(t) \/ Call(t) \/ Wakeup(t)
  PROVE  QueueBounds'
<1>0. Moves(t) /\ ControlOK(t) /\ CallOK(t)
  BY NextMoves DEF LockInv, Calling
<1>a. /\ pushed \in Nat /\ is_closed_ \in BOOLEAN /\ pops \in 0 .. MaxPops
      /\ \A s, u \in Threads : op[s] = "close" /\ op[u] = "close" => s = u
      /\ \A u \in Threads : ToClose(u) => ~ is_closed_
      /\ MaxPushes \in Nat /\ MaxPops \in Nat
  BY QueueAssumption DEF QueueBounds
<1>b. /\ pc \in [Threads -> Labels] /\ ret \in [Threads -> Labels]
      /\ op \in [Threads -> {"none", "add", "done", "wait", "push", "pop", "close"}]
  BY DEF LockInv, ControlTypeOK
<1>c. Pushing \subseteq Threads /\ Pushing' \subseteq Threads
  BY DEF Pushing
<1>d. IsFiniteSet(Pushing) /\ Cardinality(Pushing) \in Nat
  BY <1>c, FiniteThreads
<1>e. \A u \in Threads \ {t} : (ToPush(u)' <=> ToPush(u)) /\ (ToClose(u)' <=> ToClose(u))
  BY <1>0, ToPushAfter
<1>f. ASSUME pushed' = pushed, is_closed_' = is_closed_, pops' \in 0 .. MaxPops,
             ToPush(t)' <=> ToPush(t), ToClose(t)' <=> ToClose(t),
             op'[t] \in {op[t], "none", "pop", "push"}
      PROVE  QueueBounds'
  <2>1. Pushing' = Pushing
    BY <1>e, <1>f DEF Pushing
  <2>2. pushed' + Cardinality(Pushing') <= MaxPushes
    BY <1>f, <2>1 DEF QueueBounds
  <2>3. \A u \in Threads : ToClose(u)' => ~ is_closed_'
    BY <1>a, <1>e, <1>f
  <2> QED BY <1>0, <1>a, <1>f, <2>2, <2>3, OthersClose DEF QueueBounds
<1>1. CASE (FutexStep(t) \/ SpuriousWakeup(t)) /\ UNCHANGED <<groupVars, queueVars, primitive>>
  <2>1. ~ Begins(t) /\ ~ Works(t)
    <3>1. pc[t] \notin Critical \cup {"idle"}
      BY <1>1 DEF FutexStep, SpuriousWakeup, Lock, LockLoop, LockWait, Unlock, UnlockWake,
                  CvWait, CvLoop, CvFutex, NotifyAdd, NotifyWakeOne, NotifyWakeAll, Critical
    <3> QED BY <1>0, <3>1 DEF Begins, Works
  <2>2. op'[t] \in {op[t], "none"}
    BY <1>0, <1>1, FutexCalling
  <2> QED BY <1>0, <1>1, <1>a, <1>f, <2>1, <2>2, ToPushAfter DEF queueVars
<1>2. CASE (GroupStep(t) \/ GroupCall(t)) /\ primitive = "wait group"
           /\ UNCHANGED <<queueVars, primitive>>
  <2>1. op[t] \in {"none", "add", "done", "wait"} /\ op'[t] \in {"none", "add", "done", "wait"}
    <3>1. op[t] \in {"none", "add", "done", "wait"}
      BY <1>2 DEF Calling
    <3> QED BY <1>2, <1>b, <3>1 DEF GroupStep, GroupCall, AddCount, Done, DoneCount, WaitEnter, WaitTest,
                                  Wait, Add, Section, Calls
  <2>2. \A s, u \in Threads : op'[s] = "close" /\ op'[u] = "close" => s = u
    BY <1>0, <1>a, <2>1 DEF Moves, Others
  <2>3. Pushing' = Pushing
    BY <1>e, <2>1 DEF Pushing, ToPush
  <2>4. \A u \in Threads : ToClose(u)' => ~ is_closed_'
    BY <1>2, <1>a, <1>e, <2>1 DEF ToClose, queueVars
  <2>5. pushed' + Cardinality(Pushing') <= MaxPushes
    BY <1>2, <2>3 DEF QueueBounds, queueVars
  <2> QED BY <1>2, <1>a, <2>2, <2>4, <2>5 DEF QueueBounds, queueVars
<1>3. CASE (QueueStep(t) \/ QueueCall(t)) /\ primitive = "queue" /\ UNCHANGED <<groupVars, primitive>>
  <2> USE DEF Calls, Section, Enter, Goto
  <2>1. CASE PopEnter(t) \/ PopTest(t) \/ Pop(t)
    <3>1. pushed' = pushed /\ is_closed_' = is_closed_ /\ op'[t] \in {op[t], "pop"}
      BY <1>b, <2>1 DEF PopEnter, PopTest, Pop, queueVars
    <3>2. pops' \in 0 .. MaxPops
      <4>1. pops' = pops \/ (pops < MaxPops /\ pops' = pops + 1)
        BY <2>1 DEF PopEnter, PopTest, Pop, queueVars
      <4> QED BY <1>a, <4>1
    <3>3. ~ ToPush(t) /\ ~ ToPush(t)' /\ ~ ToClose(t) /\ ~ ToClose(t)'
      BY <1>b, <2>1 DEF PopEnter, PopTest, Pop, ToPush, ToClose, Locking
    <3> QED BY <1>f, <3>1, <3>2, <3>3
  <2>2. CASE Push(t)
    <3>1. pushed' = pushed /\ is_closed_' = is_closed_ /\ pops' = pops /\ op'[t] = "push"
          /\ ~ ToPush(t) /\ ToPush(t)' /\ ~ ToClose(t)'
      BY <1>b, <2>2 DEF Push, queueVars, ToPush, ToClose, Locking
    <3>2. Pushing' = Pushing \cup {t} /\ t \notin Pushing
      BY <1>e, <3>1 DEF Pushing
    <3>3. PICK k \in Nat : k = Cardinality(Pushing)
      BY <1>d
    <3>4. Cardinality(Pushing') = k + 1
      BY <1>d, <3>2, <3>3, FS_AddElement
    <3>5. PICK p \in Nat : p = pushed
      BY <1>a
    <3>6. p + k < MaxPushes
      <4>1. Pushing \subseteq {s \in Threads : op[s] = "push"}
        BY DEF Pushing, ToPush
      <4>2. IsFiniteSet({s \in Threads : op[s] = "push"})
        BY FiniteThreads
      <4>3. PICK j \in Nat : j = Cardinality({s \in Threads : op[s] = "push"})
        BY <4>2, FS_CardinalityType
      <4>4. k <= j
        BY <3>3, <4>1, <4>2, <4>3, FS_Subset
      <4>5. p + j < MaxPushes
        BY <2>2, <3>5, <4>3 DEF Push
      <4> QED BY <4>4, <4>5, <1>a
    <3>7. pushed' + Cardinality(Pushing') <= MaxPushes
      <4>1. p + (k + 1) <= MaxPushes
        BY <3>6, <1>a
      <4> QED BY <3>1, <3>4, <3>5, <4>1
    <3>8. \A u \in Threads : ToClose(u)' => ~ is_closed_'
      BY <1>a, <1>e, <3>1
    <3> QED BY <1>0, <1>a, <3>1, <3>7, <3>8, OthersClose DEF QueueBounds
  <2>3. CASE PushValue(t)
    <3>1. pushed' = pushed + 1 /\ is_closed_' = is_closed_ /\ pops' = pops /\ op'[t] = op[t]
          /\ ToPush(t) /\ ~ ToPush(t)' /\ ~ ToClose(t)'
      BY <1>b, <2>3 DEF PushValue, ToPush, ToClose, Locking
    <3>2. Pushing' = Pushing \ {t} /\ t \in Pushing
      BY <1>e, <3>1 DEF Pushing
    <3>3. PICK k \in Nat : k = Cardinality(Pushing)
      BY <1>d
    <3>4. Cardinality(Pushing') = k - 1
      BY <1>d, <3>2, <3>3, FS_RemoveElement
    <3>5. PICK p \in Nat : p = pushed
      BY <1>a
    <3>6. p + k <= MaxPushes
      BY <3>3, <3>5 DEF QueueBounds
    <3>7. pushed' + Cardinality(Pushing') <= MaxPushes
      <4>1. (p + 1) + (k - 1) <= MaxPushes
        BY <3>6, <1>a
      <4>2. pushed' = p + 1
        BY <3>1, <3>5
      <4> QED BY <3>4, <4>1, <4>2
    <3>8. \A u \in Threads : ToClose(u)' => ~ is_closed_'
      BY <1>a, <1>e, <3>1
    <3>9. pushed' \in Nat
      BY <1>a, <3>1
    <3> QED BY <1>0, <1>a, <3>1, <3>7, <3>8, <3>9, OthersClose DEF QueueBounds
  <2>4. CASE Close(t)
    <3>1. pushed' = pushed /\ is_closed_' = is_closed_ /\ pops' = pops /\ op'[t] = "close"
          /\ ~ ToPush(t) /\ ~ ToPush(t)' /\ ~ is_closed_ /\ \A s \in Threads : op[s] # "close"
      BY <1>b, <2>4 DEF Close, queueVars, ToPush, ToClose, Locking
    <3>2. Pushing' = Pushing
      BY <1>e, <3>1 DEF Pushing
    <3>3. \A s, u \in Threads : op'[s] = "close" /\ op'[u] = "close" => s = u
      BY <1>0, <3>1 DEF Moves, Others
    <3>4. pushed' + Cardinality(Pushing') <= MaxPushes
      BY <3>1, <3>2 DEF QueueBounds
    <3> QED BY <1>a, <3>1, <3>3, <3>4 DEF QueueBounds
  <2>5. CASE CloseQueue(t)
    <3>1. pushed' = pushed /\ is_closed_' = TRUE /\ pops' = pops /\ op'[t] = op[t] /\ op[t] = "close"
          /\ ~ ToPush(t) /\ ~ ToPush(t)' /\ ~ ToClose(t)'
      BY <1>b, <2>5 DEF CloseQueue, ToPush, ToClose, Locking
    <3>2. Pushing' = Pushing
      BY <1>e, <3>1 DEF Pushing
    <3>3. \A s, u \in Threads : op'[s] = "close" /\ op'[u] = "close" => s = u
      BY <1>0, <1>a, <3>1 DEF Moves, Others
    <3>4. pushed' + Cardinality(Pushing') <= MaxPushes
      BY <3>1, <3>2 DEF QueueBounds
    <3>5. \A u \in Threads : ~ ToClose(u)'
      BY <1>a, <1>e, <3>1 DEF ToClose
    <3> QED BY <1>a, <3>1, <3>3, <3>4, <3>5 DEF QueueBounds
  <2> QED BY <1>3, <2>1, <2>2, <2>3, <2>4, <2>5 DEF QueueStep, QueueCall
<1> QED BY <1>1, <1>2, <1>3, StepCases

QueueFits ==
  primitive = "queue" => atom_ + Notices <= pushed + (IF is_closed_ THEN 1 ELSE 0)

LEMMA NextQueueFits ==
  ASSUME LockInv, Calling, Orders, QueueBounds, QueueFits,
         NEW t \in Threads, Step(t) \/ Call(t) \/ Wakeup(t), Counts(t)
  PROVE  QueueFits'
<1>0. Moves(t)
  BY NextMoves
<1>a. atom_ \in Nat /\ pushed \in Nat /\ is_closed_ \in BOOLEAN
      /\ Notices \in Nat /\ Notices' \in Nat /\ Notices' <= 1
  BY DEF Orders, QueueBounds, Notices
<1>b. PICK a0 \in Nat : a0 = atom_
  BY <1>a
<1>c. PICK a1 \in Nat : a1 = atom_'
  BY <1>0, <1>a DEF Moves, Locks, Releases, Remembers, Looks, Sleeps, WakesUp, Wakes, Notifies, Counts,
                    Begins, Works
<1>d. PICK n0 \in Nat : n0 = Notices
  BY <1>a
<1>e. PICK n1 \in Nat : n1 = Notices' /\ n1 <= 1
  BY <1>a
<1>f. PICK p0 \in Nat : p0 = pushed + (IF is_closed_ THEN 1 ELSE 0)
  BY <1>a
<1>g. primitive = "queue" => a0 + n0 <= p0
  BY <1>b, <1>d, <1>f DEF QueueFits
<1>h. ASSUME NEW p1 \in Nat, p1 = pushed' + (IF is_closed_' THEN 1 ELSE 0), a1 + n1 <= p1
      PROVE  QueueFits'
  BY <1>c, <1>e, <1>h DEF QueueFits
<1>1. CASE (FutexStep(t) \/ SpuriousWakeup(t)) /\ UNCHANGED <<groupVars, queueVars, primitive>>
  <2>1. Moves(t) /\ ~ Begins(t) /\ ~ Works(t)
    <3>1. pc[t] \notin Critical \cup {"idle"}
      BY <1>1 DEF FutexStep, SpuriousWakeup, Lock, LockLoop, LockWait, Unlock, UnlockWake,
                  CvWait, CvLoop, CvFutex, NotifyAdd, NotifyWakeOne, NotifyWakeAll, Critical
    <3> QED BY <1>0, <3>1 DEF Begins, Works
  <2>2. a1 + n1 <= a0 + n0
    <3>1. CASE Notifies(t)
      <4>1. a1 = a0 + 1
        BY <1>b, <1>c, <3>1 DEF Counts
      <4>2. n0 = 1 /\ n1 = 0
        BY <1>d, <1>e, <2>1, <3>1, NoticesAfter
      <4> QED BY <4>1, <4>2
    <3>2. CASE ~ Notifies(t)
      <4>1. a1 = a0
        BY <1>b, <1>c, <2>1, <3>2 DEF Moves, Locks, Releases, Remembers, Looks, Sleeps, WakesUp, Wakes
      <4>2. n1 <= n0
        BY <1>d, <1>e, <2>1, NoticesAfter
      <4> QED BY <4>1, <4>2
    <3> QED BY <3>1, <3>2
  <2>3. CASE primitive = "queue"
    <3>1. a0 + n0 <= p0
      BY <1>g, <2>3
    <3>2. a1 + n1 <= p0
      BY <2>2, <3>1
    <3>3. p0 = pushed' + (IF is_closed_' THEN 1 ELSE 0)
      BY <1>1, <1>f DEF queueVars
    <3> QED BY <1>h, <3>2, <3>3
  <2>4. CASE primitive # "queue"
    BY <1>1, <2>4 DEF QueueFits
  <2> QED BY <2>3, <2>4
<1>2. CASE (GroupStep(t) \/ GroupCall(t)) /\ primitive = "wait group"
           /\ UNCHANGED <<queueVars, primitive>>
  BY <1>2 DEF QueueFits
<1>3. CASE (QueueStep(t) \/ QueueCall(t)) /\ primitive = "queue" /\ UNCHANGED <<groupVars, primitive>>
  <2> USE DEF Calls, Section, Enter, Goto
  <2>0. a0 + n0 <= p0 /\ pc \in [Threads -> Labels]
    BY <1>3, <1>g DEF LockInv, ControlTypeOK
  <2>1. a1 = a0
    BY <1>3, <1>b, <1>c DEF QueueStep, QueueCall, PushValue, PopEnter, PopTest, CloseQueue, Push, Pop, Close
  <2>2. CASE PushValue(t) \/ CloseQueue(t)
    <3>1. Works(t)
      <4>1. pc[t] \in Critical
        BY <2>2 DEF PushValue, CloseQueue, Critical
      <4> QED BY <1>0, <4>1 DEF Moves, Locks, Releases, Remembers, Looks, Sleeps, WakesUp, Notifies, Wakes,
                                Begins, Locking, Releasing, Critical
    <3>2. n0 = 0 /\ n1 <= 1
      BY <1>0, <1>d, <1>e, <3>1, NoticesAfter
    <3>3. pushed' + (IF is_closed_' THEN 1 ELSE 0) = p0 + 1
      <4>1. CASE PushValue(t)
        BY <1>a, <1>f, <4>1 DEF PushValue
      <4>2. CASE CloseQueue(t)
        <5>1. ~ is_closed_
          BY <4>2 DEF CloseQueue, QueueBounds, ToClose
        <5> QED BY <1>a, <1>f, <4>2, <5>1 DEF CloseQueue
      <4> QED BY <2>2, <4>1, <4>2
    <3>4. a1 + n1 <= p0 + 1
      BY <2>0, <2>1, <3>2
    <3> QED BY <1>h, <3>3, <3>4
  <2>3. CASE PopEnter(t) \/ PopTest(t) \/ QueueCall(t)
    <3>1. pc'[t] \notin {"notify_one", "notify_all"} /\ pushed' = pushed /\ is_closed_' = is_closed_
      BY <2>0, <2>3 DEF PopEnter, PopTest, QueueCall, Push, Pop, Close, queueVars
    <3>2. n1 <= n0
      BY <1>0, <1>d, <1>e, <3>1, NoticesAfter
    <3>3. p0 = pushed' + (IF is_closed_' THEN 1 ELSE 0)
      BY <1>f, <3>1
    <3>4. a1 + n1 <= p0
      BY <2>0, <2>1, <3>2
    <3> QED BY <1>h, <3>3, <3>4
  <2> QED BY <1>3, <2>2, <2>3 DEF QueueStep
<1> QED BY <1>1, <1>2, <1>3, StepCases

LEMMA Remainder ==
  ASSUME NEW a \in Nat, NEW b \in Nat, a < b
  PROVE  a % b = a
OBVIOUS

\* The counter is below the number of its values, and does not wrap.
LEMMA CounterFits ==
  ASSUME NotificationsFit, LockInv, Calling, CountInv, Orders, GroupFits, QueueBounds, QueueFits
  PROVE  atom_ + Notices < 2^Width
<1>a. atom_ \in Nat /\ pushed \in Nat /\ adds \in Nat /\ adds <= MaxCount /\ is_closed_ \in BOOLEAN
      /\ Notices \in Nat /\ MaxPushes \in Nat /\ MaxCount \in Nat
  <2>1. adds \in 0 .. MaxCount
    BY DEF GroupFits
  <2>2. Notices \in Nat
    BY DEF Notices
  <2>3. atom_ \in Nat /\ pushed \in Nat /\ is_closed_ \in BOOLEAN
    BY DEF Orders, QueueBounds
  <2> QED BY <2>1, <2>2, <2>3, QueueAssumption, WaitGroupAssumption
<1>b. PICK a0 \in Nat, n0 \in Nat, w \in Nat :
        a0 = atom_ /\ n0 = Notices /\ w = 2^Width
  BY <1>a DEF NotificationsFit
<1>c. MaxCount < w /\ MaxPushes + 1 < w
  BY <1>b DEF NotificationsFit
<1>1. a0 + n0 < w
  <2>1. CASE primitive = "wait group"
    <3>1. PICK k \in Nat : k = Cardinality(Units(togo))
      BY UnitsFinite
    <3>2. PICK d0 \in Nat : d0 = adds /\ d0 <= MaxCount
      BY <1>a
    <3>3. a0 + n0 + k <= d0
      BY <1>b, <2>1, <3>1, <3>2 DEF GroupFits
    <3> QED BY <1>a, <1>c, <3>2, <3>3
  <2>2. CASE primitive = "queue"
    <3>1. PICK p0 \in Nat : p0 = pushed
      BY <1>a
    <3>2. p0 <= MaxPushes
      <4>1. Pushing \subseteq Threads
        BY DEF Pushing
      <4>2. PICK k \in Nat : k = Cardinality(Pushing)
        BY <4>1, FiniteThreads
      <4>3. p0 + k <= MaxPushes
        BY <3>1, <4>2 DEF QueueBounds
      <4> QED BY <1>a, <4>3
    <3>3. a0 + n0 <= p0 + (IF is_closed_ THEN 1 ELSE 0)
      BY <1>b, <2>2, <3>1 DEF QueueFits
    <3>4. (IF is_closed_ THEN 1 ELSE 0) \in 0 .. 1
      OBVIOUS
    <3>5. a0 + n0 <= p0 + 1
      BY <3>3, <3>4
    <3> QED BY <1>a, <1>c, <3>2, <3>5
  <2> QED BY <2>1, <2>2 DEF Calling
<1> QED BY <1>1, <1>b

LEMMA NoWrap ==
  ASSUME NotificationsFit, LockInv, Calling, CountInv, Orders, GroupFits, QueueBounds, QueueFits,
         NEW t \in Threads, Moves(t)
  PROVE  Counts(t)
<1> SUFFICES ASSUME Notifies(t) PROVE atom_' = atom_ + 1
  BY DEF Counts
<1>1. PICK a0 \in Nat, w \in Nat : a0 = atom_ /\ w = 2^Width
  BY DEF Orders, NotificationsFit
<1>2. Notices = 1
  BY NoticesAfter
<1>3. a0 + 1 < w
  BY <1>1, <1>2, CounterFits
<1>4. (a0 + 1) % w = a0 + 1
  BY <1>3, Remainder
<1> QED BY <1>1, <1>4 DEF Notifies

-----------------------------------------------------------------------------
(* Nobody sleeps for nothing.                                              *)

Announced == In("notify_all") \cup In("wake_all") # {}

LEMMA AnnouncedStays ==
  ASSUME NEW t \in Threads, Moves(t), ~ NotifyWakeAll(t), Announced
  PROVE  Announced'
<1>1. PICK w \in Threads : pc[w] \in {"notify_all", "wake_all"}
  BY DEF Announced, In
<1>2. pc'[w] \in {"notify_all", "wake_all"}
  <2>1. CASE w # t
    BY <1>1, <2>1 DEF Moves, Others
  <2>2. CASE w = t
    <3>1. Notifies(t) \/ Wakes(t)
      BY <1>1, <2>2 DEF Moves, Locks, Releases, Remembers, Looks, Sleeps, WakesUp, Begins, Works,
                        Locking, Releasing, Critical
    <3>2. CASE Notifies(t)
      BY <1>1, <2>2, <3>2 DEF Notifies
    <3>3. CASE Wakes(t)
      BY <1>1, <2>2, <3>3 DEF Wakes, NotifyWakeOne, Notifies
    <3> QED BY <3>1, <3>2, <3>3
  <2> QED BY <2>1, <2>2
<1> QED BY <1>2 DEF Announced, In

\* The thread with the mutex is the one that notifies.
LEMMA NotifierOwns ==
  ASSUME LockInv, NEW t \in Threads, pc[t] \in Critical \cup {"cv_wait"}
  PROVE  ToNotify = {} /\ Waking = {}
BY DEF LockInv, OneOwner, Owns, Sections, ToNotify, Waking, In, Critical

\* Who has been notified does not wait any longer, but to be woken.
LEMMA OnlySleepers ==
  ASSUME LockInv, Orders, Waking # {}, NEW u \in Threads, Untold(u)
  PROVE  pc[u] = "cv_sleep" /\ order[u] < atom_
<1>1. pc[u] # "cv_wait"
  BY NotifierOwns
<1>2. Past(u) /\ (pc[u] = "cv_sleep" \/ atom_ <= order[u])
  BY <1>1 DEF Untold
<1>3. order[u] < atom_ /\ atom_ \in Nat /\ order[u] \in Nat
  BY <1>2 DEF Orders
<1> QED BY <1>2, <1>3

LEMMA WakeAllTells ==
  ASSUME LockInv, Orders, NEW t \in Threads, Moves(t), Counts(t), NotifyWakeAll(t), NEW u \in Threads
  PROVE  ~ Untold(u)'
<1> SUFFICES ASSUME Untold(u)' PROVE FALSE
  OBVIOUS
<1>0. atom_ \in Nat /\ order \in [Threads -> Nat] /\ pc[t] = "wake_all"
  BY DEF Orders, NotifyWakeAll
<1>1. Untold(u)
  <2>1. ~ Works(t)
    BY <1>0 DEF Works, Critical
  <2> QED BY <2>1, UntoldBefore
<1>2. Waking # {}
  BY <1>0 DEF Waking, In
<1>3. pc[u] = "cv_sleep" /\ order[u] < atom_
  BY <1>1, <1>2, OnlySleepers
<1>4. pc'[u] = "cv_loop" /\ atom_' = atom_ /\ order' = order
  BY <1>0, <1>3 DEF NotifyWakeAll
<1> QED BY <1>0, <1>3, <1>4 DEF Untold

LEMMA UntoldInside ==
  ASSUME NEW u \in Threads, Untold(u)
  PROVE  InLoop(u)
BY DEF Untold, Past, InLoop

GroupTold == (\E u \in Threads : op[u] = "wait" /\ Untold(u)) => count_ # 0 \/ Announced

LEMMA NextGroupTold ==
  ASSUME LockInv, Calling, CountInv, Counted, Orders, GroupTold,
         NEW t \in Threads, Step(t) \/ Call(t) \/ Wakeup(t), Counts(t)
  PROVE  GroupTold'
<1> SUFFICES ASSUME NEW u \in Threads, op'[u] = "wait", Untold(u)'
             PROVE  count_' # 0 \/ Announced'
  BY DEF GroupTold
<1>0. Moves(t)
  BY NextMoves
<1>a. op[u] = "wait" /\ (Untold(u) \/ (u = t /\ Works(t) /\ pc'[t] = "cv_wait"))
  BY <1>0, UntoldBefore
<1>b. primitive = "wait group"
  BY <1>a DEF Calling
<1>c. count_ \in Nat
  BY UnitsFinite DEF CountInv
<1>d. ASSUME count_' = count_, Untold(u) PROVE count_' # 0 \/ Announced'
  <2>1. count_ # 0 \/ Announced
    BY <1>a, <1>d DEF GroupTold
  <2>2. ~ NotifyWakeAll(t)
    BY <1>0, WakeAllTells
  <2> QED BY <1>0, <1>d, <2>1, <2>2, AnnouncedStays
<1>1. CASE (FutexStep(t) \/ SpuriousWakeup(t)) /\ UNCHANGED <<groupVars, queueVars, primitive>>
  <2>1. ~ Works(t)
    <3>1. pc[t] \notin Critical
      BY <1>1 DEF FutexStep, SpuriousWakeup, Lock, LockLoop, LockWait, Unlock, UnlockWake,
                  CvWait, CvLoop, CvFutex, NotifyAdd, NotifyWakeOne, NotifyWakeAll, Critical
    <3> QED BY <3>1 DEF Works
  <2> QED BY <1>1, <1>a, <1>d, <2>1 DEF groupVars
<1>2. CASE GroupStep(t) \/ GroupCall(t)
  <2> USE DEF Section, Enter, Goto
  <2>1. CASE WaitEnter(t) \/ Done(t) \/ GroupCall(t)
    <3>1. count_' = count_
      BY <2>1 DEF WaitEnter, Done, GroupCall, Wait, Add
    <3>2. pc'[t] # "cv_wait"
      BY <2>1 DEF WaitEnter, Done, GroupCall, Wait, Add, Calls, LockInv, ControlTypeOK
    <3> QED BY <1>a, <1>d, <3>1, <3>2
  <2>2. CASE WaitTest(t)
    <3>1. count_' = count_ /\ (pc'[t] = "cv_wait" => count_ # 0)
      BY <2>2 DEF WaitTest, LockInv, ControlTypeOK
    <3> QED BY <1>a, <1>d, <3>1
  <2>3. CASE AddCount(t)
    <3>1. pc[t] = "count" /\ pc'[t] # "cv_wait" /\ count_' = count_ + owed[t]
      BY <2>3 DEF AddCount, LockInv, ControlTypeOK
    <3>2. ~ Announced
      BY <3>1, NotifierOwns DEF Announced, ToNotify, Waking, Critical
    <3>3. count_ # 0
      BY <1>a, <3>1, <3>2 DEF GroupTold
    <3>4. owed[t] \in Nat
      BY DEF CountInv
    <3> QED BY <1>c, <3>1, <3>3, <3>4
  <2>4. CASE DoneCount(t)
    <3>1. pc'[t] = IF waiters > 0 THEN "notify_all" ELSE "unlock"
      BY <2>4 DEF DoneCount, LockInv, ControlTypeOK
    <3>2. Untold(u)
      BY <1>a, <3>1
    <3>3. u \in Inside("wait")
      BY <1>a, <3>2, UntoldInside DEF Inside
    <3>4. waiters > 0
      <4>1. IsFiniteSet(Inside("wait"))
        BY FiniteThreads DEF Inside
      <4>2. PICK k \in Nat : k = Cardinality(Inside("wait"))
        BY <4>1, FS_CardinalityType
      <4>3. k # 0
        BY <3>3, <4>1, <4>2, FS_EmptySet
      <4>4. waiters = k
        BY <4>2 DEF Counted
      <4> QED BY <4>3, <4>4
    <3>5. t \in In("notify_all")'
      BY <3>1, <3>4 DEF In
    <3> QED BY <3>5 DEF Announced
  <2> QED BY <1>2, <2>1, <2>2, <2>3, <2>4 DEF GroupStep
<1> QED BY <1>1, <1>2, <1>b, StepCases

Telling == {t \in Threads : Told(t)}
NotifyingOne == In("notify_one") \cup In("wake_one")

PopTold ==
  (\E u \in Threads : op[u] = "pop" /\ Untold(u)) =>
    /\ is_closed_ => Announced
    /\ Len(buffer_) <= Cardinality(Telling) + Cardinality(NotifyingOne)

LEMMA NotifyingOneStays ==
  ASSUME NEW t \in Threads, Moves(t), ~ NotifyWakeOne(t)
  PROVE  NotifyingOne \subseteq NotifyingOne'
<1> SUFFICES ASSUME NEW w \in Threads, pc[w] \in {"notify_one", "wake_one"}
             PROVE  pc'[w] \in {"notify_one", "wake_one"}
  BY DEF NotifyingOne, In
<1>1. CASE w # t
  BY <1>1 DEF Moves, Others
<1>2. CASE w = t
  <2>1. Notifies(t) \/ Wakes(t)
    BY <1>2 DEF Moves, Locks, Releases, Remembers, Looks, Sleeps, WakesUp, Begins, Works,
                Locking, Releasing, Critical
  <2>2. CASE Notifies(t)
    BY <1>2, <2>2 DEF Notifies
  <2>3. CASE Wakes(t)
    BY <1>2, <2>3 DEF Wakes, NotifyWakeAll
  <2> QED BY <2>1, <2>2, <2>3
<1> QED BY <1>1, <1>2

\* WakeOne wakes a thread that has not been told yet: there is one while a thread waits.
LEMMA WakeOneTells ==
  ASSUME LockInv, Calling, Orders, NEW t \in Threads, Moves(t), Counts(t), NotifyWakeOne(t),
         NEW u \in Threads, op[u] = "pop", Untold(u)
  PROVE  \E s \in Threads \ Telling : Telling \cup {s} \subseteq Telling'
<1>0. atom_ \in Nat /\ order \in [Threads -> Nat] /\ pc[t] = "wake_one"
  BY DEF Orders, NotifyWakeOne
<1>1. Waking # {}
  BY <1>0 DEF Waking, In
<1>2. In("cv_sleep") # {}
  BY <1>1, OnlySleepers DEF In
<1>3. PICK s \in In("cv_sleep") : pc' = [pc EXCEPT ![t] = "unlock", ![s] = "cv_loop"]
  BY <1>2 DEF NotifyWakeOne
<1>4. s \in Threads /\ pc[s] = "cv_sleep"
  BY <1>3 DEF In
<1>5. primitive = "queue" /\ op[s] = "pop"
  <2>1. primitive = "queue"
    BY DEF Calling
  <2> QED BY <1>4, <2>1 DEF Calling, CallOK, Pausing
<1>6. order[s] < atom_
  BY <1>1, <1>4 DEF Orders, Past
<1>7. s \notin Telling
  BY <1>4 DEF Telling, Told
<1>8. Told(s)'
  <2>1. pc'[s] = "cv_loop"
    BY <1>3, <1>4, <1>0 DEF LockInv, ControlTypeOK
  <2>2. op' = op /\ atom_' = atom_ /\ order' = order
    BY DEF NotifyWakeOne
  <2> QED BY <1>0, <1>5, <1>6, <2>1, <2>2 DEF Told
<1>9. \A v \in Threads : Told(v) => Told(v)'
  <2>1. ~ Works(t)
    BY <1>0 DEF Works, Critical
  <2> QED BY <2>1, ToldAfter
<1> QED BY <1>4, <1>7, <1>8, <1>9 DEF Telling

LEMMA NextPopTold ==
  ASSUME LockInv, Calling, Counted, Orders, PopTold, buffer_ \in Seq(1 .. MaxPushes),
         NEW t \in Threads, Step(t) \/ Call(t) \/ Wakeup(t), Counts(t)
  PROVE  PopTold'
<1> SUFFICES ASSUME NEW u \in Threads, op'[u] = "pop", Untold(u)'
             PROVE  /\ is_closed_' => Announced'
                    /\ Len(buffer_') <= Cardinality(Telling') + Cardinality(NotifyingOne')
  BY DEF PopTold
<1>0. Moves(t)
  BY NextMoves
<1>a. op[u] = "pop" /\ (Untold(u) \/ (u = t /\ Works(t) /\ pc'[t] = "cv_wait"))
  BY <1>0, UntoldBefore
<1>b. primitive = "queue" /\ ~ NotifyWakeAll(t)
  BY <1>0, <1>a, WakeAllTells DEF Calling
<1>c. pc \in [Threads -> Labels]
  BY DEF LockInv, ControlTypeOK
<1>d. PICK k0 \in Nat, m0 \in Nat : k0 = Cardinality(Telling) /\ m0 = Cardinality(NotifyingOne)
  BY FiniteThreads DEF Telling, NotifyingOne, In
<1>e. /\ IsFiniteSet(Telling') /\ IsFiniteSet(NotifyingOne')
      /\ IsFiniteSet(Telling) /\ IsFiniteSet(NotifyingOne)
  BY FiniteThreads DEF Telling, NotifyingOne, In
<1>f. PICK k1 \in Nat, m1 \in Nat : k1 = Cardinality(Telling') /\ m1 = Cardinality(NotifyingOne')
  BY <1>e, FS_CardinalityType
<1>g. PICK l0 \in Nat : l0 = Len(buffer_)
  OBVIOUS
<1>h. Untold(u) => (is_closed_ => Announced) /\ l0 <= k0 + m0
  BY <1>a, <1>d, <1>g DEF PopTold
<1>i. ~ (Works(t) /\ pc[t] = "test") => k0 <= k1
  <2> SUFFICES ASSUME ~ (Works(t) /\ pc[t] = "test") PROVE k0 <= k1
    OBVIOUS
  <2>1. Telling \subseteq Telling'
    BY <1>0, ToldAfter DEF Telling
  <2> QED BY <1>d, <1>e, <1>f, <2>1, FS_Subset
<1>j. ~ NotifyWakeOne(t) => m0 <= m1
  <2> SUFFICES ASSUME ~ NotifyWakeOne(t) PROVE m0 <= m1
    OBVIOUS
  <2>1. NotifyingOne \subseteq NotifyingOne'
    BY <1>0, NotifyingOneStays
  <2> QED BY <1>d, <1>e, <1>f, <2>1, FS_Subset
<1>k. ASSUME NEW l1 \in Nat, l1 = Len(buffer_'), l1 <= k1 + m1
      PROVE  Len(buffer_') <= Cardinality(Telling') + Cardinality(NotifyingOne')
  BY <1>f, <1>k
<1>l. ASSUME Untold(u), is_closed_' = is_closed_ PROVE is_closed_' => Announced'
  BY <1>0, <1>b, <1>h, <1>l, AnnouncedStays
\* A step that leaves the queue alone.
<1>m. ASSUME Untold(u), buffer_' = buffer_, ~ NotifyWakeOne(t), ~ (Works(t) /\ pc[t] = "test")
      PROVE  Len(buffer_') <= Cardinality(Telling') + Cardinality(NotifyingOne')
  <2>1. l0 <= k0 + m0 /\ k0 <= k1 /\ m0 <= m1
    BY <1>h, <1>i, <1>j, <1>m
  <2>2. l0 <= k1 + m1
    BY <2>1
  <2>3. l0 = Len(buffer_')
    BY <1>g, <1>m
  <2> QED BY <1>k, <2>2, <2>3
<1>1. CASE (FutexStep(t) \/ SpuriousWakeup(t)) /\ UNCHANGED <<groupVars, queueVars, primitive>>
  <2>1. ~ Works(t)
    <3>1. pc[t] \notin Critical
      BY <1>1 DEF FutexStep, SpuriousWakeup, Lock, LockLoop, LockWait, Unlock, UnlockWake,
                  CvWait, CvLoop, CvFutex, NotifyAdd, NotifyWakeOne, NotifyWakeAll, Critical
    <3> QED BY <3>1 DEF Works
  <2>2. Untold(u) /\ buffer_' = buffer_ /\ is_closed_' = is_closed_
    BY <1>1, <1>a, <2>1 DEF queueVars
  <2>3. CASE ~ NotifyWakeOne(t)
    BY <1>l, <1>m, <2>1, <2>2, <2>3
  <2>4. CASE NotifyWakeOne(t)
    <3>1. PICK s \in Threads \ Telling : Telling \cup {s} \subseteq Telling'
      BY <1>0, <1>a, <2>2, <2>4, WakeOneTells
    <3>2. k0 + 1 <= k1
      <4>1. Cardinality(Telling \cup {s}) = k0 + 1 /\ IsFiniteSet(Telling \cup {s})
        BY <1>d, <1>e, <3>1, FS_AddElement
      <4>2. Cardinality(Telling \cup {s}) <= Cardinality(Telling')
        BY <1>e, <3>1, FS_Subset
      <4> QED BY <1>f, <4>1, <4>2
    <3>3. m0 <= 1
      <4>1. pc[t] = "wake_one"
        BY <2>4 DEF NotifyWakeOne
      <4>2. NotifyingOne = {t}
        BY <4>1 DEF LockInv, OneOwner, Owns, Sections, NotifyingOne, In
      <4>3. m0 = 1
        BY <1>d, <4>2, FS_Singleton
      <4> QED BY <4>3
    <3>4. l0 <= k0 + m0
      BY <1>h, <2>2
    <3>5. l0 <= k1 + m1
      BY <3>2, <3>3, <3>4
    <3>6. l0 = Len(buffer_')
      BY <1>g, <2>2
    <3> QED BY <1>k, <1>l, <2>2, <3>5, <3>6
  <2> QED BY <2>3, <2>4
<1>2. CASE (QueueStep(t) \/ QueueCall(t)) /\ primitive = "queue"
  <2> USE DEF Section, Enter, Goto
  <2>0. ~ NotifyWakeOne(t)
    <3>1. pc[t] # "wake_one"
      BY <1>2 DEF QueueStep, QueueCall, PushValue, PopEnter, PopTest, CloseQueue, Push, Pop, Close, Calls
    <3> QED BY <3>1 DEF NotifyWakeOne
  <2>1. CASE QueueCall(t) \/ PopEnter(t)
    <3>1. buffer_' = buffer_ /\ is_closed_' = is_closed_ /\ pc[t] # "test" /\ pc'[t] # "cv_wait"
      BY <1>c, <2>1 DEF QueueCall, Push, Pop, Close, PopEnter, queueVars, Calls
    <3> QED BY <1>a, <1>l, <1>m, <2>0, <3>1
  <2>2. ASSUME PushValue(t) \/ CloseQueue(t), Untold(u) PROVE waiting_ > 0
    <3>1. u \in Inside("pop")
      BY <1>a, <2>2, UntoldInside DEF Inside
    <3>2. IsFiniteSet(Inside("pop"))
      BY FiniteThreads DEF Inside
    <3>3. PICK k \in Nat : k = Cardinality(Inside("pop"))
      BY <3>2, FS_CardinalityType
    <3>4. k # 0
      BY <3>1, <3>2, <3>3, FS_EmptySet
    <3>5. waiting_ = k
      BY <3>3 DEF Counted
    <3> QED BY <3>4, <3>5
  <2>3. CASE CloseQueue(t)
    <3>1. pc[t] = "close" /\ buffer_' = buffer_
          /\ pc'[t] = IF waiting_ > 0 THEN "notify_all" ELSE "unlock"
      BY <1>c, <2>3 DEF CloseQueue
    <3>2. Untold(u)
      BY <1>a, <3>1
    <3>3. t \in In("notify_all")'
      BY <2>2, <2>3, <3>1, <3>2 DEF In
    <3> QED BY <1>m, <2>0, <3>1, <3>2, <3>3 DEF Announced
  <2>4. CASE PushValue(t)
    <3>1. pc[t] = "value" /\ is_closed_' = is_closed_ /\ pushed' = pushed + 1
          /\ buffer_' = Append(buffer_, pushed')
          /\ pc'[t] = IF waiting_ > 0 THEN "notify_one" ELSE "unlock"
      BY <1>c, <2>4 DEF PushValue
    <3>2. Untold(u)
      BY <1>a, <3>1
    <3>3. t \in NotifyingOne'
      BY <2>2, <2>4, <3>1, <3>2 DEF In, NotifyingOne
    <3>4. m0 = 0
      <4>1. NotifyingOne = {}
        BY <3>1, NotifierOwns DEF NotifyingOne, ToNotify, Waking, Critical
      <4> QED BY <1>d, <4>1, FS_EmptySet
    <3>5. m1 >= 1
      <4>1. m1 # 0
        BY <1>e, <1>f, <3>3, FS_EmptySet
      <4> QED BY <4>1
    <3>6. l0 <= k0 + m0 /\ k0 <= k1
      BY <1>h, <1>i, <3>1, <3>2
    <3>7. l0 + 1 <= k1 + m1
      BY <3>4, <3>5, <3>6
    <3>8. l0 + 1 = Len(buffer_')
      BY <1>g, <3>1
    <3> QED BY <1>k, <1>l, <3>1, <3>2, <3>7, <3>8
  <2>5. CASE PopTest(t)
    <3>1. CASE buffer_' = << >> /\ is_closed_' = is_closed_ /\ (pc'[t] = "cv_wait" => ~ is_closed_)
      <4>1. Len(buffer_') = 0
        BY <3>1
      <4>2. 0 <= k1 + m1
        OBVIOUS
      <4> QED BY <1>a, <1>k, <1>l, <3>1, <4>1, <4>2
    <3>2. CASE buffer_ # << >> /\ buffer_' = Tail(buffer_) /\ is_closed_' = is_closed_
               /\ pc'[t] = "unlock" /\ pc[t] = "test"
      <4>1. Untold(u)
        BY <1>a, <3>2
      <4>2. l0 <= k0 + m0 /\ m0 <= m1
        BY <1>h, <1>j, <2>0, <4>1
      <4>3. k0 <= k1 + 1
        <5>1. Telling \subseteq Telling' \cup {t}
          BY <1>0, ToldAfter DEF Telling
        <5>2. IsFiniteSet(Telling' \cup {t})
          BY <1>e, FS_AddElement
        <5>3. PICK j \in Nat : j = Cardinality(Telling' \cup {t})
          BY <5>2, FS_CardinalityType
        <5>4. k0 <= j
          BY <1>d, <5>1, <5>2, <5>3, FS_Subset
        <5>5. j = k1 \/ j = k1 + 1
          BY <1>e, <1>f, <5>3, FS_AddElement
        <5> QED BY <5>4, <5>5
      <4>4. l0 - 1 = Len(buffer_') /\ l0 - 1 \in Nat
        BY <1>g, <3>2
      <4>5. l0 - 1 <= k1 + m1
        BY <4>2, <4>3
      <4> QED BY <1>k, <1>l, <3>2, <4>1, <4>4, <4>5
    <3> QED BY <1>c, <2>5, <3>1, <3>2 DEF PopTest, queueVars
  <2> QED BY <1>2, <2>1, <2>3, <2>4, <2>5 DEF QueueStep
<1> QED BY <1>1, <1>2, <1>b, StepCases

-----------------------------------------------------------------------------
(* The values of the queue, and the invariant.                             *)

FifoInv ==
  /\ buffer_ \in Seq(1 .. MaxPushes) /\ popped \in Seq(1 .. MaxPushes)
  /\ FirstInFirstOut

LEMMA AppendNext ==
  ASSUME NEW S, NEW s \in Seq(S), NEW b \in Seq(S), NEW p \in Nat, p + 1 \in S,
         Len(s \o b) = p, \A i \in 1 .. p : (s \o b)[i] = i
  PROVE  /\ s \o Append(b, p + 1) \in Seq(S) /\ Len(s \o Append(b, p + 1)) = p + 1
         /\ \A i \in 1 .. p + 1 : (s \o Append(b, p + 1))[i] = i
<1>1. Len(s \o b) = p /\ Len(s \o b) = Len(s) + Len(b)
  OBVIOUS
<1>2. \A i \in 1 .. p : (s \o b)[i] = i
  OBVIOUS
<1>3. \A i \in 1 .. p : (s \o Append(b, p + 1))[i] = i
  <2> SUFFICES ASSUME NEW i \in 1 .. p PROVE (s \o Append(b, p + 1))[i] = i
    OBVIOUS
  <2>0. /\ Append(b, p + 1) \in Seq(S) /\ Len(Append(b, p + 1)) = Len(b) + 1
        /\ \A j \in 1 .. Len(b) : Append(b, p + 1)[j] = b[j]
    OBVIOUS
  <2>1. CASE i <= Len(s)
    <3>1. (s \o b)[i] = s[i]
      BY <1>1, <2>1, ConcatProperties
    <3>2. (s \o Append(b, p + 1))[i] = s[i]
      BY <1>1, <2>0, <2>1
    <3> QED BY <1>2, <3>1, <3>2
  <2>2. CASE i > Len(s)
    <3>1. (s \o b)[i] = b[i - Len(s)] /\ i - Len(s) \in 1 .. Len(b)
      <4>1. i \in 1 .. Len(s) + Len(b) /\ Len(s) \in Nat /\ Len(b) \in Nat /\ ~ (i <= Len(s))
        BY <1>1, <2>2
      <4>2. (s \o b)[i] = b[i - Len(s)]
        <5>1. \A j \in 1 .. Len(s) + Len(b) : (s \o b)[j] = IF j <= Len(s) THEN s[j] ELSE b[j - Len(s)]
          BY ConcatProperties, Zenon
        <5> QED BY <4>1, <5>1
      <4> QED BY <4>1, <4>2
    <3>2. (s \o Append(b, p + 1))[i] = Append(b, p + 1)[i - Len(s)]
      BY <1>1, <2>0, <2>2
    <3> QED BY <1>2, <2>0, <3>1, <3>2
  <2> QED BY <2>1, <2>2
<1>4. (s \o Append(b, p + 1))[p + 1] = p + 1
  BY <1>1
<1>5. s \o Append(b, p + 1) \in Seq(S) /\ Len(s \o Append(b, p + 1)) = p + 1
  BY <1>1
<1>6. \A i \in 1 .. p + 1 : (s \o Append(b, p + 1))[i] = i
  BY <1>3, <1>4
<1> QED BY <1>5, <1>6

LEMMA MoveHead ==
  ASSUME NEW S, NEW s \in Seq(S), NEW b \in Seq(S), b # << >>
  PROVE  /\ Append(s, Head(b)) \in Seq(S) /\ Tail(b) \in Seq(S)
         /\ Append(s, Head(b)) \o Tail(b) = s \o b
<1>1. Head(b) \in S /\ Tail(b) \in Seq(S) /\ Len(Tail(b)) = Len(b) - 1
  OBVIOUS
<1>2. Append(s, Head(b)) \in Seq(S) /\ Len(Append(s, Head(b))) = Len(s) + 1
  BY <1>1
<1>3. Len(Append(s, Head(b)) \o Tail(b)) = Len(s \o b)
  BY <1>1, <1>2
<1>4. \A i \in 1 .. Len(s \o b) : (Append(s, Head(b)) \o Tail(b))[i] = (s \o b)[i]
  <2> SUFFICES ASSUME NEW i \in 1 .. Len(s \o b)
               PROVE  (Append(s, Head(b)) \o Tail(b))[i] = (s \o b)[i]
    OBVIOUS
  <2>1. CASE i <= Len(s)
    BY <1>1, <1>2, <2>1
  <2>2. CASE i = Len(s) + 1
    BY <1>1, <1>2, <2>2
  <2>3. CASE i > Len(s) + 1
    BY <1>1, <1>2, <2>3
  <2> QED BY <2>1, <2>2, <2>3
<1>5. Append(s, Head(b)) \o Tail(b) \in Seq(S) /\ s \o b \in Seq(S)
  BY <1>1, <1>2
<1>6. Append(s, Head(b)) \o Tail(b) = s \o b
  BY <1>3, <1>4, <1>5
<1> QED BY <1>1, <1>2, <1>6

LEMMA NextFifo ==
  ASSUME LockInv, Calling, QueueBounds, FifoInv, NEW t \in Threads, Step(t) \/ Call(t) \/ Wakeup(t)
  PROVE  FifoInv'
<1>a. /\ buffer_ \in Seq(1 .. MaxPushes) /\ popped \in Seq(1 .. MaxPushes)
      /\ popped \o buffer_ = [n \in 1 .. pushed |-> n]
      /\ pushed \in Nat
  BY DEF FifoInv, FirstInFirstOut, QueueBounds
<1>1. CASE PushValue(t)
  <2>1. pushed' = pushed + 1 /\ buffer_' = Append(buffer_, pushed + 1) /\ popped' = popped
    BY <1>1 DEF PushValue
  <2>2. pushed + 1 \in 1 .. MaxPushes
    <3>1. t \in Pushing
      BY <1>1 DEF PushValue, Section, Pushing, ToPush
    <3>2. IsFiniteSet(Pushing)
      BY FiniteThreads DEF Pushing
    <3>3. PICK k \in Nat : k = Cardinality(Pushing)
      BY <3>2, FS_CardinalityType
    <3>4. k # 0
      BY <3>1, <3>2, <3>3, FS_EmptySet
    <3>5. pushed + k <= MaxPushes
      BY <3>3 DEF QueueBounds
    <3> QED BY <1>a, <3>4, <3>5, QueueAssumption
  <2>3. popped \o Append(buffer_, pushed + 1) = [n \in 1 .. pushed + 1 |-> n]
    <3>1. PICK S : S = 1 .. MaxPushes
      OBVIOUS
    <3>2. PICK s \in Seq(S), b \in Seq(S), p \in Nat : s = popped /\ b = buffer_ /\ p = pushed
      BY <1>a, <3>1
    <3>3. p + 1 \in S
      BY <2>2, <3>1, <3>2
    <3>4. PICK c : c = s \o b
      OBVIOUS
    <3>5. c = [n \in 1 .. p |-> n] /\ c \in Seq(S)
      <4>1. c \in Seq(S)
        BY <3>4
      <4>2. c = [n \in 1 .. p |-> n]
        BY <1>a, <3>2, <3>4, Zenon
      <4> QED BY <4>1, <4>2
    <3>6. Len(c) = p /\ \A i \in 1 .. p : c[i] = i
      BY <3>5
    <3> DEFINE h == s \o Append(b, p + 1)
    <3>7. h \in Seq(S) /\ Len(h) = p + 1 /\ \A i \in 1 .. p + 1 : h[i] = i
      <4>1. Len(s \o b) = p /\ \A i \in 1 .. p : (s \o b)[i] = i
        BY <3>4, <3>6, Zenon
      <4> HIDE DEF h
      <4>2. /\ s \o Append(b, p + 1) \in Seq(S) /\ Len(s \o Append(b, p + 1)) = p + 1
            /\ \A i \in 1 .. p + 1 : (s \o Append(b, p + 1))[i] = i
        BY <3>3, <4>1, AppendNext
      <4> QED BY <4>2 DEF h
    <3> HIDE DEF h
    <3>8. h = [n \in 1 .. p + 1 |-> h[n]]
      BY <3>7
    <3>9. h = [n \in 1 .. p + 1 |-> n]
      BY <3>7, <3>8
    <3> QED BY <3>2, <3>9 DEF h
  <2>4. buffer_' \in Seq(1 .. MaxPushes)
    BY <1>a, <2>1, <2>2
  <2> QED BY <1>a, <2>1, <2>3, <2>4 DEF FifoInv, FirstInFirstOut
<1>2. CASE PopTest(t) /\ buffer_' # buffer_
  <2>1. /\ buffer_ # << >> /\ buffer_' = Tail(buffer_) /\ popped' = Append(popped, Head(buffer_))
        /\ pushed' = pushed
    BY <1>2 DEF PopTest, queueVars
  <2>2. /\ Append(popped, Head(buffer_)) \in Seq(1 .. MaxPushes)
        /\ Tail(buffer_) \in Seq(1 .. MaxPushes)
        /\ Append(popped, Head(buffer_)) \o Tail(buffer_) = popped \o buffer_
    <3> DEFINE S == 1 .. MaxPushes
    <3>1. popped \in Seq(S) /\ buffer_ \in Seq(S)
      BY <1>a
    <3> HIDE DEF S
    <3>2. /\ Append(popped, Head(buffer_)) \in Seq(S) /\ Tail(buffer_) \in Seq(S)
          /\ Append(popped, Head(buffer_)) \o Tail(buffer_) = popped \o buffer_
      BY <2>1, <3>1, MoveHead
    <3> QED BY <3>2 DEF S
  <2> QED BY <1>a, <2>1, <2>2 DEF FifoInv, FirstInFirstOut
<1>3. CASE buffer_' = buffer_ /\ popped' = popped /\ pushed' = pushed
  BY <1>3 DEF FifoInv, FirstInFirstOut
<1>4. CASE PopTest(t) /\ buffer_' = buffer_
  <2>1. \/ UNCHANGED queueVars
        \/ buffer_ # << >> /\ buffer_' = Tail(buffer_)
        \/ popped' = popped /\ pushed' = pushed
    BY <1>4 DEF PopTest
  <2>2. ~ (buffer_ # << >> /\ buffer_' = Tail(buffer_))
    <3>1. buffer_ # << >> => Len(Tail(buffer_)) # Len(buffer_)
      BY <1>a
    <3> QED BY <1>4, <3>1
  <2> QED BY <1>3, <1>4, <2>1, <2>2 DEF queueVars
<1> QED
  BY <1>1, <1>2, <1>3, <1>4, StepCases
     DEF queueVars, QueueStep, QueueCall, Push, Pop, Close, PopEnter, CloseQueue

-----------------------------------------------------------------------------

SleepInv ==
  /\ NotificationsFit
  /\ LockInv /\ CountInv /\ Calling /\ Counted
  /\ Orders /\ GroupFits /\ QueueBounds /\ QueueFits
  /\ GroupTold /\ PopTold /\ FifoInv

LEMMA InitSleeps ==
  ASSUME NotificationsFit, Init
  PROVE  SleepInv
<1>0. /\ pc = [t \in Threads |-> "idle"] /\ op = [t \in Threads |-> "none"]
      /\ order = [t \in Threads |-> 0] /\ atom_ = 0
      /\ owed = [t \in Threads |-> 0] /\ waiters = 0 /\ adds = 0 /\ waits = 0
      /\ buffer_ = << >> /\ waiting_ = 0 /\ is_closed_ = FALSE /\ pushed = 0 /\ popped = << >> /\ pops = 0
      /\ primitive \in {"wait group", "queue"}
  BY DEF Init, FutexInit, GroupInit, QueueInit
<1>1. LockInv /\ CountInv
  BY InitLocks, InitCounts
<1>2. Calling
  BY <1>0 DEF Calling, CallOK, Locking, Releasing, Pausing
<1>3. Counted
  <2>1. Inside("wait") = {} /\ Inside("pop") = {}
    BY <1>0 DEF Inside
  <2> QED BY <1>0, <2>1, FS_EmptySet DEF Counted
<1>4. Orders
  <2>1. Waking = {}
    BY <1>0 DEF Waking, In
  <2>2. atom_ \in Nat /\ order \in [Threads -> Nat] /\ \A t \in Threads : order[t] <= atom_
    <3>1. order = [t \in Threads |-> 0] /\ atom_ = 0
      BY <1>0
    <3>2. \A t \in Threads : order[t] = 0
      BY <3>1
    <3>3. order \in [Threads -> Nat]
      BY <3>1
    <3>4. \A t \in Threads : order[t] <= 0
      BY <3>2
    <3> QED BY <3>1, <3>3, <3>4
  <2> QED BY <2>1, <2>2 DEF Orders
<1>5. Notices = 0
  BY <1>0 DEF Notices, ToNotify, In
<1>6. GroupFits
  <2>1. togo = [t \in Threads |-> 0]
    BY <1>0 DEF togo, Undone
  <2>2. Units(togo) = {}
    BY <2>1, WaitGroupAssumption DEF Units
  <2>3. Cardinality(Units(togo)) = 0
    BY <2>2, FS_EmptySet
  <2>4. atom_ + Notices + Cardinality(Units(togo)) <= adds
    <3>1. PICK a0, n0, k, d0 : a0 = atom_ /\ n0 = Notices /\ k = Cardinality(Units(togo)) /\ d0 = adds
      OBVIOUS
    <3>2. a0 = 0 /\ n0 = 0 /\ k = 0 /\ d0 = 0
      BY <1>0, <1>5, <2>3, <3>1
    <3>3. a0 + n0 + k <= d0
      BY <3>2
    <3> QED BY <3>1, <3>3
  <2>5. 0 \in 0 .. MaxCount /\ 0 \in 0 .. MaxWaits
    BY WaitGroupAssumption
  <2> QED BY <1>0, <2>4, <2>5 DEF GroupFits
<1>7. QueueBounds
  <2>1. Pushing = {}
    BY <1>0 DEF Pushing, ToPush
  <2>2. PICK k : k = Cardinality(Pushing)
    OBVIOUS
  <2>3. k = 0
    BY <2>1, <2>2, FS_EmptySet
  <2>4. pushed + Cardinality(Pushing) <= MaxPushes
    <3>1. PICK p : p = pushed
      OBVIOUS
    <3>2. p = 0
      BY <1>0, <3>1
    <3>3. p + k <= MaxPushes
      BY <2>3, <3>2, QueueAssumption
    <3> QED BY <2>2, <3>1, <3>3
  <2>5. 0 \in 0 .. MaxPops
    BY QueueAssumption
  <2>6. \A t \in Threads : op[t] = "none" /\ ~ ToClose(t)
    BY <1>0 DEF ToClose
  <2>7. pushed \in Nat /\ is_closed_ \in BOOLEAN /\ pops \in 0 .. MaxPops
    BY <1>0, <2>5
  <2> QED BY <2>4, <2>6, <2>7 DEF QueueBounds
<1>8. QueueFits
  <2>1. PICK n0 : n0 = Notices /\ n0 = 0
    BY <1>5
  <2> QED BY <1>0, <2>1 DEF QueueFits
<1>9. GroupTold /\ PopTold
  BY <1>0 DEF GroupTold, PopTold
<1>10. FifoInv
  <2>1. << >> \in Seq(1 .. MaxPushes)
    OBVIOUS
  <2>2. << >> \o << >> = [n \in 1 .. 0 |-> n]
    <3>1. << >> \o << >> = << >>
      BY ConcatEmptySeq, <2>1
    <3>2. PICK f : f = [n \in 1 .. 0 |-> n]
      OBVIOUS
    <3>3. f \in Seq(1 .. MaxPushes) /\ Len(f) = 0
      BY <3>2
    <3>4. f = << >>
      BY <3>3
    <3> QED BY <3>1, <3>2, <3>4
  <2> QED BY <1>0, <2>1, <2>2 DEF FifoInv, FirstInFirstOut
<1> QED BY <1>1, <1>2, <1>3, <1>4, <1>6, <1>7, <1>8, <1>9, <1>10 DEF SleepInv

LEMMA NextSleeps ==
  ASSUME SleepInv, [Next]_vars
  PROVE  SleepInv'
<1>0. NotificationsFit'
  BY DEF SleepInv, NotificationsFit
<1>1. LockInv' /\ CountInv' /\ Calling' /\ Counted'
  BY NextLocks, NextCounts, NextCalling, NextCounted DEF SleepInv
<1>2. ASSUME NEW t \in Threads, Step(t) \/ Call(t) \/ Wakeup(t)
      PROVE  SleepInv'
  <2>1. Moves(t) /\ Counts(t)
    BY <1>2, NextMoves, NoWrap DEF SleepInv
  <2>2. Orders' /\ GroupFits' /\ QueueBounds' /\ QueueFits'
    BY <1>2, <2>1, NextOrders, NextGroupFits, NextQueueBounds, NextQueueFits DEF SleepInv
  <2>3. GroupTold' /\ PopTold' /\ FifoInv'
    BY <1>2, <2>1, NextGroupTold, NextPopTold, NextFifo DEF SleepInv, FifoInv
  <2> QED BY <1>0, <1>1, <2>2, <2>3 DEF SleepInv
<1>3. CASE UNCHANGED vars
  <2>1. UNCHANGED <<futexVars, groupVars, queueVars, primitive>>
    BY <1>3 DEF vars
  <2> USE DEF futexVars, groupVars, queueVars
  <2>2. Orders'
    BY <2>1 DEF Orders, SleepInv, Waking, In, Past
  <2>3. GroupFits'
    <3>1. togo' = togo /\ Notices' = Notices
      BY <2>1 DEF togo, Undone, Before, Notices, ToNotify, In
    <3>2. Units(togo)' = Units(togo)
      BY <3>1 DEF Units
    <3> QED BY <2>1, <3>1, <3>2 DEF GroupFits, SleepInv
  <2>4. QueueBounds' /\ QueueFits'
    <3>1. Notices' = Notices /\ Pushing' = Pushing
      BY <2>1 DEF Notices, ToNotify, In, Pushing, ToPush
    <3> QED BY <2>1, <3>1 DEF QueueBounds, QueueFits, SleepInv, ToClose
  <2>5. GroupTold' /\ PopTold'
    <3>1. \A u \in Threads : (Untold(u)' <=> Untold(u)) /\ (Told(u)' <=> Told(u))
      BY <2>1 DEF Untold, Past, Told
    <3>2. (Announced' <=> Announced) /\ Telling' = Telling /\ NotifyingOne' = NotifyingOne
      BY <2>1, <3>1 DEF Announced, In, Telling, NotifyingOne
    <3> QED BY <2>1, <3>1, <3>2 DEF GroupTold, PopTold, SleepInv
  <2>6. FifoInv'
    BY <2>1 DEF FifoInv, FirstInFirstOut, SleepInv
  <2> QED BY <1>0, <1>1, <2>2, <2>3, <2>4, <2>5, <2>6 DEF SleepInv
<1> QED BY <1>2, <1>3 DEF Next

\* What the invariant says of the types, the waiters and the queue.
LEMMA SleepImplies ==
  ASSUME SleepInv
  PROVE  /\ FutexTypeOK /\ GroupTypeOK /\ QueueTypeOK
         /\ WaitersTold /\ PoppersTold /\ FirstInFirstOut
<1>1. FutexTypeOK
  <2>1. PICK a0 \in Nat, n0 \in Nat, w \in Nat : a0 = atom_ /\ n0 = Notices /\ w = 2^Width
    BY DEF SleepInv, Orders, Notices, NotificationsFit
  <2>2. a0 + n0 < w
    BY <2>1, CounterFits DEF SleepInv
  <2>3. a0 \in 0 .. w - 1
    BY <2>2
  <2>4. \A t \in Threads : order[t] \in 0 .. w - 1
    <3> SUFFICES ASSUME NEW t \in Threads PROVE order[t] \in 0 .. w - 1
      OBVIOUS
    <3>1. PICK o \in Nat : o = order[t] /\ o <= a0
      BY <2>1 DEF SleepInv, Orders
    <3> QED BY <2>3, <3>1
  <2>5. atom_ \in 0 .. 2^Width - 1 /\ order \in [Threads -> 0 .. 2^Width - 1]
    <3>1. order \in [Threads -> 0 .. w - 1]
      BY <2>4 DEF SleepInv, Orders
    <3> QED BY <2>1, <2>3, <3>1, Zenon
  <2> QED BY <2>5 DEF SleepInv, LockInv, ControlTypeOK, FutexTypeOK
<1>2. GroupTypeOK
  <2>1. count_ \in Nat
    BY UnitsFinite DEF SleepInv, CountInv
  <2>2. waiters \in Nat
    BY FiniteThreads DEF SleepInv, Counted, Inside
  <2> QED BY <2>1, <2>2 DEF SleepInv, CountInv, GroupFits, GroupTypeOK
<1>3. QueueTypeOK
  <2>1. waiting_ \in Nat
    BY FiniteThreads DEF SleepInv, Counted, Inside
  <2>2. pushed \in 0 .. MaxPushes
    <3>1. PICK k \in Nat : k = Cardinality(Pushing)
      BY FiniteThreads DEF Pushing
    <3>2. pushed \in Nat /\ pushed + k <= MaxPushes
      BY <3>1 DEF SleepInv, QueueBounds
    <3> QED BY <3>2, QueueAssumption
  <2> QED BY <2>1, <2>2 DEF SleepInv, FifoInv, QueueBounds, QueueTypeOK
<1>4. WaitersTold
  BY DEF SleepInv, GroupTold, WaitersTold, Untold, Past, In, Announced
<1>5. PoppersTold
  <2> SUFFICES ASSUME NEW t \in In("cv_sleep"), op[t] = "pop"
               PROVE  /\ is_closed_ => Announced
                      /\ Len(buffer_) <= Cardinality(Telling) + Cardinality(NotifyingOne)
    BY DEF PoppersTold, Announced, Telling, NotifyingOne
  <2>1. t \in Threads /\ Untold(t)
    BY DEF In, Untold, Past
  <2> QED BY <2>1 DEF SleepInv, PopTold
<1> QED BY <1>1, <1>2, <1>3, <1>4, <1>5 DEF SleepInv, FifoInv

\* The whole invariant of the run thread_primitives, for any number of threads: while the
\* counter of the condition variable has more values than there are notifications, no
\* waiter of a wait group and no Pop sleeps for nothing, and the queue is first-in
\* first-out.
THEOREM NobodySleepsForNothing == NotificationsFit /\ Spec => []SyncInv
<1>1. NotificationsFit /\ Init => SleepInv
  BY InitSleeps
<1>2. SleepInv /\ [Next]_vars => SleepInv'
  BY NextSleeps
<1>3. SleepInv /\ MutualExclusion /\ SleepersCovered => SyncInv
  BY SleepImplies DEF SyncInv
<1> QED BY <1>1, <1>2, <1>3, FutexExcludes, NoForgottenSleeper, PTL DEF Spec

================================================================================

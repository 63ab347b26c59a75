-------------------------- MODULE FiberRuntimeProofs --------------------------
(* Proofs about ThreadPool and, above it, about FiberRuntime, for any number  *)
(* of threads, tasks, fibers and functions: the counter of the blocking queue *)
(* is exact, no notification is lost and Stop drains; the pool and its timers *)
(* keep their invariants whatever fibers do, a fiber, its stack and the timer *)
(* on it are used only while they are there, and fibers are scheduled as      *)
(* FiberScheduler says.                                                       *)
EXTENDS FiberRuntime, TLAPS, FiniteSetTheorems, SequenceTheorems

-----------------------------------------------------------------------------
(* ThreadPool: the queue, its waiters and Stop                                *)

\* The workers at a label, in any state of the workers: In(label) is
\* Members(worker, label).
Members(f, label) == {w \in Workers : f[w] = label}

LEMMA MembersFinite ==
  ASSUME NEW f, NEW label
  PROVE  IsFiniteSet(Members(f, label)) /\ Cardinality(Members(f, label)) \in Nat
<1>1. Members(f, label) \subseteq Workers
  BY DEF Members
<1>2. IsFiniteSet(Members(f, label))
  BY <1>1, PoolAssumption, FS_Subset
<1> QED BY <1>2, FS_CardinalityType

LEMMA NoMembers ==
  ASSUME NEW f, NEW label
  PROVE  Cardinality(Members(f, label)) = 0 <=> Members(f, label) = {}
BY MembersFinite, FS_EmptySet

\* A worker that goes from one label to another changes the number of both by one,
\* and that of no third label.
LEMMA Move ==
  ASSUME worker \in [Workers -> Labels], NEW w \in Workers, NEW l \in Labels, worker[w] # l,
         worker' = [worker EXCEPT ![w] = l]
  PROVE  /\ worker' \in [Workers -> Labels]
         /\ Cardinality(Members(worker', l)) = Cardinality(Members(worker, l)) + 1
         /\ Cardinality(Members(worker', worker[w])) = Cardinality(Members(worker, worker[w])) - 1
         /\ \A k : k # l /\ k # worker[w] => Members(worker', k) = Members(worker, k)
<1>1. worker' \in [Workers -> Labels]
  OBVIOUS
<1>2. Members(worker', l) = Members(worker, l) \cup {w} /\ w \notin Members(worker, l)
  BY DEF Members
<1>3. Cardinality(Members(worker', l)) = Cardinality(Members(worker, l)) + 1
  BY <1>2, MembersFinite, FS_AddElement
<1>4. Members(worker', worker[w]) = Members(worker, worker[w]) \ {w}
      /\ w \in Members(worker, worker[w])
  BY DEF Members
<1>5. Cardinality(Members(worker', worker[w])) = Cardinality(Members(worker, worker[w])) - 1
  BY <1>4, MembersFinite, FS_RemoveElement
<1>6. \A k : k # l /\ k # worker[w] => Members(worker', k) = Members(worker, k)
  BY DEF Members
<1> QED BY <1>1, <1>3, <1>5, <1>6

-----------------------------------------------------------------------------
\* PoolInv with In written as Members, which does not depend on the state.
LEMMA InMembers == \A label : In(label) = Members(worker, label)
  BY DEF In, Members

LEMMA InMembersNext == \A label : In(label)' = Members(worker', label)
  BY DEF In, Members

LEMMA NoTasks == << >> \in Seq(Tasks)
  OBVIOUS

\* The initial states satisfy the invariant.
LEMMA PoolInitInv == PoolInit => PoolInv
<1> SUFFICES ASSUME PoolInit PROVE PoolInv
  OBVIOUS
<1>1. In("wait") = {} /\ In("woken") = {} /\ In("exited") = {}
  BY DEF PoolInit, In
<1>2. TypeOK
  BY NoTasks DEF PoolInit, TypeOK, MainLabels, Labels
<1>3. WaitingCounts
  <2>1. waiting_ = 0
    BY DEF PoolInit
  <2>2. Cardinality(In("wait")) = 0 /\ Cardinality(In("woken")) = 0
    BY <1>1, FS_EmptySet
  <2> QED BY <2>1, <2>2 DEF WaitingCounts
<1>4. EnoughWoken /\ ExitedClosed
  BY <1>1 DEF EnoughWoken, ExitedClosed
<1>5. StopDrains
  BY <1>1, PoolAssumption DEF StopDrains
<1> QED BY <1>2, <1>3, <1>4, <1>5 DEF PoolInv

-----------------------------------------------------------------------------
\* One step of Pop: whatever the state of the queue, the thread that has the mutex
\* leaves the counter exact, and takes a task, sleeps on an empty queue or exits.
LEMMA PopInv ==
  ASSUME PoolInv, NEW w \in Workers, worker[w] \in {"pop", "woken"}, NEW n,
         n = IF worker[w] = "pop" THEN waiting_ + 1 ELSE waiting_,
         PopSection(w, n), UNCHANGED <<is_closed_, main, unsubmitted, late>>
  PROVE  PoolInv'
<1> DEFINE W == Cardinality(Members(worker, "wait"))
           K == Cardinality(Members(worker, "woken"))
           W1 == Cardinality(Members(worker', "wait"))
           K1 == Cardinality(Members(worker', "woken"))
<1>1. worker \in [Workers -> Labels] /\ W \in Nat /\ K \in Nat /\ waiting_ = W + K
  BY MembersFinite, InMembers DEF PoolInv, TypeOK, WaitingCounts
<1>2. {"wait", "run", "exited"} \subseteq Labels /\ worker[w] \notin {"wait", "run", "exited"}
  BY DEF Labels
<1>3. buffer_ \in Seq(Tasks) /\ task \in [Workers -> Tasks \cup {NULL}]
  BY DEF PoolInv, TypeOK
<1>4. W1 \in Nat /\ K1 \in Nat
  BY MembersFinite
<1>5. SUFFICES ASSUME NEW l \in {"wait", "run", "exited"}, worker' = Becomes(w, l),
                      \/ /\ l = "wait" /\ ~is_closed_ /\ buffer_ = << >>
                         /\ waiting_' = n
                         /\ UNCHANGED <<buffer_, task>>
                      \/ /\ l = "run" /\ buffer_ # << >>
                         /\ waiting_' = n - 1
                         /\ buffer_' = Tail(buffer_)
                         /\ task' = [task EXCEPT ![w] = Head(buffer_)]
                      \/ /\ l = "exited" /\ is_closed_ /\ buffer_ = << >>
                         /\ waiting_' = n - 1
                         /\ UNCHANGED <<buffer_, task>>
               PROVE  PoolInv'
  BY DEF PopSection
<1>6. /\ worker' \in [Workers -> Labels]
      /\ Cardinality(Members(worker', l)) = Cardinality(Members(worker, l)) + 1
      /\ Cardinality(Members(worker', worker[w])) = Cardinality(Members(worker, worker[w])) - 1
      /\ \A k : k # l /\ k # worker[w] => Members(worker', k) = Members(worker, k)
  <2>1. l \in Labels /\ worker[w] # l /\ worker' = [worker EXCEPT ![w] = l]
    BY <1>2, <1>5 DEF Becomes
  <2>2. worker \in [Workers -> Labels]
    BY <1>1
  <2> QED BY <2>1, <2>2, Move
<1>7. /\ W1 = IF l = "wait" THEN W + 1 ELSE W
      /\ K1 = IF worker[w] = "woken" THEN K - 1 ELSE K
  BY <1>2, <1>6
<1>8. waiting_' = W1 + K1
  BY <1>1, <1>5, <1>7
<1>9. WaitingCounts'
  BY <1>8, InMembersNext DEF WaitingCounts
<1>10. buffer_' \in Seq(Tasks) /\ Len(buffer_') <= Len(buffer_) /\ Len(buffer_) \in Nat
       /\ (l = "run" => Len(buffer_') = Len(buffer_) - 1)
  <2>1. Len(buffer_) \in Nat
    BY <1>3
  <2>2. CASE buffer_' = buffer_ /\ l # "run"
    BY <1>3, <2>1, <2>2
  <2>3. CASE buffer_ # << >> /\ buffer_' = Tail(buffer_)
    BY <1>3, <2>1, <2>3, HeadTailProperties
  <2> QED BY <1>5, <2>2, <2>3
<1>11. TypeOK'
  <2>1. task' \in [Workers -> Tasks \cup {NULL}]
    BY <1>3, <1>5, HeadTailProperties
  <2>2. waiting_' \in Nat
    BY <1>4, <1>8
  <2> QED BY <1>6, <1>10, <2>1, <2>2 DEF PoolInv, TypeOK
<1>12. EnoughWoken'
  <2> SUFFICES ASSUME In("wait")' # {} PROVE ~is_closed_' /\ Len(buffer_') <= Cardinality(In("woken"))'
    BY DEF EnoughWoken
  <2>1. CASE l = "wait"
    <3>1. ~is_closed_' /\ Len(buffer_') = 0
      BY <1>5, <2>1
    <3> QED BY <3>1, <1>4, InMembersNext
  <2>2. CASE l # "wait"
    <3>1. Members(worker', "wait") = Members(worker, "wait")
      BY <1>2, <1>6, <2>2
    <3>2. ~is_closed_ /\ Len(buffer_) <= K
      BY <3>1, InMembers, InMembersNext DEF PoolInv, EnoughWoken
    <3>3. l = "run"
      BY <1>5, <2>2, <3>2
    <3>4. Len(buffer_') <= K1
      BY <1>1, <1>4, <1>7, <1>10, <3>2, <3>3
    <3> QED BY <3>2, <3>4, InMembersNext
  <2> QED BY <2>1, <2>2
<1>13. ExitedClosed'
  <2>1. CASE l = "exited"
    BY <1>5, <2>1 DEF ExitedClosed
  <2>2. CASE l # "exited"
    <3>1. Members(worker', "exited") = Members(worker, "exited")
      BY <1>2, <1>6, <2>2
    <3> QED BY <3>1, InMembers, InMembersNext DEF PoolInv, ExitedClosed
  <2> QED BY <2>1, <2>2
<1>14. StopDrains'
  <2>1. CASE l = "exited"
    <3>1. buffer_' = << >>
      BY <1>5, <2>1
    <3> QED BY <3>1 DEF StopDrains, InBuffer
  <2>2. CASE l # "exited"
    <3>1. w \notin Members(worker', "exited")
      BY <1>1, <1>5, <2>2 DEF Members, Becomes
    <3> QED BY <3>1, InMembersNext DEF StopDrains
  <2> QED BY <2>1, <2>2
<1> QED BY <1>9, <1>11, <1>12, <1>13, <1>14 DEF PoolInv

\* Push leaves as many threads awake as there are tasks.  It keeps the last part of
\* the invariant when the task is late or a thread is left.
LEMMA PushInv ==
  ASSUME PoolInv, NEW t \in Tasks, Push(t, worker), UNCHANGED <<task, main>>,
         unsubmitted' \subseteq Tasks, late' \subseteq Tasks, late \subseteq late',
         t \in late' \/ In("exited") # Workers
  PROVE  PoolInv'
<1> DEFINE W == Cardinality(Members(worker, "wait"))
           K == Cardinality(Members(worker, "woken"))
           W1 == Cardinality(Members(worker', "wait"))
           K1 == Cardinality(Members(worker', "woken"))
<1>1. worker \in [Workers -> Labels] /\ W \in Nat /\ K \in Nat /\ waiting_ = W + K
  BY MembersFinite, InMembers DEF PoolInv, TypeOK, WaitingCounts
<1>2. buffer_ \in Seq(Tasks) /\ is_closed_ \in BOOLEAN /\ main \in MainLabels
      /\ task \in [Workers -> Tasks \cup {NULL}]
  BY DEF PoolInv, TypeOK
<1>3. W1 \in Nat /\ K1 \in Nat
  BY MembersFinite
<1>4. waiting_' = waiting_ /\ is_closed_' = is_closed_ /\ buffer_' = Append(buffer_, t)
  BY DEF Push
<1>5. buffer_' \in Seq(Tasks) /\ Len(buffer_') = Len(buffer_) + 1 /\ Len(buffer_) \in Nat
  BY <1>2, <1>4
<1>6. \/ worker' = worker /\ In("wait") = {}
      \/ \E v \in In("wait") : worker' = [worker EXCEPT ![v] = "woken"]
  <2>1. In("wait") # {} => waiting_ > 0
    BY <1>1, InMembers, NoMembers
  <2> QED BY <2>1 DEF Push, NotifyOne
<1>7. /\ worker' \in [Workers -> Labels]
      /\ W1 + K1 = W + K
      /\ In("wait") # {} => K1 = K + 1
      /\ In("wait") = {} => In("wait")' = {}
      /\ In("exited")' = In("exited")
  <2>1. CASE worker' = worker /\ In("wait") = {}
    BY <1>1, <2>1 DEF In
  <2>2. CASE \E v \in In("wait") : worker' = [worker EXCEPT ![v] = "woken"]
    <3>1. PICK v \in In("wait") : worker' = [worker EXCEPT ![v] = "woken"]
      BY <2>2
    <3>2. v \in Workers /\ worker[v] = "wait" /\ "woken" \in Labels
      BY DEF In, Labels
    <3>3. /\ worker' \in [Workers -> Labels]
          /\ K1 = K + 1 /\ W1 = W - 1
          /\ Members(worker', "exited") = Members(worker, "exited")
      BY <1>1, <3>1, <3>2, Move
    <3>4. In("exited")' = In("exited")
      BY <3>3, InMembers, InMembersNext
    <3>5. W1 + K1 = W + K
      BY <1>1, <1>3, <3>3
    <3> QED BY <3>1, <3>3, <3>4, <3>5
  <2> QED BY <1>6, <2>1, <2>2
<1>8. WaitingCounts'
  BY <1>1, <1>4, <1>7, InMembersNext DEF WaitingCounts
<1>9. TypeOK'
  <2>1. waiting_' \in Nat
    BY <1>1, <1>4
  <2> QED BY <1>2, <1>4, <1>5, <1>7, <2>1 DEF TypeOK
<1>10. EnoughWoken'
  <2> SUFFICES ASSUME In("wait")' # {} PROVE ~is_closed_' /\ Len(buffer_') <= Cardinality(In("woken"))'
    BY DEF EnoughWoken
  <2>1. ~is_closed_ /\ Len(buffer_) <= K /\ K1 = K + 1
    BY <1>7, InMembers DEF PoolInv, EnoughWoken
  <2> QED BY <1>1, <1>4, <1>5, <2>1, InMembersNext
<1>11. ExitedClosed'
  BY <1>4, <1>7 DEF PoolInv, ExitedClosed
<1>12. StopDrains'
  <2>1. CASE In("exited") # Workers
    BY <1>7, <2>1 DEF StopDrains
  <2>2. CASE In("exited") = Workers
    <3>1. InBuffer \subseteq late /\ t \in late'
      BY <2>2 DEF PoolInv, StopDrains
    <3>2. \A i \in DOMAIN buffer_' : buffer_'[i] = t \/ \E j \in DOMAIN buffer_ : buffer_'[i] = buffer_[j]
      BY <1>2, <1>4, AppendProperties
    <3>3. (InBuffer)' \subseteq InBuffer \cup {t}
      BY <3>2 DEF InBuffer
    <3> QED BY <3>1, <3>3 DEF StopDrains
  <2> QED BY <2>1, <2>2
<1> QED BY <1>8, <1>9, <1>10, <1>11, <1>12 DEF PoolInv

\* A step of one thread that does not touch the queue.
LEMMA MoveInv ==
  ASSUME PoolInv, TypeOK', NEW w \in Workers, NEW l \in {"pop", "woken"},
         worker' = [worker EXCEPT ![w] = l],
         IF l = "pop" THEN worker[w] \in {"new", "run"} ELSE worker[w] = "wait",
         UNCHANGED <<buffer_, waiting_, is_closed_, late>>
  PROVE  PoolInv'
<1> DEFINE W == Cardinality(Members(worker, "wait"))
           K == Cardinality(Members(worker, "woken"))
           W1 == Cardinality(Members(worker', "wait"))
           K1 == Cardinality(Members(worker', "woken"))
<1>1. worker \in [Workers -> Labels] /\ W \in Nat /\ K \in Nat /\ waiting_ = W + K
  BY MembersFinite, InMembers DEF PoolInv, TypeOK, WaitingCounts
<1>2. W1 \in Nat /\ K1 \in Nat /\ buffer_ \in Seq(Tasks)
  BY MembersFinite DEF PoolInv, TypeOK
<1>3. l \in Labels /\ worker[w] # l
  BY DEF Labels
<1>4. /\ Members(worker', "exited") = Members(worker, "exited")
      /\ IF l = "pop" THEN W1 = W /\ K1 = K ELSE W1 = W - 1 /\ K1 = K + 1
  BY <1>1, <1>3, Move
<1>5. Members(worker', "wait") \subseteq Members(worker, "wait")
  BY <1>1, <1>3 DEF Members
<1>6. WaitingCounts'
  <2>1. waiting_' = W1 + K1
    BY <1>1, <1>2, <1>4
  <2> QED BY <2>1, InMembersNext DEF WaitingCounts
<1>7. EnoughWoken'
  <2> SUFFICES ASSUME In("wait")' # {} PROVE ~is_closed_' /\ Len(buffer_') <= Cardinality(In("woken"))'
    BY DEF EnoughWoken
  <2>1. ~is_closed_ /\ Len(buffer_) <= K
    BY <1>5, InMembers, InMembersNext DEF PoolInv, EnoughWoken
  <2>2. Len(buffer_) <= K1
    BY <1>1, <1>2, <1>4, <2>1
  <2> QED BY <2>1, <2>2, InMembersNext
<1>8. In("exited")' = In("exited")
  BY <1>4, InMembers, InMembersNext
<1>9. ExitedClosed'
  BY <1>8 DEF PoolInv, ExitedClosed
<1>10. StopDrains'
  BY <1>8 DEF PoolInv, StopDrains, InBuffer
<1> QED BY <1>6, <1>7, <1>9, <1>10 DEF PoolInv

\* Close wakes every thread that sleeps.
LEMMA StopInv == PoolInv /\ Stop => PoolInv'
<1> SUFFICES ASSUME PoolInv, Stop PROVE PoolInv'
  OBVIOUS
<1> DEFINE W == Cardinality(Members(worker, "wait"))
           K == Cardinality(Members(worker, "woken"))
<1>1. worker \in [Workers -> Labels] /\ W \in Nat /\ K \in Nat /\ waiting_ = W + K
  BY MembersFinite, InMembers DEF PoolInv, TypeOK, WaitingCounts
<1>2. /\ worker' \in [Workers -> Labels]
      /\ In("wait")' = {}
      /\ In("exited")' = In("exited")
      /\ Members(worker', "woken") = Members(worker, "woken") \cup Members(worker, "wait")
  <2>1. CASE waiting_ > 0
    <3>1. worker' = [w \in Workers |-> IF worker[w] = "wait" THEN "woken" ELSE worker[w]]
      BY <2>1 DEF Stop, NotifyAll
    <3> QED BY <1>1, <3>1 DEF In, Members, Labels
  <2>2. CASE ~(waiting_ > 0)
    <3>1. W = 0 /\ worker' = worker
      BY <1>1, <2>2 DEF Stop, NotifyAll
    <3>2. Members(worker, "wait") = {}
      BY <3>1, NoMembers
    <3> QED BY <1>1, <3>1, <3>2, InMembers, InMembersNext
  <2> QED BY <2>1, <2>2
<1>3. Cardinality(In("woken")') = W + K /\ Cardinality(In("wait")') = 0
  <2>1. Members(worker, "woken") \cap Members(worker, "wait") = {}
    BY DEF Members
  <2>2. Cardinality(Members(worker', "woken")) = K + W - 0
    BY <1>2, <2>1, MembersFinite, FS_Union, FS_EmptySet
  <2>3. Cardinality(In("woken")') = W + K
    BY <1>1, <2>2, InMembersNext
  <2> QED BY <1>2, <2>3, FS_EmptySet
<1>4. TypeOK'
  BY <1>2 DEF PoolInv, TypeOK, MainLabels, Stop
<1>5. WaitingCounts'
  BY <1>1, <1>3 DEF WaitingCounts, Stop
<1>6. EnoughWoken' /\ ExitedClosed'
  BY <1>2 DEF EnoughWoken, ExitedClosed, Stop
<1>7. StopDrains'
  BY <1>2 DEF PoolInv, StopDrains, InBuffer, Stop
<1> QED BY <1>4, <1>5, <1>6, <1>7 DEF PoolInv

-----------------------------------------------------------------------------
\* Every step keeps the invariant.
LEMMA PoolNextInv == PoolInv /\ [Next]_poolVars => PoolInv'
<1> SUFFICES ASSUME PoolInv, [Next]_poolVars PROVE PoolInv'
  OBVIOUS
<1>0. TypeOK
  BY DEF PoolInv
<1>1. CASE Stop
  BY <1>1, StopInv
<1>2. CASE UNCHANGED <<buffer_, waiting_, is_closed_, worker, task, unsubmitted, late>>
           /\ main' \in {"stopped", main}
  BY <1>2 DEF PoolInv, TypeOK, MainLabels, WaitingCounts, EnoughWoken, ExitedClosed, StopDrains, InBuffer, In
<1>3. ASSUME NEW t \in Tasks, SubmitOutside(t) PROVE PoolInv'
  <2>1. t \in late' \/ In("exited") # Workers
    <3>1. CASE is_closed_
      BY <1>3, <3>1 DEF SubmitOutside
    <3>2. CASE ~is_closed_
      BY <3>2, PoolAssumption DEF PoolInv, ExitedClosed
    <3> QED BY <3>1, <3>2
  <2>2. Push(t, worker) /\ UNCHANGED <<task, main>>
    BY <1>3 DEF SubmitOutside
  <2>3. unsubmitted' \subseteq Tasks /\ late' \subseteq Tasks /\ late \subseteq late'
    BY <1>0, <1>3 DEF SubmitOutside, TypeOK
  <2> QED BY <2>1, <2>2, <2>3, PushInv
<1>4. ASSUME NEW w \in Workers, NEW t \in Tasks, SubmitInside(w, t) PROVE PoolInv'
  <2>1. In("exited") # Workers
    BY <1>4 DEF SubmitInside, In
  <2>2. Push(t, worker) /\ UNCHANGED <<task, main, late>>
    BY <1>4 DEF SubmitInside
  <2>3. unsubmitted' \subseteq Tasks /\ late' \subseteq Tasks
    BY <1>0, <1>4 DEF SubmitInside, TypeOK
  <2> QED BY <2>1, <2>2, <2>3, PushInv
<1>5. ASSUME NEW w \in Workers, Pop(w) PROVE PoolInv'
  <2>1. worker[w] = "pop" /\ PopSection(w, waiting_ + 1)
        /\ UNCHANGED <<is_closed_, main, unsubmitted, late>>
    BY <1>5 DEF Pop
  <2> QED BY <2>1, PopInv
<1>6. ASSUME NEW w \in Workers, PopAgain(w) PROVE PoolInv'
  <2>1. worker[w] = "woken" /\ PopSection(w, waiting_)
        /\ UNCHANGED <<is_closed_, main, unsubmitted, late>>
    BY <1>6 DEF PopAgain
  <2> QED BY <2>1, PopInv
<1>7. ASSUME NEW w \in Workers, SpuriousWakeup(w) PROVE PoolInv'
  <2>1. worker[w] = "wait" /\ worker' = [worker EXCEPT ![w] = "woken"]
        /\ UNCHANGED <<buffer_, waiting_, is_closed_, late>>
    BY <1>7 DEF SpuriousWakeup, Becomes
  <2>2. TypeOK'
    BY <1>0, <1>7 DEF SpuriousWakeup, Becomes, TypeOK, Labels
  <2> QED BY <2>1, <2>2, MoveInv
<1>8. ASSUME NEW w \in Workers, Finish(w) PROVE PoolInv'
  <2>1. worker[w] = "run" /\ worker' = [worker EXCEPT ![w] = "pop"]
        /\ UNCHANGED <<buffer_, waiting_, is_closed_, late>>
    BY <1>8 DEF Finish, Becomes
  <2>2. TypeOK'
    BY <1>0, <1>8 DEF Finish, Becomes, TypeOK, Labels
  <2> QED BY <2>1, <2>2, MoveInv
<1>9. ASSUME NEW w \in Workers, Start(w) PROVE PoolInv'
  <2>1. worker[w] = "new" /\ worker' = [worker EXCEPT ![w] = "pop"]
        /\ UNCHANGED <<buffer_, waiting_, is_closed_, late>>
    BY <1>9 DEF Start, Becomes
  <2>2. TypeOK'
    <3>1. worker' \in [Workers -> Labels]
      BY <1>0, <2>1 DEF TypeOK, Labels
    <3>2. main' \in {"start", "started"} /\ UNCHANGED <<buffer_, waiting_, is_closed_, task, unsubmitted, late>>
      BY <1>9 DEF Start
    <3> QED BY <1>0, <3>1, <3>2 DEF TypeOK, MainLabels
  <2> QED BY <2>1, <2>2, MoveInv
<1>10. CASE StopReturn \/ Terminated \/ UNCHANGED poolVars
  BY <1>2, <1>10 DEF StopReturn, Terminated, poolVars
<1> QED BY <1>1, <1>3, <1>4, <1>5, <1>6, <1>7, <1>8, <1>9, <1>10 DEF Next, Work

\* The blocking queue and the pool keep their invariant: waiting_ counts the threads
\* in Pop, there is a woken thread for every task while any thread sleeps (no lost
\* notification), and threads exit only from a closed queue.
THEOREM PoolCorrect == Spec => []PoolInv
<1>1. PoolInit => PoolInv
  BY PoolInitInv
<1>2. PoolInv /\ [Next]_poolVars => PoolInv'
  BY PoolNextInv
<1> QED BY <1>1, <1>2, PTL DEF Spec

\* Stop drains: as long as the queue holds a task that was not submitted from outside
\* after Close, a thread is left that will run it.
THEOREM StopDrainsAlways == Spec => []StopDrains
<1>1. PoolInv => StopDrains
  BY DEF PoolInv
<1> QED BY <1>1, PoolCorrect, PTL

\* No notification is lost: a thread sleeps only while as many are awake as there are
\* tasks, and never on a closed queue.
THEOREM NoLostNotification == Spec => []EnoughWoken
<1>1. PoolInv => EnoughWoken
  BY DEF PoolInv
<1> QED BY <1>1, PoolCorrect, PTL

-----------------------------------------------------------------------------
(* TimedRuntime: the pool and the timer thread, whatever the tasks do that  *)
(* submit, set and are run again, keep their invariants.                   *)

\* The timer that the thread sleeps for is there, or one that is due before it.
TimerReady ==
  /\ now \in Nat /\ deadline \in Nat
  /\ timer = "submit" <=> closest # NULL
  /\ timer = "sleep" => \E r \in timers : r.deadline <= deadline
  /\ timer = "closest" => \E r \in timers : r.deadline <= now

TimersOK == TimerInv /\ TimerReady

\* In which order Stop stops the workers, which may be in Set, and the timer thread.
StopOrder ==
  /\ \A w \in Workers : setting[w] # NULL => worker[w] = "set"
  /\ main \in {"stopped", "timer_join", "finished"} => In("exited") = Workers
  /\ timers_closed => main \in {"timer_join", "finished"}
  /\ main = "timer_join" => timers_closed
  /\ timer = "exited" => timers_closed /\ timers \subseteq orphans
  /\ ~ timer_enable_ => timers = {} /\ \A c \in Callers : setting[c] = NULL
  /\ main = "finished" => timer = "exited" \/ ~ timer_enable_

SystemInv == PoolInv /\ TimersOK /\ StopOrder

-----------------------------------------------------------------------------
(* Steps of the timer thread and of its queue.                             *)

LEMMA TickKeeps ==
  ASSUME TimersOK, Tick
  PROVE  TimersOK'
BY DEF TimersOK, TimerInv, TimerReady, TimerTypeOK, NeverEarly, ClosestFinds, AwakeForTimers, Tick,
       timerQueue, timerThread, TimerType

LEMMA SetKeeps ==
  ASSUME TimersOK, NEW c \in Callers, NEW t \in Tasks, NEW d \in Delays, Set(c, t, d)
  PROVE  TimersOK'
<1>1. [task |-> t, deadline |-> now + d] \in TimerType
  BY TimedAssumption DEF Set, TimerType, TimersOK, TimerReady
<1>2. setting' \in [Callers -> TimerType \cup {NULL}]
  BY <1>1 DEF Set, TimersOK, TimerInv, TimerTypeOK
<1> QED BY <1>2 DEF TimersOK, TimerInv, TimerReady, TimerTypeOK, NeverEarly, ClosestFinds,
            AwakeForTimers, Set, timerQueue, timerThread

LEMMA PushKeeps ==
  ASSUME TimersOK, NEW c \in Callers, PushTimer(c)
  PROVE  TimersOK'
<1>1. setting[c] \in TimerType /\ timers' = timers \cup {setting[c]}
  BY DEF PushTimer, TimersOK, TimerInv, TimerTypeOK
<1>2. timer' = IF timer = "wait" THEN "woken" ELSE timer
  BY DEF PushTimer, NotifyTimer, TimersOK, TimerInv, TimerTypeOK
<1>3. TimerTypeOK'
  BY <1>1, <1>2 DEF TimersOK, TimerInv, TimerTypeOK, PushTimer
<1> QED BY <1>1, <1>2, <1>3 DEF TimersOK, TimerInv, TimerReady, NeverEarly, ClosestFinds,
            AwakeForTimers, PushTimer

LEMMA NearestKeeps ==
  ASSUME TimersOK, NearestDeadLine
  PROVE  TimersOK'
<1>0. timers \subseteq TimerType
  BY DEF TimersOK, TimerInv, TimerTypeOK
<1>1. PICK n \in {timers_waiting, timers_waiting + 1} :
        /\ n = 1 /\ NearestSection(n)
        /\ timer \in {"nearest", "woken"}
        /\ UNCHANGED <<timers, timers_closed, timer_enable_, closest, now, setting, orphans>>
  BY DEF NearestDeadLine, TimersOK, TimerInv, TimerTypeOK
<1>2. CASE timers = {}
  BY <1>1, <1>2 DEF NearestSection, TimersOK, TimerInv, TimerReady, TimerTypeOK, NeverEarly,
     ClosestFinds, AwakeForTimers
<1>3. ASSUME NEW r \in timers, timers_waiting' = n - 1, deadline' = r.deadline, timer' = "sleep"
      PROVE  TimersOK'
  <2>1. r.deadline \in 0 .. MaxTime
    BY <1>0 DEF TimerType
  <2>2. r.deadline \in Nat /\ r.deadline <= deadline'
    BY <1>3, <2>1, TimedAssumption
  <2> QED BY <1>1, <1>3, <2>2 DEF TimersOK, TimerInv, TimerReady, TimerTypeOK, NeverEarly,
              ClosestFinds, AwakeForTimers
<1> QED BY <1>1, <1>2, <1>3 DEF NearestSection

LEMMA SleepKeeps ==
  ASSUME TimersOK, Sleep
  PROVE  TimersOK'
<1>1. PICK r \in timers : r.deadline <= deadline
  BY DEF Sleep, TimersOK, TimerReady
<1>2. r.deadline \in Nat /\ r.deadline <= now
  BY <1>1, TimedAssumption DEF Sleep, TimersOK, TimerReady, TimerInv, TimerTypeOK, TimerType
<1> QED BY <1>1, <1>2 DEF TimersOK, TimerInv, TimerReady, TimerTypeOK, NeverEarly, ClosestFinds,
            AwakeForTimers, Sleep, timerQueue

LEMMA TakeKeeps ==
  ASSUME TimersOK, GetClosestTimer
  PROVE  TimersOK' /\ closest' \in TimerType
<1>1. PICK r \in timers : Earliest(r) /\ TakeTimer(r)
  BY DEF GetClosestTimer
<1>2. PICK s \in timers : s.deadline <= now
  BY <1>1 DEF TakeTimer, TimersOK, TimerReady
<1>3. r \in TimerType /\ r.deadline \in Nat /\ s.deadline \in Nat /\ now \in Nat
  BY TimedAssumption DEF TimersOK, TimerReady, TimerInv, TimerTypeOK, TimerType
<1>4. r.deadline <= now
  BY <1>1, <1>2, <1>3 DEF Earliest
<1>5. r # NULL
  BY <1>3, TimedAssumption
<1> QED BY <1>1, <1>3, <1>4, <1>5 DEF TimersOK, TimerInv, TimerReady, TimerTypeOK, NeverEarly,
            ClosestFinds, AwakeForTimers, TakeTimer

LEMMA OtherTimerKeeps ==
  ASSUME TimersOK, TimerSpurious \/ SubmitClosest("nearest") \/ StartThread \/ CloseTimers
  PROVE  TimersOK'
<1> USE DEF TimersOK, TimerInv, TimerReady, TimerTypeOK, NeverEarly, ClosestFinds, AwakeForTimers,
            timerQueue
<1>1. CASE TimerSpurious
  BY <1>1 DEF TimerSpurious
<1>2. CASE SubmitClosest("nearest")
  BY <1>2 DEF SubmitClosest
<1>3. CASE StartThread
  BY <1>3 DEF StartThread
<1>4. CASE CloseTimers
  BY <1>4 DEF CloseTimers, NotifyTimer
<1> QED BY <1>1, <1>2, <1>3, <1>4

-----------------------------------------------------------------------------
(* The pool, whose workers also call Set.                                  *)

\* A worker goes from one of these labels to another.
Busy == {"run", "set"}

LEMMA BusyKeeps ==
  ASSUME PoolInv, NEW w \in Workers, NEW l \in Busy, worker[w] \in Busy, worker[w] # l,
         worker' = Becomes(w, l), unsubmitted' \subseteq Tasks,
         UNCHANGED <<buffer_, waiting_, is_closed_, task, main, late>>
  PROVE  PoolInv'
<1>1. worker' = [worker EXCEPT ![w] = l] /\ l \in Labels
  BY DEF Becomes, Busy, Labels
<1>2. /\ worker' \in [Workers -> Labels]
      /\ \A k : k # l /\ k # worker[w] => Members(worker', k) = Members(worker, k)
  BY <1>1, Move DEF PoolInv, TypeOK
<1>3. \A k \in {"wait", "woken", "exited"} : In(k)' = In(k)
  BY <1>2, InMembers, InMembersNext DEF Busy
<1>4. TypeOK'
  BY <1>2 DEF PoolInv, TypeOK
<1> QED BY <1>3, <1>4 DEF PoolInv, WaitingCounts, EnoughWoken, ExitedClosed, StopDrains, InBuffer

\* A thread other than the workers submits: the task is late if the queue is closed.
LEMMA SubmitKeeps ==
  ASSUME PoolInv, NEW t \in Tasks, Push(t, worker), UNCHANGED <<task, main>>,
         unsubmitted' \subseteq Tasks,
         late' = IF is_closed_ THEN late \cup {t} ELSE late
  PROVE  PoolInv'
<1>1. t \in late' \/ In("exited") # Workers
  <2>1. CASE is_closed_
    BY <2>1
  <2>2. CASE ~is_closed_
    BY <2>2, PoolAssumption DEF PoolInv, ExitedClosed
  <2> QED BY <2>1, <2>2
<1>2. late' \subseteq Tasks /\ late \subseteq late'
  BY DEF PoolInv, TypeOK
<1> QED BY <1>1, <1>2, PushInv

\* Worker w runs a task that submits t.
LEMMA SubmitInsideKeeps ==
  ASSUME PoolInv, NEW w \in Workers, worker[w] = "run", NEW t \in Tasks, Push(t, worker),
         unsubmitted' \subseteq Tasks, UNCHANGED <<task, main, late>>
  PROVE  PoolInv'
<1>1. In("exited") # Workers
  BY DEF In
<1>2. late' \subseteq Tasks
  BY DEF PoolInv, TypeOK
<1> QED BY <1>1, <1>2, PushInv

-----------------------------------------------------------------------------
(* Everything the runtime does with a task that may be run again, which is  *)
(* submitted or set by the worker that has run it.                         *)

SubmitAgain(w) ==
  /\ worker[w] = "run" /\ task[w] \in Tasks
  /\ Push(task[w], worker)
  /\ UNCHANGED <<task, main, unsubmitted, late, timerState>>

SetAgain(w, d) ==
  /\ worker[w] = "run" /\ task[w] \in Tasks
  /\ Set(w, task[w], d)
  /\ worker' = Becomes(w, "set")
  /\ UNCHANGED <<buffer_, waiting_, is_closed_, task, main, unsubmitted, late>>

TaskStep(w) ==
  \/ \E t \in Tasks : SubmitInside(w, t) /\ UNCHANGED timerState
  \/ \E t \in Tasks, d \in Delays : SetInside(w, t, d)
  \/ SubmitAgain(w)
  \/ \E d \in Delays : SetAgain(w, d)
  \/ Finish(w) /\ UNCHANGED timerState

AnyStep ==
  \/ RuntimeStep
  \/ \E t \in Tasks, d \in Delays : SetOutside(t, d)
  \/ \E w \in Workers : TaskStep(w)
  \/ UNCHANGED runtimeVars

\* Each preserves the invariant of the pool ...
LEMMA PoolKeeps ==
  ASSUME PoolInv, TimersOK, StopOrder, AnyStep
  PROVE  PoolInv'
<1>0. TypeOK
  BY DEF PoolInv
<1>1. CASE [Next]_poolVars
  BY <1>1, PoolNextInv
<1>2. CASE \/ Stop \/ StopReturn \/ \E t \in Tasks : SubmitOutside(t)
           \/ \E w \in Workers : Start(w) \/ Pop(w) \/ PopAgain(w) \/ SpuriousWakeup(w)
  BY <1>1, <1>2 DEF Next, Work
<1>3. CASE UNCHANGED poolVars
  BY <1>1, <1>3
<1>4. CASE SubmitTimer
  <2>1. closest \in TimerType
    BY <1>4 DEF SubmitTimer, SubmitClosest, TimersOK, TimerInv, TimerReady, TimerTypeOK
  <2>2. closest.task \in Tasks
    BY <2>1 DEF TimerType
  <2> QED BY <1>0, <1>4, <2>2, SubmitKeeps DEF SubmitTimer, TypeOK
<1>5. CASE StopTimer \/ StopTimerReturn
  <2>1. UNCHANGED <<buffer_, waiting_, is_closed_, worker, task, unsubmitted, late>>
        /\ main' \in MainLabels
    BY <1>5 DEF StopTimer, StopTimerReturn, MainLabels
  <2> QED BY <1>0, <2>1 DEF PoolInv, TypeOK, WaitingCounts, EnoughWoken, ExitedClosed, StopDrains,
              InBuffer, In
<1>6. ASSUME NEW c \in Callers, SetReturns(c)
      PROVE  PoolInv'
  <2>1. CASE c = Client
    BY <1>3, <1>6, <2>1 DEF SetReturns, poolVars
  <2>2. CASE c # Client
    <3>0. c \in Workers /\ worker[c] = "set"
      BY <1>6, <2>2 DEF SetReturns, PushTimer, Callers, StopOrder
    <3>1. c \in Workers /\ worker' = Becomes(c, "run") /\ unsubmitted' \subseteq Tasks
          /\ UNCHANGED <<buffer_, waiting_, is_closed_, task, main, late>>
      BY <1>0, <1>6, <2>2, <3>0 DEF SetReturns, TypeOK
    <3> QED BY <3>0, <3>1, BusyKeeps DEF Busy
  <2> QED BY <2>1, <2>2
<1>7. CASE \E t \in Tasks, d \in Delays : SetOutside(t, d)
  <2>1. unsubmitted' \subseteq Tasks
        /\ UNCHANGED <<buffer_, waiting_, is_closed_, worker, task, main, late>>
    BY <1>0, <1>7 DEF SetOutside, Sets, TypeOK
  <2> QED BY <1>0, <2>1 DEF PoolInv, TypeOK, WaitingCounts, EnoughWoken, ExitedClosed, StopDrains,
              InBuffer, In
<1>8. ASSUME NEW w \in Workers, TaskStep(w) PROVE PoolInv'
  <2>1. CASE \E t \in Tasks : SubmitInside(w, t)
    BY <1>1, <2>1 DEF Next
  <2>2. CASE Finish(w)
    BY <1>1, <2>2 DEF Next, Work
  <2>3. CASE SubmitAgain(w)
    BY <1>0, <2>3, SubmitInsideKeeps DEF SubmitAgain, TypeOK
  <2>4. CASE \/ \E t \in Tasks, d \in Delays : SetInside(w, t, d)
             \/ \E d \in Delays : SetAgain(w, d)
    <3>1. /\ worker[w] = "run" /\ worker' = Becomes(w, "set") /\ unsubmitted' \subseteq Tasks
          /\ UNCHANGED <<buffer_, waiting_, is_closed_, task, main, late>>
      BY <1>0, <2>4 DEF SetInside, SetAgain, Sets, TypeOK
    <3> QED BY <3>1, BusyKeeps DEF Busy
  <2> QED BY <1>8, <2>1, <2>2, <2>3, <2>4 DEF TaskStep
<1> QED BY <1>2, <1>3, <1>4, <1>5, <1>6, <1>7, <1>8
       DEF AnyStep, RuntimeStep, TimerStep, StartTimer, runtimeVars

\* ... that of the timers ...
LEMMA TimersKeep ==
  ASSUME SystemInv, AnyStep
  PROVE  TimersOK'
<1>0. TimersOK
  BY DEF SystemInv
<1>1. CASE UNCHANGED timerState
  BY <1>0, <1>1 DEF timerState, TimersOK, TimerInv, TimerReady, TimerTypeOK, NeverEarly,
     ClosestFinds, AwakeForTimers
<1>2. CASE Tick
  BY <1>0, <1>2, TickKeeps
<1>3. CASE TimerRun
  BY <1>0, <1>3, NearestKeeps, SleepKeeps, TakeKeeps DEF TimerRun
<1>4. CASE TimerSpurious \/ SubmitTimer \/ StartTimer \/ StopTimer
  BY <1>0, <1>4, OtherTimerKeeps DEF SubmitTimer, StartTimer, StopTimer
<1>5. CASE \E c \in Callers : SetReturns(c)
  BY <1>0, <1>5, PushKeeps DEF SetReturns
<1>6. CASE \E t \in Tasks, d \in Delays : SetOutside(t, d)
  BY <1>0, <1>6, SetKeeps DEF SetOutside, Sets, Callers
<1>7. CASE \E w \in Workers : TaskStep(w)
  <2>1. ASSUME NEW w \in Workers, NEW t \in Tasks, NEW d \in Delays, Set(w, t, d)
        PROVE  TimersOK'
    BY <1>0, <2>1, SetKeeps DEF Callers
  <2>2. ASSUME NEW w \in Workers, TaskStep(w)
        PROVE  UNCHANGED timerState \/ \E t \in Tasks, d \in Delays : Set(w, t, d)
    BY <2>2 DEF TaskStep, SetInside, Sets, SubmitAgain, SetAgain, timerState
  <2> QED BY <1>1, <1>7, <2>1, <2>2
<1> QED BY <1>1, <1>2, <1>3, <1>4, <1>5, <1>6, <1>7
       DEF AnyStep, RuntimeStep, TimerStep, StopTimerReturn, runtimeVars

\* ... and the order of Stop.
LEMMA OrderKeeps ==
  ASSUME SystemInv, AnyStep
  PROVE  StopOrder'
<1>0. /\ StopOrder /\ TimersOK
      /\ worker \in [Workers -> Labels] /\ setting \in [Callers -> TimerType \cup {NULL}]
      /\ Workers \subseteq Callers /\ Client \in Callers /\ Client \notin Workers
      /\ Workers # {}
  BY TimedAssumption, PoolAssumption
     DEF SystemInv, PoolInv, TypeOK, TimersOK, TimerInv, TimerTypeOK, Callers
<1>a. ASSUME \A w \in Workers : worker[w] \in {"set", "exited"} => worker'[w] = worker[w]
      PROVE  /\ In("exited") = Workers => In("exited")' = Workers
             /\ \A w \in Workers : worker[w] = "set" => worker'[w] = "set"
  BY <1>a DEF In
\* Steps of the pool.
<1>1. ASSUME UNCHANGED timerState,
             \/ main' = main
             \/ /\ main \notin {"stopped", "timer_join", "finished"}
                /\ main' \notin {"timer_join", "finished"}
                /\ main' = "stopped" => In("exited")' = Workers,
             \A w \in Workers : worker[w] \in {"set", "exited"} => worker'[w] = worker[w]
      PROVE  StopOrder'
  BY <1>0, <1>1, <1>a DEF StopOrder, timerState
<1>2. ASSUME NEW t, Push(t, worker)
      PROVE  \A w \in Workers : worker[w] \in {"set", "exited"} => worker'[w] = worker[w]
  BY <1>0, <1>2 DEF Push, NotifyOne, In
<1>3. CASE /\ UNCHANGED timerState
           /\ \/ Stop \/ StopReturn
              \/ \E t \in Tasks : SubmitOutside(t)
              \/ \E w \in Workers : \/ Start(w) \/ Pop(w) \/ PopAgain(w) \/ SpuriousWakeup(w)
                                    \/ Finish(w) \/ SubmitAgain(w)
                                    \/ \E t \in Tasks : SubmitInside(w, t)
  <2>1. CASE Stop
    <3>1. \A w \in Workers : worker[w] \in {"set", "exited"} => worker'[w] = worker[w]
      BY <1>0, <2>1 DEF Stop, NotifyAll
    <3>2. main = "started" /\ main' = "join"
      BY <2>1 DEF Stop
    <3> QED BY <1>1, <1>3, <3>1, <3>2
  <2>2. CASE StopReturn
    <3>1. main = "join" /\ main' = "stopped" /\ worker' = worker /\ In("exited") = Workers
      BY <2>2 DEF StopReturn
    <3>2. In("exited")' = Workers
      BY <3>1 DEF In
    <3> QED BY <1>1, <1>3, <3>1, <3>2
  <2>3. CASE \/ \E t \in Tasks : SubmitOutside(t)
             \/ \E w \in Workers : SubmitAgain(w) \/ \E t \in Tasks : SubmitInside(w, t)
    <3>1. main' = main /\ \E t \in Tasks : Push(t, worker)
      BY <2>3 DEF SubmitOutside, SubmitAgain, SubmitInside
    <3> QED BY <1>1, <1>2, <1>3, <3>1
  <2>4. ASSUME NEW w \in Workers, Pop(w) \/ PopAgain(w) \/ SpuriousWakeup(w) \/ Finish(w)
        PROVE  StopOrder'
    <3>1. main' = main /\ worker[w] \notin {"set", "exited"} /\ \E l \in Labels : worker' = Becomes(w, l)
      BY <2>4 DEF Pop, PopAgain, SpuriousWakeup, Finish, PopSection, Labels
    <3> QED BY <1>0, <1>1, <1>3, <3>1 DEF Becomes
  <2>5. ASSUME NEW w \in Workers, Start(w) PROVE StopOrder'
    <3>1. worker[w] = "new" /\ worker' = Becomes(w, "pop") /\ main = "start"
          /\ main' \in {"start", "started"}
      BY <2>5 DEF Start
    <3> QED BY <1>0, <1>1, <1>3, <3>1 DEF Becomes
  <2> QED BY <1>3, <2>1, <2>2, <2>3, <2>4, <2>5
\* Steps of the timer thread, and of the clock.
<1>4. CASE SubmitTimer
  <2>1. /\ \A w \in Workers : worker[w] \in {"set", "exited"} => worker'[w] = worker[w]
        /\ main' = main /\ timer' = "nearest" /\ timer = "submit"
        /\ UNCHANGED <<timers, timers_closed, timer_enable_, setting, orphans>>
    BY <1>2, <1>4 DEF SubmitTimer, SubmitClosest, timerQueue
  <2> QED BY <1>0, <1>a, <2>1 DEF StopOrder
<1>5. CASE TimerRun /\ UNCHANGED poolVars
  <2>1. /\ timer # "exited" /\ (timer' = "exited" => timers_closed /\ timers = {})
        /\ timers' \subseteq timers
        /\ UNCHANGED <<timers_closed, timer_enable_, setting, orphans>>
    BY <1>5 DEF TimerRun, NearestDeadLine, NearestSection, Sleep, GetClosestTimer, TakeTimer,
       timerQueue
  <2> QED BY <1>0, <1>5, <2>1 DEF StopOrder, poolVars, In
<1>6. CASE UNCHANGED poolVars /\ (Tick \/ TimerSpurious \/ StartThread)
  BY <1>0, <1>6 DEF Tick, TimerSpurious, StartThread, StopOrder, poolVars, In, timerQueue, timerThread
<1>7. CASE StopTimer
  BY <1>0, <1>7 DEF StopTimer, CloseTimers, NotifyTimer, StopOrder, In
<1>8. CASE StopTimerReturn
  BY <1>0, <1>8 DEF StopTimerReturn, StopOrder, timerState, In
\* Set, and its return.
<1>9. ASSUME NEW c \in Callers, SetReturns(c) PROVE StopOrder'
  <2>1. /\ timers' = timers \cup {setting[c]} /\ setting' = [setting EXCEPT ![c] = NULL]
        /\ orphans' = IF timers_closed THEN orphans \cup {setting[c]} ELSE orphans
        /\ timer' \in {timer, "woken"} /\ setting[c] # NULL
        /\ UNCHANGED <<main, timers_closed, timer_enable_>>
    BY <1>9 DEF SetReturns, PushTimer, NotifyTimer
  <2>2. worker' = IF c = Client THEN worker ELSE Becomes(c, "run")
    BY <1>9 DEF SetReturns
  <2>3. c = Client \/ worker[c] = "set"
    BY <1>0, <2>1 DEF Callers, StopOrder
  <2>4. timer_enable_
    BY <1>0, <2>1 DEF StopOrder
  <2>5. In("exited") = Workers => In("exited")' = Workers
    BY <1>0, <2>2, <2>3 DEF In, Becomes, Callers
  <2>6. \A w \in Workers : setting'[w] # NULL => worker'[w] = "set"
    BY <1>0, <2>1, <2>2, <2>3 DEF StopOrder, Becomes, Callers
  <2>7. timer' = "exited" => timers_closed' /\ timers' \subseteq orphans'
    BY <1>0, <2>1 DEF StopOrder
  <2>8. /\ main' \in {"stopped", "timer_join", "finished"} => In("exited")' = Workers
        /\ timers_closed' => main' \in {"timer_join", "finished"}
        /\ main' = "timer_join" => timers_closed'
        /\ main' = "finished" => timer' = "exited"
    <3>1. timer = "exited" => timer' = "exited"
      BY <1>9 DEF SetReturns, PushTimer, NotifyTimer
    <3> QED BY <1>0, <2>1, <2>4, <2>5, <3>1 DEF StopOrder
  <2> QED BY <2>1, <2>4, <2>6, <2>7, <2>8 DEF StopOrder
<1>10. ASSUME NEW t \in Tasks, NEW d \in Delays, SetOutside(t, d) PROVE StopOrder'
  <2>1. /\ timer_enable_ /\ \A w \in Workers : setting'[w] = setting[w]
        /\ UNCHANGED <<worker, main, timers, timers_closed, timer_enable_, timer, orphans>>
    BY <1>0, <1>10 DEF SetOutside, Sets, Set, timerQueue, timerThread
  <2> QED BY <1>0, <2>1 DEF StopOrder, In
<1>11. ASSUME NEW w \in Workers, NEW t \in Tasks, NEW d \in Delays,
              SetInside(w, t, d) \/ SetAgain(w, d)
       PROVE  StopOrder'
  <2>1. /\ timer_enable_ /\ \A v \in Workers \ {w} : setting'[v] = setting[v]
        /\ worker[w] = "run" /\ worker' = Becomes(w, "set")
        /\ UNCHANGED <<main, timers, timers_closed, timer_enable_, timer, orphans>>
    BY <1>0, <1>11 DEF SetInside, SetAgain, Sets, Set, timerQueue, timerThread
  <2>2. In("exited") # Workers
    BY <2>1 DEF In
  <2>3. \A v \in Workers : setting'[v] # NULL => worker'[v] = "set"
    BY <1>0, <2>1 DEF StopOrder, Becomes
  <2> QED BY <1>0, <2>1, <2>2, <2>3 DEF StopOrder
<1>12. CASE UNCHANGED runtimeVars
  BY <1>1, <1>12 DEF runtimeVars, poolVars
<1>13. CASE \E w \in Workers : TaskStep(w)
  <2>1. PICK w \in Workers : TaskStep(w)
    BY <1>13
  <2>2. CASE SubmitAgain(w)
    BY <1>3, <2>2 DEF SubmitAgain
  <2>3. CASE (Finish(w) \/ \E t \in Tasks : SubmitInside(w, t)) /\ UNCHANGED timerState
    BY <1>3, <2>3
  <2>4. CASE \E d \in Delays : SetAgain(w, d)
    <3>1. task[w] \in Tasks
      BY <2>4 DEF SetAgain
    <3> QED BY <1>11, <2>4, <3>1
  <2>5. CASE \E t \in Tasks, d \in Delays : SetInside(w, t, d)
    BY <1>11, <2>5
  <2> QED BY <2>1, <2>2, <2>3, <2>4, <2>5 DEF TaskStep
<1> QED BY <1>3, <1>4, <1>5, <1>6, <1>7, <1>8, <1>9, <1>10, <1>12, <1>13
       DEF AnyStep, RuntimeStep, TimerStep, StartTimer

LEMMA SystemKeeps == SystemInv /\ AnyStep => SystemInv'
BY PoolKeeps, TimersKeep, OrderKeeps DEF SystemInv

LEMMA SystemStarts == RuntimeInit => SystemInv
<1> SUFFICES ASSUME RuntimeInit PROVE SystemInv
  OBVIOUS
<1>1. PoolInv
  BY PoolInitInv DEF RuntimeInit
<1>2. TimersOK
  BY TimedAssumption DEF RuntimeInit, TimerInit, TimersOK, TimerInv, TimerReady, TimerTypeOK,
     NeverEarly, ClosestFinds, AwakeForTimers
<1>3. StopOrder
  BY TimedAssumption DEF RuntimeInit, PoolInit, TimerInit, StopOrder, Callers
<1> QED BY <1>1, <1>2, <1>3 DEF SystemInv

\* What it says when Stop has returned.
LEMMA SystemDrains == SystemInv => RuntimeInv
<1> SUFFICES ASSUME SystemInv PROVE RuntimeInv
  OBVIOUS
<1>1. TimerInv
  BY DEF SystemInv, TimersOK
<1>2. ASSUME main = "finished" PROVE timers \subseteq orphans /\ InBuffer \subseteq late
  BY <1>2 DEF SystemInv, StopOrder, PoolInv, StopDrains
<1>3. ASSUME NEW w \in Workers, setting[w] # NULL PROVE ~ timers_closed
  <2>1. worker[w] = "set"
    BY <1>3 DEF SystemInv, StopOrder
  <2>2. In("exited") # Workers
    BY <2>1 DEF In
  <2> QED BY <2>2 DEF SystemInv, StopOrder
<1> QED BY <1>1, <1>2, <1>3 DEF RuntimeInv, RuntimeStopDrains

-----------------------------------------------------------------------------
(* FiberRuntime: what the tasks do.                                        *)

\* Every step is one of the runtime's, or does not concern it.
LEMMA FiberIsAny == FiberNext => AnyStep
<1> SUFFICES ASSUME FiberNext PROVE AnyStep
  OBVIOUS
<1>0. Fibers \subseteq Tasks
  BY FiberAssumption
<1>1. CASE RuntimeStep \/ SetFunction
  BY <1>1 DEF SetFunction, AnyStep
<1>2. ASSUME NEW w \in Workers, RunStep(w) \/ Optional(w) PROVE AnyStep
  <2>1. CASE Resume(w) \/ Exit(w) \/ SwitchedBack(w) \/ Yield(w) \/ SleepFor(w)
    BY <2>1 DEF Resume, Exit, SwitchedBack, Yield, SleepFor, Suspend, AnyStep
  <2>2. CASE YieldCallback(w)
    <3>1. SubmitAgain(w)
      BY <1>0, <2>2 DEF YieldCallback, InRun, SubmitAgain
    <3> QED BY <3>1 DEF TaskStep, AnyStep
  <2>3. CASE SleepCallback(w)
    <3>1. \E d \in Delays : SetAgain(w, d)
      BY <1>0, <2>3 DEF SleepCallback, InRun, SetAgain
    <3> QED BY <3>1 DEF TaskStep, AnyStep
  <2>4. CASE Returns(w)
    BY <2>4 DEF Returns, TaskStep, AnyStep
  <2>5. CASE Calls(w)
    BY <2>5 DEF Calls, TaskStep, AnyStep
  <2> QED BY <1>2, <2>1, <2>2, <2>3, <2>4, <2>5 DEF RunStep, Optional
<1> QED BY <1>1, <1>2 DEF FiberNext

LEMMA SystemAlways == FiberSpec => []SystemInv
<1>1. FiberInit => SystemInv
  BY SystemStarts DEF FiberInit
<1>2. SystemInv /\ [FiberNext]_allVars => SystemInv'
  BY FiberIsAny, SystemKeeps DEF allVars, AnyStep
<1> QED BY <1>1, <1>2, PTL DEF FiberSpec

\* The blocking queue and the pool keep their invariant with a timer thread that
\* submits, and workers that submit again what they have run.
THEOREM FiberPool == FiberSpec => []PoolInv
<1>1. SystemInv => PoolInv
  BY DEF SystemInv
<1> QED BY <1>1, SystemAlways, PTL

\* No timer fires early or is taken from an empty queue, the timer thread misses no
\* notification, and Stop leaves neither a timer that was in time nor a task.
THEOREM FiberTimers == FiberSpec => []RuntimeInv
BY SystemDrains, SystemAlways, PTL

-----------------------------------------------------------------------------
(* A fiber is in one place.                                                *)

New(f) == f \in unsubmitted
Queued(f) == \E i \in DOMAIN buffer_ : buffer_[i] = f
Holds(w, f) == task[w] = f /\ at[w] # "return"
Held(f) == \E w \in Workers : Holds(w, f)
Timed(f) == \E r \in timers : r.task = f
Sets1(c, f) == setting[c] # NULL /\ setting[c].task = f
BeingSet(f) == \E c \in Callers : Sets1(c, f)
Taken(f) == closest # NULL /\ closest.task = f

\* In the hands of the timer thread, or of one that sets a timer.
Sleeping(f) == Timed(f) \/ BeingSet(f) \/ Taken(f)

PlaceOK(f) ==
  /\ New(f) => ~ Queued(f) /\ ~ Held(f) /\ ~ Sleeping(f)
  /\ Queued(f) => ~ Held(f) /\ ~ Sleeping(f)
  /\ Held(f) => ~ Sleeping(f)
  /\ Timed(f) => ~ BeingSet(f) /\ ~ Taken(f)
  /\ BeingSet(f) => ~ Taken(f)

OnceQueued(f) == \A i, j \in DOMAIN buffer_ : buffer_[i] = f /\ buffer_[j] = f => i = j
OnceHeld(f) == \A v, w \in Workers : Holds(v, f) /\ Holds(w, f) => v = w
OnceTimed(f) == \A r, s \in timers : r.task = f /\ s.task = f => r = s
OnceSet(f) == \A c, d \in Callers : Sets1(c, f) /\ Sets1(d, f) => c = d
Once(f) == OnceQueued(f) /\ OnceHeld(f) /\ OnceTimed(f) /\ OnceSet(f)

\* What the fiber's coroutine is there.
StateOK(f) ==
  /\ New(f) \/ Queued(f) \/ Sleeping(f) => coroutine[f] = "suspended"
  /\ Sleeping(f) => cb_[f] = "sleep"

AtOK(w) ==
  /\ at[w] # "enter" => task[w] \in Fibers
  /\ task[w] \in Fibers => worker[w] \in {"run", "set"}
  /\ task[w] \in Fibers /\ worker[w] = "set" => at[w] \in {"body", "return"}
  /\ task[w] \in Fibers /\ at[w] = "enter" => coroutine[task[w]] = "suspended"
  /\ at[w] = "body" => this_ptr[w] = task[w] /\ coroutine[task[w]] = "running"
  /\ at[w] = "switched" => coroutine[task[w]] \in {"suspended", "done"}
  /\ at[w] = "callback" => coroutine[task[w]] = "suspended"

FibersOK ==
  /\ FiberTypeOK
  /\ \A f \in Fibers : PlaceOK(f) /\ Once(f) /\ StateOK(f)
  /\ \A w \in Workers : AtOK(w)

\* Types of what the steps change.
LEMMA Types ==
  ASSUME SystemInv, FibersOK
  PROVE  /\ buffer_ \in Seq(Tasks) /\ unsubmitted \subseteq Tasks
         /\ task \in [Workers -> Tasks \cup {NULL}] /\ worker \in [Workers -> Labels]
         /\ timers \subseteq TimerType /\ setting \in [Callers -> TimerType \cup {NULL}]
         /\ closest \in TimerType \cup {NULL} /\ NULL \notin TimerType /\ NULL \notin Fibers
         /\ coroutine \in [Fibers -> {"suspended", "running", "done", "deleted"}]
         /\ cb_ \in [Fibers -> {"none", "yield", "sleep"}]
         /\ suspensions \in [Fibers -> 0 .. MaxSuspensions]
         /\ this_ptr \in [Workers -> Fibers \cup {NULL}]
         /\ at \in [Workers -> {"enter", "body", "switched", "callback", "return"}]
         /\ Workers \subseteq Callers /\ Client \in Callers
BY TimedAssumption, PoolAssumption, FiberAssumption
   DEF SystemInv, PoolInv, TypeOK, TimersOK, TimerInv, TimerTypeOK, FibersOK, FiberTypeOK, Callers

\* The queue of tasks.
LEMMA Pushed ==
  ASSUME NEW t \in Tasks, buffer_ \in Seq(Tasks), buffer_' = Append(buffer_, t), NEW f
  PROVE  /\ Queued(f)' <=> Queued(f) \/ f = t
         /\ (f # t \/ ~ Queued(f)) /\ OnceQueued(f) => OnceQueued(f)'
<1>1. /\ DOMAIN buffer_ = 1 .. Len(buffer_) /\ Len(buffer_) \in Nat
      /\ DOMAIN buffer_' = 1 .. Len(buffer_) + 1
      /\ \A i \in 1 .. Len(buffer_) : buffer_'[i] = buffer_[i]
      /\ buffer_'[Len(buffer_) + 1] = t
  BY AppendProperties
<1>2. \A i \in 1 .. Len(buffer_) + 1 : i \in 1 .. Len(buffer_) \/ i = Len(buffer_) + 1
  BY <1>1
<1>3. Len(buffer_) + 1 \in 1 .. Len(buffer_) + 1 /\ 1 .. Len(buffer_) \subseteq 1 .. Len(buffer_) + 1
  BY <1>1
<1> QED BY <1>1, <1>2, <1>3 DEF Queued, OnceQueued

LEMMA Popped ==
  ASSUME buffer_ \in Seq(Tasks), buffer_ # << >>, buffer_' = Tail(buffer_), NEW f,
         OnceQueued(f)
  PROVE  /\ Queued(f)' <=> Queued(f) /\ f # Head(buffer_)
         /\ Queued(Head(buffer_))
         /\ OnceQueued(f)'
<1>1. /\ DOMAIN buffer_ = 1 .. Len(buffer_) /\ Len(buffer_) \in Nat /\ Len(buffer_) > 0
      /\ DOMAIN buffer_' = 1 .. Len(buffer_) - 1
      /\ \A i \in 1 .. Len(buffer_) - 1 : buffer_'[i] = buffer_[i + 1]
      /\ Head(buffer_) = buffer_[1]
  BY HeadTailProperties
<1>2. \A i \in 1 .. Len(buffer_) - 1 : i + 1 \in 1 .. Len(buffer_) /\ i + 1 # 1
  BY <1>1
<1>3. \A i \in 1 .. Len(buffer_) : i = 1 \/ (i - 1 \in 1 .. Len(buffer_) - 1 /\ (i - 1) + 1 = i)
  BY <1>1
<1>4. 1 \in 1 .. Len(buffer_)
  BY <1>1
<1>5. \A i, j \in 1 .. Len(buffer_) - 1 : i + 1 = j + 1 => i = j
  OBVIOUS
<1>6. Queued(f)' => Queued(f) /\ f # Head(buffer_)
  BY <1>1, <1>2, <1>4 DEF Queued, OnceQueued
<1>7. Queued(f) /\ f # Head(buffer_) => Queued(f)'
  <2> SUFFICES ASSUME NEW i \in DOMAIN buffer_, buffer_[i] = f, f # Head(buffer_) PROVE Queued(f)'
    BY DEF Queued
  <2>1. i - 1 \in DOMAIN buffer_' /\ buffer_'[i - 1] = f
    BY <1>1, <1>3
  <2> QED BY <2>1 DEF Queued
<1> QED BY <1>1, <1>2, <1>4, <1>5, <1>6, <1>7 DEF Queued, OnceQueued

\* What depends on which variables.
LEMMA Stays ==
  ASSUME NEW f
  PROVE  /\ unsubmitted' = unsubmitted => (New(f)' <=> New(f))
         /\ buffer_' = buffer_ => (Queued(f)' <=> Queued(f)) /\ (OnceQueued(f)' <=> OnceQueued(f))
         /\ (task' = task /\ at' = at) => (Held(f)' <=> Held(f)) /\ (OnceHeld(f)' <=> OnceHeld(f))
         /\ timers' = timers => (Timed(f)' <=> Timed(f)) /\ (OnceTimed(f)' <=> OnceTimed(f))
         /\ setting' = setting => (BeingSet(f)' <=> BeingSet(f)) /\ (OnceSet(f)' <=> OnceSet(f))
         /\ closest' = closest => (Taken(f)' <=> Taken(f))
BY DEF New, Queued, OnceQueued, Held, OnceHeld, Holds, Timed, OnceTimed, BeingSet, OnceSet, Sets1,
       Taken

\* Push wakes a thread that runs no task.
LEMMA PushWakes ==
  ASSUME SystemInv, FibersOK, NEW t, Push(t, worker)
  PROVE  \A w \in Workers : task[w] \in Fibers => worker'[w] = worker[w]
BY Types DEF Push, NotifyOne, In, FibersOK, AtOK

\* The threads go on with their tasks.
LEMMA ThreadsKeep ==
  ASSUME SystemInv, FibersOK, UNCHANGED <<task, fiberState>>,
         \A w \in Workers : task[w] \in Fibers => worker'[w] = worker[w]
  PROVE  /\ \A w \in Workers : AtOK(w)'
         /\ FiberTypeOK'
         /\ task' = task /\ at' = at /\ coroutine' = coroutine /\ cb_' = cb_
<1>1. UNCHANGED <<task, coroutine, cb_, suspensions, this_ptr, at>>
  BY DEF fiberState
<1> QED BY <1>1 DEF FibersOK, FiberTypeOK, AtOK

\* Steps that move no task and no timer.
LEMMA StillKeeps ==
  ASSUME SystemInv, FibersOK,
         UNCHANGED <<buffer_, unsubmitted, timers, setting, closest, task, fiberState>>,
         \A w \in Workers : task[w] \in Fibers => worker'[w] = worker[w]
  PROVE  FibersOK'
<1>1. \A f \in Fibers : PlaceOK(f)' /\ Once(f)' /\ StateOK(f)'
  BY ThreadsKeep, Stays DEF FibersOK, PlaceOK, Once, StateOK, Sleeping
<1> QED BY <1>1, ThreadsKeep DEF FibersOK

\* Submit of a new task.
LEMMA NewKeeps ==
  ASSUME SystemInv, FibersOK, NEW t \in unsubmitted, unsubmitted' = unsubmitted \ {t},
         Push(t, worker), UNCHANGED <<timers, setting, closest, task, fiberState>>
  PROVE  FibersOK'
<1>1. ASSUME NEW f \in Fibers PROVE PlaceOK(f)' /\ Once(f)' /\ StateOK(f)'
  <2>1. /\ Queued(f)' <=> Queued(f) \/ f = t
        /\ (f # t \/ ~ Queued(f)) /\ OnceQueued(f) => OnceQueued(f)'
    BY Types, Pushed DEF Push
  <2>2. (New(f)' <=> New(f) /\ f # t) /\ New(t)
    BY DEF New
  <2>3. PlaceOK(f) /\ Once(f) /\ StateOK(f)
    BY DEF FibersOK
  <2> QED BY <2>1, <2>2, <2>3, PushWakes, ThreadsKeep, Stays DEF PlaceOK, Once, StateOK, Sleeping
<1> QED BY <1>1, PushWakes, ThreadsKeep DEF FibersOK

\* Submit by the timer thread.
LEMMA TimerKeeps ==
  ASSUME SystemInv, FibersOK, SubmitTimer, UNCHANGED fiberState
  PROVE  FibersOK'
<1> DEFINE t == closest.task
<1>1. closest # NULL /\ closest \in TimerType /\ t \in Tasks
  BY Types DEF SubmitTimer, SubmitClosest, SystemInv, TimersOK, TimerReady, TimerType
<1>2. /\ Push(t, worker) /\ closest' = NULL
      /\ UNCHANGED <<timers, setting, task, unsubmitted>>
  BY DEF SubmitTimer, SubmitClosest, timerQueue
<1>3. ASSUME NEW f \in Fibers PROVE PlaceOK(f)' /\ Once(f)' /\ StateOK(f)'
  <2>1. /\ Queued(f)' <=> Queued(f) \/ f = t
        /\ (f # t \/ ~ Queued(f)) /\ OnceQueued(f) => OnceQueued(f)'
    BY <1>1, <1>2, Types, Pushed DEF Push
  <2>2. ~ Taken(f)' /\ (Taken(f) <=> f = t)
    BY <1>1, <1>2 DEF Taken
  <2>3. PlaceOK(f) /\ Once(f) /\ StateOK(f)
    BY DEF FibersOK
  <2> QED BY <1>2, <2>1, <2>2, <2>3, PushWakes, ThreadsKeep, Stays
          DEF PlaceOK, Once, StateOK, Sleeping
<1> QED BY <1>2, <1>3, PushWakes, ThreadsKeep DEF FibersOK

\* A thread takes a task, sleeps, or exits.
LEMMA PopKeeps ==
  ASSUME SystemInv, FibersOK, NEW w \in Workers, Pop(w) \/ PopAgain(w),
         UNCHANGED <<timerState, fiberState>>
  PROVE  FibersOK'
<1>1. /\ worker[w] \in {"pop", "woken"} /\ unsubmitted' = unsubmitted
      /\ \E n : PopSection(w, n)
  BY DEF Pop, PopAgain
<1>2. UNCHANGED <<timers, setting, closest, coroutine, cb_, suspensions, this_ptr, at>>
  BY DEF timerState, fiberState
<1>3. task[w] \notin Fibers /\ at[w] = "enter"
  BY <1>1, Types DEF FibersOK, AtOK
<1>4. CASE /\ UNCHANGED <<buffer_, task>>
           /\ worker' = Becomes(w, "wait") \/ worker' = Becomes(w, "exited")
  <2>1. \A v \in Workers : task[v] \in Fibers => worker'[v] = worker[v]
    BY <1>3, <1>4, Types DEF Becomes
  <2> QED BY <1>1, <1>2, <1>4, <2>1, StillKeeps DEF fiberState
<1>5. CASE /\ buffer_ # << >> /\ buffer_' = Tail(buffer_)
           /\ task' = [task EXCEPT ![w] = Head(buffer_)]
           /\ worker' = Becomes(w, "run")
  <2> DEFINE t == Head(buffer_)
  <2>1. t \in Tasks
    BY <1>5, Types, HeadTailProperties
  <2>2. /\ task'[w] = t /\ worker'[w] = "run"
        /\ \A v \in Workers \ {w} : task'[v] = task[v] /\ worker'[v] = worker[v]
    BY <1>5, Types DEF Becomes
  <2>3. ASSUME NEW f \in Fibers PROVE PlaceOK(f)' /\ Once(f)' /\ StateOK(f)'
    <3>1. PlaceOK(f) /\ Once(f) /\ StateOK(f)
      BY DEF FibersOK
    <3>2. (Queued(f)' <=> Queued(f) /\ f # t) /\ Queued(t) /\ OnceQueued(f)'
      BY <1>5, <3>1, Types, Popped DEF Once
    <3>3. \A v \in Workers : Holds(v, f)' <=> Holds(v, f) \/ (v = w /\ f = t)
      BY <1>2, <1>3, <2>2 DEF Holds
    <3>4. Held(f)' <=> Held(f) \/ f = t
      BY <3>3 DEF Held
    <3>5. OnceHeld(f)'
      <4>1. CASE f = t
        <5>1. \A v \in Workers : ~ Holds(v, f)
          BY <3>1, <3>2, <4>1 DEF PlaceOK, Held
        <5> QED BY <3>3, <5>1 DEF OnceHeld
      <4>2. CASE f # t
        BY <3>1, <3>3, <4>2 DEF Once, OnceHeld
      <4> QED BY <4>1, <4>2
    <3> QED BY <1>1, <1>2, <3>1, <3>2, <3>4, <3>5, Stays DEF PlaceOK, Once, StateOK, Sleeping
  <2>4. ASSUME NEW v \in Workers PROVE AtOK(v)'
    <3>1. CASE v = w
      <4>1. t \in Fibers => coroutine[t] = "suspended"
        BY <1>5, Types, Popped DEF FibersOK, StateOK, Once
      <4> QED BY <1>2, <1>3, <2>2, <3>1, <4>1 DEF AtOK
    <3>2. CASE v # w
      BY <1>2, <2>2, <3>2 DEF FibersOK, AtOK
    <3> QED BY <3>1, <3>2
  <2> QED BY <1>2, <2>3, <2>4 DEF FibersOK, FiberTypeOK
<1> QED BY <1>1, <1>4, <1>5 DEF PopSection

\* A timer goes from the thread that sets it into the queue.
LEMMA SetReturnsKeeps ==
  ASSUME SystemInv, FibersOK, NEW c \in Callers, SetReturns(c), UNCHANGED fiberState
  PROVE  FibersOK'
<1> DEFINE r == setting[c]
<1>1. /\ r # NULL /\ r \in TimerType /\ timers' = timers \cup {r}
      /\ setting' = [setting EXCEPT ![c] = NULL]
      /\ UNCHANGED <<buffer_, task, unsubmitted, closest>>
  BY Types DEF SetReturns, PushTimer
<1>2. worker' = IF c = Client THEN worker ELSE Becomes(c, "run")
  BY DEF SetReturns
<1>3. UNCHANGED <<coroutine, cb_, suspensions, this_ptr, at>>
  BY DEF fiberState
<1>4. ASSUME NEW f \in Fibers PROVE PlaceOK(f)' /\ Once(f)' /\ StateOK(f)'
  <2>1. PlaceOK(f) /\ Once(f) /\ StateOK(f)
    BY DEF FibersOK
  <2>2. Timed(f)' <=> Timed(f) \/ f = r.task
    BY <1>1 DEF Timed
  <2>3. \A d \in Callers : Sets1(d, f)' <=> Sets1(d, f) /\ d # c
    BY <1>1, Types DEF Sets1
  <2>4. Sets1(c, f) <=> f = r.task
    BY <1>1 DEF Sets1
  <2>5. BeingSet(f)' <=> BeingSet(f) /\ f # r.task
    BY <2>1, <2>3, <2>4 DEF BeingSet, Once, OnceSet
  <2>6. OnceSet(f)'
    BY <2>1, <2>3 DEF Once, OnceSet
  <2>7. OnceTimed(f)'
    <3>1. f = r.task => ~ Timed(f)
      BY <2>1, <2>4 DEF PlaceOK, BeingSet
    <3> QED BY <1>1, <2>1, <3>1 DEF Once, OnceTimed, Timed
  <2>8. f = r.task => BeingSet(f)
    BY <2>4 DEF BeingSet
  <2> QED BY <1>1, <1>3, <2>1, <2>2, <2>5, <2>6, <2>7, <2>8, Stays
          DEF PlaceOK, Once, StateOK, Sleeping
<1>5. ASSUME NEW v \in Workers PROVE AtOK(v)'
  <2>1. worker'[v] = worker[v] \/ worker'[v] = "run"
    BY <1>2, Types DEF Becomes
  <2>2. c # Client => worker[c] = "set"
    BY <1>1 DEF SystemInv, StopOrder, Callers
  <2>3. task[v] \in Fibers => worker[v] \in {"run", "set"}
    BY DEF FibersOK, AtOK
  <2> QED BY <1>1, <1>3, <2>1, <2>2, <2>3 DEF FibersOK, AtOK
<1> QED BY <1>3, <1>4, <1>5 DEF FibersOK, FiberTypeOK

\* A timer goes from the queue to the timer thread.
LEMMA TakeFibers ==
  ASSUME SystemInv, FibersOK, GetClosestTimer, UNCHANGED poolVars, UNCHANGED fiberState
  PROVE  FibersOK'
<1>1. PICK r \in timers : TakeTimer(r)
  BY DEF GetClosestTimer
<1>2. /\ timers' = timers \ {r} /\ closest' = r /\ closest = NULL /\ r # NULL
      /\ UNCHANGED <<buffer_, task, unsubmitted, setting, worker>>
  BY <1>1, Types DEF TakeTimer, poolVars, SystemInv, TimersOK, TimerReady
<1>3. ASSUME NEW f \in Fibers PROVE PlaceOK(f)' /\ Once(f)' /\ StateOK(f)'
  <2>1. PlaceOK(f) /\ Once(f) /\ StateOK(f)
    BY DEF FibersOK
  <2>2. Taken(f)' <=> f = r.task
    BY <1>2 DEF Taken
  <2>3. /\ f = r.task => Timed(f)
        /\ Timed(f)' <=> Timed(f) /\ f # r.task
        /\ OnceTimed(f)'
    BY <1>2, <2>1 DEF Timed, Once, OnceTimed
  <2> QED BY <1>2, <2>1, <2>2, <2>3, ThreadsKeep, Stays DEF PlaceOK, Once, StateOK, Sleeping
<1> QED BY <1>2, <1>3, ThreadsKeep DEF FibersOK

\* A function is set.
LEMMA SetFunctionKeeps ==
  ASSUME SystemInv, FibersOK, NEW c \in Callers, NEW t \in Tasks \ Fibers, NEW d \in Delays,
         Sets(c, t, d), UNCHANGED fiberState,
         \A w \in Workers : task[w] \in Fibers =>
           worker'[w] = worker[w] \/ (at[w] = "body" /\ worker'[w] = "set")
  PROVE  FibersOK'
<1>1. /\ setting' = [setting EXCEPT ![c] = [task |-> t, deadline |-> now + d]]
      /\ unsubmitted' = unsubmitted \ {t}
      /\ UNCHANGED <<buffer_, task, timers, closest>>
  BY DEF Sets, Set, timerQueue, timerThread
<1>2. UNCHANGED <<coroutine, cb_, suspensions, this_ptr, at>>
  BY DEF fiberState
<1>3. ASSUME NEW f \in Fibers PROVE PlaceOK(f)' /\ Once(f)' /\ StateOK(f)'
  <2>1. PlaceOK(f) /\ Once(f) /\ StateOK(f)
    BY DEF FibersOK
  <2>2. New(f)' <=> New(f)
    BY <1>1 DEF New
  <2>3. \A b \in Callers : Sets1(b, f)' => Sets1(b, f)
    BY <1>1, Types DEF Sets1
  <2>4. (BeingSet(f)' => BeingSet(f)) /\ OnceSet(f)'
    BY <2>1, <2>3 DEF BeingSet, Once, OnceSet
  <2> QED BY <1>1, <1>2, <2>1, <2>2, <2>4, Stays DEF PlaceOK, Once, StateOK, Sleeping
<1>4. ASSUME NEW v \in Workers PROVE AtOK(v)'
  BY <1>1, <1>2 DEF FibersOK, AtOK
<1> QED BY <1>2, <1>3, <1>4 DEF FibersOK, FiberTypeOK

-----------------------------------------------------------------------------
(* Steps of Fiber::Run, which the fiber's thread takes.                    *)

Places == {"enter", "body", "switched", "callback", "return"}
States == {"suspended", "running", "done", "deleted"}

\* The other threads run other fibers, or are done with this one.
LEMMA OthersKeep ==
  ASSUME SystemInv, FibersOK, NEW w \in Workers, task[w] \in Fibers, at[w] # "return",
         NEW place \in Places, NEW c \in States,
         at' = [at EXCEPT ![w] = place], coroutine' = [coroutine EXCEPT ![task[w]] = c],
         \A v \in Workers \ {w} : this_ptr'[v] = this_ptr[v],
         task' = task, \A v \in Workers \ {w} : task[v] \in Fibers => worker'[v] = worker[v]
  PROVE  \A v \in Workers \ {w} : AtOK(v)'
<1> SUFFICES ASSUME NEW v \in Workers \ {w} PROVE AtOK(v)'
  OBVIOUS
<1>1. at'[v] = at[v] /\ this_ptr'[v] = this_ptr[v] /\ AtOK(v)
  BY Types DEF FibersOK
<1>2. CASE task[v] # task[w]
  BY <1>1, <1>2, Types DEF AtOK
<1>3. CASE task[v] = task[w]
  <2>1. at[v] = "return"
    BY <1>3 DEF FibersOK, Once, OnceHeld, Holds
  <2> QED BY <1>1, <2>1 DEF AtOK
<1> QED BY <1>2, <1>3

\* Steps that move only the code of the fiber.
LEMMA CodeKeeps ==
  ASSUME SystemInv, FibersOK, NEW w \in Workers, task[w] \in Fibers, at[w] # "return",
         NEW place \in Places, NEW c \in States,
         at' = [at EXCEPT ![w] = place], coroutine' = [coroutine EXCEPT ![task[w]] = c],
         \A v \in Workers \ {w} : this_ptr'[v] = this_ptr[v],
         \A g \in Fibers \ {task[w]} : cb_'[g] = cb_[g],
         UNCHANGED runtimeVars, AtOK(w)', FiberTypeOK'
  PROVE  FibersOK'
<1>1. UNCHANGED <<buffer_, unsubmitted, timers, setting, closest, task, worker>>
  BY DEF runtimeVars, poolVars, timerState
<1>2. \A v \in Workers : AtOK(v)'
  BY <1>1, OthersKeep
<1>3. ASSUME NEW f \in Fibers PROVE PlaceOK(f)' /\ Once(f)' /\ StateOK(f)'
  <2>1. PlaceOK(f) /\ Once(f) /\ StateOK(f)
    BY DEF FibersOK
  <2>2. \A v \in Workers : Holds(v, f)' => Holds(v, f)
    BY <1>1, Types DEF Holds
  <2>3. (Held(f)' => Held(f)) /\ OnceHeld(f)'
    BY <2>1, <2>2 DEF Held, Once, OnceHeld
  <2>4. PlaceOK(f)' /\ Once(f)'
    BY <1>1, <2>1, <2>3, Stays DEF PlaceOK, Once, Sleeping
  <2>5. StateOK(f)'
    <3>1. CASE f = task[w]
      <4>1. Held(f)
        BY <3>1 DEF Held, Holds
      <4> QED BY <1>1, <2>1, <4>1, Stays DEF PlaceOK, StateOK, Sleeping
    <3>2. CASE f # task[w]
      <4>1. coroutine'[f] = coroutine[f] /\ cb_'[f] = cb_[f]
        BY <3>2, Types
      <4> QED BY <1>1, <2>1, <4>1, Stays DEF StateOK, Sleeping
    <3> QED BY <3>1, <3>2
  <2> QED BY <2>4, <2>5
<1> QED BY <1>2, <1>3 DEF FibersOK

LEMMA ResumeKeeps ==
  ASSUME SystemInv, FibersOK, NEW w \in Workers, Resume(w)
  PROVE  FibersOK'
<1>1. /\ worker[w] = "run" /\ task[w] \in Fibers /\ at[w] = "enter"
      /\ at' = [at EXCEPT ![w] = "body"]
      /\ coroutine' = [coroutine EXCEPT ![task[w]] = "running"]
      /\ this_ptr' = [this_ptr EXCEPT ![w] = task[w]]
      /\ UNCHANGED <<cb_, suspensions>> /\ UNCHANGED runtimeVars
  BY DEF Resume, InRun, GoesTo
<1>2. worker' = worker /\ task' = task
  BY <1>1 DEF runtimeVars, poolVars
<1>3. AtOK(w)' /\ FiberTypeOK'
  BY <1>1, <1>2, Types DEF AtOK, FiberTypeOK
<1>4. "body" \in Places /\ "running" \in States
  BY DEF Places, States
<1>5. /\ \A v \in Workers \ {w} : this_ptr'[v] = this_ptr[v]
      /\ \A g \in Fibers \ {task[w]} : cb_'[g] = cb_[g]
  BY <1>1, Types
<1> QED BY <1>1, <1>3, <1>4, <1>5, CodeKeeps

LEMMA LeaveKeeps ==
  ASSUME SystemInv, FibersOK, NEW w \in Workers, Yield(w) \/ SleepFor(w) \/ Exit(w)
  PROVE  FibersOK'
<1>0. PICK c \in {"suspended", "done"} :
        /\ worker[w] = "run" /\ task[w] \in Fibers /\ at[w] = "body"
        /\ at' = [at EXCEPT ![w] = "switched"]
        /\ coroutine' = [coroutine EXCEPT ![this_ptr[w]] = c]
        /\ UNCHANGED this_ptr /\ UNCHANGED runtimeVars
  BY DEF Yield, SleepFor, Suspend, Exit, InRun, GoesTo
<1>1. this_ptr[w] = task[w]
  BY <1>0 DEF FibersOK, AtOK
<1>2. worker' = worker /\ task' = task
  BY <1>0 DEF runtimeVars, poolVars
<1>3. /\ \A g \in Fibers \ {task[w]} : cb_'[g] = cb_[g]
      /\ cb_' \in [Fibers -> {"none", "yield", "sleep"}]
      /\ suspensions' \in [Fibers -> 0 .. MaxSuspensions]
  <2>1. CASE Exit(w)
    BY <2>1, Types DEF Exit
  <2>2. ASSUME NEW cb \in {"yield", "sleep"}, Suspend(w, cb) PROVE <1>3
    <3> DEFINE n == suspensions[task[w]] + 1
    <3>1. /\ suspensions[task[w]] < MaxSuspensions
          /\ suspensions' = [suspensions EXCEPT ![task[w]] = n]
          /\ cb_' = [cb_ EXCEPT ![task[w]] = cb]
      BY <1>1, <2>2 DEF Suspend
    <3>2. suspensions[task[w]] \in 0 .. MaxSuspensions
      BY <1>0, Types
    <3>3. n \in 0 .. MaxSuspensions
      BY <3>1, <3>2, FiberAssumption
    <3> HIDE DEF n
    <3> QED BY <3>1, <3>3, Types
  <2> QED BY <2>1, <2>2 DEF Yield, SleepFor
<1>4. AtOK(w)' /\ FiberTypeOK'
  BY <1>0, <1>1, <1>2, <1>3, Types DEF AtOK, FiberTypeOK
<1>5. "switched" \in Places /\ c \in States
  BY DEF Places, States
<1> QED BY <1>0, <1>1, <1>3, <1>4, <1>5, CodeKeeps

LEMMA SwitchedKeeps ==
  ASSUME SystemInv, FibersOK, NEW w \in Workers, SwitchedBack(w)
  PROVE  FibersOK'
<1>1. /\ worker[w] = "run" /\ task[w] \in Fibers /\ at[w] = "switched"
      /\ this_ptr' = [this_ptr EXCEPT ![w] = NULL]
      /\ UNCHANGED <<cb_, suspensions>> /\ UNCHANGED runtimeVars
  BY DEF SwitchedBack, InRun
<1>2. worker' = worker /\ task' = task
  BY <1>1 DEF runtimeVars, poolVars
<1>3. PICK place \in {"return", "callback"}, c \in States :
        /\ at' = [at EXCEPT ![w] = place]
        /\ coroutine' = [coroutine EXCEPT ![task[w]] = c]
        /\ place = "callback" => c = "suspended"
  <2>1. CASE coroutine[task[w]] = "done" /\ coroutine' = [coroutine EXCEPT ![task[w]] = "deleted"]
             /\ GoesTo(w, "return")
    BY <2>1 DEF GoesTo, States
  <2>2. CASE coroutine[task[w]] # "done" /\ UNCHANGED coroutine /\ GoesTo(w, "callback")
    <3>1. coroutine[task[w]] = "suspended"
      BY <1>1, <2>2 DEF FibersOK, AtOK
    <3>2. coroutine' = [coroutine EXCEPT ![task[w]] = "suspended"]
      BY <2>2, <3>1, Types
    <3> QED BY <2>2, <3>2 DEF GoesTo, States
  <2> QED BY <2>1, <2>2 DEF SwitchedBack
<1>4. AtOK(w)' /\ FiberTypeOK'
  BY <1>1, <1>2, <1>3, Types DEF AtOK, FiberTypeOK, States
<1>5. place \in Places
  BY DEF Places
<1>6. /\ \A v \in Workers \ {w} : this_ptr'[v] = this_ptr[v]
      /\ \A g \in Fibers \ {task[w]} : cb_'[g] = cb_[g]
  BY <1>1, Types
<1> QED BY <1>1, <1>3, <1>4, <1>5, <1>6, CodeKeeps

\* The fiber leaves its thread: it is scheduled, or its timer is set.
LEMMA CallbackKeeps ==
  ASSUME SystemInv, FibersOK, NEW w \in Workers, YieldCallback(w) \/ SleepCallback(w)
  PROVE  FibersOK'
<1> DEFINE t == task[w]
<1>1. /\ worker[w] = "run" /\ t \in Fibers /\ at[w] = "callback"
      /\ at' = [at EXCEPT ![w] = "return"]
      /\ UNCHANGED <<task, unsubmitted, timers, closest, coroutine, cb_, suspensions, this_ptr>>
  BY DEF YieldCallback, SleepCallback, InRun, GoesTo, timerState, Set, timerQueue, timerThread
<1>2. coroutine[t] = "suspended" /\ coroutine' = [coroutine EXCEPT ![t] = "suspended"]
  BY <1>1, Types DEF FibersOK, AtOK
<1>3. \A v \in Workers \ {w} : task[v] \in Fibers => worker'[v] = worker[v]
  <2>1. CASE YieldCallback(w)
    BY <2>1, PushWakes DEF YieldCallback
  <2>2. CASE SleepCallback(w)
    BY <2>2, Types DEF SleepCallback, Becomes
  <2> QED BY <2>1, <2>2
<1>4. worker'[w] \in {"run", "set"}
  <2>1. CASE YieldCallback(w)
    BY <1>1, <2>1, PushWakes DEF YieldCallback
  <2>2. CASE SleepCallback(w)
    BY <2>2, Types DEF SleepCallback, Becomes
  <2> QED BY <2>1, <2>2
<1>5. \A v \in Workers : AtOK(v)'
  <2>1. AtOK(w)'
    BY <1>1, <1>4, Types DEF AtOK
  <2>2. "return" \in Places /\ "suspended" \in States
    BY DEF Places, States
  <2>3. \A v \in Workers \ {w} : this_ptr'[v] = this_ptr[v]
    BY <1>1
  <2> QED BY <1>1, <1>2, <1>3, <2>1, <2>2, <2>3, OthersKeep
<1>6. ASSUME NEW f \in Fibers PROVE PlaceOK(f)' /\ Once(f)' /\ StateOK(f)'
  <2>1. PlaceOK(f) /\ Once(f) /\ StateOK(f)
    BY DEF FibersOK
  <2>2. \A v \in Workers : Holds(v, f)' <=> Holds(v, f) /\ v # w
    BY <1>1, Types DEF Holds
  <2>3. f = t => Holds(w, f) /\ Held(f)
    BY <1>1 DEF Held, Holds
  <2>4. Holds(w, f) => f = t
    BY DEF Holds
  <2>5. (Held(f)' <=> Held(f) /\ f # t) /\ OnceHeld(f)'
    BY <2>1, <2>2, <2>3, <2>4 DEF Held, Once, OnceHeld
  <2>6. CASE YieldCallback(w)
    <3>1. Push(t, worker) /\ setting' = setting /\ t \in Tasks
      BY <1>1, <2>6, FiberAssumption DEF YieldCallback, timerState
    <3>2. /\ Queued(f)' <=> Queued(f) \/ f = t
          /\ (f # t \/ ~ Queued(f)) /\ OnceQueued(f) => OnceQueued(f)'
      BY <3>1, Types, Pushed DEF Push
    <3> QED BY <1>1, <1>2, <2>1, <2>3, <2>5, <3>1, <3>2, Stays DEF PlaceOK, Once, StateOK, Sleeping
  <2>7. CASE SleepCallback(w)
    <3>1. PICK r : r.task = t /\ r \in TimerType /\ setting' = [setting EXCEPT ![w] = r]
      <4>1. PICK d \in Delays : Set(w, t, d)
        BY <2>7 DEF SleepCallback
      <4>2. [task |-> t, deadline |-> now + d] \in TimerType
        BY <1>1, <4>1, TimedAssumption, FiberAssumption
           DEF Set, TimerType, SystemInv, TimersOK, TimerReady
      <4> QED BY <4>1, <4>2 DEF Set
    <3>2. buffer_' = buffer_ /\ setting[w] = NULL /\ cb_[t] = "sleep"
      BY <2>7 DEF SleepCallback, Set
    <3>3. \A c \in Callers : Sets1(c, f)' <=> Sets1(c, f) \/ (c = w /\ f = t)
      BY <3>1, <3>2, Types DEF Sets1
    <3>4. BeingSet(f)' <=> BeingSet(f) \/ f = t
      BY <3>3, Types DEF BeingSet
    <3>5. OnceSet(f)'
      <4>1. f = t => ~ BeingSet(f)
        BY <2>1, <2>3 DEF PlaceOK, Sleeping
      <4> QED BY <2>1, <3>3, <4>1 DEF Once, OnceSet, BeingSet
    <3> QED BY <1>1, <1>2, <2>1, <2>3, <2>5, <3>2, <3>4, <3>5, Stays
            DEF PlaceOK, Once, StateOK, Sleeping
  <2> QED BY <2>6, <2>7
<1>7. FiberTypeOK'
  BY <1>1, Types DEF FiberTypeOK
<1> QED BY <1>5, <1>6, <1>7 DEF FibersOK

\* The thread is done with its task.
LEMMA ReturnsKeeps ==
  ASSUME SystemInv, FibersOK, NEW w \in Workers, Returns(w)
  PROVE  FibersOK'
<1>1. /\ task[w] \in Fibers => at[w] = "return"
      /\ worker' = Becomes(w, "pop") /\ task' = [task EXCEPT ![w] = NULL]
      /\ at' = [at EXCEPT ![w] = "enter"]
      /\ UNCHANGED <<buffer_, unsubmitted, timers, setting, closest, coroutine, cb_, suspensions,
                     this_ptr>>
  BY DEF Returns, Finish, GoesTo, timerState
<1>2. ASSUME NEW f \in Fibers PROVE PlaceOK(f)' /\ Once(f)' /\ StateOK(f)'
  <2>1. PlaceOK(f) /\ Once(f) /\ StateOK(f)
    BY DEF FibersOK
  <2>2. \A v \in Workers : Holds(v, f)' => Holds(v, f)
    BY <1>1, Types DEF Holds
  <2>3. (Held(f)' => Held(f)) /\ OnceHeld(f)'
    BY <2>1, <2>2 DEF Held, Once, OnceHeld
  <2> QED BY <1>1, <2>1, <2>3, Stays DEF PlaceOK, Once, StateOK, Sleeping
<1>3. ASSUME NEW v \in Workers PROVE AtOK(v)'
  <2>1. CASE v = w
    BY <1>1, <2>1, Types DEF AtOK
  <2>2. CASE v # w
    BY <1>1, <2>2, Types DEF FibersOK, AtOK, Becomes
  <2> QED BY <2>1, <2>2
<1> QED BY <1>1, <1>2, <1>3, Types DEF FibersOK, FiberTypeOK

-----------------------------------------------------------------------------
\* Every step keeps the invariant.
LEMMA FibersKeep ==
  ASSUME SystemInv, FibersOK, [FiberNext]_allVars
  PROVE  FibersOK'
<1>1. CASE UNCHANGED allVars
  BY <1>1, StillKeeps DEF allVars, runtimeVars, poolVars, timerState
<1>2. CASE RuntimeStep /\ UNCHANGED fiberState
  <2>1. CASE /\ UNCHANGED timerState
             /\ \/ Stop \/ StopReturn
                \/ \E w \in Workers : Start(w) \/ SpuriousWakeup(w)
    <3>1. UNCHANGED <<buffer_, unsubmitted, timers, setting, closest, task>>
      BY <2>1 DEF Stop, StopReturn, Start, SpuriousWakeup, timerState
    <3>2. \A v \in Workers : task[v] \in Fibers => worker'[v] = worker[v]
      <4>1. \A v \in Workers : task[v] \in Fibers => worker[v] \in {"run", "set"}
        BY DEF FibersOK, AtOK
      <4>2. CASE Stop
        BY <4>1, <4>2, Types DEF Stop, NotifyAll
      <4>3. CASE StopReturn
        BY <4>3 DEF StopReturn
      <4>4. CASE \E w \in Workers : Start(w) \/ SpuriousWakeup(w)
        BY <4>1, <4>4, Types DEF Start, SpuriousWakeup, Becomes
      <4> QED BY <2>1, <4>2, <4>3, <4>4
    <3> QED BY <1>2, <3>1, <3>2, StillKeeps
  <2>2. ASSUME UNCHANGED timerState, NEW t \in Tasks, SubmitOutside(t)
        PROVE  FibersOK'
    BY <1>2, <2>2, NewKeeps DEF SubmitOutside, timerState
  <2>3. CASE UNCHANGED timerState /\ \E w \in Workers : Pop(w) \/ PopAgain(w)
    BY <1>2, <2>3, PopKeeps
  <2>4. CASE (Tick \/ TimerSpurious \/ NearestDeadLine \/ Sleep) /\ UNCHANGED poolVars
    <3>1. UNCHANGED <<buffer_, unsubmitted, timers, setting, closest, task, worker>>
      BY <2>4 DEF Tick, TimerSpurious, NearestDeadLine, Sleep, timerQueue, timerThread, poolVars
    <3> QED BY <1>2, <3>1, StillKeeps
  <2>5. CASE GetClosestTimer /\ UNCHANGED poolVars
    BY <1>2, <2>5, TakeFibers
  <2>6. CASE SubmitTimer
    BY <1>2, <2>6, TimerKeeps
  <2>7. CASE StartTimer \/ StopTimer \/ StopTimerReturn
    <3>1. UNCHANGED <<buffer_, unsubmitted, timers, setting, closest, task, worker>>
      BY <2>7 DEF StartTimer, StartThread, StopTimer, CloseTimers, StopTimerReturn, timerQueue,
         poolVars, timerState
    <3> QED BY <1>2, <3>1, StillKeeps
  <2>8. CASE \E c \in Callers : SetReturns(c)
    BY <1>2, <2>8, SetReturnsKeeps
  <2> QED BY <1>2, <2>1, <2>2, <2>3, <2>4, <2>5, <2>6, <2>7, <2>8
          DEF RuntimeStep, TimerStep, TimerRun
<1>3. CASE SetFunction
  <2>1. PICK t \in Tasks \ Fibers, d \in Delays : SetOutside(t, d)
    BY <1>3 DEF SetFunction
  <2>2. Sets(Client, t, d) /\ worker' = worker /\ UNCHANGED fiberState
    BY <1>3, <2>1 DEF SetFunction, SetOutside
  <2> QED BY <2>2, Types, SetFunctionKeeps
<1>4. ASSUME NEW w \in Workers, RunStep(w) \/ Optional(w) PROVE FibersOK'
  <2>1. CASE Calls(w) /\ (task[w] \in Fibers => at[w] = "body")
    <3>1. ASSUME NEW t \in Tasks, SubmitInside(w, t), UNCHANGED timerState, UNCHANGED fiberState
          PROVE  FibersOK'
      BY <3>1, NewKeeps DEF SubmitInside, timerState
    <3>2. ASSUME NEW t \in Tasks \ Fibers, NEW d \in Delays, SetInside(w, t, d),
                 UNCHANGED fiberState
          PROVE  FibersOK'
      <4>1. Sets(w, t, d) /\ worker' = Becomes(w, "set")
        BY <3>2 DEF SetInside
      <4>2. \A v \in Workers : task[v] \in Fibers =>
              worker'[v] = worker[v] \/ (at[v] = "body" /\ worker'[v] = "set")
        BY <2>1, <4>1, Types DEF Becomes
      <4> QED BY <3>2, <4>1, <4>2, Types, SetFunctionKeeps
    <3> QED BY <2>1, <3>1, <3>2 DEF Calls
  <2> QED BY <1>4, <2>1, ResumeKeeps, LeaveKeeps, SwitchedKeeps, CallbackKeeps, ReturnsKeeps
          DEF RunStep, Optional
<1> QED BY <1>1, <1>2, <1>3, <1>4 DEF FiberNext

LEMMA FibersStart == FiberInit => FibersOK
<1> SUFFICES ASSUME FiberInit PROVE FibersOK
  OBVIOUS
<1>1. /\ buffer_ = << >> /\ task = [w \in Workers |-> NULL] /\ unsubmitted = Tasks
      /\ timers = {} /\ closest = NULL /\ setting = [c \in Callers |-> NULL]
      /\ coroutine = [f \in Fibers |-> "suspended"]
      /\ at = [w \in Workers |-> "enter"]
  BY DEF FiberInit, RuntimeInit, PoolInit, TimerInit
<1>2. NULL \notin Fibers
  BY PoolAssumption, FiberAssumption
<1>3. ASSUME NEW f \in Fibers PROVE PlaceOK(f) /\ Once(f) /\ StateOK(f)
  <2>1. ~ Queued(f) /\ ~ Held(f) /\ ~ Sleeping(f)
    BY <1>1, <1>2 DEF Queued, Held, Holds, Sleeping, Timed, BeingSet, Sets1, Taken
  <2>2. Once(f)
    BY <1>1, <1>2 DEF Once, OnceQueued, OnceHeld, OnceTimed, OnceSet, Holds, Sets1
  <2> QED BY <1>1, <2>1, <2>2 DEF PlaceOK, StateOK, Sleeping
<1>4. ASSUME NEW w \in Workers PROVE AtOK(w)
  BY <1>1, <1>2 DEF AtOK
<1>5. FiberTypeOK
  <2>1. 0 \in 0 .. MaxSuspensions
    BY FiberAssumption
  <2> QED BY <1>1, <2>1 DEF FiberInit, FiberTypeOK
<1> QED BY <1>3, <1>4, <1>5 DEF FibersOK

LEMMA FibersAlways == FiberSpec => []FibersOK
BY FibersStart, FibersKeep, SystemAlways, PTL DEF FiberSpec

\* A fiber that sleeps is suspended for as long as anyone has its timer, nobody else
\* reaches the fiber that Fiber::Resume uses after the switch, and Self() is the fiber
\* whose code the thread executes.
THEOREM FibersInPlace == FiberSpec => []FiberInv
<1>1. SystemInv /\ FibersOK => FiberInv
  <2> SUFFICES ASSUME SystemInv, FibersOK PROVE FiberInv
    OBVIOUS
  <2>1. ASSUME NEW r \in LiveTimers PROVE Sleeping(r.task)
    BY <2>1 DEF LiveTimers, Sleeping, Timed, BeingSet, Sets1, Taken
  <2>2. TimersOnStack
    BY <2>1 DEF TimersOnStack, FibersOK, StateOK
  <2>3. SelfIsRunning
    BY DEF SelfIsRunning, FibersOK, AtOK
  <2>4. OwnFiber
    <3>1. ASSUME NEW w \in Workers, at[w] \in {"switched", "callback"}
          PROVE  ~ Queued(task[w]) /\ ~ Sleeping(task[w])
      BY <3>1 DEF FibersOK, AtOK, PlaceOK, Held, Holds
    <3>2. ASSUME NEW w \in Workers
          PROVE  /\ InRun(w, "switched") => coroutine[task[w]] \in {"suspended", "done"}
                 /\ InRun(w, "callback") => coroutine[task[w]] = "suspended"
      BY DEF InRun, FibersOK, AtOK
    <3> QED BY <2>1, <3>1, <3>2 DEF OwnFiber, Queued
  <2> QED BY <2>2, <2>3, <2>4 DEF FiberInv, FibersOK
<1> QED BY <1>1, SystemAlways, FibersAlways, PTL

-----------------------------------------------------------------------------
(* The scheduler of fibers.                                                *)

Executes(w, f) == at[w] = "body" /\ task[w] = f
Entering(w, f) == at[w] = "enter" /\ task[w] = f
Ended(f) == coroutine[f] \in {"done", "deleted"}
Ready(f) == Queued(f) \/ \E w \in Workers : Entering(w, f)

\* The status of a fiber by what holds of it.
StatusOK ==
  \A f \in Fibers :
    /\ \A w \in Workers : Executes(w, f) => Status(f) = w
    /\ (\A w \in Workers : ~ Executes(w, f)) =>
         Status(f) = IF Ended(f) THEN "ended" ELSE IF Ready(f) THEN "ready" ELSE "suspended"

LEMMA StatusIs == SystemInv /\ FibersOK => StatusOK
<1> SUFFICES ASSUME SystemInv, FibersOK, NEW f \in Fibers
             PROVE  /\ \A w \in Workers : Executes(w, f) => Status(f) = w
                    /\ (\A w \in Workers : ~ Executes(w, f)) =>
                         Status(f) = IF Ended(f) THEN "ended"
                                     ELSE IF Ready(f) THEN "ready" ELSE "suspended"
  BY DEF StatusOK
<1>1. ASSUME NEW w \in Workers, Executes(w, f) PROVE Status(f) = w
  <2>1. \A v \in Workers : at[v] = "body" /\ task[v] = f <=> v = w
    BY <1>1 DEF FibersOK, Once, OnceHeld, Holds, Executes
  <2>2. (CHOOSE v \in Workers : at[v] = "body" /\ task[v] = f) = w
    BY <2>1
  <2>3. \E v \in Workers : at[v] = "body" /\ task[v] = f
    BY <2>1
  <2>4. coroutine[f] = "running"
    BY <1>1 DEF FibersOK, AtOK, Executes
  <2>5. ~ (f \in InBuffer \/ \E v \in Workers : InRun(v, "enter") /\ task[v] = f)
    BY <2>4 DEF FibersOK, AtOK, StateOK, Queued, InBuffer, InRun
  <2> QED BY <2>2, <2>3, <2>4, <2>5 DEF Status
<1>2. ASSUME \A w \in Workers : ~ Executes(w, f)
      PROVE  Status(f) = IF Ended(f) THEN "ended" ELSE IF Ready(f) THEN "ready" ELSE "suspended"
  <2>1. ~ \E v \in Workers : at[v] = "body" /\ task[v] = f
    BY <1>2 DEF Executes
  <2>2. Ready(f) <=> f \in InBuffer \/ \E v \in Workers : InRun(v, "enter") /\ task[v] = f
    BY DEF Ready, Queued, InBuffer, InRun, Entering, FibersOK, AtOK
  <2>3. Ready(f) => ~ Ended(f)
    BY DEF Ready, Entering, Ended, FibersOK, AtOK, StateOK
  <2> QED BY <2>1, <2>2, <2>3 DEF Status, Ended
<1> QED BY <1>1, <1>2

LEMMA StatusIsNext == SystemInv' /\ FibersOK' => StatusOK'
BY StatusIs, PTL

\* What holds of a fiber in each place.
LEMMA PlaceIs ==
  ASSUME FibersOK, NEW f \in Fibers, New(f) \/ Sleeping(f)
  PROVE  /\ \A w \in Workers : ~ Executes(w, f)
         /\ ~ Ended(f) /\ ~ Ready(f)
BY DEF FibersOK, PlaceOK, StateOK, Held, Holds, Executes, Ended, Ready, Entering

-----------------------------------------------------------------------------
(* How the steps change the status.                                        *)

\* The status of f stays, or f is scheduled.
SameStatus(f) == Status(f)' = Status(f)
Schedules(f) == Status(f) = "suspended" /\ Status(f)' = "ready"

LEMMA Unaffected ==
  ASSUME StatusOK, StatusOK', NEW f \in Fibers,
         \A w \in Workers : Executes(w, f)' <=> Executes(w, f),
         Ended(f)' <=> Ended(f),
         Ready(f)' <=> Ready(f)
  PROVE  SameStatus(f)
<1>1. CASE \E w \in Workers : Executes(w, f)
  BY <1>1 DEF StatusOK, SameStatus
<1>2. CASE \A w \in Workers : ~ Executes(w, f)
  BY <1>2 DEF StatusOK, SameStatus
<1> QED BY <1>1, <1>2

\* A step that leaves the threads in their tasks and submits t, or no fiber.
LEMMA Submits ==
  ASSUME StatusOK, StatusOK', UNCHANGED <<task, fiberState>>, NEW f \in Fibers, NEW t,
         Queued(f)' <=> Queued(f) \/ f = t,
         f = t => ~ Ready(f) /\ ~ Ended(f) /\ \A w \in Workers : ~ Executes(w, f)
  PROVE  SameStatus(f) \/ Schedules(f)
<1>1. /\ \A w \in Workers : Executes(w, f)' <=> Executes(w, f)
      /\ \A w \in Workers : Entering(w, f)' <=> Entering(w, f)
      /\ Ended(f)' <=> Ended(f)
  BY DEF Executes, Entering, Ended, fiberState
<1>2. CASE f # t
  BY <1>1, <1>2, Unaffected DEF Ready
<1>3. CASE f = t
  BY <1>1, <1>3 DEF Ready, StatusOK, Schedules
<1> QED BY <1>2, <1>3

\* A fiber is taken from the queue, or goes on in its thread, without a change of status.
LEMMA PopSame ==
  ASSUME SystemInv, FibersOK, StatusOK, StatusOK', NEW w \in Workers, Pop(w) \/ PopAgain(w),
         UNCHANGED fiberState, NEW f \in Fibers
  PROVE  SameStatus(f)
<1>1. UNCHANGED <<coroutine, at>> /\ worker[w] \in {"pop", "woken"} /\ \E n : PopSection(w, n)
  BY DEF fiberState, Pop, PopAgain
<1>2. task[w] \notin Fibers /\ at[w] = "enter"
  BY <1>1, Types DEF FibersOK, AtOK
<1>3. CASE UNCHANGED <<buffer_, task>>
  BY <1>1, <1>3, Stays, Unaffected DEF Executes, Ended, Ready, Entering
<1>4. CASE buffer_ # << >> /\ buffer_' = Tail(buffer_) /\ task' = [task EXCEPT ![w] = Head(buffer_)]
  <2>1. (Queued(f)' <=> Queued(f) /\ f # Head(buffer_)) /\ Queued(Head(buffer_))
    BY <1>4, Types, Popped DEF FibersOK, Once
  <2>2. \A v \in Workers : Entering(v, f)' <=> Entering(v, f) \/ (v = w /\ f = Head(buffer_))
    BY <1>1, <1>2, <1>4, Types DEF Entering
  <2>3. Ready(f)' <=> Ready(f)
    BY <2>1, <2>2 DEF Ready
  <2>4. \A v \in Workers : Executes(v, f)' <=> Executes(v, f)
    BY <1>1, <1>2, <1>4, Types DEF Executes
  <2> QED BY <1>1, <2>3, <2>4, Unaffected DEF Ended
<1> QED BY <1>1, <1>3, <1>4 DEF PopSection

\* Steps of the runtime schedule at most one fiber, which was suspended.
LEMMA RuntimeStatus ==
  ASSUME SystemInv, FibersOK, StatusOK, StatusOK', RuntimeStep, UNCHANGED fiberState,
         NEW f \in Fibers
  PROVE  SameStatus(f) \/ Schedules(f)
<1>1. CASE UNCHANGED <<buffer_, task>>
  BY <1>1, Stays, Unaffected DEF Executes, Ended, Ready, Entering, fiberState
<1>2. ASSUME NEW t \in Tasks, SubmitOutside(t) PROVE SameStatus(f) \/ Schedules(f)
  <2>1. (Queued(f)' <=> Queued(f) \/ f = t) /\ task' = task
    BY <1>2, Types, Pushed DEF SubmitOutside, Push
  <2>2. New(t)
    BY <1>2 DEF SubmitOutside, New
  <2> QED BY <2>1, <2>2, PlaceIs, Submits
<1>3. CASE SubmitTimer
  <2>1. Taken(closest.task) /\ closest.task \in Tasks
    BY <1>3, Types DEF SubmitTimer, SubmitClosest, SystemInv, TimersOK, TimerReady, TimerType, Taken
  <2>2. (Queued(f)' <=> Queued(f) \/ f = closest.task) /\ task' = task
    BY <1>3, <2>1, Types, Pushed DEF SubmitTimer, Push
  <2>3. Sleeping(closest.task)
    BY <2>1 DEF Sleeping
  <2> QED BY <2>2, <2>3, PlaceIs, Submits
<1>4. CASE \E w \in Workers : Pop(w) \/ PopAgain(w)
  BY <1>4, PopSame
<1>5. CASE \/ Stop \/ StopReturn \/ \E w \in Workers : Start(w) \/ SpuriousWakeup(w)
           \/ (Tick \/ TimerSpurious \/ TimerRun) /\ UNCHANGED poolVars
           \/ StartTimer \/ StopTimer \/ StopTimerReturn \/ \E c \in Callers : SetReturns(c)
  <2>1. UNCHANGED <<buffer_, task>>
    BY <1>5 DEF Stop, StopReturn, Start, SpuriousWakeup, StartTimer, StopTimer, StopTimerReturn,
       SetReturns, poolVars
  <2> QED BY <1>1, <2>1
<1> QED BY <1>2, <1>3, <1>4, <1>5 DEF RuntimeStep, TimerStep

\* What Scheduler!Next allows f.
Allowed(f) ==
  \/ SameStatus(f) \/ Schedules(f)
  \/ /\ Status(f) = "ready" /\ Status(f)' \in Workers
     /\ \A g \in Fibers : Status(g) # Status(f)'
  \/ Status(f) \in Workers /\ Status(f)' \in {"suspended", "ended"}

\* Steps in which a thread moves to another place in Run, with its fiber.
LEMMA RunStatus ==
  ASSUME SystemInv, FibersOK, StatusOK, StatusOK', NEW w \in Workers,
         RunStep(w) \/ Yield(w) \/ SleepFor(w), NEW f \in Fibers
  PROVE  Allowed(f)
<1>1. CASE Resume(w)
  <2>1. /\ at[w] = "enter" /\ task[w] \in Fibers /\ at' = [at EXCEPT ![w] = "body"]
        /\ coroutine' = [coroutine EXCEPT ![task[w]] = "running"]
        /\ UNCHANGED <<buffer_, task>>
    BY <1>1 DEF Resume, InRun, GoesTo, runtimeVars, poolVars
  <2>2. CASE f # task[w]
    <3>1. /\ \A v \in Workers : Executes(v, f)' <=> Executes(v, f)
          /\ \A v \in Workers : Entering(v, f)' <=> Entering(v, f)
          /\ Ended(f)' <=> Ended(f)
      BY <2>1, <2>2, Types DEF Executes, Entering, Ended
    <3> QED BY <2>1, <3>1, Stays, Unaffected DEF Ready, Allowed
  <2>3. CASE f = task[w]
    <3>1. Executes(w, f)' /\ Entering(w, f)
      BY <2>1, <2>3, Types DEF Executes, Entering
    <3>2. Status(f)' = w
      BY <3>1 DEF StatusOK
    <3>3. \A v \in Workers : ~ Executes(v, f)
      BY <2>1, <2>3 DEF FibersOK, Once, OnceHeld, Holds, Executes
    <3>4. ~ Ended(f)
      BY <2>1, <2>3 DEF FibersOK, AtOK, Ended
    <3>5. Status(f) = "ready"
      BY <3>1, <3>3, <3>4 DEF StatusOK, Ready
    <3>6. ASSUME NEW g \in Fibers PROVE Status(g) # w
      <4>1. CASE \E v \in Workers : Executes(v, g)
        BY <2>1, <4>1 DEF StatusOK, Executes
      <4>2. CASE \A v \in Workers : ~ Executes(v, g)
        BY <4>2, FiberAssumption DEF StatusOK
      <4> QED BY <4>1, <4>2
    <3> QED BY <3>2, <3>5, <3>6 DEF Allowed
  <2> QED BY <2>2, <2>3
<1>2. CASE Yield(w) \/ SleepFor(w) \/ Exit(w)
  <2>1. PICK c \in {"suspended", "done"} :
          /\ at[w] = "body" /\ task[w] \in Fibers /\ at' = [at EXCEPT ![w] = "switched"]
          /\ coroutine' = [coroutine EXCEPT ![this_ptr[w]] = c]
          /\ UNCHANGED <<buffer_, task>>
    BY <1>2 DEF Yield, SleepFor, Suspend, Exit, InRun, GoesTo, runtimeVars, poolVars
  <2>2. this_ptr[w] = task[w]
    BY <2>1 DEF FibersOK, AtOK
  <2>3. CASE f # task[w]
    <3>1. /\ \A v \in Workers : Executes(v, f)' <=> Executes(v, f)
          /\ \A v \in Workers : Entering(v, f)' <=> Entering(v, f)
          /\ Ended(f)' <=> Ended(f)
      BY <2>1, <2>2, <2>3, Types DEF Executes, Entering, Ended
    <3> QED BY <2>1, <3>1, Stays, Unaffected DEF Ready, Allowed
  <2>4. CASE f = task[w]
    <3>1. Status(f) = w
      BY <2>1, <2>4 DEF StatusOK, Executes
    <3>2. \A v \in Workers : Holds(v, f) => v = w
      BY <2>1, <2>4 DEF FibersOK, Once, OnceHeld, Holds
    <3>3. \A v \in Workers : ~ Executes(v, f)' /\ ~ Entering(v, f)'
      BY <2>1, <3>2, Types DEF Executes, Entering, Holds
    <3>4. ~ Queued(f)'
      <4>1. ~ Queued(f)
        BY <2>1, <2>4 DEF FibersOK, PlaceOK, Held, Holds
      <4> QED BY <2>1, <4>1, Stays
    <3>5. Status(f)' \in {"suspended", "ended"}
      BY <3>3, <3>4 DEF StatusOK, Ready
    <3> QED BY <3>1, <3>5 DEF Allowed
  <2> QED BY <2>3, <2>4
<1>3. CASE SwitchedBack(w)
  <2>1. /\ at[w] = "switched" /\ task[w] \in Fibers /\ UNCHANGED <<buffer_, task>>
        /\ \E place \in {"return", "callback"} : at' = [at EXCEPT ![w] = place]
        /\ \/ UNCHANGED coroutine
           \/ /\ coroutine[task[w]] = "done"
              /\ coroutine' = [coroutine EXCEPT ![task[w]] = "deleted"]
    BY <1>3 DEF SwitchedBack, InRun, GoesTo, runtimeVars, poolVars
  <2>2. /\ \A v \in Workers : Executes(v, f)' <=> Executes(v, f)
        /\ \A v \in Workers : Entering(v, f)' <=> Entering(v, f)
    BY <2>1, Types DEF Executes, Entering
  <2>3. Ended(f)' <=> Ended(f)
    BY <2>1, Types DEF Ended
  <2> QED BY <2>1, <2>2, <2>3, Stays, Unaffected DEF Ready, Allowed
<1>4. CASE YieldCallback(w) \/ SleepCallback(w)
  <2>1. /\ at[w] = "callback" /\ task[w] \in Fibers /\ at' = [at EXCEPT ![w] = "return"]
        /\ UNCHANGED <<task, coroutine>>
    BY <1>4 DEF YieldCallback, SleepCallback, InRun, GoesTo
  <2>2. /\ \A v \in Workers : Executes(v, f)' <=> Executes(v, f)
        /\ \A v \in Workers : Entering(v, f)' <=> Entering(v, f)
        /\ Ended(f)' <=> Ended(f)
    BY <2>1, Types DEF Executes, Entering, Ended
  <2>3. Queued(f)' <=> Queued(f) \/ (f = task[w] /\ YieldCallback(w))
    <3>1. CASE YieldCallback(w)
      <4>1. buffer_' = Append(buffer_, task[w]) /\ task[w] \in Tasks
        BY <2>1, <3>1, FiberAssumption DEF YieldCallback, Push
      <4> QED BY <3>1, <4>1, Types, Pushed
    <3>2. CASE SleepCallback(w) /\ ~ YieldCallback(w)
      <4>1. buffer_' = buffer_
        BY <3>2 DEF SleepCallback
      <4> QED BY <3>2, <4>1, Stays
    <3> QED BY <1>4, <3>1, <3>2
  <2>4. CASE f # task[w] \/ ~ YieldCallback(w)
    BY <2>2, <2>3, <2>4, Unaffected DEF Ready, Allowed
  <2>5. CASE f = task[w] /\ YieldCallback(w)
    <3>1. \A v \in Workers : Holds(v, f) => v = w
      BY <2>1, <2>5 DEF FibersOK, Once, OnceHeld, Holds
    <3>2. \A v \in Workers : ~ Executes(v, f) /\ ~ Entering(v, f)
      BY <2>1, <3>1 DEF Executes, Entering, Holds
    <3>3. ~ Queued(f) /\ ~ Ended(f)
      BY <2>1, <2>5 DEF FibersOK, PlaceOK, Held, Holds, AtOK, Ended
    <3> QED BY <2>2, <2>3, <2>5, <3>2, <3>3 DEF Ready, StatusOK, Schedules, Allowed
  <2> QED BY <2>4, <2>5
<1>5. CASE Returns(w)
  <2>1. /\ task[w] \in Fibers => at[w] = "return"
        /\ task' = [task EXCEPT ![w] = NULL] /\ at' = [at EXCEPT ![w] = "enter"]
        /\ UNCHANGED <<buffer_, coroutine>>
    BY <1>5 DEF Returns, Finish, GoesTo
  <2>2. /\ \A v \in Workers : Executes(v, f)' <=> Executes(v, f)
        /\ \A v \in Workers : Entering(v, f)' <=> Entering(v, f)
        /\ Ended(f)' <=> Ended(f)
    BY <2>1, Types DEF Executes, Entering, Ended
  <2> QED BY <2>1, <2>2, Stays, Unaffected DEF Ready, Allowed
<1> QED BY <1>1, <1>2, <1>3, <1>4, <1>5 DEF RunStep

LEMMA AllAllowed ==
  ASSUME SystemInv, FibersOK, StatusOK, StatusOK', [FiberNext]_allVars, NEW f \in Fibers
  PROVE  Allowed(f)
<1>1. CASE UNCHANGED <<buffer_, task>> /\ UNCHANGED fiberState
  BY <1>1, Stays, Unaffected DEF Executes, Ended, Ready, Entering, fiberState, Allowed
<1>2. CASE UNCHANGED allVars \/ SetFunction
  <2>1. UNCHANGED <<buffer_, task>> /\ UNCHANGED fiberState
    BY <1>2 DEF allVars, runtimeVars, poolVars, SetFunction, SetOutside, Sets
  <2> QED BY <1>1, <2>1
<1>3. ASSUME NEW w \in Workers, Calls(w) PROVE Allowed(f)
  <2>1. CASE \E t \in Tasks, d \in Delays : SetInside(w, t, d) /\ UNCHANGED fiberState
    <3>1. UNCHANGED <<buffer_, task>>
      BY <2>1 DEF SetInside, Sets
    <3> QED BY <1>1, <2>1, <3>1
  <2>2. ASSUME NEW t \in Tasks, SubmitInside(w, t), UNCHANGED fiberState PROVE Allowed(f)
    <3>1. (Queued(f)' <=> Queued(f) \/ f = t) /\ task' = task
      BY <2>2, Types, Pushed DEF SubmitInside, Push
    <3>2. New(t)
      BY <2>2 DEF SubmitInside, New
    <3> QED BY <2>2, <3>1, <3>2, PlaceIs, Submits DEF Allowed
  <2> QED BY <1>3, <2>1, <2>2 DEF Calls
<1>4. CASE RuntimeStep /\ UNCHANGED fiberState
  BY <1>4, RuntimeStatus DEF Allowed
<1> QED BY <1>2, <1>3, <1>4, RunStatus DEF FiberNext, Optional

\* The runtime and fiber/core implement the scheduler: a fiber is executed by one
\* thread at a time, and a suspended one goes on only after someone has scheduled it.
THEOREM FibersScheduled == FiberSpec => SchedulerSpec
<1> DEFINE status == [f \in Fibers |-> Status(f)]
<1>1. StatusOK => status \in [Fibers -> Workers \cup {"ready", "suspended", "ended"}]
  BY DEF StatusOK
<1>2. FiberInit => Scheduler!Init
  <2> SUFFICES ASSUME FiberInit PROVE Scheduler!Init
    OBVIOUS
  <2>1. FibersOK /\ StatusOK
    BY FibersStart, SystemStarts, StatusIs DEF FiberInit
  <2>2. \A f \in Fibers : ~ Ended(f) /\ \A w \in Workers : ~ Executes(w, f)
    BY DEF FiberInit, Ended, Executes
  <2>3. status \in [Fibers -> {"suspended", "ready"}]
    BY <2>1, <2>2 DEF StatusOK
  <2> QED BY <2>3 DEF Scheduler!Init
<1>3. ASSUME SystemInv, FibersOK, SystemInv', FibersOK', [FiberNext]_allVars
      PROVE  Scheduler!Next
  <2>1. StatusOK /\ StatusOK'
    BY <1>3, StatusIs, StatusIsNext
  <2>2. \A f \in Fibers : Allowed(f)
    BY <1>3, <2>1, AllAllowed
  <2>3. status' \in [Fibers -> Workers \cup {"ready", "suspended", "ended"}]
    BY <2>1 DEF StatusOK
  <2>4. \A f \in Fibers : status[f] = Status(f) /\ status'[f] = Status(f)'
    OBVIOUS
  <2>5. \A f \in Fibers : \/ Scheduler!Scheduled(f) \/ Scheduler!Resumed(f) \/ Scheduler!Left(f)
                          \/ status'[f] = status[f]
    BY <2>2, <2>4 DEF Allowed, SameStatus, Schedules, Scheduler!Scheduled, Scheduler!Resumed,
       Scheduler!Left
  <2>6. ASSUME NEW f \in Fibers, NEW g \in Fibers, status'[f] = status'[g], status'[f] \in Workers
        PROVE  f = g
    <3>1. PICK w \in Workers : Status(f)' = w /\ Status(g)' = w
      BY <2>4, <2>6
    <3>2. Executes(w, f)' /\ Executes(w, g)'
      BY <2>1, <3>1, FiberAssumption DEF StatusOK
    <3> QED BY <3>2 DEF Executes
  <2> QED BY <2>3, <2>5, <2>6 DEF Scheduler!Next
<1> QED BY <1>2, <1>3, SystemAlways, FibersAlways, PTL DEF FiberSpec, SchedulerSpec, Scheduler!Spec

===============================================================================

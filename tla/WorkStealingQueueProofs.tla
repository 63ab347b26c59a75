----------------------- MODULE WorkStealingQueueProofs -----------------------
(* Proofs about WorkStealingQueue, for any number of thieves and tasks and   *)
(* any capacity.                                                             *)
EXTENDS WorkStealingQueue, TLAPS, SequenceTheorems

LEMMA ModType == ASSUME NEW i \in Nat PROVE Mod(i) \in 0 .. Capacity - 1
  BY WSAssumption DEF Mod

LEMMA MulAtLeast == ASSUME NEW C \in Nat, NEW k \in Nat \ {0} PROVE C * k >= C
  OBVIOUS

\* Two indices less than Capacity apart are in different slots.
LEMMA ModInj ==
  ASSUME NEW i \in Nat, NEW j \in Nat, i < j, j < i + Capacity
  PROVE  Mod(i) # Mod(j)
<1> DEFINE p == i \div Capacity
           q == j \div Capacity
<1>1. /\ p \in Nat /\ q \in Nat /\ Capacity \in Nat
      /\ i = Capacity * p + Mod(i)
      /\ j = Capacity * q + Mod(j)
      /\ Mod(i) \in Nat /\ Mod(j) \in Nat
  BY WSAssumption DEF Mod
<1> HIDE DEF p, q
<1>2. Capacity * q - Capacity * p = Capacity * (q - p)
  BY <1>1
<1>3. CASE q - p > 0
  <2>1. Capacity * (q - p) >= Capacity
    BY <1>1, <1>3, MulAtLeast
  <2> QED BY <1>1, <1>2, <2>1
<1>4. CASE q - p = 0
  BY <1>1, <1>4
<1>5. CASE q - p < 0
  <2>1. Capacity * p - Capacity * q = Capacity * (p - q)
    BY <1>1
  <2>2. Capacity * (p - q) >= Capacity
    BY <1>1, <1>5, MulAtLeast
  <2>3. Mod(i) < Capacity /\ Mod(j) < Capacity
    BY ModType, WSAssumption
  <2> QED BY <1>1, <2>1, <2>2, <2>3
<1> QED BY <1>1, <1>3, <1>4, <1>5

LEMMA OwnerIsThread == Owner \in Threads
  BY DEF Threads

LEMMA EmptyTyped == << >> \in Seq(Tasks) /\ << >> \in Seq(Tasks \cup {NULL})
  OBVIOUS

LEMMA InitInv == Init => WSInv
  BY WSAssumption, OwnerIsThread DEF Init, WSInv, TypeOK, Window, LocalsOK, ThreadOK,
     PushOK, Snapshot, SnapshotOf, Labels, PushPcs, At, MoreToCopy

\* What a step leaves alone of thread u.
Same(u) == /\ pc'[u] = pc[u] /\ head'[u] = head[u] /\ tail'[u] = tail[u]
           /\ out'[u] = out[u] /\ hand'[u] = hand[u] /\ res'[u] = res[u]

\* head_ and tail_ only grow, so a thread that does not move stays correct.
LEMMA FrameLocals ==
  ASSUME TypeOK, TypeOK', NEW u \in Threads, ThreadOK(u), Same(u),
         head_ <= head_', tail_ <= tail_'
  PROVE  ThreadOK(u)'
  BY DEF TypeOK, ThreadOK, Same, MoreToCopy

\* Its copies stay the front of the queue, or head_ has moved past them.
LEMMA FrameSnapshot ==
  ASSUME TypeOK, TypeOK', NEW u \in Threads, ThreadOK(u), SnapshotOf(u), Same(u),
         head_ <= head_', \A i \in head_ .. tail_ - 1 : At(i)' = At(i)
  PROVE  SnapshotOf(u)'
<1>1. CASE head_' = head_
  BY <1>1 DEF TypeOK, ThreadOK, Same, SnapshotOf
<1>2. CASE head_' # head_
  BY <1>2 DEF TypeOK, ThreadOK, Same, SnapshotOf
<1> QED BY <1>1, <1>2

\* So a step of thread t keeps the invariant if it only advances head_ and tail_,
\* keeps the live slots, and keeps the parts about the ring, the push and t.
LEMMA StepOfThread ==
  ASSUME WSInv, NEW t \in Threads, \A u \in Threads \ {t} : Same(u),
         head_ <= head_', tail_ <= tail_', \A i \in head_ .. tail_ - 1 : At(i)' = At(i),
         TypeOK', Window', PushOK', ThreadOK(t)', SnapshotOf(t)'
  PROVE  WSInv'
<1> SUFFICES ASSUME NEW u \in Threads, u # t PROVE ThreadOK(u)' /\ SnapshotOf(u)'
  BY DEF WSInv, LocalsOK, Snapshot
<1>1. ThreadOK(u) /\ SnapshotOf(u) /\ TypeOK
  BY DEF WSInv, LocalsOK, Snapshot
<1>2. Same(u)
  OBVIOUS
<1> QED BY <1>1, <1>2, FrameLocals, FrameSnapshot

-----------------------------------------------------------------------------
(* One lemma per action.                                                   *)

LEMMA TryPushInv ==
  ASSUME WSInv, NEW task \in Unlinked, TryPush(task) PROVE WSInv'
<1> USE DEF shared, client
<1>1. TypeOK /\ Window /\ PushOK /\ ThreadOK(Owner)
  BY OwnerIsThread DEF WSInv, LocalsOK
<1>2. TypeOK'
  BY <1>1, OwnerIsThread DEF TypeOK, Labels, TryPush, Call, Goto, Unlinked
<1>3. \A u \in Threads \ {Owner} : Same(u)
  BY <1>1 DEF TypeOK, Same, TryPush, Call, Goto
<1>4. /\ head_' = head_ /\ tail_' = tail_ /\ \A i : At(i)' = At(i)
      /\ head_ \in Nat /\ tail_ \in Nat /\ GrabAmount \in Nat
  BY <1>1, WSAssumption DEF TryPush, At, Mod, TypeOK
<1>5. /\ pc'[Owner] = "push_head" /\ res'[Owner] = "busy" /\ head'[Owner] = head[Owner]
      /\ tail'[Owner] = tail_ /\ out'[Owner] = << >> /\ hand'[Owner] = << >>
      /\ arg' = task /\ task \in Tasks
  BY <1>1, OwnerIsThread DEF TypeOK, TryPush, Call, Goto, ThreadOK, Unlinked
<1>6. Window' /\ PushOK' /\ ThreadOK(Owner)' /\ SnapshotOf(Owner)'
  BY <1>1, <1>4, <1>5 DEF Window, PushOK, PushPcs, ThreadOK, MoreToCopy, SnapshotOf
<1> QED BY <1>2, <1>3, <1>4, <1>6, OwnerIsThread, StepOfThread
\* What the return of an operation of t does to the locals.
LEMMA ReturnEffect ==
  ASSUME TypeOK, NEW t \in Threads, NEW tasks \in Seq(Tasks),
         NEW r \in {"pushed", "full", "got", "empty"}, Return(t, r, tasks)
  PROVE  /\ pc' \in [Threads -> Labels] /\ hand' \in [Threads -> Seq(Tasks)]
         /\ head' \in [Threads -> Nat] /\ tail' \in [Threads -> Nat]
         /\ out' \in [Threads -> Seq(Tasks \cup {NULL})]
         /\ res' \in [Threads -> {"none", "busy", "pushed", "full", "got", "empty"}]
         /\ \A u \in Threads \ {t} : Same(u)
         /\ pc'[t] = "idle" /\ res'[t] = r /\ head'[t] = 0 /\ tail'[t] = 0
         /\ out'[t] = << >> /\ hand'[t] = tasks
<1>1. hand' \in [Threads -> Seq(Tasks)]
  BY DEF Return, TypeOK
<1>2. out' \in [Threads -> Seq(Tasks \cup {NULL})]
  BY EmptyTyped DEF Return, TypeOK
<1>3. /\ pc' \in [Threads -> Labels] /\ head' \in [Threads -> Nat] /\ tail' \in [Threads -> Nat]
      /\ res' \in [Threads -> {"none", "busy", "pushed", "full", "got", "empty"}]
  BY DEF Return, Goto, TypeOK, Labels
<1>4. \A u \in Threads \ {t} : Same(u)
  BY DEF Return, Goto, TypeOK, Same
<1>5. /\ pc'[t] = "idle" /\ res'[t] = r /\ head'[t] = 0 /\ tail'[t] = 0
      /\ out'[t] = << >> /\ hand'[t] = tasks
  BY DEF Return, Goto, TypeOK
<1> QED BY <1>1, <1>2, <1>3, <1>4, <1>5

\* An operation that returns without a task and without moving head_ and tail_.
LEMMA ReturnInv ==
  ASSUME WSInv, NEW t \in Threads, NEW r \in {"full", "empty"}, Return(t, r, << >>),
         UNCHANGED shared, arg' = IF t = Owner THEN NULL ELSE arg
  PROVE  WSInv'
<1>1. TypeOK /\ Window /\ PushOK
  BY DEF WSInv, LocalsOK
<1>2. /\ head_' = head_ /\ tail_' = tail_ /\ \A i : At(i)' = At(i)
      /\ head_ \in Nat /\ tail_ \in Nat
  BY <1>1 DEF shared, At, Mod, TypeOK
<1>3. TypeOK'
  BY <1>1, ReturnEffect, EmptyTyped DEF TypeOK, shared
<1>4. \A u \in Threads \ {t} : Same(u)
  BY <1>1, ReturnEffect, EmptyTyped, ZenonT(30)
<1>5. /\ pc'[t] = "idle" /\ res'[t] = r /\ head'[t] = 0 /\ tail'[t] = 0 /\ out'[t] = << >>
  BY <1>1, ReturnEffect, EmptyTyped
<1>6. PushOK'
  BY <1>1, <1>2, <1>4, <1>5, OwnerIsThread DEF PushOK, PushPcs, Same
<1>7. Window' /\ ThreadOK(t)' /\ SnapshotOf(t)'
  BY <1>1, <1>2, <1>5, WSAssumption DEF Window, ThreadOK, MoreToCopy, SnapshotOf
<1> QED BY <1>2, <1>3, <1>4, <1>6, <1>7, StepOfThread

LEMMA PushFullInv ==
  ASSUME WSInv, PushLoadHead, IsFull(head_, tail[Owner]) PROVE WSInv'
  BY OwnerIsThread, ReturnInv DEF PushLoadHead

LEMMA PushRoomInv ==
  ASSUME WSInv, PushLoadHead, ~ IsFull(head_, tail[Owner]) PROVE WSInv'
<1> USE DEF shared, client
<1>1. TypeOK /\ Window /\ PushOK /\ ThreadOK(Owner) /\ SnapshotOf(Owner)
  BY OwnerIsThread DEF WSInv, LocalsOK, Snapshot
<1>2. TypeOK'
  BY <1>1, OwnerIsThread, WSAssumption, ZenonT(30) DEF TypeOK, Labels, PushLoadHead, Goto, IsFull
<1>3. \A u \in Threads \ {Owner} : Same(u)
  BY <1>1, OwnerIsThread DEF TypeOK, Same, PushLoadHead, Goto, IsFull
<1>4. /\ head_' = head_ /\ tail_' = tail_ /\ \A i : At(i)' = At(i)
      /\ head_ \in Nat /\ tail_ \in Nat
  BY <1>1, WSAssumption DEF PushLoadHead, Goto, IsFull, At, Mod, TypeOK
<1>5. /\ pc'[Owner] = "push_slot" /\ res'[Owner] = "busy" /\ head'[Owner] = head_
      /\ tail'[Owner] = tail_ /\ out'[Owner] = << >> /\ hand'[Owner] = << >>
      /\ arg' = arg /\ arg \in Tasks /\ tail_ < head_ + Capacity
  BY <1>1, OwnerIsThread, WSAssumption DEF TypeOK, ThreadOK, PushOK, PushPcs,
     PushLoadHead, Goto, IsFull
<1>6. Window' /\ PushOK' /\ ThreadOK(Owner)' /\ SnapshotOf(Owner)'
  BY <1>1, <1>2, <1>4, <1>5, OwnerIsThread, WSAssumption DEF TypeOK, Window, PushOK,
     PushPcs, ThreadOK, MoreToCopy, SnapshotOf
<1> QED BY <1>1, <1>2, <1>3, <1>4, <1>6, OwnerIsThread, StepOfThread

LEMMA TryPopInv ==
  ASSUME WSInv, TryPop PROVE WSInv'
<1> USE DEF shared, client
<1>1. TypeOK /\ Window /\ PushOK /\ ThreadOK(Owner) /\ SnapshotOf(Owner)
  BY OwnerIsThread DEF WSInv, LocalsOK, Snapshot
<1>2. TypeOK'
  BY <1>1, OwnerIsThread, WSAssumption DEF TypeOK, Labels, TryPop, Call, Goto
<1>3. \A u \in Threads \ {Owner} : Same(u)
  BY <1>1, OwnerIsThread DEF TypeOK, Same, TryPop, Call, Goto
<1>4. /\ head_' = head_ /\ tail_' = tail_ /\ \A i : At(i)' = At(i)
      /\ head_ \in Nat /\ tail_ \in Nat
  BY <1>1, WSAssumption DEF TryPop, Call, Goto, At, Mod, TypeOK
<1>5. /\ pc'[Owner] = "pop_head" /\ res'[Owner] = "busy" /\ head'[Owner] = head[Owner]
      /\ tail'[Owner] = tail[Owner] /\ out'[Owner] = << >> /\ hand'[Owner] = << >>
      /\ arg' = arg /\ arg = NULL
  BY <1>1, OwnerIsThread, WSAssumption DEF TypeOK, ThreadOK, PushOK, PushPcs, TryPop,
     Call, Goto
<1>6. Window' /\ PushOK' /\ ThreadOK(Owner)' /\ SnapshotOf(Owner)'
  BY <1>1, <1>2, <1>4, <1>5, OwnerIsThread, WSAssumption DEF TypeOK, Window, PushOK,
     PushPcs, ThreadOK, MoreToCopy, SnapshotOf
<1> QED BY <1>1, <1>2, <1>3, <1>4, <1>6, OwnerIsThread, StepOfThread

LEMMA PopLoadHeadInv ==
  ASSUME WSInv, PopLoadHead PROVE WSInv'
<1> USE DEF shared, client
<1>1. TypeOK /\ Window /\ PushOK /\ ThreadOK(Owner) /\ SnapshotOf(Owner)
  BY OwnerIsThread DEF WSInv, LocalsOK, Snapshot
<1>2. TypeOK'
  BY <1>1, OwnerIsThread, WSAssumption DEF TypeOK, Labels, PopLoadHead, Goto
<1>3. \A u \in Threads \ {Owner} : Same(u)
  BY <1>1, OwnerIsThread DEF TypeOK, Same, PopLoadHead, Goto
<1>4. /\ head_' = head_ /\ tail_' = tail_ /\ \A i : At(i)' = At(i)
      /\ head_ \in Nat /\ tail_ \in Nat
  BY <1>1, WSAssumption DEF PopLoadHead, Goto, At, Mod, TypeOK
<1>5. /\ pc'[Owner] = "pop_tail" /\ res'[Owner] = "busy" /\ head'[Owner] = head_
      /\ tail'[Owner] = tail[Owner] /\ out'[Owner] = << >> /\ hand'[Owner] = << >>
      /\ arg' = arg /\ arg = NULL
  BY <1>1, OwnerIsThread, WSAssumption DEF TypeOK, ThreadOK, PushOK, PushPcs,
     PopLoadHead, Goto
<1>6. Window' /\ PushOK' /\ ThreadOK(Owner)' /\ SnapshotOf(Owner)'
  BY <1>1, <1>2, <1>4, <1>5, OwnerIsThread, WSAssumption DEF TypeOK, Window, PushOK,
     PushPcs, ThreadOK, MoreToCopy, SnapshotOf
<1> QED BY <1>1, <1>2, <1>3, <1>4, <1>6, OwnerIsThread, StepOfThread

LEMMA PopEmptyInv ==
  ASSUME WSInv, PopLoadTail, head[Owner] = tail_ PROVE WSInv'
<1>1. pc[Owner] = "pop_tail" /\ PushOK /\ TypeOK
  BY DEF PopLoadTail, WSInv, LocalsOK
<1>2. Return(Owner, "empty", << >>) /\ UNCHANGED shared /\ arg' = arg
  BY DEF PopLoadTail
<1>3. arg = NULL
  BY <1>1 DEF PushOK, PushPcs
<1> QED BY <1>2, <1>3, OwnerIsThread, ReturnInv

LEMMA PopNonEmptyInv ==
  ASSUME WSInv, PopLoadTail, head[Owner] # tail_ PROVE WSInv'
<1> USE DEF shared, client
<1>1. TypeOK /\ Window /\ PushOK /\ ThreadOK(Owner) /\ SnapshotOf(Owner)
  BY OwnerIsThread DEF WSInv, LocalsOK, Snapshot
<1>2. TypeOK'
  BY <1>1, OwnerIsThread, WSAssumption, ZenonT(30) DEF TypeOK, Labels, PopLoadTail, Goto
<1>3. \A u \in Threads \ {Owner} : Same(u)
  BY <1>1, OwnerIsThread DEF TypeOK, Same, PopLoadTail, Goto
<1>4. /\ head_' = head_ /\ tail_' = tail_ /\ \A i : At(i)' = At(i)
      /\ head_ \in Nat /\ tail_ \in Nat
  BY <1>1, WSAssumption DEF PopLoadTail, Goto, At, Mod, TypeOK
<1>5. /\ pc'[Owner] = "pop_slot" /\ res'[Owner] = "busy" /\ head'[Owner] = head[Owner]
      /\ tail'[Owner] = tail_ /\ out'[Owner] = << >> /\ hand'[Owner] = << >>
      /\ arg' = arg /\ arg = NULL
  BY <1>1, OwnerIsThread, WSAssumption DEF TypeOK, ThreadOK, PushOK, PushPcs, Window,
     PopLoadTail, Goto
<1>6. head[Owner] < tail_
  BY <1>1, OwnerIsThread DEF TypeOK, ThreadOK, Window, PopLoadTail
<1>7. Window' /\ PushOK' /\ ThreadOK(Owner)' /\ SnapshotOf(Owner)'
  BY <1>1, <1>2, <1>4, <1>5, <1>6, OwnerIsThread, WSAssumption DEF TypeOK, Window,
     PushOK, PushPcs, ThreadOK, MoreToCopy, SnapshotOf
<1> QED BY <1>1, <1>2, <1>3, <1>4, <1>7, OwnerIsThread, StepOfThread

\* A step that is not one of TryPush leaves the running push, if any, correct.
LEMMA KeepsPush ==
  ASSUME PushOK, NEW t \in Threads, \A u \in Threads \ {t} : Same(u),
         pc[t] \notin PushPcs, pc'[t] \notin PushPcs,
         arg' = arg, tail_' = tail_, \A i : At(i)' = At(i)
  PROVE  PushOK'
<1>1. CASE t = Owner
  BY <1>1 DEF PushOK, PushPcs
<1>2. CASE t # Owner
  <2>1. Same(Owner)
    BY <1>2, OwnerIsThread
  <2> QED BY <2>1 DEF PushOK, PushPcs, Same
<1> QED BY <1>1, <1>2

LEMMA GrabInv ==
  ASSUME WSInv, NEW t \in Threads, Grab(t) PROVE WSInv'
<1> USE DEF shared, client
<1>1. TypeOK /\ Window /\ PushOK /\ ThreadOK(t) /\ SnapshotOf(t)
  BY OwnerIsThread DEF WSInv, LocalsOK, Snapshot
<1>2. TypeOK'
  BY <1>1, WSAssumption DEF TypeOK, Labels, Grab, Call, Goto
<1>3. \A u \in Threads \ {t} : Same(u)
  BY <1>1 DEF TypeOK, Same, Grab, Call, Goto
<1>4. /\ head_' = head_ /\ tail_' = tail_ /\ \A i : At(i)' = At(i)
      /\ head_ \in Nat /\ tail_ \in Nat
  BY <1>1 DEF Grab, Call, Goto, At, Mod, TypeOK
<1>5. /\ res'[t] = "busy" /\ head'[t] = head[t]
      /\ tail'[t] = tail[t] /\ out'[t] = << >> /\ hand'[t] = << >>
      /\ pc'[t] = "grab_head" /\ pc[t] = "idle" /\ arg' = arg /\ tail'[t] \in Nat /\ head'[t] \in Nat
  BY <1>1, WSAssumption DEF TypeOK, ThreadOK, PushOK, PushPcs, Grab, Call, Goto
<1>6. PushOK'
  BY <1>1, <1>3, <1>4, <1>5, KeepsPush DEF PushPcs
<1>7. Window' /\ ThreadOK(t)' /\ SnapshotOf(t)'
  BY <1>1, <1>4, <1>5, WSAssumption DEF Window, ThreadOK, MoreToCopy, SnapshotOf
<1> QED BY <1>1, <1>2, <1>3, <1>4, <1>6, <1>7, OwnerIsThread, StepOfThread

LEMMA GrabLoadHeadInv ==
  ASSUME WSInv, NEW t \in Threads, GrabLoadHead(t) PROVE WSInv'
<1> USE DEF shared, client
<1>1. TypeOK /\ Window /\ PushOK /\ ThreadOK(t) /\ SnapshotOf(t)
  BY OwnerIsThread DEF WSInv, LocalsOK, Snapshot
<1>2. TypeOK'
  BY <1>1, WSAssumption DEF TypeOK, Labels, GrabLoadHead, Goto
<1>3. \A u \in Threads \ {t} : Same(u)
  BY <1>1 DEF TypeOK, Same, GrabLoadHead, Goto
<1>4. /\ head_' = head_ /\ tail_' = tail_ /\ \A i : At(i)' = At(i)
      /\ head_ \in Nat /\ tail_ \in Nat
  BY <1>1 DEF GrabLoadHead, Goto, At, Mod, TypeOK
<1>5. /\ res'[t] = "busy" /\ head'[t] = head_
      /\ tail'[t] = tail[t] /\ out'[t] = << >> /\ hand'[t] = << >>
      /\ pc'[t] = "grab_tail" /\ pc[t] = "grab_head" /\ arg' = arg /\ tail'[t] \in Nat /\ head'[t] \in Nat
  BY <1>1, WSAssumption DEF TypeOK, ThreadOK, PushOK, PushPcs, GrabLoadHead, Goto
<1>6. PushOK'
  BY <1>1, <1>3, <1>4, <1>5, KeepsPush DEF PushPcs
<1>7. Window' /\ ThreadOK(t)' /\ SnapshotOf(t)'
  BY <1>1, <1>4, <1>5, WSAssumption DEF Window, ThreadOK, MoreToCopy, SnapshotOf
<1> QED BY <1>1, <1>2, <1>3, <1>4, <1>6, <1>7, OwnerIsThread, StepOfThread

LEMMA RunTasksInv ==
  ASSUME WSInv, NEW t \in Threads, RunTasks(t) PROVE WSInv'
<1> USE DEF shared, client
<1>1. TypeOK /\ Window /\ PushOK /\ ThreadOK(t) /\ SnapshotOf(t)
  BY OwnerIsThread DEF WSInv, LocalsOK, Snapshot
<1>2. TypeOK'
  BY <1>1, WSAssumption, EmptyTyped DEF TypeOK, Labels, RunTasks
<1>3. \A u \in Threads \ {t} : Same(u)
  BY <1>1 DEF TypeOK, Same, RunTasks
<1>4. /\ head_' = head_ /\ tail_' = tail_ /\ \A i : At(i)' = At(i)
      /\ head_ \in Nat /\ tail_ \in Nat
  BY <1>1 DEF RunTasks, At, Mod, TypeOK
<1>5. /\ res'[t] = res[t] /\ head'[t] = head[t]
      /\ tail'[t] = tail[t] /\ out'[t] = << >> /\ hand'[t] = << >>
      /\ pc'[t] = "idle" /\ pc[t] = "idle" /\ arg' = arg /\ tail'[t] \in Nat /\ head'[t] \in Nat
  BY <1>1, WSAssumption DEF TypeOK, ThreadOK, PushOK, PushPcs, RunTasks
<1>6. PushOK'
  BY <1>1, <1>3, <1>4, <1>5, KeepsPush DEF PushPcs
<1>7. Window' /\ ThreadOK(t)' /\ SnapshotOf(t)'
  BY <1>1, <1>4, <1>5, WSAssumption DEF Window, ThreadOK, MoreToCopy, SnapshotOf
<1> QED BY <1>1, <1>2, <1>3, <1>4, <1>6, <1>7, OwnerIsThread, StepOfThread

\* Every slot holds a task pointer.
LEMMA SlotTyped == ASSUME TypeOK, NEW i \in Nat PROVE At(i) \in Tasks \cup {NULL}
  BY ModType DEF TypeOK, At

LEMMA CasFailsInv ==
  ASSUME WSInv, NEW t \in Threads, pc[t] \in {"pop_cas", "grab_cas"}, NEW retry,
         retry = IF pc[t] = "pop_cas" THEN "pop_head" ELSE "grab_head", CasFails(t,
            retry)
  PROVE  WSInv'
<1> USE DEF shared, client
<1>1. TypeOK /\ Window /\ PushOK /\ ThreadOK(t) /\ SnapshotOf(t)
  BY OwnerIsThread DEF WSInv, LocalsOK, Snapshot
<1>2. TypeOK'
  BY <1>1, WSAssumption, EmptyTyped DEF TypeOK, Labels, CasFails, Goto
<1>3. \A u \in Threads \ {t} : Same(u)
  BY <1>1 DEF TypeOK, Same, CasFails, Goto
<1>4. /\ head_' = head_ /\ tail_' = tail_ /\ \A i : At(i)' = At(i)
      /\ head_ \in Nat /\ tail_ \in Nat
  BY <1>1 DEF CasFails, Goto, At, Mod, TypeOK
<1>5. /\ res'[t] = "busy" /\ head'[t] = head[t]
      /\ tail'[t] = tail[t] /\ out'[t] = << >> /\ hand'[t] = << >>
      /\ pc'[t] = retry /\ (t # Owner => pc[t] # "pop_cas") /\ arg' = arg /\ tail'[t] \in Nat /\ head'[t] \in Nat
  BY <1>1, WSAssumption DEF TypeOK, ThreadOK, PushOK, PushPcs, CasFails, Goto
<1>6. PushOK'
  BY <1>1, <1>3, <1>4, <1>5, KeepsPush DEF PushPcs
<1>7. Window' /\ ThreadOK(t)' /\ SnapshotOf(t)'
  BY <1>1, <1>4, <1>5, WSAssumption DEF Window, ThreadOK, MoreToCopy, SnapshotOf
<1> QED BY <1>1, <1>2, <1>3, <1>4, <1>6, <1>7, OwnerIsThread, StepOfThread

LEMMA GrabLoadTailInv ==
  ASSUME WSInv, NEW t \in Threads, GrabLoadTail(t) PROVE WSInv'
<1> USE DEF shared, client
<1>1. TypeOK /\ Window /\ PushOK /\ ThreadOK(t) /\ SnapshotOf(t)
  BY OwnerIsThread DEF WSInv, LocalsOK, Snapshot
<1>2. TypeOK'
  BY <1>1, WSAssumption DEF TypeOK, Labels, GrabLoadTail, Goto
<1>3. \A u \in Threads \ {t} : Same(u)
  BY <1>1 DEF TypeOK, Same, GrabLoadTail, Goto
<1>4. /\ head_' = head_ /\ tail_' = tail_ /\ \A i : At(i)' = At(i)
      /\ head_ \in Nat /\ tail_ \in Nat
  BY <1>1 DEF GrabLoadTail, Goto, At, Mod, TypeOK
<1>5. /\ res'[t] = "busy" /\ head'[t] = head[t]
      /\ tail'[t] = tail_ /\ out'[t] = << >> /\ hand'[t] = << >>
      /\ pc'[t] = IF MoreToCopy(t, 0, tail_) THEN "grab_slot" ELSE "grab_cas"
      /\ pc[t] = "grab_tail" /\ arg' = arg /\ tail'[t] \in Nat /\ head'[t] \in Nat
  BY <1>1, WSAssumption DEF TypeOK, ThreadOK, PushOK, PushPcs, GrabLoadTail, Goto
<1>6. PushOK'
  BY <1>1, <1>3, <1>4, <1>5, KeepsPush DEF PushPcs
<1>7. Window' /\ ThreadOK(t)' /\ SnapshotOf(t)'
  BY <1>1, <1>4, <1>5, WSAssumption DEF Window, ThreadOK, MoreToCopy, SnapshotOf
<1> QED BY <1>1, <1>2, <1>3, <1>4, <1>6, <1>7, OwnerIsThread, StepOfThread

LEMMA PopLoadSlotInv ==
  ASSUME WSInv, PopLoadSlot PROVE WSInv'
<1> USE DEF shared, client
<1>1. TypeOK /\ Window /\ PushOK /\ ThreadOK(Owner)
  BY OwnerIsThread DEF WSInv, LocalsOK
<1>2. /\ pc[Owner] = "pop_slot" /\ head[Owner] \in Nat /\ tail[Owner] \in Nat
      /\ out' = [out EXCEPT ![Owner] = <<At(head[Owner])>>]
      /\ UNCHANGED <<buffer_, head_, tail_, head, tail, arg, hand, res>>
      /\ pc' = [pc EXCEPT ![Owner] = "pop_cas"]
  BY <1>1, OwnerIsThread DEF PopLoadSlot, Goto, TypeOK
<1>3. TypeOK'
  <2>1. At(head[Owner]) \in Tasks \cup {NULL}
    BY <1>1, <1>2, SlotTyped
  <2>2. <<At(head[Owner])>> \in Seq(Tasks \cup {NULL})
    BY <2>1
  <2>3. out' \in [Threads -> Seq(Tasks \cup {NULL})]
    BY <1>1, <1>2, <2>2 DEF TypeOK
  <2> QED BY <1>1, <1>2, <2>3 DEF TypeOK, Labels
<1>4. \A u \in Threads \ {Owner} : Same(u)
  BY <1>1, <1>2 DEF TypeOK, Same
<1>5. /\ head_' = head_ /\ tail_' = tail_ /\ \A i : At(i)' = At(i)
      /\ head_ \in Nat /\ tail_ \in Nat
  BY <1>1, <1>2 DEF At, Mod, TypeOK
<1>6. /\ pc'[Owner] = "pop_cas" /\ out'[Owner] = <<At(head[Owner])>> /\ arg' = arg
      /\ head'[Owner] = head[Owner] /\ tail'[Owner] = tail[Owner]
      /\ res'[Owner] = res[Owner] /\ hand'[Owner] = hand[Owner]
  BY <1>1, <1>2, OwnerIsThread DEF TypeOK
<1>7. Window' /\ PushOK'
  BY <1>1, <1>2, <1>4, <1>5, <1>6, OwnerIsThread, KeepsPush DEF Window, PushPcs
<1>8. ThreadOK(Owner)'
  <2>1. Len(out'[Owner]) = 1 /\ out'[Owner] # << >>
    BY <1>6
  <2> QED BY <1>1, <1>2, <1>5, <1>6, <2>1, WSAssumption DEF ThreadOK, MoreToCopy
<1>9. SnapshotOf(Owner)'
  <2>1. Len(out'[Owner]) = 1 /\ out'[Owner][1] = At(head[Owner])
    BY <1>6
  <2> QED BY <1>2, <1>5, <1>6, <2>1 DEF SnapshotOf
<1> QED BY <1>1, <1>3, <1>4, <1>5, <1>7, <1>8, <1>9, OwnerIsThread, StepOfThread

LEMMA GrabLoadSlotInv ==
  ASSUME WSInv, NEW t \in Threads, GrabLoadSlot(t) PROVE WSInv'
<1> USE DEF shared, client
<1> DEFINE n == Len(out[t])
           x == At(head[t] + n)
<1>1. TypeOK /\ Window /\ PushOK /\ ThreadOK(t) /\ SnapshotOf(t)
  BY DEF WSInv, LocalsOK, Snapshot
<1>2. /\ pc[t] = "grab_slot" /\ head[t] \in Nat /\ tail[t] \in Nat /\ n \in Nat
      /\ out[t] \in Seq(Tasks \cup {NULL})
  BY <1>1 DEF GrabLoadSlot, TypeOK
<1>3. x \in Tasks \cup {NULL}
  BY <1>1, <1>2, SlotTyped
<1>4. /\ out' = [out EXCEPT ![t] = Append(out[t], x)]
      /\ UNCHANGED <<buffer_, head_, tail_, head, tail, arg, hand, res>>
      /\ pc' = [pc EXCEPT ![t] = IF MoreToCopy(t, n + 1,
         tail[t]) THEN "grab_slot" ELSE "grab_cas"]
  BY <1>1 DEF GrabLoadSlot, Goto, TypeOK
<1>5. /\ Append(out[t], x) \in Seq(Tasks \cup {NULL}) /\ Len(Append(out[t], x)) = n + 1
      /\ Append(out[t], x)[n + 1] = x /\ \A k \in 1 .. n : Append(out[t],
         x)[k] = out[t][k]
  BY <1>2, <1>3
<1> HIDE DEF n, x
<1>6. TypeOK'
  <2>1. out' \in [Threads -> Seq(Tasks \cup {NULL})]
    BY <1>1, <1>4, <1>5 DEF TypeOK
  <2>2. pc' \in [Threads -> Labels]
    BY <1>1, <1>4 DEF TypeOK, Labels
  <2> QED BY <1>1, <1>4, <2>1, <2>2 DEF TypeOK
<1>7. \A u \in Threads \ {t} : Same(u)
  BY <1>1, <1>4 DEF TypeOK, Same
<1>8. /\ head_' = head_ /\ tail_' = tail_ /\ \A i : At(i)' = At(i)
      /\ head_ \in Nat /\ tail_ \in Nat
  BY <1>1, <1>4 DEF At, Mod, TypeOK
<1>9. /\ pc'[t] = IF MoreToCopy(t, n + 1, tail[t]) THEN "grab_slot" ELSE "grab_cas"
      /\ out'[t] = Append(out[t], x) /\ arg' = arg
      /\ head'[t] = head[t] /\ tail'[t] = tail[t]
      /\ res'[t] = res[t] /\ hand'[t] = hand[t]
  BY <1>1, <1>4 DEF TypeOK
<1>10. Window' /\ PushOK'
  BY <1>1, <1>2, <1>7, <1>8, <1>9, KeepsPush DEF Window, PushPcs
<1>11. head[t] + n < tail[t] /\ n < GrabAmount
  BY <1>1, <1>2, WSAssumption DEF ThreadOK, MoreToCopy, Limit, n
<1>12. out'[t] # << >> /\ Len(out'[t]) = n + 1
  BY <1>2, <1>5, <1>9
<1>13. ThreadOK(t)'
  BY <1>1, <1>2, <1>8, <1>9, <1>11, <1>12, WSAssumption DEF ThreadOK, MoreToCopy
<1>14. SnapshotOf(t)'
  <2> SUFFICES ASSUME head_ = head[t], NEW k \in 1 .. n + 1
               PROVE  Append(out[t], x)[k] = At(head_ + k - 1)
    BY <1>8, <1>9, <1>12 DEF SnapshotOf
  <2>1. CASE k = n + 1
    BY <1>2, <1>5, <2>1 DEF x
  <2>2. CASE k \in 1 .. n
    BY <1>1, <1>5, <2>2 DEF SnapshotOf, n
  <2>3. n \in Nat
    BY <1>2
  <2>4. k = n + 1 \/ k \in 1 .. n
    BY <2>3
  <2> QED BY <2>1, <2>2, <2>4
<1> QED BY <1>1, <1>6, <1>7, <1>8, <1>10, <1>13, <1>14, StepOfThread

\* The slot that TryPush writes is not live: the ring has room, and indices less
\* than Capacity apart are in different slots.
LEMMA PushStoreSlotEffect ==
  ASSUME WSInv, PushStoreSlot
  PROVE  /\ pc[Owner] = "push_slot" /\ pc' = [pc EXCEPT ![Owner] = "push_tail"]
         /\ UNCHANGED <<head_, tail_, head, tail, out, arg, hand, res>>
         /\ tail[Owner] = tail_ /\ arg \in Tasks /\ tail_ < head[Owner] + Capacity
         /\ head[Owner] <= head_ /\ head_ \in Nat /\ tail_ \in Nat /\ head[Owner] \in Nat
         /\ out[Owner] = << >> /\ hand[Owner] = << >>
         /\ buffer_' = [buffer_ EXCEPT ![Mod(tail_)] = arg]
         /\ At(tail_)' = arg
         /\ \A i \in head_ .. tail_ - 1 : At(i)' = At(i)
<1>1. TypeOK /\ PushOK /\ ThreadOK(Owner)
  BY OwnerIsThread DEF WSInv, LocalsOK
<1>2. /\ pc[Owner] = "push_slot" /\ pc' = [pc EXCEPT ![Owner] = "push_tail"]
      /\ UNCHANGED <<head_, tail_, head, tail, out, arg, hand, res>>
      /\ tail[Owner] = tail_ /\ arg \in Tasks /\ tail_ < head[Owner] + Capacity
      /\ head[Owner] <= head_ /\ head_ \in Nat /\ tail_ \in Nat /\ head[Owner] \in Nat
      /\ out[Owner] = << >> /\ hand[Owner] = << >>
  BY <1>1, OwnerIsThread DEF PushStoreSlot, Goto, PushOK, PushPcs, ThreadOK, TypeOK,
                             shared, client
<1>3. buffer_' = [buffer_ EXCEPT ![Mod(tail_)] = arg]
  BY <1>2 DEF PushStoreSlot
<1>4. \A i \in Nat : At(i)' = IF Mod(i) = Mod(tail_) THEN arg ELSE At(i)
  BY <1>1, <1>3, ModType DEF At, TypeOK
<1>5. \A i \in head_ .. tail_ - 1 : At(i)' = At(i)
  <2> SUFFICES ASSUME NEW i \in head_ .. tail_ - 1 PROVE Mod(i) # Mod(tail_)
    BY <1>2, <1>4
  <2> QED BY <1>2, ModInj, WSAssumption
<1>6. At(tail_)' = arg
  BY <1>2, <1>4
<1> QED BY <1>2, <1>3, <1>5, <1>6

LEMMA PushStoreSlotInv ==
  ASSUME WSInv, PushStoreSlot PROVE WSInv'
<1>1. TypeOK /\ Window /\ PushOK /\ ThreadOK(Owner) /\ SnapshotOf(Owner)
  BY OwnerIsThread DEF WSInv, LocalsOK, Snapshot
<1>2. /\ pc[Owner] = "push_slot" /\ pc' = [pc EXCEPT ![Owner] = "push_tail"]
      /\ UNCHANGED <<head_, tail_, head, tail, out, arg, hand, res>>
      /\ tail[Owner] = tail_ /\ arg \in Tasks /\ tail_ < head[Owner] + Capacity
      /\ head[Owner] <= head_ /\ head_ \in Nat /\ tail_ \in Nat /\ head[Owner] \in Nat
      /\ out[Owner] = << >> /\ hand[Owner] = << >>
      /\ buffer_' = [buffer_ EXCEPT ![Mod(tail_)] = arg] /\ At(tail_)' = arg
  BY PushStoreSlotEffect
<1>4. TypeOK'
  <2>1. buffer_' \in [0 .. Capacity - 1 -> Tasks \cup {NULL}]
    BY <1>1, <1>2 DEF TypeOK
  <2>2. pc' \in [Threads -> Labels]
    BY <1>1, <1>2 DEF TypeOK, Labels
  <2> QED BY <1>1, <1>2, <2>1, <2>2 DEF TypeOK
<1>5. \A u \in Threads \ {Owner} : Same(u)
  BY <1>1, <1>2 DEF TypeOK, Same
<1>7. \A i \in head_ .. tail_ - 1 : At(i)' = At(i)
  BY PushStoreSlotEffect
<1>8. pc'[Owner] = "push_tail" /\ tail'[Owner] = tail_ /\ At(tail_)' = arg /\ arg' = arg
  BY <1>1, <1>2, OwnerIsThread DEF TypeOK
<1>9. Window'
  BY <1>1, <1>2, <1>7 DEF Window
<1>10. PushOK'
  BY <1>2, <1>8, OwnerIsThread DEF PushOK, PushPcs
<1>11. ThreadOK(Owner)' /\ SnapshotOf(Owner)'
  BY <1>1, <1>2, <1>8, WSAssumption DEF ThreadOK, MoreToCopy, SnapshotOf
<1> QED BY <1>2, <1>4, <1>5, <1>7, <1>9, <1>10, <1>11, OwnerIsThread, StepOfThread

LEMMA PushStoreTailInv ==
  ASSUME WSInv, PushStoreTail PROVE WSInv'
<1>1. TypeOK /\ Window /\ PushOK /\ ThreadOK(Owner)
  BY OwnerIsThread DEF WSInv, LocalsOK
<1>2. /\ pc[Owner] = "push_tail" /\ Return(Owner, "pushed", << >>) /\ arg' = NULL
      /\ tail[Owner] = tail_ /\ arg \in Tasks /\ tail_ < head[Owner] + Capacity
      /\ At(tail_) = arg /\ head[Owner] <= head_ /\ head_ \in Nat /\ tail_ \in Nat
      /\ head[Owner] \in Nat
  BY <1>1, OwnerIsThread DEF PushStoreTail, PushOK, PushPcs, ThreadOK, TypeOK
<1>3. head_' = head_ /\ tail_' = tail_ + 1 /\ buffer_' = buffer_ /\ \A i : At(i)' = At(i)
  BY <1>2 DEF PushStoreTail, At, Mod
<1>4. TypeOK'
  <2>1. /\ pc' \in [Threads -> Labels] /\ hand' \in [Threads -> Seq(Tasks)]
        /\ head' \in [Threads -> Nat] /\ tail' \in [Threads -> Nat]
        /\ out' \in [Threads -> Seq(Tasks \cup {NULL})]
        /\ res' \in [Threads -> {"none", "busy", "pushed", "full", "got", "empty"}]
    BY <1>1, <1>2, OwnerIsThread, ReturnEffect, EmptyTyped
  <2> QED BY <1>1, <1>2, <1>3, <2>1 DEF TypeOK
<1>5. /\ \A u \in Threads \ {Owner} : Same(u)
      /\ pc'[Owner] = "idle" /\ res'[Owner] = "pushed" /\ head'[Owner] = 0
      /\ tail'[Owner] = 0 /\ out'[Owner] = << >> /\ hand'[Owner] = << >>
  BY <1>1, <1>2, OwnerIsThread, ReturnEffect, EmptyTyped
<1>6. Window'
  BY <1>1, <1>2, <1>3, WSAssumption DEF Window
<1>7. PushOK'
  BY <1>2, <1>5 DEF PushOK, PushPcs
<1>8. ThreadOK(Owner)' /\ SnapshotOf(Owner)'
  BY <1>2, <1>3, <1>5, WSAssumption DEF ThreadOK, MoreToCopy, SnapshotOf
<1> QED BY <1>2, <1>3, <1>4, <1>5, <1>6, <1>7, <1>8, OwnerIsThread, StepOfThread

\* A successful CAS takes the front of the queue: the tasks the thread has copied.
LEMMA CommitTakesFront ==
  ASSUME WSInv, NEW t \in Threads, head_ = head[t]
  PROVE  /\ Len(out[t]) \in Nat /\ head_ + Len(out[t]) <= tail_
         /\ \A k \in 1 .. Len(out[t]) : out[t][k] = At(head_ + k - 1)
         /\ out[t] \in Seq(Tasks)
<1>1. TypeOK /\ Window /\ ThreadOK(t) /\ SnapshotOf(t)
  BY DEF WSInv, LocalsOK, Snapshot
<1>2. /\ head_ \in Nat /\ tail_ \in Nat /\ tail[t] \in Nat
      /\ out[t] \in Seq(Tasks \cup {NULL}) /\ Len(out[t]) \in Nat
  BY <1>1 DEF TypeOK
<1>3. head_ + Len(out[t]) <= tail_
  BY <1>1, <1>2 DEF ThreadOK, Window
<1>4. \A k \in 1 .. Len(out[t]) : out[t][k] = At(head_ + k - 1)
  BY <1>1 DEF SnapshotOf
<1>5. ASSUME NEW k \in 1 .. Len(out[t]) PROVE out[t][k] \in Tasks
  <2>1. head_ + k - 1 \in head_ .. tail_ - 1
    BY <1>2, <1>3
  <2> QED BY <1>1, <1>4, <2>1 DEF Window
<1>6. out[t] \in Seq(Tasks)
  BY <1>2, <1>5
<1> QED BY <1>2, <1>3, <1>4, <1>6

LEMMA CommitInv ==
  ASSUME WSInv, NEW t \in Threads, pc[t] \in {"pop_cas", "grab_cas"}, Commit(t)
     PROVE WSInv'
<1> DEFINE n == Len(out[t])
           r == IF out[t] = << >> THEN "empty" ELSE "got"
<1>1. TypeOK /\ Window /\ PushOK /\ ThreadOK(t)
  BY DEF WSInv, LocalsOK
<1>2. /\ head_ = head[t] /\ head_' = head_ + n /\ tail_' = tail_ /\ buffer_' = buffer_
      /\ arg' = arg /\ Return(t, r, out[t])
  BY DEF Commit
<1>3. n \in Nat /\ head_ + n <= tail_ /\ out[t] \in Seq(Tasks) /\ head_ \in Nat /\ tail_ \in Nat
  BY <1>1, <1>2, CommitTakesFront DEF TypeOK
<1>4. r \in {"pushed", "full", "got", "empty"}
  OBVIOUS
<1> HIDE DEF n, r
<1>5. TypeOK'
  <2>1. /\ pc' \in [Threads -> Labels] /\ hand' \in [Threads -> Seq(Tasks)]
        /\ head' \in [Threads -> Nat] /\ tail' \in [Threads -> Nat]
        /\ out' \in [Threads -> Seq(Tasks \cup {NULL})]
        /\ res' \in [Threads -> {"none", "busy", "pushed", "full", "got", "empty"}]
    BY <1>1, <1>2, <1>3, <1>4, ReturnEffect
  <2>2. head_' \in Nat /\ tail_' = tail_ /\ buffer_' = buffer_ /\ arg' = arg
    BY <1>2, <1>3
  <2> QED BY <1>1, <2>1, <2>2 DEF TypeOK
<1>6. /\ \A u \in Threads \ {t} : Same(u)
      /\ pc'[t] = "idle" /\ res'[t] # "busy" /\ head'[t] = 0 /\ tail'[t] = 0 /\ out'[t] = << >>
  BY <1>1, <1>2, <1>3, <1>4, ReturnEffect DEF r
<1>7. \A i : At(i)' = At(i)
  BY <1>2 DEF At, Mod
<1>8. Window'
  BY <1>1, <1>2, <1>3, <1>7, WSAssumption, SMTT(30) DEF Window
<1>9. PushOK'
  BY <1>1, <1>2, <1>6, <1>7, KeepsPush DEF PushPcs
<1>10. ThreadOK(t)' /\ SnapshotOf(t)'
  BY <1>2, <1>3, <1>6, WSAssumption DEF ThreadOK, MoreToCopy, SnapshotOf
<1> QED BY <1>2, <1>3, <1>5, <1>6, <1>7, <1>8, <1>9, <1>10, StepOfThread

-----------------------------------------------------------------------------
(* WSInv is an inductive invariant.                                        *)

LEMMA StutterInv == WSInv /\ UNCHANGED vars => WSInv'
  BY DEF WSInv, vars, TypeOK, Window, LocalsOK, ThreadOK, PushOK, MoreToCopy, Snapshot,
     SnapshotOf, At, Mod

LEMMA StepInv == WSInv /\ [Next]_vars => WSInv'
<1> SUFFICES ASSUME WSInv, Next PROVE WSInv'
  BY StutterInv
<1>1. CASE \E task \in Unlinked : TryPush(task)
  BY <1>1, TryPushInv
<1>2. CASE TryPop
  BY <1>2, TryPopInv
<1>3. CASE OwnerStep
  BY <1>3, PushFullInv, PushRoomInv, PushStoreSlotInv, PushStoreTailInv, PopLoadHeadInv,
     PopEmptyInv, PopNonEmptyInv, PopLoadSlotInv DEF OwnerStep
<1>4. CASE PopCas
  BY <1>4, OwnerIsThread, CommitInv DEF PopCas
<1>7. CASE PopCasFails
  <2>1. pc[Owner] = "pop_cas" /\ CasFails(Owner, "pop_head")
    BY <1>7 DEF PopCasFails
  <2> QED BY <2>1, OwnerIsThread, CasFailsInv
<1>5. ASSUME NEW t \in Threads, Grab(t) \/ GrabStep(t) \/ RunTasks(t) PROVE WSInv'
  BY <1>5, GrabInv, GrabLoadHeadInv, GrabLoadTailInv, GrabLoadSlotInv,
     RunTasksInv DEF GrabStep
<1>6. ASSUME NEW t \in Threads, GrabCas(t) \/ GrabCasFails(t) PROVE WSInv'
  BY <1>6, CommitInv, CasFailsInv DEF GrabCas, GrabCasFails
<1> QED BY <1>1, <1>2, <1>3, <1>4, <1>5, <1>6, <1>7 DEF Next

\* TypeOK and the inductive invariant hold in every behaviour of the ring buffer:
\* it never holds more than Capacity tasks, TryPush never overwrites a live slot,
\* and the tasks an operation has copied are the front of the queue for as long as
\* its CAS can succeed.
THEOREM Safety == Spec => []WSInv
<1> QED BY InitInv, StepInv, PTL DEF Spec

-----------------------------------------------------------------------------
(* Exclusive: no task is in two places.                                    *)

ExclusiveInv == Exclusive /\ ArgUnlinked

LEMMA InitExclusive == Init => ExclusiveInv
  BY DEF Init, ExclusiveInv, Exclusive, ArgUnlinked

\* A step that adds no task to the queue, to a hand or to a push keeps it.
LEMMA KeepsExclusive ==
  ASSUME ExclusiveInv, head_' = head_, tail_' = tail_,
     \A i \in head_ .. tail_ - 1 : At(i)' = At(i),
         \A t \in Threads : hand'[t] = hand[t] \/ hand'[t] = << >>,
         arg' = arg \/ arg' = NULL
  PROVE  ExclusiveInv'
  BY DEF ExclusiveInv, Exclusive, ArgUnlinked

LEMMA TryPushExclusive ==
  ASSUME ExclusiveInv, NEW task \in Unlinked, TryPush(task) PROVE ExclusiveInv'
<1>1. /\ head_' = head_ /\ tail_' = tail_ /\ hand' = hand /\ arg' = task /\ \A i : At(i)' = At(i)
  BY DEF TryPush, shared, At, Mod
<1> QED BY <1>1 DEF ExclusiveInv, Exclusive, ArgUnlinked, Unlinked

LEMMA PushStoreTailExclusive ==
  ASSUME WSInv, ExclusiveInv, PushStoreTail PROVE ExclusiveInv'
<1>1. TypeOK /\ Window /\ PushOK /\ ThreadOK(Owner)
  BY OwnerIsThread DEF WSInv, LocalsOK
<1>2. /\ pc[Owner] = "push_tail" /\ Return(Owner, "pushed", << >>) /\ arg' = NULL
      /\ tail[Owner] = tail_ /\ arg \in Tasks /\ At(tail_) = arg
      /\ head_ \in Nat /\ tail_ \in Nat /\ arg # NULL
  BY <1>1, OwnerIsThread, WSAssumption DEF PushStoreTail, PushOK, PushPcs, ThreadOK,
     TypeOK
<1>3. head_' = head_ /\ tail_' = tail_ + 1 /\ \A i : At(i)' = At(i)
  BY <1>2 DEF PushStoreTail, At, Mod
<1>4. \A u \in Threads : hand'[u] = hand[u] \/ hand'[u] = << >>
  BY <1>1, <1>2, OwnerIsThread, ReturnEffect, EmptyTyped DEF Same
<1>5. /\ \A i \in head_ .. tail_ - 1 : At(i) # At(tail_)
      /\ \A u \in Threads : \A k \in DOMAIN hand[u] : hand[u][k] # At(tail_)
  BY <1>2 DEF ExclusiveInv, ArgUnlinked
<1>6. \A i \in head_ .. tail_' - 1 : i \in head_ .. tail_ - 1 \/ i = tail_
  BY <1>2, <1>3
<1>7. \A i, j \in head_' .. tail_' - 1 : i # j => At(i)' # At(j)'
  BY <1>3, <1>5, <1>6 DEF ExclusiveInv, Exclusive
<1>8. \A u \in Threads : \A k \in DOMAIN hand'[u] :
        \A i \in head_' .. tail_' - 1 : hand'[u][k] # At(i)'
  BY <1>3, <1>4, <1>5, <1>6 DEF ExclusiveInv, Exclusive
<1>9. \A t, u \in Threads : \A k \in DOMAIN hand'[t], m \in DOMAIN hand'[u] :
        hand'[t][k] = hand'[u][m] => t = u /\ k = m
  BY <1>4 DEF ExclusiveInv, Exclusive
<1> QED BY <1>2, <1>7, <1>8, <1>9 DEF ExclusiveInv, Exclusive, ArgUnlinked

LEMMA CommitExclusive ==
  ASSUME WSInv, ExclusiveInv, NEW t \in Threads, pc[t] \in {"pop_cas", "grab_cas"},
     Commit(t)
  PROVE  ExclusiveInv'
<1> DEFINE n == Len(out[t])
           r == IF out[t] = << >> THEN "empty" ELSE "got"
<1>1. TypeOK
  BY DEF WSInv
<1>2. /\ head_ = head[t] /\ head_' = head_ + n /\ tail_' = tail_
      /\ arg' = arg /\ Return(t, r, out[t]) /\ \A i : At(i)' = At(i)
  BY DEF Commit, At, Mod
<1>3. /\ n \in Nat /\ head_ + n <= tail_ /\ out[t] \in Seq(Tasks) /\ head_ \in Nat /\ tail_ \in Nat
      /\ DOMAIN out[t] = 1 .. n /\ \A k \in 1 .. n : out[t][k] = At(head_ + k - 1)
  BY <1>1, <1>2, CommitTakesFront DEF TypeOK
<1>4. r \in {"pushed", "full", "got", "empty"}
  OBVIOUS
<1> HIDE DEF n, r
<1>5. hand'[t] = out[t] /\ \A u \in Threads \ {t} : hand'[u] = hand[u]
  BY <1>1, <1>2, <1>3, <1>4, ReturnEffect DEF Same
\* the taken tasks are those at the indices head_ .. head_ + n - 1
<1>6. \A k \in DOMAIN hand'[t] : /\ head_ + k - 1 \in head_ .. tail_ - 1
                                 /\ head_ + k - 1 \notin head_' .. tail_' - 1
                                 /\ hand'[t][k] = At(head_ + k - 1)
  <2> SUFFICES ASSUME NEW k \in 1 .. n
               PROVE  /\ head_ + k - 1 \in head_ .. tail_ - 1
                      /\ head_ + k - 1 \notin head_' .. tail_' - 1
                      /\ out[t][k] = At(head_ + k - 1)
    BY <1>3, <1>5
  <2>1. out[t][k] = At(head_ + k - 1)
    BY <1>3
  <2>2. head_ \in Nat /\ n \in Nat /\ head_ + n <= tail_ /\ tail_ \in Nat /\ head_' = head_ + n
    BY <1>2, <1>3
  <2> QED BY <2>1, <2>2
<1>7. \A i \in head_' .. tail_' - 1 : i \in head_ .. tail_ - 1
  BY <1>2, <1>3
<1>8. \A i, j \in head_' .. tail_' - 1 : i # j => At(i)' # At(j)'
  BY <1>2, <1>7 DEF ExclusiveInv, Exclusive
<1>9. \A u \in Threads : \A k \in DOMAIN hand'[u] :
        \A i \in head_' .. tail_' - 1 : hand'[u][k] # At(i)'
  BY <1>2, <1>5, <1>6, <1>7 DEF ExclusiveInv, Exclusive
<1>10. \A u \in Threads : \A k \in DOMAIN hand'[t], m \in DOMAIN hand'[u] :
         hand'[t][k] = hand'[u][m] => u = t /\ k = m
  <2>1. \A k, m \in DOMAIN hand'[t] : k # m => head_ + k - 1 # head_ + m - 1
    BY <1>3, <1>5
  <2>2. \A k, m \in DOMAIN hand'[t] : hand'[t][k] = hand'[t][m] => k = m
    BY <1>6, <2>1 DEF ExclusiveInv, Exclusive
  <2>3. \A u \in Threads \ {t} : \A k \in DOMAIN hand'[t], m \in DOMAIN hand'[u] :
          hand'[t][k] # hand'[u][m]
    BY <1>5, <1>6 DEF ExclusiveInv, Exclusive
  <2> QED BY <2>2, <2>3
<1>11. \A u, v \in Threads : \A k \in DOMAIN hand'[u], m \in DOMAIN hand'[v] :
         hand'[u][k] = hand'[v][m] => u = v /\ k = m
  BY <1>5, <1>10 DEF ExclusiveInv, Exclusive
<1>12. ArgUnlinked'
  BY <1>2, <1>5, <1>6, <1>7 DEF ExclusiveInv, ArgUnlinked
<1> QED BY <1>8, <1>9, <1>11, <1>12 DEF ExclusiveInv, Exclusive

LEMMA OtherStepsExclusive ==
  ASSUME WSInv, ExclusiveInv,
         \/ TryPop \/ PushLoadHead \/ PushStoreSlot \/ PopLoadHead \/ PopLoadTail \/ PopLoadSlot
         \/ PopCasFails
         \/ \E t \in Threads : Grab(t) \/ GrabStep(t) \/ GrabCasFails(t) \/ RunTasks(t)
  PROVE  ExclusiveInv'
<1> USE DEF shared, client
<1>1. TypeOK
  BY DEF WSInv
<1>2. \A t \in Threads : (hand' = [hand EXCEPT ![t] = << >>]) =>
         \A u \in Threads : hand'[u] = hand[u] \/ hand'[u] = << >>
  BY <1>1 DEF TypeOK
<1>3. CASE PushStoreSlot
  BY <1>3, PushStoreSlotEffect, KeepsExclusive
<1>4. CASE PushLoadHead \/ PopLoadTail
  <2>1. UNCHANGED shared /\ (arg' = arg \/ arg' = NULL)
        /\ (hand' = hand \/ hand' = [hand EXCEPT ![Owner] = << >>])
    BY <1>4 DEF PushLoadHead, PopLoadTail, Return
  <2>2. head_' = head_ /\ tail_' = tail_ /\ \A i : At(i)' = At(i)
    BY <2>1 DEF At, Mod
  <2> QED BY <1>2, <2>1, <2>2, OwnerIsThread, KeepsExclusive
<1>5. CASE TryPop \/ PopLoadHead \/ PopLoadSlot \/ PopCasFails
  <2>1. UNCHANGED shared /\ arg' = arg /\ hand' = hand
    BY <1>5 DEF TryPop, PopLoadHead, PopLoadSlot, PopCasFails, CasFails
  <2>2. head_' = head_ /\ tail_' = tail_ /\ \A i : At(i)' = At(i)
    BY <2>1 DEF At, Mod
  <2> QED BY <2>1, <2>2, KeepsExclusive
<1>6. ASSUME NEW t \in Threads, Grab(t) \/ GrabStep(t) \/ GrabCasFails(t) \/ RunTasks(t)
      PROVE  ExclusiveInv'
  <2>1. UNCHANGED shared /\ arg' = arg /\ (hand' = hand \/ hand' = [hand EXCEPT ![t] = << >>])
    BY <1>6 DEF Grab, GrabStep, GrabLoadHead, GrabLoadTail, GrabLoadSlot, GrabCasFails,
                CasFails, RunTasks
  <2>2. head_' = head_ /\ tail_' = tail_ /\ \A i : At(i)' = At(i)
    BY <2>1 DEF At, Mod
  <2> QED BY <1>2, <2>1, <2>2, KeepsExclusive
<1> QED BY <1>3, <1>4, <1>5, <1>6

LEMMA StepExclusive == WSInv /\ ExclusiveInv /\ [Next]_vars => ExclusiveInv'
<1> SUFFICES ASSUME WSInv, ExclusiveInv, [Next]_vars PROVE ExclusiveInv'
  OBVIOUS
<1>1. CASE UNCHANGED vars
  BY <1>1 DEF vars, ExclusiveInv, Exclusive, ArgUnlinked, At, Mod
<1>2. CASE Next
  <2>1. CASE \E task \in Unlinked : TryPush(task)
    BY <2>1, TryPushExclusive
  <2>2. CASE PushStoreTail
    BY <2>2, PushStoreTailExclusive
  <2>3. CASE PopCas \/ \E t \in Threads : GrabCas(t)
    BY <2>3, OwnerIsThread, CommitExclusive DEF PopCas, GrabCas
  <2> QED BY <1>2, <2>1, <2>2, <2>3, OtherStepsExclusive DEF Next, OwnerStep
<1> QED BY <1>1, <1>2

\* In every behaviour, no task is in two slots, in two hands, or in both: the owner
\* and the thieves never run the same task.
THEOREM NoTaskTwice == Spec => []Exclusive
<1>1. ExclusiveInv => Exclusive
  BY DEF ExclusiveInv
<1> QED BY <1>1, InitInv, StepInv, InitExclusive, StepExclusive, PTL DEF Spec

-----------------------------------------------------------------------------
(* The ring buffer implements TaskQueue.                                   *)

LEMMA QueueIsSeq ==
  ASSUME TypeOK, Window
  PROVE  /\ Queue \in Seq(Tasks) /\ Len(Queue) = tail_ - head_
         /\ \A k \in 1 .. Len(Queue) : Queue[k] = At(head_ + k - 1)
<1>1. head_ \in Nat /\ tail_ \in Nat /\ tail_ - head_ \in Nat
  BY DEF TypeOK, Window
<1>2. \A k \in 1 .. (tail_ - head_) : At(head_ + k - 1) \in Tasks
  <2> SUFFICES ASSUME NEW k \in 1 .. (tail_ - head_)
     PROVE head_ + k - 1 \in head_ .. tail_ - 1
    BY DEF Window
  <2> QED BY <1>1
<1> QED BY <1>1, <1>2 DEF Queue

LEMMA QueueKept ==
  ASSUME TypeOK, head_' = head_, tail_' = tail_,
     \A i \in head_ .. tail_ - 1 : At(i)' = At(i)
  PROVE  Queue' = Queue
<1>1. \A k \in 1 .. (tail_ - head_) : At(head_ + k - 1)' = At(head_ + k - 1)
  <2> SUFFICES ASSUME NEW k \in 1 .. (tail_ - head_)
     PROVE head_ + k - 1 \in head_ .. tail_ - 1
    OBVIOUS
  <2> QED BY DEF TypeOK
<1> QED BY <1>1 DEF Queue

\* Seen changes only with pc and out.
LEMMA SeenKept ==
  ASSUME NEW t \in Threads, TypeOK, \A u \in Threads \ {t} : Same(u),
         (pc'[t] = "grab_cas" /\ out'[t] = << >>) <=> (pc[t] = "grab_cas" /\ out[t] = << >>)
  PROVE  Seen' = Seen
  BY DEF Seen, Same

LEMMA SeenSet ==
  ASSUME NEW t \in Threads, TypeOK, \A u \in Threads \ {t} : Same(u)
  PROVE  Seen' = [Seen EXCEPT ![t] = (pc'[t] = "grab_cas" /\ out'[t] = << >>)]
  BY DEF Seen, Same

LEMMA SharedKept == UNCHANGED shared /\ TypeOK => Queue' = Queue
  BY QueueKept DEF shared, At, Mod

LEMMA EmptyQueue ==
  ASSUME TypeOK, Window PROVE head_ = tail_ <=> Queue = << >>
<1>1. Queue \in Seq(Tasks) /\ Len(Queue) = tail_ - head_ /\ head_ \in Nat /\ tail_ \in Nat
  BY QueueIsSeq DEF TypeOK
<1>2. Len(Queue) = 0 <=> Queue = << >>
  BY <1>1, EmptySeq
<1> QED BY <1>1, <1>2

LEMMA InitRefines == Init => TQ!Init
<1> SUFFICES ASSUME Init PROVE TQ!Init
  OBVIOUS
<1>1. Queue = << >>
  BY InitInv, EmptyQueue DEF Init, WSInv
<1>2. Seen = [t \in Threads |-> FALSE]
  BY DEF Init, Seen
<1> QED BY <1>1, <1>2 DEF Init, TQ!Init, TQ!Threads, Threads

LEMMA BeginRefines ==
  ASSUME WSInv, NEW t \in Threads,
         \/ t = Owner /\ (TryPop \/ \E task \in Unlinked : TryPush(task))
         \/ Grab(t)
  PROVE  TQ!Next
<1> USE DEF shared
<1>1. TypeOK /\ ThreadOK(t)
  BY DEF WSInv, LocalsOK
<1>2. /\ UNCHANGED shared /\ UNCHANGED <<out, hand>> /\ pc[t] = "idle" /\ out[t] = << >>
      /\ res[t] # "busy" /\ res' = [res EXCEPT ![t] = "busy"] /\ hand[t] = << >>
      /\ pc' \in {[pc EXCEPT ![t] = l] : l \in {"push_head", "pop_head", "grab_head"}}
  BY <1>1 DEF TryPush, TryPop, Grab, Call, Goto, ThreadOK
<1>3. Queue' = Queue
  BY <1>1, <1>2, SharedKept
<1>4. Seen' = Seen
  BY <1>1, <1>2 DEF Seen, TypeOK
<1>5. CASE arg' = arg
  <2>1. TQ!BeginTake(t)
    BY <1>2, <1>3, <1>4, <1>5 DEF TQ!BeginTake
  <2> QED BY <2>1 DEF TQ!Next, TQ!Threads, Threads
<1>6. CASE t = Owner /\ \E task \in Unlinked : TryPush(task)
  <2>1. PICK task \in Unlinked : TryPush(task)
    BY <1>6
  <2>2. TQ!BeginPush(task) /\ task \in Tasks
    BY <1>2, <1>3, <1>4, <1>6, <2>1 DEF TQ!BeginPush, TryPush, Unlinked
  <2> QED BY <2>2 DEF TQ!Next
<1> QED BY <1>5, <1>6 DEF TryPop, Grab

LEMMA PushFullRefines ==
  ASSUME WSInv, PushLoadHead, IsFull(head_, tail[Owner]) PROVE TQ!Next
<1>1. TypeOK /\ Window /\ PushOK /\ ThreadOK(Owner)
  BY OwnerIsThread DEF WSInv, LocalsOK
<1>2. /\ pc[Owner] = "push_head" /\ Return(Owner, "full", << >>)
      /\ arg' = NULL /\ UNCHANGED shared
      /\ arg \in Tasks /\ arg # NULL /\ tail[Owner] = tail_ /\ hand[Owner] = << >>
      /\ out[Owner] = << >> /\ res[Owner] = "busy"
  BY <1>1, WSAssumption DEF PushLoadHead, PushOK, PushPcs, ThreadOK
<1>3. Queue' = Queue
  BY <1>1, <1>2, SharedKept
<1>4. Seen' = Seen
  BY <1>1, <1>2, OwnerIsThread, SeenKept, ReturnEffect, EmptyTyped
<1>5. Len(Queue) = Capacity
  BY <1>1, <1>2, QueueIsSeq, WSAssumption, SMTT(30) DEF IsFull, Window, TypeOK
<1>6. hand' = hand
  BY <1>1, <1>2, OwnerIsThread DEF Return, TypeOK
<1>7. TQ!Full
  BY <1>2, <1>3, <1>4, <1>5, <1>6 DEF TQ!Full, TQ!Returns, Return
<1> QED BY <1>7 DEF TQ!Next

LEMMA AppendIs ==
  ASSUME NEW S, NEW s \in Seq(S), NEW e \in S, NEW q \in Seq(S), Len(q) = Len(s) + 1,
         \A k \in 1 .. Len(s) + 1 : q[k] = IF k = Len(s) + 1 THEN e ELSE s[k]
  PROVE  q = Append(s, e)
<1>1. /\ Append(s, e) \in Seq(S) /\ Len(Append(s, e)) = Len(s) + 1 /\ Len(s) \in Nat
      /\ Append(s, e)[Len(s) + 1] = e /\ \A k \in 1 .. Len(s) : Append(s, e)[k] = s[k]
  OBVIOUS
<1>2. \A k \in 1 .. Len(q) : q[k] = Append(s, e)[k]
  <2> SUFFICES ASSUME NEW k \in 1 .. Len(s) + 1 PROVE q[k] = Append(s, e)[k]
    OBVIOUS
  <2>1. k = Len(s) + 1 \/ k \in 1 .. Len(s)
    BY <1>1
  <2> QED BY <1>1, <2>1
<1> QED BY <1>1, <1>2, SeqEqual

LEMMA PushRefines ==
  ASSUME WSInv, PushStoreTail PROVE TQ!Next
<1>1. TypeOK /\ Window /\ PushOK /\ ThreadOK(Owner)
  BY OwnerIsThread DEF WSInv, LocalsOK
<1>2. /\ pc[Owner] = "push_tail" /\ Return(Owner, "pushed", << >>) /\ arg' = NULL
      /\ tail[Owner] = tail_ /\ arg \in Tasks /\ arg # NULL /\ tail_ < head[Owner] + Capacity
      /\ At(tail_) = arg /\ head[Owner] <= head_ /\ head_ \in Nat /\ tail_ \in Nat
      /\ head[Owner] \in Nat /\ hand[Owner] = << >> /\ out[Owner] = << >> /\ res[Owner] = "busy"
  BY <1>1, OwnerIsThread, WSAssumption DEF PushStoreTail, PushOK, PushPcs, ThreadOK,
     TypeOK
<1>3. head_' = head_ /\ tail_' = tail_ + 1 /\ buffer_' = buffer_
  BY <1>2 DEF PushStoreTail
<1>4. /\ Queue \in Seq(Tasks) /\ Len(Queue) = tail_ - head_
      /\ \A k \in 1 .. Len(Queue) : Queue[k] = At(head_ + k - 1)
  BY <1>1, QueueIsSeq
<1>6. Queue' \in Seq(Tasks) /\ Len(Queue') = Len(Queue) + 1
      /\ \A k \in 1 .. Len(Queue) + 1 : Queue'[k] = IF k = Len(Queue) + 1 THEN arg ELSE Queue[k]
  <2> DEFINE n == Len(Queue) + 1
  <2>1. n \in Nat /\ n = tail_' - head_'
    BY <1>2, <1>3, <1>4
  <2>2. DOMAIN Queue' = 1 .. n /\ \A k \in 1 .. n : Queue'[k] = At(head_ + k - 1)'
    BY <2>1 DEF Queue
  <2>3. ASSUME NEW k \in 1 .. n
        PROVE  At(head_ + k - 1)' = IF k = Len(Queue) + 1 THEN arg ELSE Queue[k]
    <3>1. At(head_ + k - 1)' = At(head_ + k - 1)
      BY <1>3 DEF At, Mod
    <3>2. CASE k = Len(Queue) + 1
      <4>1. head_ + k - 1 = tail_
        BY <1>2, <1>4, <3>2
      <4> QED BY <1>2, <3>1, <3>2, <4>1
    <3>3. CASE k # Len(Queue) + 1
      <4>1. k \in 1 .. Len(Queue)
        BY <1>4, <2>1, <3>3
      <4> QED BY <1>4, <3>1, <3>3, <4>1
    <3> QED BY <3>2, <3>3
  <2>4. \A k \in 1 .. n : Queue'[k] \in Tasks
    <3> SUFFICES ASSUME NEW k \in 1 .. n PROVE Queue'[k] \in Tasks
      OBVIOUS
    <3>1. k = Len(Queue) + 1 \/ k \in 1 .. Len(Queue)
      BY <1>4
    <3> QED BY <1>2, <1>4, <2>2, <2>3, <3>1, ElementOfSeq
  <2>5. Queue' = [k \in 1 .. n |-> Queue'[k]]
    BY <2>2 DEF Queue
  <2> HIDE DEF n
  <2>6. Queue' \in Seq(Tasks) /\ Len(Queue') = n
    BY <2>1, <2>4, <2>5
  <2> QED BY <2>2, <2>3, <2>6 DEF n
<1>7. Queue' = Append(Queue, arg)
  BY <1>2, <1>4, <1>6, AppendIs
<1>8. Seen' = Seen
  BY <1>1, <1>2, OwnerIsThread, SeenKept, ReturnEffect, EmptyTyped
<1>9. hand' = hand
  BY <1>1, <1>2, OwnerIsThread DEF Return, TypeOK
<1>10. Len(Queue) < Capacity
  BY <1>2, <1>4, WSAssumption
<1>11. TQ!Push
  BY <1>2, <1>7, <1>8, <1>9, <1>10 DEF TQ!Push, TQ!Returns, Return
<1> QED BY <1>11 DEF TQ!Next

LEMMA TakeRefines ==
  ASSUME WSInv, NEW t \in Threads, pc[t] \in {"pop_cas", "grab_cas"}, Commit(t),
     out[t] # << >>
  PROVE  TQ!Next
<1> DEFINE n == Len(out[t])
<1>1. TypeOK /\ Window /\ PushOK /\ ThreadOK(t)
  BY DEF WSInv, LocalsOK
<1>2. /\ head_ = head[t] /\ head_' = head_ + n /\ tail_' = tail_ /\ buffer_' = buffer_
      /\ arg' = arg /\ Return(t, "got", out[t]) /\ res[t] = "busy"
  BY <1>1 DEF Commit, ThreadOK
<1>3. /\ n \in Nat \ {0} /\ n <= GrabAmount /\ head_ + n <= tail_ /\ out[t] \in Seq(Tasks)
      /\ head_ \in Nat /\ tail_ \in Nat /\ \A k \in 1 .. n : out[t][k] = At(head_ + k - 1)
  BY <1>1, <1>2, CommitTakesFront, EmptySeq DEF TypeOK, ThreadOK
<1> HIDE DEF n
<1>4. /\ Queue \in Seq(Tasks) /\ Len(Queue) = tail_ - head_
      /\ \A k \in 1 .. Len(Queue) : Queue[k] = At(head_ + k - 1)
  BY <1>1, QueueIsSeq
<1>12. /\ n \in Nat /\ n >= 1 /\ Len(Queue) \in Nat /\ n <= Len(Queue)
      /\ Len(Queue) = tail_ - head_ /\ head_ \in Nat /\ tail_ \in Nat
  BY <1>3, <1>4
<1>5. out[t] = SubSeq(Queue, 1, n)
  <2>1. \A k \in 1 .. n : Queue[k] = out[t][k] /\ Queue[k] \in Tasks
    <3> SUFFICES ASSUME NEW k \in 1 .. n
       PROVE Queue[k] = out[t][k] /\ Queue[k] \in Tasks
      OBVIOUS
    <3>1. k \in 1 .. Len(Queue)
      BY <1>3, <1>4
    <3> QED BY <1>3, <1>4, <3>1, ElementOfSeq
  <2>2. /\ SubSeq(Queue, 1, n) \in Seq(Tasks) /\ Len(SubSeq(Queue, 1, n)) = n
        /\ \A k \in 1 .. n : SubSeq(Queue, 1, n)[k] = Queue[k]
    BY <1>3, <2>1, SubSeqProperties
  <2>3. Len(out[t]) = Len(SubSeq(Queue, 1, n))
    BY <2>2 DEF n
  <2>4. \A k \in 1 .. Len(out[t]) : out[t][k] = SubSeq(Queue, 1, n)[k]
    BY <2>1, <2>2 DEF n
  <2> QED BY <1>3, <2>2, <2>3, <2>4, SeqEqual
<1>6. Queue' = SubSeq(Queue, n + 1, Len(Queue))
  <2> DEFINE m == Len(Queue) - n
             s == SubSeq(Queue, n + 1, Len(Queue))
  <2>1. m \in Nat /\ m = tail_' - head_'
    BY <1>2, <1>12
  <2>2. DOMAIN Queue' = 1 .. m /\ \A k \in 1 .. m : Queue'[k] = At(head_ + n + k - 1)
    BY <1>2, <2>1 DEF Queue, At, Mod
  <2>3. \A k \in 1 .. m : n + k \in 1 .. Len(Queue) /\ head_ + (n + k) - 1 = head_ + n + k - 1
    <3> SUFFICES ASSUME NEW k \in 1 .. m
                 PROVE  n + k \in 1 .. Len(Queue) /\ head_ + (n + k) - 1 = head_ + n + k - 1
      OBVIOUS
    <3> QED BY <1>12, <2>1
  <2>4. \A k \in 1 .. m : Queue'[k] = Queue[n + k]
    BY <1>4, <2>2, <2>3
  <2>5. \A k \in n + 1 .. Len(Queue) : Queue[k] \in Tasks
    <3> SUFFICES ASSUME NEW k \in n + 1 .. Len(Queue) PROVE k \in 1 .. Len(Queue)
      BY <1>4, ElementOfSeq
    <3> QED BY <1>3, <1>4
  <2>6. /\ s \in Seq(Tasks) /\ Len(s) = m /\ \A k \in 1 .. m : s[k] = Queue[n + k]
    <3>1. Len(Queue) \in Int /\ n + 1 \in Int /\ Len(Queue) - (n + 1) + 1 = m
          /\ \A k \in 1 .. m : (n + 1) + k - 1 = n + k
      BY <1>3, <1>4
    <3>2. /\ s \in Seq(Tasks) /\ Len(s) = IF n + 1 <= Len(Queue) THEN Len(Queue) - (n + 1) + 1 ELSE 0
          /\ \A k \in 1 .. (Len(Queue) - (n + 1) + 1) : s[k] = Queue[(n + 1) + k - 1]
      BY <2>5, <3>1, SubSeqProperties
    <3> QED BY <1>3, <1>4, <2>1, <3>1, <3>2
  <2>7. Queue' = [k \in 1 .. m |-> Queue'[k]]
    BY <2>2 DEF Queue
  <2> HIDE DEF m
  <2>8. s = [k \in 1 .. m |-> s[k]]
    BY <2>1, <2>6
  <2> QED BY <2>4, <2>6, <2>7, <2>8
<1>7. Seen' = Seen
  BY <1>1, <1>2, <1>3, SeenKept, ReturnEffect
<1>8. /\ hand' = [hand EXCEPT ![t] = SubSeq(Queue, 1, n)]
      /\ res' = [res EXCEPT ![t] = "got"]
  BY <1>2, <1>5 DEF Return
<1>9. t = Owner => arg = NULL
  BY <1>1 DEF PushOK, PushPcs
<1>10. n \in 1 .. GrabAmount /\ n <= Len(Queue)
  BY <1>3, <1>4, WSAssumption
<1>11. TQ!Take(t, n)
  BY <1>2, <1>6, <1>7, <1>8, <1>9, <1>10 DEF TQ!Take, TQ!Returns
<1> QED BY <1>10, <1>11 DEF TQ!Next, TQ!Threads, Threads

\* Commit of an empty copy, and the "empty" exit of TryPop.
LEMMA EmptyRefines ==
  ASSUME WSInv, NEW t \in Threads,
         \/ pc[t] = "grab_cas" /\ Commit(t) /\ out[t] = << >>
         \/ t = Owner /\ PopLoadTail /\ head[Owner] = tail_
  PROVE  TQ!Next
<1>1. TypeOK /\ Window /\ PushOK /\ ThreadOK(t)
  BY DEF WSInv, LocalsOK
<1>2. /\ UNCHANGED shared /\ arg' = arg /\ Return(t, "empty", << >>) /\ res[t] = "busy"
      /\ hand[t] = << >> /\ out[t] = << >> /\ pc[t] \in {"grab_cas", "pop_tail"}
  <2>1. CASE pc[t] = "grab_cas" /\ Commit(t) /\ out[t] = << >>
    <3>1. Len(out[t]) = 0 /\ head_ = head[t] /\ head_ \in Nat
      BY <1>1, <2>1 DEF Commit, TypeOK
    <3> QED BY <1>1, <2>1, <3>1 DEF Commit, ThreadOK, shared
  <2>2. CASE t = Owner /\ PopLoadTail /\ head[Owner] = tail_
    BY <1>1, <2>2 DEF PopLoadTail, ThreadOK
  <2> QED BY <2>1, <2>2
<1>3. Queue = << >> \/ Seen[t]
  <2>1. CASE pc[t] = "grab_cas"
    BY <1>2, <2>1 DEF Seen
  <2>2. CASE pc[t] # "grab_cas"
    <3>1. head[t] = tail_
      BY <2>2 DEF PopLoadTail
    <3>2. head_ = tail_
      BY <1>1, <3>1 DEF Window, ThreadOK, TypeOK
    <3> QED BY <1>1, <3>2, EmptyQueue
  <2> QED BY <2>1, <2>2
<1>4. Queue' = Queue
  BY <1>1, <1>2, SharedKept
<1>5. Seen' = [Seen EXCEPT ![t] = FALSE]
  BY <1>1, <1>2, SeenSet, ReturnEffect, EmptyTyped
<1>6. hand' = hand
  BY <1>1, <1>2 DEF Return, TypeOK
<1>7. t = Owner => arg = NULL
  BY <1>1, <1>2 DEF PushOK, PushPcs
<1>8. TQ!Empty(t)
  BY <1>2, <1>3, <1>4, <1>5, <1>6, <1>7 DEF TQ!Empty, TQ!Returns, Return
<1> QED BY <1>8 DEF TQ!Next, TQ!Threads, Threads

\* A Grab that loads tail_ and copies nothing has seen an empty queue.
LEMMA GrabLoadTailRefines ==
  ASSUME WSInv, NEW t \in Threads, GrabLoadTail(t) PROVE TQ!Next \/ UNCHANGED TQ!vars
<1>1. TypeOK /\ Window /\ ThreadOK(t)
  BY DEF WSInv, LocalsOK
<1>2. /\ UNCHANGED shared /\ UNCHANGED <<arg, hand, res, out>> /\ res[t] = "busy"
      /\ pc[t] = "grab_tail" /\ out[t] = << >>
      /\ pc' = [pc EXCEPT ![t] = IF MoreToCopy(t, 0,
         tail_) THEN "grab_slot" ELSE "grab_cas"]
  BY <1>1 DEF GrabLoadTail, Goto, ThreadOK, client
<1>3. Queue' = Queue
  BY <1>1, <1>2, SharedKept
<1>4. CASE MoreToCopy(t, 0, tail_)
  <2>1. Seen' = Seen
    BY <1>1, <1>2, <1>4 DEF Seen, TypeOK
  <2> QED BY <1>2, <1>3, <2>1 DEF TQ!vars
<1>5. CASE ~ MoreToCopy(t, 0, tail_)
  <2>1. Seen' = [Seen EXCEPT ![t] = TRUE]
    BY <1>1, <1>2, <1>5 DEF Seen, TypeOK
  <2>2. head_ = tail_
    BY <1>1, <1>5, WSAssumption DEF MoreToCopy, Limit, ThreadOK, Window, TypeOK
  <2>3. Queue = << >>
    BY <1>1, <2>2, EmptyQueue
  <2>4. TQ!SeeEmpty(t)
    BY <1>2, <1>3, <2>1, <2>3 DEF TQ!SeeEmpty
  <2> QED BY <2>4 DEF TQ!Next, TQ!Threads, Threads
<1> QED BY <1>4, <1>5

LEMMA CasFailsRefines ==
  ASSUME WSInv, NEW t \in Threads, NEW retry, retry \in {"pop_head", "grab_head"},
         pc[t] \in {"pop_cas", "grab_cas"}, CasFails(t, retry)
  PROVE  TQ!Next
<1>1. TypeOK /\ ThreadOK(t)
  BY DEF WSInv, LocalsOK
<1>2. /\ UNCHANGED shared /\ UNCHANGED <<arg, hand, res>> /\ res[t] = "busy"
      /\ pc' = [pc EXCEPT ![t] = retry] /\ out' = [out EXCEPT ![t] = << >>]
  BY <1>1 DEF CasFails, Goto, ThreadOK, client
<1>3. Queue' = Queue
  BY <1>1, <1>2, SharedKept
<1>4. Seen' = [Seen EXCEPT ![t] = FALSE]
  BY <1>1, <1>2 DEF Seen, TypeOK
<1>5. TQ!Retry(t)
  BY <1>2, <1>3, <1>4 DEF TQ!Retry
<1> QED BY <1>5 DEF TQ!Next, TQ!Threads, Threads

LEMMA RunTasksRefines ==
  ASSUME WSInv, NEW t \in Threads, RunTasks(t) PROVE TQ!Next
<1>1. TypeOK /\ ThreadOK(t)
  BY DEF WSInv, LocalsOK
<1>2. /\ UNCHANGED shared /\ UNCHANGED <<arg, res, pc, out>> /\ res[t] # "busy"
      /\ hand' = [hand EXCEPT ![t] = << >>]
  BY <1>1 DEF RunTasks, ThreadOK
<1>3. Queue' = Queue /\ Seen' = Seen
  BY <1>1, <1>2, SharedKept DEF Seen
<1>4. TQ!Release(t)
  BY <1>2, <1>3 DEF TQ!Release
<1> QED BY <1>4 DEF TQ!Next, TQ!Threads, Threads

\* The accesses that have no effect of their own.
LEMMA QuietRefines ==
  ASSUME WSInv, NEW t \in Threads,
         \/ t = Owner /\ \/ PushLoadHead /\ ~ IsFull(head_, tail[Owner])
                         \/ PopLoadTail /\ head[Owner] # tail_
                         \/ PopLoadHead
                         \/ PopLoadSlot
         \/ GrabLoadHead(t)
         \/ GrabLoadSlot(t)
  PROVE  UNCHANGED TQ!vars
<1>1. TypeOK /\ ThreadOK(t)
  BY DEF WSInv, LocalsOK
<1>2. UNCHANGED shared /\ UNCHANGED client
  BY DEF PushLoadHead, PopLoadTail, PopLoadHead, PopLoadSlot, GrabLoadHead, GrabLoadSlot
<1>3. Queue' = Queue
  BY <1>1, <1>2, SharedKept
<1>4. \A u \in Threads : /\ pc'[u] = "grab_cas" /\ out'[u] = << >>
                            <=> pc[u] = "grab_cas" /\ out[u] = << >>
  <2>1. CASE GrabLoadSlot(t)
    <3>1. /\ pc[t] = "grab_slot" /\ Append(out[t], At(head[t] + Len(out[t]))) # << >>
          /\ out' = [out EXCEPT ![t] = Append(out[t], At(head[t] + Len(out[t])))]
          /\ \A u \in Threads \ {t} : pc'[u] = pc[u]
      BY <1>1, <2>1 DEF GrabLoadSlot, Goto, TypeOK
    <3> QED BY <1>1, <3>1 DEF TypeOK
  <2>2. CASE t = Owner /\ PopLoadSlot
    BY <1>1, <2>2 DEF PopLoadSlot, Goto, TypeOK
  <2>3. CASE \/ GrabLoadHead(t)
             \/ t = Owner /\ \/ PushLoadHead /\ ~ IsFull(head_, tail[Owner])
                             \/ PopLoadTail /\ head[Owner] # tail_
                             \/ PopLoadHead
    <3>1. /\ out' = out /\ pc[t] # "grab_cas"
          /\ pc' \in {[pc EXCEPT ![t] = l] : l \in {"push_slot", "pop_slot",
             "pop_tail", "grab_tail"}}
      BY <2>3 DEF PushLoadHead, PopLoadTail, PopLoadHead, GrabLoadHead, Goto
    <3> QED BY <1>1, <3>1 DEF TypeOK
  <2> QED BY <2>1, <2>2, <2>3
<1>5. Seen' = Seen
  BY <1>4 DEF Seen
<1> QED BY <1>2, <1>3, <1>5 DEF TQ!vars, client

LEMMA PushStoreSlotRefines ==
  ASSUME WSInv, PushStoreSlot PROVE UNCHANGED TQ!vars
<1>1. TypeOK
  BY DEF WSInv
<1>2. /\ pc[Owner] = "push_slot" /\ pc' = [pc EXCEPT ![Owner] = "push_tail"]
      /\ UNCHANGED <<head_, tail_, out, arg, hand, res>>
      /\ \A i \in head_ .. tail_ - 1 : At(i)' = At(i)
  BY PushStoreSlotEffect
<1>3. Queue' = Queue
  BY <1>1, <1>2, QueueKept
<1>4. Seen' = Seen
  BY <1>1, <1>2, OwnerIsThread DEF Seen, TypeOK
<1> QED BY <1>2, <1>3, <1>4 DEF TQ!vars

LEMMA StepRefines == WSInv /\ [Next]_vars => [TQ!Next]_TQ!vars
<1> SUFFICES ASSUME WSInv, [Next]_vars PROVE TQ!Next \/ UNCHANGED TQ!vars
  OBVIOUS
<1>1. CASE UNCHANGED vars
  BY <1>1 DEF vars, TQ!vars, Queue, Seen, At, Mod
<1>2. CASE TryPop \/ (\E task \in Unlinked : TryPush(task)) \/ \E t \in Threads : Grab(t)
  BY <1>2, OwnerIsThread, BeginRefines
<1>3. CASE OwnerStep
  BY <1>3, OwnerIsThread, PushFullRefines, PushStoreSlotRefines, PushRefines,
     EmptyRefines,
     QuietRefines DEF OwnerStep
<1>4. ASSUME NEW t \in Threads, pc[t] \in {"pop_cas", "grab_cas"}, Commit(t),
             pc[t] = "pop_cas" => t = Owner
      PROVE  TQ!Next
  <2>1. pc[t] = "pop_cas" => out[t] # << >>
    <3>1. ThreadOK(t)
      BY DEF WSInv, LocalsOK
    <3>2. Len(out[t]) = 1 => out[t] # << >>
      BY EmptySeq
    <3> QED BY <3>1, <3>2 DEF ThreadOK
  <2> QED BY <1>4, <2>1, TakeRefines, EmptyRefines
<1>5. CASE PopCas \/ \E t \in Threads : GrabCas(t)
  BY <1>4, <1>5, OwnerIsThread DEF PopCas, GrabCas
<1>6. ASSUME NEW t \in Threads, NEW retry, retry \in {"pop_head", "grab_head"},
             pc[t] \in {"pop_cas", "grab_cas"}, CasFails(t, retry)
      PROVE  TQ!Next
  BY <1>6, CasFailsRefines
<1>7. CASE PopCasFails \/ \E t \in Threads : GrabCasFails(t)
  BY <1>6, <1>7, OwnerIsThread DEF PopCasFails, GrabCasFails
<1>8. CASE \E t \in Threads : GrabStep(t) \/ RunTasks(t)
  BY <1>8, QuietRefines, GrabLoadTailRefines, RunTasksRefines DEF GrabStep
<1> QED BY <1>1, <1>2, <1>3, <1>5, <1>7, <1>8 DEF Next

\* The lock-free ring buffer implements the bounded FIFO queue: TryPush, TryPop and
\* Grab each take effect at one instant between their call and their return.
THEOREM Refinement == Spec => TQSpec
<1> QED BY InitInv, StepInv, InitRefines, StepRefines, PTL DEF Spec, TQSpec, TQ!Spec

=============================================================================

-------------------------- MODULE WorkStealingQueue --------------------------
(***************************************************************************)
(* runtime/multi_thread/v2/ws/work_stealing_queue.hpp: the lock-free ring   *)
(* buffer of tasks that every worker of the work-stealing pool owns.        *)
(*                                                                         *)
(* One step is one access to a shared atomic (all of them are seq_cst);    *)
(* the locals of an operation are functions of the thread.  Only the owner *)
(* calls TryPush and TryPop; the owner (OffloadTasksToGlobalQueue) and the *)
(* thieves (StealTasks) call Grab.  head_ and tail_ are 64-bit counters    *)
(* that only grow: MaxPushes bounds them, and they never wrap.             *)
(***************************************************************************)
EXTENDS Integers, Sequences, FiniteSets

CONSTANTS Owner, Thieves, Tasks, NULL, Capacity, GrabAmount,
  MaxPushes    \* bound: the number of successful pushes of a behaviour

ASSUME WSAssumption ==
  /\ Owner \notin Thieves
  /\ NULL \notin Tasks
  /\ Capacity \in Nat \ {0}
  /\ GrabAmount \in Nat \ {0, 1}
  /\ MaxPushes \in Nat

Threads == Thieves \cup {Owner}

VARIABLES
  buffer_,  \* the slots
  head_,    \* index of the front task
  tail_,    \* index after the back task
  pc,       \* pc[t]: the access thread t does next
  head,     \* head[t], tail[t]: the values the running operation loaded
  tail,
  out,      \* out[t]: the slots it has copied (out_buffer; one for TryPop)
  arg,      \* the argument of the running TryPush, or NULL
  hand,     \* hand[t]: the tasks handed to t, which it has not run yet
  res       \* res[t]: "busy", or the result of the last operation of t

vars == <<buffer_, head_, tail_, pc, head, tail, out, arg, hand, res>>
shared == <<buffer_, head_, tail_>>
client == <<arg, hand, res>>

Mod(num) == num % Capacity

\* The out_buffer of StealTasks has kGrabAmount slots, the one of
\* OffloadTasksToGlobalQueue kGrabAmount - 1.
Limit(t) == IF t = Owner THEN GrabAmount - 1 ELSE GrabAmount

\* The task at index i, and the tasks between head_ and tail_, front first.
At(i) == buffer_[Mod(i)]
Queue == [k \in 1 .. (tail_ - head_) |-> At(head_ + k - 1)]

\* Tasks that are in no queue: the only ones a client submits (a task is an
\* intrusive list node and is linked at most once).
Unlinked == {task \in Tasks :
  /\ \A i \in head_ .. tail_ - 1 : At(i) # task
  /\ \A t \in Threads : \A k \in DOMAIN hand[t] : hand[t][k] # task}

Init ==
  /\ buffer_ = [s \in 0 .. Capacity - 1 |-> NULL]
  /\ head_ = 0
  /\ tail_ = 0
  /\ pc = [t \in Threads |-> "idle"]
  /\ head = [t \in Threads |-> 0]
  /\ tail = [t \in Threads |-> 0]
  /\ out = [t \in Threads |-> << >>]
  /\ arg = NULL
  /\ hand = [t \in Threads |-> << >>]
  /\ res = [t \in Threads |-> "none"]

Goto(t, label) == pc' = [pc EXCEPT ![t] = label]

Call(t, label) ==
  /\ pc[t] = "idle"
  /\ Goto(t, label)
  /\ res' = [res EXCEPT ![t] = "busy"]

\* An operation returns; its dead locals are cleared.
Return(t, result, tasks) ==
  /\ Goto(t, "idle")
  /\ res' = [res EXCEPT ![t] = result]
  /\ hand' = [hand EXCEPT ![t] = tasks]
  /\ head' = [head EXCEPT ![t] = 0]
  /\ tail' = [tail EXCEPT ![t] = 0]
  /\ out' = [out EXCEPT ![t] = << >>]

-----------------------------------------------------------------------------
(* TryPush, by the owner.                                                  *)

\* tail_.load(); nobody else writes tail_.
TryPush(task) ==
  /\ Call(Owner, "push_head")
  /\ hand[Owner] = << >>
  /\ tail_ < MaxPushes
  /\ arg' = task
  /\ tail' = [tail EXCEPT ![Owner] = tail_]
  /\ UNCHANGED <<shared, head, out, hand>>

\* Mutants of IsFull: the ring takes one task too many, or one too few.
IsOverfull(h, t) == h + Capacity < t
IsNearlyFull(h, t) == h + Capacity <= t + 1

IsFull(h, t) == h + Capacity <= t

\* head_.load() and the capacity test.
PushLoadHead ==
  /\ pc[Owner] = "push_head"
  /\ \/ /\ IsFull(head_, tail[Owner])
        /\ Return(Owner, "full", << >>)
        /\ arg' = NULL
     \/ /\ ~ IsFull(head_, tail[Owner])
        /\ Goto(Owner, "push_slot")
        /\ head' = [head EXCEPT ![Owner] = head_]
        /\ UNCHANGED <<tail, out, client>>
  /\ UNCHANGED shared

PushStoreSlot ==
  /\ pc[Owner] = "push_slot"
  /\ buffer_' = [buffer_ EXCEPT ![Mod(tail[Owner])] = arg]
  /\ Goto(Owner, "push_tail")
  /\ UNCHANGED <<head_, tail_, head, tail, out, client>>

PushStoreTail ==
  /\ pc[Owner] = "push_tail"
  /\ tail_' = tail[Owner] + 1
  /\ Return(Owner, "pushed", << >>)
  /\ arg' = NULL
  /\ UNCHANGED <<buffer_, head_>>

-----------------------------------------------------------------------------
(* TryPop, by the owner.                                                   *)

TryPop ==
  /\ Call(Owner, "pop_head")
  /\ hand[Owner] = << >>
  /\ UNCHANGED <<shared, head, tail, out, arg, hand>>

PopLoadHead ==
  /\ pc[Owner] = "pop_head"
  /\ head' = [head EXCEPT ![Owner] = head_]
  /\ Goto(Owner, "pop_tail")
  /\ UNCHANGED <<shared, tail, out, client>>

\* tail_.load() and the emptiness test.
PopLoadTail ==
  /\ pc[Owner] = "pop_tail"
  /\ \/ /\ head[Owner] = tail_
        /\ Return(Owner, "empty", << >>)
        /\ UNCHANGED arg
     \/ /\ head[Owner] # tail_
        /\ tail' = [tail EXCEPT ![Owner] = tail_]
        /\ Goto(Owner, "pop_slot")
        /\ UNCHANGED <<head, out, client>>
  /\ UNCHANGED shared

PopLoadSlot ==
  /\ pc[Owner] = "pop_slot"
  /\ out' = [out EXCEPT ![Owner] = <<At(head[Owner])>>]
  /\ Goto(Owner, "pop_cas")
  /\ UNCHANGED <<shared, head, tail, client>>

\* Mutant of Commit: head_ is stored without a comparison.
CommitBlindly(t) ==
  /\ head_' = head[t] + Len(out[t])
  /\ Return(t, IF out[t] = << >> THEN "empty" ELSE "got", out[t])
  /\ UNCHANGED <<buffer_, tail_, arg>>

\* head_.compare_exchange_weak(head, desired), in TryPop and in Grab: on
\* success the copied slots belong to t.
Commit(t) ==
  /\ head_ = head[t]
  /\ head_' = head[t] + Len(out[t])
  /\ Return(t, IF out[t] = << >> THEN "empty" ELSE "got", out[t])
  /\ UNCHANGED <<buffer_, tail_, arg>>

\* The CAS fails because head_ has moved, or, being weak, for no reason.
CasFails(t, retry) ==
  /\ Goto(t, retry)
  /\ out' = [out EXCEPT ![t] = << >>]
  /\ UNCHANGED <<shared, head, tail, client>>

PopCas == pc[Owner] = "pop_cas" /\ Commit(Owner)

PopCasFails == pc[Owner] = "pop_cas" /\ CasFails(Owner, "pop_head")

-----------------------------------------------------------------------------
(* Grab, by the owner and by the thieves.                                  *)

Grab(t) ==
  /\ Call(t, "grab_head")
  /\ hand[t] = << >>
  /\ UNCHANGED <<shared, head, tail, out, arg, hand>>

GrabLoadHead(t) ==
  /\ pc[t] = "grab_head"
  /\ head' = [head EXCEPT ![t] = head_]
  /\ Goto(t, "grab_tail")
  /\ UNCHANGED <<shared, tail, out, client>>

\* The loop condition of the copy, i < tail && i - head < out_buffer.size(),
\* where i = head + n.
MoreToCopy(t, n, tl) == head[t] + n < tl /\ n < Limit(t)

GrabLoadTail(t) ==
  /\ pc[t] = "grab_tail"
  /\ tail' = [tail EXCEPT ![t] = tail_]
  /\ Goto(t, IF MoreToCopy(t, 0, tail_) THEN "grab_slot" ELSE "grab_cas")
  /\ UNCHANGED <<shared, head, out, client>>

GrabLoadSlot(t) ==
  /\ pc[t] = "grab_slot"
  /\ LET n == Len(out[t]) IN
       /\ out' = [out EXCEPT ![t] = Append(@, At(head[t] + n))]
       /\ Goto(t, IF MoreToCopy(t, n + 1, tail[t]) THEN "grab_slot" ELSE "grab_cas")
  /\ UNCHANGED <<shared, head, tail, client>>

GrabCas(t) == pc[t] = "grab_cas" /\ Commit(t)

\* Mutant of GrabCasFails: the retry does not load head_ again.
GrabRetriesStale(t) == pc[t] = "grab_cas" /\ CasFails(t, "grab_tail")

GrabCasFails(t) == pc[t] = "grab_cas" /\ CasFails(t, "grab_head")

\* The thread has run, or passed on, the tasks of its last operation.
RunTasks(t) ==
  /\ pc[t] = "idle"
  /\ hand[t] # << >>
  /\ hand' = [hand EXCEPT ![t] = << >>]
  /\ UNCHANGED <<shared, pc, head, tail, out, arg, res>>

-----------------------------------------------------------------------------
OwnerStep == PushLoadHead \/ PushStoreSlot \/ PushStoreTail
             \/ PopLoadHead \/ PopLoadTail \/ PopLoadSlot
GrabStep(t) == GrabLoadHead(t) \/ GrabLoadTail(t) \/ GrabLoadSlot(t)

Next ==
  \/ \E task \in Unlinked : TryPush(task)
  \/ TryPop
  \/ OwnerStep
  \/ PopCas
  \/ PopCasFails
  \/ \E t \in Threads :
       \/ Grab(t)
       \/ GrabStep(t)
       \/ GrabCas(t)
       \/ GrabCasFails(t)
       \/ RunTasks(t)

Spec == Init /\ [][Next]_vars

(* Every thread inside an operation keeps running, and a weak CAS does not *)
(* fail spuriously forever.                                                *)
Fairness ==
  /\ WF_vars(OwnerStep)
  /\ SF_vars(PopCas)
  /\ \A t \in Threads : WF_vars(GrabStep(t)) /\ SF_vars(GrabCas(t))
  /\ WF_vars(PopCasFails)
  /\ \A t \in Threads : WF_vars(GrabCasFails(t))

LiveSpec == Spec /\ Fairness

-----------------------------------------------------------------------------
(* Properties.                                                             *)

Labels == {"idle", "push_head", "push_slot", "push_tail",
           "pop_head", "pop_tail", "pop_slot", "pop_cas",
           "grab_head", "grab_tail", "grab_slot", "grab_cas"}

\* Every variable has its type; slots and copies hold task pointers.
TypeOK ==
  /\ buffer_ \in [0 .. Capacity - 1 -> Tasks \cup {NULL}]
  /\ head_ \in Nat
  /\ tail_ \in Nat
  /\ pc \in [Threads -> Labels]
  /\ head \in [Threads -> Nat]
  /\ tail \in [Threads -> Nat]
  /\ out \in [Threads -> Seq(Tasks \cup {NULL})]
  /\ arg \in Tasks \cup {NULL}
  /\ hand \in [Threads -> Seq(Tasks)]
  /\ res \in [Threads -> {"none", "busy", "pushed", "full", "got", "empty"}]

\* No task is in two places: a task is in at most one slot of the queue, or in
\* at most one place of one worker's hand, never in both (the owner and a thief,
\* or two thieves, never run the same task).
Exclusive ==
  /\ \A i, j \in head_ .. tail_ - 1 : i # j => At(i) # At(j)
  /\ \A t \in Threads : \A k \in DOMAIN hand[t] :
       /\ \A i \in head_ .. tail_ - 1 : hand[t][k] # At(i)
       /\ \A u \in Threads : \A m \in DOMAIN hand[u] :
            hand[t][k] = hand[u][m] => t = u /\ k = m

\* The task being pushed is in no queue and in no hand.
ArgUnlinked ==
  arg # NULL =>
    /\ \A i \in head_ .. tail_ - 1 : At(i) # arg
    /\ \A t \in Threads : \A k \in DOMAIN hand[t] : hand[t][k] # arg

(* The inductive invariant.  Window: the ring never holds more than        *)
(* Capacity tasks, and its live slots hold tasks.  LocalsOK: what an       *)
(* operation has loaded is not newer than the shared counters.  Snapshot:  *)
(* while head_ has not moved since an operation loaded it, what it has     *)
(* copied is still the front of the queue, so a successful CAS takes       *)
(* exactly these tasks.                                                    *)
Window ==
  /\ head_ <= tail_
  /\ tail_ <= head_ + Capacity
  /\ \A i \in head_ .. tail_ - 1 : At(i) \in Tasks

PushPcs == {"push_head", "push_slot", "push_tail"}

\* The locals of thread t, whatever it is doing.
ThreadOK(t) ==
  /\ t # Owner => pc[t] \in {"idle", "grab_head", "grab_tail", "grab_slot", "grab_cas"}
  /\ head[t] <= head_
  /\ tail[t] <= tail_
  /\ pc[t] \in {"grab_slot", "grab_cas"} => head[t] <= tail_
  /\ pc[t] = "pop_slot" => head[t] < tail[t]
  /\ pc[t] = "pop_cas" => Len(out[t]) = 1
  /\ pc[t] = "grab_slot" => MoreToCopy(t, Len(out[t]), tail[t])
  /\ pc[t] \notin {"pop_cas", "grab_slot", "grab_cas"} => out[t] = << >>
  /\ out[t] # << >> => head[t] + Len(out[t]) <= tail[t]
  /\ Len(out[t]) <= GrabAmount
  /\ pc[t] # "idle" => hand[t] = << >>
  /\ res[t] = "busy" <=> pc[t] # "idle"

\* The running TryPush: it has seen room for the task, and nobody else pushes.
PushOK ==
  /\ pc[Owner] \in PushPcs => tail[Owner] = tail_ /\ arg \in Tasks
  /\ pc[Owner] \notin PushPcs => arg = NULL
  /\ pc[Owner] \in {"push_slot", "push_tail"} => tail_ < head[Owner] + Capacity
  /\ pc[Owner] = "push_tail" => At(tail_) = arg

LocalsOK == PushOK /\ \A t \in Threads : ThreadOK(t)

SnapshotOf(t) ==
  head_ = head[t] => \A k \in 1 .. Len(out[t]) : out[t][k] = At(head_ + k - 1)

Snapshot == \A t \in Threads : SnapshotOf(t)

WSInv == TypeOK /\ Window /\ LocalsOK /\ Snapshot

\* Every call returns: the retry loops of TryPop and Grab end once pushes stop.
OperationsReturn == \A t \in Threads : pc[t] # "idle" ~> pc[t] = "idle"

-----------------------------------------------------------------------------
(* The queue implements TaskQueue.                                         *)
Seen == [t \in Threads |-> pc[t] = "grab_cas" /\ out[t] = << >>]

TQ == INSTANCE TaskQueue WITH queue <- Queue, seen <- Seen

\* TryPush, TryPop and Grab take effect atomically on a bounded FIFO queue.
TQSpec == TQ!Spec
=============================================================================

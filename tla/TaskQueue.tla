------------------------------ MODULE TaskQueue ------------------------------
(***************************************************************************)
(* What a worker's local task queue promises: a bounded FIFO queue with    *)
(* one producer, in which every operation takes effect at one instant      *)
(* between its call and its return.                                        *)
(*                                                                         *)
(*  - the owner pushes at the back, and is told "full" only at an instant  *)
(*    at which the queue holds Capacity tasks;                             *)
(*  - a consumer removes a non-empty prefix of the queue, in order, and    *)
(*    becomes the only holder of these tasks;                              *)
(*  - a consumer is told "empty" only if the queue was empty at some       *)
(*    instant of the call (seen).                                          *)
(*                                                                         *)
(* WorkStealingQueue implements this specification.                        *)
(***************************************************************************)
EXTENDS Integers, Sequences

CONSTANTS
  Owner,       \* the worker that owns the queue: the only producer
  Thieves,     \* the workers that steal from it
  Tasks,       \* the tasks
  NULL,        \* the null task pointer
  Capacity,    \* WorkStealingTaskQueue<Capacity>
  GrabAmount   \* Worker::kGrabAmount, the size of a thief's buffer

Threads == Thieves \cup {Owner}

VARIABLES
  queue,  \* the tasks, front first
  arg,    \* the task the owner is pushing, or NULL
  hand,   \* hand[t]: the tasks an operation handed to t and t still holds
  seen,   \* seen[t]: the running operation of t has found the queue empty
  res     \* res[t]: "busy" while an operation of t runs, then its result

vars == <<queue, arg, hand, seen, res>>

-----------------------------------------------------------------------------
Init ==
  /\ queue = << >>
  /\ arg = NULL
  /\ hand = [t \in Threads |-> << >>]
  /\ seen = [t \in Threads |-> FALSE]
  /\ res = [t \in Threads |-> "none"]

Returns(t, r) ==
  /\ res[t] = "busy"
  /\ res' = [res EXCEPT ![t] = r]

BeginPush(task) ==
  /\ res[Owner] # "busy"
  /\ res' = [res EXCEPT ![Owner] = "busy"]
  /\ arg' = task
  /\ UNCHANGED <<queue, hand, seen>>

BeginTake(t) ==
  /\ res[t] # "busy"
  /\ hand[t] = << >>
  /\ res' = [res EXCEPT ![t] = "busy"]
  /\ UNCHANGED <<queue, arg, hand, seen>>

Push ==
  /\ arg # NULL
  /\ Len(queue) < Capacity
  /\ Returns(Owner, "pushed")
  /\ queue' = Append(queue, arg)
  /\ arg' = NULL
  /\ UNCHANGED <<hand, seen>>

Full ==
  /\ arg # NULL
  /\ Len(queue) = Capacity
  /\ Returns(Owner, "full")
  /\ arg' = NULL
  /\ UNCHANGED <<queue, hand, seen>>

Take(t, n) ==
  /\ n <= Len(queue)
  /\ t = Owner => arg = NULL
  /\ Returns(t, "got")
  /\ hand' = [hand EXCEPT ![t] = SubSeq(queue, 1, n)]
  /\ queue' = SubSeq(queue, n + 1, Len(queue))
  /\ UNCHANGED <<arg, seen>>

Empty(t) ==
  /\ queue = << >> \/ seen[t]
  /\ t = Owner => arg = NULL
  /\ Returns(t, "empty")
  /\ seen' = [seen EXCEPT ![t] = FALSE]
  /\ UNCHANGED <<queue, arg, hand>>

SeeEmpty(t) ==
  /\ res[t] = "busy"
  /\ queue = << >>
  /\ seen' = [seen EXCEPT ![t] = TRUE]
  /\ UNCHANGED <<queue, arg, hand, res>>

Retry(t) ==
  /\ res[t] = "busy"
  /\ seen' = [seen EXCEPT ![t] = FALSE]
  /\ UNCHANGED <<queue, arg, hand, res>>

\* The thread runs the tasks it was handed; they may be pushed again.
Release(t) ==
  /\ res[t] # "busy"
  /\ hand' = [hand EXCEPT ![t] = << >>]
  /\ UNCHANGED <<queue, arg, seen, res>>

Next ==
  \/ \E task \in Tasks : BeginPush(task)
  \/ Push
  \/ Full
  \/ \E t \in Threads :
       \/ BeginTake(t)
       \/ \E n \in 1 .. GrabAmount : Take(t, n)
       \/ Empty(t)
       \/ SeeEmpty(t)
       \/ Retry(t)
       \/ Release(t)

Spec == Init /\ [][Next]_vars
=============================================================================

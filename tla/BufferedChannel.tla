---------------------------- MODULE BufferedChannel ----------------------------
(***************************************************************************)
(* fiber/chan/detail/buffered_channel_state with its circular_buffer.      *)
(***************************************************************************)
EXTENDS FiberChannel

CONSTANT Capacity   \* of the channel, at least 1

VARIABLES
  data_,   \* CircularBuffer::data_, one slot more than Capacity
  head_,
  tail_

buffer == <<data_, head_, tail_>>
vars == <<chanVars, buffer>>

capacity_ == Capacity + 1

Init ==
  /\ ChanInit
  /\ data_ = [slot \in 0 .. Capacity |-> NONE]
  /\ head_ = 0
  /\ tail_ = 0

Size == IF tail_ < head_ THEN tail_ + capacity_ - head_ ELSE tail_ - head_

\* Mutant of IsFull: every slot is used.
IsOverfull == Size = capacity_

IsFull == Size = Capacity
IsEmpty == Size = 0

-----------------------------------------------------------------------------
\* Send, under the lock, with fibers that wait for a value.
SendToReceiver(w, f) ==
  /\ Runs(w, f)
  /\ pc[f] = "send_locked"
  /\ state_ = "Receivers"
  /\ message' = [message EXCEPT ![Head(fibers_)] = message[f]]
  /\ WakeWaiter
  /\ Goto(f, "send_return")
  /\ UNCHANGED <<locked_, is_owned_, running, cb, calls, buffer>>

SendParks(w, f) ==
  /\ Runs(w, f)
  /\ pc[f] = "send_locked"
  /\ state_ # "Receivers"
  /\ IsFull
  /\ Suspend(w, f, "park", "send_woken")
  /\ UNCHANGED <<locked_, fibers_, is_owned_, state_, message, calls, buffer>>

SendEmplaces(w, f) ==
  /\ Runs(w, f)
  /\ pc[f] = "send_locked"
  /\ state_ # "Receivers"
  /\ ~ IsFull
  /\ data_' = [data_ EXCEPT ![tail_] = message[f]]
  /\ tail_' = (tail_ + 1) % capacity_
  /\ Goto(f, "send_return")
  /\ UNCHANGED <<locked_, fibers_, is_owned_, scheduler, state_, message, calls, head_>>

ReceiveParks(w, f) ==
  /\ Runs(w, f)
  /\ pc[f] = "receive_locked"
  /\ IsEmpty
  /\ Suspend(w, f, "park", "receive_woken")
  /\ UNCHANGED <<locked_, fibers_, is_owned_, state_, message, calls, buffer>>

\* Pop, and the value of the first waiting sender takes the room this makes.
ReceivePops(w, f) ==
  /\ Runs(w, f)
  /\ pc[f] = "receive_locked"
  /\ ~ IsEmpty
  /\ message' = [message EXCEPT ![f] = data_[head_]]
  /\ head_' = (head_ + 1) % capacity_
  /\ Goto(f, "receive_return")
  /\ IF state_ = "Senders"
     THEN /\ data_' = [data_ EXCEPT ![head_] = NONE, ![tail_] = message[Head(fibers_)]]
          /\ tail_' = (tail_ + 1) % capacity_
          /\ WakeWaiter
     ELSE /\ data_' = [data_ EXCEPT ![head_] = NONE]
          /\ UNCHANGED <<tail_, fibers_, ready, state_>>
  /\ UNCHANGED <<locked_, is_owned_, running, cb, calls>>

-----------------------------------------------------------------------------
Inside(w, f) ==
  \/ (Lock(w, f) \/ Return(w, f)) /\ UNCHANGED buffer
  \/ SendToReceiver(w, f) \/ SendParks(w, f) \/ SendEmplaces(w, f)
  \/ ReceiveParks(w, f) \/ ReceivePops(w, f)

Step(w) == (ChanSched(w) /\ UNCHANGED buffer) \/ \E f \in Fibers : Inside(w, f)

Next ==
  \/ \E w \in Workers :
       Step(w) \/ \E f \in Fibers : (Send(w, f) \/ Receive(w, f)) /\ UNCHANGED buffer
  \/ ChanStops /\ UNCHANGED vars

Spec == Init /\ [][Next]_vars

-----------------------------------------------------------------------------
(* Properties.                                                             *)

TypeOK ==
  /\ ChanTypeOK
  /\ data_ \in [0 .. Capacity -> Values \cup {NONE}]
  /\ head_ \in 0 .. Capacity
  /\ tail_ \in 0 .. Capacity

\* Senders wait only while the buffer is full, receivers only while it is empty:
\* no value is stuck in the buffer and no room is left unused, and PopFrontNonEmpty
\* is called only when there is a waiter.
WaitersJustified ==
  /\ WaitersAgree
  /\ state_ = "Senders" => IsFull
  /\ state_ = "Receivers" => IsEmpty

\* The values in the buffer, from head_ on.
Contents == [k \in 1 .. Size |-> data_[(head_ + k - 1) % capacity_]]
=============================================================================

----------------------------- MODULE FiberChannel -----------------------------
(***************************************************************************)
(* What the two channels of fiber/chan have in common: the spin lock, the  *)
(* list waiters_ of the fibers that wait (FiberSync's fibers_), and state_,*)
(* which says who waits.  A waiter's node points to a place on the stack   *)
(* of its fiber: the value to send, or the storage of the value received.  *)
(***************************************************************************)
EXTENDS FiberSync

CONSTANT MaxCalls   \* bound: calls of Send and Receive by one fiber

VARIABLES
  state_,    \* Nobody, Senders or Receivers
  message,   \* message[f]: val in f's call of Send, or res in its call of Receive
  calls      \* calls[f]: the calls made by f

chanVars == <<syncVars, state_, message, calls>>

\* The values are told apart, so that one cannot be mistaken for another.
Values == Fibers \X (1 .. MaxCalls)
NONE == << >>

ChanInit ==
  /\ SyncInit
  /\ state_ = "Nobody"
  /\ message = [f \in Fibers |-> NONE]
  /\ calls = [f \in Fibers |-> 0]

-----------------------------------------------------------------------------
Call(w, f, label) ==
  /\ Runs(w, f)
  /\ pc[f] = "idle"
  /\ calls[f] < MaxCalls
  /\ calls' = [calls EXCEPT ![f] = @ + 1]
  /\ Goto(f, label)
  /\ UNCHANGED <<locked_, fibers_, is_owned_, scheduler, state_>>

Send(w, f) ==
  /\ Call(w, f, "send")
  /\ message' = [message EXCEPT ![f] = <<f, calls[f] + 1>>]

Receive(w, f) == Call(w, f, "receive") /\ UNCHANGED message

\* The constructor of UniqueLock, and lock.lock() after Suspend.
Lock(w, f) ==
  /\ \/ UniqueLock(w, f, "send", "send_locked")
     \/ UniqueLock(w, f, "receive", "receive_locked")
     \/ UniqueLock(w, f, "send_woken", "send_return")
     \/ UniqueLock(w, f, "receive_woken", "receive_return")
  /\ UNCHANGED <<fibers_, scheduler, state_, message, calls>>

\* The destructor of UniqueLock; message[f] goes with the frame of the call.
Return(w, f) ==
  /\ UniqueUnlock(w, f, "send_return", "idle") \/ UniqueUnlock(w, f, "receive_return", "idle")
  /\ message' = [message EXCEPT ![f] = NONE]
  /\ UNCHANGED <<fibers_, scheduler, state_, calls>>

\* Mutant of WakeWaiter: the fiber is not scheduled.
WakeForgets ==
  /\ fibers_' = Tail(fibers_)
  /\ state_' = IF Len(fibers_) = 1 THEN "Nobody" ELSE state_
  /\ UNCHANGED ready

\* PopFrontNonEmpty, Schedule, and state_ = Nobody after the last waiter.
WakeWaiter ==
  /\ fibers_' = Tail(fibers_)
  /\ ready' = ready \cup {Head(fibers_)}
  /\ state_' = IF Len(fibers_) = 1 THEN "Nobody" ELSE state_

\* The suspend callback: PushBack(&sender) or (&receiver), and state_.  What follows
\* is FiberSync's ParkUnlock.
Enqueue(w) ==
  /\ ParkCallback(w)
  /\ state_' = IF pc[running[w]] = "send_woken" THEN "Senders" ELSE "Receivers"
  /\ UNCHANGED <<message, calls>>

ChanSched(w) ==
  \/ Enqueue(w)
  \/ /\ ParkUnlock(w) \/ \E f \in Fibers : Resume(w, f) \/ Finish(w, f)
     /\ UNCHANGED <<state_, message, calls>>

\* Every fiber has finished or waits: the runtime has nothing to do.
ChanStops ==
  /\ \A f \in Fibers : pc[f] = "finished" \/ \E k \in DOMAIN fibers_ : fibers_[k] = f
  /\ \A w \in Workers : running[w] = NULL
  /\ ~ locked_

-----------------------------------------------------------------------------
(* Properties.                                                             *)

ChanLabels == {"idle", "send", "send_locked", "send_woken", "send_return",
               "receive", "receive_locked", "receive_woken", "receive_return", "finished"}

ChanTypeOK ==
  /\ SyncTypeOK
  /\ pc \in [Fibers -> ChanLabels]
  /\ state_ \in {"Nobody", "Senders", "Receivers"}
  /\ message \in [Fibers -> Values \cup {NONE}]
  /\ calls \in [Fibers -> 0 .. MaxCalls]

\* The fibers that wait all wait for the same thing, and state_ says for what.
WaitersAgree ==
  LET Waiting(label) == fibers_ # << >> /\ \A k \in DOMAIN fibers_ : pc[fibers_[k]] = label
  IN \/ state_ = "Nobody" /\ fibers_ = << >>
     \/ state_ = "Senders" /\ Waiting("send_woken")
     \/ state_ = "Receivers" /\ Waiting("receive_woken")

\* Fiber f is in the callback of its Suspend, and not in waiters_ yet.
Parking(f) == \E w \in Workers : running[w] = f /\ cb[w] = "park"
Waits(f) == \E k \in DOMAIN fibers_ : fibers_[k] = f

\* Where f is, in the terms of Channel.
Doing(f) ==
  CASE pc[f] \in {"idle", "finished"} -> "idle"
    [] pc[f] \in {"send", "send_locked"} -> "send"
    [] pc[f] = "send_woken" -> IF Parking(f) THEN "send" ELSE "sent"
    [] pc[f] = "send_return" -> "sent"
    [] pc[f] \in {"receive", "receive_locked"} -> "receive"
    [] pc[f] = "receive_woken" ->
         IF Parking(f) THEN "receive" ELSE IF Waits(f) THEN "await" ELSE "received"
    [] pc[f] = "receive_return" -> "received"

WaitingSenders ==
  IF state_ = "Senders" THEN [k \in DOMAIN fibers_ |-> message[fibers_[k]]] ELSE << >>
WaitingReceivers == IF state_ = "Receivers" THEN fibers_ ELSE << >>

=============================================================================

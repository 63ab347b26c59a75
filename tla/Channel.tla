------------------------------- MODULE Channel -------------------------------
(***************************************************************************)
(* What a fiber channel promises: a FIFO queue of values.  A Send returns  *)
(* once its value is among the first capacity values that are left (with   *)
(* capacity = 0: once its value has been received), and the fibers         *)
(* that wait for a value get one in the order in which they came.          *)
(***************************************************************************)
EXTENDS Integers, Sequences

CONSTANTS
  Fibers,
  Values,
  NONE      \* no value

VARIABLES
  capacity,    \* given to the channel when it is made
  queue,       \* the values sent and not received, in the order of the Sends
  receivers,   \* the fibers that wait for a value
  doing,       \* doing[f]: where f is in its call
  value        \* value[f]: what f sends, or has received

vars == <<capacity, queue, receivers, doing, value>>

Init ==
  /\ capacity \in Nat
  /\ queue = << >>
  /\ receivers = << >>
  /\ doing = [f \in Fibers |-> "idle"]
  /\ value = [f \in Fibers |-> NONE]

Goes(f, to) == doing' = [doing EXCEPT ![f] = to]

CallSend(f, v) ==
  /\ doing[f] = "idle"
  /\ Goes(f, "send")
  /\ value' = [value EXCEPT ![f] = v]
  /\ UNCHANGED <<queue, receivers>>

\* The value goes to the first fiber that waits for one ...
Hand(f) ==
  /\ doing[f] = "send"
  /\ receivers # << >>
  /\ receivers' = Tail(receivers)
  /\ value' = [value EXCEPT ![Head(receivers)] = value[f]]
  /\ doing' = [doing EXCEPT ![f] = "sent", ![Head(receivers)] = "received"]
  /\ UNCHANGED queue

\* ... or into the queue.
Put(f) ==
  /\ doing[f] = "send"
  /\ receivers = << >>
  /\ queue' = Append(queue, value[f])
  /\ Goes(f, "sent")
  /\ UNCHANGED <<receivers, value>>

\* The value has been received, or is one of the first capacity in the queue.
SendReturn(f) ==
  /\ doing[f] = "sent"
  /\ \A k \in DOMAIN queue : queue[k] = value[f] => k <= capacity
  /\ Goes(f, "idle")
  /\ value' = [value EXCEPT ![f] = NONE]
  /\ UNCHANGED <<queue, receivers>>

CallReceive(f) ==
  /\ doing[f] = "idle"
  /\ Goes(f, "receive")
  /\ UNCHANGED <<queue, receivers, value>>

Take(f) ==
  /\ doing[f] = "receive"
  /\ queue # << >>
  /\ queue' = Tail(queue)
  /\ value' = [value EXCEPT ![f] = Head(queue)]
  /\ Goes(f, "received")
  /\ UNCHANGED receivers

Await(f) ==
  /\ doing[f] = "receive"
  /\ queue = << >>
  /\ receivers' = Append(receivers, f)
  /\ Goes(f, "await")
  /\ UNCHANGED <<queue, value>>

ReceiveReturn(f) ==
  /\ doing[f] = "received"
  /\ Goes(f, "idle")
  /\ value' = [value EXCEPT ![f] = NONE]
  /\ UNCHANGED <<queue, receivers>>

Next ==
  /\ UNCHANGED capacity
  /\ \E f \in Fibers :
       \/ \E v \in Values : CallSend(f, v)
       \/ Hand(f) \/ Put(f) \/ SendReturn(f)
       \/ CallReceive(f) \/ Take(f) \/ Await(f) \/ ReceiveReturn(f)

Spec == Init /\ [][Next]_vars
=============================================================================

--------------------------- MODULE RendezvousChannel ---------------------------
(***************************************************************************)
(* fiber/chan/detail/rendezvous_channel_state: Send and Receive meet, and  *)
(* whoever comes first waits for the other.                                *)
(***************************************************************************)
EXTENDS FiberChannel

vars == chanVars

Init == ChanInit

-----------------------------------------------------------------------------
SendMeets(w, f) ==
  /\ Runs(w, f)
  /\ pc[f] = "send_locked"
  /\ state_ = "Receivers"
  /\ message' = [message EXCEPT ![Head(fibers_)] = message[f]]
  /\ WakeWaiter
  /\ Goto(f, "send_return")
  /\ UNCHANGED <<locked_, is_owned_, running, cb, calls>>

SendParks(w, f) ==
  /\ Runs(w, f)
  /\ pc[f] = "send_locked"
  /\ state_ # "Receivers"
  /\ Suspend(w, f, "park", "send_woken")
  /\ UNCHANGED <<locked_, fibers_, is_owned_, state_, message, calls>>

ReceiveMeets(w, f) ==
  /\ Runs(w, f)
  /\ pc[f] = "receive_locked"
  /\ state_ = "Senders"
  /\ message' = [message EXCEPT ![f] = message[Head(fibers_)]]
  /\ WakeWaiter
  /\ Goto(f, "receive_return")
  /\ UNCHANGED <<locked_, is_owned_, running, cb, calls>>

ReceiveParks(w, f) ==
  /\ Runs(w, f)
  /\ pc[f] = "receive_locked"
  /\ state_ # "Senders"
  /\ Suspend(w, f, "park", "receive_woken")
  /\ UNCHANGED <<locked_, fibers_, is_owned_, state_, message, calls>>

-----------------------------------------------------------------------------
Inside(w, f) ==
  \/ Lock(w, f) \/ Return(w, f)
  \/ SendMeets(w, f) \/ SendParks(w, f) \/ ReceiveMeets(w, f) \/ ReceiveParks(w, f)

Step(w) == ChanSched(w) \/ \E f \in Fibers : Inside(w, f)

Next ==
  \/ \E w \in Workers : Step(w) \/ \E f \in Fibers : Send(w, f) \/ Receive(w, f)
  \/ ChanStops /\ UNCHANGED vars

Spec == Init /\ [][Next]_vars
=============================================================================

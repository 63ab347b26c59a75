---------------------------- MODULE FiberPrimitives ----------------------------
(***************************************************************************)
(* The fibers of a runtime and one primitive that they share: a mutex, a   *)
(* wait group, or a channel with or without a buffer.  primitive says      *)
(* which; it is chosen at the start, and the state of the others is left   *)
(* as it was initialized.                                                  *)
(***************************************************************************)
EXTENDS FiberMutex

CONSTANTS
  MaxAdds,    \* bound: calls of WaitGroup::Add
  MaxWaits,   \* bound: calls of WaitGroup::Wait by one fiber
  Capacity    \* of the buffered channel

\* No thread has the name of a status of FiberScheduler.
ASSUME BoundsAssumption ==
  /\ MaxAdds \in Nat /\ MaxWaits \in Nat
  /\ Capacity \in Nat \ {0}
  /\ Workers \cap {"ready", "suspended", "ended"} = {}

VARIABLES
  primitive,
  count_, adds, waits, owed, zero,        \* FiberWaitGroup
  state_, message, data_, head_, tail_    \* FiberChannel, BufferedChannel

WG == INSTANCE FiberWaitGroup
Buffered == INSTANCE BufferedChannel
Rendezvous == INSTANCE RendezvousChannel

groupVars == <<count_, adds, waits, owed, zero>>
slotVars == <<data_, head_, tail_>>
channelVars == <<state_, message, slotVars>>
allVars == <<vars, primitive, groupVars, channelVars>>

Primitives == {"mutex", "wait group", "buffered", "rendezvous"}
IsChannel == primitive \in {"buffered", "rendezvous"}

PrimitivesInit ==
  /\ primitive \in Primitives
  /\ Init
  /\ WG!Init
  /\ Buffered!Init

-----------------------------------------------------------------------------
\* A step of a primitive leaves the others alone.
OfMutex(A) == primitive = "mutex" /\ A /\ UNCHANGED <<groupVars, channelVars>>
OfGroup(A) == primitive = "wait group" /\ A /\ UNCHANGED <<is_locked_, calls, channelVars>>
OfBuffered(A) == primitive = "buffered" /\ A /\ UNCHANGED <<is_locked_, groupVars>>
OfRendezvous(A) == primitive = "rendezvous" /\ A /\ UNCHANGED <<is_locked_, groupVars, slotVars>>

PrimitiveStep(w) ==
  /\ UNCHANGED primitive
  /\ \/ OfMutex(Step(w))
     \/ OfGroup(WG!Step(w))
     \/ OfBuffered(Buffered!Step(w))
     \/ OfRendezvous(Rendezvous!Step(w))

PrimitivesNext ==
  /\ UNCHANGED primitive
  /\ \/ OfMutex(Next)
     \/ OfGroup(WG!Next)
     \/ OfBuffered(Buffered!Next)
     \/ OfRendezvous(Rendezvous!Next)

PrimitivesSpec == PrimitivesInit /\ [][PrimitivesNext]_allVars

(* The threads are scheduled; fibers leave critical sections, make the calls *)
(* of Done they owe, and finish.                                             *)
PrimitivesLiveSpec == PrimitivesSpec /\ \A w \in Workers : WF_allVars(PrimitiveStep(w))

-----------------------------------------------------------------------------
(* Properties.  MutualExclusion is checked as it stands in FiberMutex.       *)

\* Every primitive's spin_ has one owner, and it is a thread that is executing: no
\* fiber leaves its thread with the spin lock, so that a thread that spins always
\* waits for one that runs.
OwnerPcs == SpinPcs \cup {"add_count", "done_count", "return", "wait_test", "wait_return",
                          "send_locked", "send_return", "receive_locked", "receive_return"}
Owner(w) == \/ cb[w] \in ParkSteps
            \/ cb[w] = "none" /\ running[w] # NULL /\ pc[running[w]] \in OwnerPcs

SpinLockOwned ==
  /\ \A w, v \in Workers : Owner(w) /\ Owner(v) => w = v
  /\ locked_ <=> \E w \in Workers : Owner(w)

\* No fiber is resumed twice, or while it still runs (OnePlace), spin_ has one owner,
\* and the invariant of the mutex holds, from which FiberPrimitivesProofs starts
\* (with the type invariant of the primitive in use).
PrimitiveInv ==
  /\ OnePlace
  /\ SpinLockOwned
  /\ primitive = "mutex" => MutexInv
  /\ primitive = "wait group" => WG!TypeOK
  /\ primitive = "buffered" => Buffered!TypeOK
  /\ primitive = "rendezvous" => Rendezvous!ChanTypeOK

\* Fibers wait only for what is bound to come: for the mutex while it is locked or a
\* woken fiber is on its way to it, for the wait group while a Done is to come, in a
\* buffered channel to send while it is full and to receive while it is empty, in a
\* rendezvous channel all for the same thing.  And what has ended the wait of a Wait
\* did happen: the counter was 0 at some instant of the call, although a woken waiter
\* does not test it again and the WaitGroup may be in use again.
WaitersJustified ==
  /\ primitive = "mutex" => NoLostWakeup
  /\ primitive = "wait group" => WG!WaitersExpectDone /\ WG!ReturnsAfterZero
  /\ primitive = "buffered" => Buffered!WaitersJustified
  /\ primitive = "rendezvous" => Rendezvous!WaitersAgree

\* When Wait has returned and the counter is still 0, the thread of the last Done
\* has left the WaitGroup (Event): the waiter may destroy it.
DoneIsOver == WG!DoneIsOver

\* The channels implement Channel: values are received in the order they were sent,
\* to the receivers in the order they came, and a Send that had to wait returns when
\* its value has come into the buffer, or has been received.
ChannelOfValues ==
  INSTANCE Channel WITH
    Values <- Buffered!Values,
    NONE <- Buffered!NONE,
    capacity <- IF primitive = "buffered" THEN Capacity ELSE 0,
    queue <- (IF primitive = "buffered" THEN Buffered!Contents ELSE << >>)
               \o Buffered!WaitingSenders,
    receivers <- Buffered!WaitingReceivers,
    doing <- [f \in Fibers |-> IF IsChannel THEN Buffered!Doing(f) ELSE "idle"],
    value <- message

ChannelSpec == ChannelOfValues!Spec

\* The thread that executes the code of a fiber, or what the fiber waits for.
Status(f) ==
  CASE \E w \in Workers : Runs(w, f) -> CHOOSE w \in Workers : Runs(w, f)
    [] pc[f] = "finished" -> "ended"
    [] f \in ready -> "ready"
    [] OTHER -> "suspended"

Scheduler ==
  INSTANCE FiberScheduler WITH
    Threads <- Workers,
    status <- [f \in Fibers |-> Status(f)]

\* The primitives use fibers as the scheduler of fibers allows, which FiberRuntime
\* implements: a waiter goes on only after it has been scheduled, on one thread, and is
\* not scheduled again while it runs.
SchedulerSpec == Scheduler!Spec

\* Every Lock of the mutex returns, when calls stop coming; every Wait of the wait
\* group returns once the owed calls of Done are made; and a Send or Receive returns
\* or ends up waiting in waiters_.
Settled(f) == pc[f] \in {"idle", "finished", "critical"} \/ (IsChannel /\ Buffered!Waits(f))

CallsSettle == []<>(\A f \in Fibers : Settled(f))
=============================================================================

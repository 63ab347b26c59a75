---------------------------- MODULE FiberScheduler ----------------------------
(***************************************************************************)
(* What fibers may rely on, whatever runtime they run in: a fiber's code   *)
(* is executed by one thread at a time, from a suspension to the next, and *)
(* a suspended fiber goes on only after someone has scheduled it.          *)
(***************************************************************************)
EXTENDS Integers

CONSTANTS
  Fibers,
  Threads   \* the threads that execute fibers, none of them called as a status below

VARIABLE status  \* status[f]: the thread that executes f, or what f waits for

Init == status \in [Fibers -> {"suspended", "ready"}]

\* FiberHandle::Schedule, for the first time or after a suspension.
Scheduled(f) == status[f] = "suspended" /\ status'[f] = "ready"

\* Fiber::Run, on a thread that is executing no fiber.
Resumed(f) ==
  /\ status[f] = "ready"
  /\ status'[f] \in Threads
  /\ \A g \in Fibers : status[g] # status'[f]

\* Fiber::Suspend, or the end of its function.
Left(f) == status[f] \in Threads /\ status'[f] \in {"suspended", "ended"}

Next ==
  /\ status' \in [Fibers -> Threads \cup {"ready", "suspended", "ended"}]
  /\ \A f \in Fibers : Scheduled(f) \/ Resumed(f) \/ Left(f) \/ status'[f] = status[f]
  /\ \A f, g \in Fibers : status'[f] = status'[g] /\ status'[f] \in Threads => f = g

Spec == Init /\ [][Next]_status
=============================================================================

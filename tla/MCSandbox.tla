------------------------------ MODULE MCSandbox ------------------------------
(* A small instance of Sandbox for TLC.                                      *)
EXTENDS Sandbox, TLC

\* -1, the deadline of a task, and the deadlines of timers.
SmallDeadlines == {-1} \cup (0 .. 2)

\* Tasks are interchangeable.
TaskSymmetry == Permutations(Timers)
=============================================================================

-------------------------- MODULE MCWorkStealingPool --------------------------
(* Small instances of WorkStealingPool for TLC.                              *)
EXTENDS WorkStealingPool, TLC

\* Tasks are interchangeable (workers are not: NotifyOnSubmit takes the first).
TaskSymmetry == Permutations(Tasks)
=============================================================================

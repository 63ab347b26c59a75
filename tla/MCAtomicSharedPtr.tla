-------------------------- MODULE MCAtomicSharedPtr --------------------------
(* Small instances of AtomicSharedPtr for TLC.                               *)
EXTENDS AtomicSharedPtr, TLC

\* Threads are interchangeable, and so are addresses.
PtrSymmetry == Permutations(Threads) \cup Permutations(Objects)
=============================================================================

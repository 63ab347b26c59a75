------------------------------ MODULE TimerHeap ------------------------------
(***************************************************************************)
(* What a heap of timers promises: Pop takes out a timer that no other     *)
(* timer of the heap precedes.                                             *)
(***************************************************************************)
EXTENDS Integers

CONSTANTS Timers, Deadlines

VARIABLES
  content,    \* the timers of the heap, with their deadlines
  popped      \* what Pop has returned last, or nothing

Entries == [timer : Timers, deadline : Deadlines]

Init == content = {} /\ popped = {}

Push ==
  /\ popped' = {}
  /\ \E e \in content' \ content :
       /\ e \in Entries
       /\ content' = content \cup {e}
       /\ \A d \in content : d.timer # e.timer

Pop ==
  /\ \E e \in popped' :
       /\ popped' = {e} /\ e \in content
       /\ content' = content \ {e}
       /\ \A d \in content : e.deadline <= d.deadline

Next == Push \/ Pop

vars == <<content, popped>>

Spec == Init /\ [][Next]_vars
=============================================================================

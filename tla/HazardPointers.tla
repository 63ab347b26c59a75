---------------------------- MODULE HazardPointers ----------------------------
(***************************************************************************)
(* gc/hazard: hazard pointers.  Every thread has a mutator, which it links *)
(* into the list of the collector when it first needs it.  A mutator has   *)
(* hazard pointers that announce what its thread is reading, and a list of *)
(* retired objects: Gc destroys the ones that no hazard pointer protects.  *)
(*                                                                         *)
(* Each mutator has one hazard pointer here, number 0; nothing in the      *)
(* repository uses number 1, which stays null.                             *)
(***************************************************************************)
EXTENDS Integers, Sequences

CONSTANTS
  Threads,
  Objects,   \* the addresses an object can have
  NULL

ASSUME HazardAssumption == NULL \notin Objects

VARIABLES
  pc,         \* pc[t]: where t is in its call
  alive,      \* the addresses that hold an object
  head_,      \* Collector::head_: the threads whose mutators are linked, the head last
  hazard,     \* hazard[t]: Mutator::hazard_ptrs_[0]
  retired_,   \* retired_[t]: Mutator::retired_
  kept,       \* kept[t]: the list of that name in Gc
  checked,    \* checked[t]: the object Gc has asked IsProtected about, or NULL
  seen,       \* seen[t]: head_ as t has loaded it, as the length of the list
  cursor      \* cursor[t]: cur in IsProtected, as the length of the list from cur

gcVars == <<head_, hazard, retired_, kept, checked, seen, cursor>>
hazardVars == <<pc, alive, gcVars>>

HazardInit ==
  /\ pc = [t \in Threads |-> "idle"]
  /\ alive = {}
  /\ head_ = << >>
  /\ hazard = [t \in Threads |-> NULL]
  /\ retired_ = [t \in Threads |-> << >>]
  /\ kept = [t \in Threads |-> << >>]
  /\ checked = [t \in Threads |-> NULL]
  /\ seen = [t \in Threads |-> 0]
  /\ cursor = [t \in Threads |-> 0]

At(t, label) == pc[t] = label

Goto(t, label) == pc' = [pc EXCEPT ![t] = label]

Linked(t) == \E i \in DOMAIN head_ : head_[i] = t

-----------------------------------------------------------------------------
(* Collector::GetMutator, for a thread that has no mutator                 *)

NewMutator(t, from, to) ==
  /\ At(t, from)
  /\ seen' = [seen EXCEPT ![t] = Len(head_)]
  /\ Goto(t, to)
  /\ UNCHANGED <<alive, head_, hazard, retired_, kept, checked, cursor>>

Link(t, from, to) ==
  /\ At(t, from)
  /\ seen[t] = Len(head_)
  /\ head_' = Append(head_, t)
  /\ Goto(t, to)
  /\ UNCHANGED <<alive, hazard, retired_, kept, checked, seen, cursor>>

\* The list has grown, or compare_exchange_weak fails for no reason.
LinkFails(t, from, to) ==
  /\ At(t, from)
  /\ Goto(t, to)
  /\ UNCHANGED <<alive, gcVars>>

-----------------------------------------------------------------------------
(* PtrOwner::Set and Reset (the caller says where the thread goes)         *)

SetHazard(t, p) ==
  /\ hazard' = [hazard EXCEPT ![t] = p]
  /\ UNCHANGED <<alive, head_, retired_, kept, checked, seen, cursor>>

-----------------------------------------------------------------------------
(* Mutator::Retire and Gc, in the thread that owns the mutator             *)

Retire(t, o) ==
  /\ retired_' = [retired_ EXCEPT ![t] = Append(@, o)]
  /\ UNCHANGED <<alive, head_, hazard, kept, checked, seen, cursor>>

LoadHead(t) ==
  /\ seen' = [seen EXCEPT ![t] = Len(head_)]
  /\ cursor' = [cursor EXCEPT ![t] = Len(head_)]
  /\ Goto(t, "scan")

\* The next retired object, and the first load of IsProtected.
GcNext(t) ==
  /\ At(t, "gc")
  /\ retired_[t] # << >>
  /\ checked' = [checked EXCEPT ![t] = Head(retired_[t])]
  /\ retired_' = [retired_ EXCEPT ![t] = Tail(@)]
  /\ LoadHead(t)
  /\ UNCHANGED <<alive, head_, hazard, kept>>

GcReturn(t, to) ==
  /\ At(t, "gc")
  /\ retired_[t] = << >>
  /\ retired_' = [retired_ EXCEPT ![t] = kept[t]]
  /\ kept' = [kept EXCEPT ![t] = << >>]
  /\ Goto(t, to)
  /\ UNCHANGED <<alive, head_, hazard, checked, seen, cursor>>

\* Mutant of Scan: the scan skips the mutator at the end of the list.
ScanShort(t) ==
  /\ At(t, "scan")
  /\ cursor[t] > 0
  /\ IF cursor[t] > 1 /\ hazard[head_[cursor[t]]] = checked[t]
       THEN /\ kept' = [kept EXCEPT ![t] = Append(@, checked[t])]
            /\ checked' = [checked EXCEPT ![t] = NULL]
            /\ Goto(t, "gc")
            /\ UNCHANGED cursor
       ELSE cursor' = [cursor EXCEPT ![t] = @ - 1] /\ UNCHANGED <<pc, kept, checked>>
  /\ UNCHANGED <<alive, head_, hazard, retired_, seen>>

\* IsProtected reads the hazard pointer of one mutator.
Scan(t) ==
  /\ At(t, "scan")
  /\ cursor[t] > 0
  /\ IF hazard[head_[cursor[t]]] = checked[t]
       THEN /\ kept' = [kept EXCEPT ![t] = Append(@, checked[t])]
            /\ checked' = [checked EXCEPT ![t] = NULL]
            /\ Goto(t, "gc")
            /\ UNCHANGED cursor
       ELSE /\ cursor' = [cursor EXCEPT ![t] = @ - 1]
            /\ UNCHANGED <<pc, kept, checked>>
  /\ UNCHANGED <<alive, head_, hazard, retired_, seen>>

\* The end of the list: it has not grown, and Gc destroys the object ...
Destroy(t) ==
  /\ At(t, "scan")
  /\ cursor[t] = 0
  /\ seen[t] = Len(head_)
  /\ alive' = alive \ {checked[t]}
  /\ checked' = [checked EXCEPT ![t] = NULL]
  /\ Goto(t, "gc")
  /\ UNCHANGED <<head_, hazard, retired_, kept, seen, cursor>>

\* ... or it has, and the scan starts again.
Grown(t) ==
  /\ At(t, "scan")
  /\ cursor[t] = 0
  /\ seen[t] # Len(head_)
  /\ Goto(t, "rescan")
  /\ UNCHANGED <<alive, gcVars>>

Rescan(t) ==
  /\ At(t, "rescan")
  /\ LoadHead(t)
  /\ UNCHANGED <<alive, head_, hazard, retired_, kept, checked>>

Collect(t, to) ==
  GcNext(t) \/ GcReturn(t, to) \/ Scan(t) \/ Destroy(t) \/ Grown(t) \/ Rescan(t)

=============================================================================

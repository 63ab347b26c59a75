---------------------------- MODULE AtomicPointer ----------------------------
(***************************************************************************)
(* What AtomicSharedPtr promises: one cell, whose operations take effect   *)
(* at an instant between their call and their return.  A Load, and a       *)
(* CompareExchangeWeak that fails, may read the cell several times; the    *)
(* reading they return is one of them.                                     *)
(***************************************************************************)
CONSTANTS
  Threads,
  Objects,
  NULL

VARIABLES
  cell,    \* the pointer
  mine,    \* mine[t]: the pointer that t owns, and passes as `expected`
  doing,   \* doing[t]: where t is in its call
  arg,     \* arg[t]: the pointer t stores
  read     \* read[t]: the reading t may return

vars == <<cell, mine, doing, arg, read>>

Init ==
  /\ cell = NULL
  /\ mine = [t \in Threads |-> NULL]
  /\ doing = [t \in Threads |-> "none"]
  /\ arg = [t \in Threads |-> NULL]
  /\ read = [t \in Threads |-> NULL]

Goes(t, from, to) == doing[t] = from /\ doing' = [doing EXCEPT ![t] = to]

Call(t) ==
  /\ \/ Goes(t, "none", "load") /\ UNCHANGED arg
     \/ \E p \in Objects \cup {NULL} :
          /\ arg' = [arg EXCEPT ![t] = p]
          /\ Goes(t, "none", "store") \/ Goes(t, "none", "cas")
  /\ UNCHANGED <<cell, mine, read>>

Drop(t) ==
  /\ Goes(t, "none", "dropped")
  /\ mine' = [mine EXCEPT ![t] = NULL]
  /\ UNCHANGED <<cell, arg, read>>

\* Read the cell, to return it later or to read again.
Read(t) ==
  /\ Goes(t, "load", "loading") \/ (Goes(t, "cas", "failing") /\ cell # mine[t])
  /\ read' = [read EXCEPT ![t] = cell]
  /\ UNCHANGED <<cell, mine, arg>>

Again(t) ==
  /\ Goes(t, "loading", "load") \/ Goes(t, "failing", "cas")
  /\ read' = [read EXCEPT ![t] = NULL]
  /\ UNCHANGED <<cell, mine, arg>>

\* Return what has been read ...
Keep(t) ==
  /\ Goes(t, "loading", "loaded") \/ Goes(t, "failing", "failed")
  /\ mine' = [mine EXCEPT ![t] = read[t]]
  /\ read' = [read EXCEPT ![t] = NULL]
  /\ arg' = [arg EXCEPT ![t] = NULL]
  /\ UNCHANGED cell

\* ... or is read now.
ReadAndKeep(t) ==
  /\ Goes(t, "load", "loaded") \/ (Goes(t, "cas", "failed") /\ cell # mine[t])
  /\ mine' = [mine EXCEPT ![t] = cell]
  /\ arg' = [arg EXCEPT ![t] = NULL]
  /\ UNCHANGED <<cell, read>>

Write(t) ==
  /\ Goes(t, "store", "stored") \/ (Goes(t, "cas", "swapped") /\ cell = mine[t])
  /\ cell' = arg[t]
  /\ arg' = [arg EXCEPT ![t] = NULL]
  /\ UNCHANGED <<mine, read>>

Return(t) ==
  /\ \E end \in {"loaded", "stored", "swapped", "failed", "dropped"} : Goes(t, end, "none")
  /\ UNCHANGED <<cell, mine, arg, read>>

\* The destructor, when all calls have returned.
Close ==
  /\ \A t \in Threads : doing[t] = "none"
  /\ cell' = NULL
  /\ UNCHANGED <<mine, doing, arg, read>>

Next ==
  \/ Close
  \/ \E t \in Threads :
       \/ Call(t) \/ Drop(t) \/ Return(t)
       \/ Read(t) \/ Again(t) \/ Keep(t) \/ ReadAndKeep(t) \/ Write(t)

Spec == Init /\ [][Next]_vars
=============================================================================

----------------------------- MODULE LeftistHeap -----------------------------
(***************************************************************************)
(* detail/intrusive_leftist_heap: the heap of timers, which Sandbox uses.  *)
(* The nodes are the timers themselves, linked by the fields prev and next *)
(* that they also use in lists; depth is the length of the rightmost       *)
(* (next) path.                                                            *)
(*                                                                         *)
(* Merge calls itself once, for the next path of the root that stays: the  *)
(* calls that wait for the result are a stack, and a step is the code      *)
(* before or after the inner call.                                         *)
(***************************************************************************)
EXTENDS Integers, Sequences, FiniteSets

CONSTANTS
  Timers,
  Deadlines,
  NULL

ASSUME HeapAssumption == Deadlines \subseteq Int /\ NULL \notin Timers

VARIABLES
  top_,       \* IntrusiveTimerLeftistHeap::top_
  nodes,      \* nodes[t]: the fields prev, next, depth and deadline of t
  call,       \* "Push" or "Pop" while Merge runs in it, else "none"
  lhs, rhs,   \* the arguments of the innermost Merge; or its result and NULL
  uppers,     \* the lhs of the outer calls of Merge, innermost first
  last        \* what the last Pop returns, or NULL after a Push

merging == <<call, lhs, rhs, uppers>>
heapVars == <<top_, nodes, merging, last>>

Node(depth, deadline) ==
  [prev |-> NULL, next |-> NULL, depth |-> depth, deadline |-> deadline]

HeapInit ==
  /\ top_ = NULL
  /\ \E d \in Deadlines : nodes = [t \in Timers |-> Node(0, d)]
  /\ call = "none" /\ lhs = NULL /\ rhs = NULL /\ uppers = << >>
  /\ last = NULL

Depth(n, t) == IF t = NULL THEN 0 ELSE n[t].depth

\* Mutant of Balance: the fields are assigned one after the other.
BalanceOverwrites(n, t) ==
  LET swapped == IF Depth(n, n[t].prev) < Depth(n, n[t].next)
                   THEN [n EXCEPT ![t].prev = n[t].next]
                   ELSE n
  IN [swapped EXCEPT ![t].depth = Depth(swapped, swapped[t].next) + 1]

\* The shorter path goes to next, and t gets its depth.
Balance(n, t) ==
  LET swapped == IF Depth(n, n[t].prev) < Depth(n, n[t].next)
                   THEN [n EXCEPT ![t].prev = n[t].next, ![t].next = n[t].prev]
                   ELSE n
  IN [swapped EXCEPT ![t].depth = Depth(swapped, swapped[t].next) + 1]

\* Mutant of Upper: the roots are compared the wrong way round.
UpperLast == IF nodes[lhs].deadline > nodes[rhs].deadline THEN lhs ELSE rhs

\* The root that Merge keeps.
Upper == IF nodes[lhs].deadline > nodes[rhs].deadline THEN rhs ELSE lhs

\* Merge, to the call of itself.
MergeCalls ==
  /\ lhs # NULL /\ rhs # NULL
  /\ uppers' = <<Upper>> \o uppers
  /\ lhs' = nodes[Upper].next
  /\ rhs' = IF Upper = lhs THEN rhs ELSE lhs
  /\ UNCHANGED <<top_, nodes, call, last>>

Merged == IF lhs = NULL THEN rhs ELSE lhs

MergeIsDone == lhs = NULL \/ rhs = NULL

\* The inner call returns; the rest of the one that called it.
MergeReturns ==
  /\ MergeIsDone /\ uppers # << >>
  /\ nodes' = Balance([nodes EXCEPT ![Head(uppers)].next = Merged], Head(uppers))
  /\ lhs' = Head(uppers)
  /\ rhs' = NULL
  /\ uppers' = Tail(uppers)
  /\ UNCHANGED <<top_, call, last>>

\* The deadline is set before Push.
Push(t, d) ==
  /\ call = "none"
  /\ call' = "Push"
  /\ nodes' = [nodes EXCEPT ![t] = Node(1, d)]
  /\ lhs' = top_
  /\ rhs' = t
  /\ last' = NULL
  /\ UNCHANGED <<top_, uppers>>

Pop ==
  /\ call = "none"
  /\ top_ # NULL
  /\ call' = "Pop"
  /\ lhs' = nodes[top_].prev
  /\ rhs' = nodes[top_].next
  /\ last' = top_
  /\ UNCHANGED <<top_, nodes, uppers>>

\* The outermost Merge has returned.
TopIsMerged ==
  /\ MergeIsDone /\ uppers = << >>
  /\ top_' = Merged
  /\ call' = "none" /\ lhs' = NULL /\ rhs' = NULL
  /\ UNCHANGED <<uppers, last>>

Unlink(n, t) == [n EXCEPT ![t].prev = NULL, ![t].next = NULL]

PushReturns == call = "Push" /\ TopIsMerged /\ UNCHANGED nodes

PopReturns == call = "Pop" /\ TopIsMerged /\ nodes' = Unlink(nodes, top_)

-----------------------------------------------------------------------------
Uppers == {uppers[i] : i \in DOMAIN uppers}

\* The root of the heap, or the roots that the calls of Merge hold.
Roots == (IF call = "none" THEN {top_} ELSE {lhs, rhs} \cup Uppers) \ {NULL}

\* The link is not a part of the heap: Merge is yet to replace it, or Pop to reset it.
Dead(t, side) == (call = "Pop" /\ t = top_) \/ (side = "next" /\ t \in Uppers)

Closed(S) ==
  \A t \in S : \A side \in {"prev", "next"} :
    nodes[t][side] = NULL \/ nodes[t][side] \in S \/ Dead(t, side)

\* What can be reached from the roots.
Reached(roots) ==
  LET closed == {S \in SUBSET Timers : roots \subseteq S /\ Closed(S)}
  IN {t \in Timers : \A S \in closed : t \in S}

InHeap == Reached(Roots)

-----------------------------------------------------------------------------
Fields == [prev : Timers \cup {NULL}, next : Timers \cup {NULL}, depth : Nat, deadline : Deadlines]

TypeOK ==
  /\ top_ \in Timers \cup {NULL}
  /\ nodes \in [Timers -> Fields]
  /\ call \in {"none", "Push", "Pop"}
  /\ lhs \in Timers \cup {NULL} /\ rhs \in Timers \cup {NULL}
  /\ uppers \in Seq(Timers)
  /\ last \in Timers \cup {NULL}

\* The heap is a tree, in several parts during Merge: no node has two parents, or is a
\* root and has one.
Tree ==
  LET links == {k \in InHeap \X {"prev", "next"} : ~Dead(k[1], k[2]) /\ nodes[k[1]][k[2]] # NULL}
  IN \A k \in links :
       /\ nodes[k[1]][k[2]] \notin Roots
       /\ \A l \in links : nodes[k[1]][k[2]] = nodes[l[1]][l[2]] => k = l

PowerOf2[n \in Nat] == IF n = 0 THEN 1 ELSE 2 * PowerOf2[n - 1]

\* depth is the length of the next path, which is the shortest of the two, and
\* so a heap of n timers is merged in at most 2 * log2(n + 1) steps.
ShortPaths ==
  /\ \A t \in InHeap \ Uppers :
       /\ nodes[t].depth = Depth(nodes, nodes[t].next) + 1
       /\ Depth(nodes, nodes[t].next) <= Depth(nodes, nodes[t].prev)
  /\ call = "none" => PowerOf2[Depth(nodes, top_)] <= Cardinality(InHeap) + 1

\* A timer outside the heap has no links, so that it may go into a list: the
\* queue of tasks is linked by the same fields.
OutsideUnlinked ==
  \A t \in Timers \ InHeap : Dead(t, "prev") \/ (nodes[t].prev = NULL /\ nodes[t].next = NULL)

\* The shape of the heap that Merge, Pop and the lists of tasks depend on (with the type
\* invariant).
HeapInv == TypeOK /\ Tree /\ ShortPaths /\ OutsideUnlinked

Entry(t) == [timer |-> t, deadline |-> nodes[t].deadline]

Heap == INSTANCE TimerHeap WITH
  content <- {Entry(t) : t \in InHeap},
  popped <- IF last = NULL THEN {} ELSE {Entry(last)}

\* Pop returns a timer with the least deadline, and no timer is lost.
HeapSpec == Heap!Spec
=============================================================================

------------------------------ MODULE LoopProofs ------------------------------
(***************************************************************************)
(* What the two loops that one thread runs promise, for any tasks and any  *)
(* delays.                                                                 *)
(*                                                                         *)
(* Sandbox, the manual loop, with its heap of timers.  HeapInd is the      *)
(* invariant of the heap, also between the calls of Merge: the parts that  *)
(* are held by the calls are disjoint trees, ordered by deadline.  LoopInd *)
(* says where each timer is, and that the queue, the timers taken out of   *)
(* the heap and the heap follow one another in time.                       *)
(*                                                                         *)
(* RunLoop, the loop of the event loop: RunInd is its invariant.           *)
(***************************************************************************)
EXTENDS Sandbox, RunLoop, SequenceTheorems, FiniteSetTheorems, WellFoundedInduction,
        TLAPS

-----------------------------------------------------------------------------
(* Sandbox                                                                   *)

Sides == {"prev", "next"}

\* The link leads on in the heap.
Live(t, side) == ~Dead(t, side) /\ nodes[t][side] # NULL

\* The roots that Merge holds are apart, and the top that Pop takes out is out.
MergeOK ==
  /\ call = "none" => lhs = NULL /\ rhs = NULL /\ uppers = << >>
  /\ lhs = rhs => lhs = NULL
  /\ lhs \notin Uppers /\ rhs \notin Uppers
  /\ \A i, j \in DOMAIN uppers : uppers[i] = uppers[j] => i = j
  /\ call = "Pop" => top_ \in Timers \ InHeap /\ last = top_

\* No timer of the heap precedes its parent, nor one that Merge holds the roots of the
\* outer calls.
HeapOrder ==
  /\ \A t \in InHeap : \A side \in Sides :
       Live(t, side) => nodes[t].deadline <= nodes[nodes[t][side]].deadline
  /\ \A i, j \in DOMAIN uppers : i < j => nodes[uppers[j]].deadline <= nodes[uppers[i]].deadline
  /\ \A i \in DOMAIN uppers : \A t \in {lhs, rhs} \ {NULL} :
       nodes[uppers[i]].deadline <= nodes[t].deadline

\* ShortPaths, but for the size of the heap.
LocalPaths ==
  \A t \in InHeap \ Uppers :
    /\ nodes[t].depth = Depth(nodes, nodes[t].next) + 1
    /\ Depth(nodes, nodes[t].next) <= Depth(nodes, nodes[t].prev)

HeapInd == TypeOK /\ MergeOK /\ Tree /\ HeapOrder /\ LocalPaths /\ OutsideUnlinked

-----------------------------------------------------------------------------
InQueue == {task_queue_[i] : i \in DOMAIN task_queue_}

\* The timers that are ready, with the one that Pop is taking out.
Coming == IF call = "Pop" THEN Append(ready, last) ELSE ready

InComing == {Coming[i] : i \in DOMAIN Coming}

\* The tasks that have been run, or are being run.
Gone == Timers \ (unused \cup InHeap \cup InQueue \cup InComing)

Deadline(t) == nodes[t].deadline

ModeOK ==
  /\ limit \in 0 .. SizeMax /\ completed \in Nat
  /\ call = "Push" => mode \in {"idle", "run"}
  /\ call = "Pop" => mode = "ready"
  /\ mode # "ready" => ready = << >>

\* A task or timer is in one place, once.
PlacesApart ==
  /\ unused \subseteq Timers /\ \A t \in unused : Deadline(t) = -1
  /\ unused \cap (InHeap \cup InQueue \cup InComing) = {}
  /\ (InQueue \cup InComing) \cap InHeap = {} /\ InQueue \cap InComing = {}
  /\ \A i, j \in DOMAIN task_queue_ : task_queue_[i] = task_queue_[j] => i = j
  /\ \A i, j \in DOMAIN Coming : Coming[i] = Coming[j] => i = j

\* The queue before the ready timers before the heap; and the heap after the clock.
InTime ==
  /\ \A t \in InHeap : Deadline(t) >= 0 /\ (mode # "ready" => now_ <= Deadline(t))
  /\ \A i \in DOMAIN Coming :
       /\ Deadline(Coming[i]) >= 0 /\ Deadline(Coming[i]) <= now_
       /\ \A t \in InHeap : Deadline(Coming[i]) <= Deadline(t)
       /\ \A t \in InQueue : Deadline(t) <= Deadline(Coming[i])
       /\ \A j \in DOMAIN Coming : i < j => Deadline(Coming[i]) <= Deadline(Coming[j])
  /\ \A s \in InHeap, t \in InQueue : Deadline(t) <= Deadline(s)

\* What a call has counted are tasks that are gone.
Counted ==
  /\ mode = "loop" => count = completed /\ count <= limit /\ count <= Cardinality(Gone)
  /\ mode = "run" => count = completed + 1 /\ count <= limit /\ count <= Cardinality(Gone)
  /\ CountIsRight

LoopInd == LoopTypeOK /\ ModeOK /\ PlacesApart /\ InTime /\ DeadlineOrder /\ Counted

USE HeapAssumption

-----------------------------------------------------------------------------
(* The heap                                                                  *)

LEMMA ReachedIs ==
  ASSUME NEW roots \in SUBSET Timers, NEW t
  PROVE  t \in Reached(roots) <=>
           t \in Timers /\ \A S \in SUBSET Timers : roots \subseteq S /\ Closed(S) => t \in S
BY DEF Reached

\* What the heap is: the least set with the roots and all that their links lead to.
HeapIs ==
  /\ InHeap \subseteq Timers /\ Roots \subseteq InHeap /\ Uppers \subseteq InHeap
  /\ \A t \in InHeap : \A side \in Sides : Live(t, side) => nodes[t][side] \in InHeap
  /\ \A S \in SUBSET Timers : Roots \subseteq S /\ Closed(S) => InHeap \subseteq S

LEMMA HeapIsReached ==
  ASSUME TypeOK, MergeOK
  PROVE  HeapIs
<1>1. Roots \subseteq Timers /\ Uppers \subseteq Timers /\ Uppers \subseteq Roots
  BY DEF Roots, TypeOK, Uppers, MergeOK
<1>2. \A t : t \in InHeap <=>
           t \in Timers /\ \A S \in SUBSET Timers : Roots \subseteq S /\ Closed(S) => t \in S
  BY <1>1, ReachedIs DEF InHeap
<1>3. \A t \in Timers : \A side \in Sides : nodes[t][side] \in Timers \cup {NULL}
  BY DEF TypeOK, Fields, Sides
<1>4. \A t \in InHeap : \A side \in Sides : Live(t, side) => nodes[t][side] \in InHeap
  <2> SUFFICES ASSUME NEW t \in InHeap, NEW side \in Sides, Live(t, side),
                      NEW S \in SUBSET Timers, Roots \subseteq S, Closed(S)
               PROVE  nodes[t][side] \in S
    BY <1>2, <1>3 DEF Live
  <2>1. t \in S
    BY <1>2
  <2> QED BY <2>1 DEF Closed, Live, Sides
<1> QED BY <1>1, <1>2, <1>4 DEF HeapIs

LEMMA HeapIsReachedNext ==
  ASSUME TypeOK', MergeOK'
  PROVE  HeapIs'
BY HeapIsReached, PTL

\* The same sets are closed: the heap is the same.
Good(S) == Roots \subseteq S /\ Closed(S)

LEMMA RootsAre == TypeOK => Roots \subseteq Timers
BY DEF Roots, TypeOK, Uppers

LEMMA SameHeap ==
  ASSUME TypeOK, TypeOK', \A S \in SUBSET Timers : Good(S)' <=> Good(S)
  PROVE  InHeap' = InHeap
<1>1. Roots \subseteq Timers /\ Roots' \subseteq Timers
  BY RootsAre DEF Roots, TypeOK, Uppers
<1>2. \A t : t \in InHeap <=> t \in Timers /\ \A S \in SUBSET Timers : Good(S) => t \in S
  BY DEF InHeap, Reached, Good
<1>3. \A t : t \in InHeap' <=> t \in Timers /\ \A S \in SUBSET Timers : Good(S)' => t \in S
  BY DEF InHeap, Reached, Good
<1> QED BY <1>2, <1>3

\* Tree, without pairs.
Apart ==
  \A t \in InHeap : \A side \in Sides : Live(t, side) =>
    /\ nodes[t][side] \notin Roots
    /\ \A u \in InHeap : \A other \in Sides :
         Live(u, other) /\ nodes[u][other] = nodes[t][side] => u = t /\ other = side

LEMMA TreeIs == Tree <=> Apart
<1> DEFINE links == {k \in InHeap \X Sides : ~Dead(k[1], k[2]) /\ nodes[k[1]][k[2]] # NULL}
<1>1. \A t, side : <<t, side>> \in links <=> t \in InHeap /\ side \in Sides /\ Live(t, side)
  BY DEF Live
<1>2. \A k \in links : k = <<k[1], k[2]>> /\ <<k[1], k[2]>> \in links
  OBVIOUS
<1>3. Tree <=> \A k \in links :
                 /\ nodes[k[1]][k[2]] \notin Roots
                 /\ \A l \in links : nodes[k[1]][k[2]] = nodes[l[1]][l[2]] => k = l
  BY DEF Tree, Sides
<1> HIDE DEF links
<1>4. ASSUME Tree PROVE Apart
  <2> SUFFICES ASSUME NEW t \in InHeap, NEW side \in Sides, Live(t, side)
               PROVE  /\ nodes[t][side] \notin Roots
                      /\ \A u \in InHeap : \A other \in Sides :
                           Live(u, other) /\ nodes[u][other] = nodes[t][side] => u = t /\ other = side
    BY DEF Apart
  <2>1. <<t, side>> \in links
    BY <1>1
  <2>2. nodes[t][side] \notin Roots
    BY <2>1, <1>3, <1>4
  <2>3. ASSUME NEW u \in InHeap, NEW other \in Sides, Live(u, other), nodes[u][other] = nodes[t][side]
        PROVE  u = t /\ other = side
    <3>1. <<u, other>> \in links
      BY <2>3, <1>1
    <3>2. <<u, other>> = <<t, side>>
      BY <2>1, <3>1, <2>3, <1>3, <1>4
    <3> QED BY <3>2
  <2> QED BY <2>2, <2>3
<1>5. ASSUME Apart PROVE Tree
  <2> SUFFICES ASSUME NEW k \in links
               PROVE  /\ nodes[k[1]][k[2]] \notin Roots
                      /\ \A l \in links : nodes[k[1]][k[2]] = nodes[l[1]][l[2]] => k = l
    BY <1>3
  <2>1. k[1] \in InHeap /\ k[2] \in Sides /\ Live(k[1], k[2])
    BY <1>1, <1>2
  <2>2. ASSUME NEW l \in links, nodes[k[1]][k[2]] = nodes[l[1]][l[2]]
        PROVE  k = l
    <3>1. l[1] \in InHeap /\ l[2] \in Sides /\ Live(l[1], l[2])
      BY <1>1, <1>2
    <3>2. k[1] = l[1] /\ k[2] = l[2]
      BY <2>1, <2>2, <3>1, <1>5 DEF Apart
    <3> QED BY <3>2, <1>2
  <2> QED BY <2>1, <2>2, <1>5 DEF Apart
<1> QED BY <1>4, <1>5

LEMMA TreeIsNext == Tree' <=> Apart'
BY TreeIs, PTL

\* A stack of calls with one more on it, or one less.
LEMMA Pushed ==
  ASSUME NEW s \in Seq(Timers), NEW x \in Timers, NEW r, r = <<x>> \o s
  PROVE  /\ r \in Seq(Timers) /\ 1 \in DOMAIN r /\ r[1] = x
         /\ \A i \in DOMAIN s : i + 1 \in DOMAIN r /\ r[i + 1] = s[i]
         /\ \A i \in DOMAIN r : (i = 1 /\ r[i] = x) \/ (i > 1 /\ i - 1 \in DOMAIN s /\ r[i] = s[i - 1])
         /\ \A i \in DOMAIN r : i \in Nat
<1>1. <<x>> \in Seq(Timers) /\ Len(<<x>>) = 1 /\ <<x>>[1] = x
  OBVIOUS
<1>2. PICK o \in Seq(Timers) : o = <<x>>
  BY <1>1
<1>3. /\ r \in Seq(Timers) /\ Len(r) = 1 + Len(s)
      /\ \A i \in 1 .. 1 + Len(s) : r[i] = IF i <= 1 THEN o[i] ELSE s[i - 1]
  BY <1>1, <1>2, ConcatProperties
<1>4. Len(s) \in Nat /\ DOMAIN s = 1 .. Len(s) /\ DOMAIN r = 1 .. 1 + Len(s) /\ o[1] = x
  BY <1>1, <1>2, <1>3, LenProperties
<1> QED BY <1>3, <1>4

LEMMA Popped ==
  ASSUME NEW s \in Seq(Timers), s # << >>, NEW r, r = Tail(s)
  PROVE  /\ r \in Seq(Timers) /\ 1 \in DOMAIN s /\ Head(s) = s[1] /\ Head(s) \in Timers
         /\ \A i \in DOMAIN r : i + 1 \in DOMAIN s /\ r[i] = s[i + 1]
         /\ \A i \in DOMAIN s : i = 1 \/ (i > 1 /\ i - 1 \in DOMAIN r /\ r[i - 1] = s[i])
         /\ \A i \in DOMAIN s : i \in Nat
<1>1. /\ r \in Seq(Timers) /\ Len(r) = Len(s) - 1 /\ Head(s) = s[1] /\ Head(s) \in Timers
      /\ \A i \in 1 .. Len(r) : r[i] = s[i + 1]
  BY HeadTailProperties
<1>2. Len(s) \in Nat /\ Len(s) > 0 /\ DOMAIN s = 1 .. Len(s) /\ DOMAIN r = 1 .. Len(s) - 1
  BY <1>1, LenProperties, EmptySeq
<1> QED BY <1>1, <1>2

\* Balance exchanges the links of t if need be, and computes its depth.
IsBalanced(n, t, b) ==
  /\ b \in [Timers -> Fields]
  /\ \A x \in Timers \ {t} : b[x] = n[x]
  /\ b[t].deadline = n[t].deadline
  /\ \/ b[t].prev = n[t].prev /\ b[t].next = n[t].next
     \/ b[t].prev = n[t].next /\ b[t].next = n[t].prev
  /\ b[t].depth = Depth(b, b[t].next) + 1
  /\ Depth(b, b[t].next) <= Depth(b, b[t].prev)

LEMMA Balanced ==
  ASSUME NEW n \in [Timers -> Fields], NEW t \in Timers, n[t].prev # t, n[t].next # t
  PROVE  IsBalanced(n, t, Balance(n, t))
<1> PICK b : b = Balance(n, t)
  OBVIOUS
<1> DEFINE less == Depth(n, n[t].prev) < Depth(n, n[t].next)
           swapped == IF less THEN [n EXCEPT ![t].prev = n[t].next, ![t].next = n[t].prev] ELSE n
<1>1. b = [swapped EXCEPT ![t].depth = Depth(swapped, swapped[t].next) + 1]
  BY DEF Balance
<1>2. /\ n[t] \in Fields /\ n[t].prev \in Timers \cup {NULL} /\ n[t].next \in Timers \cup {NULL}
      /\ \A x \in Timers : n[x].depth \in Nat
  BY DEF Fields
<1>3. /\ swapped \in [Timers -> Fields]
      /\ \A x \in Timers \ {t} : swapped[x] = n[x]
      /\ swapped[t].deadline = n[t].deadline /\ swapped[t].depth = n[t].depth
      /\ IF less THEN swapped[t].prev = n[t].next /\ swapped[t].next = n[t].prev
         ELSE swapped[t].prev = n[t].prev /\ swapped[t].next = n[t].next
  BY <1>2 DEF Fields
<1> HIDE DEF swapped
<1>4. \A x \in {n[t].prev, n[t].next} : Depth(swapped, x) = Depth(n, x) /\ Depth(n, x) \in Nat
  BY <1>2, <1>3 DEF Depth
<1>5. /\ b \in [Timers -> Fields]
      /\ \A x \in Timers \ {t} : b[x] = swapped[x]
      /\ b[t].deadline = swapped[t].deadline /\ b[t].prev = swapped[t].prev /\ b[t].next = swapped[t].next
      /\ b[t].depth = Depth(swapped, swapped[t].next) + 1
  <2>1. Depth(swapped, swapped[t].next) + 1 \in Nat
    BY <1>3, <1>4
  <2> QED BY <1>1, <1>3, <2>1 DEF Fields
<1>6. \A x \in {n[t].prev, n[t].next} : Depth(b, x) = Depth(n, x)
  BY <1>2, <1>3, <1>4, <1>5 DEF Depth
<1> QED BY <1>2, <1>3, <1>4, <1>5, <1>6 DEF IsBalanced

\* One more call of Merge.
LEMMA MergeCallsKeeps ==
  ASSUME HeapInd, call # "none", MergeCalls
  PROVE  HeapInd' /\ InHeap' = InHeap
<1>1. TypeOK /\ MergeOK /\ Apart /\ HeapOrder /\ LocalPaths /\ OutsideUnlinked /\ HeapIs
  BY HeapIsReached, TreeIs DEF HeapInd
<1>2. PICK u : u = Upper
  OBVIOUS
<1>3. PICK v : v = IF u = lhs THEN rhs ELSE lhs
  OBVIOUS
<1>4. /\ u \in Timers /\ v \in Timers /\ u # v /\ {lhs, rhs} = {u, v} /\ u # NULL /\ v # NULL
      /\ u \notin Uppers /\ v \notin Uppers
      /\ nodes[u].deadline <= nodes[v].deadline
  <2>1. lhs \in Timers /\ rhs \in Timers /\ lhs # rhs /\ lhs \notin Uppers /\ rhs \notin Uppers
    BY <1>1 DEF MergeCalls, TypeOK, MergeOK
  <2>2. nodes[lhs].deadline \in Int /\ nodes[rhs].deadline \in Int
    BY <1>1, <2>1 DEF TypeOK, Fields
  <2> QED BY <1>2, <1>3, <2>1, <2>2 DEF Upper
<1>5. /\ uppers \in Seq(Timers) /\ uppers' = <<u>> \o uppers
      /\ lhs' = nodes[u].next /\ rhs' = v /\ UNCHANGED <<top_, nodes, call, last>>
  BY <1>1, <1>2, <1>3 DEF MergeCalls, TypeOK
<1>6. PICK s, r : s = uppers /\ r = uppers'
  OBVIOUS
<1>7. /\ r \in Seq(Timers) /\ 1 \in DOMAIN r /\ r[1] = u
      /\ \A i \in DOMAIN s : i + 1 \in DOMAIN r /\ r[i + 1] = s[i]
      /\ \A i \in DOMAIN r : (i = 1 /\ r[i] = u) \/ (i > 1 /\ i - 1 \in DOMAIN s /\ r[i] = s[i - 1])
      /\ \A i \in DOMAIN r : i \in Nat
  BY <1>4, <1>5, <1>6, Pushed
<1>8. Uppers' = Uppers \cup {u}
  BY <1>6, <1>7 DEF Uppers
<1>9. nodes[u].next \in Timers \cup {NULL}
  BY <1>1, <1>4 DEF TypeOK, Fields
<1>10. TypeOK'
  BY <1>1, <1>4, <1>5, <1>6, <1>7, <1>9 DEF TypeOK
<1>11. u \in Roots /\ v \in Roots /\ Roots = {u, v} \cup Uppers /\ u \in InHeap /\ v \in InHeap
  BY <1>1, <1>4 DEF Roots, HeapIs, Uppers, TypeOK
<1>12. ~Dead(u, "next") /\ ~Dead(u, "prev")
  BY <1>1, <1>4, <1>11 DEF Dead, MergeOK
<1>13. \A t, side : Dead(t, side)' <=> Dead(t, side) \/ (t = u /\ side = "next")
  BY <1>5, <1>8 DEF Dead
<1>14. Roots' = ({nodes[u].next} \ {NULL}) \cup Roots
  BY <1>1, <1>4, <1>5, <1>8, <1>11 DEF Roots, Uppers, TypeOK
<1>15. InHeap' = InHeap
  <2> SUFFICES ASSUME NEW S \in SUBSET Timers PROVE Good(S)' <=> Good(S)
    BY <1>1, <1>10, SameHeap
  <2>1. Good(S) => Good(S)'
    BY <1>5, <1>11, <1>12, <1>13, <1>14 DEF Good, Closed
  <2>2. Good(S)' => Good(S)
    <3> SUFFICES ASSUME Good(S)' PROVE Closed(S)
      BY <1>14 DEF Good
    <3>1. nodes[u].next \in S \cup {NULL}
      BY <1>14 DEF Good
    <3> QED BY <3>1, <1>5, <1>13 DEF Good, Closed
  <2> QED BY <2>1, <2>2
<1>16. \A t \in InHeap : \A side \in Sides : Live(t, side)' <=> Live(t, side) /\ ~(t = u /\ side = "next")
  BY <1>5, <1>13 DEF Live
<1>17. nodes[u].next # NULL => Live(u, "next") /\ nodes[u].next \in InHeap /\ nodes[u].next \notin Roots
  BY <1>1, <1>11, <1>12 DEF Live, Sides, Apart, HeapIs
<1>18. MergeOK'
  <2>1. rhs' # lhs' /\ lhs' \notin Uppers' /\ rhs' \notin Uppers'
    BY <1>1, <1>4, <1>5, <1>8, <1>11, <1>17, <1>9 DEF TypeOK, Uppers
  <2>2. \A i, j \in DOMAIN r : r[i] = r[j] => i = j
    <3> SUFFICES ASSUME NEW i \in DOMAIN r, NEW j \in DOMAIN r, r[i] = r[j] PROVE i = j
      OBVIOUS
    <3>1. \A k \in DOMAIN s : s[k] # u
      BY <1>4, <1>6 DEF Uppers
    <3>2. \A k, l \in DOMAIN s : s[k] = s[l] => k = l
      BY <1>1, <1>6 DEF MergeOK
    <3> QED BY <1>7, <3>1, <3>2
  <2>3. call' # "none" /\ (call' = "Pop" => top_' \in Timers \ InHeap' /\ last' = top_')
    BY <1>1, <1>5, <1>15 DEF MergeOK
  <2> QED BY <2>1, <2>2, <2>3, <1>6 DEF MergeOK
<1>19. Apart'
  <2> SUFFICES ASSUME NEW t \in InHeap, NEW side \in Sides, Live(t, side), ~(t = u /\ side = "next")
               PROVE  /\ nodes[t][side] \notin Roots'
                      /\ \A x \in InHeap : \A other \in Sides :
                           Live(x, other)' /\ nodes[x][other] = nodes[t][side] => x = t /\ other = side
    BY <1>5, <1>15, <1>16 DEF Apart
  <2>1. /\ nodes[t][side] \notin Roots
        /\ \A x \in InHeap : \A other \in Sides :
             Live(x, other) /\ nodes[x][other] = nodes[t][side] => x = t /\ other = side
    BY <1>1 DEF Apart
  <2>2. nodes[t][side] # nodes[u].next
    BY <1>11, <1>17, <2>1 DEF Live, Sides
  <2> QED BY <2>1, <2>2, <1>14, <1>16
<1>20. HeapOrder'
  <2>1. \A t \in InHeap : \A side \in Sides :
          Live(t, side) => nodes[t].deadline <= nodes[nodes[t][side]].deadline
    BY <1>1 DEF HeapOrder
  <2>2. \A i \in DOMAIN s : nodes[s[i]].deadline <= nodes[u].deadline
    BY <1>1, <1>4, <1>6 DEF HeapOrder
  <2>3. \A i, j \in DOMAIN r : i < j => nodes[r[j]].deadline <= nodes[r[i]].deadline
    <3> SUFFICES ASSUME NEW i \in DOMAIN r, NEW j \in DOMAIN r, i < j
                 PROVE  nodes[r[j]].deadline <= nodes[r[i]].deadline
      OBVIOUS
    <3>1. j > 1 /\ j - 1 \in DOMAIN s /\ r[j] = s[j - 1]
      BY <1>7
    <3>2. CASE i = 1
      BY <3>1, <3>2, <2>2, <1>7
    <3>3. CASE i # 1
      <4>1. i - 1 \in DOMAIN s /\ r[i] = s[i - 1] /\ i - 1 < j - 1
        BY <1>7, <3>3, <3>1
      <4>2. \A k, l \in DOMAIN s : k < l => nodes[s[l]].deadline <= nodes[s[k]].deadline
        BY <1>1, <1>6 DEF HeapOrder
      <4> QED BY <3>1, <4>1, <4>2
    <3> QED BY <3>2, <3>3
  <2>4. ASSUME NEW i \in DOMAIN r, NEW t \in {lhs', rhs'} \ {NULL}
        PROVE  nodes[r[i]].deadline <= nodes[t].deadline
    <3>1. \A x \in Timers : nodes[x].deadline \in Int
      BY <1>1 DEF TypeOK, Fields
    <3>2. r[i] \in Timers
      BY <1>7
    <3>3. nodes[r[i]].deadline <= nodes[u].deadline
      BY <1>7, <2>2, <3>1, <1>4
    <3>4. t \in Timers /\ nodes[u].deadline <= nodes[t].deadline
      BY <1>4, <1>5, <1>9, <1>11, <1>17, <2>1 DEF Sides
    <3> QED BY <3>1, <3>2, <3>3, <3>4, <1>4
  <2> QED BY <2>1, <2>3, <2>4, <1>5, <1>6, <1>15, <1>16 DEF HeapOrder
<1>21. LocalPaths'
  BY <1>1, <1>5, <1>8, <1>15 DEF LocalPaths
<1>22. OutsideUnlinked'
  BY <1>1, <1>5, <1>11, <1>13, <1>15 DEF OutsideUnlinked
<1> QED BY <1>10, <1>15, <1>18, <1>19, <1>20, <1>21, <1>22, TreeIsNext DEF HeapInd

\* An inner call of Merge returns.
LEMMA MergeReturnsKeeps ==
  ASSUME HeapInd, call # "none", MergeReturns
  PROVE  HeapInd' /\ InHeap' = InHeap /\ \A t \in Timers : nodes'[t].deadline = nodes[t].deadline
<1>1. TypeOK /\ MergeOK /\ Apart /\ HeapOrder /\ LocalPaths /\ OutsideUnlinked /\ HeapIs
  BY HeapIsReached, TreeIs DEF HeapInd
<1>2. PICK u : u = Head(uppers)
  OBVIOUS
<1>3. PICK m : m = Merged
  OBVIOUS
<1>4. PICK s, r : s = uppers /\ r = uppers'
  OBVIOUS
<1>5. s \in Seq(Timers) /\ s # << >> /\ r = Tail(s)
  BY <1>1, <1>4 DEF MergeReturns, TypeOK
<1>6. /\ r \in Seq(Timers) /\ 1 \in DOMAIN s /\ u = s[1] /\ u \in Timers
      /\ \A i \in DOMAIN r : i + 1 \in DOMAIN s /\ r[i] = s[i + 1]
      /\ \A i \in DOMAIN s : i = 1 \/ (i > 1 /\ i - 1 \in DOMAIN r /\ r[i - 1] = s[i])
      /\ \A i \in DOMAIN s : i \in Nat
  BY <1>2, <1>4, <1>5, Popped
<1>7. \A i, j \in DOMAIN s : s[i] = s[j] => i = j
  BY <1>1, <1>4 DEF MergeOK
<1>8. Uppers = {u} \cup Uppers' /\ u \notin Uppers'
  <2>1. \A i \in DOMAIN r : i \in Nat /\ i + 1 # 1
    BY <1>6, LenProperties
  <2>2. u \notin Uppers'
    BY <1>4, <1>6, <1>7, <2>1 DEF Uppers
  <2>3. Uppers = {u} \cup Uppers'
    BY <1>4, <1>6 DEF Uppers
  <2> QED BY <2>2, <2>3
<1>9. /\ m \in Timers \cup {NULL} /\ m # u /\ m \notin Uppers /\ {lhs, rhs} \ {NULL} = {m} \ {NULL}
      /\ Roots = ({m} \ {NULL}) \cup {u} \cup Uppers' /\ u \in Roots /\ u \in InHeap /\ u # NULL
  <2>1. lhs \in Timers \cup {NULL} /\ rhs \in Timers \cup {NULL} /\ (lhs = NULL \/ rhs = NULL)
        /\ lhs \notin Uppers /\ rhs \notin Uppers /\ NULL \notin Timers
    BY <1>1 DEF MergeReturns, MergeIsDone, TypeOK, MergeOK
  <2>2. m \in Timers \cup {NULL} /\ m \in {lhs, rhs} /\ {lhs, rhs} \ {NULL} = {m} \ {NULL}
    BY <2>1, <1>3 DEF Merged
  <2>3. Uppers \subseteq Timers /\ u \in Uppers
    BY <1>1, <1>8 DEF Uppers, TypeOK
  <2>4. Roots = ({lhs, rhs} \ {NULL}) \cup Uppers
    BY <2>1, <2>3 DEF Roots
  <2> QED BY <1>1, <1>6, <1>8, <2>1, <2>2, <2>3, <2>4 DEF HeapIs
<1>10. PICK n : n = [nodes EXCEPT ![u].next = m]
  OBVIOUS
<1>11. PICK b : b = nodes'
  OBVIOUS
<1>12. /\ n \in [Timers -> Fields] /\ n[u].prev = nodes[u].prev /\ n[u].next = m
       /\ n[u].deadline = nodes[u].deadline
       /\ \A x \in Timers \ {u} : n[x] = nodes[x]
  <2>1. nodes \in [Timers -> Fields] /\ nodes[u] \in Fields
    BY <1>1, <1>6 DEF TypeOK
  <2>2. [nodes[u] EXCEPT !.next = m] \in Fields
    BY <2>1, <1>9 DEF Fields
  <2>3. n = [nodes EXCEPT ![u] = [nodes[u] EXCEPT !.next = m]]
    BY <1>10
  <2>4. n[u] = [nodes[u] EXCEPT !.next = m]
    BY <2>1, <2>3, <1>6
  <2>5. n[u].prev = nodes[u].prev /\ n[u].next = m /\ n[u].deadline = nodes[u].deadline
    BY <2>1, <2>4 DEF Fields
  <2> QED BY <2>1, <2>2, <2>3, <2>5
<1>13. ~Dead(u, "prev") /\ nodes[u].prev # u
       /\ (nodes[u].prev # NULL => Live(u, "prev") /\ nodes[u].prev \notin Roots)
  BY <1>1, <1>9 DEF Dead, MergeOK, Apart, Live, Sides
<1>14. b = Balance(n, u)
  BY <1>2, <1>3, <1>10, <1>11 DEF MergeReturns
<1>15. /\ b \in [Timers -> Fields]
       /\ \A x \in Timers \ {u} : b[x] = nodes[x]
       /\ b[u].deadline = nodes[u].deadline
       /\ \/ b[u].prev = nodes[u].prev /\ b[u].next = m
          \/ b[u].prev = m /\ b[u].next = nodes[u].prev
       /\ b[u].depth = Depth(b, b[u].next) + 1
       /\ Depth(b, b[u].next) <= Depth(b, b[u].prev)
  <2>1. n[u].prev # u /\ n[u].next # u
    BY <1>9, <1>12, <1>13
  <2>2. IsBalanced(n, u, b)
    BY <1>6, <1>12, <1>14, <2>1, Balanced
  <2> QED BY <2>2, <1>12 DEF IsBalanced
<1>16. /\ lhs' = u /\ rhs' = NULL /\ nodes' = b /\ uppers' = r /\ uppers = s
       /\ UNCHANGED <<top_, call, last>>
  BY <1>2, <1>4, <1>11 DEF MergeReturns
<1>17. TypeOK'
  BY <1>1, <1>6, <1>15, <1>16 DEF TypeOK
<1>18. \A t, side : Dead(t, side)' <=> Dead(t, side) /\ ~(t = u /\ side = "next")
  BY <1>1, <1>8, <1>9, <1>16 DEF Dead, MergeOK
<1>19. Roots' = {u} \cup Uppers'
  BY <1>6, <1>9, <1>16, <1>17, <1>1 DEF Roots, Uppers, TypeOK
<1>20. InHeap' = InHeap
  <2> SUFFICES ASSUME NEW S \in SUBSET Timers PROVE Good(S)' <=> Good(S)
    BY <1>1, <1>17, SameHeap
  <2>0. Dead(u, "next") /\ ~Dead(u, "next")' /\ ~Dead(u, "prev")'
    BY <1>8, <1>13, <1>18 DEF Dead
  <2>1. ASSUME u \in S
        PROVE  Closed(S)' <=> Closed(S) /\ m \in S \cup {NULL}
    <3>1. Closed(S) <=> /\ nodes[u].prev \in S \cup {NULL}
                        /\ \A t \in S \ {u} : \A side \in Sides :
                             nodes[t][side] = NULL \/ nodes[t][side] \in S \/ Dead(t, side)
      BY <2>0, <2>1, <1>13 DEF Closed, Sides
    <3>2. Closed(S)' <=> /\ b[u].prev \in S \cup {NULL} /\ b[u].next \in S \cup {NULL}
                         /\ \A t \in S \ {u} : \A side \in Sides :
                              b[t][side] = NULL \/ b[t][side] \in S \/ Dead(t, side)'
      BY <2>0, <2>1, <1>16 DEF Closed, Sides
    <3>3. (b[u].prev \in S \cup {NULL} /\ b[u].next \in S \cup {NULL})
            <=> (nodes[u].prev \in S \cup {NULL} /\ m \in S \cup {NULL})
      BY <1>15
    <3>4. \A t \in S \ {u} : b[t] = nodes[t] /\ \A side \in Sides : Dead(t, side)' <=> Dead(t, side)
      BY <1>15, <1>18
    <3> QED BY <3>1, <3>2, <3>3, <3>4
  <2> QED BY <2>1, <1>9, <1>19 DEF Good
<1>21. /\ \A t \in InHeap \ {u} : \A side \in Sides : Live(t, side)' <=> Live(t, side)
       /\ \A side \in Sides : Live(u, side)' => b[u][side] # NULL /\ b[u][side] \in {nodes[u].prev, m}
       /\ \A t \in InHeap \ {u} : b[t] = nodes[t]
       /\ InHeap \subseteq Timers
  BY <1>1, <1>15, <1>16, <1>18 DEF Live, Sides, HeapIs
<1>22. \A t \in Timers : b[t].deadline = nodes[t].deadline
  BY <1>15
<1>23. MergeOK'
  <2>1. \A i, j \in DOMAIN r : r[i] = r[j] => i = j
    <3> SUFFICES ASSUME NEW i \in DOMAIN r, NEW j \in DOMAIN r, r[i] = r[j] PROVE i = j
      OBVIOUS
    <3>1. i \in Nat /\ j \in Nat
      BY <1>6, LenProperties
    <3>2. i + 1 = j + 1
      BY <1>6, <1>7
    <3> QED BY <3>1, <3>2
  <2>2. NULL \notin Uppers'
    BY <1>6, <1>16 DEF Uppers
  <2> QED BY <1>1, <1>8, <1>9, <1>16, <1>20, <2>1, <2>2 DEF MergeOK, MergeReturns
<1>24. Apart'
  <2> SUFFICES ASSUME NEW t \in InHeap, NEW side \in Sides, Live(t, side)'
               PROVE  /\ b[t][side] \notin Roots'
                      /\ \A x \in InHeap : \A other \in Sides :
                           Live(x, other)' /\ b[x][other] = b[t][side] => x = t /\ other = side
    BY <1>16, <1>20 DEF Apart
  <2>1. \A x \in InHeap \ {u} : \A other \in Sides : Live(x, other)' =>
          /\ Live(x, other) /\ b[x][other] = nodes[x][other] /\ b[x][other] \notin Roots
          /\ \A y \in InHeap : \A third \in Sides :
               Live(y, third) /\ nodes[y][third] = b[x][other] => y = x /\ third = other
    BY <1>1, <1>21 DEF Apart
  <2>2. \A x \in InHeap \ {u} : \A other, third \in Sides :
          Live(x, other)' /\ Live(u, third)' => b[x][other] # b[u][third]
    <3> SUFFICES ASSUME NEW x \in InHeap \ {u}, NEW other \in Sides, NEW third \in Sides,
                        Live(x, other)', Live(u, third)', b[x][other] = b[u][third]
                 PROVE  FALSE
      OBVIOUS
    <3>1. b[u][third] # NULL /\ b[u][third] \in {nodes[u].prev, m}
      BY <1>21
    <3>2. b[u][third] # m
      BY <2>1, <3>1, <1>9
    <3>3. Live(u, "prev") /\ nodes[u]["prev"] = b[x][other]
      BY <3>1, <3>2, <1>13
    <3>4. u = x
      BY <2>1, <3>3, <1>9 DEF Sides
    <3> QED BY <3>4
  <2>3. CASE t = u
    <3>1. b[u][side] # NULL /\ b[u][side] \in {nodes[u].prev, m}
      BY <2>3, <1>21
    <3>2. b[u][side] \notin Roots'
      BY <3>1, <1>8, <1>9, <1>13, <1>19
    <3>3. \A other \in Sides : Live(u, other)' /\ b[u][other] = b[u][side] => other = side
      BY <3>1, <1>9, <1>13, <1>15, <1>21 DEF Sides
    <3> QED BY <2>2, <2>3, <3>2, <3>3
  <2>4. CASE t # u
    BY <2>1, <2>2, <2>4, <1>9, <1>19
  <2> QED BY <2>3, <2>4
<1>25. HeapOrder'
  <2>1. \A i \in DOMAIN s : i > 1 => nodes[s[i]].deadline <= nodes[u].deadline
    BY <1>1, <1>4, <1>6 DEF HeapOrder
  <2>2. \A t \in InHeap : \A side \in Sides : Live(t, side)' => b[t].deadline <= b[b[t][side]].deadline
    <3> SUFFICES ASSUME NEW t \in InHeap, NEW side \in Sides, Live(t, side)'
                 PROVE  b[t].deadline <= b[b[t][side]].deadline
      OBVIOUS
    <3>0. \A x \in InHeap : \A other \in Sides : Live(x, other) =>
             /\ nodes[x].deadline <= nodes[nodes[x][other]].deadline /\ nodes[x][other] \in Timers
      BY <1>1, <1>21 DEF HeapOrder, HeapIs
    <3>1. CASE t # u
      BY <3>0, <3>1, <1>21, <1>22
    <3>2. CASE t = u
      <4>1. b[u][side] # NULL /\ b[u][side] \in {nodes[u].prev, m}
        BY <3>2, <1>21
      <4>2. CASE b[u][side] = m
        <5>1. m \in {lhs, rhs} \ {NULL} /\ m \in Timers
          BY <4>1, <4>2, <1>9
        <5>2. nodes[u].deadline <= nodes[m].deadline
          BY <5>1, <1>1, <1>4, <1>6 DEF HeapOrder
        <5> QED BY <3>2, <4>2, <5>1, <5>2, <1>22, <1>6
      <4>3. CASE b[u][side] = nodes[u].prev
        <5>1. Live(u, "prev") /\ "prev" \in Sides
          BY <4>1, <4>3, <1>13 DEF Sides
        <5>2. nodes[u].deadline <= nodes[nodes[u].prev].deadline /\ nodes[u].prev \in Timers
          BY <5>1, <3>0, <1>9
        <5> QED BY <3>2, <4>3, <5>2, <1>22, <1>6
      <4> QED BY <4>1, <4>2, <4>3
    <3> QED BY <3>1, <3>2
  <2>3. ASSUME NEW i \in DOMAIN r
        PROVE  /\ b[r[i]].deadline <= b[u].deadline
               /\ \A j \in DOMAIN r : i < j => b[r[j]].deadline <= b[r[i]].deadline
    <3>1. i \in Nat /\ i + 1 \in DOMAIN s /\ r[i] = s[i + 1] /\ r[i] \in Timers /\ i + 1 > 1
      BY <1>6, LenProperties
    <3>2. b[r[i]].deadline <= b[u].deadline
      BY <2>1, <3>1, <1>22, <1>6
    <3>3. ASSUME NEW j \in DOMAIN r, i < j PROVE b[r[j]].deadline <= b[r[i]].deadline
      <4>1. j \in Nat /\ j + 1 \in DOMAIN s /\ r[j] = s[j + 1] /\ r[j] \in Timers /\ i + 1 < j + 1
        BY <1>6, <3>1, <3>3, LenProperties
      <4>2. nodes[s[j + 1]].deadline <= nodes[s[i + 1]].deadline
        BY <3>1, <4>1, <1>1, <1>4 DEF HeapOrder
      <4> QED BY <3>1, <4>1, <4>2, <1>22
    <3> QED BY <3>2, <3>3
  <2> QED BY <2>2, <2>3, <1>16, <1>20 DEF HeapOrder
<1>26. LocalPaths'
  <2> SUFFICES ASSUME NEW t \in InHeap, t \notin Uppers'
               PROVE  /\ b[t].depth = Depth(b, b[t].next) + 1
                      /\ Depth(b, b[t].next) <= Depth(b, b[t].prev)
    BY <1>16, <1>20 DEF LocalPaths
  <2>1. CASE t = u
    BY <2>1, <1>15
  <2>2. CASE t # u
    <3>1. t \in InHeap \ Uppers /\ b[t] = nodes[t]
      BY <2>2, <1>8, <1>21
    <3>2. ~Dead(t, "prev") /\ ~Dead(t, "next")
      BY <3>1, <1>1 DEF Dead, MergeOK
    <3>3. nodes[t].prev # u /\ nodes[t].next # u
      BY <3>1, <3>2, <1>1, <1>9 DEF Live, Sides, Apart
    <3>4. nodes[t].prev \in Timers \cup {NULL} /\ nodes[t].next \in Timers \cup {NULL}
      BY <3>1, <1>1, <1>21 DEF TypeOK, Fields
    <3>5. Depth(b, nodes[t].prev) = Depth(nodes, nodes[t].prev)
          /\ Depth(b, nodes[t].next) = Depth(nodes, nodes[t].next)
      BY <3>3, <3>4, <1>15 DEF Depth
    <3> QED BY <3>1, <3>5, <1>1 DEF LocalPaths
  <2> QED BY <2>1, <2>2
<1>27. OutsideUnlinked'
  BY <1>1, <1>9, <1>15, <1>16, <1>18, <1>20 DEF OutsideUnlinked
<1> QED BY <1>16, <1>17, <1>20, <1>22, <1>23, <1>24, <1>25, <1>26, <1>27, TreeIsNext DEF HeapInd

\* Push puts t into the heap, as a heap of its own ...
LEMMA PushKeeps ==
  ASSUME HeapInd, NEW t \in Timers \ InHeap, NEW d \in Deadlines, Push(t, d)
  PROVE  /\ HeapInd' /\ InHeap' = InHeap \cup {t} /\ nodes'[t].deadline = d
         /\ \A x \in Timers \ {t} : nodes'[x] = nodes[x]
<1>1. TypeOK /\ MergeOK /\ Apart /\ HeapOrder /\ LocalPaths /\ OutsideUnlinked /\ HeapIs
  BY HeapIsReached, TreeIs DEF HeapInd
<1>2. PICK b : b = nodes'
  OBVIOUS
<1>3. /\ call = "none" /\ call' = "Push" /\ lhs' = top_ /\ rhs' = t /\ last' = NULL
      /\ UNCHANGED <<top_, uppers>> /\ uppers = << >>
  BY <1>1 DEF Push, MergeOK
<1>4. /\ b \in [Timers -> Fields] /\ b[t] = Node(1, d)
      /\ \A x \in Timers \ {t} : b[x] = nodes[x]
  <2>1. nodes \in [Timers -> Fields] /\ Node(1, d) \in Fields
    BY <1>1 DEF TypeOK, Node, Fields
  <2> QED BY <1>2, <2>1 DEF Push
<1>5. b[t].prev = NULL /\ b[t].next = NULL /\ b[t].depth = 1 /\ b[t].deadline = d
  BY <1>4 DEF Node
<1>6. Uppers = {} /\ Uppers' = {} /\ \A x, side : ~Dead(x, side) /\ ~Dead(x, side)'
  BY <1>3 DEF Uppers, Dead
<1>7. nodes[t].prev = NULL /\ nodes[t].next = NULL
  BY <1>1, <1>6 DEF OutsideUnlinked
<1>8. TypeOK'
  BY <1>1, <1>2, <1>3, <1>4 DEF TypeOK
<1>9. Roots = {top_} \ {NULL} /\ Roots' = Roots \cup {t} /\ t \notin Roots /\ t # top_
  BY <1>1, <1>3, <1>6 DEF Roots, TypeOK, HeapIs
<1>10. \A S \in SUBSET Timers : Closed(S)' <=> Closed(S)
  BY <1>2, <1>4, <1>5, <1>6, <1>7 DEF Closed
<1>11. InHeap' = InHeap \cup {t}
  <2>1. \A x : x \in InHeap <=> x \in Timers /\ \A S \in SUBSET Timers : Good(S) => x \in S
    BY DEF InHeap, Reached, Good
  <2>2. \A x : x \in InHeap' <=> x \in Timers /\ \A S \in SUBSET Timers : Good(S)' => x \in S
    BY DEF InHeap, Reached, Good
  <2>3. \A S \in SUBSET Timers : Good(S)' <=> Good(S) /\ t \in S
    BY <1>9, <1>10 DEF Good
  <2>4. InHeap \cup {t} \in SUBSET Timers /\ Good(InHeap \cup {t})
    BY <1>1, <1>6, <1>7 DEF Good, Closed, HeapIs, Live, Sides
  <2>5. InHeap' \subseteq InHeap \cup {t}
    BY <2>2, <2>3, <2>4
  <2>6. InHeap \cup {t} \subseteq InHeap'
    BY <2>1, <2>2, <2>3
  <2> QED BY <2>5, <2>6
<1>12. \A side \in Sides : ~Live(t, side)'
  BY <1>2, <1>5 DEF Live, Sides
<1>13. \A x \in InHeap : x # t /\ b[x] = nodes[x] /\ x \in Timers /\ \A side \in Sides : Live(x, side)' <=> Live(x, side)
  BY <1>1, <1>2, <1>4, <1>6 DEF Live, HeapIs
<1>14. MergeOK'
  BY <1>1, <1>3, <1>6, <1>9 DEF MergeOK
<1>15. Apart'
  <2> SUFFICES ASSUME NEW x \in InHeap, NEW side \in Sides, Live(x, side)
               PROVE  /\ b[x][side] \notin Roots'
                      /\ \A y \in InHeap : \A other \in Sides :
                           Live(y, other) /\ b[y][other] = b[x][side] => y = x /\ other = side
    BY <1>2, <1>11, <1>12, <1>13 DEF Apart
  <2>1. nodes[x][side] \in InHeap
    BY <1>1 DEF HeapIs
  <2> QED BY <2>1, <1>1, <1>9, <1>13 DEF Apart
<1>16. HeapOrder'
  <2> SUFFICES ASSUME NEW x \in InHeap, NEW side \in Sides, Live(x, side)
               PROVE  b[x].deadline <= b[b[x][side]].deadline
    BY <1>2, <1>3, <1>11, <1>12, <1>13 DEF HeapOrder
  <2>1. nodes[x][side] \in InHeap
    BY <1>1 DEF HeapIs
  <2> QED BY <2>1, <1>1, <1>13 DEF HeapOrder
<1>17. LocalPaths'
  <2> SUFFICES ASSUME NEW x \in InHeap \cup {t}
               PROVE  /\ b[x].depth = Depth(b, b[x].next) + 1
                      /\ Depth(b, b[x].next) <= Depth(b, b[x].prev)
    BY <1>2, <1>6, <1>11 DEF LocalPaths
  <2>1. CASE x = t
    BY <2>1, <1>5 DEF Depth
  <2>2. CASE x # t
    <3>1. (nodes[x].prev = NULL \/ nodes[x].prev \in InHeap) /\ (nodes[x].next = NULL \/ nodes[x].next \in InHeap)
      BY <2>2, <1>1, <1>6 DEF HeapIs, Live, Sides
    <3>2. Depth(b, nodes[x].prev) = Depth(nodes, nodes[x].prev)
          /\ Depth(b, nodes[x].next) = Depth(nodes, nodes[x].next)
      BY <3>1, <1>13 DEF Depth
    <3> QED BY <2>2, <3>2, <1>1, <1>6, <1>13 DEF LocalPaths
  <2> QED BY <2>1, <2>2
<1>18. OutsideUnlinked'
  BY <1>1, <1>2, <1>4, <1>6, <1>11 DEF OutsideUnlinked
<1> QED BY <1>2, <1>4, <1>5, <1>8, <1>11, <1>14, <1>15, <1>16, <1>17, <1>18, TreeIsNext DEF HeapInd

\* ... and Pop takes the top out, which leaves two.
LEMMA PopKeeps ==
  ASSUME HeapInd, Pop
  PROVE  HeapInd' /\ InHeap' = InHeap \ {top_} /\ top_ \in InHeap /\ UNCHANGED nodes
<1>1. TypeOK /\ MergeOK /\ Apart /\ HeapOrder /\ LocalPaths /\ OutsideUnlinked /\ HeapIs
  BY HeapIsReached, TreeIs DEF HeapInd
<1>2. /\ call = "none" /\ call' = "Pop" /\ lhs' = nodes[top_].prev /\ rhs' = nodes[top_].next
      /\ last' = top_ /\ UNCHANGED <<top_, nodes, uppers>> /\ uppers = << >> /\ top_ \in Timers
  BY <1>1 DEF Pop, MergeOK, TypeOK
<1>3. Uppers = {} /\ Uppers' = {} /\ \A x, side : ~Dead(x, side) /\ (Dead(x, side)' <=> x = top_)
  BY <1>2 DEF Uppers, Dead
<1>4. nodes[top_].prev \in Timers \cup {NULL} /\ nodes[top_].next \in Timers \cup {NULL}
  BY <1>1, <1>2 DEF TypeOK, Fields
<1>5. TypeOK'
  BY <1>1, <1>2, <1>4 DEF TypeOK
<1>6. /\ Roots = {top_} /\ top_ \in InHeap
      /\ Roots' = {nodes[top_].prev, nodes[top_].next} \ {NULL}
  BY <1>1, <1>2, <1>3 DEF Roots, HeapIs
<1>7. \A side \in Sides : nodes[top_][side] # NULL => Live(top_, side) /\ nodes[top_][side] \in InHeap \ {top_}
  BY <1>1, <1>3, <1>6 DEF Live, HeapIs, Apart
<1>8. \A t \in InHeap : \A side \in Sides : Live(t, side) => nodes[t][side] \in InHeap \ {top_}
  BY <1>1, <1>6 DEF HeapIs, Apart
<1>9. InHeap' = InHeap \ {top_}
  <2>1. \A x : x \in InHeap' <=> x \in Timers /\ \A S \in SUBSET Timers : Good(S)' => x \in S
    BY DEF InHeap, Reached, Good
  <2>0. PICK H : H = InHeap \ {top_}
    OBVIOUS
  <2>2. H \in SUBSET Timers /\ Good(H)'
    <3>1. Roots' \subseteq H
      BY <2>0, <1>6, <1>7 DEF Sides
    <3>2. \A t \in H : \A side \in Sides : nodes[t][side] = NULL \/ nodes[t][side] \in H
      BY <2>0, <1>3, <1>8 DEF Live
    <3>3. Closed(H)'
      BY <3>2, <1>2 DEF Closed, Sides
    <3> QED BY <2>0, <3>1, <3>3, <1>1 DEF Good, HeapIs
  <2>3. ASSUME NEW S \in SUBSET Timers, Good(S)' PROVE InHeap \subseteq S \cup {top_}
    <3>1. Good(S \cup {top_})
      <4>1. nodes[top_].prev \in S \cup {NULL} /\ nodes[top_].next \in S \cup {NULL}
        BY <2>3, <1>6 DEF Good
      <4>2. \A t \in S \ {top_} : \A side \in Sides : nodes[t][side] = NULL \/ nodes[t][side] \in S
        BY <2>3, <1>2, <1>3 DEF Good, Closed, Sides
      <4> QED BY <4>1, <4>2, <1>6 DEF Good, Closed, Sides
    <3>2. S \cup {top_} \in SUBSET Timers
      BY <1>2
    <3> QED BY <3>1, <3>2, <1>1 DEF HeapIs, Good
  <2>4. InHeap' \subseteq InHeap \ {top_}
    BY <2>0, <2>1, <2>2
  <2>5. InHeap \ {top_} \subseteq InHeap'
    BY <2>1, <2>3, <1>1 DEF HeapIs
  <2> QED BY <2>4, <2>5
<1>10. \A t \in InHeap \ {top_} : \A side \in Sides : Live(t, side)' <=> Live(t, side)
  BY <1>2, <1>3 DEF Live
<1>11. MergeOK'
  <2>1. nodes[top_].prev = nodes[top_].next => nodes[top_].prev = NULL
    BY <1>1, <1>6, <1>7 DEF Sides, Apart
  <2> QED BY <2>1, <1>2, <1>3, <1>9 DEF MergeOK
<1>12. Apart'
  <2> SUFFICES ASSUME NEW t \in InHeap \ {top_}, NEW side \in Sides, Live(t, side)
               PROVE  nodes[t][side] \notin Roots'
    BY <1>1, <1>2, <1>9, <1>10 DEF Apart
  <2> QED BY <1>1, <1>6, <1>7 DEF Apart, Sides
<1>13. HeapOrder'
  BY <1>1, <1>2, <1>9, <1>10 DEF HeapOrder
<1>14. LocalPaths'
  BY <1>1, <1>2, <1>3, <1>9 DEF LocalPaths
<1>15. OutsideUnlinked'
  BY <1>1, <1>2, <1>3, <1>9 DEF OutsideUnlinked
<1> QED BY <1>2, <1>5, <1>6, <1>9, <1>11, <1>12, <1>13, <1>14, <1>15, TreeIsNext DEF HeapInd

\* The outermost call of Merge returns, to Push or to Pop.
LEMMA HeapReturns ==
  ASSUME HeapInd, PushReturns \/ PopReturns
  PROVE  /\ HeapInd' /\ InHeap' = InHeap /\ \A t \in InHeap : nodes'[t] = nodes[t]
         /\ \A t \in Timers : nodes'[t].deadline = nodes[t].deadline
<1>1. TypeOK /\ MergeOK /\ Apart /\ HeapOrder /\ LocalPaths /\ OutsideUnlinked /\ HeapIs
  BY HeapIsReached, TreeIs DEF HeapInd
<1>2. PICK b : b = nodes'
  OBVIOUS
<1>3. PICK m : m = Merged
  OBVIOUS
<1>4. /\ call \in {"Push", "Pop"} /\ call' = "none" /\ lhs' = NULL /\ rhs' = NULL /\ top_' = m
      /\ uppers = << >> /\ UNCHANGED <<uppers, last>> /\ m \in {lhs, rhs}
      /\ {lhs, rhs} \ {NULL} = {m} \ {NULL}
  BY <1>3 DEF PushReturns, PopReturns, TopIsMerged, Merged, MergeIsDone
<1>5. Uppers = {} /\ Uppers' = {} /\ \A x, side : ~Dead(x, side)'
  BY <1>4 DEF Uppers, Dead
<1>6. /\ b \in [Timers -> Fields] /\ \A t \in Timers : b[t].deadline = nodes[t].deadline /\ b[t].depth = nodes[t].depth
      /\ \A t \in Timers : IF Dead(t, "prev") THEN b[t].prev = NULL /\ b[t].next = NULL ELSE b[t] = nodes[t]
  <2>1. nodes \in [Timers -> Fields]
    BY <1>1 DEF TypeOK
  <2>2. CASE PushReturns
    BY <1>2, <2>1, <2>2 DEF PushReturns, Dead
  <2>3. CASE PopReturns
    <3>1. top_ \in Timers /\ (\A t : Dead(t, "prev") <=> t = top_) /\ nodes[top_] \in Fields
      BY <1>1, <2>1, <2>3 DEF PopReturns, Dead, MergeOK
    <3>2. PICK f : f = [nodes[top_] EXCEPT !.prev = NULL, !.next = NULL]
      OBVIOUS
    <3>3. f \in Fields /\ f.prev = NULL /\ f.next = NULL /\ f.deadline = nodes[top_].deadline
          /\ f.depth = nodes[top_].depth
      BY <3>1, <3>2 DEF Fields
    <3>4. b = [nodes EXCEPT ![top_] = f]
      BY <1>2, <2>1, <2>3, <3>1, <3>2 DEF PopReturns, Unlink
    <3> QED BY <2>1, <3>1, <3>3, <3>4
  <2> QED BY <2>2, <2>3
<1>7. /\ \A t \in InHeap : \A side \in Sides : ~Dead(t, side)
      /\ \A t \in InHeap : b[t] = nodes[t] /\ t \in Timers
      /\ \A t, side : Dead(t, side) <=> Dead(t, "prev")
  BY <1>1, <1>5, <1>6 DEF Dead, MergeOK, HeapIs
<1>8. TypeOK'
  BY <1>1, <1>2, <1>4, <1>6 DEF TypeOK
<1>9. Roots' = Roots
  BY <1>4, <1>5 DEF Roots
<1>10. InHeap' = InHeap
  <2>1. \A S \in SUBSET Timers : Closed(S)' <=> Closed(S)
    <3> SUFFICES ASSUME NEW S \in SUBSET Timers PROVE Closed(S)' <=> Closed(S)
      OBVIOUS
    <3>1. ASSUME NEW t \in S, NEW side \in Sides
          PROVE  (b[t][side] = NULL \/ b[t][side] \in S)
                   <=> (nodes[t][side] = NULL \/ nodes[t][side] \in S \/ Dead(t, side))
      BY <1>6, <1>7 DEF Sides
    <3> QED BY <3>1, <1>2, <1>5 DEF Closed, Sides
  <2> QED BY <2>1, <1>1, <1>8, <1>9, SameHeap DEF Good
<1>11. \A t \in InHeap : \A side \in Sides : Live(t, side)' <=> Live(t, side)
  BY <1>2, <1>5, <1>7 DEF Live
<1>12. MergeOK'
  BY <1>1, <1>4, <1>5 DEF MergeOK
<1>13. Apart'
  BY <1>1, <1>2, <1>7, <1>9, <1>10, <1>11 DEF Apart
<1>14. HeapOrder'
  <2> SUFFICES ASSUME NEW t \in InHeap, NEW side \in Sides, Live(t, side)
               PROVE  b[t].deadline <= b[b[t][side]].deadline
    BY <1>2, <1>4, <1>10, <1>11 DEF HeapOrder
  <2>1. nodes[t][side] \in InHeap
    BY <1>1 DEF HeapIs
  <2> QED BY <2>1, <1>1, <1>7 DEF HeapOrder
<1>15. LocalPaths'
  <2> SUFFICES ASSUME NEW t \in InHeap
               PROVE  /\ b[t].depth = Depth(b, b[t].next) + 1
                      /\ Depth(b, b[t].next) <= Depth(b, b[t].prev)
    BY <1>2, <1>10 DEF LocalPaths
  <2>1. nodes[t].prev \in Timers \cup {NULL} /\ nodes[t].next \in Timers \cup {NULL}
    BY <1>1, <1>7 DEF TypeOK, Fields
  <2>2. Depth(b, nodes[t].prev) = Depth(nodes, nodes[t].prev)
        /\ Depth(b, nodes[t].next) = Depth(nodes, nodes[t].next)
    BY <2>1, <1>6 DEF Depth
  <2> QED BY <2>2, <1>1, <1>5, <1>7 DEF LocalPaths
<1>16. OutsideUnlinked'
  BY <1>1, <1>2, <1>5, <1>6, <1>10 DEF OutsideUnlinked
<1> QED BY <1>2, <1>6, <1>7, <1>8, <1>10, <1>12, <1>13, <1>14, <1>15, <1>16, TreeIsNext DEF HeapInd

\* A step that does nothing to the heap.
LEMMA HeapKept ==
  ASSUME HeapInd, UNCHANGED heapVars
  PROVE  HeapInd' /\ InHeap' = InHeap
<1>1. InHeap' = InHeap
  BY DEF heapVars, merging, InHeap, Reached, Closed, Roots, Dead, Uppers
<1>2. Roots' = Roots /\ Uppers' = Uppers
  BY DEF heapVars, merging, Roots, Uppers
<1>3. \A t, side : Dead(t, side)' <=> Dead(t, side)
  BY <1>2 DEF heapVars, merging, Dead
<1>4. \A t, side : Live(t, side)' <=> Live(t, side)
  BY <1>3 DEF heapVars, merging, Live
<1>5. TypeOK' /\ MergeOK'
  BY <1>1, <1>2 DEF heapVars, merging, HeapInd, TypeOK, MergeOK
<1>6. Apart'
  BY <1>1, <1>2, <1>4, TreeIs DEF heapVars, merging, HeapInd, Apart
<1>7. HeapOrder'
  BY <1>1, <1>4 DEF heapVars, merging, HeapInd, HeapOrder
<1>8. LocalPaths' /\ OutsideUnlinked'
  BY <1>1, <1>2, <1>3 DEF heapVars, merging, HeapInd, LocalPaths, OutsideUnlinked
<1> QED BY <1>1, <1>5, <1>6, <1>7, <1>8, TreeIsNext DEF HeapInd

LEMMA HeapBegins ==
  ASSUME HeapInit
  PROVE  HeapInd /\ InHeap = {}
<1>1. PICK d \in Deadlines : nodes = [t \in Timers |-> Node(0, d)]
  BY DEF HeapInit
<1>2. /\ top_ = NULL /\ call = "none" /\ lhs = NULL /\ rhs = NULL /\ uppers = << >> /\ last = NULL
      /\ \A t \in Timers : nodes[t] = [prev |-> NULL, next |-> NULL, depth |-> 0, deadline |-> d]
  BY <1>1 DEF HeapInit, Node
<1>3. TypeOK
  BY <1>1, <1>2, EmptySeq DEF TypeOK, Fields, Node
<1>4. Uppers = {} /\ Roots = {} /\ \A t, side : ~Dead(t, side)
  BY <1>2 DEF Uppers, Roots, Dead
<1>5. InHeap = {}
  <2>1. {} \in SUBSET Timers /\ Closed({})
    BY DEF Closed
  <2> QED BY <2>1, <1>4 DEF InHeap, Reached
<1>6. MergeOK /\ Apart /\ HeapOrder /\ LocalPaths /\ OutsideUnlinked
  BY <1>2, <1>4, <1>5 DEF MergeOK, Apart, HeapOrder, LocalPaths, OutsideUnlinked
<1> QED BY <1>3, <1>5, <1>6, TreeIs DEF HeapInd

\* The top precedes every timer: those that it precedes are closed under the links.
LEMMA TopIsFirst ==
  ASSUME HeapInd, call = "none", NEW t \in InHeap
  PROVE  top_ \in InHeap /\ nodes[top_].deadline <= nodes[t].deadline
<1>1. TypeOK /\ MergeOK /\ HeapOrder /\ HeapIs
  BY HeapIsReached DEF HeapInd
<1>2. Roots = {top_} \ {NULL} /\ \A x, side : ~Dead(x, side)
  BY <1>1 DEF Roots, Dead, MergeOK, Uppers
<1>3. \A x \in Timers : nodes[x].deadline \in Int
  BY <1>1 DEF TypeOK, Fields
<1> DEFINE S == {x \in InHeap : top_ \in InHeap /\ nodes[top_].deadline <= nodes[x].deadline}
<1>4. S \in SUBSET Timers /\ InHeap \subseteq Timers
  BY <1>1 DEF HeapIs
<1>5. Roots \subseteq S
  <2>1. ASSUME top_ # NULL PROVE top_ \in S
    <3>1. top_ \in InHeap
      BY <2>1, <1>1, <1>2 DEF HeapIs
    <3> QED BY <3>1, <1>3, <1>4
  <2> QED BY <2>1, <1>2
<1>6. Closed(S)
  <2> SUFFICES ASSUME NEW x \in S, NEW side \in Sides, nodes[x][side] # NULL PROVE nodes[x][side] \in S
    BY DEF Closed, Sides
  <2>1. x \in InHeap /\ top_ \in InHeap /\ nodes[top_].deadline <= nodes[x].deadline
    OBVIOUS
  <2>2. nodes[x][side] \in InHeap /\ nodes[x].deadline <= nodes[nodes[x][side]].deadline
    BY <2>1, <1>1, <1>2 DEF HeapIs, HeapOrder, Live
  <2> QED BY <2>1, <2>2, <1>3, <1>4
<1>7. InHeap \subseteq S
  BY <1>1, <1>4, <1>5, <1>6 DEF HeapIs
<1> QED BY <1>7

-----------------------------------------------------------------------------
(* The size of the heap                                                      *)

\* Induction, over a set: a nonempty set of numbers has a least element.
LEMMA Least ==
  ASSUME NEW T, T \subseteq Nat, T # {}
  PROVE  \E m \in T : \A n \in T : m <= n
<1>1. PICK m \in T : \A n \in T : ~ (<<n, m>> \in OpToRel(<, Nat))
  BY NatLessThanWellFounded, WFMin, Zenon
<1>2. \A n \in T : n < m => <<n, m>> \in OpToRel(<, Nat)
  BY DEF OpToRel
<1>3. \A n \in T : ~ (n < m)
  BY <1>1, <1>2, Zenon
<1> QED BY <1>3

LEMMA SetInduction ==
  ASSUME NEW S, 0 \in S, \A n \in Nat : n \in S => n + 1 \in S
  PROVE  Nat \subseteq S
<1> DEFINE T == Nat \ S
<1> SUFFICES ASSUME T # {} PROVE FALSE
  OBVIOUS
<1>1. PICK m \in T : \A n \in T : m <= n
  BY Least
<1>2. m # 0 /\ m - 1 \in Nat /\ m - 1 \notin T
  BY <1>1
<1> QED BY <1>1, <1>2

\* f has the first powers of 2, to the n-th.
Powers(f, n) == f \in [0 .. n -> Nat] /\ f[0] = 1 /\ \A k \in 1 .. n : f[k] = 2 * f[k - 1]

\* The recursion defines a function.
LEMMA PowersOf2 ==
  /\ PowerOf2[0] = 1
  /\ \A n \in Nat : PowerOf2[n] \in Nat /\ PowerOf2[n + 1] = 2 * PowerOf2[n]
<1>1. \A n \in Nat : \E f : Powers(f, n)
  <2> DEFINE S == {n \in Nat : \E f : Powers(f, n)}
  <2>1. 0 \in S
    <3>1. Powers([k \in 0 .. 0 |-> 1], 0)
      BY DEF Powers
    <3> QED BY <3>1
  <2>2. ASSUME NEW n \in Nat, n \in S PROVE n + 1 \in S
    <3>1. PICK f : Powers(f, n)
      BY <2>2
    <3>2. PICK g : g = [k \in 0 .. n + 1 |-> IF k = n + 1 THEN 2 * f[n] ELSE f[k]]
      OBVIOUS
    <3>3. \A k \in 0 .. n : f[k] \in Nat
      BY <3>1 DEF Powers
    <3>4. g \in [0 .. n + 1 -> Nat] /\ g[n + 1] = 2 * f[n] /\ \A k \in 0 .. n : g[k] = f[k]
      BY <3>2, <3>3
    <3>5. ASSUME NEW k \in 1 .. n + 1 PROVE g[k] = 2 * g[k - 1]
      <4>1. k - 1 \in 0 .. n /\ g[k - 1] = f[k - 1]
        BY <3>4
      <4>2. CASE k = n + 1
        <5>1. k - 1 = n
          BY <4>2
        <5> QED BY <5>1, <4>1, <4>2, <3>4
      <4>3. CASE k # n + 1
        <5>1. k \in 1 .. n /\ k \in 0 .. n
          BY <4>3
        <5> QED BY <5>1, <4>1, <3>1, <3>4 DEF Powers
      <4> QED BY <4>2, <4>3
    <3>6. Powers(g, n + 1)
      BY <3>1, <3>4, <3>5 DEF Powers
    <3> QED BY <3>6
  <2> HIDE DEF S
  <2>3. Nat \subseteq S
    BY <2>1, <2>2, SetInduction
  <2> QED BY <2>3 DEF S
<1>2. ASSUME NEW n \in Nat, NEW f, NEW g, Powers(f, n), Powers(g, n + 1)
      PROVE  f[n] = g[n]
  <2> DEFINE S == {k \in Nat : k <= n => f[k] = g[k]}
  <2>1. 0 \in S
    BY <1>2 DEF Powers
  <2>2. ASSUME NEW k \in Nat, k \in S PROVE k + 1 \in S
    <3> SUFFICES ASSUME k + 1 <= n PROVE f[k + 1] = g[k + 1]
      OBVIOUS
    <3>1. k + 1 \in 1 .. n /\ k + 1 \in 1 .. n + 1 /\ (k + 1) - 1 = k /\ k <= n
      OBVIOUS
    <3>2. f[k + 1] = 2 * f[k] /\ g[k + 1] = 2 * g[k]
      BY <3>1, <1>2 DEF Powers
    <3> QED BY <3>1, <3>2, <2>2
  <2> HIDE DEF S
  <2>3. n \in S
    BY <2>1, <2>2, SetInduction
  <2> QED BY <2>3 DEF S
<1> DEFINE p == [n \in Nat |-> (CHOOSE f : Powers(f, n))[n]]
<1>3. \A n \in Nat : Powers(CHOOSE f : Powers(f, n), n)
  BY <1>1
<1>4. p[0] = 1 /\ \A n \in Nat : p[n] \in Nat /\ p[n + 1] = 2 * p[n]
  <2>1. p[0] = 1
    BY <1>3 DEF Powers
  <2>2. ASSUME NEW n \in Nat PROVE p[n] \in Nat /\ p[n + 1] = 2 * p[n]
    <3>1. PICK f : Powers(f, n) /\ p[n] = f[n]
      BY <1>3
    <3>2. PICK g : Powers(g, n + 1) /\ p[n + 1] = g[n + 1]
      <4>1. n + 1 \in Nat
        OBVIOUS
      <4> QED BY <4>1, <1>3
    <3>3. f[n] = g[n]
      BY <3>1, <3>2, <1>2
    <3>4. f[n] \in Nat /\ g[n + 1] = 2 * g[n]
      BY <3>1, <3>2 DEF Powers
    <3> QED BY <3>1, <3>2, <3>3, <3>4
  <2> QED BY <2>1, <2>2
<1> HIDE DEF p
<1>5. p = [n \in Nat |-> IF n = 0 THEN 1 ELSE 2 * p[n - 1]]
  <2>1. ASSUME NEW n \in Nat PROVE p[n] = IF n = 0 THEN 1 ELSE 2 * p[n - 1]
    <3>1. n # 0 => n - 1 \in Nat /\ (n - 1) + 1 = n
      OBVIOUS
    <3> QED BY <3>1, <1>4
  <2>2. p = [n \in Nat |-> p[n]]
    BY DEF p
  <2> QED BY <2>1, <2>2
<1>6. PowerOf2 = [n \in Nat |-> IF n = 0 THEN 1 ELSE 2 * PowerOf2[n - 1]]
  BY <1>5 DEF PowerOf2
<1>7. \A n \in Nat : PowerOf2[n] = IF n = 0 THEN 1 ELSE 2 * PowerOf2[n - 1]
  BY <1>6
<1> DEFINE S == {n \in Nat : PowerOf2[n] \in Nat}
<1>8. 0 \in S /\ \A n \in Nat : n \in S => n + 1 \in S
  <2>1. PowerOf2[0] = 1
    BY <1>7
  <2>2. ASSUME NEW n \in Nat PROVE PowerOf2[n + 1] = 2 * PowerOf2[n]
    <3>1. n + 1 \in Nat /\ n + 1 # 0 /\ (n + 1) - 1 = n
      OBVIOUS
    <3> QED BY <3>1, <1>7
  <2> QED BY <2>1, <2>2
<1> HIDE DEF S
<1>9. \A n \in Nat : n \in S
  BY <1>8, SetInduction
<1>10. ASSUME NEW n \in Nat PROVE PowerOf2[n + 1] = 2 * PowerOf2[n]
  <2>1. n + 1 \in Nat /\ n + 1 # 0 /\ (n + 1) - 1 = n
    OBVIOUS
  <2> QED BY <2>1, <1>7
<1> QED BY <1>7, <1>9, <1>10 DEF S

\* What hangs on t, with t.
Sub(t) == Reached({t})

\* Between the calls of Merge every link leads on.
Still ==
  /\ HeapIs /\ Apart /\ Closed(InHeap) /\ (top_ # NULL => Roots = {top_})
  /\ \A S, t, side : t \in S /\ Closed(S) /\ side \in Sides => nodes[t][side] \in S \cup {NULL}
  /\ \A S : (\A t \in S : \A side \in Sides : nodes[t][side] \in S \cup {NULL}) => Closed(S)
  /\ \A t, side : Live(t, side) <=> nodes[t][side] # NULL

LEMMA HeapIsStill ==
  ASSUME HeapInd, call = "none"
  PROVE  Still
<1>1. HeapIs /\ Apart /\ MergeOK
  BY HeapIsReached, TreeIs DEF HeapInd
<1>2. Uppers = {} /\ Roots = {top_} \ {NULL}
  BY <1>1 DEF Uppers, Roots, MergeOK
<1>3. \A t, side : ~Dead(t, side)
  BY <1>2 DEF Dead
<1>4. \A t, side : Live(t, side) <=> nodes[t][side] # NULL
  BY <1>3 DEF Live
<1>5. \A S : Closed(S) <=> \A t \in S : \A side \in Sides : nodes[t][side] \in S \cup {NULL}
  BY <1>3 DEF Closed, Sides
<1>6. Closed(InHeap)
  BY <1>1, <1>4, <1>5 DEF HeapIs
<1> QED BY <1>1, <1>2, <1>4, <1>5, <1>6 DEF Still

LEMMA SubIs ==
  ASSUME Still, NEW t \in InHeap
  PROVE  /\ t \in Sub(t) /\ Sub(t) \subseteq InHeap
         /\ \A x \in Sub(t) : \A side \in Sides : nodes[x][side] \in Sub(t) \cup {NULL}
         /\ \A S \in SUBSET Timers : t \in S /\ Closed(S) => Sub(t) \subseteq S
<1>1. InHeap \in SUBSET Timers /\ Closed(InHeap) /\ {t} \in SUBSET Timers
  BY DEF Still, HeapIs
<1>2. \A x : x \in Sub(t) <=> x \in Timers /\ \A S \in SUBSET Timers : t \in S /\ Closed(S) => x \in S
  BY <1>1, ReachedIs DEF Sub
<1>3. t \in Sub(t) /\ Sub(t) \subseteq InHeap
  BY <1>1, <1>2
<1>4. ASSUME NEW x \in Sub(t), NEW side \in Sides, nodes[x][side] # NULL
      PROVE  nodes[x][side] \in Sub(t)
  <2>1. nodes[x][side] \in InHeap
    BY <1>1, <1>3, <1>4 DEF Still
  <2>2. ASSUME NEW S \in SUBSET Timers, t \in S, Closed(S) PROVE nodes[x][side] \in S
    <3>1. x \in S
      BY <1>2, <2>2
    <3> QED BY <3>1, <2>2, <1>4 DEF Still
  <2> QED BY <1>1, <1>2, <2>1, <2>2
<1> QED BY <1>2, <1>3, <1>4

\* All but the root of a subtree are linked in it.
LEMMA Parent ==
  ASSUME Still, NEW t \in InHeap, NEW x \in Sub(t), x # t
  PROVE  \E y \in Sub(t) : \E side \in Sides : nodes[y][side] = x
<1> SUFFICES ASSUME \A y \in Sub(t) : \A side \in Sides : nodes[y][side] # x PROVE FALSE
  OBVIOUS
<1> DEFINE S == Sub(t) \ {x}
<1>1. t \in S /\ S \in SUBSET Timers
  BY SubIs DEF Still, HeapIs
<1>2. \A y \in S : \A side \in Sides : nodes[y][side] \in S \cup {NULL}
  BY SubIs
<1>3. Closed(S)
  BY <1>2 DEF Still
<1> QED BY <1>1, <1>3, SubIs

\* One parent.
LEMMA OneParent ==
  ASSUME Still, NEW t \in InHeap, NEW side \in Sides, NEW u \in InHeap, NEW other \in Sides,
         nodes[t][side] # NULL, nodes[u][other] = nodes[t][side]
  PROVE  t = u /\ side = other /\ nodes[t][side] \notin Roots /\ nodes[t][side] \in InHeap
BY DEF Still, Apart, HeapIs

LEMMA Child ==
  ASSUME Still, NEW t \in InHeap, NEW side \in Sides, NEW c, c = nodes[t][side], c # NULL
  PROVE  c \in InHeap /\ Sub(c) \subseteq Sub(t) /\ t \notin Sub(c)
<1>1. c \in InHeap /\ c \notin Roots
  BY OneParent
<1>2. Sub(c) \subseteq Sub(t)
  <2>1. c \in Sub(t) /\ Sub(t) \in SUBSET Timers
    BY SubIs DEF Still, HeapIs
  <2>2. Closed(Sub(t))
    BY SubIs DEF Still
  <2> QED BY <1>1, <2>1, <2>2, SubIs
<1>3. ASSUME t \in Sub(c) PROVE FALSE
  <2> DEFINE S == InHeap \ Sub(c)
  <2>1. S \in SUBSET Timers
    BY DEF Still, HeapIs
  <2>2. Roots \subseteq S
    <3> SUFFICES ASSUME NEW r \in Roots, r \in Sub(c) PROVE FALSE
      BY DEF Still, HeapIs
    <3>1. PICK y \in Sub(c), other \in Sides : nodes[y][other] = r
      BY <1>1, Parent
    <3>2. y \in InHeap /\ r # NULL
      BY <1>1, SubIs DEF Roots
    <3> QED BY <3>1, <3>2, OneParent
  <2>3. ASSUME NEW x \in S, NEW other \in Sides, nodes[x][other] # NULL
        PROVE  nodes[x][other] \in S
    <3>1. x \in InHeap /\ nodes[x][other] \in InHeap
      BY <2>3, OneParent
    <3>2. ASSUME nodes[x][other] \in Sub(c) PROVE FALSE
      <4>1. CASE nodes[x][other] = c
        BY <4>1, <3>1, <2>3, <1>3, OneParent
      <4>2. CASE nodes[x][other] # c
        <5>1. PICK y \in Sub(c), third \in Sides : nodes[y][third] = nodes[x][other]
          BY <1>1, <3>2, <4>2, Parent
        <5>2. y \in InHeap
          BY <1>1, SubIs
        <5> QED BY <5>1, <5>2, <3>1, <2>3, OneParent
      <4> QED BY <4>1, <4>2
    <3> QED BY <3>1, <3>2
  <2>4. Closed(S)
    BY <2>3 DEF Still
  <2>5. InHeap \subseteq S
    BY <2>1, <2>2, <2>4 DEF Still, HeapIs
  <2> QED BY <2>5, <1>1, SubIs
<1> QED BY <1>1, <1>2, <1>3

LEMMA Siblings ==
  ASSUME Still, NEW t \in InHeap, NEW p, p = nodes[t].prev, p # NULL, NEW n, n = nodes[t].next, n # NULL
  PROVE  Sub(p) \cap Sub(n) = {}
<1>1. /\ p \in InHeap /\ t \notin Sub(p) /\ n \in InHeap /\ t \notin Sub(n)
      /\ "prev" \in Sides /\ "next" \in Sides /\ p = nodes[t]["prev"] /\ n = nodes[t]["next"]
  <2>1. "prev" \in Sides /\ "next" \in Sides /\ p = nodes[t]["prev"] /\ n = nodes[t]["next"]
    BY DEF Sides
  <2> QED BY <2>1, Child
<1>2. p # n
  BY <1>1, OneParent
<1>3. p \notin Sub(n)
  <2> SUFFICES ASSUME p \in Sub(n) PROVE FALSE
    OBVIOUS
  <2>1. PICK y \in Sub(n), side \in Sides : nodes[y][side] = p
    BY <1>1, <1>2, Parent
  <2>2. y \in InHeap
    BY <1>1, SubIs
  <2> QED BY <2>1, <2>2, <1>1, OneParent
<1> DEFINE S == Sub(p) \ Sub(n)
<1>4. p \in S /\ S \in SUBSET Timers
  BY <1>1, <1>3, SubIs DEF Still, HeapIs
<1>5. ASSUME NEW x \in S, NEW side \in Sides, nodes[x][side] # NULL
      PROVE  nodes[x][side] \in S
  <2>1. x \in InHeap /\ nodes[x][side] \in Sub(p) /\ x # t
    BY <1>1, <1>5, SubIs
  <2>2. ASSUME nodes[x][side] \in Sub(n) PROVE FALSE
    <3>1. CASE nodes[x][side] = n
      BY <3>1, <2>1, <1>1, OneParent
    <3>2. CASE nodes[x][side] # n
      <4>1. PICK y \in Sub(n), other \in Sides : nodes[y][other] = nodes[x][side]
        BY <1>1, <2>2, <3>2, Parent
      <4>2. y \in InHeap
        BY <1>1, SubIs
      <4> QED BY <4>1, <4>2, <2>1, <1>5, OneParent
    <3> QED BY <3>1, <3>2
  <2> QED BY <2>1, <2>2
<1>6. Closed(S)
  BY <1>5 DEF Still
<1> QED BY <1>1, <1>4, <1>6, SubIs

\* A subtree has its root, and what hangs on both sides of it.
LEMMA SizeOfSub ==
  ASSUME Still, IsFiniteSet(Timers), NEW t \in InHeap
  PROVE  /\ IsFiniteSet(Sub(t)) /\ Cardinality(Sub(t)) \in Nat /\ Cardinality(Sub(t)) >= 1
         /\ nodes[t].prev # NULL /\ nodes[t].next # NULL =>
              Cardinality(Sub(nodes[t].prev)) + Cardinality(Sub(nodes[t].next)) + 1 <= Cardinality(Sub(t))
<1>1. \A u \in InHeap : IsFiniteSet(Sub(u)) /\ Cardinality(Sub(u)) \in Nat
  <2> SUFFICES ASSUME NEW u \in InHeap PROVE IsFiniteSet(Sub(u)) /\ Cardinality(Sub(u)) \in Nat
    OBVIOUS
  <2>1. Sub(u) \in SUBSET Timers
    BY SubIs DEF Still, HeapIs
  <2>2. IsFiniteSet(Sub(u))
    BY <2>1, FS_Subset
  <2> QED BY <2>2, FS_CardinalityType
<1>2. Cardinality(Sub(t)) # 0
  BY <1>1, SubIs, FS_EmptySet
<1>3. ASSUME nodes[t].prev # NULL, nodes[t].next # NULL
      PROVE  Cardinality(Sub(nodes[t].prev)) + Cardinality(Sub(nodes[t].next)) + 1 <= Cardinality(Sub(t))
  <2>1. PICK p, n : p = nodes[t].prev /\ n = nodes[t].next
    OBVIOUS
  <2>2. /\ p \in InHeap /\ t \notin Sub(p) /\ Sub(p) \subseteq Sub(t)
        /\ n \in InHeap /\ t \notin Sub(n) /\ Sub(n) \subseteq Sub(t)
    <3>1. "prev" \in Sides /\ "next" \in Sides /\ p = nodes[t]["prev"] /\ n = nodes[t]["next"]
      BY <2>1 DEF Sides
    <3> QED BY <3>1, <2>1, <1>3, Child
  <2>3. PICK P, N, S : P = Sub(p) /\ N = Sub(n) /\ S = Sub(t)
    OBVIOUS
  <2>4. P \cap N = {} /\ t \notin P \cup N /\ (P \cup N) \cup {t} \in SUBSET S
    BY <1>3, <2>1, <2>2, <2>3, Siblings, SubIs
  <2>5. IsFiniteSet(P) /\ IsFiniteSet(N) /\ IsFiniteSet(S)
        /\ Cardinality(P) \in Nat /\ Cardinality(N) \in Nat /\ Cardinality(S) \in Nat
    BY <1>1, <2>2, <2>3
  <2>6. IsFiniteSet(P \cup N) /\ Cardinality(P \cup N) = Cardinality(P) + Cardinality(N) - Cardinality(P \cap N)
    BY <2>5, FS_Union
  <2>7. Cardinality(P \cap N) = 0
    BY <2>4, FS_EmptySet
  <2>8. Cardinality((P \cup N) \cup {t}) = Cardinality(P \cup N) + 1
    BY <2>4, <2>6, FS_AddElement
  <2>9. Cardinality((P \cup N) \cup {t}) <= Cardinality(S)
    BY <2>4, <2>5, FS_Subset
  <2> QED BY <2>1, <2>3, <2>5, <2>6, <2>7, <2>8, <2>9
<1> QED BY <1>1, <1>2, <1>3

\* By induction: a root of depth k has at least 2^k - 1 timers.
LEMMA LogDepth ==
  ASSUME HeapInd, call = "none", IsFiniteSet(Timers)
  PROVE  PowerOf2[Depth(nodes, top_)] <= Cardinality(InHeap) + 1
<1>1. Still /\ LocalPaths /\ TypeOK /\ MergeOK
  BY HeapIsStill DEF HeapInd
<1>2. \A t \in Timers : nodes[t].depth \in Nat
  BY <1>1 DEF TypeOK, Fields
<1>3. PICK K : K = {k \in Nat : \A t \in InHeap :
                                  k <= nodes[t].depth => PowerOf2[k] <= Cardinality(Sub(t)) + 1}
  OBVIOUS
<1>4. 0 \in K
  BY <1>1, <1>3, PowersOf2, SizeOfSub
<1>5. ASSUME NEW k \in Nat, k \in K PROVE k + 1 \in K
  <2> SUFFICES ASSUME NEW t \in InHeap, k + 1 <= nodes[t].depth
               PROVE  PowerOf2[k + 1] <= Cardinality(Sub(t)) + 1
    BY <1>3
  <2>1. PICK p, n, d : p = nodes[t].prev /\ n = nodes[t].next /\ d = nodes[t].depth
    OBVIOUS
  <2>2. /\ d = Depth(nodes, n) + 1 /\ Depth(nodes, n) <= Depth(nodes, p)
        /\ t \in Timers
    <3>1. Uppers = {}
      BY <1>1 DEF Uppers, MergeOK
    <3>2. t \in Timers
      BY <1>1 DEF Still, HeapIs
    <3> QED BY <3>1, <3>2, <2>1, <1>1 DEF LocalPaths
  <2>3. p \in InHeap \cup {NULL} /\ n \in InHeap \cup {NULL}
    <3>1. nodes[t]["prev"] \in InHeap \cup {NULL} /\ nodes[t]["next"] \in InHeap \cup {NULL}
      BY <1>1 DEF Still, Sides
    <3> QED BY <3>1, <2>1
  <2>4. Depth(nodes, n) \in Nat /\ Depth(nodes, p) \in Nat
    BY <2>3, <1>1, <1>2 DEF Depth, Still, HeapIs
  <2>5. k <= Depth(nodes, n) /\ k <= Depth(nodes, p)
    BY <2>1, <2>2, <2>4, <1>2
  <2>6. PowerOf2[k] \in Nat /\ PowerOf2[k + 1] = 2 * PowerOf2[k]
    BY PowersOf2
  <2>7. CASE k = 0
    BY <2>6, <2>7, <1>1, PowersOf2, SizeOfSub
  <2>8. CASE k # 0
    <3>1. p # NULL /\ n # NULL
      BY <2>5, <2>8 DEF Depth
    <3>2. PowerOf2[k] <= Cardinality(Sub(p)) + 1 /\ PowerOf2[k] <= Cardinality(Sub(n)) + 1
      BY <3>1, <2>3, <2>5, <1>3, <1>5 DEF Depth
    <3>3. Cardinality(Sub(p)) \in Nat /\ Cardinality(Sub(n)) \in Nat /\ Cardinality(Sub(t)) \in Nat
      BY <3>1, <2>3, <1>1, SizeOfSub
    <3>4. Cardinality(Sub(p)) + Cardinality(Sub(n)) + 1 <= Cardinality(Sub(t))
      BY <3>1, <2>1, <1>1, SizeOfSub
    <3> QED BY <3>2, <3>3, <3>4, <2>6
  <2> QED BY <2>7, <2>8
<1>6. Nat \subseteq K
  BY <1>4, <1>5, SetInduction
<1>7. InHeap \subseteq Timers /\ IsFiniteSet(InHeap) /\ Cardinality(InHeap) \in Nat
  <2>1. InHeap \in SUBSET Timers
    BY <1>1 DEF Still, HeapIs
  <2>2. IsFiniteSet(InHeap)
    BY <2>1, FS_Subset
  <2> QED BY <2>1, <2>2, FS_CardinalityType
<1>8. CASE top_ = NULL
  BY <1>7, <1>8, PowersOf2 DEF Depth
<1>9. CASE top_ # NULL
  <2>1. top_ \in InHeap
    BY <1>1, <1>9 DEF Still, HeapIs
  <2>2. PICK d : d = nodes[top_].depth
    OBVIOUS
  <2>3. d \in Nat /\ Depth(nodes, top_) = d
    BY <2>1, <2>2, <1>2, <1>7, <1>9 DEF Depth
  <2>4. PowerOf2[d] <= Cardinality(Sub(top_)) + 1
    BY <2>1, <2>2, <2>3, <1>3, <1>6
  <2>5. Sub(top_) \in SUBSET InHeap
    BY <2>1, <1>1, SubIs
  <2>6. Cardinality(Sub(top_)) <= Cardinality(InHeap)
    BY <2>5, <1>7, FS_Subset
  <2>7. Cardinality(Sub(top_)) \in Nat /\ PowerOf2[d] \in Nat
    BY <2>1, <2>3, <1>1, SizeOfSub, PowersOf2
  <2> QED BY <2>3, <2>4, <2>6, <2>7, <1>7
<1> QED BY <1>8, <1>9

LEMMA HeapIsRight ==
  ASSUME HeapInd, IsFiniteSet(Timers)
  PROVE  HeapInv
BY LogDepth DEF HeapInd, HeapInv, LocalPaths, ShortPaths

-----------------------------------------------------------------------------
(* The loop                                                                  *)

USE SandboxAssumption

\* The arithmetic of size_t: -1 is its largest value, and count++ followed by count - 1
\* gives the count back.
LEMMA Sizes ==
  /\ \A n \in 0 .. SizeMax : Size(n) = n
  /\ Size(SizeMax + 1) = 0 /\ Size(-1) = SizeMax
  /\ \A n \in 0 .. SizeMax : Size(Size(n + 1) - 1) = n
<1>1. \A n \in 0 .. SizeMax : Size(n) = n
  BY DEF Size
<1>2. Size(SizeMax + 1) = 0
  BY DEF Size
<1>3. Size(-1) = SizeMax
  BY DEF Size
<1>4. ASSUME NEW n \in 0 .. SizeMax PROVE Size(Size(n + 1) - 1) = n
  <2>1. CASE n = SizeMax
    <3>1. Size(n + 1) - 1 = -1
      BY <1>2, <2>1
    <3> QED BY <1>3, <2>1, <3>1
  <2>2. CASE n # SizeMax
    <3>1. n + 1 \in 0 .. SizeMax
      BY <2>2
    <3>2. Size(n + 1) - 1 = n
      BY <1>1, <3>1
    <3> QED BY <1>1, <3>2
  <2> QED BY <2>1, <2>2
<1> QED BY <1>1, <1>2, <1>3, <1>4

\* DeadlineOrder, without the sequence of deadlines.
InOrder ==
  /\ \A i, j \in DOMAIN task_queue_ :
       i < j /\ Deadline(task_queue_[j]) # -1 => Deadline(task_queue_[i]) <= Deadline(task_queue_[j])
  /\ \A i \in DOMAIN task_queue_ : Deadline(task_queue_[i]) <= now_

LEMMA OrderIs == DeadlineOrder <=> InOrder
BY DEF DeadlineOrder, InOrder, Deadline

LEMMA OrderIsNext == DeadlineOrder' <=> InOrder'
BY OrderIs, PTL

LEMMA DeadlinesAre ==
  ASSUME TypeOK
  PROVE  \A t \in Timers : Deadline(t) \in Int /\ Deadline(t) \in Deadlines
BY DEF TypeOK, Fields, Deadline

LEMMA Appended ==
  ASSUME NEW s \in Seq(Timers), NEW x \in Timers, NEW r, r = Append(s, x)
  PROVE  /\ r \in Seq(Timers) /\ \A i \in DOMAIN r : i \in Int
         /\ \A i \in DOMAIN s : i \in DOMAIN r /\ r[i] = s[i]
         /\ \E k \in DOMAIN r : r[k] = x /\ \A i \in DOMAIN r :
              (i \in DOMAIN s /\ r[i] = s[i] /\ i < k) \/ i = k
<1>1. r \in Seq(Timers) /\ Len(s) \in Nat /\ Len(r) = Len(s) + 1 /\ r[Len(s) + 1] = x
      /\ (\A i \in 1 .. Len(s) : r[i] = s[i])
  BY AppendProperties, LenProperties
<1>2. DOMAIN s = 1 .. Len(s) /\ DOMAIN r = 1 .. Len(s) + 1
  BY <1>1, LenProperties
<1> QED BY <1>1, <1>2

\* s is the beginning of r, and u the rest.
IsJoined(s, u, r) ==
  /\ r \in Seq(Timers) /\ \A i \in DOMAIN r : i \in Int
  /\ \A i \in DOMAIN s : i \in DOMAIN r /\ r[i] = s[i]
  /\ \A j \in DOMAIN u : \E i \in DOMAIN r : r[i] = u[j]
  /\ \A i \in DOMAIN r :
       \/ i \in DOMAIN s /\ r[i] = s[i] /\ i <= Len(s)
       \/ i > Len(s) /\ i - Len(s) \in DOMAIN u /\ r[i] = u[i - Len(s)]
  /\ Len(s) \in Nat

LEMMA Joined ==
  ASSUME NEW s \in Seq(Timers), NEW u \in Seq(Timers), NEW r, r = s \o u
  PROVE  IsJoined(s, u, r)
<1>1. /\ r \in Seq(Timers) /\ Len(s) \in Nat /\ Len(u) \in Nat /\ Len(r) = Len(s) + Len(u)
      /\ \A i \in 1 .. Len(s) + Len(u) : r[i] = IF i <= Len(s) THEN s[i] ELSE u[i - Len(s)]
  BY ConcatProperties, LenProperties
<1>2. DOMAIN s = 1 .. Len(s) /\ DOMAIN u = 1 .. Len(u) /\ DOMAIN r = 1 .. Len(s) + Len(u)
  BY <1>1, LenProperties
<1>3. ASSUME NEW j \in DOMAIN u PROVE \E i \in DOMAIN r : r[i] = u[j]
  <2>1. j + Len(s) \in DOMAIN r /\ r[j + Len(s)] = u[j]
    BY <1>1, <1>2
  <2> QED BY <2>1
<1>4. ASSUME NEW i \in DOMAIN r
      PROVE  \/ i \in DOMAIN s /\ r[i] = s[i] /\ i <= Len(s)
             \/ i > Len(s) /\ i - Len(s) \in DOMAIN u /\ r[i] = u[i - Len(s)]
  BY <1>1, <1>2
<1>5. /\ \A i \in DOMAIN s : i \in DOMAIN r /\ r[i] = s[i]
      /\ \A i \in DOMAIN r : i \in Int
  BY <1>1, <1>2
<1> QED BY <1>1, <1>3, <1>4, <1>5 DEF IsJoined

\* What is gone is a finite set, of fewer tasks than a size_t can count.
LEMMA GoneIsFew ==
  IsFiniteSet(Gone) /\ Cardinality(Gone) \in Nat /\ Cardinality(Gone) < SizeMax
<1>1. Gone \in SUBSET Timers
  BY DEF Gone
<1>2. IsFiniteSet(Gone) /\ Cardinality(Gone) <= Cardinality(Timers)
  BY <1>1, FS_Subset
<1>3. Cardinality(Gone) \in Nat /\ Cardinality(Timers) \in Nat
  BY <1>2, FS_CardinalityType
<1> QED BY <1>2, <1>3

\* No task changes its place.
LEMMA PlacesSame ==
  ASSUME TypeOK, PlacesApart, InHeap' = InHeap, Coming' = Coming, UNCHANGED <<task_queue_, unused>>,
         \A t \in Timers : nodes'[t].deadline = nodes[t].deadline
  PROVE  PlacesApart' /\ InQueue' = InQueue /\ InComing' = InComing /\ Gone' = Gone
<1>1. InQueue' = InQueue /\ InComing' = InComing
  BY DEF InQueue, InComing
<1> QED BY <1>1 DEF PlacesApart, Gone, Deadline

\* A step of Merge, and the end of it.
LEMMA LoopMerges ==
  ASSUME TypeOK, LoopInd, InHeap' = InHeap, Coming' = Coming,
         UNCHANGED <<task_queue_, now_, mode, calls, unused>>,
         \A t \in Timers : nodes'[t].deadline = nodes[t].deadline,
         call' \in {call, "none"}, ready' \in Seq(Timers), mode # "ready" => ready' = ready,
         InHeap \subseteq Timers, Coming \in Seq(Timers)
  PROVE  LoopInd'
<1>1. PlacesApart' /\ InQueue' = InQueue /\ InComing' = InComing /\ Gone' = Gone
  BY PlacesSame DEF LoopInd
<1>2. /\ \A i \in DOMAIN Coming : Coming[i] \in Timers
      /\ \A i \in DOMAIN task_queue_ : task_queue_[i] \in Timers
      /\ InQueue \subseteq Timers
  BY DEF LoopInd, LoopTypeOK, InQueue
<1>3. \A t \in Timers : Deadline(t)' = Deadline(t)
  BY DEF Deadline
<1>4. LoopTypeOK' /\ ModeOK' /\ Counted'
  BY <1>1 DEF LoopInd, LoopTypeOK, ModeOK, Counted, CountIsRight, calls
<1>5. InTime'
  BY <1>1, <1>2, <1>3 DEF LoopInd, InTime
<1>6. InOrder'
  BY <1>2, <1>3, OrderIs DEF LoopInd, InOrder
<1> QED BY <1>1, <1>4, <1>5, <1>6, OrderIsNext DEF LoopInd

\* What every step of the loop starts from.
Facts ==
  /\ TypeOK /\ MergeOK /\ HeapIs /\ call = "none" /\ Coming = ready
  /\ task_queue_ \in Seq(Timers) /\ ready \in Seq(Timers) /\ now_ \in 0 .. MaxTime
  /\ InQueue \subseteq Timers /\ InComing \subseteq Timers /\ InHeap \subseteq Timers
  /\ \A i \in DOMAIN task_queue_ : task_queue_[i] \in InQueue
  /\ \A i \in DOMAIN ready : ready[i] \in InComing
  /\ \A t \in Timers : Deadline(t) \in Int /\ Deadline(t) \in Deadlines
  /\ InOrder /\ PlacesApart /\ InTime /\ ModeOK /\ LoopTypeOK /\ Counted

LEMMA FactsHold ==
  ASSUME HeapInd, LoopInd, call = "none"
  PROVE  Facts
<1>1. TypeOK /\ MergeOK /\ HeapIs
  BY HeapIsReached DEF HeapInd
<1>2. Coming = ready
  BY DEF Coming
<1>3. /\ InQueue \subseteq Timers /\ InComing \subseteq Timers
      /\ \A i \in DOMAIN task_queue_ : task_queue_[i] \in InQueue
      /\ \A i \in DOMAIN ready : ready[i] \in InComing
  BY <1>2 DEF LoopInd, LoopTypeOK, InQueue, InComing
<1> QED BY <1>1, <1>2, <1>3, DeadlinesAre, OrderIs DEF Facts, LoopInd, LoopTypeOK, HeapIs

\* A step that moves neither tasks nor the heap.
LEMMA NothingMoves ==
  ASSUME Facts, UNCHANGED <<heapVars, task_queue_, ready, unused>>
  PROVE  /\ InHeap' = InHeap /\ Coming' = Coming /\ InQueue' = InQueue /\ InComing' = InComing
         /\ Gone' = Gone /\ PlacesApart' /\ call' = call /\ \A t : Deadline(t)' = Deadline(t)
<1>1. InHeap' = InHeap
  BY DEF heapVars, merging, InHeap, Reached, Closed, Roots, Dead, Uppers
<1>2. Coming' = Coming
  BY DEF heapVars, merging, Coming
<1> QED BY <1>1, <1>2, PlacesSame DEF Facts, heapVars, merging, Deadline

LEMMA RunAtMostTasksKeeps ==
  ASSUME Facts, NEW n \in Limits, RunAtMostTasks(n)
  PROVE  LoopInd'
<1>1. UNCHANGED <<heapVars, task_queue_, ready, unused>> /\ now_' = now_
      /\ mode = "idle" /\ mode' = "loop" /\ limit' = n /\ count' = 0 /\ completed' = 0
  BY DEF RunAtMostTasks
<1>2. /\ InHeap' = InHeap /\ Coming' = Coming /\ InQueue' = InQueue /\ InComing' = InComing
      /\ Gone' = Gone /\ PlacesApart' /\ call' = call /\ \A t : Deadline(t)' = Deadline(t)
  BY <1>1, NothingMoves
<1>3. LoopTypeOK' /\ ModeOK' /\ Counted'
  BY <1>1, <1>2, GoneIsFew DEF Facts, LoopTypeOK, ModeOK, Counted, CountIsRight
<1>4. InTime' /\ InOrder'
  BY <1>1, <1>2 DEF Facts, InTime, InOrder
<1> QED BY <1>2, <1>3, <1>4, OrderIsNext DEF LoopInd

LEMMA FinishKeeps ==
  ASSUME Facts, Finish \/ Return
  PROVE  LoopInd'
<1>1. UNCHANGED <<heapVars, task_queue_, ready, unused, now_, limit, count>>
      /\ mode # "ready" /\ mode' # "ready" /\ mode' \in {"loop", "idle"}
      /\ (mode' = "loop" => mode = "run" /\ completed' = completed + 1)
      /\ completed' \in {completed, completed + 1}
  BY DEF Finish, Return, calls
<1>2. /\ InHeap' = InHeap /\ Coming' = Coming /\ InQueue' = InQueue /\ InComing' = InComing
      /\ Gone' = Gone /\ PlacesApart' /\ call' = call /\ \A t : Deadline(t)' = Deadline(t)
  BY <1>1, NothingMoves
<1>3. LoopTypeOK' /\ ModeOK'
  BY <1>1, <1>2 DEF Facts, LoopTypeOK, ModeOK
<1>4. Counted'
  BY <1>1, <1>2 DEF Facts, Counted, CountIsRight
<1>5. InTime' /\ InOrder'
  BY <1>1, <1>2 DEF Facts, InTime, InOrder
<1> QED BY <1>2, <1>3, <1>4, <1>5, OrderIsNext DEF LoopInd

\* The clock moves forward: a timer in the heap is not overdue.
LEMMA AdvanceKeeps ==
  ASSUME Facts, NEW time, Advance(time), time \in now_ .. MaxTime
  PROVE  LoopInd'
<1>1. UNCHANGED <<heapVars, task_queue_, ready, unused, limit, count, completed>>
      /\ mode = "idle" /\ mode' = "ready" /\ now_' = time
  BY DEF Advance, calls
<1>2. /\ InHeap' = InHeap /\ Coming' = Coming /\ InQueue' = InQueue /\ InComing' = InComing
      /\ Gone' = Gone /\ PlacesApart' /\ call' = call /\ \A t : Deadline(t)' = Deadline(t)
  BY <1>1, NothingMoves
<1>3. LoopTypeOK' /\ ModeOK' /\ Counted'
  BY <1>1, <1>2 DEF Facts, LoopTypeOK, ModeOK, Counted, CountIsRight
<1>4. ready = << >> /\ DOMAIN Coming = {}
  BY <1>1 DEF Facts, ModeOK
<1>5. InTime'
  BY <1>1, <1>2, <1>4 DEF Facts, InTime
<1>6. InOrder'
  BY <1>1, <1>2 DEF Facts, InOrder
<1> QED BY <1>2, <1>3, <1>5, <1>6, OrderIsNext DEF LoopInd

LEMMA AdvanceByKeeps ==
  ASSUME Facts, NEW delta \in Delays, AdvanceClockBy(delta)
  PROVE  LoopInd'
<1>1. delta \in Nat /\ now_ \in 0 .. MaxTime /\ now_ + delta <= MaxTime /\ MaxTime \in Nat
  BY DEF AdvanceClockBy, Facts
<1>2. now_ + delta \in now_ .. MaxTime
  BY <1>1
<1> QED BY <1>2, AdvanceKeeps DEF AdvanceClockBy

LEMMA AdvanceToNextKeeps ==
  ASSUME Facts, AdvanceClockToNextDeadline
  PROVE  LoopInd'
<1>1. PICK time : time = IF top_ = NULL THEN now_ ELSE nodes[top_].deadline
  OBVIOUS
<1>2. Advance(time) /\ mode = "idle"
  BY <1>1 DEF AdvanceClockToNextDeadline, Advance
<1>3. time \in now_ .. MaxTime
  <2>1. CASE top_ = NULL
    BY <1>1, <2>1 DEF Facts
  <2>2. CASE top_ # NULL
    <3>1. top_ \in InHeap
      BY <2>2 DEF Facts, HeapIs, Roots
    <3>2. Deadline(top_) \in 0 .. MaxTime /\ now_ <= Deadline(top_)
      BY <1>2, <3>1 DEF Facts, InTime
    <3> QED BY <1>1, <2>2, <3>2 DEF Facts, Deadline
  <2> QED BY <2>1, <2>2
<1> QED BY <1>2, <1>3, AdvanceKeeps

\* Submit: the task goes to the end of the queue, and has no deadline.
LEMMA SubmitKeeps ==
  ASSUME Facts, NEW t \in Timers, Submit(t)
  PROVE  LoopInd'
<1>1. /\ UNCHANGED <<heapVars, now_, mode, ready, calls>> /\ mode \in {"idle", "run"}
      /\ t \in unused /\ unused' = unused \ {t} /\ UNCHANGED <<limit, count, completed, call, last, nodes>>
  BY DEF Submit, Calm, calls, heapVars, merging
<1>2. PICK q, r : q = task_queue_ /\ r = task_queue_'
  OBVIOUS
<1>3. q \in Seq(Timers) /\ r = Append(q, t)
  BY <1>2 DEF Submit, Facts
<1>4. /\ r \in Seq(Timers) /\ \A i \in DOMAIN r : i \in Int
      /\ \A i \in DOMAIN q : i \in DOMAIN r /\ r[i] = q[i]
  BY <1>3, Appended
<1>5. PICK k \in DOMAIN r : r[k] = t /\ \A i \in DOMAIN r :
        (i \in DOMAIN q /\ r[i] = q[i] /\ i < k) \/ i = k
  BY <1>3, Appended
<1>6. InHeap' = InHeap /\ Coming' = Coming /\ InComing' = InComing /\ (\A x : Deadline(x)' = Deadline(x))
  <2>1. InHeap' = InHeap
    BY <1>1 DEF heapVars, merging, InHeap, Reached, Closed, Roots, Dead, Uppers
  <2> QED BY <2>1, <1>1 DEF Coming, InComing, Deadline
<1>7. InQueue' = InQueue \cup {t}
  <2>1. \A x \in InQueue' : x \in InQueue \cup {t}
    BY <1>2, <1>5 DEF InQueue
  <2>2. \A x \in InQueue : x \in InQueue'
    BY <1>2, <1>4 DEF InQueue
  <2>3. t \in InQueue'
    BY <1>2, <1>5 DEF InQueue
  <2> QED BY <2>1, <2>2, <2>3
<1>8. t \notin InHeap \cup InQueue \cup InComing /\ Deadline(t) = -1
  BY <1>1 DEF Facts, PlacesApart
<1>9. Gone' = Gone
  BY <1>1, <1>6, <1>7, <1>8 DEF Gone
<1>10. \A i \in DOMAIN q : q[i] \in InQueue
  BY <1>2 DEF Facts
<1>11. PlacesApart'
  <2>1. \A i, j \in DOMAIN r : r[i] = r[j] => i = j
    BY <1>2, <1>5, <1>8, <1>10 DEF Facts, PlacesApart
  <2> QED BY <2>1, <1>1, <1>2, <1>6, <1>7, <1>8 DEF Facts, PlacesApart
<1>12. LoopTypeOK' /\ ModeOK' /\ Counted'
  BY <1>1, <1>2, <1>4, <1>9 DEF Facts, LoopTypeOK, ModeOK, Counted, CountIsRight
<1>13. InTime'
  <2>1. DOMAIN Coming = {}
    BY <1>1 DEF Facts, ModeOK
  <2>2. \A x \in InQueue \cup {t}, s \in InHeap : Deadline(x) <= Deadline(s)
    BY <1>8 DEF Facts, InTime
  <2> QED BY <2>1, <2>2, <1>1, <1>6, <1>7 DEF Facts, InTime
<1>14. InOrder'
  <2>1. \A i, j \in DOMAIN r : i < j /\ Deadline(r[j]) # -1 => Deadline(r[i]) <= Deadline(r[j])
    <3> SUFFICES ASSUME NEW i \in DOMAIN r, NEW j \in DOMAIN r, i < j, Deadline(r[j]) # -1
                 PROVE  Deadline(r[i]) <= Deadline(r[j])
      OBVIOUS
    <3>1. j \in DOMAIN q /\ r[j] = q[j] /\ j < k
      BY <1>5, <1>8
    <3>2. i \in DOMAIN q /\ r[i] = q[i]
      BY <3>1, <1>4, <1>5
    <3> QED BY <3>1, <3>2, <1>2 DEF Facts, InOrder
  <2>2. \A i \in DOMAIN r : Deadline(r[i]) <= now_
    BY <1>2, <1>5, <1>8 DEF Facts, InOrder
  <2> QED BY <2>1, <2>2, <1>1, <1>2, <1>6 DEF InOrder
<1> QED BY <1>11, <1>12, <1>13, <1>14, OrderIsNext DEF LoopInd

\* Set: the timer goes into the heap.
LEMMA SetKeeps ==
  ASSUME HeapInd, Facts, NEW t \in Timers, NEW delay \in Delays, Set(t, delay)
  PROVE  /\ HeapInd' /\ LoopInd' /\ InHeap' = InHeap \cup {t} /\ t \notin InHeap
         /\ Deadline(t)' = now_ + delay /\ \A x \in Timers \ {t} : Deadline(x)' = Deadline(x)
<1>1. /\ UNCHANGED <<task_queue_, now_, mode, ready, limit, count, completed>> /\ mode \in {"idle", "run"}
      /\ t \in unused /\ unused' = unused \ {t} /\ Push(t, delay + now_) /\ now_ + delay <= MaxTime
  BY DEF Set, Calm, calls
<1>2. t \in Timers \ InHeap /\ t \notin InHeap \cup InQueue \cup InComing
  BY <1>1 DEF Facts, PlacesApart
<1>3. delay + now_ \in 0 .. MaxTime /\ delay + now_ \in Deadlines /\ now_ <= delay + now_ /\ delay \in Nat
  BY <1>1 DEF Facts
<1>4. /\ HeapInd' /\ InHeap' = InHeap \cup {t} /\ nodes'[t].deadline = delay + now_
      /\ \A x \in Timers \ {t} : nodes'[x] = nodes[x]
  BY <1>1, <1>2, <1>3, PushKeeps
<1>5. call' = "Push"
  BY <1>1 DEF Push
<1>6. ready = << >> /\ Coming = ready /\ Coming' = ready /\ InComing = {} /\ InComing' = {} /\ DOMAIN Coming' = {}
  <2>1. ready = << >> /\ Coming = ready /\ Coming' = ready
    BY <1>1, <1>5 DEF Facts, ModeOK, Coming
  <2> QED BY <2>1 DEF InComing
<1>7. InQueue' = InQueue
  BY <1>1 DEF InQueue
<1>8. /\ Deadline(t)' = delay + now_ /\ (\A x \in Timers \ {t} : Deadline(x)' = Deadline(x))
      /\ \A x \in InHeap \cup InQueue : x \in Timers \ {t}
  BY <1>2, <1>4 DEF Deadline, Facts
<1>9. Gone' = Gone
  BY <1>1, <1>2, <1>4, <1>6, <1>7 DEF Gone
<1>10. PlacesApart'
  BY <1>1, <1>2, <1>4, <1>6, <1>7, <1>8 DEF Facts, PlacesApart
<1>11. LoopTypeOK' /\ ModeOK' /\ Counted'
  BY <1>1, <1>5, <1>9 DEF Facts, LoopTypeOK, ModeOK, Counted, CountIsRight
<1>12. \A x \in InQueue : Deadline(x) <= now_
  BY DEF Facts, InOrder, InQueue
<1>13. InTime'
  <2>1. \A x \in InHeap' : Deadline(x)' >= 0 /\ now_ <= Deadline(x)'
    BY <1>1, <1>3, <1>4, <1>8 DEF Facts, InTime
  <2>2. \A s \in InHeap', x \in InQueue : Deadline(x)' <= Deadline(s)'
    <3>1. ASSUME NEW x \in InQueue PROVE Deadline(x)' <= Deadline(t)'
      BY <1>3, <1>8, <1>12 DEF Facts
    <3>2. ASSUME NEW x \in InQueue, NEW s \in InHeap PROVE Deadline(x)' <= Deadline(s)'
      BY <1>8 DEF Facts, InTime
    <3> QED BY <3>1, <3>2, <1>4
  <2> QED BY <2>1, <2>2, <1>1, <1>6, <1>7 DEF InTime
<1>14. InOrder'
  <2>1. \A i \in DOMAIN task_queue_ : Deadline(task_queue_[i])' = Deadline(task_queue_[i])
    BY <1>1, <1>8 DEF Facts
  <2> QED BY <2>1, <1>1 DEF Facts, InOrder
<1> QED BY <1>2, <1>3, <1>4, <1>8, <1>10, <1>11, <1>13, <1>14, OrderIsNext DEF LoopInd, Facts

\* The loop of RunAtMostTasks: the next task is gone, or the call ends.
LEMMA LoopKeeps ==
  ASSUME Facts, Loop
  PROVE  LoopInd'
<1>1. /\ UNCHANGED <<heapVars, now_, ready, limit, completed, unused, call, last, nodes>> /\ mode = "loop"
      /\ count \in 0 .. SizeMax /\ limit \in 0 .. SizeMax /\ count = completed /\ count <= limit
      /\ count <= Cardinality(Gone) /\ LoopTest
      /\ task_queue_' = IF mode' = "run" THEN Tail(task_queue_) ELSE task_queue_
  BY DEF Loop, Facts, LoopTypeOK, ModeOK, Counted, heapVars, merging
<1>2. InHeap' = InHeap /\ Coming' = Coming /\ InComing' = InComing /\ (\A x : Deadline(x)' = Deadline(x))
  <2>1. InHeap' = InHeap
    BY <1>1 DEF heapVars, merging, InHeap, Reached, Closed, Roots, Dead, Uppers
  <2> QED BY <2>1, <1>1 DEF Coming, InComing, Deadline
<1>3. DOMAIN Coming = {}
  BY <1>1 DEF Facts, ModeOK
<1>4. CASE count < limit /\ task_queue_ # << >>
  <2>1. mode' = "run" /\ count' = Size(count + 1) /\ task_queue_' = Tail(task_queue_)
    BY <1>1, <1>4 DEF LoopTest
  <2>2. count' = count + 1 /\ count' \in 0 .. SizeMax
    <3>1. count + 1 \in 0 .. SizeMax
      BY <1>1, <1>4
    <3> QED BY <2>1, <3>1, Sizes
  <2>3. PICK q, r, h : q = task_queue_ /\ r = task_queue_' /\ h = Head(q)
    OBVIOUS
  <2>4. q \in Seq(Timers) /\ q # << >> /\ r = Tail(q)
    BY <1>4, <2>1, <2>3 DEF Facts
  <2>5. /\ r \in Seq(Timers) /\ 1 \in DOMAIN q /\ h = q[1] /\ h \in Timers
        /\ \A i \in DOMAIN r : i + 1 \in DOMAIN q /\ r[i] = q[i + 1]
        /\ \A i \in DOMAIN q : i = 1 \/ (i > 1 /\ i - 1 \in DOMAIN r /\ r[i - 1] = q[i])
        /\ \A i \in DOMAIN q : i \in Nat
    BY <2>3, <2>4, Popped
  <2>6. DOMAIN r \subseteq Int
    BY <2>5, LenProperties
  <2>7. \A i, j \in DOMAIN q : q[i] = q[j] => i = j
    BY <2>3 DEF Facts, PlacesApart
  <2>8. InQueue' = InQueue \ {h} /\ h \in InQueue
    <3>1. ASSUME NEW i \in DOMAIN r PROVE r[i] \in InQueue \ {h}
      <4>1. i + 1 \in DOMAIN q /\ r[i] = q[i + 1] /\ i + 1 # 1
        <5>1. i \in 1 .. Len(r)
          BY <2>5, LenProperties
        <5> QED BY <5>1, <2>5
      <4> QED BY <4>1, <2>3, <2>5, <2>7 DEF InQueue
    <3>2. \A x \in InQueue \ {h} : x \in InQueue'
      BY <2>3, <2>5 DEF InQueue
    <3>3. h \in InQueue
      BY <2>3, <2>5 DEF InQueue
    <3>4. \A x \in InQueue' : x \in InQueue \ {h}
      BY <2>3, <3>1 DEF InQueue
    <3> QED BY <3>2, <3>3, <3>4
  <2>9. PICK G : G = Gone
    OBVIOUS
  <2>10. Gone' = G \cup {h} /\ h \notin G
    <3>1. h \notin unused \cup InHeap \cup InComing
      BY <2>8 DEF Facts, PlacesApart
    <3> QED BY <1>1, <1>2, <2>5, <2>8, <2>9, <3>1 DEF Gone
  <2>11. Cardinality(Gone') = Cardinality(G) + 1 /\ Cardinality(G) \in Nat
    BY <2>9, <2>10, GoneIsFew, FS_AddElement
  <2>12. LoopTypeOK' /\ ModeOK'
    BY <1>1, <2>1, <2>2, <2>3, <2>5 DEF Facts, LoopTypeOK, ModeOK
  <2>13. Counted'
    BY <1>1, <1>4, <2>1, <2>2, <2>9, <2>11 DEF Counted, CountIsRight
  <2>14. PlacesApart'
    <3>1. \A i, j \in DOMAIN r : r[i] = r[j] => i = j
      BY <2>5, <2>6, <2>7
    <3> QED BY <3>1, <1>1, <1>2, <2>3, <2>8 DEF Facts, PlacesApart
  <2>15. InTime'
    BY <1>1, <1>2, <1>3, <2>1, <2>8 DEF Facts, InTime
  <2>16. InOrder'
    <3>1. \A i, j \in DOMAIN r : i < j /\ Deadline(r[j]) # -1 => Deadline(r[i]) <= Deadline(r[j])
      <4> SUFFICES ASSUME NEW i \in DOMAIN r, NEW j \in DOMAIN r, i < j, Deadline(r[j]) # -1
                   PROVE  Deadline(r[i]) <= Deadline(r[j])
        OBVIOUS
      <4>1. i + 1 \in DOMAIN q /\ j + 1 \in DOMAIN q /\ i + 1 < j + 1 /\ r[i] = q[i + 1] /\ r[j] = q[j + 1]
        BY <2>5, <2>6
      <4> QED BY <4>1, <2>3 DEF Facts, InOrder
    <3>2. \A i \in DOMAIN r : Deadline(r[i]) <= now_
      BY <2>3, <2>5 DEF Facts, InOrder
    <3> QED BY <3>1, <3>2, <1>1, <1>2, <2>3 DEF InOrder
  <2> QED BY <2>12, <2>13, <2>14, <2>15, <2>16, OrderIsNext DEF LoopInd
<1>5. CASE ~ (count < limit /\ task_queue_ # << >>)
  <2>1. mode' = "return" /\ count' = count /\ task_queue_' = task_queue_
    <3>1. mode' = "return" /\ count' = Size(Size(count + 1) - 1)
      BY <1>1, <1>5 DEF LoopTest
    <3> QED BY <1>1, <3>1, Sizes
  <2>2. InQueue' = InQueue /\ Gone' = Gone /\ PlacesApart'
    BY <1>1, <1>2, <2>1, PlacesSame DEF Facts, Deadline
  <2>3. LoopTypeOK' /\ ModeOK'
    BY <1>1, <2>1 DEF Facts, LoopTypeOK, ModeOK
  <2>4. Counted'
    <3>1. count < SizeMax
      BY <1>1, GoneIsFew
    <3> QED BY <1>1, <1>5, <2>1, <3>1 DEF Counted, CountIsRight
  <2>5. InTime' /\ InOrder'
    BY <1>1, <1>2, <2>1, <2>2 DEF Facts, InTime, InOrder
  <2> QED BY <2>2, <2>3, <2>4, <2>5, OrderIsNext DEF LoopInd
<1> QED BY <1>4, <1>5

\* PopReadyTimers: the top is due.
LEMMA PopReadyKeeps ==
  ASSUME HeapInd, Facts, PopReady
  PROVE  /\ HeapInd' /\ LoopInd' /\ InHeap' = InHeap \ {top_} /\ top_ \in InHeap
         /\ \A x : Deadline(x)' = Deadline(x)
<1>1. /\ HeapInd' /\ InHeap' = InHeap \ {top_} /\ top_ \in InHeap /\ UNCHANGED nodes
  BY PopKeeps DEF PopReady
<1>2. /\ UNCHANGED <<task_queue_, now_, mode, ready, limit, count, completed, unused>> /\ mode = "ready"
      /\ call' = "Pop" /\ last' = top_ /\ Deadline(top_) <= now_ /\ top_ \in Timers
  BY <1>1 DEF PopReady, TopIsReady, Pop, loopVars, calls, Deadline, Facts
<1>3. PICK s, t, r : s = Coming /\ t = top_ /\ r = Coming'
  OBVIOUS
<1>4. s \in Seq(Timers) /\ t \in Timers /\ r = Append(s, t) /\ s = ready
  BY <1>2, <1>3 DEF Facts, Coming
<1>5. r \in Seq(Timers) /\ (\A i \in DOMAIN r : i \in Int) /\ \A i \in DOMAIN s : i \in DOMAIN r /\ r[i] = s[i]
  BY <1>4, Appended
<1>6. PICK k \in DOMAIN r : r[k] = t /\ \A i \in DOMAIN r : (i \in DOMAIN s /\ r[i] = s[i] /\ i < k) \/ i = k
  BY <1>4, Appended
<1>7. InComing' = InComing \cup {t} /\ InQueue' = InQueue /\ \A x : Deadline(x)' = Deadline(x)
  <2>1. \A x \in InComing' : x \in InComing \cup {t}
    BY <1>3, <1>6 DEF InComing
  <2>2. \A x \in InComing : x \in InComing'
    BY <1>3, <1>5 DEF InComing
  <2>3. t \in InComing'
    BY <1>3, <1>6 DEF InComing
  <2> QED BY <2>1, <2>2, <2>3, <1>1, <1>2 DEF InQueue, Deadline
<1>8. t \in InHeap /\ t \notin InQueue \cup InComing \cup unused
  BY <1>1, <1>3 DEF Facts, PlacesApart
<1>9. Gone' = Gone
  BY <1>1, <1>2, <1>3, <1>7, <1>8 DEF Gone
<1>10. \A i \in DOMAIN s : s[i] \in InComing
  BY <1>3 DEF InComing
<1>11. PlacesApart'
  <2>1. \A i, j \in DOMAIN r : r[i] = r[j] => i = j
    BY <1>3, <1>6, <1>8, <1>10 DEF Facts, PlacesApart
  <2> QED BY <2>1, <1>1, <1>2, <1>3, <1>7, <1>8 DEF Facts, PlacesApart
<1>12. LoopTypeOK' /\ ModeOK' /\ Counted'
  BY <1>2, <1>9 DEF Facts, LoopTypeOK, ModeOK, Counted, CountIsRight
<1>13. \A x \in InHeap : Deadline(t) <= Deadline(x)
  BY <1>3, TopIsFirst DEF Facts, Deadline
<1>14. InTime'
  <2>1. \A x \in InHeap' : Deadline(x)' >= 0 /\ (mode' # "ready" => now_' <= Deadline(x)')
    BY <1>1, <1>2, <1>7 DEF Facts, InTime
  <2>2. \A x \in InHeap', y \in InQueue' : Deadline(y)' <= Deadline(x)'
    BY <1>1, <1>7 DEF Facts, InTime
  <2>3. ASSUME NEW i \in DOMAIN r
        PROVE  /\ Deadline(r[i]) >= 0 /\ Deadline(r[i]) <= now_
               /\ \A x \in InHeap' : Deadline(r[i]) <= Deadline(x)
               /\ \A x \in InQueue : Deadline(x) <= Deadline(r[i])
               /\ \A j \in DOMAIN r : i < j => Deadline(r[i]) <= Deadline(r[j])
    <3>1. CASE i = k
      <4>1. \A j \in DOMAIN r : ~ (i < j)
        BY <3>1, <1>5, <1>6
      <4> QED BY <4>1, <3>1, <1>1, <1>2, <1>3, <1>6, <1>8, <1>13 DEF Facts, InTime
    <3>2. CASE i # k
      <4>1. i \in DOMAIN s /\ r[i] = s[i]
        BY <3>2, <1>6
      <4>2. /\ Deadline(s[i]) >= 0 /\ Deadline(s[i]) <= now_
            /\ \A x \in InHeap : Deadline(s[i]) <= Deadline(x)
            /\ \A x \in InQueue : Deadline(x) <= Deadline(s[i])
            /\ \A j \in DOMAIN s : i < j => Deadline(s[i]) <= Deadline(s[j])
        BY <4>1, <1>3 DEF Facts, InTime
      <4>3. Deadline(s[i]) <= Deadline(t)
        BY <4>2, <1>8
      <4> QED BY <4>1, <4>2, <4>3, <1>1, <1>6
    <3> QED BY <3>1, <3>2
  <2> QED BY <2>1, <2>2, <2>3, <1>2, <1>3, <1>7 DEF InTime
<1>15. InOrder'
  BY <1>2, <1>7 DEF Facts, InOrder
<1> QED BY <1>1, <1>7, <1>11, <1>12, <1>14, <1>15, OrderIsNext DEF LoopInd

\* MoveReadyToQueue: no timer of the heap is due any more.
LEMMA MoveReadyToQueueKeeps ==
  ASSUME HeapInd, Facts, MoveReadyToQueue
  PROVE  LoopInd' /\ InHeap' = InHeap /\ \A x \in InHeap : now_ < Deadline(x)
<1>1. /\ UNCHANGED <<heapVars, now_, limit, count, completed, unused, call, last, nodes>> /\ mode = "ready"
      /\ mode' = "idle" /\ ready' = << >> /\ ~ TopIsReady
  BY DEF MoveReadyToQueue, calls, heapVars, merging
<1>2. InHeap' = InHeap /\ \A x : Deadline(x)' = Deadline(x)
  <2>1. InHeap' = InHeap
    BY <1>1 DEF heapVars, merging, InHeap, Reached, Closed, Roots, Dead, Uppers
  <2> QED BY <2>1, <1>1 DEF Deadline
<1>3. \A x \in InHeap : now_ < Deadline(x)
  <2> SUFFICES ASSUME NEW x \in InHeap PROVE now_ < Deadline(x)
    OBVIOUS
  <2>1. top_ \in InHeap /\ Deadline(top_) <= Deadline(x)
    BY TopIsFirst DEF Facts, Deadline
  <2>2. top_ # NULL /\ now_ < Deadline(top_)
    BY <2>1, <1>1 DEF Facts, TopIsReady, Deadline
  <2> QED BY <2>1, <2>2 DEF Facts
<1>4. PICK q, s, r : q = task_queue_ /\ s = ready /\ r = task_queue_'
  OBVIOUS
<1>5. q \in Seq(Timers) /\ s \in Seq(Timers) /\ r = q \o s
  BY <1>4 DEF MoveReadyToQueue, Facts
<1>6. IsJoined(q, s, r)
  BY <1>5, Joined
<1>7. PICK n \in Nat : n = Len(q)
  BY <1>6 DEF IsJoined
<1>8. /\ r \in Seq(Timers) /\ \A i \in DOMAIN r : i \in Int
      /\ \A i \in DOMAIN q : i \in DOMAIN r /\ r[i] = q[i]
      /\ \A j \in DOMAIN s : \E i \in DOMAIN r : r[i] = s[j]
  BY <1>6 DEF IsJoined
<1>9. \A i \in DOMAIN r :
        \/ i \in DOMAIN q /\ r[i] = q[i] /\ i <= n
        \/ i > n /\ i - n \in DOMAIN s /\ r[i] = s[i - n]
  BY <1>6, <1>7 DEF IsJoined
<1>10. InQueue' = InQueue \cup InComing /\ Coming' = << >> /\ InComing' = {} /\ DOMAIN Coming' = {}
  <2>1. \A x \in InQueue' : x \in InQueue \cup InComing
    BY <1>4, <1>9 DEF InQueue, InComing, Facts
  <2>2. \A x \in InQueue : x \in InQueue'
    BY <1>4, <1>8 DEF InQueue
  <2>3. ASSUME NEW x \in InComing PROVE x \in InQueue'
    <3>1. PICK j \in DOMAIN s : x = s[j]
      BY <1>4 DEF InComing, Facts
    <3>2. PICK i \in DOMAIN r : r[i] = s[j]
      BY <1>8
    <3> QED BY <3>1, <3>2, <1>4 DEF InQueue
  <2>4. Coming' = << >>
    BY <1>1 DEF Facts, Coming
  <2> QED BY <2>1, <2>2, <2>3, <2>4 DEF InComing
<1>11. Gone' = Gone
  BY <1>1, <1>2, <1>10 DEF Gone
<1>12. \A i \in DOMAIN q : q[i] \in InQueue
  BY <1>4 DEF Facts
<1>13. \A i \in DOMAIN s : s[i] \in InComing
  BY <1>4 DEF Facts
<1>14. PlacesApart'
  <2>1. \A i, j \in DOMAIN r : r[i] = r[j] => i = j
    <3> SUFFICES ASSUME NEW i \in DOMAIN r, NEW j \in DOMAIN r, r[i] = r[j] PROVE i = j
      OBVIOUS
    <3>1. InQueue \cap InComing = {} /\ (\A x, y \in DOMAIN q : q[x] = q[y] => x = y)
          /\ (\A x, y \in DOMAIN s : s[x] = s[y] => x = y)
      BY <1>4 DEF Facts, PlacesApart
    <3> QED BY <3>1, <1>8, <1>9, <1>12, <1>13
  <2> QED BY <2>1, <1>1, <1>2, <1>4, <1>10 DEF Facts, PlacesApart
<1>15. LoopTypeOK' /\ ModeOK' /\ Counted'
  BY <1>1, <1>4, <1>8, <1>11, EmptySeq DEF Facts, LoopTypeOK, ModeOK, Counted, CountIsRight
<1>16. \A i \in DOMAIN s :
         /\ Deadline(s[i]) >= 0 /\ Deadline(s[i]) <= now_
         /\ \A x \in InHeap : Deadline(s[i]) <= Deadline(x)
         /\ \A x \in InQueue : Deadline(x) <= Deadline(s[i])
         /\ \A j \in DOMAIN s : i < j => Deadline(s[i]) <= Deadline(s[j])
  BY <1>4 DEF Facts, InTime
<1>17. InTime'
  <2>1. \A x \in InHeap : Deadline(x) >= 0 /\ now_ <= Deadline(x)
    BY <1>3 DEF Facts, InTime
  <2>2. \A x \in InHeap, y \in InQueue \cup InComing : Deadline(y) <= Deadline(x)
    BY <1>4, <1>16 DEF Facts, InTime, InComing
  <2> QED BY <2>1, <2>2, <1>1, <1>2, <1>10 DEF InTime
<1>18. InOrder'
  <2>1. \A i, j \in DOMAIN r : i < j /\ Deadline(r[j]) # -1 => Deadline(r[i]) <= Deadline(r[j])
    <3> SUFFICES ASSUME NEW i \in DOMAIN r, NEW j \in DOMAIN r, i < j, Deadline(r[j]) # -1
                 PROVE  Deadline(r[i]) <= Deadline(r[j])
      OBVIOUS
    <3>1. CASE j \in DOMAIN q /\ r[j] = q[j] /\ j <= n
      <4>1. i \in DOMAIN q /\ r[i] = q[i]
        BY <3>1, <1>8, <1>9
      <4> QED BY <3>1, <4>1, <1>4 DEF Facts, InOrder
    <3>2. CASE j > n /\ j - n \in DOMAIN s /\ r[j] = s[j - n]
      <4>1. CASE i \in DOMAIN q /\ r[i] = q[i] /\ i <= n
        BY <3>2, <4>1, <1>12, <1>16
      <4>2. CASE i > n /\ i - n \in DOMAIN s /\ r[i] = s[i - n]
        <5>1. i - n < j - n
          BY <1>8
        <5> QED BY <5>1, <3>2, <4>2, <1>16
      <4> QED BY <4>1, <4>2, <1>9
    <3> QED BY <3>1, <3>2, <1>9
  <2>2. \A i \in DOMAIN r : Deadline(r[i]) <= now_
    BY <1>4, <1>9, <1>16 DEF Facts, InOrder
  <2> QED BY <2>1, <2>2, <1>1, <1>2, <1>4 DEF InOrder
<1> QED BY <1>2, <1>3, <1>14, <1>15, <1>17, <1>18, OrderIsNext DEF LoopInd

\* A step that changes nothing.
LEMMA LoopStutters ==
  ASSUME HeapInd, LoopInd, UNCHANGED vars
  PROVE  LoopInd'
<1>1. TypeOK /\ HeapIs /\ InHeap' = InHeap
  BY HeapIsReached, HeapKept DEF HeapInd, vars
<1>2. UNCHANGED <<task_queue_, now_, mode, calls, unused, ready, nodes, call, last>>
  BY DEF vars, heapVars, merging, loopVars
<1>3. Coming' = Coming
  BY <1>2 DEF Coming
<1>4. PlacesApart' /\ InQueue' = InQueue /\ InComing' = InComing /\ Gone' = Gone
  BY <1>1, <1>2, <1>3, PlacesSame DEF LoopInd
<1>5. LoopTypeOK' /\ ModeOK' /\ Counted'
  BY <1>2, <1>4 DEF LoopInd, LoopTypeOK, ModeOK, Counted, CountIsRight, calls
<1>6. InTime'
  BY <1>1, <1>2, <1>3, <1>4 DEF LoopInd, InTime, Deadline
<1>7. InOrder'
  BY <1>2, OrderIs DEF LoopInd, InOrder, Deadline
<1> QED BY <1>4, <1>5, <1>6, <1>7, OrderIsNext DEF LoopInd

\* What TimerHeap sees of the heap.
Content == {Entry(t) : t \in InHeap}

Out == IF last = NULL THEN {} ELSE {Entry(last)}

\* A step that leaves the content of the heap and what Pop has returned.
LEMMA HeapStutters ==
  ASSUME InHeap' = InHeap, last' = last, InHeap \subseteq Timers, last \in Timers \cup {NULL},
         \A t \in Timers : nodes'[t].deadline = nodes[t].deadline
  PROVE  UNCHANGED Heap!vars
<1>1. \A t \in Timers : Entry(t)' = Entry(t)
  BY DEF Entry
<1>2. Content' = Content /\ Out' = Out
  BY <1>1 DEF Content, Out
<1> QED BY <1>2 DEF Content, Out, Heap!vars

\* Merge keeps the timers, and takes none into the heap.
LEMMA MergingKeeps ==
  ASSUME HeapInd, LoopInd, Merging
  PROVE  HeapInd' /\ LoopInd' /\ UNCHANGED Heap!vars /\ mode' = mode
<1>1. TypeOK /\ HeapIs /\ call # "none"
  BY HeapIsReached DEF HeapInd, Merging
<1>2. InHeap \subseteq Timers /\ last \in Timers \cup {NULL} /\ ready \in Seq(Timers)
  BY <1>1 DEF HeapIs, TypeOK, LoopInd, LoopTypeOK
<1>3. last' = last /\ UNCHANGED <<task_queue_, now_, mode, calls, unused>>
  BY DEF Merging, MergeCalls, MergeReturns, PushReturns, PopReturns, TopIsMerged, loopVars
<1>4. /\ HeapInd' /\ InHeap' = InHeap
      /\ \A t \in Timers : nodes'[t].deadline = nodes[t].deadline
  <2>1. CASE MergeCalls
    BY <1>1, <2>1, MergeCallsKeeps DEF MergeCalls
  <2>2. CASE MergeReturns
    BY <1>1, <2>2, MergeReturnsKeeps
  <2>3. CASE PushReturns \/ PopReturns
    BY <2>3, HeapReturns
  <2> QED BY <2>1, <2>2, <2>3 DEF Merging
<1>5. Coming \in Seq(Timers)
  <2>1. call = "Pop" => last \in Timers
    BY DEF HeapInd, MergeOK
  <2>2. PICK s, x, r : s = ready /\ x = last /\ r = Append(s, x)
    OBVIOUS
  <2>3. call = "Pop" => r \in Seq(Timers)
    BY <1>2, <2>1, <2>2, Appended
  <2> QED BY <1>2, <2>2, <2>3 DEF Coming
<1>6. /\ Coming' = Coming /\ call' \in {call, "none"} /\ ready' \in Seq(Timers)
      /\ mode # "ready" => ready' = ready
  <2>1. CASE (MergeCalls \/ MergeReturns) /\ UNCHANGED loopVars
    BY <1>2, <2>1 DEF MergeCalls, MergeReturns, loopVars, Coming
  <2>2. CASE PushReturns /\ UNCHANGED loopVars
    BY <1>2, <2>2 DEF PushReturns, TopIsMerged, loopVars, Coming
  <2>3. CASE PopReturns /\ ready' = Append(ready, last)
    <3>1. call = "Pop" /\ call' = "none" /\ mode = "ready"
      BY <2>3 DEF PopReturns, TopIsMerged, LoopInd, ModeOK
    <3> QED BY <2>3, <3>1, <1>5 DEF Coming
  <2> QED BY <2>1, <2>2, <2>3 DEF Merging
<1>7. LoopInd'
  BY <1>1, <1>2, <1>3, <1>4, <1>5, <1>6, LoopMerges
<1> QED BY <1>2, <1>3, <1>4, <1>7, HeapStutters

\* The clock does not leave a timer behind that is due.
NoneIsDue == mode' # "ready" /\ mode = "ready" => \A t \in InHeap' : now_' # nodes'[t].deadline

\* A step of Next.
Kept == HeapInd' /\ LoopInd' /\ NoneIsDue /\ (Heap!Next \/ UNCHANGED Heap!vars)

\* The heap stays as it is.
LEMMA HeapRests ==
  ASSUME HeapInd, UNCHANGED heapVars
  PROVE  HeapInd' /\ UNCHANGED Heap!vars
<1>1. HeapInd' /\ InHeap' = InHeap
  BY HeapKept
<1>2. InHeap \subseteq Timers /\ last \in Timers \cup {NULL}
  BY HeapIsReached DEF HeapInd, HeapIs, TypeOK
<1> QED BY <1>1, <1>2, HeapStutters DEF heapVars

\* Set is Push of TimerHeap.
LEMMA SetIsKept ==
  ASSUME HeapInd, LoopInd, call = "none", NEW t \in Timers, NEW delay \in Delays, Set(t, delay)
  PROVE  Kept
<1>1. Facts
  BY FactsHold
<1>2. /\ HeapInd' /\ LoopInd' /\ InHeap' = InHeap \cup {t} /\ t \notin InHeap
      /\ Deadline(t)' = now_ + delay /\ \A x \in Timers \ {t} : Deadline(x)' = Deadline(x)
  BY <1>1, SetKeeps
<1>3. mode' = mode /\ mode \in {"idle", "run"} /\ last' = NULL
  BY DEF Set, Calm, Push
<1>4. PICK e : e = Entry(t)'
  OBVIOUS
<1>5. e.timer = t /\ e \in Heap!Entries
  <2>1. Deadline(t)' \in Deadlines
    BY <1>2, DeadlinesAre DEF HeapInd, TypeOK, Fields, Deadline
  <2> QED BY <1>4, <2>1 DEF Entry, Deadline, Heap!Entries
<1>6. \A x \in InHeap : Entry(x)' = Entry(x) /\ Entry(x).timer = x /\ x # t
  BY <1>1, <1>2 DEF Entry, Deadline, Facts
<1>7. Content' = Content \cup {e} /\ \A d \in Content : d.timer # e.timer
  BY <1>2, <1>4, <1>5, <1>6 DEF Content
<1>8. Out' = {} /\ e \in Content' \ Content
  BY <1>3, <1>5, <1>7 DEF Out
<1>9. Heap!Push
  BY <1>5, <1>7, <1>8 DEF Content, Out, Heap!Push
<1> QED BY <1>2, <1>3, <1>9 DEF Kept, NoneIsDue, Heap!Next

\* PopReady is Pop of TimerHeap: no timer precedes the top.
LEMMA PopIsKept ==
  ASSUME HeapInd, LoopInd, call = "none", PopReady
  PROVE  Kept
<1>1. Facts
  BY FactsHold
<1>2. /\ HeapInd' /\ LoopInd' /\ InHeap' = InHeap \ {top_} /\ top_ \in InHeap
      /\ \A x : Deadline(x)' = Deadline(x)
  BY <1>1, PopReadyKeeps
<1>3. mode' = mode /\ last' = top_ /\ top_ # NULL
  BY DEF PopReady, Pop, loopVars
<1>4. PICK e : e = Entry(top_)
  OBVIOUS
<1>5. /\ \A x : Entry(x)' = Entry(x)
      /\ \A x \in InHeap : Entry(x).timer = x /\ Entry(x).deadline = Deadline(x)
  BY <1>2 DEF Entry, Deadline
<1>6. Content' = Content \ {e} /\ e \in Content
  <2>1. \A x \in InHeap : x # top_ <=> Entry(x) # e
    BY <1>2, <1>4, <1>5
  <2> QED BY <2>1, <1>2, <1>4, <1>5 DEF Content
<1>7. Out' = {e}
  BY <1>3, <1>4, <1>5 DEF Out, Entry
<1>8. \A d \in Content : e.deadline <= d.deadline
  BY <1>2, <1>4, <1>5, TopIsFirst DEF Content, Deadline
<1>9. Heap!Pop
  BY <1>6, <1>7, <1>8 DEF Content, Out, Heap!Pop
<1> QED BY <1>2, <1>3, <1>9 DEF Kept, NoneIsDue, Heap!Next

\* By cases.
LEMMA StepIsKept ==
  ASSUME HeapInd, LoopInd, [Next]_vars
  PROVE  Kept
<1>1. CASE UNCHANGED vars
  <2>1. UNCHANGED heapVars /\ UNCHANGED loopVars /\ HeapInd' /\ UNCHANGED Heap!vars
    BY <1>1, HeapRests DEF vars
  <2>2. TypeOK /\ InHeap \subseteq Timers
    BY HeapIsReached DEF HeapInd, HeapIs
  <2>3. InHeap' = InHeap
    BY <2>1, HeapKept
  <2>4. LoopInd'
    BY <1>1, LoopStutters
  <2> QED BY <2>1, <2>4 DEF Kept, NoneIsDue, loopVars
<1>2. CASE Merging
  BY <1>2, MergingKeeps DEF Kept, NoneIsDue
<1>3. ASSUME call = "none", NEW t \in Timers, Submit(t) PROVE Kept
  BY <1>3, FactsHold, SubmitKeeps, HeapRests DEF Submit, Calm, Kept, NoneIsDue
<1>4. ASSUME call = "none", NEW t \in Timers, NEW d \in Delays, Set(t, d) PROVE Kept
  BY <1>4, SetIsKept
<1>5. ASSUME call = "none", NEW n \in Limits, RunAtMostTasks(n) PROVE Kept
  BY <1>5, FactsHold, RunAtMostTasksKeeps, HeapRests DEF RunAtMostTasks, Kept, NoneIsDue
<1>6. ASSUME call = "none", Loop PROVE Kept
  BY <1>6, FactsHold, LoopKeeps, HeapRests DEF Loop, Kept, NoneIsDue
<1>7. ASSUME call = "none", Finish \/ Return PROVE Kept
  BY <1>7, FactsHold, FinishKeeps, HeapRests DEF Finish, Return, Kept, NoneIsDue
<1>8. ASSUME call = "none", NEW d \in Delays, AdvanceClockBy(d) PROVE Kept
  BY <1>8, FactsHold, AdvanceByKeeps, HeapRests DEF AdvanceClockBy, Advance, Kept, NoneIsDue
<1>9. ASSUME call = "none", AdvanceClockToNextDeadline PROVE Kept
  BY <1>9, FactsHold, AdvanceToNextKeeps, HeapRests DEF AdvanceClockToNextDeadline, Advance, Kept, NoneIsDue
<1>10. ASSUME call = "none", PopReady PROVE Kept
  BY <1>10, PopIsKept
<1>11. ASSUME call = "none", MoveReadyToQueue PROVE Kept
  <2>1. Facts
    BY <1>11, FactsHold
  <2>2. LoopInd' /\ InHeap' = InHeap /\ \A x \in InHeap : now_ < Deadline(x)
    BY <1>11, <2>1, MoveReadyToQueueKeeps
  <2>3. UNCHANGED heapVars /\ now_' = now_
    BY <1>11 DEF MoveReadyToQueue
  <2>4. HeapInd' /\ UNCHANGED Heap!vars
    BY <2>3, HeapRests
  <2>5. NoneIsDue
    BY <2>1, <2>2, <2>3 DEF NoneIsDue, Deadline, Facts, heapVars
  <2> QED BY <2>2, <2>4, <2>5 DEF Kept
<1> QED BY <1>1, <1>2, <1>3, <1>4, <1>5, <1>6, <1>7, <1>8, <1>9, <1>10, <1>11 DEF Next

-----------------------------------------------------------------------------
(* The theorems                                                              *)

LEMMA LoopBegins == Init => HeapInd /\ LoopInd /\ Heap!Init
<1> SUFFICES ASSUME Init PROVE HeapInd /\ LoopInd /\ Heap!Init
  OBVIOUS
<1>1. HeapInd /\ InHeap = {} /\ call = "none" /\ last = NULL
  BY HeapBegins DEF Init, HeapInit
<1>2. InQueue = {} /\ Coming = << >> /\ InComing = {} /\ DOMAIN task_queue_ = {} /\ DOMAIN Coming = {}
  BY <1>1 DEF Init, InQueue, Coming, InComing
<1>3. LoopTypeOK /\ ModeOK
  BY <1>1, EmptySeq DEF Init, LoopTypeOK, ModeOK
<1>4. PlacesApart /\ InTime /\ InOrder /\ Counted
  BY <1>1, <1>2 DEF Init, PlacesApart, InTime, InOrder, Counted, CountIsRight, Deadline
<1>5. Heap!Init
  BY <1>1 DEF Heap!Init
<1> QED BY <1>1, <1>3, <1>4, <1>5, OrderIs DEF LoopInd

LEMMA Always == Spec => [](HeapInd /\ LoopInd)
<1>1. Init => HeapInd /\ LoopInd
  BY LoopBegins
<1>2. (HeapInd /\ LoopInd) /\ [Next]_vars => (HeapInd /\ LoopInd)'
  BY StepIsKept DEF Kept
<1> QED BY <1>1, <1>2, PTL DEF Spec

\* The heap is a tree, or several while Merge is joining them, in which no timer is linked
\* twice; the next path is the shorter one, and its length logarithmic; and a timer that
\* Pop has taken out has no links left (Push, Pop, Merge of IntrusiveTimerLeftistHeap).
THEOREM HeapIsSound == Spec => []HeapInv
<1>1. HeapInd /\ LoopInd => HeapInv
  BY HeapIsRight
<1> QED BY <1>1, Always, PTL

\* RunAtMostTasks returns the number of the tasks that it has run, stops early only when
\* the queue is empty, and RunTasks, whose limit is the greatest size_t, empties it; and
\* tasks are queued in the order in which they are due.
THEOREM LoopIsSound == Spec => []ManualLoopInv
<1>1. HeapInd /\ LoopInd => ManualLoopInv
  BY DEF LoopInd, Counted, ManualLoopInv
<1> QED BY <1>1, Always, PTL

\* Between the calls no timer of the heap has missed its deadline, so that the assertion
\* of AdvanceTo holds, and a call that moves the clock puts every timer that is due then
\* into the queue.
THEOREM NoTimerIsLate == Spec => NotOverdue
<1>1. (HeapInd /\ LoopInd) /\ [Next]_vars =>
        [mode' # "ready" =>
           \A t \in InHeap' : /\ now_' <= nodes'[t].deadline
                              /\ mode = "ready" => now_' # nodes'[t].deadline]_vars
  <2> SUFFICES ASSUME HeapInd, LoopInd, [Next]_vars, mode' # "ready", NEW t \in InHeap'
               PROVE  /\ now_' <= nodes'[t].deadline
                      /\ mode = "ready" => now_' # nodes'[t].deadline
    OBVIOUS
  <2>1. Kept
    BY StepIsKept
  <2> QED BY <2>1 DEF Kept, NoneIsDue, LoopInd, InTime, Deadline
<1> QED BY <1>1, Always, PTL DEF Spec, NotOverdue

\* The heap implements TimerHeap: whatever Push and Pop are called in which order, Pop
\* takes out one timer, with the least deadline of all, and Merge loses none.
THEOREM HeapIsImplemented == Spec => HeapSpec
<1>1. Init => Heap!Init
  BY LoopBegins
<1>2. (HeapInd /\ LoopInd) /\ [Next]_vars => [Heap!Next]_Heap!vars
  BY StepIsKept DEF Kept
<1> QED BY <1>1, <1>2, Always, PTL DEF Spec, HeapSpec, Heap!Spec

-----------------------------------------------------------------------------
(* RunLoop                                                                 *)

RunLabels == {"get", "clock", "closest", "pop", "wait", "woken", "test", "run", "returned"}

RunDomains ==
  /\ loop \in RunLabels
  /\ stop \in {"none", "timers", "tasks", "stopped"}
  /\ now \in 0 .. LastTime
  /\ deadline \in Nat

\* Pop returns nothing only to a loop that has left nothing but late tasks: why Run,
\* which tests the flag and does not look at the queue again, may return.
NothingPopped == loop \in {"test", "returned"} => tasks_closed /\ InBuffer \subseteq late

\* The timer that the loop looked at is there, or one that is due before it.
TimerReady ==
  /\ loop = "clock" => \E r \in timers : r.deadline <= deadline
  /\ loop = "closest" => \E r \in timers : r.deadline <= now

RunInd == LoopInv /\ RunDomains /\ NothingPopped /\ TimerReady

USE RunLoopAssumption

LEMMA RunInit == RunLoopInit => RunInd
<1> SUFFICES ASSUME RunLoopInit PROVE RunInd
  OBVIOUS
<1>1. RunLoopTypeOK
  <2>1. buffer_ \in Seq(Tasks)
    BY EmptySeq DEF RunLoopInit
  <2>2. /\ waiting_ = IF loop \in {"wait", "woken"} THEN 1 ELSE 0
        /\ timers \subseteq TimerType /\ setting \subseteq TimerType
        /\ task \in Tasks \cup {NoTask} /\ (task # NoTask) = (loop = "run")
    BY DEF RunLoopInit
  <2>3. tasks_closed = (stop \in {"tasks", "stopped"}) /\ is_closed_ = (stop = "stopped")
    <3>1. tasks_closed = FALSE /\ is_closed_ = FALSE /\ stop = "none"
      BY DEF RunLoopInit
    <3>2. (stop \in {"tasks", "stopped"}) = FALSE /\ (stop = "stopped") = FALSE
      BY <3>1
    <3> QED BY <3>1, <3>2, Zenon
  <2> QED BY <2>1, <2>2, <2>3 DEF RunLoopTypeOK
<1>2. RunDomains
  BY DEF RunLoopInit, RunDomains, RunLabels
<1>3. AwakeForTasks /\ ReturnDrains /\ NothingPopped /\ TimerReady
  BY DEF RunLoopInit, AwakeForTasks, ReturnDrains, NothingPopped, TimerReady
<1> QED BY <1>1, <1>2, <1>3 DEF RunInd, LoopInv

\* What is in the queue when a task is appended to it, and when its first is taken.
LEMMA TaskAppended ==
  ASSUME buffer_ \in Seq(Tasks), NEW t \in Tasks, buffer_' = Append(buffer_, t)
  PROVE  /\ buffer_' \in Seq(Tasks) /\ buffer_' # << >>
         /\ InBuffer' = InBuffer \cup {t}
BY AppendProperties DEF InBuffer

LEMMA TaskPopped ==
  ASSUME buffer_ \in Seq(Tasks), buffer_ # << >>
  PROVE  Tail(buffer_) \in Seq(Tasks) /\ Head(buffer_) \in Tasks
BY HeadTailProperties

-----------------------------------------------------------------------------
(* Each step keeps LoopInd                                                 *)

LEMMA RunSubmitKeeps ==
  ASSUME RunInd, NEW t \in Tasks, NEW inside \in BOOLEAN, SubmitTask(t, inside)
  PROVE  RunInd'
<1>1. buffer_' \in Seq(Tasks) /\ buffer_' # << >> /\ InBuffer' = InBuffer \cup {t}
  BY TaskAppended DEF RunInd, LoopInv, RunLoopTypeOK, SubmitTask
<1>2. loop' = IF loop = "wait" THEN "woken" ELSE loop
  BY DEF RunInd, LoopInv, RunLoopTypeOK, SubmitTask, Notified
<1>3. RunLoopTypeOK' /\ RunDomains' /\ AwakeForTasks' /\ TimerReady'
  BY <1>1, <1>2 DEF RunInd, LoopInv, RunLoopTypeOK, RunDomains, AwakeForTasks, TimerReady, RunLabels, SubmitTask
<1>4. NothingPopped' /\ ReturnDrains'
  BY <1>1, <1>2 DEF RunInd, LoopInv, RunLoopTypeOK, NothingPopped, ReturnDrains, SubmitTask
<1> QED BY <1>3, <1>4 DEF RunInd, LoopInv

LEMMA RunSetKeeps ==
  ASSUME RunInd, NEW t \in Tasks, NEW d \in Durations, SetInside(t, d) \/ SetOutside(t, d)
  PROVE  RunInd'
<1>1. Timer(t, d) \in TimerType
  BY DEF Timer, TimerType, SetInside, SetOutside, RunInd, RunDomains
<1>2. /\ timers \subseteq timers' /\ timers' \subseteq timers \cup {Timer(t, d)}
      /\ setting' \subseteq setting \cup {Timer(t, d)}
      /\ UNCHANGED <<buffer_, waiting_, tasks_closed, is_closed_, now, loop, task, deadline, stop, late>>
  BY DEF SetInside, SetOutside
<1>3. InBuffer' = InBuffer
  BY <1>2 DEF InBuffer
<1> QED
  BY <1>1, <1>2, <1>3 DEF RunInd, LoopInv, RunLoopTypeOK, RunDomains, NothingPopped, TimerReady, AwakeForTasks,
                          ReturnDrains

LEMMA PushTimerKeeps ==
  ASSUME RunInd, NEW r \in setting, PushTimer(r)
  PROVE  RunInd'
<1>1. InBuffer' = InBuffer
  BY DEF PushTimer, InBuffer
<1> QED
  BY <1>1 DEF PushTimer, RunInd, LoopInv, RunLoopTypeOK, RunDomains, NothingPopped, TimerReady, AwakeForTasks,
              ReturnDrains

LEMMA TickKeeps == RunInd /\ Tick => RunInd'
<1> SUFFICES ASSUME RunInd, Tick PROVE RunInd'
  OBVIOUS
<1>1. InBuffer' = InBuffer
  BY DEF Tick, InBuffer
<1>2. \A r \in timers : r.deadline \in Nat
  BY DEF RunInd, LoopInv, RunLoopTypeOK, TimerType
<1> QED
  BY <1>1, <1>2 DEF Tick, RunInd, LoopInv, RunLoopTypeOK, RunDomains, NothingPopped, TimerReady, AwakeForTasks,
                    ReturnDrains

\* The loop between two pops: what it does to the timers and the task.
LEMMA TimerStepsKeep ==
  ASSUME RunInd, TryNearestDeadLine \/ ReadClock \/ GetClosestTimer
  PROVE  RunInd'
<1>1. InBuffer' = InBuffer
  BY DEF TryNearestDeadLine, ReadClock, GetClosestTimer, Goes, InBuffer
<1>2. \A r \in timers : r.deadline \in Nat /\ r.task \in Tasks
  BY DEF RunInd, LoopInv, RunLoopTypeOK, TimerType
<1>3. CASE TryNearestDeadLine
  BY <1>1, <1>2, <1>3 DEF TryNearestDeadLine, Goes, Earliest, RunInd, LoopInv, RunLoopTypeOK, RunDomains,
     NothingPopped, TimerReady, AwakeForTasks, ReturnDrains, RunLabels
<1>4. CASE ReadClock
  BY <1>1, <1>2, <1>4 DEF ReadClock, Goes, RunInd, LoopInv, RunLoopTypeOK, RunDomains,
     NothingPopped, TimerReady, AwakeForTasks, ReturnDrains, RunLabels
<1>5. CASE GetClosestTimer
  BY <1>1, <1>2, <1>5 DEF GetClosestTimer, Goes, Earliest, RunInd, LoopInv, RunLoopTypeOK, RunDomains,
     NothingPopped, TimerReady, AwakeForTasks, ReturnDrains, RunLabels
<1> QED BY <1>3, <1>4, <1>5

LEMMA RunPopKeeps == RunInd /\ PopTask => RunInd'
<1> SUFFICES ASSUME RunInd, PopTask PROVE RunInd'
  OBVIOUS
<1>1. /\ UNCHANGED <<timers, deadline, tasks_closed, is_closed_, now, setting, stop, unsent, late>>
      /\ loop \in {"pop", "woken"} /\ task = NoTask
      /\ \/ buffer_ = << >> /\ ~tasks_closed /\ loop' = "wait" /\ waiting_' = 1
            /\ UNCHANGED <<buffer_, task>>
         \/ buffer_ = << >> /\ tasks_closed /\ loop' = "test" /\ waiting_' = 0
            /\ UNCHANGED <<buffer_, task>>
         \/ buffer_ # << >> /\ loop' = "run" /\ waiting_' = 0
            /\ buffer_' = Tail(buffer_) /\ task' = Head(buffer_)
  BY DEF PopTask, PopSection, Goes, RunInd, LoopInv, RunLoopTypeOK
<1>2. buffer_' \in Seq(Tasks)
  BY <1>1, TaskPopped DEF RunInd, LoopInv, RunLoopTypeOK
<1>3. buffer_ # << >> => Head(buffer_) \in Tasks
  BY TaskPopped DEF RunInd, LoopInv, RunLoopTypeOK
<1>4. RunLoopTypeOK'
  BY <1>1, <1>2, <1>3 DEF RunInd, LoopInv, RunLoopTypeOK
<1>5. RunDomains' /\ AwakeForTasks' /\ ReturnDrains' /\ TimerReady'
  BY <1>1 DEF RunInd, LoopInv, RunDomains, RunLabels, AwakeForTasks, ReturnDrains, TimerReady
<1>6. loop' = "test" => InBuffer' = {}
  BY <1>1 DEF InBuffer
<1>7. NothingPopped'
  BY <1>1, <1>6 DEF NothingPopped
<1> QED BY <1>4, <1>5, <1>7 DEF RunInd, LoopInv

LEMMA OtherRunStepsKeep ==
  ASSUME RunInd, TestClosed \/ FinishTask \/ SpuriousWakeup
  PROVE  RunInd'
<1>1. InBuffer' = InBuffer
  BY DEF TestClosed, FinishTask, SpuriousWakeup, Goes, InBuffer
<1> QED
  BY <1>1 DEF TestClosed, FinishTask, SpuriousWakeup, Goes, RunInd, LoopInv, RunLoopTypeOK, RunDomains,
     NothingPopped, TimerReady, AwakeForTasks, ReturnDrains, RunLabels

LEMMA StopKeeps == RunInd /\ Stop => RunInd'
<1> SUFFICES ASSUME RunInd, Stop PROVE RunInd'
  OBVIOUS
<1>1. InBuffer' = InBuffer
  BY DEF Stop, StopTimers, StopTasks, StopStore, InBuffer
<1>2. CASE StopTimers
  BY <1>1, <1>2 DEF StopTimers, RunInd, LoopInv, RunLoopTypeOK, RunDomains, NothingPopped, TimerReady,
     AwakeForTasks, ReturnDrains
<1>3. CASE StopTasks
  <2>1. loop' = IF loop = "wait" THEN "woken" ELSE loop
    BY <1>3 DEF StopTasks, Notified, RunInd, LoopInv, RunLoopTypeOK
  <2>2. RunLoopTypeOK'
    BY <1>3, <2>1 DEF StopTasks, RunInd, LoopInv, RunLoopTypeOK
  <2>3. RunDomains' /\ NothingPopped' /\ TimerReady' /\ AwakeForTasks' /\ ReturnDrains'
    BY <1>1, <1>3, <2>1 DEF StopTasks, RunInd, LoopInv, RunDomains, NothingPopped, TimerReady,
       AwakeForTasks, ReturnDrains, RunLabels
  <2> QED BY <2>2, <2>3 DEF RunInd, LoopInv
<1>4. CASE StopStore
  <2>1. RunLoopTypeOK'
    <3>1. is_closed_' = (stop' = "stopped") /\ tasks_closed' = (stop' \in {"tasks", "stopped"})
      <4>1. stop = "tasks" /\ stop' = "stopped" /\ is_closed_' = TRUE /\ tasks_closed' = tasks_closed
        BY <1>4 DEF StopStore
      <4>2. stop \in {"tasks", "stopped"} /\ stop' \in {"tasks", "stopped"}
        BY <4>1
      <4>3. tasks_closed = (stop \in {"tasks", "stopped"})
        BY DEF RunInd, LoopInv, RunLoopTypeOK
      <4> QED BY <4>1, <4>2, <4>3, Zenon
    <3> QED BY <1>4, <3>1 DEF StopStore, RunInd, LoopInv, RunLoopTypeOK
  <2>2. RunDomains' /\ NothingPopped' /\ TimerReady' /\ AwakeForTasks' /\ ReturnDrains'
    BY <1>1, <1>4 DEF StopStore, RunInd, LoopInv, RunLoopTypeOK, RunDomains, NothingPopped, TimerReady,
       AwakeForTasks, ReturnDrains
  <2> QED BY <2>1, <2>2 DEF RunInd, LoopInv
<1> QED BY <1>2, <1>3, <1>4 DEF Stop

LEMMA RunStep == RunInd /\ [RunLoopNext]_runLoopVars => RunInd'
<1> SUFFICES ASSUME RunInd, [RunLoopNext]_runLoopVars PROVE RunInd'
  OBVIOUS
<1>1. CASE UNCHANGED runLoopVars
  BY <1>1 DEF runLoopVars, RunInd, LoopInv, RunLoopTypeOK, RunDomains, NothingPopped, TimerReady, AwakeForTasks,
     ReturnDrains, InBuffer
<1>2. CASE Tick
  BY <1>2, TickKeeps
<1>3. CASE Run
  BY <1>3, TimerStepsKeep, RunPopKeeps, OtherRunStepsKeep DEF Run
<1>4. CASE SpuriousWakeup
  BY <1>4, OtherRunStepsKeep
<1>5. CASE Stop
  BY <1>5, StopKeeps
<1>6. CASE \E t \in Tasks, inside \in BOOLEAN : SubmitTask(t, inside)
  BY <1>6, RunSubmitKeeps
<1>7. CASE \E t \in Tasks, d \in Durations : SetInside(t, d) \/ SetOutside(t, d)
  BY <1>7, RunSetKeeps
<1>8. CASE \E r \in setting : PushTimer(r)
  BY <1>8, PushTimerKeeps
<1> QED BY <1>1, <1>2, <1>3, <1>4, <1>5, <1>6, <1>7, <1>8 DEF RunLoopNext, Terminated

LEMMA RunIndAlways == RunLoopSpec => []RunInd
BY RunInit, RunStep, PTL DEF RunLoopSpec

\* The loop sleeps only while there is nothing to run and the queue is open, and Run
\* returns only after Stop, with no task left but the late ones (runtime.cpp, GetTask).
THEOREM LoopMaySleepAndReturn == RunLoopSpec => []LoopInv
BY RunIndAlways, PTL DEF RunInd

\* A timer that GetTask returns is due: the earliest is compared with the clock, and
\* the one taken two steps later is not later than it, as only the loop takes timers.
THEOREM TimersAreDue == RunLoopSpec => NeverEarly
<1>1. RunInd /\ [RunLoopNext]_runLoopVars => [loop = "closest" /\ loop' = "run" => deadline' <= now]_runLoopVars
  <2> SUFFICES ASSUME RunInd, RunLoopNext, loop = "closest", loop' = "run"
               PROVE  deadline' <= now
    BY DEF runLoopVars
  <2>1. GetClosestTimer
    BY DEF RunLoopNext, Tick, Run, TryNearestDeadLine, ReadClock, PopTask, TestClosed, FinishTask, SpuriousWakeup, Stop,
       StopTimers, StopTasks, StopStore, SubmitTask, Notified, SetInside, SetOutside, PushTimer, Terminated, runLoopVars
  <2>2. PICK r \in timers : r.deadline <= now
    BY DEF RunInd, TimerReady
  <2>3. PICK s \in timers : Earliest(s) /\ deadline' = s.deadline
    BY <2>1 DEF GetClosestTimer
  <2>4. r.deadline \in Nat /\ s.deadline \in Nat /\ now \in Nat
    BY DEF RunInd, LoopInv, RunLoopTypeOK, TimerType, RunDomains
  <2> QED BY <2>2, <2>3, <2>4 DEF Earliest
<1> QED BY <1>1, RunIndAlways, PTL DEF RunLoopSpec, NeverEarly
=============================================================================

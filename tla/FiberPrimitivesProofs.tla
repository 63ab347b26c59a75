------------------------ MODULE FiberPrimitivesProofs ------------------------
(* Proofs about FiberPrimitives, for any fibers, threads, calls and capacity:   *)
(* the machinery of FiberSync, whatever primitive uses it, and then what the    *)
(* mutex, the wait group and the channels promise.                              *)
EXTENDS FiberPrimitives, SequenceTheorems, FiniteSetTheorems, TLAPS

AllLabels == Labels \cup WG!Labels \cup Buffered!ChanLabels

\* Where a fiber is suspended while it waits, and where its call has the flag of its
\* UniqueLock set.
ParkedLabels == {"lock", "woken", "send_woken", "receive_woken"}
FlagLabels == FlagPcs \cup {"wait_test", "wait_return", "send_locked", "send_return",
                            "receive_locked", "receive_return"}

\* Where a fiber is tells what it does next ...
CallbacksOK ==
  \A w \in Workers :
    /\ cb[w] \in ParkSteps => pc[running[w]] \in ParkedLabels
    /\ cb[w] = "yield" => pc[running[w]] = "yielded"

WaitersParked == \A k \in DOMAIN fibers_ : pc[fibers_[k]] \in ParkedLabels

\* ... and who owns the spin lock is executing, with the flag set or about to return.
OwnersRun == \A f \in Fibers : pc[f] \in OwnerPcs => \E w \in Workers : Runs(w, f)

Flags(w, f) ==
  /\ running[w] = f
  /\ cb[w] \in {"park", "disown"} \/ (cb[w] = "none" /\ pc[f] \in FlagLabels)

FlagsOwned == \A f \in Fibers : is_owned_[f] <=> \E w \in Workers : Flags(w, f)

\* A fiber that has ended is nowhere.
EndedGone ==
  \A f \in Fibers : pc[f] = "finished" => f \notin ready /\ \A w \in Workers : running[w] # f

Typed == SyncTypeOK /\ pc \in [Fibers -> AllLabels]

Machine ==
  Typed /\ OnePlace /\ SpinLockOwned /\ CallbacksOK /\ WaitersParked /\ OwnersRun /\ FlagsOwned
  /\ EndedGone

-----------------------------------------------------------------------------
(* The steps of the machinery that the calls of all primitives come down to. *)

\* The first n waiters are woken.
Wakes(n) ==
  /\ n \in 0 .. Len(fibers_)
  /\ fibers_' = SubSeq(fibers_, n + 1, Len(fibers_))
  /\ ready' = ready \cup {fibers_[k] : k \in 1 .. n}

\* The locked_ that a step of the code of f leaves.
SpinEffect(f, to) ==
  \/ locked_' = locked_ /\ (to \in OwnerPcs <=> pc[f] \in OwnerPcs)
  \/ ~ locked_ /\ locked_' = TRUE /\ to \in OwnerPcs
  \/ pc[f] \in OwnerPcs /\ locked_' = FALSE /\ to \notin OwnerPcs

\* A step of the code of f, which stays on its thread and may wake waiters.
Moves(w, f, to, n) ==
  /\ Runs(w, f)
  /\ to \in AllLabels \ {"finished"}
  /\ Goto(f, to)
  /\ is_owned_' = [is_owned_ EXCEPT ![f] = (to \in FlagLabels)]
  /\ SpinEffect(f, to)
  /\ n > 0 => pc[f] \in OwnerPcs
  /\ Wakes(n)
  /\ UNCHANGED <<running, cb>>

\* Park and Yield: the code of f stops and the callback begins.
Leaves(w, f, callback, to) ==
  /\ Runs(w, f)
  /\ \/ callback = "park" /\ pc[f] \in OwnerPcs \cap FlagLabels /\ to \in ParkedLabels
     \/ callback = "yield" /\ pc[f] = "critical" /\ to = "yielded"
  /\ Suspend(w, f, callback, to)
  /\ UNCHANGED <<locked_, fibers_, is_owned_>>

MachineStep ==
  \E w \in Workers :
    \/ YieldCallback(w) \/ ParkCallback(w) \/ ParkUnlock(w)
    \/ \E f \in Fibers :
         \/ Resume(w, f) \/ Finish(w, f)
         \/ \E to \in AllLabels : \E n \in Nat : Moves(w, f, to, n)
         \/ \E callback, to \in {"park", "yield", "yielded"} \cup ParkedLabels :
              Leaves(w, f, callback, to)

-----------------------------------------------------------------------------
(* The machinery.                                                          *)

LEMMA ParkedIs ==
  /\ ParkedLabels \cap OwnerPcs = {} /\ ParkedLabels \cap FlagLabels = {}
  /\ FlagLabels \subseteq OwnerPcs
  /\ "idle" \notin OwnerPcs /\ "finished" \notin OwnerPcs \cup ParkedLabels
  /\ "critical" \notin OwnerPcs /\ "yielded" \notin OwnerPcs \cup ParkedLabels
BY DEF ParkedLabels, OwnerPcs, SpinPcs, FlagPcs, FlagLabels

\* What the shared state says of a thread that executes fiber f.
LEMMA RunsAlone ==
  ASSUME Machine, NEW w \in Workers, NEW f \in Fibers, Runs(w, f)
  PROVE  /\ f \notin ready
         /\ \A u \in Workers \ {w} : running[u] # f
         /\ \A k \in DOMAIN fibers_ : fibers_[k] # f
         /\ running[w] = f /\ cb[w] = "none"
BY FiberAssumption DEF Machine, Typed, OnePlace, SyncTypeOK, Runs, Published

\* While the code of f owns spin_, nobody is between PushBack and the end of unlock.
LEMMA OwnerAlone ==
  ASSUME Machine, NEW w \in Workers, NEW f \in Fibers, Runs(w, f), pc[f] \in OwnerPcs
  PROVE  /\ \A u \in Workers : cb[u] \notin ParkSteps
         /\ \A u \in Workers : \A k \in DOMAIN fibers_ : running[u] # fibers_[k]
         /\ \A g \in Fibers : pc[g] \in OwnerPcs => g = f
         /\ locked_
<1>1. Owner(w) /\ cb[w] = "none"
  BY FiberAssumption DEF Owner, Runs
<1>2. \A u \in Workers : Owner(u) => u = w
  BY <1>1 DEF Machine, SpinLockOwned
<1>3. ASSUME NEW u \in Workers PROVE cb[u] \notin ParkSteps
  BY <1>1, <1>2 DEF Owner, ParkSteps
<1>4. ASSUME NEW u \in Workers, NEW k \in DOMAIN fibers_, running[u] = fibers_[k] PROVE FALSE
  <2>1. running[u] # NULL
    BY <1>4, FiberAssumption DEF Machine, Typed, SyncTypeOK
  <2>2. cb[u] \in Published
    BY <1>4, <2>1 DEF Machine, OnePlace
  <2> QED BY <1>3, <2>2 DEF Published, ParkSteps
<1>5. ASSUME NEW g \in Fibers, pc[g] \in OwnerPcs PROVE g = f
  <2>1. PICK u \in Workers : Runs(u, g)
    BY <1>5 DEF Machine, OwnersRun
  <2>2. Owner(u)
    BY <1>5, <2>1, FiberAssumption DEF Owner, Runs
  <2> QED BY <1>2, <2>1, <2>2 DEF Runs
<1> QED BY <1>1, <1>3, <1>4, <1>5 DEF Machine, SpinLockOwned

\* The flag of the fiber that executes says where it is.
LEMMA FlagIs ==
  ASSUME Machine, NEW w \in Workers, NEW f \in Fibers, Runs(w, f)
  PROVE  is_owned_[f] = (pc[f] \in FlagLabels)
<1>1. Flags(w, f) <=> pc[f] \in FlagLabels
  BY DEF Flags, Runs
<1>2. \A u \in Workers \ {w} : ~ Flags(u, f)
  BY RunsAlone DEF Flags
<1> QED BY <1>1, <1>2 DEF Machine, FlagsOwned, Typed, SyncTypeOK

\* A step of thread w takes spin_, releases it, or keeps its owner.
LEMMA SpinStep ==
  ASSUME SpinLockOwned, NEW w \in Workers,
         \A u \in Workers \ {w} : Owner(u)' <=> Owner(u),
         \/ locked_' = locked_ /\ (Owner(w)' <=> Owner(w))
         \/ ~ locked_ /\ locked_' = TRUE /\ Owner(w)'
         \/ Owner(w) /\ locked_' = FALSE /\ ~ Owner(w)'
  PROVE  SpinLockOwned'
<1> USE DEF SpinLockOwned
<1>1. CASE locked_' = locked_ /\ (Owner(w)' <=> Owner(w))
  BY <1>1
<1>2. CASE ~ locked_ /\ locked_' = TRUE /\ Owner(w)'
  BY <1>2
<1>3. CASE Owner(w) /\ locked_' = FALSE /\ ~ Owner(w)'
  BY <1>3
<1> QED BY <1>1, <1>2, <1>3

\* What is left of a sequence without its first n elements.
LEMMA Rest ==
  ASSUME NEW S, NEW s \in Seq(S), NEW n \in 0 .. Len(s)
  PROVE  LET b == SubSeq(s, n + 1, Len(s))
         IN /\ b \in Seq(S) /\ Len(b) = Len(s) - n
            /\ \A i \in 1 .. Len(s) - n : b[i] = s[n + i]
            /\ n = 0 => b = s
<1> DEFINE b == SubSeq(s, n + 1, Len(s))
<1>1. b \in Seq(S) /\ Len(b) = Len(s) - n /\ \A i \in 1 .. Len(s) - n : b[i] = s[n + i]
  <2>1. \A i \in n + 1 .. Len(s) : s[i] \in S
    BY ElementOfSeq
  <2>2. Len(s) \in Nat
    BY LenProperties
  <2>3. /\ b \in Seq(S) /\ Len(b) = IF n + 1 <= Len(s) THEN Len(s) - (n + 1) + 1 ELSE 0
        /\ \A i \in 1 .. Len(s) - (n + 1) + 1 : b[i] = s[n + 1 + i - 1]
    BY <2>1, <2>2, SubSeqProperties
  <2> QED BY <2>2, <2>3
<1>2. n = 0 => b = s
  BY SubSeqFull
<1> QED BY <1>1, <1>2

\* What is left of the waiters.
LEMMA WakesShape ==
  ASSUME fibers_ \in Seq(Fibers), NEW n, Wakes(n)
  PROVE  /\ n \in Nat /\ n <= Len(fibers_) /\ Len(fibers_) \in Nat
         /\ DOMAIN fibers_ = 1 .. Len(fibers_)
         /\ fibers_' \in Seq(Fibers)
         /\ DOMAIN fibers_' = 1 .. (Len(fibers_) - n)
         /\ \A k \in DOMAIN fibers_' : fibers_'[k] = fibers_[k + n] /\ k + n \in DOMAIN fibers_
         /\ \A k \in 1 .. n : k \in DOMAIN fibers_
         /\ n = 0 => fibers_' = fibers_ /\ ready' = ready
<1>1. n \in 0 .. Len(fibers_) /\ Len(fibers_) \in Nat /\ DOMAIN fibers_ = 1 .. Len(fibers_)
  BY DEF Wakes
<1>2. fibers_' = SubSeq(fibers_, n + 1, Len(fibers_))
  BY DEF Wakes
<1>3. /\ fibers_' \in Seq(Fibers) /\ Len(fibers_') = Len(fibers_) - n
      /\ \A k \in 1 .. Len(fibers_) - n : fibers_'[k] = fibers_[n + k]
      /\ n = 0 => fibers_' = fibers_
  BY <1>1, <1>2, Rest
<1>4. n = 0 => ready' = ready
  BY DEF Wakes
<1> QED BY <1>1, <1>3, <1>4

\* Who is woken was in fibers_, on no thread, and is not in fibers_ any more.
LEMMA WokenApart ==
  ASSUME Machine, NEW w \in Workers, NEW f \in Fibers, Runs(w, f), NEW n, Wakes(n),
         n > 0 => pc[f] \in OwnerPcs
  PROVE  /\ \A g \in ready' \ ready :
              /\ g \in Fibers \ {f} /\ pc[g] \in ParkedLabels
              /\ \A u \in Workers : running[u] # g
              /\ \A k \in DOMAIN fibers_' : fibers_'[k] # g
              /\ \E k \in DOMAIN fibers_ : fibers_[k] = g
         /\ \A k \in DOMAIN fibers_' : fibers_'[k] \notin ready'
         /\ \A i, j \in DOMAIN fibers_' : i # j => fibers_'[i] # fibers_'[j]
         /\ ready \subseteq ready' /\ ready' \subseteq Fibers
         /\ \A u \in Workers : running[u] # NULL =>
              ((\E k \in DOMAIN fibers_' : fibers_'[k] = running[u])
                <=> (\E k \in DOMAIN fibers_ : fibers_[k] = running[u]))
<1>0. fibers_ \in Seq(Fibers) /\ ready \subseteq Fibers
  BY DEF Machine, Typed, SyncTypeOK
<1>1. /\ n \in Nat /\ Len(fibers_) \in Nat /\ DOMAIN fibers_ = 1 .. Len(fibers_)
      /\ DOMAIN fibers_' = 1 .. (Len(fibers_) - n)
      /\ \A k \in DOMAIN fibers_' : fibers_'[k] = fibers_[k + n] /\ k + n \in DOMAIN fibers_
      /\ \A k \in 1 .. n : k \in DOMAIN fibers_
      /\ n = 0 => fibers_' = fibers_ /\ ready' = ready
  BY <1>0, WakesShape
<1>2. ready' = ready \cup {fibers_[k] : k \in 1 .. n}
  BY DEF Wakes
<1>3. \A i, j \in DOMAIN fibers_ : i # j => fibers_[i] # fibers_[j]
  BY DEF Machine, OnePlace
<1>4. \A k \in DOMAIN fibers_ : fibers_[k] \notin ready
  BY DEF Machine, OnePlace
<1>5. \A k \in DOMAIN fibers_ : fibers_[k] # f /\ fibers_[k] \in Fibers /\ pc[fibers_[k]] \in ParkedLabels
  BY <1>0, RunsAlone DEF Machine, WaitersParked
<1>6. n > 0 => \A u \in Workers : \A k \in DOMAIN fibers_ : running[u] # fibers_[k]
  BY OwnerAlone
<1>7. ASSUME NEW g \in ready' \ ready
      PROVE  /\ g \in Fibers \ {f} /\ pc[g] \in ParkedLabels
             /\ \A u \in Workers : running[u] # g
             /\ \A k \in DOMAIN fibers_' : fibers_'[k] # g
             /\ \E k \in DOMAIN fibers_ : fibers_[k] = g
  <2>1. PICK i \in 1 .. n : g = fibers_[i]
    BY <1>2
  <2>2. n > 0 /\ i \in DOMAIN fibers_
    BY <1>1
  <2>3. ASSUME NEW k \in DOMAIN fibers_' PROVE fibers_'[k] # g
    <3>1. k + n # i
      BY <1>1
    <3> QED BY <1>1, <1>3, <2>1, <2>2, <3>1
  <2> QED BY <1>5, <1>6, <2>1, <2>2, <2>3
<1>8. \A k \in DOMAIN fibers_' : fibers_'[k] \notin ready'
  BY <1>1, <1>4, <1>7
<1>9. ASSUME NEW i \in DOMAIN fibers_', NEW j \in DOMAIN fibers_', i # j
      PROVE  fibers_'[i] # fibers_'[j]
  <2>1. i + n # j + n
    BY <1>1, <1>9
  <2> QED BY <1>1, <1>3, <2>1
<1>10. ready \subseteq ready' /\ ready' \subseteq Fibers
  BY <1>0, <1>2, <1>7
<1>11. ASSUME NEW u \in Workers
       PROVE  (\E k \in DOMAIN fibers_' : fibers_'[k] = running[u])
                <=> (\E k \in DOMAIN fibers_ : fibers_[k] = running[u])
  <2>1. CASE n = 0
    BY <1>1, <2>1
  <2>2. CASE n > 0
    BY <1>1, <1>6, <2>2
  <2> QED BY <1>1, <2>1, <2>2
<1> QED BY <1>7, <1>8, <1>9, <1>10, <1>11

LEMMA MovesKeeps ==
  ASSUME Machine, NEW w \in Workers, NEW f \in Fibers, NEW to, NEW n, Moves(w, f, to, n)
  PROVE  Machine'
<1>1. /\ f \notin ready
      /\ \A u \in Workers \ {w} : running[u] # f
      /\ \A k \in DOMAIN fibers_ : fibers_[k] # f
      /\ running[w] = f /\ cb[w] = "none"
  BY RunsAlone DEF Moves
<1>a. locked_' \in BOOLEAN
  BY DEF Moves, SpinEffect, Machine, Typed, SyncTypeOK
<1>b. is_owned_' = [is_owned_ EXCEPT ![f] = (to \in FlagLabels)]
  BY DEF Moves
<1>c. is_owned_' \in [Fibers -> BOOLEAN]
  BY <1>b DEF Machine, Typed, SyncTypeOK
<1>2. /\ pc'[f] = to /\ pc' \in [Fibers -> AllLabels] /\ to # "finished"
      /\ \A g \in Fibers \ {f} : pc'[g] = pc[g] /\ is_owned_'[g] = is_owned_[g]
      /\ is_owned_'[f] = (to \in FlagLabels)
      /\ is_owned_' \in [Fibers -> BOOLEAN] /\ locked_' \in BOOLEAN
      /\ running' = running /\ cb' = cb
      /\ running \in [Workers -> Fibers \cup {NULL}] /\ cb \in [Workers -> CallbackSteps]
      /\ \A u \in Workers : cb[u] # "none" => running[u] # NULL
  BY <1>a, <1>b, <1>c DEF Moves, Goto, Machine, Typed, SyncTypeOK
<1>3. /\ fibers_ \in Seq(Fibers) /\ fibers_' \in Seq(Fibers)
      /\ \A k \in DOMAIN fibers_' : \E j \in DOMAIN fibers_ : fibers_'[k] = fibers_[j]
  BY WakesShape DEF Moves, Machine, Typed, SyncTypeOK
<1>4. /\ \A g \in ready' \ ready :
           g \in Fibers \ {f} /\ pc[g] \in ParkedLabels /\ \A u \in Workers : running[u] # g
      /\ \A k \in DOMAIN fibers_' : fibers_'[k] \notin ready'
      /\ \A i, j \in DOMAIN fibers_' : i # j => fibers_'[i] # fibers_'[j]
      /\ ready' \subseteq Fibers
      /\ \A u \in Workers : running[u] # NULL =>
           ((\E k \in DOMAIN fibers_' : fibers_'[k] = running[u])
             <=> (\E k \in DOMAIN fibers_ : fibers_[k] = running[u]))
  BY WokenApart DEF Moves
<1>5. Typed'
  BY <1>2, <1>3, <1>4 DEF Typed, SyncTypeOK
<1>6. OnePlace'
  BY <1>2, <1>4 DEF Machine, OnePlace
<1>7. SpinLockOwned'
  <2>1. \A u \in Workers \ {w} : Owner(u)' <=> Owner(u)
    BY <1>1, <1>2 DEF Owner
  <2>2. /\ Owner(w)' <=> to \in OwnerPcs
        /\ Owner(w) <=> pc[f] \in OwnerPcs
    BY <1>1, <1>2, FiberAssumption DEF Owner, ParkSteps
  <2> QED BY <2>1, <2>2, SpinStep DEF Moves, SpinEffect, Machine
<1>8. CallbacksOK'
  BY <1>1, <1>2 DEF Machine, CallbacksOK, ParkSteps
<1>9. WaitersParked'
  BY <1>1, <1>2, <1>3 DEF Machine, WaitersParked
<1>10. OwnersRun'
  BY <1>1, <1>2 DEF Machine, OwnersRun, Runs
<1>11. FlagsOwned'
  <2>1. ASSUME NEW g \in Fibers, g # f
        PROVE  is_owned_'[g] <=> \E u \in Workers : Flags(u, g)'
    <3>1. \A u \in Workers : Flags(u, g)' <=> Flags(u, g)
      BY <1>2, <2>1 DEF Flags
    <3> QED BY <1>2, <2>1, <3>1 DEF Machine, FlagsOwned
  <2>2. is_owned_'[f] <=> \E u \in Workers : Flags(u, f)'
    BY <1>1, <1>2 DEF Flags
  <2> QED BY <2>1, <2>2 DEF FlagsOwned
<1>12. EndedGone'
  <2> SUFFICES ASSUME NEW g \in Fibers, pc'[g] = "finished"
               PROVE  g \notin ready' /\ \A u \in Workers : running'[u] # g
    BY DEF EndedGone
  <2>1. g # f /\ pc[g] = "finished"
    BY <1>2
  <2>2. g \notin ready' \ ready
    BY <1>4, <2>1, ParkedIs
  <2> QED BY <1>2, <2>1, <2>2 DEF Machine, EndedGone
<1> QED BY <1>5, <1>6, <1>7, <1>8, <1>9, <1>10, <1>11, <1>12 DEF Machine

\* A step that leaves is_owned_, and who holds each flag.
LEMMA FlagsStay ==
  ASSUME FlagsOwned, is_owned_' = is_owned_, NEW w \in Workers,
         \A g \in Fibers : Flags(w, g)' <=> Flags(w, g),
         \A u \in Workers \ {w} : \A g \in Fibers : Flags(u, g)' <=> Flags(u, g)
  PROVE  FlagsOwned'
<1>1. \A u \in Workers : \A g \in Fibers : Flags(u, g)' <=> Flags(u, g)
  OBVIOUS
<1> QED BY <1>1 DEF FlagsOwned

LEMMA ResumeKeeps ==
  ASSUME Machine, NEW w \in Workers, NEW f \in Fibers, Resume(w, f)
  PROVE  Machine'
<1>1. /\ running[w] = NULL /\ cb[w] = "none" /\ f \in ready
      /\ ready' = ready \ {f}
      /\ running'[w] = f
      /\ \A u \in Workers \ {w} : running'[u] = running[u] /\ running[u] # f
      /\ \A k \in DOMAIN fibers_ : fibers_[k] # f
      /\ locked_' = locked_ /\ fibers_' = fibers_ /\ is_owned_' = is_owned_
      /\ cb' = cb /\ pc' = pc
      /\ running' \in [Workers -> Fibers \cup {NULL}]
  BY FiberAssumption DEF Resume, Machine, Typed, SyncTypeOK, OnePlace
<1>2. pc[f] \notin OwnerPcs /\ pc[f] \notin FlagLabels
  BY <1>1, FiberAssumption, ParkedIs DEF Machine, OwnersRun, Runs
<1>3. Typed'
  BY <1>1 DEF Machine, Typed, SyncTypeOK
<1>4. OnePlace'
  <2>1. \A k \in DOMAIN fibers_ : fibers_[k] \notin ready'
    BY <1>1 DEF Machine, OnePlace
  <2>2. ASSUME NEW u \in Workers, u # w, running[u] # NULL
        PROVE  /\ running'[u] \notin ready'
               /\ \A v \in Workers : v # u => running'[v] # running'[u]
               /\ (\E k \in DOMAIN fibers_ : fibers_[k] = running'[u]) <=> cb[u] \in Published
    BY <1>1, <2>2 DEF Machine, OnePlace
  <2>3. /\ running'[w] \notin ready'
        /\ \A v \in Workers : v # w => running'[v] # running'[w]
        /\ (\E k \in DOMAIN fibers_ : fibers_[k] = running'[w]) <=> cb[w] \in Published
    BY <1>1 DEF Published
  <2>4. \A i, j \in DOMAIN fibers_ : i # j => fibers_[i] # fibers_[j]
    BY DEF Machine, OnePlace
  <2> QED BY <1>1, <2>1, <2>2, <2>3, <2>4 DEF OnePlace
<1>5. SpinLockOwned'
  <2>1. \A u \in Workers \ {w} : Owner(u)' <=> Owner(u)
    BY <1>1 DEF Owner
  <2>2. ~ Owner(w)' /\ ~ Owner(w)
    BY <1>1, <1>2 DEF Owner, ParkSteps
  <2> QED BY <1>1, <2>1, <2>2, SpinStep DEF Machine
<1>6. CallbacksOK' /\ WaitersParked'
  BY <1>1 DEF Machine, CallbacksOK, ParkSteps, WaitersParked
<1>7. OwnersRun'
  BY <1>1, <1>2, FiberAssumption DEF Machine, OwnersRun, Runs
<1>8. FlagsOwned'
  <2>1. \A g \in Fibers : ~ Flags(w, g) /\ ~ Flags(w, g)'
    BY <1>1, <1>2, FiberAssumption DEF Flags
  <2>2. \A u \in Workers \ {w} : \A g \in Fibers : Flags(u, g)' <=> Flags(u, g)
    BY <1>1 DEF Flags
  <2> QED BY <1>1, <2>1, <2>2, FlagsStay DEF Machine
<1>9. EndedGone'
  BY <1>1 DEF Machine, EndedGone
<1> QED BY <1>3, <1>4, <1>5, <1>6, <1>7, <1>8, <1>9 DEF Machine

LEMMA FinishKeeps ==
  ASSUME Machine, NEW w \in Workers, NEW f \in Fibers, Finish(w, f)
  PROVE  Machine'
<1>1. /\ f \notin ready
      /\ \A u \in Workers \ {w} : running[u] # f
      /\ \A k \in DOMAIN fibers_ : fibers_[k] # f
      /\ running[w] = f /\ cb[w] = "none"
  BY RunsAlone DEF Finish
<1>2. /\ pc[f] = "idle" /\ pc'[f] = "finished"
      /\ \A g \in Fibers \ {f} : pc'[g] = pc[g]
      /\ pc' \in [Fibers -> AllLabels]
      /\ running'[w] = NULL
      /\ \A u \in Workers \ {w} : running'[u] = running[u]
      /\ locked_' = locked_ /\ fibers_' = fibers_ /\ is_owned_' = is_owned_
      /\ cb' = cb /\ ready' = ready
      /\ running' \in [Workers -> Fibers \cup {NULL}]
  BY DEF Finish, Goto, Machine, Typed, SyncTypeOK, AllLabels, Labels
<1>3. Typed'
  BY <1>1, <1>2 DEF Machine, Typed, SyncTypeOK
<1>4. OnePlace'
  BY <1>1, <1>2, FiberAssumption DEF Machine, OnePlace, Published
<1>5. SpinLockOwned'
  <2>1. ASSUME NEW u \in Workers \ {w} PROVE Owner(u)' <=> Owner(u)
    <3>1. running[u] \in Fibers \cup {NULL} /\ running[u] # f
      BY <1>1 DEF Machine, Typed, SyncTypeOK
    <3> QED BY <1>2, <3>1, FiberAssumption DEF Owner
  <2>2. ~ Owner(w)' /\ ~ Owner(w)
    BY <1>1, <1>2, ParkedIs DEF Owner, ParkSteps
  <2> QED BY <1>2, <2>1, <2>2, SpinStep DEF Machine
<1>6. CallbacksOK'
  BY <1>1, <1>2, FiberAssumption DEF Machine, Typed, SyncTypeOK, CallbacksOK, ParkSteps
<1>7. WaitersParked'
  BY <1>1, <1>2 DEF Machine, Typed, SyncTypeOK, WaitersParked
<1>8. OwnersRun'
  BY <1>1, <1>2, ParkedIs DEF Machine, OwnersRun, Runs
<1>9. FlagsOwned'
  <2>1. \A g \in Fibers : ~ Flags(w, g) /\ ~ Flags(w, g)'
    BY <1>1, <1>2, FiberAssumption, ParkedIs DEF Flags
  <2>2. \A u \in Workers \ {w} : \A g \in Fibers : Flags(u, g)' <=> Flags(u, g)
    BY <1>1, <1>2 DEF Flags
  <2> QED BY <1>2, <2>1, <2>2, FlagsStay DEF Machine
<1>10. EndedGone'
  BY <1>1, <1>2, FiberAssumption DEF Machine, EndedGone
<1> QED BY <1>3, <1>4, <1>5, <1>6, <1>7, <1>8, <1>9, <1>10 DEF Machine

\* The fiber is not in fibers_ yet, and still on its thread.
LEMMA LeavesKeeps ==
  ASSUME Machine, NEW w \in Workers, NEW f \in Fibers, NEW callback, NEW to,
         Leaves(w, f, callback, to)
  PROVE  Machine'
<1>1. /\ f \notin ready
      /\ \A u \in Workers \ {w} : running[u] # f
      /\ \A k \in DOMAIN fibers_ : fibers_[k] # f
      /\ running[w] = f /\ cb[w] = "none"
  BY RunsAlone DEF Leaves
<1>a. to \in AllLabels /\ to # "finished" /\ to \notin OwnerPcs /\ to \notin FlagLabels
      /\ callback \in {"park", "yield"}
      /\ (callback = "park" => pc[f] \in OwnerPcs \cap FlagLabels /\ to \in ParkedLabels)
      /\ (callback = "yield" => pc[f] \notin OwnerPcs /\ to = "yielded")
  BY ParkedIs DEF Leaves, AllLabels, Labels, WG!Labels, Buffered!ChanLabels, ParkedLabels
<1>2. /\ pc'[f] = to
      /\ \A g \in Fibers \ {f} : pc'[g] = pc[g]
      /\ pc' \in [Fibers -> AllLabels]
      /\ cb'[w] = callback
      /\ \A u \in Workers \ {w} : cb'[u] = cb[u]
      /\ locked_' = locked_ /\ fibers_' = fibers_ /\ is_owned_' = is_owned_
      /\ running' = running /\ ready' = ready
      /\ cb' \in [Workers -> CallbackSteps]
      /\ running \in [Workers -> Fibers \cup {NULL}]
  BY <1>a DEF Leaves, Suspend, Goto, Machine, Typed, SyncTypeOK, CallbackSteps
<1>3. Typed'
  BY <1>1, <1>2, FiberAssumption DEF Machine, Typed, SyncTypeOK
<1>4. OnePlace'
  BY <1>1, <1>2, <1>a, FiberAssumption DEF Machine, OnePlace, Published
<1>5. SpinLockOwned'
  <2>1. \A u \in Workers \ {w} : Owner(u)' <=> Owner(u)
    BY <1>1, <1>2 DEF Owner
  <2>2. Owner(w)' <=> Owner(w)
    BY <1>1, <1>2, <1>a, FiberAssumption DEF Owner, ParkSteps
  <2> QED BY <1>2, <2>1, <2>2, SpinStep DEF Machine
<1>6. CallbacksOK'
  BY <1>1, <1>2, <1>a DEF Machine, Typed, SyncTypeOK, CallbacksOK, ParkSteps
<1>7. WaitersParked'
  BY <1>1, <1>2 DEF Machine, Typed, SyncTypeOK, WaitersParked
<1>8. OwnersRun'
  BY <1>1, <1>2, <1>a DEF Machine, OwnersRun, Runs
<1>9. FlagsOwned'
  <2>0. callback = "yield" => pc[f] \notin FlagLabels
    BY <1>a, ParkedIs
  <2>1. \A g \in Fibers : Flags(w, g)' <=> Flags(w, g)
    BY <1>1, <1>2, <1>a, <2>0 DEF Flags
  <2>2. \A u \in Workers \ {w} : \A g \in Fibers : Flags(u, g)' <=> Flags(u, g)
    BY <1>1, <1>2 DEF Flags
  <2> QED BY <1>2, <2>1, <2>2, FlagsStay DEF Machine
<1>10. EndedGone'
  BY <1>1, <1>2, <1>a DEF Machine, EndedGone
<1> QED BY <1>3, <1>4, <1>5, <1>6, <1>7, <1>8, <1>9, <1>10 DEF Machine

\* What is known of the fiber whose callback a thread is in.
LEMMA CallbackOf ==
  ASSUME Machine, NEW w \in Workers, cb[w] # "none"
  PROVE  /\ running[w] \in Fibers /\ running[w] # NULL
         /\ running[w] \notin ready
         /\ \A u \in Workers \ {w} : running[u] # running[w]
         /\ pc[running[w]] # "finished"
         /\ cb[w] \in ParkSteps => pc[running[w]] \in ParkedLabels
         /\ cb[w] = "yield" => pc[running[w]] = "yielded"
         /\ cb[w] \notin Published => \A k \in DOMAIN fibers_ : fibers_[k] # running[w]
BY FiberAssumption DEF Machine, Typed, SyncTypeOK, OnePlace, CallbacksOK, EndedGone

LEMMA YieldCallbackKeeps ==
  ASSUME Machine, NEW w \in Workers, YieldCallback(w)
  PROVE  Machine'
<1> DEFINE f == running[w]
<1>1. /\ f \in Fibers /\ cb[w] = "yield" /\ pc[f] = "yielded"
      /\ \A u \in Workers \ {w} : running[u] # f
      /\ \A k \in DOMAIN fibers_ : fibers_[k] # f
  BY CallbackOf DEF YieldCallback, Published
<1>2. /\ ready' = ready \cup {f} /\ running'[w] = NULL /\ cb'[w] = "none"
      /\ \A u \in Workers \ {w} : running'[u] = running[u] /\ cb'[u] = cb[u]
      /\ locked_' = locked_ /\ fibers_' = fibers_ /\ is_owned_' = is_owned_ /\ pc' = pc
      /\ running' \in [Workers -> Fibers \cup {NULL}]
      /\ cb' \in [Workers -> CallbackSteps]
  BY DEF YieldCallback, CallbackReturns, Machine, Typed, SyncTypeOK, CallbackSteps
<1> HIDE DEF f
<1>3. Typed'
  BY <1>1, <1>2 DEF Machine, Typed, SyncTypeOK
<1>4. OnePlace'
  BY <1>1, <1>2, FiberAssumption DEF Machine, OnePlace, Published
<1>5. SpinLockOwned'
  <2>1. \A u \in Workers \ {w} : Owner(u)' <=> Owner(u)
    BY <1>2 DEF Owner
  <2>2. ~ Owner(w)' /\ ~ Owner(w)
    BY <1>1, <1>2 DEF Owner, ParkSteps
  <2> QED BY <1>2, <2>1, <2>2, SpinStep DEF Machine
<1>6. CallbacksOK' /\ WaitersParked'
  BY <1>1, <1>2 DEF Machine, CallbacksOK, ParkSteps, WaitersParked
<1>7. OwnersRun'
  BY <1>1, <1>2, ParkedIs DEF Machine, OwnersRun, Runs
<1>8. FlagsOwned'
  <2>1. \A g \in Fibers : ~ Flags(w, g)' /\ ~ Flags(w, g)
    BY <1>1, <1>2, FiberAssumption DEF Flags
  <2>2. \A u \in Workers \ {w} : \A g \in Fibers : Flags(u, g)' <=> Flags(u, g)
    BY <1>1, <1>2 DEF Flags
  <2> QED BY <1>2, <2>1, <2>2, FlagsStay DEF Machine
<1>9. EndedGone'
  BY <1>1, <1>2, FiberAssumption DEF Machine, EndedGone
<1> QED BY <1>3, <1>4, <1>5, <1>6, <1>7, <1>8, <1>9 DEF Machine

LEMMA ParkCallbackKeeps ==
  ASSUME Machine, NEW w \in Workers, ParkCallback(w)
  PROVE  Machine'
<1> DEFINE f == running[w]
<1>1. /\ f \in Fibers /\ cb[w] = "park" /\ pc[f] \in ParkedLabels /\ f \notin ready
      /\ \A u \in Workers \ {w} : running[u] # f
      /\ \A k \in DOMAIN fibers_ : fibers_[k] # f
  BY CallbackOf DEF ParkCallback, ParkSteps, Published
<1>2. /\ ready' = ready /\ running' = running /\ cb'[w] = "disown"
      /\ \A u \in Workers \ {w} : cb'[u] = cb[u]
      /\ locked_' = locked_ /\ is_owned_' = is_owned_ /\ pc' = pc
      /\ cb' \in [Workers -> CallbackSteps]
  BY DEF ParkCallback, Machine, Typed, SyncTypeOK, CallbackSteps
<1> HIDE DEF f
<1>a. /\ fibers_' \in Seq(Fibers)
      /\ DOMAIN fibers_ = 1 .. Len(fibers_) /\ Len(fibers_) \in Nat
      /\ DOMAIN fibers_' = 1 .. Len(fibers_) + 1
      /\ \A k \in 1 .. Len(fibers_) : fibers_'[k] = fibers_[k]
      /\ fibers_'[Len(fibers_) + 1] = f
  BY <1>1 DEF ParkCallback, f, Machine, Typed, SyncTypeOK
<1>3. Typed'
  BY <1>1, <1>2, <1>a, FiberAssumption DEF Machine, Typed, SyncTypeOK, f
<1>4. OnePlace'
  <2>1. \A i, j \in DOMAIN fibers_' : i # j => fibers_'[i] # fibers_'[j]
    BY <1>1, <1>a DEF Machine, OnePlace
  <2>2. \A k \in DOMAIN fibers_' : fibers_'[k] \notin ready'
    BY <1>1, <1>2, <1>a DEF Machine, OnePlace
  <2>3. ASSUME NEW u \in Workers, running[u] # NULL, u # w
        PROVE  (\E k \in DOMAIN fibers_' : fibers_'[k] = running[u]) <=> cb'[u] \in Published
    <3>1. (\E k \in DOMAIN fibers_' : fibers_'[k] = running[u])
            <=> (\E k \in DOMAIN fibers_ : fibers_[k] = running[u])
      BY <1>1, <1>a, <2>3
    <3> QED BY <1>2, <2>3, <3>1 DEF Machine, OnePlace
  <2>4. (\E k \in DOMAIN fibers_' : fibers_'[k] = running[w]) /\ cb'[w] \in Published
    BY <1>2, <1>a DEF Published, f
  <2>5. \A u \in Workers : running[u] # NULL =>
          /\ running[u] \notin ready
          /\ \A v \in Workers : v # u => running[v] # running[u]
    BY DEF Machine, OnePlace
  <2> QED BY <1>2, <2>1, <2>2, <2>3, <2>4, <2>5 DEF OnePlace
<1>5. SpinLockOwned'
  <2>1. \A u \in Workers \ {w} : Owner(u)' <=> Owner(u)
    BY <1>2 DEF Owner
  <2>2. Owner(w)' /\ Owner(w)
    BY <1>1, <1>2 DEF Owner, ParkSteps
  <2> QED BY <1>2, <2>1, <2>2, SpinStep DEF Machine
<1>6. CallbacksOK'
  BY <1>1, <1>2 DEF Machine, CallbacksOK, ParkSteps, f
<1>7. WaitersParked'
  BY <1>1, <1>2, <1>a DEF Machine, WaitersParked
<1>8. OwnersRun'
  BY <1>1, <1>2, ParkedIs DEF Machine, OwnersRun, Runs, f
<1>9. FlagsOwned'
  <2>1. \A g \in Fibers : Flags(w, g)' <=> Flags(w, g)
    BY <1>1, <1>2 DEF Flags, f
  <2>2. \A u \in Workers \ {w} : \A g \in Fibers : Flags(u, g)' <=> Flags(u, g)
    BY <1>1, <1>2 DEF Flags
  <2> QED BY <1>2, <2>1, <2>2, FlagsStay DEF Machine
<1>10. EndedGone'
  BY <1>2 DEF Machine, EndedGone
<1> QED BY <1>3, <1>4, <1>5, <1>6, <1>7, <1>8, <1>9, <1>10 DEF Machine

\* The first half of unlock: is_owned_ is cleared while w still owns spin_.
LEMMA DisownKeeps ==
  ASSUME Machine, NEW w \in Workers, cb[w] = "disown", ParkUnlock(w)
  PROVE  Machine'
<1> DEFINE f == running[w]
<1>1. /\ f \in Fibers /\ pc[f] \in ParkedLabels
      /\ \A u \in Workers \ {w} : running[u] # f
  BY CallbackOf DEF ParkSteps
<1>2. /\ is_owned_' = [is_owned_ EXCEPT ![f] = FALSE]
      /\ cb'[w] = "release"
      /\ \A u \in Workers \ {w} : cb'[u] = cb[u]
      /\ locked_' = locked_ /\ fibers_' = fibers_ /\ ready' = ready /\ running' = running
      /\ pc' = pc
      /\ cb' \in [Workers -> CallbackSteps]
  BY DEF ParkUnlock, Machine, Typed, SyncTypeOK, CallbackSteps
<1> HIDE DEF f
<1>3. Typed'
  <2>1. is_owned_' \in [Fibers -> BOOLEAN]
    BY <1>2 DEF Machine, Typed, SyncTypeOK
  <2>2. \A u \in Workers : cb'[u] # "none" => running'[u] # NULL
    BY <1>1, <1>2, FiberAssumption DEF Machine, Typed, SyncTypeOK, f
  <2> QED BY <1>2, <2>1, <2>2 DEF Machine, Typed, SyncTypeOK
<1>4. OnePlace'
  BY <1>2 DEF Machine, OnePlace, Published
<1>5. SpinLockOwned'
  <2>1. \A u \in Workers \ {w} : Owner(u)' <=> Owner(u)
    BY <1>2 DEF Owner
  <2>2. Owner(w)' /\ Owner(w)
    BY <1>2 DEF Owner, ParkSteps
  <2> QED BY <1>2, <2>1, <2>2, SpinStep DEF Machine
<1>6. CallbacksOK' /\ WaitersParked'
  BY <1>1, <1>2 DEF Machine, CallbacksOK, ParkSteps, f, WaitersParked
<1>7. OwnersRun'
  BY <1>1, <1>2, ParkedIs DEF Machine, OwnersRun, Runs, f
<1>8. FlagsOwned'
  <2>1. ASSUME NEW g \in Fibers
        PROVE  is_owned_'[g] <=> \E u \in Workers : Flags(u, g)'
    <3>1. CASE g = f
      <4>1. \A u \in Workers : ~ Flags(u, g)'
        BY <1>1, <1>2, <3>1, ParkedIs DEF Flags, f
      <4>2. ~ is_owned_'[g]
        BY <1>2, <3>1 DEF Machine, Typed, SyncTypeOK
      <4> QED BY <4>1, <4>2
    <3>2. CASE g # f
      <4>1. \A u \in Workers : Flags(u, g)' <=> Flags(u, g)
        BY <1>2, <3>2 DEF Flags, f
      <4>2. is_owned_'[g] = is_owned_[g]
        BY <1>2, <3>2 DEF Machine, Typed, SyncTypeOK
      <4>3. is_owned_[g] <=> \E u \in Workers : Flags(u, g)
        BY DEF Machine, FlagsOwned
      <4> QED BY <4>1, <4>2, <4>3
    <3> QED BY <3>1, <3>2
  <2> QED BY <2>1 DEF FlagsOwned
<1>9. EndedGone'
  BY <1>2 DEF Machine, EndedGone
<1> QED BY <1>3, <1>4, <1>5, <1>6, <1>7, <1>8, <1>9 DEF Machine

\* The second half: spin_ is released, and the thread leaves the fiber.
LEMMA ReleaseKeeps ==
  ASSUME Machine, NEW w \in Workers, cb[w] = "release", ParkUnlock(w)
  PROVE  Machine'
<1> DEFINE f == running[w]
<1>1. /\ f \in Fibers /\ pc[f] \in ParkedLabels
      /\ \A u \in Workers \ {w} : running[u] # f
  BY CallbackOf DEF ParkSteps
<1>2. /\ running'[w] = NULL /\ cb'[w] = "none" /\ locked_' = FALSE
      /\ \A u \in Workers \ {w} : running'[u] = running[u] /\ cb'[u] = cb[u]
      /\ fibers_' = fibers_ /\ is_owned_' = is_owned_ /\ ready' = ready /\ pc' = pc
      /\ running' \in [Workers -> Fibers \cup {NULL}]
      /\ cb' \in [Workers -> CallbackSteps]
  BY DEF ParkUnlock, CallbackReturns, Machine, Typed, SyncTypeOK, CallbackSteps
<1> HIDE DEF f
<1>3. Typed'
  BY <1>1, <1>2 DEF Machine, Typed, SyncTypeOK
<1>4. OnePlace'
  BY <1>1, <1>2, FiberAssumption DEF Machine, OnePlace, Published
<1>5. SpinLockOwned'
  <2>1. \A u \in Workers \ {w} : Owner(u)' <=> Owner(u)
    BY <1>2 DEF Owner
  <2>2. ~ Owner(w)' /\ Owner(w)
    BY <1>2 DEF Owner, ParkSteps
  <2> QED BY <1>2, <2>1, <2>2, SpinStep DEF Machine
<1>6. CallbacksOK' /\ WaitersParked'
  BY <1>1, <1>2 DEF Machine, CallbacksOK, ParkSteps, WaitersParked
<1>7. OwnersRun'
  BY <1>1, <1>2 DEF Machine, OwnersRun, Runs
<1>8. FlagsOwned'
  <2>1. \A g \in Fibers : ~ Flags(w, g)' /\ ~ Flags(w, g)
    BY <1>1, <1>2, FiberAssumption DEF Flags
  <2>2. \A u \in Workers \ {w} : \A g \in Fibers : Flags(u, g)' <=> Flags(u, g)
    BY <1>1, <1>2 DEF Flags
  <2> QED BY <1>2, <2>1, <2>2, FlagsStay DEF Machine
<1>9. EndedGone'
  BY <1>1, <1>2, FiberAssumption DEF Machine, EndedGone
<1> QED BY <1>3, <1>4, <1>5, <1>6, <1>7, <1>8, <1>9 DEF Machine

LEMMA ParkUnlockKeeps ==
  ASSUME Machine, NEW w \in Workers, ParkUnlock(w)
  PROVE  Machine'
<1>1. cb[w] = "disown" \/ cb[w] = "release"
  BY DEF ParkUnlock
<1> QED BY <1>1, DisownKeeps, ReleaseKeeps

LEMMA MachineKeeps ==
  ASSUME Machine, MachineStep
  PROVE  Machine'
BY YieldCallbackKeeps, ParkCallbackKeeps, ParkUnlockKeeps, ResumeKeeps, FinishKeeps, MovesKeeps,
   LeavesKeeps DEF MachineStep

LEMMA MachineStutters ==
  ASSUME Machine, UNCHANGED syncVars
  PROVE  Machine'
BY DEF syncVars, Machine, Typed, SyncTypeOK, OnePlace, SpinLockOwned, Owner, CallbacksOK,
   WaitersParked, OwnersRun, Runs, FlagsOwned, Flags, EndedGone

-----------------------------------------------------------------------------
(* The scheduler of fibers.                                                *)

NoneRuns(f) == \A w \in Workers : ~ Runs(w, f)
AtRest(f) == IF pc[f] = "finished" THEN "ended" ELSE IF f \in ready THEN "ready" ELSE "suspended"

StatusOK ==
  \A f \in Fibers :
    /\ \A w \in Workers : Runs(w, f) => Status(f) = w
    /\ NoneRuns(f) => Status(f) = AtRest(f)

LEMMA StatusIs == Machine => StatusOK
<1> SUFFICES ASSUME Machine, NEW f \in Fibers
             PROVE  /\ \A w \in Workers : Runs(w, f) => Status(f) = w
                    /\ NoneRuns(f) => Status(f) = AtRest(f)
  BY DEF StatusOK
<1>1. ASSUME NEW w \in Workers, Runs(w, f) PROVE Status(f) = w
  <2>1. \A v \in Workers : Runs(v, f) <=> v = w
    BY <1>1, RunsAlone DEF Runs
  <2>2. (CHOOSE v \in Workers : Runs(v, f)) = w
    BY <2>1
  <2>3. \E v \in Workers : Runs(v, f)
    BY <1>1
  <2>4. pc[f] # "finished" /\ f \notin ready
    BY <1>1, RunsAlone DEF Runs, Machine, EndedGone
  <2> QED BY <2>2, <2>3, <2>4 DEF Status
<1>2. ASSUME NoneRuns(f) PROVE Status(f) = AtRest(f)
  <2>1. ~ \E v \in Workers : Runs(v, f)
    BY <1>2 DEF NoneRuns
  <2>2. pc[f] = "finished" => f \notin ready
    BY DEF Machine, EndedGone
  <2> QED BY <2>1, <2>2 DEF Status, AtRest
<1> QED BY <1>1, <1>2

LEMMA StatusIsNext == Machine' => StatusOK'
BY StatusIs, PTL

\* What may become of the status of f in a step.
Allowed(f) ==
  \/ Status(f)' = Status(f)
  \/ Status(f) = "suspended" /\ Status(f)' = "ready"
  \/ /\ Status(f) = "ready" /\ Status(f)' \in Workers
     /\ \A g \in Fibers : Status(g) # Status(f)'
  \/ Status(f) \in Workers /\ Status(f)' \in {"suspended", "ended"}

LEMMA Unaffected ==
  ASSUME StatusOK, StatusOK', NEW f \in Fibers,
         \A w \in Workers : Runs(w, f)' <=> Runs(w, f),
         NoneRuns(f) => AtRest(f)' = AtRest(f)
  PROVE  Allowed(f)
<1>1. CASE \E w \in Workers : Runs(w, f)
  BY <1>1 DEF StatusOK, Allowed
<1>2. CASE NoneRuns(f)
  <2>1. NoneRuns(f)'
    BY <1>2 DEF NoneRuns
  <2> QED BY <1>2, <2>1 DEF StatusOK, Allowed
<1> QED BY <1>1, <1>2 DEF NoneRuns

\* The fiber g is scheduled.
LEMMA Scheduling ==
  ASSUME StatusOK, StatusOK', NEW g \in Fibers, NoneRuns(g), NoneRuns(g)',
         g \notin ready, g \in ready', pc[g] # "finished", pc'[g] # "finished"
  PROVE  Allowed(g)
<1>1. Status(g) = "suspended"
  BY DEF StatusOK, AtRest
<1>2. Status(g)' = "ready"
  BY DEF StatusOK, AtRest
<1> QED BY <1>1, <1>2 DEF Allowed

LEMMA MovesStatus ==
  ASSUME Machine, StatusOK, StatusOK', NEW w \in Workers, NEW f \in Fibers, NEW to, NEW n,
         Moves(w, f, to, n), NEW g \in Fibers
  PROVE  Allowed(g)
<1>1. /\ \A u \in Workers : Runs(u, g)' <=> Runs(u, g)
      /\ g # f => pc'[g] = pc[g]
      /\ ready \subseteq ready'
      /\ \A h \in ready' \ ready : h # f /\ pc[h] \in ParkedLabels /\ \A u \in Workers : running[u] # h
      /\ Runs(w, f)
  BY WokenApart DEF Moves, Goto, Runs, Machine, Typed
<1>2. CASE g \in ready' \ ready
  BY <1>1, <1>2, ParkedIs, Scheduling DEF NoneRuns, Runs
<1>3. CASE g \notin ready' \ ready
  <2>1. NoneRuns(g) => AtRest(g)' = AtRest(g)
    BY <1>1, <1>3 DEF NoneRuns, AtRest
  <2> QED BY <1>1, <2>1, Unaffected
<1> QED BY <1>2, <1>3

LEMMA ResumeStatus ==
  ASSUME Machine, StatusOK, StatusOK', NEW w \in Workers, NEW f \in Fibers, Resume(w, f),
         NEW g \in Fibers
  PROVE  Allowed(g)
<1>1. /\ running[w] = NULL /\ cb[w] = "none" /\ f \in ready /\ pc[f] # "finished"
      /\ ready' = ready \ {f} /\ running'[w] = f /\ cb' = cb /\ pc' = pc
      /\ \A u \in Workers \ {w} : running'[u] = running[u]
      /\ \A u \in Workers : running[u] # f
  BY FiberAssumption DEF Resume, Machine, Typed, SyncTypeOK, OnePlace, EndedGone
<1>2. CASE g = f
  <2>1. NoneRuns(f) /\ Runs(w, f)'
    BY <1>1 DEF NoneRuns, Runs
  <2>2. Status(f) = "ready" /\ Status(f)' = w
    BY <1>1, <2>1 DEF StatusOK, AtRest
  <2>3. ASSUME NEW h \in Fibers PROVE Status(h) # w
    <3>1. ~ Runs(w, h)
      BY <1>1, FiberAssumption DEF Runs
    <3>2. CASE NoneRuns(h)
      BY <3>2, BoundsAssumption DEF StatusOK, AtRest
    <3>3. CASE \E u \in Workers : Runs(u, h)
      BY <3>1, <3>3 DEF StatusOK
    <3> QED BY <3>2, <3>3 DEF NoneRuns
  <2> QED BY <1>2, <2>2, <2>3 DEF Allowed
<1>3. CASE g # f
  <2>1. \A u \in Workers : Runs(u, g)' <=> Runs(u, g)
    BY <1>1, <1>3, FiberAssumption DEF Runs
  <2>2. AtRest(g)' = AtRest(g)
    BY <1>1, <1>3 DEF AtRest
  <2> QED BY <2>1, <2>2, Unaffected
<1> QED BY <1>2, <1>3

\* The thread leaves the fiber.
LEMMA Leaving ==
  ASSUME StatusOK, StatusOK', NEW w \in Workers, NEW f \in Fibers, Runs(w, f), NoneRuns(f)',
         f \notin ready'
  PROVE  Allowed(f)
BY DEF StatusOK, AtRest, Allowed

LEMMA LeavesStatus ==
  ASSUME Machine, StatusOK, StatusOK', NEW w \in Workers, NEW f \in Fibers,
         NEW callback, NEW to, Finish(w, f) \/ Leaves(w, f, callback, to), NEW g \in Fibers
  PROVE  Allowed(g)
<1>1. /\ Runs(w, f) /\ f \notin ready
      /\ \A u \in Workers \ {w} : running[u] # f
      /\ \A h \in Fibers \ {f} : pc'[h] = pc[h]
      /\ ready' = ready
      /\ \A u \in Workers \ {w} : running'[u] = running[u] /\ cb'[u] = cb[u]
      /\ running'[w] = NULL \/ (running'[w] = f /\ cb'[w] # "none")
  BY RunsAlone, FiberAssumption DEF Finish, Leaves, Suspend, Goto, Runs, Machine, Typed, SyncTypeOK
<1>2. CASE g = f
  <2>1. NoneRuns(f)'
    BY <1>1, FiberAssumption DEF NoneRuns, Runs
  <2> QED BY <1>1, <1>2, <2>1, Leaving
<1>3. CASE g # f
  <2>1. \A u \in Workers : Runs(u, g)' <=> Runs(u, g)
    BY <1>1, <1>3, FiberAssumption DEF Runs
  <2>2. AtRest(g)' = AtRest(g)
    BY <1>1, <1>3 DEF AtRest
  <2> QED BY <2>1, <2>2, Unaffected
<1> QED BY <1>2, <1>3

\* The callback schedules its fiber, or nobody.
LEMMA CallbackStatus ==
  ASSUME Machine, StatusOK, StatusOK', NEW w \in Workers,
         YieldCallback(w) \/ ParkCallback(w) \/ ParkUnlock(w), NEW g \in Fibers
  PROVE  Allowed(g)
<1> DEFINE f == running[w]
<1>1. /\ cb[w] # "none" /\ pc' = pc
      /\ \A u \in Workers \ {w} : running'[u] = running[u] /\ cb'[u] = cb[u]
      /\ running'[w] = NULL \/ (running'[w] = f /\ cb'[w] # "none")
      /\ ready' = ready \/ ready' = ready \cup {f}
  BY DEF YieldCallback, ParkCallback, ParkUnlock, CallbackReturns, Machine, Typed, SyncTypeOK
<1>2. f \in Fibers /\ f \notin ready /\ pc[f] # "finished"
      /\ \A u \in Workers \ {w} : running[u] # f
  BY <1>1, CallbackOf
<1> HIDE DEF f
<1>3. \A u \in Workers : Runs(u, g)' <=> Runs(u, g)
  BY <1>1, <1>2, FiberAssumption DEF Runs
<1>4. CASE g = f /\ ready' # ready
  <2>1. NoneRuns(g) /\ NoneRuns(g)'
    BY <1>1, <1>2, <1>3, <1>4 DEF NoneRuns, Runs
  <2> QED BY <1>1, <1>2, <1>4, <2>1, Scheduling
<1>5. CASE g # f \/ ready' = ready
  <2>1. AtRest(g)' = AtRest(g)
    BY <1>1, <1>5 DEF AtRest
  <2> QED BY <1>3, <2>1, Unaffected
<1> QED BY <1>4, <1>5

LEMMA StatusAllowed ==
  ASSUME Machine, Machine', MachineStep, NEW g \in Fibers
  PROVE  Allowed(g)
<1>1. StatusOK /\ StatusOK'
  BY StatusIs, StatusIsNext
<1> QED BY <1>1, MovesStatus, ResumeStatus, LeavesStatus, CallbackStatus DEF MachineStep

LEMMA SchedulerStep ==
  ASSUME Machine, Machine', MachineStep
  PROVE  Scheduler!Next
<1>1. StatusOK /\ StatusOK'
  BY StatusIs, StatusIsNext
<1>2. ASSUME NEW f \in Fibers PROVE Status(f)' \in Workers \cup {"ready", "suspended", "ended"}
  BY <1>1 DEF StatusOK, NoneRuns, AtRest
<1>3. ASSUME NEW f \in Fibers, NEW g \in Fibers, Status(f)' = Status(g)', Status(f)' \in Workers
      PROVE  f = g
  <2>1. ASSUME NEW h \in Fibers, Status(h)' \in Workers
        PROVE  \E u \in Workers : Runs(u, h)' /\ Status(h)' = u
    <3>1. AtRest(h)' \notin Workers
      BY BoundsAssumption DEF AtRest
    <3> QED BY <1>1, <2>1, <3>1 DEF StatusOK, NoneRuns
  <2> QED BY <1>3, <2>1 DEF Runs
<1>4. \A f \in Fibers : Allowed(f)
  BY StatusAllowed
<1>5. \A f \in Fibers :
        \/ Scheduler!Scheduled(f) \/ Scheduler!Resumed(f) \/ Scheduler!Left(f)
        \/ [g \in Fibers |-> Status(g)]'[f] = [g \in Fibers |-> Status(g)][f]
  BY <1>4 DEF Allowed, Scheduler!Scheduled, Scheduler!Resumed, Scheduler!Left
<1> QED BY <1>2, <1>3, <1>5 DEF Scheduler!Next

-----------------------------------------------------------------------------
(* The steps of calls are steps of the machinery.                          *)

LEMMA NobodyWoken == fibers_ \in Seq(Fibers) /\ UNCHANGED <<fibers_, ready>> => Wakes(0)
<1> SUFFICES ASSUME fibers_ \in Seq(Fibers), UNCHANGED <<fibers_, ready>> PROVE Wakes(0)
  OBVIOUS
<1>1. 0 \in 0 .. Len(fibers_)
  BY LenProperties
<1>2. SubSeq(fibers_, 0 + 1, Len(fibers_)) = fibers_
  BY <1>1, Rest
<1>3. {fibers_[k] : k \in 1 .. 0} = {}
  OBVIOUS
<1> QED BY <1>1, <1>2, <1>3 DEF Wakes

LEMMA FirstWoken ==
  ASSUME fibers_ \in Seq(Fibers), fibers_ # << >>,
         fibers_' = Tail(fibers_), ready' = ready \cup {Head(fibers_)}
  PROVE  Wakes(1)
<1>1. 1 \in 0 .. Len(fibers_)
  BY LenProperties, EmptySeq
<1>2. Tail(fibers_) = SubSeq(fibers_, 1 + 1, Len(fibers_))
  BY TailIsSubSeq
<1>3. {fibers_[k] : k \in 1 .. 1} = {fibers_[1]} /\ Head(fibers_) = fibers_[1]
  BY HeadTailProperties
<1> QED BY <1>1, <1>2, <1>3 DEF Wakes

LEMMA AllWoken ==
  ASSUME fibers_ \in Seq(Fibers), WakeAll
  PROVE  Wakes(Len(fibers_))
<1>1. Len(fibers_) \in 0 .. Len(fibers_) /\ DOMAIN fibers_ = 1 .. Len(fibers_)
  BY LenProperties
<1>2. SubSeq(fibers_, Len(fibers_) + 1, Len(fibers_)) = << >>
  BY <1>1, SubSeqEmpty
<1> QED BY <1>1, <1>2 DEF Wakes, WakeAll

\* A step of the code of f that does not touch is_owned_ ...
LEMMA PlainMoves ==
  ASSUME Machine, NEW w \in Workers, NEW f \in Fibers, Runs(w, f),
         NEW to \in AllLabels \ {"finished"}, Goto(f, to), SpinEffect(f, to),
         to \in FlagLabels <=> pc[f] \in FlagLabels,
         NEW n \in Nat, n > 0 => pc[f] \in OwnerPcs, Wakes(n),
         UNCHANGED <<is_owned_, running, cb>>
  PROVE  Moves(w, f, to, n)
<1>1. is_owned_[f] = (to \in FlagLabels)
  BY FlagIs
<1>2. is_owned_' = [is_owned_ EXCEPT ![f] = (to \in FlagLabels)]
  BY <1>1 DEF Machine, Typed, SyncTypeOK
<1> QED BY <1>2 DEF Moves

\* ... and one that wakes nobody either.
LEMMA QuietMoves ==
  ASSUME Machine, NEW w \in Workers, NEW f \in Fibers, Runs(w, f),
         NEW to \in AllLabels \ {"finished"}, Goto(f, to), SpinEffect(f, to),
         to \in FlagLabels <=> pc[f] \in FlagLabels,
         UNCHANGED <<is_owned_, fibers_, scheduler>>
  PROVE  Moves(w, f, to, 0)
<1>1. Wakes(0)
  BY NobodyWoken DEF Machine, Typed, SyncTypeOK, scheduler
<1> QED BY <1>1, PlainMoves DEF scheduler

LEMMA UniqueLockMoves ==
  ASSUME Machine, NEW w \in Workers, NEW f \in Fibers, NEW from, NEW to \in FlagLabels \cap AllLabels,
         from \notin FlagLabels, UniqueLock(w, f, from, to), UNCHANGED <<fibers_, scheduler>>
  PROVE  Moves(w, f, to, 0)
<1>1. ~ is_owned_[f]
  BY FlagIs DEF UniqueLock
<1>2. SpinEffect(f, to) /\ to # "finished"
  BY <1>1, ParkedIs DEF UniqueLock, SpinEffect
<1>3. (to \in FlagLabels) = TRUE
  OBVIOUS
<1>4. is_owned_' = [is_owned_ EXCEPT ![f] = (to \in FlagLabels)]
  BY <1>3 DEF UniqueLock
<1>5. Wakes(0)
  BY NobodyWoken DEF Machine, Typed, SyncTypeOK, scheduler
<1>6. Runs(w, f) /\ Goto(f, to) /\ UNCHANGED <<running, cb>>
  BY DEF UniqueLock, scheduler
<1> QED BY <1>2, <1>4, <1>5, <1>6 DEF Moves

LEMMA UniqueUnlockMoves ==
  ASSUME Machine, NEW w \in Workers, NEW f \in Fibers, NEW from \in FlagLabels,
         NEW to \in AllLabels \ {"finished"}, to \notin OwnerPcs,
         UniqueUnlock(w, f, from, to), UNCHANGED <<fibers_, scheduler>>
  PROVE  Moves(w, f, to, 0)
<1>1. is_owned_[f]
  BY FlagIs DEF UniqueUnlock
<1>2. SpinEffect(f, to)
  BY <1>1, ParkedIs DEF UniqueUnlock, SpinEffect
<1>3. (to \in FlagLabels) = FALSE
  BY ParkedIs
<1>4. is_owned_' = [is_owned_ EXCEPT ![f] = (to \in FlagLabels)]
  BY <1>3 DEF UniqueUnlock
<1>5. Wakes(0)
  BY NobodyWoken DEF Machine, Typed, SyncTypeOK, scheduler
<1>6. Runs(w, f) /\ Goto(f, to) /\ UNCHANGED <<running, cb>>
  BY DEF UniqueUnlock, scheduler
<1> QED BY <1>2, <1>4, <1>5, <1>6 DEF Moves

LEMMA SpinMoves ==
  ASSUME Machine, NEW w \in Workers, NEW f \in Fibers, NEW from,
         NEW to \in AllLabels \ {"finished"}, from \notin FlagLabels, to \notin FlagLabels,
         \/ SpinLock(w, f, from, to) /\ to \in OwnerPcs
         \/ SpinUnlock(w, f, from, to) /\ from \in OwnerPcs /\ to \notin OwnerPcs,
         UNCHANGED <<fibers_, is_owned_, scheduler>>
  PROVE  Moves(w, f, to, 0)
<1>1. SpinEffect(f, to)
  BY DEF SpinLock, SpinUnlock, SpinEffect
<1>2. Runs(w, f) /\ Goto(f, to) /\ pc[f] = from
  BY DEF SpinLock, SpinUnlock
<1> QED BY <1>1, <1>2, QuietMoves

-----------------------------------------------------------------------------
(* The mutex.                                                              *)

LEMMA MutexLockMoves ==
  ASSUME Machine, NEW w \in Workers, NEW f \in Fibers,
         \/ LockSpin(w, f) \/ LockRead(w, f) \/ LockExchange(w, f) \/ LockReturn(w, f)
  PROVE  MachineStep
<1> USE DEF AllLabels, Labels, FlagLabels, FlagPcs, OwnerPcs, SpinPcs, ParkedLabels
<1>1. CASE LockSpin(w, f)
  <2>1. Moves(w, f, "exchange", 0)
    BY <1>1, UniqueLockMoves DEF LockSpin
  <2> QED BY <2>1 DEF MachineStep
<1>2. CASE LockRead(w, f)
  <2>1. PICK to \in {"taken", "free"} : Goto(f, to)
    BY <1>2 DEF LockRead
  <2>2. SpinEffect(f, to)
    BY <1>2 DEF LockRead, SpinEffect
  <2>3. Moves(w, f, to, 0)
    BY <1>2, <2>1, <2>2, QuietMoves DEF LockRead
  <2> QED BY <2>3 DEF MachineStep
<1>3. CASE LockExchange(w, f) /\ pc[f] = "taken"
  <2>1. Leaves(w, f, "park", "lock")
    BY <1>3 DEF LockExchange, Leaves
  <2> QED BY <2>1 DEF MachineStep
<1>4. CASE LockExchange(w, f) /\ pc[f] = "free"
  <2>1. SpinEffect(f, "lock_return")
    BY <1>4 DEF LockExchange, SpinEffect
  <2>2. Moves(w, f, "lock_return", 0)
    BY <1>4, <2>1, QuietMoves DEF LockExchange
  <2> QED BY <2>2 DEF MachineStep
<1>5. CASE LockReturn(w, f)
  <2>1. Moves(w, f, "critical", 0)
    BY <1>5, UniqueUnlockMoves DEF LockReturn
  <2> QED BY <2>1 DEF MachineStep
<1> QED BY <1>1, <1>2, <1>3, <1>4, <1>5 DEF LockExchange

LEMMA MutexTryMoves ==
  ASSUME Machine, NEW w \in Workers, NEW f \in Fibers,
         \/ TryLockSpin(w, f) \/ TryLockRead(w, f)
         \/ TryLockExchange(w, f) \/ TryLockReturn(w, f)
  PROVE  MachineStep
<1> USE DEF AllLabels, Labels, FlagLabels, FlagPcs, OwnerPcs, SpinPcs
<1>1. CASE TryLockSpin(w, f)
  <2>1. Moves(w, f, "try_exchange", 0)
    BY <1>1, SpinMoves DEF TryLockSpin
  <2> QED BY <2>1 DEF MachineStep
<1>2. CASE TryLockRead(w, f) \/ TryLockExchange(w, f)
  <2>1. PICK to \in {"try_taken", "try_free", "try_failed", "try_locked"} : Goto(f, to)
    BY <1>2 DEF TryLockRead, TryLockExchange
  <2>2. SpinEffect(f, to) /\ pc[f] \notin FlagLabels /\ Runs(w, f)
        /\ UNCHANGED <<is_owned_, fibers_, scheduler>>
    BY <1>2 DEF TryLockRead, TryLockExchange, SpinEffect
  <2>3. Moves(w, f, to, 0)
    BY <2>1, <2>2, QuietMoves
  <2> QED BY <2>3 DEF MachineStep
<1>3. CASE TryLockReturn(w, f) /\ SpinUnlock(w, f, "try_locked", "critical")
  <2>1. Moves(w, f, "critical", 0)
    BY <1>3, SpinMoves DEF TryLockReturn
  <2> QED BY <2>1 DEF MachineStep
<1>4. CASE TryLockReturn(w, f) /\ SpinUnlock(w, f, "try_failed", "idle")
  <2>1. Moves(w, f, "idle", 0)
    BY <1>4, SpinMoves DEF TryLockReturn
  <2> QED BY <2>1 DEF MachineStep
<1> QED BY <1>1, <1>2, <1>3, <1>4 DEF TryLockReturn

LEMMA MutexUnlockMoves ==
  ASSUME Machine, NEW w \in Workers, NEW f \in Fibers,
         UnlockSpin(w, f) \/ UnlockWake(w, f) \/ UnlockReturn(w, f)
  PROVE  MachineStep
<1> USE DEF AllLabels, Labels, FlagLabels, FlagPcs, OwnerPcs, SpinPcs
<1>1. ASSUME UnlockSpin(w, f), NEW from \in {"critical", "yielded"}, SpinLock(w, f, from, "unlock")
      PROVE  MachineStep
  <2>1. Moves(w, f, "unlock", 0)
    BY <1>1, SpinMoves DEF UnlockSpin
  <2> QED BY <2>1 DEF MachineStep
<1>2. CASE UnlockWake(w, f)
  <2>1. fibers_ \in Seq(Fibers)
    BY DEF Machine, Typed, SyncTypeOK
  <2>2. PICK n \in {0, 1} : Wakes(n)
    BY <1>2, <2>1, NobodyWoken, FirstWoken DEF UnlockWake, WakeOne
  <2>3. SpinEffect(f, "unlock_return")
    BY <1>2 DEF UnlockWake, SpinEffect
  <2>4. Moves(w, f, "unlock_return", n)
    BY <1>2, <2>2, <2>3, PlainMoves DEF UnlockWake
  <2> QED BY <2>4 DEF MachineStep
<1>3. CASE UnlockReturn(w, f)
  <2>1. Moves(w, f, "idle", 0)
    BY <1>3, SpinMoves DEF UnlockReturn
  <2> QED BY <2>1 DEF MachineStep
<1> QED BY <1>1, <1>2, <1>3 DEF UnlockSpin

LEMMA MutexCallMoves ==
  ASSUME Machine, NEW w \in Workers, NEW f \in Fibers, Lock(w, f) \/ TryLock(w, f) \/ Yield(w, f)
  PROVE  MachineStep
<1> USE DEF AllLabels, Labels, FlagLabels, FlagPcs, OwnerPcs, SpinPcs
<1>1. ASSUME NEW to \in {"lock", "trylock"}, Begin(w, f, to) PROVE MachineStep
  <2>1. SpinEffect(f, to)
    BY <1>1 DEF Begin, SpinEffect
  <2>2. Moves(w, f, to, 0)
    BY <1>1, <2>1, QuietMoves DEF Begin
  <2> QED BY <2>2 DEF MachineStep
<1>2. CASE Yield(w, f)
  <2>1. Leaves(w, f, "yield", "yielded")
    BY <1>2 DEF Yield, Leaves
  <2> QED BY <2>1 DEF MachineStep
<1> QED BY <1>1, <1>2 DEF Lock, TryLock

LEMMA MutexMoves ==
  ASSUME Machine, Next
  PROVE  MachineStep \/ UNCHANGED syncVars
<1>1. ASSUME NEW w \in Workers, Sched(w) PROVE MachineStep
  BY <1>1 DEF Sched, Callback, MachineStep
<1>2. ASSUME NEW w \in Workers, NEW f \in Fibers, Inside(w, f) PROVE MachineStep
  BY <1>2, MutexLockMoves, MutexTryMoves, MutexUnlockMoves DEF Inside
<1> QED BY <1>1, <1>2, MutexCallMoves DEF Next, Step, Terminated, vars

LEMMA MachineStart == SyncInit => Machine
<1> SUFFICES ASSUME SyncInit PROVE Machine
  OBVIOUS
<1>1. /\ locked_ = FALSE /\ fibers_ = << >> /\ ready = Fibers
      /\ \A f \in Fibers : is_owned_[f] = FALSE /\ pc[f] = "idle"
      /\ \A w \in Workers : running[w] = NULL /\ cb[w] = "none"
      /\ DOMAIN fibers_ = {}
  BY DEF SyncInit
<1>2. Typed
  <2>1. fibers_ \in Seq(Fibers)
    BY <1>1
  <2>2. pc \in [Fibers -> AllLabels]
    BY DEF SyncInit, AllLabels, Labels
  <2> QED BY <2>1, <2>2 DEF SyncInit, SyncTypeOK, CallbackSteps, Typed
<1>3. OnePlace
  BY <1>1 DEF OnePlace
<1>4. SpinLockOwned
  BY <1>1 DEF SpinLockOwned, Owner, ParkSteps
<1>5. CallbacksOK /\ WaitersParked
  BY <1>1 DEF CallbacksOK, ParkSteps, WaitersParked
<1>6. OwnersRun
  BY <1>1, ParkedIs DEF OwnersRun
<1>7. FlagsOwned
  BY <1>1, FiberAssumption DEF FlagsOwned, Flags
<1>8. EndedGone
  BY <1>1 DEF EndedGone
<1> QED BY <1>2, <1>3, <1>4, <1>5, <1>6, <1>7, <1>8 DEF Machine

-----------------------------------------------------------------------------
(* The wait group and the channels use the same machinery.                 *)

LEMMA GroupIs ==
  ASSUME NEW w, NEW f, NEW from, NEW to
  PROVE  /\ WG!Runs(w, f) <=> Runs(w, f)
         /\ WG!Goto(f, to) <=> Goto(f, to)
         /\ WG!SpinLock(w, f, from, to) <=> SpinLock(w, f, from, to)
         /\ WG!SpinUnlock(w, f, from, to) <=> SpinUnlock(w, f, from, to)
         /\ WG!UniqueLock(w, f, from, to) <=> UniqueLock(w, f, from, to)
         /\ WG!UniqueUnlock(w, f, from, to) <=> UniqueUnlock(w, f, from, to)
         /\ WG!Suspend(w, f, from, to) <=> Suspend(w, f, from, to)
         /\ WG!Resume(w, f) <=> Resume(w, f)
         /\ WG!Finish(w, f) <=> Finish(w, f)
         /\ WG!Callback(w) <=> YieldCallback(w) \/ ParkCallback(w) \/ ParkUnlock(w)
         /\ WG!WakeAll <=> WakeAll
         /\ WG!scheduler = scheduler /\ WG!syncVars = syncVars
         /\ WG!SyncInit <=> SyncInit
         /\ WG!SyncTypeOK <=> SyncTypeOK
<1>1. /\ WG!Runs(w, f) <=> Runs(w, f)
      /\ WG!Goto(f, to) <=> Goto(f, to)
      /\ WG!scheduler = scheduler
  BY DEF WG!Runs, Runs, WG!Goto, Goto, WG!scheduler, scheduler
<1>2. /\ WG!SpinLock(w, f, from, to) <=> SpinLock(w, f, from, to)
      /\ WG!SpinUnlock(w, f, from, to) <=> SpinUnlock(w, f, from, to)
      /\ WG!UniqueLock(w, f, from, to) <=> UniqueLock(w, f, from, to)
      /\ WG!UniqueUnlock(w, f, from, to) <=> UniqueUnlock(w, f, from, to)
  BY <1>1 DEF WG!SpinLock, SpinLock, WG!SpinUnlock, SpinUnlock,
     WG!UniqueLock, UniqueLock, WG!UniqueUnlock, UniqueUnlock
<1>3. /\ WG!Suspend(w, f, from, to) <=> Suspend(w, f, from, to)
      /\ WG!Resume(w, f) <=> Resume(w, f)
  BY <1>1 DEF WG!Suspend, Suspend, WG!Resume, Resume
<1>4. WG!Finish(w, f) <=> Finish(w, f)
  BY DEF WG!Finish, Finish, WG!Runs, Runs, WG!Goto, Goto
<1>5. WG!Callback(w) <=> YieldCallback(w) \/ ParkCallback(w) \/ ParkUnlock(w)
  BY DEF WG!Callback, WG!YieldCallback, YieldCallback, WG!ParkCallback, ParkCallback,
     WG!ParkUnlock, ParkUnlock, WG!CallbackReturns, CallbackReturns
<1>6. WG!WakeAll <=> WakeAll
  BY DEF WG!WakeAll, WakeAll
<1>7. WG!syncVars = syncVars /\ (WG!SyncInit <=> SyncInit)
  BY DEF WG!syncVars, syncVars, WG!SyncInit, SyncInit
<1>8. WG!SyncTypeOK <=> SyncTypeOK
  BY DEF WG!SyncTypeOK, SyncTypeOK, WG!CallbackSteps, CallbackSteps
<1> QED BY <1>1, <1>2, <1>3, <1>4, <1>5, <1>6, <1>7, <1>8

LEMMA BufferedIs ==
  ASSUME NEW w, NEW f, NEW from, NEW to
  PROVE  /\ Buffered!Runs(w, f) <=> Runs(w, f)
         /\ Buffered!Goto(f, to) <=> Goto(f, to)
         /\ Buffered!UniqueLock(w, f, from, to) <=> UniqueLock(w, f, from, to)
         /\ Buffered!UniqueUnlock(w, f, from, to) <=> UniqueUnlock(w, f, from, to)
         /\ Buffered!Suspend(w, f, from, to) <=> Suspend(w, f, from, to)
         /\ Buffered!Resume(w, f) <=> Resume(w, f)
         /\ Buffered!Finish(w, f) <=> Finish(w, f)
         /\ Buffered!ParkCallback(w) <=> ParkCallback(w)
         /\ Buffered!ParkUnlock(w) <=> ParkUnlock(w)
         /\ Buffered!scheduler = scheduler /\ Buffered!syncVars = syncVars
         /\ Buffered!SyncInit <=> SyncInit
         /\ Buffered!SyncTypeOK <=> SyncTypeOK
<1>1. /\ Buffered!Runs(w, f) <=> Runs(w, f)
      /\ Buffered!Goto(f, to) <=> Goto(f, to)
      /\ Buffered!scheduler = scheduler
  BY DEF Buffered!Runs, Runs, Buffered!Goto, Goto, Buffered!scheduler, scheduler
<1>2. /\ Buffered!UniqueLock(w, f, from, to) <=> UniqueLock(w, f, from, to)
      /\ Buffered!UniqueUnlock(w, f, from, to) <=> UniqueUnlock(w, f, from, to)
  BY <1>1 DEF Buffered!UniqueLock, UniqueLock, Buffered!UniqueUnlock, UniqueUnlock
<1>3. /\ Buffered!Suspend(w, f, from, to) <=> Suspend(w, f, from, to)
      /\ Buffered!Resume(w, f) <=> Resume(w, f)
  BY <1>1 DEF Buffered!Suspend, Suspend, Buffered!Resume, Resume
<1>4. Buffered!Finish(w, f) <=> Finish(w, f)
  BY DEF Buffered!Finish, Finish, Buffered!Runs, Runs, Buffered!Goto, Goto
<1>5. /\ Buffered!ParkCallback(w) <=> ParkCallback(w)
      /\ Buffered!ParkUnlock(w) <=> ParkUnlock(w)
  BY DEF Buffered!ParkCallback, ParkCallback, Buffered!ParkUnlock, ParkUnlock, Buffered!CallbackReturns,
     CallbackReturns
<1>6. Buffered!syncVars = syncVars /\ (Buffered!SyncInit <=> SyncInit)
  BY DEF Buffered!syncVars, syncVars, Buffered!SyncInit, SyncInit
<1>7. Buffered!SyncTypeOK <=> SyncTypeOK
  BY DEF Buffered!SyncTypeOK, SyncTypeOK, Buffered!CallbackSteps, CallbackSteps
<1> QED BY <1>1, <1>2, <1>3, <1>4, <1>5, <1>6, <1>7

LEMMA RendezvousIs ==
  ASSUME NEW w, NEW f, NEW from, NEW to
  PROVE  /\ Rendezvous!Runs(w, f) <=> Runs(w, f)
         /\ Rendezvous!Goto(f, to) <=> Goto(f, to)
         /\ Rendezvous!UniqueLock(w, f, from, to) <=> UniqueLock(w, f, from, to)
         /\ Rendezvous!UniqueUnlock(w, f, from, to) <=> UniqueUnlock(w, f, from, to)
         /\ Rendezvous!Suspend(w, f, from, to) <=> Suspend(w, f, from, to)
         /\ Rendezvous!Resume(w, f) <=> Resume(w, f)
         /\ Rendezvous!Finish(w, f) <=> Finish(w, f)
         /\ Rendezvous!ParkCallback(w) <=> ParkCallback(w)
         /\ Rendezvous!ParkUnlock(w) <=> ParkUnlock(w)
         /\ Rendezvous!scheduler = scheduler /\ Rendezvous!syncVars = syncVars
         /\ Rendezvous!SyncInit <=> SyncInit
         /\ Rendezvous!SyncTypeOK <=> SyncTypeOK
<1>1. /\ Rendezvous!Runs(w, f) <=> Runs(w, f)
      /\ Rendezvous!Goto(f, to) <=> Goto(f, to)
      /\ Rendezvous!scheduler = scheduler
  BY DEF Rendezvous!Runs, Runs, Rendezvous!Goto, Goto, Rendezvous!scheduler, scheduler
<1>2. /\ Rendezvous!UniqueLock(w, f, from, to) <=> UniqueLock(w, f, from, to)
      /\ Rendezvous!UniqueUnlock(w, f, from, to) <=> UniqueUnlock(w, f, from, to)
  BY <1>1 DEF Rendezvous!UniqueLock, UniqueLock, Rendezvous!UniqueUnlock, UniqueUnlock
<1>3. /\ Rendezvous!Suspend(w, f, from, to) <=> Suspend(w, f, from, to)
      /\ Rendezvous!Resume(w, f) <=> Resume(w, f)
  BY <1>1 DEF Rendezvous!Suspend, Suspend, Rendezvous!Resume, Resume
<1>4. Rendezvous!Finish(w, f) <=> Finish(w, f)
  BY DEF Rendezvous!Finish, Finish, Rendezvous!Runs, Runs, Rendezvous!Goto, Goto
<1>5. /\ Rendezvous!ParkCallback(w) <=> ParkCallback(w)
      /\ Rendezvous!ParkUnlock(w) <=> ParkUnlock(w)
  BY DEF Rendezvous!ParkCallback, ParkCallback, Rendezvous!ParkUnlock, ParkUnlock, Rendezvous!CallbackReturns,
     CallbackReturns
<1>6. Rendezvous!syncVars = syncVars /\ (Rendezvous!SyncInit <=> SyncInit)
  BY DEF Rendezvous!syncVars, syncVars, Rendezvous!SyncInit, SyncInit
<1>7. Rendezvous!SyncTypeOK <=> SyncTypeOK
  BY DEF Rendezvous!SyncTypeOK, SyncTypeOK, Rendezvous!CallbackSteps, CallbackSteps
<1> QED BY <1>1, <1>2, <1>3, <1>4, <1>5, <1>6, <1>7

\* What the two channels share.
LEMMA ChannelsShare ==
  ASSUME NEW w, NEW f
  PROVE  /\ Rendezvous!Send(w, f) <=> Buffered!Send(w, f)
         /\ Rendezvous!Receive(w, f) <=> Buffered!Receive(w, f)
         /\ Rendezvous!Lock(w, f) <=> Buffered!Lock(w, f)
         /\ Rendezvous!Return(w, f) <=> Buffered!Return(w, f)
         /\ Rendezvous!WakeWaiter <=> Buffered!WakeWaiter
         /\ Rendezvous!ChanSched(w) <=> Buffered!ChanSched(w)
         /\ Rendezvous!ChanTypeOK <=> Buffered!ChanTypeOK
         /\ Rendezvous!WaitersAgree <=> Buffered!WaitersAgree
<1>1. /\ Rendezvous!Send(w, f) <=> Buffered!Send(w, f)
      /\ Rendezvous!Receive(w, f) <=> Buffered!Receive(w, f)
  BY DEF Rendezvous!Send, Buffered!Send, Rendezvous!Receive, Buffered!Receive,
     Rendezvous!Call, Buffered!Call, Rendezvous!Runs, Buffered!Runs, Rendezvous!Goto, Buffered!Goto,
     Rendezvous!scheduler, Buffered!scheduler
<1>2. /\ Rendezvous!Lock(w, f) <=> Buffered!Lock(w, f)
      /\ Rendezvous!Return(w, f) <=> Buffered!Return(w, f)
  <2>1. \A from, to : /\ Rendezvous!UniqueLock(w, f, from, to) <=> Buffered!UniqueLock(w, f, from, to)
                      /\ Rendezvous!UniqueUnlock(w, f, from, to)
                           <=> Buffered!UniqueUnlock(w, f, from, to)
    BY BufferedIs, RendezvousIs
  <2>2. Rendezvous!NONE = Buffered!NONE
    BY DEF Rendezvous!NONE, Buffered!NONE
  <2> QED BY <2>1, <2>2 DEF Rendezvous!Lock, Buffered!Lock, Rendezvous!Return, Buffered!Return,
          Rendezvous!scheduler, Buffered!scheduler
<1>3. Rendezvous!WakeWaiter <=> Buffered!WakeWaiter
  BY DEF Rendezvous!WakeWaiter, Buffered!WakeWaiter
<1>4. Rendezvous!ChanSched(w) <=> Buffered!ChanSched(w)
  BY BufferedIs, RendezvousIs
  DEF Rendezvous!ChanSched, Buffered!ChanSched, Rendezvous!Enqueue, Buffered!Enqueue
<1>5. Rendezvous!ChanTypeOK <=> Buffered!ChanTypeOK
  BY BufferedIs, RendezvousIs
  DEF Rendezvous!ChanTypeOK, Buffered!ChanTypeOK, Rendezvous!ChanLabels, Buffered!ChanLabels,
      Rendezvous!Values, Buffered!Values, Rendezvous!NONE, Buffered!NONE
<1>6. Rendezvous!WaitersAgree <=> Buffered!WaitersAgree
  BY DEF Rendezvous!WaitersAgree, Buffered!WaitersAgree
<1> QED BY <1>1, <1>2, <1>3, <1>4, <1>5, <1>6

LEMMA GroupAddMoves ==
  ASSUME Machine, NEW w \in Workers, NEW f \in Fibers,
         WG!AddSpin(w, f) \/ WG!AddCount(w, f) \/ WG!DoneSpin(w, f) \/ WG!Return(w, f)
  PROVE  MachineStep
<1> USE DEF AllLabels, WG!Labels, FlagLabels, FlagPcs, OwnerPcs, SpinPcs
<1>1. CASE WG!AddSpin(w, f)
  <2>1. SpinLock(w, f, "add", "add_count") /\ UNCHANGED <<fibers_, is_owned_, scheduler>>
    BY <1>1, GroupIs DEF WG!AddSpin, WG!scheduler, scheduler
  <2>2. Moves(w, f, "add_count", 0)
    BY <2>1, SpinMoves
  <2> QED BY <2>2 DEF MachineStep
<1>2. CASE WG!AddCount(w, f)
  <2>1. Runs(w, f) /\ pc[f] = "add_count" /\ Goto(f, "return") /\ locked_' = locked_
        /\ UNCHANGED <<is_owned_, fibers_, scheduler>>
    BY <1>2, GroupIs DEF WG!AddCount, WG!scheduler, scheduler
  <2>2. SpinEffect(f, "return")
    BY <2>1 DEF SpinEffect
  <2>3. Moves(w, f, "return", 0)
    BY <2>1, <2>2, QuietMoves
  <2> QED BY <2>3 DEF MachineStep
<1>3. CASE WG!DoneSpin(w, f)
  <2>1. SpinLock(w, f, "done", "done_count") /\ UNCHANGED <<fibers_, is_owned_, scheduler>>
    BY <1>3, GroupIs DEF WG!DoneSpin, WG!scheduler, scheduler
  <2>2. Moves(w, f, "done_count", 0)
    BY <2>1, SpinMoves
  <2> QED BY <2>2 DEF MachineStep
<1>4. CASE WG!Return(w, f)
  <2>1. SpinUnlock(w, f, "return", "idle") /\ UNCHANGED <<fibers_, is_owned_, scheduler>>
    BY <1>4, GroupIs DEF WG!Return, WG!scheduler, scheduler
  <2>2. Moves(w, f, "idle", 0)
    BY <2>1, SpinMoves
  <2> QED BY <2>2 DEF MachineStep
<1> QED BY <1>1, <1>2, <1>3, <1>4

\* The last Done wakes all waiters, the others nobody.
LEMMA GroupDoneMoves ==
  ASSUME Machine, NEW w \in Workers, NEW f \in Fibers, WG!DoneCount(w, f)
  PROVE  MachineStep
<1> USE DEF AllLabels, WG!Labels, FlagLabels, FlagPcs, OwnerPcs, SpinPcs
<1>1. fibers_ \in Seq(Fibers) /\ Len(fibers_) \in Nat
  BY DEF Machine, Typed, SyncTypeOK
<1>2. WakeAll \/ UNCHANGED <<fibers_, ready>>
  BY GroupIs DEF WG!DoneCount
<1>3. PICK n \in {0, Len(fibers_)} : Wakes(n)
  BY <1>1, <1>2, AllWoken, NobodyWoken
<1>4. Runs(w, f) /\ pc[f] = "done_count" /\ Goto(f, "return")
      /\ UNCHANGED <<locked_, is_owned_, running, cb>>
  BY GroupIs DEF WG!DoneCount
<1>5. SpinEffect(f, "return")
  BY <1>4 DEF SpinEffect
<1>6. Moves(w, f, "return", n)
  BY <1>1, <1>3, <1>4, <1>5, PlainMoves
<1> QED BY <1>1, <1>6 DEF MachineStep

LEMMA GroupWaitMoves ==
  ASSUME Machine, NEW w \in Workers, NEW f \in Fibers,
         \/ WG!WaitSpin(w, f) \/ WG!WaitTest(w, f) \/ WG!WaitRelock(w, f) \/ WG!WaitReturn(w, f)
  PROVE  MachineStep
<1> USE DEF AllLabels, WG!Labels, FlagLabels, FlagPcs, OwnerPcs, SpinPcs, ParkedLabels
<1>1. ASSUME WG!WaitSpin(w, f) \/ WG!WaitRelock(w, f) PROVE MachineStep
  <2>1. PICK from \in {"wait", "woken"}, to \in {"wait_test", "wait_return"} :
           UniqueLock(w, f, from, to) /\ UNCHANGED <<fibers_, scheduler>>
    BY <1>1, GroupIs DEF WG!WaitSpin, WG!WaitRelock, WG!scheduler, scheduler
  <2>2. Moves(w, f, to, 0)
    BY <2>1, UniqueLockMoves
  <2> QED BY <2>2 DEF MachineStep
<1>2. CASE WG!WaitTest(w, f) /\ count_ # 0
  <2>1. /\ Runs(w, f) /\ pc[f] = "wait_test" /\ Suspend(w, f, "park", "woken")
        /\ UNCHANGED <<locked_, fibers_, is_owned_>>
    BY <1>2, GroupIs DEF WG!WaitTest
  <2>2. Leaves(w, f, "park", "woken")
    BY <2>1 DEF Leaves
  <2> QED BY <2>2 DEF MachineStep
<1>3. CASE WG!WaitTest(w, f) /\ count_ = 0
  <2>1. Runs(w, f) /\ pc[f] = "wait_test" /\ Goto(f, "wait_return") /\ locked_' = locked_
        /\ UNCHANGED <<is_owned_, fibers_, scheduler>>
    BY <1>3, GroupIs DEF WG!WaitTest, WG!scheduler, scheduler
  <2>2. SpinEffect(f, "wait_return")
    BY <2>1 DEF SpinEffect
  <2>3. Moves(w, f, "wait_return", 0)
    BY <2>1, <2>2, QuietMoves
  <2> QED BY <2>3 DEF MachineStep
<1>4. CASE WG!WaitReturn(w, f)
  <2>1. UniqueUnlock(w, f, "wait_return", "idle") /\ UNCHANGED <<fibers_, scheduler>>
    BY <1>4, GroupIs DEF WG!WaitReturn, WG!scheduler, scheduler
  <2>2. Moves(w, f, "idle", 0)
    BY <2>1, UniqueUnlockMoves
  <2> QED BY <2>2 DEF MachineStep
<1> QED BY <1>1, <1>2, <1>3, <1>4

LEMMA GroupCallMoves ==
  ASSUME Machine, NEW w \in Workers, NEW f \in Fibers,
         NEW to \in {"add", "done", "wait"}, WG!Call(w, f, to)
  PROVE  MachineStep
<1> USE DEF AllLabels, WG!Labels, FlagLabels, FlagPcs, OwnerPcs, SpinPcs
<1>1. Runs(w, f) /\ pc[f] = "idle" /\ Goto(f, to) /\ locked_' = locked_
      /\ UNCHANGED <<is_owned_, fibers_, scheduler>>
  BY GroupIs DEF WG!Call, WG!scheduler, scheduler
<1>2. SpinEffect(f, to)
  BY <1>1 DEF SpinEffect
<1>3. Moves(w, f, to, 0)
  BY <1>1, <1>2, QuietMoves
<1> QED BY <1>3 DEF MachineStep

LEMMA GroupMoves ==
  ASSUME Machine, WG!Next
  PROVE  MachineStep \/ UNCHANGED syncVars
<1>1. ASSUME NEW w \in Workers, WG!Sched(w) PROVE MachineStep
  BY <1>1, GroupIs DEF WG!Sched, MachineStep
<1>2. ASSUME NEW w \in Workers, NEW f \in Fibers, WG!Inside(w, f) PROVE MachineStep
  BY <1>2, GroupAddMoves, GroupDoneMoves, GroupWaitMoves DEF WG!Inside
<1>3. ASSUME NEW w \in Workers, NEW f \in Fibers, WG!Done(w, f) \/ WG!Add(w, f) \/ WG!Wait(w, f)
      PROVE  MachineStep
  BY <1>3, GroupCallMoves DEF WG!Done, WG!Add, WG!Wait
<1>4. WG!Terminated => UNCHANGED syncVars
  BY DEF WG!Terminated, WG!vars, WG!syncVars, syncVars
<1> QED BY <1>1, <1>2, <1>3, <1>4 DEF WG!Next, WG!Step

\* The first waiter is woken by a fiber that goes from "..._locked" to "..._return".
LEMMA WaiterMoves ==
  ASSUME Machine, NEW w \in Workers, NEW f \in Fibers, Runs(w, f), fibers_ # << >>,
         Buffered!WakeWaiter, UNCHANGED <<locked_, is_owned_, running, cb>>,
         \/ pc[f] = "send_locked" /\ Goto(f, "send_return")
         \/ pc[f] = "receive_locked" /\ Goto(f, "receive_return")
  PROVE  MachineStep
<1> USE DEF AllLabels, Buffered!ChanLabels, FlagLabels, FlagPcs, OwnerPcs, SpinPcs
<1>1. Wakes(1)
  BY FirstWoken DEF Machine, Typed, SyncTypeOK, Buffered!WakeWaiter
<1>2. PICK to \in {"send_return", "receive_return"} : Goto(f, to)
  OBVIOUS
<1>3. SpinEffect(f, to)
  BY DEF SpinEffect
<1>4. Moves(w, f, to, 1)
  BY <1>1, <1>2, <1>3, PlainMoves
<1> QED BY <1>4 DEF MachineStep

\* Nobody is woken.
LEMMA PassingMoves ==
  ASSUME Machine, NEW w \in Workers, NEW f \in Fibers, Runs(w, f),
         UNCHANGED <<locked_, is_owned_, fibers_, scheduler>>,
         \/ pc[f] = "send_locked" /\ Goto(f, "send_return")
         \/ pc[f] = "receive_locked" /\ Goto(f, "receive_return")
         \/ pc[f] = "idle" /\ (Goto(f, "send") \/ Goto(f, "receive"))
  PROVE  MachineStep
<1> USE DEF AllLabels, Buffered!ChanLabels, FlagLabels, FlagPcs, OwnerPcs, SpinPcs
<1>1. PICK to \in {"send_return", "receive_return", "send", "receive"} :
         Goto(f, to) /\ (to \in FlagLabels <=> pc[f] \in FlagLabels)
                     /\ (to \in OwnerPcs <=> pc[f] \in OwnerPcs)
  OBVIOUS
<1>2. SpinEffect(f, to)
  BY <1>1 DEF SpinEffect
<1>3. Moves(w, f, to, 0)
  BY <1>1, <1>2, QuietMoves
<1> QED BY <1>3 DEF MachineStep

\* The fiber stops, and its callback will put it into waiters_.
LEMMA ChannelParks ==
  ASSUME Machine, NEW w \in Workers, NEW f \in Fibers, Runs(w, f),
         UNCHANGED <<locked_, fibers_, is_owned_>>,
         \/ pc[f] = "send_locked" /\ Suspend(w, f, "park", "send_woken")
         \/ pc[f] = "receive_locked" /\ Suspend(w, f, "park", "receive_woken")
  PROVE  MachineStep
<1>1. PICK to \in {"send_woken", "receive_woken"} :
         pc[f] \in {"send_locked", "receive_locked"} /\ Suspend(w, f, "park", to)
  OBVIOUS
<1>2. Leaves(w, f, "park", to)
  BY <1>1 DEF Leaves, OwnerPcs, FlagLabels, ParkedLabels
<1> QED BY <1>2 DEF MachineStep, ParkedLabels

LEMMA ChannelCommonMoves ==
  ASSUME Machine, NEW w \in Workers, NEW f \in Fibers,
         \/ Buffered!Lock(w, f) \/ Buffered!Return(w, f)
         \/ Buffered!Send(w, f) \/ Buffered!Receive(w, f)
  PROVE  MachineStep
<1> USE DEF AllLabels, Buffered!ChanLabels, FlagLabels, FlagPcs, OwnerPcs, SpinPcs
<1>1. CASE Buffered!Lock(w, f)
  <2>1. PICK from \in {"send", "receive", "send_woken", "receive_woken"},
             to \in {"send_locked", "receive_locked", "send_return", "receive_return"} :
           UniqueLock(w, f, from, to) /\ UNCHANGED <<fibers_, scheduler>>
    BY <1>1, BufferedIs DEF Buffered!Lock, Buffered!scheduler, scheduler
  <2>2. Moves(w, f, to, 0)
    BY <2>1, UniqueLockMoves
  <2> QED BY <2>2 DEF MachineStep
<1>2. CASE Buffered!Return(w, f)
  <2>1. PICK from \in {"send_return", "receive_return"} :
           UniqueUnlock(w, f, from, "idle") /\ UNCHANGED <<fibers_, scheduler>>
    BY <1>2, BufferedIs DEF Buffered!Return, Buffered!scheduler, scheduler
  <2>2. Moves(w, f, "idle", 0)
    BY <2>1, UniqueUnlockMoves
  <2> QED BY <2>2 DEF MachineStep
<1>3. CASE Buffered!Send(w, f) \/ Buffered!Receive(w, f)
  <2>1. /\ Runs(w, f) /\ pc[f] = "idle" /\ (Goto(f, "send") \/ Goto(f, "receive"))
        /\ UNCHANGED <<locked_, is_owned_, fibers_, scheduler>>
    BY <1>3, BufferedIs
    DEF Buffered!Send, Buffered!Receive, Buffered!Call, Buffered!scheduler, scheduler
  <2> QED BY <2>1, PassingMoves
<1> QED BY <1>1, <1>2, <1>3

LEMMA ChannelSchedMoves ==
  ASSUME Machine, NEW w \in Workers, Buffered!ChanSched(w)
  PROVE  MachineStep
BY BufferedIs DEF Buffered!ChanSched, Buffered!Enqueue, MachineStep

LEMMA Waiters ==
  ASSUME Buffered!WaitersAgree
  PROVE  /\ state_ \in {"Senders", "Receivers"} => fibers_ # << >>
         /\ state_ = "Senders" => \A k \in DOMAIN fibers_ : pc[fibers_[k]] = "send_woken"
         /\ state_ = "Receivers" => \A k \in DOMAIN fibers_ : pc[fibers_[k]] = "receive_woken"
         /\ state_ = "Nobody" => fibers_ = << >>
         /\ state_ \in {"Nobody", "Senders", "Receivers"}
BY DEF Buffered!WaitersAgree

LEMMA BufferedMoves ==
  ASSUME Machine, Buffered!WaitersAgree, Buffered!Next
  PROVE  MachineStep \/ UNCHANGED syncVars
<1>1. ASSUME NEW w \in Workers, NEW f \in Fibers, Buffered!Inside(w, f) PROVE MachineStep
  <2>1. CASE Buffered!SendToReceiver(w, f)
    BY <2>1, BufferedIs, Waiters, WaiterMoves DEF Buffered!SendToReceiver
  <2>2. CASE Buffered!SendParks(w, f)
    BY <2>2, BufferedIs, ChannelParks DEF Buffered!SendParks
  <2>3. CASE Buffered!SendEmplaces(w, f)
    <3>1. /\ Runs(w, f) /\ pc[f] = "send_locked" /\ Goto(f, "send_return")
          /\ UNCHANGED <<locked_, is_owned_, fibers_, scheduler>>
      BY <2>3, BufferedIs DEF Buffered!SendEmplaces, Buffered!scheduler, scheduler
    <3> QED BY <3>1, PassingMoves
  <2>4. CASE Buffered!ReceiveParks(w, f)
    BY <2>4, BufferedIs, ChannelParks DEF Buffered!ReceiveParks
  <2>5. CASE Buffered!ReceivePops(w, f)
    <3>1. /\ Runs(w, f) /\ pc[f] = "receive_locked" /\ Goto(f, "receive_return")
          /\ UNCHANGED <<locked_, is_owned_, running, cb>>
      BY <2>5, BufferedIs DEF Buffered!ReceivePops
    <3>2. CASE state_ = "Senders"
      BY <2>5, <3>1, <3>2, Waiters, WaiterMoves DEF Buffered!ReceivePops
    <3>3. CASE state_ # "Senders"
      <4>1. UNCHANGED <<fibers_, scheduler>>
        BY <2>5, <3>1, <3>3 DEF Buffered!ReceivePops, scheduler
      <4> QED BY <3>1, <4>1, PassingMoves
    <3> QED BY <3>2, <3>3
  <2> QED BY <1>1, <2>1, <2>2, <2>3, <2>4, <2>5, ChannelCommonMoves DEF Buffered!Inside
<1>2. Buffered!ChanStops /\ UNCHANGED Buffered!vars => UNCHANGED syncVars
  BY DEF Buffered!vars, Buffered!chanVars, Buffered!syncVars, syncVars
<1>3. ASSUME NEW w \in Workers, Buffered!ChanSched(w) PROVE MachineStep
  BY <1>3, ChannelSchedMoves
<1> QED BY <1>1, <1>2, <1>3, ChannelCommonMoves DEF Buffered!Next, Buffered!Step

LEMMA RendezvousMoves ==
  ASSUME Machine, Buffered!WaitersAgree, Rendezvous!Next
  PROVE  MachineStep \/ UNCHANGED syncVars
<1>1. ASSUME NEW w \in Workers, NEW f \in Fibers, Rendezvous!Inside(w, f) PROVE MachineStep
  <2>1. CASE Rendezvous!SendMeets(w, f)
    BY <2>1, RendezvousIs, ChannelsShare, Waiters, WaiterMoves DEF Rendezvous!SendMeets
  <2>2. CASE Rendezvous!SendParks(w, f)
    BY <2>2, RendezvousIs, ChannelParks DEF Rendezvous!SendParks
  <2>3. CASE Rendezvous!ReceiveMeets(w, f)
    BY <2>3, RendezvousIs, ChannelsShare, Waiters, WaiterMoves DEF Rendezvous!ReceiveMeets
  <2>4. CASE Rendezvous!ReceiveParks(w, f)
    BY <2>4, RendezvousIs, ChannelParks DEF Rendezvous!ReceiveParks
  <2> QED BY <1>1, <2>1, <2>2, <2>3, <2>4, ChannelsShare, ChannelCommonMoves
          DEF Rendezvous!Inside
<1>2. Rendezvous!ChanStops /\ UNCHANGED Rendezvous!vars => UNCHANGED syncVars
  BY DEF Rendezvous!vars, Rendezvous!chanVars, Rendezvous!syncVars, syncVars
<1>3. ASSUME NEW w \in Workers, Rendezvous!ChanSched(w) PROVE MachineStep
  BY <1>3, ChannelsShare, ChannelSchedMoves
<1> QED BY <1>1, <1>2, <1>3, ChannelsShare, ChannelCommonMoves
        DEF Rendezvous!Next, Rendezvous!Step

-----------------------------------------------------------------------------
(* The invariant of the mutex.                                             *)

\* The types of what the mutex adds to the machinery.
LEMMA TypeStep ==
  ASSUME TypeOK, SyncTypeOK', [Next]_vars
  PROVE  TypeOK'
<1> USE DEF TypeOK
<1>1. ASSUME NEW f \in Fibers, NEW to \in Labels, Goto(f, to)
      PROVE  pc' \in [Fibers -> Labels]
  BY <1>1 DEF Goto
<1>2. ASSUME UNCHANGED vars
      PROVE  TypeOK'
  BY <1>2 DEF vars, syncVars
<1>3. ASSUME NEW w \in Workers, Sched(w)
      PROVE  TypeOK'
  <2>1. CASE Callback(w)
    BY <1>3, <2>1 DEF Sched, Callback, YieldCallback, ParkCallback, ParkUnlock
  <2>2. ASSUME NEW f \in Fibers, Resume(w, f) \/ Finish(w, f)
        PROVE  TypeOK'
    BY <1>1, <1>3, <2>2 DEF Sched, Resume, Finish, Labels
  <2> QED BY <1>3, <2>1, <2>2 DEF Sched
<1>4. ASSUME NEW w \in Workers, NEW f \in Fibers, Inside(w, f)
      PROVE  TypeOK'
  <2>1. /\ \E to \in Labels : Goto(f, to)
        /\ calls' = calls
        /\ is_locked_' \in BOOLEAN
    BY <1>4 DEF Inside, LockSpin, LockRead, LockExchange, LockReturn, TryLockSpin, TryLockRead,
       TryLockExchange, TryLockReturn, UnlockSpin, UnlockWake, UnlockReturn,
       UniqueLock, UniqueUnlock, SpinLock, SpinUnlock, Suspend, Labels
  <2> QED BY <1>1, <2>1
<1>5. ASSUME NEW w \in Workers, NEW f \in Fibers, NEW label \in {"lock", "trylock"},
             Begin(w, f, label)
      PROVE  TypeOK'
  <2>1. calls' \in [Fibers -> 0 .. MaxCalls]
    BY <1>5, CallsAssumption DEF Begin
  <2> QED BY <1>1, <1>5, <2>1 DEF Begin, Labels
<1>6. ASSUME NEW w \in Workers, NEW f \in Fibers, Yield(w, f)
      PROVE  TypeOK'
  BY <1>1, <1>6 DEF Yield, Suspend, Labels
<1> QED BY <1>2, <1>3, <1>4, <1>5, <1>6 DEF Next, Step, Lock, TryLock, Terminated

-----------------------------------------------------------------------------
(* Mutual exclusion: the owner of spin_ is alone between the read and the  *)
(* write of is_locked_.                                                    *)

\* A step of f that neither reads nor writes is_locked_.
LEMMA QuietStep ==
  ASSUME TypeOK, ReadIsFresh, MutualExclusion, NEW f \in Fibers, NEW to \in Labels,
         pc' = [pc EXCEPT ![f] = to], is_locked_' = is_locked_,
         to \in HolderPcs <=> pc[f] \in HolderPcs,
         to \notin {"taken", "free", "try_taken", "try_free"}
  PROVE  ReadIsFresh' /\ MutualExclusion'
<1>1. pc'[f] = to /\ \A g \in Fibers \ {f} : pc'[g] = pc[g]
  BY DEF TypeOK
<1>2. ReadIsFresh'
  BY <1>1 DEF ReadIsFresh
<1>3. Holders' = Holders
  BY <1>1 DEF Holders
<1> QED BY <1>2, <1>3 DEF MutualExclusion

\* A read of is_locked_, in Lock or TryLock.
LEMMA ReadStep ==
  ASSUME TypeOK, ReadIsFresh, MutualExclusion, NEW w \in Workers, NEW f \in Fibers,
         LockRead(w, f) \/ TryLockRead(w, f)
  PROVE  ReadIsFresh' /\ MutualExclusion'
<1>1. PICK to \in {"taken", "free", "try_taken", "try_free"} :
         /\ pc'[f] = to
         /\ to \in {"free", "try_free"} => ~ is_locked_
         /\ to \in {"taken", "try_taken"} => is_locked_
  BY DEF LockRead, TryLockRead, Goto, TypeOK
<1>2. /\ pc[f] \notin HolderPcs /\ is_locked_' = is_locked_
      /\ \A g \in Fibers \ {f} : pc'[g] = pc[g]
  BY DEF LockRead, TryLockRead, Goto, TypeOK, HolderPcs
<1>3. ReadIsFresh'
  BY <1>1, <1>2 DEF ReadIsFresh
<1>4. Holders' = Holders
  BY <1>1, <1>2 DEF Holders, HolderPcs
<1> QED BY <1>2, <1>3, <1>4 DEF MutualExclusion

\* The write of is_locked_, in Lock or TryLock.
LEMMA ExchangeStep ==
  ASSUME TypeOK, Machine, ReadIsFresh, MutualExclusion, NEW w \in Workers, NEW f \in Fibers,
         LockExchange(w, f) \/ TryLockExchange(w, f)
  PROVE  ReadIsFresh' /\ MutualExclusion'
<1>1. CASE pc[f] \in {"taken", "try_taken"}
  <2>1. is_locked_' = is_locked_
    BY <1>1 DEF LockExchange, TryLockExchange, ReadIsFresh, TypeOK
  <2>2. PICK to \in {"lock", "try_failed"} : pc' = [pc EXCEPT ![f] = to]
    BY <1>1 DEF LockExchange, TryLockExchange, Suspend, Goto
  <2> QED BY <1>1, <2>1, <2>2, QuietStep DEF Labels, HolderPcs
<1>2. CASE pc[f] \in {"free", "try_free"}
  <2>1. PICK to \in {"lock_return", "try_locked"} :
           pc'[f] = to /\ \A g \in Fibers \ {f} : pc'[g] = pc[g]
    BY <1>2 DEF LockExchange, TryLockExchange, Goto, TypeOK
  <2>2. is_locked_' = TRUE /\ ~ is_locked_
    BY <1>2 DEF LockExchange, TryLockExchange, ReadIsFresh
  <2>3. Holders = {}
    BY <2>2 DEF MutualExclusion
  <2>4. Holders' = {f}
    BY <2>1, <2>3 DEF Holders, HolderPcs
  <2>5. \A g \in Fibers : pc[g] \in {"free", "try_free"} => g = f
    BY <1>2, OwnerAlone DEF OwnerPcs, SpinPcs, FlagPcs, LockExchange, TryLockExchange
  <2>6. ReadIsFresh'
    BY <2>1, <2>2, <2>5 DEF ReadIsFresh
  <2> QED BY <2>2, <2>4, <2>6 DEF MutualExclusion
<1> QED BY <1>1, <1>2 DEF LockExchange, TryLockExchange

\* Unlock frees the mutex.
LEMMA FreeStep ==
  ASSUME TypeOK, Machine, ReadIsFresh, MutualExclusion, NEW w \in Workers, NEW f \in Fibers,
         UnlockWake(w, f)
  PROVE  ReadIsFresh' /\ MutualExclusion'
<1>1. /\ pc[f] = "unlock" /\ Runs(w, f) /\ is_locked_' = FALSE
      /\ pc'[f] = "unlock_return"
      /\ \A g \in Fibers \ {f} : pc'[g] = pc[g]
  BY DEF UnlockWake, Goto, TypeOK
<1>2. Holders = {f}
  BY <1>1 DEF MutualExclusion, Holders, HolderPcs
<1>3. Holders' = {}
  BY <1>1, <1>2 DEF Holders, HolderPcs
<1>4. \A g \in Fibers : pc[g] \in {"taken", "try_taken"} => g = f
  BY <1>1, OwnerAlone DEF OwnerPcs, SpinPcs, FlagPcs
<1>5. ReadIsFresh'
  BY <1>1, <1>4 DEF ReadIsFresh
<1> QED BY <1>1, <1>3, <1>5 DEF MutualExclusion

LEMMA ExclusionStep ==
  ASSUME TypeOK, Machine, ReadIsFresh, MutualExclusion, [Next]_vars
  PROVE  ReadIsFresh' /\ MutualExclusion'
<1>1. ASSUME UNCHANGED <<pc, is_locked_>>
      PROVE  ReadIsFresh' /\ MutualExclusion'
  BY <1>1 DEF ReadIsFresh, MutualExclusion, Holders
<1>2. ASSUME NEW w \in Workers, Sched(w)
      PROVE  ReadIsFresh' /\ MutualExclusion'
  <2>1. CASE Callback(w)
    BY <1>1, <1>2, <2>1 DEF Sched, Callback, YieldCallback, ParkCallback, ParkUnlock
  <2>2. ASSUME NEW f \in Fibers, Resume(w, f)
        PROVE  ReadIsFresh' /\ MutualExclusion'
    BY <1>1, <1>2, <2>2 DEF Sched, Resume
  <2>3. ASSUME NEW f \in Fibers, Finish(w, f)
        PROVE  ReadIsFresh' /\ MutualExclusion'
    BY <1>2, <2>3, QuietStep DEF Sched, Finish, Goto, Labels, HolderPcs
  <2> QED BY <1>2, <2>1, <2>2, <2>3 DEF Sched
<1>3. ASSUME NEW w \in Workers, NEW f \in Fibers, Inside(w, f)
      PROVE  ReadIsFresh' /\ MutualExclusion'
  <2>1. CASE LockSpin(w, f) \/ TryLockSpin(w, f)
    BY <2>1, QuietStep DEF LockSpin, TryLockSpin, UniqueLock, SpinLock, Goto, Labels, HolderPcs
  <2>2. CASE LockReturn(w, f) \/ TryLockReturn(w, f)
    BY <2>2, QuietStep DEF LockReturn, TryLockReturn, UniqueUnlock, SpinUnlock, Goto, Labels,
       HolderPcs
  <2>3. CASE UnlockSpin(w, f) \/ UnlockReturn(w, f)
    BY <2>3, QuietStep DEF UnlockSpin, UnlockReturn, SpinLock, SpinUnlock, Goto, Labels, HolderPcs
  <2> QED BY <1>3, <2>1, <2>2, <2>3, ReadStep, ExchangeStep, FreeStep DEF Inside
<1>4. ASSUME NEW w \in Workers, NEW f \in Fibers, Lock(w, f) \/ TryLock(w, f) \/ Yield(w, f)
      PROVE  ReadIsFresh' /\ MutualExclusion'
  BY <1>4, QuietStep DEF Lock, TryLock, Begin, Yield, Suspend, Goto, Labels, HolderPcs
<1> QED BY <1>1, <1>2, <1>3, <1>4 DEF Next, Step, Terminated, vars, syncVars


\* What the machinery promises, in the terms of the mutex.
LEMMA SyncInvHolds ==
  ASSUME Machine, pc \in [Fibers -> Labels]
  PROVE  SyncInv
<1>1. /\ OwnerPcs \cap Labels = SpinPcs
      /\ FlagLabels \cap Labels = FlagPcs
      /\ ParkedLabels \cap Labels = {"lock"}
  BY DEF OwnerPcs, SpinPcs, FlagPcs, FlagLabels, ParkedLabels, Labels
<1>2. /\ \A f \in Fibers : pc[f] \in Labels
      /\ running \in [Workers -> Fibers \cup {NULL}] /\ fibers_ \in Seq(Fibers)
  BY DEF Machine, Typed, SyncTypeOK
<1>3. \A w \in Workers : SpinOwner(w) <=> Owner(w)
  BY <1>1, <1>2 DEF SpinOwner, Owner
<1>4. SpinOwned
  BY <1>3 DEF Machine, SpinLockOwned, SpinOwned
<1>5. RunningOK
  <2>1. \A w \in Workers : cb[w] # "none" => running[w] \in Fibers
    BY CallbackOf
  <2> QED BY <1>1, <1>2, <2>1 DEF Machine, CallbacksOK, RunningOK, ParkSteps
<1>6. SpinRuns
  BY <1>1 DEF Machine, OwnersRun, SpinRuns
<1>7. WaitersLock
  BY <1>1, <1>2 DEF Machine, WaitersParked, WaitersLock
<1>8. FlagOwned
  <2>1. \A w \in Workers : \A f \in Fibers : FlagOwner(w, f) <=> Flags(w, f)
    BY <1>1, <1>2 DEF FlagOwner, Flags
  <2> QED BY <2>1 DEF Machine, FlagsOwned, FlagOwned
<1> QED BY <1>4, <1>5, <1>6, <1>7, <1>8 DEF SyncInv, Machine, Typed

\* A fiber parks itself only while the mutex is locked, and then owns spin_, without
\* which nobody unlocks the mutex.
ParksWhileLocked == \A w \in Workers : cb[w] = "park" => is_locked_

\* A fiber that is on its way to the test, and not in fibers_.
Coming(f) == pc[f] \in {"lock", "exchange", "free"} /\ \A k \in DOMAIN fibers_ : fibers_[k] # f

\* A step of the code of f that leaves fibers_ and cb.
LEMMA ComingStays ==
  ASSUME TypeOK, ParksWhileLocked, NoLostWakeup, NEW f \in Fibers,
         \A g \in Fibers \ {f} : pc'[g] = pc[g],
         pc[f] \in {"lock", "exchange", "free"} => pc'[f] \in {"lock", "exchange", "free"},
         UNCHANGED <<fibers_, cb, is_locked_>>
  PROVE  ParksWhileLocked' /\ NoLostWakeup'
<1>1. ParksWhileLocked'
  BY DEF ParksWhileLocked
<1>2. ASSUME ~ is_locked_, fibers_ # << >>
      PROVE  \E g \in Fibers : /\ pc'[g] \in {"lock", "exchange", "free"}
                               /\ \A k \in DOMAIN fibers_' : fibers_'[k] # g
  <2>1. PICK g \in Fibers : Coming(g)
    BY <1>2 DEF NoLostWakeup, Coming
  <2>2. pc'[g] \in {"lock", "exchange", "free"}
    BY <2>1 DEF Coming
  <2> QED BY <2>1, <2>2 DEF Coming
<1>3. NoLostWakeup'
  BY <1>2 DEF NoLostWakeup
<1> QED BY <1>1, <1>3

\* Unlock wakes a waiter, if there is one.
LEMMA UnlockTells ==
  ASSUME Machine, TypeOK, NEW w \in Workers, NEW f \in Fibers, UnlockWake(w, f)
  PROVE  ParksWhileLocked' /\ NoLostWakeup'
<1>1. /\ Runs(w, f) /\ pc[f] = "unlock" /\ cb' = cb /\ WakeOne
      /\ pc'[f] = "unlock_return"
      /\ \A g \in Fibers \ {f} : pc'[g] = pc[g]
  BY DEF UnlockWake, Goto, TypeOK
<1>2. \A u \in Workers : cb[u] \notin ParkSteps
  BY <1>1, OwnerAlone DEF OwnerPcs, SpinPcs
<1>3. ParksWhileLocked'
  BY <1>1, <1>2 DEF ParksWhileLocked, ParkSteps
<1>4. CASE fibers_ = << >>
  <2>1. fibers_' = << >>
    BY <1>1, <1>4 DEF WakeOne
  <2> QED BY <1>3, <2>1 DEF NoLostWakeup
<1>5. CASE fibers_ # << >>
  <2>1. fibers_ \in Seq(Fibers)
    BY DEF Machine, Typed, SyncTypeOK
  <2>2. /\ 1 \in DOMAIN fibers_ /\ Head(fibers_) = fibers_[1]
        /\ DOMAIN fibers_' = 1 .. Len(fibers_) - 1 /\ DOMAIN fibers_ = 1 .. Len(fibers_)
        /\ Len(fibers_) \in Nat
        /\ \A k \in DOMAIN fibers_' : fibers_'[k] = fibers_[k + 1]
    <3>1. fibers_' = Tail(fibers_)
      BY <1>1, <1>5 DEF WakeOne
    <3> QED BY <1>5, <2>1, <3>1, HeadTailProperties, EmptySeq, LenProperties
  <2> DEFINE g == fibers_[1]
  <2>3. g \in Fibers /\ g # f
    BY <1>1, <2>1, <2>2, RunsAlone
  <2>4. pc[g] = "lock"
    <3>1. SyncInv
      BY SyncInvHolds DEF TypeOK
    <3> QED BY <2>2, <3>1 DEF SyncInv, WaitersLock
  <2>5. \A k \in DOMAIN fibers_' : fibers_'[k] # g
    <3>1. \A k \in DOMAIN fibers_' : k + 1 \in DOMAIN fibers_ /\ k + 1 # 1
      BY <2>2
    <3>2. \A i, j \in DOMAIN fibers_ : i # j => fibers_[i] # fibers_[j]
      BY DEF Machine, OnePlace
    <3> QED BY <2>2, <3>1, <3>2
  <2> HIDE DEF g
  <2>6. pc'[g] = "lock"
    BY <1>1, <2>3, <2>4
  <2> QED BY <1>3, <2>3, <2>5, <2>6 DEF NoLostWakeup
<1> QED BY <1>4, <1>5

\* Nobody can be left waiting while the mutex is locked.
LEMMA LockedTells ==
  ASSUME is_locked_' = TRUE
  PROVE  ParksWhileLocked' /\ NoLostWakeup'
BY DEF ParksWhileLocked, NoLostWakeup

\* What the runtime does.
LEMMA SchedTells ==
  ASSUME TypeOK, ParksWhileLocked, NoLostWakeup, NEW w \in Workers, Sched(w)
  PROVE  ParksWhileLocked' /\ NoLostWakeup'
<1>0. is_locked_ \in BOOLEAN /\ is_locked_' = is_locked_
      /\ cb \in [Workers -> CallbackSteps] /\ pc \in [Fibers -> Labels]
  BY DEF Sched, TypeOK, SyncTypeOK
<1>1. CASE ParkCallback(w)
  <2>1. is_locked_' = TRUE
    BY <1>0, <1>1 DEF ParkCallback, ParksWhileLocked
  <2> QED BY <2>1, LockedTells
<1>2. ASSUME fibers_' = fibers_, pc' = pc, \A u \in Workers : cb'[u] = "park" => cb[u] = "park"
      PROVE  ParksWhileLocked' /\ NoLostWakeup'
  BY <1>0, <1>2 DEF ParksWhileLocked, NoLostWakeup
<1>3. CASE YieldCallback(w) \/ ParkUnlock(w)
  BY <1>0, <1>2, <1>3 DEF YieldCallback, ParkUnlock, CallbackReturns
<1>4. ASSUME NEW f \in Fibers, Resume(w, f)
      PROVE  ParksWhileLocked' /\ NoLostWakeup'
  BY <1>2, <1>4 DEF Resume
<1>5. ASSUME NEW f \in Fibers, Finish(w, f)
      PROVE  ParksWhileLocked' /\ NoLostWakeup'
  BY <1>0, <1>5, ComingStays DEF Finish, Goto
<1> QED BY <1>1, <1>3, <1>4, <1>5 DEF Sched, Callback

LEMMA TellsStep ==
  ASSUME Machine, TypeOK, ReadIsFresh, ParksWhileLocked, NoLostWakeup, Next
  PROVE  ParksWhileLocked' /\ NoLostWakeup'
<1>0. pc \in [Fibers -> Labels]
  BY DEF TypeOK
<1>1. ASSUME UNCHANGED <<fibers_, cb, pc, is_locked_>>
      PROVE  ParksWhileLocked' /\ NoLostWakeup'
  BY <1>1 DEF ParksWhileLocked, NoLostWakeup
<1>2. ASSUME NEW w \in Workers, NEW f \in Fibers, Inside(w, f)
      PROVE  ParksWhileLocked' /\ NoLostWakeup'
  <2>1. CASE LockExchange(w, f) \/ TryLockExchange(w, f)
    BY <2>1, LockedTells DEF LockExchange, TryLockExchange
  <2>2. CASE LockSpin(w, f) \/ TryLockSpin(w, f) \/ UnlockSpin(w, f)
    BY <1>0, <2>2, ComingStays
    DEF LockSpin, TryLockSpin, UnlockSpin, UniqueLock, SpinLock, Goto, scheduler
  <2>3. CASE LockReturn(w, f) \/ TryLockReturn(w, f) \/ UnlockReturn(w, f)
    BY <1>0, <2>3, ComingStays
    DEF LockReturn, TryLockReturn, UnlockReturn, UniqueUnlock, SpinUnlock, Goto, scheduler
  <2>4. CASE (LockRead(w, f) \/ TryLockRead(w, f)) /\ is_locked_
    BY <2>4, LockedTells DEF LockRead, TryLockRead, TypeOK
  <2>5. CASE (LockRead(w, f) \/ TryLockRead(w, f)) /\ ~ is_locked_
    BY <1>0, <2>5, ComingStays DEF LockRead, TryLockRead, Goto, scheduler
  <2> QED BY <1>2, <2>1, <2>2, <2>3, <2>4, <2>5, UnlockTells DEF Inside
<1>3. ASSUME NEW w \in Workers, NEW f \in Fibers, Lock(w, f) \/ TryLock(w, f)
      PROVE  ParksWhileLocked' /\ NoLostWakeup'
  BY <1>0, <1>3, ComingStays DEF Lock, TryLock, Begin, Goto, scheduler
<1>4. ASSUME NEW w \in Workers, NEW f \in Fibers, Yield(w, f)
      PROVE  ParksWhileLocked' /\ NoLostWakeup'
  <2>1. /\ \A g \in Fibers \ {f} : pc'[g] = pc[g]
        /\ pc[f] = "critical" /\ UNCHANGED <<fibers_, is_locked_>>
        /\ \A u \in Workers : cb'[u] = "park" => cb[u] = "park"
    BY <1>0, <1>4 DEF Yield, Suspend, Goto, TypeOK, SyncTypeOK
  <2> QED BY <2>1 DEF ParksWhileLocked, NoLostWakeup
<1>5. Terminated => UNCHANGED <<fibers_, cb, pc, is_locked_>>
  BY DEF Terminated, vars, syncVars
<1> QED BY <1>1, <1>2, <1>3, <1>4, <1>5, SchedTells DEF Next, Step

MutexPart == TypeOK /\ ReadIsFresh /\ MutualExclusion /\ ParksWhileLocked /\ NoLostWakeup

LEMMA MutexStart == Init => MutexPart
<1> SUFFICES ASSUME Init PROVE MutexPart
  OBVIOUS
<1>1. SyncInit /\ is_locked_ = FALSE /\ calls = [f \in Fibers |-> 0]
  BY DEF Init
<1>2. TypeOK
  <2>1. calls \in [Fibers -> 0 .. MaxCalls]
    BY <1>1, CallsAssumption
  <2>2. pc \in [Fibers -> Labels]
    BY <1>1 DEF SyncInit, Labels
  <2> QED BY <1>1, <2>1, <2>2, MachineStart DEF TypeOK, Machine, Typed
<1>3. ReadIsFresh /\ MutualExclusion /\ ParksWhileLocked /\ NoLostWakeup
  BY <1>1 DEF ReadIsFresh, MutualExclusion, Holders, HolderPcs, ParksWhileLocked, NoLostWakeup, SyncInit
<1> QED BY <1>2, <1>3 DEF MutexPart

LEMMA MutexStep ==
  ASSUME Machine, Machine', MutexPart, Next
  PROVE  MutexPart'
<1>1. TypeOK'
  BY TypeStep DEF MutexPart, Machine, Typed
<1> QED BY <1>1, ExclusionStep, TellsStep DEF MutexPart

-----------------------------------------------------------------------------
(* The invariant of the wait group: count_ is the number of the calls of   *)
(* Done that are to come, one by one.                                      *)

DoneLabels == {"done", "done_count"}

\* <<f, 0>>: f is in a call of Done that has not decremented count_ yet; <<f, k>>: the
\* k-th call that f still owes.
DoneUnits(p, o) ==
  {x \in Fibers \X Nat : (x[2] = 0 /\ p[x[1]] \in DoneLabels) \/ (0 < x[2] /\ x[2] <= o[x[1]])}

CountInv ==
  /\ IsFiniteSet(DoneUnits(pc, owed))
  /\ count_ = Cardinality(DoneUnits(pc, owed))

LEMMA SameUnits ==
  ASSUME NEW p \in [Fibers -> WG!Labels], NEW q \in [Fibers -> WG!Labels],
         NEW o \in [Fibers -> Nat], NEW f \in Fibers, NEW to, q = [p EXCEPT ![f] = to],
         to \in DoneLabels <=> p[f] \in DoneLabels
  PROVE  DoneUnits(q, o) = DoneUnits(p, o)
<1>1. \A g \in Fibers : q[g] \in DoneLabels <=> p[g] \in DoneLabels
  OBVIOUS
<1> QED BY <1>1 DEF DoneUnits

\* Add: the fiber owes one call more.
LEMMA AddedUnit ==
  ASSUME NEW p, NEW q, \A g \in Fibers : q[g] \in DoneLabels <=> p[g] \in DoneLabels,
         NEW o \in [Fibers -> Nat], NEW r, NEW f \in Fibers, r[f] = o[f] + 1,
         \A g \in Fibers \ {f} : r[g] = o[g], IsFiniteSet(DoneUnits(p, o))
  PROVE  /\ IsFiniteSet(DoneUnits(q, r))
         /\ Cardinality(DoneUnits(q, r)) = Cardinality(DoneUnits(p, o)) + 1
<1> DEFINE u == <<f, o[f] + 1>>
<1>1. \A g \in Fibers : q[g] \in DoneLabels <=> p[g] \in DoneLabels
  OBVIOUS
<1>2. r[f] = o[f] + 1 /\ \A g \in Fibers \ {f} : r[g] = o[g]
  OBVIOUS
<1>3. ASSUME NEW x \in Fibers \X Nat
      PROVE  x \in DoneUnits(q, r) <=> x \in DoneUnits(p, o) \/ x = u
  <2>1. CASE x[1] = f
    <3>1. x = <<f, x[2]>>
      BY <2>1
    <3>2. x = u <=> x[2] = o[f] + 1
      BY <3>1
    <3>3. 0 < x[2] /\ x[2] <= r[f] <=> (0 < x[2] /\ x[2] <= o[f]) \/ x[2] = o[f] + 1
      BY <1>2
    <3> QED BY <1>1, <2>1, <3>2, <3>3 DEF DoneUnits
  <2>2. CASE x[1] # f
    BY <1>1, <1>2, <2>2 DEF DoneUnits
  <2> QED BY <2>1, <2>2
<1>4. u \in Fibers \X Nat /\ u \notin DoneUnits(p, o)
  BY DEF DoneUnits
<1>5. DoneUnits(q, r) \subseteq Fibers \X Nat /\ DoneUnits(p, o) \subseteq Fibers \X Nat
  BY DEF DoneUnits
<1> HIDE DEF u
<1>6. DoneUnits(q, r) = DoneUnits(p, o) \cup {u}
  BY <1>3, <1>4, <1>5
<1>7. /\ IsFiniteSet(DoneUnits(p, o) \cup {u})
      /\ Cardinality(DoneUnits(p, o) \cup {u}) = Cardinality(DoneUnits(p, o)) + 1
  BY <1>4, FS_AddElement
<1> QED BY <1>6, <1>7

\* The call of Done begins: it is counted as the one that the fiber is in.
LEMMA BegunUnit ==
  ASSUME NEW p, NEW q, NEW o \in [Fibers -> Nat], NEW r, NEW f \in Fibers,
         p[f] \notin DoneLabels, q[f] \in DoneLabels, o[f] > 0, r[f] = o[f] - 1,
         \A g \in Fibers \ {f} : q[g] = p[g] /\ r[g] = o[g], IsFiniteSet(DoneUnits(p, o))
  PROVE  /\ IsFiniteSet(DoneUnits(q, r))
         /\ Cardinality(DoneUnits(q, r)) = Cardinality(DoneUnits(p, o))
<1> DEFINE u == <<f, o[f]>>
           v == <<f, 0>>
<1>1. /\ \A g \in Fibers \ {f} : q[g] = p[g] /\ r[g] = o[g]
      /\ q[f] \in DoneLabels /\ p[f] \notin DoneLabels /\ r[f] = o[f] - 1
  OBVIOUS
<1>2. u \in Fibers \X Nat /\ v \in Fibers \X Nat /\ u # v
      /\ u \in DoneUnits(p, o) /\ v \notin DoneUnits(p, o)
  BY <1>1 DEF DoneUnits
<1>3. ASSUME NEW x \in Fibers \X Nat
      PROVE  x \in DoneUnits(q, r) <=> (x \in DoneUnits(p, o) /\ x # u) \/ x = v
  <2>1. CASE x[1] = f
    <3>1. x = <<f, x[2]>>
      BY <2>1
    <3>2. (x = u <=> x[2] = o[f]) /\ (x = v <=> x[2] = 0)
      BY <3>1
    <3>3. 0 < x[2] /\ x[2] <= r[f] <=> (0 < x[2] /\ x[2] <= o[f]) /\ x[2] # o[f]
      BY <1>1
    <3> QED BY <1>1, <2>1, <3>2, <3>3 DEF DoneUnits
  <2>2. CASE x[1] # f
    BY <1>1, <2>2 DEF DoneUnits
  <2> QED BY <2>1, <2>2
<1>5. DoneUnits(q, r) \subseteq Fibers \X Nat /\ DoneUnits(p, o) \subseteq Fibers \X Nat
  BY DEF DoneUnits
<1> HIDE DEF u, v
<1>6. DoneUnits(q, r) = (DoneUnits(p, o) \ {u}) \cup {v}
  BY <1>2, <1>3, <1>5
<1>7. /\ IsFiniteSet(DoneUnits(p, o) \ {u})
      /\ Cardinality(DoneUnits(p, o) \ {u}) = Cardinality(DoneUnits(p, o)) - 1
  BY <1>2, FS_RemoveElement
<1>8. v \notin DoneUnits(p, o) \ {u} /\ Cardinality(DoneUnits(p, o)) \in Nat
  BY <1>2, FS_CardinalityType
<1>9. /\ IsFiniteSet((DoneUnits(p, o) \ {u}) \cup {v})
      /\ Cardinality((DoneUnits(p, o) \ {u}) \cup {v}) = Cardinality(DoneUnits(p, o) \ {u}) + 1
  BY <1>7, <1>8, FS_AddElement
<1>10. Cardinality((DoneUnits(p, o) \ {u}) \cup {v}) = Cardinality(DoneUnits(p, o))
  BY <1>7, <1>8, <1>9
<1> QED BY <1>6, <1>9, <1>10

\* Done has decremented count_.
LEMMA EndedUnit ==
  ASSUME NEW p, NEW q, NEW o \in [Fibers -> Nat], NEW f \in Fibers,
         p[f] \in DoneLabels, q[f] \notin DoneLabels,
         \A g \in Fibers \ {f} : q[g] = p[g], IsFiniteSet(DoneUnits(p, o))
  PROVE  /\ IsFiniteSet(DoneUnits(q, o))
         /\ Cardinality(DoneUnits(q, o)) = Cardinality(DoneUnits(p, o)) - 1
         /\ Cardinality(DoneUnits(p, o)) \in Nat \ {0}
<1> DEFINE v == <<f, 0>>
<1>1. /\ \A g \in Fibers \ {f} : q[g] = p[g]
      /\ q[f] \notin DoneLabels /\ p[f] \in DoneLabels
  OBVIOUS
<1>2. v \in Fibers \X Nat /\ v \in DoneUnits(p, o)
  BY <1>1 DEF DoneUnits
<1>3. ASSUME NEW x \in Fibers \X Nat
      PROVE  x \in DoneUnits(q, o) <=> x \in DoneUnits(p, o) /\ x # v
  <2>1. CASE x[1] = f
    <3>1. x = <<f, x[2]>>
      BY <2>1
    <3>2. x = v <=> x[2] = 0
      BY <3>1
    <3> QED BY <1>1, <2>1, <3>2 DEF DoneUnits
  <2>2. CASE x[1] # f
    BY <1>1, <2>2 DEF DoneUnits
  <2> QED BY <2>1, <2>2
<1>4. DoneUnits(q, o) \subseteq Fibers \X Nat /\ DoneUnits(p, o) \subseteq Fibers \X Nat
  BY DEF DoneUnits
<1> HIDE DEF v
<1>5. DoneUnits(q, o) = DoneUnits(p, o) \ {v}
  BY <1>2, <1>3, <1>4
<1>6. Cardinality(DoneUnits(p, o)) \in Nat /\ DoneUnits(p, o) # {}
  BY <1>2, FS_CardinalityType
<1>7. Cardinality(DoneUnits(p, o)) # 0
  BY <1>6, FS_EmptySet
<1>8. /\ IsFiniteSet(DoneUnits(p, o) \ {v})
      /\ Cardinality(DoneUnits(p, o) \ {v}) = Cardinality(DoneUnits(p, o)) - 1
  BY <1>2, FS_RemoveElement
<1> QED BY <1>5, <1>6, <1>7, <1>8

\* A step of the wait group that is none of Add, Done, Wait and their accesses of count_.
PassesBy ==
  /\ UNCHANGED <<count_, adds, waits, owed, zero>>
  /\ \/ pc' = pc
     \/ \E f \in Fibers : \E to \in WG!Labels : Goto(f, to) /\ (to \in DoneLabels <=> pc[f] \in DoneLabels)

LEMMA GroupCases ==
  ASSUME WG!Next
  PROVE  \/ PassesBy
         \/ \E w \in Workers : \E f \in Fibers :
              \/ WG!AddCount(w, f) \/ WG!DoneCount(w, f)
              \/ WG!Add(w, f) \/ WG!Done(w, f) \/ WG!Wait(w, f)
<1> USE DEF PassesBy
<1>1. ASSUME NEW w \in Workers, WG!Sched(w) PROVE PassesBy
  <2>1. UNCHANGED <<count_, adds, waits, owed, zero>>
    BY <1>1 DEF WG!Sched, WG!history
  <2>2. CASE YieldCallback(w) \/ ParkCallback(w) \/ ParkUnlock(w)
    BY <2>1, <2>2 DEF YieldCallback, ParkCallback, ParkUnlock
  <2>3. ASSUME NEW f \in Fibers, Resume(w, f) \/ Finish(w, f) PROVE PassesBy
    BY <2>1, <2>3 DEF Resume, Finish, WG!Labels, DoneLabels
  <2> QED BY <1>1, <2>2, <2>3, GroupIs DEF WG!Sched
<1>2. ASSUME NEW w \in Workers, NEW f \in Fibers,
             \/ WG!AddSpin(w, f) \/ WG!DoneSpin(w, f) \/ WG!Return(w, f)
             \/ WG!WaitSpin(w, f) \/ WG!WaitTest(w, f) \/ WG!WaitRelock(w, f) \/ WG!WaitReturn(w, f)
      PROVE  PassesBy
  <2>0. ASSUME ~ WG!WaitTest(w, f)
        PROVE  \E to \in WG!Labels : Goto(f, to) /\ (to \in DoneLabels <=> pc[f] \in DoneLabels)
    <3>1. PICK from, to \in {"add", "add_count", "done", "done_count", "return", "idle",
                             "wait", "wait_test", "woken", "wait_return"} :
             /\ \/ WG!SpinLock(w, f, from, to) \/ WG!SpinUnlock(w, f, from, to)
                \/ WG!UniqueLock(w, f, from, to) \/ WG!UniqueUnlock(w, f, from, to)
             /\ from \in DoneLabels <=> to \in DoneLabels
      BY <1>2, <2>0 DEF WG!AddSpin, WG!DoneSpin, WG!Return, WG!WaitSpin, WG!WaitRelock, WG!WaitReturn,
         DoneLabels
    <3>2. Goto(f, to) /\ pc[f] = from
      BY <3>1, GroupIs DEF SpinLock, SpinUnlock, UniqueLock, UniqueUnlock
    <3> QED BY <3>1, <3>2 DEF WG!Labels
  <2>1. \E to \in WG!Labels : Goto(f, to) /\ (to \in DoneLabels <=> pc[f] \in DoneLabels)
    BY <2>0, GroupIs DEF WG!WaitTest, Suspend, WG!Labels, DoneLabels
  <2>2. UNCHANGED <<count_, adds, waits, owed, zero>>
    BY <1>2 DEF WG!AddSpin, WG!DoneSpin, WG!Return, WG!WaitSpin, WG!WaitTest,
       WG!WaitRelock, WG!WaitReturn, WG!history
  <2> QED BY <2>1, <2>2
<1>3. WG!Terminated => PassesBy
  BY DEF WG!Terminated, WG!vars, WG!syncVars, WG!history
<1> QED BY <1>1, <1>2, <1>3 DEF WG!Next, WG!Step, WG!Inside

\* What the calls, and their accesses of count_, do to the state of the wait group.
LEMMA GroupEffects ==
  ASSUME NEW w \in Workers, NEW f \in Fibers
  PROVE  /\ WG!AddCount(w, f) =>
              /\ Runs(w, f) /\ pc[f] = "add_count" /\ Goto(f, "return")
              /\ count_' = count_ + 1 /\ owed' = [owed EXCEPT ![f] = @ + 1]
              /\ UNCHANGED <<fibers_, scheduler, adds, waits, zero>>
         /\ WG!DoneCount(w, f) =>
              /\ Runs(w, f) /\ pc[f] = "done_count" /\ Goto(f, "return")
              /\ count_' = count_ - 1
              /\ IF count_' = 0 THEN WakeAll ELSE UNCHANGED <<fibers_, ready>>
              /\ zero' = [g \in Fibers |-> zero[g] \/ count_' = 0]
              /\ UNCHANGED <<running, cb, adds, waits, owed>>
         /\ WG!Add(w, f) =>
              /\ Runs(w, f) /\ pc[f] = "idle" /\ Goto(f, "add")
              /\ adds < MaxAdds /\ adds' = adds + 1
              /\ UNCHANGED <<fibers_, scheduler, count_, waits, owed, zero>>
         /\ WG!Done(w, f) =>
              /\ Runs(w, f) /\ pc[f] = "idle" /\ Goto(f, "done")
              /\ owed[f] > 0 /\ owed' = [owed EXCEPT ![f] = @ - 1]
              /\ UNCHANGED <<fibers_, scheduler, count_, adds, waits, zero>>
         /\ WG!Wait(w, f) =>
              /\ Runs(w, f) /\ pc[f] = "idle" /\ Goto(f, "wait")
              /\ waits[f] < MaxWaits /\ waits' = [waits EXCEPT ![f] = @ + 1]
              /\ zero' = [zero EXCEPT ![f] = (count_ = 0)]
              /\ UNCHANGED <<fibers_, scheduler, count_, adds, owed>>
<1> USE GroupIs DEF WG!scheduler, scheduler
<1>1. WG!AddCount(w, f) =>
        /\ Runs(w, f) /\ pc[f] = "add_count" /\ Goto(f, "return")
        /\ count_' = count_ + 1 /\ owed' = [owed EXCEPT ![f] = @ + 1]
        /\ UNCHANGED <<fibers_, scheduler, adds, waits, zero>>
  BY DEF WG!AddCount
<1>2. WG!DoneCount(w, f) =>
        /\ Runs(w, f) /\ pc[f] = "done_count" /\ Goto(f, "return")
        /\ count_' = count_ - 1
        /\ IF count_' = 0 THEN WakeAll ELSE UNCHANGED <<fibers_, ready>>
        /\ zero' = [g \in Fibers |-> zero[g] \/ count_' = 0]
        /\ UNCHANGED <<running, cb, adds, waits, owed>>
  BY DEF WG!DoneCount, WG!history
<1>3. WG!Add(w, f) =>
        /\ Runs(w, f) /\ pc[f] = "idle" /\ Goto(f, "add")
        /\ adds < MaxAdds /\ adds' = adds + 1
        /\ UNCHANGED <<fibers_, scheduler, count_, waits, owed, zero>>
  BY DEF WG!Add, WG!Call
<1>4. WG!Done(w, f) =>
        /\ Runs(w, f) /\ pc[f] = "idle" /\ Goto(f, "done")
        /\ owed[f] > 0 /\ owed' = [owed EXCEPT ![f] = @ - 1]
        /\ UNCHANGED <<fibers_, scheduler, count_, adds, waits, zero>>
  BY DEF WG!Done, WG!Call
<1>5. WG!Wait(w, f) =>
        /\ Runs(w, f) /\ pc[f] = "idle" /\ Goto(f, "wait")
        /\ waits[f] < MaxWaits /\ waits' = [waits EXCEPT ![f] = @ + 1]
        /\ zero' = [zero EXCEPT ![f] = (count_ = 0)]
        /\ UNCHANGED <<fibers_, scheduler, count_, adds, owed>>
  BY DEF WG!Wait, WG!Call
<1> QED BY <1>1, <1>2, <1>3, <1>4, <1>5

LEMMA CountStep ==
  ASSUME WG!TypeOK, CountInv, WG!Next
  PROVE  CountInv' /\ pc' \in [Fibers -> WG!Labels]
<1>0. pc \in [Fibers -> WG!Labels] /\ owed \in [Fibers -> Nat] /\ IsFiniteSet(DoneUnits(pc, owed))
  BY DEF WG!TypeOK, CountInv
<1>1. CASE PassesBy
  <2>1. owed' = owed /\ count_' = count_
    BY <1>1 DEF PassesBy
  <2>2. CASE pc' = pc
    BY <1>0, <2>1, <2>2 DEF CountInv
  <2>3. ASSUME NEW f \in Fibers, NEW to \in WG!Labels, Goto(f, to),
               to \in DoneLabels <=> pc[f] \in DoneLabels
        PROVE  CountInv' /\ pc' \in [Fibers -> WG!Labels]
    <3>1. pc' = [pc EXCEPT ![f] = to] /\ pc' \in [Fibers -> WG!Labels]
      BY <1>0, <2>3 DEF Goto
    <3>2. DoneUnits(pc', owed) = DoneUnits(pc, owed)
      BY <1>0, <2>3, <3>1, SameUnits
    <3> QED BY <2>1, <3>1, <3>2 DEF CountInv
  <2> QED BY <1>1, <2>2, <2>3 DEF PassesBy
<1>2. ASSUME NEW w \in Workers, NEW f \in Fibers, WG!AddCount(w, f)
      PROVE  CountInv' /\ pc' \in [Fibers -> WG!Labels]
  <2>1. /\ pc[f] = "add_count" /\ pc' = [pc EXCEPT ![f] = "return"]
        /\ count_' = count_ + 1 /\ owed' = [owed EXCEPT ![f] = @ + 1]
    BY <1>2, GroupEffects DEF Goto
  <2>2. pc' \in [Fibers -> WG!Labels]
    BY <1>0, <2>1 DEF WG!Labels
  <2>3. "return" \in DoneLabels <=> pc[f] \in DoneLabels
    BY <2>1 DEF DoneLabels
  <2>4. /\ owed'[f] = owed[f] + 1 /\ \A g \in Fibers \ {f} : owed'[g] = owed[g]
        /\ \A g \in Fibers : pc'[g] \in DoneLabels <=> pc[g] \in DoneLabels
    BY <1>0, <2>1, <2>3
  <2>5. /\ IsFiniteSet(DoneUnits(pc', owed'))
        /\ Cardinality(DoneUnits(pc', owed')) = Cardinality(DoneUnits(pc, owed)) + 1
    BY <1>0, <2>4, AddedUnit
  <2> QED BY <2>1, <2>2, <2>5 DEF CountInv
<1>3. ASSUME NEW w \in Workers, NEW f \in Fibers, WG!DoneCount(w, f)
      PROVE  CountInv' /\ pc' \in [Fibers -> WG!Labels]
  <2>1. /\ pc[f] = "done_count" /\ pc' = [pc EXCEPT ![f] = "return"]
        /\ count_' = count_ - 1 /\ owed' = owed
    BY <1>3, GroupEffects DEF Goto
  <2>2. pc' \in [Fibers -> WG!Labels]
    BY <1>0, <2>1 DEF WG!Labels
  <2>3. /\ pc[f] \in DoneLabels /\ pc'[f] \notin DoneLabels
        /\ \A g \in Fibers \ {f} : pc'[g] = pc[g]
    BY <1>0, <2>1 DEF DoneLabels
  <2>4. /\ IsFiniteSet(DoneUnits(pc', owed))
        /\ Cardinality(DoneUnits(pc', owed)) = Cardinality(DoneUnits(pc, owed)) - 1
    BY <1>0, <2>3, EndedUnit
  <2> QED BY <2>1, <2>2, <2>4 DEF CountInv
<1>4. ASSUME NEW w \in Workers, NEW f \in Fibers, WG!Add(w, f) \/ WG!Wait(w, f)
      PROVE  CountInv' /\ pc' \in [Fibers -> WG!Labels]
  <2>1. PICK to \in {"add", "wait"} :
           /\ pc[f] = "idle" /\ pc' = [pc EXCEPT ![f] = to]
           /\ count_' = count_ /\ owed' = owed
    BY <1>4, GroupEffects DEF Goto
  <2>2. pc' \in [Fibers -> WG!Labels]
    BY <1>0, <2>1 DEF WG!Labels
  <2>3. to \in DoneLabels <=> pc[f] \in DoneLabels
    BY <2>1 DEF DoneLabels
  <2>4. DoneUnits(pc', owed) = DoneUnits(pc, owed)
    BY <1>0, <2>1, <2>2, <2>3, SameUnits
  <2> QED BY <2>1, <2>2, <2>4 DEF CountInv
<1>5. ASSUME NEW w \in Workers, NEW f \in Fibers, WG!Done(w, f)
      PROVE  CountInv' /\ pc' \in [Fibers -> WG!Labels]
  <2>1. /\ pc[f] = "idle" /\ pc' = [pc EXCEPT ![f] = "done"]
        /\ count_' = count_ /\ owed[f] > 0 /\ owed' = [owed EXCEPT ![f] = @ - 1]
    BY <1>5, GroupEffects DEF Goto
  <2>2. pc' \in [Fibers -> WG!Labels]
    BY <1>0, <2>1 DEF WG!Labels
  <2>3. /\ pc[f] \notin DoneLabels /\ pc'[f] \in DoneLabels
        /\ owed[f] > 0 /\ owed'[f] = owed[f] - 1
        /\ \A g \in Fibers \ {f} : pc'[g] = pc[g] /\ owed'[g] = owed[g]
    BY <1>0, <2>1 DEF DoneLabels
  <2>4. /\ IsFiniteSet(DoneUnits(pc', owed'))
        /\ Cardinality(DoneUnits(pc', owed')) = Cardinality(DoneUnits(pc, owed))
    BY <1>0, <2>3, BegunUnit
  <2> QED BY <2>1, <2>2, <2>4 DEF CountInv
<1> QED BY <1>1, <1>2, <1>3, <1>4, <1>5, GroupCases

LEMMA GroupTypes ==
  ASSUME WG!TypeOK, CountInv', pc' \in [Fibers -> WG!Labels], SyncTypeOK', WG!Next
  PROVE  WG!TypeOK'
<1>0. /\ adds \in 0 .. MaxAdds /\ waits \in [Fibers -> 0 .. MaxWaits]
      /\ owed \in [Fibers -> Nat] /\ zero \in [Fibers -> BOOLEAN]
  BY DEF WG!TypeOK
<1>1. count_' \in Nat
  BY FS_CardinalityType DEF CountInv
<1>2. ASSUME adds' \in 0 .. MaxAdds, waits' \in [Fibers -> 0 .. MaxWaits],
             owed' \in [Fibers -> Nat], zero' \in [Fibers -> BOOLEAN]
      PROVE  WG!TypeOK'
  BY <1>1, <1>2 DEF WG!TypeOK, WG!SyncTypeOK, SyncTypeOK, WG!CallbackSteps, CallbackSteps
<1>3. PassesBy => WG!TypeOK'
  BY <1>0, <1>2 DEF PassesBy
<1>4. ASSUME NEW w \in Workers, NEW f \in Fibers, WG!AddCount(w, f)
      PROVE  WG!TypeOK'
  <2>1. owed' = [owed EXCEPT ![f] = @ + 1] /\ UNCHANGED <<adds, waits, zero>>
    BY <1>4, GroupEffects
  <2>2. owed' \in [Fibers -> Nat]
    BY <1>0, <2>1
  <2> QED BY <1>0, <1>2, <2>1, <2>2
<1>5. ASSUME NEW w \in Workers, NEW f \in Fibers, WG!DoneCount(w, f)
      PROVE  WG!TypeOK'
  <2>1. zero' = [g \in Fibers |-> zero[g] \/ count_' = 0] /\ UNCHANGED <<adds, waits, owed>>
    BY <1>5, GroupEffects
  <2>2. zero' \in [Fibers -> BOOLEAN]
    BY <2>1
  <2> QED BY <1>0, <1>2, <2>1, <2>2
<1>6. ASSUME NEW w \in Workers, NEW f \in Fibers, WG!Add(w, f)
      PROVE  WG!TypeOK'
  <2>1. adds < MaxAdds /\ adds' = adds + 1 /\ UNCHANGED <<waits, owed, zero>>
    BY <1>6, GroupEffects
  <2>2. adds' \in 0 .. MaxAdds
    BY <1>0, <2>1, BoundsAssumption
  <2> QED BY <1>0, <1>2, <2>1, <2>2
<1>7. ASSUME NEW w \in Workers, NEW f \in Fibers, WG!Done(w, f)
      PROVE  WG!TypeOK'
  <2>1. owed[f] > 0 /\ owed' = [owed EXCEPT ![f] = @ - 1] /\ UNCHANGED <<adds, waits, zero>>
    BY <1>7, GroupEffects
  <2>2. owed' \in [Fibers -> Nat]
    BY <1>0, <2>1
  <2> QED BY <1>0, <1>2, <2>1, <2>2
<1>8. ASSUME NEW w \in Workers, NEW f \in Fibers, WG!Wait(w, f)
      PROVE  WG!TypeOK'
  <2>1. /\ waits[f] < MaxWaits /\ waits' = [waits EXCEPT ![f] = @ + 1]
        /\ zero' = [zero EXCEPT ![f] = (count_ = 0)] /\ UNCHANGED <<adds, owed>>
    BY <1>8, GroupEffects
  <2>2. waits' \in [Fibers -> 0 .. MaxWaits]
    BY <1>0, <2>1, BoundsAssumption
  <2>3. zero' \in [Fibers -> BOOLEAN]
    BY <1>0, <2>1
  <2> QED BY <1>0, <1>2, <2>1, <2>2, <2>3
<1> QED BY <1>3, <1>4, <1>5, <1>6, <1>7, <1>8, GroupCases

\* A waiter that has not been woken, in fibers_ or about to be.
Asleep(f) ==
  \/ \E k \in DOMAIN fibers_ : fibers_[k] = f
  \/ \E w \in Workers : running[w] = f /\ cb[w] = "park"

\* What a call of Wait knows of the counter: it has been 0, or the fiber sleeps.
ZeroSeen ==
  \A f \in Fibers :
    /\ pc[f] \in {"wait", "wait_test"} /\ count_ = 0 => zero[f]
    /\ pc[f] = "wait_return" => zero[f]
    /\ pc[f] = "woken" => zero[f] \/ Asleep(f)

\* Fibers sleep, or are about to, only while a Done is to come.
DoneToCome ==
  /\ fibers_ # << >> => count_ # 0
  /\ \A w \in Workers : cb[w] = "park" => count_ # 0

GroupPart == WG!TypeOK /\ CountInv /\ ZeroSeen /\ DoneToCome

\* A step of the code of f that touches neither count_ nor the waiters.
LEMMA ZeroQuiet ==
  ASSUME ZeroSeen, DoneToCome, NEW f \in Fibers,
         \A g \in Fibers \ {f} : pc'[g] = pc[g],
         pc'[f] \in {"wait", "wait_test"} /\ count_ = 0 => zero'[f],
         pc'[f] = "wait_return" => zero'[f],
         pc'[f] # "woken",
         \A g \in Fibers \ {f} : zero'[g] = zero[g],
         UNCHANGED <<fibers_, running, cb, count_>>
  PROVE  ZeroSeen' /\ DoneToCome'
<1>1. DoneToCome'
  BY DEF DoneToCome
<1>2. \A g \in Fibers : Asleep(g)' <=> Asleep(g)
  BY DEF Asleep
<1>3. ASSUME NEW g \in Fibers, g # f
      PROVE  /\ pc'[g] \in {"wait", "wait_test"} /\ count_' = 0 => zero'[g]
             /\ pc'[g] = "wait_return" => zero'[g]
             /\ pc'[g] = "woken" => zero'[g] \/ Asleep(g)'
  BY <1>2, <1>3 DEF ZeroSeen
<1> QED BY <1>1, <1>3 DEF ZeroSeen

LEMMA AddTells ==
  ASSUME WG!TypeOK, ZeroSeen, DoneToCome, NEW w \in Workers, NEW f \in Fibers, WG!AddCount(w, f)
  PROVE  ZeroSeen' /\ DoneToCome'
<1>1. /\ count_' # 0 /\ zero' = zero /\ UNCHANGED <<fibers_, running, cb>>
      /\ pc' = [pc EXCEPT ![f] = "return"] /\ pc[f] = "add_count"
      /\ pc \in [Fibers -> WG!Labels]
  BY GroupEffects DEF WG!TypeOK, scheduler, Goto
<1>2. DoneToCome'
  BY <1>1 DEF DoneToCome
<1>3. \A g \in Fibers : Asleep(g)' <=> Asleep(g)
  BY <1>1 DEF Asleep
<1> QED BY <1>1, <1>2, <1>3 DEF ZeroSeen

\* Either the counter is 0 and nobody sleeps any more, or nothing changes for Wait.
LEMMA DoneTells ==
  ASSUME Machine, WG!TypeOK, ZeroSeen, DoneToCome, NEW w \in Workers, NEW f \in Fibers,
         WG!DoneCount(w, f)
  PROVE  ZeroSeen' /\ DoneToCome'
<1>1. /\ Runs(w, f) /\ pc[f] = "done_count" /\ pc' = [pc EXCEPT ![f] = "return"]
      /\ zero' = [g \in Fibers |-> zero[g] \/ count_' = 0]
      /\ UNCHANGED <<running, cb>>
      /\ pc \in [Fibers -> WG!Labels]
  BY GroupEffects DEF WG!TypeOK, Goto
<1>2. CASE count_' = 0
  <2>1. fibers_' = << >>
    BY <1>2, GroupEffects DEF WakeAll
  <2>2. \A u \in Workers : cb[u] # "park"
    BY <1>1, OwnerAlone DEF OwnerPcs, ParkSteps
  <2>3. DoneToCome'
    BY <1>1, <2>1, <2>2 DEF DoneToCome
  <2>4. \A g \in Fibers : zero'[g]
    BY <1>1, <1>2
  <2> QED BY <2>3, <2>4 DEF ZeroSeen
<1>3. CASE count_' # 0
  <2>1. fibers_' = fibers_
    BY <1>3, GroupEffects
  <2>2. DoneToCome'
    BY <1>3 DEF DoneToCome
  <2>3. \A g \in Fibers : Asleep(g)' <=> Asleep(g)
    BY <1>1, <2>1 DEF Asleep
  <2>4. \A g \in Fibers : zero[g] => zero'[g]
    BY <1>1
  <2>5. \A g \in Fibers : pc'[g] \in {"wait_return", "woken"} => pc'[g] = pc[g]
    BY <1>1
  <2> QED BY <1>3, <2>2, <2>3, <2>4, <2>5 DEF ZeroSeen
<1> QED BY <1>2, <1>3

\* The waiter goes to sleep.
LEMMA ParkTells ==
  ASSUME ZeroSeen, DoneToCome, SyncTypeOK, pc \in [Fibers -> WG!Labels],
         NEW w \in Workers, NEW f \in Fibers, Runs(w, f), WG!WaitTest(w, f), count_ # 0
  PROVE  ZeroSeen' /\ DoneToCome'
<1>1. /\ Suspend(w, f, "park", "woken") /\ UNCHANGED <<fibers_, count_, zero>>
  BY GroupIs DEF WG!WaitTest
<1>2. /\ cb' = [cb EXCEPT ![w] = "park"] /\ pc' = [pc EXCEPT ![f] = "woken"]
      /\ running' = running /\ running[w] = f /\ cb[w] = "none"
      /\ cb \in [Workers -> CallbackSteps]
  BY <1>1 DEF Suspend, Goto, Runs, SyncTypeOK
<1>3. DoneToCome'
  BY <1>1 DEF DoneToCome
<1>4. \A g \in Fibers : Asleep(g) => Asleep(g)'
  BY <1>1, <1>2 DEF Asleep
<1>5. Asleep(f)'
  BY <1>2 DEF Asleep
<1> QED BY <1>1, <1>2, <1>3, <1>4, <1>5 DEF ZeroSeen

\* The steps of the runtime: only ParkCallback makes a fiber sleep.
LEMMA GroupSchedTells ==
  ASSUME Machine, WG!TypeOK, ZeroSeen, DoneToCome, NEW w \in Workers, WG!Sched(w)
  PROVE  ZeroSeen' /\ DoneToCome'
<1>0. /\ UNCHANGED <<count_, zero>> /\ pc \in [Fibers -> WG!Labels]
      /\ cb \in [Workers -> CallbackSteps]
      /\ running \in [Workers -> Fibers \cup {NULL}] /\ fibers_ \in Seq(Fibers)
  BY DEF WG!Sched, WG!TypeOK, Machine, Typed, SyncTypeOK
<1>1. CASE ParkCallback(w)
  <2>1. /\ count_ # 0 /\ pc' = pc /\ running' = running
        /\ fibers_' = Append(fibers_, running[w])
        /\ \A u \in Workers \ {w} : cb'[u] = cb[u]
    BY <1>0, <1>1 DEF ParkCallback, DoneToCome
  <2>2. DoneToCome'
    BY <1>0, <2>1 DEF DoneToCome
  <2>3. \A g \in Fibers : Asleep(g) => Asleep(g)'
    <3>1. running[w] \in Fibers
      BY <1>1, CallbackOf DEF ParkCallback
    <3>2. /\ \A k \in DOMAIN fibers_ : k \in DOMAIN fibers_' /\ fibers_'[k] = fibers_[k]
          /\ \E k \in DOMAIN fibers_' : fibers_'[k] = running[w]
      BY <1>0, <2>1, <3>1, AppendProperties, LenProperties
    <3> QED BY <2>1, <3>2 DEF Asleep
  <2> QED BY <1>0, <2>1, <2>2, <2>3 DEF ZeroSeen
<1>2. ASSUME fibers_' = fibers_, pc' = pc,
             \A u \in Workers : cb'[u] = "park" <=> cb[u] = "park",
             \A u \in Workers : cb[u] = "park" => running'[u] = running[u]
      PROVE  ZeroSeen' /\ DoneToCome'
  <2>1. DoneToCome'
    BY <1>0, <1>2 DEF DoneToCome
  <2>2. \A g \in Fibers : Asleep(g) => Asleep(g)'
    BY <1>2 DEF Asleep
  <2> QED BY <1>0, <1>2, <2>1, <2>2 DEF ZeroSeen
<1>3. CASE YieldCallback(w) \/ ParkUnlock(w)
  BY <1>0, <1>2, <1>3 DEF YieldCallback, ParkUnlock, CallbackReturns
<1>4. ASSUME NEW f \in Fibers, Resume(w, f)
      PROVE  ZeroSeen' /\ DoneToCome'
  <2>1. cb[w] # "park"
    BY <1>4 DEF Resume, Machine, Typed, SyncTypeOK
  <2> QED BY <1>0, <1>2, <1>4, <2>1 DEF Resume
<1>5. ASSUME NEW f \in Fibers, Finish(w, f)
      PROVE  ZeroSeen' /\ DoneToCome'
  <2>1. /\ pc' = [pc EXCEPT ![f] = "finished"] /\ UNCHANGED <<fibers_, cb>>
        /\ running' = [running EXCEPT ![w] = NULL] /\ cb[w] = "none" /\ running[w] = f
        /\ pc[f] = "idle"
    BY <1>5 DEF Finish, Runs, Goto
  <2>2. DoneToCome'
    BY <1>0, <2>1 DEF DoneToCome
  <2>3. \A g \in Fibers : Asleep(g) => Asleep(g)'
    BY <1>0, <2>1 DEF Asleep
  <2> QED BY <1>0, <2>1, <2>2, <2>3 DEF ZeroSeen
<1> QED BY <1>1, <1>3, <1>4, <1>5, GroupIs DEF WG!Sched

LEMMA ZeroStep ==
  ASSUME Machine, WG!TypeOK, ZeroSeen, DoneToCome, WG!Next
  PROVE  ZeroSeen' /\ DoneToCome'
<1>0. /\ pc \in [Fibers -> WG!Labels] /\ zero \in [Fibers -> BOOLEAN]
      /\ SyncTypeOK
  BY DEF WG!TypeOK, Machine, Typed
<1>1. ASSUME NEW w \in Workers, NEW f \in Fibers,
             NEW from, NEW to, Goto(f, to), pc[f] = from,
             <<from, to>> \in {<<"add", "add_count">>, <<"done", "done_count">>, <<"return", "idle">>,
                               <<"wait", "wait_test">>, <<"wait_return", "idle">>, <<"idle", "add">>,
                               <<"idle", "done">>},
             UNCHANGED <<fibers_, running, cb, count_, zero>>
      PROVE  ZeroSeen' /\ DoneToCome'
  <2>1. /\ pc'[f] = to /\ \A g \in Fibers \ {f} : pc'[g] = pc[g]
        /\ pc'[f] \in {"wait", "wait_test"} => pc[f] = "wait"
        /\ pc'[f] \notin {"wait_return", "woken"}
    BY <1>0, <1>1 DEF Goto
  <2> QED BY <1>1, <2>1, ZeroQuiet DEF ZeroSeen
<1>2. ASSUME NEW w \in Workers, NEW f \in Fibers, WG!AddSpin(w, f) \/ WG!DoneSpin(w, f) \/ WG!Return(w, f)
      PROVE  ZeroSeen' /\ DoneToCome'
  <2>1. PICK from, to :
          /\ WG!SpinLock(w, f, from, to) \/ WG!SpinUnlock(w, f, from, to)
          /\ <<from, to>> \in {<<"add", "add_count">>, <<"done", "done_count">>, <<"return", "idle">>}
    BY <1>2 DEF WG!AddSpin, WG!DoneSpin, WG!Return
  <2>2. Goto(f, to) /\ pc[f] = from
    BY <2>1, GroupIs DEF SpinLock, SpinUnlock
  <2>3. UNCHANGED <<fibers_, running, cb, count_, zero>>
    BY <1>2 DEF WG!AddSpin, WG!DoneSpin, WG!Return, WG!scheduler
  <2> QED BY <1>1, <2>1, <2>2, <2>3
<1>3. ASSUME NEW w \in Workers, NEW f \in Fibers, WG!WaitSpin(w, f) \/ WG!WaitReturn(w, f)
      PROVE  ZeroSeen' /\ DoneToCome'
  <2>1. PICK from, to :
          /\ WG!UniqueLock(w, f, from, to) \/ WG!UniqueUnlock(w, f, from, to)
          /\ <<from, to>> \in {<<"wait", "wait_test">>, <<"wait_return", "idle">>}
    BY <1>3 DEF WG!WaitSpin, WG!WaitReturn
  <2>2. Goto(f, to) /\ pc[f] = from
    BY <2>1, GroupIs DEF UniqueLock, UniqueUnlock
  <2>3. UNCHANGED <<fibers_, running, cb, count_, zero>>
    BY <1>3 DEF WG!WaitSpin, WG!WaitReturn, WG!scheduler
  <2> QED BY <1>1, <2>1, <2>2, <2>3
<1>4. ASSUME NEW w \in Workers, NEW f \in Fibers, WG!WaitRelock(w, f)
      PROVE  ZeroSeen' /\ DoneToCome'
  <2>1. /\ Runs(w, f) /\ Goto(f, "wait_return") /\ pc[f] = "woken"
        /\ UNCHANGED <<fibers_, running, cb, count_, zero>>
    BY <1>4, GroupIs DEF WG!WaitRelock, UniqueLock, WG!scheduler
  <2>2. ~ Asleep(f)
    BY <2>1, RunsAlone DEF Asleep
  <2>3. zero[f]
    BY <2>1, <2>2 DEF ZeroSeen
  <2>4. pc'[f] = "wait_return" /\ \A g \in Fibers \ {f} : pc'[g] = pc[g]
    BY <1>0, <2>1 DEF Goto
  <2> QED BY <2>1, <2>3, <2>4, ZeroQuiet
<1>5. ASSUME NEW w \in Workers, NEW f \in Fibers, WG!WaitTest(w, f)
      PROVE  ZeroSeen' /\ DoneToCome'
  <2>1. CASE count_ # 0
    <3>1. Runs(w, f)
      BY <1>5, GroupIs DEF WG!WaitTest
    <3> QED BY <1>0, <1>5, <2>1, <3>1, ParkTells
  <2>2. CASE count_ = 0
    <3>1. /\ Goto(f, "wait_return") /\ pc[f] = "wait_test"
          /\ UNCHANGED <<fibers_, running, cb, count_, zero>>
      BY <1>5, <2>2, GroupIs DEF WG!WaitTest, WG!scheduler
    <3>2. zero[f]
      BY <2>2, <3>1 DEF ZeroSeen
    <3>3. pc'[f] = "wait_return" /\ \A g \in Fibers \ {f} : pc'[g] = pc[g]
      BY <1>0, <3>1 DEF Goto
    <3> QED BY <3>1, <3>2, <3>3, ZeroQuiet
  <2> QED BY <2>1, <2>2
<1>6. ASSUME NEW w \in Workers, NEW f \in Fibers, WG!Add(w, f) \/ WG!Done(w, f)
      PROVE  ZeroSeen' /\ DoneToCome'
  <2>1. PICK to \in {"add", "done"} :
           pc[f] = "idle" /\ Goto(f, to) /\ UNCHANGED <<fibers_, running, cb, count_, zero>>
    BY <1>6, GroupEffects DEF scheduler
  <2> QED BY <1>1, <2>1
<1>7. ASSUME NEW w \in Workers, NEW f \in Fibers, WG!Wait(w, f)
      PROVE  ZeroSeen' /\ DoneToCome'
  <2>1. /\ Goto(f, "wait") /\ zero' = [zero EXCEPT ![f] = (count_ = 0)]
        /\ UNCHANGED <<fibers_, running, cb, count_>>
    BY <1>7, GroupEffects DEF scheduler
  <2>2. /\ pc'[f] = "wait" /\ \A g \in Fibers \ {f} : pc'[g] = pc[g] /\ zero'[g] = zero[g]
        /\ zero'[f] = (count_ = 0)
    BY <1>0, <2>1 DEF Goto
  <2> QED BY <2>1, <2>2, ZeroQuiet
<1>8. WG!Terminated => ZeroSeen' /\ DoneToCome'
  BY DEF WG!Terminated, WG!vars, WG!syncVars, ZeroSeen, DoneToCome, Asleep
<1> QED BY <1>2, <1>3, <1>4, <1>5, <1>6, <1>7, <1>8, AddTells, DoneTells, GroupSchedTells
        DEF WG!Next, WG!Step, WG!Inside

LEMMA GroupStart == WG!Init => GroupPart
<1> SUFFICES ASSUME WG!Init PROVE GroupPart
  OBVIOUS
<1>1. /\ SyncInit /\ count_ = 0 /\ adds = 0
      /\ waits = [f \in Fibers |-> 0] /\ owed = [f \in Fibers |-> 0]
      /\ zero = [f \in Fibers |-> FALSE]
  BY GroupIs DEF WG!Init
<1>2. /\ fibers_ = << >> /\ \A f \in Fibers : pc[f] = "idle"
      /\ \A w \in Workers : cb[w] = "none"
      /\ pc \in [Fibers -> WG!Labels]
  BY <1>1 DEF SyncInit, WG!Labels
<1>3. WG!TypeOK
  <2>1. WG!SyncTypeOK
    BY <1>1, MachineStart, GroupIs DEF Machine, Typed
  <2> QED BY <1>1, <1>2, <2>1, BoundsAssumption DEF WG!TypeOK
<1>4. CountInv
  <2>1. DoneUnits(pc, owed) = {}
    BY <1>1, <1>2 DEF DoneUnits, DoneLabels
  <2> QED BY <1>1, <2>1, FS_EmptySet DEF CountInv
<1>5. ZeroSeen /\ DoneToCome
  BY <1>2 DEF ZeroSeen, DoneToCome
<1> QED BY <1>3, <1>4, <1>5 DEF GroupPart

LEMMA GroupStep ==
  ASSUME Machine, Machine', GroupPart, WG!Next
  PROVE  GroupPart'
<1>1. CountInv' /\ pc' \in [Fibers -> WG!Labels]
  BY CountStep DEF GroupPart
<1>2. WG!TypeOK'
  BY <1>1, GroupTypes DEF GroupPart, Machine, Typed
<1> QED BY <1>1, <1>2, ZeroStep DEF GroupPart

\* Only one fiber goes on in a step.
LEMMA OneMoves ==
  ASSUME Machine, MachineStep \/ UNCHANGED syncVars, NEW f \in Fibers, pc'[f] # pc[f]
  PROVE  \A g \in Fibers \ {f} : pc'[g] = pc[g]
<1>0. pc \in [Fibers -> AllLabels]
  BY DEF Machine, Typed
<1>1. ASSUME NEW h \in Fibers, NEW to, Goto(h, to)
      PROVE  \A g \in Fibers \ {f} : pc'[g] = pc[g]
  BY <1>0, <1>1 DEF Goto
<1>2. ASSUME NEW w \in Workers, NEW h \in Fibers,
             \/ Finish(w, h)
             \/ \E to \in AllLabels : \E n \in Nat : Moves(w, h, to, n)
             \/ \E callback, to \in {"park", "yield", "yielded"} \cup ParkedLabels :
                  Leaves(w, h, callback, to)
      PROVE  \E to : Goto(h, to)
  BY <1>2 DEF Finish, Moves, Leaves, Suspend
<1>3. ASSUME NEW w \in Workers, NEW h \in Fibers, Resume(w, h) PROVE pc' = pc
  BY <1>3 DEF Resume
<1>4. ASSUME NEW w \in Workers, YieldCallback(w) \/ ParkCallback(w) \/ ParkUnlock(w) PROVE pc' = pc
  BY <1>4 DEF YieldCallback, ParkCallback, ParkUnlock
<1> QED BY <1>1, <1>2, <1>3, <1>4 DEF MachineStep, syncVars

\* A fiber that returns from Wait owns spin_, so that no call of Add or Done is inside,
\* and no call of Done is to come when the counter is 0.
LEMMA OverIsOver ==
  ASSUME Machine, GroupPart, MachineStep \/ UNCHANGED syncVars,
         NEW f \in Fibers, pc[f] = "wait_return", pc'[f] = "idle", count_ = 0,
         NEW g \in Fibers \ {f}
  PROVE  pc'[g] \notin WG!Touching
<1>1. pc'[g] = pc[g]
  BY OneMoves
<1>2. PICK w \in Workers : Runs(w, f)
  BY DEF Machine, OwnersRun, OwnerPcs
<1>3. pc[g] \notin {"add_count", "done_count", "return"}
  BY <1>2, OwnerAlone DEF OwnerPcs
<1>4. pc[g] # "done"
  <2>1. DoneUnits(pc, owed) = {}
    BY FS_EmptySet DEF GroupPart, CountInv
  <2> SUFFICES ASSUME pc[g] = "done" PROVE FALSE
    OBVIOUS
  <2>2. <<g, 0>> \in DoneUnits(pc, owed)
    BY DEF DoneUnits, DoneLabels
  <2> QED BY <2>1, <2>2
<1> QED BY <1>1, <1>3, <1>4 DEF WG!Touching

-----------------------------------------------------------------------------
(* The channels.                                                           *)

LEMMA Around ==
  ASSUME NEW c \in Nat \ {0}, NEW x \in 0 .. (c + c - 1)
  PROVE  x % c = IF x < c THEN x ELSE x - c
OBVIOUS

\* A fiber that is about to be put into waiters_ goes with those that wait: it owns
\* spin_, so that nobody has changed what it has seen.
ParkAgrees ==
  \A w \in Workers : cb[w] = "park" =>
    /\ pc[running[w]] = "send_woken" => state_ # "Receivers"
    /\ pc[running[w]] = "receive_woken" => state_ # "Senders"

Agreed == Buffered!WaitersAgree /\ ParkAgrees

\* What a call of Send sends is told apart from what the others send.
SendLabels == {"send", "send_locked", "send_woken", "send_return"}
OwnMessages ==
  \A f \in Fibers : pc[f] \in SendLabels => message[f] \in Buffered!Values /\ message[f][1] = f

ChannelPart == Buffered!ChanTypeOK /\ Agreed /\ OwnMessages

LEMMA PassingAgrees ==
  ASSUME Machine, Agreed, NEW w \in Workers, NEW f \in Fibers, Runs(w, f),
         \A g \in Fibers \ {f} : pc'[g] = pc[g],
         UNCHANGED <<fibers_, running, cb, state_>>
  PROVE  Agreed'
<1>1. \A k \in DOMAIN fibers_ : fibers_[k] \in Fibers \ {f}
  BY RunsAlone DEF Machine, Typed, SyncTypeOK
<1>2. Buffered!WaitersAgree'
  BY <1>1 DEF Agreed, Buffered!WaitersAgree
<1>3. ASSUME NEW u \in Workers, cb[u] = "park" PROVE running[u] \in Fibers \ {f}
  BY <1>3, RunsAlone, CallbackOf DEF Runs
<1>4. ParkAgrees'
  BY <1>3 DEF Agreed, ParkAgrees
<1> QED BY <1>2, <1>4 DEF Agreed

\* The first waiter has gone: nobody waits any more, or the others do.
LEMMA WakingAgrees ==
  ASSUME Machine, Agreed, NEW w \in Workers, NEW f \in Fibers, Runs(w, f), pc[f] \in OwnerPcs,
         \A g \in Fibers \ {f} : pc'[g] = pc[g], fibers_ # << >>,
         Buffered!WakeWaiter, UNCHANGED <<running, cb>>
  PROVE  Agreed'
<1>1. ParkAgrees'
  BY OwnerAlone DEF ParkAgrees, ParkSteps
<1>2. fibers_ \in Seq(Fibers)
  BY DEF Machine, Typed, SyncTypeOK
<1>3. /\ Len(fibers_) \in Nat \ {0} /\ DOMAIN fibers_ = 1 .. Len(fibers_)
      /\ DOMAIN fibers_' = 1 .. Len(fibers_) - 1
      /\ \A k \in DOMAIN fibers_' : fibers_'[k] = fibers_[k + 1] /\ k + 1 \in DOMAIN fibers_
      /\ Len(fibers_) = 1 <=> fibers_' = << >>
  <2>1. fibers_' = Tail(fibers_)
    BY DEF Buffered!WakeWaiter
  <2>2. /\ Len(fibers_) \in Nat \ {0} /\ DOMAIN fibers_ = 1 .. Len(fibers_)
        /\ fibers_' \in Seq(Fibers) /\ Len(fibers_') = Len(fibers_) - 1
        /\ \A i \in 1 .. Len(fibers_') : fibers_'[i] = fibers_[i + 1]
    BY <1>2, <2>1, HeadTailProperties, EmptySeq, LenProperties
  <2>3. DOMAIN fibers_' = 1 .. Len(fibers_') /\ (fibers_' = << >> <=> Len(fibers_') = 0)
    BY <2>2, EmptySeq, LenProperties
  <2> QED BY <2>2, <2>3
<1>4. \A k \in DOMAIN fibers_ : fibers_[k] \in Fibers \ {f}
  BY <1>2, RunsAlone
<1>5. \A k \in DOMAIN fibers_' : \E j \in DOMAIN fibers_ :
        fibers_'[k] = fibers_[j] /\ pc'[fibers_'[k]] = pc[fibers_[j]]
  BY <1>3, <1>4
<1>6. CASE Len(fibers_) = 1
  BY <1>1, <1>3, <1>6 DEF Buffered!WaitersAgree, Buffered!WakeWaiter, Agreed
<1>7. CASE Len(fibers_) # 1
  <2>1. fibers_' # << >> /\ state_' = state_
    BY <1>3, <1>7 DEF Buffered!WakeWaiter
  <2> QED BY <1>1, <1>5, <2>1 DEF Buffered!WaitersAgree, Agreed
<1> QED BY <1>1, <1>6, <1>7 DEF Agreed

\* The fiber leaves its thread for waiters_.
LEMMA ParkingAgrees ==
  ASSUME Machine, Agreed, pc \in [Fibers -> Buffered!ChanLabels],
         NEW w \in Workers, NEW f \in Fibers, Runs(w, f), UNCHANGED <<fibers_, state_>>,
         \/ state_ # "Receivers" /\ Suspend(w, f, "park", "send_woken")
         \/ state_ # "Senders" /\ Suspend(w, f, "park", "receive_woken")
  PROVE  Agreed'
<1>1. PICK to \in {"send_woken", "receive_woken"} :
         /\ pc' = [pc EXCEPT ![f] = to] /\ cb' = [cb EXCEPT ![w] = "park"] /\ running' = running
         /\ to = "send_woken" => state_ # "Receivers"
         /\ to = "receive_woken" => state_ # "Senders"
  BY DEF Suspend, Goto
<1>2. pc'[f] = to /\ \A g \in Fibers \ {f} : pc'[g] = pc[g]
  BY <1>1
<1>3. \A k \in DOMAIN fibers_ : fibers_[k] \in Fibers \ {f}
  BY RunsAlone DEF Machine, Typed, SyncTypeOK
<1>4. Buffered!WaitersAgree'
  BY <1>2, <1>3 DEF Agreed, Buffered!WaitersAgree
<1>5. ASSUME NEW u \in Workers, cb'[u] = "park"
      PROVE  /\ pc'[running'[u]] = "send_woken" => state_' # "Receivers"
             /\ pc'[running'[u]] = "receive_woken" => state_' # "Senders"
  <2>1. CASE u = w
    BY <1>1, <1>2, <2>1 DEF Runs
  <2>2. CASE u # w
    <3>1. cb[u] = "park"
      BY <1>1, <1>5, <2>2 DEF Machine, Typed, SyncTypeOK
    <3>2. running[u] \in Fibers \ {f}
      BY <3>1, RunsAlone, CallbackOf, <2>2
    <3> QED BY <1>1, <1>2, <3>1, <3>2 DEF Agreed, ParkAgrees
  <2> QED BY <2>1, <2>2
<1> QED BY <1>4, <1>5 DEF Agreed, ParkAgrees

LEMMA EnqueueAgrees ==
  ASSUME Machine, Agreed, pc \in [Fibers -> Buffered!ChanLabels],
         NEW w \in Workers, Buffered!Enqueue(w)
  PROVE  Agreed'
<1> DEFINE f == running[w]
<1>1. /\ cb[w] = "park" /\ fibers_' = Append(fibers_, f) /\ running' = running /\ pc' = pc
      /\ cb'[w] # "park" /\ \A u \in Workers \ {w} : cb'[u] = cb[u]
      /\ state_' = IF pc[f] = "send_woken" THEN "Senders" ELSE "Receivers"
  BY BufferedIs DEF Buffered!Enqueue, ParkCallback, Machine, Typed, SyncTypeOK
<1>2. f \in Fibers /\ pc[f] \in {"send_woken", "receive_woken"}
  BY <1>1, CallbackOf DEF ParkSteps, ParkedLabels, Buffered!ChanLabels
<1>3. /\ DOMAIN fibers_' = 1 .. Len(fibers_) + 1 /\ Len(fibers_) \in Nat
      /\ \A k \in DOMAIN fibers_ : fibers_'[k] = fibers_[k]
      /\ DOMAIN fibers_ = 1 .. Len(fibers_)
      /\ fibers_'[Len(fibers_) + 1] = f
  <2>1. fibers_ \in Seq(Fibers)
    BY DEF Machine, Typed, SyncTypeOK
  <2> QED BY <1>1, <1>2, <2>1
<1>4. \A u \in Workers \ {w} : cb[u] # "park"
  <2>1. Owner(w)
    BY <1>1 DEF Owner, ParkSteps
  <2>2. \A u \in Workers : cb[u] = "park" => Owner(u)
    BY DEF Owner, ParkSteps
  <2> QED BY <2>1, <2>2 DEF Machine, SpinLockOwned
<1>5. ParkAgrees'
  BY <1>1, <1>4 DEF ParkAgrees
<1>6. state_ = "Nobody" \/ state_ = state_'
  BY <1>1, <1>2 DEF Agreed, ParkAgrees, Buffered!WaitersAgree
<1>7. \A k \in DOMAIN fibers_ : pc[fibers_[k]] = pc[f]
  BY <1>1, <1>2, <1>6 DEF Agreed, Buffered!WaitersAgree
<1>8. fibers_' # << >> /\ \A k \in DOMAIN fibers_' : pc[fibers_'[k]] = pc[f]
  <2>1. \A k \in DOMAIN fibers_' : k \in DOMAIN fibers_ \/ k = Len(fibers_) + 1
    BY <1>3
  <2>2. \A k \in DOMAIN fibers_' : pc[fibers_'[k]] = pc[f]
    BY <1>3, <1>7, <2>1
  <2>3. DOMAIN fibers_' # {}
    BY <1>3
  <2> QED BY <2>2, <2>3
<1> HIDE DEF f
<1>9. Buffered!WaitersAgree'
  BY <1>1, <1>2, <1>8 DEF Buffered!WaitersAgree
<1> QED BY <1>5, <1>9 DEF Agreed

LEMMA RuntimeAgrees ==
  ASSUME Machine, Agreed, NEW w \in Workers, UNCHANGED state_,
         ParkUnlock(w) \/ \E f \in Fibers : Resume(w, f) \/ Finish(w, f)
  PROVE  Agreed'
<1>1. ASSUME fibers_' = fibers_, pc' = pc,
             \A u \in Workers : cb'[u] = "park" => cb[u] = "park" /\ running'[u] = running[u]
      PROVE  Agreed'
  BY <1>1 DEF Agreed, ParkAgrees, Buffered!WaitersAgree
<1>2. CASE ParkUnlock(w)
  BY <1>1, <1>2 DEF ParkUnlock, CallbackReturns, Machine, Typed, SyncTypeOK
<1>3. ASSUME NEW f \in Fibers, Resume(w, f) PROVE Agreed'
  <2>1. cb[w] # "park"
    BY <1>3 DEF Resume, Machine, Typed, SyncTypeOK
  <2> QED BY <1>1, <1>3, <2>1 DEF Resume, Machine, Typed, SyncTypeOK
<1>4. ASSUME NEW f \in Fibers, Finish(w, f) PROVE Agreed'
  <2>1. /\ Runs(w, f) /\ \A g \in Fibers \ {f} : pc'[g] = pc[g]
        /\ UNCHANGED <<fibers_, cb>> /\ cb[w] = "none"
        /\ \A u \in Workers \ {w} : running'[u] = running[u]
    BY <1>4 DEF Finish, Goto, Runs, Machine, Typed, SyncTypeOK
  <2>2. \A k \in DOMAIN fibers_ : fibers_[k] \in Fibers \ {f}
    BY <2>1, RunsAlone DEF Machine, Typed, SyncTypeOK
  <2>3. Buffered!WaitersAgree'
    BY <2>1, <2>2 DEF Agreed, Buffered!WaitersAgree
  <2>4. ASSUME NEW u \in Workers, cb[u] = "park" PROVE running[u] \in Fibers \ {f} /\ u # w
    BY <2>1, <2>4, RunsAlone, CallbackOf DEF Runs
  <2>5. ParkAgrees'
    BY <2>1, <2>4 DEF Agreed, ParkAgrees
  <2> QED BY <2>3, <2>5 DEF Agreed
<1> QED BY <1>2, <1>3, <1>4

LEMMA MessagesKept ==
  ASSUME ChannelPart, NEW f \in Fibers, NEW to \in Buffered!ChanLabels, Goto(f, to),
         \A g \in Fibers \ {f} : pc[g] \in SendLabels => message'[g] = message[g],
         to \in SendLabels => message'[f] \in Buffered!Values /\ message'[f][1] = f
  PROVE  pc' \in [Fibers -> Buffered!ChanLabels] /\ OwnMessages'
BY DEF ChannelPart, Buffered!ChanTypeOK, OwnMessages, Goto

LEMMA ChannelKept ==
  ASSUME Machine', Agreed', OwnMessages', pc' \in [Fibers -> Buffered!ChanLabels],
         message' \in [Fibers -> Buffered!Values \cup {Buffered!NONE}],
         calls' \in [Fibers -> 0 .. MaxCalls]
  PROVE  ChannelPart'
<1>1. state_' \in {"Nobody", "Senders", "Receivers"}
  BY DEF Agreed, Buffered!WaitersAgree
<1>2. Buffered!SyncTypeOK'
  BY DEF Machine, Typed, SyncTypeOK, CallbackSteps, Buffered!SyncTypeOK, Buffered!CallbackSteps
<1> QED BY <1>1, <1>2 DEF ChannelPart, Buffered!ChanTypeOK

LEMMA ChannelCommonStep ==
  ASSUME Machine, Machine', ChannelPart, NEW w \in Workers, NEW f \in Fibers,
         \/ Buffered!Lock(w, f) \/ Buffered!Return(w, f)
         \/ Buffered!Send(w, f) \/ Buffered!Receive(w, f)
  PROVE  ChannelPart'
<1>0. /\ pc \in [Fibers -> Buffered!ChanLabels] /\ calls \in [Fibers -> 0 .. MaxCalls]
      /\ message \in [Fibers -> Buffered!Values \cup {Buffered!NONE}] /\ OwnMessages /\ Agreed
  BY DEF ChannelPart, Buffered!ChanTypeOK
<1>1. ASSUME NEW to \in Buffered!ChanLabels, Goto(f, to), Runs(w, f),
             UNCHANGED <<fibers_, running, cb, state_>>,
             \A g \in Fibers \ {f} : message'[g] = message[g],
             to \in SendLabels => message'[f] \in Buffered!Values /\ message'[f][1] = f,
             message' \in [Fibers -> Buffered!Values \cup {Buffered!NONE}],
             calls' \in [Fibers -> 0 .. MaxCalls]
      PROVE  ChannelPart'
  <2>1. OwnMessages' /\ pc' \in [Fibers -> Buffered!ChanLabels]
    BY <1>1, MessagesKept
  <2>2. \A g \in Fibers \ {f} : pc'[g] = pc[g]
    BY <1>0, <1>1 DEF Goto
  <2>3. Agreed'
    BY <1>0, <1>1, <2>2, PassingAgrees
  <2> QED BY <1>1, <2>1, <2>3, ChannelKept
<1>2. CASE Buffered!Lock(w, f)
  <2>1. PICK from, to :
          /\ Buffered!UniqueLock(w, f, from, to)
          /\ <<from, to>> \in {<<"send", "send_locked">>, <<"receive", "receive_locked">>,
                               <<"send_woken", "send_return">>, <<"receive_woken", "receive_return">>}
    BY <1>2 DEF Buffered!Lock
  <2>2. Runs(w, f) /\ Goto(f, to) /\ pc[f] = from
    BY <2>1, BufferedIs DEF UniqueLock
  <2>3. UNCHANGED <<fibers_, running, cb, state_, message, calls>>
    BY <1>2 DEF Buffered!Lock, Buffered!scheduler
  <2>4. to \in Buffered!ChanLabels /\ (to \in SendLabels => from \in SendLabels)
    BY <2>1 DEF Buffered!ChanLabels, SendLabels
  <2>5. to \in SendLabels => message'[f] \in Buffered!Values /\ message'[f][1] = f
    BY <1>0, <2>2, <2>3, <2>4 DEF OwnMessages
  <2> QED BY <1>0, <1>1, <2>2, <2>3, <2>4, <2>5
<1>3. CASE Buffered!Return(w, f)
  <2>1. PICK from \in {"send_return", "receive_return"} : Buffered!UniqueUnlock(w, f, from, "idle")
    BY <1>3 DEF Buffered!Return
  <2>2. Runs(w, f) /\ Goto(f, "idle")
    BY <2>1, BufferedIs DEF UniqueUnlock
  <2>3. /\ UNCHANGED <<fibers_, running, cb, state_, calls>>
        /\ message' = [message EXCEPT ![f] = Buffered!NONE]
    BY <1>3 DEF Buffered!Return, Buffered!scheduler
  <2>4. "idle" \in Buffered!ChanLabels /\ "idle" \notin SendLabels
    BY DEF Buffered!ChanLabels, SendLabels
  <2>5. /\ message' \in [Fibers -> Buffered!Values \cup {Buffered!NONE}]
        /\ \A g \in Fibers \ {f} : message'[g] = message[g]
    BY <1>0, <2>3
  <2> QED BY <1>0, <1>1, <2>2, <2>3, <2>4, <2>5
<1>4. CASE Buffered!Send(w, f)
  <2>1. /\ Runs(w, f) /\ Goto(f, "send") /\ calls[f] < MaxCalls
        /\ calls' = [calls EXCEPT ![f] = @ + 1]
        /\ message' = [message EXCEPT ![f] = <<f, calls[f] + 1>>]
        /\ UNCHANGED <<fibers_, running, cb, state_>>
    BY <1>4, BufferedIs DEF Buffered!Send, Buffered!Call, Buffered!scheduler
  <2>2. calls' \in [Fibers -> 0 .. MaxCalls] /\ <<f, calls[f] + 1>> \in Buffered!Values
    BY <1>0, <2>1, CallsAssumption DEF Buffered!Values
  <2>3. /\ message' \in [Fibers -> Buffered!Values \cup {Buffered!NONE}]
        /\ \A g \in Fibers \ {f} : message'[g] = message[g]
        /\ message'[f] \in Buffered!Values /\ message'[f][1] = f
    BY <1>0, <2>1, <2>2
  <2>4. "send" \in Buffered!ChanLabels
    BY DEF Buffered!ChanLabels
  <2> QED BY <1>0, <1>1, <2>1, <2>2, <2>3, <2>4
<1>5. CASE Buffered!Receive(w, f)
  <2>1. /\ Runs(w, f) /\ Goto(f, "receive") /\ calls[f] < MaxCalls
        /\ calls' = [calls EXCEPT ![f] = @ + 1]
        /\ UNCHANGED <<fibers_, running, cb, state_, message>>
    BY <1>5, BufferedIs DEF Buffered!Receive, Buffered!Call, Buffered!scheduler
  <2>2. calls' \in [Fibers -> 0 .. MaxCalls]
    BY <1>0, <2>1, CallsAssumption
  <2>3. "receive" \in Buffered!ChanLabels /\ "receive" \notin SendLabels
    BY DEF Buffered!ChanLabels, SendLabels
  <2> QED BY <1>0, <1>1, <2>1, <2>2, <2>3
<1> QED BY <1>2, <1>3, <1>4, <1>5

LEMMA ChannelSchedStep ==
  ASSUME Machine, Machine', ChannelPart, NEW w \in Workers, Buffered!ChanSched(w)
  PROVE  ChannelPart'
<1>0. /\ pc \in [Fibers -> Buffered!ChanLabels] /\ calls \in [Fibers -> 0 .. MaxCalls]
      /\ message \in [Fibers -> Buffered!Values \cup {Buffered!NONE}] /\ OwnMessages /\ Agreed
  BY DEF ChannelPart, Buffered!ChanTypeOK
<1>1. UNCHANGED <<message, calls>>
  BY DEF Buffered!ChanSched, Buffered!Enqueue
<1>2. Agreed'
  <2>1. CASE Buffered!Enqueue(w)
    BY <1>0, <2>1, EnqueueAgrees
  <2>2. CASE ~ Buffered!Enqueue(w)
    BY <1>0, <2>2, RuntimeAgrees, BufferedIs DEF Buffered!ChanSched
  <2> QED BY <2>1, <2>2
<1>3. CASE pc' = pc
  BY <1>0, <1>1, <1>2, <1>3, ChannelKept DEF OwnMessages
<1>4. ASSUME NEW f \in Fibers, Finish(w, f)
      PROVE  ChannelPart'
  <2>1. Goto(f, "finished") /\ "finished" \in Buffered!ChanLabels /\ "finished" \notin SendLabels
    BY <1>4 DEF Finish, Buffered!ChanLabels, SendLabels
  <2>2. OwnMessages' /\ pc' \in [Fibers -> Buffered!ChanLabels]
    BY <1>1, <2>1, MessagesKept
  <2> QED BY <1>0, <1>1, <1>2, <2>2, ChannelKept
<1>5. pc' = pc \/ \E f \in Fibers : Finish(w, f)
  BY BufferedIs
  DEF Buffered!ChanSched, Buffered!Enqueue, ParkCallback, ParkUnlock, Resume
<1> QED BY <1>3, <1>4, <1>5

\* The value goes to the first fiber that waits for one.
LEMMA HandStep ==
  ASSUME Machine, Machine', ChannelPart, NEW w \in Workers, NEW f \in Fibers, Runs(w, f),
         pc[f] = "send_locked", state_ = "Receivers",
         message' = [message EXCEPT ![Head(fibers_)] = message[f]],
         Buffered!WakeWaiter, Goto(f, "send_return"), UNCHANGED <<running, cb, calls>>
  PROVE  ChannelPart'
<1>0. /\ pc \in [Fibers -> Buffered!ChanLabels] /\ calls \in [Fibers -> 0 .. MaxCalls]
      /\ message \in [Fibers -> Buffered!Values \cup {Buffered!NONE}] /\ OwnMessages /\ Agreed
  BY DEF ChannelPart, Buffered!ChanTypeOK
<1>1. fibers_ # << >> /\ fibers_ \in Seq(Fibers)
  BY <1>0, Waiters DEF Agreed, Machine, Typed, SyncTypeOK
<1>2. 1 \in DOMAIN fibers_ /\ Head(fibers_) = fibers_[1]
  BY <1>1, HeadTailProperties, EmptySeq, LenProperties
<1>3. Head(fibers_) \in Fibers \ {f} /\ pc[Head(fibers_)] = "receive_woken"
  BY <1>0, <1>1, <1>2, RunsAlone, Waiters DEF Agreed
<1>4. /\ message' \in [Fibers -> Buffered!Values \cup {Buffered!NONE}]
      /\ message'[f] = message[f]
      /\ \A g \in Fibers : pc[g] \in SendLabels => message'[g] = message[g]
  BY <1>0, <1>3 DEF SendLabels
<1>5. message'[f] \in Buffered!Values /\ message'[f][1] = f
  BY <1>0, <1>4 DEF OwnMessages, SendLabels
<1>6. OwnMessages' /\ pc' \in [Fibers -> Buffered!ChanLabels]
  <2>1. "send_return" \in Buffered!ChanLabels
    BY DEF Buffered!ChanLabels
  <2> QED BY <1>4, <1>5, <2>1, MessagesKept
<1>7. Agreed'
  <2>1. \A g \in Fibers \ {f} : pc'[g] = pc[g]
    BY <1>0 DEF Goto
  <2>2. pc[f] \in OwnerPcs
    BY DEF OwnerPcs
  <2> QED BY <1>0, <1>1, <2>1, <2>2, WakingAgrees
<1> QED BY <1>0, <1>4, <1>6, <1>7, ChannelKept

\* A value is received from the buffer, or from the first fiber that waits to send.
LEMMA TakeStep ==
  ASSUME Machine, Machine', ChannelPart, NEW w \in Workers, NEW f \in Fibers, Runs(w, f),
         pc[f] = "receive_locked",
         NEW v \in Buffered!Values \cup {Buffered!NONE}, message' = [message EXCEPT ![f] = v],
         IF state_ = "Senders" THEN Buffered!WakeWaiter ELSE UNCHANGED <<fibers_, ready, state_>>,
         Goto(f, "receive_return"), UNCHANGED <<running, cb, calls>>
  PROVE  ChannelPart'
<1>0. /\ pc \in [Fibers -> Buffered!ChanLabels] /\ calls \in [Fibers -> 0 .. MaxCalls]
      /\ message \in [Fibers -> Buffered!Values \cup {Buffered!NONE}] /\ OwnMessages /\ Agreed
  BY DEF ChannelPart, Buffered!ChanTypeOK
<1>1. /\ message' \in [Fibers -> Buffered!Values \cup {Buffered!NONE}]
      /\ \A g \in Fibers \ {f} : message'[g] = message[g]
  BY <1>0
<1>2. OwnMessages' /\ pc' \in [Fibers -> Buffered!ChanLabels]
  <2>1. "receive_return" \in Buffered!ChanLabels /\ "receive_return" \notin SendLabels
    BY DEF Buffered!ChanLabels, SendLabels
  <2> QED BY <1>1, <2>1, MessagesKept
<1>3. \A g \in Fibers \ {f} : pc'[g] = pc[g]
  BY <1>0 DEF Goto
<1>4. Agreed'
  <2>1. CASE state_ = "Senders"
    <3>1. fibers_ # << >>
      BY <1>0, <2>1, Waiters DEF Agreed
    <3>2. pc[f] \in OwnerPcs
      BY DEF OwnerPcs
    <3> QED BY <1>0, <1>3, <2>1, <3>1, <3>2, WakingAgrees
  <2>2. CASE state_ # "Senders"
    BY <1>0, <1>3, <2>2, PassingAgrees
  <2> QED BY <2>1, <2>2
<1> QED BY <1>0, <1>1, <1>2, <1>4, ChannelKept

\* The fiber will wait.
LEMMA ParkStep ==
  ASSUME Machine, Machine', ChannelPart, NEW w \in Workers, NEW f \in Fibers, Runs(w, f),
         UNCHANGED <<fibers_, state_, message, calls>>,
         \/ pc[f] = "send_locked" /\ state_ # "Receivers" /\ Suspend(w, f, "park", "send_woken")
         \/ pc[f] = "receive_locked" /\ state_ # "Senders" /\ Suspend(w, f, "park", "receive_woken")
  PROVE  ChannelPart'
<1>0. /\ pc \in [Fibers -> Buffered!ChanLabels] /\ calls \in [Fibers -> 0 .. MaxCalls]
      /\ message \in [Fibers -> Buffered!Values \cup {Buffered!NONE}] /\ OwnMessages /\ Agreed
  BY DEF ChannelPart, Buffered!ChanTypeOK
<1>1. Agreed'
  BY <1>0, ParkingAgrees
<1>2. PICK to \in {"send_woken", "receive_woken"} :
         Goto(f, to) /\ (to \in SendLabels => pc[f] \in SendLabels)
  BY DEF Suspend, SendLabels
<1>3. to \in Buffered!ChanLabels
  BY DEF Buffered!ChanLabels
<1>4. OwnMessages' /\ pc' \in [Fibers -> Buffered!ChanLabels]
  BY <1>0, <1>2, <1>3, MessagesKept DEF OwnMessages
<1> QED BY <1>0, <1>1, <1>4, ChannelKept

\* The value has a place in the buffer.
LEMMA EmplaceStep ==
  ASSUME Machine, Machine', ChannelPart, NEW w \in Workers, NEW f \in Fibers, Runs(w, f),
         pc[f] = "send_locked", Goto(f, "send_return"),
         UNCHANGED <<fibers_, running, cb, state_, message, calls>>
  PROVE  ChannelPart'
<1>0. /\ pc \in [Fibers -> Buffered!ChanLabels] /\ calls \in [Fibers -> 0 .. MaxCalls]
      /\ message \in [Fibers -> Buffered!Values \cup {Buffered!NONE}] /\ OwnMessages /\ Agreed
  BY DEF ChannelPart, Buffered!ChanTypeOK
<1>1. "send_return" \in Buffered!ChanLabels /\ pc[f] \in SendLabels
  BY DEF Buffered!ChanLabels, SendLabels
<1>2. OwnMessages' /\ pc' \in [Fibers -> Buffered!ChanLabels]
  BY <1>0, <1>1, MessagesKept DEF OwnMessages
<1>3. \A g \in Fibers \ {f} : pc'[g] = pc[g]
  BY <1>0 DEF Goto
<1>4. Agreed'
  BY <1>0, <1>3, PassingAgrees
<1> QED BY <1>0, <1>2, <1>4, ChannelKept

LEMMA ChannelStutters ==
  ASSUME Machine', ChannelPart, UNCHANGED <<syncVars, state_, message, calls>>
  PROVE  ChannelPart'
<1>1. Agreed'
  BY DEF ChannelPart, Agreed, ParkAgrees, Buffered!WaitersAgree, syncVars
<1> QED BY <1>1, ChannelKept DEF ChannelPart, OwnMessages, Buffered!ChanTypeOK, syncVars

LEMMA RendezvousStep ==
  ASSUME Machine, Machine', ChannelPart, Rendezvous!Next
  PROVE  ChannelPart'
<1>0. message \in [Fibers -> Buffered!Values \cup {Buffered!NONE}]
  BY DEF ChannelPart, Buffered!ChanTypeOK
<1>1. ASSUME NEW w \in Workers, NEW f \in Fibers, Rendezvous!SendMeets(w, f) PROVE ChannelPart'
  BY <1>1, RendezvousIs, ChannelsShare, HandStep DEF Rendezvous!SendMeets
<1>2. ASSUME NEW w \in Workers, NEW f \in Fibers, Rendezvous!ReceiveMeets(w, f) PROVE ChannelPart'
  <2>1. /\ Runs(w, f) /\ pc[f] = "receive_locked" /\ state_ = "Senders"
        /\ message' = [message EXCEPT ![f] = message[Head(fibers_)]]
        /\ Buffered!WakeWaiter /\ Goto(f, "receive_return")
        /\ UNCHANGED <<running, cb, calls>>
    BY <1>2, RendezvousIs, ChannelsShare DEF Rendezvous!ReceiveMeets
  <2>2. Head(fibers_) \in Fibers
    <3>1. fibers_ # << >> /\ fibers_ \in Seq(Fibers)
      BY <2>1, Waiters DEF ChannelPart, Agreed, Machine, Typed, SyncTypeOK
    <3> QED BY <3>1, HeadTailProperties
  <2>3. message[Head(fibers_)] \in Buffered!Values \cup {Buffered!NONE}
    BY <1>0, <2>2
  <2> QED BY <2>1, <2>3, TakeStep
<1>3. ASSUME NEW w \in Workers, NEW f \in Fibers,
             Rendezvous!SendParks(w, f) \/ Rendezvous!ReceiveParks(w, f)
      PROVE  ChannelPart'
  BY <1>3, RendezvousIs, ParkStep DEF Rendezvous!SendParks, Rendezvous!ReceiveParks
<1>4. Rendezvous!ChanStops /\ UNCHANGED Rendezvous!vars => ChannelPart'
  BY ChannelStutters DEF Rendezvous!vars, Rendezvous!chanVars, Rendezvous!syncVars, syncVars
<1> QED BY <1>1, <1>2, <1>3, <1>4, ChannelsShare, ChannelCommonStep, ChannelSchedStep
        DEF Rendezvous!Next, Rendezvous!Step, Rendezvous!Inside

LEMMA ChannelStart == Buffered!Init => ChannelPart
<1> SUFFICES ASSUME Buffered!Init PROVE ChannelPart
  OBVIOUS
<1>1. /\ SyncInit /\ state_ = "Nobody" /\ message = [f \in Fibers |-> Buffered!NONE]
      /\ calls = [f \in Fibers |-> 0]
  BY BufferedIs DEF Buffered!Init, Buffered!ChanInit
<1>2. /\ fibers_ = << >> /\ \A f \in Fibers : pc[f] = "idle"
      /\ \A w \in Workers : cb[w] = "none"
      /\ pc \in [Fibers -> Buffered!ChanLabels]
  BY <1>1 DEF SyncInit, Buffered!ChanLabels
<1>3. Buffered!ChanTypeOK
  <2>1. Buffered!SyncTypeOK
    BY <1>1, MachineStart, BufferedIs DEF Machine, Typed
  <2>2. calls \in [Fibers -> 0 .. MaxCalls]
    BY <1>1, CallsAssumption
  <2> QED BY <1>1, <1>2, <2>1, <2>2 DEF Buffered!ChanTypeOK
<1> QED BY <1>1, <1>2, <1>3
    DEF ChannelPart, Agreed, Buffered!WaitersAgree, ParkAgrees, OwnMessages, SendLabels

-----------------------------------------------------------------------------
(* The circular buffer: the slot after slot i, the number of slots from h to t, *)
(* and the slot of the k-th value from h on.                                    *)

After(i) == IF i < Capacity THEN i + 1 ELSE 0
Filled(h, t) == IF t < h THEN t + (Capacity + 1) - h ELSE t - h
Place(h, k) == IF h + k <= Capacity + 1 THEN h + k - 1 ELSE h + k - Capacity - 2

LEMMA AroundIs ==
  ASSUME NEW i \in 0 .. Capacity
  PROVE  /\ (i + 1) % Buffered!capacity_ = After(i)
         /\ After(i) \in 0 .. Capacity
         /\ \A k \in 1 .. Capacity + 1 :
              (i + k - 1) % Buffered!capacity_ = Place(i, k) /\ Place(i, k) \in 0 .. Capacity
<1> DEFINE c == Capacity + 1
<1>1. Buffered!capacity_ = c /\ c \in Nat \ {0} /\ Capacity \in Nat
  BY BoundsAssumption DEF Buffered!capacity_
<1>2. ASSUME NEW x \in 0 .. (c + c - 1) PROVE x % c = IF x < c THEN x ELSE x - c
  <2> HIDE DEF c
  <2> QED BY <1>1, Around
<1>3. (i + 1) % c = After(i) /\ After(i) \in 0 .. Capacity
  <2> DEFINE x == i + 1
  <2>1. x \in 0 .. (c + c - 1)
    BY <1>1
  <2>2. x % c = IF x < c THEN x ELSE x - c
    <3> HIDE DEF x, c
    <3> QED BY <1>2, <2>1
  <2> QED BY <1>1, <2>2 DEF After
<1>4. ASSUME NEW k \in 1 .. Capacity + 1
      PROVE  (i + k - 1) % c = Place(i, k) /\ Place(i, k) \in 0 .. Capacity
  <2> DEFINE x == i + k - 1
  <2>1. x \in 0 .. (c + c - 1)
    BY <1>1
  <2>2. x % c = IF x < c THEN x ELSE x - c
    <3> HIDE DEF x, c
    <3> QED BY <1>2, <2>1
  <2>3. (IF x < c THEN x ELSE x - c) = Place(i, k) /\ Place(i, k) \in 0 .. Capacity
    BY <1>1 DEF Place
  <2> QED BY <2>2, <2>3
<1> QED BY <1>1, <1>3, <1>4

LEMMA FilledIs ==
  ASSUME NEW h \in 0 .. Capacity, NEW t \in 0 .. Capacity
  PROVE  /\ Filled(h, t) \in 0 .. Capacity
         /\ Filled(h, t) # Capacity => Filled(h, After(t)) = Filled(h, t) + 1
         /\ Filled(h, t) # 0 => Filled(After(h), t) = Filled(h, t) - 1
         /\ Filled(h, t) # 0 => Filled(After(h), After(t)) = Filled(h, t)
         /\ Place(h, Filled(h, t) + 1) = t
BY BoundsAssumption DEF Filled, After, Place

LEMMA PlacesDiffer ==
  ASSUME NEW h \in 0 .. Capacity
  PROVE  /\ Place(h, 1) = h
         /\ \A i, j \in 1 .. Capacity + 1 : Place(h, i) = Place(h, j) => i = j
         /\ \A k \in 1 .. Capacity : Place(After(h), k) = Place(h, k + 1)
BY BoundsAssumption DEF After, Place

LEMMA SizeIs == Buffered!Size = Filled(head_, tail_)
BY BoundsAssumption DEF Buffered!Size, Filled, Buffered!capacity_


\* What a fiber that waits in a buffered channel waits for, already when it is about to be
\* put into waiters_.
BufferAgrees ==
  /\ state_ = "Senders" => Buffered!IsFull
  /\ state_ = "Receivers" => Buffered!IsEmpty
  /\ \A w \in Workers : cb[w] = "park" =>
       /\ pc[running[w]] = "send_woken" => Buffered!IsFull
       /\ pc[running[w]] = "receive_woken" => Buffered!IsEmpty

BufferTyped ==
  /\ data_ \in [0 .. Capacity -> Buffered!Values \cup {Buffered!NONE}]
  /\ head_ \in 0 .. Capacity
  /\ tail_ \in 0 .. Capacity

BufferedPart == ChannelPart /\ BufferTyped /\ BufferAgrees

LEMMA SizeNext == Buffered!Size' = Filled(head_', tail_')
BY BoundsAssumption DEF Buffered!Size, Filled, Buffered!capacity_

\* The first waiter of those that wait to send, or to receive.
LEMMA SenderFirst ==
  ASSUME Machine, Buffered!WaitersAgree
  PROVE  /\ state_ = "Senders" => Head(fibers_) \in Fibers /\ pc[Head(fibers_)] = "send_woken"
         /\ state_ = "Receivers" => Head(fibers_) \in Fibers /\ pc[Head(fibers_)] = "receive_woken"
<1>1. fibers_ \in Seq(Fibers)
  BY DEF Machine, Typed, SyncTypeOK
<1>2. fibers_ # << >> => Head(fibers_) \in Fibers /\ 1 \in DOMAIN fibers_ /\ Head(fibers_) = fibers_[1]
  BY <1>1, HeadTailProperties, EmptySeq, LenProperties
<1> QED BY <1>2, Waiters

LEMMA SizeAgain ==
  ASSUME head_' = head_, tail_' = tail_
  PROVE  (Buffered!IsFull' <=> Buffered!IsFull) /\ (Buffered!IsEmpty' <=> Buffered!IsEmpty)
BY DEF Buffered!IsFull, Buffered!IsEmpty, Buffered!Size

LEMMA ParkKept ==
  ASSUME BufferAgrees, Buffered!IsFull' <=> Buffered!IsFull, Buffered!IsEmpty' <=> Buffered!IsEmpty,
         state_' \in {state_, "Nobody"},
         \A u \in Workers : cb'[u] = "park" =>
           cb[u] = "park" /\ running'[u] = running[u] /\ pc'[running[u]] = pc[running[u]]
  PROVE  BufferAgrees'
BY DEF BufferAgrees

LEMMA NobodyWaits ==
  ASSUME state_' = "Nobody", \A u \in Workers : cb'[u] # "park"
  PROVE  BufferAgrees'
BY DEF BufferAgrees

\* A step of the code of a fiber that stays on its thread.
LEMMA StayKeepsPark ==
  ASSUME Machine, NEW w \in Workers, NEW f \in Fibers, Runs(w, f), NEW to, Goto(f, to),
         UNCHANGED <<running, cb>>
  PROVE  \A u \in Workers : cb'[u] = "park" =>
           cb[u] = "park" /\ running'[u] = running[u] /\ pc'[running[u]] = pc[running[u]]
<1>1. \A u \in Workers : cb[u] = "park" => running[u] \in Fibers \ {f}
  BY RunsAlone, CallbackOf DEF Runs
<1>2. \A g \in Fibers \ {f} : pc'[g] = pc[g]
  BY DEF Goto, Machine, Typed
<1> QED BY <1>1, <1>2

LEMMA SchedFits ==
  ASSUME Machine, Machine', ChannelPart, BufferAgrees, NEW w \in Workers,
         Buffered!ChanSched(w), UNCHANGED <<head_, tail_>>
  PROVE  BufferAgrees'
<1>1. /\ pc \in [Fibers -> Buffered!ChanLabels] /\ cb \in [Workers -> CallbackSteps]
      /\ running \in [Workers -> Fibers \cup {NULL}]
  BY DEF ChannelPart, Buffered!ChanTypeOK, Machine, Typed, SyncTypeOK
<1>2. CASE Buffered!Enqueue(w)
  <2>1. /\ cb[w] = "park" /\ running' = running /\ pc' = pc
        /\ cb' = [cb EXCEPT ![w] = "disown"]
        /\ state_' = IF pc[running[w]] = "send_woken" THEN "Senders" ELSE "Receivers"
    BY <1>2, BufferedIs DEF Buffered!Enqueue, ParkCallback
  <2>2. running[w] \in Fibers /\ pc[running[w]] \in {"send_woken", "receive_woken"}
    BY <1>1, <2>1, CallbackOf DEF ParkSteps, ParkedLabels, Buffered!ChanLabels
  <2>3. \A u \in Workers : cb'[u] = "park" => cb[u] = "park"
    BY <1>1, <2>1
  <2> QED BY <2>1, <2>2, <2>3, SizeAgain DEF BufferAgrees
<1>3. ASSUME state_' = state_,
             \A u \in Workers : cb'[u] = "park" =>
               cb[u] = "park" /\ running'[u] = running[u] /\ pc'[running[u]] = pc[running[u]]
      PROVE  BufferAgrees'
  BY <1>3, SizeAgain, ParkKept
<1>4. CASE ParkUnlock(w)
  <2>1. state_' = state_
    BY <1>4, BufferedIs DEF Buffered!ChanSched, Buffered!Enqueue, ParkUnlock, ParkCallback
  <2> QED BY <1>1, <1>3, <1>4, <2>1 DEF ParkUnlock, CallbackReturns
<1>5. ASSUME NEW f \in Fibers, Resume(w, f), state_' = state_ PROVE BufferAgrees'
  <2>1. cb[w] # "park"
    BY <1>5 DEF Resume, Machine, Typed, SyncTypeOK
  <2> QED BY <1>1, <1>3, <1>5, <2>1 DEF Resume
<1>6. ASSUME NEW f \in Fibers, Finish(w, f), state_' = state_ PROVE BufferAgrees'
  <2>1. /\ Runs(w, f) /\ Goto(f, "finished") /\ cb' = cb /\ cb[w] = "none"
        /\ running' = [running EXCEPT ![w] = NULL]
    BY <1>6 DEF Finish, Runs
  <2>2. \A u \in Workers : cb[u] = "park" => running[u] \in Fibers \ {f} /\ u # w
    BY <2>1, RunsAlone, CallbackOf DEF Runs
  <2>3. \A g \in Fibers \ {f} : pc'[g] = pc[g]
    BY <1>1, <2>1 DEF Goto
  <2> QED BY <1>1, <1>3, <1>6, <2>1, <2>2, <2>3
<1> QED BY <1>2, <1>4, <1>5, <1>6, BufferedIs DEF Buffered!ChanSched

\* Nobody else is at the buffer while the code of f owns spin_.
LEMMA OwnerFits ==
  ASSUME Machine, NEW w \in Workers, NEW f \in Fibers, Runs(w, f), pc[f] \in OwnerPcs, cb' = cb,
         state_' = "Nobody"
  PROVE  BufferAgrees'
BY OwnerAlone, NobodyWaits DEF ParkSteps

LEMMA StayFits ==
  ASSUME Machine, BufferAgrees, NEW w \in Workers, NEW f \in Fibers, Runs(w, f), NEW to, Goto(f, to),
         UNCHANGED <<running, cb>>, state_' \in {state_, "Nobody"},
         Buffered!IsFull' <=> Buffered!IsFull, Buffered!IsEmpty' <=> Buffered!IsEmpty
  PROVE  BufferAgrees'
BY StayKeepsPark, ParkKept

LEMMA CommonFits ==
  ASSUME Machine, BufferAgrees, NEW w \in Workers, NEW f \in Fibers,
         \/ Buffered!Lock(w, f) \/ Buffered!Return(w, f)
         \/ Buffered!Send(w, f) \/ Buffered!Receive(w, f),
         UNCHANGED <<head_, tail_>>
  PROVE  BufferAgrees'
<1>1. Runs(w, f) /\ \E to : Goto(f, to)
  BY BufferedIs DEF Buffered!Lock, Buffered!Return, Buffered!Send, Buffered!Receive, Buffered!Call,
    UniqueLock, UniqueUnlock
<1>2. UNCHANGED <<running, cb, state_>>
  BY DEF Buffered!Lock, Buffered!Return, Buffered!Send, Buffered!Receive, Buffered!Call,
    Buffered!scheduler
<1> QED BY <1>1, <1>2, SizeAgain, StayFits

LEMMA ParksFit ==
  ASSUME Machine, BufferAgrees, NEW w \in Workers, NEW f \in Fibers, Runs(w, f),
         \/ Buffered!IsFull /\ Suspend(w, f, "park", "send_woken")
         \/ Buffered!IsEmpty /\ Suspend(w, f, "park", "receive_woken"),
         UNCHANGED <<head_, tail_, state_>>
  PROVE  BufferAgrees'
<1>1. PICK to \in {"send_woken", "receive_woken"} :
         /\ Goto(f, to) /\ cb' = [cb EXCEPT ![w] = "park"] /\ running' = running
         /\ to = "send_woken" => Buffered!IsFull
         /\ to = "receive_woken" => Buffered!IsEmpty
  BY DEF Suspend
<1>2. pc'[f] = to /\ \A g \in Fibers \ {f} : pc'[g] = pc[g]
  BY <1>1 DEF Goto, Machine, Typed
<1>3. running[w] = f /\ \A u \in Workers \ {w} : cb'[u] = cb[u]
  BY <1>1 DEF Runs, Machine, Typed, SyncTypeOK
<1>4. \A u \in Workers \ {w} : cb[u] = "park" => running[u] \in Fibers \ {f}
  BY RunsAlone, CallbackOf DEF Runs
<1>5. \A u \in Workers : cb'[u] = "park" =>
        /\ pc'[running'[u]] = "send_woken" => Buffered!IsFull
        /\ pc'[running'[u]] = "receive_woken" => Buffered!IsEmpty
  <2>1. ASSUME NEW u \in Workers \ {w}, cb'[u] = "park"
        PROVE  cb[u] = "park" /\ pc'[running'[u]] = pc[running[u]]
    BY <1>1, <1>2, <1>3, <1>4, <2>1
  <2>2. pc'[running'[w]] = to
    BY <1>1, <1>2, <1>3
  <2> QED BY <1>1, <2>1, <2>2 DEF BufferAgrees
<1> QED BY <1>5, SizeAgain DEF BufferAgrees

LEMMA EmplaceFits ==
  ASSUME Machine, BufferTyped, BufferAgrees, NEW w \in Workers, NEW f \in Fibers,
         message[f] \in Buffered!Values, Agreed, Buffered!SendEmplaces(w, f)
  PROVE  BufferTyped' /\ BufferAgrees'
<1>1. /\ Runs(w, f) /\ pc[f] \in OwnerPcs /\ state_' = state_ /\ cb' = cb
      /\ state_ # "Receivers" /\ ~ Buffered!IsFull /\ head_' = head_
      /\ data_' = [data_ EXCEPT ![tail_] = message[f]]
      /\ tail_' = After(tail_)
  BY AroundIs, BufferedIs DEF Buffered!SendEmplaces, Buffered!scheduler, OwnerPcs, BufferTyped
<1>2. BufferTyped'
  BY <1>1, AroundIs DEF BufferTyped
<1>3. state_ = "Nobody"
  BY <1>1, Waiters DEF Agreed, BufferAgrees
<1> QED BY <1>1, <1>2, <1>3, OwnerFits

LEMMA PopFits ==
  ASSUME Machine, BufferTyped, BufferAgrees, Agreed, OwnMessages,
         NEW w \in Workers, NEW f \in Fibers, Buffered!ReceivePops(w, f)
  PROVE  BufferTyped' /\ BufferAgrees'
<1>1. /\ Runs(w, f) /\ pc[f] \in OwnerPcs /\ UNCHANGED <<running, cb>>
      /\ Goto(f, "receive_return")
      /\ ~ Buffered!IsEmpty /\ head_' = After(head_)
  BY AroundIs, BufferedIs DEF Buffered!ReceivePops, OwnerPcs, BufferTyped
<1>2. CASE state_ = "Senders"
  <2>1. /\ data_' = [data_ EXCEPT ![head_] = Buffered!NONE, ![tail_] = message[Head(fibers_)]]
        /\ tail_' = After(tail_)
        /\ state_' \in {state_, "Nobody"}
    BY <1>2, AroundIs DEF Buffered!ReceivePops, Buffered!WakeWaiter, BufferTyped
  <2>2. Head(fibers_) \in Fibers /\ pc[Head(fibers_)] = "send_woken"
    BY <1>2, SenderFirst DEF Agreed
  <2>3. message[Head(fibers_)] \in Buffered!Values
    BY <2>2 DEF OwnMessages, SendLabels
  <2>4. BufferTyped'
    BY <1>1, <2>1, <2>3, AroundIs DEF BufferTyped
  <2>5. Filled(head_', tail_') = Filled(head_, tail_)
    BY <1>1, <2>1, FilledIs, SizeIs DEF BufferTyped, Buffered!IsEmpty
  <2>6. (Buffered!IsFull' <=> Buffered!IsFull) /\ (Buffered!IsEmpty' <=> Buffered!IsEmpty)
    <3>1. Buffered!Size' = Filled(head_', tail_')
      BY SizeNext
    <3> QED BY <2>5, <3>1, SizeIs DEF Buffered!IsFull, Buffered!IsEmpty
  <2> QED BY <1>1, <2>1, <2>4, <2>6, StayFits
<1>3. CASE state_ # "Senders"
  <2>1. data_' = [data_ EXCEPT ![head_] = Buffered!NONE] /\ tail_' = tail_ /\ state_' = state_
    BY <1>3 DEF Buffered!ReceivePops
  <2>2. state_' = "Nobody"
    BY <1>1, <1>3, <2>1, Waiters DEF Agreed, BufferAgrees
  <2>3. BufferTyped'
    BY <1>1, <2>1, AroundIs DEF BufferTyped
  <2> QED BY <1>1, <2>2, <2>3, OwnerFits
<1> QED BY <1>2, <1>3

LEMMA BufferedStutters ==
  ASSUME Machine', BufferedPart, UNCHANGED <<syncVars, state_, message, calls, data_, head_, tail_>>
  PROVE  BufferedPart'
<1>1. ChannelPart'
  BY ChannelStutters DEF BufferedPart
<1>2. BufferAgrees'
  BY SizeAgain, ParkKept DEF BufferedPart, syncVars
<1> QED BY <1>1, <1>2 DEF BufferedPart, BufferTyped

LEMMA BufferedStep ==
  ASSUME Machine, Machine', BufferedPart, Buffered!Next
  PROVE  BufferedPart'
<1>0. /\ pc \in [Fibers -> Buffered!ChanLabels]
      /\ message \in [Fibers -> Buffered!Values \cup {Buffered!NONE}]
      /\ ChannelPart /\ BufferTyped /\ BufferAgrees /\ OwnMessages /\ Agreed
  BY DEF BufferedPart, ChannelPart, Buffered!ChanTypeOK
<1>1. ASSUME UNCHANGED Buffered!buffer PROVE BufferTyped' /\ UNCHANGED <<head_, tail_>>
  BY <1>0, <1>1 DEF Buffered!buffer, BufferTyped
<1>2. ASSUME NEW w \in Workers, NEW f \in Fibers, UNCHANGED Buffered!buffer,
             \/ Buffered!Lock(w, f) \/ Buffered!Return(w, f)
             \/ Buffered!Send(w, f) \/ Buffered!Receive(w, f)
      PROVE  BufferedPart'
  <2>1. ChannelPart'
    BY <1>0, <1>2, ChannelCommonStep
  <2>2. BufferAgrees'
    BY <1>0, <1>1, <1>2, CommonFits
  <2> QED BY <1>1, <1>2, <2>1, <2>2 DEF BufferedPart
<1>3. ASSUME NEW w \in Workers, Buffered!ChanSched(w), UNCHANGED Buffered!buffer
      PROVE  BufferedPart'
  <2>1. ChannelPart'
    BY <1>0, <1>3, ChannelSchedStep
  <2>2. BufferAgrees'
    BY <1>0, <1>1, <1>3, SchedFits
  <2> QED BY <1>1, <1>3, <2>1, <2>2 DEF BufferedPart
<1>4. ASSUME NEW w \in Workers, NEW f \in Fibers, Buffered!SendToReceiver(w, f)
      PROVE  BufferedPart'
  <2>1. /\ Runs(w, f) /\ pc[f] = "send_locked" /\ state_ = "Receivers"
        /\ message' = [message EXCEPT ![Head(fibers_)] = message[f]]
        /\ Buffered!WakeWaiter /\ Goto(f, "send_return")
        /\ UNCHANGED <<running, cb, calls>> /\ UNCHANGED Buffered!buffer
    BY <1>4, BufferedIs DEF Buffered!SendToReceiver
  <2>2. ChannelPart'
    BY <1>0, <2>1, HandStep
  <2>3. state_' \in {state_, "Nobody"}
    BY <2>1 DEF Buffered!WakeWaiter
  <2>4. BufferAgrees'
    BY <1>0, <1>1, <2>1, <2>3, SizeAgain, StayFits
  <2> QED BY <1>1, <2>1, <2>2, <2>4 DEF BufferedPart
<1>5. ASSUME NEW w \in Workers, NEW f \in Fibers,
             Buffered!SendParks(w, f) \/ Buffered!ReceiveParks(w, f)
      PROVE  BufferedPart'
  <2>1. /\ Runs(w, f) /\ UNCHANGED <<fibers_, state_, message, calls>>
        /\ UNCHANGED Buffered!buffer
        /\ \/ /\ pc[f] = "send_locked" /\ state_ # "Receivers" /\ Buffered!IsFull
              /\ Suspend(w, f, "park", "send_woken")
           \/ /\ pc[f] = "receive_locked" /\ Buffered!IsEmpty
              /\ Suspend(w, f, "park", "receive_woken")
    BY <1>5, BufferedIs DEF Buffered!SendParks, Buffered!ReceiveParks
  <2>2. Buffered!IsEmpty => ~ Buffered!IsFull
    BY BoundsAssumption DEF Buffered!IsEmpty, Buffered!IsFull
  <2>3. Buffered!IsEmpty => state_ # "Senders"
    BY <1>0, <2>2 DEF BufferAgrees
  <2>4. ChannelPart'
    BY <1>0, <2>1, <2>3, ParkStep
  <2>5. BufferAgrees'
    BY <1>0, <1>1, <2>1, ParksFit
  <2> QED BY <1>1, <2>1, <2>4, <2>5 DEF BufferedPart
<1>6. ASSUME NEW w \in Workers, NEW f \in Fibers, Buffered!SendEmplaces(w, f)
      PROVE  BufferedPart'
  <2>1. /\ Runs(w, f) /\ pc[f] = "send_locked" /\ Goto(f, "send_return")
        /\ UNCHANGED <<fibers_, running, cb, state_, message, calls>>
    BY <1>6, BufferedIs DEF Buffered!SendEmplaces, Buffered!scheduler
  <2>2. ChannelPart'
    BY <1>0, <2>1, EmplaceStep
  <2>3. message[f] \in Buffered!Values
    BY <1>0, <2>1 DEF OwnMessages, SendLabels
  <2>4. BufferTyped' /\ BufferAgrees'
    BY <1>0, <1>6, <2>3, EmplaceFits
  <2> QED BY <2>2, <2>4 DEF BufferedPart
<1>7. ASSUME NEW w \in Workers, NEW f \in Fibers, Buffered!ReceivePops(w, f)
      PROVE  BufferedPart'
  <2>1. /\ Runs(w, f) /\ pc[f] = "receive_locked" /\ Goto(f, "receive_return")
        /\ UNCHANGED <<running, cb, calls>>
        /\ message' = [message EXCEPT ![f] = data_[head_]]
        /\ IF state_ = "Senders" THEN Buffered!WakeWaiter ELSE UNCHANGED <<fibers_, ready, state_>>
    BY <1>7, BufferedIs DEF Buffered!ReceivePops
  <2>2. data_[head_] \in Buffered!Values \cup {Buffered!NONE}
    BY <1>0 DEF BufferTyped
  <2>3. ChannelPart'
    BY <1>0, <2>1, <2>2, TakeStep
  <2>4. BufferTyped' /\ BufferAgrees'
    BY <1>0, <1>7, PopFits
  <2> QED BY <2>3, <2>4 DEF BufferedPart
<1>8. UNCHANGED Buffered!vars => BufferedPart'
  <2> SUFFICES ASSUME UNCHANGED Buffered!vars PROVE BufferedPart'
    OBVIOUS
  <2>1. UNCHANGED <<syncVars, state_, message, calls, data_, head_, tail_>>
    BY DEF Buffered!vars, Buffered!chanVars, Buffered!buffer, Buffered!syncVars, syncVars
  <2> QED BY <2>1, BufferedStutters
<1> QED BY <1>2, <1>3, <1>4, <1>5, <1>6, <1>7, <1>8
        DEF Buffered!Next, Buffered!Step, Buffered!Inside

LEMMA BufferedStart == Buffered!Init => BufferedPart
<1> SUFFICES ASSUME Buffered!Init PROVE BufferedPart
  OBVIOUS
<1>1. /\ SyncInit /\ state_ = "Nobody" /\ data_ = [slot \in 0 .. Capacity |-> Buffered!NONE]
      /\ head_ = 0 /\ tail_ = 0
  BY BufferedIs DEF Buffered!Init, Buffered!ChanInit
<1>2. BufferTyped
  BY <1>1, BoundsAssumption DEF BufferTyped
<1>3. BufferAgrees
  BY <1>1 DEF BufferAgrees, SyncInit
<1> QED BY <1>2, <1>3, ChannelStart DEF BufferedPart

\* What a run checks of the buffered channel.
LEMMA BufferedFacts ==
  ASSUME BufferedPart
  PROVE  Buffered!TypeOK /\ Buffered!WaitersJustified
BY DEF BufferedPart, BufferTyped, BufferAgrees, ChannelPart, Agreed, Buffered!TypeOK,
  Buffered!WaitersJustified


-----------------------------------------------------------------------------
(* The primitive in use, whichever it is.                                  *)

\* The inductive invariant of PrimitivesSpec.
InUse ==
  /\ primitive \in Primitives
  /\ Machine
  /\ primitive = "mutex" => MutexPart
  /\ primitive = "wait group" => GroupPart
  /\ primitive = "buffered" => BufferedPart
  /\ primitive = "rendezvous" => ChannelPart
  /\ primitive # "mutex" => ~ is_locked_
  /\ ~ IsChannel => state_ = "Nobody"

LEMMA InUseStart == PrimitivesInit => InUse
<1> SUFFICES ASSUME PrimitivesInit PROVE InUse
  OBVIOUS
<1>1. /\ primitive \in Primitives /\ Init /\ WG!Init /\ Buffered!Init
  BY DEF PrimitivesInit
<1>2. SyncInit /\ ~ is_locked_
  BY <1>1 DEF Init
<1>3. Machine
  BY <1>2, MachineStart
<1>4. MutexPart /\ GroupPart /\ BufferedPart /\ ChannelPart
  BY <1>1, MutexStart, GroupStart, BufferedStart DEF BufferedPart
<1>5. state_ = "Nobody"
  BY <1>1 DEF Buffered!Init, Buffered!ChanInit
<1> QED BY <1>1, <1>2, <1>3, <1>4, <1>5 DEF InUse

\* Whatever the primitive, a step is one of the machinery, or leaves it alone.
LEMMA InUseMoves ==
  ASSUME InUse, PrimitivesNext
  PROVE  MachineStep \/ UNCHANGED syncVars
<1>1. Machine
  BY DEF InUse
<1>2. CASE OfMutex(Next)
  BY <1>1, <1>2, MutexMoves DEF OfMutex
<1>3. CASE OfGroup(WG!Next)
  BY <1>1, <1>3, GroupMoves DEF OfGroup
<1>4. CASE OfBuffered(Buffered!Next)
  <2>1. Buffered!WaitersAgree
    BY <1>4 DEF OfBuffered, InUse, BufferedPart, ChannelPart, Agreed
  <2> QED BY <1>1, <1>4, <2>1, BufferedMoves DEF OfBuffered
<1>5. CASE OfRendezvous(Rendezvous!Next)
  <2>1. Buffered!WaitersAgree
    BY <1>5 DEF OfRendezvous, InUse, ChannelPart, Agreed
  <2> QED BY <1>1, <1>5, <2>1, RendezvousMoves DEF OfRendezvous
<1> QED BY <1>2, <1>3, <1>4, <1>5 DEF PrimitivesNext

LEMMA InUseStep ==
  ASSUME InUse, PrimitivesNext
  PROVE  InUse'
<1>1. Machine /\ Machine' /\ primitive' = primitive
  BY InUseMoves, MachineKeeps, MachineStutters DEF InUse, PrimitivesNext
<1>2. CASE OfMutex(Next)
  <2>1. primitive = "mutex" /\ Next /\ state_' = state_
    BY <1>2 DEF OfMutex, channelVars
  <2>2. MutexPart /\ state_ = "Nobody"
    BY <2>1 DEF InUse, IsChannel
  <2>3. MutexPart'
    BY <1>1, <2>1, <2>2, MutexStep
  <2> QED BY <1>1, <2>1, <2>2, <2>3 DEF InUse, Primitives
<1>3. CASE OfGroup(WG!Next)
  <2>1. primitive = "wait group" /\ WG!Next /\ state_' = state_ /\ is_locked_' = is_locked_
    BY <1>3 DEF OfGroup, channelVars
  <2>2. GroupPart /\ state_ = "Nobody" /\ ~ is_locked_
    BY <2>1 DEF InUse, IsChannel
  <2>3. GroupPart'
    BY <1>1, <2>1, <2>2, GroupStep
  <2> QED BY <1>1, <2>1, <2>2, <2>3 DEF InUse, Primitives
<1>4. CASE OfBuffered(Buffered!Next)
  <2>1. primitive = "buffered" /\ Buffered!Next /\ is_locked_' = is_locked_
    BY <1>4 DEF OfBuffered
  <2>2. BufferedPart /\ ~ is_locked_
    BY <2>1 DEF InUse
  <2>3. BufferedPart'
    BY <1>1, <2>1, <2>2, BufferedStep
  <2> QED BY <1>1, <2>1, <2>2, <2>3 DEF InUse, Primitives, IsChannel
<1>5. CASE OfRendezvous(Rendezvous!Next)
  <2>1. primitive = "rendezvous" /\ Rendezvous!Next /\ is_locked_' = is_locked_
    BY <1>5 DEF OfRendezvous
  <2>2. ChannelPart /\ ~ is_locked_
    BY <2>1 DEF InUse
  <2>3. ChannelPart'
    BY <1>1, <2>1, <2>2, RendezvousStep
  <2> QED BY <1>1, <2>1, <2>2, <2>3 DEF InUse, Primitives, IsChannel
<1> QED BY <1>2, <1>3, <1>4, <1>5 DEF PrimitivesNext

LEMMA MutexStutters ==
  ASSUME MutexPart, UNCHANGED vars
  PROVE  MutexPart'
BY DEF MutexPart, TypeOK, SyncTypeOK, ReadIsFresh, MutualExclusion, Holders, ParksWhileLocked,
  NoLostWakeup, vars, syncVars

LEMMA GroupStutters ==
  ASSUME GroupPart, UNCHANGED <<syncVars, groupVars>>
  PROVE  GroupPart'
<1>1. WG!TypeOK'
  BY DEF GroupPart, WG!TypeOK, WG!SyncTypeOK, groupVars, syncVars
<1>2. CountInv'
  BY DEF GroupPart, CountInv, groupVars, syncVars
<1>3. ZeroSeen' /\ DoneToCome'
  BY DEF GroupPart, ZeroSeen, DoneToCome, Asleep, groupVars, syncVars
<1> QED BY <1>1, <1>2, <1>3 DEF GroupPart

LEMMA InUseStutters ==
  ASSUME InUse, UNCHANGED allVars
  PROVE  InUse'
<1>1. /\ UNCHANGED <<primitive, is_locked_, calls, syncVars, groupVars, state_, message, slotVars>>
      /\ UNCHANGED vars
  BY DEF allVars, vars, channelVars
<1>2. Machine /\ Machine' /\ primitive' = primitive
  BY <1>1, MachineStutters DEF InUse
<1>3. CASE primitive = "mutex"
  <2>1. MutexPart'
    BY <1>1, <1>2, <1>3, MutexStutters DEF InUse
  <2> QED BY <1>1, <1>2, <1>3, <2>1 DEF InUse, IsChannel
<1>4. CASE primitive = "wait group"
  <2>1. GroupPart'
    BY <1>1, <1>2, <1>4, GroupStutters DEF InUse
  <2> QED BY <1>1, <1>2, <1>4, <2>1 DEF InUse, IsChannel
<1>5. CASE primitive = "buffered"
  <2>1. BufferedPart'
    BY <1>1, <1>2, <1>5, BufferedStutters DEF InUse, slotVars
  <2> QED BY <1>1, <1>2, <1>5, <2>1 DEF InUse, IsChannel
<1>6. CASE primitive = "rendezvous"
  <2>1. ChannelPart'
    BY <1>1, <1>2, <1>6, ChannelStutters DEF InUse
  <2> QED BY <1>1, <1>2, <1>6, <2>1 DEF InUse, IsChannel
<1> QED BY <1>3, <1>4, <1>5, <1>6 DEF InUse, Primitives

\* The machinery, and what each primitive keeps, in every reachable state.
THEOREM PrimitivesSafety == PrimitivesSpec => []InUse
<1>1. InUse /\ [PrimitivesNext]_allVars => InUse'
  BY InUseStep, InUseStutters
<1> QED BY <1>1, InUseStart, PTL DEF PrimitivesSpec

\* The invariant that the run checks: no fiber is resumed twice or in two places, spin_
\* has one owner, which executes, and the state of the primitive in use is what its code
\* expects it to be.
THEOREM PrimitivesInvariant == PrimitivesSpec => []PrimitiveInv
<1>1. InUse => PrimitiveInv
  <2> SUFFICES ASSUME InUse PROVE PrimitiveInv
    OBVIOUS
  <2>1. OnePlace /\ SpinLockOwned /\ Machine
    BY DEF InUse, Machine
  <2>2. primitive = "mutex" => MutexInv
    <3>1. MutexPart => pc \in [Fibers -> Labels]
      BY DEF MutexPart, TypeOK
    <3> QED BY <2>1, <3>1, SyncInvHolds DEF InUse, MutexPart, MutexInv
  <2>3. primitive = "wait group" => WG!TypeOK
    BY DEF InUse, GroupPart
  <2>4. primitive = "buffered" => Buffered!TypeOK
    BY BufferedFacts DEF InUse
  <2>5. primitive = "rendezvous" => Rendezvous!ChanTypeOK
    <3>1. ChannelPart => Buffered!ChanTypeOK
      BY DEF ChannelPart
    <3> QED BY <3>1, ChannelsShare DEF InUse
  <2> QED BY <2>1, <2>2, <2>3, <2>4, <2>5 DEF PrimitiveInv
<1> QED BY <1>1, PrimitivesSafety, PTL

\* At most one fiber holds the mutex, from the exchange in Lock or TryLock to the
\* store in Unlock, and is_locked_ is true exactly then.
THEOREM MutexExcludes == PrimitivesSpec => []MutualExclusion
<1>1. InUse => MutualExclusion
  <2> SUFFICES ASSUME InUse PROVE MutualExclusion
    OBVIOUS
  <2>1. CASE primitive = "mutex"
    BY <2>1 DEF InUse, MutexPart
  <2>2. CASE primitive # "mutex"
    <3>1. /\ ~ is_locked_
          /\ pc \in [Fibers -> WG!Labels] \/ pc \in [Fibers -> Buffered!ChanLabels]
      BY <2>2 DEF InUse, Primitives, GroupPart, WG!TypeOK, BufferedPart, ChannelPart,
        Buffered!ChanTypeOK
    <3>2. HolderPcs \cap (WG!Labels \cup Buffered!ChanLabels) = {}
      BY DEF HolderPcs, WG!Labels, Buffered!ChanLabels
    <3>3. Holders = {}
      BY <3>1, <3>2 DEF Holders
    <3> QED BY <3>1, <3>3 DEF MutualExclusion
  <2> QED BY <2>1, <2>2
<1> QED BY <1>1, PrimitivesSafety, PTL

\* No fiber waits in vain: for the mutex only while it is locked or a woken fiber is on its
\* way to it, in Wait only while a Done is to come, in a channel only while it is full, or
\* empty, or for the same as all who wait; and Wait returns only after the counter was 0.
THEOREM WaitersHaveReasons == PrimitivesSpec => []WaitersJustified
<1>1. InUse => WaitersJustified
  <2> SUFFICES ASSUME InUse PROVE WaitersJustified
    OBVIOUS
  <2>1. primitive = "mutex" => NoLostWakeup
    BY DEF InUse, MutexPart
  <2>2. primitive = "wait group" => WG!WaitersExpectDone /\ WG!ReturnsAfterZero
    BY DEF InUse, GroupPart, DoneToCome, ZeroSeen, WG!WaitersExpectDone, WG!ReturnsAfterZero
  <2>3. primitive = "buffered" => Buffered!WaitersJustified
    BY BufferedFacts DEF InUse
  <2>4. primitive = "rendezvous" => Rendezvous!WaitersAgree
    <3>1. ChannelPart => Buffered!WaitersAgree
      BY DEF ChannelPart, Agreed
    <3> QED BY <3>1, ChannelsShare DEF InUse
  <2> QED BY <2>1, <2>2, <2>3, <2>4 DEF WaitersJustified
<1> QED BY <1>1, PrimitivesSafety, PTL

\* When Wait has returned and the counter is still 0, no call of Add or Done is inside the
\* wait group, or to come: the waiter may destroy it.
THEOREM WaitGroupMayGo == PrimitivesSpec => DoneIsOver
<1> DEFINE Over == \A f \in Fibers : pc[f] = "wait_return" /\ pc'[f] = "idle" /\ count_ = 0 =>
                     \A g \in Fibers \ {f} : pc'[g] \notin WG!Touching
<1>1. InUse /\ [PrimitivesNext]_allVars => [Over]_WG!vars
  <2> SUFFICES ASSUME InUse, PrimitivesNext \/ UNCHANGED allVars,
                      NEW f \in Fibers, pc[f] = "wait_return", pc'[f] = "idle", count_ = 0,
                      NEW g \in Fibers \ {f}
               PROVE  pc'[g] \notin WG!Touching
    OBVIOUS
  <2>1. PrimitivesNext
    BY DEF allVars, vars, syncVars
  <2>2. MachineStep \/ UNCHANGED syncVars
    BY <2>1, InUseMoves
  <2>3. GroupPart
    <3>1. "wait_return" \notin Labels \cup Buffered!ChanLabels
      BY DEF Labels, Buffered!ChanLabels
    <3> QED BY <3>1 DEF InUse, Primitives, MutexPart, TypeOK, BufferedPart, ChannelPart,
        Buffered!ChanTypeOK
  <2> QED BY <2>2, <2>3, OverIsOver DEF InUse
<1>2. [][Over]_WG!vars <=> DoneIsOver
  BY DEF DoneIsOver, WG!DoneIsOver
<1> QED BY <1>1, <1>2, PrimitivesSafety, PTL DEF PrimitivesSpec

\* The fibers that use a primitive keep to the scheduler's contract: one that waits goes on
\* only after it has been scheduled, on one thread, and is not scheduled while it runs.
THEOREM PrimitivesSchedule == PrimitivesSpec => SchedulerSpec
<1>1. PrimitivesInit => Scheduler!Init
  <2> SUFFICES ASSUME PrimitivesInit PROVE Scheduler!Init
    OBVIOUS
  <2>1. \A f \in Fibers : Status(f) = "ready"
    BY FiberAssumption DEF PrimitivesInit, Init, SyncInit, Status, Runs
  <2> QED BY <2>1 DEF Scheduler!Init
<1> DEFINE statuses == [f \in Fibers |-> Status(f)]
<1>2. InUse /\ [PrimitivesNext]_allVars => [Scheduler!Next]_statuses
  <2>1. ASSUME InUse, MachineStep PROVE Scheduler!Next
    <3>1. Machine /\ Machine'
      BY <2>1, MachineKeeps DEF InUse
    <3> QED BY <2>1, <3>1, SchedulerStep
  <2>2. ASSUME UNCHANGED syncVars PROVE UNCHANGED statuses
    BY <2>2 DEF syncVars, Status, Runs
  <2>3. UNCHANGED allVars => UNCHANGED syncVars
    BY DEF allVars, vars
  <2> QED BY <2>1, <2>2, <2>3, InUseMoves
<1> QED BY <1>1, <1>2, PrimitivesSafety, PTL DEF PrimitivesSpec, SchedulerSpec, Scheduler!Spec


-----------------------------------------------------------------------------
(* Sequences: what a value put at the end, or taken at the front, does to two *)
(* sequences that are read one after the other.                              *)

LEMMA AppendToSecond ==
  ASSUME NEW S, NEW s \in Seq(S), NEW t \in Seq(S), NEW x \in S
  PROVE  s \o Append(t, x) = Append(s \o t, x)
<1>1. <<x>> \in Seq(S)
  OBVIOUS
<1>2. Append(t, x) = t \o <<x>> /\ Append(s \o t, x) = (s \o t) \o <<x>>
  BY AppendIsConcat, ConcatProperties
<1> QED BY <1>1, <1>2, ConcatAssociative

LEMMA FirstOfTwo ==
  ASSUME NEW S, NEW s \in Seq(S), NEW t \in Seq(S), s # << >>
  PROVE  s \o t # << >> /\ Head(s \o t) = Head(s) /\ Tail(s \o t) = Tail(s) \o t
<1> DEFINE c == s \o t
<1>1. Len(s) \in Nat \ {0} /\ Len(t) \in Nat
  BY EmptySeq, LenProperties
<1>2. /\ c \in Seq(S) /\ Len(c) = Len(s) + Len(t)
      /\ \A i \in 1 .. Len(s) + Len(t) : c[i] = IF i <= Len(s) THEN s[i] ELSE t[i - Len(s)]
  BY ConcatProperties
<1>3. /\ Tail(s) \in Seq(S) /\ Len(Tail(s)) = Len(s) - 1 /\ Head(s) = s[1]
      /\ \A i \in 1 .. Len(s) - 1 : Tail(s)[i] = s[i + 1]
  BY <1>1, HeadTailProperties
<1>4. c # << >>
  BY <1>1, <1>2, EmptySeq
<1>5. /\ Tail(c) \in Seq(S) /\ Len(Tail(c)) = Len(c) - 1 /\ Head(c) = c[1]
      /\ \A i \in 1 .. Len(c) - 1 : Tail(c)[i] = c[i + 1]
  <2> HIDE DEF c
  <2> QED BY <1>2, <1>4, HeadTailProperties
<1>6. /\ Tail(s) \o t \in Seq(S) /\ Len(Tail(s) \o t) = Len(s) - 1 + Len(t)
      /\ \A i \in 1 .. Len(s) - 1 + Len(t) :
           (Tail(s) \o t)[i] = IF i <= Len(s) - 1 THEN Tail(s)[i] ELSE t[i - (Len(s) - 1)]
  BY <1>3, ConcatProperties
<1> HIDE DEF c
<1>7. \A i \in 1 .. Len(Tail(c)) : Tail(c)[i] = (Tail(s) \o t)[i]
  BY <1>1, <1>2, <1>3, <1>5, <1>6
<1>8. Len(Tail(c)) = Len(Tail(s) \o t)
  BY <1>1, <1>2, <1>5, <1>6
<1>9. Tail(c) = Tail(s) \o t
  BY <1>5, <1>6, <1>7, <1>8, SeqEqual
<1> QED BY <1>1, <1>2, <1>3, <1>4, <1>5, <1>9 DEF c

\* The first of the second sequence moves up to the end of the first.
LEMMA MovesUp ==
  ASSUME NEW S, NEW s \in Seq(S), NEW t \in Seq(S), t # << >>
  PROVE  Append(s, Head(t)) \o Tail(t) = s \o t
<1>1. /\ Head(t) \in S /\ Tail(t) \in Seq(S) /\ <<Head(t)>> \in Seq(S)
  BY HeadTailProperties
<1>2. <<Head(t)>> \o Tail(t) = t
  <2>1. Len(t) \in Nat \ {0} /\ Len(Tail(t)) = Len(t) - 1 /\ Head(t) = t[1]
        /\ \A i \in 1 .. Len(t) - 1 : Tail(t)[i] = t[i + 1]
    BY EmptySeq, HeadTailProperties
  <2>2. /\ <<Head(t)>> \o Tail(t) \in Seq(S) /\ Len(<<Head(t)>> \o Tail(t)) = 1 + Len(Tail(t))
        /\ \A i \in 1 .. 1 + Len(Tail(t)) :
             (<<Head(t)>> \o Tail(t))[i] = IF i <= 1 THEN Head(t) ELSE Tail(t)[i - 1]
    BY <1>1, ConcatProperties
  <2> QED BY <2>1, <2>2, SeqEqual
<1>3. Append(s, Head(t)) = s \o <<Head(t)>>
  BY <1>1, AppendIsConcat
<1> QED BY <1>1, <1>2, <1>3, ConcatAssociative

AnyValue == Buffered!Values \cup {Buffered!NONE}

\* The sequence of what m says of the elements of s.
Told(s, m) == [k \in DOMAIN s |-> m[s[k]]]

ToldOK(s, m) ==
  /\ Told(s, m) \in Seq(AnyValue) /\ Len(Told(s, m)) = Len(s)
  /\ Told(s, m) = << >> <=> s = << >>

LEMMA Mapped ==
  ASSUME NEW s \in Seq(Fibers), NEW m, \A k \in DOMAIN s : m[s[k]] \in AnyValue
  PROVE  ToldOK(s, m)
<1>1. DOMAIN s = 1 .. Len(s) /\ Len(s) \in Nat
  BY LenProperties
<1>2. /\ Told(s, m) \in Seq(AnyValue)
      /\ Len(Told(s, m)) = Len(s)
  BY <1>1 DEF Told
<1> QED BY <1>2, EmptySeq DEF ToldOK

LEMMA MappedAppend ==
  ASSUME NEW s \in Seq(Fibers), NEW m, NEW f \in Fibers,
         \A k \in DOMAIN s : m[s[k]] \in AnyValue, m[f] \in AnyValue
  PROVE  Told(Append(s, f), m) = Append(Told(s, m), m[f])
<1> DEFINE a == Append(s, f)
           q == Told(s, m)
           p == Told(a, m)
<1>1. /\ a \in Seq(Fibers) /\ Len(a) = Len(s) + 1 /\ a[Len(s) + 1] = f
      /\ \A k \in 1 .. Len(s) : a[k] = s[k]
      /\ Len(s) \in Nat /\ DOMAIN s = 1 .. Len(s) /\ DOMAIN a = 1 .. Len(s) + 1
  BY AppendProperties, LenProperties
<1>2. \A k \in DOMAIN a : m[a[k]] \in AnyValue
  BY <1>1
<1>3. p \in Seq(AnyValue) /\ Len(p) = Len(s) + 1
  <2> HIDE DEF a
  <2>1. ToldOK(a, m)
    BY <1>1, <1>2, Mapped
  <2> QED BY <1>1, <2>1 DEF ToldOK
<1>4. q \in Seq(AnyValue) /\ Len(q) = Len(s)
  BY Mapped DEF ToldOK
<1>5. /\ Append(q, m[f]) \in Seq(AnyValue) /\ Len(Append(q, m[f])) = Len(s) + 1
      /\ Append(q, m[f])[Len(s) + 1] = m[f]
      /\ \A k \in 1 .. Len(s) : Append(q, m[f])[k] = q[k]
  <2> HIDE DEF q
  <2> QED BY <1>4, AppendProperties
<1>6. \A k \in 1 .. Len(s) + 1 : p[k] = Append(q, m[f])[k]
  <2>1. p[Len(s) + 1] = m[f]
    BY <1>1 DEF Told
  <2>2. \A k \in 1 .. Len(s) : p[k] = q[k]
    BY <1>1 DEF Told
  <2> HIDE DEF p, q
  <2> QED BY <1>1, <1>5, <2>1, <2>2
<1> HIDE DEF a, q, p
<1>7. p = Append(q, m[f])
  BY <1>3, <1>5, <1>6, SeqEqual
<1> QED BY <1>7 DEF a, q, p

LEMMA MappedTail ==
  ASSUME NEW s \in Seq(Fibers), NEW m, s # << >>, \A k \in DOMAIN s : m[s[k]] \in AnyValue
  PROVE  /\ Told(Tail(s), m) = Tail(Told(s, m))
         /\ Head(Told(s, m)) = m[Head(s)]
<1> DEFINE a == Tail(s)
           q == Told(s, m)
           p == Told(a, m)
<1>1. /\ a \in Seq(Fibers) /\ Len(a) = Len(s) - 1 /\ Head(s) = s[1]
      /\ \A k \in 1 .. Len(s) - 1 : a[k] = s[k + 1]
      /\ Len(s) \in Nat \ {0} /\ DOMAIN s = 1 .. Len(s) /\ DOMAIN a = 1 .. Len(s) - 1
  BY HeadTailProperties, LenProperties, EmptySeq
<1>2. \A k \in DOMAIN a : m[a[k]] \in AnyValue
  BY <1>1
<1>3. p \in Seq(AnyValue) /\ Len(p) = Len(s) - 1
  <2> HIDE DEF a
  <2>1. ToldOK(a, m)
    BY <1>1, <1>2, Mapped
  <2> QED BY <1>1, <2>1 DEF ToldOK
<1>4. q \in Seq(AnyValue) /\ Len(q) = Len(s) /\ q # << >>
  BY <1>1, Mapped, EmptySeq DEF ToldOK
<1>5. /\ Tail(q) \in Seq(AnyValue) /\ Len(Tail(q)) = Len(s) - 1 /\ Head(q) = q[1]
      /\ \A k \in 1 .. Len(s) - 1 : Tail(q)[k] = q[k + 1]
  <2> HIDE DEF q
  <2> QED BY <1>4, HeadTailProperties
<1>6. \A k \in 1 .. Len(s) - 1 : p[k] = Tail(q)[k]
  <2>1. \A k \in 1 .. Len(s) - 1 : p[k] = q[k + 1]
    BY <1>1 DEF Told
  <2> HIDE DEF p, q
  <2> QED BY <1>5, <2>1
<1>7. q[1] = m[s[1]]
  BY <1>1 DEF Told
<1> HIDE DEF a, q, p
<1>8. p = Tail(q)
  BY <1>3, <1>5, <1>6, SeqEqual
<1> QED BY <1>1, <1>5, <1>7, <1>8 DEF a, q, p


LEMMA PlaceIs ==
  ASSUME NEW h \in 0 .. Capacity
  PROVE  /\ After(h) \in 0 .. Capacity
         /\ \A k \in 1 .. Capacity + 1 : Place(h, k) \in 0 .. Capacity
BY BoundsAssumption DEF After, Place

Slots == [0 .. Capacity -> AnyValue]

\* The n values in slots of d from h on.
Laid(d, h, n) == [k \in 1 .. n |-> d[Place(h, k)]]

\* e differs from d in slot i at most.
SameBut(e, d, i) == \A j \in 0 .. Capacity : j # i => e[j] = d[j]

LaidOK(d, h, n) ==
  /\ Laid(d, h, n) \in Seq(AnyValue) /\ Len(Laid(d, h, n)) = n
  /\ \A k \in 1 .. n : Laid(d, h, n)[k] = d[Place(h, k)]

LEMMA LaidIs ==
  ASSUME NEW d \in Slots, NEW h \in 0 .. Capacity, NEW n \in 0 .. Capacity + 1
  PROVE  LaidOK(d, h, n)
<1>1. n \in Nat /\ \A k \in 1 .. n : d[Place(h, k)] \in AnyValue
  <2>1. n \in Nat /\ 1 .. n \subseteq 1 .. Capacity + 1
    BY BoundsAssumption
  <2>2. \A k \in 1 .. Capacity + 1 : Place(h, k) \in 0 .. Capacity
    BY PlaceIs
  <2> QED BY <2>1, <2>2 DEF Slots
<1>2. Laid(d, h, n) \in Seq(AnyValue) /\ Len(Laid(d, h, n)) = n
  BY <1>1 DEF Laid
<1>3. \A k \in 1 .. n : Laid(d, h, n)[k] = d[Place(h, k)]
  BY DEF Laid
<1> QED BY <1>2, <1>3 DEF LaidOK

PutOK(e, d, h, n, v) == Laid(e, h, n + 1) = Append(Laid(d, h, n), v)
TakeOK(e, d, h, n) ==
  Laid(e, After(h), n - 1) = Tail(Laid(d, h, n)) /\ Head(Laid(d, h, n)) = d[h]

\* A value is put into the slot after the last.
LEMMA LaidPut ==
  ASSUME NEW d \in Slots, NEW e \in Slots, NEW h \in 0 .. Capacity, NEW n \in 0 .. Capacity,
         NEW v \in AnyValue, e[Place(h, n + 1)] = v, SameBut(e, d, Place(h, n + 1))
  PROVE  PutOK(e, d, h, n, v)
<1> DEFINE t == Place(h, n + 1)
           p == Laid(e, h, n + 1)
           q == Laid(d, h, n)
<1>0. n \in Nat /\ n + 1 \in 1 .. Capacity + 1 /\ n + 1 \in 0 .. Capacity + 1 /\ n \in 0 .. Capacity + 1
      /\ Capacity \in Nat
  BY BoundsAssumption
<1>1. t \in 0 .. Capacity
  BY <1>0, PlaceIs
<1>2. e[t] = v
  OBVIOUS
<1>3. \A k \in 1 .. n : e[Place(h, k)] = d[Place(h, k)]
  <2> SUFFICES ASSUME NEW k \in 1 .. n PROVE e[Place(h, k)] = d[Place(h, k)]
    OBVIOUS
  <2>1. k \in 1 .. Capacity + 1 /\ k # n + 1
    BY <1>0
  <2>2. Place(h, k) # t /\ Place(h, k) \in 0 .. Capacity
    BY <1>0, <2>1, PlacesDiffer, PlaceIs
  <2> QED BY <2>2 DEF SameBut
<1> HIDE DEF t
<1>4. /\ p \in Seq(AnyValue) /\ Len(p) = n + 1
      /\ \A k \in 1 .. n + 1 : p[k] = e[Place(h, k)]
  <2>1. LaidOK(e, h, n + 1)
    BY <1>0, LaidIs
  <2> QED BY <2>1 DEF LaidOK
<1>5. /\ q \in Seq(AnyValue) /\ Len(q) = n
      /\ \A k \in 1 .. n : q[k] = d[Place(h, k)]
  <2>1. LaidOK(d, h, n)
    BY <1>0, LaidIs
  <2> QED BY <2>1 DEF LaidOK
<1> HIDE DEF p, q
<1>6. /\ Append(q, v) \in Seq(AnyValue) /\ Len(Append(q, v)) = n + 1
      /\ Append(q, v)[n + 1] = v
      /\ \A k \in 1 .. n : Append(q, v)[k] = q[k]
  BY <1>5, AppendProperties
<1>7. \A k \in 1 .. n + 1 : p[k] = Append(q, v)[k]
  <2>1. p[n + 1] = v
    BY <1>0, <1>2, <1>4 DEF t
  <2> QED BY <1>0, <1>3, <1>4, <1>5, <1>6, <2>1
<1>8. p = Append(q, v)
  BY <1>4, <1>6, <1>7, SeqEqual
<1> QED BY <1>8 DEF p, q, t, PutOK

\* The first value is taken; what becomes of its slot does not matter.
LEMMA LaidTake ==
  ASSUME NEW d \in Slots, NEW e \in Slots, NEW h \in 0 .. Capacity, NEW n \in 1 .. Capacity,
         SameBut(e, d, h)
  PROVE  TakeOK(e, d, h, n)
<1> DEFINE p == Laid(e, After(h), n - 1)
           q == Laid(d, h, n)
<1>0. /\ n \in Nat \ {0} /\ n - 1 \in 0 .. Capacity + 1 /\ n \in 0 .. Capacity + 1
      /\ After(h) \in 0 .. Capacity /\ Place(h, 1) = h /\ Capacity \in Nat
  <2>1. /\ n \in Nat \ {0} /\ n - 1 \in 0 .. Capacity + 1 /\ n \in 0 .. Capacity + 1
        /\ Capacity \in Nat
    BY BoundsAssumption
  <2> QED BY <2>1, PlaceIs, PlacesDiffer
<1>2. \A k \in 1 .. n - 1 : e[Place(After(h), k)] = d[Place(h, k + 1)]
  <2> SUFFICES ASSUME NEW k \in 1 .. n - 1 PROVE e[Place(After(h), k)] = d[Place(h, k + 1)]
    OBVIOUS
  <2>1. k \in 1 .. Capacity /\ k + 1 \in 1 .. Capacity + 1 /\ 1 \in 1 .. Capacity + 1 /\ k + 1 # 1
    BY <1>0
  <2>2. Place(After(h), k) = Place(h, k + 1) /\ Place(h, k + 1) \in 0 .. Capacity
    BY <2>1, PlacesDiffer, PlaceIs
  <2>3. Place(h, k + 1) # h
    BY <1>0, <2>1, PlacesDiffer
  <2> QED BY <2>2, <2>3 DEF SameBut
<1>3. /\ p \in Seq(AnyValue) /\ Len(p) = n - 1
      /\ \A k \in 1 .. n - 1 : p[k] = e[Place(After(h), k)]
  <2>1. LaidOK(e, After(h), n - 1)
    BY <1>0, LaidIs
  <2> QED BY <2>1 DEF LaidOK
<1>4. /\ q \in Seq(AnyValue) /\ Len(q) = n
      /\ \A k \in 1 .. n : q[k] = d[Place(h, k)]
  <2>1. LaidOK(d, h, n)
    BY <1>0, LaidIs
  <2> QED BY <2>1 DEF LaidOK
<1> HIDE DEF p, q
<1>5. /\ Tail(q) \in Seq(AnyValue) /\ Len(Tail(q)) = n - 1 /\ Head(q) = q[1]
      /\ \A k \in 1 .. n - 1 : Tail(q)[k] = q[k + 1]
  BY <1>0, <1>4, EmptySeq, HeadTailProperties
<1>6. \A k \in 1 .. n - 1 : p[k] = Tail(q)[k]
  <2> SUFFICES ASSUME NEW k \in 1 .. n - 1 PROVE p[k] = Tail(q)[k]
    OBVIOUS
  <2>1. k + 1 \in 1 .. n
    BY <1>0
  <2>2. p[k] = e[Place(After(h), k)] /\ Tail(q)[k] = q[k + 1] /\ q[k + 1] = d[Place(h, k + 1)]
    BY <1>3, <1>4, <1>5, <2>1
  <2> QED BY <1>2, <2>2
<1>7. p = Tail(q)
  BY <1>3, <1>5, <1>6, SeqEqual
<1>8. Head(q) = d[h]
  BY <1>0, <1>4, <1>5
<1> QED BY <1>7, <1>8 DEF p, q, TakeOK

\* The buffer's values are laid out from head_ on.
ContentsOK == BufferTyped => Buffered!Contents = Laid(data_, head_, Filled(head_, tail_))

LEMMA ContentsIs == ContentsOK
<1> SUFFICES ASSUME BufferTyped
             PROVE  Buffered!Contents = Laid(data_, head_, Filled(head_, tail_))
  BY DEF ContentsOK
<1>1. Filled(head_, tail_) \in 0 .. Capacity
  BY FilledIs DEF BufferTyped
<1>2. \A k \in 1 .. Filled(head_, tail_) :
        (head_ + k - 1) % Buffered!capacity_ = Place(head_, k)
  BY <1>1, AroundIs, BoundsAssumption DEF BufferTyped
<1> QED BY <1>2, SizeIs DEF Buffered!Contents, Laid

LEMMA ContentsNext == ContentsOK'
BY ContentsIs, PTL

LEMMA ContentsTyped ==
  ASSUME BufferTyped
  PROVE  /\ Buffered!Contents \in Seq(AnyValue)
         /\ Len(Buffered!Contents) = Buffered!Size /\ Buffered!Size \in 0 .. Capacity
         /\ Buffered!IsEmpty <=> Buffered!Contents = << >>
<1>0. Filled(head_, tail_) \in 0 .. Capacity
  BY FilledIs DEF BufferTyped
<1>1. Filled(head_, tail_) \in 0 .. Capacity + 1
  BY <1>0, BoundsAssumption
<1>2. data_ \in Slots /\ head_ \in 0 .. Capacity
  BY DEF BufferTyped, AnyValue, Slots
<1>3. LaidOK(data_, head_, Filled(head_, tail_))
  BY <1>1, <1>2, LaidIs
<1> QED BY <1>0, <1>3, EmptySeq, ContentsIs, SizeIs DEF ContentsOK, LaidOK, Buffered!IsEmpty

LEMMA ContentsPut ==
  ASSUME BufferTyped, BufferTyped', ~ Buffered!IsFull, NEW v \in AnyValue,
         data_' = [data_ EXCEPT ![tail_] = v], tail_' = After(tail_), head_' = head_
  PROVE  Buffered!Contents' = Append(Buffered!Contents, v)
<1> DEFINE n == Filled(head_, tail_)
<1>1. n \in 0 .. Capacity /\ Filled(head_, After(tail_)) = n + 1 /\ Place(head_, n + 1) = tail_
  BY FilledIs, SizeIs DEF BufferTyped, Buffered!IsFull
<1>2. data_ \in Slots /\ head_ \in 0 .. Capacity
  BY DEF BufferTyped, AnyValue, Slots
<1> HIDE DEF n
<1>3. Laid(data_', head_, n + 1) = Append(Laid(data_, head_, n), v)
  <2>1. n \in 0 .. Capacity /\ tail_ \in 0 .. Capacity
    BY <1>1 DEF BufferTyped
  <2>2. data_' \in Slots /\ data_'[Place(head_, n + 1)] = v
        /\ SameBut(data_', data_, Place(head_, n + 1))
    BY <1>1, <1>2, <2>1 DEF SameBut, Slots
  <2>3. PutOK(data_', data_, head_, n, v)
    BY <1>2, <2>1, <2>2, LaidPut
  <2> QED BY <2>3 DEF PutOK
<1> QED BY <1>1, <1>3, ContentsIs, ContentsNext DEF ContentsOK, n

LEMMA ContentsTake ==
  ASSUME BufferTyped, BufferTyped', ~ Buffered!IsEmpty,
         data_' = [data_ EXCEPT ![head_] = Buffered!NONE], tail_' = tail_, head_' = After(head_)
  PROVE  Buffered!Contents' = Tail(Buffered!Contents) /\ Head(Buffered!Contents) = data_[head_]
<1> DEFINE n == Filled(head_, tail_)
<1>1. n \in 1 .. Capacity /\ Filled(After(head_), tail_) = n - 1
  <2>1. n \in 0 .. Capacity /\ n # 0 /\ Filled(After(head_), tail_) = n - 1
    BY FilledIs, SizeIs DEF BufferTyped, Buffered!IsEmpty
  <2> QED BY <2>1, BoundsAssumption
<1>2. data_ \in Slots /\ head_ \in 0 .. Capacity /\ Buffered!NONE \in AnyValue
  BY DEF BufferTyped, AnyValue, Slots
<1> HIDE DEF n
<1>3. /\ Laid(data_', After(head_), n - 1) = Tail(Laid(data_, head_, n))
      /\ Head(Laid(data_, head_, n)) = data_[head_]
  <2>1. n \in 1 .. Capacity
    BY <1>1
  <2>2. data_' \in Slots
        /\ SameBut(data_', data_, head_)
    BY <1>2 DEF SameBut, Slots
  <2>3. TakeOK(data_', data_, head_, n)
    BY <1>2, <2>1, <2>2, LaidTake
  <2> QED BY <2>3 DEF TakeOK
<1> QED BY <1>1, <1>3, ContentsIs, ContentsNext DEF ContentsOK, n

LEMMA ContentsShift ==
  ASSUME BufferTyped, BufferTyped', ~ Buffered!IsEmpty, NEW v \in AnyValue,
         data_' = [data_ EXCEPT ![head_] = Buffered!NONE, ![tail_] = v],
         tail_' = After(tail_), head_' = After(head_)
  PROVE  /\ Buffered!Contents' = Append(Tail(Buffered!Contents), v)
         /\ Head(Buffered!Contents) = data_[head_]
<1> DEFINE n == Filled(head_, tail_)
           d == [data_ EXCEPT ![head_] = Buffered!NONE]
<1>1. /\ n \in 1 .. Capacity /\ n - 1 \in 0 .. Capacity
      /\ Filled(After(head_), After(tail_)) = n
      /\ Filled(After(head_), tail_) = n - 1 /\ n - 1 + 1 = n
      /\ Place(After(head_), n) = tail_
  <2>0. n \in 0 .. Capacity /\ n # 0 /\ Filled(After(head_), After(tail_)) = n
        /\ Filled(After(head_), tail_) = n - 1
    BY FilledIs, SizeIs DEF BufferTyped, Buffered!IsEmpty
  <2>1. n \in 1 .. Capacity /\ n - 1 \in 0 .. Capacity /\ n - 1 + 1 = n
    BY <2>0, BoundsAssumption
  <2>2. After(head_) \in 0 .. Capacity /\ tail_ \in 0 .. Capacity
    BY PlaceIs DEF BufferTyped
  <2>3. Place(After(head_), Filled(After(head_), tail_) + 1) = tail_
    BY <2>2, FilledIs
  <2> QED BY <2>0, <2>1, <2>3
<1>2. /\ data_ \in Slots /\ head_ \in 0 .. Capacity /\ Buffered!NONE \in AnyValue
      /\ After(head_) \in 0 .. Capacity /\ d \in Slots
  BY PlaceIs DEF BufferTyped, AnyValue, Slots
<1>3. /\ data_' \in Slots /\ data_'[tail_] = v
      /\ SameBut(data_', d, tail_) /\ SameBut(d, data_, head_)
  BY <1>2 DEF BufferTyped, SameBut, Slots
<1> HIDE DEF n
<1>4. /\ Laid(d, After(head_), n - 1) = Tail(Laid(data_, head_, n))
      /\ Head(Laid(data_, head_, n)) = data_[head_]
  <2>1. n \in 1 .. Capacity
    BY <1>1
  <2> HIDE DEF d
  <2>2. TakeOK(d, data_, head_, n)
    BY <1>2, <1>3, <2>1, LaidTake
  <2> QED BY <2>2 DEF TakeOK
<1> HIDE DEF d
<1>5. Laid(data_', After(head_), n) = Append(Laid(d, After(head_), n - 1), v)
  <2> DEFINE h == After(head_)
             m == n - 1
  <2>1. m \in 0 .. Capacity /\ m + 1 = n /\ h \in 0 .. Capacity /\ Place(h, m + 1) = tail_
    BY <1>1, <1>2
  <2> HIDE DEF h, m
  <2>2. Laid(data_', h, m + 1) = Append(Laid(d, h, m), v)
    <3>1. data_'[Place(h, m + 1)] = v /\ SameBut(data_', d, Place(h, m + 1))
      BY <1>3, <2>1
    <3>2. PutOK(data_', d, h, m, v)
      BY <1>2, <1>3, <2>1, <3>1, LaidPut
    <3> QED BY <3>2 DEF PutOK
  <2>3. Laid(data_', h, n) = Append(Laid(d, h, m), v)
    BY <2>1, <2>2
  <2> QED BY <2>3 DEF h, m
<1> QED BY <1>1, <1>3, <1>4, <1>5, ContentsIs, ContentsNext DEF ContentsOK, n


-----------------------------------------------------------------------------
(* The channels implement Channel.  Its steps, in the terms of the model.      *)

Stored == IF primitive = "buffered" THEN Buffered!Contents ELSE << >>
Senders == Buffered!WaitingSenders
Receivers == Buffered!WaitingReceivers
Queue == Stored \o Senders
DoingOf(f) == IF IsChannel THEN Buffered!Doing(f) ELSE "idle"

Doings == [f \in Fibers |-> DoingOf(f)]
Others(f) == \A g \in Fibers \ {f} : DoingOf(g)' = DoingOf(g)

LEMMA AbstractSend ==
  ASSUME NEW f \in Fibers, NEW v \in Buffered!Values, UNCHANGED primitive,
         DoingOf(f) = "idle", DoingOf(f)' = "send", Others(f),
         message' = [message EXCEPT ![f] = v],
         Queue' = Queue, Receivers' = Receivers
  PROVE  ChannelOfValues!Next
<1>1. Doings' = [Doings EXCEPT ![f] = "send"]
  BY DEF Others, Doings
<1>2. ChannelOfValues!CallSend(f, v)
  BY <1>1 DEF ChannelOfValues!CallSend, ChannelOfValues!Goes, Doings, DoingOf, Queue, Stored, Senders, Receivers
<1> QED BY <1>2 DEF ChannelOfValues!Next

LEMMA AbstractReceive ==
  ASSUME NEW f \in Fibers, UNCHANGED primitive,
         DoingOf(f) = "idle", DoingOf(f)' = "receive", Others(f), message' = message,
         Queue' = Queue, Receivers' = Receivers
  PROVE  ChannelOfValues!Next
<1>1. Doings' = [Doings EXCEPT ![f] = "receive"]
  BY DEF Others, Doings
<1>2. ChannelOfValues!CallReceive(f)
  BY <1>1 DEF ChannelOfValues!CallReceive, ChannelOfValues!Goes, Doings, DoingOf, Queue, Stored, Senders, Receivers
<1> QED BY <1>2 DEF ChannelOfValues!Next

LEMMA AbstractPut ==
  ASSUME NEW f \in Fibers, UNCHANGED primitive,
         DoingOf(f) = "send", DoingOf(f)' = "sent", Others(f), message' = message,
         Receivers = << >>, Queue' = Append(Queue, message[f]),
         Receivers' = << >>
  PROVE  ChannelOfValues!Next
<1>1. Doings' = [Doings EXCEPT ![f] = "sent"]
  BY DEF Others, Doings
<1>2. ChannelOfValues!Put(f)
  BY <1>1 DEF ChannelOfValues!Put, ChannelOfValues!Goes, Doings, DoingOf, Queue, Stored, Senders, Receivers
<1> QED BY <1>2 DEF ChannelOfValues!Next

LEMMA AbstractTake ==
  ASSUME NEW f \in Fibers, UNCHANGED primitive,
         DoingOf(f) = "receive", DoingOf(f)' = "received", Others(f),
         message' = [message EXCEPT ![f] = Head(Queue)],
         Queue # << >>, Queue' = Tail(Queue),
         Receivers' = Receivers
  PROVE  ChannelOfValues!Next
<1>1. Doings' = [Doings EXCEPT ![f] = "received"]
  BY DEF Others, Doings
<1>2. ChannelOfValues!Take(f)
  BY <1>1 DEF ChannelOfValues!Take, ChannelOfValues!Goes, Doings, DoingOf, Queue, Stored, Senders, Receivers
<1> QED BY <1>2 DEF ChannelOfValues!Next

LEMMA AbstractAwait ==
  ASSUME NEW f \in Fibers, UNCHANGED primitive,
         DoingOf(f) = "receive", DoingOf(f)' = "await", Others(f), message' = message,
         Queue = << >>, Queue' = << >>,
         Receivers' = Append(Receivers, f)
  PROVE  ChannelOfValues!Next
<1>1. Doings' = [Doings EXCEPT ![f] = "await"]
  BY DEF Others, Doings
<1>2. ChannelOfValues!Await(f)
  BY <1>1 DEF ChannelOfValues!Await, ChannelOfValues!Goes, Doings, DoingOf, Queue, Stored, Senders, Receivers
<1> QED BY <1>2 DEF ChannelOfValues!Next

LEMMA AbstractHand ==
  ASSUME NEW f \in Fibers, NEW h \in Fibers \ {f}, UNCHANGED primitive,
         h = Head(Receivers), Receivers # << >>,
         DoingOf(f) = "send", DoingOf(f)' = "sent", DoingOf(h)' = "received",
         \A g \in Fibers \ {f, h} : DoingOf(g)' = DoingOf(g),
         message' = [message EXCEPT ![h] = message[f]],
         Queue' = Queue,
         Receivers' = Tail(Receivers)
  PROVE  ChannelOfValues!Next
<1>1. Doings' = [Doings EXCEPT ![f] = "sent", ![h] = "received"]
  BY DEF Doings
<1>2. ChannelOfValues!Hand(f)
  BY <1>1 DEF ChannelOfValues!Hand, Doings, DoingOf, Queue, Stored, Senders, Receivers
<1> QED BY <1>2 DEF ChannelOfValues!Next

LEMMA AbstractSent ==
  ASSUME NEW f \in Fibers, UNCHANGED primitive,
         DoingOf(f) = "sent", DoingOf(f)' = "idle", Others(f),
         message' = [message EXCEPT ![f] = Buffered!NONE],
         \A k \in DOMAIN Queue : Queue[k] = message[f] =>
           k <= IF primitive = "buffered" THEN Capacity ELSE 0,
         Queue' = Queue, Receivers' = Receivers
  PROVE  ChannelOfValues!Next
<1>1. Doings' = [Doings EXCEPT ![f] = "idle"]
  BY DEF Others, Doings
<1>2. ChannelOfValues!SendReturn(f)
  BY <1>1 DEF ChannelOfValues!SendReturn, ChannelOfValues!Goes, Doings, DoingOf, Queue, Stored, Senders, Receivers
<1> QED BY <1>2 DEF ChannelOfValues!Next

LEMMA AbstractReceived ==
  ASSUME NEW f \in Fibers, UNCHANGED primitive,
         DoingOf(f) = "received", DoingOf(f)' = "idle", Others(f),
         message' = [message EXCEPT ![f] = Buffered!NONE],
         Queue' = Queue, Receivers' = Receivers
  PROVE  ChannelOfValues!Next
<1>1. Doings' = [Doings EXCEPT ![f] = "idle"]
  BY DEF Others, Doings
<1>2. ChannelOfValues!ReceiveReturn(f)
  BY <1>1 DEF ChannelOfValues!ReceiveReturn, ChannelOfValues!Goes, Doings, DoingOf, Queue, Stored, Senders, Receivers
<1> QED BY <1>2 DEF ChannelOfValues!Next

LEMMA AbstractStutters ==
  ASSUME UNCHANGED <<primitive, message>>, \A g \in Fibers : DoingOf(g)' = DoingOf(g),
         Queue' = Queue, Receivers' = Receivers
  PROVE  UNCHANGED ChannelOfValues!vars
<1>1. Doings' = Doings
  BY DEF Doings
<1> QED BY <1>1 DEF ChannelOfValues!vars, Doings, DoingOf, Queue, Stored, Senders, Receivers


\* Where a fiber of a channel is in its call.
DoingOK ==
  IsChannel => \A f \in Fibers :
    /\ pc[f] \in {"idle", "finished"} => DoingOf(f) = "idle"
    /\ pc[f] \in {"send", "send_locked"} => DoingOf(f) = "send"
    /\ pc[f] = "send_woken" => DoingOf(f) = IF Buffered!Parking(f) THEN "send" ELSE "sent"
    /\ pc[f] = "send_return" => DoingOf(f) = "sent"
    /\ pc[f] \in {"receive", "receive_locked"} => DoingOf(f) = "receive"
    /\ pc[f] = "receive_woken" =>
         DoingOf(f) = IF Buffered!Parking(f) THEN "receive"
                      ELSE IF Buffered!Waits(f) THEN "await" ELSE "received"
    /\ pc[f] = "receive_return" => DoingOf(f) = "received"

LEMMA DoingIs == DoingOK
BY DEF DoingOK, DoingOf, Buffered!Doing

LEMMA DoingNext == DoingOK'
BY DoingIs, PTL

LEMMA DoingStays ==
  ASSUME NEW f \in Fibers, UNCHANGED primitive, pc'[f] = pc[f],
         pc[f] \in Buffered!ChanLabels,
         Buffered!Parking(f)' <=> Buffered!Parking(f), Buffered!Waits(f)' <=> Buffered!Waits(f)
  PROVE  DoingOf(f)' = DoingOf(f)
<1>1. CASE ~ IsChannel
  BY <1>1 DEF DoingOf, IsChannel
<1>2. CASE IsChannel
  <2>1. IsChannel'
    BY <1>2 DEF IsChannel
  <2> QED BY <1>2, <2>1, DoingIs, DoingNext DEF DoingOK, Buffered!ChanLabels
<1> QED BY <1>1, <1>2

\* The steps of the code of f leave the others where they are, but for the first waiter
\* if they wake it.
LEMMA CodeStays ==
  ASSUME Machine, ChannelPart, UNCHANGED primitive, NEW w \in Workers, NEW f \in Fibers, Runs(w, f),
         NEW to, Goto(f, to), UNCHANGED <<fibers_, running>>,
         \A u \in Workers \ {w} : cb'[u] = cb[u]
  PROVE  Others(f)
<1>1. pc \in [Fibers -> Buffered!ChanLabels]
  BY DEF ChannelPart, Buffered!ChanTypeOK
<1> SUFFICES ASSUME NEW g \in Fibers \ {f} PROVE DoingOf(g)' = DoingOf(g)
  BY DEF Others
<1>2. pc'[g] = pc[g] /\ pc[g] \in Buffered!ChanLabels
  BY <1>1 DEF Goto
<1>3. Buffered!Parking(g)' <=> Buffered!Parking(g)
  BY DEF Buffered!Parking, Runs
<1>4. Buffered!Waits(g)' <=> Buffered!Waits(g)
  BY DEF Buffered!Waits
<1> QED BY <1>2, <1>3, <1>4, DoingStays

\* A fiber whose code runs neither waits nor is about to.
LEMMA RunsHere ==
  ASSUME Machine, NEW w \in Workers, NEW f \in Fibers, Runs(w, f)
  PROVE  ~ Buffered!Parking(f) /\ ~ Buffered!Waits(f)
BY RunsAlone DEF Buffered!Parking, Buffered!Waits

LEMMA RunsOn ==
  ASSUME Machine, NEW w \in Workers, NEW f \in Fibers, Runs(w, f), UNCHANGED <<fibers_, running, cb>>
  PROVE  ~ Buffered!Parking(f)' /\ ~ Buffered!Waits(f)'
BY RunsAlone DEF Buffered!Parking, Buffered!Waits

SendersAre ==
  /\ state_ = "Senders" => Senders = Told(fibers_, message)
  /\ state_ # "Senders" => Senders = << >>
  /\ state_ = "Receivers" => Receivers = fibers_
  /\ state_ # "Receivers" => Receivers = << >>

LEMMA SendersIs == SendersAre
BY DEF SendersAre, Senders, Receivers, Buffered!WaitingSenders, Buffered!WaitingReceivers, Told

LEMMA SendersNext == SendersAre'
BY SendersIs, PTL

\* Nobody comes or goes, and those who wait to send send the same.
LEMMA WaitersStay ==
  ASSUME UNCHANGED <<fibers_, state_>>,
         state_ = "Senders" => \A k \in DOMAIN fibers_ : message'[fibers_[k]] = message[fibers_[k]]
  PROVE  Senders' = Senders /\ Receivers' = Receivers
<1>1. state_ = "Senders" => Told(fibers_, message') = Told(fibers_, message)
  BY DEF Told
<1> QED BY <1>1, SendersIs, SendersNext DEF SendersAre

\* The values of those who wait are theirs.
LEMMA SendersTyped ==
  ASSUME Machine, ChannelPart
  PROVE  /\ Senders \in Seq(AnyValue)
         /\ state_ = "Senders" =>
              /\ ToldOK(fibers_, message)
              /\ \A k \in DOMAIN fibers_ : message[fibers_[k]] \in AnyValue
              /\ \A k \in DOMAIN Senders : \E g \in Fibers :
                   /\ \E j \in DOMAIN fibers_ : fibers_[j] = g
                   /\ Senders[k] = message[g] /\ message[g][1] = g
<1>0. fibers_ \in Seq(Fibers) /\ Agreed /\ OwnMessages
  BY DEF Machine, Typed, SyncTypeOK, ChannelPart
<1>1. CASE state_ = "Senders"
  <2>1. \A k \in DOMAIN fibers_ : pc[fibers_[k]] = "send_woken" /\ fibers_[k] \in Fibers
    BY <1>0, <1>1, Waiters DEF Agreed
  <2>2. \A k \in DOMAIN fibers_ :
          /\ message[fibers_[k]] \in AnyValue
          /\ message[fibers_[k]][1] = fibers_[k]
    BY <1>0, <2>1 DEF OwnMessages, SendLabels, AnyValue
  <2>3. ToldOK(fibers_, message) /\ Senders = Told(fibers_, message)
    BY <1>0, <1>1, <2>2, Mapped, SendersIs DEF SendersAre
  <2>4. DOMAIN Senders = DOMAIN fibers_ /\ \A k \in DOMAIN fibers_ : Senders[k] = message[fibers_[k]]
    BY <2>3 DEF Told
  <2>5. Senders \in Seq(AnyValue)
    BY <2>3 DEF ToldOK
  <2> QED BY <2>1, <2>2, <2>3, <2>4, <2>5
<1>2. CASE state_ # "Senders"
  <2>1. Senders = << >>
    BY <1>2, SendersIs DEF SendersAre
  <2> QED BY <1>2, <2>1, EmptySeq
<1> QED BY <1>1, <1>2


Refines == ChannelOfValues!Next \/ UNCHANGED ChannelOfValues!vars

\* What is stored goes before what the senders that wait have to send, and is never more
\* than the channel has room for.
StoredFits ==
  /\ Stored \in Seq(AnyValue)
  /\ Len(Stored) <= IF primitive = "buffered" THEN Capacity ELSE 0

\* Nothing that Channel speaks of changes.
LEMMA NothingSaid ==
  ASSUME UNCHANGED <<primitive, message>>, UNCHANGED <<fibers_, state_>>, Stored' = Stored,
         \A g \in Fibers : DoingOf(g)' = DoingOf(g)
  PROVE  Refines
<1>1. Senders' = Senders /\ Receivers' = Receivers
  BY WaitersStay
<1>2. Queue' = Queue
  BY <1>1 DEF Queue
<1> QED BY <1>1, <1>2, AbstractStutters DEF Refines

\* What f has sent, and nobody has received yet, is in the buffer: it does not wait.
LEMMA OwnIsStored ==
  ASSUME Machine, ChannelPart, StoredFits, NEW w \in Workers, NEW f \in Fibers, Runs(w, f),
         pc[f] \in SendLabels, NEW k \in DOMAIN Queue, Queue[k] = message[f]
  PROVE  k <= IF primitive = "buffered" THEN Capacity ELSE 0
<1>1. /\ Senders \in Seq(AnyValue) /\ Stored \in Seq(AnyValue)
      /\ Len(Senders) \in Nat /\ Len(Stored) \in Nat
      /\ DOMAIN Senders = 1 .. Len(Senders)
  BY SendersTyped, LenProperties DEF StoredFits
<1>2. /\ Len(Queue) = Len(Stored) + Len(Senders)
      /\ Queue \in Seq(AnyValue)
      /\ \A i \in 1 .. Len(Stored) + Len(Senders) :
           Queue[i] = IF i <= Len(Stored) THEN Stored[i] ELSE Senders[i - Len(Stored)]
  BY <1>1, ConcatProperties DEF Queue
<1>3. k \in 1 .. Len(Stored) + Len(Senders)
  BY <1>2, LenProperties
<1>4. CASE k <= Len(Stored)
  BY <1>1, <1>3, <1>4, BoundsAssumption DEF StoredFits
<1>5. CASE ~ (k <= Len(Stored))
  <2> DEFINE j == k - Len(Stored)
  <2>1. j \in DOMAIN Senders /\ Queue[k] = Senders[j]
    BY <1>1, <1>2, <1>3, <1>5
  <2>2. state_ = "Senders"
    <3>1. Senders # << >>
      BY <2>1, <1>1, EmptySeq
    <3> QED BY <3>1, SendersIs DEF SendersAre
  <2> HIDE DEF j
  <2>3. PICK g \in Fibers : /\ \E i \in DOMAIN fibers_ : fibers_[i] = g
                            /\ Senders[j] = message[g] /\ message[g][1] = g
    BY <2>1, <2>2, SendersTyped
  <2>4. g # f
    BY <2>3, RunsAlone
  <2>5. message[f][1] = f
    BY DEF ChannelPart, OwnMessages
  <2> QED BY <2>1, <2>3, <2>4, <2>5
<1> QED BY <1>4, <1>5

LEMMA CommonRefines ==
  ASSUME Machine, ChannelPart, IsChannel, UNCHANGED primitive, StoredFits, Stored' = Stored,
         NEW w \in Workers, NEW f \in Fibers,
         \/ Buffered!Lock(w, f) \/ Buffered!Return(w, f)
         \/ Buffered!Send(w, f) \/ Buffered!Receive(w, f)
  PROVE  Refines
<1>0. /\ pc \in [Fibers -> Buffered!ChanLabels] /\ calls \in [Fibers -> 0 .. MaxCalls]
      /\ message \in [Fibers -> Buffered!Values \cup {Buffered!NONE}]
      /\ IsChannel' /\ fibers_ \in Seq(Fibers)
  BY DEF ChannelPart, Buffered!ChanTypeOK, IsChannel, Machine, Typed, SyncTypeOK
<1>1. PICK from, to :
        /\ Runs(w, f) /\ pc[f] = from /\ Goto(f, to)
        /\ <<from, to>> \in {<<"send", "send_locked">>, <<"receive", "receive_locked">>,
                             <<"send_woken", "send_return">>, <<"receive_woken", "receive_return">>,
                             <<"send_return", "idle">>, <<"receive_return", "idle">>,
                             <<"idle", "send">>, <<"idle", "receive">>}
        /\ to = "idle" => message' = [message EXCEPT ![f] = Buffered!NONE]
        /\ to = "send" => /\ message' = [message EXCEPT ![f] = <<f, calls[f] + 1>>]
                          /\ calls[f] < MaxCalls
        /\ to \notin {"idle", "send"} => message' = message
        /\ UNCHANGED <<fibers_, running, cb, state_>>
  <2>1. CASE Buffered!Lock(w, f)
    <3>1. PICK from, to :
            /\ Buffered!UniqueLock(w, f, from, to)
            /\ <<from, to>> \in {<<"send", "send_locked">>, <<"receive", "receive_locked">>,
                                 <<"send_woken", "send_return">>, <<"receive_woken", "receive_return">>}
      BY <2>1 DEF Buffered!Lock
    <3>2. Runs(w, f) /\ Goto(f, to) /\ pc[f] = from
      BY <3>1, BufferedIs DEF UniqueLock
    <3>3. UNCHANGED <<fibers_, running, cb, state_, message>>
      BY <2>1 DEF Buffered!Lock, Buffered!scheduler
    <3> QED BY <3>1, <3>2, <3>3
  <2>2. CASE Buffered!Return(w, f)
    <3>1. PICK from \in {"send_return", "receive_return"} : Buffered!UniqueUnlock(w, f, from, "idle")
      BY <2>2 DEF Buffered!Return
    <3>2. Runs(w, f) /\ Goto(f, "idle") /\ pc[f] = from
      BY <3>1, BufferedIs DEF UniqueUnlock
    <3>3. /\ UNCHANGED <<fibers_, running, cb, state_>>
          /\ message' = [message EXCEPT ![f] = Buffered!NONE]
      BY <2>2 DEF Buffered!Return, Buffered!scheduler
    <3> QED BY <3>1, <3>2, <3>3
  <2>3. CASE Buffered!Send(w, f)
    BY <2>3, BufferedIs DEF Buffered!Send, Buffered!Call, Buffered!scheduler
  <2>4. CASE Buffered!Receive(w, f)
    BY <2>4, BufferedIs DEF Buffered!Receive, Buffered!Call, Buffered!scheduler
  <2> QED BY <2>1, <2>2, <2>3, <2>4
<1>2. Others(f) /\ pc'[f] = to
  BY <1>0, <1>1, CodeStays DEF Goto
<1>3. /\ ~ Buffered!Parking(f) /\ ~ Buffered!Waits(f)
      /\ ~ Buffered!Parking(f)' /\ ~ Buffered!Waits(f)'
  BY <1>1, RunsHere, RunsOn
<1>4. Senders' = Senders /\ Receivers' = Receivers
  <2>1. \A k \in DOMAIN fibers_ : fibers_[k] \in Fibers \ {f}
    BY <1>0, <1>1, RunsAlone
  <2>2. \A g \in Fibers \ {f} : message'[g] = message[g]
    BY <1>0, <1>1
  <2> QED BY <1>1, <2>1, <2>2, WaitersStay
<1>5. Queue' = Queue
  BY <1>4 DEF Queue
<1>6. CASE to \in {"send_locked", "receive_locked", "send_return", "receive_return"}
  <2>1. DoingOf(f)' = DoingOf(f)
    BY <1>0, <1>1, <1>2, <1>3, <1>6, DoingIs, DoingNext DEF DoingOK
  <2>2. message' = message
    BY <1>1, <1>6
  <2> QED BY <1>1, <1>2, <2>1, <2>2, NothingSaid DEF Others
<1>7. CASE from = "send_return" /\ to = "idle"
  <2>1. DoingOf(f) = "sent" /\ DoingOf(f)' = "idle"
    BY <1>0, <1>1, <1>2, <1>7, DoingIs, DoingNext DEF DoingOK
  <2>2. pc[f] \in SendLabels
    BY <1>1, <1>7 DEF SendLabels
  <2>3. \A k \in DOMAIN Queue : Queue[k] = message[f] =>
           k <= IF primitive = "buffered" THEN Capacity ELSE 0
    BY <1>1, <2>2, OwnIsStored
  <2> QED BY <1>1, <1>2, <1>4, <1>5, <1>7, <2>1, <2>3, AbstractSent DEF Refines
<1>8. CASE from = "receive_return" /\ to = "idle"
  <2>1. DoingOf(f) = "received" /\ DoingOf(f)' = "idle"
    BY <1>0, <1>1, <1>2, <1>8, DoingIs, DoingNext DEF DoingOK
  <2> QED BY <1>1, <1>2, <1>4, <1>5, <1>8, <2>1, AbstractReceived DEF Refines
<1>9. CASE to = "send"
  <2>1. DoingOf(f) = "idle" /\ DoingOf(f)' = "send"
    BY <1>0, <1>1, <1>2, <1>9, DoingIs, DoingNext DEF DoingOK
  <2>2. <<f, calls[f] + 1>> \in Buffered!Values
    BY <1>0, <1>1, <1>9, CallsAssumption DEF Buffered!Values
  <2> QED BY <1>1, <1>2, <1>4, <1>5, <1>9, <2>1, <2>2, AbstractSend DEF Refines
<1>10. CASE to = "receive"
  <2>1. DoingOf(f) = "idle" /\ DoingOf(f)' = "receive"
    BY <1>0, <1>1, <1>2, <1>10, DoingIs, DoingNext DEF DoingOK
  <2> QED BY <1>1, <1>2, <1>4, <1>5, <1>10, <2>1, AbstractReceive DEF Refines
<1> QED BY <1>1, <1>6, <1>7, <1>8, <1>9, <1>10


\* A fiber that stops to wait has not come yet: its callback will put it into waiters_.
LEMMA ParksRefine ==
  ASSUME Machine, ChannelPart, IsChannel, UNCHANGED primitive, Stored' = Stored,
         NEW w \in Workers, NEW f \in Fibers, Runs(w, f),
         UNCHANGED <<fibers_, state_, message>>,
         \/ pc[f] = "send_locked" /\ Suspend(w, f, "park", "send_woken")
         \/ pc[f] = "receive_locked" /\ Suspend(w, f, "park", "receive_woken")
  PROVE  Refines
<1>0. /\ pc \in [Fibers -> Buffered!ChanLabels] /\ IsChannel'
      /\ cb \in [Workers -> CallbackSteps]
  BY DEF ChannelPart, Buffered!ChanTypeOK, IsChannel, Machine, Typed, SyncTypeOK
<1>1. PICK to \in {"send_woken", "receive_woken"} :
         /\ Goto(f, to) /\ cb' = [cb EXCEPT ![w] = "park"] /\ running' = running
         /\ to = "send_woken" => pc[f] = "send_locked"
         /\ to = "receive_woken" => pc[f] = "receive_locked"
  BY DEF Suspend
<1>2. pc'[f] = to /\ cb'[w] = "park" /\ \A u \in Workers \ {w} : cb'[u] = cb[u]
  BY <1>0, <1>1 DEF Goto
<1>3. Others(f)
  BY <1>1, <1>2, CodeStays
<1>4. Buffered!Parking(f)'
  BY <1>1, <1>2 DEF Buffered!Parking, Runs
<1>5. DoingOf(f)' = DoingOf(f)
  BY <1>0, <1>1, <1>2, <1>4, DoingIs, DoingNext DEF DoingOK
<1> QED BY <1>3, <1>5, NothingSaid DEF Others

LEMMA EmplaceRefines ==
  ASSUME Machine, ChannelPart, IsChannel, UNCHANGED primitive, StoredFits,
         NEW w \in Workers, NEW f \in Fibers, Runs(w, f), pc[f] = "send_locked",
         Goto(f, "send_return"), state_ = "Nobody",
         UNCHANGED <<fibers_, running, cb, state_, message>>,
         Stored' = Append(Stored, message[f])
  PROVE  Refines
<1>0. /\ pc \in [Fibers -> Buffered!ChanLabels] /\ IsChannel' /\ message[f] \in AnyValue
  BY DEF ChannelPart, Buffered!ChanTypeOK, IsChannel, AnyValue
<1>1. Others(f) /\ pc'[f] = "send_return"
  BY <1>0, CodeStays DEF Goto
<1>2. DoingOf(f) = "send" /\ DoingOf(f)' = "sent"
  BY <1>0, <1>1, DoingIs, DoingNext DEF DoingOK
<1>3. Senders = << >> /\ Senders' = << >> /\ Receivers = << >> /\ Receivers' = << >>
  BY SendersIs, SendersNext DEF SendersAre
<1>4. Queue' = Append(Queue, message[f])
  <2>1. Stored \in Seq(AnyValue) /\ Append(Stored, message[f]) \in Seq(AnyValue)
    BY <1>0, AppendProperties DEF StoredFits
  <2>2. Stored \o << >> = Stored /\ Append(Stored, message[f]) \o << >> = Append(Stored, message[f])
    BY <2>1, ConcatEmptySeq
  <2> QED BY <1>3, <2>2 DEF Queue
<1> QED BY <1>1, <1>2, <1>3, <1>4, AbstractPut DEF Refines

\* The first waiter h has been taken out of fibers_: it waits no more, and the others do.
LEMMA WakeStays ==
  ASSUME Machine, ChannelPart, UNCHANGED primitive, NEW w \in Workers, NEW f \in Fibers, Runs(w, f),
         NEW to, Goto(f, to), UNCHANGED <<running, cb>>,
         fibers_ # << >>, fibers_' = Tail(fibers_), NEW h, h = Head(fibers_)
  PROVE  /\ h \in Fibers \ {f}
         /\ pc'[h] = pc[h]
         /\ ~ Buffered!Parking(h) /\ Buffered!Waits(h)
         /\ ~ Buffered!Parking(h)' /\ ~ Buffered!Waits(h)'
         /\ \A g \in Fibers \ {f, h} : DoingOf(g)' = DoingOf(g)
<1>0. pc \in [Fibers -> Buffered!ChanLabels] /\ fibers_ \in Seq(Fibers)
  BY DEF ChannelPart, Buffered!ChanTypeOK, Machine, Typed, SyncTypeOK
<1>1. /\ Len(fibers_) \in Nat \ {0} /\ DOMAIN fibers_ = 1 .. Len(fibers_)
      /\ h = fibers_[1] /\ 1 \in DOMAIN fibers_
      /\ DOMAIN fibers_' = 1 .. Len(fibers_) - 1
      /\ \A k \in 1 .. Len(fibers_) - 1 : fibers_'[k] = fibers_[k + 1]
  BY <1>0, EmptySeq, LenProperties, HeadTailProperties
<1>2. h \in Fibers \ {f}
  BY <1>0, <1>1, RunsAlone
<1>3. Buffered!Waits(h)
  BY <1>1 DEF Buffered!Waits
<1>4. \A k \in DOMAIN fibers_' : fibers_'[k] # h
  <2>1. \A i, j \in DOMAIN fibers_ : i # j => fibers_[i] # fibers_[j]
    BY DEF Machine, OnePlace
  <2> SUFFICES ASSUME NEW k \in DOMAIN fibers_' PROVE fibers_'[k] # h
    OBVIOUS
  <2>2. k + 1 \in DOMAIN fibers_ /\ k + 1 # 1 /\ fibers_'[k] = fibers_[k + 1]
    BY <1>1
  <2> QED BY <1>1, <2>1, <2>2
<1>5. \A g \in Fibers \ {h} : Buffered!Waits(g)' <=> Buffered!Waits(g)
  <2> SUFFICES ASSUME NEW g \in Fibers \ {h} PROVE Buffered!Waits(g)' <=> Buffered!Waits(g)
    OBVIOUS
  <2>1. ASSUME NEW k \in DOMAIN fibers_', fibers_'[k] = g PROVE Buffered!Waits(g)
    <3>1. k + 1 \in DOMAIN fibers_ /\ fibers_[k + 1] = g
      BY <1>1, <2>1
    <3> QED BY <3>1 DEF Buffered!Waits
  <2>2. ASSUME NEW k \in DOMAIN fibers_, fibers_[k] = g PROVE Buffered!Waits(g)'
    <3>1. k # 1
      BY <1>1, <2>2
    <3>2. k - 1 \in DOMAIN fibers_' /\ fibers_'[k - 1] = g
      BY <1>1, <2>2, <3>1
    <3> QED BY <3>2 DEF Buffered!Waits
  <2> QED BY <2>1, <2>2 DEF Buffered!Waits
<1>6. \A g \in Fibers : Buffered!Parking(g)' <=> Buffered!Parking(g)
  BY DEF Buffered!Parking
<1>7. ~ Buffered!Parking(h)
  <2>1. \A u \in Workers : running[u] = h => cb[u] \in Published
    BY <1>1, <1>2, FiberAssumption DEF Machine, OnePlace
  <2> QED BY <2>1 DEF Buffered!Parking, Published
<1>8. \A g \in Fibers \ {f} : pc'[g] = pc[g] /\ pc[g] \in Buffered!ChanLabels
  BY <1>0 DEF Goto
<1>9. ~ Buffered!Waits(h)'
  BY <1>4 DEF Buffered!Waits
<1>10. \A g \in Fibers \ {f, h} : DoingOf(g)' = DoingOf(g)
  BY <1>5, <1>6, <1>8, DoingStays
<1>11. ~ Buffered!Parking(h)'
  BY <1>2, <1>6, <1>7
<1> QED BY <1>2, <1>3, <1>7, <1>8, <1>9, <1>10, <1>11

LEMMA HandRefines ==
  ASSUME Machine, ChannelPart, IsChannel, UNCHANGED primitive, Stored' = Stored,
         NEW w \in Workers, NEW f \in Fibers, Runs(w, f),
         pc[f] = "send_locked", state_ = "Receivers",
         message' = [message EXCEPT ![Head(fibers_)] = message[f]],
         Buffered!WakeWaiter, Goto(f, "send_return"), UNCHANGED <<running, cb>>
  PROVE  Refines
<1>0. /\ pc \in [Fibers -> Buffered!ChanLabels] /\ IsChannel' /\ fibers_ \in Seq(Fibers)
      /\ Buffered!WaitersAgree
  BY DEF ChannelPart, Buffered!ChanTypeOK, IsChannel, Machine, Typed, SyncTypeOK, Agreed
<1>1. fibers_ # << >> /\ fibers_' = Tail(fibers_)
  BY <1>0, Waiters DEF Buffered!WakeWaiter
<1> PICK h : h = Head(fibers_)
  OBVIOUS
<1>2. /\ h \in Fibers \ {f} /\ pc'[h] = pc[h]
      /\ ~ Buffered!Parking(h)' /\ ~ Buffered!Waits(h)'
      /\ \A g \in Fibers \ {f, h} : DoingOf(g)' = DoingOf(g)
  BY <1>1, WakeStays
<1>3. pc[h] = "receive_woken"
  BY <1>0, SenderFirst
<1>4. pc'[f] = "send_return"
  BY <1>0 DEF Goto
<1>5. DoingOf(f) = "send" /\ DoingOf(f)' = "sent" /\ DoingOf(h)' = "received"
  BY <1>0, <1>2, <1>3, <1>4, DoingIs, DoingNext DEF DoingOK
<1>6. Receivers = fibers_ /\ Receivers' = Tail(fibers_) /\ Senders = << >> /\ Senders' = << >>
  <2>1. state_' = "Receivers" \/ (state_' = "Nobody" /\ Len(fibers_) = 1)
    BY DEF Buffered!WakeWaiter
  <2>2. Len(fibers_) = 1 => Tail(fibers_) = << >>
    BY <1>0, <1>1, HeadTailProperties, EmptySeq
  <2> QED BY <1>1, <2>1, <2>2, SendersIs, SendersNext DEF SendersAre
<1>7. Queue' = Queue
  BY <1>6 DEF Queue
<1>8. h = Head(Receivers) /\ Receivers # << >> /\ Receivers' = Tail(Receivers)
      /\ message' = [message EXCEPT ![h] = message[f]]
  BY <1>1, <1>6
<1> QED BY <1>2, <1>5, <1>7, <1>8, AbstractHand DEF Refines


\* The first sender has been woken: what it sends is the first of what the senders send.
LEMMA FirstSender ==
  ASSUME Machine, ChannelPart, NEW w \in Workers, NEW f \in Fibers, Runs(w, f),
         state_ = "Senders", Buffered!WakeWaiter,
         \A g \in Fibers \ {f} : message'[g] = message[g]
  PROVE  /\ fibers_ # << >> /\ fibers_' = Tail(fibers_)
         /\ Senders \in Seq(AnyValue) /\ Senders # << >>
         /\ Head(Senders) = message[Head(fibers_)] /\ Senders' = Tail(Senders)
         /\ Receivers = << >> /\ Receivers' = << >>
<1>0. fibers_ \in Seq(Fibers) /\ Buffered!WaitersAgree
  BY DEF Machine, Typed, SyncTypeOK, ChannelPart, Agreed
<1>1. fibers_ # << >> /\ fibers_' = Tail(fibers_)
  BY <1>0, Waiters DEF Buffered!WakeWaiter
<1>2. /\ ToldOK(fibers_, message) /\ Senders \in Seq(AnyValue)
      /\ \A k \in DOMAIN fibers_ : message[fibers_[k]] \in AnyValue
  BY SendersTyped
<1>3. Senders = Told(fibers_, message) /\ Receivers = << >>
  BY SendersIs DEF SendersAre
<1>4. Senders # << >> /\ Len(Senders) = Len(fibers_)
  BY <1>1, <1>2, <1>3 DEF ToldOK
<1>5. Told(Tail(fibers_), message) = Tail(Senders) /\ Head(Senders) = message[Head(fibers_)]
  BY <1>0, <1>1, <1>2, <1>3, MappedTail
<1>6. state_' = "Senders" \/ (state_' = "Nobody" /\ Len(fibers_) = 1)
  BY DEF Buffered!WakeWaiter
<1>7. CASE state_' = "Senders"
  <2>1. /\ Len(fibers_) \in Nat \ {0} /\ DOMAIN Tail(fibers_) = 1 .. Len(fibers_) - 1
        /\ \A k \in 1 .. Len(fibers_) - 1 : Tail(fibers_)[k] = fibers_[k + 1]
        /\ DOMAIN fibers_ = 1 .. Len(fibers_)
    BY <1>0, <1>1, EmptySeq, LenProperties, HeadTailProperties
  <2>2. \A k \in DOMAIN Tail(fibers_) : message'[Tail(fibers_)[k]] = message[Tail(fibers_)[k]]
    <3> SUFFICES ASSUME NEW k \in DOMAIN Tail(fibers_)
                 PROVE message'[Tail(fibers_)[k]] = message[Tail(fibers_)[k]]
      OBVIOUS
    <3>1. k + 1 \in DOMAIN fibers_ /\ Tail(fibers_)[k] = fibers_[k + 1]
      BY <2>1
    <3>2. fibers_[k + 1] \in Fibers \ {f}
      BY <1>0, <3>1, RunsAlone
    <3> QED BY <3>1, <3>2
  <2>3. Told(Tail(fibers_), message') = Told(Tail(fibers_), message)
    BY <2>2 DEF Told
  <2>4. Senders' = Told(fibers_', message') /\ Receivers' = << >>
    BY <1>7, SendersNext DEF SendersAre
  <2> QED BY <1>1, <1>2, <1>3, <1>4, <1>5, <2>3, <2>4
<1>8. CASE state_' = "Nobody" /\ Len(fibers_) = 1
  <2>1. Senders' = << >> /\ Receivers' = << >>
    BY <1>8, SendersNext DEF SendersAre
  <2>2. Tail(Senders) \in Seq(AnyValue) /\ Len(Tail(Senders)) = Len(Senders) - 1
    BY <1>2, <1>4, HeadTailProperties
  <2>3. Len(Tail(Senders)) = 0
    BY <1>4, <1>8, <2>2
  <2>4. Tail(Senders) = << >>
    BY <2>2, <2>3, EmptySeq
  <2> QED BY <1>1, <1>2, <1>3, <1>4, <1>5, <2>1, <2>4
<1> QED BY <1>6, <1>7, <1>8

LEMMA TakeRefines ==
  ASSUME Machine, ChannelPart, IsChannel, UNCHANGED primitive,
         NEW w \in Workers, NEW f \in Fibers, Runs(w, f), pc[f] = "receive_locked",
         Goto(f, "receive_return"), UNCHANGED <<running, cb>>,
         message' = [message EXCEPT ![f] = Head(Queue)],
         Queue # << >>, Queue' = Tail(Queue),
         \/ state_ = "Senders" /\ Buffered!WakeWaiter
         \/ state_ = "Nobody" /\ UNCHANGED <<fibers_, state_>>
  PROVE  Refines
<1>0. /\ pc \in [Fibers -> Buffered!ChanLabels] /\ IsChannel' /\ fibers_ \in Seq(Fibers)
      /\ message \in [Fibers -> AnyValue]
  BY DEF ChannelPart, Buffered!ChanTypeOK, IsChannel, Machine, Typed, SyncTypeOK, AnyValue
<1>1. /\ pc'[f] = "receive_return"
      /\ \A g \in Fibers \ {f} : pc'[g] = pc[g] /\ message'[g] = message[g]
  BY <1>0 DEF Goto
<1>2. DoingOf(f) = "receive" /\ DoingOf(f)' = "received"
  BY <1>0, <1>1, DoingIs, DoingNext DEF DoingOK
<1>3. Others(f) /\ Receivers' = Receivers
  <2>1. CASE state_ = "Senders" /\ Buffered!WakeWaiter
    <3>1. fibers_ # << >> /\ fibers_' = Tail(fibers_) /\ Receivers' = Receivers
      BY <1>1, <2>1, FirstSender
    <3> PICK h : h = Head(fibers_)
      OBVIOUS
    <3>2. /\ h \in Fibers \ {f} /\ pc'[h] = pc[h]
          /\ ~ Buffered!Parking(h) /\ ~ Buffered!Parking(h)'
          /\ \A g \in Fibers \ {f, h} : DoingOf(g)' = DoingOf(g)
      BY <3>1, WakeStays
    <3>3. pc[h] = "send_woken"
      BY <2>1, SenderFirst DEF ChannelPart, Agreed
    <3>4. DoingOf(h) = "sent" /\ DoingOf(h)' = "sent"
      BY <1>0, <3>2, <3>3, DoingIs, DoingNext DEF DoingOK
    <3> QED BY <3>1, <3>2, <3>4 DEF Others
  <2>2. CASE state_ = "Nobody" /\ UNCHANGED <<fibers_, state_>>
    <3>1. Others(f)
      BY <2>2, CodeStays
    <3>2. Receivers' = << >> /\ Receivers = << >>
      BY <2>2, SendersIs, SendersNext DEF SendersAre
    <3> QED BY <3>1, <3>2
  <2> QED BY <2>1, <2>2
<1> QED BY <1>2, <1>3, AbstractTake DEF Refines

LEMMA MeetRefines ==
  ASSUME Machine, ChannelPart, primitive = "rendezvous", UNCHANGED primitive,
         NEW w \in Workers, NEW f \in Fibers, Rendezvous!ReceiveMeets(w, f)
  PROVE  Refines
<1>0. IsChannel /\ message \in [Fibers -> AnyValue]
  BY DEF IsChannel, ChannelPart, Buffered!ChanTypeOK, AnyValue
<1>1. /\ Runs(w, f) /\ pc[f] = "receive_locked" /\ state_ = "Senders"
      /\ message' = [message EXCEPT ![f] = message[Head(fibers_)]]
      /\ Buffered!WakeWaiter /\ Goto(f, "receive_return") /\ UNCHANGED <<running, cb>>
  BY RendezvousIs, ChannelsShare DEF Rendezvous!ReceiveMeets
<1>2. \A g \in Fibers \ {f} : message'[g] = message[g]
  BY <1>0, <1>1
<1>3. /\ Senders \in Seq(AnyValue) /\ Senders # << >>
      /\ Head(Senders) = message[Head(fibers_)] /\ Senders' = Tail(Senders)
  BY <1>1, <1>2, FirstSender
<1>4. Queue = Senders /\ Queue' = Senders'
  <2>1. Stored = << >> /\ Stored' = << >>
    BY DEF Stored
  <2>2. Tail(Senders) \in Seq(AnyValue)
    BY <1>3, HeadTailProperties
  <2> QED BY <1>3, <2>1, <2>2, ConcatEmptySeq DEF Queue
<1> QED BY <1>0, <1>1, <1>3, <1>4, TakeRefines
\* Pop: the first value of the buffer is received, and the value of the first waiting
\* sender, if there is one, moves up into the room.
LEMMA PopRefines ==
  ASSUME Machine, BufferedPart, BufferTyped', primitive = "buffered", UNCHANGED primitive,
         NEW w \in Workers, NEW f \in Fibers, Buffered!ReceivePops(w, f)
  PROVE  Refines
<1>0. /\ IsChannel /\ message \in [Fibers -> AnyValue]
      /\ ChannelPart /\ BufferTyped /\ BufferAgrees /\ Agreed /\ Buffered!WaitersAgree
  BY DEF IsChannel, BufferedPart, ChannelPart, Agreed, Buffered!ChanTypeOK, AnyValue
<1>1. /\ Runs(w, f) /\ pc[f] = "receive_locked" /\ ~ Buffered!IsEmpty
      /\ message' = [message EXCEPT ![f] = data_[head_]]
      /\ Goto(f, "receive_return") /\ UNCHANGED <<running, cb>>
  BY BufferedIs DEF Buffered!ReceivePops
<1>2. head_' = After(head_)
  <2>1. head_' = (head_ + 1) % Buffered!capacity_
    BY DEF Buffered!ReceivePops
  <2> QED BY <1>0, <2>1, AroundIs DEF BufferTyped
<1>3. \A g \in Fibers \ {f} : message'[g] = message[g]
  BY <1>0, <1>1
<1>4. /\ Buffered!Contents \in Seq(AnyValue) /\ Buffered!Contents # << >>
      /\ Tail(Buffered!Contents) \in Seq(AnyValue)
  <2>1. Buffered!Contents \in Seq(AnyValue) /\ Buffered!Contents # << >>
    BY <1>0, <1>1, ContentsTyped
  <2> QED BY <2>1, HeadTailProperties
<1>5. state_ \in {"Nobody", "Senders"}
  BY <1>0, <1>1, Waiters DEF BufferAgrees
<1>6. Stored = Buffered!Contents /\ Stored' = Buffered!Contents'
  BY DEF Stored
<1>7. CASE state_ = "Senders"
  <2>1. /\ Buffered!WakeWaiter
        /\ data_' = [data_ EXCEPT ![head_] = Buffered!NONE, ![tail_] = message[Head(fibers_)]]
        /\ tail_' = (tail_ + 1) % Buffered!capacity_
    BY <1>7 DEF Buffered!ReceivePops
  <2>2. tail_' = After(tail_)
    BY <1>0, <2>1, AroundIs DEF BufferTyped
  <2>3. /\ Senders \in Seq(AnyValue) /\ Senders # << >>
        /\ Head(Senders) = message[Head(fibers_)] /\ Senders' = Tail(Senders)
    BY <1>0, <1>1, <1>3, <1>7, <2>1, FirstSender
  <2>4. Head(Senders) \in AnyValue /\ Tail(Senders) \in Seq(AnyValue)
    BY <2>3, HeadTailProperties
  <2>5. /\ Buffered!Contents' = Append(Tail(Buffered!Contents), Head(Senders))
        /\ Head(Buffered!Contents) = data_[head_]
    BY <1>0, <1>1, <1>2, <2>1, <2>2, <2>3, <2>4, ContentsShift
  <2>6. /\ Queue # << >> /\ Head(Queue) = data_[head_]
        /\ Tail(Queue) = Tail(Buffered!Contents) \o Senders
    BY <1>4, <1>6, <2>3, <2>5, FirstOfTwo DEF Queue
  <2>7. Queue' = Append(Tail(Buffered!Contents), Head(Senders)) \o Tail(Senders)
    BY <1>6, <2>3, <2>5 DEF Queue
  <2>8. Queue' = Tail(Queue)
    BY <1>4, <2>3, <2>6, <2>7, MovesUp
  <2> QED BY <1>0, <1>1, <1>7, <2>1, <2>6, <2>8, TakeRefines
<1>8. CASE state_ = "Nobody"
  <2>1. /\ data_' = [data_ EXCEPT ![head_] = Buffered!NONE]
        /\ UNCHANGED <<tail_, fibers_, state_>>
    BY <1>8 DEF Buffered!ReceivePops
  <2>2. /\ Buffered!Contents' = Tail(Buffered!Contents)
        /\ Head(Buffered!Contents) = data_[head_]
    BY <1>0, <1>1, <1>2, <2>1, ContentsTake
  <2>3. Senders = << >> /\ Senders' = << >>
    BY <1>8, <2>1, SendersIs, SendersNext DEF SendersAre
  <2>4. Queue = Buffered!Contents /\ Queue' = Tail(Buffered!Contents)
    BY <1>4, <1>6, <2>2, <2>3, ConcatEmptySeq DEF Queue
  <2> QED BY <1>0, <1>1, <1>4, <1>8, <2>1, <2>2, <2>4, TakeRefines
<1> QED BY <1>5, <1>7, <1>8



\* The callback puts fiber f at the end of waiters_.
LEMMA QueuedFiber ==
  ASSUME Machine, ChannelPart, UNCHANGED primitive, NEW w \in Workers, ParkCallback(w)
  PROVE  \E f \in Fibers :
           /\ f = running[w] /\ fibers_' = Append(fibers_, f) /\ pc' = pc
           /\ pc[f] \in {"send_woken", "receive_woken"}
           /\ Buffered!Parking(f) /\ ~ Buffered!Parking(f)' /\ Buffered!Waits(f)'
           /\ Others(f)
<1>0. /\ pc \in [Fibers -> Buffered!ChanLabels] /\ fibers_ \in Seq(Fibers)
      /\ cb \in [Workers -> CallbackSteps] /\ running[w] \in Fibers
  BY FiberAssumption DEF ChannelPart, Buffered!ChanTypeOK, Machine, Typed, SyncTypeOK, ParkCallback
<1> PICK f \in Fibers : f = running[w]
  BY <1>0
<1>1. /\ fibers_' = Append(fibers_, f) /\ pc' = pc /\ running' = running /\ cb[w] = "park"
      /\ cb'[w] = "disown" /\ \A u \in Workers \ {w} : cb'[u] = cb[u]
  BY <1>0 DEF ParkCallback
<1>2. pc[f] \in {"send_woken", "receive_woken"}
  BY <1>0, <1>1 DEF Machine, CallbacksOK, ParkedLabels, Buffered!ChanLabels, ParkSteps
<1>3. \A u \in Workers \ {w} : running[u] # f
  BY <1>0, FiberAssumption DEF Machine, OnePlace
<1>4. /\ Len(fibers_) \in Nat /\ DOMAIN fibers_ = 1 .. Len(fibers_)
      /\ DOMAIN fibers_' = 1 .. Len(fibers_) + 1
      /\ fibers_'[Len(fibers_) + 1] = f
      /\ \A k \in 1 .. Len(fibers_) : fibers_'[k] = fibers_[k]
  BY <1>0, <1>1, AppendProperties, LenProperties
<1>5. Buffered!Parking(f) /\ ~ Buffered!Parking(f)'
  BY <1>1, <1>3 DEF Buffered!Parking
<1>6. Buffered!Waits(f)'
  <2>1. Len(fibers_) + 1 \in DOMAIN fibers_'
    BY <1>4
  <2> QED BY <1>4, <2>1 DEF Buffered!Waits
<1>7. ASSUME NEW g \in Fibers \ {f} PROVE DoingOf(g)' = DoingOf(g)
  <2>1. Buffered!Parking(g)' <=> Buffered!Parking(g)
    BY <1>1 DEF Buffered!Parking
  <2>2. Buffered!Waits(g)' <=> Buffered!Waits(g)
    <3>1. \A k \in DOMAIN fibers_' : fibers_'[k] = g => k \in DOMAIN fibers_ /\ fibers_[k] = g
      BY <1>4
    <3>2. \A k \in DOMAIN fibers_ : k \in DOMAIN fibers_' /\ fibers_'[k] = fibers_[k]
      BY <1>4
    <3> QED BY <3>1, <3>2 DEF Buffered!Waits
  <2>3. pc'[g] = pc[g] /\ pc[g] \in Buffered!ChanLabels
    BY <1>0, <1>1
  <2> QED BY <2>1, <2>2, <2>3, DoingStays
<1> QED BY <1>1, <1>2, <1>5, <1>6, <1>7 DEF Others

LEMMA EnqueueRefines ==
  ASSUME Machine, ChannelPart, IsChannel, UNCHANGED primitive, StoredFits, Stored' = Stored,
         NEW w \in Workers, Buffered!Enqueue(w),
         pc[running[w]] = "receive_woken" => Stored = << >>
  PROVE  Refines
<1>0. /\ pc \in [Fibers -> Buffered!ChanLabels] /\ fibers_ \in Seq(Fibers) /\ IsChannel'
      /\ message \in [Fibers -> AnyValue] /\ Stored \in Seq(AnyValue)
      /\ Buffered!WaitersAgree /\ ParkAgrees
  BY DEF ChannelPart, Buffered!ChanTypeOK, Machine, Typed, SyncTypeOK, IsChannel, AnyValue,
    StoredFits, Agreed
<1>1. /\ ParkCallback(w) /\ cb[w] = "park" /\ message' = message
      /\ state_' = IF pc[running[w]] = "send_woken" THEN "Senders" ELSE "Receivers"
  BY BufferedIs DEF Buffered!Enqueue, ParkCallback
<1>2. PICK f \in Fibers :
        /\ f = running[w] /\ fibers_' = Append(fibers_, f) /\ pc' = pc
        /\ pc[f] \in {"send_woken", "receive_woken"}
        /\ Buffered!Parking(f) /\ ~ Buffered!Parking(f)' /\ Buffered!Waits(f)'
        /\ Others(f)
  BY <1>1, QueuedFiber
<1>3. \A k \in DOMAIN fibers_ : message[fibers_[k]] \in AnyValue
  <2>1. \A k \in DOMAIN fibers_ : fibers_[k] \in Fibers
    BY <1>0
  <2> QED BY <1>0, <2>1
<1>4. CASE pc[f] = "send_woken"
  <2>1. state_' = "Senders" /\ state_ # "Receivers"
    BY <1>0, <1>1, <1>2, <1>4 DEF ParkAgrees
  <2>2. DoingOf(f) = "send" /\ DoingOf(f)' = "sent"
    BY <1>0, <1>2, <1>4, DoingIs, DoingNext DEF DoingOK
  <2>3. Receivers = << >> /\ Receivers' = << >>
    BY <2>1, SendersIs, SendersNext DEF SendersAre
  <2>4. Senders = Told(fibers_, message) /\ Senders \in Seq(AnyValue)
    <3>1. state_ = "Nobody" => fibers_ = << >> /\ Senders = << >>
      BY <1>0, Waiters, SendersIs DEF SendersAre
    <3>2. state_ = "Senders" => Senders = Told(fibers_, message)
      BY SendersIs DEF SendersAre
    <3>3. ToldOK(fibers_, message)
      BY <1>0, <1>3, Mapped
    <3>4. state_ \in {"Nobody", "Senders"}
      BY <1>0, <2>1, Waiters
    <3> QED BY <3>1, <3>2, <3>3, <3>4 DEF ToldOK
  <2>5. Senders' = Append(Senders, message[f])
    <3>1. Senders' = Told(Append(fibers_, f), message)
      BY <1>1, <1>2, <2>1, SendersNext DEF SendersAre
    <3> QED BY <1>0, <1>3, <2>4, <3>1, MappedAppend
  <2>6. Queue' = Append(Queue, message[f])
    BY <1>0, <2>4, <2>5, AppendToSecond DEF Queue
  <2> QED BY <1>1, <1>2, <2>2, <2>3, <2>6, AbstractPut DEF Refines
<1>5. CASE pc[f] = "receive_woken"
  <2>1. state_' = "Receivers" /\ state_ # "Senders" /\ Stored = << >>
    BY <1>0, <1>1, <1>2, <1>5 DEF ParkAgrees
  <2>2. DoingOf(f) = "receive" /\ DoingOf(f)' = "await"
    BY <1>0, <1>2, <1>5, DoingIs, DoingNext DEF DoingOK
  <2>3. Senders = << >> /\ Senders' = << >>
    BY <2>1, SendersIs, SendersNext DEF SendersAre
  <2>4. Receivers = fibers_ /\ Receivers' = Append(fibers_, f)
    <3>1. state_ = "Nobody" => fibers_ = << >> /\ Receivers = << >>
      BY <1>0, Waiters, SendersIs DEF SendersAre
    <3>2. state_ \in {"Nobody", "Receivers"}
      BY <1>0, <2>1, Waiters
    <3> QED BY <1>2, <2>1, <3>1, <3>2, SendersIs, SendersNext DEF SendersAre
  <2>5. Queue = << >> /\ Queue' = << >>
    BY <2>1, <2>3 DEF Queue
  <2> QED BY <1>1, <1>2, <2>2, <2>4, <2>5, AbstractAwait DEF Refines
<1> QED BY <1>2, <1>4, <1>5



\* What the scheduler and the rest of the callback do says nothing about the channel.
LEMMA SchedRefines ==
  ASSUME Machine, ChannelPart, IsChannel, UNCHANGED primitive, Stored' = Stored,
         UNCHANGED <<state_, message>>, NEW w \in Workers,
         ParkUnlock(w) \/ \E f \in Fibers : Resume(w, f) \/ Finish(w, f)
  PROVE  Refines
<1>0. /\ pc \in [Fibers -> Buffered!ChanLabels] /\ IsChannel'
      /\ cb \in [Workers -> CallbackSteps] /\ running \in [Workers -> Fibers \cup {NULL}]
      /\ cb[w] # "none" => running[w] # NULL
  BY DEF ChannelPart, Buffered!ChanTypeOK, Machine, Typed, SyncTypeOK, IsChannel
<1> DEFINE Quiet == /\ fibers_' = fibers_ /\ cb[w] # "park" /\ cb'[w] # "park"
                    /\ \A u \in Workers \ {w} : cb'[u] = cb[u] /\ running'[u] = running[u]
<1>1. Quiet
  <2>1. CASE ParkUnlock(w)
    BY <1>0, <2>1 DEF ParkUnlock, CallbackReturns
  <2>2. ASSUME NEW f \in Fibers, Resume(w, f) PROVE Quiet
    BY <1>0, <2>2 DEF Resume
  <2>3. ASSUME NEW f \in Fibers, Finish(w, f) PROVE Quiet
    BY <1>0, <2>3 DEF Finish, Runs
  <2> QED BY <2>1, <2>2, <2>3
<1>2. \A g \in Fibers : /\ Buffered!Parking(g)' <=> Buffered!Parking(g)
                        /\ Buffered!Waits(g)' <=> Buffered!Waits(g)
  BY <1>1 DEF Buffered!Parking, Buffered!Waits
<1>3. ASSUME NEW g \in Fibers, pc'[g] = pc[g] PROVE DoingOf(g)' = DoingOf(g)
  <2>1. pc[g] \in Buffered!ChanLabels
    BY <1>0
  <2> QED BY <1>2, <1>3, <2>1, DoingStays
<1>4. ASSUME NEW g \in Fibers, pc'[g] # pc[g] PROVE DoingOf(g)' = DoingOf(g)
  <2>1. pc[g] = "idle" /\ pc'[g] = "finished"
    BY <1>0, <1>4 DEF ParkUnlock, Resume, Finish, Goto
  <2> QED BY <1>0, <2>1, DoingIs, DoingNext DEF DoingOK
<1>5. \A g \in Fibers : DoingOf(g)' = DoingOf(g)
  BY <1>3, <1>4
<1> QED BY <1>1, <1>5, NothingSaid

LEMMA ChanSchedRefines ==
  ASSUME Machine, ChannelPart, IsChannel, UNCHANGED primitive, StoredFits, Stored' = Stored,
         NEW w \in Workers, Buffered!ChanSched(w),
         cb[w] = "park" /\ pc[running[w]] = "receive_woken" => Stored = << >>
  PROVE  Refines
<1>1. CASE Buffered!Enqueue(w)
  <2>1. cb[w] = "park"
    BY <1>1 DEF Buffered!Enqueue, Buffered!ParkCallback
  <2> QED BY <1>1, <2>1, EnqueueRefines
<1>2. CASE ~ Buffered!Enqueue(w)
  <2>1. UNCHANGED <<state_, message>>
    BY <1>2 DEF Buffered!ChanSched
  <2>2. ParkUnlock(w) \/ \E f \in Fibers : Resume(w, f) \/ Finish(w, f)
    BY <1>2, BufferedIs DEF Buffered!ChanSched
  <2> QED BY <2>1, <2>2, SchedRefines
<1> QED BY <1>1, <1>2

LEMMA StillRefines ==
  ASSUME UNCHANGED primitive, UNCHANGED <<syncVars, state_, message>>, Stored' = Stored
  PROVE  Refines
<1>1. UNCHANGED <<fibers_, running, cb, pc>>
  BY DEF syncVars
<1>2. \A g \in Fibers : DoingOf(g)' = DoingOf(g)
  BY <1>1 DEF DoingOf, IsChannel, Buffered!Doing, Buffered!Parking, Buffered!Waits
<1> QED BY <1>1, <1>2, NothingSaid

LEMMA RendezvousRefines ==
  ASSUME Machine, ChannelPart, primitive = "rendezvous", UNCHANGED primitive, Rendezvous!Next
  PROVE  Refines
<1>0. /\ IsChannel /\ Stored = << >> /\ Stored' = << >> /\ StoredFits
      /\ Buffered!WaitersAgree
  BY DEF IsChannel, Stored, StoredFits, ChannelPart, Agreed
<1>1. ASSUME NEW w \in Workers, NEW f \in Fibers,
             \/ Rendezvous!Lock(w, f) \/ Rendezvous!Return(w, f)
             \/ Rendezvous!Send(w, f) \/ Rendezvous!Receive(w, f)
      PROVE  Refines
  BY <1>0, <1>1, ChannelsShare, CommonRefines
<1>2. ASSUME NEW w \in Workers, Rendezvous!ChanSched(w) PROVE Refines
  BY <1>0, <1>2, ChannelsShare, ChanSchedRefines
<1>3. ASSUME NEW w \in Workers, NEW f \in Fibers, Rendezvous!SendMeets(w, f) PROVE Refines
  <2>1. /\ Runs(w, f) /\ pc[f] = "send_locked" /\ state_ = "Receivers"
        /\ message' = [message EXCEPT ![Head(fibers_)] = message[f]]
        /\ Buffered!WakeWaiter /\ Goto(f, "send_return") /\ UNCHANGED <<running, cb>>
    BY <1>3, RendezvousIs, ChannelsShare DEF Rendezvous!SendMeets
  <2> QED BY <1>0, <2>1, HandRefines
<1>4. ASSUME NEW w \in Workers, NEW f \in Fibers,
             Rendezvous!SendParks(w, f) \/ Rendezvous!ReceiveParks(w, f)
      PROVE  Refines
  <2>1. /\ Runs(w, f) /\ UNCHANGED <<fibers_, state_, message>>
        /\ \/ pc[f] = "send_locked" /\ Suspend(w, f, "park", "send_woken")
           \/ pc[f] = "receive_locked" /\ Suspend(w, f, "park", "receive_woken")
    BY <1>4, RendezvousIs DEF Rendezvous!SendParks, Rendezvous!ReceiveParks
  <2> QED BY <1>0, <2>1, ParksRefine
<1>5. ASSUME NEW w \in Workers, NEW f \in Fibers, Rendezvous!ReceiveMeets(w, f) PROVE Refines
  BY <1>5, MeetRefines
<1>6. UNCHANGED Rendezvous!vars => Refines
  <2> SUFFICES ASSUME UNCHANGED Rendezvous!vars PROVE Refines
    OBVIOUS
  <2>1. UNCHANGED <<syncVars, state_, message>>
    BY DEF Rendezvous!vars, Rendezvous!chanVars, Rendezvous!syncVars, syncVars
  <2> QED BY <1>0, <2>1, StillRefines
<1> QED BY <1>1, <1>2, <1>3, <1>4, <1>5, <1>6
        DEF Rendezvous!Next, Rendezvous!Step, Rendezvous!Inside



LEMMA ContentsStay ==
  ASSUME UNCHANGED <<data_, head_, tail_>>
  PROVE  Buffered!Contents' = Buffered!Contents
BY DEF Buffered!Contents, Buffered!Size

LEMMA BufferedRefines ==
  ASSUME Machine, BufferedPart, BufferedPart', primitive = "buffered", UNCHANGED primitive,
         Buffered!Next
  PROVE  Refines
<1>0. /\ IsChannel /\ ChannelPart /\ BufferTyped /\ BufferTyped' /\ BufferAgrees
      /\ Buffered!WaitersAgree /\ message \in [Fibers -> AnyValue]
      /\ Stored = Buffered!Contents /\ Stored' = Buffered!Contents'
  BY DEF IsChannel, BufferedPart, ChannelPart, Agreed, Stored, Buffered!ChanTypeOK, AnyValue
<1>1. StoredFits /\ (Buffered!IsEmpty => Stored = << >>)
  BY <1>0, ContentsTyped, BoundsAssumption DEF StoredFits
<1>2. ASSUME UNCHANGED Buffered!buffer PROVE Stored' = Stored
  BY <1>0, <1>2, ContentsStay DEF Buffered!buffer
<1>3. ASSUME NEW w \in Workers, NEW f \in Fibers, UNCHANGED Buffered!buffer,
             \/ Buffered!Lock(w, f) \/ Buffered!Return(w, f)
             \/ Buffered!Send(w, f) \/ Buffered!Receive(w, f)
      PROVE  Refines
  BY <1>0, <1>1, <1>2, <1>3, CommonRefines
<1>4. ASSUME NEW w \in Workers, Buffered!ChanSched(w), UNCHANGED Buffered!buffer PROVE Refines
  <2>1. cb[w] = "park" /\ pc[running[w]] = "receive_woken" => Stored = << >>
    BY <1>0, <1>1 DEF BufferAgrees
  <2> QED BY <1>0, <1>1, <1>2, <1>4, <2>1, ChanSchedRefines
<1>5. ASSUME NEW w \in Workers, NEW f \in Fibers, Buffered!SendToReceiver(w, f) PROVE Refines
  <2>1. /\ Runs(w, f) /\ pc[f] = "send_locked" /\ state_ = "Receivers"
        /\ message' = [message EXCEPT ![Head(fibers_)] = message[f]]
        /\ Buffered!WakeWaiter /\ Goto(f, "send_return") /\ UNCHANGED <<running, cb>>
        /\ UNCHANGED Buffered!buffer
    BY <1>5, BufferedIs DEF Buffered!SendToReceiver
  <2> QED BY <1>0, <1>2, <2>1, HandRefines
<1>6. ASSUME NEW w \in Workers, NEW f \in Fibers,
             Buffered!SendParks(w, f) \/ Buffered!ReceiveParks(w, f)
      PROVE  Refines
  <2>1. /\ Runs(w, f) /\ UNCHANGED <<fibers_, state_, message>> /\ UNCHANGED Buffered!buffer
        /\ \/ pc[f] = "send_locked" /\ Suspend(w, f, "park", "send_woken")
           \/ pc[f] = "receive_locked" /\ Suspend(w, f, "park", "receive_woken")
    BY <1>6, BufferedIs DEF Buffered!SendParks, Buffered!ReceiveParks
  <2> QED BY <1>0, <1>2, <2>1, ParksRefine
<1>7. ASSUME NEW w \in Workers, NEW f \in Fibers, Buffered!SendEmplaces(w, f) PROVE Refines
  <2>1. /\ Runs(w, f) /\ pc[f] = "send_locked" /\ Goto(f, "send_return")
        /\ UNCHANGED <<fibers_, running, cb, state_, message, head_>>
        /\ state_ # "Receivers" /\ ~ Buffered!IsFull
        /\ data_' = [data_ EXCEPT ![tail_] = message[f]]
        /\ tail_' = (tail_ + 1) % Buffered!capacity_
    BY <1>7, BufferedIs DEF Buffered!SendEmplaces, Buffered!scheduler
  <2>2. state_ = "Nobody"
    BY <1>0, <2>1, Waiters DEF BufferAgrees
  <2>3. tail_' = After(tail_)
    BY <1>0, <2>1, AroundIs DEF BufferTyped
  <2>4. message[f] \in AnyValue
    BY <1>0
  <2>5. Stored' = Append(Stored, message[f])
    BY <1>0, <2>1, <2>3, <2>4, ContentsPut
  <2> QED BY <1>0, <1>1, <2>1, <2>2, <2>5, EmplaceRefines
<1>8. ASSUME NEW w \in Workers, NEW f \in Fibers, Buffered!ReceivePops(w, f) PROVE Refines
  BY <1>0, <1>8, PopRefines
<1>9. UNCHANGED Buffered!vars => Refines
  <2> SUFFICES ASSUME UNCHANGED Buffered!vars PROVE Refines
    OBVIOUS
  <2>1. UNCHANGED <<syncVars, state_, message>> /\ UNCHANGED Buffered!buffer
    BY DEF Buffered!vars, Buffered!chanVars, Buffered!syncVars, syncVars
  <2> QED BY <1>2, <2>1, StillRefines
<1> QED BY <1>3, <1>4, <1>5, <1>6, <1>7, <1>8, <1>9
        DEF Buffered!Next, Buffered!Step, Buffered!Inside

\* The mutex and the wait group leave the channel alone.
LEMMA IdleRefines ==
  ASSUME ~ IsChannel, state_ = "Nobody", UNCHANGED <<primitive, state_, message>>
  PROVE  Refines
<1>1. ~ IsChannel' /\ primitive # "buffered" /\ primitive' # "buffered"
  BY DEF IsChannel
<1>2. \A g \in Fibers : DoingOf(g)' = DoingOf(g)
  BY <1>1 DEF DoingOf
<1>3. /\ Senders = << >> /\ Senders' = << >> /\ Receivers = << >> /\ Receivers' = << >>
  BY SendersIs, SendersNext DEF SendersAre
<1>4. Stored = << >> /\ Stored' = << >>
  BY <1>1 DEF Stored
<1>5. Queue' = Queue /\ Receivers' = Receivers
  BY <1>3, <1>4 DEF Queue
<1> QED BY <1>2, <1>5, AbstractStutters DEF Refines

LEMMA EachStepRefines ==
  ASSUME InUse, InUse', PrimitivesNext \/ UNCHANGED allVars
  PROVE  Refines
<1>1. Machine /\ primitive' = primitive
  BY DEF InUse, PrimitivesNext, allVars
<1>2. CASE OfMutex(Next) \/ OfGroup(WG!Next)
  <2>1. /\ primitive \in {"mutex", "wait group"} /\ UNCHANGED <<state_, message>>
    BY <1>2 DEF OfMutex, OfGroup, channelVars
  <2>2. ~ IsChannel /\ state_ = "Nobody"
    BY <2>1 DEF InUse, IsChannel
  <2> QED BY <1>1, <2>1, <2>2, IdleRefines
<1>3. CASE OfBuffered(Buffered!Next)
  <2>1. primitive = "buffered" /\ primitive' = "buffered" /\ Buffered!Next
    BY <1>1, <1>3 DEF OfBuffered
  <2>2. BufferedPart /\ BufferedPart'
    BY <2>1 DEF InUse
  <2> QED BY <1>1, <2>1, <2>2, BufferedRefines
<1>4. CASE OfRendezvous(Rendezvous!Next)
  <2>1. primitive = "rendezvous" /\ Rendezvous!Next
    BY <1>4 DEF OfRendezvous
  <2>2. ChannelPart
    BY <2>1 DEF InUse
  <2> QED BY <1>1, <2>1, <2>2, RendezvousRefines
<1>5. CASE UNCHANGED allVars
  <2>1. UNCHANGED <<syncVars, state_, message, data_, head_, tail_>>
    BY <1>5 DEF allVars, vars, channelVars, slotVars
  <2>2. Stored' = Stored
    BY <1>1, <2>1, ContentsStay DEF Stored
  <2> QED BY <1>1, <2>1, <2>2, StillRefines
<1> QED BY <1>2, <1>3, <1>4, <1>5 DEF PrimitivesNext

LEMMA ChannelStarts == PrimitivesInit => ChannelOfValues!Init
<1> SUFFICES ASSUME PrimitivesInit PROVE ChannelOfValues!Init
  OBVIOUS
<1>1. /\ SyncInit /\ state_ = "Nobody" /\ message = [f \in Fibers |-> Buffered!NONE]
      /\ head_ = 0 /\ tail_ = 0 /\ BufferedPart
  BY BufferedIs, BufferedStart DEF PrimitivesInit, Buffered!Init, Buffered!ChanInit
<1>2. Senders = << >> /\ Receivers = << >>
  BY <1>1, SendersIs DEF SendersAre
<1>3. Stored = << >>
  <2>1. Buffered!IsEmpty
    BY <1>1 DEF Buffered!IsEmpty, Buffered!Size
  <2> QED BY <1>1, <2>1, ContentsTyped DEF BufferedPart, Stored
<1>4. Queue = << >>
  BY <1>2, <1>3 DEF Queue
<1>5. \A f \in Fibers : DoingOf(f) = "idle"
  BY <1>1, DoingIs DEF DoingOK, DoingOf, SyncInit
<1>6. [f \in Fibers |-> DoingOf(f)] = [f \in Fibers |-> "idle"]
  BY <1>5
<1>7. (IF primitive = "buffered" THEN Capacity ELSE 0) \in Nat
  BY BoundsAssumption
<1> QED BY <1>1, <1>2, <1>4, <1>6, <1>7
        DEF ChannelOfValues!Init, Queue, Stored, Senders, Receivers, DoingOf

\* The channels implement Channel: the values are received in the order in which they were
\* sent, by the receivers in the order in which they came, and a Send returns when its value
\* has been received or is one of the first Capacity that have not.
THEOREM ChannelsAreQueues == PrimitivesSpec => ChannelSpec
<1>1. InUse /\ InUse' /\ [PrimitivesNext]_allVars => [ChannelOfValues!Next]_ChannelOfValues!vars
  BY EachStepRefines DEF Refines
<1> QED BY <1>1, ChannelStarts, PrimitivesSafety, PTL
        DEF PrimitivesSpec, ChannelSpec, ChannelOfValues!Spec

=============================================================================

------------------------- MODULE StealingRuntimeProofs -------------------------
(* Proofs about WorkStealingPool and, above it, about StealingRuntime, for any *)
(* workers, tasks, sizes of queues, delays and bound of time: no task is lost *)
(* or run twice, the coordinator finds every worker that sleeps, and no wake-up *)
(* is lost, with the timer thread as a second thread outside the pool, too.   *)
(* The lemmas about single steps do not assume that the pool is alone: the    *)
(* runtime adds a label of workers and labels of the client.                  *)
EXTENDS StealingRuntime, SequenceTheorems, FiniteSetTheorems, TLAPS

-----------------------------------------------------------------------------
(* WorkStealingPool: the steps of the workers, the coordinator and the client *)

AllLabels == Labels \cup {"set"}
ClientLabels == {"client", "set", "notify", "wake", "stop", "stopwake", "join", "joined",
                 "timer_join", "finished"}
Returns == {"run", "unpack", "unlinkfound", "notify"}

\* The types of the queues and of what workers hold ...
DataTypes ==
  /\ global_queue_ \in Seq(Tasks)
  /\ local_queue_ \in [Workers -> Seq(Tasks)]
  /\ \A w \in Workers : Len(local_queue_[w]) <= Capacity
  /\ lifo_slot_ \in [Workers -> Tasks \cup {NULL}]
  /\ next \in [Workers -> Tasks \cup {NULL}]
  /\ buffer \in [Workers -> Seq(Tasks)]
  /\ batch \in [Workers -> Seq(Tasks)]
  /\ submitted \subseteq Tasks
  /\ done \subseteq submitted

\* ... and of what says where workers, the coordinator and the client are.
ControlTypes ==
  /\ filo_chain_ \in [Workers -> 0 .. FILOMaxChain]
  /\ iter_ \in [Workers -> 0 .. PollPeriod - 1]
  /\ wakeups_ \in [Workers -> BOOLEAN]
  /\ has_stopped_ \in [Workers -> BOOLEAN]
  /\ stopped_ \in Seq(Workers)
  /\ approximate_size_ \in Nat
  /\ pc \in [Workers -> AllLabels]
  /\ second \in [Workers -> BOOLEAN]
  /\ victim \in [Workers -> 0 .. NumThreads + 2]
  /\ ret \in [Workers -> Returns]
  /\ mpc \in ClientLabels
  /\ mworker \in Workers

\* The calls of a worker that go on at ret.
Calls == {"offload", "pushmany", "notify", "wake"}

Sleeping == {"checkstop", "park", "asleep"}

\* What a worker holds, by where it is: no call keeps what it should have passed on.
HoldsOK(w) ==
  /\ pc[w] \notin Calls => ret[w] = "run"
  /\ pc[w] \in {"offload", "pushmany"} => ret[w] # "run"
  /\ buffer[w] # << >> <=> pc[w] = "unpack" \/ (pc[w] \in Calls /\ ret[w] = "unpack")
  /\ batch[w] # << >> => pc[w] \in {"offload", "pushmany"}
  /\ next[w] = NULL <=> pc[w] \notin Calls \cup {"unpack", "unlinkfound", "run", "set"}

\* Only a worker that is inside PickTask, or unpacks what its second look has found,
\* counts as stopped.
SecondOK(w) ==
  LET searching == pc[w] \in {"get", "getglobal", "steal"}
      found == pc[w] \in {"unpack", "unlinkfound"}
               \/ (pc[w] \in Calls /\ ret[w] \in {"unpack", "unlinkfound"})
      leaving == pc[w] \in Sleeping \cup {"exit", "unlink"}
  IN
  /\ second[w] => searching \/ found \/ leaving
  /\ leaving \/ pc[w] = "unlinkfound" \/ (pc[w] \in Calls /\ ret[w] = "unlinkfound") => second[w]

\* A worker that looks beyond its own queues has left nothing there.
LooksOK(w) ==
  LET beyond == pc[w] \in {"getglobal", "steal", "addstopped"}
      leaving == pc[w] \in Sleeping \cup {"exit", "unlink", "exited"}
  IN
  /\ beyond \/ leaving => local_queue_[w] = << >> /\ filo_chain_[w] = 0
  /\ second[w] /\ pc[w] = "get" => filo_chain_[w] = 0
  /\ leaving \/ (second[w] /\ beyond) => lifo_slot_[w] = NULL
  /\ pc[w] = "steal" => victim[w] >= 1

ControlOK == \A w \in Workers : HoldsOK(w) /\ SecondOK(w) /\ LooksOK(w)

\* No two elements of a sequence are the same.
Distinct(s) == \A i, j \in DOMAIN s : s[i] = s[j] => i = j

\* stopped_ has the workers that are between AddStoppedWorker and Unlink, but those that
\* WakeWorker has taken out, which have their Wake.
StoppedOK ==
  /\ Distinct(stopped_)
  /\ Len(stopped_) <= approximate_size_
  /\ \A w \in Workers : Linked(w) => second[w]
  /\ \A w \in Workers : second[w] /\ ~ wakeups_[w] => Linked(w)

\* Stop joins the workers.
JoinedOK == mpc \in {"joined", "timer_join", "finished"} => \A w \in Workers : pc[w] = "exited"

ControlGood == ControlTypes /\ ControlOK /\ StoppedOK /\ JoinedOK

-----------------------------------------------------------------------------
(* Where each task is.                                                     *)

Kinds == {"local", "buffer", "batch", "lifo", "next"}
GlobalPlace == <<"global", 0>>
Places == (Kinds \X Workers) \cup {GlobalPlace}

Content(p) ==
  LET k == p[1]
      w == p[2]
  IN CASE k = "global" -> SeqRange(global_queue_)
       [] k = "local" -> SeqRange(local_queue_[w])
       [] k = "buffer" -> SeqRange(buffer[w])
       [] k = "batch" -> SeqRange(batch[w])
       [] k = "lifo" -> {lifo_slot_[w]} \ {NULL}
       [] k = "next" -> {next[w]} \ {NULL}

Contents == [p \in Places |-> Content(p)]

\* No task is in two places ...
Apart(c) == \A p, q \in DOMAIN c : p # q => c[p] \cap c[q] = {}
Total(c) == UNION {c[p] : p \in DOMAIN c}

\* ... or twice in one, and what the pool holds has been submitted and has not run.
OnceOK ==
  /\ Apart(Contents)
  /\ Distinct(global_queue_)
  /\ \A w \in Workers : Distinct(local_queue_[w]) /\ Distinct(buffer[w]) /\ Distinct(batch[w])
  /\ Total(Contents) \subseteq submitted \ done

\* What was submitted, has not run, and is not in the pool.
Outside == (submitted \ done) \ Total(Contents)

-----------------------------------------------------------------------------
(* Who looks for tasks.                                                    *)

\* Queue 0 is the global queue.
Queue(q) == IF q = 0 THEN global_queue_ ELSE local_queue_[q]
QueueIds == 0 .. NumThreads

\* Worker w, which counts as stopped and has no Wake, has found queue q empty.
Passed(w, q) ==
  /\ second[w] /\ ~ wakeups_[w]
  /\ \/ pc[w] \in Sleeping
     \/ pc[w] = "getglobal" /\ q = w
     \/ pc[w] = "steal" /\ (q = w \/ q < victim[w])

\* It will look at queue q before it sleeps, or at stopped_.
Looks(w, q) == pc[w] \notin {"run", "set"} /\ ~ Passed(w, q)

\* There is a task, a worker that will not find it, and nobody that will see to it.
Stranded(q) ==
  /\ Queue(q) # << >>
  /\ \E w \in Workers : Passed(w, q)
  /\ \A w \in Workers : ~ Looks(w, q)

NothingStranded == \A q \in QueueIds : ~ Stranded(q)

\* Only a thread outside, which has not looked at stopped_ yet, leaves one.
StrandedOK == NothingStranded \/ mpc \in {"notify", "wake"}

\* No worker is in Set, which the runtime adds, and the client knows no timer thread.
Alone == (\A w \in Workers : pc[w] # "set") /\ mpc \notin {"set", "timer_join", "finished"}

PoolInv == DataTypes /\ ControlGood /\ OnceOK /\ Outside = {} /\ StrandedOK /\ Alone

-----------------------------------------------------------------------------
(* Sequences without repetition, and their sets of elements.               *)

\* The elements of a sequence have indices.
LEMMA RangeIndex ==
  ASSUME NEW S, NEW s \in Seq(S), NEW e
  PROVE  /\ SeqRange(s) \subseteq S
         /\ e \in SeqRange(s) <=> \E i \in 1 .. Len(s) : s[i] = e
         /\ SeqRange(s) = {} <=> s = << >>
         /\ SeqRange(<< >>) = {} /\ Distinct(<< >>)
BY DEF SeqRange, Distinct

LEMMA OneElement ==
  ASSUME NEW S, NEW e \in S
  PROVE  /\ <<e>> \in Seq(S) /\ Len(<<e>>) = 1 /\ Head(<<e>>) = e /\ Tail(<<e>>) = << >>
         /\ SeqRange(<<e>>) = {e}
         /\ Distinct(<<e>>)
BY DEF SeqRange, Distinct

LEMMA ConcatRange ==
  ASSUME NEW S, NEW s \in Seq(S), NEW t \in Seq(S)
  PROVE  /\ s \o t \in Seq(S)
         /\ Len(s \o t) = Len(s) + Len(t)
         /\ SeqRange(s \o t) = SeqRange(s) \cup SeqRange(t)
<1>1. s \o t \in Seq(S) /\ Len(s \o t) = Len(s) + Len(t)
  BY ConcatProperties
<1>2. ASSUME NEW e, e \in SeqRange(s \o t)
      PROVE  e \in SeqRange(s) \cup SeqRange(t)
  <2>1. PICK i \in 1 .. Len(s \o t) : (s \o t)[i] = e
    BY <1>1, <1>2, RangeIndex
  <2>2. CASE i <= Len(s)
    BY <1>1, <2>1, <2>2, ConcatProperties, RangeIndex
  <2>3. CASE i > Len(s)
    <3>1. i - Len(s) \in 1 .. Len(t) /\ t[i - Len(s)] = e
      BY <1>1, <2>1, <2>3, ConcatProperties
    <3> QED BY <3>1, RangeIndex
  <2> QED BY <2>1, <2>2, <2>3
<1>3. ASSUME NEW e, e \in SeqRange(s) \cup SeqRange(t)
      PROVE  e \in SeqRange(s \o t)
  <2>1. CASE e \in SeqRange(s)
    <3>1. PICK i \in 1 .. Len(s) : s[i] = e
      BY <2>1, RangeIndex
    <3>2. i \in DOMAIN (s \o t) /\ (s \o t)[i] = e
      BY <1>1, <3>1, ConcatProperties
    <3> QED BY <3>2 DEF SeqRange
  <2>2. CASE e \in SeqRange(t)
    <3>1. PICK i \in 1 .. Len(t) : t[i] = e
      BY <2>2, RangeIndex
    <3>2. i + Len(s) \in DOMAIN (s \o t) /\ (s \o t)[i + Len(s)] = e
      BY <1>1, <3>1, ConcatProperties
    <3> QED BY <3>2 DEF SeqRange
  <2> QED BY <1>3, <2>1, <2>2
<1> QED BY <1>1, <1>2, <1>3

LEMMA ConcatDistinct ==
  ASSUME NEW S, NEW s \in Seq(S), NEW t \in Seq(S), Distinct(s), Distinct(t),
         SeqRange(s) \cap SeqRange(t) = {}
  PROVE  Distinct(s \o t)
<1>1. s \o t \in Seq(S) /\ Len(s \o t) = Len(s) + Len(t) /\ DOMAIN (s \o t) = 1 .. Len(s) + Len(t)
  BY ConcatProperties
<1>2. SUFFICES ASSUME NEW i \in 1 .. Len(s) + Len(t), NEW j \in 1 .. Len(s) + Len(t),
                      (s \o t)[i] = (s \o t)[j], i <= j
               PROVE  i = j
  BY <1>1 DEF Distinct
<1>3. CASE j <= Len(s)
  BY <1>2, <1>3, ConcatProperties DEF Distinct
<1>4. CASE i > Len(s)
  <2>1. i - Len(s) \in DOMAIN t /\ j - Len(s) \in DOMAIN t /\ t[i - Len(s)] = t[j - Len(s)]
    BY <1>2, <1>4, ConcatProperties
  <2>2. i - Len(s) = j - Len(s)
    BY <2>1 DEF Distinct
  <2> QED BY <2>2
<1>5. CASE i <= Len(s) /\ j > Len(s)
  <2>1. s[i] \in SeqRange(s)
    BY <1>2, <1>5 DEF SeqRange
  <2>2. t[j - Len(s)] \in SeqRange(t)
    BY <1>2, <1>5 DEF SeqRange
  <2>3. s[i] = t[j - Len(s)]
    BY <1>2, <1>5, ConcatProperties
  <2> QED BY <2>1, <2>2, <2>3
<1> QED BY <1>2, <1>3, <1>4, <1>5

LEMMA AppendRange ==
  ASSUME NEW S, NEW s \in Seq(S), NEW e \in S
  PROVE  /\ Append(s, e) \in Seq(S) /\ Append(s, e) # << >>
         /\ Len(Append(s, e)) = Len(s) + 1
         /\ SeqRange(Append(s, e)) = SeqRange(s) \cup {e}
         /\ Distinct(s) /\ e \notin SeqRange(s) => Distinct(Append(s, e))
<1> DEFINE t == <<e>>
<1>1. Append(s, e) = s \o t /\ t \in Seq(S)
  BY AppendIsConcat
<1>2. Append(s, e) \in Seq(S) /\ Append(s, e) # << >> /\ Len(Append(s, e)) = Len(s) + 1
  BY AppendProperties
<1>3. SeqRange(t) = {e} /\ Distinct(t)
  BY OneElement
<1> HIDE DEF t
<1>4. SeqRange(Append(s, e)) = SeqRange(s) \cup {e}
  BY <1>1, <1>3, ConcatRange
<1>5. ASSUME Distinct(s), e \notin SeqRange(s) PROVE Distinct(Append(s, e))
  <2>1. SeqRange(s) \cap SeqRange(t) = {}
    BY <1>3, <1>5
  <2> QED BY <1>1, <1>3, <1>5, <2>1, ConcatDistinct
<1> QED BY <1>2, <1>4, <1>5

\* A sequence is cut in two.
LEMMA Split ==
  ASSUME NEW S, NEW s \in Seq(S), NEW n \in 0 .. Len(s)
  PROVE  LET a == SubSeq(s, 1, n)
             b == SubSeq(s, n + 1, Len(s))
         IN /\ a \in Seq(S) /\ b \in Seq(S) /\ Len(a) = n /\ Len(b) = Len(s) - n
            /\ SeqRange(s) = SeqRange(a) \cup SeqRange(b)
            /\ Distinct(s) => Distinct(a) /\ Distinct(b) /\ SeqRange(a) \cap SeqRange(b) = {}
<1> DEFINE a == SubSeq(s, 1, n)
           b == SubSeq(s, n + 1, Len(s))
<1>1. a \in Seq(S) /\ Len(a) = n /\ \A i \in 1 .. n : a[i] = s[i]
  <2>1. \A i \in 1 .. n : s[i] \in S
    BY ElementOfSeq
  <2> QED BY <2>1, SubSeqProperties
<1>2. b \in Seq(S) /\ Len(b) = Len(s) - n /\ \A i \in 1 .. Len(s) - n : b[i] = s[n + i]
  <2>1. \A i \in n + 1 .. Len(s) : s[i] \in S
    BY ElementOfSeq
  <2>2. Len(s) \in Nat
    BY LenProperties
  <2>3. /\ b \in Seq(S) /\ Len(b) = IF n + 1 <= Len(s) THEN Len(s) - (n + 1) + 1 ELSE 0
        /\ \A i \in 1 .. Len(s) - (n + 1) + 1 : b[i] = s[n + 1 + i - 1]
    BY <2>1, <2>2, SubSeqProperties
  <2> QED BY <2>2, <2>3
<1> HIDE DEF a, b
<1>3. ASSUME NEW e, e \in SeqRange(s) PROVE e \in SeqRange(a) \cup SeqRange(b)
  <2>1. PICK i \in 1 .. Len(s) : s[i] = e
    BY <1>3, RangeIndex
  <2>2. CASE i <= n
    <3>1. i \in 1 .. Len(a) /\ a[i] = e
      BY <1>1, <2>1, <2>2
    <3> QED BY <1>1, <3>1, RangeIndex
  <2>3. CASE i > n
    <3>1. i - n \in 1 .. Len(b) /\ b[i - n] = e
      BY <1>2, <2>1, <2>3
    <3> QED BY <1>2, <3>1, RangeIndex
  <2> QED BY <2>1, <2>2, <2>3
<1>4. ASSUME NEW i \in 1 .. Len(a) PROVE i \in 1 .. Len(s) /\ a[i] = s[i] /\ i <= n
  BY <1>1
<1>5. ASSUME NEW i \in 1 .. Len(b) PROVE i + n \in 1 .. Len(s) /\ b[i] = s[i + n]
  BY <1>2
<1>6. SeqRange(a) \subseteq SeqRange(s)
  BY <1>1, <1>4, RangeIndex
<1>7. SeqRange(b) \subseteq SeqRange(s)
  BY <1>2, <1>5, RangeIndex, SMTT(30)
<1>8. ASSUME Distinct(s)
      PROVE  Distinct(a) /\ Distinct(b) /\ SeqRange(a) \cap SeqRange(b) = {}
  <2>1. \A i, j \in 1 .. Len(s) : s[i] = s[j] => i = j
    BY <1>8 DEF Distinct
  <2>2. Distinct(a)
    BY <1>1, <1>4, <2>1 DEF Distinct
  <2>3. ASSUME NEW i \in 1 .. Len(b), NEW j \in 1 .. Len(b), b[i] = b[j] PROVE i = j
    <3>1. i + n = j + n
      BY <1>5, <2>1, <2>3
    <3> QED BY <3>1, <1>2
  <2>4. Distinct(b)
    BY <1>2, <2>3 DEF Distinct
  <2>5. ASSUME NEW e \in SeqRange(a), e \in SeqRange(b) PROVE FALSE
    <3>1. PICK i \in 1 .. Len(a) : a[i] = e
      BY <1>1, <2>5, RangeIndex
    <3>2. PICK j \in 1 .. Len(b) : b[j] = e
      BY <1>2, <2>5, RangeIndex
    <3>3. i = j + n
      BY <1>4, <1>5, <2>1, <3>1, <3>2
    <3> QED BY <1>1, <1>4, <3>1, <3>2, <3>3
  <2> QED BY <2>2, <2>4, <2>5
<1> QED BY <1>1, <1>2, <1>3, <1>6, <1>7, <1>8 DEF a, b

LEMMA HeadTailRange ==
  ASSUME NEW S, NEW s \in Seq(S), s # << >>
  PROVE  /\ Head(s) \in S /\ Tail(s) \in Seq(S) /\ Len(Tail(s)) = Len(s) - 1
         /\ Tail(s) = << >> <=> Len(s) = 1
         /\ SeqRange(s) = {Head(s)} \cup SeqRange(Tail(s))
         /\ Distinct(s) => Distinct(Tail(s)) /\ Head(s) \notin SeqRange(Tail(s))
<1>1. Len(s) \in Nat \ {0} /\ 1 \in 0 .. Len(s)
  BY EmptySeq
<1>2. Head(s) \in S /\ Tail(s) \in Seq(S) /\ Len(Tail(s)) = Len(s) - 1
      /\ Tail(s) = SubSeq(s, 1 + 1, Len(s))
  BY HeadTailProperties, TailIsSubSeq
<1> DEFINE a == SubSeq(s, 1, 1)
<1>3. SeqRange(a) = {Head(s)}
  <2>1. \A i \in 1 .. 1 : s[i] \in S
    BY <1>1, ElementOfSeq
  <2>2. a \in Seq(S) /\ Len(a) = 1 /\ a[1] = s[1]
    BY <2>1, SubSeqProperties
  <2>3. s[1] = Head(s)
    BY <1>1
  <2> HIDE DEF a
  <2>4. DOMAIN a = {1}
    BY <2>2, LenProperties
  <2> QED BY <2>2, <2>3, <2>4 DEF SeqRange
<1>4. Tail(s) = << >> <=> Len(s) = 1
  BY <1>1, <1>2, EmptySeq
<1>5. /\ SeqRange(s) = SeqRange(a) \cup SeqRange(Tail(s))
      /\ Distinct(s) => Distinct(Tail(s)) /\ SeqRange(a) \cap SeqRange(Tail(s)) = {}
  <2> DEFINE b == SubSeq(s, 1 + 1, Len(s))
  <2>1. /\ SeqRange(s) = SeqRange(a) \cup SeqRange(b)
        /\ Distinct(s) => Distinct(b) /\ SeqRange(a) \cap SeqRange(b) = {}
    BY <1>1, Split
  <2>2. b = Tail(s)
    BY <1>2
  <2> HIDE DEF a, b
  <2> QED BY <2>1, <2>2
<1> QED BY <1>2, <1>3, <1>4, <1>5

\* Removing the element at k, in the middle of a sequence.
LEMMA RemoveRange ==
  ASSUME NEW S, NEW s \in Seq(S), Distinct(s), NEW k \in DOMAIN s
  PROVE  LET r == SubSeq(s, 1, k - 1) \o SubSeq(s, k + 1, Len(s))
         IN r \in Seq(S) /\ Distinct(r) /\ Len(r) = Len(s) - 1 /\ SeqRange(r) = SeqRange(s) \ {s[k]}
<1> DEFINE a == SubSeq(s, 1, k - 1)
           b == SubSeq(s, k - 1 + 1, Len(s))
           c == SubSeq(s, k + 1, Len(s))
<1>1. k \in 1 .. Len(s) /\ k - 1 \in 0 .. Len(s) /\ Len(s) \in Nat
  BY LenProperties
<1>2. /\ a \in Seq(S) /\ b \in Seq(S) /\ Len(a) = k - 1 /\ Len(b) = Len(s) - (k - 1)
      /\ SeqRange(s) = SeqRange(a) \cup SeqRange(b)
      /\ Distinct(a) /\ Distinct(b) /\ SeqRange(a) \cap SeqRange(b) = {}
  BY <1>1, Split
<1>3. Head(b) = s[k] /\ Tail(b) = c /\ b # << >>
  <2>1. Len(s) \in k .. Len(s) /\ k - 1 + 1 = k
    BY <1>1
  <2>2. Len(b) # 0
    BY <1>1, <1>2
  <2>3. b # << >>
    BY <1>2, <2>2, EmptySeq
  <2> QED BY <1>1, <2>1, <2>3, HeadTailOfSubSeq
<1> HIDE DEF a, b, c
<1>4. /\ c \in Seq(S) /\ Len(c) = Len(b) - 1 /\ SeqRange(b) = {s[k]} \cup SeqRange(c)
      /\ Distinct(c) /\ s[k] \notin SeqRange(c)
  <2>1. /\ Tail(b) \in Seq(S) /\ Len(Tail(b)) = Len(b) - 1
        /\ SeqRange(b) = {Head(b)} \cup SeqRange(Tail(b))
        /\ Distinct(Tail(b)) /\ Head(b) \notin SeqRange(Tail(b))
    BY <1>2, <1>3, HeadTailRange
  <2> QED BY <1>3, <2>1
<1>5. a \o c \in Seq(S) /\ Len(a \o c) = Len(a) + Len(c) /\ SeqRange(a \o c) = SeqRange(a) \cup SeqRange(c)
  <2>1. a \in Seq(S) /\ c \in Seq(S)
    BY <1>2, <1>4
  <2> QED BY <2>1, ConcatRange
<1>6. Distinct(a \o c)
  BY <1>2, <1>4, ConcatDistinct
<1>7. Len(a \o c) = Len(s) - 1
  <2>1. Len(a \o c) = (k - 1) + (Len(b) - 1) /\ Len(b) = Len(s) - (k - 1)
    BY <1>2, <1>4, <1>5
  <2> QED BY <1>1, <2>1
<1> QED BY <1>2, <1>4, <1>5, <1>6, <1>7 DEF a, c

LEMMA DistinctCardinality ==
  ASSUME NEW S, NEW s \in Seq(S), Distinct(s)
  PROVE  Cardinality(SeqRange(s)) = Len(s)
<1>1. Len(s) \in Nat /\ DOMAIN s = 1 .. Len(s)
  BY LenProperties
<1>2. s \in Bijection(1 .. Len(s), SeqRange(s))
  BY <1>1 DEF Bijection, Injection, Surjection, IsInjective, SeqRange, Distinct
<1>3. IsFiniteSet(1 .. Len(s)) /\ Cardinality(1 .. Len(s)) = Len(s)
  BY <1>1, FS_Interval, SMTT(30)
<1> QED BY <1>2, <1>3, FS_Bijection DEF ExistsBijection

-----------------------------------------------------------------------------
(* What steps have in common: where workers are.                           *)

\* What the steps of others do with worker x: they wake it, or steal from it.
Kept(x) ==
  /\ pc'[x] = pc[x] \/ (pc[x] = "asleep" /\ pc'[x] = "unlink")
  /\ ret'[x] = ret[x] /\ next'[x] = next[x] /\ buffer'[x] = buffer[x] /\ batch'[x] = batch[x]
  /\ second'[x] = second[x] /\ filo_chain_'[x] = filo_chain_[x] /\ victim'[x] = victim[x]
  /\ lifo_slot_'[x] = lifo_slot_[x]
  /\ local_queue_[x] = << >> => local_queue_'[x] = << >>

WorkerOK(w) == HoldsOK(w) /\ SecondOK(w) /\ LooksOK(w)

LEMMA KeptOK ==
  ASSUME NEW x \in Workers, WorkerOK(x), Kept(x)
  PROVE  WorkerOK(x)'
<1>1. HoldsOK(x)'
  BY DEF WorkerOK, HoldsOK, Kept, Calls
<1>2. SecondOK(x)'
  BY DEF WorkerOK, SecondOK, Kept, Calls, Sleeping
<1>3. LooksOK(x)'
  BY DEF WorkerOK, LooksOK, Kept, Sleeping
<1> QED BY <1>1, <1>2, <1>3 DEF WorkerOK

\* A step of worker w, of those that have not ended.
LEMMA WorkerStep ==
  ASSUME ControlOK, JoinedOK, NEW w \in Workers, pc[w] # "exited", mpc' = mpc,
         \A x \in Workers \ {w} : Kept(x), WorkerOK(w)'
  PROVE  ControlOK' /\ JoinedOK'
<1>1. ASSUME NEW x \in Workers PROVE WorkerOK(x)'
  BY <1>1, KeptOK DEF ControlOK, WorkerOK
<1> QED BY <1>1 DEF ControlOK, WorkerOK, JoinedOK

LEMMA StoppedKept ==
  ASSUME StoppedOK, UNCHANGED <<wakeups_, stopped_, approximate_size_, second>>
  PROVE  StoppedOK'
BY DEF StoppedOK, Distinct, Linked

\* Worker w has found tasks.
LEMMA FoundEffect ==
  ASSUME DataTypes, ControlTypes, NEW w \in Workers, NEW tasks \in Seq(Tasks), tasks # << >>,
         Found(w, tasks)
  PROVE  /\ next' \in [Workers -> Tasks \cup {NULL}] /\ buffer' \in [Workers -> Seq(Tasks)]
         /\ pc' \in [Workers -> AllLabels]
         /\ next'[w] = Head(tasks) /\ next'[w] # NULL /\ buffer'[w] = Tail(tasks)
         /\ pc'[w] = IF buffer'[w] # << >> THEN "unpack" ELSE Chosen(w)
         /\ \A x \in Workers \ {w} : next'[x] = next[x] /\ buffer'[x] = buffer[x] /\ pc'[x] = pc[x]
<1>1. /\ Head(tasks) \in Tasks /\ Tail(tasks) \in Seq(Tasks) /\ Len(tasks) \in Nat \ {0}
      /\ Tail(tasks) = << >> <=> Len(tasks) = 1
  BY HeadTailRange, EmptySeq
<1>2. Head(tasks) # NULL
  BY <1>1, PoolAssumption
<1>3. next' = [next EXCEPT ![w] = Head(tasks)] /\ buffer' = [buffer EXCEPT ![w] = Tail(tasks)]
      /\ pc' = [pc EXCEPT ![w] = IF Len(tasks) > 1 THEN "unpack" ELSE Chosen(w)]
  BY DEF Found, Goto
<1>4. Chosen(w) \in AllLabels /\ "unpack" \in AllLabels
  BY DEF Chosen, AllLabels, Labels
<1>5. pc'[w] = IF buffer'[w] # << >> THEN "unpack" ELSE Chosen(w)
  <2>1. buffer'[w] = Tail(tasks) /\ pc'[w] = IF Len(tasks) > 1 THEN "unpack" ELSE Chosen(w)
    BY <1>3 DEF DataTypes, ControlTypes
  <2>2. Len(tasks) > 1 <=> Tail(tasks) # << >>
    BY <1>1
  <2> QED BY <2>1, <2>2
<1> QED BY <1>1, <1>2, <1>3, <1>4, <1>5 DEF DataTypes, ControlTypes

LEMMA FoundControl ==
  ASSUME DataTypes, ControlTypes, ControlOK, NEW w \in Workers,
         pc[w] \in {"pick", "get", "getglobal", "steal"},
         NEW tasks \in Seq(Tasks), tasks # << >>, Found(w, tasks),
         ret'[w] = ret[w], batch'[w] = batch[w], second'[w] = second[w]
  PROVE  WorkerOK(w)'
<1>1. /\ next'[w] # NULL /\ pc'[w] = IF buffer'[w] # << >> THEN "unpack" ELSE Chosen(w)
  BY FoundEffect
<1>2. WorkerOK(w)
  BY DEF ControlOK, WorkerOK
<1>3. ret[w] = "run" /\ batch[w] = << >> /\ (pc[w] = "pick" => ~ second[w])
  BY <1>2 DEF WorkerOK, HoldsOK, SecondOK, Calls, Sleeping
<1>4. HoldsOK(w)'
  BY <1>1, <1>3 DEF HoldsOK, Calls, Chosen
<1>5. SecondOK(w)'
  BY <1>1, <1>3 DEF SecondOK, Calls, Sleeping, Chosen, ControlTypes
<1>6. LooksOK(w)'
  BY <1>1, <1>3 DEF LooksOK, Calls, Sleeping, Chosen
<1> QED BY <1>4, <1>5, <1>6 DEF WorkerOK

-----------------------------------------------------------------------------
(* Every step of a worker, of a task that runs and of the client keeps the *)
(* workers where their locals say, and stopped_ as their flags say.        *)

\* What the calls that grab tasks take.
LEMMA GlobalGrabbed ==
  ASSUME DataTypes, NEW w \in Workers, GrabGlobal(w)
  PROVE  \E n \in 1 .. Len(global_queue_) :
           LET tasks == SubSeq(global_queue_, 1, n) IN
           /\ tasks \in Seq(Tasks) /\ tasks # << >> /\ Found(w, tasks)
           /\ global_queue_' = SubSeq(global_queue_, n + 1, Len(global_queue_))
<1> DEFINE n == Smaller(GrabAmount, Len(global_queue_))
           tasks == SubSeq(global_queue_, 1, n)
<1>1. global_queue_ \in Seq(Tasks) /\ Len(global_queue_) \in Nat
  BY LenProperties DEF DataTypes
<1>2. n \in 1 .. Len(global_queue_)
  BY <1>1, PoolAssumption DEF Smaller, GrabGlobal
<1>3. tasks \in Seq(Tasks) /\ Len(tasks) = n
  BY <1>1, <1>2, Split
<1>4. tasks # << >>
  BY <1>2, <1>3, EmptySeq
<1>5. Found(w, tasks) /\ global_queue_' = SubSeq(global_queue_, n + 1, Len(global_queue_))
  BY DEF GrabGlobal
<1> HIDE DEF n
<1> QED BY <1>2, <1>3, <1>4, <1>5

LEMMA LocalGrabbed ==
  ASSUME DataTypes, NEW v \in Workers, NEW limit \in Nat, NEW tasks \in Grabbed(v, limit)
  PROVE  \E n \in 1 .. Len(local_queue_[v]) :
           /\ tasks = SubSeq(local_queue_[v], 1, n)
           /\ tasks \in Seq(Tasks) /\ Len(tasks) = n /\ tasks # << >>
<1>1. local_queue_[v] \in Seq(Tasks) /\ Len(local_queue_[v]) \in Nat
  BY LenProperties DEF DataTypes
<1>2. PICK n \in 1 .. Smaller(limit, Len(local_queue_[v])) : tasks = SubSeq(local_queue_[v], 1, n)
  BY DEF Grabbed
<1>3. n \in 1 .. Len(local_queue_[v])
  BY <1>1 DEF Smaller
<1>4. tasks \in Seq(Tasks) /\ Len(tasks) = n
  BY <1>1, <1>2, <1>3, Split
<1>5. tasks # << >>
  BY <1>3, <1>4, EmptySeq
<1> QED BY <1>2, <1>3, <1>4, <1>5

LEMMA PickControl ==
  ASSUME DataTypes, ControlGood, NEW w \in Workers, Pick(w)
  PROVE  ControlGood'
<1>0. iter_' \in [Workers -> 0 .. PollPeriod - 1]
  BY PoolAssumption DEF Pick, ControlGood, ControlTypes
<1>1. StoppedOK'
  BY StoppedKept DEF Pick, coord, ControlGood
<1>2. ASSUME GrabGlobal(w) PROVE ControlGood'
  <2>1. PICK n \in 1 .. Len(global_queue_) :
          SubSeq(global_queue_, 1, n) \in Seq(Tasks) /\ SubSeq(global_queue_, 1, n) # << >>
          /\ Found(w, SubSeq(global_queue_, 1, n))
    BY <1>2, GlobalGrabbed
  <2>2. pc' \in [Workers -> AllLabels] /\ \A x \in Workers \ {w} : Kept(x)
    BY <2>1, FoundEffect DEF ControlGood, Pick, Kept, coord
  <2>3. WorkerOK(w)'
    BY <2>1, FoundControl DEF ControlGood, Pick
  <2>4. ControlOK' /\ JoinedOK'
    BY <2>2, <2>3, WorkerStep DEF ControlGood, Pick, client
  <2> QED BY <1>0, <1>1, <2>2, <2>4 DEF ControlGood, ControlTypes, Pick, coord, client
<1>3. ASSUME Goto(w, "get"), UNCHANGED <<global_queue_, next, buffer>> PROVE ControlGood'
  <2>1. pc' \in [Workers -> AllLabels] /\ pc'[w] = "get" /\ \A x \in Workers \ {w} : Kept(x)
    BY <1>3 DEF ControlGood, ControlTypes, Pick, Kept, coord, Goto, AllLabels, Labels
  <2>2. WorkerOK(w)'
    BY <1>3, <2>1 DEF ControlGood, ControlOK, WorkerOK, HoldsOK, SecondOK, LooksOK, Calls, Sleeping,
       Pick, coord
  <2>3. ControlOK' /\ JoinedOK'
    BY <2>1, <2>2, WorkerStep DEF ControlGood, Pick, client
  <2> QED BY <1>0, <1>1, <2>1, <2>3 DEF ControlGood, ControlTypes, Pick, coord, client
<1> QED BY <1>2, <1>3 DEF Pick

LEMMA GetLifoControl ==
  ASSUME DataTypes, ControlGood, NEW w \in Workers, GetLifo(w)
  PROVE  ControlGood'
<1>0. filo_chain_' \in [Workers -> 0 .. FILOMaxChain]
  BY PoolAssumption DEF GetLifo, ControlGood, ControlTypes
<1>1. StoppedOK'
  BY StoppedKept DEF GetLifo, coord, ControlGood
<1> DEFINE tasks == <<lifo_slot_[w]>>
<1>2. tasks \in Seq(Tasks) /\ tasks # << >> /\ Found(w, tasks)
  BY DEF GetLifo, DataTypes
<1> HIDE DEF tasks
<1>3. pc' \in [Workers -> AllLabels] /\ \A x \in Workers \ {w} : Kept(x)
  BY <1>2, FoundEffect DEF ControlGood, GetLifo, Kept, coord, DataTypes, ControlTypes
<1>4. WorkerOK(w)'
  BY <1>2, FoundControl DEF ControlGood, GetLifo
<1>5. ControlOK' /\ JoinedOK'
  BY <1>3, <1>4, WorkerStep DEF ControlGood, GetLifo, client
<1> QED BY <1>0, <1>1, <1>3, <1>5 DEF ControlGood, ControlTypes, GetLifo, coord, client

LEMMA GetLocalControl ==
  ASSUME DataTypes, ControlGood, NEW w \in Workers, GetLocal(w)
  PROVE  ControlGood'
<1>0. filo_chain_' \in [Workers -> 0 .. FILOMaxChain] /\ filo_chain_'[w] = 0
      /\ \A x \in Workers \ {w} : filo_chain_'[x] = filo_chain_[x]
  BY PoolAssumption DEF GetLocal, ControlGood, ControlTypes
<1>1. StoppedOK'
  BY StoppedKept DEF GetLocal, coord, ControlGood
<1> DEFINE tasks == <<Head(local_queue_[w])>>
<1>2. ASSUME local_queue_[w] # << >>, Found(w, tasks),
             local_queue_' = [local_queue_ EXCEPT ![w] = Tail(@)]
      PROVE  ControlGood'
  <2>1. tasks \in Seq(Tasks) /\ tasks # << >>
    BY <1>2, HeadTailRange DEF DataTypes
  <2> HIDE DEF tasks
  <2>2. pc' \in [Workers -> AllLabels] /\ \A x \in Workers \ {w} : Kept(x)
    BY <1>0, <1>2, <2>1, FoundEffect, ZenonT(30)
     DEF ControlGood, GetLocal, Kept, coord, DataTypes, ControlTypes
  <2>3. WorkerOK(w)'
    BY <1>2, <2>1, FoundControl DEF ControlGood, GetLocal
  <2>4. ControlOK' /\ JoinedOK'
    BY <2>2, <2>3, WorkerStep DEF ControlGood, GetLocal, client
  <2> QED BY <1>0, <1>1, <2>2, <2>4 DEF ControlGood, ControlTypes, GetLocal, coord, client
<1>3. ASSUME local_queue_[w] = << >>, Goto(w, "getglobal"), UNCHANGED <<local_queue_, next, buffer>>
      PROVE  ControlGood'
  <2>1. pc' \in [Workers -> AllLabels] /\ pc'[w] = "getglobal" /\ \A x \in Workers \ {w} : Kept(x)
    BY <1>0, <1>3 DEF ControlGood, ControlTypes, GetLocal, Kept, coord, Goto, AllLabels, Labels
  <2>2. second[w] => lifo_slot_[w] = NULL
    BY PoolAssumption DEF ControlGood, ControlOK, LooksOK, GetLocal
  <2>3. WorkerOK(w)'
    BY <1>0, <1>3, <2>1, <2>2 DEF ControlGood, ControlOK, WorkerOK, HoldsOK, SecondOK, LooksOK,
       Calls, Sleeping, GetLocal, coord
  <2>4. ControlOK' /\ JoinedOK'
    BY <2>1, <2>3, WorkerStep DEF ControlGood, GetLocal, client
  <2> QED BY <1>0, <1>1, <2>1, <2>4 DEF ControlGood, ControlTypes, GetLocal, coord, client
<1> QED BY <1>2, <1>3 DEF GetLocal

LEMMA VictimType ==
  ASSUME ControlTypes, NEW w \in Workers, NEW v \in 0 .. NumThreads
  PROVE  NextVictim(w, v) \in 1 .. NumThreads + 2
BY PoolAssumption DEF NextVictim, Workers

LEMMA GetGlobalControl ==
  ASSUME DataTypes, ControlGood, NEW w \in Workers, GetGlobal(w)
  PROVE  ControlGood'
<1>1. StoppedOK'
  BY StoppedKept DEF GetGlobal, coord, ControlGood
<1>2. ASSUME GrabGlobal(w), victim' = victim PROVE ControlGood'
  <2>1. PICK n \in 1 .. Len(global_queue_) :
          SubSeq(global_queue_, 1, n) \in Seq(Tasks) /\ SubSeq(global_queue_, 1, n) # << >>
          /\ Found(w, SubSeq(global_queue_, 1, n))
    BY <1>2, GlobalGrabbed
  <2>2. pc' \in [Workers -> AllLabels] /\ \A x \in Workers \ {w} : Kept(x)
    BY <1>2, <2>1, FoundEffect DEF ControlGood, GetGlobal, Kept, coord
  <2>3. WorkerOK(w)'
    BY <2>1, FoundControl DEF ControlGood, GetGlobal
  <2>4. ControlOK' /\ JoinedOK'
    BY <2>2, <2>3, WorkerStep DEF ControlGood, GetGlobal, client
  <2> QED BY <1>1, <1>2, <2>2, <2>4 DEF ControlGood, ControlTypes, GetGlobal, coord, client
<1>3. ASSUME Goto(w, "steal"), victim' = [victim EXCEPT ![w] = NextVictim(w, 0)],
             UNCHANGED <<global_queue_, next, buffer>>
      PROVE  ControlGood'
  <2>0. NextVictim(w, 0) \in 1 .. NumThreads + 2
    BY VictimType, PoolAssumption DEF ControlGood
  <2>1. victim' \in [Workers -> 0 .. NumThreads + 2] /\ victim'[w] >= 1
        /\ \A x \in Workers \ {w} : victim'[x] = victim[x]
    BY <1>3, <2>0, PoolAssumption DEF ControlGood, ControlTypes
  <2>2. pc' \in [Workers -> AllLabels] /\ pc'[w] = "steal" /\ \A x \in Workers \ {w} : Kept(x)
    BY <1>3, <2>1 DEF ControlGood, ControlTypes, GetGlobal, Kept, coord, Goto, AllLabels, Labels
  <2>3. WorkerOK(w)'
    BY <1>3, <2>1, <2>2 DEF ControlGood, ControlOK, WorkerOK, HoldsOK, SecondOK, LooksOK,
       Calls, Sleeping, GetGlobal, coord
  <2>4. ControlOK' /\ JoinedOK'
    BY <2>2, <2>3, WorkerStep DEF ControlGood, GetGlobal, client
  <2> QED BY <1>1, <2>1, <2>2, <2>4 DEF ControlGood, ControlTypes, GetGlobal, coord, client
<1> QED BY <1>2, <1>3 DEF GetGlobal

\* The part of a queue that a grab leaves is shorter.
LEMMA RemovedPrefix ==
  ASSUME DataTypes, NEW v \in Workers, NEW n \in 0 .. Len(local_queue_[v]), RemovePrefix(v, n)
  PROVE  /\ local_queue_' \in [Workers -> Seq(Tasks)]
         /\ local_queue_'[v] = SubSeq(local_queue_[v], n + 1, Len(local_queue_[v]))
         /\ Len(local_queue_'[v]) = Len(local_queue_[v]) - n
         /\ \A x \in Workers \ {v} : local_queue_'[x] = local_queue_[x]
         /\ \A x \in Workers : Len(local_queue_'[x]) <= Capacity
         /\ \A x \in Workers : local_queue_[x] = << >> => local_queue_'[x] = << >>
<1> DEFINE r == SubSeq(local_queue_[v], n + 1, Len(local_queue_[v]))
<1>1. local_queue_[v] \in Seq(Tasks) /\ Len(local_queue_[v]) \in Nat
  BY LenProperties DEF DataTypes
<1>2. r \in Seq(Tasks) /\ Len(r) = Len(local_queue_[v]) - n
  BY <1>1, Split
<1>3. local_queue_[v] = << >> => r = << >>
  BY <1>1, <1>2, EmptySeq
<1>4. local_queue_' = [local_queue_ EXCEPT ![v] = r]
  BY DEF RemovePrefix
<1> HIDE DEF r
<1>5. local_queue_'[v] = r /\ \A x \in Workers \ {v} : local_queue_'[x] = local_queue_[x]
  BY <1>4 DEF DataTypes
<1>6. local_queue_' \in [Workers -> Seq(Tasks)]
  BY <1>2, <1>4 DEF DataTypes
<1>7. ASSUME NEW x \in Workers PROVE Len(local_queue_'[x]) <= Capacity
  <2>1. CASE x = v
    BY <1>1, <1>2, <1>5, <2>1, PoolAssumption DEF DataTypes
  <2>2. CASE x # v
    BY <1>5, <2>2 DEF DataTypes
  <2> QED BY <2>1, <2>2
<1> QED BY <1>2, <1>3, <1>5, <1>6, <1>7 DEF r

LEMMA StealControl ==
  ASSUME DataTypes, ControlGood, NEW w \in Workers, Steal(w)
  PROVE  ControlGood'
<1> DEFINE v == victim[w]
<1>1. StoppedOK'
  BY StoppedKept DEF Steal, coord, ControlGood
<1>2. v \in Workers
  BY DEF Steal, ControlGood, ControlTypes, ControlOK, LooksOK, Workers
<1>3. ASSUME NEW tasks \in Grabbed(v, GrabAmount), Found(w, tasks), RemovePrefix(v, Len(tasks)),
             victim' = [victim EXCEPT ![w] = 0]
      PROVE  ControlGood'
  <2>1. PICK n \in 1 .. Len(local_queue_[v]) : tasks \in Seq(Tasks) /\ Len(tasks) = n /\ tasks # << >>
    BY <1>2, LocalGrabbed, PoolAssumption
  <2>2. \A x \in Workers : local_queue_[x] = << >> => local_queue_'[x] = << >>
    BY <1>2, <1>3, <2>1, RemovedPrefix
  <2>3. victim' \in [Workers -> 0 .. NumThreads + 2]
        /\ \A x \in Workers \ {w} : victim'[x] = victim[x]
    BY <1>3, PoolAssumption DEF ControlGood, ControlTypes
  <2>4. pc' \in [Workers -> AllLabels] /\ \A x \in Workers \ {w} : Kept(x)
    BY <1>3, <2>1, <2>2, <2>3, FoundEffect DEF ControlGood, Steal, Kept, coord
  <2>5. WorkerOK(w)'
    BY <1>3, <2>1, FoundControl DEF ControlGood, Steal
  <2>6. ControlOK' /\ JoinedOK'
    BY <2>4, <2>5, WorkerStep DEF ControlGood, Steal, client
  <2> QED BY <1>1, <2>3, <2>4, <2>6 DEF ControlGood, ControlTypes, Steal, coord, client
<1>4. ASSUME victim' = [victim EXCEPT ![w] = NextVictim(w, v)],
             UNCHANGED <<pc, local_queue_, next, buffer>>
      PROVE  ControlGood'
  <2>0. NextVictim(w, v) \in 1 .. NumThreads + 2
    BY <1>2, VictimType DEF ControlGood, Workers
  <2>1. victim' \in [Workers -> 0 .. NumThreads + 2] /\ victim'[w] >= 1
        /\ \A x \in Workers \ {w} : victim'[x] = victim[x]
    BY <1>4, <2>0, PoolAssumption DEF ControlGood, ControlTypes
  <2>2. \A x \in Workers \ {w} : Kept(x)
    BY <1>4, <2>1 DEF Steal, Kept, coord
  <2>3. WorkerOK(w)'
    BY <1>4, <2>1 DEF ControlGood, ControlOK, WorkerOK, HoldsOK, SecondOK, LooksOK,
       Calls, Sleeping, Steal, coord
  <2>4. ControlOK' /\ JoinedOK'
    BY <2>2, <2>3, WorkerStep DEF ControlGood, Steal, client
  <2> QED BY <1>1, <1>4, <2>1, <2>4 DEF ControlGood, ControlTypes, Steal, coord, client
<1> QED BY <1>3, <1>4 DEF Steal

LEMMA GetNothingControl ==
  ASSUME DataTypes, ControlGood, NEW w \in Workers, GetNothing(w)
  PROVE  ControlGood'
<1> USE DEF ControlGood
<1>1. victim' \in [Workers -> 0 .. NumThreads + 2] /\ \A x \in Workers \ {w} : victim'[x] = victim[x]
  BY PoolAssumption DEF GetNothing, ControlTypes
<1>2. wakeups_' \in [Workers -> BOOLEAN]
  BY DEF GetNothing, ControlTypes
<1>3. pc' \in [Workers -> AllLabels] /\ pc'[w] = (IF second[w] THEN "checkstop" ELSE "addstopped")
      /\ \A x \in Workers \ {w} : Kept(x)
  BY <1>1, ZenonT(30) DEF GetNothing, ControlTypes, Kept, Goto, queues, AllLabels, Labels
<1>4. WorkerOK(w)'
  BY <1>3 DEF ControlOK, WorkerOK, HoldsOK, SecondOK, LooksOK, Calls, Sleeping, GetNothing, queues,
     ControlTypes
<1>5. ControlOK' /\ JoinedOK'
  BY <1>3, <1>4, WorkerStep DEF GetNothing, client
<1>6. StoppedOK'
  <2>1. \A x \in Workers : wakeups_'[x] = wakeups_[x] \/ ~ second[x]
    BY DEF GetNothing, ControlTypes
  <2> QED BY <2>1 DEF GetNothing, StoppedOK, Linked, Distinct
<1> QED BY <1>1, <1>2, <1>3, <1>5, <1>6 DEF ControlTypes, GetNothing, queues, client

LEMMA LinkedIsRange ==
  ASSUME NEW w
  PROVE  Linked(w) <=> w \in SeqRange(stopped_)
BY DEF Linked, SeqRange

\* What Unlink, AddStoppedWorker and WakeWorker do with stopped_.
LEMMA UnlinkEffect ==
  ASSUME ControlTypes, StoppedOK, NEW w \in Workers, Unlink(w)
  PROVE  /\ stopped_' \in Seq(Workers) /\ Distinct(stopped_)' /\ Len(stopped_') <= Len(stopped_)
         /\ SeqRange(stopped_)' = SeqRange(stopped_) \ {w}
<1>1. stopped_ \in Seq(Workers) /\ Distinct(stopped_) /\ Len(stopped_) \in Nat
  BY LenProperties DEF ControlTypes, StoppedOK
<1>2. CASE ~ Linked(w) /\ UNCHANGED stopped_
  BY <1>1, <1>2, LinkedIsRange DEF Distinct, SeqRange
<1>3. ASSUME NEW k \in DOMAIN stopped_, stopped_[k] = w,
             stopped_' = SubSeq(stopped_, 1, k - 1) \o SubSeq(stopped_, k + 1, Len(stopped_))
      PROVE  /\ stopped_' \in Seq(Workers) /\ Distinct(stopped_)' /\ Len(stopped_') <= Len(stopped_)
             /\ SeqRange(stopped_)' = SeqRange(stopped_) \ {w}
  <2> DEFINE r == SubSeq(stopped_, 1, k - 1) \o SubSeq(stopped_, k + 1, Len(stopped_))
  <2>1. /\ r \in Seq(Workers) /\ Distinct(r) /\ Len(r) = Len(stopped_) - 1
        /\ SeqRange(r) = SeqRange(stopped_) \ {w}
    BY <1>1, <1>3, RemoveRange
  <2>2. stopped_' = r
    BY <1>3
  <2> HIDE DEF r
  <2> QED BY <1>1, <2>1, <2>2 DEF Distinct, SeqRange
<1> QED BY <1>2, <1>3 DEF Unlink

LEMMA RegisterEffect ==
  ASSUME ControlTypes, StoppedOK, NEW w \in Workers, AddStoppedWorker(w)
  PROVE  /\ stopped_' \in Seq(Workers) /\ Distinct(stopped_)' /\ Len(stopped_') <= approximate_size_'
         /\ approximate_size_' \in Nat
         /\ SeqRange(stopped_)' = SeqRange(stopped_) \cup {w}
<1>1. stopped_ \in Seq(Workers) /\ Distinct(stopped_) /\ Len(stopped_) \in Nat
      /\ approximate_size_ \in Nat /\ Len(stopped_) <= approximate_size_
  BY LenProperties DEF ControlTypes, StoppedOK
<1>2. CASE Linked(w)
  BY <1>1, <1>2, LinkedIsRange DEF AddStoppedWorker, Distinct, SeqRange
<1>3. CASE ~ Linked(w)
  <2> DEFINE r == Append(stopped_, w)
  <2>1. w \notin SeqRange(stopped_)
    BY <1>3, LinkedIsRange
  <2>2. /\ r \in Seq(Workers) /\ Distinct(r) /\ Len(r) = Len(stopped_) + 1
        /\ SeqRange(r) = SeqRange(stopped_) \cup {w}
    BY <1>1, <2>1, AppendRange
  <2>3. stopped_' = r /\ approximate_size_' = approximate_size_ + 1
    BY <1>3 DEF AddStoppedWorker
  <2> HIDE DEF r
  <2> QED BY <1>1, <2>2, <2>3 DEF Distinct, SeqRange
<1> QED BY <1>2, <1>3

\* Either nobody is in stopped_, or the front worker h is woken and taken out.
LEMMA WakeWorkerEffect ==
  ASSUME ControlTypes, StoppedOK, NEW after \in [Workers -> AllLabels], WakeWorker(after)
  PROVE  \/ /\ \A x \in Workers : ~ Linked(x)
            /\ pc' = after /\ UNCHANGED <<wakeups_, stopped_, approximate_size_>>
         \/ \E h \in Workers :
              /\ Linked(h) /\ second[h]
              /\ wakeups_' = [wakeups_ EXCEPT ![h] = TRUE]
              /\ pc' = IF after[h] = "asleep" THEN [after EXCEPT ![h] = "unlink"] ELSE after
              /\ stopped_' \in Seq(Workers) /\ Distinct(stopped_)'
              /\ SeqRange(stopped_)' = SeqRange(stopped_) \ {h}
              /\ approximate_size_' \in Nat /\ Len(stopped_') <= approximate_size_'
<1>1. stopped_ \in Seq(Workers) /\ Distinct(stopped_) /\ Len(stopped_) \in Nat
      /\ approximate_size_ \in Nat /\ Len(stopped_) <= approximate_size_
  BY LenProperties DEF ControlTypes, StoppedOK
<1>2. CASE stopped_ = << >>
  BY <1>2 DEF WakeWorker, Linked
<1>3. CASE stopped_ # << >>
  <2> DEFINE h == Head(stopped_)
             r == Tail(stopped_)
  <2>1. /\ h \in Workers /\ r \in Seq(Workers) /\ Len(r) = Len(stopped_) - 1 /\ Distinct(r)
        /\ SeqRange(stopped_) = {h} \cup SeqRange(r) /\ h \notin SeqRange(r)
    BY <1>1, <1>3, HeadTailRange
  <2>2. /\ stopped_' = r /\ approximate_size_' = approximate_size_ - 1
        /\ wakeups_' = [wakeups_ EXCEPT ![h] = TRUE]
        /\ pc' = IF after[h] = "asleep" THEN [after EXCEPT ![h] = "unlink"] ELSE after
    BY <1>3 DEF WakeWorker, WakeEffect
  <2> HIDE DEF h, r
  <2>3. Linked(h) /\ second[h]
    BY <2>1, LinkedIsRange DEF StoppedOK
  <2>4. Distinct(stopped_)' /\ SeqRange(stopped_)' = SeqRange(stopped_) \ {h}
    <3>1. Distinct(stopped_)' /\ SeqRange(stopped_)' = SeqRange(r)
      BY <2>1, <2>2 DEF Distinct, SeqRange
    <3> QED BY <2>1, <3>1
  <2>5. approximate_size_' \in Nat /\ Len(stopped_') <= approximate_size_' /\ stopped_' \in Seq(Workers)
    <3>1. Len(r) \in Nat
      BY <2>1, LenProperties
    <3> QED BY <1>1, <2>1, <2>2, <3>1
  <2> QED BY <2>1, <2>2, <2>3, <2>4, <2>5
<1> QED BY <1>2, <1>3

\* stopped_ and the flags after a step, by the set of workers in it.
LEMMA StoppedByRange ==
  ASSUME Distinct(stopped_)', Len(stopped_') <= approximate_size_',
         \A x \in Workers : x \in SeqRange(stopped_)' => second'[x],
         \A x \in Workers : second'[x] /\ ~ wakeups_'[x] => x \in SeqRange(stopped_)'
  PROVE  StoppedOK'
<1>1. \A x : Linked(x)' <=> x \in SeqRange(stopped_)'
  BY DEF Linked, SeqRange
<1> QED BY <1>1 DEF StoppedOK

LEMMA RegisterControl ==
  ASSUME DataTypes, ControlGood, NEW w \in Workers, Register(w)
  PROVE  ControlGood'
<1> USE DEF ControlGood
<1>1. /\ stopped_' \in Seq(Workers) /\ Distinct(stopped_)' /\ Len(stopped_') <= approximate_size_'
      /\ approximate_size_' \in Nat /\ SeqRange(stopped_)' = SeqRange(stopped_) \cup {w}
  BY RegisterEffect DEF Register
<1>2. second' \in [Workers -> BOOLEAN] /\ second'[w] /\ \A x \in Workers \ {w} : second'[x] = second[x]
  BY DEF Register, ControlTypes
<1>3. pc' \in [Workers -> AllLabels] /\ pc'[w] = "get" /\ \A x \in Workers \ {w} : Kept(x)
  BY <1>2 DEF Register, ControlTypes, Kept, Goto, queues, AllLabels, Labels
<1>4. WorkerOK(w)'
  BY <1>2, <1>3 DEF ControlOK, WorkerOK, HoldsOK, SecondOK, LooksOK, Calls, Sleeping, Register, queues
<1>5. ControlOK' /\ JoinedOK'
  BY <1>3, <1>4, WorkerStep DEF Register, client
<1>6. StoppedOK'
  <2>1. \A x \in Workers : Linked(x) <=> x \in SeqRange(stopped_)
    BY LinkedIsRange
  <2>2. wakeups_' = wakeups_
    BY DEF Register
  <2>3. \A x \in Workers : x \in SeqRange(stopped_)' => second'[x]
    BY <1>1, <1>2, <2>1 DEF StoppedOK
  <2>4. \A x \in Workers : second'[x] /\ ~ wakeups_'[x] => x \in SeqRange(stopped_)'
    BY <1>1, <1>2, <2>1, <2>2 DEF StoppedOK
  <2> QED BY <1>1, <2>3, <2>4, StoppedByRange
<1> QED BY <1>1, <1>2, <1>3, <1>5, <1>6 DEF ControlTypes, Register, queues, client

\* Worker w unlinks itself and goes on.
Unlinks(w, label) ==
  /\ Unlink(w)
  /\ second' = [second EXCEPT ![w] = FALSE]
  /\ Goto(w, label)
  /\ UNCHANGED <<queues, wakeups_, has_stopped_, approximate_size_, next, buffer, batch, victim, ret,
                 client, history>>

LEMMA UnlinksControl ==
  ASSUME DataTypes, ControlGood, NEW w \in Workers, NEW label \in AllLabels, Unlinks(w, label),
         pc[w] # "exited", WorkerOK(w)'
  PROVE  ControlGood'
<1> USE DEF ControlGood
<1>1. /\ stopped_' \in Seq(Workers) /\ Distinct(stopped_)' /\ Len(stopped_') <= Len(stopped_)
      /\ SeqRange(stopped_)' = SeqRange(stopped_) \ {w}
  BY UnlinkEffect DEF Unlinks
<1>2. second' \in [Workers -> BOOLEAN] /\ ~ second'[w]
      /\ \A x \in Workers \ {w} : second'[x] = second[x]
  BY DEF Unlinks, ControlTypes
<1>3. pc' \in [Workers -> AllLabels] /\ \A x \in Workers \ {w} : Kept(x)
  BY <1>2 DEF Unlinks, ControlTypes, Kept, Goto, queues
<1>5. ControlOK' /\ JoinedOK'
  BY <1>3, WorkerStep DEF Unlinks, client
<1>6. StoppedOK'
  <2>1. \A x \in Workers : Linked(x) <=> x \in SeqRange(stopped_)
    BY LinkedIsRange
  <2>2. wakeups_' = wakeups_ /\ approximate_size_' = approximate_size_
    BY DEF Unlinks
  <2>3. \A x \in Workers : x \in SeqRange(stopped_)' => second'[x]
    BY <1>1, <1>2, <2>1 DEF StoppedOK
  <2>4. \A x \in Workers : second'[x] /\ ~ wakeups_'[x] => x \in SeqRange(stopped_)'
    BY <1>1, <1>2, <2>1, <2>2 DEF StoppedOK
  <2>5. Len(stopped_') \in Nat /\ Len(stopped_) \in Nat /\ approximate_size_ \in Nat
    BY <1>1, LenProperties DEF ControlTypes
  <2>6. Len(stopped_') <= approximate_size_'
    BY <1>1, <2>2, <2>5 DEF StoppedOK
  <2> QED BY <1>1, <2>3, <2>4, <2>6, StoppedByRange
<1> QED BY <1>1, <1>2, <1>3, <1>5, <1>6 DEF ControlTypes, Unlinks, queues, client

LEMMA UnlinkControl ==
  ASSUME DataTypes, ControlGood, NEW w \in Workers, UnlinkFound(w) \/ Exit(w) \/ UnlinkAfterWait(w)
  PROVE  ControlGood'
<1> USE DEF ControlGood
<1>1. /\ UnlinkFound(w) => Unlinks(w, "notify") /\ pc[w] = "unlinkfound"
      /\ Exit(w) => Unlinks(w, "exited") /\ pc[w] = "exit"
      /\ UnlinkAfterWait(w) => Unlinks(w, "get") /\ pc[w] = "unlink"
  BY DEF UnlinkFound, Exit, UnlinkAfterWait, Unlinks
<1>2. PICK label \in {"notify", "exited", "get"} :
        Unlinks(w, label) /\ pc[w] # "exited"
        /\ <<pc[w], label>> \in {<<"unlinkfound", "notify">>, <<"exit", "exited">>, <<"unlink", "get">>}
  BY <1>1
<1>3. pc'[w] = label /\ ~ second'[w]
  BY <1>2 DEF Unlinks, Goto, ControlTypes
<1>4. WorkerOK(w)'
  BY <1>2, <1>3 DEF ControlOK, WorkerOK, HoldsOK, SecondOK, LooksOK, Calls, Sleeping, Unlinks, queues
<1>5. label \in AllLabels
  BY <1>2 DEF AllLabels, Labels
<1> QED BY <1>2, <1>4, <1>5, UnlinksControl

LEMMA ParkControl ==
  ASSUME DataTypes, ControlGood, NEW w \in Workers, CheckStop(w) \/ Park(w) \/ SpuriousWake(w)
  PROVE  ControlGood'
<1> USE DEF ControlGood
<1>1. PICK label \in {"exit", "park", "unlink", "asleep"} :
        Goto(w, label) /\ UNCHANGED <<queues, coord, locals, client, history>>
        /\ <<pc[w], label>> \in {<<"checkstop", "exit">>, <<"checkstop", "park">>, <<"park", "unlink">>,
                                 <<"park", "asleep">>, <<"asleep", "unlink">>}
  BY DEF CheckStop, Park, SpuriousWake
<1>2. pc' \in [Workers -> AllLabels] /\ pc'[w] = label /\ \A x \in Workers \ {w} : Kept(x)
  BY <1>1 DEF ControlTypes, Kept, Goto, queues, locals, AllLabels, Labels
<1>3. WorkerOK(w)'
  BY <1>1, <1>2 DEF ControlOK, WorkerOK, HoldsOK, SecondOK, LooksOK, Calls, Sleeping, queues, locals
<1>4. ControlOK' /\ JoinedOK'
  BY <1>1, <1>2, <1>3, WorkerStep DEF client
<1>5. StoppedOK'
  BY <1>1, StoppedKept DEF coord, locals
<1> QED BY <1>1, <1>2, <1>4, <1>5 DEF ControlTypes, coord, locals, queues, client

\* PushToLocalQueue queues the task and goes on, or offloads first.
LEMMA PushEffect ==
  ASSUME DataTypes, ControlTypes, NEW w \in Workers, NEW task \in Tasks,
         NEW after \in {"unpack", "unlinkfound", "notify"}, PushToLocalQueue(w, task, after)
  PROVE  /\ local_queue_' \in [Workers -> Seq(Tasks)] /\ batch' \in [Workers -> Seq(Tasks)]
         /\ \A x \in Workers : Len(local_queue_'[x]) <= Capacity
         /\ pc' \in [Workers -> AllLabels] /\ ret' \in [Workers -> Returns]
         /\ \A x \in Workers \ {w} : /\ local_queue_'[x] = local_queue_[x] /\ batch'[x] = batch[x]
                                     /\ pc'[x] = pc[x] /\ ret'[x] = ret[x]
         /\ \/ /\ local_queue_'[w] = Append(local_queue_[w], task) /\ batch'[w] = batch[w]
               /\ pc'[w] = after /\ ret'[w] = "run"
            \/ /\ local_queue_'[w] = local_queue_[w] /\ batch'[w] = <<task>>
               /\ pc'[w] = "offload" /\ ret'[w] = after
<1>0. after \in AllLabels /\ "offload" \in AllLabels /\ after \in Returns /\ "run" \in Returns
  BY DEF AllLabels, Labels, Returns
<1>1. CASE ~ LocalIsFull(w)
  <2> DEFINE r == Append(local_queue_[w], task)
  <2>1. local_queue_[w] \in Seq(Tasks) /\ Len(local_queue_[w]) \in Nat
    BY LenProperties DEF DataTypes
  <2>2. r \in Seq(Tasks) /\ Len(r) <= Capacity
    BY <1>1, <2>1, AppendRange, PoolAssumption DEF LocalIsFull
  <2>3. /\ local_queue_' = [local_queue_ EXCEPT ![w] = r]
        /\ pc' = [pc EXCEPT ![w] = after] /\ ret' = [ret EXCEPT ![w] = "run"] /\ batch' = batch
    BY <1>1 DEF PushToLocalQueue, Goto
  <2> HIDE DEF r
  <2>4. local_queue_'[w] = r /\ \A x \in Workers \ {w} : local_queue_'[x] = local_queue_[x]
    BY <2>3 DEF DataTypes
  <2>5. ASSUME NEW x \in Workers PROVE Len(local_queue_'[x]) <= Capacity
    <3>1. CASE x = w
      BY <2>2, <2>4, <3>1
    <3>2. CASE x # w
      BY <2>4, <3>2 DEF DataTypes
    <3> QED BY <3>1, <3>2
  <2>6. local_queue_' \in [Workers -> Seq(Tasks)]
    BY <2>2, <2>3 DEF DataTypes
  <2> QED BY <1>0, <2>3, <2>4, <2>5, <2>6 DEF r, DataTypes, ControlTypes
<1>2. CASE LocalIsFull(w)
  <2> DEFINE t == <<task>>
  <2>1. t \in Seq(Tasks)
    BY OneElement
  <2>2. /\ local_queue_' = local_queue_ /\ batch' = [batch EXCEPT ![w] = t]
        /\ pc' = [pc EXCEPT ![w] = "offload"] /\ ret' = [ret EXCEPT ![w] = after]
    BY <1>2 DEF PushToLocalQueue, Goto
  <2> HIDE DEF t
  <2> QED BY <1>0, <2>1, <2>2 DEF t, DataTypes, ControlTypes
<1> QED BY <1>1, <1>2

LEMMA UnpackControl ==
  ASSUME DataTypes, ControlGood, NEW w \in Workers, Unpack(w)
  PROVE  ControlGood'
<1> USE DEF ControlGood
<1> DEFINE after == IF Len(buffer[w]) > 1 THEN "unpack" ELSE Chosen(w)
<1>1. buffer[w] \in Seq(Tasks) /\ buffer[w] # << >> /\ WorkerOK(w)
  BY DEF DataTypes, ControlOK, WorkerOK, HoldsOK, Unpack
<1>2. /\ Head(buffer[w]) \in Tasks /\ Tail(buffer[w]) \in Seq(Tasks)
      /\ Tail(buffer[w]) = << >> <=> Len(buffer[w]) = 1
      /\ Len(buffer[w]) \in Nat \ {0}
  BY <1>1, HeadTailRange, EmptySeq
<1>3. after \in {"unpack", "unlinkfound", "notify"} /\ PushToLocalQueue(w, Head(buffer[w]), after)
      /\ (after = "unpack" <=> Tail(buffer[w]) # << >>)
      /\ (after # "unpack" => after = Chosen(w))
  BY <1>2 DEF Chosen, Unpack
<1> HIDE DEF after
<1>4. buffer' \in [Workers -> Seq(Tasks)] /\ buffer'[w] = Tail(buffer[w])
      /\ \A x \in Workers \ {w} : buffer'[x] = buffer[x]
  BY <1>2 DEF Unpack, DataTypes
<1>5. /\ pc' \in [Workers -> AllLabels] /\ ret' \in [Workers -> Returns]
      /\ \A x \in Workers \ {w} : /\ local_queue_'[x] = local_queue_[x] /\ batch'[x] = batch[x]
                                  /\ pc'[x] = pc[x] /\ ret'[x] = ret[x]
      /\ \/ batch'[w] = batch[w] /\ pc'[w] = after /\ ret'[w] = "run"
         \/ pc'[w] = "offload" /\ ret'[w] = after
  BY <1>2, <1>3, PushEffect
<1>6. \A x \in Workers \ {w} : Kept(x)
  BY <1>4, <1>5 DEF Unpack, Kept
<1>7. HoldsOK(w)'
  BY <1>1, <1>3, <1>4, <1>5 DEF Unpack, Chosen, WorkerOK, HoldsOK, Calls
<1>8. SecondOK(w)' /\ LooksOK(w)'
  BY <1>1, <1>3, <1>5 DEF Unpack, Chosen, WorkerOK, HoldsOK, SecondOK, LooksOK, Calls, Sleeping,
     ControlTypes
<1>9. ControlOK' /\ JoinedOK'
  BY <1>6, <1>7, <1>8, WorkerStep DEF Unpack, client, WorkerOK
<1>10. StoppedOK'
  BY StoppedKept DEF Unpack, coord
<1> QED BY <1>5, <1>9, <1>10 DEF ControlTypes, Unpack, coord, client

LEMMA OffloadGrabControl ==
  ASSUME DataTypes, ControlGood, NEW w \in Workers, OffloadGrab(w)
  PROVE  ControlGood'
<1> USE DEF ControlGood
<1>1. WorkerOK(w)
  BY DEF ControlOK, WorkerOK
<1>2. /\ pc' \in [Workers -> AllLabels] /\ pc'[w] = "pushmany"
      /\ \A x \in Workers \ {w} : pc'[x] = pc[x] /\ batch'[x] = batch[x]
                                  /\ local_queue_'[x] = local_queue_[x]
  BY DEF OffloadGrab, Goto, ControlTypes, DataTypes, RemovePrefix, AllLabels, Labels
<1>3. \A x \in Workers \ {w} : Kept(x)
  BY <1>2 DEF OffloadGrab, Kept
<1>4. WorkerOK(w)'
  BY <1>1, <1>2 DEF OffloadGrab, WorkerOK, HoldsOK, SecondOK, LooksOK, Calls, Sleeping
<1>5. ControlOK' /\ JoinedOK'
  BY <1>3, <1>4, WorkerStep DEF OffloadGrab, client
<1>6. StoppedOK'
  BY StoppedKept DEF OffloadGrab, coord
<1> QED BY <1>2, <1>5, <1>6 DEF ControlTypes, OffloadGrab, coord, client

LEMMA OffloadPushControl ==
  ASSUME DataTypes, ControlGood, NEW w \in Workers, OffloadPush(w)
  PROVE  ControlGood'
<1> USE DEF ControlGood
<1>1. WorkerOK(w)
  BY DEF ControlOK, WorkerOK
<1>2. /\ pc' \in [Workers -> AllLabels] /\ pc'[w] = "notify" /\ batch'[w] = << >>
      /\ \A x \in Workers \ {w} : pc'[x] = pc[x] /\ batch'[x] = batch[x]
  BY DEF OffloadPush, Goto, ControlTypes, DataTypes, AllLabels, Labels
<1>3. \A x \in Workers \ {w} : Kept(x)
  BY <1>2 DEF OffloadPush, Kept
<1>4. WorkerOK(w)'
  BY <1>1, <1>2 DEF OffloadPush, WorkerOK, HoldsOK, SecondOK, LooksOK, Calls, Sleeping
<1>5. ControlOK' /\ JoinedOK'
  BY <1>3, <1>4, WorkerStep DEF OffloadPush, client
<1>6. StoppedOK'
  BY StoppedKept DEF OffloadPush, coord
<1> QED BY <1>2, <1>5, <1>6 DEF ControlTypes, OffloadPush, coord, client

LEMMA NotifyControl ==
  ASSUME DataTypes, ControlGood, NEW w \in Workers, Notify(w)
  PROVE  ControlGood'
<1> USE DEF ControlGood
<1>1. WorkerOK(w) /\ ret[w] \in Returns
  BY DEF ControlOK, WorkerOK, ControlTypes
<1>2. /\ pc' \in [Workers -> AllLabels] /\ ret' \in [Workers -> Returns]
      /\ \/ pc'[w] = "wake" /\ ret'[w] = ret[w]
         \/ pc'[w] = ret[w] /\ ret'[w] = "run"
      /\ \A x \in Workers \ {w} : pc'[x] = pc[x] /\ ret'[x] = ret[x]
  BY ZenonT(30) DEF Notify, NotifyReturns, Goto, ControlTypes, AllLabels, Labels, Returns
<1>3. \A x \in Workers \ {w} : Kept(x)
  BY <1>2 DEF Notify, Kept, queues
<1>4. WorkerOK(w)'
  BY <1>1, <1>2 DEF Notify, WorkerOK, HoldsOK, SecondOK, LooksOK, Calls, Sleeping, queues, Returns
<1>5. ControlOK' /\ JoinedOK'
  BY <1>3, <1>4, WorkerStep DEF Notify, client
<1>6. StoppedOK'
  BY StoppedKept DEF Notify, coord
<1> QED BY <1>2, <1>5, <1>6 DEF ControlTypes, Notify, coord, queues, client

\* WakeWorker keeps stopped_ as the flags say; it changes the place of no worker but one
\* that sleeps.
LEMMA WakeWorkerControl ==
  ASSUME ControlTypes, StoppedOK, NEW after \in [Workers -> AllLabels], WakeWorker(after),
         second' = second
  PROVE  /\ StoppedOK'
         /\ pc' \in [Workers -> AllLabels] /\ wakeups_' \in [Workers -> BOOLEAN]
         /\ stopped_' \in Seq(Workers) /\ approximate_size_' \in Nat
         /\ \A x \in Workers : pc'[x] = after[x] \/ (after[x] = "asleep" /\ pc'[x] = "unlink")
<1>1. CASE /\ \A x \in Workers : ~ Linked(x)
           /\ pc' = after /\ UNCHANGED <<wakeups_, stopped_, approximate_size_>>
  BY <1>1, StoppedKept DEF ControlTypes
<1>2. ASSUME NEW h \in Workers, Linked(h), second[h],
             wakeups_' = [wakeups_ EXCEPT ![h] = TRUE],
             pc' = IF after[h] = "asleep" THEN [after EXCEPT ![h] = "unlink"] ELSE after,
             stopped_' \in Seq(Workers), Distinct(stopped_)',
             SeqRange(stopped_)' = SeqRange(stopped_) \ {h},
             approximate_size_' \in Nat, Len(stopped_') <= approximate_size_'
      PROVE  /\ StoppedOK'
             /\ pc' \in [Workers -> AllLabels] /\ wakeups_' \in [Workers -> BOOLEAN]
             /\ \A x \in Workers : pc'[x] = after[x] \/ (after[x] = "asleep" /\ pc'[x] = "unlink")
  <2>1. \A x \in Workers : Linked(x) <=> x \in SeqRange(stopped_)
    BY LinkedIsRange
  <2>2. wakeups_' \in [Workers -> BOOLEAN] /\ wakeups_'[h]
        /\ \A x \in Workers \ {h} : wakeups_'[x] = wakeups_[x]
    BY <1>2 DEF ControlTypes
  <2>3. \A x \in Workers : x \in SeqRange(stopped_)' => second'[x]
    BY <1>2, <2>1 DEF StoppedOK
  <2>4. \A x \in Workers : second'[x] /\ ~ wakeups_'[x] => x \in SeqRange(stopped_)'
    BY <1>2, <2>1, <2>2 DEF StoppedOK
  <2>5. StoppedOK'
    BY <1>2, <2>3, <2>4, StoppedByRange
  <2>6. pc' \in [Workers -> AllLabels]
        /\ \A x \in Workers : pc'[x] = after[x] \/ (after[x] = "asleep" /\ pc'[x] = "unlink")
    BY <1>2 DEF AllLabels, Labels
  <2> QED BY <2>2, <2>5, <2>6
<1> QED BY <1>1, <1>2, WakeWorkerEffect DEF ControlTypes

LEMMA WakeControl ==
  ASSUME DataTypes, ControlGood, NEW w \in Workers, Wake(w)
  PROVE  ControlGood'
<1> USE DEF ControlGood
<1> DEFINE after == [pc EXCEPT ![w] = ret[w]]
<1>1. WorkerOK(w) /\ ret[w] \in Returns
  BY DEF ControlOK, WorkerOK, ControlTypes
<1>2. after \in [Workers -> AllLabels] /\ after[w] = ret[w] /\ \A x \in Workers \ {w} : after[x] = pc[x]
  BY <1>1 DEF ControlTypes, AllLabels, Labels, Returns
<1>3. WakeWorker(after) /\ second' = second
  BY DEF Wake
<1> HIDE DEF after
<1>4. /\ StoppedOK'
      /\ pc' \in [Workers -> AllLabels] /\ wakeups_' \in [Workers -> BOOLEAN]
      /\ stopped_' \in Seq(Workers) /\ approximate_size_' \in Nat
      /\ \A x \in Workers : pc'[x] = after[x] \/ (after[x] = "asleep" /\ pc'[x] = "unlink")
  BY <1>2, <1>3, WakeWorkerControl
<1>5. ret' \in [Workers -> Returns] /\ ret'[w] = "run" /\ \A x \in Workers \ {w} : ret'[x] = ret[x]
  BY DEF Wake, NotifyReturns, ControlTypes, Returns
<1>6. pc'[w] = ret[w]
  BY <1>1, <1>2, <1>4 DEF Returns
<1>7. \A x \in Workers \ {w} : Kept(x)
  BY <1>2, <1>4, <1>5 DEF Wake, Kept, queues
<1>8. WorkerOK(w)'
  BY <1>1, <1>5, <1>6 DEF Wake, WorkerOK, HoldsOK, SecondOK, LooksOK, Calls, Sleeping, queues, Returns
<1>9. ControlOK' /\ JoinedOK'
  BY <1>7, <1>8, WorkerStep DEF Wake, client
<1> QED BY <1>4, <1>5, <1>9 DEF ControlTypes, Wake, queues, client

LEMMA PushControl ==
  ASSUME DataTypes, ControlGood, NEW w \in Workers, NEW task \in Tasks,
         PushUpToYou(w, task) \/ PushNext(w, task) \/ PushYield(w, task)
  PROVE  ControlGood'
<1> USE DEF ControlGood
<1>1. WorkerOK(w) /\ pc[w] = "run" /\ lifo_slot_[w] \in Tasks \cup {NULL}
  BY DEF ControlOK, WorkerOK, PushUpToYou, PushNext, PushYield, DataTypes
<1>2. \A x \in Workers \ {w} : lifo_slot_'[x] = lifo_slot_[x]
  BY DEF PushUpToYou, PushNext, PushYield, DataTypes
<1>3. UNCHANGED <<filo_chain_, iter_, coord, next, buffer, second, victim, client>>
  BY DEF PushUpToYou, PushNext, PushYield, locals
<1>4. /\ pc' \in [Workers -> AllLabels] /\ ret' \in [Workers -> Returns]
      /\ \A x \in Workers \ {w} : /\ local_queue_'[x] = local_queue_[x] /\ batch'[x] = batch[x]
                                  /\ pc'[x] = pc[x] /\ ret'[x] = ret[x]
      /\ \/ batch'[w] = batch[w] /\ pc'[w] = "notify" /\ ret'[w] = "run"
         \/ pc'[w] = "offload" /\ ret'[w] = "notify"
  <2>1. ASSUME NEW t \in Tasks, PushToLocalQueue(w, t, "notify") PROVE <1>4
    BY <2>1, PushEffect
  <2>2. ASSUME Goto(w, "notify"), UNCHANGED <<local_queue_, batch, ret>> PROVE <1>4
    BY <1>1, <2>2 DEF Goto, ControlTypes, WorkerOK, HoldsOK, Calls, AllLabels, Labels
  <2>3. CASE PushUpToYou(w, task)
    BY <2>1, <2>3 DEF PushUpToYou
  <2>4. CASE PushNext(w, task)
    BY <1>1, <2>1, <2>2, <2>4 DEF PushNext
  <2>5. CASE PushYield(w, task)
    BY <2>2, <2>5 DEF PushYield, locals
  <2> QED BY <2>3, <2>4, <2>5
<1>5. \A x \in Workers \ {w} : Kept(x)
  BY <1>2, <1>3, <1>4 DEF Kept
<1>6. WorkerOK(w)'
  BY <1>1, <1>3, <1>4 DEF WorkerOK, HoldsOK, SecondOK, LooksOK, Calls, Sleeping
<1>7. ControlOK' /\ JoinedOK'
  BY <1>1, <1>3, <1>5, <1>6, WorkerStep DEF client
<1>8. StoppedOK'
  BY <1>3, StoppedKept DEF coord
<1> QED BY <1>3, <1>4, <1>7, <1>8 DEF ControlTypes, coord, client

LEMMA RunReturnsControl ==
  ASSUME DataTypes, ControlGood, NEW w \in Workers, RunReturns(w)
  PROVE  ControlGood'
<1> USE DEF ControlGood
<1>1. WorkerOK(w)
  BY DEF ControlOK, WorkerOK
<1>2. /\ pc' \in [Workers -> AllLabels] /\ pc'[w] = "pick" /\ next'[w] = NULL
      /\ \A x \in Workers \ {w} : pc'[x] = pc[x] /\ next'[x] = next[x]
  BY DEF RunReturns, Goto, ControlTypes, DataTypes, AllLabels, Labels
<1>3. \A x \in Workers \ {w} : Kept(x)
  BY <1>2 DEF RunReturns, Kept, queues
<1>4. WorkerOK(w)'
  BY <1>1, <1>2 DEF RunReturns, WorkerOK, HoldsOK, SecondOK, LooksOK, Calls, Sleeping, queues
<1>5. ControlOK' /\ JoinedOK'
  BY <1>3, <1>4, WorkerStep DEF RunReturns, client
<1>6. StoppedOK'
  BY StoppedKept DEF RunReturns, coord
<1> QED BY <1>2, <1>5, <1>6 DEF ControlTypes, RunReturns, coord, queues, client

\* A step of a thread outside the pool: it may wake a worker that sleeps.
LEMMA OutsideStep ==
  ASSUME ControlOK, JoinedOK, \A x \in Workers : Kept(x),
         mpc' \in {"joined", "timer_join", "finished"} =>
           mpc \in {"joined", "timer_join", "finished"} \/ \A w \in Workers : pc[w] = "exited"
  PROVE  ControlOK' /\ JoinedOK'
<1>1. ASSUME NEW x \in Workers PROVE WorkerOK(x)'
  BY <1>1, KeptOK DEF ControlOK, WorkerOK
<1>2. \A w \in Workers : pc[w] = "exited" => pc'[w] = "exited"
  BY DEF Kept
<1> QED BY <1>1, <1>2 DEF ControlOK, WorkerOK, JoinedOK

LEMMA ClientControl ==
  ASSUME DataTypes, ControlGood,
         \/ \E task \in Fresh : Submit(task)
         \/ ClientNotify \/ ClientWake \/ StopWorker \/ StopWake \/ Join
  PROVE  ControlGood'
<1> USE DEF ControlGood
<1>1. CASE ClientWake
  <2>1. /\ StoppedOK'
        /\ pc' \in [Workers -> AllLabels] /\ wakeups_' \in [Workers -> BOOLEAN]
        /\ stopped_' \in Seq(Workers) /\ approximate_size_' \in Nat
        /\ \A x \in Workers : pc'[x] = pc[x] \/ (pc[x] = "asleep" /\ pc'[x] = "unlink")
    BY <1>1, WakeWorkerControl DEF ClientWake, ControlTypes, locals
  <2>2. \A x \in Workers : Kept(x)
    BY <1>1, <2>1 DEF ClientWake, Kept, queues, locals
  <2>3. ControlOK' /\ JoinedOK'
    BY <1>1, <2>2, OutsideStep DEF ClientWake
  <2> QED BY <1>1, <2>1, <2>3 DEF ControlTypes, ClientWake, queues, locals, ClientLabels
<1>2. CASE StopWake
  <2>1. /\ pc' \in [Workers -> AllLabels] /\ wakeups_' \in [Workers -> BOOLEAN]
        /\ mworker' \in Workers
        /\ \A x \in Workers : pc'[x] = pc[x] \/ (pc[x] = "asleep" /\ pc'[x] = "unlink")
        /\ \A x \in Workers : wakeups_[x] => wakeups_'[x]
    <3>1. pc' \in [Workers -> AllLabels]
          /\ \A x \in Workers : pc'[x] = pc[x] \/ (pc[x] = "asleep" /\ pc'[x] = "unlink")
      BY <1>2 DEF StopWake, WakeEffect, ControlTypes, AllLabels, Labels
    <3>2. wakeups_' \in [Workers -> BOOLEAN] /\ \A x \in Workers : wakeups_[x] => wakeups_'[x]
      BY <1>2 DEF StopWake, WakeEffect, ControlTypes
    <3>3. mworker' \in Workers
      <4>1. mworker' = mworker \/ (mworker < NumThreads /\ mworker' = mworker + 1)
        BY <1>2 DEF StopWake
      <4>2. mworker \in 1 .. NumThreads
        BY DEF ControlTypes, Workers
      <4> QED BY <4>1, <4>2, PoolAssumption DEF Workers
    <3> QED BY <3>1, <3>2, <3>3
  <2>2. \A x \in Workers : Kept(x)
    BY <1>2, <2>1 DEF StopWake, Kept, queues, locals
  <2>3. ControlOK' /\ JoinedOK'
    BY <1>2, <2>2, OutsideStep DEF StopWake
  <2>4. StoppedOK'
    BY <1>2, <2>1 DEF StopWake, StoppedOK, Linked, Distinct, locals
  <2> QED BY <1>2, <2>1, <2>3, <2>4 DEF ControlTypes, StopWake, queues, locals, ClientLabels
<1>3. CASE (\E task \in Fresh : Submit(task)) \/ ClientNotify \/ StopWorker \/ Join
  <2>1. /\ UNCHANGED <<local_queue_, lifo_slot_, filo_chain_, iter_, wakeups_, stopped_,
                       approximate_size_, pc, locals, mworker>>
        /\ has_stopped_' \in [Workers -> BOOLEAN] /\ mpc' \in ClientLabels
        /\ mpc' \in {"joined", "timer_join", "finished"} => \A w \in Workers : pc[w] = "exited"
    BY <1>3 DEF Submit, ClientNotify, StopWorker, Join, ControlTypes, coord, queues, ClientLabels
  <2>2. \A x \in Workers : Kept(x)
    BY <2>1 DEF Kept, locals
  <2>3. ControlOK' /\ JoinedOK'
    BY <2>1, <2>2, OutsideStep
  <2>4. StoppedOK'
    BY <2>1, StoppedKept DEF locals
  <2> QED BY <2>1, <2>3, <2>4 DEF ControlTypes, locals
<1> QED BY <1>1, <1>2, <1>3

\* Every step of the pool keeps them.
LEMMA PoolControl ==
  ASSUME DataTypes, ControlGood, Next
  PROVE  ControlGood'
<1>1. ASSUME NEW w \in Workers, Schedule(w) PROVE ControlGood'
  BY <1>1, PickControl, GetLifoControl, GetLocalControl, GetGlobalControl, StealControl,
     GetNothingControl, RegisterControl, UnlinkControl, ParkControl, UnpackControl,
     OffloadGrabControl, OffloadPushControl, NotifyControl, WakeControl DEF Schedule
<1>2. ASSUME NEW w \in Workers, TaskPushes(w) \/ RunReturns(w) \/ SpuriousWake(w) PROVE ControlGood'
  BY <1>2, PushControl, RunReturnsControl, ParkControl DEF TaskPushes, Fresh
<1> QED BY <1>1, <1>2, ClientControl DEF Next

-----------------------------------------------------------------------------
(* No step of a worker strands a task, and none of a thread outside but    *)
(* Submit, which looks at stopped_ next.                                   *)

\* Where a worker may stop looking.
Idle == {"run", "set", "getglobal", "steal"} \cup Sleeping

LEMMA LooksAfter ==
  ASSUME NEW w \in Workers, pc'[w] \notin Idle, NEW q \in QueueIds
  PROVE  ~ Stranded(q)'
<1>1. Looks(w, q)'
  BY DEF Looks, Passed, Idle
<1> QED BY <1>1 DEF Stranded

\* Without a worker in stopped_ every worker looks or has its Wake.
LEMMA NobodyLinked ==
  ASSUME StoppedOK, ControlTypes, approximate_size_ = 0
  PROVE  \A x \in Workers : ~ Linked(x)
<1>1. Len(stopped_) = 0
  BY LenProperties DEF StoppedOK, ControlTypes
<1> QED BY <1>1, LenProperties DEF Linked, ControlTypes

LEMMA NobodyPassed ==
  ASSUME StoppedOK, \A x \in Workers : ~ Linked(x), NEW x \in Workers, NEW q
  PROVE  ~ Passed(x, q)
BY DEF StoppedOK, Passed

\* A step that makes nobody miss queue q, and fills no queue.
LEMMA StrandedBefore ==
  ASSUME NEW q, Stranded(q)', Queue(q)' # << >> => Queue(q) # << >>,
         \A x \in Workers : Passed(x, q)' => Passed(x, q),
         \A x \in Workers : Looks(x, q) => Looks(x, q)'
  PROVE  Stranded(q)
BY DEF Stranded

\* ... which is so when all workers but w are as before, and w misses what it missed.
LEMMA StrandedByWorker ==
  ASSUME NEW w \in Workers, NEW q \in QueueIds, Stranded(q)',
         Queue(q)' # << >> => Queue(q) # << >>,
         \A x \in Workers \ {w} : pc'[x] = pc[x] /\ victim'[x] = victim[x],
         UNCHANGED <<second, wakeups_>>,
         Passed(w, q)' <=> Passed(w, q),
         pc[w] \notin {"run", "set"}, pc'[w] \notin {"run", "set"}
  PROVE  Stranded(q)
<1>1. \A x \in Workers \ {w} : (Passed(x, q)' <=> Passed(x, q)) /\ (Looks(x, q) <=> Looks(x, q)')
  BY DEF Looks, Passed
<1>2. Looks(w, q) => Looks(w, q)'
  BY DEF Looks
<1> QED BY <1>1, <1>2, StrandedBefore

LEMMA GetLocalStranded ==
  ASSUME ControlGood, DataTypes, NEW w \in Workers, GetLocal(w), NEW q \in QueueIds, Stranded(q)'
  PROVE  Stranded(q)
<1>1. pc' = [pc EXCEPT ![w] = pc'[w]]
      /\ (pc'[w] \in {"unpack", "unlinkfound", "notify"}
          \/ (pc'[w] = "getglobal" /\ local_queue_'[w] = << >>))
  BY DEF GetLocal, Found, Goto, Chosen, ControlGood, ControlTypes
<1>2. CASE pc'[w] \in {"unpack", "unlinkfound", "notify"}
  BY <1>2, LooksAfter DEF Idle, Sleeping
<1>3. CASE pc'[w] = "getglobal" /\ local_queue_'[w] = << >>
  <2>1. q # w
    BY <1>3, PoolAssumption DEF Stranded, Queue, Workers
  <2>2. Looks(w, q)'
    BY <1>3, <2>1 DEF Looks, Passed, Sleeping
  <2> QED BY <2>2 DEF Stranded
<1> QED BY <1>1, <1>2, <1>3

LEMMA GetGlobalStranded ==
  ASSUME ControlGood, DataTypes, NEW w \in Workers, GetGlobal(w), NEW q \in QueueIds, Stranded(q)'
  PROVE  Stranded(q)
<1>1. CASE GrabGlobal(w)
  <2>1. pc'[w] \in {"unpack", "unlinkfound", "notify"}
    BY <1>1 DEF GrabGlobal, Found, Goto, Chosen, ControlGood, ControlTypes
  <2> QED BY <2>1, LooksAfter DEF Idle, Sleeping
<1>2. ASSUME global_queue_ = << >>, Goto(w, "steal"), victim' = [victim EXCEPT ![w] = NextVictim(w, 0)],
             global_queue_' = global_queue_
      PROVE  Stranded(q)
  <2>1. pc'[w] = "steal" /\ victim'[w] = NextVictim(w, 0)
        /\ \A x \in Workers \ {w} : pc'[x] = pc[x] /\ victim'[x] = victim[x]
    BY <1>2 DEF Goto, ControlGood, ControlTypes
  <2>2. q # 0
    BY <1>2 DEF Stranded, Queue
  <2>3. CASE q = w
    <3>1. Passed(w, q)' <=> Passed(w, q)
      BY <2>1, <2>3 DEF Passed, GetGlobal, coord, Sleeping
    <3>2. Queue(q)' = Queue(q)
      BY <1>2 DEF Queue, GetGlobal
    <3> QED BY <2>1, <3>1, <3>2, StrandedByWorker DEF GetGlobal, coord
  <2>4. CASE q # w
    <3>1. ~ (q < NextVictim(w, 0))
      BY <2>2, <2>4, PoolAssumption DEF NextVictim, QueueIds, Workers
    <3>2. Looks(w, q)'
      BY <2>1, <2>4, <3>1 DEF Looks, Passed, Sleeping
    <3> QED BY <3>2 DEF Stranded
  <2> QED BY <2>3, <2>4
<1> QED BY <1>1, <1>2 DEF GetGlobal

LEMMA StealStranded ==
  ASSUME ControlGood, DataTypes, NEW w \in Workers, Steal(w), NEW q \in QueueIds, Stranded(q)'
  PROVE  Stranded(q)
<1> DEFINE v == victim[w]
<1>0. v \in Workers
  BY DEF Steal, ControlGood, ControlTypes, ControlOK, LooksOK, Workers
<1>1. CASE \E tasks \in Grabbed(v, GrabAmount) : Found(w, tasks)
  <2>1. pc'[w] \in {"unpack", "unlinkfound", "notify"}
    BY <1>1 DEF Found, Goto, Chosen, ControlGood, ControlTypes
  <2> QED BY <2>1, LooksAfter DEF Idle, Sleeping
<1>2. ASSUME local_queue_[v] = << >>, victim' = [victim EXCEPT ![w] = NextVictim(w, v)],
             UNCHANGED <<pc, local_queue_, next, buffer>>
      PROVE  Stranded(q)
  <2>1. pc[w] = "steal" /\ pc'[w] = "steal" /\ victim'[w] = NextVictim(w, v)
        /\ \A x \in Workers \ {w} : pc'[x] = pc[x] /\ victim'[x] = victim[x]
    BY <1>2 DEF Steal, ControlGood, ControlTypes
  <2>2. q # v
    BY <1>0, <1>2 DEF Stranded, Queue, Workers
  <2>3. q < NextVictim(w, v) => q < v \/ q = w
    BY <1>0, <2>2, PoolAssumption DEF NextVictim, QueueIds, Workers
  <2>4. CASE q = w \/ q < v
    <3>1. q = w \/ q < NextVictim(w, v)
      BY <1>0, <2>4, PoolAssumption DEF NextVictim, QueueIds, Workers
    <3>2. Passed(w, q)' <=> Passed(w, q)
      BY <2>1, <2>4, <3>1 DEF Passed, Steal, coord, Sleeping
    <3>3. Queue(q)' = Queue(q)
      BY <1>2 DEF Queue, Steal
    <3> QED BY <2>1, <3>2, <3>3, StrandedByWorker DEF Steal, coord
  <2>5. CASE ~ (q = w \/ q < v)
    <3>1. Looks(w, q)'
      BY <2>1, <2>3, <2>5 DEF Looks, Passed, Sleeping
    <3> QED BY <3>1 DEF Stranded
  <2> QED BY <2>4, <2>5
<1> QED BY <1>1, <1>2 DEF Steal

LEMMA GetNothingStranded ==
  ASSUME ControlGood, DataTypes, NEW w \in Workers, GetNothing(w), NEW q \in QueueIds, Stranded(q)'
  PROVE  Stranded(q)
<1>1. CASE ~ second[w]
  <2>1. pc'[w] = "addstopped"
    BY <1>1 DEF GetNothing, Goto, ControlGood, ControlTypes
  <2> QED BY <2>1, LooksAfter DEF Idle, Sleeping
<1>2. CASE second[w]
  <2>1. pc[w] = "steal" /\ pc'[w] = "checkstop" /\ wakeups_' = wakeups_
        /\ \A x \in Workers \ {w} : pc'[x] = pc[x] /\ victim'[x] = victim[x]
    BY <1>2 DEF GetNothing, Goto, ControlGood, ControlTypes
  <2>2. q < victim[w]
    BY PoolAssumption DEF GetNothing, QueueIds, ControlGood, ControlTypes
  <2>3. Passed(w, q)' <=> Passed(w, q)
    BY <2>1, <2>2 DEF Passed, GetNothing, Sleeping
  <2>4. Queue(q)' = Queue(q)
    BY DEF Queue, GetNothing, queues
  <2> QED BY <2>1, <2>3, <2>4, StrandedByWorker DEF GetNothing
<1> QED BY <1>1, <1>2

LEMMA ParkStranded ==
  ASSUME ControlGood, NEW w \in Workers, CheckStop(w) \/ Park(w), NEW q \in QueueIds, Stranded(q)'
  PROVE  Stranded(q)
<1>1. /\ UNCHANGED <<queues, coord, locals>>
      /\ pc[w] \in {"checkstop", "park"} /\ pc'[w] \in {"exit", "park", "unlink", "asleep"}
      /\ \A x \in Workers \ {w} : pc'[x] = pc[x]
  BY DEF CheckStop, Park, Goto, ControlGood, ControlTypes
<1>2. CASE pc'[w] \in {"exit", "unlink"}
  BY <1>2, LooksAfter DEF Idle, Sleeping
<1>3. CASE pc'[w] \in {"park", "asleep"}
  <2>1. Passed(w, q)' <=> Passed(w, q)
    BY <1>1, <1>3 DEF Passed, Sleeping, coord, locals
  <2>2. Queue(q)' = Queue(q)
    BY <1>1 DEF Queue, queues
  <2> QED BY <1>1, <1>3, <2>1, <2>2, StrandedByWorker DEF coord, locals
<1> QED BY <1>1, <1>2, <1>3

\* A thread that has looked at stopped_ leaves no task behind.
LEMMA NotifiedNobody ==
  ASSUME ControlGood, approximate_size_ = 0, UNCHANGED <<coord, second>>
  PROVE  NothingStranded'
<1>1. StoppedOK'
  BY StoppedKept DEF ControlGood, coord
<1>2. \A x \in Workers : ~ Linked(x)'
  BY NobodyLinked DEF ControlGood, Linked, coord
<1>3. \A x \in Workers : ~ (second'[x] /\ ~ wakeups_'[x])
  BY <1>1, <1>2 DEF StoppedOK
<1> QED BY <1>3 DEF NothingStranded, Stranded, Passed

LEMMA WokenOne ==
  ASSUME ControlGood, NEW after \in [Workers -> AllLabels], WakeWorker(after), second' = second,
         \A x \in Workers : second[x] => after[x] \notin {"run", "set"}
  PROVE  NothingStranded'
<1>1. CASE (\A x \in Workers : ~ Linked(x)) /\ UNCHANGED wakeups_
  <2>1. \A x \in Workers : ~ (second'[x] /\ ~ wakeups_'[x])
    BY <1>1 DEF ControlGood, StoppedOK
  <2> QED BY <2>1 DEF NothingStranded, Stranded, Passed
<1>2. ASSUME NEW h \in Workers, second[h], wakeups_' = [wakeups_ EXCEPT ![h] = TRUE],
             pc' = IF after[h] = "asleep" THEN [after EXCEPT ![h] = "unlink"] ELSE after
      PROVE  NothingStranded'
  <2>1. wakeups_'[h] /\ pc'[h] \notin {"run", "set"}
    BY <1>2 DEF ControlGood, ControlTypes
  <2>2. \A q : Looks(h, q)'
    BY <2>1 DEF Looks, Passed
  <2> QED BY <2>2 DEF NothingStranded, Stranded
<1> QED BY <1>1, <1>2, WakeWorkerEffect DEF ControlGood

LEMMA NotifyStranded ==
  ASSUME ControlGood, NEW w \in Workers, Notify(w) \/ Wake(w), NEW q \in QueueIds, Stranded(q)'
  PROVE  Stranded(q)
<1>1. CASE Notify(w) /\ approximate_size_ = 0
  BY <1>1, NotifiedNobody DEF Notify, NothingStranded
<1>2. CASE Notify(w) /\ approximate_size_ # 0
  <2>1. pc'[w] = "wake"
    BY <1>2 DEF Notify, Goto, ControlGood, ControlTypes
  <2> QED BY <2>1, LooksAfter DEF Idle, Sleeping
<1>3. CASE Wake(w)
  <2> DEFINE after == [pc EXCEPT ![w] = ret[w]]
  <2>1. after \in [Workers -> AllLabels] /\ after[w] = ret[w] /\ \A x \in Workers \ {w} : after[x] = pc[x]
    BY DEF ControlGood, ControlTypes, AllLabels, Labels, Returns
  <2>2. WakeWorker(after) /\ second' = second
    BY <1>3 DEF Wake
  <2> HIDE DEF after
  <2>3. \A x \in Workers : second[x] => after[x] \notin {"run", "set"}
    BY <1>3, <2>1 DEF Wake, ControlGood, ControlOK, SecondOK, Calls, Sleeping
  <2> QED BY <2>1, <2>2, <2>3, WokenOne DEF NothingStranded
<1> QED BY <1>1, <1>2, <1>3

\* The steps after which the worker looks again.
LEMMA WillLook ==
  ASSUME ControlTypes, DataTypes, NEW w \in Workers,
         \/ Pick(w) \/ GetLifo(w) \/ Register(w) \/ UnlinkFound(w) \/ Exit(w) \/ UnlinkAfterWait(w)
         \/ SpuriousWake(w) \/ Unpack(w) \/ OffloadGrab(w) \/ OffloadPush(w) \/ TaskPushes(w)
         \/ RunReturns(w)
  PROVE  pc'[w] \notin Idle
<1> USE DEF ControlTypes, Goto, Idle, Sleeping
<1>1. CASE Pick(w) \/ GetLifo(w)
  BY <1>1, SMTT(30) DEF Pick, GetLifo, GrabGlobal, Found, Chosen
<1>2. CASE Register(w) \/ UnlinkFound(w) \/ Exit(w) \/ UnlinkAfterWait(w) \/ SpuriousWake(w)
  BY <1>2 DEF Register, UnlinkFound, Exit, UnlinkAfterWait, SpuriousWake
<1>3. CASE OffloadGrab(w) \/ OffloadPush(w) \/ RunReturns(w)
  BY <1>3 DEF OffloadGrab, OffloadPush, RunReturns
<1>4. CASE Unpack(w)
  BY <1>4 DEF Unpack, PushToLocalQueue, Chosen
<1>5. CASE TaskPushes(w)
  BY <1>5 DEF TaskPushes, PushUpToYou, PushNext, PushYield, PushToLocalQueue
<1> QED BY <1>1, <1>2, <1>3, <1>4, <1>5

LEMMA WorkerStrands ==
  ASSUME ControlGood, DataTypes, NEW w \in Workers,
         Schedule(w) \/ TaskPushes(w) \/ RunReturns(w) \/ SpuriousWake(w),
         NEW q \in QueueIds, Stranded(q)'
  PROVE  Stranded(q)
<1>1. CASE \/ Pick(w) \/ GetLifo(w) \/ Register(w) \/ UnlinkFound(w) \/ Exit(w) \/ UnlinkAfterWait(w)
           \/ SpuriousWake(w) \/ Unpack(w) \/ OffloadGrab(w) \/ OffloadPush(w) \/ TaskPushes(w)
           \/ RunReturns(w)
  BY <1>1, WillLook, LooksAfter DEF ControlGood
<1> QED BY <1>1, GetLocalStranded, GetGlobalStranded, StealStranded, GetNothingStranded, ParkStranded,
        NotifyStranded DEF Schedule

\* A thread outside that wakes workers.
LEMMA StopWakeStrands ==
  ASSUME ControlGood, StopWake, NEW q \in QueueIds, Stranded(q)'
  PROVE  Stranded(q)
<1>0. PICK h \in Workers : h = mworker
  BY DEF ControlGood, ControlTypes
<1>1. /\ wakeups_'[h]
      /\ \A x \in Workers \ {h} : wakeups_'[x] = wakeups_[x] /\ pc'[x] = pc[x]
      /\ pc'[h] \in {"run", "set"} <=> pc[h] \in {"run", "set"}
      /\ UNCHANGED <<second, victim>>
  BY <1>0 DEF ControlGood, ControlTypes, StopWake, WakeEffect, locals
<1>2. ~ Passed(h, q)'
  BY <1>1 DEF Passed
<1>3. Looks(h, q) => Looks(h, q)'
  BY <1>1, <1>2 DEF Looks
<1>4. \A x \in Workers \ {h} : (Passed(x, q)' <=> Passed(x, q)) /\ (Looks(x, q) <=> Looks(x, q)')
  BY <1>1 DEF Looks, Passed
<1>5. Queue(q)' = Queue(q)
  BY DEF Queue, StopWake, queues
<1> QED BY <1>2, <1>3, <1>4, <1>5, StrandedBefore

\* Submit, by whatever thread outside, strands nothing in a local queue.
LEMMA ViewKept ==
  ASSUME UNCHANGED <<local_queue_, pc, second, victim, wakeups_>>, NEW q \in QueueIds, Stranded(q)',
         q # 0 \/ global_queue_' = global_queue_
  PROVE  Stranded(q)
BY DEF Stranded, Looks, Passed, Queue

LEMMA ClientStrands ==
  ASSUME ControlGood, StrandedOK,
         \/ \E task \in Fresh : Submit(task)
         \/ ClientNotify \/ ClientWake \/ StopWorker \/ StopWake \/ Join
  PROVE  StrandedOK'
<1>1. CASE \E task \in Fresh : Submit(task)
  BY <1>1 DEF Submit, StrandedOK
<1>2. CASE ClientNotify
  BY <1>2, NotifiedNobody DEF ClientNotify, StrandedOK, ControlGood, ControlTypes, coord, locals
<1>3. CASE ClientWake
  <2>1. \A x \in Workers : second[x] => pc[x] \notin {"run", "set"}
    BY DEF ControlGood, ControlOK, SecondOK, Calls, Sleeping
  <2> QED BY <1>3, <2>1, WokenOne DEF ClientWake, StrandedOK, ControlGood, ControlTypes, locals
<1>4. CASE StopWake
  BY <1>4, StopWakeStrands DEF StrandedOK, NothingStranded, StopWake
<1>5. CASE StopWorker \/ Join
  <2>1. mpc \notin {"notify", "wake"} /\ UNCHANGED <<queues, pc, second, victim, wakeups_>>
    BY <1>5 DEF StopWorker, Join, coord, locals
  <2> QED BY <2>1, ViewKept DEF StrandedOK, NothingStranded, queues
<1> QED BY <1>1, <1>2, <1>3, <1>4, <1>5

LEMMA StrandedStep ==
  ASSUME ControlGood, DataTypes, StrandedOK, Next
  PROVE  StrandedOK'
<1>1. ASSUME NEW w \in Workers, Schedule(w) \/ TaskPushes(w) \/ RunReturns(w) \/ SpuriousWake(w)
      PROVE  StrandedOK'
  <2>1. mpc' = mpc
    BY <1>1 DEF Schedule, TaskPushes, client, Pick, GetLifo, GetLocal, GetGlobal, Steal, GetNothing,
       Register, UnlinkFound, CheckStop, Exit, Park, UnlinkAfterWait, Unpack, OffloadGrab, OffloadPush,
       Notify, Wake, PushUpToYou, PushNext, PushYield, RunReturns, SpuriousWake
  <2> QED BY <1>1, <2>1, WorkerStrands DEF StrandedOK, NothingStranded
<1> QED BY <1>1, ClientStrands DEF Next

-----------------------------------------------------------------------------
(* Tasks move between places; none is lost, and none is in two places.     *)

\* The contents of p, q and r are shared out anew, with new tasks N.
Shares(c, d, p, q, r, N) ==
  /\ DOMAIN d = DOMAIN c /\ {p, q, r} \subseteq DOMAIN c
  /\ N \cap Total(c) = {}
  /\ \A x \in (DOMAIN c) \ {p, q, r} : d[x] = c[x]
  /\ d[p] \cup d[q] \cup d[r] = c[p] \cup c[q] \cup c[r] \cup N
  /\ \A x, y \in {p, q, r} : x # y => d[x] \cap d[y] = {}

LEMMA Moves ==
  ASSUME NEW c, NEW d, NEW p, NEW q, NEW r, NEW N, Apart(c), Shares(c, d, p, q, r, N)
  PROVE  Apart(d) /\ Total(d) = Total(c) \cup N
<1> DEFINE P == DOMAIN c
<1>0. /\ DOMAIN c = P /\ DOMAIN d = P /\ p \in P /\ q \in P /\ r \in P /\ N \cap Total(c) = {}
      /\ \A x \in P \ {p, q, r} : d[x] = c[x]
      /\ d[p] \cup d[q] \cup d[r] = c[p] \cup c[q] \cup c[r] \cup N
      /\ \A x, y \in {p, q, r} : x # y => d[x] \cap d[y] = {}
  BY DEF Shares
<1> HIDE DEF P
<1>1. \A x, y \in P : x # y => c[x] \cap c[y] = {}
  BY <1>0 DEF Apart
<1>2. \A x \in P : c[x] \subseteq Total(c) /\ d[x] \subseteq Total(d)
  BY <1>0 DEF Total
<1>3. ASSUME NEW x \in P, NEW y \in P, x # y PROVE d[x] \cap d[y] = {}
  <2>1. CASE x \in {p, q, r} /\ y \in {p, q, r}
    BY <1>0, <1>3, <2>1
  <2>2. CASE x \notin {p, q, r} /\ y \notin {p, q, r}
    BY <1>0, <1>1, <1>3, <2>2
  <2>3. CASE x \in {p, q, r} /\ y \notin {p, q, r}
    <3>1. d[x] \subseteq c[p] \cup c[q] \cup c[r] \cup N /\ d[y] = c[y]
      BY <1>0, <2>3
    <3>2. c[p] \cap c[y] = {} /\ c[q] \cap c[y] = {} /\ c[r] \cap c[y] = {} /\ N \cap c[y] = {}
      BY <1>0, <1>1, <1>2, <2>3
    <3> QED BY <3>1, <3>2
  <2>4. CASE x \notin {p, q, r} /\ y \in {p, q, r}
    <3>1. d[y] \subseteq c[p] \cup c[q] \cup c[r] \cup N /\ d[x] = c[x]
      BY <1>0, <2>4
    <3>2. c[p] \cap c[x] = {} /\ c[q] \cap c[x] = {} /\ c[r] \cap c[x] = {} /\ N \cap c[x] = {}
      BY <1>0, <1>1, <1>2, <2>4
    <3> QED BY <3>1, <3>2
  <2> QED BY <2>1, <2>2, <2>3, <2>4
<1>4. ASSUME NEW e \in Total(d) PROVE e \in Total(c) \cup N
  <2>1. PICK x \in P : e \in d[x]
    BY <1>0 DEF Total
  <2>2. CASE x \in {p, q, r}
    <3>1. e \in c[p] \cup c[q] \cup c[r] \cup N
      BY <1>0, <2>1, <2>2
    <3> QED BY <1>0, <1>2, <3>1
  <2> QED BY <1>0, <1>2, <2>1, <2>2
<1>5. ASSUME NEW e \in Total(c) \cup N PROVE e \in Total(d)
  <2>1. ASSUME NEW x \in P, e \in c[x] PROVE e \in Total(d)
    <3>1. CASE x \in {p, q, r}
      <4>1. e \in d[p] \cup d[q] \cup d[r]
        BY <1>0, <2>1, <3>1
      <4> QED BY <1>0, <1>2, <4>1
    <3> QED BY <1>0, <1>2, <2>1, <3>1
  <2>2. CASE e \in N
    <3>1. e \in d[p] \cup d[q] \cup d[r]
      BY <1>0, <2>2
    <3> QED BY <1>0, <1>2, <3>1
  <2>3. CASE e \in Total(c)
    <3>1. PICK x \in P : e \in c[x]
      BY <1>0, <2>3 DEF Total
    <3> QED BY <2>1, <3>1
  <2> QED BY <2>2, <2>3
<1> QED BY <1>0, <1>3, <1>4, <1>5 DEF Apart

\* The contents of p are gone.
LEMMA Removes ==
  ASSUME NEW P, NEW c, NEW d, DOMAIN c = P, DOMAIN d = P, Apart(c), NEW p \in P,
         \A x \in P \ {p} : d[x] = c[x], d[p] = {}
  PROVE  Apart(d) /\ Total(d) = Total(c) \ c[p]
<1>1. \A x, y \in P : x # y => c[x] \cap c[y] = {}
  BY DEF Apart
<1>2. ASSUME NEW x \in P, NEW y \in P, x # y PROVE d[x] \cap d[y] = {}
  BY <1>1, <1>2
<1>3. ASSUME NEW e \in Total(d) PROVE e \in Total(c) \ c[p]
  <2>1. PICK x \in P : e \in d[x]
    BY DEF Total
  <2>2. x # p /\ e \in c[x]
    BY <2>1
  <2>3. e \in Total(c) /\ e \notin c[p]
    BY <1>1, <2>2 DEF Total
  <2> QED BY <2>3
<1>4. ASSUME NEW e \in Total(c) \ c[p] PROVE e \in Total(d)
  <2>1. PICK x \in P : e \in c[x]
    BY DEF Total
  <2>2. x # p /\ e \in d[x]
    BY <2>1
  <2> QED BY <2>2 DEF Total
<1> QED BY <1>2, <1>3, <1>4 DEF Apart

\* The places of worker w, and what they hold before and after a step.
LEMMA ContentsAt ==
  ASSUME NEW w \in Workers
  PROVE  /\ DOMAIN Contents = Places /\ GlobalPlace \in Places
         /\ \A k \in Kinds : <<k, w>> \in Places
         /\ Contents[GlobalPlace] = SeqRange(global_queue_)
         /\ Contents[<<"local", w>>] = SeqRange(local_queue_[w])
         /\ Contents[<<"buffer", w>>] = SeqRange(buffer[w])
         /\ Contents[<<"batch", w>>] = SeqRange(batch[w])
         /\ Contents[<<"lifo", w>>] = {lifo_slot_[w]} \ {NULL}
         /\ Contents[<<"next", w>>] = {next[w]} \ {NULL}
BY DEF Contents, Content, Places, Kinds, GlobalPlace

LEMMA ContentsAtNext ==
  ASSUME NEW w \in Workers
  PROVE  /\ DOMAIN Contents' = Places
         /\ Contents'[GlobalPlace] = SeqRange(global_queue_')
         /\ Contents'[<<"local", w>>] = SeqRange(local_queue_'[w])
         /\ Contents'[<<"buffer", w>>] = SeqRange(buffer'[w])
         /\ Contents'[<<"batch", w>>] = SeqRange(batch'[w])
         /\ Contents'[<<"lifo", w>>] = {lifo_slot_'[w]} \ {NULL}
         /\ Contents'[<<"next", w>>] = {next'[w]} \ {NULL}
BY DEF Contents, Content, Places, Kinds, GlobalPlace, SeqRange

\* The places outside C hold what they held.
LEMMA PlacesKept ==
  ASSUME NEW C,
         GlobalPlace \in C \/ global_queue_' = global_queue_,
         \A x \in Workers : <<"local", x>> \in C \/ local_queue_'[x] = local_queue_[x],
         \A x \in Workers : <<"buffer", x>> \in C \/ buffer'[x] = buffer[x],
         \A x \in Workers : <<"batch", x>> \in C \/ batch'[x] = batch[x],
         \A x \in Workers : <<"lifo", x>> \in C \/ lifo_slot_'[x] = lifo_slot_[x],
         \A x \in Workers : <<"next", x>> \in C \/ next'[x] = next[x]
  PROVE  \A p \in Places \ C : Contents'[p] = Contents[p]
<1> SUFFICES ASSUME NEW p \in Places \ C PROVE Contents'[p] = Contents[p]
  OBVIOUS
<1>1. CASE p = GlobalPlace
  <2>1. global_queue_' = global_queue_
    BY <1>1
  <2>2. 1 \in Workers
    BY PoolAssumption DEF Workers
  <2> QED BY <1>1, <2>1, <2>2, ContentsAt, ContentsAtNext
<1>2. ASSUME NEW x \in Workers, p \in {<<k, x>> : k \in Kinds} PROVE Contents'[p] = Contents[p]
  <2>1. CASE p = <<"local", x>>
    <3>1. local_queue_'[x] = local_queue_[x]
      BY <2>1
    <3>2. Contents[<<"local", x>>] = SeqRange(local_queue_[x])
      BY ContentsAt
    <3>3. Contents'[<<"local", x>>] = SeqRange(local_queue_'[x])
      BY ContentsAtNext
    <3> QED BY <2>1, <3>1, <3>2, <3>3
  <2>2. CASE p = <<"buffer", x>>
    <3>1. buffer'[x] = buffer[x]
      BY <2>2
    <3>2. Contents[<<"buffer", x>>] = SeqRange(buffer[x])
      BY ContentsAt
    <3>3. Contents'[<<"buffer", x>>] = SeqRange(buffer'[x])
      BY ContentsAtNext
    <3> QED BY <2>2, <3>1, <3>2, <3>3
  <2>3. CASE p = <<"batch", x>>
    <3>1. batch'[x] = batch[x]
      BY <2>3
    <3>2. Contents[<<"batch", x>>] = SeqRange(batch[x])
      BY ContentsAt
    <3>3. Contents'[<<"batch", x>>] = SeqRange(batch'[x])
      BY ContentsAtNext
    <3> QED BY <2>3, <3>1, <3>2, <3>3
  <2>4. CASE p = <<"lifo", x>>
    <3>1. lifo_slot_'[x] = lifo_slot_[x]
      BY <2>4
    <3>2. Contents[<<"lifo", x>>] = {lifo_slot_[x]} \ {NULL}
      BY ContentsAt
    <3>3. Contents'[<<"lifo", x>>] = {lifo_slot_'[x]} \ {NULL}
      BY ContentsAtNext
    <3> QED BY <2>4, <3>1, <3>2, <3>3
  <2>5. CASE p = <<"next", x>>
    <3>1. next'[x] = next[x]
      BY <2>5
    <3>2. Contents[<<"next", x>>] = {next[x]} \ {NULL}
      BY ContentsAt
    <3>3. Contents'[<<"next", x>>] = {next'[x]} \ {NULL}
      BY ContentsAtNext
    <3> QED BY <2>5, <3>1, <3>2, <3>3
  <2> QED BY <1>2, <2>1, <2>2, <2>3, <2>4, <2>5 DEF Kinds
<1>3. p = GlobalPlace \/ \E x \in Workers : p \in {<<k, x>> : k \in Kinds}
  BY DEF Places
<1> QED BY <1>1, <1>2, <1>3

DistinctQueues ==
  /\ Distinct(global_queue_)
  /\ \A w \in Workers : Distinct(local_queue_[w]) /\ Distinct(buffer[w]) /\ Distinct(batch[w])

\* A step that shares out the contents of three places anew.
LEMMA OnceStep ==
  ASSUME OnceOK, DistinctQueues', NEW p, NEW q, NEW r, NEW N, Shares(Contents, Contents', p, q, r, N),
         Total(Contents) \cup N \subseteq submitted' \ done'
  PROVE  OnceOK' /\ Total(Contents)' = Total(Contents) \cup N
<1>1. Apart(Contents') /\ Total(Contents') = Total(Contents) \cup N
  BY Moves DEF OnceOK
<1> QED BY <1>1 DEF OnceOK, DistinctQueues, Apart, Total

\* The queues of a state without repetitions, and the places apart.
LEMMA OnceFacts ==
  ASSUME OnceOK
  PROVE  /\ DistinctQueues
         /\ \A p, q \in Places : p # q => Contents[p] \cap Contents[q] = {}
         /\ \A p \in Places : Contents[p] \subseteq Total(Contents)
         /\ Total(Contents) \subseteq submitted \ done
<1>1. DOMAIN Contents = Places
  BY DEF Contents
<1> QED BY <1>1 DEF OnceOK, DistinctQueues, Apart, Total

\* Worker w takes tasks from s: one it is to run, the rest into its buffer.
LEMMA FoundOnce ==
  ASSUME DataTypes, ControlTypes, OnceOK, NEW w \in Workers, next[w] = NULL, buffer[w] = << >>,
         NEW tasks \in Seq(Tasks), tasks # << >>, Distinct(tasks), Found(w, tasks),
         UNCHANGED <<batch, submitted, done>>,
         NEW s \in Places, s # <<"next", w>>, s # <<"buffer", w>>,
         Contents[s] = SeqRange(tasks) \cup Contents'[s], SeqRange(tasks) \cap Contents'[s] = {},
         \A x \in Places \ {s, <<"next", w>>, <<"buffer", w>>} : Contents'[x] = Contents[x],
         Distinct(global_queue_)', \A x \in Workers : Distinct(local_queue_[x])'
  PROVE  OnceOK' /\ Outside' = Outside
<1> DEFINE n == <<"next", w>>
           b == <<"buffer", w>>
           head == Head(tasks)
           rest == Tail(tasks)
<1>1. /\ next'[w] = head /\ next'[w] # NULL /\ buffer'[w] = rest
      /\ \A x \in Workers \ {w} : buffer'[x] = buffer[x]
  BY FoundEffect
<1>2. /\ SeqRange(tasks) = {head} \cup SeqRange(rest)
      /\ Distinct(rest) /\ head \notin SeqRange(rest)
  BY HeadTailRange
<1> HIDE DEF head, rest
<1>3. n \in Places /\ b \in Places /\ n # b /\ Contents[n] = {} /\ Contents[b] = {}
  <2>1. Contents[n] = {next[w]} \ {NULL} /\ Contents[b] = SeqRange(buffer[w])
    BY ContentsAt
  <2>2. SeqRange(buffer[w]) = {}
    BY RangeIndex
  <2> QED BY <2>1, <2>2 DEF Places, Kinds
<1>4. Contents'[n] = {head} /\ Contents'[b] = SeqRange(rest)
  <2>1. Contents'[n] = {next'[w]} \ {NULL} /\ Contents'[b] = SeqRange(buffer'[w])
    BY ContentsAtNext
  <2> QED BY <1>1, <2>1
<1> HIDE DEF n, b
<1>5. DistinctQueues'
  <2>1. ASSUME NEW x \in Workers PROVE Distinct(buffer[x])' /\ Distinct(batch[x])'
    <3>1. Distinct(buffer[x]) /\ Distinct(batch[x])
      BY OnceFacts DEF DistinctQueues
    <3>2. CASE x = w
      BY <1>1, <1>2, <3>1, <3>2 DEF Distinct
    <3>3. CASE x # w
      BY <1>1, <3>1, <3>3 DEF Distinct
    <3> QED BY <3>2, <3>3
  <2> QED BY <2>1 DEF DistinctQueues
<1>6. OnceOK' /\ Total(Contents)' = Total(Contents)
  <2> DEFINE N == {}
  <2>1. Contents'[s] \cup Contents'[n] \cup Contents'[b] = Contents[s] \cup Contents[n] \cup Contents[b] \cup N
    BY <1>2, <1>3, <1>4
  <2>2. \A x, y \in {s, n, b} : x # y => Contents'[x] \cap Contents'[y] = {}
    BY <1>2, <1>4
  <2>3. Total(Contents) \cup N \subseteq submitted' \ done' /\ N \cap Total(Contents) = {}
    BY OnceFacts
  <2>4. \A x \in Places \ {s, n, b} : Contents'[x] = Contents[x]
    BY DEF n, b
  <2>5. Total(Contents) \cup N = Total(Contents)
    OBVIOUS
  <2> HIDE DEF N
  <2>6. OnceOK' /\ Total(Contents)' = Total(Contents) \cup N
    <3>1. DOMAIN Contents = Places /\ DOMAIN Contents' = Places
      BY DEF Contents
    <3>2. Shares(Contents, Contents', s, n, b, N)
      BY <1>3, <2>1, <2>2, <2>3, <2>4, <3>1 DEF Shares
    <3> QED BY <1>5, <2>3, <3>2, OnceStep
  <2> QED BY <2>5, <2>6
<1> QED BY <1>6 DEF Outside

\* A queue loses a prefix.
LEMMA PrefixTaken ==
  ASSUME NEW q \in Seq(Tasks), Distinct(q), NEW n \in 0 .. Len(q)
  PROVE  LET a == SubSeq(q, 1, n)
             b == SubSeq(q, n + 1, Len(q))
         IN /\ Distinct(a) /\ Distinct(b)
            /\ SeqRange(q) = SeqRange(a) \cup SeqRange(b) /\ SeqRange(a) \cap SeqRange(b) = {}
BY Split

\* PickTask looks for tasks only when it holds none.
LEMMA Empty ==
  ASSUME ControlOK, NEW w \in Workers, pc[w] \in {"pick", "get", "getglobal", "steal"}
  PROVE  next[w] = NULL /\ buffer[w] = << >>
BY DEF ControlOK, HoldsOK, Calls

LEMMA GrabGlobalOnce ==
  ASSUME DataTypes, ControlGood, OnceOK, NEW w \in Workers, Pick(w) \/ GetGlobal(w), GrabGlobal(w)
  PROVE  DataTypes' /\ OnceOK' /\ Outside' = Outside
<1>1. PICK n \in 1 .. Len(global_queue_) :
        LET tasks == SubSeq(global_queue_, 1, n) IN
        /\ tasks \in Seq(Tasks) /\ tasks # << >> /\ Found(w, tasks)
        /\ global_queue_' = SubSeq(global_queue_, n + 1, Len(global_queue_))
  BY GlobalGrabbed
<1> DEFINE tasks == SubSeq(global_queue_, 1, n)
           rest == SubSeq(global_queue_, n + 1, Len(global_queue_))
<1>2. /\ UNCHANGED <<local_queue_, lifo_slot_, batch, submitted, done>>
      /\ next[w] = NULL /\ buffer[w] = << >>
  BY Empty DEF Pick, GetGlobal, history, ControlGood
<1>3. n \in 0 .. Len(global_queue_) /\ global_queue_ \in Seq(Tasks) /\ Distinct(global_queue_)
  BY LenProperties, OnceFacts DEF DataTypes, DistinctQueues
<1>4. /\ Distinct(tasks) /\ Distinct(rest) /\ SeqRange(tasks) \cap SeqRange(rest) = {}
      /\ SeqRange(global_queue_) = SeqRange(tasks) \cup SeqRange(rest)
  BY <1>3, PrefixTaken
<1>5. rest \in Seq(Tasks)
  BY <1>3, Split
<1>6. tasks \in Seq(Tasks) /\ tasks # << >> /\ Found(w, tasks) /\ global_queue_' = rest
  BY <1>1
<1> HIDE DEF tasks, rest
<1>7. /\ next' \in [Workers -> Tasks \cup {NULL}] /\ buffer' \in [Workers -> Seq(Tasks)]
      /\ \A x \in Workers \ {w} : next'[x] = next[x] /\ buffer'[x] = buffer[x]
  BY <1>6, FoundEffect DEF ControlGood
<1>8. DataTypes'
  BY <1>2, <1>5, <1>6, <1>7 DEF DataTypes
<1> DEFINE s == GlobalPlace
<1>9. /\ s \in Places /\ s # <<"next", w>> /\ s # <<"buffer", w>>
      /\ Contents[s] = SeqRange(global_queue_) /\ Contents'[s] = SeqRange(global_queue_')
  BY ContentsAt, ContentsAtNext DEF GlobalPlace
<1>10. \A x \in Places \ {s, <<"next", w>>, <<"buffer", w>>} : Contents'[x] = Contents[x]
  BY <1>2, <1>7, PlacesKept
<1>11. Distinct(global_queue_)' /\ \A x \in Workers : Distinct(local_queue_[x])'
  BY <1>2, <1>4, <1>6, OnceFacts DEF Distinct, DistinctQueues
<1>12. Contents[s] = SeqRange(tasks) \cup Contents'[s] /\ SeqRange(tasks) \cap Contents'[s] = {}
  BY <1>4, <1>6, <1>9
<1> HIDE DEF s
<1> QED BY <1>2, <1>4, <1>6, <1>8, <1>9, <1>10, <1>11, <1>12, FoundOnce DEF ControlGood

\* What is found in the own queues or in the queue of worker v.
LEMMA FoundLocalOnce ==
  ASSUME DataTypes, ControlGood, OnceOK, NEW w \in Workers, NEW v \in Workers,
         next[w] = NULL, buffer[w] = << >>,
         NEW n \in 1 .. Len(local_queue_[v]), NEW tasks \in Seq(Tasks), tasks # << >>,
         tasks = SubSeq(local_queue_[v], 1, n), Found(w, tasks), RemovePrefix(v, n),
         UNCHANGED <<global_queue_, lifo_slot_, batch, submitted, done>>
  PROVE  DataTypes' /\ OnceOK' /\ Outside' = Outside
<1> DEFINE rest == SubSeq(local_queue_[v], n + 1, Len(local_queue_[v]))
<1>1. n \in 0 .. Len(local_queue_[v]) /\ local_queue_[v] \in Seq(Tasks) /\ Distinct(local_queue_[v])
  BY LenProperties, OnceFacts DEF DataTypes, DistinctQueues
<1>2. /\ Distinct(tasks) /\ Distinct(rest) /\ SeqRange(tasks) \cap SeqRange(rest) = {}
      /\ SeqRange(local_queue_[v]) = SeqRange(tasks) \cup SeqRange(rest)
  BY <1>1, PrefixTaken
<1>3. /\ local_queue_' \in [Workers -> Seq(Tasks)] /\ local_queue_'[v] = rest
      /\ \A x \in Workers \ {v} : local_queue_'[x] = local_queue_[x]
      /\ \A x \in Workers : Len(local_queue_'[x]) <= Capacity
  BY <1>1, RemovedPrefix
<1> HIDE DEF rest
<1>4. /\ next' \in [Workers -> Tasks \cup {NULL}] /\ buffer' \in [Workers -> Seq(Tasks)]
      /\ \A x \in Workers \ {w} : next'[x] = next[x] /\ buffer'[x] = buffer[x]
  BY FoundEffect DEF ControlGood
<1>5. DataTypes'
  BY <1>3, <1>4 DEF DataTypes
<1> DEFINE s == <<"local", v>>
<1>6. /\ s \in Places /\ s # <<"next", w>> /\ s # <<"buffer", w>>
      /\ Contents[s] = SeqRange(local_queue_[v]) /\ Contents'[s] = SeqRange(local_queue_'[v])
  BY ContentsAt, ContentsAtNext DEF Kinds
<1>7. \A x \in Places \ {s, <<"next", w>>, <<"buffer", w>>} : Contents'[x] = Contents[x]
  BY <1>3, <1>4, PlacesKept
<1>8. Distinct(global_queue_)'
  BY OnceFacts DEF Distinct, DistinctQueues
<1>9. ASSUME NEW x \in Workers PROVE Distinct(local_queue_[x])'
  <2>1. CASE x = v
    BY <1>2, <1>3, <2>1 DEF Distinct
  <2>2. CASE x # v
    BY <1>3, <2>2, OnceFacts DEF Distinct, DistinctQueues
  <2> QED BY <2>1, <2>2
<1>10. Contents[s] = SeqRange(tasks) \cup Contents'[s] /\ SeqRange(tasks) \cap Contents'[s] = {}
  BY <1>2, <1>3, <1>6
<1> HIDE DEF s
<1> QED BY <1>2, <1>5, <1>6, <1>7, <1>8, <1>9, <1>10, FoundOnce DEF ControlGood

LEMMA GetLifoOnce ==
  ASSUME DataTypes, ControlGood, OnceOK, NEW w \in Workers, GetLifo(w)
  PROVE  DataTypes' /\ OnceOK' /\ Outside' = Outside
<1> DEFINE task == lifo_slot_[w]
           tasks == <<task>>
           s == <<"lifo", w>>
<1>1. /\ task \in Tasks /\ task # NULL
      /\ lifo_slot_' = [lifo_slot_ EXCEPT ![w] = NULL]
      /\ UNCHANGED <<global_queue_, local_queue_, batch, submitted, done>>
      /\ next[w] = NULL /\ buffer[w] = << >>
  BY Empty DEF GetLifo, history, ControlGood, DataTypes
<1>2. tasks \in Seq(Tasks) /\ tasks # << >> /\ Distinct(tasks) /\ SeqRange(tasks) = {task}
  BY <1>1, OneElement
<1>3. Found(w, tasks)
  BY DEF GetLifo
<1>4. /\ lifo_slot_' \in [Workers -> Tasks \cup {NULL}] /\ lifo_slot_'[w] = NULL
      /\ \A x \in Workers \ {w} : lifo_slot_'[x] = lifo_slot_[x]
  BY <1>1 DEF DataTypes
<1> HIDE DEF tasks
<1>5. /\ next' \in [Workers -> Tasks \cup {NULL}] /\ buffer' \in [Workers -> Seq(Tasks)]
      /\ \A x \in Workers \ {w} : next'[x] = next[x] /\ buffer'[x] = buffer[x]
  BY <1>2, <1>3, FoundEffect DEF ControlGood
<1>6. DataTypes'
  BY <1>1, <1>4, <1>5 DEF DataTypes
<1>7. /\ s \in Places /\ s # <<"next", w>> /\ s # <<"buffer", w>>
      /\ Contents[s] = {lifo_slot_[w]} \ {NULL} /\ Contents'[s] = {lifo_slot_'[w]} \ {NULL}
  BY ContentsAt, ContentsAtNext DEF Kinds
<1>8. \A x \in Places \ {s, <<"next", w>>, <<"buffer", w>>} : Contents'[x] = Contents[x]
  BY <1>1, <1>4, <1>5, PlacesKept
<1>9. Distinct(global_queue_)' /\ \A x \in Workers : Distinct(local_queue_[x])'
  BY <1>1, OnceFacts DEF Distinct, DistinctQueues
<1>10. Contents[s] = SeqRange(tasks) \cup Contents'[s] /\ SeqRange(tasks) \cap Contents'[s] = {}
  BY <1>1, <1>2, <1>4, <1>7
<1> HIDE DEF s
<1> QED BY <1>1, <1>2, <1>3, <1>6, <1>7, <1>8, <1>9, <1>10, FoundOnce, SMTT(30) DEF ControlGood

LEMMA GetLocalOnce ==
  ASSUME DataTypes, ControlGood, OnceOK, NEW w \in Workers, GetLocal(w), local_queue_[w] # << >>
  PROVE  DataTypes' /\ OnceOK' /\ Outside' = Outside
<1> DEFINE q == local_queue_[w]
           tasks == <<Head(q)>>
<1>1. /\ UNCHANGED <<global_queue_, lifo_slot_, batch, submitted, done>>
      /\ next[w] = NULL /\ buffer[w] = << >>
      /\ Found(w, tasks) /\ local_queue_' = [local_queue_ EXCEPT ![w] = Tail(@)]
  BY Empty DEF GetLocal, history, ControlGood
<1>2. q \in Seq(Tasks) /\ Len(q) \in Nat \ {0} /\ Head(q) \in Tasks /\ Tail(q) = SubSeq(q, 1 + 1, Len(q))
  BY EmptySeq, HeadTailRange, TailIsSubSeq DEF DataTypes
<1>3. tasks = SubSeq(q, 1, 1)
  <2>1. \A i \in 1 .. 1 : q[i] \in Tasks
    BY <1>2, ElementOfSeq
  <2>2. SubSeq(q, 1, 1) \in Seq(Tasks) /\ Len(SubSeq(q, 1, 1)) = 1 /\ SubSeq(q, 1, 1)[1] = q[1]
    BY <2>1, SubSeqProperties
  <2>3. tasks \in Seq(Tasks) /\ Len(tasks) = 1 /\ tasks[1] = q[1]
    BY <1>2
  <2> HIDE DEF tasks
  <2> QED BY <2>2, <2>3, SeqEqual
<1>4. tasks \in Seq(Tasks) /\ tasks # << >>
  BY <1>2, OneElement
<1>5. RemovePrefix(w, 1)
  BY <1>1, <1>2 DEF RemovePrefix
<1>6. 1 \in 1 .. Len(q)
  BY <1>2
<1> HIDE DEF tasks
<1> QED BY <1>1, <1>3, <1>4, <1>5, <1>6, FoundLocalOnce

LEMMA StealOnce ==
  ASSUME DataTypes, ControlGood, OnceOK, NEW w \in Workers, Steal(w),
         NEW tasks \in Grabbed(victim[w], GrabAmount), Found(w, tasks),
         RemovePrefix(victim[w], Len(tasks))
  PROVE  DataTypes' /\ OnceOK' /\ Outside' = Outside
<1> DEFINE v == victim[w]
<1>1. v \in Workers
  BY DEF Steal, ControlGood, ControlTypes, ControlOK, LooksOK, Workers
<1>2. PICK n \in 1 .. Len(local_queue_[v]) :
        /\ tasks = SubSeq(local_queue_[v], 1, n)
        /\ tasks \in Seq(Tasks) /\ Len(tasks) = n /\ tasks # << >>
  BY <1>1, LocalGrabbed, PoolAssumption
<1>3. /\ UNCHANGED <<global_queue_, lifo_slot_, batch, submitted, done>>
      /\ next[w] = NULL /\ buffer[w] = << >> /\ RemovePrefix(v, n)
  BY <1>2, Empty DEF Steal, history, ControlGood
<1> HIDE DEF v
<1> QED BY <1>1, <1>2, <1>3, FoundLocalOnce

\* A task comes from place s, or is new: worker w queues it, or offloads it.
LEMMA PushOnce ==
  ASSUME DataTypes, ControlTypes, OnceOK, NEW w \in Workers, batch[w] = << >>,
         NEW task \in Tasks, NEW after \in {"unpack", "unlinkfound", "notify"},
         PushToLocalQueue(w, task, after),
         NEW s \in Places, s # <<"local", w>>, s # <<"batch", w>>,
         NEW N, N \cap Total(Contents) = {}, Total(Contents) \cup N \subseteq submitted' \ done',
         Contents'[s] \cup {task} = Contents[s] \cup N, task \notin Contents'[s],
         \A x \in Places \ {s, <<"local", w>>, <<"batch", w>>} : Contents'[x] = Contents[x],
         Distinct(global_queue_)', \A x \in Workers : Distinct(buffer[x])'
  PROVE  OnceOK' /\ Total(Contents)' = Total(Contents) \cup N
<1> DEFINE l == <<"local", w>>
           b == <<"batch", w>>
<1>1. l \in Places /\ b \in Places /\ l # b
  BY DEF Places, Kinds
<1>2. /\ Contents[l] = SeqRange(local_queue_[w]) /\ Contents[b] = SeqRange(batch[w])
      /\ Contents'[l] = SeqRange(local_queue_'[w]) /\ Contents'[b] = SeqRange(batch'[w])
  BY ContentsAt, ContentsAtNext
<1>3. local_queue_[w] \in Seq(Tasks) /\ Distinct(local_queue_[w]) /\ Contents[b] = {}
  BY <1>2, OnceFacts, RangeIndex DEF DataTypes, DistinctQueues
<1> HIDE DEF l, b
<1>4. task \notin Contents[l] /\ Contents'[s] \cap Contents[l] = {}
  <2>1. Contents[s] \cap Contents[l] = {} /\ N \cap Contents[l] = {}
    BY <1>1, OnceFacts DEF l
  <2> QED BY <2>1
<1>5. \A x \in Workers \ {w} : local_queue_'[x] = local_queue_[x] /\ batch'[x] = batch[x]
  BY PushEffect
<1>6. /\ Distinct(local_queue_'[w]) /\ Distinct(batch'[w])
      /\ \/ Contents'[l] = Contents[l] \cup {task} /\ Contents'[b] = {}
         \/ Contents'[l] = Contents[l] /\ Contents'[b] = {task}
  <2>1. CASE local_queue_'[w] = Append(local_queue_[w], task) /\ batch'[w] = batch[w]
    <3>1. /\ SeqRange(Append(local_queue_[w], task)) = SeqRange(local_queue_[w]) \cup {task}
          /\ Distinct(Append(local_queue_[w], task))
      BY <1>2, <1>3, <1>4, AppendRange
    <3>2. Distinct(batch[w])
      BY OnceFacts DEF DistinctQueues
    <3> QED BY <1>2, <1>3, <2>1, <3>1, <3>2
  <2>2. CASE local_queue_'[w] = local_queue_[w] /\ batch'[w] = <<task>>
    <3>1. SeqRange(<<task>>) = {task} /\ Distinct(<<task>>)
      BY OneElement
    <3> QED BY <1>2, <1>3, <2>2, <3>1
  <2> QED BY <2>1, <2>2, PushEffect
<1>7. DistinctQueues'
  <2>1. ASSUME NEW x \in Workers PROVE Distinct(local_queue_[x])' /\ Distinct(batch[x])'
    <3>1. Distinct(local_queue_[x]) /\ Distinct(batch[x])
      BY OnceFacts DEF DistinctQueues
    <3>2. CASE x = w
      BY <1>6, <3>1, <3>2 DEF Distinct
    <3>3. CASE x # w
      BY <1>5, <3>1, <3>3 DEF Distinct
    <3> QED BY <3>2, <3>3
  <2> QED BY <2>1 DEF DistinctQueues
<1>8. Shares(Contents, Contents', s, l, b, N)
  <2>1. DOMAIN Contents = Places /\ DOMAIN Contents' = Places
    BY DEF Contents
  <2>2. Contents'[s] \cup Contents'[l] \cup Contents'[b] = Contents[s] \cup Contents[l] \cup Contents[b] \cup N
    BY <1>3, <1>6
  <2>3. \A x, y \in {s, l, b} : x # y => Contents'[x] \cap Contents'[y] = {}
    BY <1>4, <1>6
  <2>4. \A x \in Places \ {s, l, b} : Contents'[x] = Contents[x]
    BY DEF l, b
  <2> QED BY <1>1, <2>1, <2>2, <2>3, <2>4 DEF Shares
<1> QED BY <1>7, <1>8, OnceStep

LEMMA UnpackOnce ==
  ASSUME DataTypes, ControlGood, OnceOK, NEW w \in Workers, Unpack(w)
  PROVE  DataTypes' /\ OnceOK' /\ Outside' = Outside
<1> DEFINE task == Head(buffer[w])
           rest == Tail(buffer[w])
           after == IF Len(buffer[w]) > 1 THEN "unpack" ELSE Chosen(w)
           s == <<"buffer", w>>
           N == {}
<1>1. /\ buffer[w] \in Seq(Tasks) /\ buffer[w] # << >> /\ batch[w] = << >> /\ Distinct(buffer[w])
      /\ UNCHANGED <<global_queue_, lifo_slot_, next, submitted, done>>
  BY OnceFacts DEF DataTypes, ControlGood, ControlOK, HoldsOK, Unpack, DistinctQueues, history
<1>2. /\ task \in Tasks /\ rest \in Seq(Tasks)
      /\ SeqRange(buffer[w]) = {task} \cup SeqRange(rest) /\ Distinct(rest) /\ task \notin SeqRange(rest)
  BY <1>1, HeadTailRange
<1>3. PushToLocalQueue(w, task, after) /\ buffer' = [buffer EXCEPT ![w] = rest]
      /\ after \in {"unpack", "unlinkfound", "notify"}
  BY DEF Unpack, Chosen
<1> HIDE DEF task, rest, after
<1>4. /\ buffer' \in [Workers -> Seq(Tasks)] /\ buffer'[w] = rest
      /\ \A x \in Workers \ {w} : buffer'[x] = buffer[x]
  BY <1>2, <1>3 DEF DataTypes
<1>5. /\ local_queue_' \in [Workers -> Seq(Tasks)] /\ batch' \in [Workers -> Seq(Tasks)]
      /\ \A x \in Workers : Len(local_queue_'[x]) <= Capacity
      /\ \A x \in Workers \ {w} : local_queue_'[x] = local_queue_[x] /\ batch'[x] = batch[x]
  BY <1>2, <1>3, PushEffect DEF ControlGood
<1>6. DataTypes'
  BY <1>1, <1>4, <1>5 DEF DataTypes
<1>7. /\ s \in Places /\ s # <<"local", w>> /\ s # <<"batch", w>>
      /\ Contents[s] = SeqRange(buffer[w]) /\ Contents'[s] = SeqRange(buffer'[w])
  BY ContentsAt, ContentsAtNext DEF Kinds
<1>8. \A x \in Places \ {s, <<"local", w>>, <<"batch", w>>} : Contents'[x] = Contents[x]
  BY <1>1, <1>4, <1>5, PlacesKept
<1>9. Distinct(global_queue_)'
  BY <1>1, OnceFacts DEF Distinct, DistinctQueues
<1>10. ASSUME NEW x \in Workers PROVE Distinct(buffer[x])'
  <2>1. CASE x = w
    BY <1>2, <1>4, <2>1 DEF Distinct
  <2>2. CASE x # w
    BY <1>4, <2>2, OnceFacts DEF Distinct, DistinctQueues
  <2> QED BY <2>1, <2>2
<1>11. Contents'[s] \cup {task} = Contents[s] \cup N /\ task \notin Contents'[s]
  BY <1>2, <1>4, <1>7
<1>12. /\ N \cap Total(Contents) = {} /\ Total(Contents) \cup N \subseteq submitted' \ done'
       /\ Total(Contents) \cup N = Total(Contents)
  BY <1>1, OnceFacts
<1> HIDE DEF s, N
<1>13. OnceOK' /\ Total(Contents)' = Total(Contents) \cup N
  BY <1>1, <1>2, <1>3, <1>7, <1>8, <1>9, <1>10, <1>11, <1>12, PushOnce DEF ControlGood
<1> QED BY <1>1, <1>6, <1>12, <1>13 DEF Outside

\* A new task is submitted: what is outside the pool stays there.
LEMMA NewTask ==
  ASSUME DataTypes, OnceOK, NEW t \in Fresh, submitted' = submitted \cup {t}, done' = done
  PROVE  /\ t \in Tasks /\ submitted' \subseteq Tasks /\ done' \subseteq submitted'
         /\ {t} \cap Total(Contents) = {} /\ Total(Contents) \cup {t} \subseteq submitted' \ done'
         /\ Total(Contents)' = Total(Contents) \cup {t} => Outside' = Outside
<1>1. t \in Tasks /\ t \notin submitted /\ t \notin done /\ done \subseteq submitted
  BY DEF Fresh, DataTypes
<1>2. Total(Contents) \subseteq submitted \ done
  BY OnceFacts
<1> QED BY <1>1, <1>2 DEF Outside, DataTypes

LEMMA PushUpToYouOnce ==
  ASSUME DataTypes, ControlGood, OnceOK, NEW w \in Workers, NEW t \in Fresh, PushUpToYou(w, t)
  PROVE  DataTypes' /\ OnceOK' /\ Outside' = Outside
<1> DEFINE s == <<"next", w>>
           N == {t}
           after == "notify"
<1>1. /\ UNCHANGED <<global_queue_, lifo_slot_, next, buffer, done>> /\ submitted' = submitted \cup {t}
      /\ batch[w] = << >> /\ PushToLocalQueue(w, t, after)
      /\ after \in {"unpack", "unlinkfound", "notify"}
  BY DEF PushUpToYou, ControlGood, ControlOK, HoldsOK
<1> HIDE DEF after
<1>2. /\ t \in Tasks /\ submitted' \subseteq Tasks /\ done' \subseteq submitted'
      /\ N \cap Total(Contents) = {} /\ Total(Contents) \cup N \subseteq submitted' \ done'
      /\ Total(Contents)' = Total(Contents) \cup N => Outside' = Outside
  BY <1>1, NewTask
<1>3. /\ local_queue_' \in [Workers -> Seq(Tasks)] /\ batch' \in [Workers -> Seq(Tasks)]
      /\ \A x \in Workers : Len(local_queue_'[x]) <= Capacity
      /\ \A x \in Workers \ {w} : local_queue_'[x] = local_queue_[x] /\ batch'[x] = batch[x]
  BY <1>1, <1>2, PushEffect DEF ControlGood
<1>4. DataTypes'
  BY <1>1, <1>2, <1>3 DEF DataTypes
<1>5. s \in Places /\ s # <<"local", w>> /\ s # <<"batch", w>>
  BY DEF Places, Kinds
<1>6. \A x \in Places \ {<<"local", w>>, <<"batch", w>>} : Contents'[x] = Contents[x]
  BY <1>1, <1>3, PlacesKept
<1>7. Distinct(global_queue_)' /\ \A x \in Workers : Distinct(buffer[x])'
  BY <1>1, OnceFacts DEF Distinct, DistinctQueues
<1>8. Contents'[s] \cup {t} = Contents[s] \cup N /\ t \notin Contents'[s]
  <2>1. Contents'[s] = Contents[s] /\ Contents[s] \subseteq Total(Contents)
    BY <1>5, <1>6, OnceFacts
  <2> QED BY <1>2, <2>1
<1> HIDE DEF s, N
<1>9. OnceOK' /\ Total(Contents)' = Total(Contents) \cup N
  BY <1>1, <1>2, <1>5, <1>6, <1>7, <1>8, PushOnce DEF ControlGood
<1> QED BY <1>2, <1>4, <1>9

LEMMA PushNextOnce ==
  ASSUME DataTypes, ControlGood, OnceOK, NEW w \in Workers, NEW t \in Fresh, PushNext(w, t)
  PROVE  DataTypes' /\ OnceOK' /\ Outside' = Outside
<1> DEFINE s == <<"lifo", w>>
           N == {t}
           after == "notify"
           old == lifo_slot_[w]
<1>1. /\ UNCHANGED <<global_queue_, next, buffer, done>> /\ submitted' = submitted \cup {t}
      /\ batch[w] = << >> /\ lifo_slot_' = [lifo_slot_ EXCEPT ![w] = t]
      /\ IF old = NULL THEN UNCHANGED <<local_queue_, batch>> ELSE PushToLocalQueue(w, old, after)
      /\ after \in {"unpack", "unlinkfound", "notify"} /\ old \in Tasks \cup {NULL}
  BY DEF PushNext, ControlGood, ControlOK, HoldsOK, DataTypes
<1> HIDE DEF after
<1>2. /\ t \in Tasks /\ submitted' \subseteq Tasks /\ done' \subseteq submitted'
      /\ N \cap Total(Contents) = {} /\ Total(Contents) \cup N \subseteq submitted' \ done'
      /\ Total(Contents)' = Total(Contents) \cup N => Outside' = Outside
  BY <1>1, NewTask
<1>3. /\ lifo_slot_' \in [Workers -> Tasks \cup {NULL}] /\ lifo_slot_'[w] = t
      /\ \A x \in Workers \ {w} : lifo_slot_'[x] = lifo_slot_[x]
  BY <1>1, <1>2 DEF DataTypes
<1>4. s \in Places /\ s # <<"local", w>> /\ s # <<"batch", w>>
      /\ Contents[s] = {old} \ {NULL} /\ Contents'[s] = {lifo_slot_'[w]} \ {NULL}
  BY ContentsAt, ContentsAtNext DEF Kinds
<1>5. Contents'[s] = {t} /\ t # NULL
  BY <1>2, <1>3, <1>4, PoolAssumption
<1>6. Distinct(global_queue_)' /\ \A x \in Workers : Distinct(buffer[x])'
  BY <1>1, OnceFacts DEF Distinct, DistinctQueues
<1>7. CASE old = NULL
  <2>1. UNCHANGED <<local_queue_, batch>>
    BY <1>1, <1>7
  <2>2. DataTypes'
    BY <1>1, <1>2, <1>3, <2>1 DEF DataTypes
  <2>3. \A x \in Places \ {s} : Contents'[x] = Contents[x]
    BY <1>1, <1>3, <2>1, PlacesKept
  <2>4. DistinctQueues'
    BY <1>6, <2>1, OnceFacts DEF Distinct, DistinctQueues
  <2>5. DOMAIN Contents = Places /\ DOMAIN Contents' = Places
    BY DEF Contents
  <2>6. Contents[s] = {}
    BY <1>4, <1>7
  <2> HIDE DEF s, N, old
  <2>7. Shares(Contents, Contents', s, s, s, N)
    BY <1>2, <1>4, <1>5, <2>3, <2>5, <2>6 DEF Shares, N
  <2> QED BY <1>2, <2>2, <2>4, <2>7, OnceStep
<1>8. CASE old # NULL
  <2>1. old \in Tasks /\ PushToLocalQueue(w, old, after)
    BY <1>1, <1>8
  <2> HIDE DEF old
  <2>2. /\ local_queue_' \in [Workers -> Seq(Tasks)] /\ batch' \in [Workers -> Seq(Tasks)]
        /\ \A x \in Workers : Len(local_queue_'[x]) <= Capacity
        /\ \A x \in Workers \ {w} : local_queue_'[x] = local_queue_[x] /\ batch'[x] = batch[x]
    BY <1>1, <2>1, PushEffect DEF ControlGood
  <2>3. DataTypes'
    BY <1>1, <1>2, <1>3, <2>2 DEF DataTypes
  <2>4. \A x \in Places \ {s, <<"local", w>>, <<"batch", w>>} : Contents'[x] = Contents[x]
    BY <1>1, <1>3, <2>2, PlacesKept
  <2>5. Contents[s] = {old} /\ Contents[s] \subseteq Total(Contents)
    BY <1>4, <1>8, OnceFacts
  <2>6. Contents'[s] \cup {old} = Contents[s] \cup N /\ old \notin Contents'[s]
    BY <1>2, <1>5, <2>5
  <2> HIDE DEF s, N
  <2>7. OnceOK' /\ Total(Contents)' = Total(Contents) \cup N
    BY <1>1, <1>2, <1>4, <1>6, <2>1, <2>4, <2>6, PushOnce DEF ControlGood
  <2> QED BY <1>2, <2>3, <2>7
<1> QED BY <1>7, <1>8

\* A task joins the global queue.
LEMMA GlobalAppended ==
  ASSUME DataTypes, OnceOK, NEW t \in Tasks, {t} \cap Total(Contents) = {},
         Total(Contents) \cup {t} \subseteq submitted' \ done',
         submitted' \subseteq Tasks, done' \subseteq submitted',
         global_queue_' = Append(global_queue_, t),
         UNCHANGED <<local_queue_, lifo_slot_, next, buffer, batch>>
  PROVE  DataTypes' /\ OnceOK' /\ Total(Contents)' = Total(Contents) \cup {t}
<1> DEFINE s == GlobalPlace
           N == {t}
           r == Append(global_queue_, t)
<1>1. s \in Places /\ Contents[s] = SeqRange(global_queue_) /\ Contents'[s] = SeqRange(global_queue_')
  <2>1. 1 \in Workers
    BY PoolAssumption DEF Workers
  <2> QED BY <2>1, ContentsAt, ContentsAtNext
<1>2. Distinct(global_queue_) /\ Contents[s] \subseteq Total(Contents)
  BY <1>1, OnceFacts DEF DistinctQueues
<1>3. t \notin SeqRange(global_queue_)
  BY <1>1, <1>2
<1>4. r \in Seq(Tasks) /\ SeqRange(r) = SeqRange(global_queue_) \cup {t} /\ Distinct(r)
  BY <1>2, <1>3, AppendRange DEF DataTypes
<1> HIDE DEF r
<1>5. global_queue_' = r
  BY DEF r
<1>6. DataTypes'
  BY <1>4, <1>5 DEF DataTypes
<1>7. DistinctQueues'
  BY <1>4, <1>5, OnceFacts DEF Distinct, DistinctQueues
<1>8. \A x \in Places \ {s} : Contents'[x] = Contents[x]
  BY PlacesKept
<1>9. DOMAIN Contents = Places /\ DOMAIN Contents' = Places
  BY DEF Contents
<1> HIDE DEF s
<1>10. Shares(Contents, Contents', s, s, s, N)
  BY <1>1, <1>4, <1>5, <1>8, <1>9 DEF Shares
<1> QED BY <1>6, <1>7, <1>10, OnceStep

LEMMA SubmitOnce ==
  ASSUME DataTypes, OnceOK, NEW t \in Fresh, submitted' = submitted \cup {t}, done' = done,
         global_queue_' = Append(global_queue_, t),
         UNCHANGED <<local_queue_, lifo_slot_, next, buffer, batch>>
  PROVE  DataTypes' /\ OnceOK' /\ Outside' = Outside
BY NewTask, GlobalAppended

LEMMA OffloadGrabOnce ==
  ASSUME DataTypes, ControlGood, OnceOK, NEW w \in Workers, OffloadGrab(w)
  PROVE  DataTypes' /\ OnceOK' /\ Outside' = Outside
<1> DEFINE q == local_queue_[w]
           l == <<"local", w>>
           b == <<"batch", w>>
           N == {}
<1>1. PICK tasks \in Grabbed(w, GrabAmount - 1) \cup {<< >>} :
        batch' = [batch EXCEPT ![w] = tasks \o @] /\ RemovePrefix(w, Len(tasks))
  BY DEF OffloadGrab, WithOverflow
<1>2. q \in Seq(Tasks) /\ batch[w] \in Seq(Tasks) /\ Len(q) \in Nat
      /\ UNCHANGED <<global_queue_, lifo_slot_, next, buffer, submitted, done>>
  BY LenProperties DEF OffloadGrab, history, DataTypes
<1>3. PICK n \in 0 .. Len(q) : tasks = SubSeq(q, 1, n) /\ n = Len(tasks) /\ tasks \in Seq(Tasks)
  <2>1. CASE tasks = << >>
    <3>1. 0 \in 0 .. Len(q) /\ SubSeq(q, 1, 0) = << >> /\ Len(tasks) = 0 /\ tasks \in Seq(Tasks)
      BY <1>2, <2>1, SubSeqEmpty
    <3> QED BY <2>1, <3>1
  <2>2. CASE tasks \in Grabbed(w, GrabAmount - 1)
    <3>1. GrabAmount - 1 \in Nat
      BY PoolAssumption
    <3>2. PICK n \in 1 .. Len(local_queue_[w]) :
            tasks = SubSeq(local_queue_[w], 1, n) /\ tasks \in Seq(Tasks) /\ Len(tasks) = n
      BY <2>2, <3>1, LocalGrabbed
    <3>3. n \in 0 .. Len(q)
      BY <1>2, <3>2
    <3> QED BY <3>2, <3>3
  <2> QED BY <1>1, <2>1, <2>2
<1> DEFINE rest == SubSeq(q, n + 1, Len(q))
           moved == tasks \o batch[w]
<1>4. Distinct(q) /\ Distinct(batch[w])
  BY OnceFacts DEF DistinctQueues
<1>5. /\ Distinct(tasks) /\ Distinct(rest) /\ SeqRange(tasks) \cap SeqRange(rest) = {}
      /\ SeqRange(q) = SeqRange(tasks) \cup SeqRange(rest)
  BY <1>2, <1>3, <1>4, PrefixTaken
<1>6. /\ local_queue_' \in [Workers -> Seq(Tasks)] /\ local_queue_'[w] = rest
      /\ \A x \in Workers \ {w} : local_queue_'[x] = local_queue_[x]
      /\ \A x \in Workers : Len(local_queue_'[x]) <= Capacity
  BY <1>1, <1>3, RemovedPrefix
<1>7. l \in Places /\ b \in Places /\ l # b
      /\ Contents[l] = SeqRange(q) /\ Contents[b] = SeqRange(batch[w])
      /\ Contents'[l] = SeqRange(local_queue_'[w]) /\ Contents'[b] = SeqRange(batch'[w])
  BY ContentsAt, ContentsAtNext DEF Kinds
<1>8. SeqRange(q) \cap SeqRange(batch[w]) = {}
  BY <1>7, OnceFacts
<1> HIDE DEF q, rest
<1>9. /\ moved \in Seq(Tasks) /\ SeqRange(moved) = SeqRange(tasks) \cup SeqRange(batch[w])
      /\ Distinct(moved)
  <2> DEFINE u == batch[w]
  <2>1. tasks \in Seq(Tasks) /\ u \in Seq(Tasks)
    BY <1>2, <1>3
  <2>2. SeqRange(tasks) \cap SeqRange(u) = {} /\ Distinct(tasks) /\ Distinct(u)
    BY <1>4, <1>5, <1>8
  <2> HIDE DEF u
  <2>3. tasks \o u \in Seq(Tasks) /\ SeqRange(tasks \o u) = SeqRange(tasks) \cup SeqRange(u)
    BY <2>1, ConcatRange
  <2>4. Distinct(tasks \o u)
    BY <2>1, <2>2, ConcatDistinct
  <2> QED BY <2>3, <2>4 DEF u
<1>10. batch' = [batch EXCEPT ![w] = moved]
  BY <1>1
<1> HIDE DEF moved
<1>11. /\ batch' \in [Workers -> Seq(Tasks)] /\ batch'[w] = moved
       /\ \A x \in Workers \ {w} : batch'[x] = batch[x]
  BY <1>9, <1>10 DEF DataTypes
<1>12. DataTypes'
  BY <1>2, <1>6, <1>11 DEF DataTypes
<1>13. \A x \in Places \ {l, b} : Contents'[x] = Contents[x]
  BY <1>2, <1>6, <1>11, PlacesKept
<1>14. DistinctQueues'
  <2>1. ASSUME NEW x \in Workers PROVE Distinct(local_queue_[x])' /\ Distinct(batch[x])'
    <3>1. Distinct(local_queue_[x]) /\ Distinct(batch[x])
      BY OnceFacts DEF DistinctQueues
    <3>2. CASE x = w
      BY <1>5, <1>6, <1>9, <1>11, <3>2 DEF Distinct
    <3>3. CASE x # w
      BY <1>6, <1>11, <3>1, <3>3 DEF Distinct
    <3> QED BY <3>2, <3>3
  <2>2. Distinct(global_queue_)' /\ \A x \in Workers : Distinct(buffer[x])'
    BY <1>2, OnceFacts DEF Distinct, DistinctQueues
  <2> QED BY <2>1, <2>2 DEF DistinctQueues
<1>15. DOMAIN Contents = Places /\ DOMAIN Contents' = Places
  BY DEF Contents
<1>16. /\ N \cap Total(Contents) = {} /\ Total(Contents) \cup N \subseteq submitted' \ done'
       /\ Total(Contents) \cup N = Total(Contents)
  BY <1>2, OnceFacts
<1> HIDE DEF l, b
<1>17. Contents'[l] \cup Contents'[b] \cup Contents'[b] = Contents[l] \cup Contents[b] \cup Contents[b] \cup N
  BY <1>5, <1>6, <1>7, <1>9, <1>11
<1>18. Contents'[l] \cap Contents'[b] = {}
  BY <1>5, <1>6, <1>7, <1>8, <1>9, <1>11
<1> HIDE DEF N
<1>19. Shares(Contents, Contents', l, b, b, N)
  BY <1>7, <1>13, <1>15, <1>16, <1>17, <1>18 DEF Shares
<1>20. OnceOK' /\ Total(Contents)' = Total(Contents) \cup N
  BY <1>14, <1>16, <1>19, OnceStep
<1> QED BY <1>2, <1>12, <1>16, <1>20 DEF Outside

LEMMA OffloadPushOnce ==
  ASSUME DataTypes, ControlGood, OnceOK, NEW w \in Workers, OffloadPush(w)
  PROVE  DataTypes' /\ OnceOK' /\ Outside' = Outside
<1> DEFINE g == GlobalPlace
           b == <<"batch", w>>
           N == {}
           moved == global_queue_ \o batch[w]
<1>1. /\ UNCHANGED <<local_queue_, lifo_slot_, next, buffer, submitted, done>>
      /\ global_queue_' = moved
      /\ batch' = [batch EXCEPT ![w] = << >>]
  BY DEF OffloadPush, history
<1>2. batch[w] \in Seq(Tasks) /\ global_queue_ \in Seq(Tasks)
      /\ Distinct(global_queue_) /\ Distinct(batch[w])
  BY OnceFacts DEF DataTypes, DistinctQueues
<1>3. g \in Places /\ b \in Places /\ g # b
      /\ Contents[g] = SeqRange(global_queue_) /\ Contents[b] = SeqRange(batch[w])
      /\ Contents'[g] = SeqRange(global_queue_') /\ Contents'[b] = SeqRange(batch'[w])
  BY ContentsAt, ContentsAtNext DEF Kinds, GlobalPlace
<1>4. SeqRange(global_queue_) \cap SeqRange(batch[w]) = {}
  BY <1>3, OnceFacts
<1>5. /\ moved \in Seq(Tasks) /\ SeqRange(moved) = SeqRange(global_queue_) \cup SeqRange(batch[w])
      /\ Distinct(moved)
  BY <1>2, <1>4, ConcatRange, ConcatDistinct
<1> HIDE DEF moved
<1>6. /\ batch' \in [Workers -> Seq(Tasks)] /\ batch'[w] = << >>
      /\ \A x \in Workers \ {w} : batch'[x] = batch[x]
  BY <1>1 DEF DataTypes
<1>7. DataTypes'
  BY <1>1, <1>5, <1>6 DEF DataTypes
<1>8. \A x \in Places \ {g, b} : Contents'[x] = Contents[x]
  BY <1>1, <1>6, PlacesKept
<1>9. SeqRange(batch'[w]) = {} /\ Distinct(batch'[w])
  BY <1>6 DEF SeqRange, Distinct
<1>10. DistinctQueues'
  <2>1. ASSUME NEW x \in Workers PROVE Distinct(batch[x])'
    <3>1. CASE x = w
      BY <1>9, <3>1 DEF Distinct
    <3>2. CASE x # w
      BY <1>6, <3>2, OnceFacts DEF Distinct, DistinctQueues
    <3> QED BY <3>1, <3>2
  <2>2. Distinct(global_queue_)'
    BY <1>1, <1>5 DEF Distinct
  <2>3. \A x \in Workers : Distinct(local_queue_[x])' /\ Distinct(buffer[x])'
    BY <1>1, OnceFacts DEF Distinct, DistinctQueues
  <2> QED BY <2>1, <2>2, <2>3 DEF DistinctQueues
<1>11. DOMAIN Contents = Places /\ DOMAIN Contents' = Places
  BY DEF Contents
<1>12. /\ N \cap Total(Contents) = {} /\ Total(Contents) \cup N \subseteq submitted' \ done'
       /\ Total(Contents) \cup N = Total(Contents)
  BY <1>1, OnceFacts
<1> HIDE DEF g, b
<1>13. Contents'[g] \cup Contents'[b] \cup Contents'[b] = Contents[g] \cup Contents[b] \cup Contents[b] \cup N
  BY <1>1, <1>3, <1>5, <1>9
<1>14. Contents'[g] \cap Contents'[b] = {}
  BY <1>3, <1>9
<1> HIDE DEF N
<1>15. Shares(Contents, Contents', g, b, b, N)
  BY <1>3, <1>8, <1>11, <1>12, <1>13, <1>14 DEF Shares
<1>16. OnceOK' /\ Total(Contents)' = Total(Contents) \cup N
  BY <1>10, <1>12, <1>15, OnceStep
<1> QED BY <1>1, <1>7, <1>12, <1>16 DEF Outside

LEMMA RunReturnsOnce ==
  ASSUME DataTypes, ControlGood, OnceOK, NEW w \in Workers, RunReturns(w)
  PROVE  DataTypes' /\ OnceOK' /\ Outside' = Outside
<1> DEFINE n == <<"next", w>>
           task == next[w]
<1>1. /\ UNCHANGED <<global_queue_, local_queue_, lifo_slot_, buffer, batch, submitted>>
      /\ done' = done \cup {task} /\ next' = [next EXCEPT ![w] = NULL]
      /\ task \in Tasks /\ task # NULL
  BY DEF RunReturns, queues, ControlGood, ControlOK, HoldsOK, DataTypes, Calls
<1>2. n \in Places /\ Contents[n] = {task} /\ Contents'[n] = {next'[w]} \ {NULL}
  BY <1>1, ContentsAt, ContentsAtNext DEF Kinds
<1>3. /\ next' \in [Workers -> Tasks \cup {NULL}] /\ next'[w] = NULL
      /\ \A x \in Workers \ {w} : next'[x] = next[x]
  BY <1>1 DEF DataTypes
<1>4. task \in submitted \ done
  BY <1>2, OnceFacts
<1>5. DataTypes'
  BY <1>1, <1>3, <1>4 DEF DataTypes
<1>6. \A x \in Places \ {n} : Contents'[x] = Contents[x]
  BY <1>1, <1>3, PlacesKept
<1>7. DOMAIN Contents = Places /\ DOMAIN Contents' = Places
  BY DEF Contents
<1>8. Contents'[n] = {}
  BY <1>2, <1>3
<1> HIDE DEF n, task
<1>9. Apart(Contents') /\ Total(Contents') = Total(Contents) \ {task}
  BY <1>2, <1>6, <1>7, <1>8, Removes DEF OnceOK
<1>10. DistinctQueues'
  BY <1>1, OnceFacts DEF Distinct, DistinctQueues
<1>11. Total(Contents)' = Total(Contents) \ {task} /\ Total(Contents)' \subseteq submitted' \ done'
  BY <1>1, <1>9, OnceFacts DEF Total
<1>12. OnceOK'
  BY <1>9, <1>10, <1>11 DEF OnceOK, DistinctQueues, Apart
<1> QED BY <1>1, <1>2, <1>5, <1>11, <1>12, OnceFacts DEF Outside

\* A step that moves no task.
LEMMA DataKept ==
  ASSUME DataTypes, OnceOK,
         UNCHANGED <<global_queue_, local_queue_, lifo_slot_, next, buffer, batch, submitted, done>>
  PROVE  DataTypes' /\ OnceOK' /\ Outside' = Outside
<1>1. DataTypes'
  BY DEF DataTypes
<1>2. Contents' = Contents
  BY DEF Contents, Content, SeqRange
<1>3. DistinctQueues'
  BY OnceFacts DEF Distinct, DistinctQueues
<1>4. Total(Contents)' = Total(Contents) /\ Apart(Contents)'
  BY <1>2 DEF Total, Apart, OnceOK
<1> QED BY <1>1, <1>3, <1>4, OnceFacts DEF OnceOK, DistinctQueues, Outside

LEMMA ScheduleOnce ==
  ASSUME DataTypes, ControlGood, OnceOK, NEW w \in Workers, Schedule(w)
  PROVE  DataTypes' /\ OnceOK' /\ Outside' = Outside
<1> USE DEF queues, history, locals
<1>1. CASE Pick(w)
  BY <1>1, GrabGlobalOnce, DataKept DEF Pick
<1>2. CASE GetLifo(w) \/ Unpack(w) \/ OffloadGrab(w) \/ OffloadPush(w)
  BY <1>2, GetLifoOnce, UnpackOnce, OffloadGrabOnce, OffloadPushOnce
<1>3. CASE GetLocal(w)
  BY <1>3, GetLocalOnce, DataKept DEF GetLocal
<1>4. CASE GetGlobal(w)
  BY <1>4, GrabGlobalOnce, DataKept DEF GetGlobal
<1>5. CASE Steal(w)
  BY <1>5, StealOnce, DataKept DEF Steal
<1>6. CASE \/ GetNothing(w) \/ Register(w) \/ UnlinkFound(w) \/ CheckStop(w) \/ Exit(w) \/ Park(w)
           \/ UnlinkAfterWait(w) \/ Notify(w) \/ Wake(w)
  BY <1>6, DataKept DEF GetNothing, Register, UnlinkFound, CheckStop, Exit, Park, UnlinkAfterWait,
     Notify, Wake
<1> QED BY <1>1, <1>2, <1>3, <1>4, <1>5, <1>6 DEF Schedule

LEMMA PoolOnce ==
  ASSUME DataTypes, ControlGood, OnceOK, Next
  PROVE  DataTypes' /\ OnceOK' /\ Outside' = Outside
<1> USE DEF queues, history, locals
<1>1. ASSUME NEW w \in Workers, TaskPushes(w) PROVE DataTypes' /\ OnceOK' /\ Outside' = Outside
  <2>1. ASSUME NEW t \in Fresh, PushYield(w, t) PROVE DataTypes' /\ OnceOK' /\ Outside' = Outside
    BY <2>1, SubmitOnce DEF PushYield
  <2> QED BY <1>1, <2>1, PushUpToYouOnce, PushNextOnce DEF TaskPushes
<1>2. ASSUME NEW t \in Fresh, Submit(t) PROVE DataTypes' /\ OnceOK' /\ Outside' = Outside
  BY <1>2, SubmitOnce DEF Submit
<1>3. CASE ClientNotify \/ ClientWake \/ StopWorker \/ StopWake \/ Join
  BY <1>3, DataKept DEF ClientNotify, ClientWake, StopWorker, StopWake, Join
<1>4. ASSUME NEW w \in Workers, SpuriousWake(w) PROVE DataTypes' /\ OnceOK' /\ Outside' = Outside
  BY <1>4, DataKept DEF SpuriousWake
<1> QED BY <1>1, <1>2, <1>3, <1>4, ScheduleOnce, RunReturnsOnce DEF Next

-----------------------------------------------------------------------------
(* The pool alone.                                                         *)

LEMMA InitInv ==
  ASSUME Init
  PROVE  PoolInv
<1> USE DEF Init
<1>1. DataTypes
  <2>1. << >> \in Seq(Tasks) /\ Len(<< >>) = 0 /\ 0 <= Capacity
    BY PoolAssumption
  <2> QED BY <2>1 DEF DataTypes
<1>2. ControlTypes
  BY PoolAssumption DEF ControlTypes, AllLabels, Labels, ClientLabels, Returns, Workers
<1>3. ControlOK /\ JoinedOK
  BY DEF ControlOK, HoldsOK, SecondOK, LooksOK, Calls, Sleeping, JoinedOK
<1>4. StoppedOK
  BY DEF StoppedOK, Distinct, Linked
<1>5. \A p \in Places : Contents[p] = {}
  BY DEF Contents, Content, Places, Kinds, GlobalPlace, SeqRange
<1>6. OnceOK /\ Outside = {}
  <2>1. DOMAIN Contents = Places
    BY DEF Contents
  <2>2. Apart(Contents) /\ Total(Contents) = {}
    BY <1>5, <2>1 DEF Apart, Total
  <2> QED BY <2>2 DEF OnceOK, Outside, Distinct
<1>7. StrandedOK /\ Alone
  BY DEF StrandedOK, NothingStranded, Stranded, Passed, Alone
<1> QED BY <1>1, <1>2, <1>3, <1>4, <1>6, <1>7 DEF PoolInv, ControlGood

\* No step of the pool enters or leaves Set, or ends the timer thread.
LEMMA LabelsKept ==
  ASSUME ControlTypes, DataTypes, Next
  PROVE  /\ \A x \in Workers : pc'[x] = "set" <=> pc[x] = "set"
         /\ \A l \in {"set", "timer_join", "finished"} : mpc' = l <=> mpc = l
<1> DEFINE KeptSet == \A x \in Workers : pc'[x] = "set" <=> pc[x] = "set"
<1> USE DEF ControlTypes, Goto, Returns
<1>1. ASSUME NEW w \in Workers, Schedule(w) PROVE KeptSet /\ mpc' = mpc
  <2>1. CASE Pick(w) \/ GetLifo(w) \/ GetLocal(w) \/ GetGlobal(w) \/ Steal(w)
    BY <2>1, SMTT(30) DEF Pick, GetLifo, GetLocal, GetGlobal, Steal, GrabGlobal, Found, Chosen, client
  <2>2. CASE GetNothing(w) \/ Register(w) \/ UnlinkFound(w) \/ CheckStop(w) \/ Exit(w) \/ Park(w)
             \/ UnlinkAfterWait(w)
    BY <2>2 DEF GetNothing, Register, UnlinkFound, CheckStop, Exit, Park, UnlinkAfterWait, client
  <2>3. CASE Unpack(w) \/ OffloadGrab(w) \/ OffloadPush(w) \/ Notify(w)
    BY <2>3 DEF Unpack, OffloadGrab, OffloadPush, Notify, PushToLocalQueue, Chosen, client
  <2>4. CASE Wake(w)
    <3> DEFINE after == [pc EXCEPT ![w] = ret[w]]
    <3>1. /\ pc[w] = "wake" /\ mpc' = mpc /\ WakeWorker(after)
          /\ after \in [Workers -> AllLabels] /\ after[w] # "set"
          /\ \A x \in Workers \ {w} : after[x] = pc[x]
      BY <2>4 DEF Wake, client, AllLabels, Labels
    <3> HIDE DEF after
    <3>2. \A x \in Workers : pc'[x] = "set" <=> after[x] = "set"
      BY <3>1 DEF WakeWorker, WakeEffect
    <3> QED BY <3>1, <3>2
  <2> QED BY <1>1, <2>1, <2>2, <2>3, <2>4 DEF Schedule
<1>2. ASSUME NEW w \in Workers, TaskPushes(w) \/ RunReturns(w) \/ SpuriousWake(w)
      PROVE  KeptSet /\ mpc' = mpc
  BY <1>2 DEF TaskPushes, PushUpToYou, PushNext, PushYield, PushToLocalQueue, RunReturns, SpuriousWake,
     client
<1>3. CASE \/ \E task \in Fresh : Submit(task)
           \/ ClientNotify \/ ClientWake \/ StopWorker \/ StopWake \/ Join
  <2>1. KeptSet
    BY <1>3 DEF Submit, ClientNotify, ClientWake, StopWorker, StopWake, Join, WakeWorker, WakeEffect
  <2>2. \A l \in {"set", "timer_join", "finished"} : mpc' # l /\ mpc # l
    BY <1>3 DEF Submit, ClientNotify, ClientWake, StopWorker, StopWake, Join
  <2> QED BY <2>1, <2>2
<1> QED BY <1>1, <1>2, <1>3 DEF Next

LEMMA NextInv ==
  ASSUME PoolInv, Next
  PROVE  PoolInv'
<1>1. Alone'
  BY LabelsKept DEF PoolInv, Alone, ControlGood
<1> QED BY <1>1, PoolControl, PoolOnce, StrandedStep DEF PoolInv

\* A step of others.
LEMMA PoolUntouched ==
  ASSUME DataTypes, ControlGood, OnceOK, UNCHANGED vars
  PROVE  /\ DataTypes' /\ ControlGood' /\ OnceOK' /\ Outside' = Outside
         /\ NothingStranded => NothingStranded'
<1> USE DEF vars, queues, coord, locals, client, history
<1>1. DataTypes' /\ OnceOK' /\ Outside' = Outside
  BY DataKept
<1>2. ControlTypes' /\ ControlOK'
  BY DEF ControlGood, ControlTypes, ControlOK, HoldsOK, SecondOK, LooksOK
<1>3. StoppedOK' /\ JoinedOK'
  BY StoppedKept DEF ControlGood, JoinedOK
<1>4. NothingStranded => NothingStranded'
  BY ViewKept DEF NothingStranded
<1> QED BY <1>1, <1>2, <1>3, <1>4 DEF ControlGood

LEMMA StutterInv ==
  ASSUME PoolInv, UNCHANGED vars
  PROVE  PoolInv'
<1>1. Alone' /\ mpc' = mpc
  BY DEF PoolInv, Alone, vars, client
<1> QED BY <1>1, PoolUntouched DEF PoolInv, StrandedOK

\* The inductive invariant of the pool: where workers are and what they hold, who is in
\* stopped_, where each task is and who looks for it.
THEOREM PoolAlways == Spec => []PoolInv
<1>1. PoolInv /\ [Next]_vars => PoolInv'
  BY NextInv, StutterInv
<1> QED BY <1>1, InitInv, PTL DEF Spec

-----------------------------------------------------------------------------
(* What the invariant says of the properties of the pool.                  *)

LEMMA TypesFollow ==
  ASSUME PoolInv
  PROVE  TypeOK
BY DEF PoolInv, ControlGood, Alone, TypeOK, DataTypes, ControlTypes, AllLabels, ClientLabels, Returns

\* What worker w holds, as a sequence and as the union of its places.
LEMMA HeldIs ==
  ASSUME DataTypes, OnceOK, NEW w \in Workers
  PROVE  /\ Held(w) \in Seq(Tasks) /\ Distinct(Held(w))
         /\ SeqRange(Held(w)) = UNION {Contents[<<k, w>>] : k \in Kinds}
<1> DEFINE b == buffer[w]
           o == batch[w]
           q == local_queue_[w]
           l == Pointer(lifo_slot_[w])
           n == Pointer(next[w])
<1>1. b \in Seq(Tasks) /\ o \in Seq(Tasks) /\ q \in Seq(Tasks)
      /\ Distinct(b) /\ Distinct(o) /\ Distinct(q)
  BY DEF DataTypes, OnceOK
<1>2. ASSUME NEW t \in Tasks \cup {NULL}
      PROVE  Pointer(t) \in Seq(Tasks) /\ SeqRange(Pointer(t)) = {t} \ {NULL} /\ Distinct(Pointer(t))
  <2>1. CASE t = NULL
    <3>1. Pointer(t) = << >>
      BY <2>1 DEF Pointer
    <3> QED BY <2>1, <3>1 DEF SeqRange, Distinct
  <2>2. CASE t # NULL
    <3>1. Pointer(t) = <<t>> /\ t \in Tasks
      BY <2>2 DEF Pointer
    <3> QED BY <2>2, <3>1, OneElement
  <2> QED BY <2>1, <2>2
<1>3. lifo_slot_[w] \in Tasks \cup {NULL} /\ next[w] \in Tasks \cup {NULL}
  BY DEF DataTypes
<1>4. l \in Seq(Tasks) /\ Distinct(l) /\ n \in Seq(Tasks) /\ Distinct(n)
      /\ SeqRange(l) = {lifo_slot_[w]} \ {NULL} /\ SeqRange(n) = {next[w]} \ {NULL}
  BY <1>2, <1>3
<1>5. /\ SeqRange(q) = Contents[<<"local", w>>] /\ SeqRange(b) = Contents[<<"buffer", w>>]
      /\ SeqRange(o) = Contents[<<"batch", w>>] /\ SeqRange(l) = Contents[<<"lifo", w>>]
      /\ SeqRange(n) = Contents[<<"next", w>>]
  BY <1>4, ContentsAt
<1>6. \A i, j \in Kinds : i # j => Contents[<<i, w>>] \cap Contents[<<j, w>>] = {}
  <2>1. ASSUME NEW i \in Kinds, NEW j \in Kinds, i # j
        PROVE  Contents[<<i, w>>] \cap Contents[<<j, w>>] = {}
    <3>1. <<i, w>> # <<j, w>> /\ <<i, w>> \in Places /\ <<j, w>> \in Places
      BY <2>1, ContentsAt
    <3> QED BY <3>1, OnceFacts
  <2> QED BY <2>1
<1>7. /\ SeqRange(b) \cap SeqRange(o) = {}
      /\ (SeqRange(b) \cup SeqRange(o)) \cap SeqRange(q) = {}
      /\ (SeqRange(b) \cup SeqRange(o) \cup SeqRange(q)) \cap SeqRange(l) = {}
      /\ (SeqRange(b) \cup SeqRange(o) \cup SeqRange(q) \cup SeqRange(l)) \cap SeqRange(n) = {}
  BY <1>5, <1>6, SMTT(30) DEF Kinds
<1>8. Held(w) = b \o o \o q \o l \o n
  BY DEF Held
<1>9. UNION {Contents[<<k, w>>] : k \in Kinds}
        = SeqRange(b) \cup SeqRange(o) \cup SeqRange(q) \cup SeqRange(l) \cup SeqRange(n)
  BY <1>5 DEF Kinds
<1> HIDE DEF b, o, q, l, n
<1> DEFINE c == b \o o
<1>10. c \in Seq(Tasks) /\ SeqRange(c) = SeqRange(b) \cup SeqRange(o)
  BY <1>1, ConcatRange
<1>11. Distinct(c)
  BY <1>1, <1>7, ConcatDistinct
<1>12. SeqRange(c) \cap SeqRange(q) = {}
  BY <1>7, <1>10
<1> HIDE DEF c
<1> DEFINE d == c \o q
<1>13. d \in Seq(Tasks) /\ SeqRange(d) = SeqRange(c) \cup SeqRange(q)
  BY <1>1, <1>10, ConcatRange
<1>14. Distinct(d)
  BY <1>1, <1>10, <1>11, <1>12, ConcatDistinct
<1>15. SeqRange(d) \cap SeqRange(l) = {}
  BY <1>7, <1>10, <1>13
<1> HIDE DEF d
<1> DEFINE e == d \o l
<1>16. e \in Seq(Tasks) /\ SeqRange(e) = SeqRange(d) \cup SeqRange(l)
  BY <1>4, <1>13, ConcatRange
<1>17. Distinct(e)
  BY <1>4, <1>13, <1>14, <1>15, ConcatDistinct
<1>18. SeqRange(e) \cap SeqRange(n) = {}
  BY <1>7, <1>10, <1>13, <1>16
<1> HIDE DEF e
<1>19. e \o n \in Seq(Tasks) /\ SeqRange(e \o n) = SeqRange(e) \cup SeqRange(n)
  BY <1>4, <1>16, ConcatRange
<1>20. Distinct(e \o n)
  BY <1>4, <1>16, <1>17, <1>18, ConcatDistinct
<1>21. Held(w) = e \o n
  BY <1>8 DEF c, d, e
<1> QED BY <1>9, <1>10, <1>13, <1>16, <1>19, <1>20, <1>21

\* What all workers hold, and the global queue.
LEMMA HeldTotal ==
  ASSUME DataTypes, OnceOK
  PROVE  /\ Total(Contents) = (UNION {SeqRange(Held(w)) : w \in Workers}) \cup SeqRange(global_queue_)
         /\ \A w, v \in Workers : w # v => SeqRange(Held(w)) \cap SeqRange(Held(v)) = {}
         /\ \A w \in Workers : SeqRange(Held(w)) \cap SeqRange(global_queue_) = {}
<1>1. DOMAIN Contents = Places /\ Contents[GlobalPlace] = SeqRange(global_queue_)
      /\ GlobalPlace \in Places
  BY DEF Contents, Content, Places, GlobalPlace
<1>2. \A w \in Workers : SeqRange(Held(w)) = UNION {Contents[<<k, w>>] : k \in Kinds}
  BY HeldIs
<1>3. \A w \in Workers, k \in Kinds : <<k, w>> \in Places /\ <<k, w>> # GlobalPlace
  BY DEF Places, Kinds, GlobalPlace
<1>4. \A p \in Places : p = GlobalPlace \/ \E k \in Kinds, w \in Workers : p = <<k, w>>
  BY DEF Places
<1>5. ASSUME NEW t, t \in Total(Contents)
      PROVE  t \in SeqRange(global_queue_) \/ \E w \in Workers : t \in SeqRange(Held(w))
  <2>1. PICK p \in Places : t \in Contents[p]
    BY <1>1, <1>5 DEF Total
  <2>2. ASSUME NEW k \in Kinds, NEW w \in Workers, p = <<k, w>>
        PROVE  t \in SeqRange(Held(w))
    BY <1>2, <2>1, <2>2
  <2> QED BY <1>1, <1>4, <2>1, <2>2
<1>6. ASSUME NEW t, t \in SeqRange(global_queue_) PROVE t \in Total(Contents)
  BY <1>1, <1>6 DEF Total
<1>9. ASSUME NEW w \in Workers, NEW t, t \in SeqRange(Held(w)) PROVE t \in Total(Contents)
  <2>1. PICK k \in Kinds : t \in Contents[<<k, w>>]
    BY <1>2, <1>9
  <2>2. <<k, w>> \in DOMAIN Contents
    BY <1>1, <1>3
  <2> QED BY <2>1, <2>2 DEF Total
<1>7. ASSUME NEW w \in Workers, NEW v \in Workers, w # v,
             NEW t, t \in SeqRange(Held(w)), t \in SeqRange(Held(v))
      PROVE  FALSE
  <2>1. PICK k \in Kinds : t \in Contents[<<k, w>>]
    BY <1>2, <1>7
  <2>2. PICK j \in Kinds : t \in Contents[<<j, v>>]
    BY <1>2, <1>7
  <2>3. <<k, w>> # <<j, v>> /\ <<k, w>> \in Places /\ <<j, v>> \in Places
    BY <1>3, <1>7
  <2> QED BY <2>1, <2>2, <2>3, OnceFacts
<1>8. ASSUME NEW w \in Workers, NEW t, t \in SeqRange(Held(w)), t \in SeqRange(global_queue_)
      PROVE  FALSE
  <2>1. PICK k \in Kinds : t \in Contents[<<k, w>>]
    BY <1>2, <1>8
  <2> QED BY <1>1, <1>3, <1>8, <2>1, OnceFacts
<1>10. Total(Contents) = (UNION {SeqRange(Held(w)) : w \in Workers}) \cup SeqRange(global_queue_)
  <2> DEFINE U == UNION {SeqRange(Held(w)) : w \in Workers}
  <2>1. \A t : t \in U <=> \E w \in Workers : t \in SeqRange(Held(w))
    OBVIOUS
  <2> HIDE DEF U
  <2>2. \A t : t \in Total(Contents) <=> t \in U \cup SeqRange(global_queue_)
    BY <1>5, <1>6, <1>9, <2>1
  <2>3. Total(Contents) = U \cup SeqRange(global_queue_)
    BY <2>2
  <2> USE DEF U
  <2> QED BY <2>3
<1> QED BY <1>7, <1>8, <1>10

LEMMA LeavesNothing ==
  ASSUME ControlOK
  PROVE  WorkersLeaveNothing
BY DEF ControlOK, HoldsOK, LooksOK, WorkersLeaveNothing, Calls, Sleeping

LEMMA JoinedLeavesGlobal ==
  ASSUME DataTypes, ControlOK, JoinedOK, OnceOK, mpc \in {"joined", "timer_join", "finished"}
  PROVE  Total(Contents) = SeqRange(global_queue_)
<1>1. ASSUME NEW w \in Workers, NEW k \in Kinds PROVE Contents[<<k, w>>] = {}
  <2>1. pc[w] = "exited" /\ HoldsOK(w) /\ LooksOK(w)
    BY DEF JoinedOK, ControlOK
  <2>2. /\ local_queue_[w] = << >> /\ buffer[w] = << >> /\ batch[w] = << >>
        /\ lifo_slot_[w] = NULL /\ next[w] = NULL
    BY <2>1 DEF HoldsOK, LooksOK, Calls, Sleeping
  <2>3. SeqRange(<< >>) = {}
    BY DEF SeqRange
  <2> QED BY <2>2, <2>3, ContentsAt DEF Kinds
<1>2. ASSUME NEW w \in Workers PROVE SeqRange(Held(w)) = {}
  <2>1. SeqRange(Held(w)) = UNION {Contents[<<k, w>>] : k \in Kinds}
    BY HeldIs
  <2>2. \A t : t \notin SeqRange(Held(w))
    <3> DEFINE c[k \in Kinds] == Contents[<<k, w>>]
    <3>1. \A k \in Kinds : c[k] = {}
      BY <1>1
    <3>2. SeqRange(Held(w)) = UNION {c[k] : k \in Kinds}
      BY <2>1
    <3> HIDE DEF c
    <3> QED BY <3>1, <3>2
  <2> QED BY <2>2
<1> DEFINE U == UNION {SeqRange(Held(w)) : w \in Workers}
<1>3. Total(Contents) = U \cup SeqRange(global_queue_)
  BY HeldTotal
<1>4. \A t : t \notin U
  BY <1>2
<1> HIDE DEF U
<1>5. U = {}
  BY <1>4
<1> QED BY <1>3, <1>5

LEMMA OnceFollows ==
  ASSUME PoolInv
  PROVE  EachTaskOnce
<1> USE DEF PoolInv, ControlGood
<1>1. Total(Contents) = submitted \ done
  BY OnceFacts DEF Outside
<1>2. \A w \in Workers : Cardinality(SeqRange(Held(w))) = Len(Held(w))
  BY HeldIs, DistinctCardinality
<1>3. Cardinality(SeqRange(global_queue_)) = Len(global_queue_)
  BY DistinctCardinality DEF DataTypes, OnceOK
<1>4. HeldOnce
  BY <1>1, <1>2, <1>3, HeldTotal DEF HeldOnce
<1>5. StopLeavesOnlyGlobal
  BY <1>1, JoinedLeavesGlobal DEF StopLeavesOnlyGlobal
<1> QED BY <1>4, <1>5, LeavesNothing DEF EachTaskOnce

LEMMA CoordinatorFollows ==
  ASSUME PoolInv
  PROVE  CoordinatorInv
<1>1. ParkedIsStopped
  BY DEF PoolInv, ControlGood, ControlOK, SecondOK, StoppedOK, ParkedIsStopped, Parked, Sleeping
<1> QED BY <1>1, TypesFollow DEF CoordinatorInv, ApproximateSizeCovers, PoolInv, ControlGood, StoppedOK

\* A worker that is parked has passed every queue.
LEMMA NothingStrandedFollows ==
  ASSUME ControlOK, NothingStranded
  PROVE  NoStrandedTask
<1> SUFFICES ASSUME NEW w \in Workers, Parked(w),
                    global_queue_ # << >> \/ \E v \in Workers : local_queue_[v] # << >>
             PROVE  \E x \in Workers : ~ Parked(x) /\ pc[x] # "run"
  BY DEF NoStrandedTask
<1>1. \A q : Passed(w, q)
  BY DEF Passed, Parked, ControlOK, SecondOK, Sleeping
<1>2. PICK q \in QueueIds : Queue(q) # << >>
  <2>1. CASE global_queue_ # << >>
    <3>1. 0 \in QueueIds
      BY PoolAssumption DEF QueueIds
    <3> QED BY <2>1, <3>1 DEF Queue
  <2>2. ASSUME NEW v \in Workers, local_queue_[v] # << >> PROVE \E q \in QueueIds : Queue(q) # << >>
    <3>1. v \in QueueIds /\ v # 0
      BY PoolAssumption DEF QueueIds, Workers
    <3> QED BY <2>2, <3>1 DEF Queue
  <2> QED BY <2>1, <2>2
<1>3. PICK x \in Workers : Looks(x, q)
  BY <1>1, <1>2 DEF NothingStranded, Stranded
<1>4. ~ Parked(x) /\ pc[x] # "run"
  BY <1>3 DEF Looks, Passed, Parked, ControlOK, SecondOK, Sleeping
<1> QED BY <1>4

LEMMA StrandedFollows ==
  ASSUME PoolInv
  PROVE  NoStrandedTask
<1>1. CASE mpc \in {"notify", "wake"}
  BY <1>1 DEF NoStrandedTask
<1>2. CASE NothingStranded
  BY <1>2, NothingStrandedFollows DEF PoolInv, ControlGood
<1> QED BY <1>1, <1>2 DEF PoolInv, ControlGood, StrandedOK

\* No task is lost or run twice by PickTask, Push, GetFromBuffer, the offload to the
\* global queue, a steal or an eviction from the LIFO slot; workers that sleep or end
\* leave nothing, and Stop leaves tasks in the global queue alone.
THEOREM TasksOnce == Spec => []EachTaskOnce
<1>1. PoolInv => EachTaskOnce
  BY OnceFollows
<1> QED BY <1>1, PoolAlways, PTL

\* Coordinator: a worker that sleeps and has no Wake is in stopped_, and
\* approximate_size_, which ShouldWakeWorker reads without the lock, is not too small.
THEOREM CoordinatorSafety == Spec => []CoordinatorInv
<1>1. PoolInv => CoordinatorInv
  BY CoordinatorFollows
<1> QED BY <1>1, PoolAlways, PTL

\* PickTask's second look and NotifyOnSubmit lose no wake-up: next to a task in a queue
\* and a parked worker there is a thread that looks for tasks or will wake a worker.
THEOREM NoLostWakeUp == Spec => []NoStrandedTask
<1>1. PoolInv => NoStrandedTask
  BY StrandedFollows
<1> QED BY <1>1, PoolAlways, PTL

-----------------------------------------------------------------------------
(* StealingRuntime: the pool with the timer thread beside it                  *)

\* The timer that the thread sleeps for is there, or one that is due before it.
TimerReady ==
  /\ now \in Nat /\ deadline \in Nat
  /\ timer = "submit" <=> closest # NULL
  /\ timer = "sleep" => \E r \in timers : r.deadline <= deadline
  /\ timer = "closest" => \E r \in timers : r.deadline <= now

TimersOK == TimerInv /\ TimerReady

\* No two timers have the same task, wherever they are.
TimersApart ==
  /\ \A r, s \in timers : r.task = s.task => r = s
  /\ \A c \in Callers : setting[c] # NULL => \A r \in timers : r.task # setting[c].task
  /\ \A c, d \in Callers :
       setting[c] # NULL /\ setting[d] # NULL /\ setting[c].task = setting[d].task => c = d
  /\ closest # NULL =>
       /\ \A r \in timers : r.task # closest.task
       /\ \A c \in Callers : setting[c] # NULL => setting[c].task # closest.task

\* Who is in Set, that Stop closes the queue of timers when nobody is, and that the timer
\* thread leaves nothing there when it ends.
SetsOK ==
  /\ \A w \in Workers : setting[w] # NULL <=> pc[w] = "set"
  /\ setting[Client] # NULL <=> mpc = "set"
  /\ timers_closed => mpc \in {"timer_join", "finished"}
  /\ timer = "exited" => timers_closed /\ timers = {}
  /\ ~ timer_enable_ => timer = "off" /\ timers = {} /\ \A c \in Callers : setting[c] = NULL
  /\ mpc = "finished" => timer = "exited" \/ ~ timer_enable_

\* The pool, whose tasks are also with the timers.
StealingPoolOK == DataTypes /\ ControlGood /\ OnceOK /\ Outside = TimersHold

\* The timer thread may have submitted, and not looked at stopped_ yet.
StrandedByTimer == StrandedOK \/ timer \in {"notify", "wake"}

RuntimeInv == StealingPoolOK /\ TimersOK /\ TimersApart /\ SetsOK /\ StrandedByTimer

-----------------------------------------------------------------------------
(* Steps of the timer thread and of its queue.                             *)

LEMMA TickKeeps ==
  ASSUME TimersOK, Tick
  PROVE  TimersOK'
BY DEF TimersOK, TimerInv, TimerReady, TimerTypeOK, NeverEarly, ClosestFinds, AwakeForTimers, Tick,
       timerQueue, timerThread, TimerType

LEMMA SetKeeps ==
  ASSUME TimersOK, NEW c \in Callers, NEW t \in Tasks, NEW d \in Delays, Set(c, t, d)
  PROVE  /\ TimersOK'
         /\ setting' \in [Callers -> TimerType \cup {NULL}] /\ setting'[c] # NULL
         /\ setting'[c].task = t
         /\ \A b \in Callers \ {c} : setting'[b] = setting[b]
<1>1. [task |-> t, deadline |-> now + d] \in TimerType
  BY RuntimeAssumption DEF Set, TimerType, TimersOK, TimerReady
<1>2. setting' = [setting EXCEPT ![c] = [task |-> t, deadline |-> now + d]]
      /\ setting \in [Callers -> TimerType \cup {NULL}]
  BY DEF Set, TimersOK, TimerInv, TimerTypeOK
<1>3. setting' \in [Callers -> TimerType \cup {NULL}] /\ setting'[c] # NULL /\ setting'[c].task = t
      /\ \A b \in Callers \ {c} : setting'[b] = setting[b]
  BY <1>1, <1>2, RuntimeAssumption
<1> QED BY <1>3 DEF TimersOK, TimerInv, TimerReady, TimerTypeOK, NeverEarly, ClosestFinds,
            AwakeForTimers, Set, timerQueue, timerThread

LEMMA PushKeeps ==
  ASSUME TimersOK, NEW c \in Callers, PushTimer(c)
  PROVE  TimersOK'
<1>1. setting[c] \in TimerType /\ timers' = timers \cup {setting[c]}
  BY DEF PushTimer, TimersOK, TimerInv, TimerTypeOK
<1>2. timer' = IF timer = "wait" THEN "woken" ELSE timer
  BY DEF PushTimer, NotifyTimer, TimersOK, TimerInv, TimerTypeOK
<1>3. TimerTypeOK'
  BY <1>1, <1>2 DEF TimersOK, TimerInv, TimerTypeOK, PushTimer
<1> QED BY <1>1, <1>2, <1>3 DEF TimersOK, TimerInv, TimerReady, NeverEarly, ClosestFinds,
            AwakeForTimers, PushTimer

LEMMA NearestKeeps ==
  ASSUME TimersOK, NearestDeadLine
  PROVE  TimersOK'
<1>0. timers \subseteq TimerType
  BY DEF TimersOK, TimerInv, TimerTypeOK
<1>1. PICK n \in {timers_waiting, timers_waiting + 1} :
        /\ n = 1 /\ NearestSection(n)
        /\ timer \in {"nearest", "woken"}
        /\ UNCHANGED <<timers, timers_closed, timer_enable_, closest, now, setting, orphans>>
  BY DEF NearestDeadLine, TimersOK, TimerInv, TimerTypeOK
<1>2. CASE timers = {}
  BY <1>1, <1>2 DEF NearestSection, TimersOK, TimerInv, TimerReady, TimerTypeOK, NeverEarly,
     ClosestFinds, AwakeForTimers
<1>3. ASSUME NEW r \in timers, timers_waiting' = n - 1, deadline' = r.deadline, timer' = "sleep"
      PROVE  TimersOK'
  <2>1. r.deadline \in 0 .. MaxTime
    BY <1>0 DEF TimerType
  <2>2. r.deadline \in Nat /\ r.deadline <= deadline'
    BY <1>3, <2>1, RuntimeAssumption
  <2> QED BY <1>1, <1>3, <2>2 DEF TimersOK, TimerInv, TimerReady, TimerTypeOK, NeverEarly,
              ClosestFinds, AwakeForTimers
<1> QED BY <1>1, <1>2, <1>3 DEF NearestSection

LEMMA SleepKeeps ==
  ASSUME TimersOK, Sleep
  PROVE  TimersOK'
<1>1. PICK r \in timers : r.deadline <= deadline
  BY DEF Sleep, TimersOK, TimerReady
<1>2. r.deadline \in Nat /\ r.deadline <= now
  BY <1>1, RuntimeAssumption DEF Sleep, TimersOK, TimerReady, TimerInv, TimerTypeOK, TimerType
<1> QED BY <1>1, <1>2 DEF TimersOK, TimerInv, TimerReady, TimerTypeOK, NeverEarly, ClosestFinds,
            AwakeForTimers, Sleep, timerQueue

LEMMA TakeKeeps ==
  ASSUME TimersOK, NEW r \in timers, Earliest(r), TakeTimer(r)
  PROVE  TimersOK' /\ r \in TimerType /\ r # NULL
<1>2. PICK s \in timers : s.deadline <= now
  BY DEF TakeTimer, TimersOK, TimerReady
<1>3. r \in TimerType /\ r.deadline \in Nat /\ s.deadline \in Nat /\ now \in Nat
  BY RuntimeAssumption DEF TimersOK, TimerReady, TimerInv, TimerTypeOK, TimerType
<1>4. r.deadline <= now
  BY <1>2, <1>3 DEF Earliest
<1>5. r # NULL
  BY <1>3, RuntimeAssumption
<1> QED BY <1>3, <1>4, <1>5 DEF TimersOK, TimerInv, TimerReady, TimerTypeOK, NeverEarly, ClosestFinds,
            AwakeForTimers, TakeTimer

LEMMA OtherTimerKeeps ==
  ASSUME TimersOK,
         \/ TimerSpurious \/ SubmitClosest("notify") \/ StartThread \/ CloseTimers
         \/ TimerNotify \/ TimerWake \/ UNCHANGED timerState
  PROVE  TimersOK'
<1> USE DEF TimersOK, TimerInv, TimerReady, TimerTypeOK, NeverEarly, ClosestFinds, AwakeForTimers,
            timerQueue
<1>1. CASE TimerSpurious
  BY <1>1 DEF TimerSpurious
<1>2. CASE SubmitClosest("notify")
  BY <1>2 DEF SubmitClosest
<1>3. CASE StartThread
  BY <1>3 DEF StartThread
<1>4. CASE CloseTimers
  BY <1>4 DEF CloseTimers, NotifyTimer
<1>5. CASE TimerNotify \/ TimerWake
  BY <1>5 DEF TimerNotify, TimerWake, TimerLocals
<1>6. CASE UNCHANGED timerState
  BY <1>6 DEF timerState
<1> QED BY <1>1, <1>2, <1>3, <1>4, <1>5, <1>6

-----------------------------------------------------------------------------
(* The tasks of timers.                                                    *)

HasTimer(t) ==
  \/ \E r \in timers : r.task = t
  \/ \E c \in Callers : setting[c] # NULL /\ setting[c].task = t
  \/ closest # NULL /\ closest.task = t

LEMMA HoldIs == \A t : t \in TimersHold <=> HasTimer(t)
BY DEF TimersHold, HasTimer

LEMMA HoldIsNext == \A t : t \in TimersHold' <=> HasTimer(t)'
BY DEF TimersHold, HasTimer

LEMMA TimersUntouched ==
  ASSUME TimersApart, UNCHANGED <<timers, setting, closest>>
  PROVE  TimersApart' /\ TimersHold' = TimersHold
BY DEF TimersApart, TimersHold

\* Set takes a task that no timer has.
LEMMA SetHolds ==
  ASSUME TimersOK, TimersApart, NEW c \in Callers, NEW t \in Tasks, NEW d \in Delays, Set(c, t, d),
         t \notin TimersHold
  PROVE  TimersApart' /\ TimersHold' = TimersHold \cup {t}
<1>1. /\ setting'[c] # NULL /\ setting'[c].task = t /\ setting[c] = NULL
      /\ \A b \in Callers \ {c} : setting'[b] = setting[b]
      /\ UNCHANGED <<timers, closest>>
  BY SetKeeps DEF Set, timerQueue, timerThread
<1>2. ~ HasTimer(t)
  BY HoldIs
<1>3. TimersApart'
  BY <1>1, <1>2 DEF TimersApart, HasTimer
<1>4. \A x : HasTimer(x)' <=> HasTimer(x) \/ x = t
  BY <1>1 DEF HasTimer
<1>5. \A x : x \in TimersHold' <=> x \in TimersHold \cup {t}
  BY <1>4, HoldIs, HoldIsNext
<1> QED BY <1>3, <1>5

\* Timers move from Set to the queue and from the queue to the thread.
LEMMA PushHolds ==
  ASSUME TimersOK, TimersApart, NEW c \in Callers, PushTimer(c)
  PROVE  TimersApart' /\ TimersHold' = TimersHold
<1>1. /\ setting[c] # NULL /\ timers' = timers \cup {setting[c]} /\ setting'[c] = NULL
      /\ \A b \in Callers \ {c} : setting'[b] = setting[b]
      /\ closest' = closest
  BY DEF PushTimer, TimersOK, TimerInv, TimerTypeOK
<1>3. TimersApart'
  BY <1>1 DEF TimersApart
<1>4. \A x : HasTimer(x)' <=> HasTimer(x)
  BY <1>1 DEF HasTimer
<1>5. \A x : x \in TimersHold' <=> x \in TimersHold
  BY <1>4, HoldIs, HoldIsNext
<1> QED BY <1>3, <1>5

LEMMA TakeHolds ==
  ASSUME TimersOK, TimersApart, NEW r \in timers, Earliest(r), TakeTimer(r)
  PROVE  TimersApart' /\ TimersHold' = TimersHold
<1>1. /\ closest = NULL /\ closest' = r /\ r # NULL /\ timers' = timers \ {r} /\ setting' = setting
  BY TakeKeeps DEF TakeTimer, TimersOK, TimerReady
<1>3. TimersApart'
  BY <1>1 DEF TimersApart
<1>4. \A x : HasTimer(x)' <=> HasTimer(x)
  BY <1>1 DEF HasTimer
<1>5. \A x : x \in TimersHold' <=> x \in TimersHold
  BY <1>4, HoldIs, HoldIsNext
<1> QED BY <1>3, <1>5

LEMMA SubmitHolds ==
  ASSUME TimersOK, TimersApart, SubmitClosest("notify")
  PROVE  /\ TimersApart' /\ TimersHold' = TimersHold \ {closest.task}
         /\ closest.task \in TimersHold /\ closest.task \in Tasks
<1>1. /\ closest # NULL /\ closest' = NULL /\ UNCHANGED <<timers, setting>> /\ closest \in TimerType
  BY DEF SubmitClosest, TimersOK, TimerReady, TimerInv, TimerTypeOK, timerQueue
<1>2. HasTimer(closest.task) /\ closest.task \in Tasks
  BY <1>1 DEF HasTimer, TimerType
<1>3. TimersApart'
  BY <1>1 DEF TimersApart
<1>4. \A x : HasTimer(x)' <=> HasTimer(x) /\ x # closest.task
  BY <1>1 DEF HasTimer, TimersApart
<1>5. \A x : x \in TimersHold' <=> x \in TimersHold \ {closest.task}
  BY <1>4, HoldIs, HoldIsNext
<1> QED BY <1>2, <1>3, <1>5, HoldIs

-----------------------------------------------------------------------------
(* Each kind of step keeps the invariant.                                  *)

LEMMA RuntimeStarts ==
  ASSUME RuntimeInit
  PROVE  RuntimeInv
<1> USE DEF RuntimeInit, TimerInit
<1>1. PoolInv
  BY InitInv
<1>2. TimersOK
  BY RuntimeAssumption DEF TimersOK, TimerInv, TimerReady, TimerTypeOK, NeverEarly, ClosestFinds,
     AwakeForTimers
<1>3. TimersApart
  BY DEF TimersApart
<1>4. TimersHold = {}
  <2>1. \A t : ~ HasTimer(t)
    BY DEF HasTimer
  <2> QED BY <2>1, HoldIs
<1>5. SetsOK
  BY RuntimeAssumption DEF SetsOK, Init, Callers
<1> QED BY <1>1, <1>2, <1>3, <1>4, <1>5 DEF RuntimeInv, StealingPoolOK, StrandedByTimer, PoolInv

\* What the pool does by itself is a step of the pool.
LEMMA PoolStepKeeps ==
  ASSUME RuntimeInv, PoolStep
  PROVE  RuntimeInv'
<1>1. Next /\ UNCHANGED timerState
  BY DEF PoolStep, Next, TaskPushes, Submittable, Fresh
<1>2. DataTypes' /\ ControlGood' /\ OnceOK' /\ Outside' = Outside
  BY <1>1, PoolControl, PoolOnce DEF RuntimeInv, StealingPoolOK
<1>3. TimersOK' /\ TimersApart' /\ TimersHold' = TimersHold
  BY <1>1, OtherTimerKeeps, TimersUntouched DEF RuntimeInv, timerState
<1>4. SetsOK'
  BY <1>1, LabelsKept DEF RuntimeInv, StealingPoolOK, ControlGood, SetsOK, timerState
<1>5. StrandedByTimer'
  BY <1>1, StrandedStep DEF RuntimeInv, StealingPoolOK, StrandedByTimer, timerState
<1> QED BY <1>2, <1>3, <1>4, <1>5 DEF RuntimeInv, StealingPoolOK

\* Steps that leave the pool alone.
LEMMA TimerRunKeeps ==
  ASSUME RuntimeInv, UNCHANGED vars,
         TimerRun \/ Tick \/ TimerSpurious \/ StartThread \/ UNCHANGED timerState
  PROVE  RuntimeInv'
<1>1. DataTypes' /\ ControlGood' /\ OnceOK' /\ Outside' = Outside
      /\ (NothingStranded => NothingStranded') /\ mpc' = mpc /\ pc' = pc
  BY PoolUntouched DEF RuntimeInv, StealingPoolOK, vars, client
<1>2. /\ TimersOK' /\ TimersApart' /\ TimersHold' = TimersHold
      /\ UNCHANGED <<timers_closed, timer_enable_, setting>> /\ timers' \subseteq timers
      /\ ~ timer_enable_ /\ timer = "off" => timer' = "off"
      /\ timer' = timer \/ timer \notin {"notify", "wake", "exited"}
      /\ timer' = "exited" => timer = "exited" \/ (timers = {} /\ timers_closed)
  <2>1. CASE NearestDeadLine
    BY <2>1, NearestKeeps, TimersUntouched DEF NearestDeadLine, NearestSection, RuntimeInv
  <2>2. CASE Sleep
    BY <2>2, SleepKeeps, TimersUntouched DEF Sleep, RuntimeInv, timerQueue
  <2>3. CASE GetClosestTimer
    <3>1. PICK r \in timers : Earliest(r) /\ TakeTimer(r)
      BY <2>3 DEF GetClosestTimer
    <3> QED BY <3>1, TakeKeeps, TakeHolds DEF TakeTimer, RuntimeInv
  <2>4. CASE Tick
    BY <2>4, TickKeeps, TimersUntouched DEF Tick, RuntimeInv, timerQueue, timerThread
  <2>5. CASE TimerSpurious \/ StartThread \/ UNCHANGED timerState
    BY <2>5, OtherTimerKeeps, TimersUntouched DEF TimerSpurious, StartThread, RuntimeInv, timerQueue,
       timerState
  <2> QED BY <2>1, <2>2, <2>3, <2>4, <2>5 DEF TimerRun
<1>3. SetsOK'
  BY <1>1, <1>2 DEF RuntimeInv, SetsOK
<1>4. StrandedByTimer'
  BY <1>1, <1>2 DEF RuntimeInv, StrandedByTimer, StrandedOK
<1> QED BY <1>1, <1>2, <1>3, <1>4 DEF RuntimeInv, StealingPoolOK

LEMMA SubmitTimerKeeps ==
  ASSUME RuntimeInv, SubmitTimer
  PROVE  RuntimeInv'
<1> DEFINE t == closest.task
<1>1. /\ SubmitClosest("notify") /\ global_queue_' = Append(global_queue_, t)
      /\ UNCHANGED <<local_queue_, lifo_slot_, filo_chain_, iter_, coord, pc, locals, client, history>>
  BY DEF SubmitTimer
<1>2. /\ TimersOK' /\ TimersApart' /\ TimersHold' = TimersHold \ {t}
      /\ t \in TimersHold /\ t \in Tasks
  BY <1>1, OtherTimerKeeps, SubmitHolds DEF RuntimeInv
<1> HIDE DEF t
<1>3. t \in submitted \ done /\ t \notin Total(Contents)
  BY <1>2 DEF RuntimeInv, StealingPoolOK, Outside
<1>4. DataTypes' /\ OnceOK' /\ Total(Contents)' = Total(Contents) \cup {t}
  <2>1. /\ {t} \cap Total(Contents) = {} /\ Total(Contents) \cup {t} \subseteq submitted' \ done'
        /\ submitted' \subseteq Tasks /\ done' \subseteq submitted'
    BY <1>1, <1>3, OnceFacts DEF RuntimeInv, StealingPoolOK, DataTypes, history
  <2> QED BY <1>1, <1>2, <2>1, GlobalAppended DEF RuntimeInv, StealingPoolOK, locals
<1>5. Outside' = TimersHold'
  BY <1>1, <1>2, <1>4 DEF Outside, RuntimeInv, StealingPoolOK, history
<1>6. ControlGood'
  BY <1>1 DEF RuntimeInv, StealingPoolOK, ControlGood, ControlTypes, ControlOK, HoldsOK, SecondOK, LooksOK,
     StoppedOK, Distinct, Linked, JoinedOK, coord, locals, client
<1>7. SetsOK'
  BY <1>1 DEF RuntimeInv, SetsOK, SubmitClosest, timerQueue, client
<1>8. StrandedByTimer'
  BY <1>1 DEF StrandedByTimer, SubmitClosest
<1> QED BY <1>2, <1>4, <1>5, <1>6, <1>7, <1>8 DEF RuntimeInv, StealingPoolOK

LEMMA TimerNotifyKeeps ==
  ASSUME RuntimeInv, TimerNotify
  PROVE  RuntimeInv'
<1>1. UNCHANGED vars /\ timer = "notify"
  BY DEF TimerNotify
<1>2. DataTypes' /\ ControlGood' /\ OnceOK' /\ Outside' = Outside
  BY <1>1, PoolUntouched DEF RuntimeInv, StealingPoolOK
<1>3. TimersOK' /\ TimersApart' /\ TimersHold' = TimersHold
  BY OtherTimerKeeps, TimersUntouched DEF RuntimeInv, TimerNotify, TimerLocals
<1>4. SetsOK'
  BY <1>1 DEF RuntimeInv, SetsOK, TimerNotify, TimerLocals, vars, client
<1>5. CASE approximate_size_ > 0
  <2>1. timer' = "wake"
    BY <1>5 DEF TimerNotify
  <2> QED BY <1>2, <1>3, <1>4, <2>1 DEF RuntimeInv, StealingPoolOK, StrandedByTimer
<1>6. CASE approximate_size_ = 0
  <2>1. NothingStranded'
    BY <1>1, <1>6, NotifiedNobody DEF RuntimeInv, StealingPoolOK, vars, locals
  <2> QED BY <1>2, <1>3, <1>4, <2>1 DEF RuntimeInv, StealingPoolOK, StrandedByTimer, StrandedOK
<1>7. approximate_size_ \in Nat
  BY DEF RuntimeInv, StealingPoolOK, ControlGood, ControlTypes
<1> QED BY <1>5, <1>6, <1>7

LEMMA TimerWakeKeeps ==
  ASSUME RuntimeInv, TimerWake
  PROVE  RuntimeInv'
<1> USE DEF RuntimeInv, StealingPoolOK
<1>1. /\ timer = "wake" /\ WakeWorker(pc)
      /\ UNCHANGED <<closest, TimerLocals, queues, has_stopped_, locals, client, history>>
  BY DEF TimerWake
<1>2. DataTypes' /\ OnceOK' /\ Outside' = Outside
  BY <1>1, DataKept DEF queues, locals, history
<1>3. TimersOK' /\ TimersApart' /\ TimersHold' = TimersHold
  BY <1>1, OtherTimerKeeps, TimersUntouched DEF TimerLocals
<1>4. /\ StoppedOK'
      /\ pc' \in [Workers -> AllLabels] /\ wakeups_' \in [Workers -> BOOLEAN]
      /\ stopped_' \in Seq(Workers) /\ approximate_size_' \in Nat
      /\ \A x \in Workers : pc'[x] = pc[x] \/ (pc[x] = "asleep" /\ pc'[x] = "unlink")
  BY <1>1, WakeWorkerControl DEF ControlGood, ControlTypes, locals
<1>5. \A x \in Workers : Kept(x)
  BY <1>1, <1>4 DEF Kept, queues, locals
<1>6. ControlOK' /\ JoinedOK'
  BY <1>1, <1>5, OutsideStep DEF ControlGood, client
<1>7. ControlGood'
  BY <1>1, <1>4, <1>6 DEF ControlGood, ControlTypes, queues, locals, client
<1>8. SetsOK'
  BY <1>1, <1>4 DEF SetsOK, TimerWake, TimerLocals, client
<1>9. NothingStranded'
  <2>1. \A x \in Workers : second[x] => pc[x] \notin {"run", "set"}
    BY DEF ControlGood, ControlOK, SecondOK, Calls, Sleeping
  <2> QED BY <1>1, <2>1, WokenOne DEF ControlGood, ControlTypes, locals
<1> QED BY <1>2, <1>3, <1>7, <1>8, <1>9 DEF StrandedByTimer, StrandedOK

\* Stop of the timer thread, after that of the pool.
LEMMA StopTimerKeeps ==
  ASSUME RuntimeInv, StopTimer \/ StopTimerReturn
  PROVE  RuntimeInv'
<1> USE DEF RuntimeInv, StealingPoolOK
<1>1. /\ mpc \in {"joined", "timer_join"} /\ mpc' \in {"timer_join", "finished"}
      /\ UNCHANGED <<queues, coord, pc, locals, mworker, history>>
  BY DEF StopTimer, StopTimerReturn
<1>2. DataTypes' /\ OnceOK' /\ Outside' = Outside
  BY <1>1, DataKept DEF queues, locals, history
<1>3. /\ TimersOK' /\ TimersApart' /\ TimersHold' = TimersHold
      /\ UNCHANGED <<timers, timer_enable_, setting>> /\ (timers_closed => timers_closed')
      /\ timer' = timer \/ (timer = "wait" /\ timer' = "woken")
  <2>1. TimersOK'
    BY OtherTimerKeeps DEF StopTimer, StopTimerReturn
  <2>2. UNCHANGED <<timers, timer_enable_, setting, orphans, closest>> /\ (timers_closed => timers_closed')
    BY DEF StopTimer, StopTimerReturn, CloseTimers, timerState
  <2>3. timer' = timer \/ (timer = "wait" /\ timer' = "woken")
    BY DEF StopTimer, StopTimerReturn, CloseTimers, NotifyTimer, timerState
  <2> QED BY <2>1, <2>2, <2>3, TimersUntouched
<1>4. ControlGood'
  BY <1>1 DEF ControlGood, ControlTypes, ControlOK, HoldsOK, SecondOK, LooksOK, StoppedOK, Distinct, Linked,
     JoinedOK, ClientLabels, coord, locals, queues
<1>5. SetsOK'
  BY <1>1, <1>3 DEF SetsOK, StopTimer, StopTimerReturn
<1>6. StrandedByTimer'
  <2>1. NothingStranded => NothingStranded'
    BY <1>1, ViewKept DEF NothingStranded, queues, coord, locals
  <2> QED BY <1>1, <1>3, <2>1 DEF StrandedByTimer, StrandedOK
<1> QED BY <1>2, <1>3, <1>4, <1>5, <1>6

-----------------------------------------------------------------------------
(* Set, which the client or a worker that runs a task calls.               *)

\* A worker or the client goes from one of these labels to the other.
LEMMA BusyKeeps ==
  ASSUME DataTypes, ControlGood, OnceOK, NEW c \in Callers, NEW from, NEW to,
         c = Client => <<from, to>> \in {<<"client", "set">>, <<"set", "client">>},
         c # Client => <<from, to>> \in {<<"run", "set">>, <<"set", "run">>},
         IF c = Client THEN mpc = from /\ mpc' = to /\ UNCHANGED pc
                       ELSE pc[c] = from /\ Goto(c, to) /\ UNCHANGED mpc,
         UNCHANGED <<queues, coord, locals, mworker>>
  PROVE  ControlGood' /\ (StrandedOK => StrandedOK')
<1> USE DEF ControlGood, Goto
<1>1. CASE c = Client
  <2>1. UNCHANGED pc /\ mpc' \in {"client", "set"} /\ mpc \in {"client", "set"}
    BY <1>1
  <2>2. ControlGood'
    BY <2>1 DEF ControlTypes, ControlOK, HoldsOK, SecondOK, LooksOK, StoppedOK, Distinct, Linked,
       JoinedOK, ClientLabels, coord, locals, queues
  <2>3. NothingStranded => NothingStranded'
    BY <2>1, ViewKept DEF NothingStranded, queues, coord, locals
  <2> QED BY <2>1, <2>2, <2>3 DEF StrandedOK
<1>2. CASE c # Client
  <2>1. PICK w \in Workers : w = c
    BY <1>2 DEF Callers
  <2>2. /\ pc[w] \in {"run", "set"} /\ pc' = [pc EXCEPT ![w] = to] /\ to \in {"run", "set"}
        /\ mpc' = mpc
    BY <1>2, <2>1
  <2>3. /\ pc' \in [Workers -> AllLabels] /\ pc'[w] = to /\ \A x \in Workers \ {w} : pc'[x] = pc[x]
    BY <2>2 DEF ControlTypes, AllLabels, Labels
  <2>4. \A x \in Workers \ {w} : Kept(x)
    BY <2>3 DEF Kept, queues, locals
  <2>5. WorkerOK(w)'
    BY <2>2, <2>3 DEF ControlOK, WorkerOK, HoldsOK, SecondOK, LooksOK, Calls, Sleeping, locals, queues
  <2>6. ControlOK' /\ JoinedOK'
    BY <2>2, <2>4, <2>5, WorkerStep
  <2>7. StoppedOK'
    BY StoppedKept DEF coord, locals
  <2>8. ControlGood'
    BY <2>2, <2>3, <2>6, <2>7 DEF ControlTypes, coord, locals, queues
  <2>9. NothingStranded => NothingStranded'
    <3>1. ASSUME NEW q \in QueueIds, Stranded(q)' PROVE Stranded(q)
      <4>1. \A x \in Workers : (Passed(x, q)' <=> Passed(x, q)) /\ (Looks(x, q) <=> Looks(x, q)')
        BY <2>2, <2>3 DEF Passed, Looks, Sleeping, locals, coord
      <4>2. Queue(q)' = Queue(q)
        BY DEF Queue, queues
      <4> QED BY <3>1, <4>1, <4>2, StrandedBefore
    <3> QED BY <3>1 DEF NothingStranded
  <2> QED BY <2>2, <2>8, <2>9 DEF StrandedOK
<1> QED BY <1>1, <1>2

\* The timer of a task that is new to the pool.
LEMMA SetStepKeeps ==
  ASSUME RuntimeInv, NEW t \in Fresh \cap TimerTasks, NEW d \in Delays,
         SetOutside(t, d) \/ \E w \in Workers : SetInside(w, t, d)
  PROVE  RuntimeInv'
<1> USE DEF RuntimeInv, StealingPoolOK
<1> DEFINE SetBy(c) ==
             /\ Sets(c, t, d)
             /\ IF c = Client THEN mpc = "client" /\ mpc' = "set" /\ UNCHANGED pc
                              ELSE pc[c] = "run" /\ Goto(c, "set") /\ UNCHANGED mpc
<1>1. PICK c \in Callers : SetBy(c)
  <2>1. CASE SetOutside(t, d)
    BY <2>1 DEF SetOutside, Callers
  <2>2. ASSUME NEW w \in Workers, SetInside(w, t, d) PROVE w \in Callers /\ SetBy(w)
    <3>1. w \in Callers /\ w # Client
      BY RuntimeAssumption DEF Callers
    <3> QED BY <2>2, <3>1 DEF SetInside
  <2> QED BY <2>1, <2>2
<1>2. /\ Set(c, t, d) /\ submitted' = submitted \cup {t} /\ done' = done
      /\ UNCHANGED <<queues, coord, locals, mworker>>
  BY <1>1 DEF Sets
<1>3. t \in Tasks /\ t \notin submitted /\ t \notin TimersHold
  BY DEF Fresh, Outside
<1>4. TimersOK' /\ TimersApart' /\ TimersHold' = TimersHold \cup {t}
  BY <1>2, <1>3, SetKeeps, SetHolds
<1>5. ControlGood' /\ (StrandedOK => StrandedOK')
  <2>1. UNCHANGED <<queues, coord, locals, mworker>>
    BY <1>2
  <2> QED BY <1>1, <2>1, BusyKeeps
<1>6. DataTypes' /\ OnceOK' /\ Outside' = Outside \cup {t}
  <2>1. UNCHANGED <<global_queue_, local_queue_, lifo_slot_, next, buffer, batch>>
    BY <1>2 DEF queues, locals
  <2>2. DataTypes'
    BY <1>2, <1>3, <2>1 DEF DataTypes
  <2>3. Contents' = Contents
    BY <2>1 DEF Contents, Content, SeqRange
  <2>4. Total(Contents)' = Total(Contents) /\ Apart(Contents)'
    BY <2>3 DEF Total, Apart, OnceOK
  <2>5. DistinctQueues'
    BY <2>1, OnceFacts DEF Distinct, DistinctQueues
  <2>6. Total(Contents) \subseteq submitted \ done /\ t \notin done
    BY <1>3, OnceFacts DEF DataTypes
  <2> QED BY <1>2, <1>3, <2>2, <2>4, <2>5, <2>6 DEF OnceOK, DistinctQueues, Outside
<1>7. SetsOK'
  <2>1. /\ setting'[c] # NULL /\ \A b \in Callers \ {c} : setting'[b] = setting[b]
    BY <1>2, <1>3, SetKeeps
  <2>2. /\ timer_enable_ /\ UNCHANGED <<timers, timers_closed, timer_enable_, timer>>
    BY <1>2 DEF Set, timerQueue, timerThread
  <2>3. \A w \in Workers : w # Client /\ w \in Callers
    BY RuntimeAssumption DEF Callers
  <2>4. \A w \in Workers : setting'[w] # NULL <=> pc'[w] = "set"
    BY <1>1, <2>1, <2>3 DEF SetsOK, Goto, ControlGood, ControlTypes
  <2>5. setting'[Client] # NULL <=> mpc' = "set"
    BY <1>1, <2>1 DEF SetsOK, Callers
  <2>6. mpc' = "finished" => mpc = "finished"
    BY <1>1
  <2>7. timers_closed => mpc' \in {"timer_join", "finished"}
    BY <1>1 DEF SetsOK
  <2>8. ~ timer_enable_ => FALSE
    BY <2>2
  <2> QED BY <2>2, <2>4, <2>5, <2>6, <2>7, <2>8 DEF SetsOK
<1>8. StrandedByTimer'
  BY <1>2, <1>5 DEF StrandedByTimer, Set, timerThread
<1> QED BY <1>4, <1>5, <1>6, <1>7, <1>8

LEMMA SetReturnsKeeps ==
  ASSUME RuntimeInv, NEW c \in Callers, SetReturns(c)
  PROVE  RuntimeInv'
<1> USE DEF RuntimeInv, StealingPoolOK
<1>1. /\ PushTimer(c) /\ UNCHANGED <<queues, coord, locals, mworker, history>>
      /\ IF c = Client THEN mpc' = "client" /\ UNCHANGED pc
                       ELSE Goto(c, "run") /\ UNCHANGED mpc
  BY DEF SetReturns
<1>2. /\ TimersOK' /\ TimersApart' /\ TimersHold' = TimersHold
  BY <1>1, PushKeeps, PushHolds
<1>3. /\ setting[c] # NULL /\ IF c = Client THEN mpc = "set" ELSE pc[c] = "set"
  BY <1>1 DEF PushTimer, SetsOK, Callers
<1>4. ControlGood' /\ (StrandedOK => StrandedOK')
  <2>1. UNCHANGED <<queues, coord, locals, mworker>>
    BY <1>1
  <2> QED BY <1>1, <1>3, <2>1, BusyKeeps
<1>5. DataTypes' /\ OnceOK' /\ Outside' = Outside
  BY <1>1, DataKept DEF queues, locals, history
<1>6. SetsOK'
  <2>1. /\ setting'[c] = NULL /\ (\A b \in Callers \ {c} : setting'[b] = setting[b])
        /\ UNCHANGED <<timers_closed, timer_enable_>> /\ timer_enable_
        /\ timers' = timers \cup {setting[c]}
        /\ timer' = timer \/ (timer = "wait" /\ timer' = "woken")
    BY <1>1, <1>3 DEF PushTimer, NotifyTimer, TimersOK, TimerInv, TimerTypeOK, SetsOK
  <2>3. \A w \in Workers : w # Client /\ w \in Callers
    BY RuntimeAssumption DEF Callers
  <2>4. \A w \in Workers : setting'[w] # NULL <=> pc'[w] = "set"
    BY <1>1, <2>1, <2>3 DEF SetsOK, Goto, ControlGood, ControlTypes
  <2>5. setting'[Client] # NULL <=> mpc' = "set"
    BY <1>1, <2>1 DEF SetsOK, Callers
  <2>6. mpc' = "finished" => mpc = "finished"
    BY <1>1
  <2>7. ~ timers_closed
    BY <1>3 DEF SetsOK, ControlGood, JoinedOK, Callers
  <2> QED BY <2>1, <2>4, <2>5, <2>6, <2>7 DEF SetsOK
<1>7. StrandedByTimer'
  BY <1>1, <1>4 DEF StrandedByTimer, PushTimer, NotifyTimer
<1> QED BY <1>2, <1>4, <1>5, <1>6, <1>7

-----------------------------------------------------------------------------
(* The runtime.                                                            *)

LEMMA RuntimeKeeps ==
  ASSUME RuntimeInv, [RuntimeNext]_runtimeVars
  PROVE  RuntimeInv'
<1>1. CASE UNCHANGED runtimeVars
  BY <1>1, TimerRunKeeps DEF runtimeVars
<1>2. CASE (Tick \/ TimerSpurious) /\ UNCHANGED vars
  BY <1>2, TimerRunKeeps
<1>3. CASE TimerStep
  BY <1>3, TimerRunKeeps, SubmitTimerKeeps, TimerNotifyKeeps, TimerWakeKeeps DEF TimerStep
<1>4. CASE StartStop
  BY <1>4, TimerRunKeeps, StopTimerKeeps DEF StartStop, StartTimer
<1>5. CASE PoolStep
  BY <1>5, PoolStepKeeps
<1> QED BY <1>1, <1>2, <1>3, <1>4, <1>5, SetStepKeeps, SetReturnsKeeps DEF RuntimeNext

\* The inductive invariant of the runtime: that of the pool, whose missing tasks are
\* those of timers, and what the timer thread and Set know of the timers.
THEOREM RuntimeAlways == RuntimeSpec => []RuntimeInv
BY RuntimeStarts, RuntimeKeeps, PTL DEF RuntimeSpec

LEMMA KeepsFollows ==
  ASSUME RuntimeInv
  PROVE  RuntimeKeepsTasks
<1> USE DEF RuntimeInv, StealingPoolOK
<1>1. PoolHolds = Total(Contents)
  BY HeldTotal DEF PoolHolds
<1>2. Total(Contents) \subseteq submitted \ done
  BY OnceFacts
<1>3. TimersHold \cap PoolHolds = {} /\ TimersHold \cup PoolHolds = submitted \ done
  BY <1>1, <1>2 DEF Outside
<1>4. ASSUME mpc = "finished"
      PROVE  TimersHold = {} /\ SeqRange(global_queue_) = submitted \ done
  <2>1. \A c \in Callers : setting[c] = NULL
    BY <1>4 DEF SetsOK, ControlGood, JoinedOK, Callers
  <2>2. timers = {} /\ closest = NULL
    BY <1>4 DEF SetsOK, TimersOK, TimerReady
  <2>3. TimersHold = {}
    BY <2>1, <2>2, HoldIs DEF HasTimer
  <2> QED BY <1>1, <1>3, <1>4, <2>3, JoinedLeavesGlobal DEF ControlGood
<1> QED BY <1>3, <1>4 DEF RuntimeKeepsTasks

LEMMA StrandedTimerFollows ==
  ASSUME RuntimeInv
  PROVE  NoStrandedTimer
<1>1. CASE mpc \in {"notify", "wake"}
  BY <1>1 DEF NoStrandedTimer, NoStrandedTask
<1>2. CASE NothingStranded
  BY <1>2, NothingStrandedFollows DEF RuntimeInv, StealingPoolOK, ControlGood, NoStrandedTimer
<1> QED BY <1>1, <1>2 DEF RuntimeInv, StrandedByTimer, StrandedOK, NoStrandedTimer

\* TimerThread::Run moves tasks from the queue of timers into the pool while workers
\* set timers, run tasks and stop: none is lost or in two places, and when Stop has
\* returned no timer is left and the others are in the global queue.
THEOREM RuntimeLosesNoTask == RuntimeSpec => []RuntimeKeepsTasks
<1>1. RuntimeInv => RuntimeKeepsTasks
  BY KeepsFollows
<1> QED BY <1>1, RuntimeAlways, PTL

\* The timer thread and the client submit from outside the pool, also at the same time:
\* each looks at approximate_size_ after its own Submit, and if one of them finds nobody
\* to wake, or the other has woken the worker, no wake-up is lost.
THEOREM RuntimeWakesWorkers == RuntimeSpec => []NoStrandedTimer
<1>1. RuntimeInv => NoStrandedTimer
  BY StrandedTimerFollows
<1> QED BY <1>1, RuntimeAlways, PTL

=============================================================================

----------------------------- MODULE FutureProofs -----------------------------
(***************************************************************************)
(* What contracts, combinators and pipes of futures promise.               *)
(*                                                                         *)
(* FutureCombine: for Both, First, FirstOk and BothOk, whatever the        *)
(* results of the inputs, the schedule of the three threads and the        *)
(* terminator, the promise of "out" is set once, each contract is met,     *)
(* used and deleted once, and Get returns what the combinator promised.    *)
(* Two failed inputs of BothOk are left out: there the code calls Set      *)
(* twice.                                                                  *)
(*                                                                         *)
(* FutureChain, for any pool and any length of the pipe: every promise has *)
(* one owner until it is set, functions run in the runtime they were piped *)
(* in, and Get returns what the same pipe of results computes.             *)
(***************************************************************************)
EXTENDS FutureChain, FutureCombine, FiniteSetTheorems, SequenceTheorems,
        WellFoundedInduction, TLAPS

-----------------------------------------------------------------------------
(* FutureCombine                                                           *)
(*                                                                         *)
(* A thread's stack holds calls.  The invariant does not list the stacks   *)
(* that are possible: it says that no step is pending twice (Unique) and   *)
(* that each step has its successor below it (Ordered), and relates the    *)
(* contracts and the combinator to which steps are still pending, in       *)
(* whatever thread.                                                        *)

\* The type of a step.
StepType == [op : Ops, c : Contracts, value : SUBSET Value]

\* A step without its value.
Token(s) == <<s.op, s.c>>

\* The tokens of a sequence of steps.
Tokens(steps) == {Token(steps[k]) : k \in DOMAIN steps}

\* What is still to be done, in any thread.
Pending == UNION {Tokens(stack[t]) : t \in Parties}

\* What a step is followed by in its thread, if not at once.
Followers(x) ==
  {y \in {<<"produce", x[2]>>, <<"consume", x[2]>>, <<"delete", x[2]>>, <<"join", x[2]>>,
          <<"fire", x[2]>>, <<"wait", x[2]>>} :
     \/ x[1] = "result" /\ y[1] = "produce"
     \/ x[1] = "callback" /\ y[1] = "consume"
     \/ x[1] \in {"call", "store", "join", "exchange", "set", "fail", "emplace", "fire", "wake"}
          /\ y[1] = "delete"
     \/ x[1] = "store" /\ y[1] = "join"
     \/ x[1] = "emplace" /\ y[1] = "fire"
     \/ x[1] \in {"futex", "asleep"} /\ y[1] = "wait"}

\* Nothing is to be done twice, ...
Unique ==
  \A t, u \in Parties : \A k \in DOMAIN stack[t], l \in DOMAIN stack[u] :
    Token(stack[t][k]) = Token(stack[u][l]) => t = u /\ k = l

\* ... and each step is before those it prepares.
Ordered ==
  \A t \in Parties : \A k \in DOMAIN stack[t] : \A y \in Followers(Token(stack[t][k])) :
    \E l \in DOMAIN stack[t] : l > k /\ Token(stack[t][l]) = y

\* The steps may replace the first one, h, of a thread.
Fits(h, steps) ==
  /\ \A k \in DOMAIN steps : Token(steps[k]) \notin Pending \/ Token(steps[k]) = h
  /\ \A k, l \in DOMAIN steps : Token(steps[k]) = Token(steps[l]) => k = l
  /\ \A k \in DOMAIN steps : \A y \in Followers(Token(steps[k])) :
       y \in Followers(h) \/ \E l \in DOMAIN steps : l > k /\ Token(steps[l]) = y

\* In particular, two steps may replace it, or three.
Fits2(h, a, b) ==
  /\ a \in StepType /\ b \in StepType /\ Token(a) # Token(b)
  /\ Token(a) \notin Pending /\ (Token(b) \notin Pending \/ Token(b) = h)
  /\ Followers(Token(a)) \subseteq Followers(h) \cup {Token(b)}
  /\ Followers(Token(b)) \subseteq Followers(h)

Fits3(h, a, b, c) ==
  /\ Fits2(h, a, b)
  /\ c \in StepType /\ Token(a) # Token(c) /\ Token(b) # Token(c)
  /\ Token(c) \notin Pending /\ Followers(Token(c)) \subseteq Followers(h)

\* The value of a step, and whose step it is.
CallOK(s) ==
  /\ s.op = "result" => IF s.c = "out" THEN s.value \in Promised ELSE s.value = {input[s.c]}
  /\ s.op = "set" => s.value \in Promised
  /\ s.op \in {"store", "join", "exchange", "set", "fail"} => s.c \in Inputs
  /\ s.op \in {"emplace", "fire", "wake", "wait", "futex", "asleep"} => s.c = "out"

\* ... of every step that is pending.
CallsOK == \A t \in Parties : \A k \in DOMAIN stack[t] : CallOK(stack[t][k])

\* Both sides have come to the contract.
Met(c) == state_[c] = {"Producer", "Consumer"}

\* The promise of the contract has been set, or has a producer that is to set it.
Supplied(c) == c \in Inputs \/ sets > 0

\* The state of a contract, from what is pending: a side has come when its step is
\* over, the callback and the result are there from then on, and the state is deleted
\* once the call has been made.
ContractOK(c) ==
  /\ "Consumer" \in state_[c] <=> <<"consume", c>> \notin Pending
  /\ Supplied(c) => ("Producer" \in state_[c] <=> <<"produce", c>> \notin Pending)
  /\ ~Supplied(c) => "Producer" \notin state_[c] /\ <<"produce", c>> \notin Pending
  /\ <<"callback", c>> \notin Pending => callback_[c]
  /\ Supplied(c) /\ <<"result", c>> \notin Pending => result_[c] # NONE
  /\ result_[c] # NONE => IF c = "out" THEN result_[c] \in Promised ELSE result_[c] = {input[c]}
  /\ deleted[c] = IF Met(c) /\ <<"delete", c>> \notin Pending THEN 1 ELSE 0
  /\ <<"delete", c>> \in Pending => Met(c)

\* Input i has not told the combinator yet.
Early(i) ==
  \/ ~Met(i)
  \/ \E op \in {"call", "store", "join", "exchange"} : <<op, i>> \in Pending

\* Where the callback of input i is.
Phase(i) ==
  /\ <<"call", i>> \in Pending =>
       <<"store", i>> \notin Pending /\ <<"join", i>> \notin Pending /\ <<"exchange", i>> \notin Pending
  /\ Early(i) => <<"set", i>> \notin Pending /\ <<"fail", i>> \notin Pending
  /\ <<"join", i>> \in Pending => combinator = "Both" \/ (combinator = "BothOk" /\ input[i].ok)
  /\ <<"exchange", i>> \in Pending => combinator \in {"First", "FirstOk"}
  /\ <<"fail", i>> \in Pending => combinator = "BothOk" /\ ~input[i].ok
  /\ (combinator = "Both" \/ (combinator = "BothOk" /\ input[i].ok))
       /\ (~Early(i) \/ (<<"join", i>> \in Pending /\ <<"store", i>> \notin Pending))
       => stored[i] = {input[i]}

\* The flags of the combinator, from the inputs that have told it: what makes exactly
\* one of the callbacks the one that calls Set.
FlagsOK ==
  /\ combinator = "Both" => flags = {i \in Inputs : ~Early(i)}
  /\ combinator = "BothOk" =>
       /\ flags \ {"Fail"} = {i \in Inputs : ~Early(i) /\ input[i].ok}
       /\ "Fail" \in flags => \E i \in Inputs : ~input[i].ok
  /\ combinator = "First" => flags = IF \A i \in Inputs : Early(i) THEN {} ELSE {"Satisfied"}
  /\ combinator = "FirstOk" =>
       /\ flags \in {{}, {"Satisfied"}, {"ReportError"}}
       /\ (\A i \in Inputs : Early(i)) => flags = {}
       /\ \A i \in Inputs : ~Early(i) /\ (\A j \in Inputs \ {i} : Early(j)) =>
            flags = Exchanged(i)

\* The inputs that have told the combinator make up its value.
Decided ==
  CASE combinator = "Both" -> \A i \in Inputs : ~Early(i)
    [] combinator = "First" -> \E i \in Inputs : ~Early(i)
    [] combinator = "FirstOk" -> (\A i \in Inputs : ~Early(i)) \/ \E i \in Inputs : ~Early(i) /\ input[i].ok
    [] combinator = "BothOk" -> (\A i \in Inputs : ~Early(i)) \/ \E i \in Inputs : ~Early(i) /\ ~input[i].ok

\* The calls of Set, made and to be made.
Setters == {i \in Inputs : <<"set", i>> \in Pending}

\* As soon as the value is decided there is one call of Set, made or pending.
SetsOK ==
  IF Decided
  THEN \/ sets = 1 /\ Setters = {}
       \/ sets = 0 /\ \E i \in Inputs : Setters = {i}
  ELSE sets = 0 /\ Setters = {}

\* Get waits until the event is fired, which is after the result was copied.
GetOK ==
  /\ \A op \in {"emplace", "fire", "wake"} : <<op, "out">> \in Pending => <<"call", "out">> \notin Pending
  /\ <<"futex", "out">> \in Pending => <<"asleep", "out">> \notin Pending
  /\ <<"fire", "out">> \in Pending /\ <<"emplace", "out">> \notin Pending => received \in Promised
  /\ event => /\ Met("out")
              /\ \A op \in {"call", "emplace", "fire"} : <<op, "out">> \notin Pending
              /\ received \in Promised
  /\ terminator = "Get" /\ ~event => <<"wait", "out">> \in Tokens(stack["main"])

\* Not both inputs of BothOk fail: then both of its callbacks call Set, which the code
\* does not survive.
NotAllFailed == combinator = "BothOk" => \E i \in Inputs : input[i].ok

\* What the producers set does not change.
PlanOK ==
  /\ combinator \in {"Both", "First", "FirstOk", "BothOk"}
  /\ \A i \in Inputs : input[i].from = i
  /\ NotAllFailed

\* The inductive invariant.
CombineInd ==
  /\ CombineTypeOK /\ PlanOK /\ Unique /\ Ordered /\ CallsOK
  /\ \A c \in Contracts : ContractOK(c)
  /\ \A i \in Inputs : Phase(i)
  /\ FlagsOK /\ SetsOK /\ GetOK

-----------------------------------------------------------------------------
(* Threads and their steps                                                 *)

\* The elements of steps followed by the tail of s.
LEMMA Prepended ==
  ASSUME NEW s \in Seq(StepType), s # << >>, NEW steps \in Seq(StepType), NEW r, r = steps \o Tail(s)
  PROVE  /\ r \in Seq(StepType)
         /\ Head(s) = s[1] /\ 1 \in DOMAIN s
         /\ \A k \in DOMAIN steps : k \in DOMAIN r /\ r[k] = steps[k]
         /\ \A k \in DOMAIN s : k > 1 =>
              k - 1 + Len(steps) \in DOMAIN r /\ r[k - 1 + Len(steps)] = s[k]
         /\ \A k \in DOMAIN r :
              IF k <= Len(steps) THEN k \in DOMAIN steps /\ r[k] = steps[k]
              ELSE k - Len(steps) + 1 \in DOMAIN s /\ r[k] = s[k - Len(steps) + 1]
<1>1. /\ Tail(s) \in Seq(StepType) /\ Len(Tail(s)) = Len(s) - 1 /\ Head(s) = s[1]
      /\ \A k \in 1 .. Len(Tail(s)) : Tail(s)[k] = s[k + 1]
      /\ Len(s) \in Nat /\ Len(s) > 0 /\ DOMAIN s = 1 .. Len(s)
  <2>1. Len(s) \in Nat /\ DOMAIN s = 1 .. Len(s) /\ Len(s) > 0
    BY LenProperties, EmptySeq
  <2> QED BY <2>1, HeadTailProperties
<1>2. Len(steps) \in Nat /\ DOMAIN steps = 1 .. Len(steps)
  BY LenProperties
<1> DEFINE rest == Tail(s)
<1>3. rest \in Seq(StepType)
  BY <1>1
<1>4. /\ r \in Seq(StepType) /\ Len(r) = Len(steps) + Len(rest)
      /\ \A k \in 1 .. Len(steps) + Len(rest) :
           r[k] = IF k <= Len(steps) THEN steps[k] ELSE rest[k - Len(steps)]
  <2>1. r = steps \o rest
    OBVIOUS
  <2> HIDE DEF rest
  <2> QED BY <2>1, <1>3, ConcatProperties
<1>5. DOMAIN r = 1 .. Len(steps) + Len(s) - 1
  BY <1>1, <1>4, LenProperties
<1> DEFINE m == Len(steps)
           n == Len(s)
<1>6. /\ m \in Nat /\ n \in Nat /\ n > 0 /\ DOMAIN s = 1 .. n /\ DOMAIN steps = 1 .. m
      /\ DOMAIN r = 1 .. m + n - 1 /\ Len(rest) = n - 1
  BY <1>1, <1>2, <1>5
<1>7. \A k \in 1 .. n - 1 : rest[k] = s[k + 1]
  BY <1>1
<1>8. \A k \in 1 .. m + n - 1 : r[k] = IF k <= m THEN steps[k] ELSE rest[k - m]
  BY <1>4, <1>6
<1> HIDE DEF m, n, rest
<1>9. \A k \in DOMAIN steps : k \in DOMAIN r /\ r[k] = steps[k]
  BY <1>6, <1>8
<1>10. \A k \in DOMAIN s : k > 1 => k - 1 + m \in DOMAIN r /\ r[k - 1 + m] = s[k]
  <2> SUFFICES ASSUME NEW k \in DOMAIN s, k > 1
               PROVE  k - 1 + m \in DOMAIN r /\ r[k - 1 + m] = s[k]
    OBVIOUS
  <2>1. k - 1 \in 1 .. n - 1 /\ (k - 1) + 1 = k
    BY <1>6
  <2>2. k - 1 + m \in 1 .. m + n - 1 /\ ~(k - 1 + m <= m) /\ (k - 1 + m) - m = k - 1
    BY <2>1, <1>6
  <2>3. rest[k - 1] = s[k]
    BY <2>1, <1>7
  <2> QED BY <2>2, <2>3, <1>6, <1>8
<1>11. \A k \in DOMAIN r :
          IF k <= m THEN k \in DOMAIN steps /\ r[k] = steps[k]
          ELSE k - m + 1 \in DOMAIN s /\ r[k] = s[k - m + 1]
  <2> SUFFICES ASSUME NEW k \in DOMAIN r
               PROVE  IF k <= m THEN k \in DOMAIN steps /\ r[k] = steps[k]
                      ELSE k - m + 1 \in DOMAIN s /\ r[k] = s[k - m + 1]
    OBVIOUS
  <2>1. CASE k <= m
    BY <2>1, <1>6, <1>8
  <2>2. CASE ~(k <= m)
    <3>1. k - m \in 1 .. n - 1 /\ k - m + 1 \in 1 .. n
      BY <2>2, <1>6
    <3>2. r[k] = rest[k - m]
      BY <2>2, <1>6, <1>8
    <3> QED BY <2>2, <3>1, <3>2, <1>6, <1>7
  <2> QED BY <2>1, <2>2
<1> USE DEF m
<1>12. 1 \in DOMAIN s
  BY <1>6
<1> QED BY <1>1, <1>4, <1>9, <1>10, <1>11, <1>12

\* A step is pending in a thread.
LEMMA PendingIs ==
  ASSUME NEW x
  PROVE  x \in Pending <=> \E t \in Parties : \E k \in DOMAIN stack[t] : Token(stack[t][k]) = x
BY DEF Pending, Tokens

\* What a step is followed by is pending with it, and nothing that the first step of a
\* thread follows is.
LEMMA Follow ==
  ASSUME Ordered, NEW x \in Pending, NEW y \in Followers(x)
  PROVE  y \in Pending
<1>1. PICK t \in Parties : \E k \in DOMAIN stack[t] : Token(stack[t][k]) = x
  BY PendingIs
<1>2. PICK k \in DOMAIN stack[t] : Token(stack[t][k]) = x
  BY <1>1
<1> QED BY <1>2, PendingIs DEF Ordered

\* What the first step of a thread follows is over.
LEMMA Prepared ==
  ASSUME Unique, Ordered, stack \in [Parties -> Seq(StepType)],
         NEW t \in Parties, stack[t] # << >>, NEW x, Token(Head(stack[t])) \in Followers(x)
  PROVE  x \notin Pending
<1> SUFFICES ASSUME x \in Pending PROVE FALSE
  OBVIOUS
<1>0. PICK u \in Parties : \E k \in DOMAIN stack[u] : Token(stack[u][k]) = x
  BY PendingIs
<1>1. PICK k \in DOMAIN stack[u] : Token(stack[u][k]) = x
  BY <1>0
<1>2. Head(stack[t]) = stack[t][1] /\ 1 \in DOMAIN stack[t]
  BY Prepended, EmptySeq
<1>3. PICK l \in DOMAIN stack[u] : l > k /\ Token(stack[u][l]) = Token(stack[t][1])
  BY <1>1, <1>2 DEF Ordered
<1>4. l = 1
  BY <1>2, <1>3 DEF Unique
<1>5. k \in Nat /\ k > 0
  BY LenProperties
<1> QED BY <1>3, <1>4, <1>5

\* Thread t does its first step, and calls what comes in steps: their order, if it is
\* right, is right in the thread.
LEMMA Stepped ==
  ASSUME stack \in [Parties -> Seq(StepType)], Unique, Ordered,
         NEW t \in Parties, stack[t] # << >>, NEW steps \in Seq(StepType), Then(t, steps),
         NEW h, h = Token(Head(stack[t])), Fits(h, steps)
  PROVE  /\ stack' \in [Parties -> Seq(StepType)]
         /\ Unique' /\ Ordered'
         /\ Pending' = (Pending \ {h}) \cup Tokens(steps)
         /\ t # "main" => stack'["main"] = stack["main"]
         /\ t = "main" => Tokens(stack'["main"]) = (Tokens(stack["main"]) \ {h}) \cup Tokens(steps)
         /\ (\A k \in DOMAIN steps : CallOK(steps[k])') /\ UNCHANGED plan /\ CallsOK => CallsOK'
<1> DEFINE s == stack[t]
           r == stack'[t]
           m == Len(steps)
<1>0. /\ \A k \in DOMAIN steps : Token(steps[k]) \notin Pending \/ Token(steps[k]) = h
      /\ \A k, l \in DOMAIN steps : Token(steps[k]) = Token(steps[l]) => k = l
      /\ \A k \in DOMAIN steps : \A y \in Followers(Token(steps[k])) :
           y \in Followers(h) \/ \E l \in DOMAIN steps : l > k /\ Token(steps[l]) = y
  BY DEF Fits
<1>1. r = steps \o Tail(s) /\ \A u \in Parties : u # t => stack'[u] = stack[u]
  BY DEF Then
<1>2. /\ r \in Seq(StepType)
      /\ Head(s) = s[1] /\ 1 \in DOMAIN s
      /\ \A k \in DOMAIN steps : k \in DOMAIN r /\ r[k] = steps[k]
      /\ \A k \in DOMAIN s : k > 1 => k - 1 + m \in DOMAIN r /\ r[k - 1 + m] = s[k]
      /\ \A k \in DOMAIN r :
           IF k <= m THEN k \in DOMAIN steps /\ r[k] = steps[k]
           ELSE k - m + 1 \in DOMAIN s /\ r[k] = s[k - m + 1]
  <2>1. s \in Seq(StepType) /\ s # << >> /\ r = steps \o Tail(s)
    BY <1>1
  <2>2. ASSUME NEW a \in Seq(StepType), a # << >>, NEW b, b = steps \o Tail(a)
        PROVE  /\ b \in Seq(StepType)
               /\ Head(a) = a[1] /\ 1 \in DOMAIN a
               /\ \A k \in DOMAIN steps : k \in DOMAIN b /\ b[k] = steps[k]
               /\ \A k \in DOMAIN a : k > 1 => k - 1 + m \in DOMAIN b /\ b[k - 1 + m] = a[k]
               /\ \A k \in DOMAIN b :
                    IF k <= m THEN k \in DOMAIN steps /\ b[k] = steps[k]
                    ELSE k - m + 1 \in DOMAIN a /\ b[k] = a[k - m + 1]
    <3>1. /\ b \in Seq(StepType) /\ Head(a) = a[1] /\ 1 \in DOMAIN a
          /\ \A k \in DOMAIN steps : k \in DOMAIN b /\ b[k] = steps[k]
      BY <2>2, Prepended
    <3>2. \A k \in DOMAIN a : k > 1 => k - 1 + Len(steps) \in DOMAIN b /\ b[k - 1 + Len(steps)] = a[k]
      BY <2>2, Prepended
    <3>3. \A k \in DOMAIN b :
            IF k <= Len(steps) THEN k \in DOMAIN steps /\ b[k] = steps[k]
            ELSE k - Len(steps) + 1 \in DOMAIN a /\ b[k] = a[k - Len(steps) + 1]
      BY <2>2, Prepended
    <3> QED BY <3>1, <3>2, <3>3
  <2> HIDE DEF s, r
  <2>3. s \in Seq(StepType) /\ s # << >> /\ r = steps \o Tail(s)
    BY <2>1
  <2>4. PICK a : a = s
    OBVIOUS
  <2>5. PICK b : b = r
    OBVIOUS
  <2>6. /\ b \in Seq(StepType)
        /\ Head(a) = a[1] /\ 1 \in DOMAIN a
    BY <2>2, <2>3, <2>4, <2>5
  <2>7. /\ \A k \in DOMAIN steps : k \in DOMAIN b /\ b[k] = steps[k]
    BY <2>2, <2>3, <2>4, <2>5
  <2>8. \A k \in DOMAIN a : k > 1 => k - 1 + m \in DOMAIN b /\ b[k - 1 + m] = a[k]
    <3>1. a \in Seq(StepType) /\ a # << >> /\ b = steps \o Tail(a)
      BY <2>3, <2>4, <2>5
    <3> QED BY <3>1, <2>2
  <2>9. \A k \in DOMAIN b :
               IF k <= m THEN k \in DOMAIN steps /\ b[k] = steps[k]
               ELSE k - m + 1 \in DOMAIN a /\ b[k] = a[k - m + 1]
    BY <2>2, <2>3, <2>4, <2>5
  <2> QED BY <2>4, <2>5, <2>6, <2>7, <2>8, <2>9
<1>3. /\ m \in Nat /\ DOMAIN steps = 1 .. m
      /\ \A k \in DOMAIN s : k \in Nat /\ k > 0
      /\ \A k \in DOMAIN r : k \in Nat /\ k > 0
  BY <1>2, LenProperties
<1>4. stack' \in [Parties -> Seq(StepType)]
  BY <1>1, <1>2 DEF Then
<1> HIDE DEF s, r, m
<1>5. s = stack[t] /\ r = stack'[t] /\ h = Token(s[1])
  BY <1>2 DEF s, r
\* An element of the new sequences is an old one, not the first, or one of steps.
<1>6. \A u \in Parties : \A k \in DOMAIN stack'[u] :
        /\ k \in Nat /\ k > 0
        /\ u = t /\ k <= m => k \in DOMAIN steps /\ stack'[u][k] = steps[k]
        /\ u = t /\ ~(k <= m) => /\ k - m + 1 \in DOMAIN stack[u] /\ k - m + 1 # 1
                                 /\ stack'[u][k] = stack[u][k - m + 1]
        /\ u # t => k \in DOMAIN stack[u] /\ stack'[u][k] = stack[u][k]
  <2> SUFFICES ASSUME NEW u \in Parties, NEW k \in DOMAIN stack'[u]
               PROVE  /\ k \in Nat /\ k > 0
                      /\ u = t /\ k <= m => k \in DOMAIN steps /\ stack'[u][k] = steps[k]
                      /\ u = t /\ ~(k <= m) => /\ k - m + 1 \in DOMAIN stack[u] /\ k - m + 1 # 1
                                               /\ stack'[u][k] = stack[u][k - m + 1]
                      /\ u # t => k \in DOMAIN stack[u] /\ stack'[u][k] = stack[u][k]
    OBVIOUS
  <2>0. k \in Nat /\ k > 0
    BY <1>4, LenProperties
  <2>1. CASE u = t
    <3>1. k \in DOMAIN r /\ stack'[u][k] = r[k]
      BY <2>1, <1>5
    <3>2. ~(k <= m) => k - m + 1 # 1
      BY <2>0, <1>3
    <3> QED BY <2>0, <2>1, <3>1, <3>2, <1>2, <1>5
  <2>2. CASE u # t
    BY <2>0, <2>2, <1>1
  <2> QED BY <2>1, <2>2
\* No old element but the first has the token of the first, or of one of steps.
<1>7. \A u \in Parties : \A l \in DOMAIN stack[u] :
        ~(u = t /\ l = 1) =>
          /\ Token(stack[u][l]) # h
          /\ \A k \in DOMAIN steps : Token(stack[u][l]) # Token(steps[k])
  <2> SUFFICES ASSUME NEW u \in Parties, NEW l \in DOMAIN stack[u], ~(u = t /\ l = 1)
               PROVE  /\ Token(stack[u][l]) # h
                      /\ \A k \in DOMAIN steps : Token(stack[u][l]) # Token(steps[k])
    OBVIOUS
  <2>1. Token(stack[u][l]) # h
    BY <1>2, <1>5 DEF Unique
  <2>2. Token(stack[u][l]) \in Pending
    BY PendingIs
  <2> QED BY <2>1, <2>2, <1>0
<1>8. Unique'
  <2> SUFFICES ASSUME NEW u \in Parties, NEW v \in Parties,
                      NEW k \in DOMAIN stack'[u], NEW l \in DOMAIN stack'[v],
                      Token(stack'[u][k]) = Token(stack'[v][l])
               PROVE  u = v /\ k = l
    BY DEF Unique, Token
  <2>0. k \in Nat /\ l \in Nat
    BY <1>4, LenProperties
  <2>1. CASE u = t /\ k <= m
    <3>1. k \in DOMAIN steps /\ stack'[u][k] = steps[k]
      BY <1>6, <2>1, <1>3
    <3>2. CASE v = t /\ l <= m
      BY <3>1, <3>2, <1>6, <1>3, <2>1, <1>0
    <3>3. CASE v = t /\ ~(l <= m)
      BY <3>1, <3>3, <1>6, <1>7, <1>3, <2>0
    <3>4. CASE v # t
      BY <3>1, <3>4, <1>6, <1>7
    <3> QED BY <3>2, <3>3, <3>4, <2>0, <1>3
  <2>2. CASE u = t /\ ~(k <= m)
    <3>1. k - m + 1 \in DOMAIN stack[u] /\ stack'[u][k] = stack[u][k - m + 1] /\ k - m + 1 # 1
      BY <1>6, <2>2, <1>3, <2>0
    <3>2. CASE v = t /\ l <= m
      <4>1. l \in DOMAIN steps /\ stack'[v][l] = steps[l]
        BY <1>6, <3>2, <1>3
      <4> QED BY <3>1, <4>1, <1>7, <2>2
    <3>3. CASE v = t /\ ~(l <= m)
      <4>1. l - m + 1 \in DOMAIN stack[v] /\ stack'[v][l] = stack[v][l - m + 1]
        BY <1>6, <3>3, <1>3, <2>0
      <4>2. k - m + 1 = l - m + 1
        BY <3>1, <4>1 DEF Unique
      <4> QED BY <4>2, <2>0, <1>3, <2>2, <3>3
    <3>4. CASE v # t
      <4>1. l \in DOMAIN stack[v] /\ stack'[v][l] = stack[v][l]
        BY <1>6, <3>4
      <4> QED BY <3>1, <4>1, <3>4, <2>2 DEF Unique
    <3> QED BY <3>2, <3>3, <3>4, <2>0, <1>3
  <2>3. CASE u # t
    <3>1. k \in DOMAIN stack[u] /\ stack'[u][k] = stack[u][k]
      BY <1>6, <2>3
    <3>2. CASE v = t /\ l <= m
      <4>1. l \in DOMAIN steps /\ stack'[v][l] = steps[l]
        BY <1>6, <3>2, <1>3
      <4> QED BY <3>1, <4>1, <1>7, <2>3
    <3>3. CASE v = t /\ ~(l <= m)
      <4>1. l - m + 1 \in DOMAIN stack[v] /\ stack'[v][l] = stack[v][l - m + 1]
        BY <1>6, <3>3, <1>3, <2>0
      <4> QED BY <3>1, <4>1, <2>3, <3>3 DEF Unique
    <3>4. CASE v # t
      BY <3>1, <3>4, <1>6 DEF Unique
    <3> QED BY <3>2, <3>3, <3>4, <2>0, <1>3
  <2> QED BY <2>1, <2>2, <2>3, <2>0, <1>3
<1>9. Ordered'
  <2> SUFFICES ASSUME NEW u \in Parties, NEW k \in DOMAIN stack'[u],
                      NEW y \in Followers(Token(stack'[u][k]))
               PROVE  \E l \in DOMAIN stack'[u] : l > k /\ Token(stack'[u][l]) = y
    BY DEF Ordered, Token, Followers
  <2>0. k \in Nat /\ k > 0
    BY <1>4, LenProperties
  \* What follows an old element of t, as seen in the new sequence.
  <2>1. ASSUME NEW j \in DOMAIN s, NEW z \in Followers(Token(s[j]))
        PROVE  \E l \in DOMAIN s : l > j /\ l - 1 + m \in DOMAIN r /\ Token(r[l - 1 + m]) = z
    <3>1. PICK l \in DOMAIN s : l > j /\ Token(s[l]) = z
      BY <2>1, <1>5 DEF Ordered
    <3>2. l > 1
      BY <3>1, <1>3
    <3> QED BY <3>1, <3>2, <1>2
  <2>2. CASE u = t /\ k <= m
    <3>1. k \in DOMAIN steps /\ stack'[u][k] = steps[k]
      BY <1>6, <2>2, <1>3
    <3>2. CASE \E l \in DOMAIN steps : l > k /\ Token(steps[l]) = y
      BY <3>2, <1>2, <1>5, <2>2
    <3>3. CASE y \in Followers(h)
      <4>1. PICK l \in DOMAIN s : l > 1 /\ l - 1 + m \in DOMAIN r /\ Token(r[l - 1 + m]) = y
        BY <3>3, <2>1, <1>2, <1>5
      <4>2. l - 1 + m > k
        BY <4>1, <1>3, <2>0, <2>2
      <4> QED BY <4>1, <4>2, <1>5, <2>2
    <3> QED BY <3>1, <3>2, <3>3, <1>0
  <2>3. CASE u = t /\ ~(k <= m)
    <3>1. k - m + 1 \in DOMAIN s /\ stack'[u][k] = s[k - m + 1]
      BY <1>6, <2>3, <1>3, <2>0, <1>5
    <3>2. PICK l \in DOMAIN s : l > k - m + 1 /\ l - 1 + m \in DOMAIN r /\ Token(r[l - 1 + m]) = y
      BY <3>1, <2>1
    <3>3. l - 1 + m > k
      BY <3>2, <1>3, <2>0
    <3> QED BY <3>2, <3>3, <1>5, <2>3
  <2>4. CASE u # t
    <3>1. stack'[u] = stack[u]
      BY <2>4, <1>1
    <3> QED BY <3>1 DEF Ordered
  <2> QED BY <2>2, <2>3, <2>4, <2>0, <1>3
<1>10. ASSUME NEW x
       PROVE  (\E k \in DOMAIN r : Token(r[k]) = x)
                <=> x \in Tokens(steps) \/ \E k \in DOMAIN s : k # 1 /\ Token(s[k]) = x
  <2>1. ASSUME NEW k \in DOMAIN r, Token(r[k]) = x
        PROVE  x \in Tokens(steps) \/ \E l \in DOMAIN s : l # 1 /\ Token(s[l]) = x
    <3>1. CASE k <= m
      BY <3>1, <1>2, <2>1 DEF Tokens
    <3>2. CASE ~(k <= m)
      <4>1. k - m + 1 \in DOMAIN s /\ r[k] = s[k - m + 1] /\ k - m + 1 # 1
        BY <3>2, <1>2, <1>3
      <4> QED BY <4>1, <2>1
    <3> QED BY <3>1, <3>2
  <2>2. ASSUME NEW k \in DOMAIN steps, Token(steps[k]) = x
        PROVE  \E l \in DOMAIN r : Token(r[l]) = x
    BY <2>2, <1>2
  <2>3. ASSUME NEW k \in DOMAIN s, k # 1, Token(s[k]) = x
        PROVE  \E l \in DOMAIN r : Token(r[l]) = x
    <3>1. k > 1
      BY <2>3, <1>3
    <3>2. k - 1 + m \in DOMAIN r /\ r[k - 1 + m] = s[k]
      BY <3>1, <1>2
    <3> QED BY <3>2, <2>3
  <2> QED BY <2>1, <2>2, <2>3 DEF Tokens
<1>11. ASSUME NEW x
       PROVE  (\E k \in DOMAIN s : k # 1 /\ Token(s[k]) = x)
                <=> x # h /\ \E k \in DOMAIN s : Token(s[k]) = x
  BY <1>5, <1>7, <1>2
<1>12. Pending' = (Pending \ {h}) \cup Tokens(steps)
  <2>1. ASSUME NEW x
        PROVE  x \in Pending' <=> \E u \in Parties : \E k \in DOMAIN stack'[u] : Token(stack'[u][k]) = x
    BY DEF Pending, Tokens, Token
  <2>2. ASSUME NEW x
        PROVE  x \in Pending' <=> x \in Tokens(steps) \/ (x # h /\ x \in Pending)
    <3>1. ASSUME NEW u \in Parties \ {t}
          PROVE  stack'[u] = stack[u] /\ \A k \in DOMAIN stack[u] : Token(stack[u][k]) # h
      BY <1>1, <1>7
    <3>2. ASSUME x \in Pending' PROVE x \in Tokens(steps) \/ (x # h /\ x \in Pending)
      <4>1. PICK u \in Parties : \E k \in DOMAIN stack'[u] : Token(stack'[u][k]) = x
        BY <2>1, <3>2
      <4>2. CASE u = t
        <5>1. \E k \in DOMAIN r : Token(r[k]) = x
          BY <4>1, <4>2, <1>5
        <5>2. x \in Tokens(steps) \/ (x # h /\ \E k \in DOMAIN s : Token(s[k]) = x)
          BY <5>1, <1>10, <1>11
        <5> QED BY <5>2, <1>5, PendingIs
      <4>3. CASE u # t
        BY <4>1, <4>3, <3>1, PendingIs
      <4> QED BY <4>2, <4>3
    <3>3. ASSUME x \in Tokens(steps) PROVE x \in Pending'
      BY <3>3, <1>10, <1>5, <2>1
    <3>4. ASSUME x # h, x \in Pending PROVE x \in Pending'
      <4>1. PICK u \in Parties : \E k \in DOMAIN stack[u] : Token(stack[u][k]) = x
        BY <3>4, PendingIs
      <4>2. CASE u = t
        <5>1. \E k \in DOMAIN s : Token(s[k]) = x
          BY <4>1, <4>2, <1>5
        <5>2. \E k \in DOMAIN r : Token(r[k]) = x
          BY <5>1, <3>4, <1>10, <1>11
        <5> QED BY <5>2, <1>5, <2>1
      <4>3. CASE u # t
        BY <4>1, <4>3, <3>1, <2>1
      <4> QED BY <4>2, <4>3
    <3> QED BY <3>2, <3>3, <3>4
  <2> QED BY <2>2
<1>13. t = "main" => Tokens(stack'["main"]) = (Tokens(stack["main"]) \ {h}) \cup Tokens(steps)
  <2> SUFFICES ASSUME t = "main" PROVE Tokens(r) = (Tokens(s) \ {h}) \cup Tokens(steps)
    BY <1>5
  <2>1. \A x : x \in Tokens(r) <=> \E k \in DOMAIN r : Token(r[k]) = x
    BY DEF Tokens
  <2>2. \A x : x \in Tokens(s) <=> \E k \in DOMAIN s : Token(s[k]) = x
    BY DEF Tokens
  <2>3. \A x : x \in Tokens(r) <=> x \in (Tokens(s) \ {h}) \cup Tokens(steps)
    BY <2>1, <2>2, <1>10, <1>11
  <2> QED BY <2>3
<1>14. (\A k \in DOMAIN steps : CallOK(steps[k])') /\ UNCHANGED plan /\ CallsOK => CallsOK'
  <2> SUFFICES ASSUME \A k \in DOMAIN steps : CallOK(steps[k])', UNCHANGED plan, CallsOK,
                      NEW u \in Parties, NEW k \in DOMAIN stack'[u]
               PROVE  CallOK(stack[u][k])'
    BY DEF CallsOK
  <2>1. CASE \E l \in DOMAIN steps : stack'[u][k] = steps[l]
    BY <2>1 DEF CallOK
  <2>2. CASE \E l \in DOMAIN stack[u] : stack'[u][k] = stack[u][l]
    <3>1. PICK l \in DOMAIN stack[u] : stack'[u][k] = stack[u][l]
      BY <2>2
    <3>2. CallOK(stack[u][l])
      BY DEF CallsOK
    <3> QED BY <3>1, <3>2 DEF CallOK, plan, Promised
  <2>3. k <= m \/ ~(k <= m)
    OBVIOUS
  <2> QED BY <2>1, <2>2, <2>3, <1>6
<1> QED BY <1>4, <1>8, <1>9, <1>12, <1>13, <1>14, <1>1 DEF Parties

-----------------------------------------------------------------------------
(* What comes in a step                                                    *)

\* The steps that have no value, and those that have one.
LEMMA DoIs ==
  ASSUME NEW op \in Ops, NEW c \in Contracts
  PROVE  /\ StepOf(op, c) \in StepType /\ Token(StepOf(op, c)) = <<op, c>>
         /\ StepOf(op, c).op = op /\ StepOf(op, c).c = c
         /\ \A v \in SUBSET Value :
              /\ StepWith(op, c, v) \in StepType /\ Token(StepWith(op, c, v)) = <<op, c>>
              /\ StepWith(op, c, v).op = op /\ StepWith(op, c, v).c = c /\ StepWith(op, c, v).value = v
BY DEF StepOf, StepWith, StepType, Token, NONE

\* The followers of a step, case by case.
LEMMA FollowersAre ==
  ASSUME NEW c
  PROVE  /\ Followers(<<"result", c>>) = {<<"produce", c>>}
         /\ Followers(<<"callback", c>>) = {<<"consume", c>>}
         /\ \A op \in {"call", "join", "exchange", "set", "fail", "fire", "wake"} :
              Followers(<<op, c>>) = {<<"delete", c>>}
         /\ Followers(<<"store", c>>) = {<<"join", c>>, <<"delete", c>>}
         /\ Followers(<<"emplace", c>>) = {<<"fire", c>>, <<"delete", c>>}
         /\ \A op \in {"produce", "consume", "delete", "wait"} : Followers(<<op, c>>) = {}
         /\ \A op \in {"futex", "asleep"} : Followers(<<op, c>>) = {<<"wait", c>>}
BY DEF Followers

\* The first step of a thread.
LEMMA First ==
  ASSUME stack \in [Parties -> Seq(StepType)], NEW t \in Parties, NEW op, Step(t, op)
  PROVE  /\ stack[t] # << >> /\ Head(stack[t]) \in StepType
         /\ op \in Ops /\ ArgOf(t) \in Contracts
         /\ Head(stack[t]).op = op /\ Head(stack[t]).c = ArgOf(t)
         /\ Head(stack[t]).value \in SUBSET Value
         /\ Token(Head(stack[t])) = <<op, ArgOf(t)>>
         /\ <<op, ArgOf(t)>> \in Pending
         /\ CallsOK => CallOK(Head(stack[t]))
<1>1. stack[t] \in Seq(StepType) /\ stack[t] # << >> /\ Head(stack[t]).op = op
  BY DEF Step
<1>2. Head(stack[t]) \in StepType /\ Head(stack[t]) = stack[t][1] /\ 1 \in DOMAIN stack[t]
  BY <1>1, HeadTailProperties, LenProperties, EmptySeq
<1>3. /\ op \in Ops /\ ArgOf(t) \in Contracts /\ Head(stack[t]).c = ArgOf(t)
      /\ Head(stack[t]).value \in SUBSET Value /\ Token(Head(stack[t])) = <<op, ArgOf(t)>>
  BY <1>1, <1>2 DEF StepType, ArgOf, Token
<1>4. <<op, ArgOf(t)>> \in Pending
  BY <1>2, <1>3, PendingIs
<1>5. CallsOK => CallOK(Head(stack[t]))
  BY <1>2 DEF CallsOK
<1> QED BY <1>1, <1>2, <1>3, <1>4, <1>5

\* Stepped, for the lengths that steps have.
LEMMA Stepped0 ==
  ASSUME stack \in [Parties -> Seq(StepType)], Unique, Ordered,
         NEW t \in Parties, stack[t] # << >>, Then(t, << >>), NEW h, h = Token(Head(stack[t]))
  PROVE  /\ stack' \in [Parties -> Seq(StepType)] /\ Unique' /\ Ordered'
         /\ Pending' = Pending \ {h}
         /\ Tokens(stack["main"]) \ {h} \subseteq Tokens(stack'["main"])
         /\ UNCHANGED plan /\ CallsOK => CallsOK'
<1> DEFINE steps == << >>
<1>1. steps \in Seq(StepType) /\ DOMAIN steps = {}
  OBVIOUS
<1>2. Tokens(steps) = {}
  BY <1>1 DEF Tokens
<1>3. Then(t, steps)
  OBVIOUS
<1> HIDE DEF steps
<1>6. /\ stack' \in [Parties -> Seq(StepType)]
      /\ Unique' /\ Ordered'
      /\ Pending' = (Pending \ {h}) \cup Tokens(steps)
      /\ t # "main" => stack'["main"] = stack["main"]
      /\ t = "main" => Tokens(stack'["main"]) = (Tokens(stack["main"]) \ {h}) \cup Tokens(steps)
      /\ (\A k \in DOMAIN steps : CallOK(steps[k])') /\ UNCHANGED plan /\ CallsOK => CallsOK'
  <2>1. Fits(h, steps)
    BY <1>1 DEF Fits
  <2> QED BY <2>1, <1>1, <1>3, Stepped
<1> QED BY <1>1, <1>2, <1>6

LEMMA Stepped1 ==
  ASSUME stack \in [Parties -> Seq(StepType)], Unique, Ordered,
         NEW t \in Parties, stack[t] # << >>, NEW h, h = Token(Head(stack[t])),
         NEW a \in StepType, NEW steps, steps = <<a>>, Then(t, steps), Token(a) \notin Pending,
         Followers(Token(a)) \subseteq Followers(h)
  PROVE  /\ stack' \in [Parties -> Seq(StepType)] /\ Unique' /\ Ordered'
         /\ Pending' = (Pending \ {h}) \cup {Token(a)}
         /\ Tokens(stack["main"]) \ {h} \subseteq Tokens(stack'["main"])
         /\ CallOK(a)' /\ UNCHANGED plan /\ CallsOK => CallsOK'
<1>1. steps \in Seq(StepType) /\ DOMAIN steps = {1} /\ steps[1] = a
  OBVIOUS
<1>2. Tokens(steps) = {Token(a)}
  BY <1>1 DEF Tokens
<1>4. Fits(h, steps)
  BY <1>1 DEF Fits
<1>5. CallOK(a)' => \A k \in DOMAIN steps : CallOK(steps[k])'
  BY <1>1
<1>6. /\ stack' \in [Parties -> Seq(StepType)]
      /\ Unique' /\ Ordered'
      /\ Pending' = (Pending \ {h}) \cup Tokens(steps)
      /\ t # "main" => stack'["main"] = stack["main"]
      /\ t = "main" => Tokens(stack'["main"]) = (Tokens(stack["main"]) \ {h}) \cup Tokens(steps)
      /\ (\A k \in DOMAIN steps : CallOK(steps[k])') /\ UNCHANGED plan /\ CallsOK => CallsOK'
  BY <1>1, <1>4, Stepped
<1> QED BY <1>2, <1>5, <1>6

LEMMA Stepped2 ==
  ASSUME stack \in [Parties -> Seq(StepType)], Unique, Ordered,
         NEW t \in Parties, stack[t] # << >>, NEW h, h = Token(Head(stack[t])),
         NEW a, NEW b, Fits2(h, a, b), NEW steps, steps = <<a, b>>, Then(t, steps)
  PROVE  /\ stack' \in [Parties -> Seq(StepType)] /\ Unique' /\ Ordered'
         /\ Pending' \subseteq (Pending \ {h}) \cup {Token(a), Token(b)}
         /\ (Pending \ {h}) \cup {Token(a), Token(b)} \subseteq Pending'
         /\ Tokens(stack["main"]) \ {h} \subseteq Tokens(stack'["main"])
         /\ t = "main" => Token(b) \in Tokens(stack'["main"])
         /\ CallOK(a)' /\ CallOK(b)' /\ UNCHANGED plan /\ CallsOK => CallsOK'
<1>1. steps \in Seq(StepType) /\ DOMAIN steps = {1, 2} /\ steps[1] = a /\ steps[2] = b
  BY DEF Fits2
<1>2. Tokens(steps) = {Token(a), Token(b)}
  BY <1>1 DEF Tokens
<1>4. Fits(h, steps)
  BY <1>1 DEF Fits, Fits2, Fits3
<1>5. CallOK(a)' /\ CallOK(b)' => \A k \in DOMAIN steps : CallOK(steps[k])'
  BY <1>1
<1>6. /\ stack' \in [Parties -> Seq(StepType)]
      /\ Unique' /\ Ordered'
      /\ Pending' = (Pending \ {h}) \cup Tokens(steps)
      /\ t # "main" => stack'["main"] = stack["main"]
      /\ t = "main" => Tokens(stack'["main"]) = (Tokens(stack["main"]) \ {h}) \cup Tokens(steps)
      /\ (\A k \in DOMAIN steps : CallOK(steps[k])') /\ UNCHANGED plan /\ CallsOK => CallsOK'
  BY <1>1, <1>4, Stepped
<1> QED BY <1>2, <1>5, <1>6

LEMMA Stepped3 ==
  ASSUME stack \in [Parties -> Seq(StepType)], Unique, Ordered,
         NEW t \in Parties, stack[t] # << >>, NEW h, h = Token(Head(stack[t])),
         NEW a, NEW b, NEW d, Fits3(h, a, b, d), Token(b) \notin Pending,
         NEW steps, steps = <<a, b, d>>, Then(t, steps)
  PROVE  /\ stack' \in [Parties -> Seq(StepType)] /\ Unique' /\ Ordered'
         /\ Pending' \subseteq (Pending \ {h}) \cup {Token(a), Token(b), Token(d)}
         /\ (Pending \ {h}) \cup {Token(a), Token(b), Token(d)} \subseteq Pending'
         /\ Tokens(stack["main"]) \ {h} \subseteq Tokens(stack'["main"])
         /\ CallOK(a)' /\ CallOK(b)' /\ CallOK(d)' /\ UNCHANGED plan /\ CallsOK => CallsOK'
<1>1. steps \in Seq(StepType) /\ DOMAIN steps = {1, 2, 3} /\ steps[1] = a /\ steps[2] = b /\ steps[3] = d
  BY DEF Fits2, Fits3
<1>2. Tokens(steps) = {Token(a), Token(b), Token(d)}
  BY <1>1 DEF Tokens
<1>4. Fits(h, steps)
  BY <1>1 DEF Fits, Fits2, Fits3
<1>5. CallOK(a)' /\ CallOK(b)' /\ CallOK(d)' => \A k \in DOMAIN steps : CallOK(steps[k])'
  BY <1>1
<1>6. /\ stack' \in [Parties -> Seq(StepType)]
      /\ Unique' /\ Ordered'
      /\ Pending' = (Pending \ {h}) \cup Tokens(steps)
      /\ t # "main" => stack'["main"] = stack["main"]
      /\ t = "main" => Tokens(stack'["main"]) = (Tokens(stack["main"]) \ {h}) \cup Tokens(steps)
      /\ (\A k \in DOMAIN steps : CallOK(steps[k])') /\ UNCHANGED plan /\ CallsOK => CallsOK'
  BY <1>1, <1>4, Stepped
<1> QED BY <1>2, <1>5, <1>6

-----------------------------------------------------------------------------
(* What an action leaves alone                                             *)

\* The values that "out" may have depend on what the producers set only.
LEMMA PromisedIs ==
  ASSUME CombineTypeOK, PlanOK
  PROVE  /\ \A v \in Promised : v # NONE /\ v \subseteq Value
         /\ \A v : v \in Promised => v # NONE
<1>1. Range(input) = {input["f1"], input["f2"]}
  BY DEF CombineTypeOK, Range, Inputs
<1>2. combinator \in {"Both", "First", "FirstOk", "BothOk"}
  BY DEF PlanOK
<1>3. input["f1"] \in Value /\ input["f2"] \in Value
  BY DEF CombineTypeOK, Inputs
<1>4. {v \in Range(input) : v.ok} # {} \/ Range(input) \ {v \in Range(input) : v.ok} # {}
  BY <1>1
<1> QED BY <1>1, <1>2, <1>3 DEF Promised, NONE

\* A contract whose state does not change, and that no step of which is done or called.
LEMMA ContractKept ==
  ASSUME NEW c \in Contracts, ContractOK(c), UNCHANGED plan,
         state_'[c] = state_[c], result_'[c] = result_[c], callback_'[c] = callback_[c],
         deleted'[c] = deleted[c], Supplied(c)' <=> Supplied(c),
         \A op \in {"result", "produce", "callback", "consume", "delete"} :
           <<op, c>> \in Pending' <=> <<op, c>> \in Pending
  PROVE  ContractOK(c)'
<1>1. Met(c)' <=> Met(c)
  BY DEF Met
<1>2. UNCHANGED <<input, Promised>>
  BY DEF plan, Promised
<1>3. PICK p0 : p0 = Pending
  OBVIOUS
<1>4. PICK p1 : p1 = Pending'
  OBVIOUS
<1> QED BY <1>1, <1>2, <1>3, <1>4 DEF ContractOK

\* An input that has not told the combinator anything new.
LEMMA PhaseKept ==
  ASSUME NEW i \in Inputs, Phase(i), UNCHANGED plan, stored'[i] = stored[i], Early(i)' <=> Early(i),
         \A op \in {"store", "join", "exchange", "set", "fail"} :
           <<op, i>> \in Pending' <=> <<op, i>> \in Pending,
         <<"call", i>> \in Pending' =>
           \/ <<"call", i>> \in Pending
           \/ \A op \in {"store", "join", "exchange"} : <<op, i>> \notin Pending
  PROVE  Phase(i)'
<1>1. UNCHANGED <<combinator, terminator, input>>
  BY DEF plan
<1> QED BY <1>1 DEF Phase

\* The flags, when nobody tells the combinator anything.
LEMMA FlagsKept ==
  ASSUME FlagsOK, UNCHANGED <<plan, flags>>, \A i \in Inputs : Early(i)' <=> Early(i)
  PROVE  FlagsOK'
<1>1. UNCHANGED <<combinator, terminator, input>>
  BY DEF plan
<1> QED BY <1>1 DEF FlagsOK, Exchanged

\* The calls of Set, when nobody tells the combinator anything.
LEMMA SetsKept ==
  ASSUME SetsOK, UNCHANGED <<plan, sets>>, \A i \in Inputs : Early(i)' <=> Early(i),
         \A i \in Inputs : <<"set", i>> \in Pending' <=> <<"set", i>> \in Pending
  PROVE  SetsOK'
<1>1. UNCHANGED <<combinator, terminator, input>>
  BY DEF plan
<1>2. Decided' <=> Decided
  BY <1>1 DEF Decided
<1>3. Setters' = Setters
  BY DEF Setters
<1> QED BY <1>2, <1>3 DEF SetsOK

\* The same of every input, and of the flags and the calls of Set.
LEMMA CombineKept ==
  ASSUME \A i \in Inputs : Phase(i), FlagsOK, SetsOK,
         UNCHANGED <<plan, flags, stored, sets>>,
         \A i \in Inputs : Early(i)' <=> Early(i),
         \A i \in Inputs : \A op \in {"store", "join", "exchange", "set", "fail"} :
           <<op, i>> \in Pending' <=> <<op, i>> \in Pending,
         \A i \in Inputs : <<"call", i>> \in Pending' =>
           \/ <<"call", i>> \in Pending
           \/ \A op \in {"store", "join", "exchange"} : <<op, i>> \notin Pending
  PROVE  (\A i \in Inputs : Phase(i)') /\ FlagsOK' /\ SetsOK'
<1>1. ASSUME NEW i \in Inputs PROVE Phase(i)'
  BY PhaseKept
<1>2. FlagsOK'
  BY FlagsKept
<1>3. SetsOK'
  BY SetsKept
<1> QED BY <1>1, <1>2, <1>3

\* Get, when nothing happens to "out".
LEMMA GetKept ==
  ASSUME GetOK, UNCHANGED <<plan, received, event>>, Met("out") => Met("out")',
         \A op \in {"call", "emplace", "fire", "wake", "futex", "asleep"} :
           <<op, "out">> \in Pending' <=> <<op, "out">> \in Pending,
         <<"wait", "out">> \in Tokens(stack["main"]) => <<"wait", "out">> \in Tokens(stack'["main"])
  PROVE  GetOK'
<1>1. UNCHANGED <<terminator, Promised>>
  BY DEF plan, Promised
<1>2. Tokens(stack["main"])' = Tokens(stack'["main"])
  BY DEF Tokens, Token
<1> QED BY <1>1, <1>2 DEF GetOK

\* The parts of the type invariant.
LEMMA TypeIs ==
  ASSUME CombineTypeOK
  PROVE  stack \in [Parties -> Seq(StepType)]
BY DEF CombineTypeOK, StepType

\* The type of what does not change.
LEMMA TypeKept ==
  ASSUME CombineTypeOK, UNCHANGED plan, stack' \in [Parties -> Seq(StepType)],
         state_' \in [Contracts -> SUBSET {"Producer", "Consumer"}],
         result_' \in [Contracts -> SUBSET Value], callback_' \in [Contracts -> BOOLEAN],
         deleted' \in [Contracts -> Nat], flags' \in Flags, stored' \in [Inputs -> SUBSET Value],
         sets' \in Nat, received' \in SUBSET Value, event' \in BOOLEAN
  PROVE  CombineTypeOK'
<1>1. UNCHANGED <<combinator, terminator, input>>
  BY DEF plan
<1>2. Flags' = Flags
  BY <1>1 DEF Flags
<1> QED BY <1>1, <1>2 DEF CombineTypeOK, StepType

\* What the producers set.
LEMMA PlanKept == PlanOK /\ UNCHANGED plan => PlanOK'
BY DEF PlanOK, NotAllFailed, plan

-----------------------------------------------------------------------------
(* The contract                                                            *)

\* Produce constructs the result.
LEMMA EmplaceResultKeeps ==
  ASSUME CombineInd, NEW t \in Parties, EmplaceResult(t)
  PROVE  CombineInd'
<1>c. PICK c : c = ArgOf(t)
  OBVIOUS
<1>v. PICK v : v = Head(stack[t]).value
  OBVIOUS
<1>1. /\ CombineTypeOK /\ PlanOK /\ Unique /\ Ordered /\ CallsOK /\ stack \in [Parties -> Seq(StepType)]
      /\ (\A d \in Contracts : ContractOK(d)) /\ (\A i \in Inputs : Phase(i))
      /\ FlagsOK /\ SetsOK /\ GetOK
  BY TypeIs DEF CombineInd
<1>2. /\ Step(t, "result") /\ Then(t, << >>) /\ result_' = [result_ EXCEPT ![c] = v]
      /\ UNCHANGED <<plan, state_, callback_, deleted, protected, received, event>>
  BY <1>c, <1>v DEF EmplaceResult, ArgOf
<1>3. /\ stack[t] # << >> /\ c \in Contracts /\ v \in SUBSET Value
      /\ Token(Head(stack[t])) = <<"result", c>> /\ <<"result", c>> \in Pending
      /\ IF c = "out" THEN v \in Promised ELSE v = {input[c]}
  BY <1>1, <1>2, <1>c, <1>v, First DEF CallOK
<1>4. /\ stack' \in [Parties -> Seq(StepType)] /\ Unique' /\ Ordered'
      /\ Pending' = Pending \ {<<"result", c>>}
      /\ Tokens(stack["main"]) \ {<<"result", c>>} \subseteq Tokens(stack'["main"])
      /\ CallsOK'
  BY <1>1, <1>2, <1>3, Stepped0
<1>5. CombineTypeOK'
  BY <1>1, <1>2, <1>3, <1>4, TypeKept DEF CombineTypeOK, protected, plan, Flags
<1>6. ASSUME NEW d \in Contracts PROVE ContractOK(d)'
  <2>1. CASE d # c
    <3>1. result_'[d] = result_[d]
      BY <2>1, <1>1, <1>2 DEF CombineTypeOK
    <3>2. \A op : <<op, d>> \in Pending' <=> <<op, d>> \in Pending
      BY <2>1, <1>4
    <3> QED BY <3>1, <3>2, <1>1, <1>2, ContractKept DEF Supplied, protected
  <2>2. CASE d = c
    <3>1. result_'[c] = v
      BY <1>1, <1>2, <1>3 DEF CombineTypeOK
    <3>2. v # NONE
      BY <1>1, <1>3, PromisedIs DEF NONE
    <3>3. \A op \in {"produce", "callback", "consume", "delete"} :
            <<op, c>> \in Pending' <=> <<op, c>> \in Pending
      BY <1>4
    <3>4. /\ UNCHANGED <<Promised, input, state_, callback_, deleted>>
          /\ (Met(c)' <=> Met(c)) /\ (Supplied(c)' <=> Supplied(c))
      BY <1>2 DEF Promised, plan, Met, Supplied, protected
    <3>5. ContractOK(c)
      BY <1>1, <1>3
    <3> QED BY <2>2, <3>1, <3>2, <3>3, <3>4, <3>5, <1>3 DEF ContractOK
  <2> QED BY <2>1, <2>2
<1>7. \A i \in Inputs : Early(i)' <=> Early(i)
  BY <1>2, <1>4 DEF Early, Met
<1>8. (\A i \in Inputs : Phase(i)') /\ FlagsOK' /\ SetsOK'
  BY <1>1, <1>2, <1>4, <1>7, CombineKept DEF protected
<1>9. GetOK'
  BY <1>1, <1>2, <1>4, GetKept DEF Met
<1>10. PlanOK'
  BY <1>1, <1>2, PlanKept
<1> QED BY <1>4, <1>5, <1>6, <1>8, <1>9, <1>10 DEF CombineInd

\* Consume constructs the callback.
LEMMA EmplaceCallbackKeeps ==
  ASSUME CombineInd, NEW t \in Parties, EmplaceCallback(t)
  PROVE  CombineInd'
<1>c. PICK c : c = ArgOf(t)
  OBVIOUS
<1>1. /\ CombineTypeOK /\ PlanOK /\ Unique /\ Ordered /\ CallsOK /\ stack \in [Parties -> Seq(StepType)]
      /\ (\A d \in Contracts : ContractOK(d)) /\ (\A i \in Inputs : Phase(i))
      /\ FlagsOK /\ SetsOK /\ GetOK
  BY TypeIs DEF CombineInd
<1>2. /\ Step(t, "callback") /\ Then(t, << >>) /\ callback_' = [callback_ EXCEPT ![c] = TRUE]
      /\ UNCHANGED <<plan, state_, result_, deleted, protected, received, event>>
  BY <1>c DEF EmplaceCallback, ArgOf
<1>3. /\ stack[t] # << >> /\ c \in Contracts
      /\ Token(Head(stack[t])) = <<"callback", c>> /\ <<"callback", c>> \in Pending
  BY <1>1, <1>2, <1>c, First
<1>4. /\ stack' \in [Parties -> Seq(StepType)] /\ Unique' /\ Ordered'
      /\ Pending' = Pending \ {<<"callback", c>>}
      /\ Tokens(stack["main"]) \ {<<"callback", c>>} \subseteq Tokens(stack'["main"])
      /\ CallsOK'
  BY <1>1, <1>2, <1>3, Stepped0
<1>5. CombineTypeOK'
  BY <1>1, <1>2, <1>3, <1>4, TypeKept DEF CombineTypeOK, protected, plan, Flags
<1>6. ASSUME NEW d \in Contracts PROVE ContractOK(d)'
  <2>1. CASE d # c
    <3>1. callback_'[d] = callback_[d]
      BY <2>1, <1>1, <1>2 DEF CombineTypeOK
    <3>2. \A op : <<op, d>> \in Pending' <=> <<op, d>> \in Pending
      BY <2>1, <1>4
    <3> QED BY <3>1, <3>2, <1>1, <1>2, ContractKept DEF Supplied, protected
  <2>2. CASE d = c
    <3>1. callback_'[c] = TRUE
      BY <1>1, <1>2, <1>3 DEF CombineTypeOK
    <3>2. \A op \in {"result", "produce", "consume", "delete"} :
            <<op, c>> \in Pending' <=> <<op, c>> \in Pending
      BY <1>4
    <3>3. /\ UNCHANGED <<Promised, input, state_, result_, deleted>>
          /\ (Met(c)' <=> Met(c)) /\ (Supplied(c)' <=> Supplied(c))
      BY <1>2 DEF Promised, plan, Met, Supplied, protected
    <3>4. ContractOK(c)
      BY <1>1, <1>3
    <3> QED BY <2>2, <3>1, <3>2, <3>3, <3>4 DEF ContractOK
  <2> QED BY <2>1, <2>2
<1>7. \A i \in Inputs : Early(i)' <=> Early(i)
  BY <1>2, <1>4 DEF Early, Met
<1>8. (\A i \in Inputs : Phase(i)') /\ FlagsOK' /\ SetsOK'
  BY <1>1, <1>2, <1>4, <1>7, CombineKept DEF protected
<1>9. GetOK'
  BY <1>1, <1>2, <1>4, GetKept DEF Met
<1>10. PlanOK'
  BY <1>1, <1>2, PlanKept
<1> QED BY <1>4, <1>5, <1>6, <1>8, <1>9, <1>10 DEF CombineInd

\* The second side of a contract is the first to know the other, and no one has called
\* the callback before.
LEMMA MeetKeeps ==
  ASSUME CombineInd, NEW t \in Parties, RendezvousProduce(t) \/ RendezvousConsume(t)
  PROVE  CombineInd'
<1>c. PICK c : c = ArgOf(t)
  OBVIOUS
<1>1. /\ CombineTypeOK /\ PlanOK /\ Unique /\ Ordered /\ CallsOK /\ stack \in [Parties -> Seq(StepType)]
      /\ (\A d \in Contracts : ContractOK(d)) /\ (\A i \in Inputs : Phase(i))
      /\ FlagsOK /\ SetsOK /\ GetOK
  BY TypeIs DEF CombineInd
<1>2. PICK op, mine, other :
        /\ \/ op = "produce" /\ mine = "Producer" /\ other = "Consumer"
           \/ op = "consume" /\ mine = "Consumer" /\ other = "Producer"
        /\ Step(t, op)
        /\ state_' = [state_ EXCEPT ![c] = @ \cup {mine}]
        /\ Then(t, IF state_[c] = {other} THEN RendezvousSteps(c) ELSE << >>)
        /\ UNCHANGED <<plan, result_, callback_, deleted, protected, received, event>>
  <2>1. CASE RendezvousProduce(t)
    BY <2>1, <1>c DEF RendezvousProduce, Meet
  <2>2. CASE RendezvousConsume(t)
    BY <2>2, <1>c DEF RendezvousConsume, Meet
  <2> QED BY <2>1, <2>2
<1>3. /\ stack[t] # << >> /\ c \in Contracts
      /\ Token(Head(stack[t])) = <<op, c>> /\ <<op, c>> \in Pending
  BY <1>1, <1>2, <1>c, First
<1>4. /\ ContractOK(c) /\ state_[c] \subseteq {"Producer", "Consumer"}
      /\ state_'[c] = state_[c] \cup {mine} /\ \A d \in Contracts \ {c} : state_'[d] = state_[d]
  BY <1>1, <1>2, <1>3 DEF CombineTypeOK
<1>5. mine \notin state_[c] /\ ~Met(c) /\ (op = "produce" => Supplied(c))
  <2>1. CASE op = "produce"
    <3>1. Supplied(c)
      BY <1>3, <1>4, <2>1 DEF ContractOK
    <3>2. "Producer" \notin state_[c]
      BY <1>3, <1>4, <2>1, <3>1 DEF ContractOK
    <3> QED BY <1>2, <2>1, <3>1, <3>2 DEF Met
  <2>2. CASE op = "consume"
    <3>1. "Consumer" \notin state_[c]
      BY <1>3, <1>4, <2>2 DEF ContractOK
    <3> QED BY <1>2, <2>2, <3>1 DEF Met
  <2> QED BY <1>2, <2>1, <2>2
<1>6. <<"delete", c>> \notin Pending /\ deleted[c] = 0
  BY <1>4, <1>5 DEF ContractOK
<1>7. \A o \in {"call", "store", "join", "exchange", "set", "fail", "emplace", "fire", "wake"} :
        <<o, c>> \notin Pending
  <2> SUFFICES ASSUME NEW o \in {"call", "store", "join", "exchange", "set", "fail", "emplace",
                                 "fire", "wake"}
               PROVE  <<o, c>> \notin Pending
    OBVIOUS
  <2>1. <<"delete", c>> \in Followers(<<o, c>>)
    BY FollowersAre
  <2> QED BY <2>1, <1>1, <1>6, Follow
<1>8. op = "produce" => <<"result", c>> \notin Pending
  <2>1. <<"produce", c>> \in Followers(<<"result", c>>)
    BY FollowersAre
  <2> QED BY <2>1, <1>1, <1>3, Prepared
<1>9. op = "consume" => <<"callback", c>> \notin Pending
  <2>1. <<"consume", c>> \in Followers(<<"callback", c>>)
    BY FollowersAre
  <2> QED BY <2>1, <1>1, <1>3, Prepared
<1>10. UNCHANGED <<Promised, input, sets, result_, callback_, deleted, flags, stored>>
       /\ \A d \in Contracts : Supplied(d)' <=> Supplied(d)
  BY <1>2 DEF Promised, plan, Supplied, protected
<1>11. PlanOK'
  BY <1>1, <1>2, PlanKept
<1>12. state_' \in [Contracts -> SUBSET {"Producer", "Consumer"}]
  BY <1>1, <1>2, <1>3 DEF CombineTypeOK
\* What is pending when no one is called, and when the callback is.
<1>13. CASE state_[c] # {other}
  <2>1. state_[c] = {} /\ ~Met(c)'
    BY <1>2, <1>4, <1>5, <1>13 DEF Met
  <2>2. /\ stack' \in [Parties -> Seq(StepType)] /\ Unique' /\ Ordered'
        /\ Pending' = Pending \ {<<op, c>>}
        /\ Tokens(stack["main"]) \ {<<op, c>>} \subseteq Tokens(stack'["main"])
        /\ CallsOK'
    <3>1. Then(t, << >>)
      BY <1>2, <1>13
    <3> QED BY <3>1, <1>1, <1>2, <1>3, Stepped0
  <2>3. ASSUME NEW d \in Contracts PROVE ContractOK(d)'
    <3>1. CASE d # c
      <4>1. \A o : <<o, d>> \in Pending' <=> <<o, d>> \in Pending
        BY <3>1, <2>2
      <4> QED BY <3>1, <4>1, <1>1, <1>2, <1>4, <1>10, ContractKept
    <3>2. CASE d = c
      <4>1. \A o : o # op => (<<o, c>> \in Pending' <=> <<o, c>> \in Pending)
        BY <2>2
      <4>2. <<op, c>> \notin Pending' /\ state_'[c] = {mine}
        BY <2>1, <2>2, <1>4
      <4> QED BY <3>2, <4>1, <4>2, <2>1, <1>2, <1>4, <1>5, <1>6, <1>8, <1>9, <1>10 DEF ContractOK
    <3> QED BY <3>1, <3>2
  <2>4. ASSUME NEW i \in Inputs PROVE Early(i)' <=> Early(i)
    <3>1. CASE i = c
      BY <3>1, <2>1, <1>5 DEF Early
    <3>2. CASE i # c
      <4>1. Met(i)' <=> Met(i)
        BY <3>2, <1>4 DEF Met, Contracts
      <4> QED BY <3>2, <4>1, <2>2 DEF Early
    <3> QED BY <3>1, <3>2
  <2>5. (\A i \in Inputs : Phase(i)') /\ FlagsOK' /\ SetsOK'
    BY <1>1, <1>2, <2>2, <2>4, CombineKept DEF protected
  <2>6. GetOK'
    <3>1. Met("out") => Met("out")'
      BY <1>4, <1>5 DEF Met, Contracts
    <3> QED BY <3>1, <1>1, <1>2, <2>2, GetKept
  <2>7. CombineTypeOK'
    BY <1>1, <1>2, <1>12, <2>2, TypeKept DEF CombineTypeOK, protected, plan, Flags
  <2> QED BY <1>11, <2>2, <2>3, <2>5, <2>6, <2>7 DEF CombineInd
<1>14. CASE state_[c] = {other}
  <2>1. Met(c)' /\ state_'[c] = {"Producer", "Consumer"}
    BY <1>2, <1>4, <1>14 DEF Met
  <2>2. /\ stack' \in [Parties -> Seq(StepType)] /\ Unique' /\ Ordered'
        /\ Pending' = (Pending \ {<<op, c>>}) \cup {<<"call", c>>, <<"delete", c>>}
        /\ Tokens(stack["main"]) \ {<<op, c>>} \subseteq Tokens(stack'["main"])
        /\ CallsOK'
    <3>1. Then(t, <<StepOf("call", c), StepOf("delete", c)>>)
      BY <1>2, <1>14 DEF RendezvousSteps
    <3>2. /\ StepOf("call", c) \in StepType /\ Token(StepOf("call", c)) = <<"call", c>> /\ StepOf("call", c).op = "call"
          /\ StepOf("delete", c) \in StepType /\ Token(StepOf("delete", c)) = <<"delete", c>>
          /\ StepOf("delete", c).op = "delete"
      BY <1>3, DoIs DEF Ops
    <3>3. Followers(<<"call", c>>) = {<<"delete", c>>} /\ Followers(<<"delete", c>>) = {}
      BY FollowersAre
    <3>4. CallOK(StepOf("call", c))' /\ CallOK(StepOf("delete", c))'
      BY <3>2 DEF CallOK
    <3>5. <<"call", c>> \notin Pending /\ <<"delete", c>> \notin Pending
      BY <1>6, <1>7
    <3>6. PICK a, b, steps : a = StepOf("call", c) /\ b = StepOf("delete", c) /\ steps = <<a, b>>
      OBVIOUS
    <3>7. a \in StepType /\ b \in StepType /\ Token(a) = <<"call", c>> /\ Token(b) = <<"delete", c>>
          /\ Token(a) # Token(b) /\ Then(t, steps) /\ steps = <<a, b>>
      BY <3>1, <3>2, <3>6
    <3>8. CallOK(a)' /\ CallOK(b)'
      BY <3>4, <3>6
    <3>9. /\ Followers(Token(a)) \subseteq Followers(<<op, c>>) \cup {Token(b)}
          /\ Followers(Token(b)) \subseteq Followers(<<op, c>>)
          /\ Token(a) \notin Pending /\ Token(b) \notin Pending
      BY <3>3, <3>5, <3>7
    <3>10. /\ stack' \in [Parties -> Seq(StepType)] /\ Unique' /\ Ordered'
           /\ Pending' \subseteq (Pending \ {<<op, c>>}) \cup {Token(a), Token(b)}
           /\ (Pending \ {<<op, c>>}) \cup {Token(a), Token(b)} \subseteq Pending'
           /\ Tokens(stack["main"]) \ {<<op, c>>} \subseteq Tokens(stack'["main"])
           /\ CallOK(a)' /\ CallOK(b)' /\ UNCHANGED plan /\ CallsOK => CallsOK'
      <4>1. Fits2(<<op, c>>, a, b)
        BY <3>7, <3>9 DEF Fits2
      <4> QED BY <4>1, <3>7, <1>1, <1>3, Stepped2
    <3> QED BY <3>7, <3>8, <3>10, <1>1, <1>2
  <2>3. ASSUME NEW d \in Contracts PROVE ContractOK(d)'
    <3>1. CASE d # c
      <4>1. \A o : <<o, d>> \in Pending' <=> <<o, d>> \in Pending
        BY <3>1, <2>2
      <4> QED BY <3>1, <4>1, <1>1, <1>2, <1>4, <1>10, ContractKept
    <3>2. CASE d = c
      <4>1. \A o : o # op /\ o # "call" /\ o # "delete" => (<<o, c>> \in Pending' <=> <<o, c>> \in Pending)
        BY <2>2
      <4>2. <<op, c>> \notin Pending' /\ <<"delete", c>> \in Pending'
        BY <2>2, <1>2
      <4> QED BY <3>2, <4>1, <4>2, <2>1, <1>2, <1>4, <1>5, <1>6, <1>8, <1>9, <1>10, <1>14 DEF ContractOK
    <3> QED BY <3>1, <3>2
  <2>4. ASSUME NEW i \in Inputs PROVE Early(i)' <=> Early(i)
    <3>1. CASE i = c
      BY <3>1, <2>2, <1>5 DEF Early
    <3>2. CASE i # c
      <4>1. Met(i)' <=> Met(i)
        BY <3>2, <1>4 DEF Met, Contracts
      <4> QED BY <3>2, <4>1, <2>2 DEF Early
    <3> QED BY <3>1, <3>2
  <2>5. (\A i \in Inputs : Phase(i)') /\ FlagsOK' /\ SetsOK'
    BY <1>1, <1>2, <1>7, <2>2, <2>4, CombineKept DEF protected
  <2>6. GetOK'
    <3>1. CASE c = "out"
      <4>1. ~event
        BY <3>1, <1>1, <1>5 DEF GetOK
      <4>2. /\ \A o \in {"emplace", "fire", "wake"} : <<o, "out">> \notin Pending'
            /\ \A o \in {"futex", "asleep"} : <<o, "out">> \in Pending' <=> <<o, "out">> \in Pending
        BY <3>1, <2>2, <1>2, <1>7
      <4>3. <<"wait", "out">> \in Tokens(stack["main"]) => <<"wait", "out">> \in Tokens(stack'["main"])
        BY <2>2, <1>2
      <4>4. Tokens(stack["main"])' = Tokens(stack'["main"])
        BY DEF Tokens, Token
      <4>5. UNCHANGED <<terminator, event>>
        BY <1>2 DEF plan
      <4> QED BY <4>1, <4>2, <4>3, <4>4, <4>5, <1>1 DEF GetOK
    <3>2. CASE c # "out"
      <4>1. Met("out") => Met("out")'
        BY <3>2, <1>4 DEF Met, Contracts
      <4> QED BY <3>2, <4>1, <1>1, <1>2, <2>2, GetKept
    <3> QED BY <3>1, <3>2
  <2>7. CombineTypeOK'
    BY <1>1, <1>2, <1>12, <2>2, TypeKept DEF CombineTypeOK, protected, plan, Flags
  <2> QED BY <1>11, <2>2, <2>3, <2>5, <2>6, <2>7 DEF CombineInd
<1> QED BY <1>13, <1>14

\* The state is deleted, for the first time, after the call.
LEMMA DeleteKeeps ==
  ASSUME CombineInd, NEW t \in Parties, Delete(t)
  PROVE  CombineInd'
<1>c. PICK c : c = ArgOf(t)
  OBVIOUS
<1>1. /\ CombineTypeOK /\ PlanOK /\ Unique /\ Ordered /\ CallsOK /\ stack \in [Parties -> Seq(StepType)]
      /\ (\A d \in Contracts : ContractOK(d)) /\ (\A i \in Inputs : Phase(i))
      /\ FlagsOK /\ SetsOK /\ GetOK
  BY TypeIs DEF CombineInd
<1>2. /\ Step(t, "delete") /\ Then(t, << >>) /\ deleted' = [deleted EXCEPT ![c] = @ + 1]
      /\ UNCHANGED <<plan, state_, result_, callback_, protected, received, event>>
  BY <1>c DEF Delete, ArgOf
<1>3. /\ stack[t] # << >> /\ c \in Contracts
      /\ Token(Head(stack[t])) = <<"delete", c>> /\ <<"delete", c>> \in Pending
  BY <1>1, <1>2, <1>c, First
<1>4. /\ stack' \in [Parties -> Seq(StepType)] /\ Unique' /\ Ordered'
      /\ Pending' = Pending \ {<<"delete", c>>}
      /\ Tokens(stack["main"]) \ {<<"delete", c>>} \subseteq Tokens(stack'["main"])
      /\ CallsOK'
  BY <1>1, <1>2, <1>3, Stepped0
<1>5. CombineTypeOK'
  <2>1. deleted' \in [Contracts -> Nat]
    BY <1>1, <1>2, <1>3 DEF CombineTypeOK
  <2> QED BY <2>1, <1>1, <1>2, <1>4, TypeKept DEF CombineTypeOK, protected, plan, Flags
<1>6. ASSUME NEW d \in Contracts PROVE ContractOK(d)'
  <2>1. CASE d # c
    <3>1. deleted'[d] = deleted[d]
      BY <2>1, <1>1, <1>2 DEF CombineTypeOK
    <3>2. \A op : <<op, d>> \in Pending' <=> <<op, d>> \in Pending
      BY <2>1, <1>4
    <3> QED BY <3>1, <3>2, <1>1, <1>2, ContractKept DEF Supplied, protected
  <2>2. CASE d = c
    <3>1. ContractOK(c)
      BY <1>1, <1>3
    <3>2. Met(c) /\ deleted[c] = 0
      BY <3>1, <1>3 DEF ContractOK
    <3>3. deleted'[c] = 1
      BY <3>2, <1>1, <1>2, <1>3 DEF CombineTypeOK
    <3>4. \A op \in {"result", "produce", "callback", "consume"} :
            <<op, c>> \in Pending' <=> <<op, c>> \in Pending
      BY <1>4
    <3>5. /\ UNCHANGED <<Promised, input, state_, result_, callback_>>
          /\ (Met(c)' <=> Met(c)) /\ (Supplied(c)' <=> Supplied(c))
      BY <1>2 DEF Promised, plan, Met, Supplied, protected
    <3>6. <<"delete", c>> \notin Pending'
      BY <1>4
    <3> QED BY <2>2, <3>1, <3>2, <3>3, <3>4, <3>5, <3>6 DEF ContractOK
  <2> QED BY <2>1, <2>2
<1>7. \A i \in Inputs : Early(i)' <=> Early(i)
  BY <1>2, <1>4 DEF Early, Met
<1>8. (\A i \in Inputs : Phase(i)') /\ FlagsOK' /\ SetsOK'
  BY <1>1, <1>2, <1>4, <1>7, CombineKept DEF protected
<1>9. GetOK'
  BY <1>1, <1>2, <1>4, GetKept DEF Met
<1>10. PlanOK'
  BY <1>1, <1>2, PlanKept
<1> QED BY <1>4, <1>5, <1>6, <1>8, <1>9, <1>10 DEF CombineInd

-----------------------------------------------------------------------------
(* The callbacks of the combinators                                        *)

\* Whoever runs the callback of a contract has both sides, and is to delete the state.
LEMMA Called ==
  ASSUME Ordered, NEW c \in Contracts, ContractOK(c), state_[c] \subseteq {"Producer", "Consumer"},
         NEW op \in {"call", "store", "join", "exchange", "set", "fail", "emplace", "fire", "wake", "delete"},
         <<op, c>> \in Pending
  PROVE  /\ <<"delete", c>> \in Pending /\ Met(c) /\ Supplied(c) /\ deleted[c] = 0
         /\ \A o \in {"result", "produce", "callback", "consume"} : <<o, c>> \notin Pending
         /\ callback_[c] /\ result_[c] # NONE
         /\ IF c = "out" THEN result_[c] \in Promised ELSE result_[c] = {input[c]}
<1>1. <<"delete", c>> \in Pending
  <2>1. CASE op = "delete"
    BY <2>1
  <2>2. CASE op # "delete"
    <3>1. <<"delete", c>> \in Followers(<<op, c>>)
      BY <2>2, FollowersAre
    <3> QED BY <3>1, Follow
  <2> QED BY <2>1, <2>2
<1>2. Met(c)
  BY <1>1 DEF ContractOK
<1>3. Supplied(c) /\ <<"produce", c>> \notin Pending /\ <<"consume", c>> \notin Pending
  BY <1>2 DEF ContractOK, Met
<1>4. <<"produce", c>> \in Followers(<<"result", c>>) /\ <<"consume", c>> \in Followers(<<"callback", c>>)
  BY FollowersAre
<1>5. <<"result", c>> \notin Pending /\ <<"callback", c>> \notin Pending
  BY <1>3, <1>4, Follow
<1>6. callback_[c] /\ result_[c] # NONE /\ deleted[c] = 0
  BY <1>1, <1>3, <1>5 DEF ContractOK
<1>7. IF c = "out" THEN result_[c] \in Promised ELSE result_[c] = {input[c]}
  BY <1>6 DEF ContractOK
<1> QED BY <1>1, <1>2, <1>3, <1>5, <1>6, <1>7

\* A step of a callback, which does nothing to a contract.
LEMMA ContractsKept ==
  ASSUME \A c \in Contracts : ContractOK(c),
         UNCHANGED <<plan, contracts, sets>>,
         \A c \in Contracts : \A op \in {"result", "produce", "callback", "consume", "delete"} :
           <<op, c>> \in Pending' <=> <<op, c>> \in Pending
  PROVE  \A c \in Contracts : ContractOK(c)'
<1> SUFFICES ASSUME NEW c \in Contracts PROVE ContractOK(c)'
  OBVIOUS
<1>1. UNCHANGED <<state_, result_, callback_, deleted, sets>>
  BY DEF contracts
<1>2. Supplied(c)' <=> Supplied(c)
  BY <1>1 DEF Supplied
<1> QED BY <1>1, <1>2, ContractKept

\* The value of an input may be the one promised.
LEMMA OneIsPromised ==
  ASSUME CombineTypeOK, NEW i \in Inputs
  PROVE  /\ combinator = "First" => {input[i]} \in Promised
         /\ combinator = "FirstOk" /\ input[i].ok => {input[i]} \in Promised
         /\ combinator = "FirstOk" /\ (\A j \in Inputs : ~input[j].ok) => {input[i]} \in Promised
         /\ combinator = "BothOk" /\ ~input[i].ok => {input[i]} \in Promised
<1> DEFINE good == {v \in Range(input) : v.ok}
           bad == Range(input) \ good
<1>1. Range(input) = {input[j] : j \in Inputs}
  BY DEF CombineTypeOK, Range
<1>2. input[i] \in Range(input)
  BY <1>1
<1>3. combinator = "First" => {input[i]} \in Promised
  BY <1>2 DEF Promised
<1>4. ASSUME combinator = "FirstOk", input[i].ok PROVE {input[i]} \in Promised
  <2>1. input[i] \in good /\ good # {}
    BY <1>2, <1>4
  <2>2. Promised = {{v} : v \in good}
    BY <1>4, <2>1 DEF Promised
  <2> QED BY <2>1, <2>2
<1>5. ASSUME combinator = "FirstOk", \A j \in Inputs : ~input[j].ok PROVE {input[i]} \in Promised
  <2>1. good = {} /\ input[i] \in bad
    BY <1>1, <1>5
  <2>2. Promised = {{v} : v \in bad}
    BY <1>5, <2>1 DEF Promised
  <2> QED BY <2>1, <2>2
<1>6. ASSUME combinator = "BothOk", ~input[i].ok PROVE {input[i]} \in Promised
  <2>1. input[i] \in bad
    BY <1>2, <1>6
  <2>2. Promised = {{v} : v \in bad}
    BY <1>6, <2>1 DEF Promised
  <2> QED BY <2>1, <2>2
<1> QED BY <1>3, <1>4, <1>5, <1>6

\* The first input to decide leaves no other call of Set.
LEMMA FirstSet ==
  ASSUME SetsOK, UNCHANGED sets, ~Decided, Decided', NEW i \in Inputs,
         <<"set", i>> \in Pending',
         \A j \in Inputs \ {i} : <<"set", j>> \in Pending' <=> <<"set", j>> \in Pending
  PROVE  SetsOK'
<1>1. sets = 0 /\ Setters = {}
  BY DEF SetsOK
<1>2. Setters' = {i}
  BY <1>1 DEF Setters
<1> QED BY <1>1, <1>2 DEF SetsOK

\* The callback of a combinator is called with the value of an input.
LEMMA CallCombinatorKeeps ==
  ASSUME CombineInd, NEW t \in Parties, CallCombinator(t)
  PROVE  CombineInd'
<1>i. PICK i : i = ArgOf(t)
  OBVIOUS
<1>1. /\ CombineTypeOK /\ PlanOK /\ Unique /\ Ordered /\ CallsOK /\ stack \in [Parties -> Seq(StepType)]
      /\ (\A d \in Contracts : ContractOK(d)) /\ (\A j \in Inputs : Phase(j))
      /\ FlagsOK /\ SetsOK /\ GetOK
  BY TypeIs DEF CombineInd
<1>2. /\ Step(t, "call") /\ i \in Inputs /\ Then(t, Callback(i))
      /\ UNCHANGED <<plan, contracts, protected, received, event>>
  BY <1>i DEF CallCombinator
<1>3. /\ stack[t] # << >> /\ i \in Contracts /\ i # "out"
      /\ Token(Head(stack[t])) = <<"call", i>> /\ <<"call", i>> \in Pending
  BY <1>1, <1>2, <1>i, First DEF Inputs
<1>4. /\ Met(i) /\ result_[i] = {input[i]} /\ state_[i] \subseteq {"Producer", "Consumer"}
  <2>1. state_[i] \subseteq {"Producer", "Consumer"}
    BY <1>1, <1>3 DEF CombineTypeOK
  <2> QED BY <2>1, <1>1, <1>3, Called
<1>5. \A op \in {"store", "join", "exchange", "set", "fail"} : <<op, i>> \notin Pending
  BY <1>1, <1>2, <1>3 DEF Phase, Early
<1>6. Followers(<<"call", i>>) = {<<"delete", i>>}
  BY FollowersAre
<1>7. UNCHANGED <<combinator, terminator, input, state_, flags, stored, sets>>
  BY <1>2 DEF plan, contracts, protected
<1>8. CombineTypeOK /\ stack' \in [Parties -> Seq(StepType)] => CombineTypeOK'
  BY <1>2, TypeKept DEF CombineTypeOK, protected, contracts, plan, Flags
<1>9. PlanOK'
  BY <1>1, <1>2, PlanKept
<1>10. \A c : Met(c)' <=> Met(c)
  BY <1>7 DEF Met
\* The rest, from what is pending.
<1>11. ASSUME \A x : x \in Pending' => x \in Pending \/ \E op \in {"store", "join", "exchange", "set", "fail"} : x = <<op, i>>,
              \A x : x \in Pending /\ x # <<"call", i>> => x \in Pending',
              Tokens(stack["main"]) \ {<<"call", i>>} \subseteq Tokens(stack'["main"])
       PROVE  (\A c \in Contracts : ContractOK(c)') /\ GetOK'
              /\ (\A j \in Inputs \ {i} : Phase(j)' /\ (Early(j)' <=> Early(j)))
  <2>1. \A c \in Contracts : \A op \in {"result", "produce", "callback", "consume", "delete"} :
          <<op, c>> \in Pending' <=> <<op, c>> \in Pending
    BY <1>11
  <2>2. \A c \in Contracts : ContractOK(c)'
    BY <2>1, <1>1, <1>2, <1>7, ContractsKept
  <2>3. \A op : <<op, "out">> \in Pending' <=> <<op, "out">> \in Pending
    BY <1>11, <1>3
  <2>4. GetOK'
    BY <2>3, <1>1, <1>2, <1>10, <1>11, GetKept
  <2>5. ASSUME NEW j \in Inputs \ {i} PROVE Phase(j)' /\ (Early(j)' <=> Early(j))
    <3>1. \A op : <<op, j>> \in Pending' <=> <<op, j>> \in Pending
      BY <1>11
    <3>2. Early(j)' <=> Early(j)
      BY <3>1, <1>10 DEF Early
    <3> QED BY <3>1, <3>2, <1>1, <1>2, <1>7, PhaseKept
  <2> QED BY <2>2, <2>4, <2>5
<1>12. CASE combinator = "BothOk" /\ ~input[i].ok
  <2>1. PICK a, b, steps : a = StepWith("set", i, result_[i]) /\ b = StepOf("fail", i) /\ steps = <<a, b>>
    OBVIOUS
  <2>2. /\ a \in StepType /\ b \in StepType /\ Token(a) = <<"set", i>> /\ Token(b) = <<"fail", i>>
        /\ a.op = "set" /\ a.c = i /\ a.value = {input[i]} /\ b.op = "fail" /\ b.c = i
    <3>1. result_[i] \in SUBSET Value
      BY <1>1, <1>3 DEF CombineTypeOK
    <3> QED BY <2>1, <3>1, <1>3, <1>4, DoIs DEF Ops
  <2>3. Fits2(<<"call", i>>, a, b) /\ Then(t, steps)
    <3>1. Followers(<<"set", i>>) = {<<"delete", i>>} /\ Followers(<<"fail", i>>) = {<<"delete", i>>}
      BY FollowersAre
    <3>2. Then(t, steps)
      BY <1>2, <1>12, <2>1 DEF Callback
    <3> QED BY <3>1, <3>2, <2>2, <1>5, <1>6 DEF Fits2
  <2>4. /\ stack' \in [Parties -> Seq(StepType)] /\ Unique' /\ Ordered'
        /\ Pending' \subseteq (Pending \ {<<"call", i>>}) \cup {Token(a), Token(b)}
        /\ (Pending \ {<<"call", i>>}) \cup {Token(a), Token(b)} \subseteq Pending'
        /\ Tokens(stack["main"]) \ {<<"call", i>>} \subseteq Tokens(stack'["main"])
        /\ CallOK(a)' /\ CallOK(b)' /\ UNCHANGED plan /\ CallsOK => CallsOK'
    <3>1. stack \in [Parties -> Seq(StepType)] /\ Unique /\ Ordered
      BY <1>1
    <3>2. steps = <<a, b>>
      BY <2>1
    <3>3. stack[t] # << >> /\ <<"call", i>> = Token(Head(stack[t]))
      BY <1>3
    <3>4. Fits2(<<"call", i>>, a, b) /\ Then(t, steps)
      BY <2>3
    <3> HIDE DEF Unique, Ordered, CallsOK
    <3> QED BY <3>1, <3>2, <3>3, <3>4, Stepped2
  <2>5. CallsOK'
    <3>1. {input[i]} \in Promised /\ Promised' = Promised
      BY <1>1, <1>2, <1>7, <1>12, OneIsPromised DEF Promised
    <3>2. CallOK(a)' /\ CallOK(b)'
      BY <3>1, <2>2, <1>2 DEF CallOK
    <3> QED BY <3>2, <2>4, <1>1, <1>2
  <2>6. /\ \A op \in {"call", "store", "join", "exchange"} : <<op, i>> \notin Pending'
        /\ <<"set", i>> \in Pending' /\ <<"fail", i>> \in Pending'
    <3>1. /\ \A x : x \in Pending' => (x \in Pending /\ x # <<"call", i>>) \/ x = <<"set", i>> \/ x = <<"fail", i>>
          /\ <<"set", i>> \in Pending' /\ <<"fail", i>> \in Pending'
      BY <2>2, <2>4
    <3>2. \A op \in {"store", "join", "exchange"} : <<op, i>> \notin Pending'
      BY <3>1, <1>5
    <3> QED BY <3>1, <3>2
  <2>7. Early(i) /\ ~Early(i)'
    BY <2>6, <1>3, <1>4, <1>10 DEF Early
  <2>8. (\A c \in Contracts : ContractOK(c)') /\ GetOK'
        /\ (\A j \in Inputs \ {i} : Phase(j)' /\ (Early(j)' <=> Early(j)))
    <3>1. \A x : x \in Pending' =>
             x \in Pending \/ \E op \in {"store", "join", "exchange", "set", "fail"} : x = <<op, i>>
      BY <2>2, <2>4
    <3>2. \A x : x \in Pending /\ x # <<"call", i>> => x \in Pending'
      BY <2>4
    <3> QED BY <3>1, <3>2, <2>4, <1>11
  <2>9. Phase(i)'
    BY <2>6, <2>7, <1>7, <1>12 DEF Phase
  <2>10. FlagsOK'
    <3>1. {j \in Inputs : ~Early(j)' /\ input[j].ok} = {j \in Inputs : ~Early(j) /\ input[j].ok}
      BY <2>8, <1>12
    <3> QED BY <3>1, <1>1, <1>7, <1>12 DEF FlagsOK
  <2>11. SetsOK'
    <3>1. \A j \in Inputs \ {i} : input[j].ok
      BY <1>1, <1>2, <1>12 DEF PlanOK, NotAllFailed, Inputs
    <3>2. ~Decided
      BY <3>1, <2>7, <1>2, <1>12 DEF Decided
    <3>3. Decided'
      BY <2>7, <1>2, <1>7, <1>12 DEF Decided
    <3>4. \A j \in Inputs \ {i} : <<"set", j>> \in Pending' <=> <<"set", j>> \in Pending
      BY <2>2, <2>4
    <3> QED BY <3>2, <3>3, <3>4, <2>6, <1>1, <1>2, <1>7, FirstSet
  <2> QED BY <2>4, <2>5, <2>8, <2>9, <2>10, <2>11, <1>1, <1>8, <1>9 DEF CombineInd
<1>13. CASE combinator = "Both" \/ (combinator = "BothOk" /\ input[i].ok)
  <2>1. PICK a, b, steps : a = StepOf("store", i) /\ b = StepOf("join", i) /\ steps = <<a, b>>
    OBVIOUS
  <2>2. /\ a \in StepType /\ b \in StepType /\ Token(a) = <<"store", i>> /\ Token(b) = <<"join", i>>
        /\ a.op = "store" /\ a.c = i /\ b.op = "join" /\ b.c = i
    BY <2>1, <1>3, DoIs DEF Ops
  <2>3. Fits2(<<"call", i>>, a, b) /\ Then(t, steps)
    <3>1. Followers(<<"store", i>>) = {<<"join", i>>, <<"delete", i>>}
          /\ Followers(<<"join", i>>) = {<<"delete", i>>}
      BY FollowersAre
    <3>2. Then(t, steps)
      BY <1>2, <1>13, <2>1 DEF Callback
    <3> QED BY <3>1, <3>2, <2>2, <1>5, <1>6 DEF Fits2
  <2>4. /\ stack' \in [Parties -> Seq(StepType)] /\ Unique' /\ Ordered'
        /\ Pending' \subseteq (Pending \ {<<"call", i>>}) \cup {Token(a), Token(b)}
        /\ (Pending \ {<<"call", i>>}) \cup {Token(a), Token(b)} \subseteq Pending'
        /\ Tokens(stack["main"]) \ {<<"call", i>>} \subseteq Tokens(stack'["main"])
        /\ CallOK(a)' /\ CallOK(b)' /\ UNCHANGED plan /\ CallsOK => CallsOK'
    BY <2>1, <2>3, <1>1, <1>3, Stepped2
  <2>5. CallsOK'
    <3>2. CallOK(a)' /\ CallOK(b)'
      BY <2>2, <1>2 DEF CallOK
    <3> QED BY <3>2, <2>4, <1>1, <1>2
  <2>6. /\ \A op \in {"call", "exchange", "set", "fail"} : <<op, i>> \notin Pending'
        /\ <<"store", i>> \in Pending' /\ <<"join", i>> \in Pending'
    <3>1. /\ \A x : x \in Pending' => (x \in Pending /\ x # <<"call", i>>) \/ x = <<"store", i>> \/ x = <<"join", i>>
          /\ <<"store", i>> \in Pending' /\ <<"join", i>> \in Pending'
      BY <2>2, <2>4
    <3>2. \A op \in {"exchange", "set", "fail"} : <<op, i>> \notin Pending'
      BY <3>1, <1>5
    <3> QED BY <3>1, <3>2
  <2>7. Early(i) /\ Early(i)'
    BY <2>6, <1>3 DEF Early
  <2>8. (\A c \in Contracts : ContractOK(c)') /\ GetOK'
        /\ (\A j \in Inputs \ {i} : Phase(j)' /\ (Early(j)' <=> Early(j)))
    <3>1. \A x : x \in Pending' =>
             x \in Pending \/ \E op \in {"store", "join", "exchange", "set", "fail"} : x = <<op, i>>
      BY <2>2, <2>4
    <3>2. \A x : x \in Pending /\ x # <<"call", i>> => x \in Pending'
      BY <2>4
    <3> QED BY <3>1, <3>2, <2>4, <1>11
  <2>9. Phase(i)'
    BY <2>6, <2>7, <1>7, <1>13 DEF Phase
  <2>10. \A j \in Inputs : Early(j)' <=> Early(j)
    BY <2>7, <2>8
  <2>11. FlagsOK' /\ SetsOK'
    <3>1. \A j \in Inputs : <<"set", j>> \in Pending' <=> <<"set", j>> \in Pending
      BY <2>2, <2>4
    <3> QED BY <3>1, <2>10, <1>1, <1>2, <1>7, FlagsKept, SetsKept
  <2> QED BY <2>4, <2>5, <2>8, <2>9, <2>11, <1>1, <1>8, <1>9 DEF CombineInd
<1>14. CASE combinator \in {"First", "FirstOk"}
  <2>1. PICK a, steps : a = StepOf("exchange", i) /\ steps = <<a>>
    OBVIOUS
  <2>2. a \in StepType /\ Token(a) = <<"exchange", i>> /\ a.op = "exchange" /\ a.c = i
    BY <2>1, <1>3, DoIs DEF Ops
  <2>3. Followers(Token(a)) \subseteq Followers(<<"call", i>>) /\ Token(a) \notin Pending /\ Then(t, steps)
    <3>1. Followers(<<"exchange", i>>) = {<<"delete", i>>}
      BY FollowersAre
    <3>2. Then(t, steps)
      BY <1>2, <1>14, <2>1 DEF Callback
    <3> QED BY <3>1, <3>2, <2>2, <1>5, <1>6
  <2>4. /\ stack' \in [Parties -> Seq(StepType)] /\ Unique' /\ Ordered'
        /\ Pending' = (Pending \ {<<"call", i>>}) \cup {Token(a)}
        /\ Tokens(stack["main"]) \ {<<"call", i>>} \subseteq Tokens(stack'["main"])
        /\ CallOK(a)' /\ UNCHANGED plan /\ CallsOK => CallsOK'
    BY <2>1, <2>2, <2>3, <1>1, <1>3, Stepped1
  <2>5. CallsOK'
    <3>2. CallOK(a)'
      BY <2>2, <1>2 DEF CallOK
    <3> QED BY <3>2, <2>4, <1>1, <1>2
  <2>6. /\ \A op \in {"call", "store", "join", "set", "fail"} : <<op, i>> \notin Pending'
        /\ <<"exchange", i>> \in Pending'
    BY <2>2, <2>4, <1>5
  <2>7. Early(i) /\ Early(i)'
    BY <2>6, <1>3 DEF Early
  <2>8. (\A c \in Contracts : ContractOK(c)') /\ GetOK'
        /\ (\A j \in Inputs \ {i} : Phase(j)' /\ (Early(j)' <=> Early(j)))
    <3>1. \A x : x \in Pending' =>
             x \in Pending \/ \E op \in {"store", "join", "exchange", "set", "fail"} : x = <<op, i>>
      BY <2>2, <2>4
    <3>2. \A x : x \in Pending /\ x # <<"call", i>> => x \in Pending'
      BY <2>4
    <3> QED BY <3>1, <3>2, <2>4, <1>11
  <2>9. Phase(i)'
    BY <2>6, <2>7, <1>7, <1>14 DEF Phase
  <2>10. \A j \in Inputs : Early(j)' <=> Early(j)
    BY <2>7, <2>8
  <2>11. FlagsOK' /\ SetsOK'
    <3>1. \A j \in Inputs : <<"set", j>> \in Pending' <=> <<"set", j>> \in Pending
      BY <2>2, <2>4
    <3> QED BY <3>1, <2>10, <1>1, <1>2, <1>7, FlagsKept, SetsKept
  <2> QED BY <2>4, <2>5, <2>8, <2>9, <2>11, <1>1, <1>8, <1>9 DEF CombineInd
<1>15. combinator \in {"Both", "First", "FirstOk", "BothOk"} /\ input[i].ok \in BOOLEAN
  BY <1>1, <1>2 DEF CombineTypeOK, Value, PlanOK
<1> QED BY <1>12, <1>13, <1>14, <1>15

\* A step of input i's callback that is neither the construction of a callback nor a
\* Set: what it leaves alone.
LEMMA TellKeeps ==
  ASSUME CombineTypeOK, PlanOK, \A c \in Contracts : ContractOK(c), \A j \in Inputs : Phase(j), GetOK,
         NEW i \in Inputs, NEW o \in {"store", "join", "exchange", "fail"},
         UNCHANGED <<plan, contracts, sets, received, event>>,
         \A x : x \in Pending' => x \in Pending \/ x = <<"set", i>>,
         \A x : x \in Pending /\ x # <<o, i>> => x \in Pending',
         <<o, i>> \notin Pending',
         \A j \in Inputs \ {i} : stored'[j] = stored[j],
         Tokens(stack["main"]) \ {<<o, i>>} \subseteq Tokens(stack'["main"])
  PROVE  /\ \A c \in Contracts : ContractOK(c)'
         /\ GetOK' /\ PlanOK'
         /\ \A j \in Inputs \ {i} : Phase(j)' /\ (Early(j)' <=> Early(j))
<1>1. UNCHANGED <<combinator, terminator, input, state_>>
  BY DEF plan, contracts
<1>2. i \in Contracts /\ i # "out"
  BY DEF Inputs, Contracts
<1>3. \A c \in Contracts : \A op \in {"result", "produce", "callback", "consume", "delete"} :
        <<op, c>> \in Pending' <=> <<op, c>> \in Pending
  OBVIOUS
<1>4. \A c \in Contracts : ContractOK(c)'
  BY <1>3, ContractsKept
<1>5. \A c : Met(c)' <=> Met(c)
  BY <1>1 DEF Met
<1>6. \A op : <<op, "out">> \in Pending' <=> <<op, "out">> \in Pending
  BY <1>2
<1>7. GetOK'
  BY <1>2, <1>5, <1>6, GetKept
<1>8. ASSUME NEW j \in Inputs \ {i} PROVE Phase(j)' /\ (Early(j)' <=> Early(j))
  <2>1. \A op : <<op, j>> \in Pending' <=> <<op, j>> \in Pending
    OBVIOUS
  <2>2. Early(j)' <=> Early(j)
    BY <2>1, <1>5 DEF Early
  <2> QED BY <2>1, <2>2, PhaseKept
<1> QED BY <1>4, <1>7, <1>8, PlanKept

\* Both and BothOk store the value of the input.
LEMMA StoreKeeps ==
  ASSUME CombineInd, NEW t \in Parties, Store(t)
  PROVE  CombineInd'
<1>i. PICK i : i = ArgOf(t)
  OBVIOUS
<1>1. /\ CombineTypeOK /\ PlanOK /\ Unique /\ Ordered /\ CallsOK /\ stack \in [Parties -> Seq(StepType)]
      /\ (\A d \in Contracts : ContractOK(d)) /\ (\A j \in Inputs : Phase(j))
      /\ FlagsOK /\ SetsOK /\ GetOK
  BY TypeIs DEF CombineInd
<1>2. /\ Step(t, "store") /\ Then(t, << >>) /\ stored' = [stored EXCEPT ![i] = result_[i]]
      /\ UNCHANGED <<plan, contracts, flags, sets, received, event>>
  BY <1>i DEF Store
<1>3. /\ stack[t] # << >> /\ i \in Contracts /\ i \in Inputs
      /\ Token(Head(stack[t])) = <<"store", i>> /\ <<"store", i>> \in Pending
  BY <1>1, <1>2, <1>i, First DEF CallOK
<1>4. Met(i) /\ result_[i] = {input[i]}
  <2>1. state_[i] \subseteq {"Producer", "Consumer"} /\ i # "out"
    BY <1>1, <1>3 DEF CombineTypeOK, Inputs
  <2> QED BY <2>1, <1>1, <1>3, Called
<1>5. /\ stack' \in [Parties -> Seq(StepType)] /\ Unique' /\ Ordered'
      /\ Pending' = Pending \ {<<"store", i>>}
      /\ Tokens(stack["main"]) \ {<<"store", i>>} \subseteq Tokens(stack'["main"])
      /\ CallsOK'
  BY <1>1, <1>2, <1>3, Stepped0
<1>6. stored' \in [Inputs -> SUBSET Value] /\ stored'[i] = {input[i]}
      /\ \A j \in Inputs \ {i} : stored'[j] = stored[j]
  <2>1. result_[i] \in SUBSET Value
    BY <1>1, <1>3 DEF CombineTypeOK
  <2> QED BY <2>1, <1>1, <1>2, <1>3, <1>4 DEF CombineTypeOK
<1>7. CombineTypeOK'
  BY <1>1, <1>2, <1>5, <1>6, TypeKept DEF CombineTypeOK, contracts, plan, Flags
<1>8. <<"join", i>> \in Pending /\ <<"call", i>> \notin Pending
  <2>1. <<"join", i>> \in Followers(<<"store", i>>)
    BY FollowersAre
  <2>2. <<"join", i>> \in Pending
    BY <2>1, <1>1, <1>3, Follow
  <2> QED BY <2>2, <1>1, <1>3 DEF Phase
<1>9. /\ \A c \in Contracts : ContractOK(c)'
      /\ GetOK' /\ PlanOK'
      /\ \A j \in Inputs \ {i} : Phase(j)' /\ (Early(j)' <=> Early(j))
  <2>1. \A x : x \in Pending' => x \in Pending \/ x = <<"set", i>>
    BY <1>5
  <2>2. \A x : x \in Pending /\ x # <<"store", i>> => x \in Pending'
    BY <1>5
  <2>3. <<"store", i>> \notin Pending'
    BY <1>5
  <2> QED BY <2>1, <2>2, <2>3, <1>1, <1>2, <1>3, <1>5, <1>6, TellKeeps
<1>10. Early(i) /\ Early(i)'
  BY <1>5, <1>8 DEF Early
<1>11. Phase(i)'
  <2>1. \A op : op # "store" => (<<op, i>> \in Pending' <=> <<op, i>> \in Pending)
    BY <1>5
  <2>2. UNCHANGED <<combinator, input>>
    BY <1>2 DEF plan
  <2> QED BY <2>1, <2>2, <1>1, <1>3, <1>6, <1>10 DEF Phase
<1>12. \A j \in Inputs : Early(j)' <=> Early(j)
  BY <1>9, <1>10
<1>13. FlagsOK' /\ SetsOK'
  <2>1. \A j \in Inputs : <<"set", j>> \in Pending' <=> <<"set", j>> \in Pending
    BY <1>5
  <2> QED BY <2>1, <1>1, <1>2, <1>12, FlagsKept, SetsKept
<1> QED BY <1>3, <1>5, <1>7, <1>9, <1>11, <1>13 DEF CombineInd

\* BothOk marks the state, after it has reported the error.
LEMMA FailKeeps ==
  ASSUME CombineInd, NEW t \in Parties, Fail(t)
  PROVE  CombineInd'
<1>i. PICK i : i = ArgOf(t)
  OBVIOUS
<1>1. /\ CombineTypeOK /\ PlanOK /\ Unique /\ Ordered /\ CallsOK /\ stack \in [Parties -> Seq(StepType)]
      /\ (\A d \in Contracts : ContractOK(d)) /\ (\A j \in Inputs : Phase(j))
      /\ FlagsOK /\ SetsOK /\ GetOK
  BY TypeIs DEF CombineInd
<1>2. /\ Step(t, "fail") /\ Then(t, << >>) /\ flags' = flags \cup {"Fail"}
      /\ UNCHANGED <<plan, contracts, stored, sets, received, event>>
  BY <1>i DEF Fail
<1>3. /\ stack[t] # << >> /\ i \in Contracts /\ i \in Inputs
      /\ Token(Head(stack[t])) = <<"fail", i>> /\ <<"fail", i>> \in Pending
  BY <1>1, <1>2, <1>i, First DEF CallOK
<1>4. combinator = "BothOk" /\ ~input[i].ok /\ ~Early(i)
  BY <1>1, <1>3 DEF Phase
<1>5. /\ stack' \in [Parties -> Seq(StepType)] /\ Unique' /\ Ordered'
      /\ Pending' = Pending \ {<<"fail", i>>}
      /\ Tokens(stack["main"]) \ {<<"fail", i>>} \subseteq Tokens(stack'["main"])
      /\ CallsOK'
  BY <1>1, <1>2, <1>3, Stepped0
<1>6. UNCHANGED <<combinator, input, state_>>
  BY <1>2 DEF plan, contracts
<1>7. CombineTypeOK'
  <2>1. flags' \in Flags
    BY <1>1, <1>2, <1>4 DEF CombineTypeOK, Flags
  <2> QED BY <2>1, <1>1, <1>2, <1>5, TypeKept DEF CombineTypeOK, contracts
<1>8. /\ \A c \in Contracts : ContractOK(c)'
      /\ GetOK' /\ PlanOK'
      /\ \A j \in Inputs \ {i} : Phase(j)' /\ (Early(j)' <=> Early(j))
  <2>1. \A x : x \in Pending' => x \in Pending \/ x = <<"set", i>>
    BY <1>5
  <2>2. \A x : x \in Pending /\ x # <<"fail", i>> => x \in Pending'
    BY <1>5
  <2>3. <<"fail", i>> \notin Pending'
    BY <1>5
  <2> QED BY <2>1, <2>2, <2>3, <1>1, <1>2, <1>3, <1>5, TellKeeps
<1>9. \A op : op # "fail" => (<<op, i>> \in Pending' <=> <<op, i>> \in Pending)
  BY <1>5
<1>10. Early(i)' <=> Early(i)
  BY <1>6, <1>9 DEF Early, Met
<1>11. Phase(i)'
  BY <1>2, <1>4, <1>6, <1>9, <1>10, <1>1, <1>3 DEF Phase
<1>12. \A j \in Inputs : Early(j)' <=> Early(j)
  BY <1>8, <1>10
<1>13. FlagsOK'
  <2>1. flags' \ {"Fail"} = flags \ {"Fail"}
    BY <1>2
  <2>2. {j \in Inputs : ~Early(j)' /\ input'[j].ok} = {j \in Inputs : ~Early(j) /\ input[j].ok}
    BY <1>6, <1>12
  <2> QED BY <2>1, <2>2, <1>1, <1>3, <1>4, <1>6 DEF FlagsOK
<1>14. SetsOK'
  <2>1. \A j \in Inputs : <<"set", j>> \in Pending' <=> <<"set", j>> \in Pending
    BY <1>5
  <2> QED BY <2>1, <1>1, <1>2, <1>12, SetsKept
<1> QED BY <1>3, <1>5, <1>7, <1>8, <1>11, <1>13, <1>14 DEF CombineInd

\* What Join hands to Set.
LEMMA BothArePromised ==
  ASSUME CombineTypeOK, NEW i \in Inputs, NEW j \in Inputs, i # j,
         combinator = "Both" \/ (combinator = "BothOk" /\ input[i].ok /\ input[j].ok)
  PROVE  {input[i]} \cup {input[j]} \in Promised
<1>1. Inputs = {i, j}
  BY DEF Inputs
<1>2. Range(input) = {input[i], input[j]}
  BY <1>1 DEF CombineTypeOK, Range
<1>3. CASE combinator = "Both"
  <2>1. Promised = {Range(input)}
    BY <1>3 DEF Promised
  <2> QED BY <2>1, <1>2
<1>4. CASE combinator = "BothOk" /\ input[i].ok /\ input[j].ok
  <2> DEFINE good == {v \in Range(input) : v.ok}
             bad == Range(input) \ good
  <2>1. good = Range(input) /\ bad = {}
    BY <1>2, <1>4
  <2>2. Promised = {good}
    BY <2>1, <1>4 DEF Promised
  <2> QED BY <2>1, <2>2, <1>2
<1> QED BY <1>3, <1>4

\* The fetch_or of Both and BothOk: the last to come sets the pair.
LEMMA JoinKeeps ==
  ASSUME CombineInd, NEW t \in Parties, Join(t)
  PROVE  CombineInd'
<1>i. PICK i : i = ArgOf(t)
  OBVIOUS
<1>1. /\ CombineTypeOK /\ PlanOK /\ Unique /\ Ordered /\ CallsOK /\ stack \in [Parties -> Seq(StepType)]
      /\ (\A d \in Contracts : ContractOK(d)) /\ (\A j \in Inputs : Phase(j))
      /\ FlagsOK /\ SetsOK /\ GetOK
  BY TypeIs DEF CombineInd
<1>2. /\ Step(t, "join") /\ flags' = flags \cup {i}
      /\ Then(t, IF IsLast(i) THEN <<StepWith("set", i, stored["f1"] \cup stored["f2"])>> ELSE << >>)
      /\ UNCHANGED <<plan, contracts, stored, sets, received, event>>
  BY <1>i DEF Join
<1>3. /\ stack[t] # << >> /\ i \in Contracts /\ i \in Inputs
      /\ Token(Head(stack[t])) = <<"join", i>> /\ <<"join", i>> \in Pending
  BY <1>1, <1>2, <1>i, First DEF CallOK
<1>j. PICK j : j \in Inputs /\ j # i /\ Inputs = {i, j}
  BY <1>3 DEF Inputs
<1>4. combinator = "Both" \/ (combinator = "BothOk" /\ input[i].ok)
  BY <1>1, <1>3 DEF Phase
<1>5. <<"store", i>> \notin Pending
  <2>1. <<"join", i>> \in Followers(<<"store", i>>)
    BY FollowersAre
  <2> QED BY <2>1, <1>1, <1>3, Prepared
<1>6. /\ Met(i) /\ Early(i) /\ stored[i] = {input[i]}
      /\ \A op \in {"call", "exchange", "set", "fail"} : <<op, i>> \notin Pending
  <2>1. state_[i] \subseteq {"Producer", "Consumer"} /\ i # "out"
    BY <1>1, <1>3 DEF CombineTypeOK, Inputs
  <2>2. Met(i)
    BY <2>1, <1>1, <1>3, Called
  <2>3. Early(i)
    BY <1>3 DEF Early
  <2> QED BY <2>2, <2>3, <1>1, <1>3, <1>4, <1>5 DEF Phase
<1>7. UNCHANGED <<combinator, terminator, input, state_, stored, sets>>
  BY <1>2 DEF plan, contracts
<1>8. i # "Fail" /\ j # "Fail"
  BY <1>3, <1>j DEF Inputs
\* Who has told the combinator before.
<1>9. /\ i \notin flags
      /\ j \in flags => ~Early(j) /\ stored[j] = {input[j]} /\ (combinator = "BothOk" => input[j].ok)
      /\ j \notin flags => Early(j) \/ (combinator = "BothOk" /\ ~input[j].ok)
      /\ flags \subseteq {i, j, "Fail"}
      /\ "Fail" \in flags => combinator = "BothOk" /\ (~input[i].ok \/ ~input[j].ok)
  <2>1. CASE combinator = "Both"
    <3>1. flags = {k \in Inputs : ~Early(k)}
      BY <2>1, <1>1 DEF FlagsOK
    <3>2. j \in flags => stored[j] = {input[j]}
      BY <3>1, <2>1, <1>1, <1>j DEF Phase
    <3> QED BY <3>1, <3>2, <2>1, <1>6, <1>j, <1>8
  <2>2. CASE combinator = "BothOk"
    <3>1. /\ flags \ {"Fail"} = {k \in Inputs : ~Early(k) /\ input[k].ok}
          /\ "Fail" \in flags => \E k \in Inputs : ~input[k].ok
      BY <2>2, <1>1 DEF FlagsOK
    <3>2. j \in flags => ~Early(j) /\ input[j].ok
      BY <3>1, <1>8
    <3>3. j \in flags => stored[j] = {input[j]}
      BY <3>2, <2>2, <1>1, <1>j DEF Phase
    <3> QED BY <3>1, <3>2, <3>3, <2>2, <1>6, <1>j, <1>8
  <2> QED BY <2>1, <2>2, <1>4
<1>10. IsLast(i) <=> j \in flags
  <2>1. flags = {j} => j \in flags
    OBVIOUS
  <2>2. ASSUME j \in flags PROVE flags = {j}
    BY <2>2, <1>9, <1>4
  <2>3. Inputs \ {i} = {j}
    BY <1>j
  <2> QED BY <2>1, <2>2, <2>3 DEF IsLast
<1>11. CombineTypeOK /\ stack' \in [Parties -> Seq(StepType)] => CombineTypeOK'
  <2>1. CombineTypeOK => flags' \in Flags
    BY <1>2, <1>4, <1>3 DEF CombineTypeOK, Flags
  <2> QED BY <2>1, <1>2, TypeKept DEF CombineTypeOK, contracts
\* The rest, from what is pending.
<1>12. ASSUME \A x : x \in Pending' => x \in Pending \/ x = <<"set", i>>,
              \A x : x \in Pending /\ x # <<"join", i>> => x \in Pending',
              <<"join", i>> \notin Pending',
              Tokens(stack["main"]) \ {<<"join", i>>} \subseteq Tokens(stack'["main"])
       PROVE  /\ \A c \in Contracts : ContractOK(c)'
              /\ GetOK' /\ PlanOK' /\ (\A k \in Inputs : Phase(k)') /\ FlagsOK'
              /\ ~Early(i)' /\ (Early(j)' <=> Early(j))
  <2>1. /\ \A c \in Contracts : ContractOK(c)'
        /\ GetOK' /\ PlanOK'
        /\ \A k \in Inputs \ {i} : Phase(k)' /\ (Early(k)' <=> Early(k))
    BY <1>12, <1>1, <1>2, <1>3, <1>7, TellKeeps
  <2>2. \A op \in {"call", "store", "join", "exchange"} : <<op, i>> \notin Pending'
    BY <1>12, <1>5, <1>6
  <2>3. ~Early(i)'
    BY <2>2, <1>6, <1>7 DEF Early, Met
  <2>4. Phase(i)'
    <3>1. <<"fail", i>> \notin Pending'
      BY <1>12, <1>6
    <3> QED BY <3>1, <2>2, <2>3, <1>6, <1>7 DEF Phase
  <2>5. \A k \in Inputs : Phase(k)'
    BY <2>1, <2>4
  <2>6. Early(j)' <=> Early(j)
    BY <2>1, <1>j
  <2>7. FlagsOK'
    <3>1. CASE combinator = "Both"
      <4>1. flags = {k \in Inputs : ~Early(k)}
        BY <3>1, <1>1 DEF FlagsOK
      <4>2. flags' = {k \in Inputs : ~Early(k)'}
        BY <4>1, <2>3, <2>6, <1>2, <1>j
      <4> QED BY <4>2, <3>1, <1>7 DEF FlagsOK
    <3>2. CASE combinator = "BothOk"
      <4>1. /\ flags \ {"Fail"} = {k \in Inputs : ~Early(k) /\ input[k].ok}
            /\ "Fail" \in flags => \E k \in Inputs : ~input[k].ok
        BY <3>2, <1>1 DEF FlagsOK
      <4>2. flags' \ {"Fail"} = {k \in Inputs : ~Early(k)' /\ input'[k].ok}
        BY <4>1, <3>2, <2>3, <2>6, <1>2, <1>4, <1>7, <1>8, <1>j
      <4>3. "Fail" \in flags' => \E k \in Inputs : ~input'[k].ok
        BY <4>1, <1>2, <1>7, <1>8
      <4> QED BY <4>2, <4>3, <3>2, <1>7 DEF FlagsOK
    <3> QED BY <3>1, <3>2, <1>4
  <2> QED BY <2>1, <2>3, <2>5, <2>6, <2>7
<1>13. Decided <=> combinator = "BothOk" /\ ~Early(j) /\ ~input[j].ok
  BY <1>4, <1>6, <1>j DEF Decided
<1>14. ~Early(i)' /\ (Early(j)' <=> Early(j)) => (Decided' <=> ~Early(j))
  BY <1>4, <1>7, <1>j DEF Decided
<1>15. CASE IsLast(i)
  <2>1. PICK v, a, steps :
          v = stored["f1"] \cup stored["f2"] /\ a = StepWith("set", i, v) /\ steps = <<a>>
    OBVIOUS
  <2>2. v \in Promised /\ v \in SUBSET Value
    <3>1. stored["f1"] \cup stored["f2"] = stored[i] \cup stored[j]
      BY <1>3, <1>j DEF Inputs
    <3>2. v = {input[i]} \cup {input[j]}
      BY <3>1, <2>1, <1>6, <1>9, <1>10, <1>15
    <3>3. v \in Promised
      BY <3>2, <1>1, <1>3, <1>4, <1>9, <1>10, <1>15, <1>j, BothArePromised
    <3> QED BY <3>3, <1>1, PromisedIs
  <2>3. a \in StepType /\ Token(a) = <<"set", i>> /\ a.op = "set" /\ a.c = i /\ a.value = v
    BY <2>1, <2>2, <1>3, DoIs DEF Ops
  <2>4. Followers(Token(a)) \subseteq Followers(<<"join", i>>) /\ Token(a) \notin Pending /\ Then(t, steps)
    <3>1. Followers(<<"set", i>>) = {<<"delete", i>>} /\ Followers(<<"join", i>>) = {<<"delete", i>>}
      BY FollowersAre
    <3>2. Then(t, steps)
      BY <1>2, <1>15, <2>1
    <3> QED BY <3>1, <3>2, <2>3, <1>6
  <2>5. /\ stack' \in [Parties -> Seq(StepType)] /\ Unique' /\ Ordered'
        /\ Pending' = (Pending \ {<<"join", i>>}) \cup {Token(a)}
        /\ Tokens(stack["main"]) \ {<<"join", i>>} \subseteq Tokens(stack'["main"])
        /\ CallOK(a)' /\ UNCHANGED plan /\ CallsOK => CallsOK'
    BY <2>1, <2>3, <2>4, <1>1, <1>3, Stepped1
  <2>6. CallsOK'
    <3>1. UNCHANGED Promised
      BY <1>7 DEF Promised
    <3>2. CallOK(a)'
      BY <3>1, <2>2, <2>3, <1>3 DEF CallOK
    <3> QED BY <3>2, <2>5, <1>1, <1>2
  <2>7. /\ \A c \in Contracts : ContractOK(c)'
        /\ GetOK' /\ PlanOK' /\ (\A k \in Inputs : Phase(k)') /\ FlagsOK'
        /\ ~Early(i)' /\ (Early(j)' <=> Early(j))
    <3>1. \A x : x \in Pending' => x \in Pending \/ x = <<"set", i>>
      BY <2>3, <2>5
    <3>2. \A x : x \in Pending /\ x # <<"join", i>> => x \in Pending'
      BY <2>5
    <3>3. <<"join", i>> \notin Pending'
      BY <2>3, <2>5
    <3> QED BY <3>1, <3>2, <3>3, <2>5, <1>12
  <2>8. SetsOK'
    <3>1. ~Decided /\ Decided'
      BY <2>7, <1>9, <1>10, <1>13, <1>14, <1>15
    <3>2. <<"set", i>> \in Pending'
      BY <2>3, <2>5
    <3>3. \A k \in Inputs \ {i} : <<"set", k>> \in Pending' <=> <<"set", k>> \in Pending
      BY <2>3, <2>5
    <3> QED BY <3>1, <3>2, <3>3, <1>1, <1>3, <1>7, FirstSet
  <2> QED BY <2>5, <2>6, <2>7, <2>8, <1>1, <1>11 DEF CombineInd
<1>16. CASE ~IsLast(i)
  <2>1. /\ stack' \in [Parties -> Seq(StepType)] /\ Unique' /\ Ordered'
        /\ Pending' = Pending \ {<<"join", i>>}
        /\ Tokens(stack["main"]) \ {<<"join", i>>} \subseteq Tokens(stack'["main"])
        /\ CallsOK'
    <3>1. Then(t, << >>)
      BY <1>2, <1>16
    <3> QED BY <3>1, <1>1, <1>2, <1>3, Stepped0
  <2>2. /\ \A c \in Contracts : ContractOK(c)'
        /\ GetOK' /\ PlanOK' /\ (\A k \in Inputs : Phase(k)') /\ FlagsOK'
        /\ ~Early(i)' /\ (Early(j)' <=> Early(j))
    <3>1. \A x : x \in Pending' => x \in Pending \/ x = <<"set", i>>
      BY <2>1
    <3>2. \A x : x \in Pending /\ x # <<"join", i>> => x \in Pending'
      BY <2>1
    <3>3. <<"join", i>> \notin Pending'
      BY <2>1
    <3> QED BY <3>1, <3>2, <3>3, <2>1, <1>12
  <2>3. SetsOK'
    <3>1. Decided' <=> Decided
      BY <2>2, <1>9, <1>10, <1>13, <1>14, <1>16
    <3>2. Setters' = Setters
      BY <2>1 DEF Setters
    <3> QED BY <3>1, <3>2, <1>1, <1>7 DEF SetsOK
  <2> QED BY <2>1, <2>2, <2>3, <1>1, <1>11 DEF CombineInd
<1> QED BY <1>15, <1>16

\* The exchange of First and FirstOk: the one that wins sets its value.
LEMMA ExchangeKeeps ==
  ASSUME CombineInd, NEW t \in Parties, Exchange(t)
  PROVE  CombineInd'
<1>i. PICK i : i = ArgOf(t)
  OBVIOUS
<1>1. /\ CombineTypeOK /\ PlanOK /\ Unique /\ Ordered /\ CallsOK /\ stack \in [Parties -> Seq(StepType)]
      /\ (\A d \in Contracts : ContractOK(d)) /\ (\A j \in Inputs : Phase(j))
      /\ FlagsOK /\ SetsOK /\ GetOK
  BY TypeIs DEF CombineInd
<1>2. /\ Step(t, "exchange") /\ flags' = Exchanged(i)
      /\ Then(t, IF Wins(i) THEN <<StepWith("set", i, result_[i])>> ELSE << >>)
      /\ UNCHANGED <<plan, contracts, stored, sets, received, event>>
  BY <1>i DEF Exchange
<1>3. /\ stack[t] # << >> /\ i \in Contracts /\ i \in Inputs
      /\ Token(Head(stack[t])) = <<"exchange", i>> /\ <<"exchange", i>> \in Pending
  BY <1>1, <1>2, <1>i, First DEF CallOK
<1>j. PICK j : j \in Inputs /\ j # i /\ Inputs = {i, j}
  BY <1>3 DEF Inputs
<1>4. combinator = "First" \/ combinator = "FirstOk"
  BY <1>1, <1>3 DEF Phase
<1>5. <<"join", i>> \notin Pending /\ <<"store", i>> \notin Pending
  <2>1. <<"join", i>> \notin Pending
    BY <1>1, <1>3, <1>4 DEF Phase
  <2>2. <<"join", i>> \in Followers(<<"store", i>>)
    BY FollowersAre
  <2> QED BY <2>1, <2>2, <1>1, Follow
<1>6. /\ Met(i) /\ Early(i) /\ result_[i] = {input[i]}
      /\ \A op \in {"call", "store", "join", "set", "fail"} : <<op, i>> \notin Pending
  <2>1. state_[i] \subseteq {"Producer", "Consumer"} /\ i # "out"
    BY <1>1, <1>3 DEF CombineTypeOK, Inputs
  <2>2. Met(i) /\ result_[i] = {input[i]}
    BY <2>1, <1>1, <1>3, Called
  <2>3. Early(i)
    BY <1>3 DEF Early
  <2> QED BY <2>2, <2>3, <1>1, <1>3, <1>5 DEF Phase
<1>7. UNCHANGED <<combinator, terminator, input, state_, stored, sets>>
  BY <1>2 DEF plan, contracts
\* Who has told the combinator before.
<1>8. /\ Early(j) => flags = {}
      /\ ~Early(j) => flags = Exchanged(j)
  BY <1>1, <1>4, <1>6, <1>j DEF FlagsOK, Exchanged
<1>9. Decided <=> IF combinator = "First" THEN ~Early(j) ELSE ~Early(j) /\ input[j].ok
  BY <1>4, <1>6, <1>j DEF Decided
<1>10. ~Early(i)' /\ (Early(j)' <=> Early(j)) =>
         (Decided' <=> combinator = "First" \/ ~Early(j) \/ input[i].ok)
  BY <1>4, <1>7, <1>j DEF Decided
<1>11. /\ Wins(i) <=> ~Decided /\ (combinator = "First" \/ ~Early(j) \/ input[i].ok)
       /\ Decided => combinator = "First" \/ ~Early(j) \/ input[i].ok
  BY <1>4, <1>8, <1>9 DEF Wins, Exchanged
<1>12. Wins(i) => {input[i]} \in Promised
  <2>1. Wins(i) => combinator = "First" \/ input[i].ok \/ \A k \in Inputs : ~input[k].ok
    BY <1>4, <1>9, <1>11, <1>j
  <2> QED BY <2>1, <1>1, <1>3, <1>4, OneIsPromised
<1>13. CombineTypeOK /\ stack' \in [Parties -> Seq(StepType)] => CombineTypeOK'
  <2>1. CombineTypeOK => flags' \in Flags
    BY <1>2, <1>4 DEF CombineTypeOK, Flags, Exchanged
  <2> QED BY <2>1, <1>2, TypeKept DEF CombineTypeOK, contracts
\* The rest, from what is pending.
<1>14. ASSUME \A x : x \in Pending' => x \in Pending \/ x = <<"set", i>>,
              \A x : x \in Pending /\ x # <<"exchange", i>> => x \in Pending',
              <<"exchange", i>> \notin Pending',
              Tokens(stack["main"]) \ {<<"exchange", i>>} \subseteq Tokens(stack'["main"])
       PROVE  /\ \A c \in Contracts : ContractOK(c)'
              /\ GetOK' /\ PlanOK' /\ (\A k \in Inputs : Phase(k)') /\ FlagsOK'
              /\ ~Early(i)' /\ (Early(j)' <=> Early(j))
  <2>1. /\ \A c \in Contracts : ContractOK(c)'
        /\ GetOK' /\ PlanOK'
        /\ \A k \in Inputs \ {i} : Phase(k)' /\ (Early(k)' <=> Early(k))
    BY <1>14, <1>1, <1>2, <1>3, <1>7, TellKeeps
  <2>2. \A op \in {"call", "store", "join", "exchange"} : <<op, i>> \notin Pending'
    BY <1>14, <1>6
  <2>3. ~Early(i)'
    BY <2>2, <1>6, <1>7 DEF Early, Met
  <2>4. Phase(i)'
    <3>1. <<"fail", i>> \notin Pending'
      BY <1>14, <1>6
    <3> QED BY <3>1, <2>2, <2>3, <1>4, <1>7 DEF Phase
  <2>5. \A k \in Inputs : Phase(k)'
    BY <2>1, <2>4
  <2>6. Early(j)' <=> Early(j)
    BY <2>1, <1>j
  <2>7. FlagsOK'
    BY <2>3, <1>2, <1>3, <1>4, <1>7, <1>j DEF FlagsOK, Exchanged
  <2> QED BY <2>1, <2>3, <2>5, <2>6, <2>7
<1>15. CASE Wins(i)
  <2>1. PICK a, steps : a = StepWith("set", i, result_[i]) /\ steps = <<a>>
    OBVIOUS
  <2>2. a \in StepType /\ Token(a) = <<"set", i>> /\ a.op = "set" /\ a.c = i /\ a.value = {input[i]}
    <3>1. result_[i] \in SUBSET Value
      BY <1>1, <1>3 DEF CombineTypeOK
    <3> QED BY <2>1, <3>1, <1>3, <1>6, DoIs DEF Ops
  <2>3. Followers(Token(a)) \subseteq Followers(<<"exchange", i>>) /\ Token(a) \notin Pending /\ Then(t, steps)
    <3>1. Followers(<<"set", i>>) = {<<"delete", i>>} /\ Followers(<<"exchange", i>>) = {<<"delete", i>>}
      BY FollowersAre
    <3>2. Then(t, steps)
      BY <1>2, <1>15, <2>1
    <3> QED BY <3>1, <3>2, <2>2, <1>6
  <2>4. /\ stack' \in [Parties -> Seq(StepType)] /\ Unique' /\ Ordered'
        /\ Pending' = (Pending \ {<<"exchange", i>>}) \cup {Token(a)}
        /\ Tokens(stack["main"]) \ {<<"exchange", i>>} \subseteq Tokens(stack'["main"])
        /\ CallOK(a)' /\ UNCHANGED plan /\ CallsOK => CallsOK'
    BY <2>1, <2>2, <2>3, <1>1, <1>3, Stepped1
  <2>5. CallsOK'
    <3>1. UNCHANGED Promised
      BY <1>7 DEF Promised
    <3>2. CallOK(a)'
      BY <3>1, <2>2, <1>3, <1>12, <1>15 DEF CallOK
    <3> QED BY <3>2, <2>4, <1>1, <1>2
  <2>6. /\ \A c \in Contracts : ContractOK(c)'
        /\ GetOK' /\ PlanOK' /\ (\A k \in Inputs : Phase(k)') /\ FlagsOK'
        /\ ~Early(i)' /\ (Early(j)' <=> Early(j))
    <3>1. \A x : x \in Pending' => x \in Pending \/ x = <<"set", i>>
      BY <2>2, <2>4
    <3>2. \A x : x \in Pending /\ x # <<"exchange", i>> => x \in Pending'
      BY <2>4
    <3>3. <<"exchange", i>> \notin Pending'
      BY <2>2, <2>4
    <3> QED BY <3>1, <3>2, <3>3, <2>4, <1>14
  <2>7. SetsOK'
    <3>1. ~Decided /\ Decided'
      BY <2>6, <1>10, <1>11, <1>15
    <3>2. <<"set", i>> \in Pending'
      BY <2>2, <2>4
    <3>3. \A k \in Inputs \ {i} : <<"set", k>> \in Pending' <=> <<"set", k>> \in Pending
      BY <2>2, <2>4
    <3> QED BY <3>1, <3>2, <3>3, <1>1, <1>3, <1>7, FirstSet
  <2> QED BY <2>4, <2>5, <2>6, <2>7, <1>1, <1>13 DEF CombineInd
<1>16. CASE ~Wins(i)
  <2>1. /\ stack' \in [Parties -> Seq(StepType)] /\ Unique' /\ Ordered'
        /\ Pending' = Pending \ {<<"exchange", i>>}
        /\ Tokens(stack["main"]) \ {<<"exchange", i>>} \subseteq Tokens(stack'["main"])
        /\ CallsOK'
    <3>1. Then(t, << >>)
      BY <1>2, <1>16
    <3> QED BY <3>1, <1>1, <1>2, <1>3, Stepped0
  <2>2. /\ \A c \in Contracts : ContractOK(c)'
        /\ GetOK' /\ PlanOK' /\ (\A k \in Inputs : Phase(k)') /\ FlagsOK'
        /\ ~Early(i)' /\ (Early(j)' <=> Early(j))
    <3>1. \A x : x \in Pending' => x \in Pending \/ x = <<"set", i>>
      BY <2>1
    <3>2. \A x : x \in Pending /\ x # <<"exchange", i>> => x \in Pending'
      BY <2>1
    <3>3. <<"exchange", i>> \notin Pending'
      BY <2>1
    <3> QED BY <3>1, <3>2, <3>3, <2>1, <1>14
  <2>3. SetsOK'
    <3>1. Decided' <=> Decided
      BY <2>2, <1>10, <1>11, <1>16
    <3>2. Setters' = Setters
      BY <2>1 DEF Setters
    <3> QED BY <3>1, <3>2, <1>1, <1>7 DEF SetsOK
  <2> QED BY <2>1, <2>2, <2>3, <1>1, <1>13 DEF CombineInd
<1> QED BY <1>15, <1>16

\* Promise::Set, which produces in the contract of "out".
LEMMA SetOutKeeps ==
  ASSUME CombineInd, NEW t \in Parties, SetOut(t)
  PROVE  CombineInd'
<1>i. PICK i, v : i = ArgOf(t) /\ v = Head(stack[t]).value
  OBVIOUS
<1>1. /\ CombineTypeOK /\ PlanOK /\ Unique /\ Ordered /\ CallsOK /\ stack \in [Parties -> Seq(StepType)]
      /\ (\A d \in Contracts : ContractOK(d)) /\ (\A j \in Inputs : Phase(j))
      /\ FlagsOK /\ SetsOK /\ GetOK
  BY TypeIs DEF CombineInd
<1>2. /\ Step(t, "set") /\ sets' = sets + 1
      /\ Then(t, IF sets = 0 THEN ProduceSteps("out", v) ELSE << >>)
      /\ UNCHANGED <<plan, contracts, flags, stored, received, event>>
  BY <1>i DEF SetOut
<1>3. /\ stack[t] # << >> /\ i \in Contracts /\ i \in Inputs /\ v \in Promised /\ v \in SUBSET Value
      /\ Token(Head(stack[t])) = <<"set", i>> /\ <<"set", i>> \in Pending
  BY <1>1, <1>2, <1>i, First DEF CallOK
<1>4. UNCHANGED <<combinator, terminator, input, state_, result_, callback_, deleted, Promised>>
  BY <1>2 DEF plan, contracts, Promised
\* It is the first call of Set, and the last.
<1>5. Decided /\ sets = 0 /\ Setters = {i} /\ sets' = 1
  <2>1. i \in Setters
    BY <1>3 DEF Setters
  <2> QED BY <2>1, <1>1, <1>2 DEF SetsOK
<1>6. <<"produce", "out">> \notin Pending /\ <<"result", "out">> \notin Pending
  <2>1. ~Supplied("out")
    BY <1>5 DEF Supplied, Inputs
  <2>2. <<"produce", "out">> \notin Pending
    BY <2>1, <1>1 DEF ContractOK, Contracts
  <2>3. <<"produce", "out">> \in Followers(<<"result", "out">>)
    BY FollowersAre
  <2> QED BY <2>2, <2>3, <1>1, Follow
<1>7. PICK a, b, steps : a = StepWith("result", "out", v) /\ b = StepOf("produce", "out") /\ steps = <<a, b>>
  OBVIOUS
<1>8. /\ a \in StepType /\ b \in StepType /\ Token(a) = <<"result", "out">> /\ Token(b) = <<"produce", "out">>
      /\ a.op = "result" /\ a.c = "out" /\ a.value = v /\ b.op = "produce" /\ b.c = "out"
  <2>1. "out" \in Contracts /\ "result" \in Ops /\ "produce" \in Ops
    BY DEF Ops, Contracts
  <2>2. a \in StepType /\ Token(a) = <<"result", "out">> /\ a.op = "result" /\ a.c = "out" /\ a.value = v
    BY <2>1, <1>3, <1>7, DoIs
  <2>3. b \in StepType /\ Token(b) = <<"produce", "out">> /\ b.op = "produce" /\ b.c = "out"
    BY <2>1, <1>7, DoIs
  <2> QED BY <2>2, <2>3
<1>9. Fits2(<<"set", i>>, a, b) /\ Then(t, steps)
  <2>1. Followers(<<"result", "out">>) = {<<"produce", "out">>} /\ Followers(<<"produce", "out">>) = {}
    BY FollowersAre
  <2>2. Then(t, steps)
    BY <1>2, <1>5, <1>7 DEF ProduceSteps
  <2> QED BY <2>1, <2>2, <1>6, <1>8 DEF Fits2
<1>10. /\ stack' \in [Parties -> Seq(StepType)] /\ Unique' /\ Ordered'
       /\ Pending' \subseteq (Pending \ {<<"set", i>>}) \cup {Token(a), Token(b)}
       /\ (Pending \ {<<"set", i>>}) \cup {Token(a), Token(b)} \subseteq Pending'
       /\ Tokens(stack["main"]) \ {<<"set", i>>} \subseteq Tokens(stack'["main"])
       /\ CallOK(a)' /\ CallOK(b)' /\ UNCHANGED plan /\ CallsOK => CallsOK'
  <2>1. steps = <<a, b>>
    BY <1>7
  <2> QED BY <2>1, <1>1, <1>3, <1>9, Stepped2
<1>11. CallsOK'
  <2>1. CallOK(a)' /\ CallOK(b)'
    BY <1>3, <1>4, <1>8 DEF CallOK
  <2> QED BY <2>1, <1>1, <1>2, <1>10
<1>12. CombineTypeOK'
  <2>1. sets' \in Nat
    BY <1>5
  <2> QED BY <2>1, <1>1, <1>2, <1>4, <1>10, TypeKept DEF CombineTypeOK
<1>13. /\ \A x : x \in Pending' => x \in Pending \/ x = <<"result", "out">> \/ x = <<"produce", "out">>
       /\ \A x : x \in Pending /\ x # <<"set", i>> => x \in Pending'
       /\ <<"result", "out">> \in Pending' /\ <<"produce", "out">> \in Pending'
       /\ <<"set", i>> \notin Pending'
  BY <1>8, <1>10
<1>14. ASSUME NEW c \in Contracts PROVE ContractOK(c)'
  <2>1. CASE c # "out"
    <3>1. \A op \in {"result", "produce", "callback", "consume", "delete"} :
            <<op, c>> \in Pending' <=> <<op, c>> \in Pending
      BY <2>1, <1>13
    <3>2. Supplied(c)' <=> Supplied(c)
      BY <2>1 DEF Supplied, Contracts
    <3> QED BY <3>1, <3>2, <1>1, <1>2, <1>4, ContractKept
  <2>2. CASE c = "out"
    <3>1. Supplied("out")' /\ ~Supplied("out") /\ (Met("out")' <=> Met("out"))
      BY <1>4, <1>5 DEF Supplied, Inputs, Met
    <3>2. \A op \in {"callback", "consume", "delete"} :
            <<op, "out">> \in Pending' <=> <<op, "out">> \in Pending
      BY <1>13
    <3>3. ContractOK("out")
      BY <1>1 DEF Contracts
    <3>4. "Producer" \notin state_["out"] /\ result_'["out"] = result_["out"]
      BY <3>1, <3>3, <1>4 DEF ContractOK
    <3> QED BY <2>2, <3>1, <3>2, <3>3, <3>4, <1>4, <1>13 DEF ContractOK
  <2> QED BY <2>1, <2>2
<1>15. \A j \in Inputs : \A op : op \notin {"result", "produce", "set"} =>
          (<<op, j>> \in Pending' <=> <<op, j>> \in Pending)
  BY <1>13
<1>16. \A j \in Inputs : Early(j)' <=> Early(j)
  BY <1>4, <1>15 DEF Early, Met
<1>17. ASSUME NEW j \in Inputs PROVE Phase(j)'
  <2>1. <<"set", j>> \in Pending' => <<"set", j>> \in Pending
    BY <1>13
  <2>2. stored'[j] = stored[j] /\ Phase(j)
    BY <1>1, <1>2
  <2> QED BY <2>1, <2>2, <1>4, <1>15, <1>16 DEF Phase
<1>18. FlagsOK'
  BY <1>1, <1>2, <1>16, FlagsKept
<1>19. SetsOK'
  <2>1. Decided'
    BY <1>4, <1>5, <1>16 DEF Decided
  <2>2. Setters' = {}
    BY <1>5, <1>13 DEF Setters
  <2> QED BY <2>1, <2>2, <1>5 DEF SetsOK
<1>20. GetOK'
  <2>1. \A op \in {"call", "emplace", "fire", "wake", "futex", "asleep"} :
          <<op, "out">> \in Pending' <=> <<op, "out">> \in Pending
    BY <1>3, <1>13
  <2>2. Met("out")' <=> Met("out")
    BY <1>4 DEF Met
  <2>3. <<"wait", "out">> \in Tokens(stack["main"]) => <<"wait", "out">> \in Tokens(stack'["main"])
    BY <1>10
  <2> QED BY <2>1, <2>2, <2>3, <1>1, <1>2, GetKept
<1>21. PlanOK'
  BY <1>1, <1>2, PlanKept
<1> QED BY <1>10, <1>11, <1>12, <1>14, <1>17, <1>18, <1>19, <1>20, <1>21 DEF CombineInd

-----------------------------------------------------------------------------
(* Get and Detach                                                          *)

\* A step of Get, or of the callback of "out": what it leaves alone.
LEMMA OutKeeps ==
  ASSUME PlanOK, \A c \in Contracts : ContractOK(c), \A i \in Inputs : Phase(i), FlagsOK, SetsOK,
         UNCHANGED <<plan, contracts, protected>>,
         \A x : x \in Pending' => x \in Pending
                  \/ \E op \in {"emplace", "fire", "wake", "wait", "futex", "asleep"} : x = <<op, "out">>,
         \A x : x \in Pending => x \in Pending'
                  \/ \E op \in {"call", "emplace", "fire", "wake", "wait", "futex", "asleep"} : x = <<op, "out">>
  PROVE  /\ PlanOK' /\ (\A c \in Contracts : ContractOK(c)') /\ (\A i \in Inputs : Phase(i)')
         /\ FlagsOK' /\ SetsOK'
<1>1. UNCHANGED <<state_, flags, stored, sets>>
  BY DEF contracts, protected
<1>2. \A i \in Inputs : i # "out"
  BY DEF Inputs
<1>3. \A i \in Inputs : \A op : <<op, i>> \in Pending' <=> <<op, i>> \in Pending
  BY <1>2
<1>4. \A c \in Contracts : \A op \in {"result", "produce", "callback", "consume", "delete"} :
        <<op, c>> \in Pending' <=> <<op, c>> \in Pending
  OBVIOUS
<1>5. \A c \in Contracts : ContractOK(c)'
  BY <1>1, <1>4, ContractsKept
<1>6. \A i \in Inputs : Early(i)' <=> Early(i)
  BY <1>1, <1>3 DEF Early, Met
<1>7. (\A i \in Inputs : Phase(i)') /\ FlagsOK' /\ SetsOK'
  BY <1>1, <1>3, <1>6, CombineKept
<1> QED BY <1>5, <1>7, PlanKept

\* The callback of "out" is called.
LEMMA CallOutKeeps ==
  ASSUME CombineInd, NEW t \in Parties, CallOut(t)
  PROVE  CombineInd'
<1>1. /\ CombineTypeOK /\ PlanOK /\ Unique /\ Ordered /\ CallsOK /\ stack \in [Parties -> Seq(StepType)]
      /\ (\A d \in Contracts : ContractOK(d)) /\ (\A j \in Inputs : Phase(j))
      /\ FlagsOK /\ SetsOK /\ GetOK
  BY TypeIs DEF CombineInd
<1>2. /\ Step(t, "call") /\ ArgOf(t) = "out" /\ Then(t, OutCallback)
      /\ UNCHANGED <<plan, contracts, protected, received, event>>
  BY DEF CallOut
<1>3. /\ stack[t] # << >> /\ Token(Head(stack[t])) = <<"call", "out">> /\ <<"call", "out">> \in Pending
  BY <1>1, <1>2, First
<1>4. /\ ~event
      /\ \A op \in {"emplace", "fire", "wake"} : <<op, "out">> \notin Pending
  BY <1>1, <1>3 DEF GetOK
<1>5. UNCHANGED <<combinator, terminator, input, Promised, state_>>
  BY <1>2 DEF plan, contracts, Promised
<1>6. CombineTypeOK /\ stack' \in [Parties -> Seq(StepType)] => CombineTypeOK'
  BY <1>2, TypeKept DEF CombineTypeOK, protected, contracts
<1>7. CASE terminator = "Get"
  <2>1. PICK a, b, d, steps :
          /\ a = StepOf("emplace", "out") /\ b = StepOf("fire", "out") /\ d = StepOf("wake", "out")
          /\ steps = <<a, b, d>>
    OBVIOUS
  <2>2. /\ a \in StepType /\ b \in StepType /\ d \in StepType
        /\ Token(a) = <<"emplace", "out">> /\ Token(b) = <<"fire", "out">> /\ Token(d) = <<"wake", "out">>
        /\ a.op = "emplace" /\ a.c = "out" /\ b.op = "fire" /\ b.c = "out" /\ d.op = "wake" /\ d.c = "out"
    BY <2>1, DoIs DEF Ops, Contracts
  <2>3. Fits3(<<"call", "out">>, a, b, d) /\ Then(t, steps) /\ Token(b) \notin Pending
    <3>1. /\ Followers(<<"emplace", "out">>) = {<<"fire", "out">>, <<"delete", "out">>}
          /\ Followers(<<"fire", "out">>) = {<<"delete", "out">>}
          /\ Followers(<<"wake", "out">>) = {<<"delete", "out">>}
          /\ Followers(<<"call", "out">>) = {<<"delete", "out">>}
      BY FollowersAre
    <3>2. Then(t, steps)
      BY <1>2, <1>7, <2>1 DEF OutCallback
    <3>3. Fits2(<<"call", "out">>, a, b)
      BY <3>1, <2>2, <1>4 DEF Fits2
    <3> QED BY <3>1, <3>2, <3>3, <2>2, <1>4 DEF Fits3
  <2>4. /\ stack' \in [Parties -> Seq(StepType)] /\ Unique' /\ Ordered'
        /\ Pending' \subseteq (Pending \ {<<"call", "out">>}) \cup {Token(a), Token(b), Token(d)}
        /\ (Pending \ {<<"call", "out">>}) \cup {Token(a), Token(b), Token(d)} \subseteq Pending'
        /\ Tokens(stack["main"]) \ {<<"call", "out">>} \subseteq Tokens(stack'["main"])
        /\ CallOK(a)' /\ CallOK(b)' /\ CallOK(d)' /\ UNCHANGED plan /\ CallsOK => CallsOK'
    <3>1. steps = <<a, b, d>>
      BY <2>1
    <3> QED BY <3>1, <2>3, <1>1, <1>3, Stepped3
  <2>5. CallsOK'
    <3>1. CallOK(a)' /\ CallOK(b)' /\ CallOK(d)'
      BY <2>2 DEF CallOK
    <3> QED BY <3>1, <2>4, <1>1, <1>2
  <2>6. /\ \A x : x \in Pending' => x \in Pending \/ \E op \in {"emplace", "fire", "wake"} : x = <<op, "out">>
        /\ \A x : x \in Pending => x \in Pending' \/ x = <<"call", "out">>
        /\ <<"call", "out">> \notin Pending' /\ <<"emplace", "out">> \in Pending'
    BY <2>2, <2>4
  <2>7. /\ PlanOK' /\ (\A c \in Contracts : ContractOK(c)') /\ (\A i \in Inputs : Phase(i)')
        /\ FlagsOK' /\ SetsOK'
    BY <2>6, <1>1, <1>2, OutKeeps
  <2>8. GetOK'
    <3>1. <<"wait", "out">> \in Tokens(stack["main"]) => <<"wait", "out">> \in Tokens(stack'["main"])
      BY <2>4
    <3>2. Tokens(stack["main"])' = Tokens(stack'["main"])
      BY DEF Tokens, Token
    <3>3. \A op \in {"futex", "asleep"} : <<op, "out">> \in Pending' <=> <<op, "out">> \in Pending
      BY <2>6
    <3> QED BY <3>1, <3>2, <3>3, <2>6, <1>1, <1>2, <1>4, <1>5 DEF GetOK
  <2> QED BY <2>4, <2>5, <2>7, <2>8, <1>1, <1>6 DEF CombineInd
<1>8. CASE terminator # "Get"
  <2>1. /\ stack' \in [Parties -> Seq(StepType)] /\ Unique' /\ Ordered'
        /\ Pending' = Pending \ {<<"call", "out">>}
        /\ CallsOK'
    <3>1. Then(t, << >>)
      BY <1>2, <1>8 DEF OutCallback
    <3> QED BY <3>1, <1>1, <1>2, <1>3, Stepped0
  <2>2. /\ PlanOK' /\ (\A c \in Contracts : ContractOK(c)') /\ (\A i \in Inputs : Phase(i)')
        /\ FlagsOK' /\ SetsOK'
    <3>1. \A x : x \in Pending' => x \in Pending
      BY <2>1
    <3>2. \A x : x \in Pending => x \in Pending' \/ x = <<"call", "out">>
      BY <2>1
    <3> QED BY <3>1, <3>2, <1>1, <1>2, OutKeeps
  <2>3. GetOK'
    <3>1. \A op : op # "call" => (<<op, "out">> \in Pending' <=> <<op, "out">> \in Pending)
      BY <2>1
    <3>2. <<"call", "out">> \notin Pending'
      BY <2>1
    <3> QED BY <3>1, <3>2, <1>1, <1>2, <1>4, <1>5, <1>8 DEF GetOK
  <2> QED BY <2>1, <2>2, <2>3, <1>1, <1>6 DEF CombineInd
<1> QED BY <1>7, <1>8

\* It copies the result ...
LEMMA EmplaceGotKeeps ==
  ASSUME CombineInd, NEW t \in Parties, EmplaceGot(t)
  PROVE  CombineInd'
<1>c. PICK c : c = ArgOf(t)
  OBVIOUS
<1>1. /\ CombineTypeOK /\ PlanOK /\ Unique /\ Ordered /\ CallsOK /\ stack \in [Parties -> Seq(StepType)]
      /\ (\A d \in Contracts : ContractOK(d)) /\ (\A j \in Inputs : Phase(j))
      /\ FlagsOK /\ SetsOK /\ GetOK
  BY TypeIs DEF CombineInd
<1>2. /\ Step(t, "emplace") /\ Then(t, << >>) /\ received' = result_["out"]
      /\ UNCHANGED <<plan, contracts, protected, event>>
  BY DEF EmplaceGot
<1>3. /\ stack[t] # << >> /\ c = "out"
      /\ Token(Head(stack[t])) = <<"emplace", "out">> /\ <<"emplace", "out">> \in Pending
  BY <1>1, <1>2, <1>c, First DEF CallOK
<1>4. received' \in Promised /\ received' \in SUBSET Value
  <2>1. "out" \in Contracts /\ state_["out"] \subseteq {"Producer", "Consumer"}
    BY <1>1 DEF CombineTypeOK, Contracts
  <2>2. result_["out"] \in Promised
    BY <2>1, <1>1, <1>3, Called
  <2> QED BY <2>1, <2>2, <1>1, <1>2 DEF CombineTypeOK
<1>5. /\ stack' \in [Parties -> Seq(StepType)] /\ Unique' /\ Ordered'
      /\ Pending' = Pending \ {<<"emplace", "out">>}
      /\ Tokens(stack["main"]) \ {<<"emplace", "out">>} \subseteq Tokens(stack'["main"])
      /\ CallsOK'
  BY <1>1, <1>2, <1>3, Stepped0
<1>6. CombineTypeOK'
  BY <1>1, <1>2, <1>4, <1>5, TypeKept DEF CombineTypeOK, protected, contracts
<1>7. /\ PlanOK' /\ (\A d \in Contracts : ContractOK(d)') /\ (\A i \in Inputs : Phase(i)')
      /\ FlagsOK' /\ SetsOK'
  <2>1. \A x : x \in Pending' => x \in Pending
    BY <1>5
  <2>2. \A x : x \in Pending => x \in Pending' \/ x = <<"emplace", "out">>
    BY <1>5
  <2> QED BY <2>1, <2>2, <1>1, <1>2, OutKeeps
<1>8. GetOK'
  <2>1. \A op : op # "emplace" => (<<op, "out">> \in Pending' <=> <<op, "out">> \in Pending)
    BY <1>5
  <2>2. <<"wait", "out">> \in Tokens(stack["main"]) => <<"wait", "out">> \in Tokens(stack'["main"])
    BY <1>5
  <2>3. Tokens(stack["main"])' = Tokens(stack'["main"])
    BY DEF Tokens, Token
  <2>4. ~event /\ <<"call", "out">> \notin Pending /\ <<"emplace", "out">> \notin Pending'
    BY <1>1, <1>3, <1>5 DEF GetOK
  <2>5. UNCHANGED <<terminator, Promised, event>>
    BY <1>2 DEF plan, Promised
  <2> QED BY <2>1, <2>2, <2>3, <2>4, <2>5, <1>1, <1>4 DEF GetOK
<1> QED BY <1>5, <1>6, <1>7, <1>8 DEF CombineInd

\* ... and fires the event.
LEMMA FireKeeps ==
  ASSUME CombineInd, NEW t \in Parties, Fire(t)
  PROVE  CombineInd'
<1>c. PICK c : c = ArgOf(t)
  OBVIOUS
<1>1. /\ CombineTypeOK /\ PlanOK /\ Unique /\ Ordered /\ CallsOK /\ stack \in [Parties -> Seq(StepType)]
      /\ (\A d \in Contracts : ContractOK(d)) /\ (\A j \in Inputs : Phase(j))
      /\ FlagsOK /\ SetsOK /\ GetOK
  BY TypeIs DEF CombineInd
<1>2. /\ Step(t, "fire") /\ Then(t, << >>) /\ event' = TRUE
      /\ UNCHANGED <<plan, contracts, protected, received>>
  BY DEF Fire
<1>3. /\ stack[t] # << >> /\ c = "out"
      /\ Token(Head(stack[t])) = <<"fire", "out">> /\ <<"fire", "out">> \in Pending
  BY <1>1, <1>2, <1>c, First DEF CallOK
<1>4. <<"emplace", "out">> \notin Pending
  <2>1. <<"fire", "out">> \in Followers(<<"emplace", "out">>)
    BY FollowersAre
  <2> QED BY <2>1, <1>1, <1>3, Prepared
<1>5. Met("out") /\ received \in Promised /\ <<"call", "out">> \notin Pending
  <2>1. "out" \in Contracts /\ state_["out"] \subseteq {"Producer", "Consumer"}
    BY <1>1 DEF CombineTypeOK, Contracts
  <2>2. Met("out")
    BY <2>1, <1>1, <1>3, Called
  <2> QED BY <2>2, <1>1, <1>3, <1>4 DEF GetOK
<1>6. /\ stack' \in [Parties -> Seq(StepType)] /\ Unique' /\ Ordered'
      /\ Pending' = Pending \ {<<"fire", "out">>}
      /\ CallsOK'
  BY <1>1, <1>2, <1>3, Stepped0
<1>7. CombineTypeOK'
  BY <1>1, <1>2, <1>6, TypeKept DEF CombineTypeOK, protected, contracts
<1>8. /\ PlanOK' /\ (\A d \in Contracts : ContractOK(d)') /\ (\A i \in Inputs : Phase(i)')
      /\ FlagsOK' /\ SetsOK'
  <2>1. \A x : x \in Pending' => x \in Pending
    BY <1>6
  <2>2. \A x : x \in Pending => x \in Pending' \/ x = <<"fire", "out">>
    BY <1>6
  <2> QED BY <2>1, <2>2, <1>1, <1>2, OutKeeps
<1>9. GetOK'
  <2>1. \A op : op # "fire" => (<<op, "out">> \in Pending' <=> <<op, "out">> \in Pending)
    BY <1>6
  <2>2. <<"fire", "out">> \notin Pending'
    BY <1>6
  <2>3. UNCHANGED <<terminator, Promised, received>> /\ (Met("out")' <=> Met("out"))
    BY <1>2 DEF plan, Promised, Met, contracts
  <2> QED BY <2>1, <2>2, <2>3, <1>1, <1>2, <1>4, <1>5 DEF GetOK
<1> QED BY <1>6, <1>7, <1>8, <1>9 DEF CombineInd

\* Get looks at the event ...
LEMMA WaitKeeps ==
  ASSUME CombineInd, NEW t \in Parties, Wait(t)
  PROVE  CombineInd'
<1>c. PICK c : c = ArgOf(t)
  OBVIOUS
<1>1. /\ CombineTypeOK /\ PlanOK /\ Unique /\ Ordered /\ CallsOK /\ stack \in [Parties -> Seq(StepType)]
      /\ (\A d \in Contracts : ContractOK(d)) /\ (\A j \in Inputs : Phase(j))
      /\ FlagsOK /\ SetsOK /\ GetOK
  BY TypeIs DEF CombineInd
<1>2. /\ Step(t, "wait")
      /\ Then(t, IF event THEN << >> ELSE <<StepOf("futex", "out"), StepOf("wait", "out")>>)
      /\ UNCHANGED <<plan, contracts, protected, received, event>>
  BY DEF Wait
<1>3. /\ stack[t] # << >> /\ c = "out"
      /\ Token(Head(stack[t])) = <<"wait", "out">> /\ <<"wait", "out">> \in Pending
  BY <1>1, <1>2, <1>c, First DEF CallOK
<1>4. <<"futex", "out">> \notin Pending /\ <<"asleep", "out">> \notin Pending
  <2>1. <<"wait", "out">> \in Followers(<<"futex", "out">>) /\ <<"wait", "out">> \in Followers(<<"asleep", "out">>)
    BY FollowersAre
  <2> QED BY <2>1, <1>1, <1>3, Prepared
<1>5. UNCHANGED <<terminator, Promised>> /\ (Met("out")' <=> Met("out"))
  BY <1>2 DEF plan, Promised, Met, contracts
<1>6. CombineTypeOK /\ stack' \in [Parties -> Seq(StepType)] => CombineTypeOK'
  BY <1>2, TypeKept DEF CombineTypeOK, protected, contracts
<1>7. CASE event
  <2>1. /\ stack' \in [Parties -> Seq(StepType)] /\ Unique' /\ Ordered'
        /\ Pending' = Pending \ {<<"wait", "out">>}
        /\ CallsOK'
    <3>1. Then(t, << >>)
      BY <1>2, <1>7
    <3> QED BY <3>1, <1>1, <1>2, <1>3, Stepped0
  <2>2. /\ PlanOK' /\ (\A d \in Contracts : ContractOK(d)') /\ (\A i \in Inputs : Phase(i)')
        /\ FlagsOK' /\ SetsOK'
    <3>1. \A x : x \in Pending' => x \in Pending
      BY <2>1
    <3>2. \A x : x \in Pending => x \in Pending' \/ x = <<"wait", "out">>
      BY <2>1
    <3> QED BY <3>1, <3>2, <1>1, <1>2, OutKeeps
  <2>3. GetOK'
    <3>1. \A op : op # "wait" => (<<op, "out">> \in Pending' <=> <<op, "out">> \in Pending)
      BY <2>1
    <3> QED BY <3>1, <1>1, <1>2, <1>5, <1>7 DEF GetOK
  <2> QED BY <2>1, <2>2, <2>3, <1>1, <1>6 DEF CombineInd
<1>8. CASE ~event
  <2>1. PICK a, b, steps : a = StepOf("futex", "out") /\ b = StepOf("wait", "out") /\ steps = <<a, b>>
    OBVIOUS
  <2>2. /\ a \in StepType /\ b \in StepType
        /\ Token(a) = <<"futex", "out">> /\ Token(b) = <<"wait", "out">>
        /\ a.op = "futex" /\ a.c = "out" /\ b.op = "wait" /\ b.c = "out"
    BY <2>1, DoIs DEF Ops, Contracts
  <2>3. Fits2(<<"wait", "out">>, a, b) /\ Then(t, steps)
    <3>1. Followers(<<"futex", "out">>) = {<<"wait", "out">>} /\ Followers(<<"wait", "out">>) = {}
      BY FollowersAre
    <3>2. Then(t, steps)
      BY <1>2, <1>8, <2>1
    <3> QED BY <3>1, <3>2, <2>2, <1>4 DEF Fits2
  <2>4. /\ stack' \in [Parties -> Seq(StepType)] /\ Unique' /\ Ordered'
        /\ Pending' \subseteq (Pending \ {<<"wait", "out">>}) \cup {Token(a), Token(b)}
        /\ (Pending \ {<<"wait", "out">>}) \cup {Token(a), Token(b)} \subseteq Pending'
        /\ t = "main" => Token(b) \in Tokens(stack'["main"])
        /\ CallOK(a)' /\ CallOK(b)' /\ UNCHANGED plan /\ CallsOK => CallsOK'
    <3>1. steps = <<a, b>>
      BY <2>1
    <3> QED BY <3>1, <2>3, <1>1, <1>3, Stepped2
  <2>5. CallsOK'
    <3>1. CallOK(a)' /\ CallOK(b)'
      BY <2>2 DEF CallOK
    <3> QED BY <3>1, <2>4, <1>1, <1>2
  <2>6. /\ \A x : x \in Pending' => x \in Pending \/ x = <<"futex", "out">>
        /\ \A x : x \in Pending => x \in Pending'
    BY <2>2, <2>4, <1>3
  <2>7. /\ PlanOK' /\ (\A d \in Contracts : ContractOK(d)') /\ (\A i \in Inputs : Phase(i)')
        /\ FlagsOK' /\ SetsOK'
    BY <2>6, <1>1, <1>2, OutKeeps
  \* The one that waits is the own thread.
  <2>8. <<"wait", "out">> \in Tokens(stack["main"]) => t = "main"
    <3>1. Head(stack[t]) = stack[t][1] /\ 1 \in DOMAIN stack[t]
      BY <1>1, <1>3, Prepended, EmptySeq
    <3>2. \A k \in DOMAIN stack["main"] : Token(stack["main"][k]) = <<"wait", "out">> => t = "main"
      BY <3>1, <1>1, <1>3 DEF Unique, Parties
    <3> QED BY <3>2 DEF Tokens
  <2>9. GetOK'
    <3>1. <<"wait", "out">> \in Tokens(stack["main"]) => <<"wait", "out">> \in Tokens(stack'["main"])
      BY <2>2, <2>4, <2>8
    <3>2. Tokens(stack["main"])' = Tokens(stack'["main"])
      BY DEF Tokens, Token
    <3>3. \A op \in {"call", "emplace", "fire", "wake", "asleep"} :
             <<op, "out">> \in Pending' <=> <<op, "out">> \in Pending
      BY <2>6
    <3> QED BY <3>1, <3>2, <3>3, <1>1, <1>2, <1>4, <1>5, <1>8 DEF GetOK
  <2> QED BY <2>4, <2>5, <2>7, <2>9, <1>1, <1>6 DEF CombineInd
<1> QED BY <1>7, <1>8

\* ... and sleeps while it has not been fired.
LEMMA FutexWaitKeeps ==
  ASSUME CombineInd, NEW t \in Parties, FutexWait(t) \/ SpuriousWake(t)
  PROVE  CombineInd'
<1>c. PICK c : c = ArgOf(t)
  OBVIOUS
<1>1. /\ CombineTypeOK /\ PlanOK /\ Unique /\ Ordered /\ CallsOK /\ stack \in [Parties -> Seq(StepType)]
      /\ (\A d \in Contracts : ContractOK(d)) /\ (\A j \in Inputs : Phase(j))
      /\ FlagsOK /\ SetsOK /\ GetOK
  BY TypeIs DEF CombineInd
<1>2. PICK op \in {"futex", "asleep"} :
        /\ Step(t, op)
        /\ \/ Then(t, << >>)
           \/ op = "futex" /\ Then(t, <<StepOf("asleep", "out")>>)
        /\ UNCHANGED <<plan, contracts, protected, received, event>>
  BY DEF FutexWait, SpuriousWake
<1>3. /\ stack[t] # << >> /\ c = "out"
      /\ Token(Head(stack[t])) = <<op, "out">> /\ <<op, "out">> \in Pending
  <2>1. /\ stack[t] # << >> /\ Token(Head(stack[t])) = <<op, c>> /\ <<op, c>> \in Pending
        /\ CallOK(Head(stack[t])) /\ Head(stack[t]).op = op /\ Head(stack[t]).c = c
    BY <1>1, <1>2, <1>c, First
  <2> QED BY <2>1 DEF CallOK
<1>4. UNCHANGED <<terminator, Promised>> /\ (Met("out")' <=> Met("out"))
  BY <1>2 DEF plan, Promised, Met, contracts
<1>5. CombineTypeOK /\ stack' \in [Parties -> Seq(StepType)] => CombineTypeOK'
  BY <1>2, TypeKept DEF CombineTypeOK, protected, contracts
<1>6. CASE Then(t, << >>)
  <2>1. /\ stack' \in [Parties -> Seq(StepType)] /\ Unique' /\ Ordered'
        /\ Pending' = Pending \ {<<op, "out">>}
        /\ Tokens(stack["main"]) \ {<<op, "out">>} \subseteq Tokens(stack'["main"])
        /\ CallsOK'
    BY <1>6, <1>1, <1>2, <1>3, Stepped0
  <2>2. /\ PlanOK' /\ (\A d \in Contracts : ContractOK(d)') /\ (\A i \in Inputs : Phase(i)')
        /\ FlagsOK' /\ SetsOK'
    <3>1. \A x : x \in Pending' => x \in Pending
      BY <2>1
    <3>2. \A x : x \in Pending => x \in Pending' \/ x = <<"futex", "out">> \/ x = <<"asleep", "out">>
      BY <2>1
    <3> QED BY <3>1, <3>2, <1>1, <1>2, OutKeeps
  <2>3. GetOK'
    <3>1. \A o : o \notin {"futex", "asleep"} => (<<o, "out">> \in Pending' <=> <<o, "out">> \in Pending)
      BY <2>1
    <3>2. \A o : <<o, "out">> \in Pending' => <<o, "out">> \in Pending
      BY <2>1
    <3>3. <<"wait", "out">> \in Tokens(stack["main"]) => <<"wait", "out">> \in Tokens(stack'["main"])
      BY <2>1
    <3>4. Tokens(stack["main"])' = Tokens(stack'["main"])
      BY DEF Tokens, Token
    <3> QED BY <3>1, <3>2, <3>3, <3>4, <1>1, <1>2, <1>4 DEF GetOK
  <2> QED BY <2>1, <2>2, <2>3, <1>1, <1>5 DEF CombineInd
<1>7. CASE op = "futex" /\ Then(t, <<StepOf("asleep", "out")>>)
  <2>1. PICK a, steps : a = StepOf("asleep", "out") /\ steps = <<a>>
    OBVIOUS
  <2>2. a \in StepType /\ Token(a) = <<"asleep", "out">> /\ a.op = "asleep" /\ a.c = "out"
    BY <2>1, DoIs DEF Ops, Contracts
  <2>3. Followers(Token(a)) \subseteq Followers(<<op, "out">>) /\ Token(a) \notin Pending /\ Then(t, steps)
    <3>1. Followers(<<"futex", "out">>) = {<<"wait", "out">>} /\ Followers(<<"asleep", "out">>) = {<<"wait", "out">>}
      BY FollowersAre
    <3>2. <<"asleep", "out">> \notin Pending
      BY <1>1, <1>3, <1>7 DEF GetOK
    <3> QED BY <3>1, <3>2, <2>1, <2>2, <1>7
  <2>4. /\ stack' \in [Parties -> Seq(StepType)] /\ Unique' /\ Ordered'
        /\ Pending' = (Pending \ {<<op, "out">>}) \cup {Token(a)}
        /\ Tokens(stack["main"]) \ {<<op, "out">>} \subseteq Tokens(stack'["main"])
        /\ CallOK(a)' /\ UNCHANGED plan /\ CallsOK => CallsOK'
    BY <2>1, <2>2, <2>3, <1>1, <1>3, Stepped1
  <2>5. CallsOK'
    <3>1. CallOK(a)'
      BY <2>2 DEF CallOK
    <3> QED BY <3>1, <2>4, <1>1, <1>2
  <2>6. /\ PlanOK' /\ (\A d \in Contracts : ContractOK(d)') /\ (\A i \in Inputs : Phase(i)')
        /\ FlagsOK' /\ SetsOK'
    <3>1. \A x : x \in Pending' => x \in Pending \/ x = <<"asleep", "out">>
      BY <2>2, <2>4
    <3>2. \A x : x \in Pending => x \in Pending' \/ x = <<"futex", "out">>
      BY <2>4, <1>7
    <3> QED BY <3>1, <3>2, <1>1, <1>2, OutKeeps
  <2>7. GetOK'
    <3>1. \A o : o \notin {"futex", "asleep"} => (<<o, "out">> \in Pending' <=> <<o, "out">> \in Pending)
      BY <2>2, <2>4, <1>7
    <3>2. <<"futex", "out">> \notin Pending'
      BY <2>2, <2>4, <1>7
    <3>3. <<"wait", "out">> \in Tokens(stack["main"]) => <<"wait", "out">> \in Tokens(stack'["main"])
      BY <2>4
    <3>4. Tokens(stack["main"])' = Tokens(stack'["main"])
      BY DEF Tokens, Token
    <3> QED BY <3>1, <3>2, <3>3, <3>4, <1>1, <1>2, <1>4 DEF GetOK
  <2> QED BY <2>4, <2>5, <2>6, <2>7, <1>1, <1>5 DEF CombineInd
<1> QED BY <1>2, <1>6, <1>7

\* Several threads do their first steps at once, and call nothing.
LEMMA Tailed ==
  ASSUME stack \in [Parties -> Seq(StepType)], Unique, Ordered,
         NEW W \in SUBSET Parties, \A u \in W : stack[u] # << >>,
         stack' = [u \in Parties |-> IF u \in W THEN Tail(stack[u]) ELSE stack[u]]
  PROVE  /\ stack' \in [Parties -> Seq(StepType)] /\ Unique' /\ Ordered'
         /\ \A x : x \in Pending' => x \in Pending
         /\ \A x : x \in Pending => x \in Pending' \/ \E u \in W : x = Token(Head(stack[u]))
         /\ \A u \in W : Token(Head(stack[u])) \notin Pending'
         /\ \A x : x \in Tokens(stack["main"]) =>
              x \in Tokens(stack'["main"]) \/ \E u \in W : x = Token(Head(stack[u]))
         /\ UNCHANGED plan /\ CallsOK => CallsOK'
<1> DEFINE d(u) == IF u \in W THEN 1 ELSE 0
<1>1. ASSUME NEW u \in Parties
      PROVE  /\ stack'[u] \in Seq(StepType)
             /\ \A k \in DOMAIN stack[u] : k \in Nat /\ k > 0
             /\ \A k \in DOMAIN stack'[u] : k \in Nat /\ k > 0 /\ k + d(u) \in DOMAIN stack[u]
                                           /\ stack'[u][k] = stack[u][k + d(u)]
             /\ \A k \in DOMAIN stack[u] : k > d(u) => k - d(u) \in DOMAIN stack'[u]
                                                      /\ stack'[u][k - d(u)] = stack[u][k]
             /\ u \in W => Head(stack[u]) = stack[u][1] /\ 1 \in DOMAIN stack[u]
  <2>0. PICK s, r : s = stack[u] /\ r = stack'[u]
    OBVIOUS
  <2>1. s \in Seq(StepType) /\ Len(s) \in Nat /\ DOMAIN s = 1 .. Len(s)
    BY <2>0, LenProperties
  <2>2. CASE u \in W
    <3>1. s # << >> /\ r = Tail(s)
      BY <2>0, <2>2
    <3>2. /\ Tail(s) \in Seq(StepType) /\ Len(Tail(s)) = Len(s) - 1 /\ Head(s) = s[1]
          /\ \A k \in 1 .. Len(Tail(s)) : Tail(s)[k] = s[k + 1]
      BY <2>1, <3>1, HeadTailProperties
    <3>3. Len(s) > 0
      BY <2>1, <3>1, EmptySeq
    <3>4. r \in Seq(StepType) /\ DOMAIN r = 1 .. Len(s) - 1 /\ \A k \in DOMAIN r : r[k] = s[k + 1]
      BY <3>1, <3>2, LenProperties
    <3>5. PICK n \in Nat : n = Len(s)
      BY <2>1
    <3>6. d(u) = 1
      BY <2>2
    <3> HIDE DEF d
    <3> QED BY <2>0, <2>1, <2>2, <3>2, <3>3, <3>4, <3>5, <3>6
  <2>3. CASE u \notin W
    <3>1. r = s /\ d(u) = 0
      BY <2>0, <2>3
    <3> HIDE DEF d
    <3> QED BY <3>1, <2>0, <2>1, <2>3
  <2> QED BY <2>2, <2>3
<1>2. \A u \in Parties : d(u) \in {0, 1} /\ (u \in W <=> d(u) = 1)
  OBVIOUS
<1> HIDE DEF d
<1>3. stack' \in [Parties -> Seq(StepType)]
  BY <1>1
<1>4. Unique'
  <2> SUFFICES ASSUME NEW u \in Parties, NEW v \in Parties, NEW k \in DOMAIN stack'[u], NEW l \in DOMAIN stack'[v],
                      Token(stack'[u][k]) = Token(stack'[v][l])
               PROVE  u = v /\ k = l
    BY DEF Unique, Token
  <2>1. u = v /\ k + d(u) = l + d(v)
    BY <1>1 DEF Unique
  <2> QED BY <2>1, <1>1, <1>2
<1>5. Ordered'
  <2> SUFFICES ASSUME NEW u \in Parties, NEW k \in DOMAIN stack'[u], NEW y \in Followers(Token(stack'[u][k]))
               PROVE  \E l \in DOMAIN stack'[u] : l > k /\ Token(stack'[u][l]) = y
    BY DEF Ordered, Token, Followers
  <2>1. k + d(u) \in DOMAIN stack[u] /\ stack'[u][k] = stack[u][k + d(u)] /\ k \in Nat /\ k > 0
    BY <1>1
  <2>2. PICK l \in DOMAIN stack[u] : l > k + d(u) /\ Token(stack[u][l]) = y
    BY <2>1 DEF Ordered
  <2>3. l \in Nat
    BY <1>1
  <2>4. l > d(u) /\ l - d(u) > k
    BY <2>1, <2>2, <2>3, <1>2
  <2>5. l - d(u) \in DOMAIN stack'[u] /\ stack'[u][l - d(u)] = stack[u][l]
    BY <2>4, <1>1
  <2> QED BY <2>2, <2>4, <2>5
\* A step of u is pending, in u, as before, unless it was the first.
<1>6. ASSUME NEW u \in Parties, NEW x, \E k \in DOMAIN stack'[u] : Token(stack'[u][k]) = x
      PROVE  \E k \in DOMAIN stack[u] : Token(stack[u][k]) = x
  <2>1. PICK k \in DOMAIN stack'[u] : Token(stack'[u][k]) = x
    BY <1>6
  <2> QED BY <2>1, <1>1
<1>13. ASSUME NEW u \in Parties, NEW x, \E k \in DOMAIN stack[u] : Token(stack[u][k]) = x,
              ~(u \in W /\ x = Token(Head(stack[u])))
       PROVE  \E k \in DOMAIN stack'[u] : Token(stack'[u][k]) = x
  <2>1. PICK k \in DOMAIN stack[u] : Token(stack[u][k]) = x
    BY <1>13
  <2>2. k \in Nat /\ k > 0
    BY <1>1
  <2>3. k > d(u)
    <3>1. u \in W => k # 1
      BY <1>1, <1>13, <2>1
    <3> QED BY <3>1, <2>2, <1>2
  <2> QED BY <2>1, <2>3, <1>1
<1>7. \A x : x \in Pending' <=> \E u \in Parties : \E k \in DOMAIN stack'[u] : Token(stack'[u][k]) = x
  <2> SUFFICES ASSUME NEW x
               PROVE  x \in Pending' <=> \E u \in Parties : \E k \in DOMAIN stack'[u] : Token(stack'[u][k]) = x
    OBVIOUS
  <2>1. PICK f : f = stack'
    OBVIOUS
  <2>2. Pending' = UNION {{Token(f[u][k]) : k \in DOMAIN f[u]} : u \in Parties}
    BY <2>1 DEF Pending, Tokens, Token
  <2>3. x \in Pending' <=> \E u \in Parties : \E k \in DOMAIN f[u] : Token(f[u][k]) = x
    BY <2>2
  <2> QED BY <2>1, <2>3 DEF Token
<1>8. \A x : x \in Pending' => x \in Pending
  <2> SUFFICES ASSUME NEW x, x \in Pending' PROVE x \in Pending
    OBVIOUS
  <2>1. PICK u \in Parties : \E k \in DOMAIN stack'[u] : Token(stack'[u][k]) = x
    BY <1>7
  <2>2. \E k \in DOMAIN stack[u] : Token(stack[u][k]) = x
    BY <2>1, <1>6
  <2> QED BY <2>2, PendingIs
<1>9. \A x : x \in Pending => x \in Pending' \/ \E u \in W : x = Token(Head(stack[u]))
  <2> SUFFICES ASSUME NEW x \in Pending PROVE x \in Pending' \/ \E u \in W : x = Token(Head(stack[u]))
    OBVIOUS
  <2>1. PICK u \in Parties : \E k \in DOMAIN stack[u] : Token(stack[u][k]) = x
    BY PendingIs
  <2>2. CASE u \in W /\ x = Token(Head(stack[u]))
    BY <2>2
  <2>3. CASE ~(u \in W /\ x = Token(Head(stack[u])))
    <3>1. \E k \in DOMAIN stack'[u] : Token(stack'[u][k]) = x
      BY <2>1, <2>3, <1>13
    <3> QED BY <3>1, <1>7
  <2> QED BY <2>2, <2>3
<1>10. ASSUME NEW u \in W PROVE Token(Head(stack[u])) \notin Pending'
  <2> SUFFICES ASSUME NEW v \in Parties, NEW k \in DOMAIN stack'[v], Token(stack'[v][k]) = Token(Head(stack[u]))
               PROVE  FALSE
    BY <1>7
  <2>1. u \in Parties /\ Head(stack[u]) = stack[u][1] /\ 1 \in DOMAIN stack[u]
    BY <1>1
  <2>2. k + d(v) \in DOMAIN stack[v] /\ stack'[v][k] = stack[v][k + d(v)] /\ k \in Nat /\ k > 0
    BY <1>1
  <2>3. v = u /\ k + d(v) = 1
    BY <2>1, <2>2 DEF Unique
  <2> QED BY <2>2, <2>3, <1>2
<1>11. \A x : x \in Tokens(stack["main"]) =>
              x \in Tokens(stack'["main"]) \/ \E u \in W : x = Token(Head(stack[u]))
  <2>1. "main" \in Parties
    BY DEF Parties
  <2> SUFFICES ASSUME NEW x, x \in Tokens(stack["main"])
               PROVE  x \in Tokens(stack'["main"]) \/ \E u \in W : x = Token(Head(stack[u]))
    OBVIOUS
  <2>2. \E k \in DOMAIN stack["main"] : Token(stack["main"][k]) = x
    BY DEF Tokens
  <2>3. \/ \E k \in DOMAIN stack'["main"] : Token(stack'["main"][k]) = x
        \/ "main" \in W /\ x = Token(Head(stack["main"]))
    BY <2>1, <2>2, <1>13
  <2> QED BY <2>3 DEF Tokens
<1>12. UNCHANGED plan /\ CallsOK => CallsOK'
  <2> SUFFICES ASSUME UNCHANGED plan, CallsOK, NEW u \in Parties, NEW k \in DOMAIN stack'[u]
               PROVE  CallOK(stack[u][k])'
    BY DEF CallsOK
  <2>1. PICK l \in DOMAIN stack[u] : stack'[u][k] = stack[u][l]
    BY <1>1
  <2>2. CallOK(stack[u][l])
    BY DEF CallsOK
  <2> QED BY <2>1, <2>2 DEF CallOK, plan, Promised
<1> QED BY <1>3, <1>4, <1>5, <1>8, <1>9, <1>10, <1>11, <1>12

\* Fire wakes Get.
LEMMA FutexWakeAllKeeps ==
  ASSUME CombineInd, NEW t \in Parties, FutexWakeAll(t)
  PROVE  CombineInd'
<1>c. PICK W \in SUBSET Parties : W = {u \in Parties : u = t \/ Step(u, "asleep")}
  OBVIOUS
<1>1. /\ CombineTypeOK /\ PlanOK /\ Unique /\ Ordered /\ CallsOK /\ stack \in [Parties -> Seq(StepType)]
      /\ (\A d \in Contracts : ContractOK(d)) /\ (\A j \in Inputs : Phase(j))
      /\ FlagsOK /\ SetsOK /\ GetOK
  BY TypeIs DEF CombineInd
<1>2. /\ Step(t, "wake")
      /\ stack' = [u \in Parties |-> IF u \in W THEN Tail(stack[u]) ELSE stack[u]]
      /\ UNCHANGED <<plan, contracts, protected, received, event>>
  <2>1. stack' = [u \in Parties |-> IF u \in W THEN Tail(stack[u]) ELSE stack[u]]
    BY <1>c DEF FutexWakeAll
  <2> QED BY <2>1 DEF FutexWakeAll
<1>3. \A u \in W : /\ stack[u] # << >>
                   /\ Token(Head(stack[u])) = <<"wake", "out">> \/ Token(Head(stack[u])) = <<"asleep", "out">>
  <2> SUFFICES ASSUME NEW u \in W
               PROVE  /\ stack[u] # << >>
                      /\ Token(Head(stack[u])) = <<"wake", "out">> \/ Token(Head(stack[u])) = <<"asleep", "out">>
    OBVIOUS
  <2>1. PICK op \in {"wake", "asleep"} : Step(u, op)
    BY <1>c, <1>2
  <2>2. PICK c : c = ArgOf(u)
    OBVIOUS
  <2>3. /\ stack[u] # << >> /\ Token(Head(stack[u])) = <<op, c>>
        /\ CallOK(Head(stack[u])) /\ Head(stack[u]).op = op /\ Head(stack[u]).c = c
    BY <1>1, <2>1, <2>2, First
  <2> QED BY <2>3 DEF CallOK
<1>4. /\ stack' \in [Parties -> Seq(StepType)] /\ Unique' /\ Ordered'
      /\ \A x : x \in Pending' => x \in Pending
      /\ \A x : x \in Pending => x \in Pending' \/ \E u \in W : x = Token(Head(stack[u]))
      /\ \A x : x \in Tokens(stack["main"]) =>
           x \in Tokens(stack'["main"]) \/ \E u \in W : x = Token(Head(stack[u]))
      /\ UNCHANGED plan /\ CallsOK => CallsOK'
  BY <1>1, <1>2, <1>3, Tailed
<1>5. CombineTypeOK'
  BY <1>1, <1>2, <1>4, TypeKept DEF CombineTypeOK, protected, contracts
<1>6. \A x : x \in Pending => x \in Pending' \/ x = <<"wake", "out">> \/ x = <<"asleep", "out">>
  BY <1>3, <1>4
<1>7. /\ PlanOK' /\ (\A d \in Contracts : ContractOK(d)') /\ (\A i \in Inputs : Phase(i)')
      /\ FlagsOK' /\ SetsOK'
  BY <1>4, <1>6, <1>1, <1>2, OutKeeps
<1>8. GetOK'
  <2>1. <<"wait", "out">> \in Tokens(stack["main"]) => <<"wait", "out">> \in Tokens(stack'["main"])
    BY <1>3, <1>4
  <2>2. Tokens(stack["main"])' = Tokens(stack'["main"])
    BY DEF Tokens, Token
  <2>3. \A o : o \notin {"wake", "asleep"} => (<<o, "out">> \in Pending' <=> <<o, "out">> \in Pending)
    BY <1>4, <1>6
  <2>4. UNCHANGED <<terminator, Promised>> /\ (Met("out")' <=> Met("out"))
    BY <1>2 DEF plan, Promised, Met, contracts
  <2> QED BY <2>1, <2>2, <2>3, <2>4, <1>1, <1>2, <1>4 DEF GetOK
<1> QED BY <1>1, <1>2, <1>4, <1>5, <1>7, <1>8 DEF CombineInd

-----------------------------------------------------------------------------
(* The invariant                                                           *)

\* The inductive invariant holds at first.
LEMMA CombineBegins ==
  ASSUME CombineInit, NotAllFailed
  PROVE  CombineInd
<1>0. combinator \in {"Both", "First", "FirstOk", "BothOk"}
  BY FutureAssumption DEF CombineInit
<1>1. /\ combinator \in Concurrent /\ terminator \in {"Get", "Detach"}
      /\ input \in [Inputs -> Value] /\ (\A i \in Inputs : input[i].from = i)
      /\ state_ = [c \in Contracts |-> {}] /\ result_ = [c \in Contracts |-> NONE]
      /\ callback_ = [c \in Contracts |-> FALSE] /\ deleted = [c \in Contracts |-> 0]
      /\ flags = {} /\ stored = [i \in Inputs |-> NONE] /\ sets = 0 /\ received = NONE /\ event = FALSE
  BY DEF CombineInit
<1>2. PICK own : own = stack["main"]
  OBVIOUS
<1>3. \A i \in Inputs : /\ stack[i] = <<StepWith("result", i, {input[i]}), StepOf("produce", i)>>
                        /\ i \in Parties /\ i # "main" /\ i \in Contracts /\ i # "out"
  BY DEF CombineInit, ProduceSteps, Parties, Contracts, Inputs
<1>4. own = <<StepOf("callback", "f1"), StepOf("consume", "f1"), StepOf("callback", "f2"), StepOf("consume", "f2"),
               StepOf("callback", "out"), StepOf("consume", "out")>>
               \o IF terminator = "Get" THEN <<StepOf("wait", "out")>> ELSE << >>
  BY <1>2 DEF CombineInit, ConsumeSteps, Parties
<1>5. /\ own \in Seq(StepType) /\ DOMAIN own = IF terminator = "Get" THEN 1 .. 7 ELSE 1 .. 6
      /\ own[1] = StepOf("callback", "f1") /\ own[2] = StepOf("consume", "f1")
      /\ own[3] = StepOf("callback", "f2") /\ own[4] = StepOf("consume", "f2")
      /\ own[5] = StepOf("callback", "out") /\ own[6] = StepOf("consume", "out")
      /\ terminator = "Get" => own[7] = StepOf("wait", "out")
  <2>1. \A op \in Ops, c \in Contracts : StepOf(op, c) \in StepType
    BY DoIs
  <2>2. PICK s : s = <<StepOf("callback", "f1"), StepOf("consume", "f1"), StepOf("callback", "f2"), StepOf("consume", "f2"),
                       StepOf("callback", "out"), StepOf("consume", "out")>>
    OBVIOUS
  <2>3. s \in Seq(StepType) /\ Len(s) = 6
    BY <2>1, <2>2 DEF Ops, Contracts, Inputs
  <2>4. PICK w : w = IF terminator = "Get" THEN <<StepOf("wait", "out")>> ELSE << >>
    OBVIOUS
  <2>5. w \in Seq(StepType) /\ (IF terminator = "Get" THEN Len(w) = 1 /\ w[1] = StepOf("wait", "out") ELSE Len(w) = 0)
    BY <2>1, <2>4 DEF Ops, Contracts
  <2>6. own = s \o w
    BY <1>4, <2>2, <2>4
  <2>7. /\ s \o w \in Seq(StepType) /\ Len(s \o w) = Len(s) + Len(w)
        /\ \A k \in 1 .. Len(s) + Len(w) : (s \o w)[k] = IF k <= Len(s) THEN s[k] ELSE w[k - Len(s)]
    BY <2>3, <2>5, ConcatProperties
  <2>8. DOMAIN own = 1 .. Len(own)
    BY <2>6, <2>7, LenProperties
  <2>9. PICK n \in Nat : n = Len(w)
    BY <2>5
  <2>10. Len(own) = 6 + n /\ \A k \in 1 .. 6 + n : own[k] = IF k <= 6 THEN s[k] ELSE w[k - 6]
    BY <2>3, <2>6, <2>7, <2>9
  <2>11. \A k \in 1 .. 6 : own[k] = s[k]
    BY <2>9, <2>10
  <2>12. terminator = "Get" => own[7] = w[1]
    BY <2>5, <2>9, <2>10
  <2>13. DOMAIN own = IF terminator = "Get" THEN 1 .. 7 ELSE 1 .. 6
    <3>1. terminator = "Get" => n = 1
      BY <2>5, <2>9
    <3>2. terminator # "Get" => n = 0
      BY <2>5, <2>9
    <3>3. DOMAIN own = 1 .. 6 + n
      BY <2>8, <2>10
    <3>4. terminator = "Get" => DOMAIN own = 1 .. 7
      BY <3>1, <3>3
    <3>5. terminator # "Get" => DOMAIN own = 1 .. 6
      BY <3>2, <3>3
    <3> QED BY <3>4, <3>5
  <2>14. s[1] = StepOf("callback", "f1") /\ s[2] = StepOf("consume", "f1") /\ s[3] = StepOf("callback", "f2")
         /\ s[4] = StepOf("consume", "f2") /\ s[5] = StepOf("callback", "out") /\ s[6] = StepOf("consume", "out")
    BY <2>2
  <2>15. own \in Seq(StepType)
    BY <2>6, <2>7
  <2>16. \A k \in {1, 2, 3, 4, 5, 6} : own[k] = s[k]
    BY <2>11
  <2>17. terminator = "Get" => own[7] = StepOf("wait", "out")
    BY <2>5, <2>12
  <2> QED BY <2>13, <2>14, <2>15, <2>16, <2>17
\* Who is at which place.
<1>6. \A i \in Inputs : /\ stack[i] \in Seq(StepType) /\ DOMAIN stack[i] = {1, 2}
                        /\ stack[i][1].value = {input[i]}
                        /\ Token(stack[i][1]) = <<"result", i>> /\ Token(stack[i][2]) = <<"produce", i>>
  <2> SUFFICES ASSUME NEW i \in Inputs
               PROVE  /\ stack[i] \in Seq(StepType) /\ DOMAIN stack[i] = {1, 2}
                      /\ stack[i][1].value = {input[i]}
                      /\ Token(stack[i][1]) = <<"result", i>> /\ Token(stack[i][2]) = <<"produce", i>>
    OBVIOUS
  <2>1. PICK v : v = {input[i]}
    OBVIOUS
  <2>2. v \in SUBSET Value /\ i \in Contracts
    <3>1. input[i] \in Value
      BY <1>1
    <3> QED BY <3>1, <2>1, <1>3
  <2>3. PICK a, b : a = StepWith("result", i, v) /\ b = StepOf("produce", i)
    OBVIOUS
  <2>4. a \in StepType /\ b \in StepType /\ a.value = v /\ Token(a) = <<"result", i>> /\ Token(b) = <<"produce", i>>
    BY <2>2, <2>3, DoIs DEF Ops
  <2>5. stack[i] = <<a, b>>
    BY <2>1, <2>3, <1>3
  <2> QED BY <2>1, <2>4, <2>5
<1>7. stack \in [Parties -> Seq(StepType)]
  <2>1. \A t \in Parties : stack[t] \in Seq(StepType)
    BY <1>2, <1>5, <1>6 DEF Parties
  <2>2. stack = [t \in Parties |-> stack[t]]
    BY DEF CombineInit
  <2> QED BY <2>1, <2>2
<1>8. \A op \in Ops, c \in Contracts : Token(StepOf(op, c)) = <<op, c>>
  BY DoIs
<1>9. /\ Token(own[1]) = <<"callback", "f1">> /\ Token(own[2]) = <<"consume", "f1">>
      /\ Token(own[3]) = <<"callback", "f2">> /\ Token(own[4]) = <<"consume", "f2">>
      /\ Token(own[5]) = <<"callback", "out">> /\ Token(own[6]) = <<"consume", "out">>
      /\ terminator = "Get" => Token(own[7]) = <<"wait", "out">>
  BY <1>5, <1>8 DEF Ops, Contracts, Inputs
<1>10. \A k \in DOMAIN own : \E c \in Contracts :
         \/ k + 1 \in DOMAIN own /\ k + 1 > k /\ Token(own[k]) = <<"callback", c>> /\ Token(own[k + 1]) = <<"consume", c>>
         \/ Token(own[k]) = <<"consume", c>>
         \/ c = "out" /\ terminator = "Get" /\ Token(own[k]) = <<"wait", c>>
  <2> SUFFICES ASSUME NEW k \in DOMAIN own
               PROVE  \E c \in Contracts :
         \/ k + 1 \in DOMAIN own /\ k + 1 > k /\ Token(own[k]) = <<"callback", c>> /\ Token(own[k + 1]) = <<"consume", c>>
         \/ Token(own[k]) = <<"consume", c>>
         \/ c = "out" /\ terminator = "Get" /\ Token(own[k]) = <<"wait", c>>
    OBVIOUS
  <2>1. "f1" \in Contracts /\ "f2" \in Contracts /\ "out" \in Contracts
    BY DEF Contracts, Inputs
  <2>2. k \in 1 .. 7 /\ (k = 7 => terminator = "Get")
    BY <1>5
  <2>3. CASE k = 1
    BY <2>1, <2>3, <1>5, <1>9
  <2>4. CASE k = 2
    BY <2>1, <2>4, <1>9
  <2>5. CASE k = 3
    BY <2>1, <2>5, <1>5, <1>9
  <2>6. CASE k = 4
    BY <2>1, <2>6, <1>9
  <2>7. CASE k = 5
    BY <2>1, <2>7, <1>5, <1>9
  <2>8. CASE k = 6
    BY <2>1, <2>8, <1>9
  <2>9. CASE k = 7
    BY <2>1, <2>2, <2>9, <1>9
  <2> QED BY <2>2, <2>3, <2>4, <2>5, <2>6, <2>7, <2>8, <2>9
<1>11. \A t \in Parties : t = "main" \/ t \in Inputs
  BY DEF Parties
<1>12. Unique
  <2> SUFFICES ASSUME NEW t \in Parties, NEW u \in Parties, NEW k \in DOMAIN stack[t], NEW l \in DOMAIN stack[u],
                      Token(stack[t][k]) = Token(stack[u][l])
               PROVE  t = u /\ k = l
    BY DEF Unique
  <2>1. CASE t = "main" /\ u = "main"
    BY <2>1, <1>2, <1>5, <1>9
  <2>2. ASSUME NEW n \in DOMAIN own, NEW i \in Inputs, NEW m \in DOMAIN stack[i]
        PROVE  Token(own[n]) # Token(stack[i][m])
    <3>1. m \in {1, 2}
      BY <1>6
    <3>2. Token(stack[i][m]) = <<"result", i>> \/ Token(stack[i][m]) = <<"produce", i>>
      BY <3>1, <1>6
    <3>3. PICK c \in Contracts : Token(own[n]) \in {<<"callback", c>>, <<"consume", c>>, <<"wait", c>>}
      BY <1>10
    <3> QED BY <3>2, <3>3
  <2>3. CASE t = "main" /\ u # "main"
    BY <2>2, <2>3, <1>2, <1>11
  <2>4. CASE t # "main" /\ u = "main"
    BY <2>2, <2>4, <1>2, <1>11
  <2>5. CASE t # "main" /\ u # "main"
    <3>1. t \in Inputs /\ u \in Inputs
      BY <2>5, <1>11
    <3>2. k \in {1, 2} /\ l \in {1, 2}
      BY <3>1, <1>6
    <3>3. /\ Token(stack[t][1]) = <<"result", t>> /\ Token(stack[t][2]) = <<"produce", t>>
          /\ Token(stack[u][1]) = <<"result", u>> /\ Token(stack[u][2]) = <<"produce", u>>
      BY <3>1, <1>6
    <3> QED BY <3>2, <3>3
  <2> QED BY <2>1, <2>3, <2>4, <2>5
<1>13. Ordered
  <2> SUFFICES ASSUME NEW t \in Parties, NEW k \in DOMAIN stack[t], NEW y \in Followers(Token(stack[t][k]))
               PROVE  \E l \in DOMAIN stack[t] : l > k /\ Token(stack[t][l]) = y
    BY DEF Ordered
  <2>0. \A c : /\ Followers(<<"result", c>>) = {<<"produce", c>>}
               /\ Followers(<<"callback", c>>) = {<<"consume", c>>}
               /\ Followers(<<"produce", c>>) = {} /\ Followers(<<"consume", c>>) = {}
               /\ Followers(<<"wait", c>>) = {}
    BY FollowersAre
  <2>1. CASE t = "main"
    <3>1. PICK c \in Contracts :
            \/ k + 1 \in DOMAIN own /\ k + 1 > k /\ Token(own[k]) = <<"callback", c>> /\ Token(own[k + 1]) = <<"consume", c>>
            \/ Token(own[k]) = <<"consume", c>>
            \/ Token(own[k]) = <<"wait", c>>
      BY <2>1, <1>2, <1>10
    <3>2. y \in Followers(Token(own[k]))
      BY <2>1, <1>2
    <3>3. /\ k + 1 \in DOMAIN own /\ k + 1 > k /\ Token(own[k + 1]) = <<"consume", c>>
          /\ y = <<"consume", c>>
      BY <3>1, <3>2, <2>0
    <3> QED BY <3>3, <2>1, <1>2
  <2>2. CASE t # "main"
    <3>1. t \in Inputs /\ DOMAIN stack[t] = {1, 2}
      BY <2>2, <1>6, <1>11
    <3>2. Token(stack[t][1]) = <<"result", t>> /\ Token(stack[t][2]) = <<"produce", t>>
      BY <3>1, <1>6
    <3>3. k = 1 /\ y = <<"produce", t>>
      BY <3>1, <3>2, <2>0
    <3> QED BY <3>1, <3>2, <3>3
  <2> QED BY <2>1, <2>2
<1>14. CallsOK
  <2> SUFFICES ASSUME NEW t \in Parties, NEW k \in DOMAIN stack[t] PROVE CallOK(stack[t][k])
    BY DEF CallsOK
  <2>1. CASE t = "main"
    <3>1. PICK c \in Contracts :
            \/ k + 1 \in DOMAIN own /\ k + 1 > k /\ Token(own[k]) = <<"callback", c>> /\ Token(own[k + 1]) = <<"consume", c>>
            \/ Token(own[k]) = <<"consume", c>>
            \/ c = "out" /\ terminator = "Get" /\ Token(own[k]) = <<"wait", c>>
      BY <2>1, <1>2, <1>10
    <3> QED BY <3>1, <2>1, <1>2 DEF CallOK, Token
  <2>2. CASE t # "main"
    <3>1. t \in Inputs /\ DOMAIN stack[t] = {1, 2} /\ t # "out"
      BY <2>2, <1>3, <1>6, <1>11
    <3>2. Token(stack[t][1]) = <<"result", t>> /\ Token(stack[t][2]) = <<"produce", t>> /\ stack[t][1].value = {input[t]}
      BY <3>1, <1>6
    <3> QED BY <3>1, <3>2 DEF CallOK, Token
  <2> QED BY <2>1, <2>2
<1>15. \A x : x \in Pending <=>
         \/ \E i \in Inputs : x = <<"result", i>> \/ x = <<"produce", i>>
         \/ \E c \in Contracts : x = <<"callback", c>> \/ x = <<"consume", c>>
         \/ terminator = "Get" /\ x = <<"wait", "out">>
  <2>1. ASSUME NEW x
        PROVE  x \in Pending <=> \/ \E k \in DOMAIN own : Token(own[k]) = x
                                 \/ \E i \in Inputs : \E k \in {1, 2} : Token(stack[i][k]) = x
    <3>1. \A i \in Inputs : DOMAIN stack[i] = {1, 2}
      BY <1>6
    <3> QED BY <3>1, <1>2, <1>3, <1>11, PendingIs DEF Parties
  <2>2. ASSUME NEW x
        PROVE  (\E i \in Inputs : \E k \in {1, 2} : Token(stack[i][k]) = x)
                 <=> \E i \in Inputs : x = <<"result", i>> \/ x = <<"produce", i>>
    BY <1>6
  <2>3. ASSUME NEW x
        PROVE  (\E k \in DOMAIN own : Token(own[k]) = x)
                 <=> \/ \E c \in Contracts : x = <<"callback", c>> \/ x = <<"consume", c>>
                     \/ terminator = "Get" /\ x = <<"wait", "out">>
    <3>1. 1 \in DOMAIN own /\ 2 \in DOMAIN own /\ 3 \in DOMAIN own /\ 4 \in DOMAIN own
          /\ 5 \in DOMAIN own /\ 6 \in DOMAIN own /\ (terminator = "Get" => 7 \in DOMAIN own)
      BY <1>5
    <3>2. ASSUME NEW c \in Contracts, x = <<"callback", c>> \/ x = <<"consume", c>>
          PROVE  \E k \in DOMAIN own : Token(own[k]) = x
      BY <3>1, <3>2, <1>9 DEF Contracts, Inputs
    <3>3. ASSUME terminator = "Get", x = <<"wait", "out">>
          PROVE  \E k \in DOMAIN own : Token(own[k]) = x
      BY <3>1, <3>3, <1>9
    <3>4. ASSUME NEW k \in DOMAIN own, Token(own[k]) = x
          PROVE  \/ \E c \in Contracts : x = <<"callback", c>> \/ x = <<"consume", c>>
                 \/ terminator = "Get" /\ x = <<"wait", "out">>
      BY <3>4, <1>10
    <3> QED BY <3>2, <3>3, <3>4
  <2> QED BY <2>1, <2>2, <2>3
<1>16. CombineTypeOK
  <2>1. flags \in Flags
    BY <1>1, <1>0 DEF Flags
  <2> QED BY <2>1, <1>1, <1>7 DEF CombineTypeOK, StepType, NONE
<1>17. PlanOK
  BY <1>1, <1>0 DEF PlanOK, NotAllFailed
<1>18. ASSUME NEW c \in Contracts PROVE ContractOK(c)
  <2>1. state_[c] = {} /\ result_[c] = NONE /\ callback_[c] = FALSE /\ deleted[c] = 0
    BY <1>1
  <2>2. <<"consume", c>> \in Pending /\ <<"callback", c>> \in Pending /\ <<"delete", c>> \notin Pending
    BY <1>15
  <2>3. Supplied(c) <=> c \in Inputs
    BY <1>1 DEF Supplied
  <2>4. c \in Inputs => <<"produce", c>> \in Pending /\ <<"result", c>> \in Pending
    BY <1>15
  <2>5. c \notin Inputs => <<"produce", c>> \notin Pending
    BY <1>15
  <2>6. ~Met(c)
    BY <2>1 DEF Met
  <2> QED BY <2>1, <2>2, <2>3, <2>4, <2>5, <2>6 DEF ContractOK
<1>19. \A i \in Inputs : Early(i)
  BY <1>1, <1>3 DEF Early, Met
<1>20. \A op \in Ops \ {"result", "produce", "callback", "consume", "wait"} : \A c : <<op, c>> \notin Pending
  BY <1>15
<1>21. \A i \in Inputs : Phase(i)
  BY <1>19, <1>20 DEF Phase, Ops
<1>22. FlagsOK
  BY <1>1, <1>19 DEF FlagsOK
<1>23. SetsOK
  <2>1. ~Decided
    <3>1. "f1" \in Inputs
      BY DEF Inputs
    <3>2. combinator \in {"Both", "First", "FirstOk", "BothOk"}
      BY <1>0
    <3> QED BY <3>1, <3>2, <1>19 DEF Decided
  <2>2. Setters = {}
    BY <1>20 DEF Setters, Ops
  <2> QED BY <2>1, <2>2, <1>1 DEF SetsOK
<1>24. GetOK
  <2>1. terminator = "Get" => <<"wait", "out">> \in Tokens(stack["main"])
    BY <1>2, <1>5, <1>9 DEF Tokens
  <2> QED BY <2>1, <1>1, <1>20 DEF GetOK, Ops
<1> QED BY <1>12, <1>13, <1>14, <1>16, <1>17, <1>18, <1>21, <1>22, <1>23, <1>24 DEF CombineInd

\* Every step keeps the inductive invariant.
LEMMA CombineStep ==
  ASSUME CombineInd, [CombineNext]_combineVars
  PROVE  CombineInd'
<1>1. CASE UNCHANGED combineVars
  <2>1. UNCHANGED <<combinator, terminator, input, state_, result_, callback_, deleted, flags, stored, sets,
                    received, event, stack>>
    BY <1>1 DEF combineVars, plan, contracts, protected
  <2>2. UNCHANGED Pending
    BY <2>1 DEF Pending, Tokens, Token
  <2>3. UNCHANGED plan /\ UNCHANGED Promised
    BY <2>1 DEF plan, Promised
  <2>4. /\ CombineTypeOK /\ PlanOK /\ Unique /\ Ordered /\ CallsOK
        /\ (\A d \in Contracts : ContractOK(d)) /\ (\A j \in Inputs : Phase(j))
        /\ FlagsOK /\ SetsOK /\ GetOK
    BY DEF CombineInd
  <2>5. CombineTypeOK' /\ PlanOK'
    BY <2>1, <2>4 DEF CombineTypeOK, PlanOK, NotAllFailed, Flags
  <2>6. Unique' /\ Ordered' /\ CallsOK'
    BY <2>1, <2>3, <2>4 DEF Unique, Ordered, CallsOK, CallOK, Token, Followers
  <2>7. ASSUME NEW c \in Contracts PROVE ContractOK(c)'
    <3>1. Supplied(c)' <=> Supplied(c)
      BY <2>1 DEF Supplied
    <3>2. \A op : <<op, c>> \in Pending' <=> <<op, c>> \in Pending
      BY <2>2
    <3>3. ContractOK(c) /\ state_'[c] = state_[c] /\ result_'[c] = result_[c] /\ callback_'[c] = callback_[c]
          /\ deleted'[c] = deleted[c]
      BY <2>1, <2>4
    <3> QED BY <3>1, <3>2, <3>3, <2>3, ContractKept
  <2>8. (\A i \in Inputs : Phase(i)') /\ FlagsOK' /\ SetsOK'
    <3>1. \A i \in Inputs : Early(i)' <=> Early(i)
      BY <2>1, <2>2 DEF Early, Met
    <3>2. \A op, i : <<op, i>> \in Pending' <=> <<op, i>> \in Pending
      BY <2>2
    <3> QED BY <3>1, <3>2, <2>1, <2>3, <2>4, CombineKept
  <2>9. GetOK'
    <3>1. \A op, i : <<op, i>> \in Pending' <=> <<op, i>> \in Pending
      BY <2>2
    <3>2. Met("out") => Met("out")'
      BY <2>1 DEF Met
    <3> QED BY <3>1, <3>2, <2>1, <2>3, <2>4, GetKept
  <2> QED BY <2>5, <2>6, <2>7, <2>8, <2>9 DEF CombineInd
<1>2. ASSUME NEW t \in Parties, RunThread(t) \/ SpuriousWake(t)
      PROVE  CombineInd'
  <2>1. CASE EmplaceResult(t)
    BY <2>1, EmplaceResultKeeps
  <2>2. CASE EmplaceCallback(t)
    BY <2>2, EmplaceCallbackKeeps
  <2>3. CASE RendezvousProduce(t) \/ RendezvousConsume(t)
    BY <2>3, MeetKeeps
  <2>4. CASE Delete(t)
    BY <2>4, DeleteKeeps
  <2>5. CASE CallCombinator(t)
    BY <2>5, CallCombinatorKeeps
  <2>6. CASE Store(t)
    BY <2>6, StoreKeeps
  <2>7. CASE Join(t)
    BY <2>7, JoinKeeps
  <2>8. CASE Fail(t)
    BY <2>8, FailKeeps
  <2>9. CASE Exchange(t)
    BY <2>9, ExchangeKeeps
  <2>10. CASE SetOut(t)
    BY <2>10, SetOutKeeps
  <2>11. CASE CallOut(t)
    BY <2>11, CallOutKeeps
  <2>12. CASE EmplaceGot(t)
    BY <2>12, EmplaceGotKeeps
  <2>13. CASE Fire(t)
    BY <2>13, FireKeeps
  <2>14. CASE FutexWakeAll(t)
    BY <2>14, FutexWakeAllKeeps
  <2>15. CASE Wait(t)
    BY <2>15, WaitKeeps
  <2>16. CASE FutexWait(t) \/ SpuriousWake(t)
    BY <2>16, FutexWaitKeeps
  <2> QED BY <1>2, <2>1, <2>2, <2>3, <2>4, <2>5, <2>6, <2>7, <2>8, <2>9, <2>10, <2>11, <2>12, <2>13,
             <2>14, <2>15, <2>16 DEF RunThread
<1>3. CASE AllDone
  BY <1>1, <1>3 DEF AllDone
<1>4. CombineNext => AllDone \/ \E t \in Parties : RunThread(t) \/ SpuriousWake(t)
  BY Zenon DEF CombineNext
<1> QED BY <1>1, <1>2, <1>3, <1>4

\* The invariant of the runs follows from it.
LEMMA CombineImplies ==
  ASSUME CombineInd
  PROVE  ContractInv /\ GotIsPromised
<1>1. /\ CombineTypeOK /\ PlanOK /\ Ordered
      /\ (\A c \in Contracts : ContractOK(c)) /\ (\A i \in Inputs : Phase(i))
      /\ FlagsOK /\ SetsOK /\ GetOK
  BY DEF CombineInd
<1>2. ASSUME NEW c \in Contracts
      PROVE  /\ state_[c] \subseteq {"Producer", "Consumer"}
             /\ deleted[c] <= 1 /\ (deleted[c] = 1 => Met(c) /\ <<"delete", c>> \notin Pending)
  <2>1. state_[c] \subseteq {"Producer", "Consumer"}
    BY <1>1 DEF CombineTypeOK
  <2>2. ContractOK(c)
    BY <1>1
  <2> QED BY <2>1, <2>2 DEF ContractOK
\* Once a state has been deleted nothing of its contract is pending.
<1>3. ASSUME NEW c \in Contracts, deleted[c] = 1
      PROVE  /\ \A op \in {"call", "delete", "store", "join", "exchange", "set", "fail"} : <<op, c>> \notin Pending
             /\ \A op \in {"result", "produce", "callback", "consume"} : <<op, c>> \notin Pending
  <2>1. Met(c) /\ <<"delete", c>> \notin Pending
    BY <1>2, <1>3
  <2>2. \A op \in {"call", "delete", "store", "join", "exchange", "set", "fail"} : <<op, c>> \notin Pending
    <3> SUFFICES ASSUME NEW op \in {"call", "delete", "store", "join", "exchange", "set", "fail"},
                        <<op, c>> \in Pending
                 PROVE  FALSE
      OBVIOUS
    <3>1. <<"delete", c>> \in Pending
      BY <1>1, <1>2, Called
    <3> QED BY <3>1, <2>1
  <2>3. <<"produce", c>> \notin Pending /\ <<"consume", c>> \notin Pending
    BY <2>1, <1>1 DEF ContractOK, Met
  <2>4. <<"produce", c>> \in Followers(<<"result", c>>) /\ <<"consume", c>> \in Followers(<<"callback", c>>)
    BY FollowersAre
  <2>5. <<"result", c>> \notin Pending /\ <<"callback", c>> \notin Pending
    BY <2>3, <2>4, <1>1, Follow
  <2> QED BY <2>2, <2>3, <2>5
<1>4. \A t \in Parties : \A k \in DOMAIN stack[t] : <<stack[t][k].op, stack[t][k].c>> \in Pending
                                                   /\ stack[t][k].c \in Contracts
  <2> SUFFICES ASSUME NEW t \in Parties, NEW k \in DOMAIN stack[t]
               PROVE  <<stack[t][k].op, stack[t][k].c>> \in Pending /\ stack[t][k].c \in Contracts
    OBVIOUS
  <2>1. Token(stack[t][k]) \in Pending
    BY PendingIs
  <2>2. stack[t] \in Seq(StepType)
    BY <1>1, TypeIs
  <2>3. stack[t][k] \in StepType
    BY <2>2, ElementOfSeq, LenProperties
  <2> QED BY <2>1, <2>3 DEF Token, StepType
<1>5. CallsAreReady
  <2> SUFFICES ASSUME NEW t \in Parties, NEW k \in DOMAIN stack[t], stack[t][k].op = "call"
               PROVE  result_[stack[t][k].c] # NONE /\ callback_[stack[t][k].c]
    BY DEF CallsAreReady
  <2>1. PICK c \in Contracts : c = stack[t][k].c /\ <<"call", c>> \in Pending
    BY <1>4
  <2>2. result_[c] # NONE /\ callback_[c]
    BY <2>1, <1>1, <1>2, Called
  <2> QED BY <2>1, <2>2
<1>6. NoUseAfterDelete
  <2> SUFFICES ASSUME NEW c \in Contracts, deleted[c] = 1, NEW t \in Parties, NEW k \in DOMAIN stack[t],
                      stack[t][k].c = c
               PROVE  stack[t][k].op \notin {"result", "produce", "callback", "consume", "call", "delete"}
    BY <1>2 DEF NoUseAfterDelete
  <2>1. <<stack[t][k].op, c>> \in Pending
    BY <1>4
  <2> QED BY <2>1, <1>3
<1>7. SetOnce
  BY <1>1 DEF SetsOK, SetOnce
\* Both inputs have told the combinator when their states are gone.
<1>8. ASSUME NEW i \in Inputs, deleted[i] = 1 PROVE ~Early(i)
  <2>1. i \in Contracts
    BY DEF Contracts
  <2> QED BY <2>1, <1>2, <1>3, <1>8 DEF Early
<1>9. PromiseKept
  <2> SUFFICES ASSUME deleted["f1"] = 1, deleted["f2"] = 1 PROVE sets = 1
    BY DEF PromiseKept
  <2>1. \A i \in Inputs : deleted[i] = 1 /\ i \in Contracts
    BY DEF Inputs, Contracts
  <2>2. Decided
    <3>1. \A i \in Inputs : ~Early(i)
      BY <2>1, <1>8
    <3>2. combinator \in {"Both", "First", "FirstOk", "BothOk"}
      BY <1>1 DEF PlanOK
    <3>3. "f1" \in Inputs
      BY DEF Inputs
    <3> QED BY <3>1, <3>2, <3>3 DEF Decided
  <2>3. Setters = {}
    BY <2>1, <1>3 DEF Setters
  <2> QED BY <2>2, <2>3, <1>1 DEF SetsOK
<1>10. StoragesBuilt
  <2>1. ASSUME deleted["f1"] = 1, deleted["f2"] = 1, NEW i \in Inputs,
               combinator = "Both" \/ (combinator = "BothOk" /\ input[i].ok)
        PROVE  stored[i] # NONE
    <3>1. ~Early(i)
      BY <2>1, <1>8 DEF Inputs
    <3>2. stored[i] = {input[i]}
      BY <3>1, <2>1, <1>1 DEF Phase
    <3> QED BY <3>2 DEF NONE
  <2>2. ASSUME terminator = "Get", stack["main"] = << >> PROVE received # NONE
    <3>1. Tokens(stack["main"]) = {}
      BY <2>2 DEF Tokens
    <3>2. received \in Promised
      BY <3>1, <2>2, <1>1 DEF GetOK
    <3> QED BY <3>2, <1>1, PromisedIs
  <2> QED BY <2>1, <2>2 DEF StoragesBuilt
<1>11. FrameIsFree
  <2> SUFFICES ASSUME terminator = "Get", stack["main"] = << >>, NEW t \in Parties, NEW k \in DOMAIN stack[t],
                      stack[t][k].c = "out"
               PROVE  stack[t][k].op \notin {"call", "emplace", "fire"}
    BY DEF FrameIsFree
  <2>1. Tokens(stack["main"]) = {}
    BY DEF Tokens
  <2>2. <<stack[t][k].op, "out">> \in Pending
    BY <1>4
  <2> QED BY <2>1, <2>2, <1>1 DEF GetOK
<1>12. StatesDeleted
  <2> SUFFICES ASSUME \A t \in Parties : stack[t] = << >>, NEW c \in Contracts
               PROVE  deleted[c] = 1
    BY DEF StatesDeleted
  <2>1. \A x : x \notin Pending
    BY PendingIs
  <2>2. \A d \in Contracts : Supplied(d) => deleted[d] = 1
    <3> SUFFICES ASSUME NEW d \in Contracts, Supplied(d) PROVE deleted[d] = 1
      OBVIOUS
    <3>1. ContractOK(d) /\ state_[d] \subseteq {"Producer", "Consumer"}
      BY <1>1, <1>2
    <3>2. Met(d)
      BY <3>1, <2>1 DEF ContractOK, Met
    <3> QED BY <3>1, <3>2, <2>1 DEF ContractOK
  <2>3. \A i \in Inputs : deleted[i] = 1
    BY <2>2 DEF Supplied, Contracts
  <2>4. sets = 1
    BY <2>3, <1>9 DEF PromiseKept, Inputs
  <2>5. Supplied(c)
    BY <2>4 DEF Supplied
  <2> QED BY <2>2, <2>5
<1>13. GotIsPromised
  BY <1>1 DEF GetOK, GotIsPromised
<1> QED BY <1>1, <1>5, <1>6, <1>7, <1>9, <1>10, <1>11, <1>12, <1>13 DEF ContractInv

-----------------------------------------------------------------------------
(* The theorems                                                            *)

LEMMA CombineAlways == CombineSpec /\ NotAllFailed => []CombineInd
<1>1. CombineInit /\ NotAllFailed => CombineInd
  BY CombineBegins
<1> QED BY <1>1, CombineStep, PTL DEF CombineSpec

\* Whatever the two producers set and whoever comes first or second to which contract:
\* the callback of a contract is called when it and the result are there, the state is
\* deleted once and not used after that, also the states of an input that came too
\* late; the combinator calls Set once, before its last reference is gone, and never
\* touches the frame of a Get that has returned (contract.hpp, combine/par, get.hpp).
THEOREM ContractSafe == CombineSpec /\ NotAllFailed => []ContractInv
BY CombineAlways, CombineImplies, PTL

\* The value that Get returns is the one that the combinator promises: the pair, the
\* first value, a success if there is one and else an error, or both values or an error.
THEOREM GetSafe == CombineSpec /\ NotAllFailed => []GotIsPromised
BY CombineAlways, CombineImplies, PTL

-----------------------------------------------------------------------------
(* FutureChain                                                             *)

USE ChainAssumption

\* The callback that waits for the future before future k.
CallbackOf(con, val, k) == k > 0 /\ con[k - 1] /\ val[k - 1] = {}

\* O are the owners of the promise of future k, one kind of owner at a time.
Kinds(O, k, td, pl, tm, inn, callback) ==
  /\ \A o \in O :
       \/ \E t \in Threads : o = <<"thread", t>>
       \/ \E s \in pl : o = <<"pool", s>>
       \/ \E s \in tm : o = <<"timer", s>>
       \/ \E s \in inn : o = <<"inner", s>>
       \/ o = <<"callback", k - 1>>
  /\ \A t \in Threads : <<"thread", t>> \in O <=> \E s \in td[t] : Owns(s, k)
  /\ \A s : <<"pool", s>> \in O <=> s \in pl /\ Owns(s, k)
  /\ \A s : <<"timer", s>> \in O <=> s \in tm /\ Owns(s, k)
  /\ \A s : <<"inner", s>> \in O <=> s \in inn /\ Owns(s, k)
  /\ <<"callback", k - 1>> \in O <=> callback

LEMMA OwnersAre ==
  ASSUME NEW k \in Nat
  PROVE  /\ Kinds(Owners(k), k, todo, pool, timers, inner, CallbackOf(consumed, value, k))
         /\ Kinds(Owners(k)', k, todo', pool', timers', inner', CallbackOf(consumed', value', k))
<1>1. Kinds(Owners(k), k, todo, pool, timers, inner, CallbackOf(consumed, value, k))
  BY DEF Kinds, Owners, CallbackOf
<1>2. Kinds(Owners(k)', k, todo', pool', timers', inner', CallbackOf(consumed', value', k))
  BY DEF Kinds, Owners, CallbackOf, Owns
<1> QED BY <1>1, <1>2

\* PromiseOwned for one future, without counting.
Sole(k) == IF value[k] = {} THEN \E o : Owners(k) = {o} ELSE Owners(k) = {}

\* What stage k makes of the result r, after its user's function has been called.
Stage(k, r) ==
  LET user == [name |-> k, ok |-> TRUE \in outcome[k]] IN
  CASE stage[k] = "Map" -> R!Made(user, r)
    [] stage[k] = "MapOk" -> R!Map(r, user)
    [] stage[k] = "AndThen" -> R!AndThen(r, user)
    [] stage[k] = "OrElse" -> R!OrElse(r, user)
    [] OTHER -> r

\* v is what stage k makes of the value that the future before has.
Right(k, v) ==
  IF k = 0 THEN v = Start(TRUE \in outcome[0]) ELSE \E r \in value[k - 1] : v = Stage(k, r)

\* A step is about a future of the pipe: what it sets is right, what it calls a callback
\* with is the value there, and a function is called with the value it is for.
StepOK(s) ==
  /\ s.k <= built
  /\ s.op = "set" => Right(s.k, s.v)
  /\ s.op = "call" => consumed[s.k] /\ s.v \in value[s.k]
  /\ s.op = "user" /\ s.k = 0 => s.v = Start(TRUE \in outcome[0])
  /\ s.op = "user" /\ s.k > 0 =>
       /\ s.v \in value[s.k - 1]
       /\ stage[s.k] \notin {"Flatten", "After"} /\ ~Skips(stage[s.k], s.v)

StepsOK ==
  /\ \A t \in Threads : \A s \in todo[t] : StepOK(s)
  /\ \A s \in pool : StepOK(s) /\ s.op # "call"
  /\ \A s \in timers \cup inner : StepOK(s) /\ s.op = "set"

PipeOK ==
  /\ \A k \in Futures : consumed[k] <=> k < built \/ (k = built /\ main # "build")
  /\ \A k \in Futures : \A v \in value[k] : k <= built /\ Right(k, v)
  /\ \A v \in got : main \in {"get", "done"} /\ v \in value[built]

\* TypeOK, with the domains of the functions, and sets of at most one element as such.
Types ==
  /\ stage \in [Futures -> Combinators]
  /\ built \in Futures
  /\ main \in {"build", "get", "done", "detached"}
  /\ value \in [Futures -> SUBSET Values]
  /\ \A k \in Futures : \A v, w \in value[k] : v = w
  /\ consumed \in [Futures -> BOOLEAN]
  /\ runtime \in [Futures -> {"inline", "pool"}]
  /\ outcome \in [Futures -> SUBSET BOOLEAN]
  /\ todo \in [Threads -> SUBSET Steps]
  /\ \A t \in Threads : \A r, s \in todo[t] : r = s
  /\ pool \subseteq Steps /\ timers \subseteq Steps /\ inner \subseteq Steps
  /\ got \subseteq Values

ChainInd == Types /\ StepsOK /\ PipeOK /\ RunsInRuntime /\ \A k \in 0 .. built : Sole(k)

-----------------------------------------------------------------------------
(* What the parts of the invariant say                                     *)

LEMMA AtMostOne ==
  ASSUME NEW S, \A x, y \in S : x = y
  PROVE  Cardinality(S) <= 1
<1>1. CASE S = {}
  BY <1>1, FS_EmptySet
<1>2. CASE S # {}
  <2>1. PICK x : S = {x}
    BY <1>2
  <2> QED BY <2>1, FS_Singleton
<1> QED BY <1>1, <1>2

LEMMA IndImplies == ChainInd => ChainInv
<1> SUFFICES ASSUME ChainInd PROVE ChainInv
  OBVIOUS
<1>1. \A k \in Futures : Cardinality(value[k]) <= 1
  BY AtMostOne DEF ChainInd, Types
<1>2. \A t \in Threads : Cardinality(todo[t]) <= 1
  BY AtMostOne DEF ChainInd, Types
<1>3. TypeOK
  BY <1>1, <1>2 DEF ChainInd, Types, TypeOK
<1>4. PromiseOwned
  <2> SUFFICES ASSUME NEW k \in 0 .. built
               PROVE  Cardinality(Owners(k)) = IF value[k] = {} THEN 1 ELSE 0
    BY DEF PromiseOwned
  <2>1. k \in Nat /\ Sole(k)
    BY DEF ChainInd, Types, Futures
  <2> QED BY <2>1, FS_Singleton, FS_EmptySet DEF Sole
<1> QED BY <1>3, <1>4 DEF ChainInv, ChainInd

\* A thread with something to do.
LEMMA ArgIs ==
  ASSUME Types, NEW t \in Threads, NEW op, Will(t, op)
  PROVE  /\ Arg(t) \in Steps /\ Arg(t).op = op
         /\ todo[t] = {Arg(t)}
<1>1. PICK s \in todo[t] : s.op = op
  BY DEF Will
<1>2. Arg(t) \in todo[t]
  BY <1>1 DEF Arg
<1>3. Arg(t) = s
  BY <1>2 DEF Types
<1> QED BY <1>1, <1>2, <1>3 DEF Types

-----------------------------------------------------------------------------
(* How ownership moves                                                     *)

\* Thread t, which has done s, does n next, or leaves it to the pool, a timer or a future.
HandsOn(t, n) ==
  \/ todo' = [todo EXCEPT ![t] = {n}] /\ UNCHANGED <<pool, timers, inner>>
  \/ /\ todo' = [todo EXCEPT ![t] = {}]
     /\ \/ pool' = pool \cup {n} /\ UNCHANGED <<timers, inner>>
        \/ timers' = timers \cup {n} /\ UNCHANGED <<pool, inner>>
        \/ inner' = inner \cup {n} /\ UNCHANGED <<pool, timers>>

\* The owners of a promise are the same when the steps about it are where they were.
LEMMA SameOwners ==
  ASSUME NEW k \in Nat,
         \A u \in Threads : (\E s \in todo'[u] : Owns(s, k)) <=> (\E s \in todo[u] : Owns(s, k)),
         \A s : Owns(s, k) => (s \in pool' <=> s \in pool) /\ (s \in timers' <=> s \in timers)
                              /\ (s \in inner' <=> s \in inner),
         CallbackOf(consumed', value', k) <=> CallbackOf(consumed, value, k)
  PROVE  Owners(k)' = Owners(k)
<1> DEFINE O == Owners(k)
           P == Owners(k)'
<1>1. /\ Kinds(O, k, todo, pool, timers, inner, CallbackOf(consumed, value, k))
      /\ Kinds(P, k, todo', pool', timers', inner', CallbackOf(consumed', value', k))
  BY OwnersAre
<1> HIDE DEF O, P
<1>2. \A t \in Threads : <<"thread", t>> \in P <=> <<"thread", t>> \in O
  BY <1>1, Zenon DEF Kinds
<1>3. \A s : <<"pool", s>> \in P <=> <<"pool", s>> \in O
  <2>1. /\ \A s : <<"pool", s>> \in O <=> s \in pool /\ Owns(s, k)
        /\ \A s : <<"pool", s>> \in P <=> s \in pool' /\ Owns(s, k)
    BY <1>1, Zenon DEF Kinds
  <2> QED BY <2>1
<1>4. \A s : <<"timer", s>> \in P <=> <<"timer", s>> \in O
  <2>1. /\ \A s : <<"timer", s>> \in O <=> s \in timers /\ Owns(s, k)
        /\ \A s : <<"timer", s>> \in P <=> s \in timers' /\ Owns(s, k)
    BY <1>1, Zenon DEF Kinds
  <2> QED BY <2>1
<1>5. \A s : <<"inner", s>> \in P <=> <<"inner", s>> \in O
  <2>1. /\ \A s : <<"inner", s>> \in O <=> s \in inner /\ Owns(s, k)
        /\ \A s : <<"inner", s>> \in P <=> s \in inner' /\ Owns(s, k)
    BY <1>1, Zenon DEF Kinds
  <2> QED BY <2>1
<1>6. <<"callback", k - 1>> \in P <=> <<"callback", k - 1>> \in O
  BY <1>1, Zenon DEF Kinds
<1>7. \A o \in O \cup P :
        \/ \E t \in Threads : o = <<"thread", t>>
        \/ \E s : o = <<"pool", s>>
        \/ \E s : o = <<"timer", s>>
        \/ \E s : o = <<"inner", s>>
        \/ o = <<"callback", k - 1>>
  BY <1>1, Zenon DEF Kinds
<1>8. \A o \in O \cup P : o \in P <=> o \in O
  BY <1>2, <1>3, <1>4, <1>5, <1>6, <1>7, Zenon
<1>9. P = O
  BY <1>8
<1> QED BY <1>9 DEF O, P

\* What it means that o is the only owner.
LEMMA OnlyOwner ==
  ASSUME NEW k \in Nat, NEW o, Owners(k) = {o}
  PROVE  /\ \A t \in Threads : <<"thread", t>> # o => \A s \in todo[t] : ~ Owns(s, k)
         /\ \A s \in pool : <<"pool", s>> # o => ~ Owns(s, k)
         /\ \A s \in timers : <<"timer", s>> # o => ~ Owns(s, k)
         /\ \A s \in inner : <<"inner", s>> # o => ~ Owns(s, k)
         /\ CallbackOf(consumed, value, k) => o = <<"callback", k - 1>>
<1>1. Kinds(Owners(k), k, todo, pool, timers, inner, CallbackOf(consumed, value, k))
  BY OwnersAre
<1>2. \A p \in Owners(k) : p = o
  OBVIOUS
<1> QED BY <1>1, <1>2, Zenon DEF Kinds

\* The other way round.
LEMMA NoOther ==
  ASSUME NEW P, NEW k, NEW td, NEW pl, NEW tm, NEW inn, NEW cb \in BOOLEAN,
         Kinds(P, k, td, pl, tm, inn, cb), NEW o,
         \A t \in Threads : <<"thread", t>> # o => \A s \in td[t] : ~ Owns(s, k),
         \A s \in pl : <<"pool", s>> # o => ~ Owns(s, k),
         \A s \in tm : <<"timer", s>> # o => ~ Owns(s, k),
         \A s \in inn : <<"inner", s>> # o => ~ Owns(s, k),
         cb => o = <<"callback", k - 1>>
  PROVE  P \subseteq {o}
<1> SUFFICES ASSUME NEW p \in P PROVE p = o
  OBVIOUS
<1>1. CASE \E t \in Threads : p = <<"thread", t>>
  <2>1. \A t \in Threads : <<"thread", t>> \in P => \E s \in td[t] : Owns(s, k)
    BY Zenon DEF Kinds
  <2> QED BY <1>1, <2>1
<1>2. CASE \E s \in pl : p = <<"pool", s>>
  <2>1. \A s : <<"pool", s>> \in P => s \in pl /\ Owns(s, k)
    BY Zenon DEF Kinds
  <2> QED BY <1>2, <2>1
<1>3. CASE \E s \in tm : p = <<"timer", s>>
  <2>1. \A s : <<"timer", s>> \in P => s \in tm /\ Owns(s, k)
    BY Zenon DEF Kinds
  <2> QED BY <1>3, <2>1
<1>4. CASE \E s \in inn : p = <<"inner", s>>
  <2>1. \A s : <<"inner", s>> \in P => s \in inn /\ Owns(s, k)
    BY Zenon DEF Kinds
  <2> QED BY <1>4, <2>1
<1>5. CASE p = <<"callback", k - 1>>
  <2>1. <<"callback", k - 1>> \in P => cb
    BY Zenon DEF Kinds
  <2> QED BY <1>5, <2>1
<1> QED BY <1>1, <1>2, <1>3, <1>4, <1>5, Zenon DEF Kinds

LEMMA OwnedNext ==
  ASSUME NEW k \in Nat, NEW o \in Owners(k)',
         \A t \in Threads : <<"thread", t>> # o => \A s \in todo'[t] : ~ Owns(s, k),
         \A s \in pool' : <<"pool", s>> # o => ~ Owns(s, k),
         \A s \in timers' : <<"timer", s>> # o => ~ Owns(s, k),
         \A s \in inner' : <<"inner", s>> # o => ~ Owns(s, k),
         CallbackOf(consumed', value', k) => o = <<"callback", k - 1>>
  PROVE  Owners(k)' = {o}
<1> DEFINE P == Owners(k)'
           cb == CallbackOf(consumed', value', k)
<1>1. Kinds(P, k, todo', pool', timers', inner', cb) /\ o \in P
  BY OwnersAre
<1>2. cb \in BOOLEAN /\ (cb => o = <<"callback", k - 1>>)
  BY DEF CallbackOf
<1> HIDE DEF P, cb
<1>3. P \subseteq {o}
  BY <1>1, <1>2, NoOther
<1>4. P = {o}
  BY <1>1, <1>3
<1> QED BY <1>4 DEF P

LEMMA UnownedNext ==
  ASSUME NEW k \in Nat,
         \A t \in Threads : \A s \in todo'[t] : ~ Owns(s, k),
         \A s \in pool' : ~ Owns(s, k),
         \A s \in timers' : ~ Owns(s, k),
         \A s \in inner' : ~ Owns(s, k),
         ~ CallbackOf(consumed', value', k)
  PROVE  Owners(k)' = {}
<1> DEFINE P == Owners(k)'
           cb == CallbackOf(consumed', value', k)
<1>1. Kinds(P, k, todo', pool', timers', inner', cb) /\ ~ cb
  BY OwnersAre
<1>2. cb \in BOOLEAN
  BY DEF CallbackOf
<1> HIDE DEF P, cb
<1>3. PICK o : o = <<"callback", k - 1>>
  OBVIOUS
<1>4. P \subseteq {o}
  BY <1>1, <1>2, NoOther
<1>5. o \notin P
  BY <1>1, <1>3, Zenon DEF Kinds
<1>6. P = {}
  BY <1>4, <1>5
<1> QED BY <1>6 DEF P

\* A step about the same promise is its owner now.
LEMMA HandedOn ==
  ASSUME Types, NEW t \in Threads, NEW s \in Steps, todo[t] = {s}, NEW n, HandsOn(t, n),
         UNCHANGED <<consumed, value>>,
         NEW k \in Nat, Owns(n, k) <=> Owns(s, k), Sole(k)
  PROVE  Sole(k)'
<1>1. todo'[t] \in {{n}, {}} /\ \A u \in Threads \ {t} : todo'[u] = todo[u]
  BY DEF Types, HandsOn
<1>2. CASE ~ Owns(s, k)
  <2>1. \A u \in Threads : (\E r \in todo'[u] : Owns(r, k)) <=> (\E r \in todo[u] : Owns(r, k))
    BY <1>1, <1>2
  <2>2. \A r : Owns(r, k) => (r \in pool' <=> r \in pool) /\ (r \in timers' <=> r \in timers)
                             /\ (r \in inner' <=> r \in inner)
    BY <1>2 DEF HandsOn
  <2>3. Owners(k)' = Owners(k)
    BY <2>1, <2>2, SameOwners
  <2> QED BY <2>3 DEF Sole
<1>3. CASE Owns(s, k)
  <2>1. <<"thread", t>> \in Owners(k)
    BY <1>3, OwnersAre DEF Kinds
  <2>2. value[k] = {} /\ Owners(k) = {<<"thread", t>>}
    BY <2>1 DEF Sole
  <2>3. /\ \A u \in Threads \ {t} : \A r \in todo[u] : ~ Owns(r, k)
        /\ \A r \in pool \cup timers \cup inner : ~ Owns(r, k)
        /\ ~ CallbackOf(consumed, value, k)
    <3>1. PICK o : o = <<"thread", t>>
      OBVIOUS
    <3>2. Owners(k) = {o}
      BY <2>2, <3>1
    <3>3. /\ \A u \in Threads : <<"thread", u>> # o => \A r \in todo[u] : ~ Owns(r, k)
          /\ \A r \in pool : <<"pool", r>> # o => ~ Owns(r, k)
          /\ \A r \in timers : <<"timer", r>> # o => ~ Owns(r, k)
          /\ \A r \in inner : <<"inner", r>> # o => ~ Owns(r, k)
          /\ CallbackOf(consumed, value, k) => o = <<"callback", k - 1>>
      BY <3>2, OnlyOwner
    <3> QED BY <3>1, <3>3
  <2>4. ~ CallbackOf(consumed', value', k)
    BY <2>3
  <2>5. CASE todo' = [todo EXCEPT ![t] = {n}] /\ UNCHANGED <<pool, timers, inner>>
    <3>1. todo'[t] = {n}
      BY <2>5 DEF Types
    <3>2. <<"thread", t>> \in Owners(k)'
      BY <1>3, <3>1, OwnersAre DEF Kinds
    <3>3. Owners(k)' = {<<"thread", t>>}
      BY <1>1, <2>3, <2>4, <2>5, <3>2, OwnedNext
    <3> QED BY <2>2, <3>3 DEF Sole
  <2>6. CASE todo' = [todo EXCEPT ![t] = {}] /\ pool' = pool \cup {n} /\ UNCHANGED <<timers, inner>>
    <3>1. todo'[t] = {}
      BY <2>6 DEF Types
    <3>2. <<"pool", n>> \in Owners(k)'
      BY <1>3, <2>6, OwnersAre DEF Kinds
    <3>3. Owners(k)' = {<<"pool", n>>}
      BY <1>1, <2>3, <2>4, <2>6, <3>1, <3>2, OwnedNext
    <3> QED BY <2>2, <3>3 DEF Sole
  <2>7. CASE todo' = [todo EXCEPT ![t] = {}] /\ timers' = timers \cup {n} /\ UNCHANGED <<pool, inner>>
    <3>1. todo'[t] = {}
      BY <2>7 DEF Types
    <3>2. <<"timer", n>> \in Owners(k)'
      BY <1>3, <2>7, OwnersAre DEF Kinds
    <3>3. Owners(k)' = {<<"timer", n>>}
      BY <1>1, <2>3, <2>4, <2>7, <3>1, <3>2, OwnedNext
    <3> QED BY <2>2, <3>3 DEF Sole
  <2>8. CASE todo' = [todo EXCEPT ![t] = {}] /\ inner' = inner \cup {n} /\ UNCHANGED <<pool, timers>>
    <3>1. todo'[t] = {}
      BY <2>8 DEF Types
    <3>2. <<"inner", n>> \in Owners(k)'
      BY <1>3, <2>8, OwnersAre DEF Kinds
    <3>3. Owners(k)' = {<<"inner", n>>}
      BY <1>1, <2>3, <2>4, <2>8, <3>1, <3>2, OwnedNext
    <3> QED BY <2>2, <3>3 DEF Sole
  <2> QED BY <2>5, <2>6, <2>7, <2>8 DEF HandsOn
<1> QED BY <1>2, <1>3

\* An idle thread takes a step from the pool or from the users' futures.
LEMMA TakenOver ==
  ASSUME Types, NEW t \in Threads, todo[t] = {}, NEW s,
         todo' = [todo EXCEPT ![t] = {s}],
         \/ s \in pool /\ pool' = pool \ {s} /\ UNCHANGED inner
         \/ s \in inner /\ inner' = inner \ {s} /\ UNCHANGED pool,
         UNCHANGED <<consumed, value, timers>>,
         NEW k \in Nat, Sole(k)
  PROVE  Sole(k)'
<1>1. todo'[t] = {s} /\ \A u \in Threads \ {t} : todo'[u] = todo[u]
  BY DEF Types
<1>2. CASE ~ Owns(s, k)
  <2>1. \A u \in Threads : (\E r \in todo'[u] : Owns(r, k)) <=> (\E r \in todo[u] : Owns(r, k))
    BY <1>1, <1>2
  <2>2. \A r : Owns(r, k) => (r \in pool' <=> r \in pool) /\ (r \in timers' <=> r \in timers)
                             /\ (r \in inner' <=> r \in inner)
    BY <1>2
  <2>3. Owners(k)' = Owners(k)
    BY <2>1, <2>2, SameOwners
  <2> QED BY <2>3 DEF Sole
<1>3. CASE Owns(s, k)
  <2>1. /\ s \in pool => <<"pool", s>> \in Owners(k)
        /\ s \in inner => <<"inner", s>> \in Owners(k)
    BY <1>3, OwnersAre DEF Kinds
  <2>2. PICK o \in {<<"pool", s>>, <<"inner", s>>} : value[k] = {} /\ Owners(k) = {o}
    BY <2>1 DEF Sole
  <2>3. /\ \A u \in Threads : \A r \in todo[u] : ~ Owns(r, k)
        /\ \A r \in timers : ~ Owns(r, k)
        /\ \A r \in pool : Owns(r, k) => o = <<"pool", r>>
        /\ \A r \in inner : Owns(r, k) => o = <<"inner", r>>
        /\ ~ CallbackOf(consumed, value, k)
    BY <2>2, OnlyOwner
  <2>4. \A r \in pool' \cup inner' : ~ Owns(r, k)
    BY <1>3, <2>2, <2>3
  <2>5. <<"thread", t>> \in Owners(k)'
    BY <1>1, <1>3, OwnersAre DEF Kinds
  <2>6. Owners(k)' = {<<"thread", t>>}
    BY <1>1, <2>3, <2>4, <2>5, OwnedNext
  <2> QED BY <2>2, <2>6 DEF Sole
<1> QED BY <1>2, <1>3

\* A timer that expires is submitted.
LEMMA ExpiredStep ==
  ASSUME NEW s \in timers, timers' = timers \ {s}, pool' = pool \cup {s},
         UNCHANGED <<todo, consumed, value, inner>>,
         NEW k \in Nat, Sole(k)
  PROVE  Sole(k)'
<1>1. CASE ~ Owns(s, k)
  <2>1. \A r : Owns(r, k) => (r \in pool' <=> r \in pool) /\ (r \in timers' <=> r \in timers)
                             /\ (r \in inner' <=> r \in inner)
    BY <1>1
  <2>2. Owners(k)' = Owners(k)
    BY <2>1, SameOwners
  <2> QED BY <2>2 DEF Sole
<1>2. CASE Owns(s, k)
  <2>1. <<"timer", s>> \in Owners(k)
    BY <1>2, OwnersAre DEF Kinds
  <2>2. value[k] = {} /\ Owners(k) = {<<"timer", s>>}
    BY <2>1 DEF Sole
  <2>3. /\ \A u \in Threads : \A r \in todo[u] : ~ Owns(r, k)
        /\ \A r \in pool \cup inner : ~ Owns(r, k)
        /\ \A r \in timers : Owns(r, k) => r = s
        /\ ~ CallbackOf(consumed, value, k)
    <3>1. PICK o : o = <<"timer", s>>
      OBVIOUS
    <3>2. Owners(k) = {o}
      BY <2>2, <3>1
    <3>3. /\ \A u \in Threads : <<"thread", u>> # o => \A r \in todo[u] : ~ Owns(r, k)
          /\ \A r \in pool : <<"pool", r>> # o => ~ Owns(r, k)
          /\ \A r \in timers : <<"timer", r>> # o => ~ Owns(r, k)
          /\ \A r \in inner : <<"inner", r>> # o => ~ Owns(r, k)
          /\ CallbackOf(consumed, value, k) => o = <<"callback", k - 1>>
      BY <3>2, OnlyOwner
    <3> QED BY <3>1, <3>3
  <2>4. <<"pool", s>> \in Owners(k)'
    BY <1>2, OwnersAre DEF Kinds
  <2>5. Owners(k)' = {<<"pool", s>>}
    BY <2>3, <2>4, OwnedNext
  <2> QED BY <2>2, <2>5 DEF Sole
<1> QED BY <1>1, <1>2

-----------------------------------------------------------------------------
(* What stages make                                                        *)

\* What a stage makes depends on its combinator and on what its function made.
LEMMA StageStays ==
  ASSUME NEW k, stage'[k] = stage[k], outcome'[k] = outcome[k], NEW r
  PROVE  Stage(k, r)' = Stage(k, r)
BY Zenon DEF Stage

\* A stage whose function is not for r, or that has none, passes r on.
LEMMA StageSkips ==
  ASSUME NEW k, NEW r \in Values, stage[k] \in Combinators,
         Skips(stage[k], r) \/ stage[k] \in {"Flatten", "After"}
  PROVE  Stage(k, r) = r
<1> DEFINE user == [name |-> k, ok |-> TRUE \in outcome[k]]
<1> HIDE DEF user
<1>1. CASE stage[k] = "MapOk" /\ ~ r.ok
  <2>1. R!Map(r, user) = r
    BY <1>1 DEF R!Map
  <2>2. Stage(k, r) = R!Map(r, user)
    BY <1>1 DEF Stage, user
  <2> QED BY <2>1, <2>2
<1>2. CASE stage[k] = "AndThen" /\ ~ r.ok
  <2>1. R!AndThen(r, user) = r
    BY <1>2 DEF R!AndThen
  <2>2. Stage(k, r) = R!AndThen(r, user)
    BY <1>2 DEF Stage, user
  <2> QED BY <2>1, <2>2
<1>3. CASE stage[k] = "OrElse" /\ r.ok
  <2>1. R!OrElse(r, user) = r
    BY <1>3 DEF R!OrElse
  <2>2. Stage(k, r) = R!OrElse(r, user)
    BY <1>3 DEF Stage, user
  <2> QED BY <2>1, <2>2
<1>4. CASE stage[k] \in {"Flatten", "After"}
  BY <1>4 DEF Stage
<1> QED BY <1>1, <1>2, <1>3, <1>4 DEF Skips

\* Any other stage appends its function, which has just made a success or not.
LEMMA StageCalls ==
  ASSUME NEW k, NEW r \in Values, stage'[k] \in Combinators, stage'[k] \notin {"Flatten", "After"},
         ~ Skips(stage'[k], r), NEW ok \in BOOLEAN, stage'[k] = "MapOk" => ok, outcome'[k] = {ok}
  PROVE  Stage(k, r)' = [ok |-> ok, path |-> Append(r.path, k)]
<1> DEFINE user == [name |-> k, ok |-> TRUE \in outcome'[k]]
<1>1. (TRUE \in {ok}) = ok
  <2>1. CASE ok = TRUE
    BY <2>1
  <2>2. CASE ok = FALSE
    <3>1. (TRUE \in {FALSE}) = FALSE
      OBVIOUS
    <3> QED BY <2>2, <3>1, Zenon
  <2> QED BY <2>1, <2>2
<1>2. user = [name |-> k, ok |-> ok]
  BY <1>1
<1>3. user.ok = ok /\ user.name = k
  BY <1>2
<1>4. R!Made(user, r) = [ok |-> ok, path |-> Append(r.path, k)]
  BY <1>3, Zenon DEF R!Made
<1> HIDE DEF user
<1>5. CASE stage'[k] = "Map"
  BY <1>4, <1>5 DEF Stage, user
<1>6. CASE stage'[k] = "MapOk"
  <2>1. r.ok /\ ok
    BY <1>6 DEF Skips
  <2>2. R!Map(r, user) = [ok |-> ok, path |-> Append(r.path, k)]
    BY <1>3, <2>1 DEF R!Map, R!Ok
  <2>3. Stage(k, r)' = R!Map(r, user)
    BY <1>6 DEF Stage, user
  <2> QED BY <2>2, <2>3
<1>7. CASE stage'[k] = "AndThen"
  <2>1. r.ok
    BY <1>7 DEF Skips
  <2>2. Stage(k, r)' = R!AndThen(r, user)
    BY <1>7 DEF Stage, user
  <2> QED BY <1>4, <2>1, <2>2 DEF R!AndThen
<1>8. CASE stage'[k] = "OrElse"
  <2>1. ~ r.ok
    BY <1>8 DEF Skips
  <2>2. Stage(k, r)' = R!OrElse(r, user)
    BY <1>8 DEF Stage, user
  <2> QED BY <1>4, <2>1, <2>2 DEF R!OrElse
<1> QED BY <1>5, <1>6, <1>7, <1>8 DEF Combinators

-----------------------------------------------------------------------------
(* What stays true of a step when others are taken                         *)

\* The pipe only grows, and values stay.
PipeGrows ==
  /\ built \in Futures /\ built' \in Futures /\ built <= built'
  /\ \A k \in 0 .. built : /\ stage'[k] = stage[k]
                           /\ value[k] \subseteq value'[k]
                           /\ consumed[k] => consumed'[k]

LEMMA RightStays ==
  ASSUME PipeGrows, NEW k \in 0 .. built, NEW v, Right(k, v), outcome'[k] = outcome[k]
  PROVE  Right(k, v)'
<1>1. CASE k = 0
  BY <1>1 DEF Right, Start
<1>2. CASE k # 0
  <2>1. PICK r \in value[k - 1] : v = Stage(k, r)
    BY <1>2 DEF Right
  <2>2. r \in value'[k - 1]
    BY <1>2 DEF PipeGrows, Futures
  <2>3. v = Stage(k, r)'
    BY <2>1, StageStays DEF PipeGrows
  <2> QED BY <1>2, <2>2, <2>3 DEF Right
<1> QED BY <1>1, <1>2

LEMMA StepStays ==
  ASSUME PipeGrows, NEW s \in Steps, StepOK(s), outcome'[0] = outcome[0],
         s.op = "set" => outcome'[s.k] = outcome[s.k]
  PROVE  StepOK(s)'
<1>1. s.k \in 0 .. built /\ s.k <= built'
  BY DEF PipeGrows, StepOK, Steps, Futures
<1>2. s.op = "set" => Right(s.k, s.v)'
  BY <1>1, RightStays DEF StepOK
<1>3. s.op = "call" => consumed'[s.k] /\ s.v \in value'[s.k]
  BY <1>1 DEF StepOK, PipeGrows
<1>4. s.op = "user" /\ s.k = 0 => s.v = Start(TRUE \in outcome[0])'
  BY DEF StepOK, Start
<1>5. s.op = "user" /\ s.k > 0 =>
        /\ s.v \in value'[s.k - 1]
        /\ stage'[s.k] \notin {"Flatten", "After"} /\ ~ Skips(stage'[s.k], s.v)
  BY <1>1 DEF StepOK, PipeGrows, Futures
<1> QED BY <1>1, <1>2, <1>3, <1>4, <1>5 DEF StepOK, Skips, Start

-----------------------------------------------------------------------------
(* Each action keeps ChainInd                                              *)

\* Thread t does s, sets nothing and hands the promise on to step n.
HandOver(t, s, n) ==
  /\ todo[t] = {s} /\ HandsOn(t, n)
  /\ UNCHANGED <<pipeVars, value, got>>
  /\ \A k \in Nat : Owns(n, k) <=> Owns(s, k)
  /\ \/ outcome' = outcome
     \/ s.op = "user" /\ s.k > 0 /\ \E ok \in BOOLEAN : outcome' = [outcome EXCEPT ![s.k] = {ok}]
  /\ StepOK(n)'
  /\ n \in pool' => n.op # "call" \/ n \in pool
  /\ n \in timers' \cup inner' => n.op = "set" \/ n \in timers \cup inner
  /\ n \in todo'[t] /\ n.op = "user" /\ n.k > 0 /\ runtime[n.k - 1] = "pool" => t \in Workers

LEMMA HandsOnKeeps ==
  ASSUME ChainInd, NEW t \in Threads, NEW s \in Steps, NEW n \in Steps, HandOver(t, s, n)
  PROVE  ChainInd'
<1> USE DEF HandOver
<1>1. /\ todo'[t] \in {{n}, {}} /\ \A u \in Threads \ {t} : todo'[u] = todo[u]
      /\ pool' \subseteq pool \cup {n} /\ timers' \subseteq timers \cup {n} /\ inner' \subseteq inner \cup {n}
  BY DEF ChainInd, Types, HandsOn
<1>2. Types'
  <2>1. todo' \in [Threads -> SUBSET Steps]
    BY DEF ChainInd, Types, HandsOn
  <2>2. \A u \in Threads : \A q, r \in todo'[u] : q = r
    BY <1>1 DEF ChainInd, Types
  <2>3. outcome' \in [Futures -> SUBSET BOOLEAN]
    BY DEF ChainInd, Types
  <2> QED BY <1>1, <2>1, <2>2, <2>3 DEF ChainInd, Types, pipeVars
<1>3. PipeGrows
  BY DEF PipeGrows, ChainInd, Types, pipeVars, Futures
<1>4. StepOK(s) /\ s.k \in 0 .. built
  <2>1. StepOK(s)
    BY DEF ChainInd, StepsOK
  <2>2. s.k \in 0 .. MaxStages /\ s.k <= built /\ built \in 0 .. MaxStages
    BY <2>1 DEF StepOK, Steps, Futures, ChainInd, Types
  <2> QED BY <2>1, <2>2
<1>5. outcome'[0] = outcome[0] /\ \A k \in Futures : k # s.k => outcome'[k] = outcome[k]
  <2>1. CASE outcome' = outcome
    BY <2>1
  <2>2. ASSUME s.k > 0, NEW ok \in BOOLEAN, outcome' = [outcome EXCEPT ![s.k] = {ok}]
        PROVE  outcome'[0] = outcome[0] /\ \A k \in Futures : k # s.k => outcome'[k] = outcome[k]
    BY <2>2 DEF ChainInd, Types, Futures
  <2> QED BY <2>1, <2>2
\* The only step that the change of outcome could harm sets the future that s is for.
<1>6. outcome' # outcome => value[s.k] = {} /\ Owners(s.k) = {<<"thread", t>>}
  <2> SUFFICES ASSUME outcome' # outcome
               PROVE  value[s.k] = {} /\ Owners(s.k) = {<<"thread", t>>}
    OBVIOUS
  <2>1. s.k \in Nat /\ Owns(s, s.k) /\ Sole(s.k)
    BY <1>4 DEF Owns, ChainInd
  <2>2. <<"thread", t>> \in Owners(s.k)
    BY <2>1, OwnersAre DEF Kinds
  <2> QED BY <2>1, <2>2 DEF Sole
<1>7. ASSUME NEW r \in Steps, StepOK(r), r.op = "set" => outcome'[r.k] = outcome[r.k]
      PROVE  StepOK(r)'
  BY <1>3, <1>5, <1>7, StepStays
<1>8. \A r \in pool \cup timers \cup inner : r.op = "set" => outcome'[r.k] = outcome[r.k]
  <2> SUFFICES ASSUME NEW r \in pool \cup timers \cup inner, r.op = "set", r.k = s.k, outcome' # outcome
               PROVE  FALSE
    BY <1>5 DEF ChainInd, Types, Steps
  <2>1. Owns(r, s.k)
    BY DEF Owns
  <2>2. PICK o : o = <<"thread", t>>
    OBVIOUS
  <2>3. s.k \in Nat /\ Owners(s.k) = {o}
    BY <1>4, <1>6, <2>2
  <2>4. /\ \A q \in pool : <<"pool", q>> # o => ~ Owns(q, s.k)
        /\ \A q \in timers : <<"timer", q>> # o => ~ Owns(q, s.k)
        /\ \A q \in inner : <<"inner", q>> # o => ~ Owns(q, s.k)
    BY <2>3, OnlyOwner
  <2> QED BY <2>1, <2>2, <2>4
<1>9. \A u \in Threads \ {t} : \A r \in todo[u] : r.op = "set" => outcome'[r.k] = outcome[r.k]
  <2> SUFFICES ASSUME NEW u \in Threads \ {t}, NEW r \in todo[u], r.op = "set", r.k = s.k, outcome' # outcome
               PROVE  FALSE
    BY <1>5 DEF ChainInd, Types, Steps
  <2>1. Owns(r, s.k)
    BY DEF Owns
  <2>2. PICK o : o = <<"thread", t>>
    OBVIOUS
  <2>3. s.k \in Nat /\ Owners(s.k) = {o}
    BY <1>4, <1>6, <2>2
  <2>4. \A v \in Threads : <<"thread", v>> # o => \A q \in todo[v] : ~ Owns(q, s.k)
    BY <2>3, OnlyOwner
  <2> QED BY <2>1, <2>2, <2>4
<1>10. StepsOK'
  <2>1. \A u \in Threads : \A r \in todo'[u] : StepOK(r)'
    <3> SUFFICES ASSUME NEW u \in Threads, NEW r \in todo'[u] PROVE StepOK(r)'
      OBVIOUS
    <3>1. CASE u = t
      BY <1>1, <3>1
    <3>2. CASE u # t
      <4>1. r \in todo[u] /\ r \in Steps /\ StepOK(r)
        BY <1>1, <3>2 DEF ChainInd, Types, StepsOK
      <4> QED BY <1>7, <1>9, <3>2, <4>1
    <3> QED BY <3>1, <3>2
  <2>2. \A r \in pool \cup timers \cup inner : StepOK(r)'
    BY <1>7, <1>8 DEF ChainInd, Types, StepsOK
  <2>3. \A r \in pool' : StepOK(r)' /\ r.op # "call"
    BY <1>1, <2>2 DEF ChainInd, StepsOK
  <2>4. \A r \in timers' \cup inner' : StepOK(r)' /\ r.op = "set"
    BY <1>1, <2>2 DEF ChainInd, StepsOK
  <2> QED BY <2>1, <2>3, <2>4 DEF StepsOK
<1>11. PipeOK'
  <2>1. \A k \in Futures : \A v \in value[k] : k <= built /\ Right(k, v)'
    <3> SUFFICES ASSUME NEW k \in Futures, NEW v \in value[k] PROVE k <= built /\ Right(k, v)'
      OBVIOUS
    <3>1. k \in 0 .. built /\ Right(k, v)
      BY DEF ChainInd, PipeOK, Types, Futures
    <3>2. outcome'[k] = outcome[k]
      BY <1>5, <1>6
    <3> QED BY <1>3, <3>1, <3>2, RightStays
  <2> QED BY <2>1 DEF ChainInd, PipeOK, pipeVars
<1>12. RunsInRuntime'
  BY <1>1 DEF ChainInd, RunsInRuntime, pipeVars
<1>13. \A k \in 0 .. built' : Sole(k)'
  <2> SUFFICES ASSUME NEW k \in 0 .. built PROVE Sole(k)'
    BY DEF pipeVars
  <2>1. Sole(k) /\ k \in Nat /\ UNCHANGED <<consumed, value>>
    BY DEF ChainInd, Types, Futures, pipeVars
  <2>2. Owns(n, k) <=> Owns(s, k)
    OBVIOUS
  <2> QED BY <2>1, <2>2, HandedOn DEF ChainInd
<1> QED BY <1>2, <1>10, <1>11, <1>12, <1>13 DEF ChainInd

\* A thread that calls the callback of a future that is not the last.
LEMMA Calling ==
  ASSUME ChainInd, NEW t \in Threads, Will(t, "call"), Arg(t).k < built
  PROVE  \E s \in Steps :
           /\ s = Arg(t) /\ todo[t] = {s} /\ s.op = "call" /\ s.v \in Values
           /\ s.k \in 0 .. built /\ s.k + 1 \in 1 .. built /\ s.k + 1 \in Futures
           /\ s.v \in value[s.k]
<1>1. Arg(t) \in Steps /\ todo[t] = {Arg(t)} /\ Arg(t).op = "call"
  BY ArgIs DEF ChainInd
<1>2. StepOK(Arg(t))
  BY <1>1 DEF ChainInd, StepsOK
<1>3. Arg(t).v \in Values /\ Arg(t).k \in 0 .. MaxStages /\ built \in 0 .. MaxStages
  BY <1>1 DEF Steps, Futures, ChainInd, Types
<1>4. Arg(t).v \in value[Arg(t).k]
  BY <1>1, <1>2 DEF StepOK
<1>5. PICK s : s = Arg(t)
  OBVIOUS
<1> QED BY <1>1, <1>3, <1>4, <1>5 DEF Futures

\* The set that passes the value of the future before on, as it is or what was made of it.
LEMMA SetIsRight ==
  ASSUME ChainInd, NEW k \in 1 .. built, NEW r \in value[k - 1], NEW w \in Values,
         Stage(k, r)' = w, UNCHANGED <<built, value>>,
         NEW n, n = [op |-> "set", k |-> k, v |-> w]
  PROVE  n \in Steps /\ StepOK(n)'
<1>1. k \in Futures
  BY DEF ChainInd, Types, Futures
<1>2. n \in Steps /\ n.op = "set" /\ n.k = k /\ n.v = w
  BY <1>1 DEF Steps
<1>3. Right(k, w)'
  <2>1. r \in value'[k - 1] /\ k # 0
    OBVIOUS
  <2> QED BY <2>1 DEF Right
<1>4. StepOK(n)'
  BY <1>2, <1>3 DEF StepOK
<1> QED BY <1>2, <1>4

LEMMA CallSkipKeeps ==
  ASSUME ChainInd, NEW t \in Threads, CallSkip(t)
  PROVE  ChainInd'
<1>1. Will(t, "call") /\ Arg(t).k < built /\ Skips(stage[Arg(t).k + 1], Arg(t).v)
  BY DEF CallSkip
<1>2. PICK s \in Steps :
        /\ s = Arg(t) /\ todo[t] = {s} /\ s.op = "call" /\ s.v \in Values
        /\ s.k \in 0 .. built /\ s.k + 1 \in 1 .. built /\ s.k + 1 \in Futures
        /\ s.v \in value[s.k]
  BY <1>1, Calling
<1>3. PICK k : k = s.k + 1
  OBVIOUS
<1>4. k \in 1 .. built /\ k \in Futures /\ s.v \in value[k - 1] /\ s.k = k - 1
  BY <1>2, <1>3
<1>5. PICK n : n = [op |-> "set", k |-> k, v |-> s.v]
  OBVIOUS
<1>6. todo' = [todo EXCEPT ![t] = {n}] /\ UNCHANGED <<pipeVars, value, outcome, pool, timers, inner, got>>
  BY <1>2, <1>3, <1>5 DEF CallSkip, Next1, Do
<1>7. Stage(k, s.v) = s.v
  BY <1>1, <1>2, <1>3, <1>4, StageSkips DEF ChainInd, Types
<1>8. Stage(k, s.v)' = s.v
  BY <1>6, <1>7, StageStays DEF pipeVars
<1>9. n \in Steps /\ StepOK(n)'
  BY <1>2, <1>4, <1>5, <1>6, <1>8, SetIsRight DEF pipeVars
<1>10. n.op = "set" /\ n.k = s.k + 1
  BY <1>3, <1>5
<1>11. \A j \in Nat : Owns(n, j) <=> Owns(s, j)
  BY <1>2, <1>10 DEF Owns
<1>12. HandOver(t, s, n)
  BY <1>2, <1>6, <1>9, <1>10, <1>11 DEF HandOver, HandsOn
<1> QED BY <1>2, <1>9, <1>12, HandsOnKeeps

\* The user's function takes the promise along, to the pool or to this thread.
LEMMA CallSubmitKeeps ==
  ASSUME ChainInd, NEW t \in Threads, CallSubmit(t)
  PROVE  ChainInd'
<1>1. /\ Will(t, "call") /\ Arg(t).k < built
      /\ stage[Arg(t).k + 1] \notin {"Flatten", "After"} /\ ~ Skips(stage[Arg(t).k + 1], Arg(t).v)
  BY DEF CallSubmit
<1>2. PICK s \in Steps :
        /\ s = Arg(t) /\ todo[t] = {s} /\ s.op = "call" /\ s.v \in Values
        /\ s.k \in 0 .. built /\ s.k + 1 \in 1 .. built /\ s.k + 1 \in Futures
        /\ s.v \in value[s.k]
  BY <1>1, Calling
<1>3. PICK k : k = s.k + 1
  OBVIOUS
<1>4. k \in 1 .. built /\ k \in Futures /\ s.v \in value[k - 1] /\ s.k = k - 1
  BY <1>2, <1>3
<1>5. PICK n : n = [op |-> "user", k |-> k, v |-> s.v]
  OBVIOUS
<1>6. n \in Steps /\ n.op = "user" /\ n.k = k /\ n.v = s.v
  BY <1>2, <1>4, <1>5 DEF Steps
<1>7. /\ UNCHANGED <<pipeVars, value, outcome, timers, inner, got>>
      /\ \/ todo' = [todo EXCEPT ![t] = {}] /\ pool' = pool \cup {n}
         \/ todo' = [todo EXCEPT ![t] = {n}] /\ UNCHANGED pool /\ runtime[k - 1] # "pool"
  BY <1>2, <1>3, <1>4, <1>5 DEF CallSubmit, Submit, Next1, Do, Nothing
<1>8. StepOK(n)'
  <2>1. n.k <= built' /\ n.v \in value'[n.k - 1] /\ n.k # 0
    BY <1>4, <1>6, <1>7 DEF pipeVars
  <2>2. stage'[n.k] \notin {"Flatten", "After"} /\ ~ Skips(stage'[n.k], n.v)
    BY <1>1, <1>2, <1>3, <1>6, <1>7 DEF pipeVars
  <2> QED BY <1>6, <2>1, <2>2 DEF StepOK, Skips
<1>9. \A j \in Nat : Owns(n, j) <=> Owns(s, j)
  BY <1>2, <1>3, <1>6 DEF Owns
<1>10. HandsOn(t, n)
  BY <1>7 DEF HandsOn
<1>11. n \in todo'[t] => runtime[k - 1] # "pool"
  BY <1>7 DEF ChainInd, Types
<1>12. HandOver(t, s, n)
  <2>1. n \in timers' \cup inner' => n \in timers \cup inner
    BY <1>7
  <2> QED BY <1>2, <1>6, <1>7, <1>8, <1>9, <1>10, <1>11, <2>1 DEF HandOver
<1> QED BY <1>2, <1>6, <1>12, HandsOnKeeps

LEMMA CallPassKeeps ==
  ASSUME ChainInd, NEW t \in Threads, CallFlatten(t) \/ CallAfter(t)
  PROVE  ChainInd'
<1>1. Will(t, "call") /\ Arg(t).k < built /\ stage[Arg(t).k + 1] \in {"Flatten", "After"}
  BY DEF CallFlatten, CallAfter
<1>2. PICK s \in Steps :
        /\ s = Arg(t) /\ todo[t] = {s} /\ s.op = "call" /\ s.v \in Values
        /\ s.k \in 0 .. built /\ s.k + 1 \in 1 .. built /\ s.k + 1 \in Futures
        /\ s.v \in value[s.k]
  BY <1>1, Calling
<1>3. PICK k : k = s.k + 1
  OBVIOUS
<1>4. k \in 1 .. built /\ k \in Futures /\ s.v \in value[k - 1] /\ s.k = k - 1
  BY <1>2, <1>3
<1>5. PICK n : n = [op |-> "set", k |-> k, v |-> s.v]
  OBVIOUS
<1>6. UNCHANGED <<pipeVars, value, outcome, pool, got>> /\ HandsOn(t, n)
  <2>1. CASE CallFlatten(t)
    BY <1>2, <1>3, <1>5, <2>1 DEF CallFlatten, ConsumeInner, Next1, Do, Nothing, HandsOn
  <2>2. CASE CallAfter(t)
    BY <1>2, <1>3, <1>5, <2>2 DEF CallAfter, Next1, Do, Nothing, HandsOn
  <2> QED BY <2>1, <2>2
<1>7. Stage(k, s.v) = s.v
  BY <1>1, <1>2, <1>3, <1>4, StageSkips DEF ChainInd, Types
<1>8. Stage(k, s.v)' = s.v
  BY <1>6, <1>7, StageStays DEF pipeVars
<1>9. n \in Steps /\ StepOK(n)'
  BY <1>2, <1>4, <1>5, <1>6, <1>8, SetIsRight DEF pipeVars
<1>10. n.op = "set" /\ n.k = s.k + 1
  BY <1>3, <1>5
<1>11. \A j \in Nat : Owns(n, j) <=> Owns(s, j)
  BY <1>2, <1>10 DEF Owns
<1>12. HandOver(t, s, n)
  BY <1>2, <1>6, <1>9, <1>10, <1>11 DEF HandOver
<1> QED BY <1>2, <1>9, <1>12, HandsOnKeeps

\* The user's function of a stage, or of Spawn.
LEMMA UserKeeps ==
  ASSUME ChainInd, NEW t \in Threads, User(t)
  PROVE  ChainInd'
<1>1. Will(t, "user")
  BY DEF User
<1>2. PICK s \in Steps : s = Arg(t) /\ todo[t] = {s} /\ s.op = "user" /\ StepOK(s)
  <2>1. Arg(t) \in Steps /\ todo[t] = {Arg(t)} /\ Arg(t).op = "user"
    BY <1>1, ArgIs DEF ChainInd
  <2>2. PICK s : s = Arg(t)
    OBVIOUS
  <2>3. StepOK(s)
    BY <2>1, <2>2 DEF ChainInd, StepsOK
  <2> QED BY <2>1, <2>2, <2>3
<1>3. s.k \in 0 .. MaxStages /\ built \in 0 .. MaxStages /\ s.k <= built /\ s.v \in Values
  BY <1>2 DEF StepOK, Steps, Futures, ChainInd, Types
<1>4. CASE s.k = 0
  <2>1. PICK n : n = [op |-> "set", k |-> 0, v |-> s.v]
    OBVIOUS
  <2>2. /\ todo' = [todo EXCEPT ![t] = {n}]
        /\ UNCHANGED <<pipeVars, value, outcome, pool, timers, inner, got>>
    BY <1>2, <1>4, <2>1 DEF User, Next1, Do
  <2>3. n \in Steps /\ n.op = "set" /\ n.k = 0 /\ n.v = s.v
    BY <1>3, <2>1 DEF Steps, Futures
  <2>4. s.v = Start(TRUE \in outcome[0])
    BY <1>2, <1>4 DEF StepOK
  <2>5. StepOK(n)'
    BY <1>3, <2>2, <2>3, <2>4 DEF StepOK, Right, pipeVars, Start
  <2>6. \A j \in Nat : Owns(n, j) <=> Owns(s, j)
    BY <1>2, <1>4, <2>3 DEF Owns
  <2>7. HandOver(t, s, n)
    BY <1>2, <2>2, <2>3, <2>5, <2>6 DEF HandOver, HandsOn
  <2> QED BY <1>2, <2>3, <2>7, HandsOnKeeps
<1>5. CASE s.k > 0
  <2>1. PICK k : k = s.k
    OBVIOUS
  <2>2. k \in 1 .. built /\ k \in Futures
    BY <1>3, <1>5, <2>1 DEF Futures
  <2>3. /\ s.v \in value[k - 1]
        /\ stage[k] \in Combinators \ {"Flatten", "After"} /\ ~ Skips(stage[k], s.v)
    BY <1>2, <1>5, <2>1, <2>2 DEF StepOK, ChainInd, Types
  <2>4. PICK ok \in IF stage[k] = "MapOk" THEN {TRUE} ELSE BOOLEAN :
          /\ outcome' = [outcome EXCEPT ![k] = {ok}]
          /\ IF stage[k] \in {"AndThen", "OrElse"}
               THEN ConsumeInner(t, k, [ok |-> ok, path |-> Append(s.v.path, k)])
               ELSE /\ Next1(t, Do("set", k, [ok |-> ok, path |-> Append(s.v.path, k)]))
                    /\ UNCHANGED inner
    <3>1. PICK v : v = s.v
      OBVIOUS
    <3>2. Arg(t).k = k /\ Arg(t).v = v /\ k # 0
      BY <1>2, <1>5, <2>1, <3>1
    <3>3. \E ok \in IF stage[k] = "MapOk" THEN {TRUE} ELSE BOOLEAN :
            /\ outcome' = [outcome EXCEPT ![k] = {ok}]
            /\ IF stage[k] \in {"AndThen", "OrElse"}
                 THEN ConsumeInner(t, k, [ok |-> ok, path |-> Append(v.path, k)])
                 ELSE /\ Next1(t, Do("set", k, [ok |-> ok, path |-> Append(v.path, k)]))
                      /\ UNCHANGED inner
      BY <3>2, Zenon DEF User
    <3> QED BY <3>1, <3>3, Zenon
  <2>5. PICK w : w = [ok |-> ok, path |-> Append(s.v.path, k)]
    OBVIOUS
  <2>6. PICK n : n = [op |-> "set", k |-> k, v |-> w]
    OBVIOUS
  <2>7. HandsOn(t, n) /\ UNCHANGED <<pipeVars, value, pool, timers, got>>
    BY <2>4, <2>5, <2>6 DEF User, ConsumeInner, Next1, Do, Nothing, HandsOn
  <2>8. ok \in BOOLEAN /\ (stage[k] = "MapOk" => ok)
    BY <2>4
  <2>9. w \in Values
    <3>1. s.v.path \in Seq(Futures)
      BY <1>3 DEF Values
    <3>2. Append(s.v.path, k) \in Seq(Futures)
      BY <2>2, <3>1
    <3> QED BY <2>5, <2>8, <3>2 DEF Values
  <2>10. Stage(k, s.v)' = w
    <3>1. /\ stage'[k] \in Combinators /\ stage'[k] \notin {"Flatten", "After"}
          /\ ~ Skips(stage'[k], s.v) /\ (stage'[k] = "MapOk" => ok) /\ outcome'[k] = {ok}
      BY <2>2, <2>3, <2>4, <2>7, <2>8 DEF pipeVars, ChainInd, Types
    <3> QED BY <1>3, <2>5, <2>8, <3>1, StageCalls
  <2>11. n \in Steps /\ StepOK(n)'
    BY <2>2, <2>3, <2>6, <2>7, <2>9, <2>10, SetIsRight DEF pipeVars
  <2>12. n.op = "set" /\ n.k = s.k
    BY <2>1, <2>6
  <2>13. \A j \in Nat : Owns(n, j) <=> Owns(s, j)
    BY <1>2, <2>12 DEF Owns
  <2>14. HandOver(t, s, n)
    BY <1>2, <1>5, <2>1, <2>4, <2>7, <2>8, <2>11, <2>12, <2>13 DEF HandOver
  <2> QED BY <1>2, <2>11, <2>14, HandsOnKeeps
<1> QED BY <1>3, <1>4, <1>5

\* Set ends the ownership of its promise, and takes that of the next one over from the
\* callback, if there is one.
LEMMA SetOwners ==
  ASSUME ChainInd, NEW t \in Threads, NEW s \in Steps, todo[t] = {s}, s.op = "set", s.k <= built,
         value' = [value EXCEPT ![s.k] = {s.v}],
         todo' = [todo EXCEPT ![t] = IF consumed[s.k] THEN Do("call", s.k, s.v) ELSE {}],
         UNCHANGED <<consumed, pool, timers, inner>>,
         NEW k \in 0 .. built
  PROVE  Sole(k)'
<1>1. s.k \in Nat /\ s.k \in Futures /\ k \in Nat /\ k \in Futures /\ Sole(k) /\ Sole(s.k)
  BY DEF Steps, Futures, ChainInd, Types
<1>2. /\ \A u \in Threads \ {t} : todo'[u] = todo[u]
      /\ todo'[t] = IF consumed[s.k] THEN {[op |-> "call", k |-> s.k, v |-> s.v]} ELSE {}
      /\ \A r \in todo'[t] : r.op = "call" /\ r.k = s.k
      /\ value'[s.k] = {s.v} /\ \A j \in Futures \ {s.k} : value'[j] = value[j]
  BY <1>1 DEF ChainInd, Types, Do
<1>3. \A j \in Nat : Owns(s, j) <=> j = s.k
  BY <1>1 DEF Owns
<1>4. \A r \in todo'[t] : \A j \in Nat : Owns(r, j) <=> j = s.k + 1
  BY <1>1, <1>2 DEF Owns
<1>5. <<"thread", t>> \in Owners(s.k)
  BY <1>1, <1>3, OwnersAre DEF Kinds
<1>6. value[s.k] = {} /\ Owners(s.k) = {<<"thread", t>>}
  BY <1>1, <1>5 DEF Sole
<1>7. CASE k = s.k
  <2>1. PICK o : o = <<"thread", t>>
    OBVIOUS
  <2>2. Owners(k) = {o}
    BY <1>6, <1>7, <2>1
  <2>3. /\ \A u \in Threads : <<"thread", u>> # o => \A r \in todo[u] : ~ Owns(r, k)
        /\ \A r \in pool : <<"pool", r>> # o => ~ Owns(r, k)
        /\ \A r \in timers : <<"timer", r>> # o => ~ Owns(r, k)
        /\ \A r \in inner : <<"inner", r>> # o => ~ Owns(r, k)
        /\ CallbackOf(consumed, value, k) => o = <<"callback", k - 1>>
    BY <1>1, <2>2, OnlyOwner
  <2>4. \A u \in Threads : \A r \in todo'[u] : ~ Owns(r, k)
    <3> SUFFICES ASSUME NEW u \in Threads, NEW r \in todo'[u] PROVE ~ Owns(r, k)
      OBVIOUS
    <3>1. CASE u = t
      BY <1>1, <1>4, <1>7, <3>1
    <3>2. CASE u # t
      BY <1>2, <2>1, <2>3, <3>2
    <3> QED BY <3>1, <3>2
  <2>5. ~ CallbackOf(consumed', value', k)
    BY <1>1, <1>2, <1>7, <2>1, <2>3 DEF CallbackOf, Futures
  <2>6. /\ \A r \in pool' : ~ Owns(r, k)
        /\ \A r \in timers' : ~ Owns(r, k)
        /\ \A r \in inner' : ~ Owns(r, k)
    BY <2>1, <2>3
  <2>7. Owners(k)' = {}
    BY <1>1, <2>4, <2>5, <2>6, UnownedNext
  <2>8. Owners(k)' = {} /\ value'[k] # {}
    BY <1>2, <1>7, <2>7
  <2> QED BY <2>8 DEF Sole
<1>8. CASE k = s.k + 1 /\ consumed[s.k]
  <2>1. CallbackOf(consumed, value, k)
    BY <1>1, <1>6, <1>8 DEF CallbackOf
  <2>2. PICK o : o = <<"callback", k - 1>>
    OBVIOUS
  <2>3. o \in Owners(k)
    BY <1>1, <2>1, <2>2, OwnersAre DEF Kinds
  <2>4. value[k] = {} /\ Owners(k) = {o}
    BY <1>1, <2>3 DEF Sole
  <2>5. /\ \A u \in Threads : <<"thread", u>> # o => \A r \in todo[u] : ~ Owns(r, k)
        /\ \A r \in pool : <<"pool", r>> # o => ~ Owns(r, k)
        /\ \A r \in timers : <<"timer", r>> # o => ~ Owns(r, k)
        /\ \A r \in inner : <<"inner", r>> # o => ~ Owns(r, k)
    BY <1>1, <2>4, OnlyOwner
  <2>6. /\ \A u \in Threads : <<"thread", u>> # o
        /\ \A r : <<"pool", r>> # o /\ <<"timer", r>> # o /\ <<"inner", r>> # o
    BY <2>2
  <2>7. ~ CallbackOf(consumed', value', k)
    <3>1. k - 1 = s.k
      BY <1>1, <1>8
    <3>2. value'[k - 1] # {}
      BY <1>2, <3>1
    <3> QED BY <3>2 DEF CallbackOf
  <2>8. PICK p : p = <<"thread", t>>
    OBVIOUS
  <2>9. Owners(k)' = {p}
    <3>1. \E r \in todo'[t] : Owns(r, k)
      <4>1. PICK r : r = [op |-> "call", k |-> s.k, v |-> s.v]
        OBVIOUS
      <4>2. todo'[t] = {r}
        BY <1>2, <1>8, <4>1
      <4> QED BY <1>1, <1>4, <1>8, <4>2
    <3>2. p \in Owners(k)'
      BY <1>1, <2>8, <3>1, OwnersAre DEF Kinds
    <3>3. /\ \A u \in Threads : <<"thread", u>> # p => \A r \in todo'[u] : ~ Owns(r, k)
          /\ \A r \in pool' : <<"pool", r>> # p => ~ Owns(r, k)
          /\ \A r \in timers' : <<"timer", r>> # p => ~ Owns(r, k)
          /\ \A r \in inner' : <<"inner", r>> # p => ~ Owns(r, k)
          /\ CallbackOf(consumed', value', k) => p = <<"callback", k - 1>>
      BY <1>2, <2>5, <2>6, <2>7, <2>8
    <3> QED BY <1>1, <3>2, <3>3, OwnedNext
  <2>10. value'[k] = {}
    BY <1>1, <1>2, <1>8, <2>4
  <2> QED BY <2>9, <2>10 DEF Sole
<1>9. CASE k # s.k /\ ~ (k = s.k + 1 /\ consumed[s.k])
  <2>1. \A u \in Threads : (\E r \in todo'[u] : Owns(r, k)) <=> (\E r \in todo[u] : Owns(r, k))
    <3>1. ~ (\E r \in todo[t] : Owns(r, k))
      BY <1>1, <1>3, <1>9
    <3>2. ~ (\E r \in todo'[t] : Owns(r, k))
      BY <1>1, <1>2, <1>4, <1>9
    <3> QED BY <1>2, <3>1, <3>2
  <2>2. CallbackOf(consumed', value', k) <=> CallbackOf(consumed, value, k)
    BY <1>1, <1>2, <1>9 DEF CallbackOf, Futures
  <2>3. Owners(k)' = Owners(k)
    BY <1>1, <2>1, <2>2, SameOwners
  <2> QED BY <1>1, <1>2, <1>9, <2>3 DEF Sole
<1> QED BY <1>7, <1>8, <1>9

LEMMA SetKeeps ==
  ASSUME ChainInd, NEW t \in Threads, Set(t)
  PROVE  ChainInd'
<1>1. Will(t, "set")
  BY DEF Set
<1>2. PICK s \in Steps : s = Arg(t) /\ todo[t] = {s} /\ s.op = "set" /\ StepOK(s)
  <2>1. Arg(t) \in Steps /\ todo[t] = {Arg(t)} /\ Arg(t).op = "set"
    BY <1>1, ArgIs DEF ChainInd
  <2>2. PICK s : s = Arg(t)
    OBVIOUS
  <2>3. StepOK(s)
    BY <2>1, <2>2 DEF ChainInd, StepsOK
  <2> QED BY <2>1, <2>2, <2>3
<1>3. /\ s.k \in 0 .. MaxStages /\ built \in 0 .. MaxStages /\ s.k <= built /\ s.k \in Futures
      /\ s.v \in Values /\ Right(s.k, s.v)
  BY <1>2 DEF StepOK, Steps, Futures, ChainInd, Types
<1>4. /\ value' = [value EXCEPT ![s.k] = {s.v}]
      /\ todo' = [todo EXCEPT ![t] = IF consumed[s.k] THEN Do("call", s.k, s.v) ELSE {}]
      /\ UNCHANGED <<pipeVars, outcome, pool, timers, inner, got>>
  BY <1>2, Zenon DEF Set, Next1, Nothing
<1>5. value[s.k] = {}
  <2>1. s.k \in Nat /\ Owns(s, s.k) /\ Sole(s.k)
    BY <1>2, <1>3 DEF Owns, ChainInd
  <2>2. <<"thread", t>> \in Owners(s.k)
    BY <1>2, <2>1, OwnersAre DEF Kinds
  <2> QED BY <2>1, <2>2 DEF Sole
<1>6. /\ \A u \in Threads \ {t} : todo'[u] = todo[u]
      /\ \A r \in todo'[t] : r = [op |-> "call", k |-> s.k, v |-> s.v] /\ consumed[s.k]
      /\ value'[s.k] = {s.v} /\ \A j \in Futures \ {s.k} : value'[j] = value[j]
  BY <1>3, <1>4 DEF ChainInd, Types, Do
<1>7. Types'
  <2>1. todo' \in [Threads -> SUBSET Steps]
    <3>1. Do("call", s.k, s.v) \subseteq Steps
      BY <1>3 DEF Do, Steps
    <3> QED BY <1>4, <3>1 DEF ChainInd, Types
  <2>2. \A u \in Threads : \A q, r \in todo'[u] : q = r
    BY <1>6 DEF ChainInd, Types
  <2>3. value' \in [Futures -> SUBSET Values] /\ \A k \in Futures : \A v, w \in value'[k] : v = w
    BY <1>3, <1>4, <1>6 DEF ChainInd, Types
  <2> QED BY <1>4, <2>1, <2>2, <2>3 DEF ChainInd, Types, pipeVars
<1>8. PipeGrows
  BY <1>3, <1>4, <1>5, <1>6 DEF PipeGrows, pipeVars, Futures
<1>9. \A r \in Steps : StepOK(r) => StepOK(r)'
  BY <1>4, <1>8, StepStays
<1>10. StepsOK'
  <2>1. \A u \in Threads : \A r \in todo'[u] : StepOK(r)'
    <3> SUFFICES ASSUME NEW u \in Threads, NEW r \in todo'[u] PROVE StepOK(r)'
      OBVIOUS
    <3>1. CASE u = t
      <4>1. r.op = "call" /\ r.k = s.k /\ r.v = s.v /\ consumed[s.k]
        BY <1>6, <3>1
      <4>2. r.k <= built' /\ consumed'[r.k] /\ r.v \in value'[r.k]
        BY <1>3, <1>4, <1>6, <4>1 DEF pipeVars
      <4> QED BY <4>1, <4>2 DEF StepOK
    <3>2. CASE u # t
      BY <1>6, <1>9, <3>2 DEF ChainInd, Types, StepsOK
    <3> QED BY <3>1, <3>2
  <2>2. \A r \in pool \cup timers \cup inner : StepOK(r)'
    BY <1>9 DEF ChainInd, Types, StepsOK
  <2> QED BY <1>4, <2>1, <2>2 DEF ChainInd, StepsOK
<1>11. PipeOK'
  <2>1. \A k \in Futures : \A v \in value'[k] : k <= built /\ Right(k, v)'
    <3> SUFFICES ASSUME NEW k \in Futures, NEW v \in value'[k] PROVE k <= built /\ Right(k, v)'
      OBVIOUS
    <3>1. k \in 0 .. built /\ Right(k, v)
      <4>1. CASE k = s.k
        BY <1>3, <1>6, <4>1
      <4>2. CASE k # s.k
        BY <1>6, <4>2 DEF ChainInd, PipeOK, Types, Futures
      <4> QED BY <4>1, <4>2
    <3> QED BY <1>4, <1>8, <3>1, RightStays
  <2>2. \A v \in got : main \in {"get", "done"} /\ v \in value'[built]
    BY <1>3, <1>5, <1>6 DEF ChainInd, PipeOK, Futures
  <2> QED BY <1>4, <2>1, <2>2 DEF ChainInd, PipeOK, pipeVars
<1>12. RunsInRuntime'
  BY <1>4, <1>6 DEF ChainInd, RunsInRuntime, pipeVars
<1>13. \A k \in 0 .. built : Sole(k)'
  BY <1>2, <1>3, <1>4, SetOwners DEF pipeVars
<1> QED BY <1>4, <1>7, <1>10, <1>11, <1>12, <1>13 DEF ChainInd, pipeVars

-----------------------------------------------------------------------------
(* The actions that set no value and run no user's function                *)

\* Such an action keeps what is said of the steps and of the values that are there.
LEMMA QuietSteps ==
  ASSUME ChainInd, PipeGrows, UNCHANGED <<value, outcome>>
  PROVE  /\ \A r \in Steps : StepOK(r) => StepOK(r)'
         /\ \A k \in Futures : \A v \in value'[k] : k <= built' /\ Right(k, v)'
<1>1. \A r \in Steps : StepOK(r) => StepOK(r)'
  BY StepStays
<1>2. ASSUME NEW k \in Futures, NEW v \in value'[k]
      PROVE  k <= built' /\ Right(k, v)'
  <2>1. k \in 0 .. built /\ Right(k, v)
    BY DEF ChainInd, PipeOK, Types, Futures
  <2>2. Right(k, v)'
    BY <2>1, RightStays
  <2> QED BY <2>1, <2>2 DEF PipeGrows, Futures
<1> QED BY <1>1, <1>2

LEMMA CallEndKeeps ==
  ASSUME ChainInd, NEW t \in Threads, CallEnd(t)
  PROVE  ChainInd'
<1>1. Will(t, "call") /\ Arg(t).k = built
  BY DEF CallEnd
<1>2. PICK s \in Steps : s = Arg(t) /\ todo[t] = {s} /\ s.op = "call" /\ StepOK(s) /\ s.k = built
  <2>1. Arg(t) \in Steps /\ todo[t] = {Arg(t)} /\ Arg(t).op = "call"
    BY <1>1, ArgIs DEF ChainInd
  <2>2. PICK s : s = Arg(t)
    OBVIOUS
  <2>3. StepOK(s)
    BY <2>1, <2>2 DEF ChainInd, StepsOK
  <2> QED BY <1>1, <2>1, <2>2, <2>3
<1>3. built \in 0 .. MaxStages /\ s.v \in value[built] /\ s.v \in Values /\ consumed[built]
  BY <1>2 DEF StepOK, Steps, Futures, ChainInd, Types
<1>4. /\ got' = IF main = "get" THEN {s.v} ELSE got
      /\ todo' = [todo EXCEPT ![t] = {}]
      /\ UNCHANGED <<pipeVars, value, outcome, pool, timers, inner>>
  BY <1>2 DEF CallEnd, Next1, Nothing
<1>5. todo'[t] = {} /\ \A u \in Threads \ {t} : todo'[u] = todo[u]
  BY <1>4 DEF ChainInd, Types
<1>6. PipeGrows
  BY <1>3, <1>4 DEF PipeGrows, pipeVars, Futures
<1>7. Types'
  <2>1. todo' \in [Threads -> SUBSET Steps]
    BY <1>4 DEF ChainInd, Types
  <2>2. \A u \in Threads : \A q, r \in todo'[u] : q = r
    BY <1>5 DEF ChainInd, Types
  <2>3. got' \subseteq Values
    BY <1>3, <1>4 DEF ChainInd, Types
  <2> QED BY <1>4, <2>1, <2>2, <2>3 DEF ChainInd, Types, pipeVars
<1>8. StepsOK'
  BY <1>4, <1>5, <1>6, QuietSteps DEF ChainInd, Types, StepsOK
<1>9. PipeOK'
  <2>1. \A v \in got' : main' \in {"get", "done"} /\ v \in value'[built']
    BY <1>3, <1>4 DEF ChainInd, PipeOK, pipeVars
  <2> QED BY <1>4, <1>6, <2>1, QuietSteps DEF ChainInd, PipeOK, pipeVars
<1>10. RunsInRuntime'
  BY <1>4, <1>5 DEF ChainInd, RunsInRuntime, pipeVars
<1>11. ASSUME NEW k \in 0 .. built
       PROVE  Sole(k)'
  <2>1. k \in Nat /\ \A r \in todo[t] : ~ Owns(r, k)
    BY <1>2, <1>3 DEF Owns
  <2>2. \A u \in Threads : (\E r \in todo'[u] : Owns(r, k)) <=> (\E r \in todo[u] : Owns(r, k))
    BY <1>5, <2>1
  <2>3. Owners(k)' = Owners(k)
    BY <1>4, <2>1, <2>2, SameOwners DEF pipeVars
  <2> QED BY <1>4, <2>3 DEF ChainInd, Sole
<1> QED BY <1>4, <1>7, <1>8, <1>9, <1>10, <1>11 DEF ChainInd, pipeVars

LEMMA TakeKeeps ==
  ASSUME ChainInd, (\E w \in Workers : TakeTask(w)) \/ SetInner
  PROVE  ChainInd'
<1>1. PICK t \in Threads, s \in pool \cup inner :
        /\ todo[t] = {} /\ todo' = [todo EXCEPT ![t] = {s}]
        /\ \/ s \in pool /\ pool' = pool \ {s} /\ UNCHANGED inner /\ t \in Workers
           \/ s \in inner /\ inner' = inner \ {s} /\ UNCHANGED pool
        /\ UNCHANGED <<pipeVars, value, outcome, timers, got>>
  <2>1. ASSUME NEW w \in Workers, TakeTask(w)
        PROVE  \E s \in pool :
                 /\ todo[w] = {} /\ todo' = [todo EXCEPT ![w] = {s}]
                 /\ s \in pool /\ pool' = pool \ {s} /\ UNCHANGED inner
                 /\ UNCHANGED <<pipeVars, value, outcome, timers, got>>
    BY <2>1, Zenon DEF TakeTask, Idle, Next1, Nothing
  <2>2. ASSUME SetInner
        PROVE  \E s \in inner :
                 /\ todo["producer"] = {} /\ todo' = [todo EXCEPT !["producer"] = {s}]
                 /\ inner' = inner \ {s} /\ UNCHANGED pool
                 /\ UNCHANGED <<pipeVars, value, outcome, timers, got>>
    BY <2>2, Zenon DEF SetInner, Idle, Next1, Nothing
  <2> QED BY <2>1, <2>2 DEF Threads
<1>2. todo'[t] = {s} /\ \A u \in Threads \ {t} : todo'[u] = todo[u]
  BY <1>1 DEF ChainInd, Types
<1>3. s \in Steps /\ StepOK(s) /\ (s \in inner => s.op = "set") /\ pool' \subseteq pool /\ inner' \subseteq inner
  BY <1>1 DEF ChainInd, Types, StepsOK
<1>4. PipeGrows
  BY <1>1 DEF PipeGrows, pipeVars, Futures, ChainInd, Types
<1>5. Types'
  <2>1. todo' \in [Threads -> SUBSET Steps]
    BY <1>1, <1>3 DEF ChainInd, Types
  <2>2. \A u \in Threads : \A q, r \in todo'[u] : q = r
    BY <1>2 DEF ChainInd, Types
  <2> QED BY <1>1, <1>3, <2>1, <2>2 DEF ChainInd, Types, pipeVars
<1>6. StepsOK'
  <2>1. \A u \in Threads : \A r \in todo'[u] : r \in Steps /\ StepOK(r)
    BY <1>2, <1>3 DEF ChainInd, Types, StepsOK
  <2>2. \A u \in Threads : \A r \in todo'[u] : StepOK(r)'
    BY <1>1, <1>4, <2>1, QuietSteps
  <2>3. \A r \in pool \cup timers \cup inner : StepOK(r)'
    BY <1>1, <1>4, QuietSteps DEF ChainInd, Types, StepsOK
  <2> QED BY <1>1, <1>3, <2>2, <2>3 DEF ChainInd, StepsOK
<1>7. PipeOK'
  BY <1>1, <1>4, QuietSteps DEF ChainInd, PipeOK, pipeVars
<1>8. RunsInRuntime'
  BY <1>1, <1>2, <1>3 DEF ChainInd, RunsInRuntime, pipeVars
<1>9. ASSUME NEW k \in 0 .. built
      PROVE  Sole(k)'
  <2>1. k \in Nat /\ Sole(k)
    BY DEF ChainInd, Types, Futures
  <2> QED BY <1>1, <2>1, TakenOver DEF ChainInd, pipeVars
<1> QED BY <1>1, <1>5, <1>6, <1>7, <1>8, <1>9 DEF ChainInd, pipeVars

LEMMA ExpireKeeps ==
  ASSUME ChainInd, Expire
  PROVE  ChainInd'
<1>1. PICK s \in timers : timers' = timers \ {s} /\ pool' = pool \cup {s}
  BY DEF Expire
<1>2. UNCHANGED <<pipeVars, value, outcome, todo, inner, got>>
  BY DEF Expire
<1>3. s \in Steps /\ StepOK(s) /\ s.op = "set"
  BY DEF ChainInd, Types, StepsOK
<1>4. PipeGrows
  BY <1>2 DEF PipeGrows, pipeVars, Futures, ChainInd, Types
<1>5. Types'
  BY <1>1, <1>2, <1>3 DEF ChainInd, Types, pipeVars
<1>6. StepsOK'
  <2>1. \A r \in pool \cup timers \cup inner : StepOK(r)'
    BY <1>2, <1>4, QuietSteps DEF ChainInd, Types, StepsOK
  <2>2. \A u \in Threads : \A r \in todo[u] : StepOK(r)'
    BY <1>2, <1>4, QuietSteps DEF ChainInd, Types, StepsOK
  <2> QED BY <1>1, <1>2, <1>3, <2>1, <2>2 DEF ChainInd, StepsOK
<1>7. PipeOK'
  BY <1>2, <1>4, QuietSteps DEF ChainInd, PipeOK, pipeVars
<1>8. RunsInRuntime'
  BY <1>2 DEF ChainInd, RunsInRuntime, pipeVars
<1>9. ASSUME NEW k \in 0 .. built
      PROVE  Sole(k)'
  <2>1. k \in Nat /\ Sole(k)
    BY DEF ChainInd, Types, Futures
  <2> QED BY <1>1, <1>2, <2>1, ExpiredStep DEF pipeVars
<1> QED BY <1>2, <1>5, <1>6, <1>7, <1>8, <1>9 DEF ChainInd, pipeVars

-----------------------------------------------------------------------------
(* The main thread                                                         *)

\* Nobody has the promise of the future that is piped next, until its callback is given
\* to the last one.
LEMMA NextIsFree ==
  ASSUME ChainInd, main = "build"
  PROVE  /\ ~ consumed[built]
         /\ \A t \in Threads : \A r \in todo[t] : ~ Owns(r, built + 1)
         /\ \A r \in pool \cup timers \cup inner : ~ Owns(r, built + 1)
<1>1. built \in 0 .. MaxStages /\ ~ consumed[built]
  BY DEF ChainInd, Types, PipeOK, Futures
<1>2. ASSUME NEW r \in Steps, StepOK(r)
      PROVE  ~ Owns(r, built + 1)
  <2>1. r.k \in 0 .. MaxStages
    BY DEF Steps, Futures
  <2>2. r.k <= built /\ (r.op = "call" => consumed[r.k])
    BY <1>2 DEF StepOK
  <2> QED BY <1>1, <2>1, <2>2 DEF Owns
<1>3. \A t \in Threads : \A r \in todo[t] : r \in Steps /\ StepOK(r)
  BY DEF ChainInd, Types, StepsOK
<1>4. \A r \in pool \cup timers \cup inner : r \in Steps /\ StepOK(r)
  BY DEF ChainInd, Types, StepsOK
<1> QED BY <1>1, <1>2, <1>3, <1>4

\* The callback is given to the last future: who has the promises of the others is the
\* same, and the callback, or the thread that runs it at once, has the next one.
LEMMA ConsumeOwners ==
  ASSUME ChainInd, main = "build", Idle("main"), Consume("main", built),
         UNCHANGED <<value, pool, timers, inner>>,
         NEW k, k = built + 1
  PROVE  /\ \A j \in 0 .. built : Sole(j)'
         /\ \E o : Owners(k)' = {o}
<1>1. built \in 0 .. MaxStages /\ built \in Futures /\ built + 1 \in Nat /\ todo["main"] = {}
  BY DEF ChainInd, Types, Idle, Nothing, Futures
<1>2. consumed' = [consumed EXCEPT ![built] = TRUE]
  BY DEF Consume
<1>3. consumed'[built] /\ \A j \in Futures \ {built} : consumed'[j] = consumed[j]
  BY <1>1, <1>2 DEF ChainInd, Types
<1>4. /\ \A u \in Threads \ {"main"} : todo'[u] = todo[u]
      /\ value[built] = {} => todo'["main"] = {}
      /\ value[built] # {} => \E r \in todo'["main"] : r.op = "call" /\ r.k = built
      /\ \A r \in todo'["main"] : r.op = "call" /\ r.k = built
  <2>1. PICK n : n = [op |-> "call", k |-> built, v |-> CHOOSE v \in value[built] : TRUE]
    OBVIOUS
  <2>2. todo' = [todo EXCEPT !["main"] = IF value[built] = {} THEN {} ELSE {n}]
    BY <2>1, Zenon DEF Consume, Next1, Do, Nothing
  <2>3. todo'["main"] = IF value[built] = {} THEN {} ELSE {n}
    BY <2>2 DEF ChainInd, Types, Threads
  <2>4. n.op = "call" /\ n.k = built
    BY <2>1
  <2>5. \A u \in Threads \ {"main"} : todo'[u] = todo[u]
    BY <2>2 DEF ChainInd, Types, Threads
  <2> QED BY <2>3, <2>4, <2>5
<1>5. \A r \in todo'["main"] : \A j \in Nat : Owns(r, j) <=> j = built + 1
  BY <1>1, <1>4 DEF Owns
<1>6. ASSUME NEW j \in 0 .. built
      PROVE  Sole(j)'
  <2>1. j \in Nat /\ Sole(j)
    BY <1>1 DEF ChainInd
  <2>2. \A u \in Threads : (\E r \in todo'[u] : Owns(r, j)) <=> (\E r \in todo[u] : Owns(r, j))
    <3>1. \A r \in todo'["main"] : ~ Owns(r, j)
      BY <1>1, <1>5, <2>1
    <3> QED BY <1>1, <1>4, <3>1
  <2>3. CallbackOf(consumed', value', j) <=> CallbackOf(consumed, value, j)
    BY <1>1, <1>3, <2>1 DEF CallbackOf, Futures
  <2>4. Owners(j)' = Owners(j)
    BY <2>1, <2>2, <2>3, SameOwners
  <2> QED BY <2>1, <2>4 DEF Sole
<1>7. /\ \A t \in Threads : \A r \in todo[t] : ~ Owns(r, built + 1)
      /\ \A r \in pool \cup timers \cup inner : ~ Owns(r, built + 1)
  BY NextIsFree
<1>8. k = built + 1
  OBVIOUS
<1>9. k \in Nat /\ k > 0 /\ k - 1 = built
  BY <1>1, <1>8
<1>10. \A u \in Threads \ {"main"} : \A r \in todo'[u] : ~ Owns(r, k)
  BY <1>4, <1>7, <1>8
<1>11. CASE value[built] = {}
  <2>1. CallbackOf(consumed', value', k)
    BY <1>3, <1>9, <1>11 DEF CallbackOf
  <2>2. PICK o : o = <<"callback", k - 1>>
    OBVIOUS
  <2>3. o \in Owners(k)'
    BY <1>9, <2>1, <2>2, OwnersAre DEF Kinds
  <2>4. \A u \in Threads : \A r \in todo'[u] : ~ Owns(r, k)
    BY <1>4, <1>10, <1>11
  <2>5. Owners(k)' = {o}
    BY <1>7, <1>8, <1>9, <2>2, <2>3, <2>4, OwnedNext
  <2> QED BY <1>6, <2>5
<1>12. CASE value[built] # {}
  <2>1. ~ CallbackOf(consumed', value', k)
    BY <1>9, <1>12 DEF CallbackOf
  <2>2. PICK o : o = <<"thread", "main">>
    OBVIOUS
  <2>3. \E r \in todo'["main"] : Owns(r, k)
    BY <1>4, <1>5, <1>8, <1>9, <1>12
  <2>4. o \in Owners(k)'
    BY <1>9, <2>2, <2>3, OwnersAre DEF Kinds, Threads
  <2>5. /\ \A u \in Threads : <<"thread", u>> # o => \A r \in todo'[u] : ~ Owns(r, k)
        /\ \A r \in pool' \cup timers' \cup inner' : ~ Owns(r, k)
    BY <1>7, <1>8, <1>10, <2>2
  <2>6. Owners(k)' = {o}
    BY <1>9, <2>1, <2>4, <2>5, OwnedNext
  <2> QED BY <1>6, <2>6
<1> QED BY <1>11, <1>12

\* What Consume leaves the main thread to do.
LEMMA ConsumeMoves ==
  ASSUME ChainInd, Idle("main"), Consume("main", built), PipeGrows,
         UNCHANGED <<value, outcome, pool, timers, inner>>
  PROVE  /\ StepsOK'
         /\ todo' \in [Threads -> SUBSET Steps]
         /\ \A u \in Threads : \A q, r \in todo'[u] : q = r
         /\ \A u \in Threads : \A r \in todo'[u] : r.op = "user" => r \in todo[u]
<1>1. built \in Futures /\ built \in 0 .. MaxStages
  BY DEF ChainInd, Types, Futures
<1>2. consumed'[built]
  BY <1>1 DEF Consume, ChainInd, Types
<1>3. PICK n : n = [op |-> "call", k |-> built, v |-> CHOOSE v \in value[built] : TRUE]
  OBVIOUS
<1>4. \/ value[built] # {} /\ todo' = [todo EXCEPT !["main"] = {n}]
      \/ todo' = [todo EXCEPT !["main"] = {}]
  BY <1>3 DEF Consume, Next1, Do, Nothing
<1>5. value[built] # {} => n \in Steps /\ n.op = "call" /\ n.k = built /\ n.v \in value[built]
  <2> SUFFICES ASSUME value[built] # {}
               PROVE  n \in Steps /\ n.op = "call" /\ n.k = built /\ n.v \in value[built]
    OBVIOUS
  <2>1. PICK w : w = CHOOSE v \in value[built] : TRUE
    OBVIOUS
  <2>2. w \in value[built]
    BY <2>1
  <2>3. w \in Values
    BY <1>1, <2>2 DEF ChainInd, Types
  <2> QED BY <1>1, <1>3, <2>1, <2>2, <2>3 DEF Steps
<1>6. todo' \in [Threads -> SUBSET Steps]
  BY <1>4, <1>5 DEF ChainInd, Types
<1>7. /\ \A u \in Threads \ {"main"} : todo'[u] = todo[u]
      /\ \A r \in todo'["main"] : r = n /\ value[built] # {}
  BY <1>4 DEF ChainInd, Types, Threads
<1>8. \A u \in Threads : \A q, r \in todo'[u] : q = r
  BY <1>7 DEF ChainInd, Types
<1>9. value[built] # {} => StepOK(n)'
  <2>1. value[built] # {} => n.k <= built' /\ consumed'[n.k] /\ n.v \in value'[n.k]
    BY <1>1, <1>2, <1>5 DEF PipeGrows, Futures
  <2> QED BY <1>5, <2>1 DEF StepOK
<1>10. \A u \in Threads : \A r \in todo'[u] : StepOK(r)'
  <2> SUFFICES ASSUME NEW u \in Threads, NEW r \in todo'[u] PROVE StepOK(r)'
    OBVIOUS
  <2>1. CASE u = "main"
    BY <1>7, <1>9, <2>1
  <2>2. CASE u # "main"
    BY <1>7, <2>2, QuietSteps DEF ChainInd, Types, StepsOK
  <2> QED BY <2>1, <2>2
<1>11. \A r \in pool \cup timers \cup inner : StepOK(r)'
  BY QuietSteps DEF ChainInd, Types, StepsOK
<1>12. StepsOK'
  BY <1>10, <1>11 DEF ChainInd, StepsOK
<1>13. \A u \in Threads : \A r \in todo'[u] : r.op = "user" => r \in todo[u]
  BY <1>5, <1>7
<1> QED BY <1>6, <1>8, <1>12, <1>13

LEMMA PipeKeeps ==
  ASSUME ChainInd, NEW c \in Combinators, Pipe(c)
  PROVE  ChainInd'
<1>1. /\ main = "build" /\ Idle("main") /\ built < MaxStages /\ built' = built + 1
      /\ stage' = [stage EXCEPT ![built + 1] = c]
      /\ runtime' = [runtime EXCEPT ![built + 1] = runtime[built]]
      /\ Consume("main", built)
      /\ UNCHANGED <<main, value, outcome, pool, timers, inner, got>>
  BY DEF Pipe
<1>2. built \in 0 .. MaxStages /\ built \in Futures /\ built' \in Futures /\ built' \in 1 .. MaxStages
  BY <1>1 DEF ChainInd, Types, Futures
<1>3. consumed' = [consumed EXCEPT ![built] = TRUE] /\ consumed'[built]
      /\ \A j \in Futures \ {built} : consumed'[j] = consumed[j]
  BY <1>1, <1>2 DEF Consume, ChainInd, Types
<1>4. PipeGrows
  BY <1>1, <1>2, <1>3 DEF PipeGrows, Futures, ChainInd, Types
<1>5. /\ StepsOK' /\ todo' \in [Threads -> SUBSET Steps]
      /\ \A u \in Threads : \A q, r \in todo'[u] : q = r
      /\ \A u \in Threads : \A r \in todo'[u] : r.op = "user" => r \in todo[u]
  BY <1>1, <1>4, ConsumeMoves
<1>6. Types'
  BY <1>1, <1>2, <1>3, <1>5 DEF ChainInd, Types
<1>7. PipeOK'
  <2>1. \A k \in Futures : consumed'[k] <=> k < built' \/ (k = built' /\ main' # "build")
    BY <1>1, <1>2, <1>3 DEF ChainInd, PipeOK, Futures
  <2>2. \A v \in got' : FALSE
    BY <1>1 DEF ChainInd, PipeOK
  <2> QED BY <1>1, <1>4, <2>1, <2>2, QuietSteps DEF PipeOK
<1>8. RunsInRuntime'
  <2>1. \A t \in Threads : \A r \in todo[t] : r.k \in 0 .. MaxStages /\ r.k <= built
    <3>1. \A t \in Threads : \A r \in todo[t] : r \in Steps /\ StepOK(r)
      BY DEF ChainInd, Types, StepsOK
    <3>2. \A r \in Steps : StepOK(r) => r.k \in 0 .. MaxStages /\ r.k <= built
      BY DEF StepOK, Steps, Futures
    <3> QED BY <3>1, <3>2
  <2>2. \A j \in 0 .. built : runtime'[j] = runtime[j]
    BY <1>1, <1>2 DEF ChainInd, Types, Futures
  <2> QED BY <1>2, <1>5, <2>1, <2>2 DEF ChainInd, RunsInRuntime
<1>9. \A k \in 0 .. built' : Sole(k)'
  <2>1. PICK k : k = built + 1
    OBVIOUS
  <2>2. /\ \A j \in 0 .. built : Sole(j)'
        /\ \E o : Owners(k)' = {o}
    BY <1>1, <2>1, ConsumeOwners
  <2>3. value'[k] = {}
    BY <1>1, <1>2, <2>1 DEF ChainInd, PipeOK, Futures
  <2>4. Sole(k)'
    BY <2>2, <2>3 DEF Sole
  <2> QED BY <1>1, <1>2, <2>1, <2>2, <2>4
<1> QED BY <1>5, <1>6, <1>7, <1>8, <1>9 DEF ChainInd

LEMMA EndKeeps ==
  ASSUME ChainInd, Get \/ Detach
  PROVE  ChainInd'
<1>1. /\ main = "build" /\ Idle("main") /\ main' \in {"get", "detached"}
      /\ Consume("main", built)
      /\ UNCHANGED <<stage, built, runtime, value, outcome, pool, timers, inner, got>>
  BY DEF Get, Detach
<1>2. built \in 0 .. MaxStages /\ built \in Futures
  BY <1>1 DEF ChainInd, Types, Futures
<1>3. consumed' = [consumed EXCEPT ![built] = TRUE] /\ consumed'[built]
      /\ \A j \in Futures \ {built} : consumed'[j] = consumed[j]
  BY <1>1, <1>2 DEF Consume, ChainInd, Types
<1>4. PipeGrows
  BY <1>1, <1>2, <1>3 DEF PipeGrows, Futures, ChainInd, Types
<1>5. /\ StepsOK' /\ todo' \in [Threads -> SUBSET Steps]
      /\ \A u \in Threads : \A q, r \in todo'[u] : q = r
      /\ \A u \in Threads : \A r \in todo'[u] : r.op = "user" => r \in todo[u]
  BY <1>1, <1>4, ConsumeMoves
<1>6. Types'
  BY <1>1, <1>2, <1>3, <1>5 DEF ChainInd, Types
<1>7. PipeOK'
  <2>1. \A k \in Futures : consumed'[k] <=> k < built' \/ (k = built' /\ main' # "build")
    BY <1>1, <1>2, <1>3 DEF ChainInd, PipeOK, Futures
  <2>2. \A v \in got' : FALSE
    BY <1>1 DEF ChainInd, PipeOK
  <2> QED BY <1>1, <1>4, <2>1, <2>2, QuietSteps DEF PipeOK
<1>8. RunsInRuntime'
  BY <1>1, <1>5 DEF ChainInd, RunsInRuntime
<1>9. \A k \in 0 .. built' : Sole(k)'
  <2>1. PICK k : k = built + 1
    OBVIOUS
  <2>2. \A j \in 0 .. built : Sole(j)'
    BY <1>1, <2>1, ConsumeOwners
  <2> QED BY <1>1, <2>2
<1> QED BY <1>5, <1>6, <1>7, <1>8, <1>9 DEF ChainInd

\* Via, the return of Get, and steps that change nothing.
LEMMA RestKeeps ==
  ASSUME ChainInd, (\E rt \in {"inline", "pool"} : Via(rt)) \/ GetReturn \/ UNCHANGED vars
  PROVE  ChainInd'
<1>1. /\ UNCHANGED <<stage, built, consumed, value, outcome, todo, pool, timers, inner, got>>
      /\ main' = main \/ (main = "get" /\ main' = "done")
      /\ runtime' = runtime \/ \E rt \in {"inline", "pool"} : runtime' = [runtime EXCEPT ![built] = rt]
  BY DEF Via, GetReturn, vars, pipeVars
<1>2. built \in 0 .. MaxStages /\ built \in Futures
  BY DEF ChainInd, Types, Futures
<1>3. runtime' \in [Futures -> {"inline", "pool"}] /\ \A k \in Futures : k # built => runtime'[k] = runtime[k]
  BY <1>1 DEF ChainInd, Types
<1>4. PipeGrows
  BY <1>1, <1>2 DEF PipeGrows
<1>5. Types'
  BY <1>1, <1>3 DEF ChainInd, Types
<1>6. StepsOK'
  BY <1>1, <1>4, QuietSteps DEF ChainInd, Types, StepsOK
<1>7. PipeOK'
  <2>1. \A k \in Futures : consumed'[k] <=> k < built' \/ (k = built' /\ main' # "build")
    BY <1>1 DEF ChainInd, PipeOK
  <2>2. \A v \in got' : main' \in {"get", "done"} /\ v \in value'[built']
    BY <1>1 DEF ChainInd, PipeOK
  <2> QED BY <1>1, <1>4, <2>1, <2>2, QuietSteps DEF PipeOK
<1>8. RunsInRuntime'
  <2>1. \A t \in Threads : \A r \in todo[t] : r.k \in 0 .. MaxStages /\ r.k <= built
    <3>1. \A t \in Threads : \A r \in todo[t] : r \in Steps /\ StepOK(r)
      BY DEF ChainInd, Types, StepsOK
    <3>2. \A r \in Steps : StepOK(r) => r.k \in 0 .. MaxStages /\ r.k <= built
      BY DEF StepOK, Steps, Futures
    <3> QED BY <3>1, <3>2
  <2>2. \A j \in 0 .. built : j < built => runtime'[j] = runtime[j]
    BY <1>2, <1>3 DEF Futures
  <2> QED BY <1>1, <1>2, <2>1, <2>2 DEF ChainInd, RunsInRuntime
<1>9. ASSUME NEW k \in 0 .. built
      PROVE  Sole(k)'
  <2>1. k \in Nat /\ Sole(k)
    BY DEF ChainInd, Types, Futures
  <2>2. CallbackOf(consumed', value', k) <=> CallbackOf(consumed, value, k)
    BY <1>1
  <2>3. Owners(k)' = Owners(k)
    BY <1>1, <2>1, <2>2, SameOwners
  <2> QED BY <1>1, <2>1, <2>3 DEF Sole
<1> QED BY <1>1, <1>5, <1>6, <1>7, <1>8, <1>9 DEF ChainInd

-----------------------------------------------------------------------------
(* ChainInd holds throughout                                               *)

LEMMA StartIsValue == \A ok : Start(ok) \in Values
BY DEF Start, Values, R!Ok, R!Err, Futures

\* The promise of the source is owned by the task of Spawn or by the producer, or has
\* been set by Ready.
LEMMA ChainInit == Init => ChainInd
<1> SUFFICES ASSUME Init PROVE ChainInd
  OBVIOUS
<1>1. /\ stage = [k \in Futures |-> "Map"] /\ built = 0 /\ main = "build"
      /\ consumed = [k \in Futures |-> FALSE] /\ timers = {} /\ inner = {} /\ got = {}
  BY DEF Init
<1>2. PICK source \in {"spawn", "ready", "contract"}, ok \in BOOLEAN :
        /\ value = [k \in Futures |-> IF source = "ready" /\ k = 0 THEN {Start(ok)} ELSE {}]
        /\ runtime = [k \in Futures |-> IF source = "spawn" /\ k = 0 THEN "pool" ELSE "inline"]
        /\ outcome = [k \in Futures |-> IF k = 0 THEN {ok} ELSE {}]
        /\ pool = IF source = "spawn" THEN Do("user", 0, Start(ok)) ELSE {}
        /\ todo = [t \in Threads |->
             IF source = "contract" /\ t = "producer" THEN Do("set", 0, Start(ok)) ELSE Nothing]
  BY DEF Init
<1>3. 0 \in Futures /\ Start(ok) \in Values
  BY StartIsValue DEF Futures
<1>4. PICK v : v = Start(ok)
  OBVIOUS
<1>5. PICK u, p : u = [op |-> "user", k |-> 0, v |-> v] /\ p = [op |-> "set", k |-> 0, v |-> v]
  OBVIOUS
<1>6. u \in Steps /\ p \in Steps
  BY <1>3, <1>4, <1>5 DEF Steps
<1>7. /\ pool = IF source = "spawn" THEN {u} ELSE {}
      /\ todo = [t \in Threads |-> IF source = "contract" /\ t = "producer" THEN {p} ELSE {}]
      /\ value = [k \in Futures |-> IF source = "ready" /\ k = 0 THEN {v} ELSE {}]
  BY <1>2, <1>4, <1>5, Zenon DEF Do, Nothing
<1>8. Types
  <2>1. runtime \in [Futures -> {"inline", "pool"}]
    BY <1>2
  <2>2. outcome \in [Futures -> SUBSET BOOLEAN]
    BY <1>2
  <2>3. value \in [Futures -> SUBSET Values]
    BY <1>3, <1>4, <1>7
  <2>4. todo \in [Threads -> SUBSET Steps] /\ pool \subseteq Steps
    BY <1>6, <1>7
  <2> QED BY <1>1, <1>3, <1>7, <2>1, <2>2, <2>3, <2>4 DEF Types, Combinators
<1>9. v = Start(TRUE \in outcome[0])
  <2>1. outcome[0] = {ok}
    BY <1>2, <1>3
  <2>2. (TRUE \in {ok}) = ok
    <3>1. CASE ok = TRUE
      BY <3>1
    <3>2. CASE ok = FALSE
      <4>1. (TRUE \in {FALSE}) = FALSE
        OBVIOUS
      <4> QED BY <3>2, <4>1, Zenon
    <3> QED BY <3>1, <3>2
  <2> QED BY <1>4, <2>1, <2>2
<1>10. Right(0, v)
  BY <1>9, Zenon DEF Right
<1>11. StepOK(u) /\ StepOK(p)
  <2>1. u.op = "user" /\ u.k = 0 /\ u.v = v /\ u.k <= built /\ ~ (u.k > 0)
    BY <1>1, <1>5
  <2>2. p.op = "set" /\ p.k = 0 /\ p.v = v /\ p.k <= built
    BY <1>1, <1>5
  <2>3. Right(p.k, p.v)
    BY <1>10, <2>2, Zenon
  <2>4. StepOK(u)
    BY <1>9, <2>1, Zenon DEF StepOK
  <2>5. StepOK(p)
    BY <2>2, <2>3 DEF StepOK
  <2> QED BY <2>4, <2>5
<1>12. StepsOK
  BY <1>1, <1>5, <1>7, <1>11 DEF StepsOK
<1>13. PipeOK
  <2>1. \A k \in Futures : \A w \in value[k] : k <= built /\ Right(k, w)
    BY <1>1, <1>7, <1>10
  <2> QED BY <1>1, <2>1 DEF PipeOK, Futures
<1>14. RunsInRuntime
  BY <1>5, <1>7 DEF RunsInRuntime
<1>15. Sole(0)
  <2> DEFINE O == Owners(0)
             cb == CallbackOf(consumed, value, 0)
  <2>1. ~ cb /\ cb \in BOOLEAN
    BY DEF CallbackOf
  <2>2. Kinds(O, 0, todo, pool, timers, inner, cb)
    <3>1. 0 \in Nat
      OBVIOUS
    <3> QED BY <3>1, OwnersAre
  <2>3. Owns(u, 0) /\ Owns(p, 0)
    BY <1>5 DEF Owns
  <2>4. Sole(0) <=> IF value[0] = {} THEN \E o : O = {o} ELSE O = {}
    BY DEF Sole
  <2> HIDE DEF O, cb
  <2>5. CASE source = "spawn"
    <3>1. PICK o : o = <<"pool", u>>
      OBVIOUS
    <3>2. pool = {u} /\ \A t \in Threads : todo[t] = {}
      BY <1>7, <2>5
    <3>3. O \subseteq {o}
      BY <1>1, <2>1, <2>2, <3>1, <3>2, NoOther
    <3>4. o \in O
      BY <2>2, <2>3, <3>1, <3>2 DEF Kinds
    <3>5. O = {o} /\ value[0] = {}
      BY <1>3, <1>7, <2>5, <3>3, <3>4
    <3> QED BY <2>4, <3>5
  <2>6. CASE source = "contract"
    <3>1. PICK o : o = <<"thread", "producer">>
      OBVIOUS
    <3>2. pool = {} /\ todo["producer"] = {p} /\ \A t \in Threads : t # "producer" => todo[t] = {}
      BY <1>7, <2>6 DEF Threads
    <3>3. \A t \in Threads : <<"thread", t>> # o => \A s \in todo[t] : ~ Owns(s, 0)
      BY <3>1, <3>2
    <3>4. O \subseteq {o}
      BY <1>1, <2>1, <2>2, <3>2, <3>3, NoOther
    <3>5. o \in O
      BY <2>2, <2>3, <3>1, <3>2 DEF Kinds, Threads
    <3>6. O = {o} /\ value[0] = {}
      BY <1>3, <1>7, <2>6, <3>4, <3>5
    <3> QED BY <2>4, <3>6
  <2>7. CASE source = "ready"
    <3>1. PICK o : o = <<"callback", 0 - 1>>
      OBVIOUS
    <3>2. pool = {} /\ \A t \in Threads : todo[t] = {}
      BY <1>7, <2>7
    <3>3. O \subseteq {o}
      BY <1>1, <2>1, <2>2, <3>2, NoOther
    <3>4. o \notin O
      BY <2>1, <2>2, <3>1, Zenon DEF Kinds
    <3>5. O = {} /\ value[0] # {}
      BY <1>3, <1>7, <2>7, <3>3, <3>4
    <3> QED BY <2>4, <3>5
  <2> QED BY <2>5, <2>6, <2>7
<1> QED BY <1>1, <1>8, <1>12, <1>13, <1>14, <1>15 DEF ChainInd

LEMMA RunKeeps ==
  ASSUME ChainInd, NEW t \in Threads, Run(t)
  PROVE  ChainInd'
<1>1. \/ Set(t) \/ CallSkip(t) \/ CallSubmit(t) \/ (CallFlatten(t) \/ CallAfter(t)) \/ CallEnd(t)
      \/ User(t)
  BY Zenon DEF Run
<1> QED BY <1>1, SetKeeps, CallSkipKeeps, CallSubmitKeeps, CallPassKeeps, CallEndKeeps, UserKeeps, Zenon

LEMMA ChainStep == ChainInd /\ [Next]_vars => ChainInd'
<1> SUFFICES ASSUME ChainInd, [Next]_vars PROVE ChainInd'
  OBVIOUS
<1>1. CASE Build
  BY <1>1, EndKeeps, PipeKeeps, RestKeeps, Zenon DEF Build
<1>2. CASE Main
  <2>1. "main" \in Threads
    BY DEF Threads
  <2> QED BY <1>2, <2>1, RunKeeps, RestKeeps, Zenon DEF Main
<1>3. CASE Producer
  <2>1. "producer" \in Threads
    BY DEF Threads
  <2> QED BY <1>3, <2>1, RunKeeps, TakeKeeps, Zenon DEF Producer
<1>4. CASE Expire
  BY <1>4, ExpireKeeps
<1>5. ASSUME NEW w \in Workers, Worker(w)
      PROVE  ChainInd'
  <2>1. w \in Threads
    BY DEF Threads
  <2> QED BY <1>5, <2>1, RunKeeps, TakeKeeps, Zenon DEF Worker
<1>6. CASE Terminated \/ UNCHANGED vars
  BY <1>6, RestKeeps, Zenon DEF Terminated
<1> QED BY <1>1, <1>2, <1>3, <1>4, <1>5, <1>6, Zenon DEF Next

\* On every way through callbacks, tasks, timers and the users' futures, the promise of
\* each future of the pipe has one owner until it is set and none afterwards, and every
\* function runs in the runtime its stage was piped in: for any pool, and a pipe of any
\* length.
THEOREM PromisesAreOwned == Spec => []ChainInv
<1>1. Init => ChainInd
  BY ChainInit
<1>2. ChainInd /\ [Next]_vars => ChainInd'
  BY ChainStep
<1>3. ChainInd => ChainInv
  BY IndImplies
<1> QED BY <1>1, <1>2, <1>3, PTL DEF Spec

-----------------------------------------------------------------------------
(* What Get returns                                                        *)

\* Induction, over a set: a nonempty set of numbers has a least element.
LEMMA Least ==
  ASSUME NEW T, T \subseteq Nat, T # {}
  PROVE  \E m \in T : \A n \in T : m <= n
<1>1. PICK m \in T : \A n \in T : ~ (<<n, m>> \in OpToRel(<, Nat))
  BY NatLessThanWellFounded, WFMin
<1>2. \A n \in T : n < m => <<n, m>> \in OpToRel(<, Nat)
  BY DEF OpToRel
<1>3. \A n \in T : ~ (n < m)
  BY <1>1, <1>2, Zenon
<1> QED BY <1>3

LEMMA SetInduction ==
  ASSUME NEW S, 0 \in S, \A n \in Nat : n \in S => n + 1 \in S
  PROVE  Nat \subseteq S
<1> DEFINE T == Nat \ S
<1> SUFFICES ASSUME T # {} PROVE FALSE
  OBVIOUS
<1>1. PICK m \in T : \A n \in T : m <= n
  BY Least
<1>2. m # 0 /\ m - 1 \in Nat /\ m - 1 \notin T
  BY <1>1
<1> QED BY <1>1, <1>2

\* f[k] is what the stages up to k make of the source.
Evaluates(f, n) ==
  f = [k \in 0 .. n |-> IF k = 0 THEN Start(TRUE \in outcome[0]) ELSE Stage(k, f[k - 1])]

\* There is such a function, so that Evaluate is its last value.
LEMMA EvaluationExists ==
  ASSUME NEW n \in Nat
  PROVE  \E f : Evaluates(f, n)
<1> DEFINE a == Start(TRUE \in outcome[0])
           S == {m \in Nat : \E f : Evaluates(f, m)}
<1>1. 0 \in S
  <2>1. PICK f : f = [k \in 0 .. 0 |-> a]
    OBVIOUS
  <2> HIDE DEF a
  <2>2. f = [k \in 0 .. 0 |-> IF k = 0 THEN a ELSE Stage(k, f[k - 1])]
    BY <2>1
  <2>3. Evaluates(f, 0)
    BY <2>2 DEF Evaluates, a
  <2> QED BY <2>3
<1>2. ASSUME NEW m \in Nat, m \in S
      PROVE  m + 1 \in S
  <2>1. PICK f : Evaluates(f, m)
    BY <1>2
  <2>2. f = [k \in 0 .. m |-> IF k = 0 THEN a ELSE Stage(k, f[k - 1])]
    BY <2>1 DEF Evaluates
  <2> HIDE DEF a
  <2>3. PICK g : g = [k \in 0 .. m + 1 |-> IF k = 0 THEN a ELSE Stage(k, f[k - 1])]
    OBVIOUS
  <2>4. \A k \in 0 .. m : g[k] = f[k]
    <3> SUFFICES ASSUME NEW k \in 0 .. m PROVE g[k] = f[k]
      OBVIOUS
    <3>1. g[k] = IF k = 0 THEN a ELSE Stage(k, f[k - 1])
      BY <2>3
    <3>2. f[k] = IF k = 0 THEN a ELSE Stage(k, f[k - 1])
      BY <2>2
    <3> QED BY <3>1, <3>2
  <2>5. \A k \in 1 .. m + 1 : g[k - 1] = f[k - 1]
    <3> SUFFICES ASSUME NEW k \in 1 .. m + 1 PROVE g[k - 1] = f[k - 1]
      OBVIOUS
    <3>1. k - 1 \in 0 .. m
      BY <1>2
    <3> QED BY <3>1, <2>4
  <2>6. g = [k \in 0 .. m + 1 |-> IF k = 0 THEN a ELSE Stage(k, g[k - 1])]
    <3>1. \A k \in 0 .. m + 1 : (IF k = 0 THEN a ELSE Stage(k, f[k - 1]))
                                = (IF k = 0 THEN a ELSE Stage(k, g[k - 1]))
      <4> SUFFICES ASSUME NEW k \in 0 .. m + 1, k # 0 PROVE Stage(k, f[k - 1]) = Stage(k, g[k - 1])
        OBVIOUS
      <4>0. k \in 1 .. m + 1
        BY <1>2
      <4>1. g[k - 1] = f[k - 1]
        BY <4>0, <2>5
      <4> QED BY <4>1
    <3> QED BY <2>3, <3>1, Zenon
  <2>7. Evaluates(g, m + 1)
    BY <2>6, Zenon DEF Evaluates, a
  <2> QED BY <2>7
<1> HIDE DEF S
<1>3. Nat \subseteq S
  BY <1>1, <1>2, SetInduction
<1> QED BY <1>3 DEF S

LEMMA EvaluateIs ==
  ASSUME built \in Nat
  PROVE  \E f : Evaluates(f, built) /\ Evaluate = f[built]
<1> DEFINE e == CHOOSE f : Evaluates(f, built)
<1>1. Evaluate = e[built]
  BY DEF Evaluate, Evaluates, Stage
<1>2. Evaluates(e, built)
  BY EvaluationExists
<1> QED BY <1>1, <1>2, Zenon

\* A future has the value that the stages up to it make of the source.
LEMMA ValuesAre ==
  ASSUME ChainInd, NEW f, Evaluates(f, built), NEW n \in 0 .. built
  PROVE  \A v \in value[n] : v = f[n]
<1> DEFINE a == Start(TRUE \in outcome[0])
           S == {m \in Nat : m <= built => \A v \in value[m] : v = f[m]}
<1>1. built \in 0 .. MaxStages /\ built \in Nat
  BY DEF ChainInd, Types, Futures
<1>2. f = [k \in 0 .. built |-> IF k = 0 THEN a ELSE Stage(k, f[k - 1])]
  BY Zenon DEF Evaluates, a
<1>3. \A k \in 0 .. built : \A v \in value[k] : Right(k, v)
  BY <1>1 DEF ChainInd, PipeOK, Futures
<1>4. \A v \in value[0] : v = a
  <2>1. \A v : Right(0, v) => v = a
    BY Zenon DEF Right, a
  <2>2. \A v \in value[0] : Right(0, v)
    BY <1>1, <1>3
  <2> HIDE DEF a
  <2> QED BY <2>1, <2>2
<1> HIDE DEF a
<1>5. f[0] = a /\ \A k \in 1 .. built : f[k] = Stage(k, f[k - 1])
  <2>1. \A k \in 0 .. built : f[k] = IF k = 0 THEN a ELSE Stage(k, f[k - 1])
    BY <1>2
  <2> QED BY <1>1, <2>1
<1>6. 0 \in S
  <2>1. \A v \in value[0] : v = f[0]
    BY <1>4, <1>5
  <2> QED BY <2>1
<1>7. ASSUME NEW m \in Nat, m \in S
      PROVE  m + 1 \in S
  <2> SUFFICES ASSUME m + 1 <= built, NEW v \in value[m + 1] PROVE v = f[m + 1]
    OBVIOUS
  <2>1. PICK k : k = m + 1
    OBVIOUS
  <2>2. k \in 1 .. built /\ k - 1 = m /\ Right(k, v)
    BY <1>1, <1>3, <2>1
  <2>3. PICK r \in value[k - 1] : v = Stage(k, r)
    <3>1. k # 0
      BY <2>2
    <3> QED BY <2>2, <3>1, Zenon DEF Right
  <2>4. r = f[m]
    <3>1. \A w \in value[m] : w = f[m]
      BY <1>1, <1>7
    <3> QED BY <2>2, <2>3, <3>1
  <2>5. f[k] = Stage(k, f[m])
    BY <1>5, <2>2
  <2> QED BY <2>1, <2>3, <2>4, <2>5
<1> HIDE DEF S
<1>8. Nat \subseteq S
  BY <1>6, <1>7, SetInduction
<1> QED BY <1>1, <1>8 DEF S

LEMMA IndIsRight == ChainInd => GetIsRight
<1> SUFFICES ASSUME ChainInd PROVE GetIsRight
  OBVIOUS
<1>1. built \in 0 .. built /\ built \in Nat
  BY DEF ChainInd, Types, Futures
<1>2. PICK f : Evaluates(f, built) /\ Evaluate = f[built]
  BY <1>1, EvaluateIs
<1>3. \A v \in value[built] : v = Evaluate
  BY <1>1, <1>2, ValuesAre
<1>4. \A v \in got : v \in value[built]
  BY DEF ChainInd, PipeOK
<1> QED BY <1>3, <1>4 DEF GetIsRight

\* Get returns, and a detached pipe ends with, what the pipe of results with the same
\* combinators computes from what the user's functions made: whoever runs the stages, in
\* whatever order the promises and the callbacks come, however long the pipe is.
THEOREM PipeIsRight == Spec => []GetIsRight
<1>1. Init => ChainInd
  BY ChainInit
<1>2. ChainInd /\ [Next]_vars => ChainInd'
  BY ChainStep
<1>3. ChainInd => GetIsRight
  BY IndIsRight
<1> QED BY <1>1, <1>2, <1>3, PTL DEF Spec

=============================================================================

------------------------ MODULE AtomicSharedPtrProofs ------------------------
(* Proofs about AtomicSharedPtr, for any threads, addresses and numbers of     *)
(* calls: the count of every object is exact, an object is retired once and    *)
(* none is forgotten, Gc destroys nothing that a thread uses, and every call   *)
(* takes effect at one instant.  The set of threads need not be finite.        *)
EXTENDS AtomicSharedPtr, SequenceTheorems, FunctionTheorems, FiniteSetTheorems, TLAPS

-----------------------------------------------------------------------------
(* How often an element occurs in a sequence.                              *)

One(b) == IF b THEN 1 ELSE 0

LEMMA OneNat == \A b : One(b) \in 0 .. 1
BY DEF One

Occurs(x, s) == {j \in DOMAIN s : s[j] = x}
Occ(x, s) == Cardinality(Occurs(x, s))

\* Occurrences are finitely many ...
LEMMA OccType ==
  ASSUME NEW S, NEW s \in Seq(S), NEW x
  PROVE  IsFiniteSet(Occurs(x, s)) /\ Occ(x, s) \in Nat
<1>1. Len(s) \in Nat /\ DOMAIN s = 1 .. Len(s)
  BY LenProperties
<1>2. IsFiniteSet(1 .. Len(s))
  BY <1>1, FS_Interval
<1>3. Occurs(x, s) \in SUBSET (1 .. Len(s))
  BY <1>1 DEF Occurs
<1>4. IsFiniteSet(Occurs(x, s))
  BY <1>2, <1>3, FS_Subset
<1> QED BY <1>4, FS_CardinalityType DEF Occ

\* ... none exactly when the element is not in the sequence ...
LEMMA OccNone ==
  ASSUME NEW S, NEW s \in Seq(S), NEW x
  PROVE  Occ(x, s) = 0 <=> \A j \in DOMAIN s : s[j] # x
<1>1. Occ(x, s) = 0 <=> Occurs(x, s) = {}
  BY OccType, FS_EmptySet DEF Occ
<1> QED BY <1>1 DEF Occurs

LEMMA OccEmpty == ASSUME NEW x PROVE Occ(x, << >>) = 0
<1>1. DOMAIN << >> = {}
  OBVIOUS
<1>2. Occurs(x, << >>) = {}
  BY <1>1 DEF Occurs
<1> QED BY <1>2, FS_EmptySet DEF Occ

LEMMA OccOne == ASSUME NEW x, NEW y PROVE Occ(x, <<y>>) = One(y = x)
<1>1. DOMAIN <<y>> = {1} /\ <<y>>[1] = y
  OBVIOUS
<1>2. Occurs(x, <<y>>) = IF y = x THEN {1} ELSE {}
  BY <1>1 DEF Occurs
<1> QED BY <1>2, FS_EmptySet, FS_Singleton DEF Occ, One

\* ... and a concatenation has those of both parts.
LEMMA OccConcat ==
  ASSUME NEW S, NEW s \in Seq(S), NEW r \in Seq(S), NEW x
  PROVE  Occ(x, s \o r) = Occ(x, s) + Occ(x, r)
<1> DEFINE c == s \o r
           n == Len(s)
           A == Occurs(x, s)
           B == Occurs(x, r)
           shifted == {j + n : j \in B}
           shift == [j \in B |-> j + n]
<1>1. /\ n \in Nat /\ DOMAIN s = 1 .. n
      /\ Len(r) \in Nat /\ DOMAIN r = 1 .. Len(r)
      /\ c \in Seq(S) /\ Len(c) = n + Len(r)
  BY LenProperties, ConcatProperties
<1>2. DOMAIN c = 1 .. n + Len(r)
  BY <1>1, LenProperties
<1>3. \A i \in 1 .. n + Len(r) : c[i] = IF i <= n THEN s[i] ELSE r[i - n]
  BY ConcatProperties
<1> HIDE DEF c, n
<1>4. Occurs(x, c) = A \cup shifted
  <2>1. \A i \in Occurs(x, c) : i \in A \cup shifted
    <3> TAKE i \in Occurs(x, c)
    <3>1. i \in 1 .. n + Len(r) /\ c[i] = x
      BY <1>2 DEF Occurs
    <3>2. CASE i <= n
      BY <3>1, <3>2, <1>1, <1>3 DEF Occurs
    <3>3. CASE i > n
      <4>1. i - n \in B
        BY <3>1, <3>3, <1>1, <1>3 DEF Occurs
      <4>2. i = (i - n) + n
        BY <3>1, <1>1
      <4> QED BY <4>1, <4>2
    <3> QED BY <3>1, <3>2, <3>3, <1>1
  <2>2. \A i \in A : i \in Occurs(x, c)
    BY <1>1, <1>2, <1>3 DEF Occurs
  <2>3. \A j \in B : j + n \in Occurs(x, c)
    BY <1>1, <1>2, <1>3 DEF Occurs
  <2> QED BY <2>1, <2>2, <2>3
<1>5. IsFiniteSet(A) /\ IsFiniteSet(B) /\ Cardinality(A) \in Nat /\ Cardinality(B) \in Nat
  BY OccType DEF Occ
<1>6. \A j \in B : j \in Nat
  BY <1>1 DEF Occurs
<1>7. shift \in Bijection(B, shifted)
  <2>1. shift \in [B -> shifted]
    OBVIOUS
  <2>2. \A j, k \in B : shift[j] = shift[k] => j = k
    BY <1>6, <1>1
  <2>3. \A i \in shifted : \E j \in B : shift[j] = i
    OBVIOUS
  <2> QED BY <2>1, <2>2, <2>3, Fun_IsBij
<1>8. IsFiniteSet(shifted) /\ Cardinality(shifted) = Cardinality(B)
  BY <1>5, <1>7, FS_Bijection, Fun_ExistsBij
<1>9. A \cap shifted = {}
  <2>1. \A i \in A : i <= n
    BY <1>1 DEF Occurs
  <2>2. \A j \in B : j + n > n
    BY <1>1 DEF Occurs
  <2> QED BY <2>1, <2>2, <1>1, <1>6
<1>10. Cardinality(A \cup shifted) = Cardinality(A) + Cardinality(B)
  <2>1. Cardinality(A \cap shifted) = 0
    BY <1>9, FS_EmptySet
  <2> HIDE DEF A, B, shifted
  <2>2. Cardinality(A \cup shifted)
        = Cardinality(A) + Cardinality(shifted) - Cardinality(A \cap shifted)
    BY <1>5, <1>8, FS_Union
  <2> QED BY <2>1, <2>2, <1>5, <1>8
<1> QED BY <1>4, <1>10 DEF Occ, c

\* The first element, and one at the end.
LEMMA OccTail ==
  ASSUME NEW S, NEW s \in Seq(S), s # << >>, NEW x
  PROVE  /\ Occ(x, s) = One(Head(s) = x) + Occ(x, Tail(s))
         /\ Tail(s) \in Seq(S) /\ Head(s) \in S
         /\ Occ(x, Tail(s)) \in Nat
<1>1. Head(s) \in S /\ Tail(s) \in Seq(S)
  BY HeadTailProperties
<1>2. s = <<Head(s)>> \o Tail(s)
  <2> DEFINE h == Head(s)
             r == Tail(s)
             c == <<h>> \o r
  <2>1. /\ Len(r) = Len(s) - 1 /\ Len(s) \in Nat
        /\ h = s[1] /\ \A i \in 1 .. Len(r) : r[i] = s[i + 1]
    BY HeadTailProperties, LenProperties
  <2>2. <<h>> \in Seq(S) /\ Len(<<h>>) = 1 /\ <<h>>[1] = h
    BY <1>1
  <2>3. r \in Seq(S) /\ Len(r) \in Nat
    BY <1>1, LenProperties
  <2>4. c \in Seq(S) /\ Len(c) = 1 + Len(r)
        /\ \A i \in 1 .. 1 + Len(r) : c[i] = IF i <= 1 THEN <<h>>[i] ELSE r[i - 1]
    BY <2>2, <2>3, ConcatProperties
  <2> HIDE DEF h, r
  <2>5. Len(c) = Len(s)
    BY <2>1, <2>3, <2>4
  <2>6. \A i \in 1 .. Len(s) : s[i] = c[i]
    BY <2>1, <2>2, <2>3, <2>4
  <2> HIDE DEF c
  <2>7. s = c
    BY <2>4, <2>5, <2>6, SeqEqual
  <2> QED BY <2>7 DEF c, h, r
<1>3. <<Head(s)>> \in Seq(S)
  BY <1>1
<1>4. Occ(x, <<Head(s)>> \o Tail(s)) = Occ(x, <<Head(s)>>) + Occ(x, Tail(s))
  BY <1>1, <1>3, OccConcat
<1>5. Occ(x, Tail(s)) \in Nat
  BY <1>1, OccType
<1>6. Occ(x, <<Head(s)>>) = One(Head(s) = x)
  BY OccOne
<1>7. Occ(x, s) = Occ(x, <<Head(s)>> \o Tail(s))
  BY <1>2, Zenon
<1>8. Occ(x, s) = One(Head(s) = x) + Occ(x, Tail(s))
  BY <1>4, <1>6, <1>7, Zenon
<1> QED BY <1>1, <1>5, <1>8

LEMMA OccAppend ==
  ASSUME NEW S, NEW s \in Seq(S), NEW y \in S, NEW x
  PROVE  /\ Occ(x, Append(s, y)) = Occ(x, s) + One(y = x)
         /\ Append(s, y) \in Seq(S)
<1>1. Append(s, y) = s \o <<y>> /\ Append(s, y) \in Seq(S)
  BY AppendIsConcat, AppendProperties
<1>2. <<y>> \in Seq(S)
  OBVIOUS
<1>3. Occ(x, s \o <<y>>) = Occ(x, s) + Occ(x, <<y>>)
  BY <1>2, OccConcat
<1> QED BY <1>1, <1>3, OccOne

\* Sets that have nothing in common, and a set of one element or none.
LEMMA DisjointSum ==
  ASSUME NEW A, NEW B, IsFiniteSet(A), IsFiniteSet(B), A \cap B = {}
  PROVE  /\ IsFiniteSet(A \cup B)
         /\ Cardinality(A \cup B) = Cardinality(A) + Cardinality(B)
<1>1. Cardinality(A) \in Nat /\ Cardinality(B) \in Nat /\ Cardinality(A \cap B) = 0
  BY FS_CardinalityType, FS_EmptySet
<1>2. /\ IsFiniteSet(A \cup B)
      /\ Cardinality(A \cup B) = Cardinality(A) + Cardinality(B) - Cardinality(A \cap B)
  BY FS_Union
<1> QED BY <1>1, <1>2

When(b, r) == IF b THEN {r} ELSE {}

LEMMA WhenCard ==
  ASSUME NEW b \in BOOLEAN, NEW r
  PROVE  IsFiniteSet(When(b, r)) /\ Cardinality(When(b, r)) = One(b)
BY FS_EmptySet, FS_Singleton DEF When, One

\* The elements of a finite set with a tag.
Tagged(tag, t, K) == {<<tag, t, i>> : i \in K}

LEMMA TaggedCard ==
  ASSUME NEW K, IsFiniteSet(K), NEW tag, NEW t
  PROVE  /\ IsFiniteSet(Tagged(tag, t, K))
         /\ Cardinality(Tagged(tag, t, K)) = Cardinality(K)
<1> USE DEF Tagged
<1> DEFINE U == {<<tag, t, i>> : i \in K}
           name == [i \in K |-> <<tag, t, i>>]
<1>1. name \in Bijection(K, U)
  <2>1. name \in [K -> U]
    OBVIOUS
  <2>2. \A i, j \in K : name[i] = name[j] => i = j
    OBVIOUS
  <2>3. \A r \in U : \E i \in K : name[i] = r
    OBVIOUS
  <2> QED BY <2>1, <2>2, <2>3, Fun_IsBij
<1> QED BY <1>1, FS_Bijection, Fun_ExistsBij

-----------------------------------------------------------------------------
(* The references to an object: the cell's and those of one thread, which a *)
(* step of that thread changes, and those of the others.                    *)

\* What a call may still have to do.
Items == ({"unlink", "retire"} \X Objects) \cup {<<"reset", NULL>>}

\* Where a reference to o is: the names that Holders gives them.
RefOf(u, o, r) ==
  \/ mine[u] = o /\ r = <<"mine", u>>
  \/ arg[u] = o /\ r = <<"arg", u>>
  \/ arg[u] = o /\ pc[u] # "add" /\ r = <<"added", u>>
  \/ \E i \in DOMAIN todo[u] : todo[u][i] = <<"unlink", o>> /\ r = <<"todo", u, i>>

CellRef(o, r) == ss_ = o /\ r = <<"cell", 0>>

Named == \A o : \A r : r \in Holders(o) <=> CellRef(o, r) \/ \E u \in Threads : RefOf(u, o, r)

LEMMA HoldersAre == Named
<1> USE DEF Named
<1> TAKE o
<1> TAKE r
<1> DEFINE Steps(t) == {<<"todo", t, i>> : i \in {j \in DOMAIN todo[t] : todo[t][j] = <<"unlink", o>>}}
           U == UNION {Steps(t) : t \in Threads}
<1>1. r \in U <=> \E u \in Threads : r \in Steps(u)
  OBVIOUS
<1>2. \A u \in Threads : r \in Steps(u) <=>
        \E i \in DOMAIN todo[u] : todo[u][i] = <<"unlink", o>> /\ r = <<"todo", u, i>>
  OBVIOUS
<1> HIDE DEF Steps
<1>3. r \in U <=> \E u \in Threads :
        \E i \in DOMAIN todo[u] : todo[u][i] = <<"unlink", o>> /\ r = <<"todo", u, i>>
  BY <1>1, <1>2, Zenon
<1> DEFINE C == {<<"cell", 0>> : i \in IF ss_ = o THEN {1} ELSE {}}
           M == {<<"mine", t>> : t \in {u \in Threads : mine[u] = o}}
           A == {<<"arg", t>> : t \in {u \in Threads : arg[u] = o}}
           D == {<<"added", t>> : t \in {u \in Threads : arg[u] = o /\ ~At(u, "add")}}
<1>4. Holders(o) = C \cup M \cup A \cup D \cup U
  BY DEF Holders, Steps
<1>5. r \in C <=> ss_ = o /\ r = <<"cell", 0>>
  OBVIOUS
<1>6. r \in M <=> \E u \in Threads : mine[u] = o /\ r = <<"mine", u>>
  OBVIOUS
<1>7. r \in A <=> \E u \in Threads : arg[u] = o /\ r = <<"arg", u>>
  OBVIOUS
<1>8. r \in D <=> \E u \in Threads : arg[u] = o /\ pc[u] # "add" /\ r = <<"added", u>>
  BY DEF At
<1> HIDE DEF U, C, M, A, D
<1>9. r \in Holders(o) <=> r \in C \/ r \in M \/ r \in A \/ r \in D \/ r \in U
  BY <1>4
<1> QED BY <1>3, <1>5, <1>6, <1>7, <1>8, <1>9, Zenon DEF RefOf, CellRef

Own(t, o) == {r \in Holders(o) : r[1] = "cell" \/ r[2] = t}
OthersHold(t, o) == {r \in Holders(o) : ~(r[1] = "cell" \/ r[2] = t)}

\* How many references the cell and t have.
Refs(t, o) ==
  One(ss_ = o) + One(mine[t] = o) + One(arg[t] = o) + One(arg[t] = o /\ pc[t] # "add")
  + Occ(<<"unlink", o>>, todo[t])

OwnCounted ==
  \A t \in Threads : \A o :
    todo[t] \in Seq(Items) =>
      /\ IsFiniteSet(Own(t, o))
      /\ Cardinality(Own(t, o)) = Refs(t, o)
      /\ Refs(t, o) \in Nat

LEMMA OwnCount == OwnCounted
<1> USE DEF OwnCounted
<1> TAKE t \in Threads
<1> TAKE o
<1> HAVE todo[t] \in Seq(Items)
<1> DEFINE K == Occurs(<<"unlink", o>>, todo[t])
           C == When(ss_ = o, <<"cell", 0>>)
           M == When(mine[t] = o, <<"mine", t>>)
           A == When(arg[t] = o, <<"arg", t>>)
           D == When(arg[t] = o /\ pc[t] # "add", <<"added", t>>)
           U == Tagged("todo", t, K)
<1>1. IsFiniteSet(K) /\ Cardinality(K) \in Nat
  BY OccType DEF Occ
<1>3. IsFiniteSet(U) /\ Cardinality(U) = Cardinality(K)
  BY <1>1, TaggedCard
<1>4. Own(t, o) = C \cup M \cup A \cup D \cup U
  <2>1. \A r : r \in Own(t, o) <=> r \in C \/ r \in M \/ r \in A \/ r \in D \/ r \in U
    <3> TAKE r
    <3>1. r \in Own(t, o) <=> r \in Holders(o) /\ (r[1] = "cell" \/ r[2] = t)
      BY DEF Own
    <3>2. r \in U <=> \E i \in DOMAIN todo[t] : todo[t][i] = <<"unlink", o>> /\ r = <<"todo", t, i>>
      BY DEF Occurs, Tagged
    <3>3. /\ r \in C <=> ss_ = o /\ r = <<"cell", 0>>
          /\ r \in M <=> mine[t] = o /\ r = <<"mine", t>>
          /\ r \in A <=> arg[t] = o /\ r = <<"arg", t>>
          /\ r \in D <=> arg[t] = o /\ pc[t] # "add" /\ r = <<"added", t>>
      BY DEF When
    <3>4. \A u : RefOf(u, o, r) => r[1] # "cell" /\ r[2] = u
      BY DEF RefOf
    <3>5. CellRef(o, r) => r[1] = "cell"
      BY DEF CellRef
    <3>6. r \in Holders(o) <=> CellRef(o, r) \/ \E u \in Threads : RefOf(u, o, r)
      BY HoldersAre DEF Named
    <3>7. CellRef(o, r) <=> r \in C
      BY <3>3 DEF CellRef
    <3>8. RefOf(t, o, r) <=> r \in M \/ r \in A \/ r \in D \/ r \in U
      BY <3>2, <3>3 DEF RefOf
    <3> HIDE DEF C, M, A, D, U
    <3>9. r \in Own(t, o) <=> CellRef(o, r) \/ RefOf(t, o, r)
      BY <3>1, <3>4, <3>5, <3>6
    <3> QED BY <3>7, <3>8, <3>9
  <2> HIDE DEF C, M, A, D, U
  <2> QED BY <2>1
<1>5. /\ C \cap M = {}
      /\ (C \cup M) \cap A = {}
      /\ (C \cup M \cup A) \cap D = {}
      /\ (C \cup M \cup A \cup D) \cap U = {}
  <2>1. /\ \A r \in C : r[1] = "cell"
        /\ \A r \in M : r[1] = "mine"
        /\ \A r \in A : r[1] = "arg"
        /\ \A r \in D : r[1] = "added"
        /\ \A r \in U : r[1] = "todo"
    BY DEF When, Tagged
  <2> HIDE DEF C, M, A, D, U
  <2> QED BY <2>1
<1>6. /\ IsFiniteSet(C) /\ Cardinality(C) = One(ss_ = o)
      /\ IsFiniteSet(M) /\ Cardinality(M) = One(mine[t] = o)
      /\ IsFiniteSet(A) /\ Cardinality(A) = One(arg[t] = o)
      /\ IsFiniteSet(D) /\ Cardinality(D) = One(arg[t] = o /\ pc[t] # "add")
  BY WhenCard
<1> HIDE DEF C, M, A, D, U
<1>7. IsFiniteSet(C \cup M) /\ Cardinality(C \cup M) = Cardinality(C) + Cardinality(M)
  BY <1>5, <1>6, DisjointSum
<1>8. /\ IsFiniteSet(C \cup M \cup A)
      /\ Cardinality(C \cup M \cup A) = Cardinality(C \cup M) + Cardinality(A)
  BY <1>5, <1>6, <1>7, DisjointSum
<1>9. /\ IsFiniteSet(C \cup M \cup A \cup D)
      /\ Cardinality(C \cup M \cup A \cup D) = Cardinality(C \cup M \cup A) + Cardinality(D)
  BY <1>5, <1>6, <1>8, DisjointSum
<1>10. /\ IsFiniteSet(C \cup M \cup A \cup D \cup U)
       /\ Cardinality(C \cup M \cup A \cup D \cup U) = Cardinality(C \cup M \cup A \cup D) + Cardinality(U)
  BY <1>3, <1>5, <1>9, DisjointSum
<1>11. Cardinality(K) = Occ(<<"unlink", o>>, todo[t])
  BY DEF Occ
<1>12. \A b : One(b) \in Nat
  BY DEF One
<1> HIDE DEF K
<1> QED BY <1>1, <1>3, <1>4, <1>6, <1>7, <1>8, <1>9, <1>10, <1>11, <1>12 DEF Refs

\* A step of t changes no reference of another thread.
OnlyRefsOf(t) ==
  \A u \in Threads \ {t} :
    mine'[u] = mine[u] /\ arg'[u] = arg[u] /\ todo'[u] = todo[u] /\ pc'[u] = pc[u]

LEMMA HoldersAreNext == Named'
BY HoldersAre, PTL

LEMMA OwnCountNext == OwnCounted'
BY OwnCount, PTL

LEMMA OthersKeepRefs ==
  ASSUME NEW t \in Threads, NEW o, OnlyRefsOf(t)
  PROVE  OthersHold(t, o)' = OthersHold(t, o)
<1>1. \A r : \A u : RefOf(u, o, r) => r[2] = u /\ r[1] # "cell"
  BY DEF RefOf
<1>2. \A r : \A u : RefOf(u, o, r)' => r[2] = u /\ r[1] # "cell"
  BY DEF RefOf
<1>3. \A r : \A u \in Threads \ {t} : RefOf(u, o, r)' <=> RefOf(u, o, r)
  BY DEF OnlyRefsOf, RefOf
<1>4. \A r : r \in Holders(o) <=> CellRef(o, r) \/ \E u \in Threads : RefOf(u, o, r)
  BY HoldersAre DEF Named
<1>5. \A r : r \in Holders(o)' <=> CellRef(o, r)' \/ \E u \in Threads : RefOf(u, o, r)'
  BY HoldersAreNext DEF Named
<1>6. \A r : (CellRef(o, r) => r[1] = "cell") /\ (CellRef(o, r)' => r[1] = "cell")
  BY DEF CellRef
<1>7. \A r : r \in OthersHold(t, o) <=> r \in Holders(o) /\ r[1] # "cell" /\ r[2] # t
  BY DEF OthersHold
<1>8. \A r : r \in OthersHold(t, o)' <=> r \in Holders(o)' /\ r[1] # "cell" /\ r[2] # t
  BY DEF OthersHold
<1>9. \A r : r \in OthersHold(t, o) <=> \E u \in Threads \ {t} : RefOf(u, o, r)
  BY <1>1, <1>4, <1>6, <1>7
<1>10. \A r : r \in OthersHold(t, o)' <=> \E u \in Threads \ {t} : RefOf(u, o, r)'
  BY <1>2, <1>5, <1>6, <1>8
<1>11. \A r : r \in OthersHold(t, o)' <=> r \in OthersHold(t, o)
  BY <1>3, <1>9, <1>10, Zenon
<1>12. OthersHold(t, o) \subseteq Holders(o) /\ OthersHold(t, o)' \subseteq Holders(o)'
  BY DEF OthersHold
<1> QED BY <1>11

\* The count stays exact when it changes as the references of the cell and of t do.
Exact(o) == IsFiniteSet(Holders(o)) /\ counter_[o] = Cardinality(Holders(o))

SplitCounted ==
  \A t \in Threads : \A o :
    todo[t] \in Seq(Items) =>
      /\ IsFiniteSet(Holders(o)) <=> IsFiniteSet(OthersHold(t, o))
      /\ IsFiniteSet(Holders(o)) => /\ Cardinality(Holders(o)) = Cardinality(OthersHold(t, o)) + Refs(t, o)
                                    /\ Cardinality(OthersHold(t, o)) \in Nat

LEMMA SplitHolders == SplitCounted
<1> USE DEF SplitCounted
<1> TAKE t \in Threads
<1> TAKE o
<1> HAVE todo[t] \in Seq(Items)
<1>1. Holders(o) = OthersHold(t, o) \cup Own(t, o) /\ OthersHold(t, o) \cap Own(t, o) = {}
  BY DEF OthersHold, Own
<1>2. IsFiniteSet(Own(t, o)) /\ Cardinality(Own(t, o)) = Refs(t, o)
  BY OwnCount DEF OwnCounted
<1>3. IsFiniteSet(Holders(o)) => IsFiniteSet(OthersHold(t, o))
  BY <1>1, FS_Subset
<1>4. IsFiniteSet(OthersHold(t, o)) =>
        IsFiniteSet(Holders(o)) /\ Cardinality(Holders(o)) = Cardinality(OthersHold(t, o)) + Refs(t, o)
  BY <1>1, <1>2, DisjointSum
<1>5. IsFiniteSet(OthersHold(t, o)) => Cardinality(OthersHold(t, o)) \in Nat
  BY FS_CardinalityType
<1> QED BY <1>3, <1>4, <1>5

LEMMA SplitHoldersNext == SplitCounted'
BY SplitHolders, PTL

LEMMA ExactStep ==
  ASSUME NEW t \in Threads, NEW o, OnlyRefsOf(t), Exact(o),
         todo[t] \in Seq(Items), todo'[t] \in Seq(Items),
         counter_'[o] = counter_[o] + Refs(t, o)' - Refs(t, o)
  PROVE  Exact(o)'
<1> DEFINE n == Cardinality(OthersHold(t, o))
<1>1. OthersHold(t, o)' = OthersHold(t, o)
  BY OthersKeepRefs
<1>2. /\ IsFiniteSet(OthersHold(t, o)) /\ n \in Nat
      /\ counter_[o] = n + Refs(t, o)
  BY SplitHolders DEF Exact, SplitCounted
<1>3. /\ IsFiniteSet(Holders(o)')
      /\ Cardinality(Holders(o)') = Cardinality(OthersHold(t, o)') + Refs(t, o)'
  BY <1>1, <1>2, SplitHoldersNext DEF SplitCounted
<1>4. Refs(t, o) \in Nat /\ Refs(t, o)' \in Nat
  BY OwnCount, OwnCountNext DEF OwnCounted
<1>5. counter_'[o] = Cardinality(Holders(o)')
  BY <1>1, <1>2, <1>3, <1>4
<1> QED BY <1>3, <1>5 DEF Exact

\* A count is never less than what the cell and one thread have.
LEMMA CountBound ==
  ASSUME NEW t \in Threads, NEW o, Exact(o), todo[t] \in Seq(Items)
  PROVE  counter_[o] \in Nat /\ Refs(t, o) \in Nat /\ counter_[o] >= Refs(t, o)
<1>1. /\ counter_[o] = Cardinality(OthersHold(t, o)) + Refs(t, o)
      /\ Cardinality(OthersHold(t, o)) \in Nat
  BY SplitHolders DEF Exact, SplitCounted
<1>2. Refs(t, o) \in Nat
  BY OwnCount DEF OwnCounted
<1> QED BY <1>1, <1>2

-----------------------------------------------------------------------------
(* Where an object is that waits to be destroyed, in the same way.         *)

PlaceOf(u, o, r) ==
  \/ InSeq(<<"retire", o>>, todo[u]) /\ r = <<"retire", u>>
  \/ \E i \in DOMAIN retired_[u] : retired_[u][i] = o /\ r = <<"retired", u, i>>
  \/ \E i \in DOMAIN kept[u] : kept[u][i] = o /\ r = <<"kept", u, i>>
  \/ checked[u] = o /\ r = <<"checked", u>>

PlacesNamed == \A o : \A r : r \in Places(o) <=> \E u \in Threads : PlaceOf(u, o, r)

LEMMA PlacesAre == PlacesNamed
<1> USE DEF PlacesNamed
<1> TAKE o
<1> TAKE r
<1> DEFINE R(t) == {<<"retired", t, i>> : i \in {j \in DOMAIN retired_[t] : retired_[t][j] = o}}
           K(t) == {<<"kept", t, i>> : i \in {j \in DOMAIN kept[t] : kept[t][j] = o}}
           C(t) == {<<"checked", t>> : i \in IF checked[t] = o THEN {1} ELSE {}}
           S(t) == R(t) \cup K(t) \cup C(t)
           U == UNION {S(t) : t \in Threads}
           T == {<<"retire", t>> : t \in {u \in Threads : InSeq(<<"retire", o>>, todo[u])}}
<1>1. r \in U <=> \E u \in Threads : r \in S(u)
  OBVIOUS
<1>2. \A u \in Threads :
        /\ r \in R(u) <=> \E i \in DOMAIN retired_[u] : retired_[u][i] = o /\ r = <<"retired", u, i>>
        /\ r \in K(u) <=> \E i \in DOMAIN kept[u] : kept[u][i] = o /\ r = <<"kept", u, i>>
        /\ r \in C(u) <=> checked[u] = o /\ r = <<"checked", u>>
  OBVIOUS
<1>3. r \in T <=> \E u \in Threads : InSeq(<<"retire", o>>, todo[u]) /\ r = <<"retire", u>>
  OBVIOUS
<1>4. \A u \in Threads : r \in S(u) <=> r \in R(u) \/ r \in K(u) \/ r \in C(u)
  OBVIOUS
<1>5. Places(o) = T \cup U
  BY DEF Places
<1> HIDE DEF R, K, C, S, U, T
<1>6. r \in Places(o) <=> r \in T \/ r \in U
  BY <1>5
<1> QED BY <1>1, <1>2, <1>3, <1>4, <1>6, Zenon DEF PlaceOf

LEMMA PlacesAreNext == PlacesNamed'
BY PlacesAre, PTL

OwnPlaces(t, o) == {r \in Places(o) : r[2] = t}
OtherPlaces(t, o) == {r \in Places(o) : r[2] # t}

\* In how many places of t the object is.
Pending(t, o) ==
  One(InSeq(<<"retire", o>>, todo[t])) + Occ(o, retired_[t]) + Occ(o, kept[t]) + One(checked[t] = o)

PlacesSplit ==
  \A t \in Threads : \A o :
    retired_[t] \in Seq(Objects) /\ kept[t] \in Seq(Objects) =>
      /\ IsFiniteSet(Places(o)) <=> IsFiniteSet(OtherPlaces(t, o))
      /\ IsFiniteSet(Places(o)) =>
           /\ Cardinality(Places(o)) = Cardinality(OtherPlaces(t, o)) + Pending(t, o)
           /\ Cardinality(OtherPlaces(t, o)) \in Nat
      /\ Pending(t, o) \in Nat

LEMMA SplitPlaces == PlacesSplit
<1> USE DEF PlacesSplit
<1> TAKE t \in Threads
<1> TAKE o
<1> HAVE retired_[t] \in Seq(Objects) /\ kept[t] \in Seq(Objects)
<1> DEFINE rs == Occurs(o, retired_[t])
           ks == Occurs(o, kept[t])
           T == When(InSeq(<<"retire", o>>, todo[t]), <<"retire", t>>)
           C == When(checked[t] = o, <<"checked", t>>)
           R == Tagged("retired", t, rs)
           K == Tagged("kept", t, ks)
<1>1. /\ IsFiniteSet(rs) /\ Cardinality(rs) = Occ(o, retired_[t]) /\ Occ(o, retired_[t]) \in Nat
      /\ IsFiniteSet(ks) /\ Cardinality(ks) = Occ(o, kept[t]) /\ Occ(o, kept[t]) \in Nat
  BY OccType DEF Occ
<1> HIDE DEF rs, ks
<1>2. /\ IsFiniteSet(R) /\ Cardinality(R) = Occ(o, retired_[t])
      /\ IsFiniteSet(K) /\ Cardinality(K) = Occ(o, kept[t])
  BY <1>1, TaggedCard
<1>3. /\ IsFiniteSet(T) /\ Cardinality(T) = One(InSeq(<<"retire", o>>, todo[t]))
      /\ IsFiniteSet(C) /\ Cardinality(C) = One(checked[t] = o)
  <2>1. InSeq(<<"retire", o>>, todo[t]) \in BOOLEAN
    BY DEF InSeq
  <2> QED BY <2>1, WhenCard
<1>4. OwnPlaces(t, o) = T \cup R \cup K \cup C
  <2>1. \A r : r \in OwnPlaces(t, o) <=> r \in T \/ r \in R \/ r \in K \/ r \in C
    <3> TAKE r
    <3>1. \A u : PlaceOf(u, o, r) => r[2] = u
      BY DEF PlaceOf
    <3>2. r \in Places(o) <=> \E u \in Threads : PlaceOf(u, o, r)
      BY PlacesAre DEF PlacesNamed
    <3>3. r \in OwnPlaces(t, o) <=> r \in Places(o) /\ r[2] = t
      BY DEF OwnPlaces
    <3>4. /\ r \in T <=> InSeq(<<"retire", o>>, todo[t]) /\ r = <<"retire", t>>
          /\ r \in C <=> checked[t] = o /\ r = <<"checked", t>>
      BY DEF When
    <3>5. /\ r \in R <=> \E i \in DOMAIN retired_[t] : retired_[t][i] = o /\ r = <<"retired", t, i>>
          /\ r \in K <=> \E i \in DOMAIN kept[t] : kept[t][i] = o /\ r = <<"kept", t, i>>
      BY DEF rs, ks, Occurs, Tagged
    <3> HIDE DEF T, C, R, K
    <3>6. PlaceOf(t, o, r) <=> r \in T \/ r \in R \/ r \in K \/ r \in C
      BY <3>4, <3>5, Zenon DEF PlaceOf
    <3>7. r \in OwnPlaces(t, o) <=> PlaceOf(t, o, r)
      BY <3>1, <3>2, <3>3
    <3> QED BY <3>6, <3>7
  <2> HIDE DEF T, C, R, K
  <2> QED BY <2>1
<1>5. T \cap R = {} /\ (T \cup R) \cap K = {} /\ (T \cup R \cup K) \cap C = {}
  <2>1. /\ \A r \in T : r[1] = "retire"
        /\ \A r \in R : r[1] = "retired"
        /\ \A r \in K : r[1] = "kept"
        /\ \A r \in C : r[1] = "checked"
    BY DEF When, Tagged
  <2> HIDE DEF T, C, R, K
  <2> QED BY <2>1
<1> HIDE DEF T, C, R, K
<1>6. IsFiniteSet(T \cup R) /\ Cardinality(T \cup R) = Cardinality(T) + Cardinality(R)
  BY <1>2, <1>3, <1>5, DisjointSum
<1>7. /\ IsFiniteSet(T \cup R \cup K)
      /\ Cardinality(T \cup R \cup K) = Cardinality(T \cup R) + Cardinality(K)
  BY <1>2, <1>5, <1>6, DisjointSum
<1>8. /\ IsFiniteSet(T \cup R \cup K \cup C)
      /\ Cardinality(T \cup R \cup K \cup C) = Cardinality(T \cup R \cup K) + Cardinality(C)
  BY <1>3, <1>5, <1>7, DisjointSum
<1>9. \A b : One(b) \in Nat
  BY DEF One
<1>10. /\ IsFiniteSet(OwnPlaces(t, o))
       /\ Cardinality(OwnPlaces(t, o)) = Pending(t, o)
       /\ Pending(t, o) \in Nat
  BY <1>1, <1>2, <1>3, <1>4, <1>6, <1>7, <1>8, <1>9 DEF Pending
<1>11. Places(o) = OtherPlaces(t, o) \cup OwnPlaces(t, o) /\ OtherPlaces(t, o) \cap OwnPlaces(t, o) = {}
  BY DEF OtherPlaces, OwnPlaces
<1>12. IsFiniteSet(Places(o)) => IsFiniteSet(OtherPlaces(t, o))
  BY <1>11, FS_Subset
<1>13. IsFiniteSet(OtherPlaces(t, o)) =>
         /\ IsFiniteSet(Places(o))
         /\ Cardinality(Places(o)) = Cardinality(OtherPlaces(t, o)) + Pending(t, o)
  BY <1>10, <1>11, DisjointSum
<1>14. IsFiniteSet(OtherPlaces(t, o)) => Cardinality(OtherPlaces(t, o)) \in Nat
  BY FS_CardinalityType
<1> QED BY <1>10, <1>12, <1>13, <1>14

LEMMA SplitPlacesNext == PlacesSplit'
BY SplitPlaces, PTL

\* A step of t changes no place of another thread.
OnlyPlacesOf(t) ==
  \A u \in Threads \ {t} :
    todo'[u] = todo[u] /\ retired_'[u] = retired_[u] /\ kept'[u] = kept[u] /\ checked'[u] = checked[u]

LEMMA OthersKeepPlaces ==
  ASSUME NEW t \in Threads, NEW o, OnlyPlacesOf(t)
  PROVE  OtherPlaces(t, o)' = OtherPlaces(t, o)
<1>1. \A r : \A u : (PlaceOf(u, o, r) => r[2] = u) /\ (PlaceOf(u, o, r)' => r[2] = u)
  BY DEF PlaceOf
<1>2. \A r : \A u \in Threads \ {t} : PlaceOf(u, o, r)' <=> PlaceOf(u, o, r)
  BY DEF OnlyPlacesOf, PlaceOf, InSeq
<1>3. \A r : r \in Places(o) <=> \E u \in Threads : PlaceOf(u, o, r)
  BY PlacesAre DEF PlacesNamed
<1>4. \A r : r \in Places(o)' <=> \E u \in Threads : PlaceOf(u, o, r)'
  BY PlacesAreNext DEF PlacesNamed
<1>5. \A r : r \in OtherPlaces(t, o) <=> r \in Places(o) /\ r[2] # t
  BY DEF OtherPlaces
<1>6. \A r : r \in OtherPlaces(t, o)' <=> r \in Places(o)' /\ r[2] # t
  BY DEF OtherPlaces
<1>7. \A r : r \in OtherPlaces(t, o) <=> \E u \in Threads \ {t} : PlaceOf(u, o, r)
  BY <1>1, <1>3, <1>5
<1>8. \A r : r \in OtherPlaces(t, o)' <=> \E u \in Threads \ {t} : PlaceOf(u, o, r)'
  BY <1>1, <1>4, <1>6
<1>9. \A r : r \in OtherPlaces(t, o)' <=> r \in OtherPlaces(t, o)
  BY <1>2, <1>7, <1>8, Zenon
<1>10. OtherPlaces(t, o) \subseteq Places(o) /\ OtherPlaces(t, o)' \subseteq Places(o)'
  BY DEF OtherPlaces
<1> QED BY <1>9

\* An object is in one place exactly when it lives without references, and this stays so
\* when the places of t change as that does.
Doomed(o) == o \in alive /\ counter_[o] = 0
Placed(o) == IsFiniteSet(Places(o)) /\ Cardinality(Places(o)) = One(Doomed(o))

LEMMA PlacedStep ==
  ASSUME NEW t \in Threads, NEW o, OnlyPlacesOf(t), Placed(o),
         retired_[t] \in Seq(Objects), kept[t] \in Seq(Objects),
         retired_'[t] \in Seq(Objects), kept'[t] \in Seq(Objects),
         One(Doomed(o)') = One(Doomed(o)) + Pending(t, o)' - Pending(t, o)
  PROVE  Placed(o)'
<1> DEFINE n == Cardinality(OtherPlaces(t, o))
<1>1. OtherPlaces(t, o)' = OtherPlaces(t, o)
  BY OthersKeepPlaces
<1>2. /\ IsFiniteSet(OtherPlaces(t, o)) /\ n \in Nat
      /\ One(Doomed(o)) = n + Pending(t, o) /\ Pending(t, o) \in Nat
  BY SplitPlaces DEF Placed, PlacesSplit
<1>3. /\ IsFiniteSet(Places(o)')
      /\ Cardinality(Places(o)') = Cardinality(OtherPlaces(t, o)') + Pending(t, o)'
      /\ Pending(t, o)' \in Nat
  BY <1>1, <1>2, SplitPlacesNext DEF PlacesSplit
<1>4. One(Doomed(o)') = Cardinality(Places(o)')
  BY <1>1, <1>2, <1>3
<1> QED BY <1>3, <1>4 DEF Placed

\* An object that some thread has in a place lives, without references, and is nowhere else.
LEMMA PlaceBound ==
  ASSUME NEW t \in Threads, NEW o, Placed(o), retired_[t] \in Seq(Objects), kept[t] \in Seq(Objects)
  PROVE  /\ Pending(t, o) \in Nat /\ Pending(t, o) <= One(Doomed(o))
         /\ Pending(t, o) > 0 => Doomed(o) /\ Pending(t, o) = 1
<1>1. /\ One(Doomed(o)) = Cardinality(OtherPlaces(t, o)) + Pending(t, o)
      /\ Cardinality(OtherPlaces(t, o)) \in Nat /\ Pending(t, o) \in Nat
  BY SplitPlaces DEF Placed, PlacesSplit
<1> QED BY <1>1 DEF One

-----------------------------------------------------------------------------
(* The inductive invariant.                                                *)

Protecting == {"load", "set", "validate", "count", "try_add", "retry", "swap"}
Looping == {"enter", "enter_link"} \cup Protecting
Retiring == {"retire_enter", "retire_link", "retire"}
Collecting == {"gc", "scan", "rescan"}
Finishing == {"finish"} \cup Retiring \cup Collecting
Labels == {"idle", "add", "exchange"} \cup Looping \cup Finishing
Results == {"loaded", "stored", "swapped", "failed", "dropped"}

Types ==
  /\ pc \in [Threads -> Labels]
  /\ alive \subseteq Objects
  /\ head_ \in Seq(Threads)
  /\ hazard \in [Threads -> Pointers]
  /\ retired_ \in [Threads -> Seq(Objects)]
  /\ kept \in [Threads -> Seq(Objects)]
  /\ checked \in [Threads -> Pointers]
  /\ seen \in [Threads -> Nat]
  /\ cursor \in [Threads -> Nat]
  /\ ss_ \in Pointers
  /\ counter_ \in [Objects -> Nat]
  /\ op \in [Threads -> {"none", "load", "store", "cas"} \cup Results]
  /\ mine \in [Threads -> Pointers]
  /\ arg \in [Threads -> Pointers]
  /\ ptr \in [Threads -> Pointers]
  /\ old \in [Threads -> Nat]
  /\ todo \in [Threads -> Seq(Items)]
  /\ closed \in BOOLEAN

\* Where t is in a call, and what it then holds.
InCall(t) ==
  /\ At(t, "idle") <=> op[t] = "none"
  /\ pc[t] \in Finishing <=> op[t] \in Results
  /\ At(t, "add") => op[t] \in {"store", "cas"} /\ arg[t] # NULL
  /\ At(t, "exchange") => op[t] = "store"
  /\ pc[t] \in Looping => op[t] \in {"load", "cas"}
  /\ pc[t] \in {"idle"} \cup Finishing => arg[t] = NULL
  /\ op[t] = "load" => mine[t] = NULL /\ arg[t] = NULL
  /\ At(t, "swap") => op[t] = "cas" /\ ptr[t] = mine[t]
  /\ pc[t] \in {"count", "try_add"} => ptr[t] # NULL
  /\ At(t, "try_add") => old[t] > 0

\* Only the first item of todo retires an object, right after the step that takes its
\* count to 0.
NoRetire(s) == \A k \in DOMAIN s : s[k][1] # "retire"

ToDo(t) ==
  /\ pc[t] \notin Finishing => todo[t] = << >>
  /\ pc[t] \notin Retiring => NoRetire(todo[t])
  /\ pc[t] \in Retiring =>
       /\ todo[t] # << >>
       /\ \E o \in Objects : First(t) = <<"retire", o>>
       /\ NoRetire(Tail(todo[t]))

\* What Gc has between its steps.
InGc(t) ==
  /\ checked[t] # NULL <=> pc[t] \in {"scan", "rescan"}
  /\ kept[t] # << >> => pc[t] \in Collecting
  /\ cursor[t] <= seen[t] /\ seen[t] <= Len(head_)

\* A thread that has validated an address announces it.
Announces(t) ==
  /\ pc[t] \in Protecting => Linked(t)
  /\ pc[t] \in {"validate", "count", "try_add", "swap"} => hazard[t] = ptr[t]

Control == \A t \in Threads : InCall(t) /\ ToDo(t) /\ InGc(t) /\ Announces(t)

\* Counts are exact, and an object whose count is 0 is in one place.
CountOK(o) == Exact(o) /\ Placed(o) /\ (o \notin alive => counter_[o] = 0)
Counts == \A o \in Objects : CountOK(o)

\* A scan that is looking for a thread that uses the object has not passed its mutator, or
\* does not know of it and will start again.
Scans(g, o) == At(g, "scan") /\ checked[g] = o
WillMeet(g, t) == \E i \in DOMAIN head_ : head_[i] = t /\ (i <= cursor[g] \/ i > seen[g])
UseIsSafe(t, o) == o \in alive /\ \A g \in Threads : Scans(g, o) => WillMeet(g, t)
Safe == \A t \in Threads, o \in Objects : Uses(t, o) => UseIsSafe(t, o)

ClosedOK == closed => alive = {} /\ \A t \in Threads : At(t, "idle") /\ mine[t] = NULL

Inv == Types /\ Control /\ Counts /\ Safe /\ ClosedOK

-----------------------------------------------------------------------------
(* What a call leaves to do.                                               *)

Releases(s) == s \in Seq(Items) /\ NoRetire(s)

LEMMA NullIsNoObject == NULL \notin Objects
BY HazardAssumption

LEMMA EmptyReleases == Releases(<< >>)
<1>1. DOMAIN << >> = {}
  OBVIOUS
<1> QED BY <1>1 DEF Releases, NoRetire

LEMMA OneReleases ==
  ASSUME NEW x \in Items, x[1] # "retire"
  PROVE  Releases(<<x>>)
<1>1. <<x>> \in Seq(Items) /\ DOMAIN <<x>> = {1} /\ <<x>>[1] = x
  OBVIOUS
<1> QED BY <1>1 DEF Releases, NoRetire

LEMMA ConcatReleases ==
  ASSUME NEW s, NEW r, Releases(s), Releases(r)
  PROVE  Releases(s \o r)
<1> DEFINE c == s \o r
<1>1. s \in Seq(Items) /\ r \in Seq(Items)
  BY DEF Releases
<1>2. /\ c \in Seq(Items) /\ Len(c) = Len(s) + Len(r)
      /\ \A i \in 1 .. Len(s) + Len(r) : c[i] = IF i <= Len(s) THEN s[i] ELSE r[i - Len(s)]
  BY <1>1, ConcatProperties
<1>3. /\ Len(s) \in Nat /\ DOMAIN s = 1 .. Len(s)
      /\ Len(r) \in Nat /\ DOMAIN r = 1 .. Len(r)
      /\ DOMAIN c = 1 .. Len(c)
  BY <1>1, <1>2, LenProperties
<1> HIDE DEF c
<1>4. \A k \in DOMAIN c : c[k][1] # "retire"
  <2> TAKE k \in DOMAIN c
  <2>1. CASE k <= Len(s)
    BY <2>1, <1>2, <1>3 DEF Releases, NoRetire
  <2>2. CASE k > Len(s)
    <3>1. k - Len(s) \in DOMAIN r /\ c[k] = r[k - Len(s)]
      BY <2>2, <1>2, <1>3
    <3> QED BY <3>1 DEF Releases, NoRetire
  <2> QED BY <2>1, <2>2, <1>2, <1>3
<1> QED BY <1>2, <1>4 DEF Releases, NoRetire, c

LEMMA TailReleases ==
  ASSUME NEW s, Releases(s), s # << >>
  PROVE  Releases(Tail(s))
<1> DEFINE r == Tail(s)
<1>1. s \in Seq(Items)
  BY DEF Releases
<1>2. /\ r \in Seq(Items) /\ Len(r) = Len(s) - 1
      /\ \A i \in 1 .. Len(r) : r[i] = s[i + 1]
  BY <1>1, HeadTailProperties
<1>3. Len(s) \in Nat /\ DOMAIN s = 1 .. Len(s) /\ Len(r) \in Nat /\ DOMAIN r = 1 .. Len(r)
  BY <1>1, <1>2, LenProperties
<1> HIDE DEF r
<1>4. \A k \in DOMAIN r : k + 1 \in DOMAIN s /\ r[k] = s[k + 1]
  BY <1>2, <1>3
<1> QED BY <1>2, <1>4 DEF Releases, NoRetire, r

LEMMA UnlinkReleases ==
  ASSUME NEW p \in Pointers
  PROVE  /\ Releases(Unlink(p))
         /\ \A o \in Objects : Occ(<<"unlink", o>>, Unlink(p)) = One(p = o)
<1>1. CASE p = NULL
  BY <1>1, EmptyReleases, OccEmpty, NullIsNoObject DEF Unlink, One
<1>2. CASE p # NULL
  <2>1. <<"unlink", p>> \in Items /\ <<"unlink", p>>[1] # "retire"
    BY <1>2 DEF Items, Pointers
  <2>2. Unlink(p) = << <<"unlink", p>> >>
    BY <1>2 DEF Unlink
  <2>3. Releases(Unlink(p))
    BY <2>1, <2>2, OneReleases
  <2>4. \A o \in Objects : Occ(<<"unlink", o>>, Unlink(p)) = One(<<"unlink", p>> = <<"unlink", o>>)
    <3> TAKE o \in Objects
    <3> DEFINE x == <<"unlink", o>>
               y == <<"unlink", p>>
    <3> HIDE DEF x, y
    <3>1. Occ(x, <<y>>) = One(y = x)
      BY OccOne
    <3> QED BY <2>2, <3>1 DEF x, y
  <2>5. \A o \in Objects : <<"unlink", p>> = <<"unlink", o>> <=> p = o
    OBVIOUS
  <2> QED BY <2>3, <2>4, <2>5 DEF One
<1> QED BY <1>1, <1>2

LEMMA ResetReleases ==
  /\ Releases(ResetHazard)
  /\ \A o \in Objects : Occ(<<"unlink", o>>, ResetHazard) = 0
<1>1. <<"reset", NULL>> \in Items /\ <<"reset", NULL>>[1] # "retire"
  BY DEF Items
<1>2. Releases(ResetHazard)
  BY <1>1, OneReleases DEF ResetHazard
<1>3. \A o \in Objects : <<"reset", NULL>> # <<"unlink", o>>
  OBVIOUS
<1>4. \A o \in Objects : Occ(<<"unlink", o>>, ResetHazard) = One(<<"reset", NULL>> = <<"unlink", o>>)
  BY OccOne DEF ResetHazard
<1> QED BY <1>2, <1>3, <1>4 DEF One

LEMMA ConcatOcc ==
  ASSUME NEW s, NEW r, Releases(s), Releases(r), NEW x
  PROVE  Occ(x, s \o r) = Occ(x, s) + Occ(x, r)
BY OccConcat DEF Releases

\* What the calls that end leave to do, and the references in it.
LEMMA FailedReleases ==
  ASSUME NEW a \in Pointers, NEW m \in Pointers
  PROVE  LET s == Unlink(a) \o Unlink(m) \o ResetHazard \o Unlink(a) IN
         /\ Releases(s)
         /\ \A o \in Objects : Occ(<<"unlink", o>>, s) = One(a = o) + One(m = o) + One(a = o)
<1> DEFINE ua == Unlink(a)
           um == Unlink(m)
           rh == ResetHazard
<1>1. Releases(ua) /\ Releases(um) /\ Releases(rh)
  BY UnlinkReleases, ResetReleases
<1>2. \A o \in Objects : /\ Occ(<<"unlink", o>>, ua) = One(a = o)
                         /\ Occ(<<"unlink", o>>, um) = One(m = o)
                         /\ Occ(<<"unlink", o>>, rh) = 0
  BY UnlinkReleases, ResetReleases
<1> HIDE DEF ua, um, rh
<1>3. Releases(ua \o um) /\ \A x : Occ(x, ua \o um) = Occ(x, ua) + Occ(x, um)
  BY <1>1, ConcatReleases, ConcatOcc
<1>4. /\ Releases(ua \o um \o rh)
      /\ \A x : Occ(x, ua \o um \o rh) = Occ(x, ua \o um) + Occ(x, rh)
  BY <1>1, <1>3, ConcatReleases, ConcatOcc
<1>5. /\ Releases(ua \o um \o rh \o ua)
      /\ \A x : Occ(x, ua \o um \o rh \o ua) = Occ(x, ua \o um \o rh) + Occ(x, ua)
  BY <1>1, <1>4, ConcatReleases, ConcatOcc
<1>6. \A o \in Objects : Occ(<<"unlink", o>>, ua \o um \o rh \o ua) = One(a = o) + One(m = o) + One(a = o)
  <2> TAKE o \in Objects
  <2> DEFINE x == <<"unlink", o>>
  <2>1. Occ(x, ua) = One(a = o) /\ Occ(x, um) = One(m = o) /\ Occ(x, rh) = 0
    BY <1>2
  <2> HIDE DEF x
  <2>2. Occ(x, ua \o um) = One(a = o) + One(m = o)
    BY <1>3, <2>1
  <2>3. Occ(x, ua \o um \o rh) = One(a = o) + One(m = o)
    BY <1>4, <2>1, <2>2, OneNat
  <2>4. Occ(x, ua \o um \o rh \o ua) = One(a = o) + One(m = o) + One(a = o)
    BY <1>5, <2>1, <2>3
  <2> QED BY <2>4 DEF x
<1> QED BY <1>5, <1>6 DEF ua, um, rh

LEMMA SwappedReleases ==
  ASSUME NEW a \in Pointers, NEW p \in Pointers
  PROVE  LET s == Unlink(p) \o ResetHazard \o Unlink(a) IN
         /\ Releases(s)
         /\ \A o \in Objects : Occ(<<"unlink", o>>, s) = One(p = o) + One(a = o)
<1> DEFINE ua == Unlink(a)
           up == Unlink(p)
           rh == ResetHazard
<1>1. Releases(ua) /\ Releases(up) /\ Releases(rh)
  BY UnlinkReleases, ResetReleases
<1>2. \A o \in Objects : /\ Occ(<<"unlink", o>>, ua) = One(a = o)
                         /\ Occ(<<"unlink", o>>, up) = One(p = o)
                         /\ Occ(<<"unlink", o>>, rh) = 0
  BY UnlinkReleases, ResetReleases
<1> HIDE DEF ua, up, rh
<1>3. Releases(up \o rh) /\ \A x : Occ(x, up \o rh) = Occ(x, up) + Occ(x, rh)
  BY <1>1, ConcatReleases, ConcatOcc
<1>4. /\ Releases(up \o rh \o ua)
      /\ \A x : Occ(x, up \o rh \o ua) = Occ(x, up \o rh) + Occ(x, ua)
  BY <1>1, <1>3, ConcatReleases, ConcatOcc
<1>5. \A o \in Objects : Occ(<<"unlink", o>>, up \o rh \o ua) = One(p = o) + One(a = o)
  <2> TAKE o \in Objects
  <2> DEFINE x == <<"unlink", o>>
  <2>1. Occ(x, ua) = One(a = o) /\ Occ(x, up) = One(p = o) /\ Occ(x, rh) = 0
    BY <1>2
  <2> HIDE DEF x
  <2>2. Occ(x, up \o rh) = One(p = o)
    BY <1>3, <2>1, OneNat
  <2>3. Occ(x, up \o rh \o ua) = One(p = o) + One(a = o)
    BY <1>4, <2>1, <2>2
  <2> QED BY <2>3 DEF x
<1> QED BY <1>4, <1>5 DEF ua, up, rh

LEMMA StoredReleases ==
  ASSUME NEW a \in Pointers, NEW p \in Pointers
  PROVE  LET s == Unlink(p) \o Unlink(a) IN
         /\ Releases(s)
         /\ \A o \in Objects : Occ(<<"unlink", o>>, s) = One(p = o) + One(a = o)
<1>1. Releases(Unlink(a)) /\ Releases(Unlink(p))
  BY UnlinkReleases
<1>2. Releases(Unlink(p) \o Unlink(a))
  BY <1>1, ConcatReleases
<1>3. \A x : Occ(x, Unlink(p) \o Unlink(a)) = Occ(x, Unlink(p)) + Occ(x, Unlink(a))
  BY <1>1, ConcatOcc
<1> QED BY <1>2, <1>3, UnlinkReleases

-----------------------------------------------------------------------------
(* What a step of t does to types and to where t is.                       *)

Untouched(u) ==
  /\ pc'[u] = pc[u] /\ op'[u] = op[u] /\ mine'[u] = mine[u] /\ arg'[u] = arg[u]
  /\ ptr'[u] = ptr[u] /\ old'[u] = old[u] /\ todo'[u] = todo[u]
  /\ hazard'[u] = hazard[u] /\ retired_'[u] = retired_[u] /\ kept'[u] = kept[u]
  /\ checked'[u] = checked[u] /\ seen'[u] = seen[u] /\ cursor'[u] = cursor[u]

StepOf(t) == \A u \in Threads \ {t} : Untouched(u)
HeadGrows == Len(head_') >= Len(head_) /\ \A i \in DOMAIN head_ : i \in DOMAIN head_' /\ head_'[i] = head_[i]
ThreadOK(t) == InCall(t) /\ ToDo(t) /\ InGc(t) /\ Announces(t)
Effect(t) == Types' /\ StepOf(t) /\ HeadGrows /\ ThreadOK(t)'

LEMMA ControlStep ==
  ASSUME Types, Types', Control, NEW t \in Threads, StepOf(t), HeadGrows, ThreadOK(t)'
  PROVE  Control'
<1>1. \A u \in Threads \ {t} : ThreadOK(u)'
  <2> TAKE u \in Threads \ {t}
  <2>1. InCall(u) /\ ToDo(u) /\ InGc(u) /\ Announces(u) /\ Untouched(u)
    BY DEF Control, StepOf
  <2>2. InCall(u)'
    BY <2>1 DEF InCall, Untouched, At
  <2>3. ToDo(u)'
    BY <2>1 DEF ToDo, Untouched, First, NoRetire
  <2>4. InGc(u)'
    <3>1. Len(head_) \in Nat /\ Len(head_') \in Nat
      BY LenProperties DEF Types
    <3>2. seen[u] \in Nat /\ cursor[u] \in Nat
      BY DEF Types
    <3> QED BY <2>1, <3>1, <3>2 DEF InGc, Untouched, HeadGrows
  <2>5. Announces(u)'
    BY <2>1 DEF Announces, Untouched, Linked, HeadGrows
  <2> QED BY <2>2, <2>3, <2>4, <2>5 DEF ThreadOK
<1> QED BY <1>1 DEF Control, ThreadOK

USE DEF Protecting, Looping, Retiring, Collecting, Finishing, Set, Goto, At, First, gcVars, ptrVars, Linked

LEMMA LoadPtrEffect ==
  ASSUME Types, Control, NEW t \in Threads, LoadPtr(t)
  PROVE  Effect(t)
<1>1. ThreadOK(t)
  BY DEF Control, ThreadOK
<1>2. Types'
  BY DEF Types, LoadPtr, Labels
<1>3. StepOf(t) /\ HeadGrows
  BY DEF Types, StepOf, HeadGrows, Untouched, LoadPtr
<1>4. ThreadOK(t)'
  BY <1>1 DEF Types, ThreadOK, InCall, ToDo, InGc, Announces, LoadPtr
<1> QED BY <1>2, <1>3, <1>4 DEF Effect

LEMMA ProtectEffect ==
  ASSUME Types, Control, NEW t \in Threads, Protect(t)
  PROVE  Effect(t)
<1>1. ThreadOK(t)
  BY DEF Control, ThreadOK
<1>2. Types'
  BY <1>1 DEF Types, ThreadOK, InCall, Labels, Results, Protect, SetHazard
<1>3. StepOf(t) /\ HeadGrows
  BY DEF Types, StepOf, HeadGrows, Untouched, Protect, SetHazard
<1>4. ThreadOK(t)'
  BY <1>1 DEF Types, ThreadOK, InCall, ToDo, InGc, Announces, Results, Protect, SetHazard
<1> QED BY <1>2, <1>3, <1>4 DEF Effect

LEMMA CountEffect ==
  ASSUME Types, Control, NEW t \in Threads, Count(t)
  PROVE  Effect(t)
<1>1. ThreadOK(t)
  BY DEF Control, ThreadOK
<1>2. Types'
  BY <1>1 DEF Types, ThreadOK, InCall, Labels, Results, Count, ToCount, Pointers
<1>3. StepOf(t) /\ HeadGrows
  BY DEF Types, StepOf, HeadGrows, Untouched, Count, ToCount, Pointers
<1>4. ThreadOK(t)'
  BY <1>1 DEF Types, ThreadOK, InCall, ToDo, InGc, Announces, Results, Count, ToCount, Pointers
<1> QED BY <1>2, <1>3, <1>4 DEF Effect

LEMMA TryAddRefFailsEffect ==
  ASSUME Types, Control, NEW t \in Threads, TryAddRefFails(t)
  PROVE  Effect(t)
<1>1. ThreadOK(t)
  BY DEF Control, ThreadOK
<1>2. Types'
  BY <1>1 DEF Types, ThreadOK, InCall, Labels, Results, TryAddRefFails, ToCount, Pointers
<1>3. StepOf(t) /\ HeadGrows
  BY DEF Types, StepOf, HeadGrows, Untouched, TryAddRefFails, ToCount, Pointers
<1>4. ThreadOK(t)'
  BY <1>1 DEF Types, ThreadOK, InCall, ToDo, InGc, Announces, Results, TryAddRefFails, ToCount, Pointers
<1> QED BY <1>2, <1>3, <1>4 DEF Effect

LEMMA RetryEffect ==
  ASSUME Types, Control, NEW t \in Threads, Retry(t)
  PROVE  Effect(t)
<1>1. ThreadOK(t)
  BY DEF Control, ThreadOK
<1>2. Types'
  BY <1>1 DEF Types, ThreadOK, InCall, Labels, Results, Pointers, Retry, SetHazard
<1>3. StepOf(t) /\ HeadGrows
  BY DEF Types, StepOf, HeadGrows, Untouched, Retry, SetHazard
<1>4. ThreadOK(t)'
  BY <1>1 DEF Types, ThreadOK, InCall, ToDo, InGc, Announces, Results, Pointers, Retry, SetHazard
<1> QED BY <1>2, <1>3, <1>4 DEF Effect

LEMMA SwapFailsEffect ==
  ASSUME Types, Control, NEW t \in Threads, SwapFails(t)
  PROVE  Effect(t)
<1>1. ThreadOK(t)
  BY DEF Control, ThreadOK
<1>2. Types'
  BY <1>1 DEF Types, ThreadOK, InCall, Labels, Results, SwapFails
<1>3. StepOf(t) /\ HeadGrows
  BY DEF Types, StepOf, HeadGrows, Untouched, SwapFails
<1>4. ThreadOK(t)'
  BY <1>1 DEF Types, ThreadOK, InCall, ToDo, InGc, Announces, Results, SwapFails
<1> QED BY <1>2, <1>3, <1>4 DEF Effect

LEMMA AddRefEffect ==
  ASSUME Types, Control, NEW t \in Threads, AddRef(t)
  PROVE  Effect(t)
<1>1. ThreadOK(t)
  BY DEF Control, ThreadOK
<1>2. Types'
  <2>1. arg[t] \in Objects
    BY <1>1 DEF Types, ThreadOK, InCall, AddRef, Pointers
  <2>2. counter_' \in [Objects -> Nat]
    BY <2>1 DEF Types, AddRef
  <2>3. pc' \in [Threads -> Labels]
    BY DEF Types, AddRef, Labels, Enter
  <2> QED BY <2>2, <2>3 DEF Types, AddRef
<1>3. StepOf(t) /\ HeadGrows
  BY DEF Types, StepOf, HeadGrows, Untouched, AddRef, Enter, Pointers
<1>4. ThreadOK(t)'
  BY <1>1 DEF Types, ThreadOK, InCall, ToDo, InGc, Announces, Results, AddRef, Enter, Pointers
<1> QED BY <1>2, <1>3, <1>4 DEF Effect

LEMMA ReturnEffect ==
  ASSUME Types, Control, NEW t \in Threads, Return(t)
  PROVE  Effect(t)
<1>1. ThreadOK(t)
  BY DEF Control, ThreadOK
<1>2. Types'
  BY <1>1 DEF Types, ThreadOK, InCall, Labels, Results, Return, Pointers
<1>3. StepOf(t) /\ HeadGrows
  BY DEF Types, StepOf, HeadGrows, Untouched, Return, Pointers
<1>4. ThreadOK(t)'
  BY <1>1 DEF Types, ThreadOK, InCall, ToDo, InGc, Announces, Results, Return, Pointers
<1> QED BY <1>2, <1>3, <1>4 DEF Effect

\* A mutator is linked at the head of the list.
LEMMA LinkEffect ==
  ASSUME Types, NEW t \in Threads, ThreadOK(t), NEW from \in Labels \ Collecting, NEW to \in Labels \ Collecting,
         Link(t, from, to), ptrVars' = ptrVars
  PROVE  Types' /\ StepOf(t) /\ HeadGrows /\ InGc(t)' /\ Linked(t)'
<1> DEFINE h == Append(head_, t)
<1>1. /\ h \in Seq(Threads) /\ Len(h) = Len(head_) + 1 /\ h[Len(head_) + 1] = t
      /\ \A i \in 1 .. Len(head_) : h[i] = head_[i]
  BY AppendProperties DEF Types
<1>2. Len(head_) \in Nat /\ DOMAIN head_ = 1 .. Len(head_) /\ DOMAIN h = 1 .. Len(h)
  BY <1>1, LenProperties DEF Types
<1> HIDE DEF h
<1>3. head_' = h
  BY DEF h, Link
<1>4. Types'
  BY <1>1, <1>3 DEF Types, Link
<1>5. StepOf(t)
  BY DEF Types, StepOf, Untouched, Link
<1>6. HeadGrows
  BY <1>1, <1>2, <1>3 DEF HeadGrows
<1>7. InGc(t)'
  <2>1. seen[t] \in Nat /\ cursor[t] \in Nat
    BY DEF Types
  <2>2. pc[t] \notin Collecting /\ pc'[t] \notin Collecting
    BY DEF Types, Link
  <2>3. /\ checked'[t] = checked[t] /\ kept'[t] = kept[t]
        /\ cursor'[t] = cursor[t] /\ seen'[t] = seen[t]
    BY DEF Link
  <2> QED BY <1>1, <1>2, <1>3, <2>1, <2>2, <2>3 DEF ThreadOK, InGc
<1>8. Linked(t)'
  <2>1. Len(head_) + 1 \in DOMAIN head_' /\ head_'[Len(head_) + 1] = t
    BY <1>1, <1>2, <1>3
  <2> QED BY <2>1
<1> QED BY <1>4, <1>5, <1>6, <1>7, <1>8

LEMMA EnterMutatorEffect ==
  ASSUME Types, Control, NEW t \in Threads, EnterMutator(t)
  PROVE  Effect(t)
<1>1. ThreadOK(t)
  BY DEF Control, ThreadOK
<1>2. Len(head_) \in Nat
  BY LenProperties DEF Types
<1>3. CASE NewMutator(t, "enter", "enter_link")
  <2>1. Types'
    BY <1>2, <1>3 DEF Types, Labels, EnterMutator, NewMutator
  <2>2. StepOf(t) /\ HeadGrows
    BY <1>2, <1>3 DEF Types, StepOf, HeadGrows, Untouched, EnterMutator, NewMutator
  <2>3. ThreadOK(t)'
    BY <1>1, <1>2, <1>3 DEF Types, ThreadOK, InCall, ToDo, InGc, Announces, EnterMutator, NewMutator
  <2> QED BY <2>1, <2>2, <2>3 DEF Effect
<1>4. CASE Link(t, "enter_link", "load")
  <2> DEFINE from == "enter_link"
             to == "load"
  <2>3. from \in Labels \ Collecting /\ to \in Labels \ Collecting
    BY DEF Labels
  <2>4. Link(t, from, to) /\ ptrVars' = ptrVars
    BY <1>4 DEF EnterMutator
  <2> HIDE DEF from, to
  <2>1. Types' /\ StepOf(t) /\ HeadGrows /\ InGc(t)' /\ Linked(t)'
    BY <1>1, <2>3, <2>4, LinkEffect
  <2>2. ThreadOK(t)'
    BY <1>1, <1>4, <2>1 DEF Types, ThreadOK, InCall, ToDo, Announces, EnterMutator, Link
  <2> QED BY <2>1, <2>2 DEF Effect
<1>5. CASE LinkFails(t, "enter_link", "enter")
  <2>1. Types'
    BY <1>5 DEF Types, Labels, EnterMutator, LinkFails
  <2>2. StepOf(t) /\ HeadGrows
    BY <1>2, <1>5 DEF Types, StepOf, HeadGrows, Untouched, EnterMutator, LinkFails
  <2>3. ThreadOK(t)'
    BY <1>1, <1>5 DEF Types, ThreadOK, InCall, ToDo, InGc, Announces, EnterMutator, LinkFails
  <2> QED BY <2>1, <2>2, <2>3 DEF Effect
<1> QED BY <1>3, <1>4, <1>5 DEF EnterMutator

LEMMA RetireMutatorEffect ==
  ASSUME Types, Control, NEW t \in Threads, RetireMutator(t)
  PROVE  Effect(t)
<1>1. ThreadOK(t)
  BY DEF Control, ThreadOK
<1>2. Len(head_) \in Nat
  BY LenProperties DEF Types
<1>3. CASE NewMutator(t, "retire_enter", "retire_link")
  <2>1. Types'
    BY <1>2, <1>3 DEF Types, Labels, RetireMutator, NewMutator
  <2>2. StepOf(t) /\ HeadGrows
    BY <1>2, <1>3 DEF Types, StepOf, HeadGrows, Untouched, RetireMutator, NewMutator
  <2>3. ThreadOK(t)'
    BY <1>1, <1>2, <1>3 DEF Types, ThreadOK, InCall, ToDo, InGc, Announces, RetireMutator, NewMutator
  <2> QED BY <2>1, <2>2, <2>3 DEF Effect
<1>4. CASE Link(t, "retire_link", "retire")
  <2> DEFINE from == "retire_link"
             to == "retire"
  <2>3. from \in Labels \ Collecting /\ to \in Labels \ Collecting
    BY DEF Labels
  <2>4. Link(t, from, to) /\ ptrVars' = ptrVars
    BY <1>4 DEF RetireMutator
  <2> HIDE DEF from, to
  <2>1. Types' /\ StepOf(t) /\ HeadGrows /\ InGc(t)' /\ Linked(t)'
    BY <1>1, <2>3, <2>4, LinkEffect
  <2>2. ThreadOK(t)'
    BY <1>1, <1>4, <2>1 DEF Types, ThreadOK, InCall, ToDo, Announces, RetireMutator, Link
  <2> QED BY <2>1, <2>2 DEF Effect
<1>5. CASE LinkFails(t, "retire_link", "retire_enter")
  <2>1. Types'
    BY <1>5 DEF Types, Labels, RetireMutator, LinkFails
  <2>2. StepOf(t) /\ HeadGrows
    BY <1>2, <1>5 DEF Types, StepOf, HeadGrows, Untouched, RetireMutator, LinkFails
  <2>3. ThreadOK(t)'
    BY <1>1, <1>5 DEF Types, ThreadOK, InCall, ToDo, InGc, Announces, RetireMutator, LinkFails
  <2> QED BY <2>1, <2>2, <2>3 DEF Effect
<1> QED BY <1>3, <1>4, <1>5 DEF RetireMutator

LEMMA GcNextEffect ==
  ASSUME Types, Control, NEW t \in Threads, GcNext(t), ptrVars' = ptrVars
  PROVE  Effect(t)
<1>1. ThreadOK(t)
  BY DEF Control, ThreadOK
<1>2. Types'
  <2>1. Head(retired_[t]) \in Objects /\ Tail(retired_[t]) \in Seq(Objects) /\ Len(head_) \in Nat
    BY HeadTailProperties, LenProperties DEF Types, GcNext
  <2>2. retired_' \in [Threads -> Seq(Objects)] /\ checked' \in [Threads -> Pointers]
    BY <2>1 DEF Types, GcNext, Pointers
  <2> QED BY <2>1, <2>2 DEF Types, GcNext, LoadHead, Labels
<1>3. StepOf(t) /\ HeadGrows
  BY DEF Types, StepOf, HeadGrows, Untouched, GcNext, LoadHead
<1>4. ThreadOK(t)'
  <2>1. Head(retired_[t]) \in Objects /\ Len(head_) \in Nat
    BY HeadTailProperties, LenProperties DEF Types, GcNext
  <2>2. Head(retired_[t]) # NULL
    BY <2>1, HazardAssumption
  <2> QED BY <1>1, <2>1, <2>2 DEF Types, ThreadOK, InCall, ToDo, InGc, Announces, Results, GcNext, LoadHead
<1> QED BY <1>2, <1>3, <1>4 DEF Effect

LEMMA GcReturnEffect ==
  ASSUME Types, Control, NEW t \in Threads, GcReturn(t, "finish"), ptrVars' = ptrVars
  PROVE  Effect(t)
<1>1. ThreadOK(t)
  BY DEF Control, ThreadOK
<1>2. Types'
  BY <1>1 DEF Types, ThreadOK, InCall, Labels, Results, GcReturn
<1>3. StepOf(t) /\ HeadGrows
  BY DEF Types, StepOf, HeadGrows, Untouched, GcReturn
<1>4. ThreadOK(t)'
  BY <1>1 DEF Types, ThreadOK, InCall, ToDo, InGc, Announces, Results, GcReturn
<1> QED BY <1>2, <1>3, <1>4 DEF Effect

LEMMA ScanEffect ==
  ASSUME Types, Control, NEW t \in Threads, Scan(t), ptrVars' = ptrVars
  PROVE  Effect(t)
<1>1. ThreadOK(t)
  BY DEF Control, ThreadOK
<1>2. Types'
  <2>1. checked[t] \in Objects
    BY <1>1 DEF Types, ThreadOK, InGc, Scan, Pointers
  <2>2. Append(kept[t], checked[t]) \in Seq(Objects)
    BY <2>1, AppendProperties DEF Types
  <2> HIDE DEF Set
  <2>3. kept' \in [Threads -> Seq(Objects)]
    BY <2>2 DEF Types, Scan
  <2>4. pc' \in [Threads -> Labels] /\ checked' \in [Threads -> Pointers] /\ cursor' \in [Threads -> Nat]
    <3>1. CASE hazard[head_[cursor[t]]] = checked[t]
      BY <3>1 DEF Types, Scan, Labels, Pointers, Set
    <3>2. CASE hazard[head_[cursor[t]]] # checked[t]
      BY <3>2, SMTT(30) DEF Types, Scan, Labels, Pointers, Set
    <3> QED BY <3>1, <3>2
  <2> QED BY <2>3, <2>4 DEF Types, Scan
<1>3. StepOf(t) /\ HeadGrows
  BY DEF Types, StepOf, HeadGrows, Untouched, Scan
<1>4. ThreadOK(t)'
  <2>1. CASE hazard[head_[cursor[t]]] = checked[t]
    <3>1. /\ pc' = [pc EXCEPT ![t] = "gc"] /\ checked' = [checked EXCEPT ![t] = NULL] /\ cursor' = cursor
      BY <2>1 DEF Scan
    <3> QED BY <1>1, <3>1 DEF Types, ThreadOK, InCall, ToDo, InGc, Announces, Results, Scan
  <2>2. CASE hazard[head_[cursor[t]]] # checked[t]
    <3>1. cursor' = [cursor EXCEPT ![t] = @ - 1] /\ UNCHANGED <<pc, kept, checked>>
      BY <2>2 DEF Scan
    <3>2. Len(head_) \in Nat
      BY LenProperties DEF Types
    <3> QED BY <1>1, <3>1, <3>2 DEF Types, ThreadOK, InCall, ToDo, InGc, Announces, Results, Scan
  <2> QED BY <2>1, <2>2
<1> QED BY <1>2, <1>3, <1>4 DEF Effect

LEMMA DestroyEffect ==
  ASSUME Types, Control, NEW t \in Threads, Destroy(t), ptrVars' = ptrVars
  PROVE  Effect(t)
<1>1. ThreadOK(t)
  BY DEF Control, ThreadOK
<1>2. Types'
  BY <1>1 DEF Types, ThreadOK, InCall, Labels, Results, Destroy
<1>3. StepOf(t) /\ HeadGrows
  BY DEF Types, StepOf, HeadGrows, Untouched, Destroy
<1>4. ThreadOK(t)'
  BY <1>1 DEF Types, ThreadOK, InCall, ToDo, InGc, Announces, Results, Destroy
<1> QED BY <1>2, <1>3, <1>4 DEF Effect

LEMMA GrownEffect ==
  ASSUME Types, Control, NEW t \in Threads, Grown(t), ptrVars' = ptrVars
  PROVE  Effect(t)
<1>1. ThreadOK(t)
  BY DEF Control, ThreadOK
<1>2. Types'
  BY <1>1 DEF Types, ThreadOK, InCall, Labels, Results, Grown
<1>3. StepOf(t) /\ HeadGrows
  BY DEF Types, StepOf, HeadGrows, Untouched, Grown
<1>4. ThreadOK(t)'
  BY <1>1 DEF Types, ThreadOK, InCall, ToDo, InGc, Announces, Results, Grown
<1> QED BY <1>2, <1>3, <1>4 DEF Effect

LEMMA RescanEffect ==
  ASSUME Types, Control, NEW t \in Threads, Rescan(t), ptrVars' = ptrVars
  PROVE  Effect(t)
<1>1. ThreadOK(t)
  BY DEF Control, ThreadOK
<1>2. Types'
  BY <1>1 DEF Types, ThreadOK, InCall, Labels, Results, Rescan, LoadHead
<1>3. StepOf(t) /\ HeadGrows
  BY DEF Types, StepOf, HeadGrows, Untouched, Rescan, LoadHead
<1>4. ThreadOK(t)'
  BY <1>1 DEF Types, ThreadOK, InCall, ToDo, InGc, Announces, Results, Rescan, LoadHead
<1> QED BY <1>2, <1>3, <1>4 DEF Effect

LEMMA LoadEffect ==
  ASSUME Types, Control, NEW t \in Threads, Load(t)
  PROVE  Effect(t)
<1>1. ThreadOK(t)
  BY DEF Control, ThreadOK
<1>2. Types'
  BY <1>1 DEF Types, ThreadOK, InCall, Labels, Results, Load, Calls, Enter
<1>3. StepOf(t) /\ HeadGrows
  BY DEF Types, StepOf, HeadGrows, Untouched, Load, Calls, Enter
<1>4. ThreadOK(t)'
  BY <1>1 DEF Types, ThreadOK, InCall, ToDo, InGc, Announces, Results, Load, Calls, Enter
<1> QED BY <1>2, <1>3, <1>4 DEF Effect

LEMMA WithNewEffect ==
  ASSUME Types, Control, NEW t \in Threads, NEW which \in {"store", "cas"}, WithNew(t, which)
  PROVE  Effect(t)
<1>1. ThreadOK(t)
  BY DEF Control, ThreadOK
<1>2. Types'
  <2>1. PICK o \in Objects \ alive :
          /\ alive' = alive \cup {o} /\ counter_' = Set(counter_, o, 1) /\ arg' = Set(arg, t, o)
          /\ Calls(t, which, "add")
    BY DEF WithNew
  <2>2. counter_' \in [Objects -> Nat] /\ arg' \in [Threads -> Pointers] /\ alive' \subseteq Objects
    BY <2>1 DEF Types, Pointers
  <2> QED BY <2>1, <2>2 DEF Types, Calls, Labels
<1>3. StepOf(t) /\ HeadGrows
  BY DEF Types, StepOf, HeadGrows, Untouched, WithNew, Calls, Enter
<1>4. ThreadOK(t)'
  BY <1>1, HazardAssumption DEF Types, ThreadOK, InCall, ToDo, InGc, Announces, Results, WithNew, Calls, Enter
<1> QED BY <1>2, <1>3, <1>4 DEF Effect

LEMMA WithEmptyStoreEffect ==
  ASSUME Types, Control, NEW t \in Threads, WithEmpty(t, "store", "exchange")
  PROVE  Effect(t)
<1>1. ThreadOK(t)
  BY DEF Control, ThreadOK
<1>2. Types'
  BY <1>1 DEF Types, ThreadOK, InCall, Labels, Results, WithEmpty, Calls, Enter
<1>3. StepOf(t) /\ HeadGrows
  BY DEF Types, StepOf, HeadGrows, Untouched, WithEmpty, Calls, Enter
<1>4. ThreadOK(t)'
  BY <1>1 DEF Types, ThreadOK, InCall, ToDo, InGc, Announces, Results, WithEmpty, Calls, Enter
<1> QED BY <1>2, <1>3, <1>4 DEF Effect

LEMMA WithEmptyCasEffect ==
  ASSUME Types, Control, NEW t \in Threads, WithEmpty(t, "cas", Enter(t))
  PROVE  Effect(t)
<1>1. ThreadOK(t)
  BY DEF Control, ThreadOK
<1>2. Types'
  BY <1>1 DEF Types, ThreadOK, InCall, Labels, Results, WithEmpty, Calls, Enter
<1>3. StepOf(t) /\ HeadGrows
  BY DEF Types, StepOf, HeadGrows, Untouched, WithEmpty, Calls, Enter
<1>4. ThreadOK(t)'
  BY <1>1 DEF Types, ThreadOK, InCall, ToDo, InGc, Announces, Results, WithEmpty, Calls, Enter
<1> QED BY <1>2, <1>3, <1>4 DEF Effect

LEMMA WithCopyEffect ==
  ASSUME Types, Control, NEW t \in Threads, NEW which \in {"store", "cas"}, WithCopy(t, which)
  PROVE  Effect(t)
<1>1. ThreadOK(t)
  BY DEF Control, ThreadOK
<1>2. Types'
  <2>1. mine[t] \in Objects
    BY DEF Types, WithCopy, Pointers
  <2>2. counter_' \in [Objects -> Nat] /\ arg' \in [Threads -> Pointers]
    BY <2>1 DEF Types, WithCopy, Pointers
  <2> QED BY <2>2 DEF Types, WithCopy, Calls, Labels
<1>3. StepOf(t) /\ HeadGrows
  BY DEF Types, StepOf, HeadGrows, Untouched, WithCopy, Calls, Enter
<1>4. ThreadOK(t)'
  BY <1>1 DEF Types, ThreadOK, InCall, ToDo, InGc, Announces, Results, WithCopy, Calls, Enter
<1> QED BY <1>2, <1>3, <1>4 DEF Effect

\* The step that has the result of a call.
EndTypes ==
  /\ pc' \in [Threads -> Labels]
  /\ op' \in [Threads -> {"none", "load", "store", "cas"} \cup Results]
  /\ todo' \in [Threads -> Seq(Items)]
  /\ arg' \in [Threads -> Pointers]

LEMMA EndsTypes ==
  ASSUME Types, NEW t \in Threads, NEW result \in Results, NEW s, Releases(s), Ends(t, result, s)
  PROVE  EndTypes
BY DEF Types, Ends, Labels, Releases, Pointers, EndTypes

LEMMA ResetEffect ==
  ASSUME Types, Control, NEW t \in Threads, Reset(t)
  PROVE  Effect(t)
<1>1. ThreadOK(t)
  BY DEF Control, ThreadOK
<1> DEFINE s == Unlink(mine[t])
<1>2. Releases(s)
  BY UnlinkReleases DEF Types
<1> HIDE DEF s
<1>3. Ends(t, "dropped", s)
  BY DEF s, Reset, Ends
<1>4. Types'
  <2>1. EndTypes
    BY <1>2, <1>3, EndsTypes DEF Results
  <2> QED BY <2>1 DEF Types, EndTypes, Pointers, Reset
<1>5. StepOf(t) /\ HeadGrows
  BY <1>3 DEF Types, StepOf, HeadGrows, Untouched, Reset, Ends
<1>6. ThreadOK(t)'
  BY <1>1, <1>2, <1>3 DEF Types, Releases, ThreadOK, InCall, ToDo, InGc, Announces, Results, Reset, Ends
<1> QED BY <1>4, <1>5, <1>6 DEF Effect

LEMMA ExchangeEffect ==
  ASSUME Types, Control, NEW t \in Threads, Exchange(t)
  PROVE  Effect(t)
<1>1. ThreadOK(t)
  BY DEF Control, ThreadOK
<1> DEFINE s == Unlink(ss_) \o Unlink(arg[t])
<1>2. Releases(s)
  BY StoredReleases DEF Types
<1> HIDE DEF s
<1>3. Ends(t, "stored", s)
  BY DEF s, Exchange, Ends
<1>4. Types'
  <2>1. EndTypes
    BY <1>2, <1>3, EndsTypes DEF Results
  <2> QED BY <2>1 DEF Types, EndTypes, Pointers, Exchange
<1>5. StepOf(t) /\ HeadGrows
  BY <1>3 DEF Types, StepOf, HeadGrows, Untouched, Exchange, Ends
<1>6. ThreadOK(t)'
  BY <1>1, <1>2, <1>3, ZenonT(30)
   DEF Types, Releases, ThreadOK, InCall, ToDo, InGc, Announces, Results, Exchange, Ends
<1> QED BY <1>4, <1>5, <1>6 DEF Effect

LEMMA SwapEffect ==
  ASSUME Types, Control, NEW t \in Threads, Swap(t)
  PROVE  Effect(t)
<1>1. ThreadOK(t)
  BY DEF Control, ThreadOK
<1> DEFINE s == Swapped(t)
<1>2. Releases(s)
  BY SwappedReleases DEF Types, Swapped
<1> HIDE DEF s
<1>3. Ends(t, "swapped", s)
  BY DEF s, Swap, Ends, Swapped
<1>4. Types'
  <2>1. EndTypes
    BY <1>2, <1>3, EndsTypes DEF Results
  <2> QED BY <2>1 DEF Types, EndTypes, Pointers, Swap
<1>5. StepOf(t) /\ HeadGrows
  BY <1>3 DEF Types, StepOf, HeadGrows, Untouched, Swap, Ends, Swapped
<1>6. ThreadOK(t)'
  BY <1>1, <1>2, <1>3, ZenonT(30)
   DEF Types, Releases, ThreadOK, InCall, ToDo, InGc, Announces, Results, Swap, Ends, Swapped
<1> QED BY <1>4, <1>5, <1>6 DEF Effect

LEMMA TryAddRefEffect ==
  ASSUME Types, Control, NEW t \in Threads, TryAddRef(t)
  PROVE  Effect(t)
<1>1. ThreadOK(t)
  BY DEF Control, ThreadOK
<1> DEFINE s == IF op[t] = "load" THEN ResetHazard
                ELSE Unlink(arg[t]) \o Unlink(mine[t]) \o ResetHazard \o Unlink(arg[t])
           result == IF op[t] = "load" THEN "loaded" ELSE "failed"
<1>2. Releases(s) /\ result \in Results
  BY ResetReleases, FailedReleases DEF Types, Results
<1>3. Ends(t, result, s)
  BY DEF TryAddRef
<1> HIDE DEF s, result
<1>4. ptr[t] \in Objects
  BY <1>1 DEF Types, ThreadOK, InCall, TryAddRef, Pointers
<1>5. Types'
  <2>1. counter_' \in [Objects -> Nat] /\ mine' \in [Threads -> Pointers]
    BY <1>4 DEF Types, TryAddRef
  <2>2. /\ pc' \in [Threads -> Labels] /\ op' \in [Threads -> {"none", "load", "store", "cas"} \cup Results]
        /\ todo' \in [Threads -> Seq(Items)] /\ arg' \in [Threads -> Pointers]
    BY <1>2, <1>3 DEF Types, Ends, Labels, Releases, Pointers
  <2> QED BY <2>1, <2>2 DEF Types, TryAddRef
<1>6. StepOf(t) /\ HeadGrows
  BY <1>3 DEF Types, StepOf, HeadGrows, Untouched, TryAddRef, Ends
<1>7. ThreadOK(t)'
  BY <1>1, <1>2, <1>3 DEF Types, Releases, ThreadOK, InCall, ToDo, InGc, Announces, Results, TryAddRef, Ends
<1> QED BY <1>5, <1>6, <1>7 DEF Effect

\* Validate goes back to the load, goes on with the address, or ends the call.
ValidateEnds(t) ==
  /\ ss_ = ptr[t] /\ ptr[t] = NULL
  /\ \/ op[t] = "load" /\ mine' = mine /\ Ends(t, "loaded", ResetHazard)
     \/ /\ op[t] = "cas" /\ mine[t] # NULL
        /\ mine' = Set(mine, t, NULL)
        /\ Ends(t, "failed", Unlink(arg[t]) \o Unlink(mine[t]) \o ResetHazard \o Unlink(arg[t]))

ValidateGoesOn(t) ==
  /\ UNCHANGED <<op, todo, arg, mine>>
  /\ \/ ss_ # ptr[t] /\ Goto(t, "load")
     \/ ss_ = ptr[t] /\ op[t] = "cas" /\ ptr[t] = mine[t] /\ Goto(t, "swap")
     \/ ss_ = ptr[t] /\ ptr[t] # NULL /\ (op[t] = "cas" => ptr[t] # mine[t]) /\ Goto(t, "count")

LEMMA ValidateCases ==
  ASSUME Types, NEW t \in Threads, ThreadOK(t), Validate(t)
  PROVE  ValidateEnds(t) \/ ValidateGoesOn(t)
<1>1. op[t] \in {"load", "cas"}
  BY DEF ThreadOK, InCall, Validate
<1>2. CASE ss_ # ptr[t]
  BY <1>2 DEF Validate, ValidateGoesOn
<1>3. CASE ss_ = ptr[t]
  <2>1. Loaded(t)
    BY <1>3 DEF Validate
  <2>2. CASE op[t] = "load" /\ ptr[t] = NULL
    BY <1>3, <2>1, <2>2 DEF Loaded, ValidateEnds
  <2>3. CASE op[t] = "load" /\ ptr[t] # NULL
    BY <1>3, <2>1, <2>3 DEF Loaded, ValidateGoesOn
  <2>4. CASE op[t] = "cas" /\ ptr[t] = mine[t]
    BY <1>3, <2>1, <2>4 DEF Loaded, ValidateGoesOn
  <2>5. CASE op[t] = "cas" /\ ptr[t] # mine[t] /\ ptr[t] = NULL
    BY <1>3, <2>1, <2>5 DEF Loaded, ValidateEnds
  <2>6. CASE op[t] = "cas" /\ ptr[t] # mine[t] /\ ptr[t] # NULL
    BY <1>3, <2>1, <2>6 DEF Loaded, ValidateGoesOn
  <2> QED BY <1>1, <2>2, <2>3, <2>4, <2>5, <2>6
<1> QED BY <1>2, <1>3

LEMMA ValidateEffect ==
  ASSUME Types, Control, NEW t \in Threads, Validate(t)
  PROVE  Effect(t)
<1>1. ThreadOK(t)
  BY DEF Control, ThreadOK
<1>2. CASE ValidateGoesOn(t)
  <2>1. Types'
    BY <1>2 DEF Types, Labels, Validate, ValidateGoesOn
  <2>2. StepOf(t) /\ HeadGrows
    BY <1>2 DEF Types, StepOf, HeadGrows, Untouched, Validate, ValidateGoesOn
  <2>3. ThreadOK(t)'
    BY <1>1, <1>2, ZenonT(30)
     DEF Types, ThreadOK, InCall, ToDo, InGc, Announces, Results, Validate, ValidateGoesOn
  <2> QED BY <2>1, <2>2, <2>3 DEF Effect
<1>3. CASE ValidateEnds(t)
  <2> DEFINE s == IF op[t] = "load" THEN ResetHazard
                  ELSE Unlink(arg[t]) \o Unlink(mine[t]) \o ResetHazard \o Unlink(arg[t])
             result == IF op[t] = "load" THEN "loaded" ELSE "failed"
  <2>1. Releases(s) /\ result \in Results
    BY ResetReleases, FailedReleases DEF Types, Results
  <2>2. Ends(t, result, s) /\ mine' = Set(mine, t, IF op[t] = "load" THEN mine[t] ELSE NULL)
    BY <1>3 DEF ValidateEnds, Types
  <2> HIDE DEF s, result
  <2>3. Types'
    BY <2>1, <2>2 DEF Types, Releases, Labels, Pointers, Validate, Ends
  <2>4. StepOf(t) /\ HeadGrows
    BY <2>2 DEF Types, StepOf, HeadGrows, Untouched, Validate, Ends
  <2>5. ThreadOK(t)'
    BY <1>1, <2>1, <2>2 DEF Types, Releases, ThreadOK, InCall, ToDo, InGc, Announces, Results, Validate, Ends
  <2> QED BY <2>3, <2>4, <2>5 DEF Effect
<1> QED BY <1>1, <1>2, <1>3, ValidateCases

\* A new first item.
LEMMA NewFirst ==
  ASSUME NEW x \in Items, NEW r \in Seq(Items)
  PROVE  LET c == <<x>> \o r IN
         /\ c \in Seq(Items) /\ c # << >> /\ Head(c) = x /\ Tail(c) = r
         /\ \A y : Occ(y, c) = One(x = y) + Occ(y, r)
<1> DEFINE a == <<x>>
           c == a \o r
           d == Tail(c)
<1>1. a \in Seq(Items) /\ Len(a) = 1 /\ a[1] = x
  OBVIOUS
<1>2. \A y : Occ(y, a) = One(x = y)
  BY OccOne
<1> HIDE DEF a
<1>3. /\ c \in Seq(Items) /\ Len(c) = 1 + Len(r)
      /\ \A i \in 1 .. 1 + Len(r) : c[i] = IF i <= 1 THEN a[i] ELSE r[i - 1]
  <2>1. /\ c \in Seq(Items) /\ Len(c) = Len(a) + Len(r)
        /\ \A i \in 1 .. Len(a) + Len(r) : c[i] = IF i <= Len(a) THEN a[i] ELSE r[i - Len(a)]
    BY <1>1, ConcatProperties
  <2> HIDE DEF c
  <2> QED BY <1>1, <2>1
<1>4. \A y : Occ(y, c) = Occ(y, a) + Occ(y, r)
  BY <1>1, OccConcat
<1>5. Len(r) \in Nat
  BY LenProperties
<1> HIDE DEF c
<1>6. c # << >>
  BY <1>3, <1>5, EmptySeq
<1>7. Head(c) = x
  BY <1>1, <1>3, <1>5, <1>6, HeadTailProperties
<1>8. d \in Seq(Items) /\ Len(d) = Len(c) - 1 /\ \A i \in 1 .. Len(d) : d[i] = c[i + 1]
  BY <1>3, <1>6, HeadTailProperties
<1> HIDE DEF d
<1>9. Len(d) = Len(r) /\ \A i \in 1 .. Len(d) : d[i] = r[i]
  BY <1>3, <1>5, <1>8
<1>10. d = r
  BY <1>8, <1>9, SeqEqual
<1> QED BY <1>2, <1>3, <1>4, <1>6, <1>7, <1>10 DEF c, d, a

\* An item that releases an object has a reference to it.
LEMMA UnlinkItem ==
  ASSUME Types, Counts, NEW t \in Threads, todo[t] # << >>, First(t)[1] = "unlink"
  PROVE  /\ First(t)[2] \in Objects /\ First(t) = <<"unlink", First(t)[2]>>
         /\ counter_[First(t)[2]] \in Nat /\ counter_[First(t)[2]] >= 1
<1> DEFINE s == todo[t]
           h == Head(s)
           o == h[2]
           x == <<"unlink", o>>
<1>1. s \in Seq(Items) /\ s # << >>
  BY DEF Types
<1>2. h \in Items /\ Occ(h, s) = One(h = h) + Occ(h, Tail(s)) /\ Occ(h, Tail(s)) \in Nat
  BY <1>1, OccTail
<1>3. h[1] = "unlink"
  OBVIOUS
<1> HIDE DEF h, s
<1>4. o \in Objects /\ h = x
  BY <1>2, <1>3 DEF Items
<1> HIDE DEF o
<1>5. Exact(o) /\ todo[t] \in Seq(Items)
  BY <1>1, <1>4 DEF Counts, CountOK, s
<1>6. counter_[o] \in Nat /\ counter_[o] >= Refs(t, o) /\ Refs(t, o) \in Nat
  BY <1>5, CountBound
<1>7. Occ(x, todo[t]) >= 1 /\ Occ(x, todo[t]) \in Nat
  BY <1>2, <1>4 DEF One, s
<1>8. Refs(t, o) >= 1
  <2>1. One(ss_ = o) \in 0 .. 1 /\ One(mine[t] = o) \in 0 .. 1 /\ One(arg[t] = o) \in 0 .. 1
        /\ One(arg[t] = o /\ pc[t] # "add") \in 0 .. 1
    BY OneNat
  <2> QED BY <1>7, <2>1 DEF Refs
<1> QED BY <1>4, <1>6, <1>8 DEF o, h, s

LEMMA UnlinkStepEffect ==
  ASSUME Types, Control, Counts, NEW t \in Threads, UnlinkStep(t)
  PROVE  Effect(t)
<1>1. ThreadOK(t)
  BY DEF Control, ThreadOK
<1> DEFINE o == First(t)[2]
           r == Tail(todo[t])
           c == << <<"retire", o>> >> \o r
<1>2. o \in Objects /\ counter_[o] \in Nat /\ counter_[o] >= 1
  BY UnlinkItem DEF UnlinkStep
<1>3. Releases(todo[t]) /\ todo[t] # << >>
  BY <1>1 DEF Types, ThreadOK, ToDo, Releases, UnlinkStep
<1>4. Releases(r)
  BY <1>3, TailReleases
<1> DEFINE x == <<"retire", o>>
<1>5. x \in Items
  BY <1>2 DEF Items
<1> HIDE DEF r, x
<1>6. <<x>> \o r \in Seq(Items) /\ <<x>> \o r # << >> /\ Head(<<x>> \o r) = x /\ Tail(<<x>> \o r) = r
  BY <1>4, <1>5, NewFirst DEF Releases
<1>7. c \in Seq(Items) /\ c # << >> /\ Head(c) = <<"retire", o>> /\ Tail(c) = r
  BY <1>6 DEF x
<1> HIDE DEF c
<1>8. /\ counter_' = Set(counter_, o, counter_[o] - 1)
      /\ \/ todo' = Set(todo, t, c) /\ \E l \in {"retire", "retire_enter"} : Goto(t, l)
         \/ todo' = Set(todo, t, r) /\ UNCHANGED pc
  BY DEF UnlinkStep, c, r
<1>9. counter_' \in [Objects -> Nat]
  BY <1>2, <1>8 DEF Types
<1> HIDE DEF o
<1>10. /\ UNCHANGED <<alive, gcVars>>
       /\ UNCHANGED <<ss_, op, mine, arg, ptr, old, calls, closed>>
       /\ At(t, "finish")
  BY DEF UnlinkStep
<1>11. Types'
  <2>1. pc' \in [Threads -> Labels]
    BY <1>8 DEF Types, Labels
  <2>2. todo' \in [Threads -> Seq(Items)]
    BY <1>4, <1>7, <1>8 DEF Types, Releases
  <2> QED BY <1>9, <1>10, <2>1, <2>2 DEF Types
<1>12. StepOf(t) /\ HeadGrows
  BY <1>8, <1>10 DEF Types, StepOf, HeadGrows, Untouched
<1>13. InCall(t)' /\ InGc(t)' /\ Announces(t)'
  BY <1>1, <1>8, <1>10 DEF Types, ThreadOK, InCall, InGc, Announces, Results
<1>14. ToDo(t)'
  BY <1>2, <1>4, <1>7, <1>8, <1>10 DEF Types, ToDo, Releases
<1> QED BY <1>11, <1>12, <1>13, <1>14 DEF Effect, ThreadOK

LEMMA RetireStepEffect ==
  ASSUME Types, Control, NEW t \in Threads, RetireStep(t)
  PROVE  Effect(t)
<1>1. ThreadOK(t)
  BY DEF Control, ThreadOK
<1> DEFINE s == todo[t]
           r == Tail(s)
<1>2. s \in Seq(Items) /\ s # << >> /\ NoRetire(r)
  BY <1>1 DEF Types, ThreadOK, ToDo, RetireStep
<1>3. r \in Seq(Items)
  BY <1>2, HeadTailProperties
<1>4. PICK o \in Objects : First(t) = <<"retire", o>>
  BY <1>1 DEF ThreadOK, ToDo, RetireStep
<1>5. Append(retired_[t], o) \in Seq(Objects)
  BY AppendProperties DEF Types
<1>6. /\ todo' = Set(todo, t, r) /\ Goto(t, "gc") /\ At(t, "retire")
      /\ retired_' = [retired_ EXCEPT ![t] = Append(retired_[t], o)]
      /\ UNCHANGED <<alive, head_, hazard, kept, checked, seen, cursor>>
      /\ UNCHANGED <<ss_, counter_, op, mine, arg, ptr, old, closed>>
  <2>1. First(t)[2] = o
    BY <1>4
  <2> HIDE DEF First
  <2>2. retired_' = [retired_ EXCEPT ![t] = Append(retired_[t], o)]
    BY <2>1 DEF RetireStep, Retire, Types
  <2> QED BY <2>2 DEF RetireStep, Retire
<1> HIDE DEF r, s
<1>7. Types'
  BY <1>3, <1>5, <1>6 DEF Types, Labels
<1>8. StepOf(t) /\ HeadGrows
  BY <1>6 DEF Types, StepOf, HeadGrows, Untouched
<1>9. ThreadOK(t)'
  BY <1>1, <1>2, <1>6 DEF Types, ThreadOK, InCall, ToDo, InGc, Announces, Results
<1> QED BY <1>7, <1>8, <1>9 DEF Effect

LEMMA ResetStepEffect ==
  ASSUME Types, Control, NEW t \in Threads, ResetStep(t)
  PROVE  Effect(t)
<1>1. ThreadOK(t)
  BY DEF Control, ThreadOK
<1> DEFINE r == Tail(todo[t])
<1>2. Releases(todo[t]) /\ todo[t] # << >>
  BY <1>1 DEF Types, ThreadOK, ToDo, Releases, ResetStep
<1>3. Releases(r)
  BY <1>2, TailReleases
<1>4. todo' = Set(todo, t, r) /\ SetHazard(t, NULL) /\ At(t, "finish")
      /\ UNCHANGED <<pc, ss_, counter_, op, mine, arg, ptr, old, closed>>
  BY DEF ResetStep
<1> HIDE DEF r
<1>5. Types'
  BY <1>3, <1>4 DEF Types, Releases, SetHazard, Pointers
<1>6. StepOf(t) /\ HeadGrows
  BY <1>4 DEF Types, StepOf, HeadGrows, Untouched, SetHazard
<1>7. ThreadOK(t)'
  BY <1>1, <1>3, <1>4 DEF Types, Releases, ThreadOK, InCall, ToDo, InGc, Announces, Results, SetHazard
<1> QED BY <1>5, <1>6, <1>7 DEF Effect

-----------------------------------------------------------------------------
(* Counts and places: what a step changes in one it changes in the other.  *)

RefsMove(t) == \A o \in Objects : counter_'[o] = counter_[o] + Refs(t, o)' - Refs(t, o)
PlacesMove(t) == \A o \in Objects : One(Doomed(o)') = One(Doomed(o)) + Pending(t, o)' - Pending(t, o)
DeadIsFree == \A o \in Objects : o \notin alive' => counter_'[o] = 0
Accounts(t) == RefsMove(t) /\ PlacesMove(t) /\ DeadIsFree

LEMMA CountsStep ==
  ASSUME Types, Types', Counts, NEW t \in Threads, StepOf(t), Accounts(t)
  PROVE  Counts'
<1> SUFFICES ASSUME NEW o \in Objects PROVE CountOK(o)'
  BY DEF Counts
<1>1. Exact(o) /\ Placed(o)
  BY DEF Counts, CountOK
<1>2. OnlyRefsOf(t) /\ OnlyPlacesOf(t)
  BY DEF StepOf, Untouched, OnlyRefsOf, OnlyPlacesOf
<1>3. /\ todo[t] \in Seq(Items) /\ todo'[t] \in Seq(Items)
      /\ retired_[t] \in Seq(Objects) /\ retired_'[t] \in Seq(Objects)
      /\ kept[t] \in Seq(Objects) /\ kept'[t] \in Seq(Objects)
  BY DEF Types
<1>4. Exact(o)'
  BY <1>1, <1>2, <1>3, ExactStep DEF Accounts, RefsMove
<1>5. Placed(o)'
  BY <1>1, <1>2, <1>3, PlacedStep DEF Accounts, PlacesMove
<1> QED BY <1>4, <1>5 DEF CountOK, Accounts, DeadIsFree

\* The numbers that these lemmas are about.
LEMMA Numbers ==
  ASSUME Types, Types', NEW t \in Threads, NEW o \in Objects
  PROVE  /\ counter_[o] \in Nat /\ counter_'[o] \in Nat
         /\ Refs(t, o) \in Nat /\ Refs(t, o)' \in Nat
         /\ Pending(t, o) \in Nat /\ Pending(t, o)' \in Nat
         /\ One(Doomed(o)) \in 0 .. 1 /\ One(Doomed(o)') \in 0 .. 1
<1>1. todo[t] \in Seq(Items) /\ todo'[t] \in Seq(Items)
  BY DEF Types
<1>2. Refs(t, o) \in Nat /\ Refs(t, o)' \in Nat
  BY <1>1, OwnCount, OwnCountNext DEF OwnCounted
<1>3. /\ retired_[t] \in Seq(Objects) /\ retired_'[t] \in Seq(Objects)
      /\ kept[t] \in Seq(Objects) /\ kept'[t] \in Seq(Objects)
  BY DEF Types
<1>4. Pending(t, o) \in Nat /\ Pending(t, o)' \in Nat
  BY <1>3, SplitPlaces, SplitPlacesNext DEF PlacesSplit
<1> QED BY <1>2, <1>4, OneNat DEF Types

LEMMA NoRetireInSeq ==
  ASSUME NEW s, NoRetire(s), NEW o
  PROVE  ~InSeq(<<"retire", o>>, s)
<1>1. <<"retire", o>>[1] = "retire"
  OBVIOUS
<1> QED BY <1>1 DEF InSeq, NoRetire

LEMMA RetireFirst ==
  ASSUME NEW s \in Seq(Items), s # << >>, NEW p, Head(s) = <<"retire", p>>, NoRetire(Tail(s)), NEW o
  PROVE  InSeq(<<"retire", o>>, s) <=> o = p
<1> DEFINE r == Tail(s)
<1>1. /\ Head(s) = s[1] /\ r \in Seq(Items) /\ Len(r) = Len(s) - 1
      /\ \A i \in 1 .. Len(r) : r[i] = s[i + 1]
  BY HeadTailProperties
<1>2. /\ Len(s) \in Nat /\ Len(s) # 0 /\ DOMAIN s = 1 .. Len(s)
      /\ Len(r) \in Nat /\ DOMAIN r = 1 .. Len(r)
  BY <1>1, LenProperties, EmptySeq
<1>3. ~InSeq(<<"retire", o>>, r)
  BY NoRetireInSeq
<1> HIDE DEF r
<1>4. ASSUME InSeq(<<"retire", o>>, s) PROVE o = p
  <2>1. PICK k \in DOMAIN s : s[k] = <<"retire", o>>
    BY <1>4 DEF InSeq
  <2>2. CASE k = 1
    BY <1>1, <2>1, <2>2
  <2>3. CASE k > 1
    <3>1. k - 1 \in DOMAIN r /\ r[k - 1] = s[(k - 1) + 1] /\ (k - 1) + 1 = k
      BY <1>1, <1>2, <2>3
    <3> QED BY <1>3, <2>1, <3>1 DEF InSeq
  <2> QED BY <1>2, <2>2, <2>3
<1>5. ASSUME o = p PROVE InSeq(<<"retire", o>>, s)
  BY <1>1, <1>2, <1>5 DEF InSeq
<1> QED BY <1>4, <1>5

\* Steps that touch no reference ...
RefsQuiet(t) ==
  /\ ss_' = ss_ /\ counter_' = counter_
  /\ mine'[t] = mine[t] /\ arg'[t] = arg[t]
  /\ arg[t] = NULL \/ (pc[t] = "add" <=> pc'[t] = "add")
  /\ \A o \in Objects : Occ(<<"unlink", o>>, todo'[t]) = Occ(<<"unlink", o>>, todo[t])

LEMMA QuietRefs ==
  ASSUME Types, Types', NEW t \in Threads, RefsQuiet(t)
  PROVE  RefsMove(t)
<1> SUFFICES ASSUME NEW o \in Objects PROVE counter_'[o] = counter_[o] + Refs(t, o)' - Refs(t, o)
  BY DEF RefsMove
<1>1. Refs(t, o)' = Refs(t, o)
  BY HazardAssumption DEF RefsQuiet, Refs
<1>2. counter_'[o] = counter_[o] /\ counter_[o] \in Nat /\ Refs(t, o) \in Nat
  BY Numbers DEF RefsQuiet
<1> QED BY <1>1, <1>2

\* ... and those that touch no place, and leave the same objects without references.
PlacesQuiet(t) ==
  /\ retired_'[t] = retired_[t] /\ kept'[t] = kept[t] /\ checked'[t] = checked[t]
  /\ todo'[t] = todo[t] \/ (NoRetire(todo[t]) /\ NoRetire(todo'[t]))
  /\ \A o \in Objects : Doomed(o)' <=> Doomed(o)

LEMMA QuietPlaces ==
  ASSUME Types, Types', NEW t \in Threads, PlacesQuiet(t)
  PROVE  PlacesMove(t)
<1> SUFFICES ASSUME NEW o \in Objects
             PROVE  One(Doomed(o)') = One(Doomed(o)) + Pending(t, o)' - Pending(t, o)
  BY DEF PlacesMove
<1>1. InSeq(<<"retire", o>>, todo'[t]) <=> InSeq(<<"retire", o>>, todo[t])
  BY NoRetireInSeq DEF PlacesQuiet
<1>2. Pending(t, o)' = Pending(t, o)
  BY <1>1 DEF Pending, PlacesQuiet, One
<1>3. One(Doomed(o)') = One(Doomed(o)) /\ One(Doomed(o)) \in 0 .. 1 /\ Pending(t, o) \in Nat
  BY Numbers DEF PlacesQuiet, One
<1> QED BY <1>2, <1>3

\* Nothing that is counted changes.
Quiet(t) ==
  /\ RefsQuiet(t) /\ alive' = alive
  /\ todo'[t] = todo[t] /\ retired_'[t] = retired_[t] /\ kept'[t] = kept[t] /\ checked'[t] = checked[t]

LEMMA QuietAccounts ==
  ASSUME Types, Types', Counts, NEW t \in Threads, Quiet(t)
  PROVE  Accounts(t)
<1>1. \A o \in Objects : Doomed(o)' <=> Doomed(o)
  BY DEF Quiet, RefsQuiet, Doomed
<1>2. PlacesQuiet(t)
  BY <1>1 DEF Quiet, PlacesQuiet
<1>3. DeadIsFree
  BY DEF Quiet, RefsQuiet, DeadIsFree, Counts, CountOK
<1> QED BY <1>2, <1>3, QuietRefs, QuietPlaces DEF Accounts, Quiet

\* Most steps of a call, up to its result, are quiet.
QuietStep(t) ==
  \/ Load(t) \/ WithEmpty(t, "store", "exchange") \/ WithEmpty(t, "cas", Enter(t))
  \/ EnterMutator(t) \/ LoadPtr(t) \/ Protect(t) \/ (ValidateGoesOn(t) /\ Validate(t))
  \/ Count(t) \/ TryAddRefFails(t) \/ Retry(t) \/ SwapFails(t)
  \/ RetireMutator(t) \/ Return(t)
  \/ (Grown(t) \/ Rescan(t)) /\ ptrVars' = ptrVars

LEMMA QuietSteps ==
  ASSUME Types, Types', NEW t \in Threads, ThreadOK(t), QuietStep(t)
  PROVE  Quiet(t)
<1> USE DEF Quiet, RefsQuiet
<1>1. CASE Load(t)
  BY <1>1 DEF ThreadOK, InCall, Load, Calls
<1>2. CASE WithEmpty(t, "store", "exchange") \/ WithEmpty(t, "cas", Enter(t))
  BY <1>2 DEF ThreadOK, InCall, Types, WithEmpty, Calls
<1>3. CASE EnterMutator(t)
  BY <1>3 DEF Types, EnterMutator, NewMutator, Link, LinkFails
<1>4. CASE LoadPtr(t)
  BY <1>4 DEF Types, LoadPtr
<1>5. CASE Protect(t)
  BY <1>5 DEF Types, Protect, SetHazard
<1>6. CASE ValidateGoesOn(t) /\ Validate(t)
  BY <1>6 DEF Types, Validate, ValidateGoesOn
<1>7. CASE Count(t)
  BY <1>7 DEF Types, Count, ToCount
<1>8. CASE TryAddRefFails(t)
  BY <1>8 DEF Types, TryAddRefFails, ToCount
<1>9. CASE Retry(t)
  BY <1>9 DEF Types, Retry, SetHazard
<1>10. CASE SwapFails(t)
  BY <1>10 DEF Types, SwapFails
<1>11. CASE RetireMutator(t)
  BY <1>11 DEF Types, RetireMutator, NewMutator, Link, LinkFails
<1>12. CASE Return(t)
  BY <1>12 DEF Types, Return
<1>13. CASE (Grown(t) \/ Rescan(t)) /\ ptrVars' = ptrVars
  BY <1>13 DEF Types, Grown, Rescan, LoadHead
<1> QED BY <1>1, <1>2, <1>3, <1>4, <1>5, <1>6, <1>7, <1>8, <1>9, <1>10, <1>11, <1>12, <1>13 DEF QuietStep

\* The steps that make a reference.
LEMMA WithNewAccounts ==
  ASSUME Types, Types', Control, Counts, NEW t \in Threads, NEW which, WithNew(t, which)
  PROVE  Accounts(t)
<1>1. PICK n \in Objects \ alive :
        /\ alive' = alive \cup {n} /\ counter_' = Set(counter_, n, 1) /\ arg' = Set(arg, t, n)
        /\ Calls(t, which, "add")
  BY DEF WithNew
<1>2. counter_[n] = 0 /\ counter_'[n] = 1 /\ \A o \in Objects : o # n => counter_'[o] = counter_[o]
  BY <1>1 DEF Types, Counts, CountOK
<1>3. /\ arg[t] = NULL /\ arg'[t] = n /\ pc'[t] = "add" /\ ss_' = ss_
      /\ mine'[t] = mine[t] /\ todo'[t] = todo[t]
      /\ retired_'[t] = retired_[t] /\ kept'[t] = kept[t] /\ checked'[t] = checked[t]
  BY <1>1 DEF Types, Control, InCall, Calls
<1>4. RefsMove(t)
  <2> SUFFICES ASSUME NEW o \in Objects PROVE counter_'[o] = counter_[o] + Refs(t, o)' - Refs(t, o)
    BY DEF RefsMove
  <2>1. Refs(t, o)' = Refs(t, o) + One(o = n)
    <3>1. Occ(<<"unlink", o>>, todo[t]) \in Nat
      BY OccType DEF Types
    <3> QED BY <1>3, <3>1, HazardAssumption DEF Refs, One
  <2>2. counter_'[o] = counter_[o] + One(o = n)
    BY <1>2, Numbers DEF One
  <2> QED BY <2>1, <2>2, Numbers, OneNat
<1>5. \A o \in Objects : Doomed(o)' <=> Doomed(o)
  BY <1>1, <1>2 DEF Doomed
<1>6. PlacesMove(t)
  BY <1>3, <1>5, QuietPlaces DEF PlacesQuiet
<1>7. DeadIsFree
  BY <1>1, <1>2 DEF DeadIsFree, Counts, CountOK
<1> QED BY <1>4, <1>6, <1>7 DEF Accounts

\* A reference to an object that has one.
AddsOne(t, p) ==
  /\ p \in Objects /\ counter_[p] >= 1 /\ counter_' = Set(counter_, p, counter_[p] + 1) /\ alive' = alive
  /\ \A o \in Objects : Refs(t, o)' = Refs(t, o) + One(o = p)
  /\ retired_'[t] = retired_[t] /\ kept'[t] = kept[t] /\ checked'[t] = checked[t]
  /\ todo'[t] = todo[t] \/ (NoRetire(todo[t]) /\ NoRetire(todo'[t]))

LEMMA AddsOneAccounts ==
  ASSUME Types, Types', Counts, NEW t \in Threads, NEW p, AddsOne(t, p)
  PROVE  Accounts(t)
<1>1. p \in Objects /\ counter_[p] >= 1 /\ counter_[p] \in Nat /\ counter_'[p] = counter_[p] + 1
      /\ \A o \in Objects : o # p => counter_'[o] = counter_[o]
  BY DEF AddsOne, Types
<1>2. RefsMove(t)
  <2> SUFFICES ASSUME NEW o \in Objects PROVE counter_'[o] = counter_[o] + Refs(t, o)' - Refs(t, o)
    BY DEF RefsMove
  <2>1. counter_'[o] = counter_[o] + One(o = p)
    BY <1>1, Numbers DEF One
  <2> QED BY <2>1, Numbers, OneNat DEF AddsOne
<1>3. \A o \in Objects : Doomed(o)' <=> Doomed(o)
  BY <1>1 DEF Doomed, AddsOne
<1>4. PlacesMove(t)
  BY <1>3, QuietPlaces DEF PlacesQuiet, AddsOne
<1>5. p \in alive
  BY <1>1 DEF Counts, CountOK
<1>6. DeadIsFree
  BY <1>1, <1>5 DEF DeadIsFree, Counts, CountOK, AddsOne
<1> QED BY <1>2, <1>4, <1>6 DEF Accounts

\* Who has a reference keeps the count above 0.
LEMMA RefsCount ==
  ASSUME Types, Counts, NEW t \in Threads, NEW o \in Objects, mine[t] = o \/ arg[t] = o \/ ss_ = o
  PROVE  counter_[o] >= 1 /\ o \in alive
<1>1. Exact(o) /\ todo[t] \in Seq(Items)
  BY DEF Types, Counts, CountOK
<1>2. counter_[o] \in Nat /\ counter_[o] >= Refs(t, o)
  BY <1>1, CountBound
<1>3. Occ(<<"unlink", o>>, todo[t]) \in Nat
  BY <1>1, OccType
<1>4. Refs(t, o) >= 1
  BY <1>3 DEF Refs, One
<1>5. counter_[o] >= 1
  BY <1>2, <1>3, <1>4 DEF Refs, One
<1> QED BY <1>5 DEF Counts, CountOK

LEMMA WithCopyAccounts ==
  ASSUME Types, Types', Control, Counts, NEW t \in Threads, NEW which, WithCopy(t, which)
  PROVE  Accounts(t)
<1>1. mine[t] \in Objects /\ counter_[mine[t]] >= 1
  BY RefsCount DEF Types, WithCopy, Pointers
<1>2. /\ arg[t] = NULL /\ arg'[t] = mine[t] /\ pc'[t] = "add" /\ ss_' = ss_
      /\ mine'[t] = mine[t] /\ todo'[t] = todo[t]
      /\ retired_'[t] = retired_[t] /\ kept'[t] = kept[t] /\ checked'[t] = checked[t]
  BY DEF Types, Control, InCall, Calls, WithCopy
<1>3. \A o \in Objects : Refs(t, o)' = Refs(t, o) + One(o = mine[t])
  <2> TAKE o \in Objects
  <2>1. Occ(<<"unlink", o>>, todo[t]) \in Nat
    BY OccType DEF Types
  <2> QED BY <1>2, <2>1, HazardAssumption DEF Refs, One
<1>4. AddsOne(t, mine[t])
  BY <1>1, <1>2, <1>3 DEF AddsOne, WithCopy
<1> QED BY <1>4, AddsOneAccounts

LEMMA AddRefAccounts ==
  ASSUME Types, Types', Control, Counts, NEW t \in Threads, AddRef(t)
  PROVE  Accounts(t)
<1>1. arg[t] \in Objects /\ counter_[arg[t]] >= 1
  BY RefsCount DEF Types, Control, InCall, AddRef, Pointers
<1>2. /\ pc[t] = "add" /\ pc'[t] # "add" /\ arg'[t] = arg[t] /\ ss_' = ss_
      /\ mine'[t] = mine[t] /\ todo'[t] = todo[t]
      /\ retired_'[t] = retired_[t] /\ kept'[t] = kept[t] /\ checked'[t] = checked[t]
  BY DEF Types, AddRef, Enter
<1>3. \A o \in Objects : Refs(t, o)' = Refs(t, o) + One(o = arg[t])
  <2> TAKE o \in Objects
  <2>1. Occ(<<"unlink", o>>, todo[t]) \in Nat
    BY OccType DEF Types
  <2> QED BY <1>2, <2>1 DEF Refs, One
<1>4. AddsOne(t, arg[t])
  BY <1>1, <1>2, <1>3 DEF AddsOne, AddRef
<1> QED BY <1>4, AddsOneAccounts

\* The step that has the result of a call: what it lets go of is what is left to release.
EndsWith(t, s) ==
  /\ todo[t] = << >> /\ todo'[t] = s /\ Releases(s)
  /\ arg'[t] = NULL /\ pc[t] # "add"
  /\ retired_'[t] = retired_[t] /\ kept'[t] = kept[t] /\ checked'[t] = checked[t]
  /\ alive' = alive

LEMMA EndsFacts ==
  ASSUME Types, NEW t \in Threads, ThreadOK(t), pc[t] \notin Finishing, NEW result, NEW s,
         Releases(s), Ends(t, result, s), pc[t] # "add", UNCHANGED <<alive, gcVars>>
  PROVE  EndsWith(t, s)
BY DEF Types, ThreadOK, ToDo, Ends, EndsWith

LEMMA EndsAccounts ==
  ASSUME Types, Types', Counts, NEW t \in Threads, NEW s, EndsWith(t, s), counter_' = counter_,
         \A o \in Objects : Refs(t, o)' = Refs(t, o)
  PROVE  Accounts(t)
<1>1. RefsMove(t)
  BY Numbers DEF RefsMove
<1>2. \A o \in Objects : Doomed(o)' <=> Doomed(o)
  BY DEF Doomed, EndsWith
<1>3. NoRetire(<< >>)
  BY EmptyReleases DEF Releases
<1>4. PlacesMove(t)
  BY <1>2, <1>3, QuietPlaces DEF PlacesQuiet, EndsWith, Releases
<1>5. DeadIsFree
  BY DEF EndsWith, DeadIsFree, Counts, CountOK
<1> QED BY <1>1, <1>4, <1>5 DEF Accounts

LEMMA ResetAccounts ==
  ASSUME Types, Types', Control, Counts, NEW t \in Threads, Reset(t)
  PROVE  Accounts(t)
<1> DEFINE s == Unlink(mine[t])
<1>1. Releases(s) /\ \A o \in Objects : Occ(<<"unlink", o>>, s) = One(mine[t] = o)
  BY UnlinkReleases DEF Types
<1>2. Ends(t, "dropped", s)
  BY DEF Reset
<1> HIDE DEF s
<1>3. EndsWith(t, s)
  BY <1>1, <1>2, EndsFacts DEF Reset, Control, ThreadOK
<1>4. \A o \in Objects : Refs(t, o)' = Refs(t, o)
  <2> TAKE o \in Objects
  <2>1. ss_' = ss_ /\ mine'[t] = NULL /\ arg[t] = NULL
    BY DEF Reset, Types, Control, InCall
  <2>2. Occ(<<"unlink", o>>, todo[t]) = 0 /\ Occ(<<"unlink", o>>, todo'[t]) = One(mine[t] = o)
    BY <1>1, <1>3, OccEmpty DEF EndsWith
  <2> QED BY <1>3, <2>1, <2>2, HazardAssumption DEF EndsWith, Refs, One
<1> QED BY <1>3, <1>4, EndsAccounts DEF Reset

LEMMA ExchangeAccounts ==
  ASSUME Types, Types', Control, Counts, NEW t \in Threads, Exchange(t)
  PROVE  Accounts(t)
<1> DEFINE s == Unlink(ss_) \o Unlink(arg[t])
<1>1. Releases(s) /\ \A o \in Objects : Occ(<<"unlink", o>>, s) = One(ss_ = o) + One(arg[t] = o)
  BY StoredReleases DEF Types
<1>2. Ends(t, "stored", s)
  BY DEF Exchange
<1> HIDE DEF s
<1>3. EndsWith(t, s)
  BY <1>1, <1>2, EndsFacts DEF Exchange, Control, ThreadOK
<1>4. \A o \in Objects : Refs(t, o)' = Refs(t, o)
  <2> TAKE o \in Objects
  <2>1. ss_' = arg[t] /\ mine'[t] = mine[t] /\ pc[t] # "add"
    BY DEF Exchange
  <2>2. Occ(<<"unlink", o>>, todo[t]) = 0 /\ Occ(<<"unlink", o>>, todo'[t]) = One(ss_ = o) + One(arg[t] = o)
    BY <1>1, <1>3, OccEmpty DEF EndsWith
  <2> QED BY <1>3, <2>1, <2>2, HazardAssumption DEF EndsWith, Refs, One
<1> QED BY <1>3, <1>4, EndsAccounts DEF Exchange

LEMMA SwapAccounts ==
  ASSUME Types, Types', Control, Counts, NEW t \in Threads, Swap(t)
  PROVE  Accounts(t)
<1> DEFINE s == Swapped(t)
<1>1. Releases(s) /\ \A o \in Objects : Occ(<<"unlink", o>>, s) = One(ptr[t] = o) + One(arg[t] = o)
  BY SwappedReleases DEF Types, Swapped
<1>2. Ends(t, "swapped", s)
  BY DEF Swap
<1> HIDE DEF s
<1>3. EndsWith(t, s)
  BY <1>1, <1>2, EndsFacts DEF Swap, Control, ThreadOK
<1>4. \A o \in Objects : Refs(t, o)' = Refs(t, o)
  <2> TAKE o \in Objects
  <2>1. ss_ = ptr[t] /\ ss_' = arg[t] /\ mine'[t] = mine[t] /\ pc[t] # "add"
    BY DEF Swap
  <2>2. Occ(<<"unlink", o>>, todo[t]) = 0 /\ Occ(<<"unlink", o>>, todo'[t]) = One(ptr[t] = o) + One(arg[t] = o)
    BY <1>1, <1>3, OccEmpty DEF EndsWith
  <2> QED BY <1>3, <2>1, <2>2, HazardAssumption DEF EndsWith, Refs, One
<1> QED BY <1>3, <1>4, EndsAccounts DEF Swap

\* What a CompareExchangeWeak that fails lets go of; a Load has nothing.
Rest(t) ==
  IF op[t] = "load" THEN ResetHazard
  ELSE Unlink(arg[t]) \o Unlink(mine[t]) \o ResetHazard \o Unlink(arg[t])

LEMMA RestReleases ==
  ASSUME Types, NEW t \in Threads, ThreadOK(t), op[t] \in {"load", "cas"}
  PROVE  /\ Releases(Rest(t))
         /\ \A o \in Objects : Occ(<<"unlink", o>>, Rest(t)) = One(arg[t] = o) + One(mine[t] = o) + One(arg[t] = o)
<1>1. CASE op[t] = "load"
  <2>1. \A o \in Objects : arg[t] # o /\ mine[t] # o
    BY <1>1, HazardAssumption DEF ThreadOK, InCall
  <2> QED BY <1>1, <2>1, ResetReleases DEF Rest, One
<1>2. CASE op[t] = "cas"
  BY <1>2, FailedReleases DEF Rest, Types
<1> QED BY <1>1, <1>2

LEMMA ValidateEndsAccounts ==
  ASSUME Types, Types', Control, Counts, NEW t \in Threads, Validate(t), ValidateEnds(t)
  PROVE  Accounts(t)
<1> DEFINE s == Rest(t)
           result == IF op[t] = "load" THEN "loaded" ELSE "failed"
<1>0. ThreadOK(t) /\ op[t] \in {"load", "cas"}
  BY DEF Control, ThreadOK, ValidateEnds
<1>1. Releases(s) /\ \A o \in Objects : Occ(<<"unlink", o>>, s) = One(arg[t] = o) + One(mine[t] = o) + One(arg[t] = o)
  BY <1>0, RestReleases
<1>2. Ends(t, result, s)
  BY DEF ValidateEnds, Rest
<1> HIDE DEF s, result
<1>3. EndsWith(t, s)
  BY <1>0, <1>1, <1>2, EndsFacts DEF Validate
<1>4. \A o \in Objects : Refs(t, o)' = Refs(t, o)
  <2> TAKE o \in Objects
  <2>1. ss_' = ss_ /\ mine'[t] = NULL /\ pc[t] # "add"
    BY <1>0 DEF Validate, ValidateEnds, Types, ThreadOK, InCall
  <2>2. /\ Occ(<<"unlink", o>>, todo[t]) = 0
        /\ Occ(<<"unlink", o>>, todo'[t]) = One(arg[t] = o) + One(mine[t] = o) + One(arg[t] = o)
    BY <1>1, <1>3, OccEmpty DEF EndsWith
  <2> QED BY <1>3, <2>1, <2>2, HazardAssumption DEF EndsWith, Refs, One
<1> QED BY <1>3, <1>4, EndsAccounts DEF Validate

LEMMA TryAddRefAccounts ==
  ASSUME Types, Types', Control, Counts, NEW t \in Threads, TryAddRef(t)
  PROVE  Accounts(t)
<1> DEFINE s == Rest(t)
           result == IF op[t] = "load" THEN "loaded" ELSE "failed"
<1>0. ThreadOK(t) /\ op[t] \in {"load", "cas"}
  BY DEF Control, ThreadOK, InCall, TryAddRef
<1>1. Releases(s) /\ \A o \in Objects : Occ(<<"unlink", o>>, s) = One(arg[t] = o) + One(mine[t] = o) + One(arg[t] = o)
  BY <1>0, RestReleases
<1>2. Ends(t, result, s)
  BY DEF TryAddRef, Rest
<1> HIDE DEF s, result
<1>3. EndsWith(t, s)
  BY <1>0, <1>1, <1>2, EndsFacts DEF TryAddRef
<1>4. /\ ptr[t] \in Objects /\ counter_[ptr[t]] = old[t] /\ old[t] >= 1
      /\ counter_' = Set(counter_, ptr[t], counter_[ptr[t]] + 1)
  BY <1>0 DEF TryAddRef, Types, ThreadOK, InCall, Pointers
<1>5. \A o \in Objects : Refs(t, o)' = Refs(t, o) + One(o = ptr[t])
  <2> TAKE o \in Objects
  <2>1. ss_' = ss_ /\ mine'[t] = ptr[t] /\ pc[t] # "add"
    BY DEF TryAddRef, Types
  <2>2. /\ Occ(<<"unlink", o>>, todo[t]) = 0
        /\ Occ(<<"unlink", o>>, todo'[t]) = One(arg[t] = o) + One(mine[t] = o) + One(arg[t] = o)
    BY <1>1, <1>3, OccEmpty DEF EndsWith
  <2> QED BY <1>3, <2>1, <2>2, HazardAssumption DEF EndsWith, Refs, One
<1>6. NoRetire(todo[t]) /\ NoRetire(todo'[t])
  BY <1>3, EmptyReleases DEF EndsWith, Releases
<1>7. AddsOne(t, ptr[t])
  BY <1>3, <1>4, <1>5, <1>6 DEF AddsOne, EndsWith
<1> QED BY <1>7, AddsOneAccounts

\* The steps of what is left to do.
LEMMA ResetStepAccounts ==
  ASSUME Types, Types', Control, Counts, NEW t \in Threads, ResetStep(t)
  PROVE  Accounts(t)
<1> DEFINE s == todo[t]
           r == Tail(s)
<1>1. Releases(s) /\ s # << >> /\ s \in Seq(Items)
  BY DEF Types, Control, ToDo, Releases, ResetStep
<1>2. Releases(r) /\ todo'[t] = r
  BY <1>1, TailReleases DEF ResetStep, Types
<1>3. \A o \in Objects : Occ(<<"unlink", o>>, r) = Occ(<<"unlink", o>>, s)
  <2> TAKE o \in Objects
  <2> DEFINE x == <<"unlink", o>>
  <2>1. Head(s) # x
    BY DEF ResetStep
  <2> HIDE DEF x
  <2>2. Occ(x, s) = One(Head(s) = x) + Occ(x, Tail(s)) /\ Occ(x, Tail(s)) \in Nat
    BY <1>1, OccTail
  <2> QED BY <2>1, <2>2 DEF One, x
<1> HIDE DEF r
<1>4. RefsMove(t)
  <2>1. RefsQuiet(t)
    BY <1>2, <1>3 DEF RefsQuiet, ResetStep
  <2> QED BY <2>1, QuietRefs
<1>5. PlacesMove(t)
  <2>1. PlacesQuiet(t)
    BY <1>1, <1>2 DEF PlacesQuiet, ResetStep, SetHazard, Releases, Doomed
  <2> QED BY <2>1, QuietPlaces
<1>6. DeadIsFree
  BY DEF ResetStep, SetHazard, DeadIsFree, Counts, CountOK
<1> QED BY <1>4, <1>5, <1>6 DEF Accounts

LEMMA UnlinkStepAccounts ==
  ASSUME Types, Types', Control, Counts, NEW t \in Threads, UnlinkStep(t)
  PROVE  Accounts(t)
<1> DEFINE s == todo[t]
           r == Tail(s)
           p == First(t)[2]
           x == <<"retire", p>>
           c == <<x>> \o r
<1>1. p \in Objects /\ First(t) = <<"unlink", p>> /\ counter_[p] \in Nat /\ counter_[p] >= 1
  BY UnlinkItem DEF UnlinkStep
<1>2. Releases(s) /\ s # << >> /\ s \in Seq(Items) /\ pc[t] = "finish"
  BY DEF Types, Control, ToDo, Releases, UnlinkStep
<1>3. Releases(r) /\ r \in Seq(Items)
  BY <1>2, TailReleases DEF Releases
<1>4. \A o \in Objects : /\ Occ(<<"unlink", o>>, s) = One(o = p) + Occ(<<"unlink", o>>, r)
                         /\ Occ(<<"unlink", o>>, r) \in Nat
  <2> TAKE o \in Objects
  <2> DEFINE y == <<"unlink", o>>
  <2>1. Head(s) = y <=> o = p
    BY <1>1
  <2> HIDE DEF y
  <2>2. Occ(y, s) = One(Head(s) = y) + Occ(y, Tail(s)) /\ Occ(y, Tail(s)) \in Nat
    BY <1>2, OccTail
  <2> QED BY <2>1, <2>2 DEF One, y
<1>5. x \in Items
  BY <1>1 DEF Items
<1>6. \A o \in Objects : x # <<"unlink", o>>
  OBVIOUS
<1>7. /\ counter_' = Set(counter_, p, counter_[p] - 1)
      /\ IF counter_[p] = 1 THEN todo'[t] = c ELSE todo'[t] = r /\ UNCHANGED pc
      /\ pc'[t] # "add" /\ UNCHANGED <<alive, gcVars, ss_, mine, arg>>
  BY DEF UnlinkStep, Types
<1> HIDE DEF p, r, s, x
<1>8. /\ c \in Seq(Items) /\ c # << >> /\ Head(c) = x /\ Tail(c) = r
      /\ \A y : Occ(y, c) = One(x = y) + Occ(y, r)
  BY <1>3, <1>5, NewFirst
<1> HIDE DEF c
<1>9. \A o \in Objects : Occ(<<"unlink", o>>, todo'[t]) = Occ(<<"unlink", o>>, r)
  <2> TAKE o \in Objects
  <2>1. One(x = <<"unlink", o>>) = 0
    BY <1>6 DEF One
  <2> QED BY <1>4, <1>7, <1>8, <2>1
<1>10. \A o \in Objects : Refs(t, o)' = Refs(t, o) - One(o = p)
  <2> TAKE o \in Objects
  <2>1. Occ(<<"unlink", o>>, todo[t]) = One(o = p) + Occ(<<"unlink", o>>, todo'[t])
        /\ Occ(<<"unlink", o>>, todo'[t]) \in Nat
    BY <1>4, <1>9 DEF s
  <2>2. ss_' = ss_ /\ mine' = mine /\ arg' = arg /\ pc[t] # "add" /\ pc'[t] # "add"
    BY <1>2, <1>7
  <2> QED BY <2>1, <2>2 DEF Refs, One
<1>11. counter_'[p] = counter_[p] - 1 /\ \A o \in Objects : o # p => counter_'[o] = counter_[o]
  BY <1>1, <1>7 DEF Types
<1>12. RefsMove(t)
  <2> SUFFICES ASSUME NEW o \in Objects PROVE counter_'[o] = counter_[o] + Refs(t, o)' - Refs(t, o)
    BY DEF RefsMove
  <2>1. counter_'[o] = counter_[o] - One(o = p)
    BY <1>11, Numbers DEF One
  <2> QED BY <1>10, <2>1, Numbers, OneNat
<1>13. p \in alive
  BY <1>1 DEF Counts, CountOK
<1>14. PlacesMove(t)
  <2>1. CASE counter_[p] = 1
    <3> SUFFICES ASSUME NEW o \in Objects
                 PROVE  One(Doomed(o)') = One(Doomed(o)) + Pending(t, o)' - Pending(t, o)
      BY DEF PlacesMove
    <3>1. One(Doomed(o)') = One(Doomed(o)) + One(o = p)
      BY <1>7, <1>11, <1>13, <2>1 DEF Doomed, One
    <3>2. ~InSeq(<<"retire", o>>, todo[t])
      BY <1>2, NoRetireInSeq DEF Releases, s
    <3>3. InSeq(<<"retire", o>>, todo'[t]) <=> o = p
      <4>1. todo'[t] = c /\ Head(c) = <<"retire", p>> /\ NoRetire(Tail(c))
        BY <1>3, <1>7, <1>8, <2>1 DEF Releases, x
      <4> QED BY <1>8, <4>1, RetireFirst
    <3>4. retired_' = retired_ /\ kept' = kept /\ checked' = checked
      BY <1>7
    <3>5. Occ(o, retired_[t]) \in Nat /\ Occ(o, kept[t]) \in Nat
      BY OccType DEF Types
    <3>6. Pending(t, o)' = Pending(t, o) + One(o = p)
      BY <3>2, <3>3, <3>4, <3>5 DEF Pending, One
    <3> QED BY <3>1, <3>6, Numbers, OneNat
  <2>2. CASE counter_[p] # 1
    <3>1. \A o \in Objects : Doomed(o)' <=> Doomed(o)
      BY <1>1, <1>7, <1>11, <2>2 DEF Doomed
    <3>2. PlacesQuiet(t)
      BY <1>2, <1>3, <1>7, <2>2, <3>1 DEF PlacesQuiet, Releases, s
    <3> QED BY <3>2, QuietPlaces
  <2> QED BY <2>1, <2>2
<1>15. DeadIsFree
  BY <1>7, <1>11, <1>13 DEF DeadIsFree, Counts, CountOK
<1> QED BY <1>12, <1>14, <1>15 DEF Accounts

LEMMA RetireStepAccounts ==
  ASSUME Types, Types', Control, Counts, NEW t \in Threads, RetireStep(t)
  PROVE  Accounts(t)
<1> DEFINE s == todo[t]
           r == Tail(s)
<1>1. s \in Seq(Items) /\ s # << >> /\ NoRetire(r)
  BY DEF Types, Control, ToDo, RetireStep
<1>2. PICK p \in Objects : Head(s) = <<"retire", p>>
  BY DEF Control, ToDo, RetireStep
<1>3. Head(s)[2] = p
  BY <1>2
<1>4. /\ todo'[t] = r /\ retired_'[t] = Append(retired_[t], p)
      /\ kept' = kept /\ checked' = checked /\ alive' = alive
      /\ counter_' = counter_ /\ ss_' = ss_ /\ mine' = mine /\ arg' = arg
      /\ pc[t] # "add" /\ pc'[t] # "add"
  BY <1>3 DEF RetireStep, Retire, Types
<1>5. \A o \in Objects : Occ(<<"unlink", o>>, r) = Occ(<<"unlink", o>>, s)
  <2> TAKE o \in Objects
  <2> DEFINE x == <<"unlink", o>>
  <2>1. Head(s) # x
    BY <1>2
  <2> HIDE DEF x
  <2>2. Occ(x, s) = One(Head(s) = x) + Occ(x, Tail(s)) /\ Occ(x, Tail(s)) \in Nat
    BY <1>1, OccTail
  <2> QED BY <2>1, <2>2 DEF One, x
<1>6. RefsMove(t)
  <2>1. RefsQuiet(t)
    BY <1>4, <1>5 DEF RefsQuiet
  <2> QED BY <2>1, QuietRefs
<1>7. PlacesMove(t)
  <2> SUFFICES ASSUME NEW o \in Objects
               PROVE  One(Doomed(o)') = One(Doomed(o)) + Pending(t, o)' - Pending(t, o)
    BY DEF PlacesMove
  <2>1. InSeq(<<"retire", o>>, todo[t]) <=> o = p
    BY <1>1, <1>2, RetireFirst
  <2>2. ~InSeq(<<"retire", o>>, todo'[t])
    BY <1>1, <1>4, NoRetireInSeq
  <2>3. Occ(o, retired_'[t]) = Occ(o, retired_[t]) + One(p = o)
    BY <1>4, OccAppend DEF Types
  <2>4. Occ(o, retired_[t]) \in Nat /\ Occ(o, kept[t]) \in Nat
    BY OccType DEF Types
  <2>5. Pending(t, o)' = Pending(t, o)
    BY <1>4, <2>1, <2>2, <2>3, <2>4 DEF Pending, One
  <2>6. Doomed(o)' <=> Doomed(o)
    BY <1>4 DEF Doomed
  <2> QED BY <2>5, <2>6, Numbers DEF One
<1>8. DeadIsFree
  BY <1>4 DEF DeadIsFree, Counts, CountOK
<1> QED BY <1>6, <1>7, <1>8 DEF Accounts

\* Gc changes no reference: an object goes from one of its lists to another ...
LEMMA GcRefs ==
  ASSUME Types, Types', NEW t \in Threads, ptrVars' = ptrVars, pc[t] # "add", pc'[t] # "add"
  PROVE  RefsMove(t)
<1>1. RefsQuiet(t)
  BY DEF RefsQuiet
<1> QED BY <1>1, QuietRefs

LEMMA GcMoves ==
  ASSUME Types, Types', Counts, NEW t \in Threads, ptrVars' = ptrVars, alive' = alive,
         pc[t] # "add", pc'[t] # "add",
         \A o \in Objects : Pending(t, o)' = Pending(t, o)
  PROVE  Accounts(t)
<1>1. RefsMove(t)
  BY GcRefs
<1>2. \A o \in Objects : One(Doomed(o)') = One(Doomed(o))
  BY DEF Doomed
<1>3. PlacesMove(t)
  BY <1>2, Numbers DEF PlacesMove
<1>4. DeadIsFree
  BY DEF DeadIsFree, Counts, CountOK
<1> QED BY <1>1, <1>3, <1>4 DEF Accounts

LEMMA GcNextAccounts ==
  ASSUME Types, Types', Control, Counts, NEW t \in Threads, GcNext(t), ptrVars' = ptrVars
  PROVE  Accounts(t)
<1> DEFINE s == retired_[t]
           p == Head(s)
           r == Tail(s)
<1>1. s \in Seq(Objects) /\ s # << >>
  BY DEF Types, GcNext
<1>2. /\ pc[t] = "gc" /\ pc'[t] = "scan" /\ alive' = alive /\ todo' = todo /\ kept' = kept
      /\ checked[t] = NULL /\ checked'[t] = p /\ retired_'[t] = r
  BY DEF Types, GcNext, LoadHead, Control, InGc
<1> HIDE DEF p, r
<1>3. \A o \in Objects : /\ Occ(o, s) = One(p = o) + Occ(o, r) /\ Occ(o, r) \in Nat
  BY <1>1, OccTail DEF p, r
<1>4. \A o \in Objects : Pending(t, o)' = Pending(t, o)
  <2> TAKE o \in Objects
  <2>1. Occ(o, kept[t]) \in Nat
    BY OccType DEF Types
  <2>2. One(checked[t] = o) = 0
    BY <1>2, HazardAssumption DEF One
  <2>3. One(p = o) \in 0 .. 1 /\ One(InSeq(<<"retire", o>>, todo[t])) \in 0 .. 1
    BY OneNat
  <2> QED BY <1>2, <1>3, <2>1, <2>2, <2>3 DEF Pending
<1> QED BY <1>2, <1>4, GcMoves

LEMMA GcReturnAccounts ==
  ASSUME Types, Types', Control, Counts, NEW t \in Threads, GcReturn(t, "finish"), ptrVars' = ptrVars
  PROVE  Accounts(t)
<1>1. /\ pc[t] = "gc" /\ pc'[t] = "finish" /\ alive' = alive /\ todo' = todo /\ checked' = checked
      /\ retired_[t] = << >> /\ retired_'[t] = kept[t] /\ kept'[t] = << >>
  BY DEF Types, GcReturn
<1>2. \A o \in Objects : Pending(t, o)' = Pending(t, o)
  <2> TAKE o \in Objects
  <2>1. Occ(o, kept[t]) \in Nat
    BY OccType DEF Types
  <2>2. Occ(o, << >>) = 0
    BY OccEmpty
  <2>3. One(checked[t] = o) \in 0 .. 1 /\ One(InSeq(<<"retire", o>>, todo[t])) \in 0 .. 1
    BY OneNat
  <2> QED BY <1>1, <2>1, <2>2, <2>3 DEF Pending
<1> QED BY <1>1, <1>2, GcMoves

LEMMA ScanAccounts ==
  ASSUME Types, Types', Control, Counts, NEW t \in Threads, Scan(t), ptrVars' = ptrVars
  PROVE  Accounts(t)
<1> DEFINE p == checked[t]
<1>1. p \in Objects
  BY DEF Types, Scan, Control, InGc, Pointers
<1>2. pc[t] = "scan" /\ pc'[t] # "add" /\ alive' = alive /\ todo' = todo /\ retired_' = retired_
  BY DEF Types, Scan
<1>3. CASE hazard[head_[cursor[t]]] = p
  <2>1. checked'[t] = NULL /\ kept'[t] = Append(kept[t], p)
    BY <1>3 DEF Types, Scan
  <2>2. \A o \in Objects : Pending(t, o)' = Pending(t, o)
    <3> TAKE o \in Objects
    <3>1. kept[t] \in Seq(Objects) /\ retired_[t] \in Seq(Objects)
      BY DEF Types
    <3> HIDE DEF p
    <3>2. Occ(o, Append(kept[t], p)) = Occ(o, kept[t]) + One(p = o)
      BY <1>1, <3>1, OccAppend
    <3>3. Occ(o, kept[t]) \in Nat /\ Occ(o, retired_[t]) \in Nat
      BY <3>1, OccType
    <3>4. One(checked'[t] = o) = 0
      BY <2>1, HazardAssumption DEF One
    <3>5. One(p = o) \in 0 .. 1 /\ One(InSeq(<<"retire", o>>, todo[t])) \in 0 .. 1
      BY OneNat
    <3>6. One(checked[t] = o) = One(p = o)
      BY DEF p
    <3>7. Occ(o, kept'[t]) = Occ(o, kept[t]) + One(p = o)
      BY <2>1, <3>2
    <3>8. retired_'[t] = retired_[t] /\ todo'[t] = todo[t]
      BY <1>2
    <3> QED BY <3>3, <3>4, <3>5, <3>6, <3>7, <3>8 DEF Pending
  <2> QED BY <1>2, <2>2, GcMoves
<1>4. CASE hazard[head_[cursor[t]]] # p
  <2>1. checked' = checked /\ kept' = kept
    BY <1>4 DEF Scan
  <2>2. \A o \in Objects : Pending(t, o)' = Pending(t, o)
    BY <1>2, <2>1 DEF Pending
  <2> QED BY <1>2, <2>2, GcMoves
<1> QED BY <1>3, <1>4

\* ... or is destroyed, and is then nowhere.
LEMMA DestroyAccounts ==
  ASSUME Types, Types', Control, Counts, NEW t \in Threads, Destroy(t), ptrVars' = ptrVars
  PROVE  Accounts(t)
<1> DEFINE p == checked[t]
<1>1. p \in Objects
  BY DEF Types, Destroy, Control, InGc, Pointers
<1>2. /\ pc[t] = "scan" /\ pc'[t] = "gc" /\ alive' = alive \ {p} /\ todo' = todo
      /\ retired_' = retired_ /\ kept' = kept /\ checked'[t] = NULL
  BY DEF Types, Destroy
<1>3. \A o \in Objects : Pending(t, o) = Pending(t, o)' + One(o = p)
  <2> TAKE o \in Objects
  <2>1. Occ(o, kept[t]) \in Nat /\ Occ(o, retired_[t]) \in Nat
    BY OccType DEF Types
  <2>2. One(checked'[t] = o) = 0 /\ One(checked[t] = o) = One(o = p)
    BY <1>2, HazardAssumption DEF One
  <2>3. One(InSeq(<<"retire", o>>, todo[t])) \in 0 .. 1 /\ One(o = p) \in 0 .. 1
    BY OneNat
  <2> QED BY <1>2, <2>1, <2>2, <2>3 DEF Pending
<1>4. Doomed(p)
  <2>1. Placed(p) /\ retired_[t] \in Seq(Objects) /\ kept[t] \in Seq(Objects)
    BY <1>1 DEF Counts, CountOK, Types
  <2>2. Pending(t, p) >= 1
    <3>1. One(p = p) = 1
      BY DEF One
    <3> QED BY <1>1, <1>3, <3>1, Numbers
  <2> QED BY <2>1, <2>2, PlaceBound
<1> HIDE DEF p
<1>5. RefsMove(t)
  BY <1>2, GcRefs
<1>6. PlacesMove(t)
  <2> SUFFICES ASSUME NEW o \in Objects
               PROVE  One(Doomed(o)') = One(Doomed(o)) + Pending(t, o)' - Pending(t, o)
    BY DEF PlacesMove
  <2>1. One(Doomed(o)') = One(Doomed(o)) - One(o = p)
    BY <1>2, <1>4 DEF Doomed, One
  <2> QED BY <1>3, <2>1, Numbers, OneNat
<1>7. DeadIsFree
  BY <1>2, <1>4 DEF Doomed, DeadIsFree, Counts, CountOK
<1> QED BY <1>5, <1>6, <1>7 DEF Accounts

-----------------------------------------------------------------------------
(* What a thread uses is not destroyed.                                    *)

LEMMA HeadIndex == ASSUME Types PROVE Len(head_) \in Nat /\ DOMAIN head_ = 1 .. Len(head_)
BY LenProperties DEF Types

LEMMA CheckedIsDoomed ==
  ASSUME Types, Counts, NEW g \in Threads, NEW o \in Objects, checked[g] = o
  PROVE  Doomed(o)
<1>1. Placed(o) /\ retired_[g] \in Seq(Objects) /\ kept[g] \in Seq(Objects)
  BY DEF Counts, CountOK, Types
<1>2. Occ(o, kept[g]) \in Nat /\ Occ(o, retired_[g]) \in Nat
  BY <1>1, OccType
<1>3. One(checked[g] = o) = 1 /\ One(InSeq(<<"retire", o>>, todo[g])) \in 0 .. 1
  BY OneNat DEF One
<1>4. Pending(g, o) > 0
  BY <1>2, <1>3 DEF Pending
<1> QED BY <1>1, <1>4, PlaceBound

\* Other threads go on using what they used, and a scan of another has the same to meet.
LEMMA UsesOfOthers ==
  ASSUME NEW t \in Threads, StepOf(t), NEW u \in Threads \ {t}, NEW o
  PROVE  Uses(u, o)' <=> Uses(u, o)
BY DEF StepOf, Untouched, Uses

LEMMA MeetsStill ==
  ASSUME HeadGrows, NEW g, NEW u, WillMeet(g, u), cursor'[g] = cursor[g], seen'[g] = seen[g]
  PROVE  WillMeet(g, u)'
BY DEF WillMeet, HeadGrows

LEMMA ScansOfOthers ==
  ASSUME NEW t \in Threads, StepOf(t), HeadGrows, NEW g \in Threads \ {t}, NEW o, NEW u \in Threads,
         Scans(g, o)', UseIsSafe(u, o)
  PROVE  WillMeet(g, u)'
<1>1. Scans(g, o) /\ cursor'[g] = cursor[g] /\ seen'[g] = seen[g]
  BY DEF StepOf, Untouched, Scans
<1> QED BY <1>1, MeetsStill DEF UseIsSafe

\* A step that begins no use, no round of a scan, and destroys nothing.
Harmless(t) ==
  /\ alive \subseteq alive'
  /\ \A o \in Objects : Uses(t, o)' => Uses(t, o)
  /\ \A o \in Objects : Scans(t, o)' => Scans(t, o) /\ cursor'[t] = cursor[t] /\ seen'[t] = seen[t]

LEMMA HarmlessSafe ==
  ASSUME Safe, NEW t \in Threads, StepOf(t), HeadGrows, Harmless(t)
  PROVE  Safe'
<1> SUFFICES ASSUME NEW u \in Threads, NEW o \in Objects, Uses(u, o)'
             PROVE  UseIsSafe(u, o)'
  BY DEF Safe
<1>1. Uses(u, o)
  BY UsesOfOthers DEF Harmless
<1>2. UseIsSafe(u, o)
  BY <1>1 DEF Safe
<1>3. o \in alive'
  BY <1>2 DEF UseIsSafe, Harmless
<1>4. ASSUME NEW g \in Threads, Scans(g, o)' PROVE WillMeet(g, u)'
  <2>1. CASE g = t
    <3>1. Scans(t, o) /\ cursor'[t] = cursor[t] /\ seen'[t] = seen[t]
      BY <1>4, <2>1 DEF Harmless
    <3> QED BY <1>2, <2>1, <3>1, MeetsStill DEF UseIsSafe
  <2>2. CASE g # t
    BY <1>2, <1>4, <2>2, ScansOfOthers
  <2> QED BY <2>1, <2>2
<1> QED BY <1>3, <1>4 DEF UseIsSafe

\* What has been validated has a reference, so that Gc is not looking for its users.
LEMMA ValidateSafe ==
  ASSUME Types, Control, Counts, Safe, NEW t \in Threads, StepOf(t), HeadGrows, Validate(t)
  PROVE  Safe'
<1>1. CASE ss_ # ptr[t] \/ ss_ = NULL
  <2>1. Harmless(t)
    <3>1. alive' = alive /\ cursor' = cursor /\ seen' = seen
      BY DEF Validate
    <3>2. \A o \in Objects : ~Uses(t, o)'
      <4>1. ss_ # ptr[t] => pc'[t] = "load"
        BY DEF Validate, Types
      <4> QED BY <1>1, <4>1, HazardAssumption DEF Uses, Validate
    <3>3. pc'[t] # "scan"
      <4>1. ThreadOK(t)
        BY DEF Control, ThreadOK
      <4>2. ValidateEnds(t) \/ ValidateGoesOn(t)
        BY <4>1, ValidateCases
      <4> QED BY <4>2 DEF ValidateEnds, ValidateGoesOn, Ends, Types
    <3> QED BY <3>1, <3>2, <3>3 DEF Harmless, Scans
  <2> QED BY <2>1, HarmlessSafe
<1>2. CASE ss_ = ptr[t] /\ ss_ # NULL
  <2>1. ss_ \in Objects
    BY <1>2 DEF Types, Pointers
  <2>2. counter_[ss_] >= 1 /\ ss_ \in alive
    BY <2>1, RefsCount
  <2>3. alive' = alive /\ checked' = checked /\ ptr' = ptr /\ pc'[t] # "scan"
    <3>1. ThreadOK(t)
      BY DEF Control, ThreadOK
    <3>2. ValidateEnds(t) \/ ValidateGoesOn(t)
      BY <3>1, ValidateCases
    <3> QED BY <3>2 DEF ValidateEnds, ValidateGoesOn, Ends, Types, Validate
  <2> SUFFICES ASSUME NEW u \in Threads, NEW o \in Objects, Uses(u, o)'
               PROVE  UseIsSafe(u, o)'
    BY DEF Safe
  <2>4. CASE u = t
    <3>1. o = ss_
      BY <1>2, <2>3, <2>4 DEF Uses
    <3>2. ASSUME NEW g \in Threads, Scans(g, o)' PROVE FALSE
      <4>1. checked[g] = o
        BY <2>3, <3>2 DEF Scans
      <4>2. Doomed(o)
        BY <4>1, CheckedIsDoomed
      <4> QED BY <2>2, <3>1, <4>2 DEF Doomed
    <3> QED BY <2>2, <2>3, <3>1, <3>2 DEF UseIsSafe
  <2>5. CASE u # t
    <3>1. Uses(u, o)
      BY <2>5, UsesOfOthers
    <3>2. UseIsSafe(u, o)
      BY <3>1 DEF Safe
    <3>3. ASSUME NEW g \in Threads, Scans(g, o)' PROVE WillMeet(g, u)'
      <4>1. g # t
        BY <2>3, <3>3 DEF Scans
      <4> QED BY <3>2, <3>3, <4>1, ScansOfOthers
    <3> QED BY <2>3, <3>2, <3>3 DEF UseIsSafe
  <2> QED BY <2>4, <2>5
<1> QED BY <1>1, <1>2

\* A scan begins with every mutator that is linked, and who uses an object has one.
LEMMA LoadHeadSafe ==
  ASSUME Types, Control, Safe, NEW t \in Threads, StepOf(t), HeadGrows,
         LoadHead(t), alive' = alive, head_' = head_
  PROVE  Safe'
<1> SUFFICES ASSUME NEW u \in Threads, NEW o \in Objects, Uses(u, o)'
             PROVE  UseIsSafe(u, o)'
  BY DEF Safe
<1>1. pc'[t] = "scan" /\ cursor'[t] = Len(head_)
  BY DEF LoadHead, Types
<1>2. u # t
  BY <1>1 DEF Uses
<1>3. Uses(u, o)
  BY <1>2, UsesOfOthers
<1>4. UseIsSafe(u, o) /\ Linked(u)
  BY <1>3 DEF Safe, Uses, Control, Announces
<1>5. ASSUME NEW g \in Threads, Scans(g, o)' PROVE WillMeet(g, u)'
  <2>1. CASE g = t
    <3>1. PICK i \in DOMAIN head_ : head_[i] = u
      BY <1>4
    <3>2. i <= Len(head_)
      BY <3>1, HeadIndex
    <3> QED BY <1>1, <2>1, <3>1, <3>2 DEF WillMeet
  <2>2. CASE g # t
    BY <1>4, <1>5, <2>2, ScansOfOthers
  <2> QED BY <2>1, <2>2
<1> QED BY <1>4, <1>5 DEF UseIsSafe

\* A scan that passes a mutator has seen that it does not protect the object.
LEMMA ScanSafe ==
  ASSUME Types, Control, Safe, NEW t \in Threads, StepOf(t), HeadGrows, Scan(t), ptrVars' = ptrVars
  PROVE  Safe'
<1>1. CASE hazard[head_[cursor[t]]] = checked[t]
  <2>1. alive' = alive /\ pc'[t] = "gc"
    BY <1>1 DEF Scan, Types
  <2>2. Harmless(t)
    BY <2>1 DEF Harmless, Uses, Scans
  <2> QED BY <2>2, HarmlessSafe
<1>2. CASE hazard[head_[cursor[t]]] # checked[t]
  <2>1. /\ alive' = alive /\ pc' = pc /\ checked' = checked /\ seen' = seen /\ head_' = head_
        /\ pc[t] = "scan" /\ cursor'[t] = cursor[t] - 1 /\ cursor[t] \in Nat
    BY <1>2 DEF Scan, Types
  <2> SUFFICES ASSUME NEW u \in Threads, NEW o \in Objects, Uses(u, o)'
               PROVE  UseIsSafe(u, o)'
    BY DEF Safe
  <2>2. Uses(u, o)
    BY <2>1 DEF Uses
  <2>3. UseIsSafe(u, o) /\ hazard[u] = o
    BY <2>2 DEF Safe, Uses, Control, Announces
  <2>4. ASSUME NEW g \in Threads, Scans(g, o)' PROVE WillMeet(g, u)'
    <3>1. CASE g = t
      <4>1. WillMeet(t, u) /\ checked[t] = o
        BY <2>1, <2>3, <2>4, <3>1 DEF UseIsSafe, Scans
      <4>2. PICK i \in DOMAIN head_ : head_[i] = u /\ (i <= cursor[t] \/ i > seen[t])
        BY <4>1 DEF WillMeet
      <4>3. i # cursor[t]
        BY <1>2, <2>3, <4>1, <4>2
      <4>4. i \in Nat
        BY <4>2, HeadIndex
      <4>5. i <= cursor'[t] \/ i > seen'[t]
        BY <2>1, <4>2, <4>3, <4>4
      <4> QED BY <2>1, <3>1, <4>2, <4>5 DEF WillMeet
    <3>2. CASE g # t
      BY <2>3, <2>4, <3>2, ScansOfOthers
    <3> QED BY <3>1, <3>2
  <2> QED BY <2>1, <2>3, <2>4 DEF UseIsSafe
<1> QED BY <1>1, <1>2

\* Nobody uses the object that a complete scan has not found protected.
LEMMA NobodyUses ==
  ASSUME Types, Control, Safe, NEW t \in Threads, Destroy(t), NEW u \in Threads
  PROVE  ~Uses(u, checked[t])
<1> SUFFICES ASSUME Uses(u, checked[t]) PROVE FALSE
  OBVIOUS
<1>1. checked[t] \in Objects
  BY DEF Types, Control, InGc, Destroy, Pointers
<1>2. WillMeet(t, u)
  BY <1>1 DEF Safe, UseIsSafe, Scans, Destroy
<1>3. PICK i \in DOMAIN head_ : i <= cursor[t] \/ i > seen[t]
  BY <1>2 DEF WillMeet
<1>4. i \in 1 .. Len(head_) /\ Len(head_) \in Nat
  BY <1>3, HeadIndex
<1> QED BY <1>3, <1>4 DEF Destroy

LEMMA DestroySafe ==
  ASSUME Types, Control, Safe, NEW t \in Threads, StepOf(t), HeadGrows, Destroy(t), ptrVars' = ptrVars
  PROVE  Safe'
<1> SUFFICES ASSUME NEW u \in Threads, NEW o \in Objects, Uses(u, o)'
             PROVE  UseIsSafe(u, o)'
  BY DEF Safe
<1>1. pc'[t] = "gc" /\ alive' = alive \ {checked[t]}
  BY DEF Destroy, Types
<1>2. u # t
  BY <1>1 DEF Uses
<1>3. Uses(u, o)
  BY <1>2, UsesOfOthers
<1>4. UseIsSafe(u, o) /\ o # checked[t]
  BY <1>3, NobodyUses DEF Safe
<1>5. ASSUME NEW g \in Threads, Scans(g, o)' PROVE WillMeet(g, u)'
  <2>1. g # t
    BY <1>1, <1>5 DEF Scans
  <2> QED BY <1>4, <1>5, <2>1, ScansOfOthers
<1> QED BY <1>1, <1>4, <1>5 DEF UseIsSafe

\* The steps that neither begin a use nor a round of a scan, and destroy nothing.
HarmlessStep(t) ==
  \/ Load(t) \/ Store(t) \/ CompareExchangeWeak(t) \/ Reset(t)
  \/ AddRef(t) \/ Exchange(t) \/ EnterMutator(t) \/ LoadPtr(t) \/ Protect(t)
  \/ Count(t) \/ TryAddRef(t) \/ TryAddRefFails(t) \/ Retry(t) \/ Swap(t) \/ SwapFails(t)
  \/ UnlinkStep(t) \/ RetireMutator(t) \/ RetireStep(t) \/ ResetStep(t) \/ Return(t)
  \/ (GcReturn(t, "finish") \/ Grown(t)) /\ ptrVars' = ptrVars

LEMMA HarmlessSteps ==
  ASSUME Types, NEW t \in Threads, HarmlessStep(t)
  PROVE  Harmless(t)
<1> USE DEF Harmless, Uses, Scans
<1>1. CASE Load(t)
  BY <1>1 DEF Types, Load, Calls, Enter
<1>2. CASE Store(t) \/ CompareExchangeWeak(t)
  <2>1. alive \subseteq alive'
    BY <1>2 DEF Store, CompareExchangeWeak, WithNew, WithEmpty, WithCopy
  <2>2. pc'[t] \in {"add", "exchange", "enter", "load"}
    BY <1>2 DEF Types, Store, CompareExchangeWeak, WithNew, WithEmpty, WithCopy, Calls, Enter
  <2> QED BY <2>1, <2>2
<1>3. CASE Reset(t)
  BY <1>3 DEF Types, Reset, Ends
<1>4. CASE AddRef(t)
  BY <1>4 DEF Types, AddRef, Enter
<1>5. CASE Exchange(t)
  BY <1>5 DEF Types, Exchange, Ends
<1>6. CASE EnterMutator(t)
  BY <1>6 DEF Types, EnterMutator, NewMutator, Link, LinkFails
<1>7. CASE LoadPtr(t)
  BY <1>7 DEF Types, LoadPtr
<1>8. CASE Protect(t)
  BY <1>8 DEF Types, Protect, SetHazard
<1>9. CASE Count(t)
  BY <1>9 DEF Types, Count, ToCount
<1>10. CASE TryAddRef(t)
  BY <1>10 DEF Types, TryAddRef, Ends
<1>11. CASE TryAddRefFails(t)
  BY <1>11 DEF Types, TryAddRefFails, ToCount
<1>12. CASE Retry(t)
  BY <1>12 DEF Types, Retry, SetHazard
<1>13. CASE Swap(t)
  BY <1>13 DEF Types, Swap, Ends
<1>14. CASE SwapFails(t)
  BY <1>14 DEF Types, SwapFails
<1>15. CASE UnlinkStep(t)
  BY <1>15 DEF Types, UnlinkStep
<1>16. CASE RetireMutator(t)
  BY <1>16 DEF Types, RetireMutator, NewMutator, Link, LinkFails
<1>17. CASE RetireStep(t)
  BY <1>17 DEF Types, RetireStep, Retire
<1>18. CASE ResetStep(t)
  BY <1>18 DEF Types, ResetStep, SetHazard
<1>19. CASE Return(t)
  BY <1>19 DEF Types, Return
<1>20. CASE (GcReturn(t, "finish") \/ Grown(t)) /\ ptrVars' = ptrVars
  BY <1>20 DEF Types, GcReturn, Grown
<1> QED BY <1>1, <1>2, <1>3, <1>4, <1>5, <1>6, <1>7, <1>8, <1>9, <1>10, <1>11, <1>12, <1>13, <1>14,
           <1>15, <1>16, <1>17, <1>18, <1>19, <1>20 DEF HarmlessStep

-----------------------------------------------------------------------------
(* Every step of a thread keeps the invariant.                             *)

ThreadStep(t) == Load(t) \/ Store(t) \/ CompareExchangeWeak(t) \/ Reset(t) \/ Step(t)

LEMMA CallEffect ==
  ASSUME Types, Control, NEW t \in Threads, Store(t) \/ CompareExchangeWeak(t)
  PROVE  Effect(t)
BY WithNewEffect, WithEmptyStoreEffect, WithEmptyCasEffect, WithCopyEffect DEF Store, CompareExchangeWeak

LEMMA GcEffect ==
  ASSUME Types, Control, NEW t \in Threads, Gc(t)
  PROVE  Effect(t)
BY GcNextEffect, GcReturnEffect, ScanEffect, DestroyEffect, GrownEffect, RescanEffect DEF Gc, Collect

LEMMA ThreadEffect ==
  ASSUME Types, Control, Counts, NEW t \in Threads, ThreadStep(t)
  PROVE  Effect(t)
BY LoadEffect, CallEffect, ResetEffect, AddRefEffect, ExchangeEffect, EnterMutatorEffect, LoadPtrEffect,
   ProtectEffect, ValidateEffect, CountEffect, TryAddRefEffect, TryAddRefFailsEffect, RetryEffect,
   SwapEffect, SwapFailsEffect, UnlinkStepEffect, RetireMutatorEffect, RetireStepEffect, GcEffect,
   ResetStepEffect, ReturnEffect DEF ThreadStep, Step

LEMMA GcAccounts ==
  ASSUME Types, Types', Control, Counts, NEW t \in Threads, Gc(t)
  PROVE  Accounts(t)
<1>1. ptrVars' = ptrVars /\ ThreadOK(t)
  BY DEF Gc, Control, ThreadOK
<1>2. CASE Grown(t) \/ Rescan(t)
  BY <1>1, <1>2, QuietSteps, QuietAccounts DEF QuietStep
<1> QED BY <1>1, <1>2, GcNextAccounts, GcReturnAccounts, ScanAccounts, DestroyAccounts DEF Gc, Collect

LEMMA ThreadAccounts ==
  ASSUME Types, Types', Control, Counts, NEW t \in Threads, ThreadStep(t)
  PROVE  Accounts(t)
<1>1. ThreadOK(t)
  BY DEF Control, ThreadOK
<1>2. CASE QuietStep(t)
  BY <1>1, <1>2, QuietSteps, QuietAccounts
<1>3. CASE Validate(t)
  BY <1>1, <1>2, <1>3, ValidateCases, ValidateEndsAccounts DEF QuietStep
<1>4. CASE Store(t) \/ CompareExchangeWeak(t)
  BY <1>2, <1>4, WithNewAccounts, WithCopyAccounts DEF Store, CompareExchangeWeak, QuietStep
<1>5. CASE Reset(t) \/ AddRef(t) \/ Exchange(t) \/ TryAddRef(t) \/ Swap(t)
  BY <1>5, ResetAccounts, AddRefAccounts, ExchangeAccounts, TryAddRefAccounts, SwapAccounts
<1>6. CASE UnlinkStep(t) \/ RetireStep(t) \/ ResetStep(t) \/ Gc(t)
  BY <1>6, UnlinkStepAccounts, RetireStepAccounts, ResetStepAccounts, GcAccounts
<1>7. \/ QuietStep(t) \/ Validate(t) \/ Store(t) \/ CompareExchangeWeak(t)
      \/ Reset(t) \/ AddRef(t) \/ Exchange(t) \/ TryAddRef(t) \/ Swap(t)
      \/ UnlinkStep(t) \/ RetireStep(t) \/ ResetStep(t) \/ Gc(t)
  BY DEF ThreadStep, Step, QuietStep
<1> QED BY <1>2, <1>3, <1>4, <1>5, <1>6, <1>7

LEMMA GcSafe ==
  ASSUME Types, Control, Safe, NEW t \in Threads, StepOf(t), HeadGrows, Gc(t)
  PROVE  Safe'
<1>1. ptrVars' = ptrVars
  BY DEF Gc
<1>2. CASE GcReturn(t, "finish") \/ Grown(t)
  BY <1>1, <1>2, HarmlessSteps, HarmlessSafe DEF HarmlessStep
<1>3. CASE GcNext(t) \/ Rescan(t)
  BY <1>3, LoadHeadSafe DEF GcNext, Rescan
<1> QED BY <1>1, <1>2, <1>3, ScanSafe, DestroySafe DEF Gc, Collect

LEMMA ThreadSafe ==
  ASSUME Types, Control, Counts, Safe, NEW t \in Threads, StepOf(t), HeadGrows, ThreadStep(t)
  PROVE  Safe'
<1>1. CASE HarmlessStep(t)
  BY <1>1, HarmlessSteps, HarmlessSafe
<1>2. CASE Gc(t) \/ Validate(t)
  BY <1>2, GcSafe, ValidateSafe
<1> QED BY <1>1, <1>2 DEF ThreadStep, Step, HarmlessStep

\* When the destructors have run, no thread can do anything.
LEMMA ThreadNotClosed ==
  ASSUME ClosedOK, NEW t \in Threads, ThreadStep(t)
  PROVE  ~closed /\ closed' = closed
<1>1. CASE Load(t) \/ Store(t) \/ CompareExchangeWeak(t)
  BY <1>1 DEF Load, Store, CompareExchangeWeak, WithNew, WithEmpty, WithCopy, Calls
<1>2. CASE Reset(t)
  BY <1>2 DEF ClosedOK, Reset
<1>3. CASE Gc(t)
  BY <1>3 DEF ClosedOK, Gc, Collect, GcNext, GcReturn, Scan, Destroy, Grown, Rescan
<1>4. CASE EnterMutator(t) \/ RetireMutator(t)
  BY <1>4 DEF ClosedOK, EnterMutator, RetireMutator, NewMutator, Link, LinkFails
<1>5. CASE Step(t) /\ ~(Gc(t) \/ EnterMutator(t) \/ RetireMutator(t))
  BY <1>5 DEF ClosedOK, Step, AddRef, Exchange, LoadPtr, Protect, Validate, Count, TryAddRef, TryAddRefFails,
              Retry, Swap, SwapFails, UnlinkStep, RetireStep, ResetStep, Return
<1> QED BY <1>1, <1>2, <1>3, <1>4, <1>5 DEF ThreadStep

LEMMA ThreadKeeps ==
  ASSUME Inv, NEW t \in Threads, ThreadStep(t)
  PROVE  Inv'
<1>1. Types /\ Control /\ Counts /\ Safe /\ ClosedOK
  BY DEF Inv
<1>2. Types' /\ StepOf(t) /\ HeadGrows /\ ThreadOK(t)'
  BY <1>1, ThreadEffect DEF Effect
<1>3. Control'
  BY <1>1, <1>2, ControlStep
<1>4. Counts'
  BY <1>1, <1>2, ThreadAccounts, CountsStep
<1>5. Safe'
  BY <1>1, <1>2, ThreadSafe
<1>6. ClosedOK'
  BY <1>1, ThreadNotClosed DEF ClosedOK
<1> QED BY <1>2, <1>3, <1>4, <1>5, <1>6 DEF Inv

-----------------------------------------------------------------------------
(* The destructors.                                                        *)

AllIdle == \A u \in Threads : pc[u] = "idle" /\ mine[u] = NULL

\* When all threads are idle, only the cell has references ...
LEMMA IdleHolders ==
  ASSUME Types, Control, AllIdle, NEW o \in Objects
  PROVE  /\ Holders(o) = When(ss_ = o, <<"cell", 0>>)
         /\ Cardinality(Holders(o)) = One(ss_ = o)
<1>1. \A u \in Threads : mine[u] # o /\ arg[u] # o /\ todo[u] = << >>
  BY HazardAssumption DEF AllIdle, Control, InCall, ToDo
<1>2. DOMAIN << >> = {}
  OBVIOUS
<1>3. \A u \in Threads : \A r : ~RefOf(u, o, r)
  BY <1>1, <1>2 DEF RefOf
<1>4. \A r : r \in Holders(o) <=> CellRef(o, r)
  BY <1>3, HoldersAre DEF Named
<1>5. \A r : r \in When(ss_ = o, <<"cell", 0>>) <=> CellRef(o, r)
  BY DEF When, CellRef
<1>6. Holders(o) = When(ss_ = o, <<"cell", 0>>)
  BY <1>4, <1>5
<1>7. (ss_ = o) \in BOOLEAN
  OBVIOUS
<1> QED BY <1>6, <1>7, WhenCard

\* ... and objects wait only in the lists of retired ones.
LEMMA IdlePlaces ==
  ASSUME Types, Control, AllIdle, NEW o \in Objects, NEW r
  PROVE  r \in Places(o) => \E u \in Threads : InSeq(o, retired_[u])
<1>1. \A u \in Threads : checked[u] # o /\ kept[u] = << >> /\ todo[u] = << >>
  BY HazardAssumption DEF AllIdle, Control, InGc, ToDo
<1>2. DOMAIN << >> = {}
  OBVIOUS
<1>3. \A u \in Threads : PlaceOf(u, o, r) => InSeq(o, retired_[u])
  BY <1>1, <1>2 DEF PlaceOf, InSeq
<1> QED BY <1>3, PlacesAre DEF PlacesNamed

LEMMA CloseFacts ==
  ASSUME Inv, Close
  PROVE  /\ AllIdle /\ AllIdle'
         /\ alive' = {}
         /\ \A o \in Objects : counter_[o] = One(ss_ = o) /\ counter_'[o] = 0
         /\ counter_' \in [Objects -> Nat]
<1>1. Types /\ Control /\ Counts /\ AllIdle
  BY DEF Inv, Close, AllIdle
<1>2. AllIdle'
  BY <1>1 DEF AllIdle, Close
<1>3. \A o \in Objects : counter_[o] = One(ss_ = o)
  BY <1>1, IdleHolders DEF Counts, CountOK, Exact
<1>4. \A o \in Objects : counter_'[o] = 0
  <2> TAKE o \in Objects
  <2>1. CASE ss_ = o
    <3>1. counter_' = Set(counter_, o, counter_[o] - 1)
      BY <2>1, HazardAssumption DEF Close
    <3> QED BY <1>1, <1>3, <2>1, <3>1 DEF Types, One
  <2>2. CASE ss_ # o
    <3>1. counter_'[o] = counter_[o]
      BY <1>1, <2>2 DEF Close, Types
    <3> QED BY <1>3, <2>2, <3>1 DEF One
  <2> QED BY <2>1, <2>2
<1>5. counter_' \in [Objects -> Nat]
  <2>1. CASE ss_ = NULL
    BY <1>1, <2>1 DEF Close, Types
  <2>2. CASE ss_ # NULL
    <3>1. ss_ \in Objects
      BY <1>1, <2>2 DEF Types, Pointers
    <3>2. counter_[ss_] - 1 \in Nat
      BY <1>3, <3>1 DEF One
    <3> QED BY <1>1, <2>2, <3>1, <3>2 DEF Close, Types
  <2> QED BY <2>1, <2>2
<1>6. alive' = {}
  <2> SUFFICES ASSUME NEW o \in alive PROVE o \notin alive'
    BY DEF Close
  <2>1. o \in Objects
    BY <1>1 DEF Types
  <2>2. CASE ss_ = o
    <3>1. counter_[o] = 1
      BY <1>3, <2>1, <2>2 DEF One
    <3> QED BY <2>1, <2>2, <3>1 DEF Close
  <2>3. CASE ss_ # o
    <3>1. Doomed(o)
      BY <1>3, <2>1, <2>3 DEF Doomed, One
    <3>2. Cardinality(Places(o)) = 1 /\ IsFiniteSet(Places(o))
      BY <1>1, <2>1, <3>1 DEF Counts, CountOK, Placed, One
    <3>3. PICK r : r \in Places(o)
      BY <3>2, FS_EmptySet
    <3>4. PICK u \in Threads : InSeq(o, retired_[u])
      BY <1>1, <2>1, <3>3, IdlePlaces
    <3> QED BY <2>1, <3>4 DEF Close
  <2> QED BY <2>2, <2>3
<1> QED BY <1>1, <1>2, <1>3, <1>4, <1>5, <1>6

\* Without references, and without objects that wait to be destroyed.
NoRefs == ss_ = NULL /\ \A u \in Threads : mine[u] = NULL /\ arg[u] = NULL /\ todo[u] = << >>
NoPlaces == \A u \in Threads : todo[u] = << >> /\ retired_[u] = << >> /\ kept[u] = << >> /\ checked[u] = NULL
Bare == NoRefs /\ NoPlaces /\ alive = {} /\ \A o \in Objects : counter_[o] = 0

LEMMA BareCounts == Bare => Counts
<1> SUFFICES ASSUME Bare, NEW o \in Objects PROVE CountOK(o)
  BY DEF Counts
<1>1. DOMAIN << >> = {}
  OBVIOUS
<1>2. Holders(o) = {}
  <2>1. \A r : ~CellRef(o, r) /\ \A u \in Threads : ~RefOf(u, o, r)
    BY <1>1, HazardAssumption DEF Bare, NoRefs, RefOf, CellRef
  <2>2. \A r : r \notin Holders(o)
    BY <2>1, HoldersAre DEF Named
  <2> QED BY <2>2
<1>3. Places(o) = {}
  <2>1. \A r : \A u \in Threads : ~PlaceOf(u, o, r)
    BY <1>1, HazardAssumption DEF Bare, NoPlaces, PlaceOf, InSeq
  <2>2. \A r : r \notin Places(o)
    BY <2>1, PlacesAre DEF PlacesNamed
  <2> QED BY <2>2
<1>4. counter_[o] = 0 /\ ~Doomed(o)
  BY DEF Bare, Doomed
<1> QED BY <1>2, <1>3, <1>4, FS_EmptySet DEF CountOK, Exact, Placed, One

LEMMA BareCountsNext == (Bare => Counts)'
BY BareCounts, PTL

LEMMA CloseKeeps ==
  ASSUME Inv, Close
  PROVE  Inv'
<1>1. Types /\ Control
  BY DEF Inv
<1>2. /\ AllIdle /\ AllIdle' /\ alive' = {}
      /\ \A o \in Objects : counter_'[o] = 0
      /\ counter_' \in [Objects -> Nat]
  BY CloseFacts
<1>3. /\ ss_' = NULL /\ closed' = TRUE
      /\ UNCHANGED <<pc, head_, hazard, kept, checked, seen, cursor>>
      /\ UNCHANGED <<op, mine, arg, ptr, old, calls, todo>>
      /\ retired_' = [t \in Threads |-> << >>]
  BY DEF Close
<1>4. Types'
  <2>1. << >> \in Seq(Objects)
    OBVIOUS
  <2> QED BY <1>1, <1>2, <1>3, <2>1 DEF Types, Pointers
<1>5. Control'
  BY <1>1, <1>3 DEF Control, InCall, ToDo, InGc, Announces, NoRetire
<1>6. Counts'
  <2>1. NoRefs' /\ NoPlaces'
    BY <1>1, <1>2, <1>3 DEF NoRefs, NoPlaces, AllIdle, Control, InCall, ToDo, InGc
  <2>2. Bare'
    BY <1>2, <2>1 DEF Bare
  <2> QED BY <2>2, BareCountsNext
<1>7. Safe'
  BY <1>2 DEF Safe, AllIdle, Uses
<1>8. ClosedOK'
  BY <1>2 DEF ClosedOK, AllIdle
<1> QED BY <1>4, <1>5, <1>6, <1>7, <1>8 DEF Inv

LEMMA StutterKeeps ==
  ASSUME Inv, vars' = vars
  PROVE  Inv'
<1>1. UNCHANGED <<pc, alive, head_, hazard, retired_, kept, checked, seen, cursor>>
  BY DEF vars, hazardVars
<1>2. UNCHANGED <<ss_, counter_, op, mine, arg, ptr, old, todo, calls, closed>>
  BY DEF vars
<1>3. Types'
  BY <1>1, <1>2 DEF Inv, Types
<1>4. Control'
  BY <1>1, <1>2 DEF Inv, Control, InCall, ToDo, InGc, Announces, NoRetire
<1>5. ASSUME NEW o \in Objects PROVE CountOK(o)'
  <2>1. Holders(o)' = Holders(o)
    <3>1. \A r : (CellRef(o, r)' <=> CellRef(o, r)) /\ \A u \in Threads : RefOf(u, o, r)' <=> RefOf(u, o, r)
      BY <1>1, <1>2 DEF CellRef, RefOf
    <3>2. \A r : r \in Holders(o) <=> CellRef(o, r) \/ \E u \in Threads : RefOf(u, o, r)
      BY HoldersAre DEF Named
    <3>3. \A r : r \in Holders(o)' <=> CellRef(o, r)' \/ \E u \in Threads : RefOf(u, o, r)'
      BY HoldersAreNext DEF Named
    <3>4. \A r : r \in Holders(o)' <=> r \in Holders(o)
      BY <3>1, <3>2, <3>3, Zenon
    <3> QED BY <3>4
  <2>2. Places(o)' = Places(o)
    <3>1. \A r : \A u \in Threads : PlaceOf(u, o, r)' <=> PlaceOf(u, o, r)
      BY <1>1, <1>2 DEF PlaceOf, InSeq
    <3>2. \A r : r \in Places(o) <=> \E u \in Threads : PlaceOf(u, o, r)
      BY PlacesAre DEF PlacesNamed
    <3>3. \A r : r \in Places(o)' <=> \E u \in Threads : PlaceOf(u, o, r)'
      BY PlacesAreNext DEF PlacesNamed
    <3>4. \A r : r \in Places(o)' <=> r \in Places(o)
      BY <3>1, <3>2, <3>3, Zenon
    <3> QED BY <3>4
  <2>3. CountOK(o)
    BY DEF Inv, Counts
  <2> QED BY <1>1, <1>2, <2>1, <2>2, <2>3 DEF CountOK, Exact, Placed, Doomed
<1>6. Safe'
  BY <1>1, <1>2 DEF Inv, Safe, Uses, UseIsSafe, Scans, WillMeet
<1>7. ClosedOK'
  BY <1>1, <1>2 DEF Inv, ClosedOK
<1> QED BY <1>3, <1>4, <1>5, <1>6, <1>7 DEF Inv, Counts

LEMMA InitInv == Init => Inv
<1> SUFFICES ASSUME Init PROVE Inv
  OBVIOUS
<1> USE DEF Init, HazardInit
<1>1. Types
  <2>1. << >> \in Seq(Objects) /\ << >> \in Seq(Items) /\ << >> \in Seq(Threads)
    OBVIOUS
  <2>2. 0 \in Nat /\ NULL \in Pointers /\ "idle" \in Labels
    BY DEF Pointers, Labels
  <2> QED BY <2>1, <2>2 DEF Types
<1>2. Control
  <2>1. DOMAIN << >> = {} /\ Len(<< >>) = 0
    OBVIOUS
  <2>2. NoRetire(<< >>)
    BY EmptyReleases DEF Releases
  <2> SUFFICES ASSUME NEW t \in Threads PROVE InCall(t) /\ ToDo(t) /\ InGc(t) /\ Announces(t)
    BY DEF Control
  <2>3. InCall(t)
    BY DEF InCall, Results
  <2>4. ToDo(t)
    BY <2>2 DEF ToDo
  <2>5. InGc(t)
    BY <2>1 DEF InGc
  <2>6. Announces(t)
    BY DEF Announces
  <2> QED BY <2>3, <2>4, <2>5, <2>6
<1>3. Bare
  BY DEF Bare, NoRefs, NoPlaces
<1>4. Counts
  BY <1>3, BareCounts
<1>5. Safe /\ ClosedOK
  BY DEF Safe, Uses, ClosedOK
<1> QED BY <1>1, <1>2, <1>4, <1>5 DEF Inv

LEMMA NextKeeps == Inv /\ [Next]_vars => Inv'
<1> SUFFICES ASSUME Inv, [Next]_vars PROVE Inv'
  OBVIOUS
<1>1. CASE Close
  BY <1>1, CloseKeeps
<1>2. CASE Terminated \/ UNCHANGED vars
  BY <1>2, StutterKeeps DEF Terminated
<1>3. ASSUME NEW t \in Threads, ThreadStep(t) PROVE Inv'
  BY <1>3, ThreadKeeps
<1> QED BY <1>1, <1>2, <1>3 DEF Next, ThreadStep

\* The inductive invariant holds in every state.
THEOREM SharedPtrAlways == Spec => []Inv
BY InitInv, NextKeeps, PTL DEF Spec

-----------------------------------------------------------------------------
(* What follows from the invariant.                                        *)

LEMMA InvIsTyped == ASSUME Inv PROVE TypeOK
<1>1. Types /\ Control
  BY DEF Inv
<1>2. \A f \in {hazard, checked, mine, arg, ptr} : f \in [Threads -> Pointers]
  BY <1>1 DEF Types
<1>3. ASSUME NEW t \in Threads
      PROVE  /\ Len(head_) >= seen[t] /\ Len(head_) >= cursor[t]
             /\ todo[t] # << >> => pc[t] \in {"finish", "retire_enter", "retire_link", "retire",
                                              "gc", "scan", "rescan"}
  <2>1. InGc(t) /\ ToDo(t)
    BY <1>1 DEF Control
  <2>2. Len(head_) \in Nat /\ seen[t] \in Nat /\ cursor[t] \in Nat
    BY <1>1, HeadIndex DEF Types
  <2>3. Len(head_) >= seen[t] /\ Len(head_) >= cursor[t]
    BY <2>1, <2>2 DEF InGc
  <2>4. todo[t] # << >> => pc[t] \in Finishing
    BY <2>1 DEF ToDo
  <2> QED BY <2>3, <2>4
<1> QED BY <1>1, <1>2, <1>3 DEF TypeOK, Types

LEMMA InvImpliesCounts == ASSUME Inv PROVE CountsInv
<1>1. CountExact
  BY DEF Inv, Types, Counts, CountOK, Exact, CountExact
<1>2. RetiredOnce
  BY DEF Inv, Counts, CountOK, Placed, Doomed, One, RetiredOnce
<1>3. NothingLeaks
  BY DEF Inv, ClosedOK, NothingLeaks
<1> QED BY <1>1, <1>2, <1>3, InvIsTyped DEF CountsInv

\* The life of an object: counter_ is the number of references that exist, an object
\* whose count is 0 is in one place on its way to be destroyed and no other object is in
\* any, and none outlives the collector (Unlink, Retire, Gc, the destructors).
THEOREM CountsAreExact == Spec => []CountsInv
<1>1. Inv => CountsInv
  BY InvImpliesCounts
<1> QED BY <1>1, SharedPtrAlways, PTL

LEMMA ThreadDestroysSafely ==
  ASSUME Inv, NEW t \in Threads, ThreadStep(t), NEW o \in alive \ alive', NEW u \in Threads
  PROVE  ~Uses(u, o) /\ ~Uses(u, o)'
<1>1. Types /\ Control /\ Counts /\ Safe
  BY DEF Inv
<1>2. StepOf(t)
  BY <1>1, ThreadEffect DEF Effect
<1>3. ~HarmlessStep(t)
  BY <1>1, HarmlessSteps DEF Harmless
<1>4. alive' # alive
  OBVIOUS
<1>5. ~Validate(t) /\ ~GcNext(t) /\ ~Scan(t) /\ ~Rescan(t)
  BY <1>4 DEF Validate, GcNext, Scan, Rescan
<1>6. Destroy(t)
  BY <1>3, <1>5 DEF ThreadStep, Step, HarmlessStep, Gc, Collect
<1>7. o = checked[t] /\ pc'[t] = "gc"
  BY <1>1, <1>6 DEF Destroy, Types
<1>8. ~Uses(u, o)
  BY <1>1, <1>6, <1>7, NobodyUses
<1>9. CASE u = t
  BY <1>7, <1>8, <1>9 DEF Uses
<1>10. CASE u # t
  BY <1>2, <1>8, <1>10, UsesOfOthers
<1> QED BY <1>8, <1>9, <1>10

\* No step destroys an object that a thread has protected and is using: Gc has then
\* scanned a list with the mutator of that thread, or starts its scan again.
THEOREM NothingUsedIsDestroyed == Spec => DestroyIsSafe
<1>1. ASSUME Inv, [Next]_vars
      PROVE  [\A o \in alive \ alive' : \A t \in Threads : ~Uses(t, o) /\ ~Uses(t, o)']_vars
  <2> SUFFICES ASSUME Next, NEW o \in alive \ alive', NEW u \in Threads
               PROVE  ~Uses(u, o) /\ ~Uses(u, o)'
    BY <1>1
  <2>1. CASE Close
    BY <1>1, <2>1, CloseFacts DEF AllIdle, Uses
  <2>2. CASE Terminated
    BY <2>2 DEF Terminated, vars, hazardVars
  <2>3. ASSUME NEW t \in Threads, ThreadStep(t) PROVE ~Uses(u, o) /\ ~Uses(u, o)'
    BY <1>1, <2>3, ThreadDestroysSafely
  <2> QED BY <2>1, <2>2, <2>3 DEF Next, ThreadStep
<1> QED BY <1>1, SharedPtrAlways, PTL DEF Spec, DestroyIsSafe

-----------------------------------------------------------------------------
(* Every call takes effect at one instant: AtomicPointer.                  *)

\* Where t is in its call of the abstract pointer, and the reading that it may return.
Does(t) == IF ~Reading(t) THEN op[t] ELSE IF op[t] = "load" THEN "loading" ELSE "failing"
HasRead(t) == IF Reading(t) THEN ptr[t] ELSE NULL
HasReadAll == [t \in Threads |-> IF Reading(t) THEN ptr[t] ELSE NULL]

\* A step of t changes only what t does and has read.
LEMMA MapStep ==
  ASSUME NEW t \in Threads, StepOf(t)
  PROVE  /\ Doing[t] = Does(t) /\ Doing' = [Doing EXCEPT ![t] = Does(t)']
         /\ HasReadAll[t] = HasRead(t) /\ HasReadAll' = [HasReadAll EXCEPT ![t] = HasRead(t)']
         /\ Does(t)' = Does(t) => Doing' = Doing
         /\ HasRead(t)' = HasRead(t) => HasReadAll' = HasReadAll
<1>1. \A u \in Threads \ {t} : Does(u)' = Does(u) /\ HasRead(u)' = HasRead(u)
  BY DEF StepOf, Untouched, Does, HasRead, Reading
<1>2. Doing = [u \in Threads |-> Does(u)] /\ HasReadAll = [u \in Threads |-> HasRead(u)]
  BY DEF Doing, HasReadAll, Does, HasRead
<1>3. Doing' = [u \in Threads |-> Does(u)'] /\ HasReadAll' = [u \in Threads |-> HasRead(u)']
  BY DEF Doing, HasReadAll, Does, HasRead
<1>4. /\ Does(t)' = Does(t) => Doing' = Doing
      /\ HasRead(t)' = HasRead(t) => HasReadAll' = HasReadAll
  BY <1>1, <1>2, <1>3
<1> QED BY <1>1, <1>2, <1>3, <1>4

Moves(t, from, to) == Does(t) = from /\ Does(t)' = to

\* The steps of the abstract pointer, by what they change of t.
LEMMA MapsToCall ==
  ASSUME Types, NEW t \in Threads, StepOf(t), ss_' = ss_, mine' = mine, HasRead(t)' = HasRead(t),
         \/ Moves(t, "none", "load") /\ arg' = arg
         \/ /\ Moves(t, "none", "store") \/ Moves(t, "none", "cas")
            /\ \E p \in Pointers : arg' = Set(arg, t, p)
  PROVE  Atomic!Call(t)
<1>1. UNCHANGED <<ss_, mine, HasReadAll>>
  BY MapStep
<1>2. CASE Moves(t, "none", "load") /\ arg' = arg
  BY <1>1, <1>2, MapStep DEF Moves, HasReadAll, Atomic!Call, Atomic!Goes
<1>3. CASE /\ Moves(t, "none", "store") \/ Moves(t, "none", "cas")
           /\ \E p \in Pointers : arg' = Set(arg, t, p)
  BY <1>1, <1>3, MapStep DEF Moves, HasReadAll, Pointers, Atomic!Call, Atomic!Goes
<1> QED BY <1>2, <1>3

LEMMA MapsToStutter ==
  ASSUME NEW t \in Threads, StepOf(t), ss_' = ss_, mine' = mine, arg' = arg,
         Does(t)' = Does(t), HasRead(t)' = HasRead(t)
  PROVE  UNCHANGED Atomic!vars
<1>1. Doing' = Doing /\ HasReadAll' = HasReadAll
  BY MapStep
<1> QED BY <1>1 DEF HasReadAll, Atomic!vars

\* What t does is its call, unless it may return what it has read.
LEMMA NotReading ==
  ASSUME NEW t, pc[t] \notin {"count", "try_add"}
  PROVE  Does(t) = op[t] /\ HasRead(t) = NULL
BY DEF Does, HasRead, Reading

LEMMA NotReadingNext ==
  ASSUME NEW t, pc'[t] \notin {"count", "try_add"}
  PROVE  Does(t)' = op'[t] /\ HasRead(t)' = NULL
BY DEF Does, HasRead, Reading

\* The calls: an argument that is empty, the pointer that t owns, or a new object.
LEMMA CallMaps ==
  ASSUME Types, NEW t \in Threads, StepOf(t), ThreadOK(t), ThreadOK(t)',
         Load(t) \/ Store(t) \/ CompareExchangeWeak(t)
  PROVE  Atomic!Call(t)
<1>1. /\ pc[t] = "idle" /\ op[t] = "none" /\ ss_' = ss_ /\ mine' = mine
      /\ pc'[t] \in {"add", "exchange", "enter", "load"}
  BY DEF Types, ThreadOK, InCall, Load, Store, CompareExchangeWeak, WithNew, WithEmpty, WithCopy, Calls, Enter
<1>2. Does(t) = "none" /\ Does(t)' = op'[t] /\ HasRead(t)' = HasRead(t)
  BY <1>1, NotReading, NotReadingNext
<1>3. CASE Load(t)
  BY <1>1, <1>2, <1>3, MapsToCall DEF Types, Load, Calls, Moves
<1>4. CASE Store(t) \/ CompareExchangeWeak(t)
  <2>1. \E p \in Pointers : arg' = Set(arg, t, p)
    BY <1>4 DEF Types, Pointers, Store, CompareExchangeWeak, WithNew, WithEmpty, WithCopy
  <2>2. op'[t] \in {"store", "cas"}
    BY <1>4 DEF Types, Store, CompareExchangeWeak, WithNew, WithEmpty, WithCopy, Calls
  <2> QED BY <1>1, <1>2, <2>1, <2>2, MapsToCall DEF Moves
<1> QED BY <1>3, <1>4

LEMMA ResetMaps ==
  ASSUME Types, NEW t \in Threads, StepOf(t), ThreadOK(t), Reset(t)
  PROVE  Atomic!Drop(t)
<1>1. /\ pc[t] = "idle" /\ op[t] = "none" /\ arg[t] = NULL
      /\ pc'[t] = "finish" /\ op'[t] = "dropped"
      /\ ss_' = ss_ /\ mine' = Set(mine, t, NULL) /\ arg' = Set(arg, t, NULL)
  BY DEF Types, ThreadOK, InCall, Reset, Ends
<1>2. arg' = arg
  BY <1>1 DEF Types
<1>3. Does(t) = "none" /\ Does(t)' = "dropped" /\ HasRead(t)' = HasRead(t)
  BY <1>1, NotReading, NotReadingNext
<1> QED BY <1>1, <1>2, <1>3, MapStep DEF HasReadAll, Atomic!Drop, Atomic!Goes

\* Store takes effect when it exchanges the pointer, CompareExchangeWeak when its CAS
\* finds the pointer that it expects.
LEMMA WriteMaps ==
  ASSUME Types, NEW t \in Threads, StepOf(t), ThreadOK(t), Exchange(t) \/ Swap(t)
  PROVE  Atomic!Write(t)
<1>1. /\ pc[t] \in {"exchange", "swap"} /\ pc'[t] = "finish"
      /\ ss_' = arg[t] /\ mine' = mine /\ arg' = Set(arg, t, NULL)
      /\ \/ op[t] = "store" /\ op'[t] = "stored"
         \/ op[t] = "cas" /\ op'[t] = "swapped" /\ ss_ = mine[t]
  BY DEF Types, ThreadOK, InCall, Exchange, Swap, Ends
<1>2. Does(t) = op[t] /\ Does(t)' = op'[t] /\ HasRead(t)' = HasRead(t)
  BY <1>1, NotReading, NotReadingNext
<1> QED BY <1>1, <1>2, MapStep DEF HasReadAll, Atomic!Write, Atomic!Goes

\* A reading takes effect when the address is loaded the second time.
LEMMA ValidateMaps ==
  ASSUME Types, NEW t \in Threads, StepOf(t), ThreadOK(t), Validate(t)
  PROVE  Atomic!Read(t) \/ Atomic!ReadAndKeep(t) \/ UNCHANGED Atomic!vars
<1>1. pc[t] = "validate" /\ op[t] \in {"load", "cas"} /\ ss_' = ss_ /\ ptr' = ptr
  BY DEF ThreadOK, InCall, Validate
<1>2. Does(t) = op[t] /\ HasRead(t) = NULL
  BY <1>1, NotReading
<1>3. CASE ValidateEnds(t)
  <2>1. /\ pc'[t] = "finish" /\ ss_ = NULL /\ arg' = Set(arg, t, NULL)
        /\ \/ op[t] = "load" /\ op'[t] = "loaded" /\ mine' = mine /\ mine[t] = NULL
           \/ op[t] = "cas" /\ op'[t] = "failed" /\ mine' = Set(mine, t, NULL) /\ mine[t] # NULL
    BY <1>3 DEF Types, ThreadOK, InCall, ValidateEnds, Ends
  <2>2. mine' = Set(mine, t, ss_)
    BY <2>1 DEF Types
  <2>3. Does(t)' = op'[t] /\ HasRead(t)' = NULL
    BY <2>1, NotReadingNext
  <2> QED BY <1>1, <1>2, <2>1, <2>2, <2>3, MapStep DEF HasReadAll, Atomic!ReadAndKeep, Atomic!Goes
<1>4. CASE ValidateGoesOn(t) /\ pc'[t] # "count"
  <2>1. pc'[t] \in {"load", "swap"} /\ UNCHANGED <<op, arg, mine>>
    BY <1>4 DEF Types, ValidateGoesOn
  <2>2. Does(t)' = op[t] /\ HasRead(t)' = NULL
    BY <2>1, NotReadingNext
  <2> QED BY <1>1, <1>2, <2>1, <2>2, MapsToStutter
<1>5. CASE ValidateGoesOn(t) /\ pc'[t] = "count"
  <2>1. ss_ = ptr[t] /\ (op[t] = "cas" => ss_ # mine[t]) /\ UNCHANGED <<op, arg, mine>>
    BY <1>5 DEF Types, ValidateGoesOn
  <2>2. Does(t)' = (IF op[t] = "load" THEN "loading" ELSE "failing") /\ HasRead(t)' = ss_
    BY <1>1, <1>5, <2>1 DEF Does, HasRead, Reading
  <2> QED BY <1>1, <1>2, <2>1, <2>2, MapStep DEF HasReadAll, Atomic!Read, Atomic!Goes
<1> QED BY <1>3, <1>4, <1>5, ValidateCases

\* TryAddRef returns the reading, or the call reads again.
LEMMA TryMaps ==
  ASSUME Types, NEW t \in Threads, StepOf(t), ThreadOK(t), Count(t) \/ TryAddRefFails(t)
  PROVE  Atomic!Again(t) \/ UNCHANGED Atomic!vars
<1>1. /\ pc[t] \in {"count", "try_add"} /\ pc'[t] \in {"retry", "try_add"} /\ op[t] \in {"load", "cas"}
      /\ UNCHANGED <<ss_, op, mine, arg, ptr>>
  BY DEF Types, ThreadOK, InCall, Count, TryAddRefFails, ToCount
<1>2. Does(t) = IF op[t] = "load" THEN "loading" ELSE "failing"
  BY <1>1 DEF Does, Reading
<1>3. CASE pc'[t] = "try_add"
  <2>1. Does(t)' = Does(t) /\ HasRead(t)' = HasRead(t)
    BY <1>1, <1>3 DEF Does, HasRead, Reading
  <2> QED BY <1>1, <2>1, MapsToStutter
<1>4. CASE pc'[t] = "retry"
  <2>1. Does(t)' = op[t] /\ HasRead(t)' = NULL
    BY <1>1, <1>4, NotReadingNext
  <2> QED BY <1>1, <1>2, <2>1, MapStep DEF HasReadAll, Atomic!Again, Atomic!Goes
<1> QED BY <1>1, <1>3, <1>4

LEMMA TryAddRefMaps ==
  ASSUME Types, NEW t \in Threads, StepOf(t), ThreadOK(t), TryAddRef(t)
  PROVE  Atomic!Keep(t)
<1>1. /\ pc[t] = "try_add" /\ pc'[t] = "finish" /\ op[t] \in {"load", "cas"}
      /\ op'[t] = IF op[t] = "load" THEN "loaded" ELSE "failed"
      /\ ss_' = ss_ /\ mine' = Set(mine, t, ptr[t]) /\ arg' = Set(arg, t, NULL)
  BY DEF Types, ThreadOK, InCall, TryAddRef, Ends
<1>2. /\ Does(t) = (IF op[t] = "load" THEN "loading" ELSE "failing")
      /\ HasRead(t) = ptr[t]
  BY <1>1 DEF Does, HasRead, Reading
<1>3. Does(t)' = op'[t] /\ HasRead(t)' = NULL
  BY <1>1, NotReadingNext
<1> QED BY <1>1, <1>2, <1>3, MapStep DEF HasReadAll, Atomic!Keep, Atomic!Goes

LEMMA ReturnMaps ==
  ASSUME Types, NEW t \in Threads, StepOf(t), ThreadOK(t), Return(t)
  PROVE  Atomic!Return(t)
<1>1. /\ pc[t] = "finish" /\ pc'[t] = "idle" /\ op[t] \in Results /\ op'[t] = "none"
      /\ UNCHANGED <<ss_, mine, arg>>
  BY DEF Types, ThreadOK, InCall, Return
<1>2. Does(t) = op[t] /\ Does(t)' = "none" /\ HasRead(t)' = HasRead(t)
  BY <1>1, NotReading, NotReadingNext
<1> QED BY <1>1, <1>2, MapStep DEF HasReadAll, Results, Atomic!Return, Atomic!Goes

\* All other steps are inside a call, or clean up after it.
InsideStep(t) ==
  \/ AddRef(t) \/ EnterMutator(t) \/ LoadPtr(t) \/ Protect(t) \/ Retry(t) \/ SwapFails(t)
  \/ UnlinkStep(t) \/ RetireMutator(t) \/ RetireStep(t) \/ Gc(t) \/ ResetStep(t)

LEMMA InsideMaps ==
  ASSUME Types, NEW t \in Threads, StepOf(t), InsideStep(t)
  PROVE  UNCHANGED Atomic!vars
<1> DEFINE Inside == /\ pc[t] \notin {"count", "try_add"} /\ pc'[t] \notin {"count", "try_add"}
                     /\ UNCHANGED <<ss_, op, mine, arg>>
<1>1. ASSUME AddRef(t) \/ LoadPtr(t) \/ Protect(t) \/ Retry(t) \/ SwapFails(t) PROVE Inside
  BY <1>1 DEF Types, AddRef, LoadPtr, Protect, Retry, SwapFails, SetHazard, Enter
<1>2. ASSUME EnterMutator(t) \/ RetireMutator(t) PROVE Inside
  BY <1>2 DEF Types, EnterMutator, RetireMutator, NewMutator, Link, LinkFails
<1>3. ASSUME UnlinkStep(t) \/ RetireStep(t) \/ ResetStep(t) PROVE Inside
  BY <1>3 DEF Types, UnlinkStep, RetireStep, ResetStep, Retire, SetHazard
<1>4. ASSUME Gc(t) PROVE Inside
  BY <1>4 DEF Types, Gc, Collect, GcNext, GcReturn, Scan, Destroy, Grown, Rescan, LoadHead
<1>5. Inside
  BY <1>1, <1>2, <1>3, <1>4 DEF InsideStep
<1>6. Does(t)' = Does(t) /\ HasRead(t)' = HasRead(t)
  BY <1>5, NotReading, NotReadingNext
<1> QED BY <1>5, <1>6, MapsToStutter

LEMMA ThreadMaps ==
  ASSUME Inv, NEW t \in Threads, ThreadStep(t)
  PROVE  Atomic!Next \/ UNCHANGED Atomic!vars
<1>1. Types /\ ThreadOK(t) /\ StepOf(t) /\ ThreadOK(t)'
  BY ThreadEffect DEF Inv, Control, ThreadOK, Effect
<1>2. CASE Load(t) \/ Store(t) \/ CompareExchangeWeak(t) \/ Reset(t)
  BY <1>1, <1>2, CallMaps, ResetMaps DEF Atomic!Next
<1>3. CASE Exchange(t) \/ Swap(t) \/ TryAddRef(t) \/ Return(t)
  BY <1>1, <1>3, WriteMaps, TryAddRefMaps, ReturnMaps DEF Atomic!Next
<1>4. CASE Validate(t) \/ Count(t) \/ TryAddRefFails(t)
  BY <1>1, <1>4, ValidateMaps, TryMaps DEF Atomic!Next
<1>5. CASE InsideStep(t)
  BY <1>1, <1>5, InsideMaps
<1> QED BY <1>2, <1>3, <1>4, <1>5 DEF ThreadStep, Step, InsideStep

LEMMA CloseMaps == ASSUME Inv, Close PROVE Atomic!Close
<1>1. \A t \in Threads : pc[t] = "idle" /\ op[t] = "none"
  BY DEF Inv, Control, InCall, Close
<1>2. UNCHANGED <<pc, op, mine, arg, ptr>> /\ ss_' = NULL
  BY DEF Close
<1>3. \A t \in Threads : Doing[t] = "none"
  BY <1>1 DEF Doing, Reading
<1>4. Doing' = Doing /\ HasReadAll' = HasReadAll
  BY <1>2 DEF Doing, HasReadAll, Reading
<1> QED BY <1>2, <1>3, <1>4 DEF HasReadAll, Atomic!Close

\* Loads, stores and compare-and-exchanges are linearizable: each takes effect at one
\* step between its call and its return, as one access to one cell (Load, Store and
\* CompareExchangeWeak of AtomicSharedPtr).
THEOREM PointerIsAtomic == Spec => PointerSpec
<1>1. Init => Atomic!Init
  <2> SUFFICES ASSUME Init PROVE Atomic!Init
    OBVIOUS
  <2>1. \A t \in Threads : ~Reading(t)
    BY DEF Init, HazardInit, Reading
  <2>2. Doing = [t \in Threads |-> "none"] /\ HasReadAll = [t \in Threads |-> NULL]
    BY <2>1 DEF Init, Doing, HasReadAll
  <2> QED BY <2>2 DEF Init, HasReadAll, Atomic!Init
<1>2. Inv /\ [Next]_vars => [Atomic!Next]_Atomic!vars
  <2> SUFFICES ASSUME Inv, [Next]_vars PROVE Atomic!Next \/ UNCHANGED Atomic!vars
    OBVIOUS
  <2>1. CASE Close
    BY <2>1, CloseMaps DEF Atomic!Next
  <2>2. CASE Terminated \/ UNCHANGED vars
    <3>1. UNCHANGED <<pc, ss_, op, mine, arg, ptr>>
      BY <2>2 DEF Terminated, vars, hazardVars
    <3>2. Doing' = Doing /\ HasReadAll' = HasReadAll
      BY <3>1 DEF Doing, HasReadAll, Reading
    <3> QED BY <3>1, <3>2 DEF HasReadAll, Atomic!vars
  <2>3. ASSUME NEW t \in Threads, ThreadStep(t) PROVE Atomic!Next \/ UNCHANGED Atomic!vars
    BY <2>3, ThreadMaps
  <2> QED BY <2>1, <2>2, <2>3 DEF Next, ThreadStep
<1> QED BY <1>1, <1>2, SharedPtrAlways, PTL DEF Spec, PointerSpec, Atomic!Spec
=============================================================================

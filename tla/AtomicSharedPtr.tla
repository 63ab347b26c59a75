--------------------------- MODULE AtomicSharedPtr ---------------------------
(***************************************************************************)
(* gc/atomic_shared_ptr: a shared pointer that threads load, store and     *)
(* compare-and-exchange.  The object it points to is counted; a thread     *)
(* that has loaded the address protects it with a hazard pointer until it  *)
(* has added a reference of its own.                                       *)
(*                                                                         *)
(* Each thread owns one SharedPtr (mine) and makes up to MaxCalls calls.   *)
(* The addresses of destroyed objects are used again.                      *)
(***************************************************************************)
EXTENDS HazardPointers, FiniteSets

CONSTANT MaxCalls   \* bound: calls of Load, Store and CompareExchangeWeak by one thread

ASSUME CallsAssumption == MaxCalls \in Nat

VARIABLES
  ss_,        \* AtomicSharedPtr::ss_
  counter_,   \* counter_[o]: SharedState::counter_
  op,         \* op[t]: the call t is in, and how it has ended
  mine,       \* mine[t]: the SharedPtr that t owns, and passes as `expected`
  arg,        \* arg[t]: target or desired
  ptr,        \* ptr[t]: the local `ss` of Load and CompareExchangeWeak
  old,        \* old[t]: the local of that name in TryAddRef
  todo,       \* todo[t]: what the call still does before it returns
  calls,      \* calls[t]: the calls made by t
  closed      \* the destructors have run

ptrVars == <<ss_, counter_, op, mine, arg, ptr, old, todo, calls, closed>>
vars == <<hazardVars, ptrVars>>

Pointers == Objects \cup {NULL}

Init ==
  /\ HazardInit
  /\ ss_ = NULL
  /\ counter_ = [o \in Objects |-> 0]
  /\ op = [t \in Threads |-> "none"]
  /\ mine = [t \in Threads |-> NULL]
  /\ arg = [t \in Threads |-> NULL]
  /\ ptr = [t \in Threads |-> NULL]
  /\ old = [t \in Threads |-> 0]
  /\ todo = [t \in Threads |-> << >>]
  /\ calls = [t \in Threads |-> 0]
  /\ closed = FALSE

Set(f, t, x) == [f EXCEPT ![t] = x]

\* What is left of a call: Unlink of a SharedPtr that may be empty, and Reset
\* of the hazard pointer.
Unlink(p) == IF p = NULL THEN << >> ELSE << <<"unlink", p>> >>
ResetHazard == << <<"reset", NULL>> >>

\* The call has its result; what follows is todo.
Ends(t, result, steps) ==
  /\ op' = Set(op, t, result)
  /\ todo' = Set(todo, t, steps)
  /\ arg' = Set(arg, t, NULL)
  /\ Goto(t, "finish")

\* The first step of Load and of the loop of CompareExchangeWeak.
Enter(t) == IF Linked(t) THEN "load" ELSE "enter"

-----------------------------------------------------------------------------
(* The calls                                                               *)

\* A call with an argument first copies it, or goes on when it is empty.
Calls(t, which, label) ==
  /\ At(t, "idle")
  /\ ~closed
  /\ calls[t] < MaxCalls
  /\ calls' = Set(calls, t, calls[t] + 1)
  /\ op' = Set(op, t, which)
  /\ Goto(t, label)
  /\ UNCHANGED gcVars
  /\ UNCHANGED <<ss_, mine, ptr, old, todo, closed>>

\* Load into an empty SharedPtr.
Load(t) ==
  /\ mine[t] = NULL
  /\ Calls(t, "load", Enter(t))
  /\ UNCHANGED <<alive, counter_, arg>>

\* MakeShared: a new object, at any free address.
WithNew(t, which) ==
  \E o \in Objects \ alive :
    /\ alive' = alive \cup {o}
    /\ counter_' = Set(counter_, o, 1)
    /\ arg' = Set(arg, t, o)
    /\ Calls(t, which, "add")

WithEmpty(t, which, label) ==
  /\ arg' = Set(arg, t, NULL)
  /\ Calls(t, which, label)
  /\ UNCHANGED <<alive, counter_>>

\* A copy of the SharedPtr that t owns.
WithCopy(t, which) ==
  /\ mine[t] # NULL
  /\ arg' = Set(arg, t, mine[t])
  /\ counter_' = Set(counter_, mine[t], counter_[mine[t]] + 1)
  /\ Calls(t, which, "add")
  /\ UNCHANGED alive

Store(t) == WithNew(t, "store") \/ WithEmpty(t, "store", "exchange") \/ WithCopy(t, "store")

\* expected is the SharedPtr that t owns.
CompareExchangeWeak(t) ==
  WithNew(t, "cas") \/ WithEmpty(t, "cas", Enter(t)) \/ WithCopy(t, "cas")

\* SharedPtr::Reset.
Reset(t) ==
  /\ At(t, "idle")
  /\ mine[t] # NULL
  /\ mine' = Set(mine, t, NULL)
  /\ Ends(t, "dropped", Unlink(mine[t]))
  /\ UNCHANGED <<alive, gcVars>>
  /\ UNCHANGED <<ss_, counter_, ptr, old, calls, closed>>

-----------------------------------------------------------------------------
(* SharedState::AddRef of the argument, and Store                          *)

AddRef(t) ==
  /\ At(t, "add")
  /\ counter_' = Set(counter_, arg[t], counter_[arg[t]] + 1)
  /\ Goto(t, IF op[t] = "store" THEN "exchange" ELSE Enter(t))
  /\ UNCHANGED <<alive, gcVars>>
  /\ UNCHANGED <<ss_, op, mine, arg, ptr, old, todo, calls, closed>>

Exchange(t) ==
  /\ At(t, "exchange")
  /\ ss_' = arg[t]
  /\ Ends(t, "stored", Unlink(ss_) \o Unlink(arg[t]))
  /\ UNCHANGED <<alive, gcVars>>
  /\ UNCHANGED <<counter_, mine, ptr, old, calls, closed>>

-----------------------------------------------------------------------------
(* GetMutator and PtrOwner::Protect                                        *)

EnterMutator(t) ==
  /\ \/ NewMutator(t, "enter", "enter_link")
     \/ Link(t, "enter_link", "load")
     \/ LinkFails(t, "enter_link", "enter")
  /\ UNCHANGED ptrVars

LoadPtr(t) ==
  /\ At(t, "load")
  /\ ptr' = Set(ptr, t, ss_)
  /\ Goto(t, "set")
  /\ UNCHANGED <<alive, gcVars>>
  /\ UNCHANGED <<ss_, counter_, op, mine, arg, old, todo, calls, closed>>

Protect(t) ==
  /\ At(t, "set")
  /\ SetHazard(t, ptr[t])
  /\ Goto(t, "validate")
  /\ UNCHANGED ptrVars

\* What is done with the address once it is protected.
Loaded(t) ==
  IF op[t] = "load"
    THEN IF ptr[t] = NULL
           THEN Ends(t, "loaded", ResetHazard) /\ UNCHANGED mine
           ELSE Goto(t, "count") /\ UNCHANGED <<op, todo, arg, mine>>
    ELSE IF ptr[t] = mine[t]
           THEN Goto(t, "swap") /\ UNCHANGED <<op, todo, arg, mine>>
         ELSE IF ptr[t] = NULL
           THEN /\ mine' = Set(mine, t, NULL)
                /\ Ends(t, "failed",
                        Unlink(arg[t]) \o Unlink(mine[t]) \o ResetHazard \o Unlink(arg[t]))
           ELSE Goto(t, "count") /\ UNCHANGED <<op, todo, arg, mine>>

\* Mutant of Validate: the address is not loaded again.
ValidateBlindly(t) ==
  /\ At(t, "validate")
  /\ Loaded(t)
  /\ UNCHANGED <<alive, gcVars>>
  /\ UNCHANGED <<ss_, counter_, ptr, old, calls, closed>>

Validate(t) ==
  /\ At(t, "validate")
  /\ IF ss_ = ptr[t]
       THEN Loaded(t)
       ELSE Goto(t, "load") /\ UNCHANGED <<op, todo, arg, mine>>
  /\ UNCHANGED <<alive, gcVars>>
  /\ UNCHANGED <<ss_, counter_, ptr, old, calls, closed>>

-----------------------------------------------------------------------------
(* SharedState::TryAddRef of the protected object                          *)

\* The condition of the loop; without a reference, ScopedReset and again.
ToCount(t, n) == Goto(t, IF n = 0 THEN "retry" ELSE "try_add")

Count(t) ==
  /\ At(t, "count")
  /\ old' = Set(old, t, counter_[ptr[t]])
  /\ ToCount(t, counter_[ptr[t]])
  /\ UNCHANGED <<alive, gcVars>>
  /\ UNCHANGED <<ss_, counter_, op, mine, arg, ptr, todo, calls, closed>>

\* TryAddRef succeeds: the new reference is the result, or what expected gets.
TryAddRef(t) ==
  /\ At(t, "try_add")
  /\ counter_[ptr[t]] = old[t]
  /\ counter_' = Set(counter_, ptr[t], old[t] + 1)
  /\ mine' = Set(mine, t, ptr[t])
  /\ IF op[t] = "load"
       THEN Ends(t, "loaded", ResetHazard)
       ELSE Ends(t, "failed", Unlink(arg[t]) \o Unlink(mine[t]) \o ResetHazard \o Unlink(arg[t]))
  /\ UNCHANGED <<alive, gcVars>>
  /\ UNCHANGED <<ss_, ptr, old, calls, closed>>

\* The count has changed (a CAS that fails for no reason changes nothing).
TryAddRefFails(t) ==
  /\ At(t, "try_add")
  /\ counter_[ptr[t]] # old[t]
  /\ old' = Set(old, t, counter_[ptr[t]])
  /\ ToCount(t, counter_[ptr[t]])
  /\ UNCHANGED <<alive, gcVars>>
  /\ UNCHANGED <<ss_, counter_, op, mine, arg, ptr, todo, calls, closed>>

Retry(t) ==
  /\ At(t, "retry")
  /\ SetHazard(t, NULL)
  /\ Goto(t, "load")
  /\ UNCHANGED ptrVars

-----------------------------------------------------------------------------
(* The exchange of CompareExchangeWeak                                     *)

\* Mutant of Swapped: desired is not released.
SwappedLeaks(t) == Unlink(ptr[t]) \o ResetHazard

\* After a CAS that succeeds: Unlink of the old object, then the destructors.
Swapped(t) == Unlink(ptr[t]) \o ResetHazard \o Unlink(arg[t])

Swap(t) ==
  /\ At(t, "swap")
  /\ ss_ = ptr[t]
  /\ ss_' = arg[t]
  /\ Ends(t, "swapped", Swapped(t))
  /\ UNCHANGED <<alive, gcVars>>
  /\ UNCHANGED <<counter_, mine, ptr, old, calls, closed>>

\* Another thread has changed ss_, or compare_exchange_weak fails for no reason.
SwapFails(t) ==
  /\ At(t, "swap")
  /\ Goto(t, "retry")
  /\ UNCHANGED <<alive, gcVars, ptrVars>>

-----------------------------------------------------------------------------
(* The end of a call                                                       *)

First(t) == Head(todo[t])

\* SharedState::Unlink: the last reference retires the object.
UnlinkStep(t) ==
  /\ At(t, "finish")
  /\ todo[t] # << >>
  /\ First(t)[1] = "unlink"
  /\ LET o == First(t)[2] IN
       /\ counter_' = Set(counter_, o, counter_[o] - 1)
       /\ IF counter_[o] = 1
            THEN /\ todo' = Set(todo, t, << <<"retire", o>> >> \o Tail(todo[t]))
                 /\ Goto(t, IF Linked(t) THEN "retire" ELSE "retire_enter")
            ELSE todo' = Set(todo, t, Tail(todo[t])) /\ UNCHANGED pc
  /\ UNCHANGED <<alive, gcVars>>
  /\ UNCHANGED <<ss_, op, mine, arg, ptr, old, calls, closed>>

RetireMutator(t) ==
  /\ \/ NewMutator(t, "retire_enter", "retire_link")
     \/ Link(t, "retire_link", "retire")
     \/ LinkFails(t, "retire_link", "retire_enter")
  /\ UNCHANGED ptrVars

RetireStep(t) ==
  /\ At(t, "retire")
  /\ Retire(t, First(t)[2])
  /\ todo' = Set(todo, t, Tail(todo[t]))
  /\ Goto(t, "gc")
  /\ UNCHANGED <<ss_, counter_, op, mine, arg, ptr, old, calls, closed>>

Gc(t) == Collect(t, "finish") /\ UNCHANGED ptrVars

ResetStep(t) ==
  /\ At(t, "finish")
  /\ todo[t] # << >>
  /\ First(t)[1] = "reset"
  /\ SetHazard(t, NULL)
  /\ todo' = Set(todo, t, Tail(todo[t]))
  /\ UNCHANGED <<pc, ss_, counter_, op, mine, arg, ptr, old, calls, closed>>

Return(t) ==
  /\ At(t, "finish")
  /\ todo[t] = << >>
  /\ op' = Set(op, t, "none")
  /\ ptr' = Set(ptr, t, NULL)
  /\ old' = Set(old, t, 0)
  /\ Goto(t, "idle")
  /\ UNCHANGED <<alive, gcVars>>
  /\ UNCHANGED <<ss_, counter_, mine, arg, todo, calls, closed>>

InSeq(o, s) == \E k \in DOMAIN s : s[k] = o

\* The destructors of AtomicSharedPtr and of Collector, when the threads have
\* finished and have released what they owned.
Close ==
  /\ ~closed
  /\ \A t \in Threads : At(t, "idle") /\ mine[t] = NULL /\ calls[t] = MaxCalls
  /\ closed' = TRUE
  /\ ss_' = NULL
  /\ counter_' = IF ss_ = NULL THEN counter_ ELSE Set(counter_, ss_, counter_[ss_] - 1)
  /\ alive' = alive \ ({o \in Objects : \E t \in Threads : InSeq(o, retired_[t])}
                       \cup {o \in Objects : o = ss_ /\ counter_[o] = 1})
  /\ retired_' = [t \in Threads |-> << >>]
  /\ UNCHANGED <<pc, head_, hazard, kept, checked, seen, cursor>>
  /\ UNCHANGED <<op, mine, arg, ptr, old, todo, calls>>

-----------------------------------------------------------------------------
Step(t) ==
  \/ AddRef(t) \/ Exchange(t) \/ EnterMutator(t)
  \/ LoadPtr(t) \/ Protect(t) \/ Validate(t)
  \/ Count(t) \/ TryAddRef(t) \/ TryAddRefFails(t) \/ Retry(t)
  \/ Swap(t) \/ SwapFails(t)
  \/ UnlinkStep(t) \/ RetireMutator(t) \/ RetireStep(t) \/ Gc(t) \/ ResetStep(t) \/ Return(t)

Terminated == closed /\ UNCHANGED vars

Next ==
  \/ Close
  \/ Terminated
  \/ \E t \in Threads : Load(t) \/ Store(t) \/ CompareExchangeWeak(t) \/ Reset(t) \/ Step(t)

Spec == Init /\ [][Next]_vars

-----------------------------------------------------------------------------
TypeOK ==
  /\ alive \subseteq Objects
  /\ ss_ \in Pointers
  /\ counter_ \in [Objects -> Nat]
  /\ \A f \in {hazard, checked, mine, arg, ptr} : f \in [Threads -> Pointers]
  /\ \A t \in Threads :
       /\ Len(head_) >= seen[t] /\ Len(head_) >= cursor[t]
       /\ todo[t] # << >> => pc[t] \in {"finish", "retire_enter", "retire_link", "retire",
                                        "gc", "scan", "rescan"}

\* The references to o: in the cell, owned by a thread, held by an argument and
\* by what AddRef has added for the cell, or about to be released.
Holders(o) ==
  {<<"cell", 0>> : i \in IF ss_ = o THEN {1} ELSE {}}
    \cup {<<"mine", t>> : t \in {u \in Threads : mine[u] = o}}
    \cup {<<"arg", t>> : t \in {u \in Threads : arg[u] = o}}
    \cup {<<"added", t>> : t \in {u \in Threads : arg[u] = o /\ ~At(u, "add")}}
    \cup UNION {{<<"todo", t, i>> : i \in {j \in DOMAIN todo[t] : todo[t][j] = <<"unlink", o>>}}
                : t \in Threads}

\* counter_ is the number of references to an object, at every step of every call.
CountExact == \A o \in alive : counter_[o] = Cardinality(Holders(o))

\* An object without references is in exactly one place on its way to be
\* destroyed, and an object that has any is in none: none is destroyed twice,
\* forgotten, or brought back.
Places(o) ==
  {<<"retire", t>> : t \in {u \in Threads : InSeq(<<"retire", o>>, todo[u])}}
    \cup UNION {{<<"retired", t, i>> : i \in {j \in DOMAIN retired_[t] : retired_[t][j] = o}}
                  \cup {<<"kept", t, i>> : i \in {j \in DOMAIN kept[t] : kept[t][j] = o}}
                  \cup {<<"checked", t>> : i \in IF checked[t] = o THEN {1} ELSE {}}
                : t \in Threads}

RetiredOnce ==
  \A o \in Objects :
    Cardinality(Places(o)) = IF o \in alive /\ counter_[o] = 0 THEN 1 ELSE 0

\* t reads or changes the object at o: TryAddRef of what it has protected, or
\* CompareExchangeWeak between the two loads of the same address.
Uses(t, o) == ptr[t] = o /\ pc[t] \in {"count", "try_add", "swap"}

\* Gc never destroys an object that a thread has protected and is using.
DestroyIsSafe ==
  [][\A o \in alive \ alive' : \A t \in Threads : ~Uses(t, o) /\ ~Uses(t, o)']_vars

\* When the AtomicSharedPtr and the collector are gone, so are all objects.
NothingLeaks == closed => alive = {}

\* The life of an object: its count is exact while it lives, it is retired once when
\* the count reaches 0, and it does not outlive the collector (with the type invariant).
CountsInv == TypeOK /\ CountExact /\ RetiredOnce /\ NothingLeaks

\* Loads, stores and exchanges are linearizable.
Reading(t) == pc[t] \in {"count", "try_add"}

Doing ==
  [t \in Threads |->
     IF ~Reading(t) THEN op[t] ELSE IF op[t] = "load" THEN "loading" ELSE "failing"]

Atomic == INSTANCE AtomicPointer WITH
  cell <- ss_, doing <- Doing,
  read <- [t \in Threads |-> IF Reading(t) THEN ptr[t] ELSE NULL]

PointerSpec == Atomic!Spec
=============================================================================

---------------------------- MODULE FutureCombine ----------------------------
(***************************************************************************)
(* future/detail (the contract between a Promise and a Future), the        *)
(* concurrent combinators Both, First, FirstOk and BothOk, and Get with    *)
(* its thread::Event, or Detach.                                           *)
(*                                                                         *)
(* Two producers fulfil the promises of the futures f1 and f2; the main    *)
(* thread combines f1 and f2 into the future "out" and gets or detaches it.*)
(* Whoever comes second to a contract runs the callback of its consumer,   *)
(* so a call nests in the thread of a producer or of the main thread:      *)
(* stack[t] is what thread t still has to do, innermost call first.        *)
(***************************************************************************)
EXTENDS Integers, Sequences, FiniteSets, Functions

CONSTANTS
  Concurrent,  \* the combinators a behaviour may use
  MayAllFail   \* bound: the combinators whose input futures may both fail

Inputs == {"f1", "f2"}
Contracts == Inputs \cup {"out"}
Parties == Inputs \cup {"main"}

\* A result is a set of values of the inputs: the pair of Both and BothOk is the set
\* of its two values, and a storage in which nothing has been constructed is empty.
Value == [from : Inputs, ok : BOOLEAN]
NONE == {}

ASSUME FutureAssumption ==
  /\ Concurrent \subseteq {"Both", "First", "FirstOk", "BothOk"}
  /\ MayAllFail \subseteq Concurrent

VARIABLES
  combinator,  \* the combinator in use
  terminator,  \* "Get" or "Detach"
  input,       \* input[i]: the value the producer of i sets
  state_,      \* state_[c]: the flags of RendezvousStateMachine::state_
  result_,     \* result_[c]: ContractState::result_
  callback_,   \* callback_[c]: ContractState::callback_ has been constructed
  deleted,     \* deleted[c]: how often the state has been deleted
  flags,       \* ProtectedPromise::state, or is_satisfied
  stored,      \* stored[i]: ProtectedPromise::v1, v2
  sets,        \* calls of Set of the promise of "out"
  received,    \* the local result of Get
  event,       \* Event::state_ of Get's event is Fired
  stack

contracts == <<state_, result_, callback_, deleted>>
protected == <<flags, stored, sets>>
plan == <<combinator, terminator, input>>
combineVars == <<plan, contracts, protected, received, event, stack>>

-----------------------------------------------------------------------------
(* The steps of a thread.                                                  *)

StepOf(op, c) == [op |-> op, c |-> c, value |-> NONE]
StepWith(op, c, v) == [op |-> op, c |-> c, value |-> v]

\* ContractState::Produce and Consume.
ProduceSteps(c, v) == <<StepWith("result", c, v), StepOf("produce", c)>>
ConsumeSteps(c) == <<StepOf("callback", c), StepOf("consume", c)>>

\* ContractState::Rendezvous
RendezvousSteps(c) == <<StepOf("call", c), StepOf("delete", c)>>

CombineInit ==
  /\ combinator \in Concurrent
  /\ terminator \in {"Get", "Detach"}
  /\ input \in [Inputs -> Value]
  /\ \A i \in Inputs : input[i].from = i
  /\ combinator \in MayAllFail \/ \E i \in Inputs : input[i].ok
  /\ state_ = [c \in Contracts |-> {}]
  /\ result_ = [c \in Contracts |-> NONE]
  /\ callback_ = [c \in Contracts |-> FALSE]
  /\ deleted = [c \in Contracts |-> 0]
  /\ flags = {}
  /\ stored = [i \in Inputs |-> NONE]
  /\ sets = 0
  /\ received = NONE
  /\ event = FALSE
  /\ stack = [t \in Parties |->
       IF t = "main"
       THEN ConsumeSteps("f1") \o ConsumeSteps("f2") \o ConsumeSteps("out")
              \o IF terminator = "Get" THEN <<StepOf("wait", "out")>> ELSE << >>
       ELSE ProduceSteps(t, {input[t]})]

\* Thread t does the first of its steps, which is op, and calls what comes in steps.
Step(t, op) == stack[t] # << >> /\ Head(stack[t]).op = op
ArgOf(t) == Head(stack[t]).c
Then(t, steps) == stack' = [stack EXCEPT ![t] = steps \o Tail(@)]

-----------------------------------------------------------------------------
(* The contract.                                                           *)

EmplaceResult(t) ==
  /\ Step(t, "result")
  /\ result_' = [result_ EXCEPT ![ArgOf(t)] = Head(stack[t]).value]
  /\ Then(t, << >>)
  /\ UNCHANGED <<plan, state_, callback_, deleted, protected, received, event>>

EmplaceCallback(t) ==
  /\ Step(t, "callback")
  /\ callback_' = [callback_ EXCEPT ![ArgOf(t)] = TRUE]
  /\ Then(t, << >>)
  /\ UNCHANGED <<plan, state_, result_, deleted, protected, received, event>>

\* RendezvousStateMachine: the fetch_or, and Rendezvous if the other side was first.
Meet(t, mine, other) ==
  /\ state_' = [state_ EXCEPT ![ArgOf(t)] = @ \cup {mine}]
  /\ Then(t, IF state_[ArgOf(t)] = {other} THEN RendezvousSteps(ArgOf(t)) ELSE << >>)
  /\ UNCHANGED <<plan, result_, callback_, deleted, protected, received, event>>

RendezvousProduce(t) == Step(t, "produce") /\ Meet(t, "Producer", "Consumer")
RendezvousConsume(t) == Step(t, "consume") /\ Meet(t, "Consumer", "Producer")

Delete(t) ==
  /\ Step(t, "delete")
  /\ deleted' = [deleted EXCEPT ![ArgOf(t)] = @ + 1]
  /\ Then(t, << >>)
  /\ UNCHANGED <<plan, state_, result_, callback_, protected, received, event>>

-----------------------------------------------------------------------------
(* The callbacks of the combinators, called with the value of input i.     *)

\* BothOk reports an error before it marks the state; First and FirstOk begin with
\* the exchange, Both and BothOk with the construction of v1 or v2.
Callback(i) ==
  IF combinator = "BothOk" /\ ~ input[i].ok
  THEN <<StepWith("set", i, result_[i]), StepOf("fail", i)>>
  ELSE IF combinator \in {"Both", "BothOk"}
       THEN <<StepOf("store", i), StepOf("join", i)>>
       ELSE <<StepOf("exchange", i)>>

\* (*callback_)(std::move(*result_)), of an input.
CallCombinator(t) ==
  /\ Step(t, "call")
  /\ ArgOf(t) \in Inputs
  /\ Then(t, Callback(ArgOf(t)))
  /\ UNCHANGED <<plan, contracts, protected, received, event>>

\* v1.Emplace or v2.Emplace
Store(t) ==
  /\ Step(t, "store")
  /\ stored' = [stored EXCEPT ![ArgOf(t)] = result_[ArgOf(t)]]
  /\ Then(t, << >>)
  /\ UNCHANGED <<plan, contracts, flags, sets, received, event>>

\* Mutant of IsLast: fetch_or is taken to return the new flags.
IsLastBoth(i) == flags = Inputs

\* state.fetch_or returned just the other flag: this input is the last one, and
\* none has failed.
IsLast(i) == flags = Inputs \ {i}

\* state.fetch_or(First or Second), and Set with the pair.
Join(t) ==
  /\ Step(t, "join")
  /\ flags' = flags \cup {ArgOf(t)}
  /\ Then(t, IF IsLast(ArgOf(t))
             THEN <<StepWith("set", ArgOf(t), stored["f1"] \cup stored["f2"])>>
             ELSE << >>)
  /\ UNCHANGED <<plan, contracts, stored, sets, received, event>>

\* state.fetch_or(Fail)
Fail(t) ==
  /\ Step(t, "fail")
  /\ flags' = flags \cup {"Fail"}
  /\ Then(t, << >>)
  /\ UNCHANGED <<plan, contracts, stored, sets, received, event>>

\* Mutant of Wins: in FirstOk every success wins.
WinsWhenOk(i) == IF combinator = "First" THEN flags = {} ELSE input[i].ok

\* What the exchange tells the callbacks of First and of FirstOk.
Wins(i) ==
  IF combinator = "First"
  THEN flags = {}
  ELSE IF input[i].ok THEN flags # {"Satisfied"} ELSE flags = {"ReportError"}

\* What the exchange stores.
Exchanged(i) == IF combinator = "First" \/ input[i].ok THEN {"Satisfied"} ELSE {"ReportError"}

\* is_satisfied.exchange(true), or state.exchange of FirstOk.
Exchange(t) ==
  LET i == ArgOf(t) IN
  /\ Step(t, "exchange")
  /\ flags' = Exchanged(i)
  /\ Then(t, IF Wins(i) THEN <<StepWith("set", i, result_[i])>> ELSE << >>)
  /\ UNCHANGED <<plan, contracts, stored, sets, received, event>>

\* Promise::Set takes the state of "out" out of the promise; a second call would
\* find a null pointer there.
SetOut(t) ==
  /\ Step(t, "set")
  /\ sets' = sets + 1
  /\ Then(t, IF sets = 0 THEN ProduceSteps("out", Head(stack[t]).value) ELSE << >>)
  /\ UNCHANGED <<plan, contracts, flags, stored, received, event>>

-----------------------------------------------------------------------------
(* Get and Detach.                                                         *)

\* Mutant of OutCallback: the event is fired before the result is there.
FireThenEmplace == <<StepOf("fire", "out"), StepOf("wake", "out"), StepOf("emplace", "out")>>

\* The callback of Get: result.Emplace and event.Fire; that of Detach does nothing.
OutCallback ==
  IF terminator = "Get"
  THEN <<StepOf("emplace", "out"), StepOf("fire", "out"), StepOf("wake", "out")>>
  ELSE << >>

CallOut(t) ==
  /\ Step(t, "call")
  /\ ArgOf(t) = "out"
  /\ Then(t, OutCallback)
  /\ UNCHANGED <<plan, contracts, protected, received, event>>

\* The result, on the stack of Get.
EmplaceGot(t) ==
  /\ Step(t, "emplace")
  /\ received' = result_["out"]
  /\ Then(t, << >>)
  /\ UNCHANGED <<plan, contracts, protected, event>>

\* Event::Fire: state_.store ...
Fire(t) ==
  /\ Step(t, "fire")
  /\ event' = TRUE
  /\ Then(t, << >>)
  /\ UNCHANGED <<plan, contracts, protected, received>>

\* ... and futex::WakeAll, by the key that PrepareWake took before.
FutexWakeAll(t) ==
  /\ Step(t, "wake")
  /\ stack' = [u \in Parties |-> IF u = t \/ Step(u, "asleep") THEN Tail(stack[u]) ELSE stack[u]]
  /\ UNCHANGED <<plan, contracts, protected, received, event>>

\* Event::Wait: the load in the loop ...
Wait(t) ==
  /\ Step(t, "wait")
  /\ Then(t, IF event THEN << >> ELSE <<StepOf("futex", "out"), StepOf("wait", "out")>>)
  /\ UNCHANGED <<plan, contracts, protected, received, event>>

\* ... and futex::Wait, which sleeps while state_ is Waiting.
FutexWait(t) ==
  /\ Step(t, "futex")
  /\ Then(t, IF event THEN << >> ELSE <<StepOf("asleep", "out")>>)
  /\ UNCHANGED <<plan, contracts, protected, received, event>>

SpuriousWake(t) ==
  /\ Step(t, "asleep")
  /\ Then(t, << >>)
  /\ UNCHANGED <<plan, contracts, protected, received, event>>

-----------------------------------------------------------------------------
RunThread(t) ==
  \/ EmplaceResult(t) \/ EmplaceCallback(t)
  \/ RendezvousProduce(t) \/ RendezvousConsume(t) \/ Delete(t)
  \/ CallCombinator(t) \/ Store(t) \/ Join(t) \/ Fail(t) \/ Exchange(t) \/ SetOut(t)
  \/ CallOut(t) \/ EmplaceGot(t) \/ Fire(t) \/ FutexWakeAll(t) \/ Wait(t) \/ FutexWait(t)

AllDone == (\A t \in Parties : stack[t] = << >>) /\ UNCHANGED combineVars

CombineNext == (\E t \in Parties : RunThread(t) \/ SpuriousWake(t)) \/ AllDone

CombineSpec == CombineInit /\ [][CombineNext]_combineVars

\* The producers and the main thread run.
CombineLiveSpec == CombineSpec /\ \A t \in Parties : WF_combineVars(RunThread(t))

-----------------------------------------------------------------------------
(* Properties.                                                             *)

Ops == {"result", "produce", "callback", "consume", "call", "delete", "store", "join",
        "exchange", "fail", "set", "emplace", "fire", "wake", "wait", "futex", "asleep"}

Flags ==
  CASE combinator = "Both" -> SUBSET Inputs
    [] combinator = "BothOk" -> SUBSET (Inputs \cup {"Fail"})
    [] combinator = "First" -> {{}, {"Satisfied"}}
    [] combinator = "FirstOk" -> {{}, {"Satisfied"}, {"ReportError"}}

CombineTypeOK ==
  /\ combinator \in Concurrent
  /\ terminator \in {"Get", "Detach"}
  /\ input \in [Inputs -> Value]
  /\ state_ \in [Contracts -> SUBSET {"Producer", "Consumer"}]
  /\ result_ \in [Contracts -> SUBSET Value]
  /\ callback_ \in [Contracts -> BOOLEAN]
  /\ deleted \in [Contracts -> Nat]
  /\ flags \in Flags
  /\ stored \in [Inputs -> SUBSET Value]
  /\ sets \in Nat
  /\ received \in SUBSET Value
  /\ event \in BOOLEAN
  /\ stack \in [Parties ->
       Seq([op : Ops, c : Contracts, value : SUBSET Value])]

\* Set is one-shot: a combinator calls Set of its promise at most once, in whatever
\* order and in whatever threads the callbacks of its inputs run.
SetOnce == sets <= 1

\* The promise is not dropped unsatisfied (the assert of ~Promise): it has been set
\* once when the states that own its last two references are deleted.
PromiseKept == deleted["f1"] = 1 /\ deleted["f2"] = 1 => sets = 1

\* Rendezvous reads the result and the callback after both have been constructed.
CallsAreReady ==
  \A t \in Parties : \A k \in DOMAIN stack[t] :
    stack[t][k].op = "call" => result_[stack[t][k].c] # NONE /\ callback_[stack[t][k].c]

\* A contract's state is deleted once, and nobody is going to use it then, except for
\* what the thread that deletes it has already read.
NoUseAfterDelete ==
  \A c \in Contracts : deleted[c] <= 1 /\
    (deleted[c] = 1 => \A t \in Parties : \A k \in DOMAIN stack[t] :
       stack[t][k].c = c => stack[t][k].op \notin
         {"result", "produce", "callback", "consume", "call", "delete"})

\* What ~ManualStorage destroys has been constructed: the halves of Both when the states
\* that own its ProtectedPromise are gone, and the result of Get when Wait has returned.
\* Not so the half of BothOk whose input has failed: its destructor runs on raw bytes.
StoragesBuilt ==
  /\ deleted["f1"] = 1 /\ deleted["f2"] = 1 =>
       \A i \in Inputs : combinator = "Both" \/ (combinator = "BothOk" /\ input[i].ok) =>
         stored[i] # NONE
  /\ terminator = "Get" /\ stack["main"] = << >> => received # NONE

\* When Get has returned its frame is gone: no thread is going to touch the event or the
\* result, although the one that fired is yet to wake the sleepers by their key.
FrameIsFree ==
  terminator = "Get" /\ stack["main"] = << >> =>
    \A t \in Parties : \A k \in DOMAIN stack[t] :
      stack[t][k].c = "out" => stack[t][k].op \notin {"call", "emplace", "fire"}

\* The value of "out" is the one the combinator promises.
Promised ==
  LET good == {v \in Range(input) : v.ok}
      bad == Range(input) \ good
      OneOf(values) == {{v} : v \in values}
  IN CASE combinator = "Both" -> {Range(input)}
       [] combinator = "First" -> OneOf(Range(input))
       [] combinator = "FirstOk" -> OneOf(IF good # {} THEN good ELSE bad)
       [] combinator = "BothOk" -> IF bad = {} THEN {good} ELSE OneOf(bad)

\* Nothing leaks: when the threads are done, every state has been deleted, also those
\* of the input that came too late and of the future that nobody waits for.
StatesDeleted == (\A t \in Parties : stack[t] = << >>) => \A c \in Contracts : deleted[c] = 1

\* The contracts, the storages and the frame of Get are used and given up as the ones
\* above say, and a promise is set once, and not dropped unsatisfied (with the type
\* invariant).
ContractInv ==
  /\ CombineTypeOK /\ CallsAreReady /\ NoUseAfterDelete /\ SetOnce /\ PromiseKept
  /\ StoragesBuilt /\ FrameIsFree /\ StatesDeleted

\* Get returns what the combinator promises: a first success or a last error, both
\* values or an error, never a value that was not there when it was read.
GotIsPromised == event => received \in Promised

\* Get returns, and so does every call of a producer, although Wait tests and sleeps
\* while another thread stores and wakes.
CombinedGetReturns == <>(\A t \in Parties : stack[t] = << >>)
=============================================================================

------------------------------ MODULE FutureChain ------------------------------
(***************************************************************************)
(* future/combine/seq: a pipe of Map, MapOk, AndThen, OrElse, Flatten,     *)
(* After and Via over a future made by Spawn, Ready or Contract, and Get   *)
(* or Detach at its end.                                                   *)
(*                                                                         *)
(* Future k of the pipe is the one that stage k made; future 0 is the      *)
(* source.  A contract is a single step here: FutureCombine shows that the *)
(* second of Set and Consume calls the callback, once, with the value.     *)
(* A step of a thread, a task of the pool and a timer have the same form:  *)
(* the lambda they run owns the promise of one future.                     *)
(***************************************************************************)
EXTENDS Integers, Sequences, FiniteSets

R == INSTANCE Result

CONSTANTS
  Workers,   \* the threads of the pool
  MaxStages  \* bound: stages of the pipe

ASSUME ChainAssumption == Workers # {} /\ MaxStages \in Nat

Combinators == {"Map", "MapOk", "AndThen", "OrElse", "Flatten", "After"}
Futures == 0 .. MaxStages
Threads == Workers \cup {"main", "producer"}

VARIABLES
  stage,     \* stage[k]: the combinator that made future k
  built,     \* stages so far
  main,      \* "build", "get", "done" or "detached"
  value,     \* value[k]: the value of future k, {} before Set, {v} after
  consumed,  \* consumed[k]: future k has a callback
  runtime,   \* runtime[k]: ContractState::runtime_ of future k
  outcome,   \* history: outcome[k]: what the user's function of stage k made, or {}
  todo,      \* todo[t]: the step thread t is about to do, or none
  pool,      \* the tasks submitted to the pool
  timers,    \* the timers set in the pool's runtime
  inner,     \* futures of the users, with a callback, not yet set
  got        \* the result of Get, as in value

pipeVars == <<stage, built, main, consumed, runtime>>
vars == <<pipeVars, value, outcome, todo, pool, timers, inner, got>>

\* The operations: Set the promise of future k, call the callback of future k, run
\* the user's function of stage k.
Do(op, k, v) == {[op |-> op, k |-> k, v |-> v]}
Nothing == {}

\* A value is a success or not, made by the functions in path.
Start(ok) == IF ok THEN R!Ok(<<0>>) ELSE R!Err(<<0>>)

\* Spawn submits, Ready has set the value, and for a bare Contract the producer has
\* the promise.
Init ==
  /\ stage = [k \in Futures |-> "Map"]
  /\ built = 0
  /\ main = "build"
  /\ consumed = [k \in Futures |-> FALSE]
  /\ timers = {} /\ inner = {} /\ got = {}
  /\ \E source \in {"spawn", "ready", "contract"}, ok \in BOOLEAN :
       /\ value = [k \in Futures |-> IF source = "ready" /\ k = 0 THEN {Start(ok)} ELSE {}]
       /\ runtime = [k \in Futures |-> IF source = "spawn" /\ k = 0 THEN "pool" ELSE "inline"]
       /\ outcome = [k \in Futures |-> IF k = 0 THEN {ok} ELSE {}]
       /\ pool = IF source = "spawn" THEN Do("user", 0, Start(ok)) ELSE {}
       /\ todo = [t \in Threads |->
            IF source = "contract" /\ t = "producer" THEN Do("set", 0, Start(ok)) ELSE Nothing]

Idle(t) == todo[t] = Nothing
Will(t, op) == \E s \in todo[t] : s.op = op
Arg(t) == CHOOSE s \in todo[t] : TRUE
Next1(t, step) == todo' = [todo EXCEPT ![t] = step]

-----------------------------------------------------------------------------
(* The main thread builds the pipe                                         *)

\* Consume(cb): if the value is there, the callback runs in this thread.
Consume(t, k) ==
  /\ consumed' = [consumed EXCEPT ![k] = TRUE]
  /\ Next1(t, IF value[k] = {} THEN Nothing ELSE Do("call", k, CHOOSE v \in value[k] : TRUE))

\* Pipe of a combinator: Contract, the runtime of the input, Consume.  After needs a
\* runtime with timers.
Pipe(c) ==
  /\ main = "build" /\ Idle("main")
  /\ built < MaxStages
  /\ c = "After" => runtime[built] = "pool"
  /\ built' = built + 1
  /\ stage' = [stage EXCEPT ![built + 1] = c]
  /\ runtime' = [runtime EXCEPT ![built + 1] = runtime[built]]
  /\ Consume("main", built)
  /\ UNCHANGED <<main, value, outcome, pool, timers, inner, got>>

Via(rt) ==
  /\ main = "build" /\ Idle("main")
  /\ runtime' = [runtime EXCEPT ![built] = rt]
  /\ UNCHANGED <<stage, built, main, consumed, value, outcome, todo, pool, timers, inner, got>>

Get ==
  /\ main = "build" /\ Idle("main")
  /\ main' = "get"
  /\ Consume("main", built)
  /\ UNCHANGED <<stage, built, runtime, value, outcome, pool, timers, inner, got>>

\* Consume with a callback that ignores the value; nobody waits for the pipe.
Detach ==
  /\ main = "build" /\ Idle("main")
  /\ main' = "detached"
  /\ Consume("main", built)
  /\ UNCHANGED <<stage, built, runtime, value, outcome, pool, timers, inner, got>>

\* event.Wait returns
GetReturn ==
  /\ main = "get" /\ Idle("main")
  /\ got # {}
  /\ main' = "done"
  /\ UNCHANGED <<stage, built, consumed, runtime, value, outcome, todo, pool, timers, inner, got>>

-----------------------------------------------------------------------------
(* The steps of a thread                                                   *)

\* Mutant of Set: the callback that came first is not called.
SetOnly(t) ==
  /\ Will(t, "set")
  /\ value' = [value EXCEPT ![Arg(t).k] = {Arg(t).v}]
  /\ Next1(t, Nothing)
  /\ UNCHANGED <<pipeVars, outcome, pool, timers, inner, got>>

\* Promise::Set: if there is a callback, it runs in this thread.
Set(t) ==
  LET s == Arg(t) IN
  /\ Will(t, "set")
  /\ value' = [value EXCEPT ![s.k] = {s.v}]
  /\ Next1(t, IF consumed[s.k] THEN Do("call", s.k, s.v) ELSE Nothing)
  /\ UNCHANGED <<pipeVars, outcome, pool, timers, inner, got>>

\* SubmitTask to a runtime: Inline runs the task before it returns.
Submit(t, rt, task) ==
  IF rt = "pool"
    THEN pool' = pool \cup task /\ Next1(t, Nothing)
    ELSE Next1(t, task) /\ UNCHANGED pool

\* Consume of a user's future with a callback that sets the promise of k: its value
\* is there already, or the producer comes later.
ConsumeInner(t, k, v) ==
  \/ Next1(t, Do("set", k, v)) /\ UNCHANGED inner
  \/ Next1(t, Nothing) /\ inner' = inner \cup Do("set", k, v)

\* Mutant of Skips: OrElse runs its function for a success, too.
SkipsErrors(c, v) == c \in {"MapOk", "AndThen", "OrElse"} /\ ~v.ok

\* The callback passes on what the user's function is not for.
Skips(c, v) == \/ c \in {"MapOk", "AndThen"} /\ ~v.ok
               \/ c = "OrElse" /\ v.ok

\* Mutant of CallSkip: no return after the Set, the task is submitted as well.
CallSkipFallsThrough(t) ==
  LET s == Arg(t) IN
  /\ Will(t, "call")
  /\ s.k < built /\ Skips(stage[s.k + 1], s.v)
  /\ Next1(t, Do("set", s.k + 1, s.v))
  /\ pool' = pool \cup Do("user", s.k + 1, s.v)
  /\ UNCHANGED <<pipeVars, value, outcome, timers, inner, got>>

CallSkip(t) ==
  LET s == Arg(t) IN
  /\ Will(t, "call")
  /\ s.k < built /\ Skips(stage[s.k + 1], s.v)
  /\ Next1(t, Do("set", s.k + 1, s.v))
  /\ UNCHANGED <<pipeVars, value, outcome, pool, timers, inner, got>>

\* The callback submits the user's function to the runtime its input had.
CallSubmit(t) ==
  LET s == Arg(t) IN
  /\ Will(t, "call")
  /\ s.k < built /\ stage[s.k + 1] \notin {"Flatten", "After"} /\ ~Skips(stage[s.k + 1], s.v)
  /\ Submit(t, runtime[s.k], Do("user", s.k + 1, s.v))
  /\ UNCHANGED <<pipeVars, value, outcome, timers, inner, got>>

CallFlatten(t) ==
  LET s == Arg(t) IN
  /\ Will(t, "call")
  /\ s.k < built /\ stage[s.k + 1] = "Flatten"
  /\ ConsumeInner(t, s.k + 1, s.v)
  /\ UNCHANGED <<pipeVars, value, outcome, pool, timers, got>>

CallAfter(t) ==
  LET s == Arg(t) IN
  /\ Will(t, "call")
  /\ s.k < built /\ stage[s.k + 1] = "After"
  /\ timers' = timers \cup Do("set", s.k + 1, s.v)
  /\ Next1(t, Nothing)
  /\ UNCHANGED <<pipeVars, value, outcome, pool, inner, got>>

\* The callback of Get, or of Detach.
CallEnd(t) ==
  LET s == Arg(t) IN
  /\ Will(t, "call")
  /\ s.k = built
  /\ got' = IF main = "get" THEN {s.v} ELSE got
  /\ Next1(t, Nothing)
  /\ UNCHANGED <<pipeVars, value, outcome, pool, timers, inner>>

\* The user's function of stage k, or of Spawn: MapOk's returns a plain value, those
\* of AndThen and OrElse return a future.
User(t) ==
  LET k == Arg(t).k
      in == Arg(t).v
  IN
  /\ Will(t, "user")
  /\ \/ k = 0
        /\ Next1(t, Do("set", k, in))
        /\ UNCHANGED <<outcome, inner>>
     \/ k > 0
        /\ \E ok \in IF stage[k] = "MapOk" THEN {TRUE} ELSE BOOLEAN :
             LET out == [ok |-> ok, path |-> Append(in.path, k)] IN
             /\ outcome' = [outcome EXCEPT ![k] = {ok}]
             /\ IF stage[k] \in {"AndThen", "OrElse"}
                  THEN ConsumeInner(t, k, out)
                  ELSE Next1(t, Do("set", k, out)) /\ UNCHANGED inner
  /\ UNCHANGED <<pipeVars, value, pool, timers, got>>

Run(t) ==
  \/ Set(t) \/ CallSkip(t) \/ CallSubmit(t) \/ CallFlatten(t) \/ CallAfter(t) \/ CallEnd(t)
  \/ User(t)

-----------------------------------------------------------------------------
(* The pool, its timer thread and the producer of the users' futures       *)

TakeTask(w) ==
  /\ Idle(w)
  /\ \E task \in pool : pool' = pool \ {task} /\ Next1(w, {task})
  /\ UNCHANGED <<pipeVars, value, outcome, timers, inner, got>>

Expire ==
  /\ \E timer \in timers : timers' = timers \ {timer} /\ pool' = pool \cup {timer}
  /\ UNCHANGED <<pipeVars, value, outcome, todo, inner, got>>

SetInner ==
  /\ Idle("producer")
  /\ \E step \in inner : inner' = inner \ {step} /\ Next1("producer", {step})
  /\ UNCHANGED <<pipeVars, value, outcome, pool, timers, got>>

-----------------------------------------------------------------------------
Build == Get \/ Detach \/ (\E c \in Combinators : Pipe(c)) \/ \E rt \in {"inline", "pool"} : Via(rt)

Worker(w) == Run(w) \/ TakeTask(w)
Producer == Run("producer") \/ SetInner
Main == Run("main") \/ GetReturn

Terminated == main \in {"done", "detached"} /\ (\A t \in Threads : Idle(t)) /\ UNCHANGED vars

Next == Build \/ Main \/ Producer \/ Expire \/ (\E w \in Workers : Worker(w)) \/ Terminated

Spec == Init /\ [][Next]_vars

\* The threads run, the pool runs what is submitted, timers expire; the pipe may be
\* built at any pace, or never.
LiveSpec ==
  /\ Spec
  /\ WF_vars(Main) /\ WF_vars(Producer) /\ WF_vars(Expire)
  /\ \A w \in Workers : WF_vars(Worker(w))

-----------------------------------------------------------------------------
(* Properties.                                                             *)

Values == [ok : BOOLEAN, path : Seq(Futures)]
Steps == [op : {"set", "call", "user"}, k : Futures, v : Values]

TypeOK ==
  /\ stage \in [Futures -> Combinators]
  /\ built \in Futures
  /\ main \in {"build", "get", "done", "detached"}
  /\ \A k \in Futures : value[k] \subseteq Values /\ Cardinality(value[k]) <= 1
  /\ consumed \in [Futures -> BOOLEAN]
  /\ runtime \in [Futures -> {"inline", "pool"}]
  /\ outcome \in [Futures -> SUBSET BOOLEAN]
  /\ \A t \in Threads : todo[t] \subseteq Steps /\ Cardinality(todo[t]) <= 1
  /\ pool \subseteq Steps /\ timers \subseteq Steps /\ inner \subseteq Steps
  /\ got \subseteq Values

\* Who owns the promise of future k: a step, a task, a timer or a user's future, or
\* the callback that waits for future k - 1.
Owns(s, k) == (s.op # "call" /\ s.k = k) \/ (s.op = "call" /\ s.k = k - 1)

Owners(k) ==
  {<<"thread", t>> : t \in {u \in Threads : \E s \in todo[u] : Owns(s, k)}}
  \cup {<<"pool", s>> : s \in {q \in pool : Owns(q, k)}}
  \cup {<<"timer", s>> : s \in {q \in timers : Owns(q, k)}}
  \cup {<<"inner", s>> : s \in {q \in inner : Owns(q, k)}}
  \cup {<<"callback", j>> : j \in {i \in 0 .. k - 1 : i = k - 1 /\ consumed[i] /\ value[i] = {}}}

\* The promise of each future of the pipe has one owner until it is set and none
\* afterwards: it is neither dropped (the assert of ~Promise) nor set twice, on
\* whatever way through callbacks, tasks, timers and inner futures it goes.
PromiseOwned ==
  \A k \in 0 .. built : Cardinality(Owners(k)) = IF value[k] = {} THEN 1 ELSE 0

\* A function runs in the runtime that the future before it had when it was piped: a
\* Via behind a stage does not move the stage, and one before it does.
RunsInRuntime ==
  \A t \in Threads : \A s \in todo[t] :
    s.op = "user" /\ s.k > 0 /\ runtime[s.k - 1] = "pool" => t \in Workers

\* Every future is set by the one that must, and every function runs where it must
\* (with the type invariant).
ChainInv == TypeOK /\ PromiseOwned /\ RunsInRuntime

\* The same pipe over results: what the functions make, called one after the other, with
\* the combinators of the same names in result/; Flatten and After keep the value.
Evaluate ==
  LET eval[k \in 0 .. built] ==
        IF k = 0
        THEN Start(TRUE \in outcome[0])
        ELSE LET user == [name |-> k, ok |-> TRUE \in outcome[k]]
                 r == eval[k - 1]
             IN CASE stage[k] = "Map" -> R!Made(user, r)
                  [] stage[k] = "MapOk" -> R!Map(r, user)
                  [] stage[k] = "AndThen" -> R!AndThen(r, user)
                  [] stage[k] = "OrElse" -> R!OrElse(r, user)
                  [] OTHER -> r
  IN eval[built]

\* An asynchronous pipe computes what the same pipe of results does, and calls no
\* function that it does not: whoever runs the stages, in whatever order they are set.
GetIsRight ==
  /\ got # {} => got = {Evaluate}
  /\ main \in {"done", "detached"} /\ value[built] # {} => value[built] = {Evaluate}

\* Get has returned, or a detached pipe has run to its end; a pipe need not be built.
Ended ==
  CASE main = "get" -> FALSE
    [] main = "detached" -> value[built] # {} /\ \A t \in Threads : Idle(t)
    [] OTHER -> TRUE

\* Get returns once the pipe is built, and a detached pipe runs to its end.
GetReturns == []<>Ended
================================================================================

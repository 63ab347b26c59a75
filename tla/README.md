# A TLA+ verification of cpp-concurrency

The repository is a C++ framework for concurrent programming: runtimes that run
tasks (`source/runtime`), stackful fibers with their synchronization and channels
(`source/fiber`), futures (`source/future`), futex-based thread primitives
(`source/thread`), and hazard pointers with an atomic shared pointer (`source/gc`).
It comes without tests. This directory holds TLA+ models of it, the TLC runs that
check them, and theorems about them checked by TLAPS. `PROJECT.json` maps every
definition to the lines it models.

    tlc -workers 2 -config WSQueue.cfg WorkStealingQueue             # one run
    tlapm WorkStealingQueueProofs.tla                               # one proof

Paths below are relative to `src/source/`. A `.cfg` gives a module its
constants; where that takes definitions (symmetry, a set with -1) `MC<M>.tla` holds them.


## 1. Inventory

| Component | State it keeps | Operations | Interacts with |
|---|---|---|---|
| work-stealing queue (`runtime/multi_thread/v2/ws/work_stealing_queue.hpp`) | ring of atomic slots, `head_`, `tail_` | `TryPush`, `TryPop` by its worker, `Grab` by anyone | a worker's pushes and pops race with thieves |
| work-stealing pool (`v2/ws/worker.cpp`, `coordinator.cpp`, `global_queue.hpp`, `thread_pool.cpp`) | global queue; per worker a local queue, a LIFO slot, `wakeups_`, `has_stopped_`; list of stopped workers with `approximate_size_` | `Submit` with three hints, `PickTask`, stealing, parking, `WakeWorker`, `Stop` | tasks call `Submit`; futex per worker |
| thread pool v1 (`v1/thread_pool.cpp`, `detail/queue.hpp`) | unbounded blocking queue: `buffer_`, `waiting_`, `is_closed_` | `Submit`, `Start`, `Stop`, `Push`, `Pop`, `Close` | mutex and condition variable |
| timer thread and the two runtimes (`v1/timer_thread.cpp`, `v1/runtime.cpp`, `v2/runtime.cpp`, `detail/timer_queue.hpp`) | blocking heap of timers, `timer_enable_` | `Set`, `Run`, `Start`, `Stop` | submits to either pool from outside; tasks set timers |
| leftist heap (`detail/intrusive_leftist_heap.hpp`) | intrusive links, depths | `Push`, `Pop`, `Top` | under the timer queues |
| run loop (`runtime/run_loop`) | task queue, timer queue, `is_closed_` | `Run`, `Stop`, `Submit`, `Set` | other threads submit and stop |
| sandbox (`runtime/sandbox`) | task list, timers, manual clock | `RunAtMostTasks`, `AdvanceClock*`, `Submit`, `Set` | one thread; tasks call back |
| fiber core (`fiber/core`, `fiber/sched`) | the coroutine, `cb_`, `this_ptr` of the thread; the timer of `SleepFor` on the stack | `Run`, `Resume`, `Suspend`, `Yield`, `SleepFor`, `Go` | a fiber is a task of the runtime, also as the task of a timer |
| fiber mutex, wait group, event (`fiber/sync`) | spin lock, flag or counter, wait queue | `Lock`, `TryLock`, `Unlock`; `Add`, `Done`, `Wait` | a suspended fiber releases the spin lock from a callback |
| fiber channels (`fiber/chan`) | circular buffer, waiters of one kind, `state_` | `Send`, `Receive` | hand values to parked fibers |
| future contract (`future/detail`, `future/make/contract.hpp`) | value, callback, rendezvous flags | `Set`, `Consume` | producer and consumer race; the second one calls and deletes |
| results (`result/`) | a value or an error | `Ok`, `Err`, `Map`, `AndThen`, `OrElse` | values of futures |
| combinators (`future/combine`) | shared promise, atomic flags | `Both`, `First`, `FirstOk`, `BothOk`; `Map`, `AndThen`, `OrElse`, `MapOk`, `Flatten`, `Via`, `After` | callbacks on inputs set the output |
| `Get`, `Detach`, thread event (`future/terminate`, `thread/event.hpp`) | event word and result, on the stack of `Get` | `Fire`, `Wait` | callback fires the waiter's event |
| thread mutex, condition variable, wait group (`thread/`) | futex words | `Lock`, `Unlock`, `Wait`, `NotifyOne`, `NotifyAll`, `Add`, `Done` | under the wait group and the blocking queues where `CUSTOM_PRIMITIVES` is defined (`thread/primitives.hpp:2`) |
| hazard pointers (`gc/hazard`) | list of mutators, a hazard pointer each, retired lists | `Protect`, `Retire`, `Gc`, `IsProtected`, `Close` | every thread scans the others' hazards |
| atomic shared pointer (`gc/atomic_shared_ptr.hpp`) | pointer, reference counts | `Load`, `Store`, `CompareExchangeWeak` | retires through the hazard pointers |

Hard behaviours, and what makes each component correct:

- **lock-free races** (queue, rendezvous, combinators, reference counts): a stale
  read is committed by a later CAS or exchange. Correct means linearizable: the
  queue implements an atomic FIFO queue, the pointer an atomic cell, promises are
  set once.
- **sleep and wake-up** (parking, blocking queue, futex mutex, condition variable,
  fibers): a notification between the last test and the sleep must not be lost, and
  a woken thread must find what it was woken for or somebody else must have it.
- **suspension with a lock held** (fiber primitives): the waiter is published before
  the lock is released, and may run again on another thread before its callback ends.
- **shut-down** (`Stop` of pools, runtimes and the loop): what was submitted in time
  is run, threads end, and what is dropped is known.
- **memory life time** (contract state, wait groups, fibers and the timers on their
  stacks, the frame of `Get`, hazard pointers): nothing is touched after the step that
  lets another party free it.
- **time**: timers never early, never forgotten, in the order of deadlines.
- **boundaries**: a full ring, the wrap of a circular buffer, 32-bit counters, a
  `size_t` limit of -1.

`PROJECT.json` lists these hazards at their lines with the properties that cover them.


## 2. Modules

| Module | Models | Composed with |
|---|---|---|
| `TaskQueue` | abstract bounded FIFO queue with atomic operations | implemented by `WorkStealingQueue` |
| `WorkStealingQueue` | one action per atomic access of `TryPush`, `TryPop`, `Grab` | |
| `WorkStealingPool` | workers, coordinator, global queue, client | local queues as `TaskQueue` specifies |
| `TimerThread` | the timer thread and its blocking queue; what `Submit` does is left to the runtime | instantiated by the next two |
| `StealingRuntime` | v2 runtime: pool and timer thread | extends `WorkStealingPool` |
| `TimedRuntime` | v1 runtime: pool and timer thread | extends `ThreadPool` |
| `FiberRuntime` | fibers as tasks of the v1 runtime: `Run` step by step, `Yield`, `SleepFor`, `Go` | extends `TimedRuntime`; implements `FiberScheduler` |
| `FiberScheduler` | abstract: a fiber is executed by one thread at a time, and goes on only when it was scheduled | implemented by `FiberRuntime` and by `FiberPrimitives` |
| `FiberSync` | fibers, suspend callbacks, spin lock, `UniqueLock`, `WaitQueue` | extended by the next five |
| `FiberMutex`, `FiberWaitGroup` | `fiber/sync` | extend `FiberSync` |
| `FiberChannel` | what both channels share | extends `FiberSync` |
| `BufferedChannel`, `RendezvousChannel` | the two channel states | extend `FiberChannel`; implement `Channel` |
| `Channel` | abstract FIFO channel; its capacity is a variable that never changes | |
| `FiberPrimitives` | a runtime whose fibers share one primitive: a mutex, a wait group, or a channel of either kind | extends `FiberMutex`, instantiates the others |
| `FutureCombine` | contract, rendezvous, `Both`, `First`, `FirstOk`, `BothOk`, `Get` with its event, `Detach` | |
| `FutureChain` | pipes of sequential combinators over runtimes | contracts are atomic here, as `FutureCombine` justifies |
| `Result` | `Ok`, `Err`, `Map`, `AndThen`, `OrElse` | what the pipes of `FutureChain` are compared with |
| `HazardPointers` | collector, mutators, owners | extended by `AtomicSharedPtr` |
| `AtomicSharedPtr` | the pointer and its counts | implements `AtomicPointer` |
| `AtomicPointer` | abstract atomic cell with strong references | |
| `ThreadPool` | v1 pool over the blocking queue | |
| `RunLoop` | the run loop with both of its queues | |
| `LeftistHeap` | `Push`, `Pop` and `Merge` on the links of the nodes, with a stack of the calls of `Merge` | implements `TimerHeap` |
| `TimerHeap` | abstract priority queue | |
| `Sandbox` | manual loop, clock, timer queue | extends `LeftistHeap`: its timers are nodes of the heap |
| `FutexSync` | `Mutex` and `CondVar` over futexes | extended by the next two |
| `ThreadWaitGroup`, `BlockingQueue` | the wait group and the blocking queue of tasks over them | extend `FutexSync` |
| `ThreadPrimitives` | threads that share one of the two | extends both |
| `WorkStealingQueueProofs`, `FiberPrimitivesProofs`, `ThreadPrimitivesProofs`, `AtomicSharedPtrProofs` | theorems | extend their component |
| `FutureProofs` | theorems about concurrent combinators, then about pipes | extends `FutureChain` and `FutureCombine` |
| `LoopProofs` | theorems about the sandbox and its heap, then about the run loop | extends `Sandbox` and `RunLoop` |
| `StealingRuntimeProofs` | theorems about the pool, then about the runtime | extends `StealingRuntime` |
| `FiberRuntimeProofs` | theorems about the v1 pool, lemmas about its runtime whatever the tasks do, theorems about fibers | extends `FiberRuntime` |

Two components that share a proof module have no name in common: hence `CombineSpec`,
`RunLoopSpec` and the like.

Variables keep the names of the members they model (with the trailing underscore);
`pc`, `todo`, `stack` and the like say which step a thread or fiber does next; variables
commented as *history* are read by properties only.

**What a step is.** Where the code races on atomics, one action is one atomic
access (`WorkStealingQueue`, `FutureCombine`, `AtomicSharedPtr`, `Mutex`, `CondVar`
and the event of `Get` with their futexes). The accesses are sequentially consistent, as the code asks for
everywhere. Steps are merged in these places, each for a reason:

- sections under `std::mutex` (an external library) are one action, and so are the
  sections of the fiber primitives under their spin lock up to the release, which is
  a step of its own. In `FiberMutex` the non-atomic `std::exchange` is nevertheless
  two steps, because its atomicity depends on the spin lock;
- `Worker::Wake` (increment and futex wake) is one action: a worker that comes
  between the two finds the counter changed and does not sleep. `wakeups_` is kept as
  "has changed since the worker loaded it", which is all the futex compares;
- `approximate_size_` changes together with the list, under the same spin lock; the
  reader in `ShouldWakeWorker` takes no lock and reads at any time. `spinning_` is
  read nowhere and left out;
- the worker's local queue is atomic in `WorkStealingPool`: that is what the theorem
  `Refinement` says of it. A grab and the unpacking of the thief's buffer remain
  separate steps, one per task;
- a contract is atomic in `FutureChain` (set and subscribe in either order, one call
  of the callback): `CallsAreReady` and `NoUseAfterDelete` of `FutureCombine`;
- `Merge` calls itself once: in `LeftistHeap` the code before the inner call is a step and
  the code after it another, and the roots that wait for an inner call are a stack. Nothing
  else happens meanwhile, as the sandbox has one thread; the steps let the properties of
  the heap speak of what `Merge` has in its hands, too;
- `Collector::Close` runs when all other threads have ended;
- `FiberPrimitives` chooses one primitive at the start, and so does `ThreadPrimitives`.
  Fibers that use several have nothing in common but the runtime, which may resume any
  runnable fiber at any time. `FiberPrimitives` takes `Resume` of a fiber as a step and a
  set of runnable fibers; `FiberRuntime` has the steps of `Run` and the real queues, and
  both implement `FiberScheduler`;
- the switch of the context is one step, between this thread's own step and the next;
- `TimedRuntime` and `StealingRuntime` take the blocking queues' sections as steps, with a
  condition variable that wakes one waiter, or all, or any for no reason: `BlockingQueue`
  has the same code with each access of `Mutex` and `CondVar`.

Spurious wake-ups of condition variables and futexes, spurious failures of weak CAS
and the reuse of freed addresses are modelled. Time is a small counter; a sleeping
timer thread goes on when `now >= deadline`.


## 3. Runs

Every `pass` run ends without an error; every property has a mutant of the code that
breaks it (`PROJECT.json`, "mutants"). Safety and liveness are checked in the same run.
Deadlock is checked in `ws_queue`, `atomic_shared_ptr` and `sandbox`: there a thread can
always go on, unless all have ended as `Terminated` says. The other runs set
`CHECK_DEADLOCK FALSE`, because their systems really may stop: workers and the loop
sleep when nobody submits or stops, a `Pop` or a fiber of a channel may wait for a peer
that never comes, a pipe may never be built. What must not stop there is the subject of
a property: `NoStrandedTask`, `EnoughWoken` (in `PoolInv`), `AwakeForTasks` (in
`LoopInv`), `PoppersTold` (in `SyncInv`), `WaitersJustified` and the liveness properties.

A property that is a conjunction names its parts, each with its own comment in the
module: `EachTaskOnce`, `CoordinatorInv`, `PrimitiveInv`, `WaitersJustified`,
`ContractInv`, `ChainInv`, `CountsInv`, `PoolInv`, `RuntimeInv`, `FiberInv`, `LoopInv`,
`SyncInv`, `ManualLoopInv`, `HeapInv`, `LoopProgress`.

| Run | Bounds | States | Shows |
|---|---|---|---|
| `ws_queue` | owner, 1 thief, capacity 2, buffer 2, 3 tasks, 4 pushes | 64 000 | `WSInv`, `Exclusive`; the ring implements `TaskQueue` (`TQSpec`); `TryPush`, `TryPop`, `Grab` return |
| `pool` | 2 workers, 4 tasks, local capacity 1, spurious futex wake-ups while fewer than 2 workers are counted as stopped (`MaxSize`), `Stop` at any time | 1.7 million | no task lost or duplicated, also when it overflows or is stolen, nothing left in LIFO slots, and `Stop` leaves tasks in the global queue only (`EachTaskOnce`); the list of stopped workers and its size cover the parked ones (`CoordinatorInv`); no parked worker next to a task that nobody looks for (`NoStrandedTask`) |
| `stealing_runtime` | 2 workers, the timer thread or none, 2 tasks, one that is submitted and one that is set with a delay of 1 | 970 000 | no task lost between timers and pool, no timer left by `Stop`, and tasks in the global queue only (`RuntimeKeepsTasks`); `NoStrandedTask` with the timer thread as a second submitter beside the client (`NoStrandedTimer`); tasks run unless `Stop` is called, `Stop` returns (`RuntimeProgress`) |
| `fiber_primitives` | 3 fibers, 2 threads, 2 calls each, 2 units, 2 waits, capacity 2 or none | 230 000 | `MutualExclusion`; fibers in one place, one spin-lock owner, types and `MutexInv` (`PrimitiveInv`); no lost wake-up, and `Wait` returns only after zero (`WaitersJustified`) and when no `Done` is inside (`DoneIsOver`); channels implement `Channel` (`ChannelSpec`), all of them `FiberScheduler` (`SchedulerSpec`); `CallsSettle` |
| `future_combine` | 4 combinators, `Get` or `Detach`, every outcome of two inputs (of `BothOk`: at most one failure) | 15 000 | one `Set`; no use after delete, no call before both sides are ready, no destructor of a storage that is not built, no dropped promise, no leak, nobody in the frame of a `Get` that has returned (`ContractInv`); `GotIsPromised`, `CombinedGetReturns` |
| `future_both_ok` | `BothOk`, two failures | | **violation** of `SetOnce`, see below |
| `future_chain` | up to 3 stages out of six, `Via` anywhere, 3 sources, `Get` or `Detach`, 2 workers | 880 000 | each promise has one owner at any time and each function runs in its input's runtime (`ChainInv`); the value is that of the same pipe of `Result`s (`GetIsRight`); `GetReturns` |
| `atomic_shared_ptr` | 2 threads, 2 calls each, 3 addresses | 107 000 | exact counts, one retirement, no leak (`CountsInv`); no protected object is destroyed (`DestroyIsSafe`); implements `AtomicPointer` (`PointerSpec`) |
| `fiber_runtime` | 2 threads and the timer thread or none, a fiber that is suspended up to 3 times, a function, delays 0 and 1, time to 1 | 167 000 | `PoolInv` of `ThreadPool`; the same for the queue of timers, no timer early, none left by `Stop` (`RuntimeInv`); timers on stacks, fibers after the switch and `Self()` (`FiberInv`); `FiberScheduler` is implemented (`SchedulerSpec`); what came in time runs, fibers to their end, `Stop` returns (`RuntimeProgress`) |
| `run_loop` | 3 tasks, delays 0-2, time to 3 | 257 000 | nothing submitted in time is left, no lost notification (`LoopInv`); no timer early, tasks run, `Run` returns after `Stop` (`LoopProgress`) |
| `thread_primitives` | 3 threads; 3 units and 2 waits, or 2 values, 2 calls of `Pop` and a `Close`; 2-bit counter | 487 000 | the futex mutex excludes, no sleeper forgotten by it or by the condition variable, values in order (`SyncInv`); safe destruction (`DoneIsOver`); `CallsReturn` |
| `sandbox` | 5 tasks and timers, 3 delays, limits 0, 2 and the largest of 3 bits, time to 2 | 424 000 | number of tasks run and their order (`ManualLoopInv`), none overdue (`NotOverdue`); the heap is a tree with short paths, in parts during a merge, whose popped nodes are unlinked (`HeapInv`), and implements `TimerHeap` (`HeapSpec`) |

Why the bounds are enough. Capacity 2 with 4 pushes wraps the ring and refills the
slot that the thief is reading; that more thieves race in the same way is left to the
proof, which holds for any number. In the pool capacity 1 makes every second local push
an overflow, two workers steal both ways while a client submits and stops, and four
tasks fill a slot, both queues and a buffer at once. `FILOMaxChain` 1 and `PollPeriod` 2
(1 in `stealing_runtime`) stand for 16 and 61: what matters is that the boundary is
reached. In `stealing_runtime` the client submits one task and sets a timer for the other,
or a running task does, so that the client and the timer thread may be inside `Submit` at
the same time, before `Stop` and after the workers have left. One client calls `Submit`,
`Set` and `Stop` in turn; a `Set` from another thread beside `Stop`, which leaves a timer
in the closed queue, is part of `fiber_runtime`. Three fibers give a
holder, a waiter and a barging fiber, or two waiters of a channel; a channel of capacity
2 has three slots, which 6 calls wrap; two threads let a woken fiber run while the
callback of its suspension still does. The combinators have two inputs. Three addresses
let one be freed and used again while two objects live. Two pool threads are the fewest
for which one notification can reach the wrong one. One fiber in `fiber_runtime` is
enough for a fiber that is resumed, slept for, or ended by the other thread while the
first is inside `Resume`, and three suspensions for one that yields and sleeps in any
order; what it has in common with other fibers and functions is the two queues, and the
safety of those and of any number of fibers is proved. Five timers are enough for a merge
that exchanges children and for a heap of depth 2. A counter of 2 or 3 bits stands for 32
or 64 where it may wrap. Symmetry is used only in runs without liveness.

**Fairness.** Runs with liveness assume that each thread of a runtime is scheduled (WF of
its step), that tasks and critical sections end, that a caller inside `Submit`, `Set` or
`Stop` goes on, that a thread or fiber makes the calls of `Done` it owes, and that time
passes. Nobody is obliged to submit, to call, or to stop. Strong fairness is used for
the weak CAS of `TryPop` and `Grab` only (`PopCas`, `GrabCas` in `WorkStealingQueue`):
a weak CAS that can succeed again and again does not fail spuriously for ever. Nothing
is assumed about who gets a lock; that is why `CallsSettle` needs finitely many calls,
and it does not say that the mutex is fair: barging is allowed by the code.

Most liveness properties have the form `[]<>Settled`: again and again nothing is left to
do. As tasks, suspensions and calls are finitely many in a behaviour, it says that each of
them runs, goes on, or returns; TLC checks it faster than a leads-to per task.

### Disagreements found

`future_both_ok`: when both inputs of `BothOk` fail, both callbacks call `Set` of the one
promise (`future/combine/concur/result/all.hpp:33`): the `fetch_or(Fail)` comes after
`Set`, and its result is not looked at. `future/make/contract.hpp:39` says of `Set`
that it is one-shot.

Facts that the models make visible and no document contradicts, so that no run claims
them to be wrong:

- the run loop blocks in `tasks_.Pop()` (`run_loop/runtime.cpp:15`) while timers are
  pending: a timer that is set or becomes due meanwhile fires when a task arrives or the
  loop is stopped. `LoopProgress` speaks of submitted tasks only;
- `CondVar::Wait` compares a 32-bit counter with `<=` (`thread/condvar.hpp:18`): a
  waiter that read the largest value never leaves, although it was notified.
  `CallsReturn` holds with a `Width` that the notifications of the run do not exhaust;
- `Stop` of the work-stealing pool does not drain it (a worker whose second
  `TryGetWork` came before a `Submit` exits when it then loads `has_stopped_`;
  `StopLeavesOnlyGlobal` says where such tasks are);
- timers that fire between the stop of a pool and that of its timer thread are submitted
  to a closed queue, or to the global queue that the workers have left, and may never run
  (`late`, `RuntimeKeepsTasks`); so may one that another thread sets while `Stop` closes the
  queue of timers (`orphans`). A fiber that sleeps then never ends;
- the half of `BothOk` whose input failed is never constructed, and the destructor of its
  storage runs all the same (`future/detail/manual_storage.hpp:18`; `StoragesBuilt`).


## 4. Proofs

The proofs hold for every value of the constants under the named assumptions of
the module.

**`WorkStealingQueueProofs`** (`WSAssumption`: the owner is no thief, NULL no task,
`Capacity >= 1`, `GrabAmount >= 2`). `Safety`: `WSInv` always holds; `NoTaskTwice`:
`Exclusive`; `Refinement`: the queue implements `TaskQueue`. Indices are unbounded
naturals: the code's are 64 bits. `Exclusive` is not inductive: whether a CAS hands
out a task twice depends on what was copied before it. `WSInv` adds `Window`
(`head_ <= tail_ <= head_ + Capacity`, live slots hold tasks), `LocalsOK` (no operation
holds an index newer than the shared ones) and `Snapshot` (while `head_` is what an
operation loaded, what it copied is the front of the queue). The retry loops are
harmless because `head_` only grows, so a CAS that succeeds commits a snapshot. In the
refinement the successful CAS, or the store of `tail_`, is the abstract operation; an
operation that reports full or empty does so at the load that decided it.

**`FiberPrimitivesProofs`** (`FiberAssumption`, `CallsAssumption`, `BoundsAssumption`:
`Capacity >= 1`, the other bounds are naturals, no thread is named like a status; fibers
and threads arbitrary). All properties of the run `fiber_primitives` but `CallsSettle`:
`PrimitivesInvariant`: `PrimitiveInv`; `MutexExcludes`: `MutualExclusion`;
`WaitersHaveReasons`: `WaitersJustified`; `WaitGroupMayGo`: `DoneIsOver`;
`PrimitivesSchedule`: `SchedulerSpec`; `ChannelsAreQueues`: `ChannelSpec`. The invariant
`InUse` is `Machine` and a part for each primitive.

`Machine` is about fibers and the spin lock, whatever primitive uses them: who owns the
spin lock executes (`OwnersRun`), also while its fiber is suspended, when it is the callback
that owns it, on the flag of the fiber's `UniqueLock` (`FlagsOwned`), with the fiber already
in `fibers_`. The steps of all calls come down to a few (`Moves`, `Leaves`), for
which `Machine` and the refinement of `FiberScheduler` are proved once.

- `MutexPart`: the exchange of `is_locked_` excludes only if nobody intervenes between its
  read and write (`ReadIsFresh`), which one owner of the spin lock ensures; and a fiber is
  put into the queue only while the mutex is locked (`ParksWhileLocked`).
- `GroupPart`: `count_` is the number of calls of `Done` to come (`CountInv`), kept as a
  set of pairs so that a step adds or removes one; fibers sleep, or are about to, only while
  one is to come (`DoneToCome`); a woken waiter does not test the counter again, so that
  what it rests on is that the counter was 0 when it was woken (`ZeroSeen`).
- `ChannelPart`: who waits in `waiters_` or is about to be put there wants the same
  (`Agreed`), and what a call sends is its own (`OwnMessages`). `BufferedPart` adds the
  slots and that the buffer is full, or empty, while somebody waits or is about to.

For `ChannelSpec` the lemmas `ContentsPut`, `ContentsTake` and `ContentsShift` say what an
emplace, a pop and a pop that makes room for a waiting sender do to the sequence of values
in the circular buffer, also where the indices wrap (`Place`). A value has been put into
the queue when its `Send` emplaces it, or at the push into `waiters_`, in the callback;
what the callback does between this and the end of `unlock` is invisible. That a returning
`Send` keeps to the capacity needs `OwnMessages`: its value would be among those of the
waiting senders only if the fiber itself were.

**`ThreadPrimitivesProofs`** (`FutexAssumption`, `WaitGroupAssumption`, `QueueAssumption`:
finitely many threads, bounds in `Nat`). `FutexExcludes`: `MutualExclusion`;
`NoForgottenSleeper`: `SleepersCovered`; `SafeToDestroy`: `DoneIsOver`;
`NobodySleepsForNothing`: `SyncInv`. `LockInv` says who owns the mutex at each label and that
the word is `Unlocked` exactly when nobody does; every step is reduced to its effect on
one thread (`Effect`), which also covers the threads it wakes. `CountInv` says that
`count_` is the number of units added and not done. The units are kept as pairs of a
thread and a number, so that a step adds or removes one element of a set and no sum is
needed.

`SyncInv` needs `NotificationsFit`, a hypothesis of the theorem and not of the module: the
counter of the condition variable has more values than there are notifications in all, one
at most for each `Done` and `Push` and one for `Close`. Without it the counter may come
back to the value a waiter remembers, and the waiter sleeps on (a hazard of the code, at
`condvar.hpp:18`); the runs satisfy it (4 values, 3 notifications). That the hypothesis
keeps the counter from wrapping is proved from `GroupFits` and `QueueFits`. `SleepInv` then
adds to `LockInv` and `CountInv`: which labels belong to which call (`Calling`), that
`waiters` and `waiting_` are the numbers of threads in the loop of `Wait` and of `Pop`
(`Counted`), so that a notifier that reads 0 leaves nobody out, and that a thread that has
given the mutex up remembers a value below the counter once a notification is made
(`Orders`). `GroupTold` and `PopTold` extend `WaitersTold` and `PoppersTold` from threads
that sleep to all that are going to (`Untold`): as they stand the two are not inductive,
since the decision to sleep is taken at the test of the loop and several steps before the
futex. Every step is again reduced to one of ten kinds (`Moves`).

**`StealingRuntimeProofs`, the pool** (`PoolAssumption`: sizes, periods and the number of threads
are at least 1, NULL is no task). `TasksOnce`: `EachTaskOnce`; `CoordinatorSafety`:
`CoordinatorInv`; `NoLostWakeUp`: `NoStrandedTask`. The parts of `PoolInv`:
`ControlGood` says what a worker holds at each label (`HoldsOK`), which labels it can
reach while it counts as stopped (`SecondOK`), what it has left in its own queues when it
looks beyond them (`LooksOK`), and that `stopped_` has each such worker once, but those
that have their Wake (`StoppedOK`), so that `approximate_size_` covers it. `OnceOK` says
that the places of tasks (global and local queues, LIFO slots, what workers have in their
hands between two steps) are pairwise apart and without repetition; `Outside` is what was
submitted, has not run and is in none of them: empty here, not empty in the runtime, so
the lemmas about steps leave it open. A task is not stranded just because the workers that
would find it sleep: its submitter may have found a searching worker and woken nobody.
`StrandedOK` therefore says of each queue that is not empty that either no stopped worker
has passed it, or some worker will still look at it (`Passed`, `Looks`), or the client
that submitted has yet to look at `stopped_`.

**`StealingRuntimeProofs`, the runtime** (`RuntimeAssumption`: the client is no worker, delays are
naturals). `RuntimeLosesNoTask`: `RuntimeKeepsTasks`; `RuntimeWakesWorkers`:
`NoStrandedTimer`. `Outside` is now what the timers hold, and `TimersApart` says that no
two of them, waiting, being set or being submitted, have the same task. The client and the
timer thread may be submitting at the same time: each may have submitted and woken nobody
yet, which `StrandedOK` allows of the client and `StrandedByTimer` of the timer thread. That `Stop`
leaves no timer follows from `SetsOK`: the queue of timers is closed when the workers and
the client are in no `Set` any more, and the thread leaves it when it is empty.

**`AtomicSharedPtrProofs`** (`HazardAssumption`, `CallsAssumption`: NULL is no object, the
bound of calls is a natural; threads and addresses arbitrary). `CountsAreExact`:
`CountsInv`; `NothingUsedIsDestroyed`: `DestroyIsSafe`; `PointerIsAtomic`: the pointer
implements `AtomicPointer`. The invariant is `Types`, `Control` (what a thread holds at
each label), `Counts`, `Safe` and `ClosedOK`. `Counts` says that `counter_` is the number
of references that exist (`Exact`) and that an object without references is in exactly one
place on its way to be destroyed, any other in none (`Placed`). Both are numbers of elements of a set,
split into what one thread has and the rest: a step changes only the part of its own
thread, so that it is enough to count what it adds and removes. `Safe` is why nothing is
destroyed while it is used: a scan for the object either has yet to meet the mutator of
the thread that uses it, or does not know of that mutator and will start again
(`UseIsSafe`, `WillMeet`). In the refinement the read of a load, or of a failing
exchange, is the second load of `Validate`, which finds the pointer unchanged; a store or
a successful exchange is the atomic exchange or the CAS.

**`FiberRuntimeProofs`, the v1 pool** (`PoolAssumption`: finitely many threads, at least one).
`PoolCorrect`: `PoolInv`; `StopDrainsAlways`; `NoLostNotification`. `EnoughWoken` (while
a thread sleeps the queue is open and holds no more tasks than threads have been woken)
needs `WaitingCounts` (`waiting_` is the number of threads asleep or woken in `Pop`, so
that `Push` never skips a needed notification). `StopDrains` needs it too, with
`ExitedClosed`: when the last thread exits nobody sleeps, and it exits only on an empty
queue. The proof moves one thread at a time between the sets of threads at a label, so
the lemma `Move` about their cardinalities carries most of it.

**`FiberRuntimeProofs`, the runtime and fibers.** The lemmas after the pool (`PoolAssumption`,
`TimedAssumption`) are about the v1 runtime under any behaviour of its tasks: `AnyStep`
lets a task submit, set and be submitted or set again.
`SystemInv` is `PoolInv`, the invariant of the timer thread (`TimersOK`), and in which
order `Stop` ends workers and timer thread (`StopOrder`). `TimerReady` is what makes
`TimerInv` inductive: the thread that sleeps for a deadline has a timer in the heap that
is due no later, and nobody else takes one. `StopOrder` is needed for "no timer is left":
workers that may still be inside `Set` have exited before the queue of timers is closed.

The last part (`FiberAssumption`: fibers are tasks, and no thread is named
like a status). `FiberPool` and `FiberTimers` follow from those lemmas, because every
step of a fiber is an `AnyStep`. `FibersInPlace`: `FiberInv`. Its strengthening
`FibersOK` says that a fiber is in one place only, once: not submitted yet, in the
queue, on a thread that has not finished with it, in the hands of `Set`, among the
timers, or taken by the timer thread; and what its coroutine is there. That the callback
of a suspension comes after the switch, and that it is the only one to give the fiber
away, keeps two threads from it. `FibersScheduled`: the refinement of `FiberScheduler`;
of each step it says which fibers change their status (`Allowed`), most none.

**`FutureProofs`, the combinators of two futures** (`FutureAssumption`: the four
combinators). `ContractSafe`: `ContractInv`; `GetSafe`: `GotIsPromised`. The hypothesis `NotAllFailed` leaves out one case, two failed inputs of
`BothOk`: there the code calls `Set` twice (`future_both_ok`). The calls nest in whatever
order the three threads come to the contracts, and a list of the stacks that may occur
would be long. `CombineInd` speaks of single steps instead, wherever they wait: none is
pending twice (`Unique`), and what a step prepares is below it on the same stack
(`Ordered`). `ContractOK` then ties the state of a contract to which of its steps are
pending, `Phase` the callback of an input to its own, `FlagsOK` the flags of the combinator
to the inputs that have told it, and `SetsOK` is why `Set` is called once: as soon as the
value is decided (`Decided`) there is one call, made or pending. `GetOK` is the order of
the event, the result and the frame of `Get`. A step takes the first call off a stack and
puts up to three in its place; `Stepped` and the lemmas after it say once what that does to
`Unique`, `Ordered` and the pending steps, and every action is an instance.

**`FutureProofs`, pipes** (`ChainAssumption`: there is a worker, the number of stages is a
natural). `PromisesAreOwned`: `ChainInv`; `PipeIsRight`: `GetIsRight`. The invariant
`ChainInd` replaces the count of owners by `Sole` (the set of owners is one element, or
empty): a step takes one owner away and puts another in its place, and the lemmas
`HandedOn`, `TakenOver` and `ExpiredStep` say so for the ways a promise goes. It adds
`StepsOK` and `PipeOK`: what a step, a task or a timer carries is what stage `k` makes of
the value that future `k - 1` has (`Right`), and so is each value that is set. `Right`
depends on `outcome`, which a user's function changes when it runs; that the step which
sets its promise is not there yet follows from the ownership, so the two are proved together.
`GetIsRight` then is an induction over the stages. The induction theorems of the library
take an operator and cannot be used; `SetInduction` says the same of a set, from the least
element of a nonempty set of numbers, and with it `EvaluationExists` proves that the
recursive function in `Evaluate` is there, and `ValuesAre` that it has the values.

**`LoopProofs`, the heap** (`HeapAssumption`: deadlines are integers, NULL no timer; any
timers, but a finite number for the bound on the depth and for the sandbox). `HeapIsSound`:
`HeapInv`; `HeapIsImplemented`: the heap implements `TimerHeap`. What is in the heap is the
least set with the roots and all that their links lead to; `HeapIs` says what is needed of
it. `HeapInd` holds at every step of `Merge`: the roots that its calls hold are different
(`MergeOK`), their trees are disjoint (`Tree`), each is ordered by deadline and follows
those of the outer calls (`HeapOrder`), and depths are right but for the roots that wait
(`LocalPaths`). The order is not part of `HeapInv`; it is why `Pop` returns a least
deadline, and that no timer of the heap precedes the top (`TopIsFirst`) is proved without
an induction along paths: the timers not before the top are a closed set. That a heap of
depth `d` has `2^d - 1` timers at least (`LogDepth`) is an induction over the depth, with
`SetInduction` as above. The heap is proved as the sandbox uses it; what it assumes of its
user is that only a timer that is not in the heap is pushed.

**`LoopProofs`, the sandbox** (`SandboxAssumption`: fewer tasks than `size_t` has values).
`LoopIsSound`: `ManualLoopInv`; `NoTimerIsLate`: `NotOverdue`. `PlacesApart`: a task or
timer is in one place, unused, in the heap, taken out of it, or in the queue, and there
once. `InTime`: the queue, the timers taken out and the heap follow one another, and the
heap is not before the clock unless the clock has just been moved. `Counted`: the number a
call has counted is at most that of the tasks that are gone, so that `count` does not wrap
although the limit may be the largest `size_t`.

**`LoopProofs`, the run loop** (`RunLoopAssumption`: delays and the bound of the
clock are naturals, NoTask is no task). `LoopMaySleepAndReturn`: `LoopInv`;
`TimersAreDue`: `NeverEarly`, a part of `LoopProgress`. `RunInd` adds what the loop
knows between two steps: `Pop` returns nothing only to a loop that finds the queue closed
with late tasks at most (`NothingPopped`), and only the loop takes timers, so that the one
it has looked at is there, or an earlier one (`TimerReady`).

Only model-checked: all liveness (`RuntimeProgress`, `LoopProgress` but for `NeverEarly`,
`CallsSettle`, `CallsReturn`, `GetReturns`, `CombinedGetReturns` and the return of the
queue's calls), because fairness, `ENABLED` and leads-to are out of the prover's reach.
Every invariant and every refinement that a passing run checks is a theorem.


## 5. Not modelled

- the switch of contexts itself (the library sure) and `futex`, `std::mutex`,
  `std::condition_variable`, `std::thread` (external; modelled by what the code relies
  on);
- `runtime::Inline`, whose header the repository does not hold: `FutureChain`
  takes it to run a task at once and to have no timers;
- fibers on the work-stealing pool, the run loop and the sandbox: `FiberRuntime` runs
  them on the v1 pool, and of a runtime they use `Submit` and `Set` only;
- `SpaceLowerBound` of the ring and the second hazard pointer of a thread, which nothing
  uses; how often the lock-free loops of `gc/atomic_shared_ptr.hpp` retry: it depends on
  the other threads without a bound;
- destructors of user values (they hold no pointers of the pool of addresses) and the
  deletion of boxed tasks (`runtime/task/boxed.hpp`, `runtime/timer/boxed.hpp`);
- views, syntax operators, traits and synonyms (`Just`, `Return`, `Run`, `Value`, ...):
  no state and no step of their own.


## 6. Plan

The order was: the queue everything is stolen from and its proof; the pool over it;
the fiber primitives and the mutex proof; futures; channels; garbage collection; the v1
pool with its proof, timers, heap, loop and sandbox; the thread primitives; the two
runtimes with their timer thread, fibers as tasks, the blocking queue over the futex
primitives, `Detach`, storages and the frame of `Get`. Then
the proofs: the work-stealing pool and its runtime, the shared pointer, fibers on the v1
runtime, all fiber primitives, the pipes of futures, the run loop, the thread primitives,
the combinators of two futures, the heap and the sandbox. What is left to TLC is liveness.

--------------------------- MODULE WorkStealingPool ---------------------------
(***************************************************************************)
(* runtime/multi_thread/v2: the work-stealing thread pool.                 *)
(*                                                                         *)
(* Worker (pick a task, run it, park), Coordinator (the list of stopped    *)
(* workers), GlobalTaskQueue and ThreadPool (Submit, Stop), with the local *)
(* queues taken at the level of TaskQueue, which WorkStealingQueue         *)
(* implements.  One step is one access to shared state: an operation of a  *)
(* queue, a critical section of spin_, a load or a store of an atomic, a   *)
(* futex call.  Locals of a worker's calls (the task it holds, the rest of *)
(* an out_buffer, where NotifyOnSubmit returns to) are functions of the    *)
(* worker.  Coordinator::spinning_ is counted by the code and never read;  *)
(* it is left out.                                                         *)
(***************************************************************************)
EXTENDS Integers, Sequences, FiniteSets

CONSTANTS
  NumThreads,     \* num_threads_
  Tasks,          \* the tasks that are ever submitted
  NULL,           \* the null task pointer
  Capacity,       \* Worker::kLocalQueueCapacity
  GrabAmount,     \* Worker::kGrabAmount
  FILOMaxChain,   \* Worker::kFILOMaxChain
  PollPeriod,     \* the 61 of PickTask
  MayStop,        \* bound: whether the client calls Stop
  MaxSize         \* bound: spurious futex wake-ups while approximate_size_ is smaller

ASSUME PoolAssumption ==
  /\ NumThreads \in Nat \ {0}
  /\ NULL \notin Tasks
  /\ Capacity \in Nat \ {0}
  /\ GrabAmount \in Nat \ {0}
  /\ FILOMaxChain \in Nat \ {0}
  /\ PollPeriod \in Nat \ {0}
  /\ MayStop \in BOOLEAN
  /\ MaxSize \in Nat

Workers == 1 .. NumThreads

VARIABLES
  global_queue_,      \* GlobalTaskQueue::tasks_
  local_queue_,       \* Worker::local_queue_
  lifo_slot_,         \* Worker::lifo_slot_
  filo_chain_,        \* Worker::filo_chain_
  iter_,              \* Worker::iter_, modulo PollPeriod
  wakeups_,           \* wakeups_[w]: Worker::wakeups_ has changed since w loaded it
  has_stopped_,       \* Worker::has_stopped_
  stopped_,           \* Coordinator::stopped_
  approximate_size_,  \* Coordinator::approximate_size_
  pc,                 \* pc[w]: the step worker w does next
  next,               \* next[w]: the task PickTask returns, then the running task
  buffer,             \* buffer[w]: the tasks a call of w has copied and not queued yet
  batch,              \* batch[w]: the tasks of w on their way to the global queue
  second,             \* second[w]: w has called AddStoppedWorker in PickTask
  victim,             \* victim[w]: the worker whose queue w tries next
  ret,                \* ret[w]: the step after NotifyOnSubmit
  mpc,                \* the step the client thread (Submit, Stop) does next
  mworker,            \* the worker the Stop loop is at
  submitted,          \* the tasks passed to Submit
  done                \* the tasks that have run

queues == <<global_queue_, local_queue_, lifo_slot_, filo_chain_, iter_>>
coord == <<wakeups_, has_stopped_, stopped_, approximate_size_>>
locals == <<next, buffer, batch, second, victim, ret>>
client == <<mpc, mworker>>
history == <<submitted, done>>
vars == <<queues, coord, pc, locals, client, history>>

Init ==
  /\ global_queue_ = << >>
  /\ local_queue_ = [w \in Workers |-> << >>]
  /\ lifo_slot_ = [w \in Workers |-> NULL]
  /\ filo_chain_ = [w \in Workers |-> 0]
  /\ iter_ = [w \in Workers |-> 0]
  /\ wakeups_ = [w \in Workers |-> FALSE]
  /\ has_stopped_ = [w \in Workers |-> FALSE]
  /\ stopped_ = << >>
  /\ approximate_size_ = 0
  /\ pc = [w \in Workers |-> "pick"]
  /\ next = [w \in Workers |-> NULL]
  /\ buffer = [w \in Workers |-> << >>]
  /\ batch = [w \in Workers |-> << >>]
  /\ second = [w \in Workers |-> FALSE]
  /\ victim = [w \in Workers |-> 0]
  /\ ret = [w \in Workers |-> "run"]
  /\ mpc = "client"
  /\ mworker = 1
  /\ submitted = {}
  /\ done = {}

Smaller(a, b) == IF a < b THEN a ELSE b
Goto(w, label) == pc' = [pc EXCEPT ![w] = label]
Linked(w) == \E k \in DOMAIN stopped_ : stopped_[k] = w

-----------------------------------------------------------------------------
(* Coordinator.                                                            *)

\* Worker::Wake: a sleeping worker returns from futex::Wait.
WakeEffect(w, others) ==
  /\ wakeups_' = [wakeups_ EXCEPT ![w] = TRUE]
  /\ pc' = IF others[w] = "asleep" THEN [others EXCEPT ![w] = "unlink"] ELSE others

\* The critical section of Coordinator::WakeWorker; after is the pc it leaves.
WakeWorker(after) ==
  IF stopped_ # << >>
  THEN /\ WakeEffect(Head(stopped_), after)
       /\ stopped_' = Tail(stopped_)
       /\ approximate_size_' = approximate_size_ - 1
  ELSE /\ pc' = after
       /\ UNCHANGED <<wakeups_, stopped_, approximate_size_>>

\* The critical section of Coordinator::AddStoppedWorker.
AddStoppedWorker(w) ==
  IF Linked(w)
  THEN UNCHANGED <<stopped_, approximate_size_>>
  ELSE /\ stopped_' = Append(stopped_, w)
       /\ approximate_size_' = approximate_size_ + 1

\* Mutant of Unlink: it removes the front worker, whoever calls.
UnlinkFront(w) == stopped_' = IF stopped_ = << >> THEN << >> ELSE Tail(stopped_)

\* Coordinator::Unlink, of a worker that may have been unlinked; it leaves
\* approximate_size_ alone.
Unlink(w) ==
  \/ ~ Linked(w) /\ UNCHANGED stopped_
  \/ \E k \in DOMAIN stopped_ :
       /\ stopped_[k] = w
       /\ stopped_' = SubSeq(stopped_, 1, k - 1) \o SubSeq(stopped_, k + 1, Len(stopped_))

-----------------------------------------------------------------------------
(* Worker::PickTask.                                                       *)

\* Mutant of Chosen: Work does not call NotifyOnSubmit before it runs the task.
ChosenSilently(w) == IF second[w] THEN "unlinkfound" ELSE "run"

\* Once TryGetWork has a task for PickTask, a stopped worker unlinks itself; then
\* Work calls NotifyOnSubmit, and runs the task.
Chosen(w) == IF second[w] THEN "unlinkfound" ELSE "notify"

\* The task the call returns, and the rest of out_buffer to queue locally.
Found(w, tasks) ==
  /\ next' = [next EXCEPT ![w] = Head(tasks)]
  /\ buffer' = [buffer EXCEPT ![w] = Tail(tasks)]
  /\ Goto(w, IF Len(tasks) > 1 THEN "unpack" ELSE Chosen(w))

\* GlobalTaskQueue::Grab
GrabGlobal(w) ==
  LET n == Smaller(GrabAmount, Len(global_queue_)) IN
  /\ n > 0
  /\ Found(w, SubSeq(global_queue_, 1, n))
  /\ global_queue_' = SubSeq(global_queue_, n + 1, Len(global_queue_))

\* PickTask polls the global queue first, once in PollPeriod calls.
Pick(w) ==
  /\ pc[w] = "pick"
  /\ iter_' = [iter_ EXCEPT ![w] = (@ + 1) % PollPeriod]
  /\ IF iter_'[w] = 0 /\ global_queue_ # << >>
     THEN GrabGlobal(w)
     ELSE Goto(w, "get") /\ UNCHANGED <<global_queue_, next, buffer>>
  /\ UNCHANGED <<local_queue_, lifo_slot_, filo_chain_, coord, batch, second, victim,
                 ret, client, history>>

\* TryGetWork takes the LIFO slot, unless the chain is too long.
GetLifo(w) ==
  /\ pc[w] = "get"
  /\ filo_chain_[w] < FILOMaxChain
  /\ lifo_slot_[w] # NULL
  /\ Found(w, <<lifo_slot_[w]>>)
  /\ lifo_slot_' = [lifo_slot_ EXCEPT ![w] = NULL]
  /\ filo_chain_' = [filo_chain_ EXCEPT ![w] = @ + 1]
  /\ UNCHANGED <<global_queue_, local_queue_, iter_, coord, batch, second, victim,
                 ret, client, history>>

\* ... else it resets the chain and tries the local queue.
GetLocal(w) ==
  /\ pc[w] = "get"
  /\ filo_chain_[w] >= FILOMaxChain \/ lifo_slot_[w] = NULL
  /\ filo_chain_' = [filo_chain_ EXCEPT ![w] = 0]
  /\ IF local_queue_[w] # << >>
     THEN /\ Found(w, <<Head(local_queue_[w])>>)
          /\ local_queue_' = [local_queue_ EXCEPT ![w] = Tail(@)]
     ELSE Goto(w, "getglobal") /\ UNCHANGED <<local_queue_, next, buffer>>
  /\ UNCHANGED <<global_queue_, lifo_slot_, iter_, coord, batch, second, victim, ret,
                 client, history>>

\* TryStealTasks goes through the other workers in the order of workers_.
NextVictim(w, v) == IF v + 1 = w THEN v + 2 ELSE v + 1

GetGlobal(w) ==
  /\ pc[w] = "getglobal"
  /\ IF global_queue_ # << >>
     THEN GrabGlobal(w) /\ UNCHANGED victim
     ELSE /\ Goto(w, "steal")
          /\ victim' = [victim EXCEPT ![w] = NextVictim(w, 0)]
          /\ UNCHANGED <<global_queue_, next, buffer>>
  /\ UNCHANGED <<local_queue_, lifo_slot_, filo_chain_, iter_, coord, batch, second,
                 ret, client, history>>

\* Grab of the local queue of worker v, with room for limit tasks: a prefix that
\* may be shorter than what the queue holds when the CAS succeeds.
Grabbed(v, limit) ==
  {SubSeq(local_queue_[v], 1, n) : n \in 1 .. Smaller(limit, Len(local_queue_[v]))}

RemovePrefix(v, n) ==
  local_queue_' = [local_queue_ EXCEPT ![v] = SubSeq(@, n + 1, Len(@))]

Steal(w) ==
  LET v == victim[w] IN
  /\ pc[w] = "steal"
  /\ v <= NumThreads
  /\ \/ /\ \E tasks \in Grabbed(v, GrabAmount) :
             Found(w, tasks) /\ RemovePrefix(v, Len(tasks))
        /\ victim' = [victim EXCEPT ![w] = 0]
     \/ /\ local_queue_[v] = << >>
        /\ victim' = [victim EXCEPT ![w] = NextVictim(w, v)]
        /\ UNCHANGED <<pc, local_queue_, next, buffer>>
  /\ UNCHANGED <<global_queue_, lifo_slot_, filo_chain_, iter_, coord, batch, second,
                 ret, client, history>>

\* TryGetWork returns null; the first time PickTask registers the worker as
\* stopped (AddSpinning, wakeups_.load()) and looks again.
GetNothing(w) ==
  /\ pc[w] = "steal"
  /\ victim[w] > NumThreads
  /\ victim' = [victim EXCEPT ![w] = 0]
  /\ IF second[w]
     THEN Goto(w, "checkstop") /\ UNCHANGED wakeups_
     ELSE /\ Goto(w, "addstopped")
          /\ wakeups_' = [wakeups_ EXCEPT ![w] = FALSE]
  /\ UNCHANGED <<queues, has_stopped_, stopped_, approximate_size_, next, buffer,
                 batch, second,
                 ret, client, history>>

\* AddStoppedWorker; the second TryGetWork begins.
Register(w) ==
  /\ pc[w] = "addstopped"
  /\ AddStoppedWorker(w)
  /\ second' = [second EXCEPT ![w] = TRUE]
  /\ Goto(w, "get")
  /\ UNCHANGED <<queues, wakeups_, has_stopped_, next, buffer, batch, victim, ret,
                 client, history>>

\* The second TryGetWork has a task: Unlink.
UnlinkFound(w) ==
  /\ pc[w] = "unlinkfound"
  /\ Unlink(w)
  /\ second' = [second EXCEPT ![w] = FALSE]
  /\ Goto(w, "notify")
  /\ UNCHANGED <<queues, wakeups_, has_stopped_, approximate_size_, next, buffer, batch,
                 victim, ret, client, history>>

\* has_stopped_.load(): the worker parks, or unlinks itself and its thread ends.
CheckStop(w) ==
  /\ pc[w] = "checkstop"
  /\ Goto(w, IF has_stopped_[w] THEN "exit" ELSE "park")
  /\ UNCHANGED <<queues, coord, locals, client, history>>

Exit(w) ==
  /\ pc[w] = "exit"
  /\ Unlink(w)
  /\ second' = [second EXCEPT ![w] = FALSE]
  /\ Goto(w, "exited")
  /\ UNCHANGED <<queues, wakeups_, has_stopped_, approximate_size_, next, buffer, batch,
                 victim, ret, client, history>>

\* futex::Wait sleeps only while wakeups_ is expected_wu.
Park(w) ==
  /\ pc[w] = "park"
  /\ Goto(w, IF wakeups_[w] THEN "unlink" ELSE "asleep")
  /\ UNCHANGED <<queues, coord, locals, client, history>>

SpuriousWake(w) ==
  /\ pc[w] = "asleep"
  /\ approximate_size_ < MaxSize
  /\ Goto(w, "unlink")
  /\ UNCHANGED <<queues, coord, locals, client, history>>

\* After futex::Wait the worker unlinks itself, if nobody has, and starts over.
UnlinkAfterWait(w) ==
  /\ pc[w] = "unlink"
  /\ Unlink(w)
  /\ second' = [second EXCEPT ![w] = FALSE]
  /\ Goto(w, "get")
  /\ UNCHANGED <<queues, wakeups_, has_stopped_, approximate_size_, next, buffer, batch,
                 victim, ret, client, history>>

-----------------------------------------------------------------------------
(* PushToLocalQueue, from GetFromBuffer or from Push.                      *)

LocalIsFull(w) == Len(local_queue_[w]) >= Capacity

\* TryPush, and then the step after; or the queue is full, and the step after
\* comes when the tasks are offloaded.
PushToLocalQueue(w, task, after) ==
  IF ~ LocalIsFull(w)
  THEN /\ local_queue_' = [local_queue_ EXCEPT ![w] = Append(@, task)]
       /\ Goto(w, after)
       /\ ret' = [ret EXCEPT ![w] = "run"]
       /\ UNCHANGED batch
  ELSE /\ batch' = [batch EXCEPT ![w] = <<task>>]
       /\ Goto(w, "offload")
       /\ ret' = [ret EXCEPT ![w] = after]
       /\ UNCHANGED local_queue_

\* GetFromBuffer queues the rest of out_buffer.
Unpack(w) ==
  /\ pc[w] = "unpack"
  /\ PushToLocalQueue(w, Head(buffer[w]),
     IF Len(buffer[w]) > 1 THEN "unpack" ELSE Chosen(w))
  /\ buffer' = [buffer EXCEPT ![w] = Tail(@)]
  /\ UNCHANGED <<global_queue_, lifo_slot_, filo_chain_, iter_, coord, next, second,
                 victim, client, history>>

\* Mutant of WithOverflow: the overflow task has no room behind grabbed tasks.
OverflowDropped(tasks, overflow) == IF tasks = << >> THEN overflow ELSE tasks

\* The overflow task goes behind the grabbed tasks.
WithOverflow(tasks, overflow) == tasks \o overflow

\* OffloadTasksToGlobalQueue: Grab from the own queue, the overflow task last;
\* thieves may have emptied the queue.
OffloadGrab(w) ==
  /\ pc[w] = "offload"
  /\ \E tasks \in Grabbed(w, GrabAmount - 1) \cup {<< >>} :
       /\ tasks = << >> => local_queue_[w] = << >> \/ GrabAmount = 1
       /\ batch' = [batch EXCEPT ![w] = WithOverflow(tasks, @)]
       /\ RemovePrefix(w, Len(tasks))
  /\ Goto(w, "pushmany")
  /\ UNCHANGED <<global_queue_, lifo_slot_, filo_chain_, iter_, coord, next, buffer,
                 second, victim, ret, client, history>>

\* ... PushMany, and NotifyOnSubmit.
OffloadPush(w) ==
  /\ pc[w] = "pushmany"
  /\ global_queue_' = global_queue_ \o batch[w]
  /\ batch' = [batch EXCEPT ![w] = << >>]
  /\ Goto(w, "notify")
  /\ UNCHANGED <<local_queue_, lifo_slot_, filo_chain_, iter_, coord, next, buffer,
                 second, victim, ret, client, history>>

-----------------------------------------------------------------------------
(* Coordinator::NotifyOnSubmit, called by a worker; it returns to ret[w],  *)
(* which is "notify" when Push calls it right after an offload did.        *)

NotifyReturns(w) == ret' = [ret EXCEPT ![w] = "run"]

\* ShouldWakeWorker
Notify(w) ==
  /\ pc[w] = "notify"
  /\ IF approximate_size_ > 0
     THEN Goto(w, "wake") /\ UNCHANGED ret
     ELSE Goto(w, ret[w]) /\ NotifyReturns(w)
  /\ UNCHANGED <<queues, coord, next, buffer, batch, second, victim, client, history>>

Wake(w) ==
  /\ pc[w] = "wake"
  /\ WakeWorker([pc EXCEPT ![w] = ret[w]])
  /\ NotifyReturns(w)
  /\ UNCHANGED <<queues, has_stopped_, next, buffer, batch, second, victim,
                 client, history>>

-----------------------------------------------------------------------------
(* The running task: it submits tasks to the pool, and ends.               *)

Fresh == Tasks \ submitted

\* Worker::Push with the hint UpToYou.
PushUpToYou(w, task) ==
  /\ pc[w] = "run"
  /\ PushToLocalQueue(w, task, "notify")
  /\ submitted' = submitted \cup {task}
  /\ UNCHANGED <<global_queue_, lifo_slot_, filo_chain_, iter_, coord, next, buffer, second,
                 victim, client, done>>

\* ... with the hint Next: into the LIFO slot, whose task moves to the local queue.
PushNext(w, task) ==
  /\ pc[w] = "run"
  /\ lifo_slot_' = [lifo_slot_ EXCEPT ![w] = task]
  /\ IF lifo_slot_[w] = NULL
     THEN Goto(w, "notify") /\ UNCHANGED <<local_queue_, batch, ret>>
     ELSE PushToLocalQueue(w, lifo_slot_[w], "notify")
  /\ submitted' = submitted \cup {task}
  /\ UNCHANGED <<global_queue_, filo_chain_, iter_, coord, next, buffer, second,
                 victim, client, done>>

\* ... with the hint Yield: PushOne to the global queue.
PushYield(w, task) ==
  /\ pc[w] = "run"
  /\ global_queue_' = Append(global_queue_, task)
  /\ Goto(w, "notify")
  /\ submitted' = submitted \cup {task}
  /\ UNCHANGED <<local_queue_, lifo_slot_, filo_chain_, iter_, coord, locals, client, done>>

\* next->Run() returns.
RunReturns(w) ==
  /\ pc[w] = "run"
  /\ done' = done \cup {next[w]}
  /\ next' = [next EXCEPT ![w] = NULL]
  /\ Goto(w, "pick")
  /\ UNCHANGED <<queues, coord, buffer, batch, second, victim, ret, client,
                 submitted>>

-----------------------------------------------------------------------------
(* A thread outside the pool: ThreadPool::Submit, then ThreadPool::Stop.   *)

Submit(task) ==
  /\ mpc = "client"
  /\ global_queue_' = Append(global_queue_, task)
  /\ submitted' = submitted \cup {task}
  /\ mpc' = "notify"
  /\ UNCHANGED <<local_queue_, lifo_slot_, filo_chain_, iter_, coord, pc, locals, mworker, done>>

ClientNotify ==
  /\ mpc = "notify"
  /\ mpc' = IF approximate_size_ > 0 THEN "wake" ELSE "client"
  /\ UNCHANGED <<queues, coord, pc, locals, mworker, history>>

ClientWake ==
  /\ mpc = "wake"
  /\ WakeWorker(pc)
  /\ mpc' = "client"
  /\ UNCHANGED <<queues, has_stopped_, locals, mworker, history>>

\* Worker::Stop of each worker: has_stopped_.store(true) ...
StopWorker ==
  /\ mpc = "stop" \/ (mpc = "client" /\ MayStop)
  /\ has_stopped_' = [has_stopped_ EXCEPT ![mworker] = TRUE]
  /\ mpc' = "stopwake"
  /\ UNCHANGED <<queues, wakeups_, stopped_, approximate_size_, pc, locals, mworker,
                 history>>

\* ... and Wake; then every worker is joined.
StopWake ==
  /\ mpc = "stopwake"
  /\ WakeEffect(mworker, pc)
  /\ IF mworker < NumThreads
     THEN mworker' = mworker + 1 /\ mpc' = "stop"
     ELSE mworker' = mworker /\ mpc' = "join"
  /\ UNCHANGED <<queues, has_stopped_, stopped_, approximate_size_, locals, history>>

Join ==
  /\ mpc = "join"
  /\ \A w \in Workers : pc[w] = "exited"
  /\ mpc' = "joined"
  /\ UNCHANGED <<queues, coord, pc, locals, mworker, history>>

-----------------------------------------------------------------------------
\* Worker::Work, without the task's own steps.
Schedule(w) ==
  \/ Pick(w) \/ GetLifo(w) \/ GetLocal(w) \/ GetGlobal(w) \/ Steal(w) \/ GetNothing(w)
  \/ Register(w) \/ UnlinkFound(w) \/ CheckStop(w) \/ Exit(w) \/ Park(w)
  \/ UnlinkAfterWait(w) \/ Unpack(w) \/ OffloadGrab(w) \/ OffloadPush(w)
  \/ Notify(w) \/ Wake(w)

TaskPushes(w) ==
  \E task \in Fresh : PushUpToYou(w, task) \/ PushNext(w, task) \/ PushYield(w, task)

\* A client that is inside Submit or Stop goes on with the call.
ClientStops ==
  \/ ClientNotify \/ ClientWake \/ (mpc = "stop" /\ StopWorker) \/ StopWake \/ Join

Next ==
  \/ \E w \in Workers : Schedule(w) \/ TaskPushes(w) \/ RunReturns(w) \/ SpuriousWake(w)
  \/ \E task \in Fresh : Submit(task)
  \/ ClientNotify \/ ClientWake \/ StopWorker \/ StopWake \/ Join

Spec == Init /\ [][Next]_vars

-----------------------------------------------------------------------------
(* Properties.                                                             *)

Labels == {"pick", "get", "getglobal", "steal", "unpack", "unlinkfound", "addstopped",
           "checkstop", "exit", "exited", "park", "asleep", "unlink", "offload", "pushmany",
           "notify", "wake", "run"}

TypeOK ==
  /\ global_queue_ \in Seq(Tasks)
  /\ local_queue_ \in [Workers -> Seq(Tasks)]
  /\ \A w \in Workers : Len(local_queue_[w]) <= Capacity
  /\ lifo_slot_ \in [Workers -> Tasks \cup {NULL}]
  /\ filo_chain_ \in [Workers -> 0 .. FILOMaxChain]
  /\ iter_ \in [Workers -> 0 .. PollPeriod - 1]
  /\ wakeups_ \in [Workers -> BOOLEAN]
  /\ has_stopped_ \in [Workers -> BOOLEAN]
  /\ stopped_ \in Seq(Workers)
  /\ approximate_size_ \in Nat
  /\ pc \in [Workers -> Labels]
  /\ next \in [Workers -> Tasks \cup {NULL}]
  /\ buffer \in [Workers -> Seq(Tasks)]
  /\ batch \in [Workers -> Seq(Tasks)]
  /\ second \in [Workers -> BOOLEAN]
  /\ victim \in [Workers -> 0 .. NumThreads + 2]
  /\ ret \in [Workers -> {"run", "unpack", "unlinkfound", "notify"}]
  /\ mpc \in {"client", "notify", "wake", "stop", "stopwake", "join", "joined"}
  /\ mworker \in Workers
  /\ submitted \subseteq Tasks
  /\ done \subseteq submitted

Pointer(task) == IF task = NULL THEN << >> ELSE <<task>>

\* The places a task can be in, and the tasks there.
Held(w) == buffer[w] \o batch[w] \o local_queue_[w] \o Pointer(lifo_slot_[w]) \o Pointer(next[w])

SeqRange(s) == {s[k] : k \in DOMAIN s}

\* The load in ShouldWakeWorker never misses a stopped worker: approximate_size_
\* counts every worker in stopped_ (Unlink makes it count too many).
ApproximateSizeCovers == Len(stopped_) <= approximate_size_

\* A worker that has decided to sleep and that no Wake has reached.
Parked(w) == pc[w] \in {"checkstop", "park", "asleep"} /\ ~ wakeups_[w]

\* No lost wake-up: while a worker stays parked next to a task it could take, some
\* thread is still looking for tasks or about to wake a worker.  Tasks that run do
\* not count: they may run for long, or block.
NoStrandedTask ==
  /\ \A w \in Workers : ~ has_stopped_[w]
  /\ \E w \in Workers : Parked(w)
  /\ global_queue_ # << >> \/ \E v \in Workers : local_queue_[v] # << >>
  => \/ \E w \in Workers : ~ Parked(w) /\ pc[w] # "run"
     \/ mpc \in {"notify", "wake"}

\* A worker that sleeps without a pending Wake is in stopped_, where WakeWorker
\* finds it.
ParkedIsStopped == \A w \in Workers : Parked(w) => Linked(w)

\* The coordinator knows every worker that must be woken (with the type invariant).
CoordinatorInv == TypeOK /\ ApproximateSizeCovers /\ ParkedIsStopped

\* Nobody but its worker can take the task in a LIFO slot, and after the last Push
\* nobody refills a local queue: a worker that sleeps or ends leaves none behind.
WorkersLeaveNothing ==
  \A w \in Workers :
    pc[w] \in {"checkstop", "park", "asleep", "unlink", "exit", "exited"} =>
      lifo_slot_[w] = NULL /\ local_queue_[w] = << >> /\ buffer[w] = << >>

\* When Stop returns, the only tasks that have not run are in the global queue: a
\* worker whose last look came before Submit ends if Stop comes before its
\* has_stopped_.load(), so Stop does not drain the global queue.
StopLeavesOnlyGlobal == mpc = "joined" => SeqRange(global_queue_) = submitted \ done

\* A submitted task that has not run is in exactly one place: no task is lost or
\* run twice, whatever is stolen, offloaded or evicted from the LIFO slot.
HeldOnce ==
  /\ submitted \ done
       = (UNION {SeqRange(Held(w)) : w \in Workers}) \cup SeqRange(global_queue_)
  /\ \A w, v \in Workers : w # v => SeqRange(Held(w)) \cap SeqRange(Held(v)) = {}
  /\ \A w \in Workers :
       /\ Cardinality(SeqRange(Held(w))) = Len(Held(w))
       /\ SeqRange(Held(w)) \cap SeqRange(global_queue_) = {}
  /\ Cardinality(SeqRange(global_queue_)) = Len(global_queue_)

\* No task is lost or run twice, or left where nobody looks for it, by a worker or by
\* Stop.
EachTaskOnce == HeldOnce /\ WorkersLeaveNothing /\ StopLeavesOnlyGlobal
=============================================================================

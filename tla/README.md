# CatCoroutine: TLA+ specifications, model checking and proofs

CatCoroutine is a C++ library of stackful coroutines that run on several OS
threads with work stealing.  This directory holds TLA+ modules of its parts, the
configurations that check them with TLC, and theorems about them that TLAPS
checks.  Paths below are relative to the repository's source root.

The build that is modelled is the one of `CMakeLists.txt`: `__SCHED_CFS__`,
`__STACK_DYN__`, `__STACK_DYN_MMAP__`, six schedulers, assertions on, no
`__DEBUG__`.  In that build every coroutine may migrate, so `ready_fixed` stays
empty, and several classes of `data_structure/` have no user but `main.cpp`.

## 1. Inventory

| Component | State | Operations | Interacts with |
|---|---|---|---|
| Scheduler, one per thread (`sched/Scheduler.cpp`) | heap `ready`, `ready_count`, lock-free `buffer`, `sem_ready`, `sched_lock`, `running_co` | `apply_ready`, `apply_ready_lazy`, `pickup_ready`, `pull_half_co`, `run`, `process_co_exec_end`, `coroutine_yield/await/sleep/dead` | other schedulers steal from it; every thread may apply to it |
| SchedManager (`sched/SchedManager.cpp`) | the array of schedulers | `apply`, `stealing_work`, `wakeup_await_co_all` | called by coroutines, tick threads, the epoll thread |
| Coroutine (`Coroutine.cpp`, `include/Coroutine.h`, `include/CoPrivate.h`) | `Co_t`: `status`, `status_lock`, `await_caller`, invoker and result buffer | `create`, `await`, `yield`, `sleep`, `destroy` | jumps to its scheduler's context, which acts for it |
| CFS accounting (`sched/include/CfsSchedEntity.h`) | `nice`, `prev_nice`, `v_runtime`, `min_v_runtime` | `up_nice`, `back_nice`, `up_v_runtime`, `SortWrapLessCmp` | decides the order of `ready` |
| Sem_t, Semaphore, Mutex (`sync/`) | `m_value` = count and waiters, 16 wait queues, `cancelable_wait` | `wait`, `wait_for`, `try_wait`, `signal` | takes coroutines off their scheduler and applies them; timed waits register a TimerTask |
| Timer, TimerTask (`timer/`) | `m_task` under `m_lock`; `is_handled`, `is_canceled` | `apply_task_until`, `cancel`, `reset`, `process_expired` | one tick thread per scheduler runs the callbacks |
| Channel (`sync/include/Channel.h`) | a ring buffer, semaphores `sender`, `receiver`, `full`, `empty` | `push`, `emplace`, `pull`, `push_for`, `pull_for`, `close` | callbacks of `Sem_t::signal` write into a puller's variable |
| Epoller (`io/epoller.cpp`) | `m_requests`, the kernel's interest list | `add`, `cancel`, `waiter` | its own thread runs callbacks that apply coroutines |
| MemoryPool, DynStackPool (`allocator/`) | blocks in a list, with counts of units | `allocate`, `deallocate` | every thread gives units back to every pool |
| Spin locks (`utils/include/`) | a flag; readers and writers in one word | `lock`, `try_lock`, `try_lock_for`, `unlock`, their reader and writer forms | everything above |
| Containers (`data_structure/include/`) | heap, wait queue, ring, skip list; lock-free queue, ring, list, skip list, bit set | push, pop, erase | the first two under the scheduler and the semaphore |

Hard behaviours, and what must hold nevertheless:

* **Ready queues.** A coroutine is moved between a heap, a buffer, local vectors
  and other schedulers' heaps while unlocked reads choose the path: it must never
  be lost or queued twice, the semaphore must count exactly the queued coroutines,
  and nobody may sleep for ever while there is work.
* **Leaving a stack.** A coroutine that waits is visible to wakers before its
  thread has left its stack: two threads must never be on one stack.
* **Await, death, destroy.** Three threads meet in `status_lock` and
  `await_caller`: a caller registers with a live callee or not at all, and a
  `Co_t` is freed when nobody will touch it again.
* **Semaphores.** Waiters are counted, queued and woken in separate steps: no
  permit may be lost or made, and a signaller must find the waiter it took off
  the number.
* **Timeouts.** A signal's `cancel` races with the tick thread: exactly one wakes
  the coroutine.
* **Channel hand-over.** A value goes through the buffer or straight into the
  puller's variable: once, to one puller.
* **Shared structures.** Pools, request maps and lock-free containers are changed
  in several steps that others see in between.

`PROJECT.json` lists the hazards, each at its line.

## 2. Modules

| Module | Models | Abstract specification | Checked by | Proofs |
|---|---|---|---|---|
| `Scheduler` | ready queues, stealing, pickup, run, and what create, wait, yield, sleep, await and death do to them | `Dispatch`: submitted once, executed once, by one thread | `MCScheduler`, `MCConcurrent` | `SchedulerProofs` |
| `Lifecycle` | a coroutine from create to destroy | `Join`: an await returns after the end of its callee, and does return | `MCLifecycle` | `LifecycleProofs` |
| `Cfs` | the accounting of nice and runtime | | `MCServices` | `ServicesProofs` |
| `Semaphore` | `Sem_t` with plain and timed waits, timers, tick threads | `CountingSemaphore` | `MCSemaphore` | `SemaphoreProofs` |
| `Timers` | `Timer` and `TimerTask` with end times, cancel and reset | | `MCServices` | `ServicesProofs` |
| `Channel` | `push`, `pull`, `close`, the hand-over and the ring buffer | | `MCChannel` | `ChannelProofs` |
| `TimedChannel` | extends `Channel` by `push_for` and `pull_for` | | `MCTimedChannel` | `ChannelProofs` |
| `Epoller` | requests, the kernel's list, the waiter | | `MCServices` | `ServicesProofs` |
| `MemoryPool` | blocks and units | | `MCServices` | `ServicesProofs` |
| `SpinLock` | `spin_lock`, `spin_lock_sleep` | `Lock` | `MCServices` | `LockProofs` |
| `RWLock` | the reader-writer lock over a `Lock` | | `MCConcurrent` | `RWLockProofs` |
| `LockedContainer` | the semaphore's wait queue: `LockedContainer` with `RandomStack` | | `MCContainers` | `ContainerProofs` |
| `QueueLockFree`, `RingBufferLockFree`, `ListLockFree`, `BitSetLockFree` | lock-free containers | | `MCContainers`, `MCConcurrent` | `ContainerProofs` |
| `SkipListLockFree` | the lock-free skip list | | `MCConcurrent` | |
| `RingQueue` | a ring that grows | `Fifo` | `MCContainers` | `ContainerProofs` |
| `SkipList` | the sequential skip list | `Multiset` | `MCConcurrent` | |
| `QuaternaryHeap` | the heap of the ready queues | | `MCConcurrent` | |
| `Services` | `Cfs`, `MemoryPool`, `Timers` and `Epoller` side by side | | `MCServices` | `ServicesProofs` |
| `Containers` | the lock-free ring, queue, list and bit set and the wait queue side by side | | `MCContainers` | `ContainerProofs` |

`Services` and `Containers` compose what shares nothing: each component has variables
of its own, a behaviour chooses one component and leaves the others where they
begin.  Their properties (`UnitsKept`, `CallbacksOnce`, `BoostsAccounted`,
`ContainersWhole`) are what the runs check and the theorems are about.

The detailed modules lean on each other by abstraction.  `Scheduler` takes its
locks as atomic, which `SpinLock` justifies by implementing `Lock`; its heaps are
sets, of which `QuaternaryHeap` loses nothing; what waits elsewhere is `parked` and
is claimed once, which `Semaphore`, `Timers` and `Lifecycle` show.  `Semaphore`'s wait
queues are sets whose items leave once, which `LockedContainer` shows.  `Channel`
has the semaphores as `Semaphore` leaves them: a number, and a choice of the waiter
in a later step.

### Scheduler

A thread's place in the code is `pc[t]`.  Each shared-memory step is an action of
its own: a lock's acquisition, an unlocked read of `ready_count` or
`ready.empty()`, one operation on the lock-free buffer, one `try_wait`, `wait` or
`signal` of `sem_ready`.  What happens inside a critical section is one action,
except where an unlocked reader can see the inside: a thief takes one coroutine
per action (`steal_one`) and lowers `ready_count` only at the end
(`steal_unlock`), as the code does.

Heaps and buffers are sets: any order of their elements is allowed, so the
results hold whatever the priorities are.  The load scan of `apply_impl` may
choose any scheduler, because loads are read one by one without a lock.
A free address is a coroutine with status DEAD.  `current[s]` is the picked
coroutine from `pickup_pop` on.  The assertion at the end of `pickup_ready` ends
the process (`abort`); those of `apply_impl` and `run` are guards, and the
invariant `AssertionsHold` says that they are never in the way.

### Lifecycle

`pc[c]` is the next step of the thread that executes coroutine `c`, its callback on
the scheduler's stack included, so that between a coroutine's jump and the end of
its callback others see what the code lets them see: `await_impl` takes the
callee's `status_lock` before the jump, and `coroutine_await` releases it after
the caller is registered.  Where ready coroutines wait is `Scheduler`'s matter.
Programs whose coroutines await in a circle are left out (`WaitsFor`), since
nothing in the code looks for them.  `Careless` lets a handle be destroyed before
it was awaited; the library's own answer to that is an exception.

### Semaphore, Timers

`m_value` is `count` and `waiters`; one action is one atomic fetch-modify.  The
spins of a wait only repeat the attempt to take a permit.  Entering a timer and
`cancelable_wait` is one action, since both happen under the timer's lock, which
`cancel` and `pick_all_expired` also take.  Which tasks have expired is a free
choice there; `Timers` has the end times, `reset` and a clock.  `balance` is a
history variable: the initial count, plus signals, minus granted waits.  Not
modelled: `max_spin`, overflow at 2^32, `release`.  A `Mutex` is a semaphore with
`init_count` 0.

### Channel, TimedChannel

The four semaphores are their counts, waiters and queues; a signal that takes a
waiter off the number chooses the waiter in a later step, as `Sem_t::signal` does.
The ring buffer keeps its array and indices.  `TimedChannel` adds what a timed-out
wait leaves behind (`stale`) and owes (`owed`), as `Semaphore` has it in detail.

### Services and containers

`Cfs` has `v_runtime` in nanoseconds with the real weights, and counts with
`reboosted` the coroutines that `get_ready_to_push` boosted twice.  `MemoryPool` has
lengths with their headers and padding, and the release of a block after the
unlock.  `Epoller` fetches events without `m_lock`, as the waiter does.  `Epoller::add`
passes the user's events on, so `add` leaves open whether a descriptor is one-shot
(reported once, then not until it is added again) or level-triggered (reported again
while it has input, which the callback may or may not consume); an edge-triggered one
is reported like a level-triggered one whose callback consumes the input.  `RWLock` takes the spin lock `w_lock` as atomic and keeps the retried
exchange of `writer::try_lock`, whose function has a side effect.  The lock-free
containers have one action per access to shared memory that another thread can
tell apart; destroyed nodes keep their contents, because the recycler gives a node
out again only after more calls than the bounds allow.  Pops of `QueueLockFree` run
one at a time (`OnePop`), as `queue_lock_free_test` of `main.cpp` does with a lock around
them, and pushes run beside them and beside one another; without `OnePop` pops overlap
too.  `late`, `beside`, `cancelled`, `crossed` and `strayed` are history variables: they
name the steps after which a promise no longer holds.

## 3. Runs

| Run | Instance | Shows |
|---|---|---|
| `sched_steal` | 2 schedulers, 1 thread outside, main and 2 coroutines, buffer of 1 | no coroutine lost or doubled, tokens match work, `ready_count` exact, the buffer path always finds a coroutine, stacks exclusive, ownership, assertions |
| `sched_live` | 2 schedulers, fairness | sleeping schedulers are woken and their work is executed (`WorkWakes`), tokens become executed coroutines, `Dispatch` is implemented |
| `sem_plain` | 3 coroutines, 2 queues, initial count 1, fairness | `CountingSemaphore` is implemented, with its liveness; a signal ends |
| `sem_timed` | 2 coroutines, 1 timer, 2 tasks, fairness | exact accounting of waiters and permits with timeouts, one waker per parked coroutine, a timed wait ends up to a stuck signaller (below) |
| `channel` | 3 coroutines, 3 values, 1 slot, fairness | no store into a full buffer nor load from an empty one, each value once, none lost, nobody forgotten, pushes and pulls under way return |
| `channel_timed` | 3 coroutines, 2 calls each, 1 slot | no store into a full buffer nor load from an empty one; a value is in one place, `buffer_has_value` tells whether one was received, and a value goes only with the call that reports it, with timeouts anywhere |
| `lifecycle` | main and 2 coroutines, 2 workers, 4 calls, sleeps of zero, fairness | each coroutine in one place, frees only at rest, `Join` is implemented, awaits and destroys end unless a sleep of zero has lost somebody |
| `services` | see below | `SpinLock` implements `Lock`; `Cfs`, `MemoryPool`, `Timers`, `Epoller` |
| `concurrent` | see below | `RWLock`, larger ready queues, the heap, both skip lists (`SkipList` implements `Multiset`), and lock-free containers with several pushers and poppers at once |
| `containers` | see below | `RingQueue` implements `Fifo`; the lock-free ring, queue, list and bit set and the wait queue |
| `sched_assert` | 2 schedulers | **violated**: the assertion of `pickup_ready` |
| `channel_timed_test` | 2 coroutines, 1 call each, 1 slot | **violated**: the assertion of `channel_timed_test` |

`MCServices` extends `SpinLock` and `Services`, `MCContainers` extends `RingQueue` and
`Containers`: a behaviour is about the first, while the second stays where it begins,
or the other way round (`locking`, `growing`).  `MCConcurrent` extends `RWLock`, and its
other components are instances over `x1` .. `x17`, which are 0 for whoever has fewer; a
behaviour chooses its `component` in its initial state, and `QueuesWhole` says of each
what its module states as several invariants.

* `services`: 3 threads on the spin lock with a budget of 2; 2 coroutines and 2
  schedulers in `Cfs`, with contended queues and semaphores and without; 2 threads
  and 3 blocks of 6 with units of 2, 3 and 7; 2 timers, 2 tasks and 2 ticks; 2 users
  of 3 descriptors, one-shot or level-triggered, with 3 adds and any cancels.
* `containers`: ring capacities of 2, 4 and 8 that grow; 1 pusher and 1 popper on the
  lock-free ring of 3; 2 pushers and 2 poppers on the queue, with 4 nodes
  and pops one at a time, so that nodes are lost and destroyed ones used; 3 threads on
  the list of 3 nodes; 3 threads picking 3 bits in 2 blocks; 3 threads on the wait
  queue.
* `concurrent`: 3 threads with every operation of the reader-writer lock; 2 schedulers
  with main and 3 coroutines, where a thief takes two coroutines at once; 11 elements
  of 3 priorities, so that a quarter of the array holds two sons; 4 keys on 3 levels;
  2 threads with 3 keys and 3 with 2 on the lock-free skip list; 2 pushers and 2
  poppers on the queue and on the ring, all at once; 3 threads on the list,
  for deadlock; 3 threads with every call of the bit set.

Bounds.  `APPLY_BUFFER_SIZE` is 1 and not 128, so that the buffer overflows with two
coroutines; the code treats every capacity alike.  Two schedulers are a thief and
a victim (a thief's loop over its victims visits itself and one other); three
schedulers exceed minutes, and the theorems cover any number.  Two wait queues are
enough for a pusher and a popper to be in different queues.  `COUNT_BOUND` stops
coroutines from signalling for ever.  `Task` objects and channel values are reused
when nothing points to them.  `MaxOps`, `MaxRuntime`, `MaxUnits`, `MaxTime`, `MaxResets`,
`MaxRequests`, `MaxNodes`, `MaxPops`, `MaxPush`, `MaxCalls` and `Rounds` bound how often
something is called; each is large enough for every action to happen and for two
calls of the same kind to overlap.  `BackoffWidth` (4 for 256) and `SizeModulus` (16
for 2^64) let counters wrap within few steps.

Fairness.  Weak fairness of each thread's library steps: threads are scheduled by
the OS and the code does not stop on its own.  Strong fairness of taking a lock:
an exchange spin lock that is free again and again is assumed to be obtained at
last (`LockStep` of `Scheduler`, the status locks of `Lifecycle`), and so is, in
`Lifecycle`, a worker for a coroutine that is ready again and again.  Strong fairness
of a timer task's expiry: its end time passes.  Nothing is assumed of what
coroutines choose to do in `Scheduler`, `Semaphore` and `Channel`; in `Lifecycle` a
coroutine's function goes on (`Choose`), because an await cannot return otherwise.

Deadlock is not checked: a program whose coroutines all wait for each other does
stop.  The liveness properties, `NobodyForgotten` and `SomeoneGoesOn` say when it
must not.

## 4. What the violated runs and the models show

* `sched_assert`.  `pickup_ready` goes from a successful second `try_wait`
  (`sched/Scheduler.cpp:213`) past the buffer to its end.  The token can be that of a
  coroutine that `apply_ready_lazy` has put into the buffer, and then the heap is
  empty and `assert(ans_list[0] || ans_list[1])` fails.  `BufferPathFindsCo`, which
  is proved, says that this is the only way: whoever goes through the buffer
  stage finds a coroutine.
* `channel_timed_test`.  `push_for` and `pull_for` read the result of `wait_for` the
  wrong way round (`sync/include/Channel.h:93`, `:181`): they give up when they got the
  permit.  The test counts such a call as done, and its last assertion fails.
* Timed waits are not exact, and `Conservation` says by how much.  A wait that
  times out gives its place back with `signal(false)`, which may pop the wrap of
  another timed wait and wake it, with `wait_for` returning true: a permit nobody
  signalled.  The wrap left behind in `cancelable_wait` later swallows a real
  signal.  `balance` is below the count by the number of these stale wraps.
* A timed waiter is counted before it is in `cancelable_wait`.  A signal in that
  window takes it off the number, finds `cancelable_wait` empty and spins in
  `wait_and_pop` on a wait queue, until some plain wait comes by.  The signaller may
  be a tick thread, whose timer then stands still.  This is why `TimedWaitEnds`
  has its exception `[]Stuck(x)`; without it TLC finds the violation.
* `coroutine_sleep` with a duration of zero returns before it arms a timer, after
  the coroutine has left its stack: nobody wakes it again.  `OnePlace` of `Lifecycle`
  has the exception `sleep_zero` for it.
* A signal can be faster than `process_co_exec_end`: `get_ready_to_push` boosts the
  coroutine a second time, `prev_nice` becomes the boosted value, and its own nice
  value is gone.  `NiceLostByReboost` and `KeyStaleByReboost` of `Cfs` say that this
  is the only way.
* A pool of mapped blocks makes its first block before `use_mmap` is set and gives
  it to `munmap`, which fails: one block per pool is lost (`OneBlockLeaked`).
* When the exchange of `writer::try_lock` fails after its function has taken
  `w_lock`, the retry finds its own lock and returns false with `w_lock` locked.
* A push that links its node behind one that a pop has marked loses it, and what is
  linked behind it.  `QueueOrder` of `QueueLockFree` says that nothing else is lost, in
  whatever order pushes run beside pops that run one at a time, and that order and
  uniqueness stay; `TailRight` says that tail and destroyed nodes are safe only while
  no push and pop have overlapped.  With pops at once, too, `QueuesWhole` promises only
  that what is popped was pushed (`OnlyPushed`); and with two pushers a slot of
  `RingBufferLockFree` can be read before it is written, so that it promises only that no
  index passes its fence (`NeverPastFence`).
* `Epoller::waiter` erases a request and leaves its descriptor on the kernel's list.  A
  level-triggered event then comes again, finds no request, and the waiter throws
  (`io/epoller.cpp:69`); so it does after a `cancel` between `epoll_wait` and the lock, and
  an add between the two halves of a `cancel` loses its request.  An event fetched
  before a `cancel` and a new `add` of the descriptor calls the new request's callback.
  `EventsExplained` and `StraysExplained` say that these are the only ways.
* `Mutex` starts its semaphore at 0: the first `lock` waits until somebody unlocks.

Seven properties more are stated in the modules and belong to no run of
`PROJECT.json`.  Each says what a comment, a test or an assertion says of the
program, and TLC finds it violated within seconds by what the code does, with
`Spec` and the constants given here:

| Module, property | Constants | The code |
|---|---|---|
| `MCScheduler`, `MainStaysHome` | those of `MCSchedulerSteal.cfg`, `TIMERS` 0 | a thief takes the main coroutine like any other; `Coroutine.cpp:160` says that its thread must be this one |
| `MCLifecycle`, `FreedOnlyAtRest` | those of `MCLifecycle.cfg`, `MaxOps` 2, `Careless` TRUE | a handle destroyed without an await, while its coroutine dies on another thread, is freed under the dying callback (`Coroutine.cpp:174`; `:172` says that it waits for the update of the status) |
| `Cfs`, `OrderedByPriority` | 3 coroutines, 2 schedulers, `Own` {0, 10}, `Slice` {65536, 131072}, `MaxRuntime` 196608 | `SortWrapLessCmp` shifts by 7 where the comment at `Scheduler.h:60` asks for the sign of the difference: priorities 131072 apart compare equal |
| `Epoller`, `NoInvalidFd` | 2 users, 2 descriptors, `EventsSize` 1, `MaxRequests` 2 | a legal `cancel` between `epoll_wait` and the lock, or a level-triggered event that comes again after `io/epoller.cpp:72`, makes the waiter throw "invalid fd" (`io/epoller.cpp:69`) |
| `QueueLockFree`, `AllPulled` | 2 pushers, 1 popper, 2 nodes, 2 pops, `OnePop` TRUE or FALSE | a push that links its node behind one that is being popped loses it; `main.cpp:107` asserts that all are pulled |
| `SkipListLockFree`, `NewSizePositive` | 3 threads, `MaxKey` 2, `MAX_HEIGHT` 2, `Limit` 0, `SizeModulus` 16, 6 nodes, 4 calls, `Apart` FALSE | `DASSERT(newSize > 0)` at `SkipListLockFree.h:374`, with a push and an erase of one key at once |
| `BitSetLockFree`, `SetBitReports` | 2 threads, `BITS_COUNT` 3, `block_bits` 2, 1 call, `Phases` FALSE | `set_bit` returns the old bit, and the comment at `BitSetLockFree.h:56` says: whether it was changed |

## 5. Proofs

| Module | Theorem | Property | For every |
|---|---|---|---|
| `SchedulerProofs` | `TypeCorrect` | `TypeOK` | number of schedulers and timer threads, finite set of coroutines, buffer size |
| | `NothingLost` | `ExactlyOnePlace` | |
| | `StacksExclusive` | `StackExclusive` | |
| | `CountsExact` | `CountExact` | |
| | `BufferPathSafe` | `BufferPathFindsCo` | |
| | `LocksDisciplined` | `LockDiscipline` | |
| | `TokensAccounted` | `TokensMatchWork` | |
| | `OwnersAgree` | `OwnerAgrees` | |
| | `AssertionsNeverFail` | `AssertionsHold` | |
| | `SchedulerDispatches` | `ImplementsDispatch` | |
| `SemaphoreProofs` | `ParkedHaveOneWaker` | `OneWaker` | initial count, number of wait queues, finite sets of coroutines, timers and tasks |
| | `WaitersCounted` | `WaitersMatch` | |
| | `PermitsConserved` | `Conservation` | |
| | `SemaphoreTypes`, `PermitsFound` | `TypeOK`, `NoLostPermit` | |
| | `SemaphoreCounts` | `CS!Spec`, the safety half of `ImplementsSemaphore` | the same, without tasks |
| `ChannelProofs` | `ChannelTypes` | `TypeOK` | finite set of coroutines, set of values, `SIZE` > 0 |
| | `BufferNeverFails` | `BufferAsserts` | |
| | `ValuesOnce` | `EachValueOnce` | |
| | `ValuesNeverLost` | `NeverLost` | |
| | `NobodyWaitsForNothing` | `NobodyForgotten` | |
| | `TimedBufferNeverFails` | `TimedBufferAsserts` | the same, and number of calls |
| | `TimedValuesReported` | `ValuesReported` | |
| `LifecycleProofs` | `FreedWhenAtRest` | `FreedOnlyAtRest` | set of coroutines, number of workers and of calls; `Careless` FALSE |
| | `CoroutinesNeverLost` | `CoroutinesKept` | |
| | `LifecycleJoins` | `J!Spec` without fairness, the safety half of `ImplementsJoin` | |
| `LockProofs` | `SpinIsLock` | `ImplementsLock` | set of threads, budget |
| | `FailureJustified` | `FailsOnlyIfHeld` | |
| | `HoldersAlone` | one holder at a time | |
| `RWLockProofs` | `RWLockSafe` | `RWSafe` | finite set of threads below `WriterLimit`, set of operations, budget |
| | `WritersGoFirst` | `WritersFirst` | |
| `ServicesProofs` | `PoolKeepsUnits` | `UnitsKept` | number of blocks, block size, sets of threads and lengths |
| | `TimersCallOnce` | `Ti!CallbacksOnce`, its half about timers | sets of timers, tasks and users, bounds on ticks and calls |
| | `RequestsCalledOnce` | `Ep!CallbacksOnce`, its half about the epoller | set of users and finite set of descriptors, events per wait, number of adds |
| | `ServicesCallOnce` | `CallbacksOnce` | all of these |
| | `CfsAccounts` | `BoostsAccounted` | coroutines, schedulers, nice values and slices, with and without contention |
| `ContainerProofs` | `RingTypeCorrect` | `TypeOK` of `RingQueue` | set of values, first capacity, growth factor, bounds |
| | `RingAlwaysWhole` | `RingWhole` | |
| | `RingIsFifo` | `ImplementsFifo` | |
| | `FencesHold` | `NeverPastFence` of `RingBufferLockFree` | sets of pushers and poppers, capacity |
| | `RingOneByOne` | `Fifo`, `SlotExclusive` | capacity; one pusher, one popper |
| | `QueueInOrder` | `QueueOrder` of `QueueLockFree` | sets of pushers and poppers; `OnePop` |
| | `QueueOnlyPushed` | `OnlyPushed` | sets of pushers and poppers |
| | `ListStaysWhole` | `ListWhole`, `AllErased` of `ListLockFree` | finite set of threads, number of nodes and pops |
| | `LockedOnce` | `EachOnce`, `SizeExact` of `LockedContainer` | sets of threads and items |
| | `BitSetHonest` | `ChangeHonest`, `CompareTrue` of `BitSetLockFree` | set of threads, number of bits, bits per block |
| | `BitSetPickedOnce` | `PickedIsOff`, `EachPickedOnce` | the same; `Phases` |
| | `ContainersKeep` | `ContainersWhole` | all of these |

Each component has one inductive invariant, a conjunction of named parts, which
TLC has checked on the component's instance.  It is shown to hold initially and
to be kept by `Next` with one lemma per part, and in it one step per action.

* `SchedulerProofs`: `TypeInv` (`TypeOK`, and which locals are set at which place of
  the code), `LockInv` (who may hold a `sched_lock` where), `StackInv`
  (`stk_active_lock` is held exactly for the stacks somebody is on),
  `ExactlyOnePlace`, and `CountInv`: `CountExact`, and that a thief never takes the
  last coroutine of a heap, which keeps `BufferPathFindsCo` true while a scheduler is
  between its token and its pickup.  `ExactlyOnePlace` alone is not inductive: that a
  step does not put a coroutine where it already is depends on who holds which
  lock and on what `current` and `arg` mean at each `pc`.
  For `Dispatch` it is what a coroutine says about itself wherever it is.
  `OwnerAgrees` speaks of queues only, and a coroutine gets there through the local
  vectors of drains, thefts and overflows and through the argument of an application,
  so `SelfInv` says for each of these places which of `status`, `scheduler` and
  `occupy_thread` is set already (`ArgSays`, `BagSays`, `CurrentSays`, `ParkedSays`) and
  that the vectors are empty elsewhere (`LocalsInv`).  The refinement and the
  assertions follow from it.  `TokensMatchWork` is kept step by step: a step moves
  work between two schedulers together with what it owes them (`Settles`), takes
  one token for one coroutine (`TakesToken`), or changes neither.
* `SemaphoreProofs`: `PlaceInv` says where every thread, wrap and task can be: a wrap is
  held by one signaller (`GotSays`), a task is in one place of one timer
  (`TimerSays`), only `cancel` takes a wrap away for good and disarms the task with
  it (`ArmedSays`), and a parked coroutine is in one queue or has one live task
  (`ParkSays`).  `OneWaker` follows.  `WaitersMatch` and `Conservation` are sums of the
  cardinalities of four sets; each step is reduced to which of them gain or
  lose one element.  `SemaphoreCounts` assumes `Task = {}`: with timed waits a stale
  wrap makes the refinement false, and `Conservation` says by how much.
* `ChannelProofs`: the four semaphores are accounts (`AccountsSay`).  Every unit is in
  the count or with a coroutine that has taken it and not given it on, and the
  holders are told by `pc`, by `granting` and by whether they are parked
  (`HoldsEmpty`, `HoldsFull`, `HoldsTurn`, `HoldsValue`).  From this no slot is stored
  to while it is taken.  `RingSays` ties `front`, `rear` and `m_size` to the slots that
  hold values, `OnceSays` says that places never agree on a value, and `SemSays` that a
  semaphore never has a count beside a waiter and that its waiters and the wakeups
  owed are as many as those parked.
  With `push_for` and `pull_for` (`TimedInv`), timeouts unbalance `receiver` and `sender`, and
  with them two of the four accounts.  The slots are still accounted for by
  `empty` and `full` alone, where nobody waits with a timeout, and that is what the
  assertions need.  For `ValuesReported` (`HeldInv`), `TimedHands` says at which `pc`
  a coroutine has a value of its own, in `x` or in `ans`, and that who waits on `receiver`
  has not delivered and who will be granted it has not received; with `RingSays` and
  `OnceSays`, which hold as before, no value is in two places, and the only steps that
  empty a hand without filling another are the returns that the property names.
* `LifecycleProofs`: `LifeInv` ties the six fields of a coroutine together.  `LockSays`
  says at which `pc` of whom a `status_lock` is held, `HandleSays` and `AwaitSays` that
  an awaiting coroutine has its callee's handle and is registered with it once,
  from `register` on until the callee is dead; `FreeSays` and `FrameSays` that who
  destroys a handle is alone with it and has awaited it; `DeadSays` what a dead
  coroutine may still do; `GoneSays`, `PlaceSays` and `KeptSays` where a coroutine is,
  place by place.  The parts need each other: that a callee still lives when its
  caller's callback unlocks it follows from who holds its lock, and that from what
  its status is.  All three theorems assume that handles are awaited before they
  are destroyed (`~Careless`): otherwise `FreedOnlyAtRest` is false,
  as the table in section 4 shows.
* `LockProofs`: `OneHolder`, and `SeenWhenHeld`: while the flag is set every thread in a
  call has seen it set.  The refinement maps each step of `SpinLock` to a step of
  `Lock` or to a stutter.
* `RWLockProofs`: `ValueExact` needs that readers are out while a writer is in
  (`ReadersOut`), that at most one thread holds `w_lock` (`OneHolds`), and what the
  retried exchange of `writer::try_lock` has seen (`TrySaw`).  The assumption that
  the threads are fewer than `WriterLimit` is needed: `READER_SHIFT` is
  `sizeof(unsigned)`, so the sixteenth counted writer would carry into the readers.
* `ServicesProofs`, the pool (`PoolInv`): `OrderSays` gives every block of the list a position
  that ascends along `next` and skips nothing, which is what unlinking in the middle and
  at either end keeps; `CountsSay` that a block counts exactly its live units;
  `ReleaseSays` that an unlinked block is unmapped by one thread; and `MadeSays` that only
  the constructor's block is of the wrong kind, from which `OneBlockLeaked` follows.
* Timers (`TimersInv`): a task is in one of five places: detached, cancelled, pending in
  the set of its timer, picked by the timer's thread, or called.  `OneCallback` and
  `FoundByPointer` can be read off the place.
* Epoller (`EpollerInv`): the request of a registered descriptor is in the map until its
  callback has run, unless its add crossed a cancel (`RequestsSay`), and a request that
  is in the map was not called; `OneshotSays` keeps the kernel from reporting an
  answered one-shot descriptor; `EventsSay` that an event is for the descriptor's
  current request until that is cancelled; `CancelSays` what a cancel that has yet to
  erase may find.  There is no hypothesis on the users.
* CFS: a coroutine is `Plain` (its nice value is its own), `Boosted` (its own value is
  in `prev_nice`) or was boosted twice; which of them it can be follows from `where`,
  `stk_active` and `wakeup_timer`.  In the calm case the last is out of reach.
* `ContainerProofs`, `RingQueue`: `TypeOK`, `RingWhole` and `Room` (the capacity and what still
  fits).  The refinement maps the places from the front on to a sequence; `extend` and
  the steps of `push_all` that only grow the ring map to stutters.
* The lock-free ring: `SideSays` says what a caller has read, an index not past the
  current one and then a fence beyond it.  With one pusher and one popper `OneSays`
  gives each fence in terms of the other side's index and of the claim that is not
  carried out yet, and `SlotsSay` which value each slot holds.
* The lock-free queue: `OnePopInv`, for one pop at a time beside any pushes.  Pointers
  lead forward in the order in which nodes were linked (`LinksSay`), so what the sentinel
  leads to is later than all that have gone (`GoneSays`), and order and uniqueness follow.
  A pop's `after` is the successor of its node except for what was linked behind it
  when it was marked (`TakerSays`), from which `FollowSays` and, as long as no such link was
  made, `WholeSays` are kept.  `ApartInv` is the stronger chain that holds until a push and
  a pop overlap: the last node of a push in progress is in it, a pop is alone
  (`PopSays`, `QuietSays`); it gives `TailRight`.  `OnlyPushed` needs none of this and holds
  for any mix of calls: every node that a call or a link leads to is `Listed`.
* The lock-free list: `Shape`.  Nodes are unborn, known or out; the known ones that are
  not out are the spine.  `LocksSay` gives the locks of each `pc`, and `RemoverSays` what a
  removal has checked under them and may rely on; `SpineSays` that the spine is a chain
  in both directions but for the one link a removal is about to write; `PusherSays` and
  `EndSays` that tail is the last of it unless exactly one thread is about to store tail,
  and that nobody reaches the new last node before that.  `SizeInv` counts the pushes and
  removals that returned.  When all are idle nothing is unborn or in between, and
  `ListWhole` is what is left of these.
* `LockedContainer`: `LockSays` (the lock, and `m_size` behind it by what its holder has
  done) and `OnceSays` (an item is with its pusher, in the stack or with one popper).
* The bit set: `CallSays` is what a call knows of itself.  For the picking phase `BitSays`
  says where each bit is (on, with one picker, or picked), and `PassSays` that blocks
  before a picker's index are empty.  That `countl` finds the least bit uses that the
  naturals are well-founded.
* `Services` and `Containers`: a step of the composition is a step of one component and a
  stutter of the others (`ServiceSteps`, `ContainersApart`), so a behaviour of it is one
  of each component, and what the components keep holds of all of them.

Only model-checked:

* All liveness, and with it the fair halves of `ImplementsSemaphore` and
  `ImplementsJoin`: the provers treat neither fairness nor `ENABLED`.
* `QueuesWhole`: `SkipListLockFree` has no proof; `QuaternaryHeap` and `SkipList` have
  recursive operators, which also keeps `SkipListIsMultiset` from the provers;
  `SomeoneGoesOn` of the list speaks of `ENABLED`.  What it says of the ready queues and
  of the other containers is proved.
* `ClearCount` and `PickupAssertion` are violated.
* What a recursive function computes for every input, as `pushup` of the heap: the
  induction theorems take operators as arguments, which the provers cannot
  instantiate.

## 6. Not modelled, and what could come next

* Context switching is assembly, the B-tree and the TSC clock are third-party code,
  the static stack pool is not compiled, tests and demo are only read.
* `BinaryHeap`, `RingBuffer`, `Stack`, `Recycler` and `inplace_vector` are plain
  sequential code; `QuaternaryHeapLock`, `QueueLock` and `MultiSetLock` put one lock
  around each call.
* Operations without a caller (`apply_ready_eager`, `reallocate`, the pool's scopes),
  failures of the kernel (`mmap`, `epoll_create1`), and overflow at 2^32 and 2^64.
* `front` and `pickup` of the lock-free skip list and `count_one` of the bit set: no
  document says what they promise beside other calls.
* The buffer of a moved `Co<Ret>` (`include/Coroutine.h:131`).
* Which function a task calls back: `reset_until(until, f)` assigns `callback` after the
  task is in its timer again (`timer/TimerTask.cpp:79`), so the timer may run the old one;
  `Timers` counts calls and has no functions.  The ring of the default
  constructor of `RingBufferLockFree` (`RingBufferLockFree.h:23`), whose `m_write_fence`
  is 0: every push to it fails.
* Steps that are one action because nothing between them is shared or the detail is
  elsewhere: parking, wrap and timer of `wait_for` in `TimedChannel` (`Semaphore` has them
  apart), the release of the locks of a push with the read of the height in
  `SkipListLockFree`, and a sleep of zero, which `Lifecycle` has and `Scheduler` leaves out.

Next: the lock-free skip list for every number of threads and height; the channel
as a refinement of a bounded queue; the lock-free queue with pops at once beyond
`OnlyPushed`.

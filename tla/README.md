# AsyncTask in TLA+

AsyncTask is a C++20 coroutine library: coroutines (`Task`), executors that run
them on threads, synchronisation primitives that suspend them, and a reactor on
epoll that wakes them. Almost everything that can go wrong in it is an
interleaving of threads at a few atomics and queues. This directory models those
interleavings in TLA+, model-checks them with TLC on small instances, and proves
the invariants that matter most with TLAPS for every value of the constants.

Paths below are relative to `include/Async/` unless they say otherwise.

## The system

| Component | State | Operations | Interacts with |
|---|---|---|---|
| `Slab` (Slab.hpp) | `mEntries`, `mLen`, `mNext` | insert, vacantEntry, tryRemove, get, clear, shrinkToFit, recreateVacantList | the Reactor keeps its Sources in one; its keys go to epoll |
| `mpmc::Queue` (ThreadSafe.hpp) | a deque under a mutex | push, pop, steal, empty | every pool queue and every waiting list |
| `Mutex` (Primitives.hpp) | `mLocked`, `mPending` | lock, try_lock, unlock | hands coroutines to the executor |
| `CondVar` (Primitives.hpp) | `mPending` | wait, notify_one, notify_all | same |
| `StealingThreadPool` (ThreadPool.hpp) | per-worker queue and semaphore, `mPendingTasks`, `mCount` | execute, the worker loops, destructor | runs every coroutine of MultiThreadExecutor |
| `BlockingThreadPool` (ThreadPool.hpp) | queue, idle and thread counts | execute, loop, growPool, destructor | runs blockSpawn's functions |
| `ThreadPool` (ThreadPool.hpp, deprecated) | queue, `mTaskTotal`, flags | execute, worker, waitEmpty, destructor | examples only |
| `Poller` (sys/Event.hpp over lib/sys/unix/epoll.cpp) | `mNotified`, eventfd, timerfd, epoll registrations, `mEventsLock` | notify, wait, add, mod, del | the Reactor sleeps in it, every thread may notify it |
| `BlockingExecutor` (Executor.hpp) | a reference to the blocking pool | blockSpawn | base of both executors |
| `Reactor` (Reactor.hpp) | Sources, timers, timer operations, four locks | insertIo/removeIo/updateIo, insertTimer/removeTimer, sleep, react | block() serves it |
| `MultiThreadExecutor` (Executor.hpp) | `mSpawnCount`, a promise per block() | block, spawn, spawnDetach, blockSpawn | pool, reactor |
| `InlineExecutor` (Executor.hpp) | `mQueue`, `mSpawnCount` (not atomic) | the same | reactor, blocking pool |
| `JoinHandle` (Executor.hpp) | the atomic `handle`, `result` | join, done, and the callback of spawn | joiner and spawned coroutine |
| `Task`, `DetachTask`, `ContinueTask` (Task.hpp) | coroutine frames, continuation, callback | resume, co_await, final suspension | everything |
| `Runtime` (Runtime.hpp) | one executor, one reactor | Init, forwarding, WaitAll | everything |

A worker of the pool resumes a handle. The coroutine runs until it suspends,
which always means that its handle has been published somewhere before the worker
is done with it: in a `Mutex` queue, in the timer operations, in a `JoinHandle`,
in a `Source`. From that moment any other thread may resume it. When a detached
coroutine ends, `DetachTask`'s final awaiter destroys the frame and then calls a
callback, which updates a counter, a promise or a `JoinHandle` and notifies the
reactor. The thread in `block()` polls its conditions and otherwise sleeps in
`epoll_wait`, which only `notify()`, a timer, a descriptor or a signal ends.

Hard to test, therefore: check-then-sleep windows (the pool's `mPendingTasks`,
`block()`'s conditions, `mNotified`), check-then-publish windows (`Mutex::lock`,
`JoinHandle`), object lifetimes across threads (`JoinHandle`), and shutdown.
`PROJECT.json` lists every such place under `hazards`, with the property that
watches it or the reason why none does.

What makes each component correct:

- Slab: the vacant list stays sound and complete; callers see a map.
- Mutex: one owner; every `lock()` returns (this one fails).
- CondVar: a suspended coroutine is woken once; notify_all reaches all who waited.
- BlockingThreadPool: its counts are exact, and a queued task has a thread coming.
- Pool: each task invoked once; no sleeping owner with a queued task; a
  destructor that returns and leaves behind no more than it must.
- Poller: a notification is never lost; its descriptors are closed once.
- Reactor: a sleeper is resumed once and not forgotten; an event reaches the
  coroutine that waits for it; `epoll_wait` never outlasts a timer.
- block(): returns exactly when everything it must wait for has ended.
- JoinHandle: the joiner is resumed once, with the result, and nobody touches
  the handle after that.
- Tasks: every frame is destroyed once; the exception of a Task reaches whoever awaits it.

## Modules

| Module | What it is |
|---|---|
| `Slab`, `SlabMap`, `SlabProofs` | the slab, the finite map it promises, proofs |
| `MpmcQueue`, `MpmcQueueProofs` | what each queue operation does to the deque, and how often a value is in it; used by `AsyncMutex`, `CondVar`, `StealingThreadPool` and `Reactor` |
| `AsyncMutex` | `async::Mutex` |
| `CondVar` | `async::CondVar` |
| `BlockingThreadPool` | the growing pool of blockSpawn |
| `ThreadPool` | the deprecated pool |
| `Wakeups`, `WakeupsProofs` | the four of them side by side, proofs |
| `StealingThreadPool`, `StealingThreadPoolProofs` | the work-stealing pool with its destructor |
| `Poller`, `Notification`, `PollerProofs` | the notification path, the flag it promises to be |
| `PollerFds` | the three descriptors of `impl::Poller`, from `Create()` to the destructor |
| `Reactor` | timers, Sources and react(), over a poller that is what `Notification` promises |
| `ReactorStack`, `ReactorStackProofs` | `Reactor`, `Poller` and `PollerFds` side by side, proofs |
| `MultiThreadExecutor` | block() and spawnDetach() composed with an instance of `Poller` |
| `InlineExecutor` | the single-threaded executor next to a blocking pool |
| `Executors`, `ExecutorsProofs` | the two executors side by side, proofs |
| `JoinHandle` | spawn, join and WaitAll |
| `TaskFrame` | coroutine frames, continuations, exceptions |
| `Spawned`, `SpawnedProofs` | the last two side by side, proofs |
| `MCSlab`, `MCWakeups`, `MCPool`, `MCReactorStack`, `MCExecutors` | the instances of the passing runs |
| `MCAsyncMutex`, `MCMultiThreadExecutor`, `MCJoinHandle` | instances that the former extend, and those of the failing runs |

`Wakeups`, `ReactorStack`, `Executors`, `Spawned` and `MCPool` put several components
side by side that do not interact: a variable (`which`, `layer`, `inline`, `view`) is
chosen in the initial state and says which of them this behaviour is about; the others
stay in their initial states. The state space is the sum of theirs. The properties of an
instanced component are restated under their own names; a liveness property holds of the
behaviours of its component.

The grain is the same everywhere: one action per atomic operation, per critical
section, per system call, or per call into another component that changes shared
state. Local steps that no other thread can see are merged with the shared one
next to them. Program counters are named for what happens next (pool, poller,
block) or for the place reached (mutex, join).

**Slab.** Key `k` is `mEntries[k + 1]`; an entry is a record tagged `occupied` or
`vacant`, the variant of the code. Indexing past the vector and `assert(0)` set
`fault`. `held` is a key inside a `VacantEntry`; the tests use such an entry before
the next call, and so does the model. `MaxLen` bounds the number of live values.
`MaintenanceSpec` adds `shrinkToFit` and `recreateVacantList`, which nothing in the
repository calls.

**AsyncMutex.** `lock` is the first CAS, `await_suspend` the push, `resumed` the
second CAS with its assert; `unlock` is the pop, followed by `unlockExecute` or
`unlockStore`. In `lock()` the failed CAS has left `expected` equal to `true`, so
the second CAS succeeds exactly when the flag is still set: `resumed` models that.
`Rounds` bounds the calls each coroutine makes.

**CondVar.** `wait` suspends and pushes, `notify_one` pops and executes,
`notify_all` does so until a pop finds the queue empty: that pop is its own last
look, so a coroutine which it has woken and which waits again can be popped by the
same call. The condition variable has no mutex, so a notification before the push
wakes nobody; that is how the code is used and no property forbids it. `owed` and
`wakes` are history variables.

**StealingThreadPool.** One `Task` is one call of `execute()`. `enqueue_task` has a
step for each of its shared accesses; `mCount++`, a data race, is a load and a
store. `release` of a semaphore that is already at its maximum of 1 is undefined;
the two outcomes that implementations produce, counting on and staying at one, are
both taken. `Parent` says which tasks are submitted by the run of another one. The
destructor is a second thread; tasks from outside the pool are not submitted once
it has started, as with any object. `allStale` is a history variable.

**BlockingThreadPool.** Everything happens under `mQueueMt`, so an action is one
critical section. `pc` says where a thread is between two of them: `woken` and
`timedout` threads have left `wait_for` and have yet to lock, and tasks may be
queued or notified until then. `notify_one` picks any waiter, the destructor among
them, because it waits on the same condition variable. `growPool`'s 5 tasks per idle
thread are the constant `perIdle`.

**ThreadPool.** `mTaskTotal`, `mRunning` and `mWaiting` are changed outside
`mTaskMt`, one step each; `mTaskTotal` wraps at `Modulus`. A worker that has seen
its predicate false and is about to sleep is in `doze`, where `notify_all` misses it.

**Poller.** `waitPc` follows `Poller::wait` into `impl::Poller::wait`: `epoll_wait`,
the read that empties the eventfd, the `mod` that re-arms its oneshot registration,
`mNotified.exchange(false)`. Timers, descriptors and signals are reasons for
`epoll_wait` to return and nothing else. The kernel is modelled from its use: a
oneshot registration is disabled when reported; re-arming a ready descriptor
reports it again.

**PollerFds.** Each system call of `Create()` may fail. The three objects are
`Create()`'s variable, the result it returns and the member it is moved into; each
closes in its destructor what it holds. The fallback for a kernel without
`epoll_create1` is included, and is the one path that leaks.

**Reactor.** `mEventLock` makes react() one process, which follows the code through
`processTimerOps`, `processTimers`, the wait, the second round of both, the dispatch
of events and the execution of `handles`. `sleep`, `insertTimer` (push, then notify,
then the store of the id), `removeTimer`, `insertIo` with its failure path,
`removeIo`, and `setReadable`/`setWritable` followed by `updateIo` run next to it.
Times are kept as ticks still to go; `lag` is the time lost between reading the clock
and arming the timerfd. `processTimers` erases the entry its loop stands on: the
model takes both outcomes, going on as intended and `fault`, after which nothing
happens. A oneshot registration is disabled by a report until `updateIo` re-arms it.
`overtaken` and `fresh` are history variables for the two cases in which an event is
not the waiter's own. The registration with epoll carries the slab's key.

**MultiThreadExecutor.** The pool is abstracted to what `StealingThreadPool` shows
of it: a handle that is queued is eventually resumed. A coroutine's own suspensions
are part of its run. `react`, `pollerStep` and `pollerWake` are the steps of
`Poller` taken by the thread in `block()` under `mEventLock`. `Host` says which
coroutine, if any, makes the call of `block()`.

**InlineExecutor.** `mQueue` and `mSpawnCount` have no synchronisation; `+= 1` and
`-= 1` are a load and a store each. A coroutine that awaits blockSpawn goes on on the
thread of the blocking pool that ran the function (`continueOn`), until it suspends;
a timer brings it back to the thread in block(). `raced` records a lost update. A push
lasts from the store of the count to its own step, a pop from the loop's test of the
queue to its step (`UsesQueue`): if another thread's push or pop is under way when one
ends, the two have overlapped or not (`EndAccess`), and once they have, `torn`, a handle
may be lost or worse, and the behaviour ends. A test of the empty queue next to a push
sees it before or after. `processTimers` erases under its loop as in `Reactor`
(`CollectTimers`): with a timer due it collects all of them, or some, or the program is
in "fault" for good. `Parent` says who may detach whom, and `Calls` how many calls each
coroutine may make.

**TaskFrame.** `Continue` is symmetric transfer: exactly one frame runs. `owner`
says who holds the Task object and will destroy the frame; a DetachTask and a
ContinueTask destroy themselves. `throwing` unwinds a body level by level and
destroys the Tasks it holds, `~Task`'s assert included. Bodies are arbitrary, except
that one which returns has awaited every Task it created. A tree is driven by
spawn's DetachTask or, as in examples/example_task.cpp, by main() itself, which has
no executor and therefore no blockSpawn.

**JoinHandle.** One joiner joins the handles in order, as `WaitAll` does, and then
destroys them. The two loads of `await_ready` are one step: a value other than 0
never changes. `result.value()` on an empty optional throws: the joiner is then in
`bad_optional_access`, and the handles are destroyed with spawned coroutines perhaps
still running; `NoUseAfterDestroy` speaks of the joiner that returned. If one of them has
a value and is neither joined nor done, the assert in its destructor ends the program
(`not_joined`).

## What is checked

Runs that pass:

| Run | Instance | Shows |
|---|---|---|
| `slab` | 2 values, 4 live | vacant list sound (`FreeListOK`) and complete (`NoSlotLeaked`), refinement of `SlabMap` |
| `wakeups` | `AsyncMutex`: 3 coroutines, 2 calls each | `MutualExclusion`, `HandlesOK`; a waiter queued behind an owner that has yet to pop is served |
| | `CondVar`: 3 coroutines, 2 calls each | `WokenOnce`; whoever is queued when notify_all begins returns (`OwedIsWoken`) |
| | `BlockingThreadPool`: limit of 2 threads, 3 tasks, 2 per idle thread | `CountsAreExact`; a queued task always has a thread on its way (`QueuedHasThread`) and starts (`TaskStarts`) |
| | `ThreadPool`: 2 workers, 3 tasks, two of them nested, modulus 8 | when waitEmpty returns early, and what that and a missed notification cost (`EmptyEarlyOnlyInCall`, `SubmittedEnds`, `JoinsUnlessMissed`) |
| `pool` | `StealingThreadPool`: 2 workers, 3 tasks, one nested, destroyed | `TasksAccountedFor`; the destructor returns; nested tasks are never left behind, others only from one state |
| | the same tasks on 3 workers, not destroyed | every submitted task runs; the safety of every number of workers is a theorem |
| | `JoinHandle`: 3 handles, the last two with a value | WaitAll ends, resumed once per handle, with the result in place after a suspension; no use after destruction |
| | `TaskFrame`: 3 Tasks, 2 blocking calls | `NothingLeaked`, `ExceptionsSurface`, `CallbackRuns` |
| `reactor` | `Reactor`: two sleepers, two descriptors, or one of each; 3 waiters, 2 keys | `SleeperInOnePlace`, `WaitIsBounded`, `SleepEnds`, `OnlyOvertakenStarve`, `WokenByOwnEvent` |
| | `Poller`: 3 notifiers, 2 waiters | no notification lost; refinement of `Notification`, fairness included |
| | `PollerFds` | `FdsHeldOnce` |
| `block` | `MultiThreadExecutor`: one block(), 3 detached coroutines, one of them nested | `BlockWaitsForDetached`, `NoLostWakeup`, `BlockReturns` |
| | `InlineExecutor`: a root, 3 coroutines to detach, one of them nested, 2 pool threads; 3 calls of the root, 2 of the one that detaches | `InlineBlockWaits`, `InlineBlockReturns`, `IdleQueueIsForeign` |

Runs that show the code disagreeing with what the repository says of it:

| Run | Statement | What happens |
|---|---|---|
| `mutex_lost_waiter` | `assert(cnt == 1'000'000)` in examples/example_mutex.cpp | a coroutine fails its CAS, `unlock()` finds the queue empty and clears the flag, the coroutine queues itself on a free mutex and sleeps for ever |
| `timers` | the output README.md shows for `RT::Sleep` | `processTimers` erases the map entry its range-for stands on: a due timer may end the program |
| `inline_sync` | README.md, "no additional thread synchronization is needed between coroutines" | a coroutine back from blockSpawn runs next to block(), and an update of `mSpawnCount` is lost |
| `join_result` | `assert(co_await t1.join() == 24)` in README.md | a coroutine that ends before `join()` never stores its result; `join()` throws `bad_optional_access` |
| `join_done` | the comment on `JoinHandle::handle`, "0 : not done, 1 : done, else : handle" | after a suspended join the handle keeps the joiner's address |
| `block_nested` | README.md, "the outermost Block method will wait for all coroutines created through SpawnDetach" | every block() waits for the shared count, so one inside a detached coroutine waits for its own caller |
| `slab_maintenance` | `ASSERT_EQ(slab[key], 123)` in tests/slab_test.cpp | after `shrinkToFit` the vacant list points past the vector |

Several properties name the case they do not cover, because the code does not:

- `OnlyOvertakenStarve`: a report that a descriptor is readable and writable resumes
  its reader only, and the oneshot registration is spent; the writer stays
  unarmed until somebody calls updateIo for that Source.
- `WokenByOwnEvent`: an event reported before `removeIo` and dispatched after an
  `insertIo` that was given the same key goes to the new Source.
- `QueuedHasThread`: a notification that the waiting destructor of
  `BlockingThreadPool` takes leaves the task to the timeouts.
- `SubmittedEnds`, `JoinsUnlessMissed`: `ThreadPool` counts a task after pushing it,
  and clears `mRunning` without the mutex.
- `ExceptionsSurface`, `CallbackRuns`: a DetachTask swallows an exception and hands
  its callback a value nobody set; an exception that leaves a Task unawaited trips
  `assert(handle.done())` in `~Task`.
- `InlineBlockWaits`: after a lost update nothing is promised. `InlineBlockReturns`:
  nor after two accesses of the queue have overlapped, or a due timer has faulted.
- `ExceptionsSurface` speaks of Tasks: what a function given to blockSpawn throws stays
  in its ContinueTask, and the awaiting coroutine goes on, or trips the assert on the
  result if there is to be one.
- `LeftBehindOnlyIfAllStale`: see the proofs.

Bounds. Two pool workers are the fewest with an owner and a thief; three, where the
pool is in use, add a second victim and two thieves that meet. Two outside tasks
race in `execute()`, a third is submitted from inside, so the queue it is sent to may
belong to a worker that has exited. Three notifiers let one sit between exchange and
write while a second is swallowed and a third arrives after the flag has been
lowered. Three mutex coroutines are an owner, a waiter and one that slips in; with a
second call each comes back while the first hand-over is under way. The same three
are two waiters and a notifier of a condition variable, and with a second call a
woken one waits again while notify_all goes on. A blocking pool with two threads has
one that runs and one that times out, wakes or is created, and three tasks fill the
queue past `perIdle`, which is 2 in place of 5 so that growth needs no six tasks.
`Modulus` 8 exceeds the number of tasks by more than any early decrement: the wrap
below zero is distinguishable. In the reactor, durations of 1 and 2 order two timers
both ways; one descriptor with a reader and a writer has the overtaken direction, a
second one reuses its key, and a sleeper with a descriptor lets timers and events
meet in one react(); these three pairs are the initial states. Four live slab values
make every shape of a vacant list of length four. Three handles give a first, a
middle and a last argument of WaitAll; the middle one has a value that may be missing
while the last, which has one too, is unjoined. Four inline coroutines are the fewest
with two pushes in flight: the root detaches one, blocks or sleeps, which is the third of
its calls, and detaches another while the first blocks and detaches the fourth. A second
pool thread lets two of them race without the main thread. Counters (`signal`, `mEventFd`, `mCount`) are
bounded by the number of tasks or notifiers, not by a constraint. No run uses
symmetry: most check liveness.

Deadlock checking is off where the modelled clients make finitely many calls and
then stop; the liveness properties say what must have happened by then. It is on
for the slab.

Fairness. Weak fairness of each thread's own steps: pool workers, threads inside
`notify()`, the thread in `block()`, the resumption of a scheduled coroutine by the
pool. Starting a new call is never fair, except the calls a coroutine's run has to
make before it can end. `epoll_wait` is fair only when the eventfd is ready or the
timerfd has run out: no descriptor or signal is relied on to rescue a lost wake-up.
The reactor's clock ticks, and some thread is in block(), as long as a sleeper is to
be resumed. A `BlockingThreadPool` thread that waits times out; the functions it runs
need never return, and `TaskStarts` does not need them to. In `InlineExecutor` they
return, since block() waits for the coroutine behind them. `mEventLock` is strongly
fair, more than `std::mutex` gives; with one call of `block()` the two coincide, and
in `block_nested`, a run that fails, it only strengthens the result. The workers of
the deprecated `ThreadPool` and the threads that push to it also get its mutex
strongly fairly.

## What is proved

Every safety property of a passing run, action properties included, is a theorem for
every value of the constants. The invariants behind them are stronger than those the runs
list, and the theorems also cover some that no run repeats: the type invariants,
`NoFault` and `LenCountsOccupied` of the slab, `LockedIffOwned` and `ResumedWithLock` of
the mutex, `NotifyAllServesQueue` of the condition variable, `DisarmedOnlyWhileDraining`
of the poller, `RegistrationNamesItsSource` of the reactor, `CountIsExact` of the
executor, `JoinedHasEnded` of the handles, and the three parts of `TasksAccountedFor`
(`ExactlyOnce`, `PendingIsExact`, `OwnerIsAwake`), which `TasksStayAccountedFor` joins.
Each module calls its inductive invariant `IInv` (`JoinInv` in `JoinHandle`).

The theorems of a component are about its own specification. `WakeupsIsEachComponent`,
`StackIsEachLayer` and `ExecutorsIsEach` show that a behaviour of a composition is one of
each of its parts, and `WakeupsSafety`, `StackSafety` and `ExecutorsSafety` carry the
properties over.

### Slab

The invariant is `TypeOK /\ FreeListOK /\ LenCountsOccupied /\ NoFault`. `NoFault` is not
inductive alone: `insertAt` is safe because `mNext` is vacant or the end of the vector,
and stays so only because no two links coincide and none leads to the head. From it
follow `FreeListIsSound`, `SlabNeverFaults`, `LenIsExact`, and `SlabRefinesMap`, step by
step: insert binds a key that was free, tryRemove unbinds one. `SlabNoSlotLeaked` needs
the list itself: `NoSlotLeaked` says that there is a path of as many links as there are
vacant entries, from `mNext` to the end of the vector, on which all of them lie. Filling
an entry takes the first link off the path, vacating one puts a link in front.

### Mutex, CondVar and the two pools (`WakeupsProofs`)

`Mutex` (every set of coroutines and number of calls): the invariant adds `HandlesOK` to
`MutualExclusion` and `LockedIffOwned`. The hand-over in `unlock()` makes the popped
coroutine the owner in the very step of the pop; it leaves one owner because the popped
handle is suspended, in one place, and held by one `unlock()`.

`CondVar`: `WokenOnce` counts the places of a handle (the queue, the local of a notify,
the executor) and holds with `ValueInCall`, which says when that local names somebody.
The lemmas of `MpmcQueueProofs` say what a push and a pop do to the count of one value.
`OwedIsQueued` gives `NotifyAllServesQueue`: who is popped is owed no longer, so a
`notify_all()` that finds the queue empty owes nobody.

`BlockingThreadPool`: `CountsAreExact` is inductive; every action changes the counts and
the two sets of threads by the same amount. `QueuedHasThread` follows only from the
stronger `ThreadPerTask`: as long as a thread sleeps, there are no more queued tasks than
threads on their way to the queue. One thread on its way is not enough, since it takes one
task and two may be queued.

`ThreadPool`: `TotalIsExact` says that `mTaskTotal` is the number of counted tasks less
that of discounted ones modulo the width of the counter, so that it reads zero exactly
when the two are equal; a task that is not counted then is in a call of `execute()`. The
modulus has to exceed the number of tasks.

### Poller, its descriptors, and the reactor (`PollerProofs`, `ReactorStackProofs`)

`Poller`: `RaisedIsDelivered` says what stands behind a raised `mNotified`; it needs
`DisarmedOnlyWhileDraining`, since an eventfd that has been written helps only while it is
armed, and the exclusion by `mEventsLock`, since two draining waiters would disarm each
other's registration. `PollerImplementsNotification` is the safety part of the refinement;
that a raised flag makes a waiter return is a liveness property and is checked by the
`reactor` run.

`PollerFds`: `HeldByHolder` names, for every point of `Create()` and after it, the one
object that holds what is open.

`Reactor` (every set of sleepers and of descriptors, and of keys): three groups of
invariants that share only `TypeOK`.
`SleeperInOnePlace` counts the places of a handle along the operation queue, the map,
react()'s local and the executor; `RemovesAreCancelled` says that only a removal leaves a
timer without them. `WaitIsBounded` is `TimeoutOK` at the wait: the timeout is computed
from the map two steps earlier, and no insertion reaches the map without the `notify()`
that cuts the wait short. `OnlyOvertakenStarve` and `WokenByOwnEvent` need
`RegistrationNamesItsSource`, `SourcesOK` and `EventsOK`, that is, whose key is in epoll,
in the slab and in an event at hand: an event whose Source was removed finds its slot
empty or a Source that was inserted since. The earliest timer of a set exists because
durations are natural numbers (`WellFoundedInduction`).

### The pool (`StealingThreadPoolProofs`)

For every positive number of workers, every finite set of tasks and every tree of
submissions, the invariant says where a task is. `QueuesOK` puts a queued task in the one
queue its call chose, `HeldOK` a taken task with one worker and in no queue, `NothingLost`
every pushed task in one of these places or among those that have run. `ExactlyOnce`
counts these places and is therefore a consequence, not the invariant itself.
`OwnerIsAwake` is inductive next to it: `signalOwner` raises the very semaphore that the
owner of the task's queue consumes, and an owner leaves its pop loop only when it has
found its queue empty. The proofs are of `ShutdownSpec`, so they hold at any moment of the
destructor too; `InUse` carries them over to `Spec`. On top of it, `ShutdownInv` follows
the destructor. While a task is left to run, somebody has yet to look at `mPendingTasks`:
the worker that runs its parent, or a worker in the middle of its loop, which will find
`mPendingTasks` positive because `PendingIsExact`. A destructor that has returned has seen
every worker exit, and nobody looks. `NestedTasksRun` and `LeftBehindRarely` follow.

### Handles and frames (`SpawnedProofs`)

`JoinHandle` (every list of distinct handles, valued or not): the two compare-and-swaps
decide who resumes the joiner. `CallbackOK` says what each value of `handle` means for the
callback, `JoinerOK` what the joiner relies on at each point, `ProgressOK` that earlier
handles are over and later ones untouched. `NoCallbackOutlivesHandle` follows from the
last: a joiner that has returned has passed every handle.

`TaskFrame` (every set of Tasks and of blocking calls): `ChainOK` says that the frames
that have begun and not ended form a chain of awaits, from the root down to the one that
runs; `OwnersOK` that a live Task is held by a frame whose body has not ended, so
that a frame which unwinds, and destroys the Tasks it holds, leaves nothing below it.
Together they leave no frame but the root's when its callback runs. `ExceptionsKept`
follows an exception: the frame that holds it has not been awaited to the end, or its
owner is being resumed with it.

### The executors (`ExecutorsProofs`)

`MultiThreadExecutor` uses the invariant of `PollerProofs` inside the executor:
`PollerMoves` shows that every step of the executor is a step of its `Poller` or leaves it
alone. `SpawnCountExact` holds for any number of calls of block(), nested ones included.
`BlockReturnsLate` and `NoSleepOnFinishedJob` are stated for a single call, since with two
of them a notification may wake the wrong one (`block_nested`). `BlockReturnsLate` has two
parts: the promise is looked at before `mSpawnCount`, and a coroutine that has ended has
counted all it spawned; that nobody is left once the count is zero needs the tree of
spawns to have no cycle.

`InlineExecutor` (every number of coroutines, pool threads and calls): `CountOK` says of
what `mSpawnCount` is the number as long as no update has been lost: of the coroutines
that `spawnDetach` has counted and that have not ended, and of the callbacks between an end
and the decrement. block() reads the count, the result and the queue one after another
while threads of the pool go on. `LoopOK` says what stays true in between: after a count
of zero only the root can run, on the pool; what it spawns is in the queue when it has
ended, and nobody but block() takes it out. Hence `InlineWaits`; the order of the three
reads matters. `ThreadsOK`, `SpawningOK` and `QueueOK`, that no coroutine is in two hands,
carry both.

### Assumptions

Those of the modules: `None` is no value, coroutine, task, waiter, descriptor, key or
number; bounds are natural numbers and `threadNum` is positive; tasks, coroutines, threads
and descriptors are finite sets; `Modulus` exceeds the number of tasks; the frames of
spawn, its Tasks, its blocking calls and main() are distinct; `WaitAll` has at least one
argument and no handle twice; the waiters of the reactor are the directions of its
descriptors; no coroutine spawns its own ancestor. The theorems about
`MultiThreadExecutor` stand on the abstraction of the pool described above, those about
`Reactor` on a poller that is what `Notification` promises.

### Model-checked only

Every liveness property and the fairness part of the refinement of `Notification`: the
prover has neither `ENABLED` nor a rule for strong fairness over a family of actions. The
runs that fail are counterexamples and have nothing to prove.

## Plan

Every component with behaviour of its own is modelled, and the safety properties of the
runs are proved. What is left:

1. `OnlyOvertakenStarve`, `InlineBlockWaits` and the others that name an exception: show
   that the exception is as small as stated, by runs that need it.
2. `MaintenanceSpec` of the slab without `shrinkToFit`: `recreateVacantList` leaks at most
   slot 0.
3. The pool inside `MultiThreadExecutor`: a refinement of the abstraction used there by
   `StealingThreadPool`, in place of the argument in words.

## Not modelled

- `utils/expected.hpp`, a vendored copy of tl::expected, and `SysCall`, which maps a
  result to a value or an errno: the models branch on the two outcomes.
- `AfterDestroy` in Task.hpp, a second copy of `DetachTask` that nothing uses.
- `Reactor::tryLock`, and a timeout given to the reactor by the caller: block() calls
  `react(nullopt, e)` under `lock()`, and nothing calls them otherwise.
- Poll modes other than `Oneshot`: the Reactor asks for no other.
- Memory orders weaker than sequential consistency: every wait in these models is
  closed by a mutex, a semaphore or a system call.
- The lifetime of the awaiter of `sleep`: `insertTimer` stores the timer's id into it
  after the timer has been published, when the coroutine may already have gone on
  (the order is in `Reactor`, the freed memory is not).
- The lifetime of `BlockingThreadPool`: its threads are detached, and one that has
  left the queue may still use the members when the destructor returns.
- Formatting, construction helpers, concepts, build files, tests and examples; the
  last two are read as statements of what the library is to do.

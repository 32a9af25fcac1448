------------------------- MODULE MultiThreadExecutor -------------------------
(***************************************************************************)
(* block() and spawnDetach() of MultiThreadExecutor (include/Async/        *)
(* Executor.hpp), composed with Poller.  A call of block() hands its task  *)
(* to the pool and then serves the reactor until the task's promise is set *)
(* and mSpawnCount is zero; a coroutine that ends runs its afterDestroy    *)
(* callback on a pool thread and notifies the reactor.  The pool is what   *)
(* StealingThreadPool shows it to be: every handle it is given is resumed. *)
(* Suspensions inside a coroutine are part of its run.                     *)
(***************************************************************************)
EXTENDS Naturals, FiniteSets

CONSTANTS Coro,      \* the coroutines
          Blocker,   \* the calls of block(), one thread each
          Root,      \* Root[b]: the task b blocks on
          Parent,    \* Parent[c]: who calls spawnDetach(c); None for a task of block()
          Host,      \* Host[b]: the coroutine that calls b's block(), or None
          None

Detached == Coro \ {Root[b] : b \in Blocker}

ASSUME ExecutorAssumption ==
  /\ IsFiniteSet(Coro)
  /\ None \notin Coro \cup Blocker
  /\ Root \in [Blocker -> Coro]
  /\ \A b, d \in Blocker : Root[b] = Root[d] => b = d
  /\ Parent \in [Coro -> Coro \cup {None}]
  /\ \A c \in Coro : Parent[c] = None <=> c \notin Detached
  /\ Host \in [Blocker -> Coro \cup {None}]
  \* Parent has no cycles.
  /\ \A S \in SUBSET Detached : S # {} => \E c \in S : Parent[c] \notin S

VARIABLES mNotified, mEventFd, armed, mEventsLock, waitPc, notifyPc,   \* of Poller
          mSpawnCount,
          mEventLock,   \* of the Reactor: the call of block() inside react(), or None
          future,       \* future[b]: the promise of b has been set
          status,       \* how far each coroutine is
          at            \* what the loop of each call of block() does next

P == INSTANCE Poller WITH Notifier <- Coro, Waiter <- Blocker

pollerVars == <<mNotified, mEventFd, armed, mEventsLock, waitPc, notifyPc>>
vars       == <<pollerVars, mSpawnCount, mEventLock, future, status, at>>

Init ==
  /\ P!Init
  /\ mSpawnCount = 0
  /\ mEventLock = None
  /\ future = [b \in Blocker |-> FALSE]
  /\ status = [c \in Coro |-> "new"]
  /\ at = [b \in Blocker |-> "uncalled"]

Becomes(c, s) == status' = [status EXCEPT ![c] = s]
BlockGoto(b, s) == at' = [at EXCEPT ![b] = s]

\* c is executing its own code: it is not in a nested block(), nor in a
\* spawnDetach() that has counted the new coroutine and not yet queued it.
Executing(c) ==
  /\ status[c] = "running"
  /\ \A b \in Blocker : Host[b] = c => at[b] \in {"uncalled", "returned"}
  /\ \A d \in Detached : Parent[d] = c => status[d] # "counted"

-----------------------------------------------------------------------------
(***************************************************************************)
(* Coroutines                                                              *)
(***************************************************************************)

\* Mutant: the coroutine is counted when it is done being spawned, not before.
countAtSpawn_Late == mSpawnCount

\* mSpawnCount.fetch_add
countAtSpawn == mSpawnCount + 1

spawnDetach(c) ==
  /\ c \in Detached
  /\ status[c] = "new"
  /\ Executing(Parent[c])
  /\ mSpawnCount' = countAtSpawn
  /\ Becomes(c, "counted")
  /\ UNCHANGED <<pollerVars, mEventLock, future, at>>

\* mPool.execute(handle)
execute(c) ==
  /\ status[c] = "counted"
  /\ Becomes(c, "queued")
  /\ UNCHANGED <<pollerVars, mSpawnCount, mEventLock, future, at>>

\* A worker of the pool resumes the coroutine.
resume(c) ==
  /\ status[c] = "queued"
  /\ Becomes(c, "running")
  /\ UNCHANGED <<pollerVars, mSpawnCount, mEventLock, future, at>>

\* The coroutine ends; its frame is destroyed and afterDoneFn sets the promise
\* of its block() or takes it off mSpawnCount.
afterDone(c) ==
  /\ Executing(c)
  /\ \A d \in Detached : Parent[d] = c => status[d] # "new"
  /\ \A b \in Blocker : Host[b] = c => at[b] = "returned"
  /\ IF c \in Detached
     THEN /\ mSpawnCount' = mSpawnCount - 1
          /\ UNCHANGED future
     ELSE /\ future' = [b \in Blocker |-> future[b] \/ Root[b] = c]
          /\ UNCHANGED mSpawnCount
  /\ Becomes(c, "notifying")
  /\ UNCHANGED <<pollerVars, mEventLock, at>>

\* Mutant: afterDoneFn does not notify the reactor.
afterDoneNotify_Not(c) ==
  /\ status[c] = "notifying"
  /\ Becomes(c, "done")
  /\ UNCHANGED <<pollerVars, mSpawnCount, mEventLock, future, at>>

\* afterDoneFn: GetReactor().notify(), up to Poller's exchange.
afterDoneNotify(c) ==
  /\ status[c] = "notifying"
  /\ P!notify(c)
  /\ Becomes(c, "done")
  /\ UNCHANGED <<mSpawnCount, mEventLock, future, at>>

writeEventFd(c) ==
  /\ P!writeEventFd(c)
  /\ UNCHANGED <<mSpawnCount, mEventLock, future, status, at>>

-----------------------------------------------------------------------------
(***************************************************************************)
(* block()                                                                 *)
(***************************************************************************)
block(b) ==
  /\ at[b] = "uncalled"
  /\ Host[b] # None => Executing(Host[b])
  /\ BlockGoto(b, "future")
  /\ Becomes(Root[b], "queued")
  /\ UNCHANGED <<pollerVars, mSpawnCount, mEventLock, future>>

\* Mutant: mSpawnCount is looked at although the promise is not set.
checkFuture_Skip(b) ==
  /\ at[b] = "future"
  /\ BlockGoto(b, "count")
  /\ UNCHANGED <<pollerVars, mSpawnCount, mEventLock, future, status>>

\* future.wait_for(0s)
checkFuture(b) ==
  /\ at[b] = "future"
  /\ BlockGoto(b, IF future[b] THEN "count" ELSE "lock")
  /\ UNCHANGED <<pollerVars, mSpawnCount, mEventLock, future, status>>

\* mSpawnCount.load() == 0
checkCount(b) ==
  /\ at[b] = "count"
  /\ BlockGoto(b, IF mSpawnCount = 0 THEN "returned" ELSE "lock")
  /\ UNCHANGED <<pollerVars, mSpawnCount, mEventLock, future, status>>

\* Reactor::lock()
lock(b) ==
  /\ at[b] = "lock"
  /\ mEventLock = None
  /\ mEventLock' = b
  /\ BlockGoto(b, "react")
  /\ UNCHANGED <<pollerVars, mSpawnCount, future, status>>

\* ReactorLock::react: mPoller.wait ...
react(b) ==
  /\ at[b] = "react"
  /\ P!wait(b)
  /\ BlockGoto(b, "wait")
  /\ UNCHANGED <<mSpawnCount, mEventLock, future, status>>

pollerStep(b) ==
  /\ P!InWait(b)
  /\ UNCHANGED <<mSpawnCount, mEventLock, future, status, at>>

pollerWake(b) ==
  /\ P!Wake(b)
  /\ UNCHANGED <<mSpawnCount, mEventLock, future, status, at>>

\* ... and the end of the statement, where the ReactorLock is destroyed.  What
\* react() returns, an interrupted wait included, is ignored.
unlock(b) ==
  /\ at[b] = "wait"
  /\ waitPc[b] = "idle"
  /\ mEventLock' = None
  /\ BlockGoto(b, "future")
  /\ UNCHANGED <<pollerVars, mSpawnCount, future, status>>

-----------------------------------------------------------------------------
CoroStep(c)  == spawnDetach(c) \/ execute(c) \/ resume(c) \/ afterDone(c)
                  \/ afterDoneNotify(c) \/ writeEventFd(c)
BlockStep(b) == checkFuture(b) \/ checkCount(b) \/ lock(b) \/ react(b) \/ pollerStep(b) \/ unlock(b)

\* A call of block() by a coroutine is part of the run of that coroutine.
Next ==
  \/ \E c \in Coro : CoroStep(c)
  \/ \E b \in Blocker : block(b) \/ BlockStep(b) \/ pollerWake(b)

Spec == Init /\ [][Next]_vars

\* Pool threads and blocked threads run, coroutines end, and mEventLock is given
\* to a thread that keeps asking for it.  epoll_wait sleeps until it is notified.
FairSpec ==
  /\ Spec
  /\ \A c \in Coro : WF_vars(CoroStep(c))
  /\ \A b \in Blocker : /\ WF_vars(BlockStep(b) \/ (Host[b] # None /\ block(b)))
                        /\ SF_vars(lock(b))

-----------------------------------------------------------------------------
Status == {"new", "counted", "queued", "running", "notifying", "done"}
LoopPC == {"uncalled", "future", "count", "lock", "react", "wait", "returned"}

\* Types, and mSpawnCount never drops below zero.
TypeOK ==
  /\ P!TypeOK
  /\ mSpawnCount \in Nat
  /\ mEventLock \in Blocker \cup {None}
  /\ future \in [Blocker -> BOOLEAN]
  /\ status \in [Coro -> Status]
  /\ at \in [Blocker -> LoopPC]

\* A coroutine is alive from the fetch_add of spawnDetach to its callback.
Alive(c) == status[c] \in {"counted", "queued", "running"}

\* mSpawnCount is the number of live detached coroutines.
CountIsExact == mSpawnCount = Cardinality({c \in Detached : Alive(c)})

\* The coroutine's frame is gone and its callback has begun.
Ended(c) == status[c] \in {"notifying", "done"}

\* README.md: the outermost Block waits for all coroutines created through
\* SpawnDetach, those that detached coroutines create included.
BlockWaitsForDetached ==
  \A b \in Blocker :
    at[b] = "returned" /\ Host[b] = None => Ended(Root[b]) /\ \A c \in Detached : Ended(c)

\* block() never sleeps on a finished job: while it is in epoll_wait with
\* nothing left to wait for, a notification is on its way.
NoLostWakeup ==
  \A b \in Blocker :
    waitPc[b] = "epoll_wait" /\ future[b] /\ mSpawnCount = 0 =>
      \/ P!Ready
      \/ \E c \in Coro : status[c] = "notifying" \/ notifyPc[c] = "write"

\* Every call of block() returns.
BlockReturns == \A b \in Blocker : at[b] # "uncalled" ~> at[b] = "returned"

\* README.md has the outermost Block wait for the detached coroutines; a block()
\* called inside one of them would then return when its own task has ended.
NestedBlockReturns ==
  \A b \in Blocker : Host[b] # None /\ future[b] ~> at[b] = "returned"

-----------------------------------------------------------------------------
(***************************************************************************)
(* The inductive invariant behind CountIsExact and, for a single call of   *)
(* block(), BlockWaitsForDetached and NoLostWakeup                         *)
(***************************************************************************)

\* A coroutine that has ended has counted every coroutine it spawned, and a
\* promise is set when its task has ended: this is why block() may look at the
\* promise first and at mSpawnCount second, and not the other way round.
FutureMeansEnded ==
  /\ \A c \in Coro : Ended(c) => \A d \in Detached : Parent[d] = c => status[d] # "new"
  /\ \A b \in Blocker : future[b] => Ended(Root[b])
  /\ \A b \in Blocker : at[b] \in {"count", "returned"} => future[b]

\* A task starts with its block(), which is in Poller::wait only where its loop is,
\* and sleeps on a job that has finished since it looked only if a notification is
\* due.
LoopOK ==
  \A b \in Blocker :
    /\ at[b] = "uncalled" => status[Root[b]] = "new"
    /\ waitPc[b] # "idle" => at[b] = "wait"
    /\ Blocker = {b} =>
         /\ at[b] = "returned" => mSpawnCount = 0
         /\ at[b] \in {"lock", "react"} \/ waitPc[b] = "epoll_wait" =>
              (future[b] /\ mSpawnCount = 0 => mNotified \/ \E c \in Coro : status[c] = "notifying")

IInv == TypeOK /\ CountIsExact /\ FutureMeansEnded /\ LoopOK
=============================================================================

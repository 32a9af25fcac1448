------------------------- MODULE StealingThreadPool -------------------------
(***************************************************************************)
(* StealingThreadPool of include/Async/ThreadPool.hpp, the pool on which   *)
(* MultiThreadExecutor runs every coroutine.  Each worker owns a queue and *)
(* a semaphore; it drains its queue, steals one task, and goes to sleep    *)
(* only when mPendingTasks is zero.  execute() may be called from any      *)
(* thread, a task included, and touches four shared objects one by one.    *)
(***************************************************************************)
EXTENDS Integers, Sequences, FiniteSets, MpmcQueue

CONSTANTS Task,       \* the handles given to execute(), one per call
          threadNum,  \* workers, and queues
          Parent,     \* Parent[t]: the task whose run submits t, or None
          None        \* no task: t comes from a thread outside the pool

Worker == 0 .. threadNum - 1

ASSUME PoolAssumption ==
  /\ threadNum \in Nat \ {0}
  /\ IsFiniteSet(Task)
  /\ None \notin Task
  /\ Parent \in [Task -> Task \cup {None}]

VARIABLES mQueues,        \* mQueues[i].tasks
          signal,         \* mQueues[i].signal, the count of the semaphore
          mCount,
          mPendingTasks,
          stage,          \* what enqueue_task(t) does next
          slot,           \* enqueue_task(t)'s local: mCount as it read it
          pc,             \* what worker w does next
          task,           \* the task worker w took, or None
          stole,          \* it took it with steal()
          j,              \* its loop variable
          runs,           \* how often t has been invoked
          stopping,       \* the worker the destructor is at; threadNum when it has returned
          dtor,           \* what the destructor does next
          allStale        \* at its start every worker was past its last look at mPendingTasks

queueVars == <<mQueues, signal, mPendingTasks>>
callVars  == <<mCount, stage, slot>>
workVars  == <<pc, task, stole, j, runs>>
dtorVars  == <<stopping, dtor, allStale>>
vars      == <<queueVars, callVars, workVars, dtorVars>>

Init ==
  /\ mQueues = [i \in Worker |-> <<>>]
  /\ signal = [i \in Worker |-> 0]
  /\ mCount = 0
  /\ mPendingTasks = 0
  /\ stage = [t \in Task |-> "new"]
  /\ slot = [t \in Task |-> 0]
  /\ pc = [w \in Worker |-> "acquire"]
  /\ task = [w \in Worker |-> None]
  /\ stole = [w \in Worker |-> FALSE]
  /\ j = [w \in Worker |-> 1]
  /\ runs = [t \in Task |-> 0]
  /\ stopping = 0
  /\ dtor = "alive"
  /\ allStale = FALSE

\* std::binary_semaphore::release.  Past its maximum of 1 the call is undefined:
\* an implementation counts on (libstdc++) or stays at 1.
release(i) ==
  \E n \in {signal[i] + 1} \cup {m \in {1} : signal[i] > 0} :
    signal' = [signal EXCEPT ![i] = n]

-----------------------------------------------------------------------------
(***************************************************************************)
(* execute(t) / enqueue_task(t)                                            *)
(***************************************************************************)
index(t) == slot[t] % threadNum

Stage(t, to) == stage' = [stage EXCEPT ![t] = to]

\* The thread that calls execute(t) is free to: the run of t's parent, between
\* two of its calls, or a thread of the pool's user, who does not use the pool
\* any more once its destructor has started.
MayCall(t) ==
  IF Parent[t] = None
  THEN dtor = "alive"
  ELSE /\ \E w \in Worker : pc[w] = "invoke" /\ task[w] = Parent[t]
       /\ \A u \in Task : Parent[u] = Parent[t] => stage[u] \in {"new", "submitted"}

\* mCount++ is not atomic: another call may read or write mCount in between.
loadCount(t) ==
  /\ stage[t] = "new"
  /\ MayCall(t)
  /\ slot' = [slot EXCEPT ![t] = mCount]
  /\ Stage(t, "store")
  /\ UNCHANGED <<mCount, queueVars, workVars, dtorVars>>

storeCount(t) ==
  /\ stage[t] = "store"
  /\ mCount' = slot[t] + 1
  /\ Stage(t, "add")
  /\ UNCHANGED <<slot, queueVars, workVars, dtorVars>>

\* Mutant: the task is pushed without being counted.
addPending_Not(t) ==
  /\ stage[t] = "add"
  /\ Stage(t, "push")
  /\ UNCHANGED <<mPendingTasks, mQueues, signal, mCount, slot, workVars, dtorVars>>

\* mPendingTasks.fetch_add
addPending(t) ==
  /\ stage[t] = "add"
  /\ mPendingTasks' = mPendingTasks + 1
  /\ Stage(t, "push")
  /\ UNCHANGED <<mQueues, signal, mCount, slot, workVars, dtorVars>>

pushTask(t) ==
  /\ stage[t] = "push"
  /\ mQueues' = [mQueues EXCEPT ![index(t)] = push(@, t)]
  /\ Stage(t, "release")
  /\ UNCHANGED <<signal, mPendingTasks, mCount, slot, workVars, dtorVars>>

\* Mutant: the pushed task is not signalled.
signalOwner_Not(t) ==
  /\ stage[t] = "release"
  /\ Stage(t, "submitted")
  /\ UNCHANGED <<queueVars, mCount, slot, workVars, dtorVars>>

signalOwner(t) ==
  /\ stage[t] = "release"
  /\ release(index(t))
  /\ Stage(t, "submitted")
  /\ UNCHANGED <<mQueues, mPendingTasks, mCount, slot, workVars, dtorVars>>

InCall(t)       == storeCount(t) \/ addPending(t) \/ pushTask(t) \/ signalOwner(t)
enqueue_task(t) == loadCount(t) \/ InCall(t)

-----------------------------------------------------------------------------
(***************************************************************************)
(* The worker's loops                                                      *)
(***************************************************************************)
Goto(w, to) == pc' = [pc EXCEPT ![w] = to]

acquire(w) ==
  /\ pc[w] = "acquire"
  /\ signal[w] > 0
  /\ signal' = [signal EXCEPT ![w] = @ - 1]
  /\ Goto(w, "pop")
  /\ UNCHANGED <<mQueues, mPendingTasks, callVars, task, stole, j, runs, dtorVars>>

Take(w, t, from) ==
  /\ task' = [task EXCEPT ![w] = t]
  /\ stole' = [stole EXCEPT ![w] = from # w]
  /\ Goto(w, "sub")

\* while (auto task = mQueues[id].tasks.pop())
pop(w) ==
  /\ pc[w] = "pop"
  /\ IF empty(mQueues[w])
     THEN /\ Goto(w, IF threadNum > 1 THEN "steal" ELSE "load")
          /\ j' = [j EXCEPT ![w] = 1]
          /\ UNCHANGED <<mQueues, task, stole>>
     ELSE /\ mQueues' = [mQueues EXCEPT ![w] = popped(@)]
          /\ Take(w, front(mQueues[w]), w)
          /\ UNCHANGED j
  /\ UNCHANGED <<signal, mPendingTasks, callVars, runs, dtorVars>>

\* One iteration of the for loop over the other queues.
steal(w) ==
  LET victim == (w + j[w]) % threadNum IN
  /\ pc[w] = "steal"
  /\ IF empty(mQueues[victim])
     THEN /\ Goto(w, IF j[w] + 1 < threadNum THEN "steal" ELSE "load")
          /\ j' = [j EXCEPT ![w] = @ + 1]
          /\ UNCHANGED <<mQueues, task, stole>>
     ELSE /\ mQueues' = [mQueues EXCEPT ![victim] = stolen(@)]
          /\ Take(w, back(mQueues[victim]), victim)
          /\ UNCHANGED j
  /\ UNCHANGED <<signal, mPendingTasks, callVars, runs, dtorVars>>

\* mPendingTasks.fetch_sub, and the invocation starts.
subPending(w) ==
  /\ pc[w] = "sub"
  /\ mPendingTasks' = mPendingTasks - 1
  /\ runs' = [runs EXCEPT ![task[w]] = @ + 1]
  /\ Goto(w, "invoke")
  /\ UNCHANGED <<mQueues, signal, callVars, task, stole, j, dtorVars>>

\* The invocation ends once its calls of execute() have returned; a popped task
\* is followed by the next pop, a stolen one by break.
invokeReturn(w) ==
  /\ pc[w] = "invoke"
  /\ \A t \in Task : Parent[t] = task[w] => stage[t] = "submitted"
  /\ Goto(w, IF stole[w] THEN "load" ELSE "pop")
  /\ task' = [task EXCEPT ![w] = None]
  /\ UNCHANGED <<queueVars, callVars, stole, j, runs, dtorVars>>

\* Mutant: the inner loop is left although tasks are pending.
again_Never == FALSE

\* while (mPendingTasks.load() > 0)
again == mPendingTasks > 0

loadPending(w) ==
  /\ pc[w] = "load"
  /\ Goto(w, IF again THEN "pop" ELSE "stop")
  /\ UNCHANGED <<queueVars, callVars, task, stole, j, runs, dtorVars>>

\* request_stop() has been called for w.
stop_requested(w) == stopping > w \/ (stopping = w /\ dtor \in {"release", "join"})

stopCheck(w) ==
  /\ pc[w] = "stop"
  /\ Goto(w, IF stop_requested(w) THEN "exited" ELSE "acquire")
  /\ UNCHANGED <<queueVars, callVars, task, stole, j, runs, dtorVars>>

Work(w) == acquire(w) \/ pop(w) \/ steal(w) \/ subPending(w) \/ invokeReturn(w)
             \/ loadPending(w) \/ stopCheck(w)

-----------------------------------------------------------------------------
(***************************************************************************)
(* ~StealingThreadPool                                                     *)
(***************************************************************************)
destroy ==
  /\ dtor = "alive"
  /\ \A t \in Task : Parent[t] = None => stage[t] \in {"new", "submitted"}
  /\ dtor' = "request"
  /\ allStale' = \A w \in Worker : pc[w] = "stop"
  /\ UNCHANGED <<stopping, queueVars, callVars, workVars>>

request_stop ==
  /\ dtor = "request"
  /\ dtor' = "release"
  /\ UNCHANGED <<stopping, allStale, queueVars, callVars, workVars>>

\* Mutant: the stopped worker is not woken.
releaseStopped_None == signal' = signal

releaseStopped == release(stopping)

dtorRelease ==
  /\ dtor = "release"
  /\ releaseStopped
  /\ dtor' = "join"
  /\ UNCHANGED <<mQueues, mPendingTasks, stopping, allStale, callVars, workVars>>

join ==
  /\ dtor = "join"
  /\ pc[stopping] = "exited"
  /\ stopping' = stopping + 1
  /\ dtor' = IF stopping + 1 < threadNum THEN "request" ELSE "returned"
  /\ UNCHANGED <<allStale, queueVars, callVars, workVars>>

Destructor == request_stop \/ dtorRelease \/ join

-----------------------------------------------------------------------------
Next ==
  \/ \E t \in Task : enqueue_task(t)
  \/ \E w \in Worker : Work(w)

\* The pool in use, and the pool that is at some point destroyed.
Spec         == Init /\ [][Next]_vars
ShutdownSpec == Init /\ [][Next \/ destroy \/ Destructor]_vars

\* Threads run: a worker, a call of execute() that has started, and the
\* destructor keep taking steps; the calls a running task makes are made.
Running ==
  /\ \A w \in Worker : WF_vars(Work(w))
  /\ \A t \in Task : WF_vars(InCall(t) \/ (Parent[t] # None /\ loadCount(t)))

FairSpec         == Spec /\ Running
FairShutdownSpec == ShutdownSpec /\ Running /\ WF_vars(Destructor)

-----------------------------------------------------------------------------
StageName == {"new", "store", "add", "push", "release", "submitted"}
PCName    == {"acquire", "pop", "steal", "sub", "invoke", "load", "stop", "exited"}

\* Types, and mPendingTasks never drops below zero: it would keep every worker
\* asleep with a task queued.
TypeOK ==
  /\ mQueues \in [Worker -> Seq(Task)]
  /\ signal \in [Worker -> Nat]
  /\ mCount \in Nat
  /\ mPendingTasks \in Nat
  /\ stage \in [Task -> StageName]
  /\ slot \in [Task -> Nat]
  /\ pc \in [Worker -> PCName]
  /\ task \in [Worker -> Task \cup {None}]
  /\ stole \in [Worker -> BOOLEAN]
  /\ j \in [Worker -> 1 .. threadNum]
  /\ runs \in [Task -> Nat]
  /\ stopping \in 0 .. threadNum
  /\ dtor \in {"alive", "request", "release", "join", "returned"}
  /\ allStale \in BOOLEAN

\* Where the task of a call of execute() is between the push and its invocation.
QueuedAt(t) == UNION {{<<i, p>> : p \in {r \in DOMAIN mQueues[i] : mQueues[i][r] = t}} : i \in Worker}
HeldBy(t)   == {w \in Worker : pc[w] = "sub" /\ task[w] = t}
Pushed(t)   == stage[t] \in {"release", "submitted"}

\* No task is lost, duplicated or invoked twice, whichever of pop() and steal()
\* meet on a queue: once pushed it is in one queue, or with one worker, or has
\* been invoked, exactly once in all.
ExactlyOnce ==
  \A t \in Task :
    Cardinality(QueuedAt(t)) + Cardinality(HeldBy(t)) + runs[t] = IF Pushed(t) THEN 1 ELSE 0

\* The tasks counted by an execute() and not yet taken off by a worker.
Counted == {t \in Task : stage[t] \in {"push", "release", "submitted"} /\ runs[t] = 0}

\* mPendingTasks is the number of those tasks, so a worker that reads zero has no
\* queued task to miss.
PendingIsExact == mPendingTasks = Cardinality(Counted)

Members(q) == {q[p] : p \in DOMAIN q}

\* No lost wake-up: while a submitted task is in a queue, the owner of the queue
\* has a signal to consume or is still in its pop loop.  Its semaphore may have
\* been released many times and its last look at the queue may be stale.
OwnerIsAwake ==
  \A i \in Worker :
    (\E t \in Members(mQueues[i]) : stage[t] = "submitted") =>
      \/ signal[i] > 0
      \/ pc[i] = "pop"
      \/ pc[i] \in {"sub", "invoke"} /\ ~stole[i]
      \/ pc[i] = "exited"

\* The three together, at any moment of the pool's life: no task is lost or doubled,
\* the count that sends workers to sleep is right, and no owner sleeps past its task.
TasksAccountedFor == ExactlyOnce /\ PendingIsExact /\ OwnerIsAwake

\* Every submitted task is invoked.
SubmittedRuns == \A t \in Task : stage[t] = "submitted" ~> runs[t] = 1

\* The destructor of a pool whose tasks end returns.
DestructorReturns == dtor = "request" ~> dtor = "returned"

\* A task submitted by a task is never left behind by the destructor, even when
\* it goes to the queue of a worker that has exited.
NestedNeverLost ==
  dtor = "returned" =>
    \A t \in Task : Parent[t] # None /\ runs[Parent[t]] = 1 => runs[t] = 1

\* The destructor leaves a submitted task behind only if it started while every
\* worker was between its last load of mPendingTasks and its check for a stop.
LeftBehindOnlyIfAllStale ==
  dtor = "returned" /\ ~allStale => \A t \in Task : stage[t] = "submitted" => runs[t] = 1

-----------------------------------------------------------------------------
(***************************************************************************)
(* The inductive invariant behind ExactlyOnce, PendingIsExact and          *)
(* OwnerIsAwake, of the pool in use and of the pool being destroyed.       *)
(***************************************************************************)
NoRepeats(q) == \A p, r \in DOMAIN q : q[p] = q[r] => p = r

\* A queued task is in the queue its call chose, once, and has not been invoked.
QueuesOK ==
  \A i \in Worker :
    /\ NoRepeats(mQueues[i])
    /\ \A t \in Members(mQueues[i]) : Pushed(t) /\ runs[t] = 0 /\ index(t) = i

\* A task taken and not yet invoked is with one worker and in no queue.
HeldOK ==
  \A w \in Worker : pc[w] = "sub" =>
    /\ task[w] \in Task
    /\ Pushed(task[w])
    /\ runs[task[w]] = 0
    /\ \A i \in Worker : task[w] \notin Members(mQueues[i])
    /\ \A v \in Worker : pc[v] = "sub" /\ task[v] = task[w] => v = w

\* A pushed task is somewhere, and only a pushed task has been invoked.
NothingLost ==
  \A t \in Task :
    /\ runs[t] \in {0, 1}
    /\ runs[t] = 1 => Pushed(t)
    /\ Pushed(t) => \/ runs[t] = 1
                    \/ \E w \in Worker : pc[w] = "sub" /\ task[w] = t
                    \/ t \in Members(mQueues[index(t)])

\* The loop variables of the steal loop and of the destructor are in range.
LoopsInRange ==
  /\ \A w \in Worker : pc[w] = "steal" => j[w] < threadNum
  /\ dtor # "returned" => stopping < threadNum

IInv ==
  /\ TypeOK
  /\ LoopsInRange
  /\ QueuesOK
  /\ HeldOK
  /\ NothingLost
  /\ PendingIsExact
  /\ OwnerIsAwake

-----------------------------------------------------------------------------
(***************************************************************************)
(* What NestedNeverLost and LeftBehindOnlyIfAllStale rest on besides IInv  *)
(***************************************************************************)
InvokedOn(w, t) == pc[w] = "invoke" /\ task[w] = t

\* Workers exit in order, one for each request_stop, and none before the first.
ExitsOK ==
  /\ \A w \in Worker : w < stopping => pc[w] = "exited"
  /\ dtor = "returned" => stopping = threadNum
  /\ dtor = "alive" => stopping = 0 /\ \A w \in Worker : pc[w] # "exited"

\* A call of execute() that has not returned runs on its caller: a user of the
\* pool, who has not destroyed it, or a worker that invokes the task's parent.
CallsOK ==
  \A t \in Task : stage[t] \notin {"new", "submitted"} =>
    IF Parent[t] = None THEN dtor = "alive" ELSE \E w \in Worker : InvokedOn(w, Parent[t])

\* While there is a task to run, some worker has yet to look at mPendingTasks.
SomebodyLooks ==
  /\ \A t \in Task : Parent[t] # None /\ runs[Parent[t]] = 1 /\ runs[t] = 0 =>
       \E w \in Worker : \/ InvokedOn(w, Parent[t])
                         \/ stage[t] = "submitted" /\ pc[w] \in {"pop", "steal", "sub", "invoke", "load"}
  /\ dtor # "alive" /\ ~allStale /\ (\E t \in Task : stage[t] = "submitted" /\ runs[t] = 0) =>
       \E w \in Worker : pc[w] \notin {"stop", "exited"}

ShutdownInv == ExitsOK /\ CallsOK /\ SomebodyLooks
=============================================================================

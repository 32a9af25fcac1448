-------------------------- MODULE BlockingThreadPool --------------------------
(***************************************************************************)
(* BlockingThreadPool of include/Async/ThreadPool.hpp, where blockSpawn()  *)
(* runs functions that block: a queue, detached threads that are created   *)
(* on demand and leave after 500 ms without work, and one mutex around     *)
(* all of it, so that an action here is one critical section, from the     *)
(* lock to the unlock or to the wait on mQueueCv.  A thread that has left  *)
(* the wait has still to get the lock back, and anything may happen until  *)
(* then.  The destructor waits on the same condition variable.             *)
(***************************************************************************)
EXTENDS Naturals, Sequences, FiniteSets

CONSTANTS Task,         \* the handles given to execute(), one per call
          Thread,       \* names of threads, used again after a thread has ended
          threadLimit,  \* mThreadLimits
          perIdle       \* tasks in the queue per idle thread before the pool grows: 5

VARIABLES mQueue,
          mIdleCount,
          mThreadCount,
          pc,           \* where each thread is, see PC
          state,        \* state[t]: what has become of task t
          task,         \* task[w]: the task thread w runs or ran last
          dtor          \* what the destructor does

vars == <<mQueue, mIdleCount, mThreadCount, pc, state, task, dtor>>

PC == {"none",      \* not a thread
       "created",   \* has yet to lock mQueueMt in loop()
       "running",   \* in task.resume(), without the lock
       "waiting",   \* in wait_for
       "woken",     \* notified, has yet to lock
       "timedout"}  \* left by itself after 500 ms, has yet to lock

Init ==
  /\ mQueue = <<>>
  /\ mIdleCount = 0
  /\ mThreadCount = 0
  /\ pc = [w \in Thread |-> "none"]
  /\ state = [t \in Task |-> "new"]
  /\ task = [w \in Thread |-> CHOOSE t \in Task : TRUE]
  /\ dtor = "alive"

Waiting(p) == {w \in Thread : p[w] = "waiting"}
Moved(p, W, to) == [w \in Thread |-> IF w \in W THEN to ELSE p[w]]

\* growPool()'s loop creates n threads when it finds size tasks and idle threads.
Grows(size, idle, n) ==
  /\ \A i \in 0 .. n - 1 : size > (idle + i) * perIdle /\ mThreadCount + i < threadLimit
  /\ ~(size > (idle + n) * perIdle /\ mThreadCount + n < threadLimit)

\* growPool(), called with p, d and idle as the other locals stand: every new
\* thread comes with a notify_all, which wakes the destructor as well.
growPool(size, idle, p, d) ==
  \E n \in 0 .. threadLimit : \E New \in SUBSET {w \in Thread : p[w] = "none"} :
    /\ Cardinality(New) = n
    /\ Grows(size, idle, n)
    /\ mThreadCount' = mThreadCount + n
    /\ mIdleCount' = idle + n
    /\ pc' = IF n = 0 THEN p ELSE Moved(Moved(p, Waiting(p), "woken"), New, "created")
    /\ dtor' = IF n > 0 /\ d = "waiting" THEN "woken" ELSE d

\* Threads outside the pool stop using it before they destroy it; a coroutine that
\* goes on on one of its threads may still call blockSpawn().
MayCall == dtor = "alive" \/ \E w \in Thread : pc[w] = "running"

\* execute(t): push_back, notify_one, growPool.  The one notified may be the
\* destructor.
execute(t) ==
  /\ MayCall
  /\ state[t] = "new"
  /\ mQueue' = Append(mQueue, t)
  /\ state' = [state EXCEPT ![t] = "queued"]
  /\ \/ /\ Waiting(pc) = {} /\ dtor # "waiting"
        /\ growPool(Len(mQueue) + 1, mIdleCount, pc, dtor)
     \/ /\ dtor = "waiting"
        /\ growPool(Len(mQueue) + 1, mIdleCount, pc, "woken")
     \/ \E w \in Waiting(pc) :
          growPool(Len(mQueue) + 1, mIdleCount, Moved(pc, {w}, "woken"), dtor)
  /\ UNCHANGED task

\* Mutant: the pool grows only in execute().
growInLoop_Not(idle, p) ==
  /\ mIdleCount' = idle
  /\ pc' = p
  /\ UNCHANGED <<mThreadCount, dtor>>

\* The call of growPool() before a thread takes a task.
growInLoop(idle, p) == growPool(Len(mQueue), idle, p, dtor)

\* Thread w has the lock, idle threads besides: it takes a task or waits.
takeOrWait(w, idle) ==
  IF mQueue # <<>>
  THEN /\ growInLoop(idle, Moved(pc, {w}, "running"))
       /\ task' = [task EXCEPT ![w] = Head(mQueue)]
       /\ mQueue' = Tail(mQueue)
       /\ state' = [s \in Task |->
            IF s = Head(mQueue) THEN "started"
            ELSE IF pc[w] = "running" /\ s = task[w] THEN "done" ELSE state[s]]
  ELSE /\ mIdleCount' = idle + 1
       /\ pc' = Moved(pc, {w}, "waiting")
       /\ state' = [s \in Task |-> IF pc[w] = "running" /\ s = task[w] THEN "done" ELSE state[s]]
       /\ UNCHANGED <<mQueue, mThreadCount, task, dtor>>

\* loop() from its start.
start(w) ==
  /\ pc[w] = "created"
  /\ takeOrWait(w, mIdleCount - 1)

\* task.resume() returns; lk.lock() and the inner while again.
resumeReturns(w) ==
  /\ pc[w] = "running"
  /\ takeOrWait(w, mIdleCount)

\* 500 ms have passed.
timeout(w) ==
  /\ pc[w] = "waiting"
  /\ pc' = Moved(pc, {w}, "timedout")
  /\ UNCHANGED <<mQueue, mIdleCount, mThreadCount, state, task, dtor>>

\* Mutant: the thread leaves whatever is in the queue.
mayLeave_Always == TRUE

mayLeave == mQueue = <<>>

\* Mutant: a thread that leaves stays counted as idle.
idleAfterLeave_Keep == mIdleCount

idleAfterLeave == mIdleCount - 1

\* wait_for returns timeout, and for a notified thread too when the 500 ms are
\* over by then; with an empty queue the thread ends.
leave(w) ==
  /\ pc[w] \in {"woken", "timedout"}
  /\ mayLeave
  /\ mIdleCount' = idleAfterLeave
  /\ mThreadCount' = mThreadCount - 1
  /\ pc' = Moved(pc, {w}, "none")
  /\ UNCHANGED <<mQueue, state, task, dtor>>

\* wait_for returns no_timeout, or timeout with a task in the queue.
goOn(w) ==
  /\ pc[w] = "woken" \/ (pc[w] = "timedout" /\ mQueue # <<>>)
  /\ takeOrWait(w, mIdleCount - 1)

\* wait(lk, empty): the destructor returns, or waits to be notified.
dtorLook ==
  /\ dtor \in {"called", "woken"}
  /\ dtor' = IF mQueue = <<>> THEN "returned" ELSE "waiting"
  /\ UNCHANGED <<mQueue, mIdleCount, mThreadCount, pc, state, task>>

destroy ==
  /\ dtor = "alive"
  /\ dtor' = "called"
  /\ UNCHANGED <<mQueue, mIdleCount, mThreadCount, pc, state, task>>

Loop(w) == start(w) \/ leave(w) \/ goOn(w)

\* Once the destructor has returned the members are gone; the model ends there.
Next ==
  /\ dtor # "returned"
  /\ \/ \E t \in Task : execute(t)
     \/ \E w \in Thread : Loop(w) \/ resumeReturns(w) \/ timeout(w)
     \/ destroy \/ dtorLook

Spec == Init /\ [][Next]_vars

\* Threads run and waits time out; a function that blocks need never return.
FairSpec ==
  /\ Spec
  /\ \A w \in Thread : WF_vars(dtor # "returned" /\ (Loop(w) \/ timeout(w)))
  /\ WF_vars(dtorLook)

-----------------------------------------------------------------------------
\* Types of the queue, the counts and the threads.
TypeOK ==
  /\ mQueue \in Seq(Task)
  /\ mIdleCount \in 0 .. threadLimit
  /\ mThreadCount \in 0 .. threadLimit
  /\ pc \in [Thread -> PC]
  /\ state \in [Task -> {"new", "queued", "started", "done"}]
  /\ task \in [Thread -> Task]
  /\ dtor \in {"alive", "called", "waiting", "woken", "returned"}

\* The two counts that growPool() goes by are those of the threads that exist and
\* of those that run no task, whatever timeouts, notifications and new threads
\* meet; were the idle count to drift up, the pool would never grow again.
CountsAreExact ==
  /\ mThreadCount = Cardinality({w \in Thread : pc[w] # "none"})
  /\ mIdleCount = Cardinality({w \in Thread : pc[w] \notin {"none", "running"}})

\* While a task is queued some thread is on its way to the queue, or all that
\* there may be run a task: a thread does not go to sleep, or leave on its timeout,
\* past a task whose notification went to it.  Only a notification that the waiting
\* destructor has taken leaves a task to the timeouts.
QueuedHasThread ==
  mQueue # <<>> =>
    \/ \E w \in Thread : pc[w] \in {"created", "woken", "timedout"}
    \/ dtor # "alive" /\ Waiting(pc) # {}
    \/ mThreadCount = threadLimit /\ \A w \in Thread : pc[w] \in {"none", "running"}

\* A queued task starts although the functions that run before it never return,
\* as long as the pool may still grow.
TaskStarts ==
  \A t \in Task :
    state[t] = "queued" ~> state[t] # "queued" \/ mThreadCount = threadLimit \/ dtor = "returned"

\* As long as some thread sleeps, every queued task has a thread of its own that does
\* not: none falls asleep over a task, and each execute() wakes one.
ThreadPerTask ==
  dtor = "alive" /\ Waiting(pc) # {} =>
    Len(mQueue) <= Cardinality({w \in Thread : pc[w] \in {"created", "woken", "timedout"}})

\* The inductive invariant of WakeupsProofs.
IInv == TypeOK /\ CountsAreExact /\ ThreadPerTask /\ QueuedHasThread
===============================================================================

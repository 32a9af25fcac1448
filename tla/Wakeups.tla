------------------------------- MODULE Wakeups -------------------------------
(***************************************************************************)
(* Those who wait and those who wake them, each a specification of its own *)
(* and here side by side: Mutex, CondVar, BlockingThreadPool and the       *)
(* deprecated ThreadPool.  They share no state; a behaviour runs one of    *)
(* them.  The coroutines are also the tasks of the pools.                  *)
(***************************************************************************)
EXTENDS AsyncMutex, FiniteSets

CONSTANTS Thread, threadLimit, perIdle,   \* of BlockingThreadPool
          Parent, Worker, Modulus         \* of ThreadPool

ASSUME WakeupsAssumption ==
  /\ IsFiniteSet(Coro) /\ Coro # {}
  /\ IsFiniteSet(Thread)
  /\ threadLimit \in Nat /\ perIdle \in Nat
  /\ Parent \in [Coro -> Coro \cup {None}]
  /\ None \notin Worker
  /\ Modulus \in Nat /\ Cardinality(Coro) < Modulus

VARIABLES which,   \* the component in use
          waiters, cvPc, cvValue, cvLeft, owed, wakes,
          mQueue, mIdleCount, mThreadCount, threadPc, state, threadTask, blockingDtor,
          mTasks, mTaskTotal, mRunning, mWaiting, mTaskMt, stage, workerPc, workerTask, ran,
          dtor, early, missed

condVarVars  == <<waiters, cvPc, cvValue, cvLeft, owed, wakes>>
blockingVars == <<mQueue, mIdleCount, mThreadCount, threadPc, state, threadTask, blockingDtor>>
poolVars     == <<mTasks, mTaskTotal, mRunning, mWaiting, mTaskMt, stage, workerPc, workerTask, ran,
                  dtor, early, missed>>
allVars      == <<which, vars, condVarVars, blockingVars, poolVars>>

CV == INSTANCE CondVar WITH
  mPending <- waiters, pc <- cvPc, value <- cvValue, left <- cvLeft

BP == INSTANCE BlockingThreadPool WITH
  Task <- Coro, pc <- threadPc, task <- threadTask, dtor <- blockingDtor

TP == INSTANCE ThreadPool WITH
  Task <- Coro, pc <- workerPc, task <- workerTask

WakeupsInit ==
  /\ Init /\ CV!Init /\ BP!Init /\ TP!Init
  /\ which \in {"Mutex", "CondVar", "BlockingThreadPool", "ThreadPool"}

Is(component) == which = component

MutexNext == Is("Mutex") /\ Next /\ UNCHANGED <<which, condVarVars, blockingVars, poolVars>>
CondVarNext == Is("CondVar") /\ CV!Next /\ UNCHANGED <<which, vars, blockingVars, poolVars>>
BlockingNext == Is("BlockingThreadPool") /\ BP!Next /\ UNCHANGED <<which, vars, condVarVars, poolVars>>
PoolNext == Is("ThreadPool") /\ TP!Next /\ UNCHANGED <<which, vars, condVarVars, blockingVars>>

\* The fairness of the four specifications, each for its own component.
WakeupsFairness ==
  /\ \A c \in Coro : /\ WF_vars(Is("Mutex") /\ Progress(c))
                     /\ WF_condVarVars(Is("CondVar") /\ CV!Progress(c))
  /\ \A w \in Thread :
       WF_blockingVars(/\ Is("BlockingThreadPool") /\ blockingDtor # "returned"
                       /\ (BP!Loop(w) \/ BP!timeout(w)))
  /\ WF_blockingVars(Is("BlockingThreadPool") /\ BP!dtorLook)
  /\ \A w \in Worker :
       /\ WF_poolVars(Is("ThreadPool") /\ (TP!top(w) \/ TP!doze(w) \/ TP!take(w) \/ TP!resumeReturns(w)))
       /\ SF_poolVars(Is("ThreadPool") /\ (TP!predicate(w) \/ TP!done(w)))
  /\ \A t \in Coro : /\ WF_poolVars(Is("ThreadPool") /\ (TP!countTask(t) \/ TP!notifyTask(t)))
                     /\ SF_poolVars(Is("ThreadPool") /\ Parent[t] # None /\ TP!pushTask(t))
  /\ SF_poolVars(Is("ThreadPool") /\ TP!waitEmpty)
  /\ WF_poolVars(Is("ThreadPool") /\ (TP!stop \/ TP!notifyAll \/ TP!join))

WakeupsSpec ==
  /\ WakeupsInit /\ [][MutexNext \/ CondVarNext \/ BlockingNext \/ PoolNext]_allVars
  /\ WakeupsFairness

\* CondVar: a coroutine suspended in wait() can be woken exactly once.
WokenOnce == CV!WokenOnce

\* CondVar: whoever is queued when a notify_all() begins returns from wait().
OwedIsWoken == CV!OwedIsWoken

\* BlockingThreadPool: the counts growPool() goes by are exact.
CountsAreExact == BP!CountsAreExact

\* BlockingThreadPool: a queued task has a thread on its way, or all are busy.
QueuedHasThread == BP!QueuedHasThread

\* BlockingThreadPool: a queued task starts while the pool may still grow.
TaskStarts == BP!TaskStarts

\* ThreadPool: waitEmpty() returns early only during a call of execute().
EmptyEarlyOnlyInCall == TP!EmptyEarlyOnlyInCall

\* ThreadPool: every submitted task ends, unless waitEmpty() has returned early.
SubmittedEnds == TP!SubmittedEnds

\* ThreadPool: its destructor returns, unless a worker misses the notification.
JoinsUnlessMissed == TP!JoinsUnlessMissed
===============================================================================

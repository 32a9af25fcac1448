------------------------------ MODULE ThreadPool ------------------------------
(***************************************************************************)
(* The deprecated ThreadPool of include/Async/ThreadPool.hpp: one queue    *)
(* under mTaskMt, and three variables that are changed without it:         *)
(* mTaskTotal, counted up only after the push, mRunning and mWaiting.  The *)
(* destructor waits until mTaskTotal is zero, then stops the workers.      *)
(***************************************************************************)
EXTENDS Integers, Sequences, FiniteSets

CONSTANTS Task,      \* the handles given to execute(), one per call
          Parent,    \* Parent[t]: the task whose run submits t, or None
          Worker,    \* the threads
          Modulus,   \* mTaskTotal counts modulo this: 2^64
          None

VARIABLES mTasks,
          mTaskTotal,
          mRunning,
          mWaiting,
          mTaskMt,    \* the worker that holds the mutex from one step to the next, or None
          stage,      \* what execute(t) does next
          pc,         \* what worker w does next
          task,       \* the task worker w runs
          ran,        \* the tasks that have ended
          dtor,       \* what the destructor does next
          early,      \* the tasks not ended when waitEmpty() returned
          missed      \* a worker was about to sleep when notify_all was called

workVars == <<pc, task, ran, mTaskMt>>
dtorVars == <<mRunning, mWaiting, dtor, early, missed>>
vars     == <<mTasks, mTaskTotal, stage, workVars, dtorVars>>

Init ==
  /\ mTasks = <<>>
  /\ mTaskTotal = 0
  /\ mRunning = TRUE
  /\ mWaiting = FALSE
  /\ mTaskMt = None
  /\ stage = [t \in Task |-> "new"]
  /\ pc = [w \in Worker |-> "top"]
  /\ task = [w \in Worker |-> None]
  /\ ran = {}
  /\ dtor = "alive"
  /\ early = {}
  /\ missed = FALSE

-----------------------------------------------------------------------------
Runs(w, t) == pc[w] = "resume" /\ task[w] = t

\* Called by the run of its parent, one call at a time, or by a thread that does
\* not use the pool any more once its destructor has started.
MayCall(t) ==
  IF Parent[t] = None THEN dtor = "alive"
  ELSE /\ \E w \in Worker : Runs(w, Parent[t])
       /\ \A u \in Task : Parent[u] = Parent[t] => stage[u] \in {"new", "submitted"}

pushTask(t) ==
  /\ stage[t] = "new"
  /\ MayCall(t)
  /\ mTaskMt = None
  /\ mTasks' = Append(mTasks, t)
  /\ stage' = [stage EXCEPT ![t] = "count"]
  /\ UNCHANGED <<mTaskTotal, workVars, dtorVars>>

\* ++mTaskTotal, without the mutex.
countTask(t) ==
  /\ stage[t] = "count"
  /\ mTaskTotal' = (mTaskTotal + 1) % Modulus
  /\ stage' = [stage EXCEPT ![t] = "notify"]
  /\ UNCHANGED <<mTasks, workVars, dtorVars>>

Sleepers == {w \in Worker : pc[w] = "sleep"}

\* Mutant: nobody is notified of a task.
notifyTask_Not(t) ==
  /\ stage[t] = "notify"
  /\ stage' = [stage EXCEPT ![t] = "submitted"]
  /\ UNCHANGED <<pc, mTasks, mTaskTotal, task, ran, mTaskMt, dtorVars>>

\* mTaskAvailableCV.notify_one()
notifyTask(t) ==
  /\ stage[t] = "notify"
  /\ stage' = [stage EXCEPT ![t] = "submitted"]
  /\ \/ Sleepers = {} /\ UNCHANGED pc
     \/ \E w \in Sleepers : pc' = [pc EXCEPT ![w] = "lock"]
  /\ UNCHANGED <<mTasks, mTaskTotal, task, ran, mTaskMt, dtorVars>>

execute(t) == pushTask(t) \/ countTask(t) \/ notifyTask(t)

-----------------------------------------------------------------------------
Goto(w, to) == pc' = [pc EXCEPT ![w] = to]

\* while (mRunning)
top(w) ==
  /\ pc[w] = "top"
  /\ Goto(w, IF mRunning THEN "lock" ELSE "exited")
  /\ UNCHANGED <<mTasks, mTaskTotal, task, ran, mTaskMt, stage, dtorVars>>

\* The mutex is taken, at the top of the loop or after a sleep, and the predicate
\* evaluated; it is held from here on.
predicate(w) ==
  /\ pc[w] = "lock"
  /\ mTaskMt = None
  /\ mTaskMt' = w
  /\ Goto(w, IF mTasks # <<>> \/ ~mRunning THEN "take" ELSE "doze")
  /\ UNCHANGED <<mTasks, mTaskTotal, task, ran, stage, dtorVars>>

\* The predicate was false: block on mTaskAvailableCV and release the mutex.
doze(w) ==
  /\ pc[w] = "doze"
  /\ mTaskMt' = None
  /\ Goto(w, "sleep")
  /\ UNCHANGED <<mTasks, mTaskTotal, task, ran, stage, dtorVars>>

\* if (mRunning): the front of the queue, or round the loop.
take(w) ==
  /\ pc[w] = "take"
  /\ mTaskMt' = None
  /\ IF mRunning
     THEN /\ task' = [task EXCEPT ![w] = Head(mTasks)]
          /\ mTasks' = Tail(mTasks)
          /\ Goto(w, "resume")
     ELSE /\ Goto(w, "top")
          /\ UNCHANGED <<task, mTasks>>
  /\ UNCHANGED <<mTaskTotal, ran, stage, dtorVars>>

\* handle.resume() returns once the calls of execute() it makes have returned.
resumeReturns(w) ==
  /\ pc[w] = "resume"
  /\ \A t \in Task : Parent[t] = task[w] => stage[t] = "submitted"
  /\ ran' = ran \cup {task[w]}
  /\ Goto(w, "done")
  /\ UNCHANGED <<mTasks, mTaskTotal, task, mTaskMt, stage, dtorVars>>

Notified(d) == IF d = "asleep" /\ mWaiting THEN "check" ELSE d

\* --mTaskTotal and mTaskDoneCV.notify_one() under the mutex.
done(w) ==
  /\ pc[w] = "done"
  /\ mTaskMt = None
  /\ mTaskTotal' = (mTaskTotal - 1) % Modulus
  /\ dtor' = Notified(dtor)
  /\ Goto(w, "top")
  /\ UNCHANGED <<mTasks, task, ran, mTaskMt, mRunning, mWaiting, early, missed, stage>>

Work(w) == top(w) \/ predicate(w) \/ doze(w) \/ take(w) \/ resumeReturns(w) \/ done(w)

-----------------------------------------------------------------------------
Pushed == {t \in Task : stage[t] # "new"}

\* ~ThreadPool calls waitEmpty(): mWaiting is set before the mutex is taken.
destroy ==
  /\ dtor = "alive"
  /\ \A t \in Task : Parent[t] = None => stage[t] \in {"new", "submitted"}
  /\ dtor' = "check"
  /\ mWaiting' = TRUE
  /\ UNCHANGED <<mRunning, early, missed, mTasks, mTaskTotal, stage, workVars>>

\* Mutant: waitEmpty() looks at the queue.
isEmpty_Queue == mTasks = <<>>

isEmpty == mTaskTotal = 0

\* The predicate of mTaskDoneCV.wait, with the mutex.
waitEmpty ==
  /\ dtor = "check"
  /\ mTaskMt = None
  /\ IF isEmpty
     THEN /\ dtor' = "stop"
          /\ mWaiting' = FALSE
          /\ early' = Pushed \ ran
     ELSE /\ dtor' = "asleep"
          /\ UNCHANGED <<mWaiting, early>>
  /\ UNCHANGED <<mRunning, missed, mTasks, mTaskTotal, stage, workVars>>

stop ==
  /\ dtor = "stop"
  /\ mRunning' = FALSE
  /\ dtor' = "notify"
  /\ UNCHANGED <<mWaiting, early, missed, mTasks, mTaskTotal, stage, workVars>>

\* Mutant: one worker is woken.
awakened_One == IF Sleepers = {} THEN {} ELSE {CHOOSE w \in Sleepers : TRUE}

awakened == Sleepers

\* mTaskAvailableCV.notify_all(), without the mutex.
notifyAll ==
  /\ dtor = "notify"
  /\ missed' = \E w \in Worker : pc[w] = "doze"
  /\ pc' = [w \in Worker |-> IF w \in awakened THEN "lock" ELSE pc[w]]
  /\ dtor' = "join"
  /\ UNCHANGED <<mRunning, mWaiting, early, mTasks, mTaskTotal, task, ran, mTaskMt, stage>>

join ==
  /\ dtor = "join"
  /\ \A w \in Worker : pc[w] = "exited"
  /\ dtor' = "returned"
  /\ UNCHANGED <<mRunning, mWaiting, early, missed, mTasks, mTaskTotal, stage, workVars>>

Destructor == waitEmpty \/ stop \/ notifyAll \/ join

-----------------------------------------------------------------------------
Next ==
  \/ \E t \in Task : execute(t)
  \/ \E w \in Worker : Work(w)
  \/ destroy \/ Destructor

Spec == Init /\ [][Next]_vars

\* Threads run, calls that have started go on, a running task makes its calls.
FairSpec ==
  /\ Spec
  /\ \A w \in Worker : WF_vars(top(w) \/ doze(w) \/ take(w) \/ resumeReturns(w))
                       /\ SF_vars(predicate(w) \/ done(w))
  /\ \A t \in Task : WF_vars(countTask(t) \/ notifyTask(t)) /\ SF_vars(Parent[t] # None /\ pushTask(t))
  /\ SF_vars(waitEmpty) /\ WF_vars(stop \/ notifyAll \/ join)

-----------------------------------------------------------------------------
\* Types of the members, the calls and the threads.
TypeOK ==
  /\ mTasks \in Seq(Task)
  /\ mTaskTotal \in 0 .. Modulus - 1
  /\ mRunning \in BOOLEAN /\ mWaiting \in BOOLEAN
  /\ mTaskMt \in Worker \cup {None}
  /\ stage \in [Task -> {"new", "count", "notify", "submitted"}]
  /\ pc \in [Worker -> {"top", "lock", "doze", "sleep", "take", "resume", "done", "exited"}]
  /\ task \in [Worker -> Task \cup {None}]
  /\ ran \subseteq Task
  /\ dtor \in {"alive", "check", "asleep", "stop", "notify", "join", "returned"}
  /\ early \subseteq Task
  /\ missed \in BOOLEAN

InsideCall(t) == \E u \in Task : Parent[u] = t /\ stage[u] = "count"

\* waitEmpty() may return with a task unfinished, because a task is counted after
\* it has been pushed; but then every unfinished task is itself inside a call of
\* execute(), between the push and the count.
EmptyEarlyOnlyInCall ==
  [][dtor = "check" /\ dtor' = "stop" => \A t \in Pushed \ ran : InsideCall(t)]_vars

\* Every submitted task ends, nested ones included: only a destructor that saw such
\* an early zero leaves one behind.
SubmittedEnds == \A t \in Task : stage[t] = "submitted" ~> t \in ran \/ early # {}

\* The destructor returns, unless a worker had found nothing to do and not yet gone
\* to sleep when it notified them: mRunning is cleared without the mutex.
JoinsUnlessMissed == dtor = "check" ~> dtor = "returned" \/ missed

HasTask(w) == pc[w] \in {"resume", "done"}
Calling(t) == stage[t] \in {"count", "notify"}

\* The mutex is held across the two steps that follow the predicate, and what the
\* predicate saw in the queue is still there when the front is taken.
MutexOK ==
  /\ \A w \in Worker : pc[w] \in {"doze", "take"} <=> mTaskMt = w
  /\ \A w \in Worker : pc[w] = "take" /\ mRunning => mTasks # <<>>

\* A task is in the queue, or with one worker, or has ended; it is resumed once.
TasksRunOnce ==
  /\ \A i \in DOMAIN mTasks :
       /\ stage[mTasks[i]] # "new" /\ mTasks[i] \notin ran
       /\ \A w \in Worker : HasTask(w) => task[w] # mTasks[i]
  /\ \A i, j \in DOMAIN mTasks : mTasks[i] = mTasks[j] => i = j
  /\ \A w, v \in Worker : HasTask(w) /\ HasTask(v) /\ task[w] = task[v] => w = v
  /\ \A w \in Worker : HasTask(w) =>
       /\ task[w] \in Pushed
       /\ task[w] \in ran <=> pc[w] = "done"
  /\ ran \subseteq Pushed

\* Only a task that a worker runs is inside execute() once the destructor has begun,
\* and it is inside one call at a time.
CallersRun ==
  /\ \A t \in Task : Calling(t) =>
       IF Parent[t] = None THEN dtor = "alive" ELSE \E w \in Worker : Runs(w, Parent[t])
  /\ \A t, u \in Task : Calling(t) /\ Calling(u) /\ Parent[t] = Parent[u] /\ Parent[t] # None => t = u

Counted    == {t \in Task : stage[t] \in {"notify", "submitted"}}
Discounted == {t \in ran : \A w \in Worker : pc[w] = "done" => task[w] # t}

\* mTaskTotal is the difference of the two, which may be below zero.
TotalIsExact ==
  LET n == Cardinality(Counted) - Cardinality(Discounted) IN
  mTaskTotal = IF n >= 0 THEN n ELSE n + Modulus

\* The inductive invariant of WakeupsProofs.
IInv == TypeOK /\ MutexOK /\ TasksRunOnce /\ CallersRun /\ TotalIsExact
===============================================================================

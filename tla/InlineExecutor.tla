---------------------------- MODULE InlineExecutor ----------------------------
(***************************************************************************)
(* InlineExecutor of include/Async/Executor.hpp: block() runs coroutines   *)
(* on its own thread, from mQueue and from react(), which resumes them in  *)
(* place.  mQueue and mSpawnCount have no synchronisation, yet a coroutine *)
(* that comes back from blockSpawn() goes on on a thread of the blocking   *)
(* pool, next to block(), until it suspends again.  A timer that is due    *)
(* brings it home.                                                         *)
(***************************************************************************)
EXTENDS Integers, Sequences, FiniteSets

CONSTANTS Coro,     \* the coroutines; all but root are detached
          root,     \* the Task given to block()
          Parent,   \* the coroutine that detaches each, if it comes to that
          main,     \* the thread that calls it
          Pool,     \* threads of the blocking pool
          Calls,    \* [Coro -> Nat]: calls of spawnDetach, Sleep and blockSpawn each may make
          None

Thread == {main} \cup Pool

VARIABLES mQueue,
          mSpawnCount,
          hasValue,    \* the root's result is in place
          notified,    \* notify() since the last return of the poller's wait
          loop,        \* where block() is, when it runs no coroutine; "fault" for good
          handles,     \* react()'s local
          st,          \* where each coroutine is
          running,     \* the coroutine a thread runs, or None
          act,         \* what the thread does next on the coroutine's behalf
          reg,         \* the thread's copy of mSpawnCount
          child,       \* the coroutine it is spawning
          left,        \* calls each coroutine has left
          foreign,     \* the coroutines that were pushed on a thread of the pool
          raced,       \* a store to mSpawnCount has undone another's
          torn         \* two accesses of mQueue have overlapped and broken it

sharedVars == <<mQueue, mSpawnCount, hasValue, notified>>
loopVars   == <<loop, handles>>
threadVars == <<st, running, act, reg, child, left>>
ghostVars  == <<foreign, raced, torn>>
vars       == <<sharedVars, loopVars, threadVars, ghostVars>>

\* block() starts by resuming the root.
Init ==
  /\ mQueue = <<>>
  /\ mSpawnCount = 0
  /\ hasValue = FALSE
  /\ notified = FALSE
  /\ loop = "drain"
  /\ handles = {}
  /\ st = [c \in Coro |-> IF c = root THEN "running" ELSE "new"]
  /\ running = [t \in Thread |-> IF t = main THEN root ELSE None]
  /\ act = [t \in Thread |-> "run"]
  /\ reg = [t \in Thread |-> 0]
  /\ child = [t \in Thread |-> None]
  /\ left = Calls
  /\ foreign = {}
  /\ raced = FALSE
  /\ torn = FALSE

-----------------------------------------------------------------------------
(***************************************************************************)
(* What a running coroutine does, on whichever thread                      *)
(***************************************************************************)
Act(t, to) == act' = [act EXCEPT ![t] = to]

\* The coroutine on t makes a call.
Call(t) ==
  /\ running[t] # None
  /\ act[t] = "run"
  /\ left[running[t]] > 0
  /\ left' = [left EXCEPT ![running[t]] = @ - 1]

\* spawnDetach: mSpawnCount += 1 is a load and a store.
spawnDetach(t) ==
  /\ Call(t)
  /\ \E c \in Coro :
       /\ st[c] = "new" /\ Parent[c] = running[t]
       /\ st' = [st EXCEPT ![c] = "spawning"]
       /\ child' = [child EXCEPT ![t] = c]
  /\ reg' = [reg EXCEPT ![t] = mSpawnCount]
  /\ Act(t, "inc")
  /\ UNCHANGED <<sharedVars, loopVars, running, ghostVars>>

incStore(t) ==
  /\ act[t] = "inc"
  /\ mSpawnCount' = reg[t] + 1
  /\ raced' = (raced \/ mSpawnCount # reg[t])
  /\ Act(t, "push")
  /\ UNCHANGED <<mQueue, hasValue, notified, loopVars, st, running, reg, child, left, foreign, torn>>

\* t is pushing to mQueue, or between the test of the loop and the end of pop().
UsesQueue(t) == act[t] = "push" \/ (t = main /\ loop = "pop")

\* t's access of the std::queue is over.  One that is under way on another thread
\* has overlapped it or not; if it has, a handle may be lost, or worse.
EndAccess(t) == torn' \in {torn, torn \/ \E u \in Thread \ {t} : UsesQueue(u)}

\* mQueue.push(handle); nobody is notified.
pushHandle(t) ==
  /\ act[t] = "push"
  /\ mQueue' = Append(mQueue, child[t])
  /\ st' = [st EXCEPT ![child[t]] = "queued"]
  /\ child' = [child EXCEPT ![t] = None]
  /\ foreign' = IF t = main THEN foreign ELSE foreign \cup {child[t]}
  /\ EndAccess(t)
  /\ Act(t, "run")
  /\ UNCHANGED <<mSpawnCount, hasValue, notified, loopVars, running, reg, left, raced>>

\* co_await Sleep: the timer is inserted, then t notifies; c may go on meanwhile.
sleep(t) ==
  /\ Call(t)
  /\ st' = [st EXCEPT ![running[t]] = "asleep"]
  /\ running' = [running EXCEPT ![t] = None]
  /\ Act(t, "notify")
  /\ UNCHANGED <<sharedVars, loopVars, reg, child, ghostVars>>

\* co_await blockSpawn
blockSpawn(t) ==
  /\ Call(t)
  /\ st' = [st EXCEPT ![running[t]] = "blocked"]
  /\ running' = [running EXCEPT ![t] = None]
  /\ UNCHANGED <<sharedVars, loopVars, act, reg, child, ghostVars>>

\* The function returns on a thread of the pool, and ContinueTask goes on with c.
continueOn(t, c) ==
  /\ t \in Pool /\ running[t] = None /\ act[t] = "run"
  /\ st[c] = "blocked"
  /\ st' = [st EXCEPT ![c] = "running"]
  /\ running' = [running EXCEPT ![t] = c]
  /\ UNCHANGED <<sharedVars, loopVars, act, reg, child, left, ghostVars>>

\* co_return: the frame is destroyed, then afterDestroyFn runs; the root's sets
\* hasValue, the others' does mSpawnCount -= 1.
end(t) ==
  /\ running[t] # None
  /\ act[t] = "run"
  /\ st' = [st EXCEPT ![running[t]] = "ended"]
  /\ running' = [running EXCEPT ![t] = None]
  /\ IF running[t] = root
     THEN /\ hasValue' = TRUE
          /\ Act(t, "notify")
          /\ UNCHANGED reg
     ELSE /\ reg' = [reg EXCEPT ![t] = mSpawnCount]
          /\ Act(t, "dec")
          /\ UNCHANGED hasValue
  /\ UNCHANGED <<mQueue, mSpawnCount, notified, loopVars, child, left, ghostVars>>

\* Mutant: afterDestroyFn forgets notify().
afterDec_Quiet == "run"

afterDec == "notify"

decStore(t) ==
  /\ act[t] = "dec"
  /\ mSpawnCount' = reg[t] - 1
  /\ raced' = (raced \/ mSpawnCount # reg[t])
  /\ Act(t, afterDec)
  /\ UNCHANGED <<mQueue, hasValue, notified, loopVars, st, running, reg, child, left, foreign, torn>>

notify(t) ==
  /\ act[t] = "notify"
  /\ notified' = TRUE
  /\ Act(t, "run")
  /\ UNCHANGED <<mQueue, mSpawnCount, hasValue, loopVars, st, running, reg, child, left, ghostVars>>

\* A timer comes due.
expire(c) ==
  /\ st[c] = "asleep"
  /\ st' = [st EXCEPT ![c] = "due"]
  /\ UNCHANGED <<sharedVars, loopVars, running, act, reg, child, left, ghostVars>>

-----------------------------------------------------------------------------
(***************************************************************************)
(* block() and the react() inside it, when main runs no coroutine          *)
(***************************************************************************)
InLoop(at) == running[main] = None /\ act[main] = "run" /\ loop = at

\* Mutant: a coroutine of the queue is resumed once per round.
afterResume_React == "count"

\* Where block() goes on after it has resumed a coroutine from the queue.
afterResume == "drain"

\* while (!mQueue.empty())
drain ==
  /\ InLoop("drain")
  /\ loop' = IF mQueue = <<>> THEN "count" ELSE "pop"
  /\ UNCHANGED <<sharedVars, handles, threadVars, ghostVars>>

Resume(c) ==
  /\ st' = [st EXCEPT ![c] = "running"]
  /\ running' = [running EXCEPT ![main] = c]
  /\ UNCHANGED <<act, reg, child, left>>

pop ==
  /\ InLoop("pop")
  /\ mQueue' = Tail(mQueue)
  /\ Resume(Head(mQueue))
  /\ loop' = afterResume
  /\ EndAccess(main)
  /\ UNCHANGED <<mSpawnCount, hasValue, notified, handles, foreign, raced>>

\* The three parts of the condition of the break are read one after another.
checkCount ==
  /\ InLoop("count")
  /\ loop' = IF mSpawnCount = 0 THEN "value" ELSE "timers"
  /\ UNCHANGED <<sharedVars, handles, threadVars, ghostVars>>

checkValue ==
  /\ InLoop("value")
  /\ loop' = IF hasValue THEN "empty" ELSE "timers"
  /\ UNCHANGED <<sharedVars, handles, threadVars, ghostVars>>

\* Mutant: the queue is not looked at again.
mayBreak_NoQueue == TRUE

mayBreak == mQueue = <<>>

checkEmpty ==
  /\ InLoop("empty")
  /\ loop' = IF mayBreak THEN "returned" ELSE "timers"
  /\ UNCHANGED <<sharedVars, handles, threadVars, ghostVars>>

Due == {c \in Coro : st[c] = "due"}

\* processTimers, after which react() is at next.  Erasing the entry its range-for
\* stands on is undefined: the loop goes on, or ends early, or the program crashes.
CollectTimers(next) ==
  \/ /\ Due # {}
     /\ loop' = "fault"
     /\ UNCHANGED <<handles, threadVars>>
  \/ \E ready \in SUBSET Due :
       /\ ready = {} => Due = {}
       /\ handles' = ready
       /\ st' = [c \in Coro |-> IF c \in ready THEN "ready" ELSE st[c]]
       /\ loop' = next
       /\ UNCHANGED <<running, act, reg, child, left>>

\* react(): processTimers; with a timer ready the wait does not block.
processTimers ==
  /\ InLoop("timers")
  /\ CollectTimers("polling")
  /\ UNCHANGED <<sharedVars, ghostVars>>

\* The wait returns; processTimers runs again after a timeout, and after a
\* notification if there was a timer to wait for.
pollerReturn ==
  /\ InLoop("polling")
  /\ notified \/ handles # {} \/ Due # {}
  /\ \/ handles = {} /\ CollectTimers("execute")
     \/ /\ notified \/ handles # {}
        /\ loop' = "execute"
        /\ UNCHANGED <<handles, threadVars>>
  /\ notified' = FALSE
  /\ UNCHANGED <<mQueue, mSpawnCount, hasValue, ghostVars>>

\* execute(handle) resumes it here and now.
execute ==
  /\ InLoop("execute")
  /\ IF handles = {}
     THEN /\ loop' = "drain"
          /\ UNCHANGED <<handles, threadVars>>
     ELSE /\ \E c \in handles : handles' = handles \ {c} /\ Resume(c)
          /\ UNCHANGED loop
  /\ UNCHANGED <<sharedVars, ghostVars>>

BlockStep ==
  drain \/ pop \/ checkCount \/ checkValue \/ checkEmpty \/ processTimers \/ pollerReturn \/ execute

CoroStep(t) ==
  spawnDetach(t) \/ incStore(t) \/ pushHandle(t) \/ sleep(t) \/ blockSpawn(t)
    \/ end(t) \/ decStore(t) \/ notify(t)

-----------------------------------------------------------------------------
Live == ~torn /\ loop \notin {"returned", "fault"}

Next ==
  /\ Live
  /\ \/ \E t \in Thread : CoroStep(t) \/ \E c \in Coro : continueOn(t, c)
     \/ \E c \in Coro : expire(c)
     \/ BlockStep

Spec == Init /\ [][Next]_vars

\* Threads run, time passes, and the functions given to blockSpawn() return.
FairSpec ==
  /\ Spec
  /\ WF_vars(Live /\ BlockStep)
  /\ \A t \in Thread : WF_vars(Live /\ CoroStep(t))
  /\ \A c \in Coro : /\ WF_vars(Live /\ expire(c))
                     /\ WF_vars(Live /\ \E t \in Pool : continueOn(t, c))

-----------------------------------------------------------------------------
\* Types of the executor's members, of block()'s locals and of the threads.
TypeOK ==
  /\ mQueue \in Seq(Coro)
  /\ mSpawnCount \in Int
  /\ hasValue \in BOOLEAN
  /\ notified \in BOOLEAN
  /\ loop \in {"drain", "pop", "count", "value", "empty", "timers", "polling", "execute",
              "returned", "fault"}
  /\ handles \subseteq Coro
  /\ st \in [Coro -> {"new", "spawning", "queued", "running", "asleep", "due", "ready",
                      "blocked", "ended"}]
  /\ running \in [Thread -> Coro \cup {None}]
  /\ act \in [Thread -> {"run", "inc", "push", "dec", "notify"}]
  /\ reg \in [Thread -> Int]
  /\ child \in [Thread -> Coro \cup {None}]
  /\ left \in [Coro -> Nat]
  /\ foreign \subseteq Coro
  /\ raced \in BOOLEAN
  /\ torn \in BOOLEAN

\* block() returns only after the root and every coroutine detached by then have
\* ended, those that are spawned on the pool between two of its three checks
\* included, as long as no update of the unsynchronised count has been lost.
InlineBlockWaits ==
  loop = "returned" /\ ~raced => hasValue /\ \A c \in Coro : st[c] \in {"new", "ended"}

\* block() returns: it does not sleep past a change of what it waits for, although
\* it looks at three variables one by one; unless an update of the count or a handle
\* in the queue has been lost to a race, or processTimers has faulted.
InlineBlockReturns == <>(loop \in {"returned", "fault"} \/ raced \/ torn)

\* block() goes to sleep with a coroutine in its queue only if a thread of the pool
\* put it there, because spawnDetach() does not notify.
IdleQueueIsForeign ==
  loop = "polling" /\ running[main] = None /\ ~notified /\ handles = {} =>
    \A i \in DOMAIN mQueue : mQueue[i] \in foreign


-----------------------------------------------------------------------------
(***************************************************************************)
(* The inductive invariant behind InlineBlockWaits and IdleQueueIsForeign  *)
(***************************************************************************)

\* A thread runs one coroutine, or spawns one on behalf of the one it runs, or is in
\* the callback of one that has ended; no coroutine is in the hands of two threads.
ThreadsOK ==
  /\ \A t \in Thread : running[t] # None => st[running[t]] = "running"
  /\ \A t, u \in Thread : running[t] = running[u] /\ running[t] # None => t = u
  /\ \A t \in Thread : act[t] \in {"dec", "notify"} => running[t] = None

Spawns(t, c) == act[t] \in {"inc", "push"} /\ child[t] = c

\* A coroutine is being spawned by one thread, and its handle is nowhere else.
SpawningOK ==
  /\ \A t \in Thread : act[t] \in {"inc", "push"} =>
       running[t] # None /\ child[t] \in Coro /\ st[child[t]] = "spawning"
  /\ \A t, u \in Thread : \A c \in Coro : Spawns(t, c) /\ Spawns(u, c) => t = u
  /\ \A c \in Coro : st[c] = "spawning" => \E t \in Thread : Spawns(t, c)

\* The queue has the queued coroutines, and handles those that a timer has made ready.
QueueOK ==
  /\ \A c \in Coro : st[c] = "queued" => \E i \in DOMAIN mQueue : mQueue[i] = c
  /\ \A i \in DOMAIN mQueue : st[mQueue[i]] = "queued"
  /\ \A i, k \in DOMAIN mQueue : mQueue[i] = mQueue[k] => i = k
  /\ \A c \in handles : st[c] = "ready"
  /\ loop = "pop" => mQueue # <<>>

RootOK ==
  /\ st[root] \notin {"new", "spawning", "queued"}
  /\ hasValue => st[root] = "ended"

Alive(c)   == st[c] \in {"queued", "running", "asleep", "due", "ready", "blocked"}
Pushing(c) == \E t \in Thread : act[t] = "push" /\ child[t] = c

\* The coroutines that spawnDetach has counted and that have not ended.
Counted == {c \in Coro \ {root} : Alive(c) \/ Pushing(c)}

\* The callbacks of coroutines that have ended and are still counted.
Ending == {t \in Thread : act[t] = "dec"}

CountOK == ~raced => mSpawnCount = Cardinality(Counted) + Cardinality(Ending)

\* Once the loop has left the queue, main runs no coroutine, what the pool pushes
\* stays where it is, and after a count of zero only the root can still be running.
LoopOK ==
  /\ loop \in {"pop", "count", "value", "empty", "timers", "polling", "returned"} =>
       running[main] = None /\ act[main] = "run"
  /\ loop \in {"count", "value", "empty", "timers", "polling", "returned"} =>
       \A i \in DOMAIN mQueue : mQueue[i] \in foreign
  /\ loop \in {"value", "empty"} /\ ~raced =>
       \A c \in Coro \ {root} : st[c] \in {"new", "ended", "queued", "spawning"}
  /\ loop = "empty" => hasValue

IInv ==
  /\ TypeOK /\ ThreadsOK /\ SpawningOK /\ QueueOK /\ RootOK /\ CountOK /\ LoopOK
  /\ InlineBlockWaits
=============================================================================

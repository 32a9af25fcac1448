-------------------------- MODULE ExecutorsProofs --------------------------
(***************************************************************************)
(* block() of the two executors, for every tree or set of coroutines.      *)
(* MultiThreadExecutor: mSpawnCount is exact however many calls of block() *)
(* there are, and a single call returns only when every detached coroutine *)
(* has ended and never sleeps on a finished job.  The last one joins IInv  *)
(* of MultiThreadExecutor, which says that mNotified is raised, to         *)
(* PP!IInv, which says that a raised mNotified reaches epoll_wait.         *)
(* InlineExecutor: block() waits for the detached coroutines although it   *)
(* reads three variables one by one, unless an update of the count is      *)
(* lost, and sleeps on a queued coroutine only if the pool queued it.      *)
(***************************************************************************)
EXTENDS Executors, FiniteSetTheorems, SequenceTheorems, TLAPS

PP == INSTANCE PollerProofs WITH Notifier <- Coro, Waiter <- Blocker

-----------------------------------------------------------------------------
(***************************************************************************)
(* The Poller inside                                                       *)
(***************************************************************************)

\* Every step of the executor is a step of its Poller, or leaves it alone.
LEMMA PollerMoves == [Next]_vars => [PP!Next]_(PP!vars)
<1> SUFFICES ASSUME [Next]_vars PROVE [PP!Next]_(PP!vars)
  OBVIOUS
<1>1. CASE UNCHANGED pollerVars
  BY <1>1 DEF pollerVars, PP!vars
<1>2. ASSUME NEW c \in Coro, afterDoneNotify(c) \/ writeEventFd(c) PROVE PP!Next
  BY <1>2 DEF afterDoneNotify, writeEventFd, P!notify, P!writeEventFd,
              PP!notify, PP!writeEventFd, PP!Next
<1>3. ASSUME NEW b \in Blocker, react(b) \/ pollerStep(b) \/ pollerWake(b) PROVE PP!Next
  BY <1>3 DEF react, pollerStep, pollerWake, PP!Next,
     P!wait, P!InWait, P!Wake, P!WaitGoto, P!epoll_wait, P!epoll_waitOther, P!epoll_waitInterrupted,
     P!readEventFd, P!rearm, P!clearNotified, P!returnEarly, P!Ready, P!armedAfterWait,
     P!notifiedAfterWait,
     PP!wait, PP!InWait, PP!Wake, PP!WaitGoto, PP!epoll_wait, PP!epoll_waitOther,
     PP!epoll_waitInterrupted, PP!readEventFd, PP!rearm, PP!clearNotified, PP!returnEarly,
     PP!Ready, PP!armedAfterWait, PP!notifiedAfterWait
<1>4. ASSUME NEW c \in Coro, spawnDetach(c) \/ execute(c) \/ resume(c) \/ afterDone(c)
      PROVE  UNCHANGED pollerVars
  BY <1>4 DEF spawnDetach, execute, resume, afterDone
<1>5. ASSUME NEW b \in Blocker, block(b) \/ checkFuture(b) \/ checkCount(b) \/ lock(b) \/ unlock(b)
      PROVE  UNCHANGED pollerVars
  BY <1>5 DEF block, checkFuture, checkCount, lock, unlock
<1>6. CASE UNCHANGED vars
  BY <1>1, <1>6 DEF vars
<1> QED BY <1>1, <1>2, <1>3, <1>4, <1>5, <1>6 DEF Next, CoroStep, BlockStep

\* The invariant of Poller holds of the Poller inside the executor.
LEMMA PollerInside == Spec => []PP!IInv
<1>1. Init => PP!IInv
  <2>1. Init => PP!Init
    BY DEF Init, P!Init, PP!Init
  <2> QED BY <2>1, PP!PollerInit, ExecutorAssumption
<1>2. PP!IInv /\ [Next]_vars => PP!IInv'
  BY PollerMoves, PP!PollerStep, ExecutorAssumption
<1> QED BY <1>1, <1>2, PTL DEF Spec

\* The types of the Poller, under the name MultiThreadExecutor gives them.
LEMMA SameTypes == PP!IInv => P!TypeOK
BY DEF PP!IInv, PP!TypeOK, PP!WaitPC, PP!Draining, P!TypeOK, P!WaitPC, P!Draining

-----------------------------------------------------------------------------
(***************************************************************************)
(* The executor                                                            *)
(***************************************************************************)
AliveOnes == {c \in Detached : Alive(c)}

\* What the constants say of a single coroutine or call.
LEMMA Shape ==
  /\ Detached \subseteq Coro
  /\ \A b \in Blocker : Root[b] \in Coro /\ Root[b] \notin Detached
  /\ \A c \in Detached : Parent[c] \in Coro
  /\ \A c \in Coro : c \in Detached \/ \E b \in Blocker : c = Root[b]
BY ExecutorAssumption DEF Detached

\* mSpawnCount is zero exactly when no detached coroutine is alive.
LEMMA CountZero ==
  ASSUME CountIsExact
  PROVE  /\ IsFiniteSet(AliveOnes)
         /\ mSpawnCount \in Nat
         /\ mSpawnCount = 0 <=> \A c \in Detached : ~Alive(c)
<1>1. IsFiniteSet(Detached)
  BY Shape, ExecutorAssumption, FS_Subset
<1>2. IsFiniteSet(AliveOnes)
  BY <1>1, FS_Subset DEF AliveOnes
<1>3. mSpawnCount = Cardinality(AliveOnes)
  BY DEF CountIsExact, AliveOnes
<1>4. Cardinality(AliveOnes) = 0 <=> AliveOnes = {}
  BY <1>2, FS_EmptySet
<1> QED BY <1>2, <1>3, <1>4, FS_CardinalityType DEF AliveOnes

\* The initial state: nothing has been called.
LEMMA ExecutorInit == Init => IInv
<1> SUFFICES ASSUME Init PROVE IInv
  OBVIOUS
<1>1. PP!Init
  BY DEF Init, P!Init, PP!Init
<1>2. P!TypeOK
  BY <1>1, SameTypes, PP!PollerInit, ExecutorAssumption
<1>3. TypeOK
  BY <1>2 DEF Init, TypeOK, Status, LoopPC
<1>4. CountIsExact
  <2>1. {c \in Detached : Alive(c)} = {}
    BY Shape DEF Init, Alive
  <2> QED BY <2>1, FS_EmptySet DEF Init, CountIsExact
<1>5. FutureMeansEnded
  BY DEF Init, FutureMeansEnded, Ended
<1>6. LoopOK
  BY <1>1, Shape DEF Init, PP!Init, LoopOK
<1> QED BY <1>3, <1>4, <1>5, <1>6 DEF IInv


\* The promise and the count when no coroutine starts or ends.
LEMMA StatusFrame ==
  ASSUME IInv, mSpawnCount' = mSpawnCount, future' = future,
         \A c \in Detached : Alive(c)' <=> Alive(c),
         \A c \in Coro : Ended(c)' <=> Ended(c),
         \A c \in Coro : status'[c] = "new" => status[c] = "new",
         \A b \in Blocker : at'[b] \in {"count", "returned"} => future[b]
  PROVE  CountIsExact' /\ FutureMeansEnded'
<1>1. {c \in Detached : Alive(c)}' = {c \in Detached : Alive(c)}
  BY ExecutorAssumption DEF Detached
<1>2. CountIsExact'
  BY <1>1 DEF IInv, CountIsExact
<1>3. FutureMeansEnded'
  <2>1. \A c \in Coro : Ended(c)' => \A d \in Detached : Parent[d] = c => status'[d] # "new"
    BY Shape DEF IInv, FutureMeansEnded
  <2>2. \A b \in Blocker : future'[b] => Ended(Root[b])'
    BY Shape DEF IInv, FutureMeansEnded
  <2>3. \A b \in Blocker : at'[b] \in {"count", "returned"} => future'[b]
    OBVIOUS
  <2> QED BY <2>1, <2>2, <2>3 DEF FutureMeansEnded
<1> QED BY <1>2, <1>3

\* spawnDetach: the parent is running, so no single block() has returned.
LEMMA SpawnStep ==
  ASSUME IInv, P!TypeOK', NEW c \in Coro, spawnDetach(c)
  PROVE  IInv'
<1>1. /\ c \in Detached /\ status[c] = "new"
      /\ status[Parent[c]] = "running"
      /\ mSpawnCount' = mSpawnCount + 1
      /\ status' = [status EXCEPT ![c] = "counted"]
      /\ UNCHANGED <<mNotified, waitPc, mEventLock, future, at>>
  BY DEF spawnDetach, Executing, countAtSpawn, Becomes, pollerVars
<1>2. /\ status'[c] = "counted"
      /\ \A d \in Coro \ {c} : status'[d] = status[d]
      /\ status' \in [Coro -> Status]
  BY <1>1 DEF IInv, TypeOK, Status
<1>3. mSpawnCount \in Nat
  BY DEF IInv, TypeOK
<1>4. TypeOK'
  BY <1>1, <1>2, <1>3 DEF IInv, TypeOK
<1>5. CountIsExact'
  <2>1. c \notin AliveOnes /\ IsFiniteSet(AliveOnes) /\ mSpawnCount = Cardinality(AliveOnes)
    BY <1>1, CountZero DEF IInv, CountIsExact, AliveOnes, Alive
  <2>2. AliveOnes' = AliveOnes \cup {c}
    BY <1>1, <1>2, Shape DEF AliveOnes, Alive
  <2>3. Cardinality(AliveOnes') = Cardinality(AliveOnes) + 1
    BY <2>1, <2>2, FS_AddElement
  <2> QED BY <1>1, <2>1, <2>3 DEF CountIsExact, AliveOnes
<1>6. FutureMeansEnded'
  BY <1>1, <1>2, Shape DEF IInv, FutureMeansEnded, Ended
<1>7. LoopOK'
  <2>1. ASSUME NEW b \in Blocker, Blocker = {b}, at[b] = "returned" PROVE FALSE
    <3>1. \A d \in Detached : ~Alive(d)
      BY <2>1, CountZero DEF IInv, LoopOK
    <3>2. Parent[c] \in Coro /\ Parent[c] \notin Detached
      BY <1>1, <3>1, Shape DEF Alive
    <3>3. Parent[c] = Root[b]
      BY <2>1, <3>2, Shape
    <3>4. Ended(Root[b])
      BY <2>1 DEF IInv, FutureMeansEnded
    <3> QED BY <1>1, <3>3, <3>4 DEF Ended
  <2>2. \A b \in Blocker : status'[Root[b]] = status[Root[b]]
    BY <1>1, <1>2, Shape
  <2>3. mSpawnCount' # 0
    BY <1>1, <1>3
  <2> QED BY <1>1, <2>1, <2>2, <2>3 DEF IInv, LoopOK
<1> QED BY <1>4, <1>5, <1>6, <1>7 DEF IInv

\* The pool queues a coroutine and resumes it: it is alive throughout.
LEMMA PoolStep ==
  ASSUME IInv, P!TypeOK', NEW c \in Coro, execute(c) \/ resume(c)
  PROVE  IInv'
<1>1. /\ status[c] \in {"counted", "queued"}
      /\ status'[c] \in {"queued", "running"}
      /\ \A d \in Coro \ {c} : status'[d] = status[d]
      /\ status' \in [Coro -> Status]
      /\ UNCHANGED <<mNotified, waitPc, mSpawnCount, mEventLock, future, at>>
  BY DEF execute, resume, Becomes, pollerVars, IInv, TypeOK, Status
<1>2. TypeOK'
  BY <1>1 DEF IInv, TypeOK
<1>3. \A d \in Coro : /\ Alive(d)' <=> Alive(d)
                      /\ Ended(d)' <=> Ended(d)
                      /\ status'[d] = "new" <=> status[d] = "new"
                      /\ status'[d] = "notifying" <=> status[d] = "notifying"
  BY <1>1 DEF Alive, Ended
<1>4. CountIsExact' /\ FutureMeansEnded'
  BY <1>1, <1>3, Shape, StatusFrame DEF IInv, FutureMeansEnded
<1>5. LoopOK'
  BY <1>1, <1>3, Shape DEF IInv, LoopOK
<1> QED BY <1>2, <1>4, <1>5 DEF IInv

\* afterDoneFn: promise or count, with the notification still to come.
LEMMA DoneStep ==
  ASSUME IInv, P!TypeOK', NEW c \in Coro, afterDone(c)
  PROVE  IInv'
<1>1. /\ status[c] = "running"
      /\ \A d \in Detached : Parent[d] = c => status[d] # "new"
      /\ status' = [status EXCEPT ![c] = "notifying"]
      /\ UNCHANGED <<mNotified, waitPc, mEventLock, at>>
  BY DEF afterDone, Executing, Becomes, pollerVars
<1>2. /\ status'[c] = "notifying"
      /\ \A d \in Coro \ {c} : status'[d] = status[d]
      /\ status' \in [Coro -> Status]
  BY <1>1 DEF IInv, TypeOK, Status
<1>3. CASE c \in Detached
  <2>1. mSpawnCount' = mSpawnCount - 1 /\ future' = future
    BY <1>3 DEF afterDone
  <2>2. c \in AliveOnes /\ IsFiniteSet(AliveOnes) /\ mSpawnCount = Cardinality(AliveOnes)
    BY <1>1, <1>3, CountZero DEF IInv, CountIsExact, AliveOnes, Alive
  <2>3. AliveOnes' = AliveOnes \ {c}
    BY <1>2, <1>3, Shape DEF AliveOnes, Alive
  <2>4. Cardinality(AliveOnes') = Cardinality(AliveOnes) - 1 /\ Cardinality(AliveOnes') \in Nat
    BY <2>2, <2>3, FS_RemoveElement, FS_CardinalityType
  <2>5. CountIsExact' /\ mSpawnCount' \in Nat
    BY <2>1, <2>2, <2>4 DEF CountIsExact, AliveOnes
  <2>6. TypeOK'
    BY <1>1, <1>2, <2>1, <2>5 DEF IInv, TypeOK
  <2>7. FutureMeansEnded'
    BY <1>1, <1>2, <2>1, Shape DEF IInv, FutureMeansEnded, Ended
  <2>8. LoopOK'
    <3>1. mSpawnCount # 0
      BY <1>1, <1>3, CountZero DEF IInv, Alive
    <3>2. \A b \in Blocker : status'[Root[b]] = status[Root[b]]
      BY <1>2, <1>3, Shape
    <3> QED BY <1>1, <1>2, <2>1, <3>1, <3>2 DEF IInv, LoopOK
  <2> QED BY <2>5, <2>6, <2>7, <2>8 DEF IInv
<1>4. CASE c \notin Detached
  <2>1. mSpawnCount' = mSpawnCount /\ future' = [b \in Blocker |-> future[b] \/ Root[b] = c]
    BY <1>4 DEF afterDone
  <2>2. AliveOnes' = AliveOnes
    BY <1>2, <1>4, Shape DEF AliveOnes, Alive
  <2>3. CountIsExact'
    BY <2>1, <2>2 DEF IInv, CountIsExact, AliveOnes
  <2>4. future' \in [Blocker -> BOOLEAN]
    BY <2>1
  <2>5. TypeOK'
    BY <1>1, <1>2, <2>1, <2>4 DEF IInv, TypeOK
  <2>6. \A b \in Blocker : future'[b] <=> future[b] \/ Root[b] = c
    BY <2>1
  <2>7. FutureMeansEnded'
    <3>1. \A d \in Coro : Ended(d)' <=> Ended(d) \/ d = c
      BY <1>1, <1>2 DEF Ended
    <3>2. \A d \in Detached : status'[d] = status[d]
      BY <1>2, <1>4, Shape
    <3> QED BY <1>1, <2>6, <3>1, <3>2, Shape DEF IInv, FutureMeansEnded
  <2>8. LoopOK'
    <3>1. \A b \in Blocker : at[b] = "uncalled" => status'[Root[b]] = "new"
      BY <1>1, <1>2, Shape DEF IInv, LoopOK
    <3> QED BY <1>1, <1>2, <2>1, <3>1 DEF IInv, LoopOK
  <2> QED BY <2>3, <2>5, <2>7, <2>8 DEF IInv
<1> QED BY <1>3, <1>4

\* GetReactor().notify(): from now on mNotified speaks for the coroutine.
LEMMA NotifyStep ==
  ASSUME IInv, P!TypeOK', NEW c \in Coro, afterDoneNotify(c) \/ writeEventFd(c)
  PROVE  IInv'
<1>1. UNCHANGED <<waitPc, mSpawnCount, mEventLock, future, at>>
  BY DEF afterDoneNotify, writeEventFd, P!notify, P!writeEventFd
<1>2. /\ status' \in [Coro -> Status]
      /\ \A d \in Coro : /\ Alive(d)' <=> Alive(d)
                         /\ Ended(d)' <=> Ended(d)
                         /\ status'[d] = "new" <=> status[d] = "new"
      /\ mNotified' \/ (mNotified' = mNotified /\ status' = status)
  BY DEF afterDoneNotify, writeEventFd, P!notify, P!writeEventFd, Becomes,
         IInv, TypeOK, Status, Alive, Ended
<1>3. TypeOK'
  BY <1>1, <1>2 DEF IInv, TypeOK
<1>4. CountIsExact' /\ FutureMeansEnded'
  BY <1>1, <1>2, Shape, StatusFrame DEF IInv, FutureMeansEnded
<1>5. LoopOK'
  BY <1>1, <1>2, Shape DEF IInv, LoopOK
<1> QED BY <1>3, <1>4, <1>5 DEF IInv

\* block(): the task has not been started before.
LEMMA BlockCallStep ==
  ASSUME IInv, P!TypeOK', NEW b \in Blocker, block(b)
  PROVE  IInv'
<1>1. /\ at[b] = "uncalled" /\ status[Root[b]] = "new"
      /\ at' = [at EXCEPT ![b] = "future"]
      /\ status' = [status EXCEPT ![Root[b]] = "queued"]
      /\ UNCHANGED <<mNotified, waitPc, mSpawnCount, mEventLock, future>>
  BY DEF IInv, LoopOK, block, BlockGoto, Becomes, pollerVars
<1>2. /\ at' \in [Blocker -> LoopPC] /\ at'[b] = "future"
      /\ \A d \in Blocker \ {b} : at'[d] = at[d]
      /\ status' \in [Coro -> Status] /\ status'[Root[b]] = "queued"
      /\ \A c \in Coro \ {Root[b]} : status'[c] = status[c]
  BY <1>1, Shape DEF IInv, TypeOK, Status, LoopPC
<1>3. TypeOK'
  BY <1>1, <1>2 DEF IInv, TypeOK
<1>4. /\ \A c \in Coro : Ended(c)' <=> Ended(c)
      /\ \A c \in Detached : Alive(c)' <=> Alive(c)
      /\ \A c \in Coro : status'[c] = "new" => status[c] = "new"
  BY <1>1, <1>2, Shape DEF Ended, Alive
<1>5. CountIsExact' /\ FutureMeansEnded'
  BY <1>1, <1>2, <1>4, StatusFrame DEF IInv, FutureMeansEnded
<1>6. LoopOK'
  <2>1. \A d \in Blocker \ {b} : Root[d] \in Coro \ {Root[b]}
    BY Shape, ExecutorAssumption
  <2>2. \A c \in Coro : status[c] = "notifying" => status'[c] = "notifying"
    BY <1>1, <1>2
  <2> QED BY <1>1, <1>2, <2>1, <2>2 DEF IInv, LoopOK
<1> QED BY <1>3, <1>5, <1>6 DEF IInv

\* The two looks of the loop, mEventLock, and the way into Poller::wait and back.
LEMMA LoopStep ==
  ASSUME IInv, P!TypeOK', NEW b \in Blocker,
         checkFuture(b) \/ checkCount(b) \/ lock(b) \/ react(b) \/ unlock(b)
  PROVE  IInv'
<1>1. /\ at[b] \in {"future", "count", "lock", "react", "wait"}
      /\ \A d \in Blocker \ {b} : at'[d] = at[d] /\ waitPc'[d] = waitPc[d]
      /\ UNCHANGED <<mNotified, mSpawnCount, future, status>>
  BY DEF IInv, TypeOK, checkFuture, checkCount, lock, react, unlock, BlockGoto, pollerVars,
         P!wait, P!WaitGoto, P!TypeOK
<1>2. at' \in [Blocker -> LoopPC] /\ mEventLock' \in Blocker \cup {None}
  BY DEF IInv, TypeOK, checkFuture, checkCount, lock, react, unlock, BlockGoto, LoopPC
<1>3. /\ at'[b] \in {"count", "returned"} => future[b]
      /\ at'[b] = "returned" => mSpawnCount = 0
      /\ at'[b] # "uncalled"
      /\ waitPc'[b] # "idle" => at'[b] = "wait"
      /\ at'[b] \in {"lock", "react"} \/ waitPc'[b] = "epoll_wait" =>
           \/ at[b] \in {"lock", "react"} \/ waitPc[b] = "epoll_wait"
           \/ ~(future[b] /\ mSpawnCount = 0)
  <2>1. CASE checkFuture(b)
    BY <2>1 DEF IInv, TypeOK, LoopOK, checkFuture, BlockGoto, pollerVars
  <2>2. CASE checkCount(b)
    BY <2>2 DEF IInv, TypeOK, LoopOK, FutureMeansEnded, checkCount, BlockGoto, pollerVars
  <2>3. CASE lock(b)
    BY <2>3 DEF IInv, TypeOK, LoopOK, lock, BlockGoto, pollerVars
  <2>4. CASE react(b)
    BY <2>4 DEF IInv, TypeOK, LoopOK, react, BlockGoto
  <2>5. CASE unlock(b)
    BY <2>5 DEF IInv, TypeOK, LoopOK, unlock, BlockGoto, pollerVars
  <2> QED BY <2>1, <2>2, <2>3, <2>4, <2>5
<1>4. TypeOK'
  BY <1>1, <1>2 DEF IInv, TypeOK
<1>5. CountIsExact' /\ FutureMeansEnded'
  <2>1. \A d \in Blocker : at'[d] \in {"count", "returned"} => future[d]
    BY <1>1, <1>3 DEF IInv, FutureMeansEnded
  <2> QED BY <1>1, <2>1, StatusFrame DEF Alive, Ended
<1>6. LoopOK'
  BY <1>1, <1>3 DEF IInv, LoopOK
<1> QED BY <1>4, <1>5, <1>6 DEF IInv

\* Inside Poller::wait: mNotified is lowered only on the way out of a wait, after
\* which the loop looks again.
LEMMA WaitStep ==
  ASSUME IInv, P!TypeOK', NEW b \in Blocker, pollerStep(b) \/ pollerWake(b)
  PROVE  IInv'
<1>1. /\ UNCHANGED <<mSpawnCount, mEventLock, future, status, at>>
      /\ waitPc[b] # "idle"
      /\ waitPc'[b] # "epoll_wait"
      /\ \A d \in Blocker \ {b} : waitPc'[d] = waitPc[d]
  BY DEF pollerStep, pollerWake, P!InWait, P!Wake, P!WaitGoto, P!epoll_wait, P!epoll_waitOther,
         P!epoll_waitInterrupted, P!readEventFd, P!rearm, P!clearNotified, P!returnEarly,
         IInv, TypeOK, P!TypeOK
<1>2. at[b] = "wait"
  BY <1>1 DEF IInv, LoopOK
<1>3. TypeOK'
  BY <1>1 DEF IInv, TypeOK
<1>4. CountIsExact' /\ FutureMeansEnded'
  BY <1>1, StatusFrame DEF IInv, FutureMeansEnded, Alive, Ended
<1>5. LoopOK'
  BY <1>1, <1>2 DEF IInv, LoopOK
<1> QED BY <1>3, <1>4, <1>5 DEF IInv

-----------------------------------------------------------------------------
\* IInv holds in every reachable state.
THEOREM ExecutorInvariant == Spec => []IInv
<1>1. IInv /\ P!TypeOK' /\ [Next]_vars => IInv'
  <2> SUFFICES ASSUME IInv, P!TypeOK', [Next]_vars PROVE IInv'
    OBVIOUS
  <2>1. CASE UNCHANGED vars
    <3>1. UNCHANGED <<mNotified, waitPc, mSpawnCount, mEventLock, future, status, at>>
      BY <2>1 DEF vars, pollerVars
    <3>2. TypeOK'
      BY <3>1 DEF IInv, TypeOK
    <3>3. CountIsExact' /\ FutureMeansEnded'
      BY <3>1, StatusFrame DEF IInv, FutureMeansEnded, Alive, Ended
    <3>4. LoopOK'
      BY <3>1 DEF IInv, LoopOK
    <3> QED BY <3>2, <3>3, <3>4 DEF IInv
  <2>2. ASSUME NEW c \in Coro, CoroStep(c) PROVE IInv'
    BY <2>2, SpawnStep, PoolStep, DoneStep, NotifyStep DEF CoroStep
  <2>3. ASSUME NEW b \in Blocker, block(b) \/ BlockStep(b) \/ pollerWake(b) PROVE IInv'
    BY <2>3, BlockCallStep, LoopStep, WaitStep DEF BlockStep
  <2> QED BY <2>1, <2>2, <2>3 DEF Next
<1>2. []PP!IInv => []P!TypeOK
  BY SameTypes, PTL
<1> QED BY <1>1, <1>2, ExecutorInit, PollerInside, PTL DEF Spec

\* mSpawnCount is the number of live detached coroutines.
THEOREM SpawnCountExact == Spec => []CountIsExact
BY ExecutorInvariant, PTL DEF IInv

\* A single call of block() returns only when its task and every coroutine of its
\* tree have ended.
THEOREM BlockReturnsLate ==
  ASSUME NEW main, Blocker = {main}
  PROVE  Spec => []BlockWaitsForDetached
<1>1. ASSUME IInv, at[main] = "returned"
      PROVE  Ended(Root[main]) /\ \A c \in Detached : Ended(c)
  <2> DEFINE Fresh == {c \in Detached : status[c] = "new"}
  <2>1. Ended(Root[main])
    BY <1>1 DEF IInv, FutureMeansEnded
  <2>2. \A c \in Detached : ~Alive(c)
    BY <1>1, CountZero DEF IInv, LoopOK
  <2>3. \A c \in Detached : Ended(c) \/ c \in Fresh
    BY <1>1, <2>2, Shape DEF IInv, TypeOK, Status, Alive, Ended
  <2>4. ASSUME NEW c \in Fresh PROVE Parent[c] \in Fresh
    <3>1. Parent[c] \in Coro /\ c \in Detached
      BY Shape
    <3>2. ~Ended(Parent[c])
      BY <1>1, <3>1 DEF IInv, FutureMeansEnded
    <3>3. Parent[c] \in Detached
      BY <2>1, <3>1, <3>2, Shape
    <3> QED BY <2>3, <3>2, <3>3
  <2>5. Fresh = {}
    <3>1. Fresh \in SUBSET Detached
      OBVIOUS
    <3> HIDE DEF Fresh
    <3> QED BY <2>4, <3>1, ExecutorAssumption
  <2> QED BY <2>1, <2>3, <2>5
<1>2. IInv => BlockWaitsForDetached
  BY <1>1 DEF BlockWaitsForDetached
<1> QED BY <1>2, ExecutorInvariant, PTL

\* A single call of block() does not sleep on a finished job: the invariant of
\* block() gives a raised mNotified, that of Poller what stands behind it.
THEOREM NoSleepOnFinishedJob ==
  ASSUME NEW main, Blocker = {main}
  PROVE  Spec => []NoLostWakeup
<1>1. ASSUME IInv, PP!IInv PROVE NoLostWakeup
  <2> SUFFICES ASSUME waitPc[main] = "epoll_wait", future[main], mSpawnCount = 0
               PROVE  P!Ready \/ \E c \in Coro : status[c] = "notifying" \/ notifyPc[c] = "write"
    BY DEF NoLostWakeup
  <2>1. mNotified \/ \E c \in Coro : status[c] = "notifying"
    BY <1>1 DEF IInv, LoopOK
  <2>2. mNotified => PP!Ready \/ \E c \in Coro : notifyPc[c] = "write"
    BY <1>1 DEF PP!IInv, PP!RaisedIsDelivered, PP!Draining
  <2> QED BY <2>1, <2>2 DEF P!Ready, PP!Ready
<1> QED BY <1>1, ExecutorInvariant, PollerInside, PTL

-----------------------------------------------------------------------------
(***************************************************************************)
(* InlineExecutor.  The count is that of the coroutines it stands for, and *)
(* of the callbacks that have not yet taken theirs off, until an update is *)
(* lost (CountOK); once the loop has read zero, whatever is spawned is     *)
(* spawned by the root, on the pool, and is in the queue when the root has *)
(* ended (LoopOK).  That no handle is in two hands (ThreadsOK, SpawningOK  *)
(* and QueueOK) is what makes those inductive.                             *)
(***************************************************************************)
\* FiniteSets seen through the instance is FiniteSets.
LEMMA SameCardinalityIE == ASSUME NEW S PROVE IE!Cardinality(S) = Cardinality(S)
BY DEF IE!Cardinality, Cardinality

\* What the constants say: threads and coroutines are finite in number, None is neither.
LEMMA InlineShape ==
  /\ IE!Thread = {mainThread} \cup Pool /\ mainThread \in IE!Thread
  /\ \A t \in Pool : t \in IE!Thread /\ t # mainThread
  /\ root \in InlineCoro /\ None \notin InlineCoro /\ Calls \in [InlineCoro -> Nat]
BY ExecutorsAssumption DEF IE!Thread

\* The two sets that are counted are finite, whatever the state.
LEMMA CountedFinite ==
  /\ IsFiniteSet(IE!Counted) /\ Cardinality(IE!Counted) \in Nat
  /\ IsFiniteSet(IE!Ending) /\ Cardinality(IE!Ending) \in Nat
<1>1. IE!Counted \subseteq InlineCoro /\ IE!Ending \subseteq IE!Thread
  BY DEF IE!Counted, IE!Ending
<1>2. IsFiniteSet(IE!Thread)
  BY InlineShape, ExecutorsAssumption, FS_AddElement
<1> QED BY <1>1, <1>2, ExecutorsAssumption, FS_Subset, FS_CardinalityType

LEMMA CountedFiniteNext ==
  /\ IsFiniteSet(IE!Counted') /\ Cardinality(IE!Counted') \in Nat
  /\ IsFiniteSet(IE!Ending') /\ Cardinality(IE!Ending') \in Nat
<1>1. IE!Counted' \subseteq InlineCoro /\ IE!Ending' \subseteq IE!Thread
  BY DEF IE!Counted, IE!Ending
<1>2. IsFiniteSet(IE!Thread)
  BY InlineShape, ExecutorsAssumption, FS_AddElement
<1> QED BY <1>1, <1>2, ExecutorsAssumption, FS_Subset, FS_CardinalityType

\* The count, with the Cardinality of this module.
LEMMA CountAsSets ==
  /\ IE!CountOK <=> (~raced => inlineCount = Cardinality(IE!Counted) + Cardinality(IE!Ending))
  /\ IE!CountOK' <=> (~raced' => inlineCount' = Cardinality(IE!Counted') + Cardinality(IE!Ending'))
<1>1. /\ IE!Cardinality(IE!Counted) = Cardinality(IE!Counted)
      /\ IE!Cardinality(IE!Ending) = Cardinality(IE!Ending)
      /\ IE!Cardinality(IE!Counted)' = Cardinality(IE!Counted')
      /\ IE!Cardinality(IE!Ending)' = Cardinality(IE!Ending')
  BY SameCardinalityIE DEF IE!Cardinality, Cardinality
<1> QED BY <1>1 DEF IE!CountOK

\* A step in which nothing that is counted changes hands.
LEMMA CountStays ==
  ASSUME IE!CountOK, inlineCount' = inlineCount, raced' = raced,
         IE!Counted' = IE!Counted, IE!Ending' = IE!Ending
  PROVE  IE!CountOK'
BY CountAsSets

\* block() starts with the root on the main thread.
LEMMA InlineInit == IE!Init => IE!IInv
<1> SUFFICES ASSUME IE!Init PROVE IE!IInv
  OBVIOUS
<1> USE InlineShape
<1>1. /\ mQueue = <<>> /\ inlineCount = 0 /\ hasValue = FALSE /\ notified = FALSE /\ loop = "drain"
      /\ handles = {} /\ foreign = {} /\ raced = FALSE /\ torn = FALSE
      /\ st = [c \in InlineCoro |-> IF c = root THEN "running" ELSE "new"]
      /\ running = [t \in IE!Thread |-> IF t = mainThread THEN root ELSE None]
      /\ act = [t \in IE!Thread |-> "run"]
      /\ reg = [t \in IE!Thread |-> 0] /\ child = [t \in IE!Thread |-> None]
      /\ left = Calls
  BY DEF IE!Init
<1>2. IE!TypeOK
  <2>1. mQueue \in Seq(InlineCoro) /\ inlineCount \in Int /\ left \in [InlineCoro -> Nat]
    BY <1>1
  <2>2. /\ running \in [IE!Thread -> InlineCoro \cup {None}]
        /\ child \in [IE!Thread -> InlineCoro \cup {None}]
    BY <1>1
  <2> QED BY <1>1, <2>1, <2>2 DEF IE!TypeOK
<1>3. IE!ThreadsOK /\ IE!SpawningOK /\ IE!QueueOK /\ IE!RootOK
  BY <1>1 DEF IE!ThreadsOK, IE!SpawningOK, IE!Spawns, IE!QueueOK, IE!RootOK
<1>4. IE!CountOK
  <2>1. IE!Counted = {} /\ IE!Ending = {}
    BY <1>1 DEF IE!Counted, IE!Alive, IE!Pushing, IE!Ending
  <2> QED BY <1>1, <2>1, CountAsSets, FS_EmptySet
<1>5. IE!LoopOK /\ IE!InlineBlockWaits
  BY <1>1 DEF IE!LoopOK, IE!InlineBlockWaits
<1> QED BY <1>2, <1>3, <1>4, <1>5 DEF IE!IInv

\* spawnDetach up to the load of the count: the new coroutine is in the hands of t only.
LEMMA InlineSpawnStep ==
  ASSUME IE!IInv, loop # "returned", NEW t \in IE!Thread, IE!spawnDetach(t)
  PROVE  IE!IInv'
<1> USE InlineShape
<1>1. /\ IE!TypeOK /\ IE!ThreadsOK /\ IE!SpawningOK /\ IE!QueueOK /\ IE!RootOK /\ IE!CountOK
      /\ IE!LoopOK
  BY DEF IE!IInv
<1>2. PICK c \in InlineCoro : /\ st[c] = "new" /\ st' = [st EXCEPT ![c] = "spawning"]
                              /\ child' = [child EXCEPT ![t] = c]
  BY DEF IE!spawnDetach
<1>3. /\ running[t] # None /\ act[t] = "run" /\ left[running[t]] > 0
      /\ left' = [left EXCEPT ![running[t]] = @ - 1]
      /\ reg' = [reg EXCEPT ![t] = inlineCount] /\ act' = [act EXCEPT ![t] = "inc"]
      /\ UNCHANGED <<mQueue, inlineCount, hasValue, notified, loop, handles, running, foreign, raced, torn>>
  BY DEF IE!spawnDetach, IE!Call, IE!Act, IE!sharedVars, IE!loopVars, IE!ghostVars
<1>4. /\ st'[c] = "spawning" /\ \A d \in InlineCoro : d # c => st'[d] = st[d]
      /\ child'[t] = c /\ \A u \in IE!Thread : u # t => child'[u] = child[u]
      /\ act'[t] = "inc" /\ \A u \in IE!Thread : u # t => act'[u] = act[u]
  BY <1>1, <1>2, <1>3 DEF IE!TypeOK
<1>5. c # root
  BY <1>1, <1>2 DEF IE!RootOK
<1>6. IE!TypeOK'
  <2>1. left' \in [InlineCoro -> Nat]
    BY <1>1, <1>3 DEF IE!TypeOK
  <2>2. /\ st' \in [InlineCoro -> {"new", "spawning", "queued", "running", "asleep", "due", "ready",
                                   "blocked", "ended"}]
        /\ act' \in [IE!Thread -> {"run", "inc", "push", "dec", "notify"}]
        /\ reg' \in [IE!Thread -> Int] /\ child' \in [IE!Thread -> InlineCoro \cup {None}]
    BY <1>1, <1>2, <1>3 DEF IE!TypeOK
  <2> QED BY <1>1, <1>3, <2>1, <2>2 DEF IE!TypeOK
<1>7. IE!ThreadsOK'
  <2>1. \A u \in IE!Thread : running[u] # None => running[u] \in InlineCoro /\ running[u] # c
    BY <1>1, <1>2 DEF IE!TypeOK, IE!ThreadsOK
  <2> QED BY <1>1, <1>3, <1>4, <2>1 DEF IE!ThreadsOK
<1>8. IE!SpawningOK'
  <2>1. \A u \in IE!Thread : act[u] \in {"inc", "push"} => child[u] # c /\ u # t
    BY <1>1, <1>2, <1>3 DEF IE!SpawningOK
  <2>2. \A u \in IE!Thread, d \in InlineCoro :
          IE!Spawns(u, d)' <=> IE!Spawns(u, d) \/ (u = t /\ d = c)
    BY <1>3, <1>4, <2>1 DEF IE!Spawns
  <2>3. \A u \in IE!Thread, d \in InlineCoro : IE!Spawns(u, d) => u # t /\ d # c
    BY <2>1 DEF IE!Spawns
  <2>4. \A u, v \in IE!Thread : \A d \in InlineCoro : IE!Spawns(u, d)' /\ IE!Spawns(v, d)' => u = v
    BY <1>1, <2>2, <2>3 DEF IE!SpawningOK
  <2>5. \A u \in IE!Thread : act'[u] \in {"inc", "push"} =>
          running'[u] # None /\ child'[u] \in InlineCoro /\ st'[child'[u]] = "spawning"
    BY <1>1, <1>3, <1>4, <2>1 DEF IE!SpawningOK
  <2>6. \A d \in InlineCoro : st'[d] = "spawning" => \E u \in IE!Thread : IE!Spawns(u, d)'
    BY <1>1, <1>4, <2>2 DEF IE!SpawningOK
  <2> QED BY <2>4, <2>5, <2>6 DEF IE!SpawningOK
<1>9. IE!QueueOK'
  BY <1>1, <1>2, <1>3, <1>4 DEF IE!QueueOK, IE!TypeOK
<1>10. IE!RootOK'
  BY <1>1, <1>3, <1>4, <1>5 DEF IE!RootOK
<1>11. IE!CountOK'
  <2>1. \A d \in InlineCoro : IE!Alive(d)' <=> IE!Alive(d)
    BY <1>2, <1>4 DEF IE!Alive
  <2>2. \A d \in InlineCoro : IE!Pushing(d)' <=> IE!Pushing(d)
    BY <1>3, <1>4 DEF IE!Pushing
  <2>3. IE!Counted' = IE!Counted
    BY <2>1, <2>2 DEF IE!Counted
  <2>4. IE!Ending' = IE!Ending
    BY <1>3, <1>4 DEF IE!Ending
  <2> QED BY <1>1, <1>3, <2>3, <2>4, CountStays
<1>12. IE!LoopOK'
  BY <1>1, <1>3, <1>4 DEF IE!LoopOK
<1> QED BY <1>3, <1>6, <1>7, <1>8, <1>9, <1>10, <1>11, <1>12 DEF IE!IInv, IE!InlineBlockWaits

\* The store: the new coroutine is counted from here on.
LEMMA InlineIncStep ==
  ASSUME IE!IInv, loop # "returned", NEW t \in IE!Thread, IE!incStore(t)
  PROVE  IE!IInv'
<1> USE InlineShape
<1>1. /\ IE!TypeOK /\ IE!ThreadsOK /\ IE!SpawningOK /\ IE!QueueOK /\ IE!RootOK /\ IE!CountOK
      /\ IE!LoopOK
  BY DEF IE!IInv
<1>2. /\ act[t] = "inc" /\ inlineCount' = reg[t] + 1
      /\ raced' = (raced \/ inlineCount # reg[t]) /\ act' = [act EXCEPT ![t] = "push"]
      /\ UNCHANGED <<mQueue, hasValue, notified, loop, handles, st, running, reg, child, left, foreign, torn>>
  BY DEF IE!incStore, IE!Act, IE!loopVars
<1> DEFINE c == child[t]
<1>3. /\ act'[t] = "push" /\ \A u \in IE!Thread : u # t => act'[u] = act[u]
      /\ act' \in [IE!Thread -> {"run", "inc", "push", "dec", "notify"}]
  BY <1>1, <1>2 DEF IE!TypeOK
<1>4. running[t] # None /\ c \in InlineCoro /\ st[c] = "spawning" /\ c # root
  BY <1>1, <1>2 DEF IE!SpawningOK, IE!RootOK
<1> HIDE DEF c
<1>5. IE!TypeOK'
  <2>1. inlineCount' \in Int /\ reg' \in [IE!Thread -> Int]
    BY <1>1, <1>2 DEF IE!TypeOK
  <2>2. raced' \in BOOLEAN
    BY <1>2
  <2> QED BY <1>1, <1>2, <1>3, <2>1, <2>2 DEF IE!TypeOK
<1>6. IE!ThreadsOK'
  BY <1>1, <1>2, <1>3 DEF IE!ThreadsOK
<1>7. IE!SpawningOK'
  <2>1. \A u \in IE!Thread, d \in InlineCoro : IE!Spawns(u, d)' <=> IE!Spawns(u, d)
    BY <1>2, <1>3 DEF IE!Spawns
  <2>2. \A u \in IE!Thread : act'[u] \in {"inc", "push"} <=> act[u] \in {"inc", "push"}
    BY <1>2, <1>3
  <2> QED BY <1>1, <1>2, <2>1, <2>2 DEF IE!SpawningOK
<1>8. IE!QueueOK' /\ IE!RootOK'
  BY <1>1, <1>2 DEF IE!QueueOK, IE!RootOK
<1>9. IE!CountOK'
  <2>1. IE!Counted' = IE!Counted \cup {c}
    <3>1. \A d \in InlineCoro : IE!Alive(d)' <=> IE!Alive(d)
      BY <1>2 DEF IE!Alive
    <3>2. \A d \in InlineCoro : IE!Pushing(d)' <=> IE!Pushing(d) \/ d = c
      BY <1>2, <1>3 DEF IE!Pushing, c
    <3> QED BY <1>4, <3>1, <3>2 DEF IE!Counted
  <2>2. c \notin IE!Counted
    <3>1. \A u \in IE!Thread : act[u] = "push" => child[u] # c
      BY <1>1, <1>2, <1>4 DEF IE!SpawningOK, IE!Spawns, c
    <3> QED BY <1>4, <3>1 DEF IE!Counted, IE!Alive, IE!Pushing
  <2>3. IE!Ending' = IE!Ending
    BY <1>2, <1>3 DEF IE!Ending
  <2>4. Cardinality(IE!Counted') = Cardinality(IE!Counted) + 1
    BY <2>1, <2>2, CountedFinite, FS_AddElement
  <2>5. ~raced' => ~raced /\ inlineCount' = inlineCount + 1
    BY <1>2
  <2>6. Cardinality(IE!Ending') = Cardinality(IE!Ending)
    BY <2>3
  <2> QED BY <1>1, <2>4, <2>5, <2>6, CountAsSets, CountedFinite
<1>10. IE!LoopOK'
  <2>1. raced => raced'
    BY <1>2
  <2>2. t = mainThread => loop \notin {"pop", "count", "value", "empty", "timers", "polling", "returned"}
    BY <1>1, <1>2 DEF IE!LoopOK
  <2> QED BY <1>1, <1>2, <1>3, <2>1, <2>2 DEF IE!LoopOK
<1> QED BY <1>2, <1>5, <1>6, <1>7, <1>8, <1>9, <1>10 DEF IE!IInv, IE!InlineBlockWaits

\* Overlapping accesses may break the queue, and nothing else.
LEMMA InlineAccess ==
  ASSUME IE!TypeOK, NEW t, IE!EndAccess(t)
  PROVE  torn' \in BOOLEAN
<1> DEFINE overlap == \E u \in IE!Thread \ {t} : IE!UsesQueue(u)
<1>1. torn' = torn \/ torn' = (torn \/ overlap)
  BY DEF IE!EndAccess
<1>2. torn \in BOOLEAN
  BY DEF IE!TypeOK
<1> HIDE DEF overlap
<1> QED BY <1>1, <1>2

\* The handle is pushed, by whichever thread, and is in nobody's hands any more.
LEMMA InlinePushStep ==
  ASSUME IE!IInv, loop # "returned", NEW t \in IE!Thread, IE!pushHandle(t)
  PROVE  IE!IInv'
<1> USE InlineShape
<1>1. /\ IE!TypeOK /\ IE!ThreadsOK /\ IE!SpawningOK /\ IE!QueueOK /\ IE!RootOK /\ IE!CountOK
      /\ IE!LoopOK
  BY DEF IE!IInv
<1> DEFINE c == child[t]
<1>2. /\ act[t] = "push" /\ mQueue' = Append(mQueue, c)
      /\ st' = [st EXCEPT ![c] = "queued"] /\ child' = [child EXCEPT ![t] = None]
      /\ foreign' = (IF t = mainThread THEN foreign ELSE foreign \cup {c})
      /\ torn' \in BOOLEAN /\ act' = [act EXCEPT ![t] = "run"]
      /\ UNCHANGED <<inlineCount, hasValue, notified, loop, handles, running, reg, left, raced>>
  BY <1>1, InlineAccess DEF IE!pushHandle, IE!Act, IE!loopVars
<1>3. running[t] # None /\ c \in InlineCoro /\ st[c] = "spawning" /\ c # root
  BY <1>1, <1>2 DEF IE!SpawningOK, IE!RootOK
<1> HIDE DEF c
<1>4. /\ act'[t] = "run" /\ \A u \in IE!Thread : u # t => act'[u] = act[u] /\ child'[u] = child[u]
      /\ child'[t] = None /\ act' \in [IE!Thread -> {"run", "inc", "push", "dec", "notify"}]
      /\ child' \in [IE!Thread -> InlineCoro \cup {None}]
      /\ st'[c] = "queued" /\ \A d \in InlineCoro : d # c => st'[d] = st[d]
      /\ st' \in [InlineCoro -> {"new", "spawning", "queued", "running", "asleep", "due", "ready",
                                 "blocked", "ended"}]
  BY <1>1, <1>2, <1>3 DEF IE!TypeOK
<1> DEFINE n == Len(mQueue) + 1
<1>5. /\ Len(mQueue) \in Nat /\ DOMAIN mQueue = 1 .. Len(mQueue) /\ DOMAIN mQueue' = 1 .. n
      /\ mQueue'[n] = c /\ \A i \in DOMAIN mQueue : mQueue'[i] = mQueue[i]
      /\ mQueue' \in Seq(InlineCoro) /\ mQueue' # <<>>
  <2>1. mQueue \in Seq(InlineCoro) /\ c \in InlineCoro /\ mQueue' = Append(mQueue, c)
    BY <1>1, <1>2, <1>3 DEF IE!TypeOK
  <2> QED BY <2>1
<1>6. /\ DOMAIN mQueue' = DOMAIN mQueue \cup {n} /\ n \notin DOMAIN mQueue
      /\ mQueue'[n] = c /\ \A i \in DOMAIN mQueue : mQueue'[i] = mQueue[i] /\ mQueue[i] \in InlineCoro
  BY <1>1, <1>5 DEF IE!TypeOK
<1> HIDE DEF n
<1>7. IE!TypeOK'
  <2>1. torn' \in BOOLEAN /\ foreign' \subseteq InlineCoro
    BY <1>1, <1>2, <1>3 DEF IE!TypeOK
  <2> QED BY <1>1, <1>2, <1>4, <1>5, <2>1 DEF IE!TypeOK
<1>8. IE!ThreadsOK'
  <2>1. \A u \in IE!Thread : running[u] # None => running[u] \in InlineCoro /\ running[u] # c
    BY <1>1, <1>3 DEF IE!TypeOK, IE!ThreadsOK
  <2> QED BY <1>1, <1>2, <1>4, <2>1 DEF IE!ThreadsOK
<1>9. IE!SpawningOK'
  <2>1. \A u \in IE!Thread : u # t /\ act[u] \in {"inc", "push"} => child[u] # c
    BY <1>1, <1>2, <1>3 DEF IE!SpawningOK, IE!Spawns, c
  <2>2. \A u \in IE!Thread, d \in InlineCoro : IE!Spawns(u, d)' <=> IE!Spawns(u, d) /\ u # t
    BY <1>4 DEF IE!Spawns
  <2>3. \A d \in InlineCoro : IE!Spawns(t, d) => d = c
    BY DEF IE!Spawns, c
  <2>4. \A u \in IE!Thread : act'[u] \in {"inc", "push"} =>
          running'[u] # None /\ child'[u] \in InlineCoro /\ st'[child'[u]] = "spawning"
    BY <1>1, <1>2, <1>4, <2>1 DEF IE!SpawningOK
  <2>5. \A d \in InlineCoro : st'[d] = "spawning" => \E u \in IE!Thread : IE!Spawns(u, d)'
    BY <1>1, <1>4, <2>2, <2>3 DEF IE!SpawningOK
  <2>6. \A u, v \in IE!Thread : \A d \in InlineCoro : IE!Spawns(u, d)' /\ IE!Spawns(v, d)' => u = v
    BY <1>1, <2>2 DEF IE!SpawningOK
  <2> QED BY <2>4, <2>5, <2>6 DEF IE!SpawningOK
<1>10. IE!QueueOK'
  <2>1. \A i \in DOMAIN mQueue : mQueue[i] # c
    BY <1>1, <1>3 DEF IE!QueueOK
  <2>2. \A d \in InlineCoro : st'[d] = "queued" => \E i \in DOMAIN mQueue' : mQueue'[i] = d
    BY <1>1, <1>4, <1>6 DEF IE!QueueOK
  <2>3. \A i \in DOMAIN mQueue' : st'[mQueue'[i]] = "queued"
    BY <1>1, <1>4, <1>6, <2>1 DEF IE!QueueOK
  <2>4. \A i, k \in DOMAIN mQueue' : mQueue'[i] = mQueue'[k] => i = k
    BY <1>1, <1>6, <2>1 DEF IE!QueueOK
  <2>5. \A d \in handles' : st'[d] = "ready"
    BY <1>1, <1>2, <1>3, <1>4 DEF IE!QueueOK, IE!TypeOK
  <2> QED BY <1>5, <2>2, <2>3, <2>4, <2>5 DEF IE!QueueOK
<1>11. IE!RootOK'
  BY <1>1, <1>2, <1>3, <1>4 DEF IE!RootOK
<1>12. IE!CountOK'
  <2>1. \A u \in IE!Thread : u # t /\ act[u] = "push" => child[u] # c
    BY <1>1, <1>2, <1>3 DEF IE!SpawningOK, IE!Spawns, c
  <2>2. \A d \in InlineCoro : IE!Alive(d)' <=> IE!Alive(d) \/ d = c
    BY <1>3, <1>4 DEF IE!Alive
  <2>3. \A d \in InlineCoro : IE!Pushing(d) <=> IE!Pushing(d)' \/ d = c
    BY <1>2, <1>4 DEF IE!Pushing, c
  <2>4. IE!Counted' = IE!Counted
    BY <2>2, <2>3 DEF IE!Counted
  <2>5. IE!Ending' = IE!Ending
    BY <1>2, <1>4 DEF IE!Ending
  <2> QED BY <1>1, <1>2, <2>4, <2>5, CountStays
<1>13. IE!LoopOK'
  <2>1. t = mainThread => loop \notin {"pop", "count", "value", "empty", "timers", "polling", "returned"}
    BY <1>1, <1>2 DEF IE!LoopOK
  <2>2. loop \in {"pop", "count", "value", "empty", "timers", "polling", "returned"} =>
          running'[mainThread] = None /\ act'[mainThread] = "run"
    BY <1>1, <1>2, <1>4, <2>1 DEF IE!LoopOK
  <2>3. loop \in {"count", "value", "empty", "timers", "polling", "returned"} =>
          \A i \in DOMAIN mQueue' : mQueue'[i] \in foreign'
    BY <1>1, <1>2, <1>6, <2>1 DEF IE!LoopOK
  <2>4. loop \in {"value", "empty"} /\ ~raced =>
          \A d \in InlineCoro \ {root} : st'[d] \in {"new", "ended", "queued", "spawning"}
    BY <1>1, <1>4 DEF IE!LoopOK
  <2> QED BY <1>1, <1>2, <2>2, <2>3, <2>4 DEF IE!LoopOK
<1> QED BY <1>2, <1>7, <1>8, <1>9, <1>10, <1>11, <1>12, <1>13 DEF IE!IInv, IE!InlineBlockWaits

\* A coroutine leaves its thread: it suspends, or it ends and its callback begins.
LEMMA InlineLeaveStep ==
  ASSUME IE!IInv, loop # "returned", NEW t \in IE!Thread,
         running[t] # None, act[t] = "run",
         NEW s \in {"asleep", "blocked", "ended"}, NEW a \in {"run", "dec", "notify"},
         st' = [st EXCEPT ![running[t]] = s], running' = [running EXCEPT ![t] = None],
         act' = [act EXCEPT ![t] = a], a = "dec" <=> s = "ended" /\ running[t] # root,
         hasValue' = IF s = "ended" /\ running[t] = root THEN TRUE ELSE hasValue,
         reg' \in [IE!Thread -> Int], left' \in [InlineCoro -> Nat],
         UNCHANGED <<mQueue, inlineCount, notified, loop, handles, child, foreign, raced, torn>>
  PROVE  IE!IInv'
<1> USE InlineShape
<1>1. /\ IE!TypeOK /\ IE!ThreadsOK /\ IE!SpawningOK /\ IE!QueueOK /\ IE!RootOK /\ IE!CountOK
      /\ IE!LoopOK
  BY DEF IE!IInv
<1>2. PICK c \in InlineCoro : c = running[t] /\ st[c] = "running"
  BY <1>1 DEF IE!TypeOK, IE!ThreadsOK
<1>3. /\ st'[c] = s /\ \A d \in InlineCoro : d # c => st'[d] = st[d]
      /\ running'[t] = None /\ \A u \in IE!Thread : u # t => running'[u] = running[u]
      /\ act'[t] = a /\ \A u \in IE!Thread : u # t => act'[u] = act[u]
  BY <1>1, <1>2 DEF IE!TypeOK
<1>4. IE!TypeOK'
  <2>1. /\ st' \in [InlineCoro -> {"new", "spawning", "queued", "running", "asleep", "due", "ready",
                                   "blocked", "ended"}]
        /\ act' \in [IE!Thread -> {"run", "inc", "push", "dec", "notify"}]
        /\ running' \in [IE!Thread -> InlineCoro \cup {None}]
    BY <1>1 DEF IE!TypeOK
  <2>2. hasValue' \in BOOLEAN
    BY <1>1 DEF IE!TypeOK
  <2> QED BY <1>1, <2>1, <2>2 DEF IE!TypeOK
<1>5. IE!ThreadsOK'
  <2>1. \A u \in IE!Thread : u # t => running[u] # c
    BY <1>1, <1>2 DEF IE!ThreadsOK
  <2>2. \A u \in IE!Thread : running[u] \in InlineCoro \cup {None}
    BY <1>1 DEF IE!TypeOK
  <2> QED BY <1>1, <1>3, <2>1, <2>2 DEF IE!ThreadsOK
<1>6. IE!SpawningOK'
  <2>1. \A u \in IE!Thread : act[u] \in {"inc", "push"} => u # t /\ child[u] # c
    BY <1>1, <1>2 DEF IE!SpawningOK
  <2>2. \A u \in IE!Thread : act'[u] \in {"inc", "push"} <=> act[u] \in {"inc", "push"}
    BY <1>3
  <2>3. \A u \in IE!Thread, d \in InlineCoro : IE!Spawns(u, d)' <=> IE!Spawns(u, d)
    BY <2>2 DEF IE!Spawns
  <2>4. \A u \in IE!Thread : act'[u] \in {"inc", "push"} =>
          running'[u] # None /\ child'[u] \in InlineCoro /\ st'[child'[u]] = "spawning"
    BY <1>1, <1>3, <2>1, <2>2 DEF IE!SpawningOK
  <2>5. \A d \in InlineCoro : st'[d] = "spawning" => st[d] = "spawning"
    BY <1>3
  <2>6. \A u, v \in IE!Thread : \A d \in InlineCoro : IE!Spawns(u, d)' /\ IE!Spawns(v, d)' => u = v
    <3>1. \A u, v \in IE!Thread : \A d \in InlineCoro : IE!Spawns(u, d) /\ IE!Spawns(v, d) => u = v
      BY <1>1 DEF IE!SpawningOK
    <3> QED BY <2>3, <3>1
  <2>7. \A d \in InlineCoro : st'[d] = "spawning" => \E u \in IE!Thread : IE!Spawns(u, d)'
    BY <1>1, <2>3, <2>5 DEF IE!SpawningOK
  <2> QED BY <2>4, <2>6, <2>7 DEF IE!SpawningOK
<1>7. IE!QueueOK'
  <2>1. \A i \in DOMAIN mQueue : mQueue[i] \in InlineCoro /\ mQueue[i] # c
    BY <1>1, <1>2 DEF IE!QueueOK, IE!TypeOK
  <2>2. \A d \in handles : d \in InlineCoro /\ d # c
    BY <1>1, <1>2 DEF IE!QueueOK, IE!TypeOK
  <2> QED BY <1>1, <1>3, <2>1, <2>2 DEF IE!QueueOK
<1>8. IE!RootOK'
  <2>1. st[root] = "ended" => st'[root] = "ended"
    BY <1>2, <1>3
  <2>2. s = "ended" /\ c = root => st'[root] = "ended"
    BY <1>3
  <2> QED BY <1>1, <1>2, <1>3, <2>1, <2>2 DEF IE!RootOK
<1>9. IE!CountOK'
  <2>1. \A d \in InlineCoro : IE!Pushing(d)' <=> IE!Pushing(d)
    BY <1>3 DEF IE!Pushing
  <2>2. \A d \in InlineCoro : d # c => (IE!Alive(d)' <=> IE!Alive(d))
    BY <1>3 DEF IE!Alive
  <2>3. /\ IE!Alive(c)
        /\ s # "ended" => IE!Alive(c)'
        /\ s = "ended" => ~IE!Alive(c)'
    BY <1>2, <1>3 DEF IE!Alive
  <2>4. CASE a # "dec"
    <3>1. IE!Counted' = IE!Counted
      BY <1>2, <2>1, <2>2, <2>3, <2>4 DEF IE!Counted
    <3>2. IE!Ending' = IE!Ending
      BY <1>3, <2>4 DEF IE!Ending
    <3> QED BY <1>1, <3>1, <3>2, CountStays
  <2>5. CASE a = "dec"
    <3>1. c # root /\ s = "ended"
      BY <1>2, <2>5
    <3>2. \A u \in IE!Thread : act[u] = "push" => child[u] # c
      BY <1>1, <1>2 DEF IE!SpawningOK
    <3>3. c \in IE!Counted /\ IE!Counted' = IE!Counted \ {c}
      BY <1>2, <2>1, <2>2, <2>3, <3>1, <3>2 DEF IE!Counted, IE!Pushing
    <3>4. t \notin IE!Ending /\ IE!Ending' = IE!Ending \cup {t}
      BY <1>3, <2>5 DEF IE!Ending
    <3>5. /\ Cardinality(IE!Counted') = Cardinality(IE!Counted) - 1
          /\ Cardinality(IE!Ending') = Cardinality(IE!Ending) + 1
      BY <3>3, <3>4, CountedFinite, FS_AddElement, FS_RemoveElement
    <3> QED BY <1>1, <3>5, CountAsSets, CountedFinite
  <2> QED BY <2>4, <2>5
<1>10. IE!LoopOK'
  <2>1. t = mainThread => loop \notin {"pop", "count", "value", "empty", "timers", "polling", "returned"}
    BY <1>1 DEF IE!LoopOK
  <2>2. loop \in {"pop", "count", "value", "empty", "timers", "polling", "returned"} =>
          running'[mainThread] = None /\ act'[mainThread] = "run"
    BY <1>1, <1>3, <2>1 DEF IE!LoopOK
  <2>3. loop \in {"value", "empty"} /\ ~raced =>
          \A d \in InlineCoro \ {root} : st'[d] \in {"new", "ended", "queued", "spawning"}
    BY <1>1, <1>2, <1>3 DEF IE!LoopOK
  <2> QED BY <1>1, <2>2, <2>3 DEF IE!LoopOK
<1> QED BY <1>4, <1>5, <1>6, <1>7, <1>8, <1>9, <1>10 DEF IE!IInv, IE!InlineBlockWaits

\* sleep, blockSpawn and end.
LEMMA InlineSuspendStep ==
  ASSUME IE!IInv, loop # "returned", NEW t \in IE!Thread,
         IE!sleep(t) \/ IE!blockSpawn(t) \/ IE!end(t)
  PROVE  IE!IInv'
<1> USE InlineShape
<1>1. IE!TypeOK
  BY DEF IE!IInv
<1>2. act \in [IE!Thread -> {"run", "inc", "push", "dec", "notify"}]
  BY <1>1 DEF IE!TypeOK
<1>3. CASE IE!sleep(t) \/ IE!blockSpawn(t)
  <2>1. /\ running[t] # None /\ act[t] = "run" /\ left[running[t]] > 0
        /\ left' = [left EXCEPT ![running[t]] = @ - 1] /\ running' = [running EXCEPT ![t] = None]
        /\ UNCHANGED <<mQueue, inlineCount, hasValue, notified, loop, handles, reg, child, foreign, raced, torn>>
    BY <1>3 DEF IE!sleep, IE!blockSpawn, IE!Call, IE!sharedVars, IE!loopVars, IE!ghostVars
  <2>2. left' \in [InlineCoro -> Nat] /\ reg' \in [IE!Thread -> Int]
    BY <1>1, <2>1 DEF IE!TypeOK
  <2>3. hasValue \in BOOLEAN
    BY <1>1 DEF IE!TypeOK
  <2>4. CASE IE!sleep(t)
    <3>1. st' = [st EXCEPT ![running[t]] = "asleep"] /\ act' = [act EXCEPT ![t] = "notify"]
      BY <2>4 DEF IE!sleep, IE!Act
    <3>2. hasValue' = IF "asleep" = "ended" /\ running[t] = root THEN TRUE ELSE hasValue
      BY <2>1, <2>3
    <3> QED BY <2>1, <2>2, <3>1, <3>2, InlineLeaveStep
  <2>5. CASE IE!blockSpawn(t)
    <3>1. st' = [st EXCEPT ![running[t]] = "blocked"] /\ act' = act
      BY <2>5 DEF IE!blockSpawn
    <3>2. act' = [act EXCEPT ![t] = "run"]
      BY <1>2, <2>1, <3>1
    <3>3. hasValue' = IF "blocked" = "ended" /\ running[t] = root THEN TRUE ELSE hasValue
      BY <2>1, <2>3
    <3> QED BY <2>1, <2>2, <3>1, <3>2, <3>3, InlineLeaveStep
  <2> QED BY <1>3, <2>4, <2>5
<1>4. CASE IE!end(t)
  <2>1. /\ running[t] # None /\ act[t] = "run"
        /\ st' = [st EXCEPT ![running[t]] = "ended"] /\ running' = [running EXCEPT ![t] = None]
        /\ UNCHANGED <<mQueue, inlineCount, notified, loop, handles, child, left, foreign, raced, torn>>
    BY <1>4 DEF IE!end, IE!loopVars, IE!ghostVars
  <2>2. left' \in [InlineCoro -> Nat] /\ hasValue \in BOOLEAN
    BY <1>1, <2>1 DEF IE!TypeOK
  <2>3. CASE running[t] = root
    <3>1. hasValue' = TRUE /\ act' = [act EXCEPT ![t] = "notify"] /\ reg' = reg
      BY <1>4, <2>3 DEF IE!end, IE!Act
    <3>2. hasValue' = (IF "ended" = "ended" /\ running[t] = root THEN TRUE ELSE hasValue) /\ reg' \in [IE!Thread -> Int]
      BY <1>1, <2>3, <3>1 DEF IE!TypeOK
    <3> QED BY <2>1, <2>2, <2>3, <3>1, <3>2, InlineLeaveStep
  <2>4. CASE running[t] # root
    <3>1. hasValue' = hasValue /\ act' = [act EXCEPT ![t] = "dec"] /\ reg' = [reg EXCEPT ![t] = inlineCount]
      BY <1>4, <2>4 DEF IE!end, IE!Act
    <3>2. hasValue' = (IF "ended" = "ended" /\ running[t] = root THEN TRUE ELSE hasValue) /\ reg' \in [IE!Thread -> Int]
      BY <1>1, <2>2, <2>4, <3>1 DEF IE!TypeOK
    <3> QED BY <2>1, <2>2, <2>4, <3>1, <3>2, InlineLeaveStep
  <2> QED BY <2>3, <2>4
<1> QED BY <1>3, <1>4

\* The callback takes its coroutine off the count, and then notifies.
LEMMA InlineCallbackStep ==
  ASSUME IE!IInv, loop # "returned", NEW t \in IE!Thread, IE!decStore(t) \/ IE!notify(t)
  PROVE  IE!IInv'
<1> USE InlineShape
<1>1. /\ IE!TypeOK /\ IE!ThreadsOK /\ IE!SpawningOK /\ IE!QueueOK /\ IE!RootOK /\ IE!CountOK
      /\ IE!LoopOK
  BY DEF IE!IInv
<1>2. /\ act[t] \in {"dec", "notify"} /\ act'[t] \in {"run", "notify"}
      /\ \A u \in IE!Thread : u # t => act'[u] = act[u]
      /\ act' \in [IE!Thread -> {"run", "inc", "push", "dec", "notify"}]
      /\ notified' \in BOOLEAN /\ inlineCount' \in Int /\ raced' \in BOOLEAN /\ (raced => raced')
      /\ UNCHANGED <<mQueue, hasValue, loop, handles, st, running, reg, child, left, foreign, torn>>
  <2>1. /\ act \in [IE!Thread -> {"run", "inc", "push", "dec", "notify"}] /\ reg[t] \in Int
        /\ notified \in BOOLEAN /\ inlineCount \in Int /\ raced \in BOOLEAN
    BY <1>1 DEF IE!TypeOK
  <2>2. CASE IE!decStore(t)
    <3>1. /\ act[t] = "dec" /\ act' = [act EXCEPT ![t] = "notify"] /\ notified' = notified
          /\ inlineCount' = reg[t] - 1 /\ raced' = (raced \/ inlineCount # reg[t])
          /\ UNCHANGED <<mQueue, hasValue, loop, handles, st, running, reg, child, left, foreign, torn>>
      BY <2>2 DEF IE!decStore, IE!Act, IE!afterDec, IE!loopVars
    <3>2. raced' \in BOOLEAN /\ (raced => raced')
      BY <3>1
    <3> QED BY <2>1, <3>1, <3>2
  <2>3. CASE IE!notify(t)
    <3>1. /\ act[t] = "notify" /\ act' = [act EXCEPT ![t] = "run"] /\ notified' = TRUE
          /\ inlineCount' = inlineCount /\ raced' = raced
          /\ UNCHANGED <<mQueue, hasValue, loop, handles, st, running, reg, child, left, foreign, torn>>
      BY <2>3 DEF IE!notify, IE!Act, IE!loopVars, IE!ghostVars
    <3> QED BY <2>1, <3>1
  <2> QED BY <2>2, <2>3
<1>3. IE!TypeOK'
  BY <1>1, <1>2 DEF IE!TypeOK
<1>4. running[t] = None
  BY <1>1, <1>2 DEF IE!ThreadsOK
<1>5. IE!ThreadsOK'
  BY <1>1, <1>2, <1>4 DEF IE!ThreadsOK
<1>6. IE!SpawningOK'
  <2>1. \A u \in IE!Thread : act'[u] \in {"inc", "push"} <=> act[u] \in {"inc", "push"}
    BY <1>2
  <2>2. \A u \in IE!Thread, d \in InlineCoro : IE!Spawns(u, d)' <=> IE!Spawns(u, d)
    BY <1>2, <2>1 DEF IE!Spawns
  <2> QED BY <1>1, <1>2, <2>1, <2>2 DEF IE!SpawningOK
<1>7. IE!QueueOK' /\ IE!RootOK'
  BY <1>1, <1>2 DEF IE!QueueOK, IE!RootOK
<1>8. IE!CountOK'
  <2>1. \A d \in InlineCoro : (IE!Alive(d)' <=> IE!Alive(d)) /\ (IE!Pushing(d)' <=> IE!Pushing(d))
    BY <1>2 DEF IE!Alive, IE!Pushing
  <2>2. IE!Counted' = IE!Counted
    BY <2>1 DEF IE!Counted
  <2>3. CASE IE!notify(t)
    <3>1. inlineCount' = inlineCount /\ raced' = raced /\ act[t] = "notify"
      BY <2>3 DEF IE!notify, IE!ghostVars
    <3>2. IE!Ending' = IE!Ending
      BY <1>2, <2>3, <3>1 DEF IE!Ending, IE!notify, IE!Act
    <3> QED BY <1>1, <2>2, <3>1, <3>2, CountStays
  <2>4. CASE IE!decStore(t)
    <3>1. inlineCount' = reg[t] - 1 /\ raced' = (raced \/ inlineCount # reg[t]) /\ act[t] = "dec"
      BY <2>4 DEF IE!decStore
    <3>2. ~raced' => ~raced /\ inlineCount' = inlineCount - 1
      BY <3>1
    <3>3. t \in IE!Ending /\ IE!Ending' = IE!Ending \ {t}
      BY <1>2, <3>1 DEF IE!Ending
    <3>4. Cardinality(IE!Ending') = Cardinality(IE!Ending) - 1
      BY <3>3, CountedFinite, FS_RemoveElement
    <3>5. Cardinality(IE!Counted') = Cardinality(IE!Counted)
      BY <2>2
    <3> QED BY <1>1, <3>2, <3>4, <3>5, CountAsSets, CountedFinite
  <2> QED BY <2>3, <2>4
<1>9. IE!LoopOK'
  <2>1. t = mainThread => loop \notin {"pop", "count", "value", "empty", "timers", "polling", "returned"}
    BY <1>1, <1>2 DEF IE!LoopOK
  <2> QED BY <1>1, <1>2, <2>1 DEF IE!LoopOK
<1> QED BY <1>2, <1>3, <1>5, <1>6, <1>7, <1>8, <1>9 DEF IE!IInv, IE!InlineBlockWaits

\* A thread that runs nothing resumes a coroutine that is queued, ready or blocked.
LEMMA InlineTakeUp ==
  ASSUME IE!IInv, loop # "returned", NEW t \in IE!Thread, NEW c \in InlineCoro,
         running[t] = None, act[t] = "run", st[c] \in {"queued", "ready", "blocked"},
         st' = [st EXCEPT ![c] = "running"], running' = [running EXCEPT ![t] = c],
         UNCHANGED <<act, child>>
  PROVE  /\ IE!ThreadsOK' /\ IE!SpawningOK'
         /\ IE!Counted' = IE!Counted /\ IE!Ending' = IE!Ending
         /\ st'[c] = "running" /\ \A d \in InlineCoro : d # c => st'[d] = st[d]
         /\ running'[t] = c /\ \A u \in IE!Thread : u # t => running'[u] = running[u]
         /\ st' \in [InlineCoro -> {"new", "spawning", "queued", "running", "asleep", "due", "ready",
                                    "blocked", "ended"}]
         /\ running' \in [IE!Thread -> InlineCoro \cup {None}]
<1> USE InlineShape
<1>1. IE!TypeOK /\ IE!ThreadsOK /\ IE!SpawningOK
  BY DEF IE!IInv
<1>2. /\ st'[c] = "running" /\ \A d \in InlineCoro : d # c => st'[d] = st[d]
      /\ running'[t] = c /\ \A u \in IE!Thread : u # t => running'[u] = running[u]
      /\ st' \in [InlineCoro -> {"new", "spawning", "queued", "running", "asleep", "due", "ready",
                                 "blocked", "ended"}]
      /\ running' \in [IE!Thread -> InlineCoro \cup {None}]
  BY <1>1 DEF IE!TypeOK
<1>3. \A u \in IE!Thread : running[u] # None => running[u] \in InlineCoro /\ running[u] # c
  BY <1>1 DEF IE!TypeOK, IE!ThreadsOK
<1>4. IE!ThreadsOK'
  BY <1>1, <1>2, <1>3 DEF IE!ThreadsOK
<1>5. IE!SpawningOK'
  <2>1. \A u \in IE!Thread, d \in InlineCoro : IE!Spawns(u, d)' <=> IE!Spawns(u, d)
    BY DEF IE!Spawns
  <2>2. \A u \in IE!Thread : act[u] \in {"inc", "push"} =>
          u # t /\ running[u] # None /\ child[u] \in InlineCoro /\ child[u] # c /\ st[child[u]] = "spawning"
    BY <1>1 DEF IE!SpawningOK
  <2>3. \A u, v \in IE!Thread : \A d \in InlineCoro : IE!Spawns(u, d)' /\ IE!Spawns(v, d)' => u = v
    <3>1. \A u, v \in IE!Thread : \A d \in InlineCoro : IE!Spawns(u, d) /\ IE!Spawns(v, d) => u = v
      BY <1>1 DEF IE!SpawningOK
    <3> QED BY <2>1, <3>1
  <2>4. \A d \in InlineCoro : st'[d] = "spawning" => st[d] = "spawning"
    BY <1>2
  <2>5. \A d \in InlineCoro : st'[d] = "spawning" => \E u \in IE!Thread : IE!Spawns(u, d)'
    BY <1>1, <2>1, <2>4 DEF IE!SpawningOK
  <2>6. \A u \in IE!Thread : act'[u] \in {"inc", "push"} =>
          running'[u] # None /\ child'[u] \in InlineCoro /\ st'[child'[u]] = "spawning"
    BY <1>2, <2>2
  <2> QED BY <2>3, <2>5, <2>6 DEF IE!SpawningOK
<1>6. IE!Counted' = IE!Counted
  <2>1. \A d \in InlineCoro : IE!Alive(d)' <=> IE!Alive(d)
    BY <1>2 DEF IE!Alive
  <2>2. \A d \in InlineCoro : IE!Pushing(d)' <=> IE!Pushing(d)
    BY DEF IE!Pushing
  <2> QED BY <2>1, <2>2 DEF IE!Counted
<1>7. IE!Ending' = IE!Ending
  BY DEF IE!Ending
<1> QED BY <1>2, <1>4, <1>5, <1>6, <1>7

\* The function given to blockSpawn() returns, and its thread goes on with the coroutine.
LEMMA InlineContinueStep ==
  ASSUME IE!IInv, loop # "returned", NEW t \in IE!Thread, NEW c \in InlineCoro, IE!continueOn(t, c)
  PROVE  IE!IInv'
<1> USE InlineShape
<1>1. /\ IE!TypeOK /\ IE!ThreadsOK /\ IE!SpawningOK /\ IE!QueueOK /\ IE!RootOK /\ IE!CountOK
      /\ IE!LoopOK
  BY DEF IE!IInv
<1>2. /\ t \in Pool /\ running[t] = None /\ act[t] = "run" /\ st[c] = "blocked"
      /\ st' = [st EXCEPT ![c] = "running"] /\ running' = [running EXCEPT ![t] = c]
      /\ UNCHANGED <<mQueue, inlineCount, hasValue, notified, loop, handles, act, reg, child, left, foreign,
                     raced, torn>>
  BY DEF IE!continueOn, IE!sharedVars, IE!loopVars, IE!ghostVars
<1>3. /\ IE!ThreadsOK' /\ IE!SpawningOK'
      /\ IE!Counted' = IE!Counted /\ IE!Ending' = IE!Ending
      /\ st'[c] = "running" /\ \A d \in InlineCoro : d # c => st'[d] = st[d]
      /\ running'[t] = c /\ \A u \in IE!Thread : u # t => running'[u] = running[u]
      /\ st' \in [InlineCoro -> {"new", "spawning", "queued", "running", "asleep", "due", "ready",
                                 "blocked", "ended"}]
      /\ running' \in [IE!Thread -> InlineCoro \cup {None}]
  BY <1>2, InlineTakeUp
<1>4. IE!TypeOK'
  BY <1>1, <1>2, <1>3 DEF IE!TypeOK
<1>5. IE!QueueOK'
  <2>1. \A i \in DOMAIN mQueue : mQueue[i] \in InlineCoro /\ mQueue[i] # c
    BY <1>1, <1>2 DEF IE!QueueOK, IE!TypeOK
  <2>2. \A d \in handles : d \in InlineCoro /\ d # c
    BY <1>1, <1>2 DEF IE!QueueOK, IE!TypeOK
  <2> QED BY <1>1, <1>2, <1>3, <2>1, <2>2 DEF IE!QueueOK
<1>6. IE!RootOK'
  BY <1>1, <1>2, <1>3 DEF IE!RootOK
<1>7. IE!CountOK'
  BY <1>1, <1>2, <1>3, CountStays
<1>8. IE!LoopOK'
  <2>1. loop \in {"value", "empty"} /\ ~raced => c = root
    BY <1>1, <1>2 DEF IE!LoopOK
  <2>2. loop \in {"value", "empty"} /\ ~raced =>
          \A d \in InlineCoro \ {root} : st'[d] \in {"new", "ended", "queued", "spawning"}
    BY <1>1, <1>3, <2>1 DEF IE!LoopOK
  <2> QED BY <1>1, <1>2, <1>3, <2>2 DEF IE!LoopOK
<1> QED BY <1>2, <1>3, <1>4, <1>5, <1>6, <1>7, <1>8 DEF IE!IInv, IE!InlineBlockWaits

\* Timers come due, and react() collects those that are: they stay counted.
LEMMA InlineTimerStep ==
  ASSUME IE!IInv, loop # "returned", NEW C \in SUBSET InlineCoro,
         NEW from \in {"asleep", "due"}, NEW s \in {"due", "ready"},
         (from = "asleep" /\ s = "due") \/ (from = "due" /\ s = "ready"),
         \A c \in C : st[c] = from,
         st' = [c \in InlineCoro |-> IF c \in C THEN s ELSE st[c]],
         \/ s = "due" /\ loop' = loop /\ handles' = handles /\ notified' = notified
         \/ s = "ready" /\ handles' = C /\ notified' \in BOOLEAN
              /\ ((loop' = "polling" /\ loop = "timers") \/ loop' = "execute"),
         UNCHANGED <<mQueue, inlineCount, hasValue, running, act, reg, child, left, foreign, raced, torn>>
  PROVE  IE!IInv'
<1> USE InlineShape
<1>1. /\ IE!TypeOK /\ IE!ThreadsOK /\ IE!SpawningOK /\ IE!QueueOK /\ IE!RootOK /\ IE!CountOK
      /\ IE!LoopOK
  BY DEF IE!IInv
<1>2. /\ \A d \in C : st[d] \in {"asleep", "due"} /\ st'[d] = s
      /\ \A d \in InlineCoro : d \notin C => st'[d] = st[d]
      /\ s \in {"due", "ready"}
      /\ st' \in [InlineCoro -> {"new", "spawning", "queued", "running", "asleep", "due", "ready",
                                 "blocked", "ended"}]
  BY <1>1 DEF IE!TypeOK
<1>3. IE!TypeOK'
  <2>1. handles' \subseteq InlineCoro /\ notified' \in BOOLEAN
    BY <1>1 DEF IE!TypeOK
  <2>2. loop' \in {"drain", "pop", "count", "value", "empty", "timers", "polling", "execute",
                   "returned", "fault"}
    BY <1>1 DEF IE!TypeOK
  <2> QED BY <1>1, <1>2, <2>1, <2>2 DEF IE!TypeOK
<1>4. IE!ThreadsOK'
  <2>1. \A u \in IE!Thread : running[u] # None => running[u] \in InlineCoro /\ running[u] \notin C
    BY <1>1, <1>2 DEF IE!TypeOK, IE!ThreadsOK
  <2> QED BY <1>1, <1>2, <2>1 DEF IE!ThreadsOK
<1>5. IE!SpawningOK'
  <2>1. \A u \in IE!Thread, d \in InlineCoro : IE!Spawns(u, d)' <=> IE!Spawns(u, d)
    BY DEF IE!Spawns
  <2>2. \A d \in InlineCoro : st'[d] = "spawning" <=> st[d] = "spawning"
    BY <1>2
  <2>3. \A u, v \in IE!Thread : \A d \in InlineCoro : IE!Spawns(u, d)' /\ IE!Spawns(v, d)' => u = v
    <3>1. \A u, v \in IE!Thread : \A d \in InlineCoro : IE!Spawns(u, d) /\ IE!Spawns(v, d) => u = v
      BY <1>1 DEF IE!SpawningOK
    <3> QED BY <2>1, <3>1
  <2>4. \A d \in InlineCoro : st'[d] = "spawning" => \E u \in IE!Thread : IE!Spawns(u, d)'
    BY <1>1, <2>1, <2>2 DEF IE!SpawningOK
  <2>5. \A u \in IE!Thread : act'[u] \in {"inc", "push"} =>
          running'[u] # None /\ child'[u] \in InlineCoro /\ st'[child'[u]] = "spawning"
    BY <1>1, <2>2 DEF IE!SpawningOK
  <2> QED BY <2>3, <2>4, <2>5 DEF IE!SpawningOK
<1>6. IE!QueueOK'
  <2>1. \A d \in InlineCoro : st'[d] = "queued" <=> st[d] = "queued"
    BY <1>2
  <2>2. \A i \in DOMAIN mQueue : mQueue[i] \in InlineCoro
    BY <1>1 DEF IE!TypeOK
  <2>3. \A d \in handles' : st'[d] = "ready"
    BY <1>1, <1>2 DEF IE!QueueOK, IE!TypeOK
  <2>4. loop' = "pop" => loop = "pop"
    OBVIOUS
  <2> QED BY <1>1, <2>1, <2>2, <2>3, <2>4 DEF IE!QueueOK
<1>7. IE!RootOK'
  BY <1>1, <1>2 DEF IE!RootOK
<1>8. IE!CountOK'
  <2>1. \A d \in InlineCoro : (IE!Alive(d)' <=> IE!Alive(d)) /\ (IE!Pushing(d)' <=> IE!Pushing(d))
    BY <1>2 DEF IE!Alive, IE!Pushing
  <2>2. IE!Counted' = IE!Counted /\ IE!Ending' = IE!Ending
    BY <2>1 DEF IE!Counted, IE!Ending
  <2> QED BY <1>1, <2>2, CountStays
<1>9. IE!LoopOK'
  <2>1. loop' = loop \/ (loop' = "polling" /\ loop = "timers") \/ loop' = "execute"
    OBVIOUS
  <2>2. loop \in {"value", "empty"} /\ ~raced => C \subseteq {root}
    BY <1>1, <1>2 DEF IE!LoopOK
  <2>3. loop \in {"value", "empty"} /\ ~raced =>
          \A d \in InlineCoro \ {root} : st'[d] \in {"new", "ended", "queued", "spawning"}
    BY <1>1, <1>2, <2>2 DEF IE!LoopOK
  <2> QED BY <1>1, <2>1, <2>3 DEF IE!LoopOK
<1>10. loop' # "returned"
  OBVIOUS
<1> QED BY <1>3, <1>4, <1>5, <1>6, <1>7, <1>8, <1>9, <1>10 DEF IE!IInv, IE!InlineBlockWaits

\* expire, processTimers, and the return of the poller's wait.
LEMMA InlineTimersStep ==
  ASSUME IE!IInv, loop # "returned",
         (\E c \in InlineCoro : IE!expire(c)) \/ IE!processTimers \/ IE!pollerReturn
  PROVE  IE!IInv'
<1> USE InlineShape
<1>1. IE!TypeOK
  BY DEF IE!IInv
<1>2. ASSUME NEW c \in InlineCoro, IE!expire(c) PROVE IE!IInv'
  <2>1. /\ st[c] = "asleep" /\ st' = [d \in InlineCoro |-> IF d \in {c} THEN "due" ELSE st[d]]
        /\ loop' = loop /\ handles' = handles /\ notified' = notified
        /\ UNCHANGED <<mQueue, inlineCount, hasValue, running, act, reg, child, left, foreign, raced, torn>>
    BY <1>1, <1>2 DEF IE!expire, IE!sharedVars, IE!loopVars, IE!ghostVars, IE!TypeOK
  <2>2. {c} \in SUBSET InlineCoro /\ \A d \in {c} : st[d] = "asleep"
    BY <2>1
  <2> QED BY <2>1, <2>2, InlineTimerStep
<1>3. ASSUME NEW next, IE!CollectTimers(next), (loop = "timers" /\ next = "polling") \/ next = "execute",
             notified' \in BOOLEAN, UNCHANGED <<mQueue, inlineCount, hasValue, foreign, raced, torn>>
      PROVE  \/ loop' = "fault" /\ UNCHANGED <<handles, st, running, act, reg, child, left>>
             \/ IE!IInv'
  <2>1. CASE loop' = "fault" /\ UNCHANGED <<handles, IE!threadVars>>
    BY <2>1 DEF IE!threadVars
  <2>2. ASSUME NEW C \in SUBSET IE!Due, handles' = C, loop' = next,
               st' = [c \in InlineCoro |-> IF c \in C THEN "ready" ELSE st[c]],
               UNCHANGED <<running, act, reg, child, left>>
        PROVE  IE!IInv'
    <3>1. C \in SUBSET InlineCoro /\ \A c \in C : st[c] = "due"
      BY DEF IE!Due
    <3> QED BY <1>3, <2>2, <3>1, InlineTimerStep
  <2> QED BY <1>3, <2>1, <2>2 DEF IE!CollectTimers
<1>4. CASE IE!processTimers \/ IE!pollerReturn
  <2>1. /\ loop \in {"timers", "polling"} /\ notified' \in BOOLEAN
        /\ UNCHANGED <<mQueue, inlineCount, hasValue, foreign, raced, torn>>
        /\ \/ loop = "timers" /\ IE!CollectTimers("polling")
           \/ IE!CollectTimers("execute")
           \/ loop' = "execute" /\ UNCHANGED <<handles, st, running, act, reg, child, left>>
    BY <1>1, <1>4 DEF IE!processTimers, IE!pollerReturn, IE!InLoop, IE!sharedVars, IE!threadVars,
                      IE!ghostVars, IE!TypeOK
  <2>2. \/ IE!IInv'
        \/ /\ loop' \in {"execute", "fault"}
           /\ UNCHANGED <<handles, st, running, act, reg, child, left>>
    BY <1>3, <2>1
  <2>3. CASE /\ loop' \in {"execute", "fault"}
             /\ UNCHANGED <<handles, st, running, act, reg, child, left>>
    <3>1. IE!TypeOK'
      BY <1>1, <2>1, <2>3 DEF IE!TypeOK
    <3>2. IE!ThreadsOK' /\ IE!RootOK'
      BY <2>1, <2>3 DEF IE!IInv, IE!ThreadsOK, IE!RootOK
    <3>3. IE!SpawningOK'
      BY <2>1, <2>3 DEF IE!IInv, IE!SpawningOK, IE!Spawns
    <3>4. IE!QueueOK'
      BY <2>1, <2>3 DEF IE!IInv, IE!QueueOK
    <3>5. IE!CountOK'
      <4>1. IE!Counted' = IE!Counted /\ IE!Ending' = IE!Ending
        BY <2>3 DEF IE!Counted, IE!Alive, IE!Pushing, IE!Ending
      <4> QED BY <2>1, <4>1, CountStays DEF IE!IInv
    <3>6. IE!LoopOK' /\ IE!InlineBlockWaits'
      BY <2>1, <2>3 DEF IE!LoopOK, IE!InlineBlockWaits
    <3> QED BY <3>1, <3>2, <3>3, <3>4, <3>5, <3>6 DEF IE!IInv
  <2> QED BY <2>2, <2>3
<1> QED BY <1>2, <1>4

\* The loop looks at the queue, the count and the result, and changes none of them.
LEMMA InlineLookStep ==
  ASSUME IE!IInv, loop # "returned",
         IE!drain \/ IE!checkCount \/ IE!checkValue \/ IE!checkEmpty
  PROVE  IE!IInv'
<1> USE InlineShape
<1>1. /\ IE!TypeOK /\ IE!ThreadsOK /\ IE!SpawningOK /\ IE!QueueOK /\ IE!RootOK /\ IE!CountOK
      /\ IE!LoopOK
  BY DEF IE!IInv
<1>2. /\ running[mainThread] = None /\ act[mainThread] = "run"
      /\ UNCHANGED <<mQueue, inlineCount, hasValue, notified, handles, st, running, act, reg, child, left,
                     foreign, raced, torn>>
  BY DEF IE!drain, IE!checkCount, IE!checkValue, IE!checkEmpty, IE!InLoop, IE!sharedVars,
         IE!threadVars, IE!ghostVars
<1>3. \/ loop = "drain" /\ mQueue = <<>> /\ loop' = "count"
      \/ loop = "drain" /\ mQueue # <<>> /\ loop' = "pop"
      \/ loop = "count" /\ inlineCount = 0 /\ loop' = "value"
      \/ loop = "value" /\ hasValue /\ loop' = "empty"
      \/ loop = "empty" /\ mQueue = <<>> /\ loop' = "returned"
      \/ loop \in {"count", "value", "empty"} /\ loop' = "timers"
  BY DEF IE!drain, IE!checkCount, IE!checkValue, IE!checkEmpty, IE!InLoop, IE!mayBreak
<1>4. IE!TypeOK'
  BY <1>1, <1>2, <1>3 DEF IE!TypeOK
<1>5. IE!ThreadsOK' /\ IE!RootOK'
  BY <1>1, <1>2 DEF IE!ThreadsOK, IE!RootOK
<1>6. IE!SpawningOK'
  BY <1>1, <1>2 DEF IE!SpawningOK, IE!Spawns
<1>7. IE!QueueOK'
  BY <1>1, <1>2, <1>3 DEF IE!QueueOK
<1>8. IE!CountOK'
  <2>1. IE!Counted' = IE!Counted /\ IE!Ending' = IE!Ending
    BY <1>2 DEF IE!Counted, IE!Alive, IE!Pushing, IE!Ending
  <2> QED BY <1>1, <1>2, <2>1, CountStays
<1>9. loop = "count" /\ inlineCount = 0 /\ ~raced =>
        \A c \in InlineCoro \ {root} : st[c] \in {"new", "ended", "queued", "spawning"}
  <2>1. SUFFICES ASSUME inlineCount = 0, ~raced, NEW c \in InlineCoro \ {root}
                 PROVE  st[c] \in {"new", "ended", "spawning"}
    OBVIOUS
  <2>2. Cardinality(IE!Counted) \in Nat /\ Cardinality(IE!Ending) \in Nat
    BY CountedFinite, FS_CardinalityType
  <2>3. inlineCount = Cardinality(IE!Counted) + Cardinality(IE!Ending)
    BY <1>1, <2>1, CountAsSets
  <2>4. Cardinality(IE!Counted) = 0
    BY <2>1, <2>2, <2>3
  <2>5. IE!Counted = {}
    BY <2>4, CountedFinite, FS_EmptySet
  <2>6. ~IE!Alive(c)
    BY <2>5 DEF IE!Counted
  <2> QED BY <1>1, <2>6 DEF IE!Alive, IE!TypeOK
<1>10. IE!LoopOK'
  <2>1. CASE mQueue = <<>>
    <3>1. DOMAIN mQueue = {}
      BY <2>1
    <3> QED BY <1>1, <1>2, <1>3, <1>9, <2>1, <3>1 DEF IE!LoopOK
  <2>2. CASE mQueue # <<>>
    BY <1>1, <1>2, <1>3, <1>9, <2>2 DEF IE!LoopOK
  <2> QED BY <2>1, <2>2
<1>11. IE!InlineBlockWaits'
  <2>1. SUFFICES ASSUME loop = "empty", mQueue = <<>>, ~raced
                 PROVE  hasValue /\ \A c \in InlineCoro : st[c] \in {"new", "ended"}
    BY <1>2, <1>3 DEF IE!InlineBlockWaits
  <2>2. hasValue /\ st[root] = "ended"
    BY <1>1, <2>1 DEF IE!LoopOK, IE!RootOK
  <2>3. \A c \in InlineCoro \ {root} : st[c] \in {"new", "ended", "queued", "spawning"}
    BY <1>1, <2>1 DEF IE!LoopOK
  <2>4. \A c \in InlineCoro : st[c] # "queued"
    <3>1. DOMAIN mQueue = {}
      BY <2>1
    <3> QED BY <1>1, <3>1 DEF IE!QueueOK
  <2>5. \A t \in IE!Thread : running[t] = None
    <3>1. \A t \in IE!Thread : running[t] # None => running[t] \in InlineCoro /\ st[running[t]] = "running"
      BY <1>1 DEF IE!TypeOK, IE!ThreadsOK
    <3> QED BY <2>2, <2>3, <3>1
  <2>6. \A c \in InlineCoro : st[c] # "spawning"
    BY <1>1, <2>5 DEF IE!SpawningOK, IE!Spawns
  <2> QED BY <2>2, <2>3, <2>4, <2>6
<1> QED BY <1>4, <1>5, <1>6, <1>7, <1>8, <1>10, <1>11 DEF IE!IInv

\* The head of the queue goes from the queue to the main thread.
LEMMA InlinePopStep ==
  ASSUME IE!IInv, loop # "returned", IE!pop
  PROVE  IE!IInv'
<1> USE InlineShape
<1>1. /\ IE!TypeOK /\ IE!ThreadsOK /\ IE!SpawningOK /\ IE!QueueOK /\ IE!RootOK /\ IE!CountOK
      /\ IE!LoopOK
  BY DEF IE!IInv
<1>2. PICK c : c = Head(mQueue)
  OBVIOUS
<1>3. /\ running[mainThread] = None /\ act[mainThread] = "run" /\ loop = "pop" /\ loop' = "drain"
      /\ mQueue' = Tail(mQueue)
      /\ st' = [st EXCEPT ![c] = "running"] /\ running' = [running EXCEPT ![mainThread] = c]
      /\ UNCHANGED <<inlineCount, hasValue, notified, handles, act, reg, child, left, foreign, raced>>
      /\ torn' \in BOOLEAN
  BY <1>1, <1>2, InlineAccess DEF IE!pop, IE!InLoop, IE!Resume, IE!afterResume
<1>4. mQueue \in Seq(InlineCoro) /\ mQueue # <<>>
  BY <1>1, <1>3 DEF IE!TypeOK, IE!QueueOK
<1>5. /\ Len(mQueue) \in Nat \ {0} /\ DOMAIN mQueue = 1 .. Len(mQueue) /\ c = mQueue[1]
      /\ DOMAIN mQueue' = 1 .. Len(mQueue) - 1
      /\ \A i \in 1 .. Len(mQueue) - 1 : mQueue'[i] = mQueue[i + 1]
      /\ mQueue' \in Seq(InlineCoro)
  BY <1>2, <1>3, <1>4
<1>6. c \in InlineCoro /\ st[c] = "queued"
  BY <1>1, <1>4, <1>5 DEF IE!QueueOK
<1>7. /\ IE!ThreadsOK' /\ IE!SpawningOK'
      /\ IE!Counted' = IE!Counted /\ IE!Ending' = IE!Ending
      /\ st'[c] = "running" /\ \A d \in InlineCoro : d # c => st'[d] = st[d]
      /\ running'[mainThread] = c
      /\ \A u \in IE!Thread : u # mainThread => running'[u] = running[u]
      /\ st' \in [InlineCoro -> {"new", "spawning", "queued", "running", "asleep", "due", "ready",
                                 "blocked", "ended"}]
      /\ running' \in [IE!Thread -> InlineCoro \cup {None}]
  BY <1>3, <1>6, InlineTakeUp
<1>8. IE!TypeOK'
  BY <1>1, <1>3, <1>5, <1>7 DEF IE!TypeOK
<1>9. IE!QueueOK'
  <2>1. \A i \in DOMAIN mQueue' : i + 1 \in DOMAIN mQueue /\ mQueue'[i] = mQueue[i + 1]
    BY <1>5
  <2>2. \A i \in DOMAIN mQueue' : mQueue'[i] \in InlineCoro /\ mQueue'[i] # c /\ st[mQueue'[i]] = "queued"
    <3>1. SUFFICES ASSUME NEW i \in DOMAIN mQueue'
                   PROVE  mQueue[i + 1] \in InlineCoro /\ mQueue[i + 1] # mQueue[1] /\ st[mQueue[i + 1]] = "queued"
      BY <1>5, <2>1
    <3>2. i + 1 \in DOMAIN mQueue /\ 1 \in DOMAIN mQueue /\ i + 1 # 1
      BY <1>5, <2>1
    <3>3. mQueue[i + 1] \in InlineCoro
      BY <1>4, <1>5, <3>2
    <3> QED BY <1>1, <3>2, <3>3 DEF IE!QueueOK
  <2>3. \A i \in DOMAIN mQueue' : st'[mQueue'[i]] = "queued"
    BY <1>7, <2>2
  <2>4. \A i, k \in DOMAIN mQueue' : mQueue'[i] = mQueue'[k] => i = k
    <3>1. SUFFICES ASSUME NEW i \in DOMAIN mQueue', NEW k \in DOMAIN mQueue', mQueue'[i] = mQueue'[k]
                   PROVE  i = k
      OBVIOUS
    <3>2. i + 1 = k + 1
      BY <1>1, <2>1, <3>1 DEF IE!QueueOK
    <3> QED BY <1>5, <3>2
  <2>5. \A d \in InlineCoro : st'[d] = "queued" => \E i \in DOMAIN mQueue' : mQueue'[i] = d
    <3>1. SUFFICES ASSUME NEW d \in InlineCoro, st'[d] = "queued"
                   PROVE  \E i \in DOMAIN mQueue' : mQueue'[i] = d
      OBVIOUS
    <3>2. d # c /\ st[d] = "queued"
      BY <1>7, <3>1
    <3>3. PICK k \in DOMAIN mQueue : mQueue[k] = d
      BY <1>1, <3>2 DEF IE!QueueOK
    <3>4. k # 1
      BY <1>5, <3>2, <3>3
    <3>5. k - 1 \in DOMAIN mQueue' /\ (k - 1) + 1 = k
      BY <1>5, <3>4
    <3>6. mQueue'[k - 1] = d
      BY <2>1, <3>3, <3>5
    <3> QED BY <3>5, <3>6
  <2>6. \A d \in handles' : st'[d] = "ready"
    BY <1>1, <1>3, <1>6, <1>7 DEF IE!QueueOK, IE!TypeOK
  <2> QED BY <1>3, <2>3, <2>4, <2>5, <2>6 DEF IE!QueueOK
<1>10. IE!RootOK'
  BY <1>1, <1>3, <1>6, <1>7 DEF IE!RootOK
<1>11. IE!CountOK'
  BY <1>1, <1>3, <1>7, CountStays
<1>12. IE!LoopOK' /\ IE!InlineBlockWaits'
  BY <1>3 DEF IE!LoopOK, IE!InlineBlockWaits
<1> QED BY <1>7, <1>8, <1>9, <1>10, <1>11, <1>12 DEF IE!IInv

\* react() resumes what it has collected, one coroutine after another.
LEMMA InlineExecuteStep ==
  ASSUME IE!IInv, loop # "returned", IE!execute
  PROVE  IE!IInv'
<1> USE InlineShape
<1>1. /\ IE!TypeOK /\ IE!ThreadsOK /\ IE!SpawningOK /\ IE!QueueOK /\ IE!RootOK /\ IE!CountOK
      /\ IE!LoopOK
  BY DEF IE!IInv
<1>2. /\ running[mainThread] = None /\ act[mainThread] = "run" /\ loop = "execute"
      /\ UNCHANGED <<mQueue, inlineCount, hasValue, notified, foreign, raced, torn>>
  BY DEF IE!execute, IE!InLoop, IE!sharedVars, IE!ghostVars
<1>3. CASE handles = {}
  <2>1. loop' = "drain" /\ UNCHANGED <<handles, st, running, act, reg, child, left>>
    BY <1>3 DEF IE!execute, IE!threadVars
  <2>2. IE!TypeOK' /\ IE!ThreadsOK' /\ IE!RootOK'
    BY <1>1, <1>2, <2>1 DEF IE!TypeOK, IE!ThreadsOK, IE!RootOK
  <2>3. IE!SpawningOK'
    BY <1>1, <1>2, <2>1 DEF IE!SpawningOK, IE!Spawns
  <2>4. IE!QueueOK'
    BY <1>1, <1>2, <2>1 DEF IE!QueueOK
  <2>5. IE!CountOK'
    <3>1. IE!Counted' = IE!Counted /\ IE!Ending' = IE!Ending
      BY <1>2, <2>1 DEF IE!Counted, IE!Alive, IE!Pushing, IE!Ending
    <3> QED BY <1>1, <1>2, <3>1, CountStays
  <2>6. IE!LoopOK' /\ IE!InlineBlockWaits'
    BY <2>1 DEF IE!LoopOK, IE!InlineBlockWaits
  <2> QED BY <2>2, <2>3, <2>4, <2>5, <2>6 DEF IE!IInv
<1>4. CASE handles # {}
  <2>1. PICK c \in handles : handles' = handles \ {c} /\ IE!Resume(c) /\ loop' = loop
    BY <1>4 DEF IE!execute
  <2>2. /\ st' = [st EXCEPT ![c] = "running"] /\ running' = [running EXCEPT ![mainThread] = c]
        /\ UNCHANGED <<act, reg, child, left>>
    BY <2>1 DEF IE!Resume
  <2>3. c \in InlineCoro /\ st[c] = "ready"
    BY <1>1, <2>1 DEF IE!TypeOK, IE!QueueOK
  <2>4. /\ IE!ThreadsOK' /\ IE!SpawningOK'
        /\ IE!Counted' = IE!Counted /\ IE!Ending' = IE!Ending
        /\ st'[c] = "running" /\ \A d \in InlineCoro : d # c => st'[d] = st[d]
        /\ running'[mainThread] = c
        /\ \A u \in IE!Thread : u # mainThread => running'[u] = running[u]
        /\ st' \in [InlineCoro -> {"new", "spawning", "queued", "running", "asleep", "due", "ready",
                                   "blocked", "ended"}]
        /\ running' \in [IE!Thread -> InlineCoro \cup {None}]
    BY <1>2, <2>2, <2>3, InlineTakeUp
  <2>5. IE!TypeOK'
    BY <1>1, <1>2, <2>1, <2>2, <2>4 DEF IE!TypeOK
  <2>6. IE!QueueOK'
    <3>1. \A i \in DOMAIN mQueue : mQueue[i] \in InlineCoro /\ mQueue[i] # c
      BY <1>1, <2>3 DEF IE!QueueOK, IE!TypeOK
    <3>2. \A d \in handles' : d \in handles /\ d \in InlineCoro /\ d # c
      BY <1>1, <2>1 DEF IE!TypeOK
    <3> QED BY <1>1, <1>2, <2>1, <2>4, <3>1, <3>2 DEF IE!QueueOK
  <2>7. IE!RootOK'
    BY <1>1, <1>2, <2>3, <2>4 DEF IE!RootOK
  <2>8. IE!CountOK'
    BY <1>1, <1>2, <2>4, CountStays
  <2>9. IE!LoopOK' /\ IE!InlineBlockWaits'
    BY <1>2, <2>1 DEF IE!LoopOK, IE!InlineBlockWaits
  <2> QED BY <2>4, <2>5, <2>6, <2>7, <2>8, <2>9 DEF IE!IInv
<1> QED BY <1>3, <1>4

LEMMA InlineStep ==
  ASSUME IE!IInv, [IE!Next]_(IE!vars)
  PROVE  IE!IInv'
<1>1. CASE UNCHANGED IE!vars
  <2>1. UNCHANGED inlineVars
    BY <1>1 DEF IE!vars, IE!sharedVars, IE!loopVars, IE!threadVars, IE!ghostVars, inlineVars
  <2>2. /\ IE!TypeOK' /\ IE!ThreadsOK' /\ IE!SpawningOK' /\ IE!QueueOK' /\ IE!RootOK'
        /\ IE!LoopOK' /\ IE!InlineBlockWaits'
    BY <2>1 DEF inlineVars, IE!IInv, IE!TypeOK, IE!ThreadsOK, IE!SpawningOK, IE!Spawns, IE!QueueOK,
                IE!RootOK, IE!LoopOK, IE!InlineBlockWaits
  <2>3. IE!Counted' = IE!Counted /\ IE!Ending' = IE!Ending
    BY <2>1 DEF inlineVars, IE!Counted, IE!Alive, IE!Pushing, IE!Ending
  <2>4. IE!CountOK'
    BY <2>1, <2>3, CountStays DEF inlineVars, IE!IInv
  <2> QED BY <2>2, <2>4 DEF IE!IInv
<1>2. CASE IE!Next
  <2>1. loop # "returned"
    BY <1>2 DEF IE!Next, IE!Live
  <2>2. ASSUME NEW t \in IE!Thread, IE!CoroStep(t) PROVE IE!IInv'
    BY <2>1, <2>2, InlineSpawnStep, InlineIncStep, InlinePushStep, InlineSuspendStep, InlineCallbackStep
    DEF IE!CoroStep
  <2>3. ASSUME NEW t \in IE!Thread, NEW c \in InlineCoro, IE!continueOn(t, c) PROVE IE!IInv'
    BY <2>1, <2>3, InlineContinueStep
  <2>4. ASSUME NEW c \in InlineCoro, IE!expire(c) PROVE IE!IInv'
    BY <2>1, <2>4, InlineTimersStep
  <2>5. CASE IE!BlockStep
    BY <2>1, <2>5, InlineLookStep, InlinePopStep, InlineTimersStep, InlineExecuteStep DEF IE!BlockStep
  <2> QED BY <1>2, <2>2, <2>3, <2>4, <2>5 DEF IE!Next
<1> QED BY <1>1, <1>2

\* No coroutine is in two hands, and the count is exact as long as no update is lost.
THEOREM InlineInvariant == IE!Spec => []IE!IInv
BY InlineInit, InlineStep, PTL DEF IE!Spec

\* InlineExecutor's block() returns only when the root and every coroutine detached
\* by then have ended, unless an update of the unsynchronised count has been lost.
THEOREM InlineWaits == IE!Spec => []InlineBlockWaits
<1>1. IE!IInv => InlineBlockWaits
  BY DEF IE!IInv, InlineBlockWaits
<1> QED BY <1>1, InlineInvariant, PTL

\* InlineExecutor's block() sleeps on a queued coroutine only if a thread of the pool
\* queued it: what its own thread spawns it takes from the queue first.
THEOREM InlineIdleQueue == IE!Spec => []IdleQueueIsForeign
<1>1. IE!IInv => IdleQueueIsForeign
  BY DEF IE!IInv, IE!LoopOK, IdleQueueIsForeign, IE!IdleQueueIsForeign
<1> QED BY <1>1, InlineInvariant, PTL

-----------------------------------------------------------------------------
(***************************************************************************)
(* The executors side by side                                              *)
(***************************************************************************)
\* A behaviour of the composition is one of each executor: a step of one leaves the
\* variables of the other alone.
THEOREM ExecutorsIsEach == ExecutorsSpec => Spec /\ IE!Spec
<1> DEFINE Step == MultiThreadNext \/ InlineNext
<1>1. ExecutorsInit => Init /\ IE!Init
  BY DEF ExecutorsInit
<1>2. [Step]_executorVars => [Next]_vars /\ [IE!Next]_(IE!vars)
  <2> SUFFICES ASSUME [Step]_executorVars PROVE [Next]_vars /\ [IE!Next]_(IE!vars)
    OBVIOUS
  <2>1. UNCHANGED inlineVars => UNCHANGED IE!vars
    BY DEF inlineVars, IE!vars, IE!sharedVars, IE!loopVars, IE!threadVars, IE!ghostVars
  <2>2. CASE MultiThreadNext
    BY <2>1, <2>2 DEF MultiThreadNext
  <2>3. CASE InlineNext
    BY <2>3 DEF InlineNext
  <2>4. CASE UNCHANGED executorVars
    BY <2>1, <2>4 DEF executorVars
  <2> QED BY <2>2, <2>3, <2>4
<1> QED BY <1>1, <1>2, PTL DEF ExecutorsSpec, Spec, IE!Spec

\* The safety properties of both executors in every behaviour of the composition;
\* those of MultiThreadExecutor are about a single call of block().
THEOREM ExecutorsSafety ==
  ASSUME NEW main, Blocker = {main}
  PROVE  ExecutorsSpec => [](/\ BlockWaitsForDetached /\ NoLostWakeup
                             /\ InlineBlockWaits /\ IdleQueueIsForeign)
BY ExecutorsIsEach, BlockReturnsLate, NoSleepOnFinishedJob, InlineWaits, InlineIdleQueue, PTL
=============================================================================

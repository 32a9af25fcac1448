---------------------------- MODULE WakeupsProofs ----------------------------
(***************************************************************************)
(* Of the components of Wakeups, for every finite set of coroutines and of *)
(* threads: async::Mutex excludes; a coroutine that waits on a CondVar can *)
(* be woken exactly once, and notify_all() pops everybody it found; the    *)
(* counts by which BlockingThreadPool grows are exact, and a queued task   *)
(* has a thread; ThreadPool, deprecated, stops early only when every task  *)
(* that is left is still inside execute().                                 *)
(***************************************************************************)
EXTENDS Wakeups, MpmcQueueProofs

(***************************************************************************)
(* Mutex, for every number of calls.  HandlesOK makes IInv inductive:      *)
(* unlock()'s hand-over keeps one owner only because the handle it popped  *)
(* is suspended, in one place, and known to one unlock().                  *)
(***************************************************************************)
\* The initial state: a free mutex that nobody uses.
LEMMA MutexInit == Init => IInv
<1> SUFFICES ASSUME Init PROVE IInv
  OBVIOUS
<1>1. TypeOK
  <2>1. /\ mLocked \in BOOLEAN
        /\ pc \in [Coro -> PC]
        /\ value \in [Coro -> Coro \cup {None}]
    BY DEF Init, PC
  <2>2. mPending \in Seq(Coro)
    BY DEF Init
  <2>3. left \in [Coro -> 0 .. Rounds]
    BY MutexAssumption DEF Init
  <2> QED BY <2>1, <2>2, <2>3 DEF TypeOK
<1>2. HandlesOK
  BY DEF Init, HandlesOK
<1>3. MutualExclusion /\ LockedIffOwned /\ ResumedWithLock
  BY DEF Init, MutualExclusion, LockedIffOwned, ResumedWithLock, Owner
<1> QED BY <1>1, <1>2, <1>3 DEF IInv

\* lock() and try_lock(): a CAS that succeeds finds no owner.
LEMMA StartStep == ASSUME IInv, NEW c \in Coro, Start(c) PROVE IInv'
<1>1. TypeOK'
  <2>1. left[c] \in 0 .. Rounds /\ left[c] > 0 /\ left' = [left EXCEPT ![c] = @ - 1]
    BY DEF IInv, TypeOK, Start, lock, try_lock
  <2>2. left' \in [Coro -> 0 .. Rounds]
    BY <2>1, MutexAssumption DEF IInv, TypeOK
  <2>3. mLocked' \in BOOLEAN /\ mPending' \in Seq(Coro) /\ value' \in [Coro -> Coro \cup {None}]
    BY DEF IInv, TypeOK, Start, lock, try_lock
  <2>4. pc' \in [Coro -> PC]
    BY DEF IInv, TypeOK, Start, lock, try_lock, Goto, PC
  <2> QED BY <2>2, <2>3, <2>4 DEF TypeOK
<1>2. HandlesOK'
  BY DEF IInv, TypeOK, HandlesOK, Start, lock, try_lock, Goto
<1>3. MutualExclusion' /\ LockedIffOwned' /\ ResumedWithLock'
  BY DEF IInv, TypeOK, MutualExclusion, LockedIffOwned, ResumedWithLock, Owner,
     Start, lock, try_lock, Goto
<1> QED BY <1>1, <1>2, <1>3 DEF IInv

\* await_suspend: the pushed handle was in no other place.
LEMMA SuspendStep == ASSUME IInv, NEW c \in Coro, await_suspend(c) PROVE IInv'
<1> USE DEF await_suspend, push, Goto
<1>1. TypeOK'
  BY DEF IInv, TypeOK, PC
<1>2. /\ mPending' = Append(mPending, c)
      /\ Len(mPending') = Len(mPending) + 1
      /\ DOMAIN mPending = 1 .. Len(mPending)
      /\ DOMAIN mPending' = 1 .. Len(mPending) + 1
      /\ \A i \in 1 .. Len(mPending) : mPending'[i] = mPending[i]
      /\ mPending'[Len(mPending) + 1] = c
  BY DEF IInv, TypeOK
<1>3. \A i \in DOMAIN mPending : mPending[i] \in Coro /\ mPending[i] # c
  BY DEF IInv, TypeOK, HandlesOK
<1>4. \A i \in DOMAIN mPending' : pc'[mPending'[i]] = "pending"
  BY <1>2, <1>3 DEF IInv, TypeOK, HandlesOK
<1>5. \A i, j \in DOMAIN mPending' : mPending'[i] = mPending'[j] => i = j
  BY <1>2, <1>3 DEF IInv, HandlesOK
<1>6. HandlesOK'
  BY <1>4, <1>5 DEF IInv, TypeOK, HandlesOK
<1>7. MutualExclusion' /\ LockedIffOwned' /\ ResumedWithLock'
  BY DEF IInv, TypeOK, MutualExclusion, LockedIffOwned, ResumedWithLock, Owner
<1> QED BY <1>1, <1>6, <1>7 DEF IInv

\* The resumed waiter finds the flag set, because it is the owner.
LEMMA ResumedStep == ASSUME IInv, NEW c \in Coro, resumed(c) PROVE IInv'
<1>1. mLocked /\ Owner(c)
  BY DEF IInv, LockedIffOwned, Owner, resumed
<1>2. TypeOK'
  BY DEF IInv, TypeOK, resumed, Goto, PC
<1>3. HandlesOK'
  BY <1>1 DEF IInv, TypeOK, HandlesOK, resumed, Goto
<1>4. MutualExclusion' /\ LockedIffOwned' /\ ResumedWithLock'
  BY <1>1 DEF IInv, TypeOK, MutualExclusion, LockedIffOwned, ResumedWithLock, Owner, resumed, Goto
<1> QED BY <1>2, <1>3, <1>4 DEF IInv

\* unlock() pops: ownership passes to the popped coroutine in the same step.
LEMMA UnlockStep == ASSUME IInv, NEW c \in Coro, unlock(c) PROVE IInv'
<1>1. CASE mPending = <<>>
  <2>1. TypeOK'
    BY <1>1 DEF IInv, TypeOK, unlock, empty, flagAtPop, Goto, PC
  <2>2. HandlesOK'
    BY <1>1 DEF IInv, TypeOK, HandlesOK, unlock, empty, Goto
  <2>3. MutualExclusion' /\ LockedIffOwned' /\ ResumedWithLock'
    BY <1>1 DEF IInv, TypeOK, MutualExclusion, LockedIffOwned, ResumedWithLock, Owner,
       unlock, empty, flagAtPop, Goto
  <2> QED BY <2>1, <2>2, <2>3 DEF IInv
<1>2. CASE mPending # <<>>
  <2> DEFINE h == Head(mPending)
  <2>1. /\ Len(mPending) \in Nat /\ Len(mPending) >= 1
        /\ DOMAIN mPending = 1 .. Len(mPending)
        /\ h = mPending[1]
        /\ h \in Coro
        /\ Tail(mPending) \in Seq(Coro)
        /\ DOMAIN Tail(mPending) = 1 .. Len(mPending) - 1
        /\ \A i \in 1 .. Len(mPending) - 1 : Tail(mPending)[i] = mPending[i + 1]
    BY <1>2 DEF IInv, TypeOK
  <2>2. /\ mPending' = Tail(mPending)
        /\ value' = [value EXCEPT ![c] = h]
        /\ pc' = [pc EXCEPT ![c] = "handing", ![h] = "popped"]
        /\ mLocked' = mLocked
        /\ left' = left
    BY <1>2 DEF unlock, empty, popped, front, flagAtPop
  <2>3. pc[h] = "pending" /\ pc[c] = "holding" /\ h # c
    BY <2>1 DEF IInv, HandlesOK, unlock
  <2>4. /\ pc'[h] = "popped"
        /\ pc'[c] = "handing"
        /\ \A d \in Coro \ {c, h} : pc'[d] = pc[d]
    BY <2>1, <2>2, <2>3 DEF IInv, TypeOK
  <2>5. TypeOK'
    BY <2>1, <2>2 DEF IInv, TypeOK, PC
  <2>6. \A i \in DOMAIN mPending' :
          /\ mPending'[i] = mPending[i + 1]
          /\ i + 1 \in DOMAIN mPending
          /\ mPending[i + 1] \in Coro
          /\ mPending[i + 1] # h
          /\ mPending[i + 1] # c
    <3> SUFFICES ASSUME NEW i \in DOMAIN mPending'
                 PROVE  /\ mPending'[i] = mPending[i + 1]
                        /\ i + 1 \in DOMAIN mPending
                        /\ mPending[i + 1] \in Coro
                        /\ mPending[i + 1] # h
                        /\ mPending[i + 1] # c
      OBVIOUS
    <3>1. i \in 1 .. Len(mPending) - 1 /\ mPending'[i] = mPending[i + 1]
      BY <2>1, <2>2
    <3>2. i + 1 \in DOMAIN mPending /\ 1 \in DOMAIN mPending /\ i + 1 # 1
      BY <2>1, <3>1
    <3>3. pc[mPending[i + 1]] = "pending" /\ mPending[i + 1] # mPending[1]
      BY <3>2 DEF IInv, HandlesOK
    <3> QED BY <2>1, <2>3, <3>1, <3>2, <3>3 DEF IInv, TypeOK
  <2>7. \A i \in DOMAIN mPending' : pc'[mPending'[i]] = "pending"
    BY <2>4, <2>6 DEF IInv, HandlesOK
  <2>8. \A i, j \in DOMAIN mPending' : mPending'[i] = mPending'[j] => i = j
    <3> SUFFICES ASSUME NEW i \in DOMAIN mPending', NEW j \in DOMAIN mPending',
                        mPending'[i] = mPending'[j]
                 PROVE  i = j
      OBVIOUS
    <3>1. i + 1 = j + 1
      BY <2>6 DEF IInv, HandlesOK
    <3> QED BY <3>1, <2>1, <2>2
  <2>9. \A d \in Coro : pc[d] # "handing"
    BY <2>3 DEF IInv, TypeOK, HandlesOK, MutualExclusion, Owner
  <2>10. HandlesOK'
    BY <2>1, <2>2, <2>3, <2>4, <2>7, <2>8, <2>9 DEF IInv, TypeOK, HandlesOK
  <2>11. \A d \in Coro : Owner(d)' <=> d = h
    BY <2>1, <2>3, <2>4 DEF IInv, MutualExclusion, Owner
  <2>12. MutualExclusion' /\ LockedIffOwned'
    BY <2>1, <2>2, <2>3, <2>11 DEF IInv, MutualExclusion, LockedIffOwned, Owner
  <2>13. ResumedWithLock'
    BY <2>1, <2>4 DEF IInv, ResumedWithLock
  <2> QED BY <2>5, <2>10, <2>12, <2>13 DEF IInv
<1> QED BY <1>1, <1>2

\* execute(value): the handle moves on, the ownership does not.
LEMMA HandOverStep == ASSUME IInv, NEW c \in Coro, unlockExecute(c) PROVE IInv'
<1> DEFINE h == value[c]
<1>1. h \in Coro /\ pc[h] = "popped" /\ pc[c] = "handing" /\ h # c
  BY DEF IInv, HandlesOK, unlockExecute
<1>2. /\ pc'[h] = "scheduled"
      /\ pc'[c] = "outside"
      /\ \A d \in Coro \ {c, h} : pc'[d] = pc[d]
      /\ mLocked' = mLocked /\ mPending' = mPending /\ left' = left
      /\ value' = [value EXCEPT ![c] = None]
  BY <1>1 DEF IInv, TypeOK, unlockExecute
<1>3. TypeOK'
  BY <1>1 DEF IInv, TypeOK, unlockExecute, PC
<1>4. HandlesOK'
  <2>1. \A i \in DOMAIN mPending : mPending[i] \in Coro /\ mPending[i] # h /\ mPending[i] # c
    BY <1>1 DEF IInv, TypeOK, HandlesOK
  <2>2. \A d \in Coro : pc'[d] # "handing"
    BY <1>1, <1>2 DEF IInv, HandlesOK
  <2> QED BY <1>2, <2>1, <2>2 DEF IInv, HandlesOK
<1>5. \A d \in Coro : Owner(d)' <=> Owner(d)
  BY <1>1, <1>2 DEF Owner
<1>6. MutualExclusion' /\ LockedIffOwned'
  BY <1>2, <1>5 DEF IInv, MutualExclusion, LockedIffOwned
<1>7. ResumedWithLock'
  BY <1>1, <1>2 DEF IInv, ResumedWithLock
<1> QED BY <1>3, <1>4, <1>6, <1>7 DEF IInv

\* mLocked = false: the owner was the only one.
LEMMA StoreStep == ASSUME IInv, NEW c \in Coro, unlockStore(c) PROVE IInv'
<1>1. TypeOK'
  BY DEF IInv, TypeOK, unlockStore, Goto, PC
<1>2. HandlesOK'
  BY DEF IInv, TypeOK, HandlesOK, unlockStore, Goto
<1>3. MutualExclusion' /\ LockedIffOwned' /\ ResumedWithLock'
  BY DEF IInv, TypeOK, MutualExclusion, LockedIffOwned, ResumedWithLock, Owner, unlockStore, Goto
<1> QED BY <1>1, <1>2, <1>3 DEF IInv

\* IInv holds in every reachable state.
THEOREM MutexInvariant == Spec => []IInv
<1>1. IInv /\ [Next]_vars => IInv'
  <2> SUFFICES ASSUME IInv, [Next]_vars PROVE IInv'
    OBVIOUS
  <2>1. CASE UNCHANGED vars
    BY <2>1 DEF vars, IInv, TypeOK, HandlesOK, MutualExclusion, LockedIffOwned, ResumedWithLock, Owner
  <2>2. ASSUME NEW c \in Coro, Start(c) \/ Progress(c) PROVE IInv'
    BY <2>2, StartStep, SuspendStep, ResumedStep, UnlockStep, HandOverStep, StoreStep DEF Progress
  <2> QED BY <2>1, <2>2 DEF Next
<1> QED BY <1>1, MutexInit, PTL DEF Spec

\* At most one coroutine has the mutex or has been promised it, a hand-over in
\* flight through the executor included.
THEOREM MutexExcludes == Spec => []MutualExclusion
BY MutexInvariant, PTL DEF IInv

\* Every suspended coroutine's handle is in one place, so none is resumed twice.
THEOREM HandlesInOnePlace == Spec => []HandlesOK
BY MutexInvariant, PTL DEF IInv

\* The flag is set exactly while there is an owner.
THEOREM FlagIsExact == Spec => []LockedIffOwned
BY MutexInvariant, PTL DEF IInv

\* assert(success) after the suspension in lock() never fails.
THEOREM ResumedHoldsLock == Spec => []ResumedWithLock
BY MutexInvariant, PTL DEF IInv

-----------------------------------------------------------------------------
(***************************************************************************)
(* CondVar                                                                 *)
(***************************************************************************)
\* The notifies whose local names c.
Holders(local, c) == {d \in Coro : local[d] = c}

LEMMA HoldersFinite ==
  ASSUME NEW local, NEW c
  PROVE  /\ IsFiniteSet(Holders(local, c))
         /\ Cardinality(Holders(local, c)) \in Nat
BY WakeupsAssumption, FS_Subset, FS_CardinalityType DEF Holders

\* Popping a handle into d's local adds one holder of it.
LEMMA PopIntoLocal ==
  ASSUME NEW local, NEW after, NEW d \in Coro, NEW x \in Coro,
         local[d] = None, after[d] = x, \A e \in Coro \ {d} : after[e] = local[e],
         NEW c \in Coro
  PROVE  Cardinality(Holders(after, c)) =
           IF x = c THEN Cardinality(Holders(local, c)) + 1 ELSE Cardinality(Holders(local, c))
<1> DEFINE H == Holders(local, c)
           J == Holders(after, c)
<1>1. d \notin H
  BY MutexAssumption DEF Holders
<1>2. J = IF x = c THEN H \cup {d} ELSE H
  BY MutexAssumption DEF Holders
<1>3. IsFiniteSet(H) /\ Cardinality(H) \in Nat
  BY HoldersFinite
<1> HIDE DEF H, J
<1>4. Cardinality(J) = IF x = c THEN Cardinality(H) + 1 ELSE Cardinality(H)
  BY <1>1, <1>2, <1>3, FS_AddElement
<1> QED BY <1>4 DEF H, J

\* Handing it to the executor takes that holder away.
LEMMA ClearLocal ==
  ASSUME NEW local, NEW after, NEW d \in Coro,
         after[d] = None, \A e \in Coro \ {d} : after[e] = local[e],
         NEW c \in Coro
  PROVE  Cardinality(Holders(after, c)) + (IF local[d] = c THEN 1 ELSE 0) =
           Cardinality(Holders(local, c))
<1> DEFINE H == Holders(local, c)
           J == Holders(after, c)
<1>1. J = H \ {d}
  BY MutexAssumption DEF Holders
<1>2. d \in H <=> local[d] = c
  BY DEF Holders
<1>3. IsFiniteSet(H) /\ Cardinality(H) \in Nat
  BY HoldersFinite
<1> HIDE DEF H, J
<1>4. Cardinality(J) = IF d \in H THEN Cardinality(H) - 1 ELSE Cardinality(H)
  BY <1>1, <1>3, FS_RemoveElement
<1>5. Cardinality(J) + (IF local[d] = c THEN 1 ELSE 0) = Cardinality(H)
  BY <1>2, <1>3, <1>4
<1> QED BY <1>5 DEF H, J

\* FiniteSets seen through the instance is FiniteSets.
LEMMA SameCardinality == ASSUME NEW S PROVE CV!Cardinality(S) = Cardinality(S)
BY DEF CV!Cardinality, Cardinality, CV!IsFiniteSet, IsFiniteSet

\* Where c's handle is, as a sum of the counts the lemmas speak of.
LEMMA PlacesAsCounts ==
  ASSUME NEW c
  PROVE  /\ CV!Places(c) =
              Cardinality(Positions(waiters, c)) + Cardinality(Holders(cvValue, c)) + wakes[c]
         /\ CV!Places(c)' =
              Cardinality(Positions(waiters', c)) + Cardinality(Holders(cvValue', c)) + wakes'[c]
BY SameCardinality DEF CV!Places, Positions, Holders

\* At the start everybody runs and nobody is owed anything.
LEMMA CondVarInit == CV!Init => CV!IInv
<1> SUFFICES ASSUME CV!Init PROVE CV!IInv
  OBVIOUS
<1>1. CV!TypeOK
  BY MutexAssumption DEF CV!Init, CV!TypeOK, CV!PC
<1>2. CV!ValueInCall /\ CV!OwedIsQueued /\ CV!NotifyAllServesQueue
  BY DEF CV!Init, CV!ValueInCall, CV!OwedIsQueued, CV!NotifyAllServesQueue
<1>3. CV!WokenOnce
  <2>1. ASSUME NEW c \in Coro PROVE CV!Places(c) = 0 /\ cvPc[c] = "outside"
    <3>1. Holders(cvValue, c) = {}
      BY MutexAssumption DEF CV!Init, Holders
    <3>2. Cardinality(Holders(cvValue, c)) = 0
      BY <3>1, FS_EmptySet
    <3>3. Cardinality(Positions(waiters, c)) = 0
      BY EmptyCounts DEF CV!Init
    <3>4. wakes[c] = 0 /\ cvPc[c] = "outside"
      BY DEF CV!Init
    <3> QED BY <3>2, <3>3, <3>4, PlacesAsCounts
  <2> QED BY <2>1 DEF CV!WokenOnce
<1> QED BY <1>1, <1>2, <1>3 DEF CV!IInv

\* Calls and returns: nobody's handle moves, nobody becomes or stops being suspended.
LEMMA CondVarCallStep ==
  ASSUME CV!IInv, NEW c \in Coro, NEW to \in CV!PC \ {"pending", "one", "allOne"},
         cvPc[c] \notin {"pending", "one", "allOne"}, cvPc' = [cvPc EXCEPT ![c] = to],
         cvLeft' \in [Coro -> 0 .. Rounds],
         UNCHANGED <<waiters, cvValue, wakes>>,
         \/ owed' = owed /\ (cvPc[c] = "all" => owed[c] = {})
         \/ owed' = [owed EXCEPT ![c] = CV!Waiting] /\ to = "all"
  PROVE  CV!IInv'
<1>1. CV!Waiting \subseteq Coro /\ CV!Waiting' = CV!Waiting
  BY DEF CV!IInv, CV!TypeOK, CV!Waiting
<1>2. CV!TypeOK'
  BY <1>1 DEF CV!IInv, CV!TypeOK
<1>3. CV!ValueInCall'
  BY DEF CV!IInv, CV!TypeOK, CV!ValueInCall
<1>4. CV!WokenOnce'
  <2>1. ASSUME NEW d \in Coro PROVE CV!Places(d)' = CV!Places(d)
    BY DEF CV!Places
  <2>2. ASSUME NEW d \in Coro PROVE cvPc'[d] = "pending" <=> cvPc[d] = "pending"
    BY DEF CV!IInv, CV!TypeOK
  <2> QED BY <2>1, <2>2 DEF CV!IInv, CV!WokenOnce
<1>5. CV!OwedIsQueued'
  BY <1>1 DEF CV!IInv, CV!TypeOK, CV!OwedIsQueued
<1>6. CV!NotifyAllServesQueue'
  BY DEF CV!IInv, CV!TypeOK, CV!NotifyAllServesQueue
<1> QED BY <1>2, <1>3, <1>4, <1>5, <1>6 DEF CV!IInv

\* await_suspend(): c becomes suspended as its handle enters the queue.
LEMMA CondVarSuspendStep ==
  ASSUME CV!IInv, NEW c \in Coro, CV!await_suspend(c)
  PROVE  CV!IInv'
<1>1. /\ waiters \in Seq(Coro)
      /\ waiters' = push(waiters, c)
      /\ cvPc[c] = "entering" /\ cvPc' = [cvPc EXCEPT ![c] = "pending"]
      /\ UNCHANGED <<cvValue, cvLeft, owed, wakes>>
  BY DEF CV!IInv, CV!TypeOK, CV!await_suspend, CV!Goto, CV!push, push
<1>2. waiters' \in Seq(Coro) /\ CV!Waiting \subseteq CV!Waiting'
  BY <1>1 DEF push, CV!Waiting
<1>3. CV!TypeOK'
  BY <1>1, <1>2 DEF CV!IInv, CV!TypeOK, CV!PC
<1>4. CV!ValueInCall' /\ CV!NotifyAllServesQueue'
  BY <1>1 DEF CV!IInv, CV!TypeOK, CV!ValueInCall, CV!NotifyAllServesQueue
<1>5. CV!OwedIsQueued'
  BY <1>1, <1>2 DEF CV!IInv, CV!OwedIsQueued
<1>6. CV!WokenOnce'
  <2>1. ASSUME NEW d \in Coro PROVE CV!Places(d)' = IF cvPc'[d] = "pending" THEN 1 ELSE 0
    <3>1. CV!Places(d) = IF cvPc[d] = "pending" THEN 1 ELSE 0
      BY DEF CV!IInv, CV!WokenOnce
    <3>2. Cardinality(Positions(waiters', d)) =
            Cardinality(Positions(waiters, d)) + IF c = d THEN 1 ELSE 0
      BY <1>1, PushCounts
    <3>3. /\ Cardinality(Positions(waiters, d)) \in Nat
          /\ Cardinality(Holders(cvValue, d)) \in Nat
          /\ wakes[d] \in Nat
      BY <1>1, PositionsFinite, HoldersFinite DEF CV!IInv, CV!TypeOK
    <3>4. CV!Places(d)' = CV!Places(d) + IF c = d THEN 1 ELSE 0
      BY <1>1, <3>2, <3>3, PlacesAsCounts
    <3>5. cvPc'[d] = IF c = d THEN "pending" ELSE cvPc[d]
      BY <1>1 DEF CV!IInv, CV!TypeOK
    <3> QED BY <1>1, <3>1, <3>4, <3>5
  <2> QED BY <2>1 DEF CV!WokenOnce
<1> QED BY <1>3, <1>4, <1>5, <1>6 DEF CV!IInv

\* The pop of a notify: the handle goes from the queue to c's local, and whoever
\* owed it to be popped owes it no more.
LEMMA CondVarPopStep ==
  ASSUME CV!IInv, NEW c \in Coro, CV!Pop(c), owed' = CV!Paid(CV!front(waiters), owed),
         cvPc[c] \in {"outside", "all"}, UNCHANGED wakes,
         cvPc' = [cvPc EXCEPT ![c] = IF cvPc[c] = "all" THEN "allOne" ELSE "one"],
         cvLeft' \in [Coro -> 0 .. Rounds]
  PROVE  CV!IInv'
<1> DEFINE x == front(waiters)
<1>1. /\ waiters \in Seq(Coro) /\ ~empty(waiters)
      /\ waiters' = popped(waiters)
      /\ cvValue' = [cvValue EXCEPT ![c] = x]
      /\ owed' = [d \in Coro |-> owed[d] \ {x}]
  BY DEF CV!IInv, CV!TypeOK, CV!Pop, CV!Paid, CV!empty, empty, CV!front, front, CV!popped, popped
<1>2. x \in Coro /\ waiters' \in Seq(Coro)
  BY <1>1, PopCounts
<1>3. /\ cvValue \in [Coro -> Coro \cup {None}] /\ cvValue[c] = None
      /\ cvPc \in [Coro -> CV!PC] /\ owed \in [Coro -> SUBSET Coro]
  BY DEF CV!IInv, CV!TypeOK, CV!ValueInCall
<1>4. CV!Waiting \ {x} \subseteq CV!Waiting'
  <2> SUFFICES ASSUME NEW i \in DOMAIN waiters, waiters[i] # x
               PROVE  \E k \in DOMAIN waiters' : waiters'[k] = waiters[i]
    BY DEF CV!Waiting
  <2>1. i # 1 /\ i \in 1 .. Len(waiters)
    BY <1>1 DEF front
  <2>2. i - 1 \in DOMAIN waiters' /\ waiters'[i - 1] = waiters[i]
    BY <1>1, <2>1 DEF popped, empty
  <2> QED BY <2>2
<1> HIDE DEF x
<1>5. CV!TypeOK'
  BY <1>1, <1>2, <1>3 DEF CV!IInv, CV!TypeOK, CV!PC
<1>6. CV!ValueInCall'
  BY <1>1, <1>2, <1>3, MutexAssumption DEF CV!IInv, CV!ValueInCall
<1>7. CV!OwedIsQueued' /\ CV!NotifyAllServesQueue'
  BY <1>1, <1>3, <1>4 DEF CV!IInv, CV!OwedIsQueued, CV!NotifyAllServesQueue
<1>8. CV!WokenOnce'
  <2>1. ASSUME NEW d \in Coro PROVE CV!Places(d)' = CV!Places(d)
    <3>1. /\ Cardinality(Positions(waiters, d)) \in Nat
          /\ Cardinality(Holders(cvValue, d)) \in Nat
          /\ wakes[d] \in Nat
      BY <1>1, PositionsFinite, HoldersFinite DEF CV!IInv, CV!TypeOK
    <3>2. Cardinality(Positions(waiters', d)) =
            Cardinality(Positions(waiters, d)) - IF x = d THEN 1 ELSE 0
      BY <1>1, PopCounts DEF x
    <3>3. Cardinality(Holders(cvValue', d)) =
            IF x = d THEN Cardinality(Holders(cvValue, d)) + 1 ELSE Cardinality(Holders(cvValue, d))
      <4>1. cvValue[c] = None /\ cvValue'[c] = x /\ \A e \in Coro \ {c} : cvValue'[e] = cvValue[e]
        BY <1>1, <1>3
      <4>2. x \in Coro
        BY <1>2
      <4> QED BY <4>1, <4>2, PopIntoLocal
    <3> QED BY <3>1, <3>2, <3>3, PlacesAsCounts
  <2>2. ASSUME NEW d \in Coro PROVE cvPc'[d] = "pending" <=> cvPc[d] = "pending"
    BY <1>3
  <2> QED BY <2>1, <2>2 DEF CV!IInv, CV!WokenOnce
<1> QED BY <1>5, <1>6, <1>7, <1>8 DEF CV!IInv

\* execute(): c's local gives the handle to the executor.
LEMMA CondVarExecuteStep ==
  ASSUME CV!IInv, NEW c \in Coro, CV!notifyExecute(c)
  PROVE  CV!IInv'
<1> DEFINE x == cvValue[c]
<1>1. /\ cvPc[c] \in {"one", "allOne"}
      /\ cvPc' = [cvPc EXCEPT ![c] = IF cvPc[c] = "allOne" THEN "all" ELSE "outside"]
      /\ wakes' = [wakes EXCEPT ![x] = @ + 1]
      /\ cvValue' = [cvValue EXCEPT ![c] = None]
      /\ UNCHANGED <<waiters, cvLeft, owed>>
  BY DEF CV!notifyExecute, CV!Goto, CV!afterExecute
<1>2. /\ cvPc \in [Coro -> CV!PC] /\ cvValue \in [Coro -> Coro \cup {None}]
      /\ wakes \in [Coro -> Nat] /\ waiters \in Seq(Coro)
      /\ owed \in [Coro -> SUBSET Coro]
  BY DEF CV!IInv, CV!TypeOK
<1>3. x \in Coro
  BY <1>1, <1>2 DEF CV!IInv, CV!ValueInCall
<1> HIDE DEF x
<1>4. CV!TypeOK'
  BY <1>1, <1>2, <1>3 DEF CV!IInv, CV!TypeOK, CV!PC
<1>5. CV!ValueInCall'
  BY <1>1, <1>2 DEF CV!IInv, CV!ValueInCall
<1>6. CV!OwedIsQueued'
  BY <1>1 DEF CV!IInv, CV!OwedIsQueued, CV!Waiting
<1>7. CV!NotifyAllServesQueue'
  BY <1>1, <1>2 DEF CV!IInv, CV!NotifyAllServesQueue
<1>8. CV!WokenOnce'
  <2>1. ASSUME NEW d \in Coro PROVE CV!Places(d)' = CV!Places(d)
    <3>1. /\ Cardinality(Positions(waiters, d)) \in Nat
          /\ Cardinality(Holders(cvValue, d)) \in Nat
          /\ Cardinality(Holders(cvValue', d)) \in Nat
      BY <1>2, PositionsFinite, HoldersFinite
    <3>2. Cardinality(Holders(cvValue', d)) + (IF x = d THEN 1 ELSE 0) =
            Cardinality(Holders(cvValue, d))
      <4>1. cvValue'[c] = None /\ \A e \in Coro \ {c} : cvValue'[e] = cvValue[e]
        BY <1>1, <1>2
      <4> QED BY <4>1, ClearLocal DEF x
    <3>3. wakes'[d] = wakes[d] + (IF x = d THEN 1 ELSE 0) /\ wakes[d] \in Nat
      BY <1>1, <1>2, <1>3
    <3>4. waiters' = waiters
      BY <1>1
    <3> QED BY <3>1, <3>2, <3>3, <3>4, PlacesAsCounts
  <2>2. ASSUME NEW d \in Coro PROVE cvPc'[d] = "pending" <=> cvPc[d] = "pending"
    BY <1>1, <1>2
  <2> QED BY <2>1, <2>2 DEF CV!IInv, CV!WokenOnce
<1> QED BY <1>4, <1>5, <1>6, <1>7, <1>8 DEF CV!IInv

\* The executor resumes c: the one handle of it is used up.
LEMMA CondVarResumedStep ==
  ASSUME CV!IInv, NEW c \in Coro, CV!resumed(c)
  PROVE  CV!IInv'
<1>1. /\ wakes[c] > 0 /\ wakes' = [wakes EXCEPT ![c] = @ - 1]
      /\ cvPc' = [cvPc EXCEPT ![c] = "outside"]
      /\ UNCHANGED <<waiters, cvValue, cvLeft, owed>>
  BY DEF CV!resumed, CV!Goto
<1>2. /\ cvPc \in [Coro -> CV!PC] /\ wakes \in [Coro -> Nat] /\ waiters \in Seq(Coro)
      /\ cvValue \in [Coro -> Coro \cup {None}]
  BY DEF CV!IInv, CV!TypeOK
<1>3. ASSUME NEW d \in Coro
      PROVE  /\ CV!Places(d) \in Nat
             /\ CV!Places(d)' = CV!Places(d) - (IF c = d THEN 1 ELSE 0)
             /\ wakes[d] <= CV!Places(d)
  <2>1. /\ Cardinality(Positions(waiters, d)) \in Nat
        /\ Cardinality(Holders(cvValue, d)) \in Nat
    BY <1>2, PositionsFinite, HoldersFinite
  <2>2. wakes'[d] = wakes[d] - (IF c = d THEN 1 ELSE 0) /\ wakes[d] \in Nat
    BY <1>1, <1>2
  <2>3. waiters' = waiters /\ cvValue' = cvValue
    BY <1>1
  <2> QED BY <2>1, <2>2, <2>3, PlacesAsCounts
<1>4. cvPc[c] = "pending" /\ CV!Places(c) = 1
  BY <1>1, <1>2, <1>3 DEF CV!IInv, CV!WokenOnce
<1>5. wakes' \in [Coro -> Nat]
  BY <1>1, <1>2
<1>6. CV!TypeOK'
  BY <1>1, <1>2, <1>5 DEF CV!IInv, CV!TypeOK, CV!PC
<1>7. CV!ValueInCall' /\ CV!NotifyAllServesQueue'
  BY <1>1, <1>2, <1>4 DEF CV!IInv, CV!ValueInCall, CV!NotifyAllServesQueue
<1>8. CV!OwedIsQueued'
  BY <1>1 DEF CV!IInv, CV!OwedIsQueued, CV!Waiting
<1>9. CV!WokenOnce'
  <2>1. ASSUME NEW d \in Coro PROVE CV!Places(d)' = IF cvPc'[d] = "pending" THEN 1 ELSE 0
    <3>1. CV!Places(d) = IF cvPc[d] = "pending" THEN 1 ELSE 0
      BY DEF CV!IInv, CV!WokenOnce
    <3>2. cvPc'[d] = IF c = d THEN "outside" ELSE cvPc[d]
      BY <1>1, <1>2
    <3> QED BY <1>3, <1>4, <3>1, <3>2
  <2> QED BY <2>1 DEF CV!WokenOnce
<1> QED BY <1>6, <1>7, <1>8, <1>9 DEF CV!IInv

\* Every step of every coroutine is of one of these kinds.
LEMMA CondVarStep ==
  ASSUME CV!IInv, NEW c \in Coro, CV!Start(c) \/ CV!Progress(c)
  PROVE  CV!IInv'
<1>1. /\ cvLeft \in [Coro -> 0 .. Rounds] /\ owed \in [Coro -> SUBSET Coro]
      /\ cvPc \in [Coro -> CV!PC] /\ Rounds \in Nat
  BY MutexAssumption DEF CV!IInv, CV!TypeOK
<1>2. ASSUME CV!Call(c)
      PROVE  cvPc[c] = "outside" /\ cvLeft' \in [Coro -> 0 .. Rounds]
  BY <1>1, <1>2 DEF CV!Call
<1>3. CASE CV!wait(c)
  <2>1. cvPc' = [cvPc EXCEPT ![c] = "entering"] /\ UNCHANGED <<waiters, cvValue, owed, wakes>>
    BY <1>3 DEF CV!wait, CV!Goto
  <2>2. CV!Call(c)
    BY <1>3 DEF CV!wait
  <2> QED BY <1>2, <2>1, <2>2, CondVarCallStep DEF CV!PC
<1>4. CASE CV!notify_one(c) /\ CV!empty(waiters)
  <2>1. UNCHANGED <<waiters, cvValue, cvPc, owed, wakes>> /\ CV!Call(c)
    BY <1>4 DEF CV!notify_one, CV!Pop
  <2>2. cvPc' = [cvPc EXCEPT ![c] = "outside"]
    BY <1>1, <1>2, <2>1
  <2> QED BY <1>2, <2>1, <2>2, CondVarCallStep DEF CV!PC
<1>5. CASE CV!notify_one(c) /\ ~CV!empty(waiters)
  <2>1. CV!Pop(c) /\ owed' = CV!Paid(CV!front(waiters), owed) /\ UNCHANGED wakes /\ CV!Call(c)
    BY <1>5 DEF CV!notify_one
  <2>2. cvPc' = [cvPc EXCEPT ![c] = "one"]
    BY <1>5 DEF CV!notify_one, CV!Goto
  <2> QED BY <1>2, <2>1, <2>2, CondVarPopStep
<1>6. CASE CV!notify_all(c)
  <2>1. /\ cvPc' = [cvPc EXCEPT ![c] = "all"] /\ UNCHANGED <<waiters, cvValue, wakes>>
        /\ owed' = [owed EXCEPT ![c] = CV!Waiting] /\ CV!Call(c)
    BY <1>6 DEF CV!notify_all, CV!Goto
  <2> QED BY <1>2, <2>1, CondVarCallStep DEF CV!PC
<1>7. CASE CV!notifyAllPop(c) /\ CV!empty(waiters)
  <2>1. /\ cvPc[c] = "all" /\ cvPc' = [cvPc EXCEPT ![c] = "outside"]
        /\ UNCHANGED <<waiters, cvValue, owed, cvLeft, wakes>>
    BY <1>7 DEF CV!notifyAllPop, CV!Goto, CV!Pop
  <2>2. owed[c] = {}
    BY <1>7 DEF CV!IInv, CV!OwedIsQueued, CV!Waiting, CV!empty
  <2> QED BY <1>1, <2>1, <2>2, CondVarCallStep DEF CV!PC
<1>8. CASE CV!notifyAllPop(c) /\ ~CV!empty(waiters)
  <2>1. /\ cvPc[c] = "all" /\ cvPc' = [cvPc EXCEPT ![c] = "allOne"]
        /\ CV!Pop(c) /\ owed' = CV!Paid(CV!front(waiters), owed) /\ UNCHANGED <<wakes, cvLeft>>
    BY <1>8 DEF CV!notifyAllPop, CV!Goto
  <2> QED BY <1>1, <2>1, CondVarPopStep
<1> QED BY <1>3, <1>4, <1>5, <1>6, <1>7, <1>8, CondVarSuspendStep, CondVarExecuteStep,
           CondVarResumedStep DEF CV!Start, CV!Progress

\* The invariant holds throughout.
THEOREM CondVarInvariant == CV!Spec => []CV!IInv
<1>1. CV!Init => CV!IInv
  BY CondVarInit
<1>2. CV!IInv /\ [CV!Next]_(CV!vars) => CV!IInv'
  <2> SUFFICES ASSUME CV!IInv, [CV!Next]_(CV!vars) PROVE CV!IInv'
    OBVIOUS
  <2>1. CASE CV!Next
    BY <2>1, CondVarStep DEF CV!Next
  <2>2. CASE UNCHANGED CV!vars
    BY <2>2 DEF CV!vars, CV!IInv, CV!TypeOK, CV!ValueInCall, CV!WokenOnce, CV!Places,
                CV!OwedIsQueued, CV!Waiting, CV!NotifyAllServesQueue
  <2> QED BY <2>1, <2>2
<1> QED BY <1>1, <1>2, PTL DEF CV!Spec

\* CondVar: the handle of a suspended coroutine is in the queue, in the local of a
\* notify or with the executor, in one of them and once, and that of a running one
\* is nowhere: no interleaving of notify_one() and notify_all() loses or doubles it.
THEOREM CondVarWakesOnce == CV!Spec => []WokenOnce
BY CondVarInvariant, PTL DEF CV!IInv, WokenOnce

\* CondVar: when a notify_all() is over, everybody who was queued when it began has
\* been popped.
THEOREM CondVarServesQueue == CV!Spec => []CV!NotifyAllServesQueue
BY CondVarInvariant, PTL DEF CV!IInv

-----------------------------------------------------------------------------
(***************************************************************************)
(* BlockingThreadPool                                                      *)
(***************************************************************************)
Alive(p) == {w \in Thread : p[w] # "none"}
Idle(p)  == {w \in Thread : p[w] \notin {"none", "running"}}
Awake(p) == {w \in Thread : p[w] \in {"created", "woken", "timedout"}}

LEMMA ThreadsFinite ==
  ASSUME NEW W \in SUBSET Thread
  PROVE  IsFiniteSet(W) /\ Cardinality(W) \in Nat /\ (Cardinality(W) = 0 <=> W = {})
BY WakeupsAssumption, FS_Subset, FS_CardinalityType, FS_EmptySet

\* FiniteSets seen through the instance is FiniteSets.
LEMMA SameCardinalityBP == ASSUME NEW S PROVE BP!Cardinality(S) = Cardinality(S)
BY DEF BP!Cardinality, Cardinality, BP!IsFiniteSet, IsFiniteSet

\* Two sets of threads that differ at most in w.
LEMMA OneMoves ==
  ASSUME NEW H \in SUBSET Thread, NEW J \in SUBSET Thread, NEW w \in Thread,
         \A v \in Thread \ {w} : v \in H <=> v \in J
  PROVE  Cardinality(J) + (IF w \in H THEN 1 ELSE 0) = Cardinality(H) + (IF w \in J THEN 1 ELSE 0)
<1> DEFINE K == H \ {w}
           h == Cardinality(H)
           j == Cardinality(J)
<1>1. K = J \ {w}
  OBVIOUS
<1>2. IsFiniteSet(H) /\ h \in Nat /\ IsFiniteSet(J) /\ j \in Nat
  BY ThreadsFinite
<1> HIDE DEF K, h, j
<1>3. Cardinality(K) = IF w \in H THEN h - 1 ELSE h
  BY <1>2, FS_RemoveElement DEF K, h
<1>4. Cardinality(K) = IF w \in J THEN j - 1 ELSE j
  BY <1>1, <1>2, FS_RemoveElement DEF j
<1>5. j + (IF w \in H THEN 1 ELSE 0) = h + (IF w \in J THEN 1 ELSE 0)
  BY <1>2, <1>3, <1>4
<1> QED BY <1>5 DEF h, j

\* Threads that were not among H join it.
LEMMA OthersJoin ==
  ASSUME NEW H \in SUBSET Thread, NEW New \in SUBSET Thread, H \cap New = {}
  PROVE  Cardinality(H \cup New) = Cardinality(H) + Cardinality(New)
<1>1. IsFiniteSet(H) /\ IsFiniteSet(New) /\ Cardinality(H) \in Nat /\ Cardinality(New) \in Nat
  BY ThreadsFinite
<1>2. Cardinality(H \cup New) = Cardinality(H) + Cardinality(New) - Cardinality(H \cap New)
  BY <1>1, FS_Union
<1>3. Cardinality(H \cap New) = 0
  BY FS_EmptySet
<1> QED BY <1>1, <1>2, <1>3

\* What one thread's move does to the three counts.
LEMMA CountsAfterMove ==
  ASSUME NEW p, NEW q, NEW w \in Thread, \A v \in Thread \ {w} : q[v] = p[v]
  PROVE  /\ p[w] # "none" /\ q[w] # "none" => Cardinality(Alive(q)) = Cardinality(Alive(p))
         /\ p[w] # "none" /\ q[w] = "none" => Cardinality(Alive(q)) = Cardinality(Alive(p)) - 1
         /\ w \in Idle(p) /\ w \in Idle(q) => Cardinality(Idle(q)) = Cardinality(Idle(p))
         /\ w \in Idle(p) /\ w \notin Idle(q) => Cardinality(Idle(q)) = Cardinality(Idle(p)) - 1
         /\ w \notin Idle(p) /\ w \in Idle(q) => Cardinality(Idle(q)) = Cardinality(Idle(p)) + 1
         /\ w \notin Idle(p) /\ w \notin Idle(q) => Cardinality(Idle(q)) = Cardinality(Idle(p))
         /\ w \in Awake(p) /\ w \notin Awake(q) => Cardinality(Awake(q)) = Cardinality(Awake(p)) - 1
         /\ w \notin Awake(p) /\ w \in Awake(q) => Cardinality(Awake(q)) = Cardinality(Awake(p)) + 1
         /\ w \notin Awake(p) /\ w \notin Awake(q) => Cardinality(Awake(q)) = Cardinality(Awake(p))
<1>1. Cardinality(Alive(q)) + (IF w \in Alive(p) THEN 1 ELSE 0) = Cardinality(Alive(p)) + (IF w \in Alive(q) THEN 1 ELSE 0)
  <2>1. /\ Alive(p) \in SUBSET Thread /\ Alive(q) \in SUBSET Thread
        /\ \A v \in Thread \ {w} : v \in Alive(p) <=> v \in Alive(q)
    BY DEF Alive
  <2> QED BY <2>1, OneMoves
<1>2. Cardinality(Idle(q)) + (IF w \in Idle(p) THEN 1 ELSE 0) = Cardinality(Idle(p)) + (IF w \in Idle(q) THEN 1 ELSE 0)
  <2>1. /\ Idle(p) \in SUBSET Thread /\ Idle(q) \in SUBSET Thread
        /\ \A v \in Thread \ {w} : v \in Idle(p) <=> v \in Idle(q)
    BY DEF Idle
  <2> QED BY <2>1, OneMoves
<1>3. Cardinality(Awake(q)) + (IF w \in Awake(p) THEN 1 ELSE 0) = Cardinality(Awake(p)) + (IF w \in Awake(q) THEN 1 ELSE 0)
  <2>1. /\ Awake(p) \in SUBSET Thread /\ Awake(q) \in SUBSET Thread
        /\ \A v \in Thread \ {w} : v \in Awake(p) <=> v \in Awake(q)
    BY DEF Awake
  <2> QED BY <2>1, OneMoves
<1>4. (w \in Alive(p) <=> p[w] # "none") /\ (w \in Alive(q) <=> q[w] # "none")
  BY DEF Alive
<1>5. /\ Cardinality(Alive(p)) \in Nat /\ Cardinality(Alive(q)) \in Nat
      /\ Cardinality(Idle(p)) \in Nat /\ Cardinality(Idle(q)) \in Nat
      /\ Cardinality(Awake(p)) \in Nat /\ Cardinality(Awake(q)) \in Nat
  <2>1. /\ Alive(p) \in SUBSET Thread /\ Alive(q) \in SUBSET Thread
        /\ Idle(p) \in SUBSET Thread /\ Idle(q) \in SUBSET Thread
        /\ Awake(p) \in SUBSET Thread /\ Awake(q) \in SUBSET Thread
    BY DEF Alive, Idle, Awake
  <2> QED BY <2>1, ThreadsFinite
<1> QED BY <1>1, <1>2, <1>3, <1>4, <1>5

\* growPool() keeps both counts exact; it either wakes everybody and leaves a new
\* thread on its way, or there was an idle thread already or no room for another.
LEMMA GrowPool ==
  ASSUME NEW p \in [Thread -> BP!PC], NEW d, NEW size \in Nat \ {0}, NEW idle \in Nat,
         BP!growPool(size, idle, p, d),
         mThreadCount = Cardinality(Alive(p)), idle = Cardinality(Idle(p)),
         mThreadCount <= threadLimit
  PROVE  /\ threadPc' \in [Thread -> BP!PC]
         /\ mThreadCount' = Cardinality(Alive(threadPc'))
         /\ mIdleCount' = Cardinality(Idle(threadPc'))
         /\ mThreadCount' <= threadLimit
         /\ blockingDtor' \in {d, "woken"} /\ (blockingDtor' = "woken" => d \in {"waiting", "woken"})
         /\ \/ /\ threadPc' = p /\ mThreadCount' = mThreadCount /\ blockingDtor' = d
               /\ idle = 0 => mThreadCount = threadLimit
            \/ /\ BP!Waiting(threadPc') = {}
               /\ \E w \in Thread : threadPc'[w] = "created"
<1>1. PICK n \in 0 .. threadLimit, New \in SUBSET {w \in Thread : p[w] = "none"} :
        /\ Cardinality(New) = n
        /\ BP!Grows(size, idle, n)
        /\ mThreadCount' = mThreadCount + n
        /\ mIdleCount' = idle + n
        /\ threadPc' = IF n = 0 THEN p
                       ELSE BP!Moved(BP!Moved(p, BP!Waiting(p), "woken"), New, "created")
        /\ blockingDtor' = IF n > 0 /\ d = "waiting" THEN "woken" ELSE d
  BY SameCardinalityBP DEF BP!growPool
<1>2. n \in Nat /\ perIdle \in Nat /\ threadLimit \in Nat /\ mThreadCount \in Nat
  BY WakeupsAssumption, ThreadsFinite DEF Alive
<1>3. CASE n = 0
  <2>1. threadPc' = p /\ mThreadCount' = mThreadCount /\ mIdleCount' = idle /\ blockingDtor' = d
    BY <1>1, <1>2, <1>3
  <2>2. idle = 0 => mThreadCount = threadLimit
    <3>1. ~(size > (idle + 0) * perIdle /\ mThreadCount + 0 < threadLimit)
      BY <1>1, <1>3 DEF BP!Grows
    <3> QED BY <1>2, <3>1
  <2> QED BY <2>1, <2>2
<1>4. CASE n # 0
  <2>1. threadPc' = [w \in Thread |-> IF w \in New THEN "created"
                                     ELSE IF p[w] = "waiting" THEN "woken" ELSE p[w]]
    BY <1>1, <1>4 DEF BP!Moved, BP!Waiting
  <2>2. New # {} /\ New \subseteq Thread /\ (\A w \in New : p[w] = "none")
    BY <1>1, <1>4, FS_EmptySet
  <2>3. threadPc' \in [Thread -> BP!PC]
    BY <2>1, <2>2 DEF BP!PC
  <2>4. Alive(threadPc') = Alive(p) \cup New /\ Alive(p) \cap New = {}
    BY <2>1, <2>2 DEF Alive
  <2>5. Idle(threadPc') = Idle(p) \cup New /\ Idle(p) \cap New = {}
    BY <2>1, <2>2 DEF Idle
  <2>6. Alive(p) \in SUBSET Thread /\ Idle(p) \in SUBSET Thread /\ New \in SUBSET Thread
    BY <2>2 DEF Alive, Idle
  <2>7. Cardinality(Alive(threadPc')) = Cardinality(Alive(p)) + n
    BY <1>1, <2>4, <2>6, OthersJoin
  <2>8. Cardinality(Idle(threadPc')) = Cardinality(Idle(p)) + n
    BY <1>1, <2>5, <2>6, OthersJoin
  <2>9. mThreadCount + (n - 1) < threadLimit
    BY <1>1, <1>2, <1>4 DEF BP!Grows
  <2>10. BP!Waiting(threadPc') = {} /\ \E w \in Thread : threadPc'[w] = "created"
    BY <2>1, <2>2 DEF BP!Waiting
  <2>11. blockingDtor' \in {d, "woken"} /\ (blockingDtor' = "woken" => d \in {"waiting", "woken"})
    BY <1>1
  <2>12. /\ mThreadCount' = Cardinality(Alive(threadPc'))
         /\ mIdleCount' = Cardinality(Idle(threadPc'))
         /\ mThreadCount' <= threadLimit
    BY <1>1, <1>2, <2>7, <2>8, <2>9
  <2> QED BY <2>3, <2>10, <2>11, <2>12
<1> QED BY <1>3, <1>4

\* The invariant in terms of the three sets.
LEMMA CountsAsSets ==
  /\ BP!CountsAreExact <=>
       mThreadCount = Cardinality(Alive(threadPc)) /\ mIdleCount = Cardinality(Idle(threadPc))
  /\ BP!CountsAreExact' <=>
       mThreadCount' = Cardinality(Alive(threadPc')) /\ mIdleCount' = Cardinality(Idle(threadPc'))
  /\ BP!ThreadPerTask <=>
       (blockingDtor = "alive" /\ BP!Waiting(threadPc) # {} =>
          Len(mQueue) <= Cardinality(Awake(threadPc)))
  /\ BP!ThreadPerTask' <=>
       (blockingDtor' = "alive" /\ BP!Waiting(threadPc') # {} =>
          Len(mQueue') <= Cardinality(Awake(threadPc')))
<1>1. ASSUME NEW S PROVE BP!Cardinality(S) = Cardinality(S)
  BY SameCardinalityBP
<1> QED BY <1>1 DEF BP!CountsAreExact, BP!ThreadPerTask, Alive, Idle, Awake

\* Idle threads are threads.
LEMMA IdleAreAlive ==
  ASSUME NEW p
  PROVE  /\ Cardinality(Idle(p)) \in Nat /\ Cardinality(Alive(p)) \in Nat
         /\ Cardinality(Idle(p)) <= Cardinality(Alive(p))
         /\ Cardinality(Idle(p)) = 0 <=> \A w \in Thread : p[w] \in {"none", "running"}
         /\ Cardinality(Awake(p)) \in Nat
         /\ Cardinality(Awake(p)) = 0 <=> ~\E w \in Thread : p[w] \in {"created", "woken", "timedout"}
<1>1. Idle(p) \in SUBSET Alive(p) /\ Alive(p) \in SUBSET Thread /\ Awake(p) \in SUBSET Thread
  BY DEF Idle, Alive, Awake
<1>2. IsFiniteSet(Alive(p)) /\ Cardinality(Alive(p)) \in Nat
  BY <1>1, ThreadsFinite
<1>3. /\ Cardinality(Idle(p)) \in Nat /\ (Cardinality(Idle(p)) = 0 <=> Idle(p) = {})
      /\ Cardinality(Awake(p)) \in Nat /\ (Cardinality(Awake(p)) = 0 <=> Awake(p) = {})
  BY <1>1, ThreadsFinite
<1>4. Cardinality(Idle(p)) <= Cardinality(Alive(p))
  BY <1>1, <1>2, FS_Subset
<1>5. Idle(p) = {} <=> \A w \in Thread : p[w] \in {"none", "running"}
  BY DEF Idle
<1>6. Awake(p) = {} <=> ~\E w \in Thread : p[w] \in {"created", "woken", "timedout"}
  BY DEF Awake
<1> QED BY <1>2, <1>3, <1>4, <1>5, <1>6

\* At the start there are no threads.
LEMMA BlockingInit == BP!Init => BP!IInv
<1> SUFFICES ASSUME BP!Init PROVE BP!IInv
  OBVIOUS
<1>1. BP!TypeOK
  BY WakeupsAssumption DEF BP!Init, BP!TypeOK, BP!PC
<1>2. Alive(threadPc) = {} /\ Idle(threadPc) = {}
  BY DEF BP!Init, Alive, Idle
<1>3. BP!CountsAreExact
  BY <1>2, CountsAsSets, FS_EmptySet DEF BP!Init
<1>4. BP!ThreadPerTask /\ BP!QueuedHasThread
  BY DEF BP!Init, BP!ThreadPerTask, BP!Waiting, BP!QueuedHasThread
<1> QED BY <1>1, <1>3, <1>4 DEF BP!IInv

\* execute(): a sleeper, if there is one, is woken for the task; else the pool grows,
\* is full, or has an idle thread that is not asleep.
LEMMA BlockingExecuteStep ==
  ASSUME BP!IInv, NEW t \in Coro, BP!execute(t)
  PROVE  BP!IInv'
<1>1. /\ mQueue \in Seq(Coro) /\ threadPc \in [Thread -> BP!PC]
      /\ mThreadCount \in 0 .. threadLimit /\ mIdleCount \in Nat
      /\ blockingDtor \in {"alive", "called", "waiting", "woken", "returned"}
      /\ state \in [Coro -> {"new", "queued", "started", "done"}]
      /\ threadTask \in [Thread -> Coro] /\ threadLimit \in Nat
  BY WakeupsAssumption DEF BP!IInv, BP!TypeOK
<1>2. mQueue' \in Seq(Coro) /\ Len(mQueue') = Len(mQueue) + 1 /\ Len(mQueue) \in Nat
  BY <1>1 DEF BP!execute
<1>3. state' \in [Coro -> {"new", "queued", "started", "done"}] /\ threadTask' = threadTask
  BY <1>1 DEF BP!execute
<1>4. PICK p, d :
        /\ BP!growPool(Len(mQueue) + 1, mIdleCount, p, d)
        /\ \/ p = threadPc /\ d = blockingDtor /\ BP!Waiting(threadPc) = {}
           \/ p = threadPc /\ d = "woken" /\ blockingDtor = "waiting"
           \/ /\ d = blockingDtor /\ p \in [Thread -> BP!PC]
              /\ \E w \in Thread : /\ threadPc[w] = "waiting" /\ p[w] = "woken"
                                  /\ \A v \in Thread \ {w} : p[v] = threadPc[v]
  <2>1. ASSUME NEW w \in BP!Waiting(threadPc), NEW p, p = BP!Moved(threadPc, {w}, "woken")
        PROVE  /\ p \in [Thread -> BP!PC] /\ w \in Thread /\ threadPc[w] = "waiting"
               /\ p[w] = "woken" /\ \A v \in Thread \ {w} : p[v] = threadPc[v]
    <3>1. w \in Thread /\ threadPc[w] = "waiting"
      BY DEF BP!Waiting
    <3>2. "woken" \in BP!PC
      BY DEF BP!PC
    <3> QED BY <1>1, <2>1, <3>1, <3>2 DEF BP!Moved
  <2> DEFINE Chosen(p, d) ==
        /\ BP!growPool(Len(mQueue) + 1, mIdleCount, p, d)
        /\ \/ p = threadPc /\ d = blockingDtor /\ BP!Waiting(threadPc) = {}
           \/ p = threadPc /\ d = "woken" /\ blockingDtor = "waiting"
           \/ /\ d = blockingDtor /\ p \in [Thread -> BP!PC]
              /\ \E w \in Thread : /\ threadPc[w] = "waiting" /\ p[w] = "woken"
                                  /\ \A v \in Thread \ {w} : p[v] = threadPc[v]
  <2>2. CASE /\ BP!Waiting(threadPc) = {}
             /\ BP!growPool(Len(mQueue) + 1, mIdleCount, threadPc, blockingDtor)
    <3>1. Chosen(threadPc, blockingDtor)
      BY <2>2
    <3> QED BY <3>1
  <2>3. CASE /\ blockingDtor = "waiting"
             /\ BP!growPool(Len(mQueue) + 1, mIdleCount, threadPc, "woken")
    <3>1. Chosen(threadPc, "woken")
      BY <2>3
    <3> QED BY <3>1
  <2>4. ASSUME NEW w \in BP!Waiting(threadPc),
               BP!growPool(Len(mQueue) + 1, mIdleCount, BP!Moved(threadPc, {w}, "woken"), blockingDtor)
        PROVE  \E p, d : Chosen(p, d)
    <3>1. Chosen(BP!Moved(threadPc, {w}, "woken"), blockingDtor)
      BY <2>1, <2>4
    <3> HIDE DEF Chosen
    <3> QED BY <3>1
  <2> QED BY <2>2, <2>3, <2>4 DEF BP!execute
<1>5. /\ p \in [Thread -> BP!PC]
      /\ mThreadCount = Cardinality(Alive(p))
      /\ mIdleCount = Cardinality(Idle(p))
  <2>1. mThreadCount = Cardinality(Alive(threadPc)) /\ mIdleCount = Cardinality(Idle(threadPc))
    BY CountsAsSets DEF BP!IInv
  <2>2. CASE p = threadPc
    BY <1>1, <2>1, <2>2
  <2>3. ASSUME NEW w \in Thread, threadPc[w] = "waiting", p[w] = "woken",
               \A v \in Thread \ {w} : p[v] = threadPc[v]
        PROVE  /\ Cardinality(Alive(p)) = Cardinality(Alive(threadPc))
               /\ Cardinality(Idle(p)) = Cardinality(Idle(threadPc))
    <3>1. w \in Idle(p) /\ w \in Idle(threadPc)
      BY <2>3 DEF Idle
    <3> QED BY <2>3, <3>1, CountsAfterMove
  <2> QED BY <1>4, <2>1, <2>2, <2>3
<1>6. /\ threadPc' \in [Thread -> BP!PC]
      /\ mThreadCount' = Cardinality(Alive(threadPc'))
      /\ mIdleCount' = Cardinality(Idle(threadPc'))
      /\ mThreadCount' <= threadLimit
      /\ blockingDtor' \in {d, "woken"} /\ (blockingDtor' = "woken" => d \in {"waiting", "woken"})
      /\ \/ /\ threadPc' = p /\ mThreadCount' = mThreadCount /\ blockingDtor' = d
            /\ mIdleCount = 0 => mThreadCount = threadLimit
         \/ /\ BP!Waiting(threadPc') = {}
            /\ \E w \in Thread : threadPc'[w] = "created"
  <2>1. Len(mQueue) + 1 \in Nat \ {0} /\ mThreadCount <= threadLimit
    BY <1>1, <1>2
  <2> QED BY <1>1, <1>4, <1>5, <2>1, GrowPool
<1>7. BP!TypeOK'
  <2>1. mThreadCount' \in 0 .. threadLimit /\ mIdleCount' \in 0 .. threadLimit
    BY <1>1, <1>6, IdleAreAlive
  <2>2. blockingDtor' \in {"alive", "called", "waiting", "woken", "returned"}
    BY <1>1, <1>4, <1>6
  <2> QED BY <1>1, <1>2, <1>3, <1>6, <2>1, <2>2 DEF BP!TypeOK
<1>8. BP!CountsAreExact'
  BY <1>6, CountsAsSets
<1>9. BP!ThreadPerTask'
  <2> SUFFICES ASSUME blockingDtor' = "alive", BP!Waiting(threadPc') # {}
               PROVE  Len(mQueue') <= Cardinality(Awake(threadPc'))
    BY CountsAsSets
  <2>1. threadPc' = p /\ d = "alive" /\ blockingDtor = "alive"
    BY <1>4, <1>6
  <2>2. PICK w \in Thread : /\ threadPc[w] = "waiting" /\ p[w] = "woken"
                            /\ \A v \in Thread \ {w} : p[v] = threadPc[v]
    BY <1>4, <2>1
  <2>3. BP!Waiting(threadPc) # {}
    BY <2>2 DEF BP!Waiting
  <2>4. w \in Awake(p) /\ w \notin Awake(threadPc)
    BY <2>2 DEF Awake
  <2>5. Cardinality(Awake(p)) = Cardinality(Awake(threadPc)) + 1
    BY <2>2, <2>4, CountsAfterMove
  <2>6. Len(mQueue) <= Cardinality(Awake(threadPc))
    BY <2>1, <2>3, CountsAsSets DEF BP!IInv
  <2> QED BY <1>2, <2>1, <2>5, <2>6, IdleAreAlive
<1>10. BP!QueuedHasThread'
  <2>1. CASE \E w \in Thread : threadPc'[w] \in {"created", "woken", "timedout"}
    BY <2>1 DEF BP!QueuedHasThread
  <2>2. CASE ~\E w \in Thread : threadPc'[w] \in {"created", "woken", "timedout"}
    <3>1. /\ threadPc' = p /\ mThreadCount' = mThreadCount /\ blockingDtor' = d
          /\ mIdleCount = 0 => mThreadCount = threadLimit
      BY <1>6, <2>2
    <3>2. p = threadPc
      BY <1>4, <2>2, <3>1
    <3>3. CASE BP!Waiting(threadPc) # {}
      <4>1. blockingDtor' = "woken" /\ BP!Waiting(threadPc') # {}
        BY <1>4, <2>2, <3>1, <3>2, <3>3
      <4> QED BY <4>1 DEF BP!QueuedHasThread
    <3>4. CASE BP!Waiting(threadPc) = {}
      <4>1. \A w \in Thread : threadPc'[w] \in {"none", "running"}
        BY <1>6, <2>2, <3>1, <3>2, <3>4 DEF BP!Waiting, BP!PC
      <4>2. mIdleCount = 0
        BY <1>5, <3>1, <4>1, IdleAreAlive
      <4> QED BY <3>1, <4>1, <4>2 DEF BP!QueuedHasThread
    <3> QED BY <3>3, <3>4
  <2> QED BY <2>1, <2>2
<1> QED BY <1>7, <1>8, <1>9, <1>10 DEF BP!IInv

\* A thread takes a task: whoever still has to look at the queue looks at the rest,
\* and the pool grows when nobody has to.
LEMMA BlockingTakeStep ==
  ASSUME BP!IInv, NEW w \in Thread, threadPc[w] \in {"created", "running", "woken", "timedout"},
         NEW idle, idle = mIdleCount - (IF threadPc[w] = "running" THEN 0 ELSE 1),
         mQueue # <<>>, BP!takeOrWait(w, idle)
  PROVE  BP!IInv'
<1> DEFINE p == BP!Moved(threadPc, {w}, "running")
<1>1. /\ mQueue \in Seq(Coro) /\ threadPc \in [Thread -> BP!PC]
      /\ mThreadCount \in 0 .. threadLimit /\ mIdleCount \in Nat
      /\ blockingDtor \in {"alive", "called", "waiting", "woken", "returned"}
      /\ state \in [Coro -> {"new", "queued", "started", "done"}]
      /\ threadTask \in [Thread -> Coro] /\ threadLimit \in Nat
  BY WakeupsAssumption DEF BP!IInv, BP!TypeOK
<1>2. /\ mQueue' = Tail(mQueue) /\ threadTask' = [threadTask EXCEPT ![w] = Head(mQueue)]
      /\ state' = [s \in Coro |->
           IF s = Head(mQueue) THEN "started"
           ELSE IF threadPc[w] = "running" /\ s = threadTask[w] THEN "done" ELSE state[s]]
      /\ BP!growPool(Len(mQueue), idle, p, blockingDtor)
  BY DEF BP!takeOrWait, BP!growInLoop
<1>3. /\ mQueue' \in Seq(Coro) /\ Len(mQueue') = Len(mQueue) - 1 /\ Len(mQueue) \in Nat \ {0}
      /\ Head(mQueue) \in Coro /\ (mQueue' # <<>> => Len(mQueue') > 0)
  BY <1>1, <1>2
<1>4. /\ p \in [Thread -> BP!PC] /\ p[w] = "running"
      /\ \A v \in Thread \ {w} : p[v] = threadPc[v]
  <2>1. "running" \in BP!PC
    BY DEF BP!PC
  <2> QED BY <1>1, <2>1 DEF BP!Moved
<1> HIDE DEF p
<1>5. /\ mThreadCount = Cardinality(Alive(p))
      /\ idle = Cardinality(Idle(p)) /\ idle \in Nat
      /\ Cardinality(Awake(p)) + (IF threadPc[w] = "running" THEN 0 ELSE 1)
           = Cardinality(Awake(threadPc))
  <2>1. mThreadCount = Cardinality(Alive(threadPc)) /\ mIdleCount = Cardinality(Idle(threadPc))
    BY CountsAsSets DEF BP!IInv
  <2>2. Cardinality(Alive(p)) = Cardinality(Alive(threadPc))
    BY <1>4, CountsAfterMove
  <2>3. /\ w \notin Idle(p) /\ w \notin Awake(p)
        /\ w \in Idle(threadPc) <=> threadPc[w] # "running"
        /\ w \in Awake(threadPc) <=> threadPc[w] # "running"
    BY <1>4 DEF Idle, Awake
  <2>4. CASE threadPc[w] = "running"
    <3>1. /\ Cardinality(Idle(p)) = Cardinality(Idle(threadPc))
          /\ Cardinality(Awake(p)) = Cardinality(Awake(threadPc))
      BY <1>4, <2>3, <2>4, CountsAfterMove
    <3> QED BY <1>1, <2>1, <2>2, <2>4, <3>1, IdleAreAlive
  <2>5. CASE threadPc[w] # "running"
    <3>1. /\ Cardinality(Idle(p)) = Cardinality(Idle(threadPc)) - 1
          /\ Cardinality(Awake(p)) = Cardinality(Awake(threadPc)) - 1
      BY <1>4, <2>3, <2>5, CountsAfterMove
    <3> QED BY <1>1, <2>1, <2>2, <2>5, <3>1, IdleAreAlive
  <2> QED BY <2>4, <2>5
<1>6. /\ threadPc' \in [Thread -> BP!PC]
      /\ mThreadCount' = Cardinality(Alive(threadPc'))
      /\ mIdleCount' = Cardinality(Idle(threadPc'))
      /\ mThreadCount' <= threadLimit
      /\ blockingDtor' \in {blockingDtor, "woken"}
      /\ blockingDtor' = "woken" => blockingDtor \in {"waiting", "woken"}
      /\ \/ /\ threadPc' = p /\ mThreadCount' = mThreadCount /\ blockingDtor' = blockingDtor
            /\ idle = 0 => mThreadCount = threadLimit
         \/ /\ BP!Waiting(threadPc') = {}
            /\ \E v \in Thread : threadPc'[v] = "created"
  <2>1. mThreadCount <= threadLimit
    BY <1>1
  <2> QED BY <1>2, <1>3, <1>4, <1>5, <2>1, GrowPool
<1>7. BP!TypeOK'
  <2>1. mThreadCount' \in 0 .. threadLimit /\ mIdleCount' \in 0 .. threadLimit
    BY <1>1, <1>6, IdleAreAlive
  <2>2. blockingDtor' \in {"alive", "called", "waiting", "woken", "returned"}
    BY <1>1, <1>6
  <2>3. state' \in [Coro -> {"new", "queued", "started", "done"}] /\ threadTask' \in [Thread -> Coro]
    BY <1>1, <1>2, <1>3
  <2> QED BY <1>3, <1>6, <2>1, <2>2, <2>3 DEF BP!TypeOK
<1>8. BP!CountsAreExact'
  BY <1>6, CountsAsSets
<1>9. BP!ThreadPerTask'
  <2> SUFFICES ASSUME blockingDtor' = "alive", BP!Waiting(threadPc') # {}
               PROVE  Len(mQueue') <= Cardinality(Awake(threadPc'))
    BY CountsAsSets
  <2>1. threadPc' = p /\ blockingDtor = "alive"
    BY <1>6
  <2>2. BP!Waiting(threadPc) # {}
    BY <1>4, <2>1 DEF BP!Waiting
  <2>3. Len(mQueue) <= Cardinality(Awake(threadPc))
    BY <2>1, <2>2, CountsAsSets DEF BP!IInv
  <2> QED BY <1>3, <1>5, <2>1, <2>3, IdleAreAlive
<1>10. BP!QueuedHasThread'
  <2> SUFFICES ASSUME mQueue' # <<>>, ~\E v \in Thread : threadPc'[v] \in {"created", "woken", "timedout"}
               PROVE  BP!QueuedHasThread'
    BY DEF BP!QueuedHasThread
  <2>1. threadPc' = p /\ mThreadCount' = mThreadCount /\ (idle = 0 => mThreadCount = threadLimit)
    BY <1>6
  <2>2. CASE BP!Waiting(threadPc') # {}
    <3>1. Cardinality(Awake(threadPc')) = 0
      BY IdleAreAlive
    <3>2. blockingDtor' # "alive"
      BY <1>3, <1>9, <2>2, <3>1, CountsAsSets
    <3> QED BY <2>2, <3>2 DEF BP!QueuedHasThread
  <2>3. CASE BP!Waiting(threadPc') = {}
    <3>1. \A v \in Thread : threadPc'[v] \in {"none", "running"}
      BY <1>6, <2>3 DEF BP!Waiting, BP!PC
    <3>2. idle = 0
      BY <1>5, <2>1, <3>1, IdleAreAlive
    <3> QED BY <2>1, <3>1, <3>2 DEF BP!QueuedHasThread
  <2> QED BY <2>2, <2>3
<1> QED BY <1>7, <1>8, <1>9, <1>10 DEF BP!IInv

\* A thread's step with an empty queue: nobody can be missing for a task.
LEMMA BlockingQuietStep ==
  ASSUME BP!IInv, NEW w \in Thread, mQueue = <<>>, mQueue' = <<>>, NEW to \in BP!PC,
         threadPc' \in [Thread -> BP!PC], threadPc'[w] = to,
         \A v \in Thread \ {w} : threadPc'[v] = threadPc[v],
         threadPc[w] \in {"created", "running", "woken", "timedout"},
         \/ /\ to = "none" /\ threadPc[w] # "running"
            /\ mThreadCount' = mThreadCount - 1 /\ mIdleCount' = mIdleCount - 1
         \/ /\ to = "waiting" /\ mThreadCount' = mThreadCount
            /\ mIdleCount' = IF threadPc[w] = "running" THEN mIdleCount + 1 ELSE mIdleCount,
         blockingDtor' = blockingDtor, threadTask' = threadTask,
         state' \in [Coro -> {"new", "queued", "started", "done"}]
  PROVE  BP!IInv'
<1>1. /\ threadPc \in [Thread -> BP!PC] /\ threadTask \in [Thread -> Coro]
      /\ mThreadCount \in 0 .. threadLimit /\ threadLimit \in Nat
      /\ blockingDtor \in {"alive", "called", "waiting", "woken", "returned"}
  BY WakeupsAssumption DEF BP!IInv, BP!TypeOK
<1>2. /\ threadPc' \in [Thread -> BP!PC] /\ threadPc'[w] = to
      /\ \A v \in Thread \ {w} : threadPc'[v] = threadPc[v]
  OBVIOUS
<1>3. mThreadCount = Cardinality(Alive(threadPc)) /\ mIdleCount = Cardinality(Idle(threadPc))
  BY CountsAsSets DEF BP!IInv
<1>4. mThreadCount' = Cardinality(Alive(threadPc'))
  <2>1. threadPc[w] # "none"
    OBVIOUS
  <2>2. to # "none" => Cardinality(Alive(threadPc')) = Cardinality(Alive(threadPc))
    BY <1>2, <2>1, CountsAfterMove
  <2>3. to = "none" => Cardinality(Alive(threadPc')) = Cardinality(Alive(threadPc)) - 1
    BY <1>2, <2>1, CountsAfterMove
  <2> QED BY <1>3, <2>2, <2>3
<1>5. mIdleCount' = Cardinality(Idle(threadPc'))
  <2>1. /\ w \in Idle(threadPc) <=> threadPc[w] # "running"
        /\ w \in Idle(threadPc') <=> to # "none" /\ to # "running"
    BY <1>2 DEF Idle
  <2>2. CASE to = "none" /\ threadPc[w] # "running" /\ mIdleCount' = mIdleCount - 1
    <3>1. Cardinality(Idle(threadPc')) = Cardinality(Idle(threadPc)) - 1
      BY <1>2, <2>1, <2>2, CountsAfterMove
    <3> QED BY <1>3, <2>2, <3>1
  <2>3. CASE to = "waiting" /\ threadPc[w] = "running"
    <3>1. Cardinality(Idle(threadPc')) = Cardinality(Idle(threadPc)) + 1
      BY <1>2, <2>1, <2>3, CountsAfterMove
    <3> QED BY <1>3, <2>3, <3>1
  <2>4. CASE to = "waiting" /\ threadPc[w] # "running"
    <3>1. Cardinality(Idle(threadPc')) = Cardinality(Idle(threadPc))
      BY <1>2, <2>1, <2>4, CountsAfterMove
    <3> QED BY <1>3, <2>4, <3>1
  <2> QED BY <2>2, <2>3, <2>4
<1>6. BP!TypeOK'
  <2>1. mThreadCount' \in 0 .. threadLimit /\ mIdleCount' \in 0 .. threadLimit
    BY <1>1, <1>4, <1>5, IdleAreAlive
  <2>2. mQueue' \in Seq(Coro)
    OBVIOUS
  <2> QED BY <1>1, <1>2, <2>1, <2>2 DEF BP!TypeOK
<1>7. BP!CountsAreExact'
  BY <1>4, <1>5, CountsAsSets
<1>8. BP!ThreadPerTask'
  BY CountsAsSets, IdleAreAlive
<1>9. BP!QueuedHasThread'
  BY DEF BP!QueuedHasThread
<1> QED BY <1>6, <1>7, <1>8, <1>9 DEF BP!IInv

\* start(), resumeReturns() and goOn(): a task is taken, or the thread goes to sleep.
LEMMA BlockingLookStep ==
  ASSUME BP!IInv, NEW w \in Thread,
         threadPc[w] \in {"created", "running", "woken", "timedout"},
         NEW idle, idle = mIdleCount - (IF threadPc[w] = "running" THEN 0 ELSE 1),
         BP!takeOrWait(w, idle)
  PROVE  BP!IInv'
<1>1. CASE mQueue # <<>>
  BY <1>1, BlockingTakeStep
<1>2. CASE mQueue = <<>>
  <2>1. /\ mIdleCount' = idle + 1 /\ threadPc' = BP!Moved(threadPc, {w}, "waiting")
        /\ state' = [s \in Coro |->
             IF threadPc[w] = "running" /\ s = threadTask[w] THEN "done" ELSE state[s]]
        /\ UNCHANGED <<mQueue, mThreadCount, threadTask, blockingDtor>>
    BY <1>2 DEF BP!takeOrWait
  <2>2. mIdleCount \in Nat /\ state \in [Coro -> {"new", "queued", "started", "done"}]
    BY WakeupsAssumption DEF BP!IInv, BP!TypeOK
  <2>3. state' \in [Coro -> {"new", "queued", "started", "done"}]
    BY <2>1, <2>2
  <2>4. mIdleCount' = IF threadPc[w] = "running" THEN mIdleCount + 1 ELSE mIdleCount
    BY <2>1, <2>2
  <2>5. "waiting" \in BP!PC
    BY DEF BP!PC
  <2>6. /\ threadPc' \in [Thread -> BP!PC] /\ threadPc'[w] = "waiting"
        /\ \A v \in Thread \ {w} : threadPc'[v] = threadPc[v]
    BY <2>1, <2>5 DEF BP!Moved, BP!IInv, BP!TypeOK
  <2> QED BY <1>2, <2>1, <2>3, <2>4, <2>5, <2>6, BlockingQuietStep
<1> QED BY <1>1, <1>2

\* A wait times out: the thread has to look at the queue, as if it had been notified.
LEMMA BlockingTimeoutStep ==
  ASSUME BP!IInv, NEW w \in Thread, BP!timeout(w)
  PROVE  BP!IInv'
<1>1. /\ threadPc[w] = "waiting" /\ threadPc' = BP!Moved(threadPc, {w}, "timedout")
      /\ UNCHANGED <<mQueue, mIdleCount, mThreadCount, state, threadTask, blockingDtor>>
      /\ threadPc \in [Thread -> BP!PC]
  BY DEF BP!timeout, BP!IInv, BP!TypeOK
<1>2. /\ threadPc' \in [Thread -> BP!PC] /\ threadPc'[w] = "timedout"
      /\ \A v \in Thread \ {w} : threadPc'[v] = threadPc[v]
  <2>1. "timedout" \in BP!PC
    BY DEF BP!PC
  <2> QED BY <1>1, <2>1 DEF BP!Moved
<1>3. /\ Cardinality(Alive(threadPc')) = Cardinality(Alive(threadPc))
      /\ Cardinality(Idle(threadPc')) = Cardinality(Idle(threadPc))
      /\ Cardinality(Awake(threadPc')) = Cardinality(Awake(threadPc)) + 1
  <2>1. /\ w \in Idle(threadPc) /\ w \in Idle(threadPc')
        /\ w \notin Awake(threadPc) /\ w \in Awake(threadPc')
    BY <1>1, <1>2 DEF Idle, Awake
  <2> QED BY <1>1, <1>2, <2>1, CountsAfterMove
<1>4. BP!TypeOK'
  BY <1>1, <1>2 DEF BP!IInv, BP!TypeOK
<1>5. BP!CountsAreExact'
  BY <1>1, <1>3, CountsAsSets DEF BP!IInv
<1>6. BP!ThreadPerTask'
  <2> SUFFICES ASSUME blockingDtor' = "alive"
               PROVE  Len(mQueue') <= Cardinality(Awake(threadPc'))
    BY CountsAsSets
  <2>1. BP!Waiting(threadPc) # {}
    BY <1>1 DEF BP!Waiting
  <2>2. Len(mQueue) <= Cardinality(Awake(threadPc)) /\ Len(mQueue) \in Nat
    BY <1>1, <2>1, CountsAsSets DEF BP!IInv, BP!TypeOK
  <2> QED BY <1>1, <1>3, <2>2, IdleAreAlive
<1>7. BP!QueuedHasThread'
  BY <1>2 DEF BP!QueuedHasThread
<1> QED BY <1>4, <1>5, <1>6, <1>7 DEF BP!IInv

\* A thread leaves, past an empty queue.
LEMMA BlockingLeaveStep ==
  ASSUME BP!IInv, NEW w \in Thread, BP!leave(w)
  PROVE  BP!IInv'
<1>1. /\ threadPc[w] \in {"woken", "timedout"} /\ mQueue = <<>>
      /\ mIdleCount' = mIdleCount - 1 /\ mThreadCount' = mThreadCount - 1
      /\ threadPc' = BP!Moved(threadPc, {w}, "none")
      /\ UNCHANGED <<mQueue, state, threadTask, blockingDtor>>
  BY DEF BP!leave, BP!mayLeave, BP!idleAfterLeave
<1>2. "none" \in BP!PC /\ state' \in [Coro -> {"new", "queued", "started", "done"}]
  BY <1>1 DEF BP!PC, BP!IInv, BP!TypeOK
<1>3. /\ threadPc' \in [Thread -> BP!PC] /\ threadPc'[w] = "none"
      /\ \A v \in Thread \ {w} : threadPc'[v] = threadPc[v]
  BY <1>1, <1>2 DEF BP!Moved, BP!IInv, BP!TypeOK
<1> QED BY <1>1, <1>2, <1>3, BlockingQuietStep

\* The destructor's steps: from the call on, its waiting may take a notification.
LEMMA BlockingDtorStep ==
  ASSUME BP!IInv, BP!destroy \/ BP!dtorLook
  PROVE  BP!IInv'
<1>1. /\ UNCHANGED <<mQueue, mIdleCount, mThreadCount, threadPc, state, threadTask>>
      /\ blockingDtor' \in {"called", "returned", "waiting"}
  BY DEF BP!destroy, BP!dtorLook
<1>2. BP!TypeOK' /\ BP!CountsAreExact'
  BY <1>1 DEF BP!IInv, BP!TypeOK, BP!CountsAreExact
<1>3. BP!ThreadPerTask' /\ BP!QueuedHasThread'
  BY <1>1 DEF BP!IInv, BP!ThreadPerTask, BP!QueuedHasThread, BP!Waiting
<1> QED BY <1>2, <1>3 DEF BP!IInv

\* The invariant holds throughout.
THEOREM BlockingPoolInvariant == BP!Spec => []BP!IInv
<1>1. BP!Init => BP!IInv
  BY BlockingInit
<1>2. BP!IInv /\ [BP!Next]_(BP!vars) => BP!IInv'
  <2> SUFFICES ASSUME BP!IInv, [BP!Next]_(BP!vars) PROVE BP!IInv'
    OBVIOUS
  <2>1. ASSUME NEW t \in Coro, BP!execute(t) PROVE BP!IInv'
    BY <2>1, BlockingExecuteStep
  <2>2. ASSUME NEW w \in Thread, BP!Loop(w) \/ BP!resumeReturns(w) \/ BP!timeout(w)
        PROVE  BP!IInv'
    <3>1. CASE BP!start(w)
      BY <3>1, BlockingLookStep DEF BP!start
    <3>2. CASE BP!resumeReturns(w)
      <4>1. mIdleCount = mIdleCount - 0
        BY WakeupsAssumption DEF BP!IInv, BP!TypeOK
      <4> QED BY <3>2, <4>1, BlockingLookStep DEF BP!resumeReturns
    <3>3. CASE BP!goOn(w)
      BY <3>3, BlockingLookStep DEF BP!goOn
    <3> QED BY <2>2, <3>1, <3>2, <3>3, BlockingTimeoutStep, BlockingLeaveStep DEF BP!Loop
  <2>3. CASE BP!destroy \/ BP!dtorLook
    BY <2>3, BlockingDtorStep
  <2>4. CASE UNCHANGED BP!vars
    BY <2>4 DEF BP!vars, BP!IInv, BP!TypeOK, BP!CountsAreExact, BP!ThreadPerTask,
                BP!QueuedHasThread, BP!Waiting
  <2> QED BY <2>1, <2>2, <2>3, <2>4 DEF BP!Next
<1> QED BY <1>1, <1>2, PTL DEF BP!Spec

\* BlockingThreadPool: mThreadCount and mIdleCount, which every growPool() goes by and
\* four places change, are those of the threads there are.
THEOREM BlockingCountsExact == BP!Spec => []CountsAreExact
BY BlockingPoolInvariant, PTL DEF BP!IInv, CountsAreExact

\* BlockingThreadPool: no queued task is slept past or left behind by a thread that
\* times out, unless all threads there may be are busy or the destructor has taken a
\* notification.
THEOREM BlockingQueuedHasThread == BP!Spec => []QueuedHasThread
BY BlockingPoolInvariant, PTL DEF BP!IInv, QueuedHasThread

-----------------------------------------------------------------------------
(***************************************************************************)
(* ThreadPool                                                              *)
(***************************************************************************)
\* What counting up and down modulo M does to a number that stays within M of zero.
LEMMA CountUp ==
  ASSUME NEW M \in Nat, NEW n \in Int, 0 - M < n, n + 1 < M,
         NEW total, total = IF n >= 0 THEN n ELSE n + M
  PROVE  (total + 1) % M = IF n + 1 >= 0 THEN n + 1 ELSE n + 1 + M
<1>1. ASSUME NEW x \in Nat, x < M PROVE x % M = x
  BY <1>1
<1>2. M \in Nat \ {0} /\ M % M = 0
  OBVIOUS
<1>3. CASE n >= 0
  BY <1>1, <1>3
<1>4. CASE n = 0 - 1
  BY <1>2, <1>4
<1>5. CASE n < 0 - 1
  BY <1>1, <1>5
<1> QED BY <1>3, <1>4, <1>5

LEMMA CountDown ==
  ASSUME NEW M \in Nat, NEW n \in Int, 0 - M < n - 1, n < M,
         NEW total, total = IF n >= 0 THEN n ELSE n + M
  PROVE  (total - 1) % M = IF n - 1 >= 0 THEN n - 1 ELSE n - 1 + M
<1>1. ASSUME NEW x \in Nat, x < M PROVE x % M = x
  BY <1>1
<1>2. M \in Nat \ {0} /\ (0 - 1) % M = M - 1
  OBVIOUS
<1>3. CASE n > 0
  BY <1>1, <1>3
<1>4. CASE n = 0
  BY <1>2, <1>4
<1>5. CASE n < 0
  BY <1>1, <1>5
<1> QED BY <1>3, <1>4, <1>5

\* FiniteSets seen through the instance is FiniteSets.
LEMMA SameCardinalityTP == ASSUME NEW S PROVE TP!Cardinality(S) = Cardinality(S)
BY DEF TP!Cardinality, Cardinality, TP!IsFiniteSet, IsFiniteSet

LEMMA TasksFinite ==
  ASSUME NEW U \in SUBSET Coro
  PROVE  IsFiniteSet(U) /\ Cardinality(U) \in Nat /\ Cardinality(U) < Modulus
<1>1. IsFiniteSet(U) /\ Cardinality(U) \in Nat /\ Cardinality(U) <= Cardinality(Coro)
  BY WakeupsAssumption, FS_Subset, FS_CardinalityType
<1>2. Cardinality(Coro) \in Nat /\ Cardinality(Coro) < Modulus /\ Modulus \in Nat
  BY WakeupsAssumption, FS_CardinalityType
<1> QED BY <1>1, <1>2

\* The count of mTaskTotal through the cardinalities of this module.
LEMMA TotalAsSets ==
  /\ TP!TotalIsExact <=>
       mTaskTotal = IF Cardinality(TP!Counted) - Cardinality(TP!Discounted) >= 0
                    THEN Cardinality(TP!Counted) - Cardinality(TP!Discounted)
                    ELSE Cardinality(TP!Counted) - Cardinality(TP!Discounted) + Modulus
  /\ TP!TotalIsExact' <=>
       mTaskTotal' = IF Cardinality(TP!Counted') - Cardinality(TP!Discounted') >= 0
                    THEN Cardinality(TP!Counted') - Cardinality(TP!Discounted')
                    ELSE Cardinality(TP!Counted') - Cardinality(TP!Discounted') + Modulus
<1>1. /\ TP!Cardinality(TP!Counted) = Cardinality(TP!Counted)
      /\ TP!Cardinality(TP!Discounted) = Cardinality(TP!Discounted)
  BY SameCardinalityTP
<1>2. /\ TP!Cardinality(TP!Counted') = Cardinality(TP!Counted')
      /\ TP!Cardinality(TP!Discounted') = Cardinality(TP!Discounted')
  BY SameCardinalityTP
<1>3. /\ TP!Cardinality(TP!Counted)' = TP!Cardinality(TP!Counted')
      /\ TP!Cardinality(TP!Discounted)' = TP!Cardinality(TP!Discounted')
  OBVIOUS
<1> QED BY <1>1, <1>2, <1>3 DEF TP!TotalIsExact

\* At the start nothing is submitted.
LEMMA PoolInit == TP!Init => TP!IInv
<1> SUFFICES ASSUME TP!Init PROVE TP!IInv
  OBVIOUS
<1>1. Modulus \in Nat /\ Modulus > 0
  BY TasksFinite, WakeupsAssumption, FS_CardinalityType
<1>2. TP!TypeOK
  <2>1. mTasks \in Seq(Coro) /\ ran \subseteq Coro /\ early \subseteq Coro
    BY DEF TP!Init
  <2>2. mTaskTotal \in 0 .. Modulus - 1
    BY <1>1 DEF TP!Init
  <2>3. /\ stage \in [Coro -> {"new", "count", "notify", "submitted"}]
        /\ workerTask \in [Worker -> Coro \cup {None}]
    BY DEF TP!Init
  <2>4. workerPc \in [Worker -> {"top", "lock", "doze", "sleep", "take", "resume", "done", "exited"}]
    BY DEF TP!Init
  <2> QED BY <2>1, <2>2, <2>3, <2>4 DEF TP!Init, TP!TypeOK
<1>3. TP!MutexOK
  BY WakeupsAssumption DEF TP!Init, TP!MutexOK
<1>4. TP!TasksRunOnce /\ TP!CallersRun
  BY DEF TP!Init, TP!TasksRunOnce, TP!HasTask, TP!CallersRun, TP!Calling
<1>5. TP!Counted = {} /\ TP!Discounted = {}
  BY DEF TP!Init, TP!Counted, TP!Discounted
<1>6. TP!TotalIsExact
  BY <1>5, TotalAsSets, FS_EmptySet DEF TP!Init
<1> QED BY <1>2, <1>3, <1>4, <1>6 DEF TP!IInv

\* A step of control: no task moves, and the calls can only come to an end.
PoolControl ==
  /\ mTasks' = mTasks /\ mTaskTotal' = mTaskTotal /\ workerTask' = workerTask /\ ran' = ran
  /\ \A w \in Worker : \/ workerPc'[w] = workerPc[w]
                       \/ workerPc[w] \notin {"resume", "done"} /\ workerPc'[w] \notin {"resume", "done"}
  /\ \A t \in Coro : stage'[t] = stage[t] \/ (stage[t] = "notify" /\ stage'[t] = "submitted")
  /\ dtor = "alive" => dtor' = "alive" \/ \A t \in Coro : Parent[t] = None => ~TP!Calling(t)

LEMMA PoolControlStep ==
  ASSUME TP!IInv, TP!TypeOK', TP!MutexOK', PoolControl
  PROVE  TP!IInv'
<1> USE DEF PoolControl
<1>1. ASSUME NEW w \in Worker
      PROVE  /\ TP!HasTask(w)' <=> TP!HasTask(w)
             /\ workerPc'[w] = "done" <=> workerPc[w] = "done"
             /\ \A t : TP!Runs(w, t)' <=> TP!Runs(w, t)
  BY DEF TP!HasTask, TP!Runs
<1>2. ASSUME NEW t \in Coro
      PROVE  /\ stage'[t] = "new" <=> stage[t] = "new"
             /\ stage'[t] \in {"notify", "submitted"} <=> stage[t] \in {"notify", "submitted"}
             /\ TP!Calling(t)' => TP!Calling(t)
  BY DEF TP!Calling
<1>3. TP!Pushed' = TP!Pushed /\ TP!Counted' = TP!Counted
  BY <1>2 DEF TP!Pushed, TP!Counted
<1>4. TP!Discounted' = TP!Discounted
  BY <1>1 DEF TP!Discounted
<1>5. TP!TasksRunOnce'
  <2>1. \A i \in DOMAIN mTasks : mTasks[i] \in Coro
    BY DEF TP!IInv, TP!TypeOK
  <2>2. ASSUME NEW i \in DOMAIN mTasks'
        PROVE  /\ stage'[mTasks'[i]] # "new" /\ mTasks'[i] \notin ran'
               /\ \A w \in Worker : TP!HasTask(w)' => workerTask'[w] # mTasks'[i]
    BY <1>1, <1>2, <2>1 DEF TP!IInv, TP!TasksRunOnce
  <2>3. /\ \A i, j \in DOMAIN mTasks' : mTasks'[i] = mTasks'[j] => i = j
        /\ \A w, v \in Worker : TP!HasTask(w)' /\ TP!HasTask(v)' /\ workerTask'[w] = workerTask'[v] => w = v
        /\ \A w \in Worker : TP!HasTask(w)' =>
             /\ workerTask'[w] \in TP!Pushed'
             /\ workerTask'[w] \in ran' <=> workerPc'[w] = "done"
        /\ ran' \subseteq TP!Pushed'
    BY <1>1, <1>3 DEF TP!IInv, TP!TasksRunOnce
  <2> QED BY <2>2, <2>3 DEF TP!TasksRunOnce
<1>6. TP!CallersRun'
  <2>1. ASSUME NEW t \in Coro, TP!Calling(t)'
        PROVE  IF Parent[t] = None THEN dtor' = "alive" ELSE \E w \in Worker : TP!Runs(w, Parent[t])'
    BY <1>1, <1>2, <2>1 DEF TP!IInv, TP!CallersRun
  <2>2. ASSUME NEW t \in Coro, NEW u \in Coro, TP!Calling(t)', TP!Calling(u)',
               Parent[t] = Parent[u], Parent[t] # None
        PROVE  t = u
    BY <1>2, <2>2 DEF TP!IInv, TP!CallersRun
  <2> QED BY <2>1, <2>2 DEF TP!CallersRun
<1>7. TP!TotalIsExact'
  BY <1>3, <1>4, TotalAsSets DEF TP!IInv
<1> QED BY <1>5, <1>6, <1>7 DEF TP!IInv

\* The mutex and the types, step by step: whoever finds the queue not empty still
\* finds it so when the front is taken.
LEMMA PoolTaskTypes ==
  ASSUME TP!IInv, NEW t \in Coro, TP!execute(t)
  PROVE  TP!TypeOK' /\ TP!MutexOK'
<1> USE DEF TP!IInv
<1>1. Modulus \in Nat /\ Modulus > 0
  BY TasksFinite, WakeupsAssumption, FS_CardinalityType
<1>2. CASE TP!pushTask(t)
  <2>1. mTasks' = Append(mTasks, t) /\ mTasks' # <<>> /\ mTasks' \in Seq(Coro)
    BY <1>2 DEF TP!pushTask, TP!TypeOK
  <2>2. UNCHANGED <<mTaskTotal, workerPc, workerTask, ran, mTaskMt, mRunning, mWaiting, dtor, early, missed>>
    BY <1>2 DEF TP!pushTask, TP!workVars, TP!dtorVars
  <2>3. stage' \in [Coro -> {"new", "count", "notify", "submitted"}]
    BY <1>2 DEF TP!pushTask, TP!TypeOK
  <2>4. TP!TypeOK'
    BY <2>1, <2>2, <2>3 DEF TP!TypeOK
  <2>5. TP!MutexOK'
    BY <2>1, <2>2 DEF TP!MutexOK
  <2> QED BY <2>4, <2>5
<1>3. CASE TP!countTask(t)
  <2>1. UNCHANGED <<mTasks, workerPc, workerTask, ran, mTaskMt, mRunning, mWaiting, dtor, early, missed>>
    BY <1>3 DEF TP!countTask, TP!workVars, TP!dtorVars
  <2>2. mTaskTotal' \in 0 .. Modulus - 1
    BY <1>1, <1>3 DEF TP!countTask, TP!TypeOK
  <2>3. stage' \in [Coro -> {"new", "count", "notify", "submitted"}]
    BY <1>3 DEF TP!countTask, TP!TypeOK
  <2>4. TP!TypeOK'
    BY <2>1, <2>2, <2>3 DEF TP!TypeOK
  <2>5. TP!MutexOK'
    BY <2>1 DEF TP!MutexOK
  <2> QED BY <2>4, <2>5
<1>4. CASE TP!notifyTask(t)
  <2>1. UNCHANGED <<mTasks, mTaskTotal, workerTask, ran, mTaskMt, mRunning, mWaiting, dtor, early, missed>>
    BY <1>4 DEF TP!notifyTask, TP!dtorVars
  <2>2. stage' \in [Coro -> {"new", "count", "notify", "submitted"}]
    BY <1>4 DEF TP!notifyTask, TP!TypeOK
  <2>3. \/ UNCHANGED workerPc
        \/ \E w \in Worker : workerPc[w] = "sleep" /\ workerPc' = [workerPc EXCEPT ![w] = "lock"]
    BY <1>4 DEF TP!notifyTask, TP!Sleepers
  <2>4. workerPc' \in [Worker -> {"top", "lock", "doze", "sleep", "take", "resume", "done", "exited"}]
    BY <2>3 DEF TP!TypeOK
  <2>5. TP!TypeOK'
    BY <2>1, <2>2, <2>4 DEF TP!TypeOK
  <2>6. ASSUME NEW w \in Worker
        PROVE  workerPc'[w] = workerPc[w] \/ (workerPc[w] = "sleep" /\ workerPc'[w] = "lock")
    BY <2>3 DEF TP!TypeOK
  <2>7. TP!MutexOK'
    BY <2>1, <2>6 DEF TP!MutexOK
  <2> QED BY <2>5, <2>7
<1> QED BY <1>2, <1>3, <1>4 DEF TP!execute

LEMMA PoolWorkTypes ==
  ASSUME TP!IInv, NEW w \in Worker, TP!Work(w)
  PROVE  TP!TypeOK' /\ TP!MutexOK'
<1> USE DEF TP!IInv
<1>1. Modulus \in Nat /\ Modulus > 0 /\ w # None
  BY TasksFinite, WakeupsAssumption, FS_CardinalityType
<1>2. \E to \in {"top", "lock", "doze", "sleep", "take", "resume", "done", "exited"} :
        workerPc' = [workerPc EXCEPT ![w] = to]
  BY DEF TP!Work, TP!top, TP!predicate, TP!doze, TP!take, TP!resumeReturns, TP!done, TP!Goto
<1>3. /\ workerPc' \in [Worker -> {"top", "lock", "doze", "sleep", "take", "resume", "done", "exited"}]
      /\ \A v \in Worker : v # w => workerPc'[v] = workerPc[v]
  BY <1>2 DEF TP!TypeOK
<1>4. workerPc[w] = "take" /\ mRunning => mTasks # <<>> /\ Head(mTasks) \in Coro /\ Tail(mTasks) \in Seq(Coro)
  BY DEF TP!MutexOK, TP!TypeOK
<1>5. CASE TP!top(w)
  <2>1. UNCHANGED <<mTasks, mTaskTotal, workerTask, ran, mTaskMt, stage, mRunning, mWaiting, dtor, early, missed>>
    BY <1>5 DEF TP!top, TP!dtorVars
  <2>2. workerPc[w] = "top" /\ workerPc'[w] \in {"lock", "exited"}
    BY <1>5 DEF TP!top, TP!Goto, TP!TypeOK
  <2>3. TP!TypeOK'
    BY <1>3, <2>1 DEF TP!TypeOK
  <2>4. TP!MutexOK'
    BY <1>3, <2>1, <2>2 DEF TP!MutexOK
  <2> QED BY <2>3, <2>4
<1>6. CASE TP!predicate(w)
  <2>1. UNCHANGED <<mTasks, mTaskTotal, workerTask, ran, stage, mRunning, mWaiting, dtor, early, missed>>
    BY <1>6 DEF TP!predicate, TP!dtorVars
  <2>2. /\ workerPc[w] = "lock" /\ mTaskMt = None /\ mTaskMt' = w /\ workerPc'[w] \in {"take", "doze"}
        /\ workerPc'[w] = "take" /\ mRunning => mTasks # <<>>
    BY <1>6 DEF TP!predicate, TP!Goto, TP!TypeOK
  <2>3. TP!TypeOK'
    BY <1>3, <2>1, <2>2 DEF TP!TypeOK
  <2>4. TP!MutexOK'
    BY <1>1, <1>3, <2>1, <2>2, WakeupsAssumption DEF TP!MutexOK
  <2> QED BY <2>3, <2>4
<1>7. CASE TP!doze(w)
  <2>1. UNCHANGED <<mTasks, mTaskTotal, workerTask, ran, stage, mRunning, mWaiting, dtor, early, missed>>
    BY <1>7 DEF TP!doze, TP!dtorVars
  <2>2. workerPc[w] = "doze" /\ mTaskMt' = None /\ workerPc'[w] = "sleep"
    BY <1>7 DEF TP!doze, TP!Goto, TP!TypeOK
  <2>3. TP!TypeOK'
    BY <1>3, <2>1, <2>2 DEF TP!TypeOK
  <2>4. TP!MutexOK'
    BY <1>1, <1>3, <2>1, <2>2, WakeupsAssumption DEF TP!MutexOK
  <2> QED BY <2>3, <2>4
<1>8. CASE TP!take(w)
  <2>1. UNCHANGED <<mTaskTotal, ran, stage, mRunning, mWaiting, dtor, early, missed>>
    BY <1>8 DEF TP!take, TP!dtorVars
  <2>2. workerPc[w] = "take" /\ mTaskMt' = None /\ workerPc'[w] \in {"resume", "top"}
    BY <1>8 DEF TP!take, TP!Goto, TP!TypeOK
  <2>3. mTasks' \in Seq(Coro) /\ workerTask' \in [Worker -> Coro \cup {None}]
    BY <1>4, <1>8 DEF TP!take, TP!TypeOK
  <2>4. TP!TypeOK'
    BY <1>3, <2>1, <2>2, <2>3 DEF TP!TypeOK
  <2>5. TP!MutexOK'
    BY <1>1, <1>3, <2>1, <2>2, WakeupsAssumption DEF TP!MutexOK
  <2> QED BY <2>4, <2>5
<1>9. CASE TP!resumeReturns(w)
  <2>1. UNCHANGED <<mTasks, mTaskTotal, workerTask, stage, mTaskMt, mRunning, mWaiting, dtor, early, missed>>
    BY <1>9 DEF TP!resumeReturns, TP!dtorVars
  <2>2. workerPc[w] = "resume" /\ workerPc'[w] = "done" /\ ran' = ran \cup {workerTask[w]}
    BY <1>9 DEF TP!resumeReturns, TP!Goto, TP!TypeOK
  <2>3. workerTask[w] \in Coro
    BY <2>2 DEF TP!TasksRunOnce, TP!HasTask, TP!Pushed
  <2>4. TP!TypeOK'
    BY <1>3, <2>1, <2>2, <2>3 DEF TP!TypeOK
  <2>5. TP!MutexOK'
    BY <1>1, <1>3, <2>1, <2>2 DEF TP!MutexOK
  <2> QED BY <2>4, <2>5
<1>10. CASE TP!done(w)
  <2>1. UNCHANGED <<mTasks, workerTask, ran, mTaskMt, stage, mRunning, mWaiting, early, missed>>
    BY <1>10 DEF TP!done
  <2>2. workerPc[w] = "done" /\ workerPc'[w] = "top"
    BY <1>10 DEF TP!done, TP!Goto, TP!TypeOK
  <2>3. mTaskTotal' \in 0 .. Modulus - 1
    BY <1>1, <1>10 DEF TP!done, TP!TypeOK
  <2>4. dtor' \in {"alive", "check", "asleep", "stop", "notify", "join", "returned"}
    BY <1>10 DEF TP!done, TP!Notified, TP!TypeOK
  <2>5. TP!TypeOK'
    BY <1>3, <2>1, <2>3, <2>4 DEF TP!TypeOK
  <2>6. TP!MutexOK'
    BY <1>1, <1>3, <2>1, <2>2 DEF TP!MutexOK
  <2> QED BY <2>5, <2>6
<1> QED BY <1>5, <1>6, <1>7, <1>8, <1>9, <1>10 DEF TP!Work

\* A task is pushed by a call that may be made, and counted only later.
LEMMA PoolPushStep ==
  ASSUME TP!IInv, TP!TypeOK', TP!MutexOK', NEW t \in Coro, TP!pushTask(t)
  PROVE  TP!IInv'
<1> USE DEF TP!IInv
<1>1. /\ stage[t] = "new" /\ mTasks' = Append(mTasks, t)
      /\ stage'[t] = "count" /\ \A u \in Coro : u # t => stage'[u] = stage[u]
      /\ UNCHANGED <<mTaskTotal, workerPc, workerTask, ran, dtor>>
  BY DEF TP!pushTask, TP!workVars, TP!dtorVars, TP!TypeOK
<1>2. /\ DOMAIN mTasks = 1 .. Len(mTasks) /\ DOMAIN mTasks' = 1 .. Len(mTasks) + 1 /\ Len(mTasks) \in Nat
      /\ \A i \in 1 .. Len(mTasks) : mTasks'[i] = mTasks[i] /\ mTasks[i] \in Coro
      /\ mTasks'[Len(mTasks) + 1] = t
  BY <1>1 DEF TP!TypeOK
<1>3. /\ t \notin ran /\ \A i \in DOMAIN mTasks : mTasks[i] # t
      /\ \A w \in Worker : TP!HasTask(w) => workerTask[w] # t
  BY <1>1 DEF TP!TasksRunOnce, TP!Pushed
<1>4. TP!Pushed \subseteq TP!Pushed' /\ TP!Counted' = TP!Counted /\ TP!Discounted' = TP!Discounted
  BY <1>1 DEF TP!Pushed, TP!Counted, TP!Discounted
<1>5. ASSUME NEW w \in Worker
      PROVE  (TP!HasTask(w)' <=> TP!HasTask(w)) /\ \A u : TP!Runs(w, u)' <=> TP!Runs(w, u)
  BY <1>1 DEF TP!HasTask, TP!Runs
<1>6. TP!TasksRunOnce'
  <2>1. ASSUME NEW i \in DOMAIN mTasks'
        PROVE  /\ stage'[mTasks'[i]] # "new" /\ mTasks'[i] \notin ran'
               /\ \A w \in Worker : TP!HasTask(w)' => workerTask'[w] # mTasks'[i]
    <3>1. CASE i = Len(mTasks) + 1
      BY <1>1, <1>2, <1>3, <1>5, <3>1
    <3>2. CASE i # Len(mTasks) + 1
      <4>1. i \in DOMAIN mTasks /\ mTasks'[i] = mTasks[i] /\ mTasks[i] \in Coro
        BY <1>2, <3>2
      <4> QED BY <1>1, <1>3, <1>5, <4>1 DEF TP!TasksRunOnce
    <3> QED BY <3>1, <3>2
  <2>2. \A i, j \in DOMAIN mTasks' : mTasks'[i] = mTasks'[j] => i = j
    BY <1>2, <1>3 DEF TP!TasksRunOnce
  <2>3. /\ \A w, v \in Worker : TP!HasTask(w)' /\ TP!HasTask(v)' /\ workerTask'[w] = workerTask'[v] => w = v
        /\ \A w \in Worker : TP!HasTask(w)' =>
             /\ workerTask'[w] \in TP!Pushed'
             /\ workerTask'[w] \in ran' <=> workerPc'[w] = "done"
        /\ ran' \subseteq TP!Pushed'
    BY <1>1, <1>4, <1>5 DEF TP!TasksRunOnce
  <2> QED BY <2>1, <2>2, <2>3 DEF TP!TasksRunOnce
<1>7. TP!CallersRun'
  <2>1. ASSUME NEW u \in Coro, TP!Calling(u)', u # t
        PROVE  TP!Calling(u)
    BY <1>1, <2>1 DEF TP!Calling
  <2>2. ASSUME NEW u \in Coro, TP!Calling(u)'
        PROVE  IF Parent[u] = None THEN dtor' = "alive" ELSE \E w \in Worker : TP!Runs(w, Parent[u])'
    <3>1. CASE u = t
      BY <1>1, <1>5, <3>1 DEF TP!pushTask, TP!MayCall
    <3>2. CASE u # t
      BY <1>1, <1>5, <2>1, <2>2, <3>2 DEF TP!CallersRun
    <3> QED BY <3>1, <3>2
  <2>3. ASSUME NEW u \in Coro, TP!Calling(u), Parent[u] = Parent[t], Parent[t] # None
        PROVE  FALSE
    BY <2>3 DEF TP!pushTask, TP!MayCall, TP!Calling
  <2>4. ASSUME NEW u \in Coro, NEW v \in Coro, TP!Calling(u)', TP!Calling(v)',
               Parent[u] = Parent[v], Parent[u] # None
        PROVE  u = v
    <3>1. CASE u # t /\ v # t
      BY <2>1, <2>4, <3>1 DEF TP!CallersRun
    <3>2. CASE u = t \/ v = t
      BY <2>1, <2>3, <2>4, <3>2
    <3> QED BY <3>1, <3>2
  <2> QED BY <2>2, <2>4 DEF TP!CallersRun
<1>8. TP!TotalIsExact'
  BY <1>1, <1>4, TotalAsSets
<1> QED BY <1>6, <1>7, <1>8

\* Counting a task, before or after it has been taken off the count again.
LEMMA PoolCountStep ==
  ASSUME TP!IInv, TP!TypeOK', TP!MutexOK', NEW t \in Coro, TP!countTask(t)
  PROVE  TP!IInv'
<1> USE DEF TP!IInv
<1>1. /\ stage[t] = "count" /\ mTaskTotal' = (mTaskTotal + 1) % Modulus
      /\ stage'[t] = "notify" /\ \A u \in Coro : u # t => stage'[u] = stage[u]
      /\ UNCHANGED <<mTasks, workerPc, workerTask, ran, dtor>>
  BY DEF TP!countTask, TP!workVars, TP!dtorVars, TP!TypeOK
<1>2. ASSUME NEW u \in Coro
      PROVE  (stage'[u] = "new" <=> stage[u] = "new") /\ (TP!Calling(u)' <=> TP!Calling(u))
  BY <1>1 DEF TP!Calling
<1>3. ASSUME NEW w \in Worker
      PROVE  (TP!HasTask(w)' <=> TP!HasTask(w)) /\ \A u : TP!Runs(w, u)' <=> TP!Runs(w, u)
  BY <1>1 DEF TP!HasTask, TP!Runs
<1>4. /\ TP!Pushed' = TP!Pushed /\ TP!Discounted' = TP!Discounted
      /\ TP!Counted' = TP!Counted \cup {t} /\ t \notin TP!Counted
      /\ TP!Counted \in SUBSET Coro /\ TP!Discounted \in SUBSET Coro /\ TP!Counted' \in SUBSET Coro
  BY <1>1, <1>2 DEF TP!Pushed, TP!Discounted, TP!Counted, TP!TypeOK
<1>5. TP!TasksRunOnce'
  <2>1. \A i \in DOMAIN mTasks : mTasks[i] \in Coro
    BY DEF TP!TypeOK
  <2> QED BY <1>1, <1>2, <1>3, <1>4, <2>1 DEF TP!TasksRunOnce
<1>6. TP!CallersRun'
  BY <1>1, <1>2, <1>3 DEF TP!CallersRun
<1>7. TP!TotalIsExact'
  <2> DEFINE c == Cardinality(TP!Counted)
             d == Cardinality(TP!Discounted)
             k == Cardinality(TP!Counted')
  <2>1. c \in Nat /\ d \in Nat /\ d < Modulus /\ k < Modulus /\ c < Modulus
    BY <1>4, TasksFinite
  <2>2. k = c + 1
    BY <1>4, TasksFinite, FS_AddElement
  <2>3. Cardinality(TP!Discounted') = d
    BY <1>4
  <2>4. mTaskTotal = IF c - d >= 0 THEN c - d ELSE c - d + Modulus
    BY TotalAsSets
  <2>5. TP!TotalIsExact' <=> mTaskTotal' = IF k - d >= 0 THEN k - d ELSE k - d + Modulus
    BY <2>3, TotalAsSets
  <2>6. Modulus \in Nat
    BY WakeupsAssumption
  <2> HIDE DEF c, d, k
  <2>7. c - d \in Int /\ 0 - Modulus < c - d /\ c - d + 1 < Modulus /\ k - d = c - d + 1
    BY <2>1, <2>2, <2>6
  <2>8. mTaskTotal' = IF c - d + 1 >= 0 THEN c - d + 1 ELSE c - d + 1 + Modulus
    BY <1>1, <2>4, <2>6, <2>7, CountUp
  <2> QED BY <2>5, <2>7, <2>8
<1> QED BY <1>5, <1>6, <1>7

\* The front of the queue becomes the task of the worker that takes it.
LEMMA PoolTakeStep ==
  ASSUME TP!IInv, TP!TypeOK', TP!MutexOK', NEW w \in Worker, TP!take(w), mRunning
  PROVE  TP!IInv'
<1> USE DEF TP!IInv
<1>1. /\ workerPc[w] = "take" /\ mTasks # <<>>
      /\ workerPc'[w] = "resume" /\ workerTask'[w] = mTasks[1] /\ mTasks' = Tail(mTasks)
      /\ \A v \in Worker : v # w => workerPc'[v] = workerPc[v] /\ workerTask'[v] = workerTask[v]
      /\ UNCHANGED <<mTaskTotal, ran, stage, dtor>>
  BY DEF TP!take, TP!Goto, TP!dtorVars, TP!TypeOK, TP!MutexOK
<1>2. /\ 1 \in DOMAIN mTasks /\ DOMAIN mTasks' = 1 .. Len(mTasks) - 1 /\ DOMAIN mTasks = 1 .. Len(mTasks)
      /\ Len(mTasks) \in Nat
      /\ \A i \in 1 .. Len(mTasks) - 1 : mTasks'[i] = mTasks[i + 1]
      /\ \A i \in DOMAIN mTasks : mTasks[i] \in Coro
  BY <1>1 DEF TP!TypeOK
<1>3. /\ stage[mTasks[1]] # "new" /\ mTasks[1] \notin ran /\ mTasks[1] \in TP!Pushed
      /\ \A v \in Worker : TP!HasTask(v) => workerTask[v] # mTasks[1]
      /\ \A i \in DOMAIN mTasks : i # 1 => mTasks[i] # mTasks[1]
  BY <1>2 DEF TP!TasksRunOnce, TP!Pushed
<1>4. TP!Pushed' = TP!Pushed /\ TP!Counted' = TP!Counted /\ TP!Discounted' = TP!Discounted
  BY <1>1 DEF TP!Pushed, TP!Counted, TP!Discounted
<1>5. ASSUME NEW v \in Worker, v # w
      PROVE  (TP!HasTask(v)' <=> TP!HasTask(v)) /\ \A u : TP!Runs(v, u)' <=> TP!Runs(v, u)
  BY <1>1, <1>5 DEF TP!HasTask, TP!Runs
<1>6. ~TP!HasTask(w) /\ TP!HasTask(w)' /\ \A u : ~TP!Runs(w, u)
  BY <1>1 DEF TP!HasTask, TP!Runs
<1>7. TP!TasksRunOnce'
  <2>1. ASSUME NEW i \in DOMAIN mTasks'
        PROVE  /\ stage'[mTasks'[i]] # "new" /\ mTasks'[i] \notin ran'
               /\ \A v \in Worker : TP!HasTask(v)' => workerTask'[v] # mTasks'[i]
    <3>1. i + 1 \in DOMAIN mTasks /\ i + 1 # 1 /\ mTasks'[i] = mTasks[i + 1]
      BY <1>2
    <3>2. /\ stage[mTasks[i + 1]] # "new" /\ mTasks[i + 1] \notin ran /\ mTasks[i + 1] # mTasks[1]
          /\ \A v \in Worker : TP!HasTask(v) => workerTask[v] # mTasks[i + 1]
      BY <1>3, <3>1 DEF TP!TasksRunOnce
    <3> QED BY <1>1, <1>5, <3>1, <3>2
  <2>2. \A i, j \in DOMAIN mTasks' : mTasks'[i] = mTasks'[j] => i = j
    BY <1>2 DEF TP!TasksRunOnce
  <2>3. \A u, v \in Worker : TP!HasTask(u)' /\ TP!HasTask(v)' /\ workerTask'[u] = workerTask'[v] => u = v
    BY <1>1, <1>3, <1>5 DEF TP!TasksRunOnce
  <2>4. \A v \in Worker : TP!HasTask(v)' =>
             /\ workerTask'[v] \in TP!Pushed'
             /\ workerTask'[v] \in ran' <=> workerPc'[v] = "done"
    BY <1>1, <1>3, <1>4, <1>5 DEF TP!TasksRunOnce
  <2>5. ran' \subseteq TP!Pushed'
    BY <1>1, <1>4 DEF TP!TasksRunOnce
  <2> QED BY <2>1, <2>2, <2>3, <2>4, <2>5 DEF TP!TasksRunOnce
<1>8. TP!CallersRun'
  BY <1>1, <1>5, <1>6 DEF TP!CallersRun, TP!Calling
<1>9. TP!TotalIsExact'
  BY <1>1, <1>4, TotalAsSets
<1> QED BY <1>7, <1>8, <1>9

\* A run ends after the calls it makes: none of them is left without a caller.
LEMMA PoolReturnStep ==
  ASSUME TP!IInv, TP!TypeOK', TP!MutexOK', NEW w \in Worker, TP!resumeReturns(w)
  PROVE  TP!IInv'
<1> USE DEF TP!IInv
<1>1. /\ workerPc[w] = "resume" /\ workerPc'[w] = "done" /\ ran' = ran \cup {workerTask[w]}
      /\ \A v \in Worker : v # w => workerPc'[v] = workerPc[v]
      /\ \A u \in Coro : Parent[u] = workerTask[w] => stage[u] = "submitted"
      /\ UNCHANGED <<mTasks, mTaskTotal, workerTask, stage, dtor>>
  BY DEF TP!resumeReturns, TP!Goto, TP!dtorVars, TP!TypeOK
<1>2. TP!HasTask(w) /\ workerTask[w] \in TP!Pushed /\ workerTask[w] \notin ran
  BY <1>1 DEF TP!HasTask, TP!TasksRunOnce
<1>3. TP!Pushed' = TP!Pushed /\ TP!Counted' = TP!Counted
  BY <1>1 DEF TP!Pushed, TP!Counted
<1>4. TP!Discounted' = TP!Discounted
  BY <1>1, <1>2 DEF TP!Discounted, TP!TasksRunOnce, TP!HasTask
<1>5. ASSUME NEW v \in Worker
      PROVE  TP!HasTask(v)' <=> TP!HasTask(v)
  BY <1>1 DEF TP!HasTask
<1>6. TP!TasksRunOnce'
  <2>1. ASSUME NEW i \in DOMAIN mTasks'
        PROVE  /\ stage'[mTasks'[i]] # "new" /\ mTasks'[i] \notin ran'
               /\ \A v \in Worker : TP!HasTask(v)' => workerTask'[v] # mTasks'[i]
    BY <1>1, <1>2, <1>5 DEF TP!TasksRunOnce
  <2>2. /\ \A i, j \in DOMAIN mTasks' : mTasks'[i] = mTasks'[j] => i = j
        /\ \A u, v \in Worker : TP!HasTask(u)' /\ TP!HasTask(v)' /\ workerTask'[u] = workerTask'[v] => u = v
        /\ ran' \subseteq TP!Pushed'
    BY <1>1, <1>2, <1>3, <1>5 DEF TP!TasksRunOnce
  <2>3. ASSUME NEW v \in Worker, TP!HasTask(v)'
        PROVE  workerTask'[v] \in TP!Pushed' /\ (workerTask'[v] \in ran' <=> workerPc'[v] = "done")
    BY <1>1, <1>2, <1>3, <1>5, <2>3 DEF TP!TasksRunOnce
  <2> QED BY <2>1, <2>2, <2>3 DEF TP!TasksRunOnce
<1>7. TP!CallersRun'
  <2>1. ASSUME NEW u \in Coro
        PROVE  (TP!Calling(u)' <=> TP!Calling(u)) /\ (TP!Calling(u) => Parent[u] # workerTask[w])
    BY <1>1 DEF TP!Calling
  <2>2. ASSUME NEW v \in Worker, NEW u, TP!Runs(v, u), u # workerTask[w]
        PROVE  TP!Runs(v, u)'
    BY <1>1, <2>2 DEF TP!Runs
  <2> QED BY <1>1, <2>1, <2>2 DEF TP!CallersRun
<1>8. TP!TotalIsExact'
  BY <1>1, <1>3, <1>4, TotalAsSets
<1> QED BY <1>6, <1>7, <1>8

\* A task that has ended is taken off the count.
LEMMA PoolDoneStep ==
  ASSUME TP!IInv, TP!TypeOK', TP!MutexOK', NEW w \in Worker, TP!done(w)
  PROVE  TP!IInv'
<1> USE DEF TP!IInv
<1>1. /\ workerPc[w] = "done" /\ workerPc'[w] = "top" /\ mTaskTotal' = (mTaskTotal - 1) % Modulus
      /\ \A v \in Worker : v # w => workerPc'[v] = workerPc[v]
      /\ UNCHANGED <<mTasks, workerTask, ran, stage>>
      /\ dtor = "alive" <=> dtor' = "alive"
  BY DEF TP!done, TP!Goto, TP!Notified, TP!TypeOK
<1>2. TP!HasTask(w) /\ workerTask[w] \in ran
  BY <1>1 DEF TP!HasTask, TP!TasksRunOnce
<1>3. ASSUME NEW v \in Worker
      PROVE  /\ TP!HasTask(v)' <=> TP!HasTask(v) /\ v # w
             /\ \A u : TP!Runs(v, u)' <=> TP!Runs(v, u)
  BY <1>1 DEF TP!HasTask, TP!Runs
<1>4. /\ TP!Pushed' = TP!Pushed /\ TP!Counted' = TP!Counted
      /\ TP!Counted \in SUBSET Coro /\ TP!Discounted \in SUBSET Coro /\ TP!Discounted' \in SUBSET Coro
  BY <1>1 DEF TP!Pushed, TP!Counted, TP!Discounted, TP!TypeOK
<1>5. workerTask[w] \notin TP!Discounted
  BY <1>1 DEF TP!Discounted
<1>6. TP!Discounted' = TP!Discounted \cup {workerTask[w]}
  <2>1. \A v \in Worker : workerPc[v] = "done" /\ workerTask[v] = workerTask[w] => v = w
    BY <1>2 DEF TP!TasksRunOnce, TP!HasTask
  <2> QED BY <1>1, <1>2, <2>1 DEF TP!Discounted
<1>7. TP!TasksRunOnce'
  BY <1>1, <1>3, <1>4 DEF TP!TasksRunOnce
<1>8. TP!CallersRun'
  BY <1>1, <1>3 DEF TP!CallersRun, TP!Calling
<1>9. TP!TotalIsExact'
  <2> DEFINE c == Cardinality(TP!Counted)
             d == Cardinality(TP!Discounted)
             k == Cardinality(TP!Discounted')
  <2>1. c \in Nat /\ d \in Nat /\ d < Modulus /\ k < Modulus /\ c < Modulus
    BY <1>4, TasksFinite
  <2>2. k = d + 1
    BY <1>4, <1>5, <1>6, TasksFinite, FS_AddElement
  <2>3. Cardinality(TP!Counted') = c
    BY <1>4
  <2>4. mTaskTotal = IF c - d >= 0 THEN c - d ELSE c - d + Modulus
    BY TotalAsSets
  <2>5. TP!TotalIsExact' <=> mTaskTotal' = IF c - k >= 0 THEN c - k ELSE c - k + Modulus
    BY <2>3, TotalAsSets
  <2>6. Modulus \in Nat
    BY WakeupsAssumption
  <2> HIDE DEF c, d, k
  <2>7. c - d \in Int /\ 0 - Modulus < c - d - 1 /\ c - d < Modulus /\ c - k = c - d - 1
    BY <2>1, <2>2, <2>6
  <2>8. mTaskTotal' = IF c - d - 1 >= 0 THEN c - d - 1 ELSE c - d - 1 + Modulus
    BY <1>1, <2>4, <2>6, <2>7, CountDown
  <2> QED BY <2>5, <2>7, <2>8
<1> QED BY <1>7, <1>8, <1>9

LEMMA PoolTaskStep ==
  ASSUME TP!IInv, NEW t \in Coro, TP!execute(t)
  PROVE  TP!IInv'
<1>1. TP!TypeOK' /\ TP!MutexOK'
  BY PoolTaskTypes
<1>2. CASE TP!notifyTask(t)
  <2>1. /\ mTasks' = mTasks /\ mTaskTotal' = mTaskTotal /\ workerTask' = workerTask /\ ran' = ran
        /\ dtor' = dtor
    BY <1>2 DEF TP!notifyTask, TP!dtorVars
  <2>2. \A u \in Coro : stage'[u] = stage[u] \/ (stage[u] = "notify" /\ stage'[u] = "submitted")
    BY <1>2 DEF TP!notifyTask, TP!IInv, TP!TypeOK
  <2>3. \/ UNCHANGED workerPc
        \/ \E w \in Worker : workerPc[w] = "sleep" /\ workerPc' = [workerPc EXCEPT ![w] = "lock"]
    BY <1>2 DEF TP!notifyTask, TP!Sleepers
  <2>4. \A w \in Worker : \/ workerPc'[w] = workerPc[w]
                          \/ workerPc[w] \notin {"resume", "done"} /\ workerPc'[w] \notin {"resume", "done"}
    BY <2>3 DEF TP!IInv, TP!TypeOK
  <2>5. PoolControl
    BY <2>1, <2>2, <2>4 DEF PoolControl
  <2> QED BY <1>1, <2>5, PoolControlStep
<1> QED BY <1>1, <1>2, PoolPushStep, PoolCountStep DEF TP!execute

LEMMA PoolWorkStep ==
  ASSUME TP!IInv, NEW w \in Worker, TP!Work(w)
  PROVE  TP!IInv'
<1>1. TP!TypeOK' /\ TP!MutexOK'
  BY PoolWorkTypes
<1>2. CASE TP!top(w) \/ TP!predicate(w) \/ TP!doze(w) \/ (TP!take(w) /\ ~mRunning)
  <2>1. /\ mTasks' = mTasks /\ mTaskTotal' = mTaskTotal /\ workerTask' = workerTask /\ ran' = ran
        /\ stage' = stage /\ dtor' = dtor
    BY <1>2 DEF TP!top, TP!predicate, TP!doze, TP!take, TP!dtorVars
  <2>2. /\ workerPc[w] \in {"top", "lock", "doze", "take"}
        /\ \E to \in {"top", "lock", "doze", "sleep", "take", "exited"} : workerPc' = [workerPc EXCEPT ![w] = to]
    BY <1>2 DEF TP!top, TP!predicate, TP!doze, TP!take, TP!Goto
  <2>3. \A v \in Worker : \/ workerPc'[v] = workerPc[v]
                          \/ workerPc[v] \notin {"resume", "done"} /\ workerPc'[v] \notin {"resume", "done"}
    BY <2>2 DEF TP!IInv, TP!TypeOK
  <2>4. PoolControl
    BY <2>1, <2>3 DEF PoolControl
  <2> QED BY <1>1, <2>4, PoolControlStep
<1> QED BY <1>1, <1>2, PoolTakeStep, PoolReturnStep, PoolDoneStep DEF TP!Work

LEMMA PoolDtorStep ==
  ASSUME TP!IInv, TP!destroy \/ TP!Destructor
  PROVE  TP!IInv'
<1>1. /\ mTasks' = mTasks /\ mTaskTotal' = mTaskTotal /\ workerTask' = workerTask /\ ran' = ran
      /\ stage' = stage /\ mTaskMt' = mTaskMt
  BY DEF TP!destroy, TP!Destructor, TP!waitEmpty, TP!stop, TP!notifyAll, TP!join, TP!workVars
<1>2. \A w \in Worker : workerPc'[w] = workerPc[w] \/ (workerPc[w] = "sleep" /\ workerPc'[w] = "lock")
  BY DEF TP!destroy, TP!Destructor, TP!waitEmpty, TP!stop, TP!notifyAll, TP!join, TP!workVars,
         TP!awakened, TP!Sleepers
<1>3. workerPc' \in [Worker -> {"top", "lock", "doze", "sleep", "take", "resume", "done", "exited"}]
  <2>1. CASE TP!notifyAll
    BY <2>1 DEF TP!notifyAll, TP!IInv, TP!TypeOK
  <2>2. CASE ~TP!notifyAll
    BY <2>2 DEF TP!destroy, TP!Destructor, TP!waitEmpty, TP!stop, TP!join, TP!workVars, TP!IInv, TP!TypeOK
  <2> QED BY <2>1, <2>2
<1>4. /\ mRunning' \in BOOLEAN /\ mWaiting' \in BOOLEAN /\ missed' \in BOOLEAN
      /\ mRunning' => mRunning
  <2> DEFINE dozing == \E w \in Worker : workerPc[w] = "doze"
  <2>1. missed' \in BOOLEAN
    <3>1. missed' = missed \/ missed' = dozing
      BY DEF TP!destroy, TP!Destructor, TP!waitEmpty, TP!stop, TP!notifyAll, TP!join
    <3>2. dozing \in BOOLEAN
      OBVIOUS
    <3> HIDE DEF dozing
    <3> QED BY <3>1, <3>2 DEF TP!IInv, TP!TypeOK
  <2>2. CASE TP!notifyAll
    BY <2>1, <2>2 DEF TP!notifyAll, TP!IInv, TP!TypeOK
  <2>3. CASE TP!destroy
    BY <2>1, <2>3 DEF TP!destroy, TP!IInv, TP!TypeOK
  <2>4. CASE TP!waitEmpty
    BY <2>1, <2>4 DEF TP!waitEmpty, TP!IInv, TP!TypeOK
  <2>5. CASE TP!stop
    BY <2>1, <2>5 DEF TP!stop, TP!IInv, TP!TypeOK
  <2>6. CASE TP!join
    BY <2>1, <2>6 DEF TP!join, TP!IInv, TP!TypeOK
  <2> QED BY <2>2, <2>3, <2>4, <2>5, <2>6 DEF TP!Destructor
<1>5. dtor' \in {"alive", "check", "asleep", "stop", "notify", "join", "returned"}
  BY DEF TP!destroy, TP!Destructor, TP!waitEmpty, TP!stop, TP!notifyAll, TP!join
<1>6. early' \subseteq Coro
  BY DEF TP!destroy, TP!Destructor, TP!waitEmpty, TP!stop, TP!notifyAll, TP!join, TP!Pushed, TP!IInv, TP!TypeOK
<1>7. TP!TypeOK'
  BY <1>1, <1>3, <1>4, <1>5, <1>6 DEF TP!IInv, TP!TypeOK
<1>8. TP!MutexOK'
  BY <1>1, <1>2, <1>4 DEF TP!IInv, TP!MutexOK
<1>9. dtor = "alive" => \A t \in Coro : Parent[t] = None => ~TP!Calling(t)
  <2>1. TP!destroy => \A t \in Coro : Parent[t] = None => ~TP!Calling(t)
    BY DEF TP!destroy, TP!Calling
  <2>2. TP!Destructor => dtor # "alive"
    BY DEF TP!Destructor, TP!waitEmpty, TP!stop, TP!notifyAll, TP!join
  <2> QED BY <2>1, <2>2
<1>10. PoolControl
  BY <1>1, <1>2, <1>9 DEF PoolControl
<1> QED BY <1>7, <1>8, <1>10, PoolControlStep

\* ThreadPool: the types, the mutex, the one run of every task, the callers of
\* execute() and the exact count hold in every reachable state.
THEOREM PoolInvariant == TP!Spec => []TP!IInv
<1>1. TP!Init => TP!IInv
  BY PoolInit
<1>2. TP!IInv /\ [TP!Next]_(TP!vars) => TP!IInv'
  <2> SUFFICES ASSUME TP!IInv, [TP!Next]_(TP!vars) PROVE TP!IInv'
    OBVIOUS
  <2>1. CASE TP!Next
    BY <2>1, PoolTaskStep, PoolWorkStep, PoolDtorStep DEF TP!Next
  <2>2. CASE UNCHANGED TP!vars
    <3>1. TP!TypeOK' /\ TP!MutexOK'
      BY <2>2 DEF TP!vars, TP!workVars, TP!dtorVars, TP!IInv, TP!TypeOK, TP!MutexOK
    <3>2. /\ mTasks' = mTasks /\ mTaskTotal' = mTaskTotal /\ workerTask' = workerTask /\ ran' = ran
          /\ workerPc' = workerPc /\ stage' = stage /\ dtor' = dtor
      BY <2>2 DEF TP!vars, TP!workVars, TP!dtorVars
    <3>3. PoolControl
      BY <3>2 DEF PoolControl
    <3> QED BY <3>1, <3>3, PoolControlStep
  <2> QED BY <2>1, <2>2
<1> QED BY <1>1, <1>2, PTL DEF TP!Spec

\* A zero total that leaves tasks unfinished: the tasks pushed and not counted are as
\* many as those that have not been taken off, each has another caller, and no caller
\* has been taken off; so the callers are all of the unfinished tasks.
LEMMA ZeroTotal ==
  ASSUME TP!IInv, dtor # "alive", mTaskTotal = 0
  PROVE  \A t \in TP!Pushed \ ran : TP!InsideCall(t)
<1> USE DEF TP!IInv
<1> DEFINE Uncounted == {t \in Coro : stage[t] = "count"}
           Callers == {Parent[t] : t \in Uncounted}
           Open == TP!Pushed \ TP!Discounted
<1>1. /\ Uncounted \in SUBSET Coro /\ Open \in SUBSET Coro /\ TP!Counted \in SUBSET Coro
      /\ TP!Discounted \in SUBSET Coro /\ TP!Pushed \in SUBSET Coro
  BY DEF TP!Pushed, TP!Counted, TP!Discounted, TP!TypeOK
<1>2. TP!Pushed = TP!Counted \cup Uncounted /\ TP!Counted \cap Uncounted = {}
  BY DEF TP!Pushed, TP!Counted, TP!TypeOK
<1>3. TP!Discounted \subseteq ran /\ ran \subseteq TP!Pushed
  BY DEF TP!Discounted, TP!TasksRunOnce
<1>4. Callers \subseteq TP!Pushed \ ran
  <2> SUFFICES ASSUME NEW t \in Coro, stage[t] = "count" PROVE Parent[t] \in TP!Pushed \ ran
    OBVIOUS
  <2>1. PICK w \in Worker : TP!Runs(w, Parent[t])
    BY DEF TP!CallersRun, TP!Calling
  <2> QED BY <2>1 DEF TP!Runs, TP!TasksRunOnce, TP!HasTask
<1>5. Cardinality(Callers) = Cardinality(Uncounted)
  <2> DEFINE g == [t \in Uncounted |-> Parent[t]]
  <2>1. \A t, u \in Uncounted : g[t] = g[u] => t = u
    BY DEF TP!CallersRun, TP!Calling
  <2>2. g \in Bijection(Uncounted, Callers)
    BY <2>1 DEF Bijection, Injection, Surjection, IsInjective
  <2>3. ExistsBijection(Uncounted, Callers)
    BY <2>2 DEF ExistsBijection
  <2>4. IsFiniteSet(Uncounted) /\ IsFiniteSet(Callers)
    BY <1>1, <1>4, TasksFinite
  <2> QED BY <2>3, <2>4, FS_Bijection, FS_SameCardinalityBij
<1>6. Cardinality(TP!Counted) = Cardinality(TP!Discounted)
  <2> DEFINE c == Cardinality(TP!Counted)
             d == Cardinality(TP!Discounted)
  <2>1. c \in Nat /\ d \in Nat /\ d < Modulus /\ c < Modulus /\ Modulus \in Nat
    BY <1>1, TasksFinite, WakeupsAssumption
  <2>2. 0 = IF c - d >= 0 THEN c - d ELSE c - d + Modulus
    BY TotalAsSets
  <2> HIDE DEF c, d
  <2>3. c = d
    BY <2>1, <2>2
  <2> QED BY <2>3 DEF c, d
<1>7. Cardinality(Open) = Cardinality(Uncounted)
  <2>1. Cardinality(TP!Pushed) = Cardinality(TP!Counted) + Cardinality(Uncounted)
    <3>1. IsFiniteSet(TP!Counted) /\ IsFiniteSet(Uncounted)
      BY <1>1, TasksFinite
    <3>2. Cardinality(TP!Counted \cup Uncounted)
            = Cardinality(TP!Counted) + Cardinality(Uncounted) - Cardinality(TP!Counted \cap Uncounted)
      BY <3>1, FS_Union
    <3>3. Cardinality(TP!Counted \cap Uncounted) = 0
      BY <1>2, FS_EmptySet
    <3>4. Cardinality(TP!Counted) \in Nat /\ Cardinality(Uncounted) \in Nat
      BY <1>1, TasksFinite
    <3> QED BY <1>2, <3>2, <3>3, <3>4
  <2>2. TP!Pushed \cap TP!Discounted = TP!Discounted
    BY <1>3
  <2>3. Cardinality(Open) = Cardinality(TP!Pushed) - Cardinality(TP!Discounted)
    BY <1>1, <2>2, TasksFinite, FS_Difference
  <2> QED BY <1>1, <1>6, <2>1, <2>3, TasksFinite
<1>8. Callers = Open
  BY <1>1, <1>3, <1>4, <1>5, <1>7, TasksFinite, FS_Subset
<1>9. ASSUME NEW t \in TP!Pushed \ ran
      PROVE  TP!InsideCall(t)
  <2>1. t \in Callers
    BY <1>3, <1>8
  <2> QED BY <2>1 DEF TP!InsideCall
<1> QED BY <1>9

\* ThreadPool: waitEmpty() may return with tasks unfinished, but then each of them is
\* itself inside execute(), between the push of a task and its count.
THEOREM PoolEmptyEarlyOnlyInCall == TP!Spec => EmptyEarlyOnlyInCall
<1>1. TP!IInv /\ [TP!Next]_(TP!vars) =>
        [dtor = "check" /\ dtor' = "stop" => \A t \in TP!Pushed \ ran : TP!InsideCall(t)]_(TP!vars)
  <2> SUFFICES ASSUME TP!IInv, [TP!Next]_(TP!vars), dtor = "check", dtor' = "stop"
               PROVE  \A t \in TP!Pushed \ ran : TP!InsideCall(t)
    OBVIOUS
  <2>1. TP!Next
    BY DEF TP!vars, TP!workVars, TP!dtorVars
  <2>2. TP!waitEmpty
    BY <2>1 DEF TP!Next, TP!execute, TP!pushTask, TP!countTask, TP!notifyTask, TP!Work, TP!top, TP!predicate,
                TP!doze, TP!take, TP!resumeReturns, TP!done, TP!Notified, TP!destroy, TP!Destructor,
                TP!stop, TP!notifyAll, TP!join, TP!dtorVars
  <2>3. mTaskTotal = 0
    BY <2>2 DEF TP!waitEmpty, TP!isEmpty
  <2> QED BY <2>3, ZeroTotal
<1> QED BY <1>1, PoolInvariant, PTL DEF TP!Spec, EmptyEarlyOnlyInCall, TP!EmptyEarlyOnlyInCall

-----------------------------------------------------------------------------
(***************************************************************************)
(* The components side by side                                             *)
(***************************************************************************)
\* Every behaviour of the composition is one of each component: a step of one leaves
\* the variables of the others alone.
THEOREM WakeupsIsEachComponent == WakeupsSpec => Spec /\ CV!Spec /\ BP!Spec /\ TP!Spec
<1> DEFINE Step == MutexNext \/ CondVarNext \/ BlockingNext \/ PoolNext
<1>1. WakeupsInit => Init /\ CV!Init /\ BP!Init /\ TP!Init
  BY DEF WakeupsInit
<1>2. [Step]_allVars => /\ [Next]_vars /\ [CV!Next]_(CV!vars)
                        /\ [BP!Next]_(BP!vars) /\ [TP!Next]_(TP!vars)
  <2> SUFFICES ASSUME [Step]_allVars
               PROVE  /\ [Next]_vars /\ [CV!Next]_(CV!vars)
                      /\ [BP!Next]_(BP!vars) /\ [TP!Next]_(TP!vars)
    OBVIOUS
  <2>1. UNCHANGED condVarVars => UNCHANGED CV!vars
    BY DEF condVarVars, CV!vars
  <2>2. UNCHANGED blockingVars => UNCHANGED BP!vars
    BY DEF blockingVars, BP!vars
  <2>3. UNCHANGED poolVars => UNCHANGED TP!vars
    BY DEF poolVars, TP!vars, TP!workVars, TP!dtorVars
  <2>4. CASE MutexNext
    BY <2>1, <2>2, <2>3, <2>4 DEF MutexNext
  <2>5. CASE CondVarNext
    BY <2>2, <2>3, <2>5 DEF CondVarNext
  <2>6. CASE BlockingNext
    BY <2>1, <2>3, <2>6 DEF BlockingNext
  <2>7. CASE PoolNext
    BY <2>1, <2>2, <2>7 DEF PoolNext
  <2>8. CASE UNCHANGED allVars
    BY <2>1, <2>2, <2>3, <2>8 DEF allVars
  <2> QED BY <2>4, <2>5, <2>6, <2>7, <2>8
<1> QED BY <1>1, <1>2, PTL DEF WakeupsSpec, Spec, CV!Spec, BP!Spec, TP!Spec

\* The safety properties of the four components in every behaviour of the composition.
THEOREM WakeupsSafety ==
  WakeupsSpec => /\ [](/\ MutualExclusion /\ HandlesOK /\ WokenOnce /\ CountsAreExact
                       /\ QueuedHasThread)
                 /\ EmptyEarlyOnlyInCall
BY WakeupsIsEachComponent, MutexExcludes, HandlesInOnePlace, CondVarWakesOnce, BlockingCountsExact,
   BlockingQueuedHasThread, PoolEmptyEarlyOnlyInCall, PTL
=============================================================================

----------------------------- MODULE AsyncMutex -----------------------------
(***************************************************************************)
(* async::Mutex of include/Async/Primitives.hpp: an atomic flag and a      *)
(* queue of suspended coroutines.  lock() is a coroutine: one CAS, and if  *)
(* it fails a suspension whose await_suspend pushes the handle.  unlock()  *)
(* pops the queue and either hands the still locked mutex to the popped    *)
(* coroutine through the executor, or clears the flag.  CAS, push, pop,    *)
(* store and execute are separate steps of separate threads.               *)
(***************************************************************************)
EXTENDS Naturals, Sequences, MpmcQueue

CONSTANTS Coro,     \* the coroutines that use the mutex
          None,     \* std::nullopt
          Rounds    \* bound on the calls of lock / try_lock each of them makes

ASSUME MutexAssumption ==
  /\ None \notin Coro
  /\ Rounds \in Nat

VARIABLES mLocked,
          mPending,
          pc,        \* where each coroutine is, see PC
          value,     \* unlock's local: the handle it popped
          left       \* calls each coroutine has left

vars == <<mLocked, mPending, pc, value, left>>

PC == {"outside",     \* not using the mutex
       "failed",      \* lock(): the first CAS failed, not yet in mPending
       "pending",     \* suspended, its handle is in mPending
       "popped",      \* suspended, its handle is in the local of an unlock()
       "scheduled",   \* suspended, its handle is with the executor
       "holding",     \* lock() or try_lock() returned
       "handing",     \* unlock(): popped a handle, not yet executed it
       "clearing",    \* unlock(): found mPending empty, mLocked not yet stored
       "aborted"}     \* lock(): assert(success) failed

Init ==
  /\ mLocked = FALSE
  /\ mPending = <<>>
  /\ pc = [c \in Coro |-> "outside"]
  /\ value = [c \in Coro |-> None]
  /\ left = [c \in Coro |-> Rounds]

Goto(c, to) == pc' = [pc EXCEPT ![c] = to]

\* The first CAS of lock(): take the free flag, or go on to suspend.
lock(c) ==
  /\ pc[c] = "outside"
  /\ left[c] > 0
  /\ left' = [left EXCEPT ![c] = @ - 1]
  /\ mLocked' = TRUE
  /\ Goto(c, IF mLocked THEN "failed" ELSE "holding")
  /\ UNCHANGED <<mPending, value>>

try_lock(c) ==
  /\ pc[c] = "outside"
  /\ left[c] > 0
  /\ left' = [left EXCEPT ![c] = @ - 1]
  /\ mLocked' = TRUE
  /\ Goto(c, IF mLocked THEN "outside" ELSE "holding")
  /\ UNCHANGED <<mPending, value>>

\* PendingAwaiter::await_suspend: from here on any thread may resume c.
await_suspend(c) ==
  /\ pc[c] = "failed"
  /\ mPending' = push(mPending, c)
  /\ Goto(c, "pending")
  /\ UNCHANGED <<mLocked, value, left>>

\* The failed CAS left `expected` true, so the CAS after the suspension succeeds
\* exactly when the flag is still set; assert(success) follows.
resumed(c) ==
  /\ pc[c] = "scheduled"
  /\ Goto(c, IF mLocked THEN "holding" ELSE "aborted")
  /\ UNCHANGED <<mLocked, mPending, value, left>>

\* Mutant: unlock() clears the flag before it looks for a waiter.
flagAtPop_ClearFirst == FALSE

\* unlock() pops with the flag still set.
flagAtPop == mLocked

\* unlock(): mPending.pop()
unlock(c) ==
  /\ pc[c] = "holding"
  /\ mLocked' = flagAtPop
  /\ IF empty(mPending)
     THEN /\ Goto(c, "clearing")
          /\ UNCHANGED <<mPending, value>>
     ELSE /\ mPending' = popped(mPending)
          /\ value' = [value EXCEPT ![c] = front(mPending)]
          /\ pc' = [pc EXCEPT ![c] = "handing", ![front(mPending)] = "popped"]
  /\ UNCHANGED left

\* Mutant: the popped handle never reaches the executor.
unlockExecute_Drop(c) ==
  /\ pc[c] = "handing"
  /\ Goto(c, "outside")
  /\ value' = [value EXCEPT ![c] = None]
  /\ UNCHANGED <<mLocked, mPending, left>>

\* unlock(): execute(value), the mutex stays locked for the popped coroutine.
unlockExecute(c) ==
  /\ pc[c] = "handing"
  /\ pc' = [pc EXCEPT ![c] = "outside", ![value[c]] = "scheduled"]
  /\ value' = [value EXCEPT ![c] = None]
  /\ UNCHANGED <<mLocked, mPending, left>>

\* Mutant: the flag stays set when nobody waits.
unlockStore_Keep(c) ==
  /\ pc[c] = "clearing"
  /\ Goto(c, "outside")
  /\ UNCHANGED <<mLocked, mPending, value, left>>

\* unlock(): mLocked = false
unlockStore(c) ==
  /\ pc[c] = "clearing"
  /\ mLocked' = FALSE
  /\ Goto(c, "outside")
  /\ UNCHANGED <<mPending, value, left>>

Start(c)    == lock(c) \/ try_lock(c)
Progress(c) == await_suspend(c) \/ resumed(c) \/ unlock(c) \/ unlockExecute(c) \/ unlockStore(c)

Next == \E c \in Coro : Start(c) \/ Progress(c)

Spec == Init /\ [][Next]_vars

\* A coroutine that has entered lock() or unlock() is on a pool thread and keeps
\* running, a scheduled one is resumed by the pool, and a holder unlocks.
FairSpec == Spec /\ \A c \in Coro : WF_vars(Progress(c))

-----------------------------------------------------------------------------
\* Types of the flag, the queue and the locals.
TypeOK ==
  /\ mLocked \in BOOLEAN
  /\ mPending \in Seq(Coro)
  /\ pc \in [Coro -> PC]
  /\ value \in [Coro -> Coro \cup {None}]
  /\ left \in [Coro -> 0 .. Rounds]

\* The coroutine that has, or has been promised, the mutex: from the CAS or the
\* pop that grants it to the pop or the store that gives it away.
Owner(c) == pc[c] \in {"holding", "clearing", "popped", "scheduled"}

\* At most one coroutine has been granted the mutex, counting a grant that is
\* still on its way through the executor: lock() and try_lock() cannot slip in
\* between unlock()'s pop and the resumption of the coroutine it popped.
MutualExclusion == \A c, d \in Coro : Owner(c) /\ Owner(d) => c = d

\* The flag is set exactly while somebody owns the mutex: it is neither lost
\* (set with nobody left to clear it) nor free under an owner.
LockedIffOwned == mLocked <=> \E c \in Coro : Owner(c)

\* assert(success) in lock() holds whenever a waiter is resumed.
ResumedWithLock == \A c \in Coro : pc[c] # "aborted"

\* A coroutine that reached the queue while somebody still owned the mutex and
\* had not yet found the queue empty is granted the mutex.
QueuedBehindOwnerIsServed ==
  \A c \in Coro :
    (pc[c] = "pending" /\ \E d \in Coro : pc[d] \in {"holding", "popped", "scheduled"})
      ~> pc[c] = "holding"

\* What examples/example_mutex.cpp counts on: every lock() returns in the end.
EveryLockReturns == \A c \in Coro : pc[c] = "failed" ~> pc[c] = "holding"

\* No handle is ever resumed twice: the queue and unlock's local name suspended
\* coroutines, each handle is in one place, and one unlock() at a time hands over.
HandlesOK ==
  /\ \A i \in DOMAIN mPending : pc[mPending[i]] = "pending"
  /\ \A i, j \in DOMAIN mPending : mPending[i] = mPending[j] => i = j
  /\ \A c \in Coro : pc[c] = "handing" => value[c] \in Coro /\ pc[value[c]] = "popped"
  /\ \A c, d \in Coro : pc[c] = "handing" /\ pc[d] = "handing" => c = d

\* The inductive invariant of WakeupsProofs.
IInv == TypeOK /\ HandlesOK /\ MutualExclusion /\ LockedIffOwned /\ ResumedWithLock
=============================================================================

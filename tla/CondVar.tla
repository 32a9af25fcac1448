------------------------------- MODULE CondVar -------------------------------
(***************************************************************************)
(* async::CondVar of include/Async/Primitives.hpp: a queue of suspended    *)
(* coroutines and no lock.  wait() suspends and pushes its handle;         *)
(* notify_one() pops one handle and hands it to the executor; notify_all() *)
(* does so until it finds the queue empty.  Push, pop and execute are      *)
(* separate steps of separate threads, and a woken coroutine may wait      *)
(* again while the notify_all() that woke it goes on.                      *)
(***************************************************************************)
EXTENDS Naturals, Sequences, FiniteSets, MpmcQueue

CONSTANTS Coro,     \* the coroutines that use the condition variable
          None,     \* std::nullopt
          Rounds    \* bound on the calls each of them makes

VARIABLES mPending,
          pc,       \* where each coroutine is, see PC
          value,    \* notify's local: the handle it popped
          left,     \* calls each coroutine has left
          owed,     \* waiters that were queued when c's notify_all began, not popped since
          wakes     \* handles of c given to the executor and not resumed yet

vars == <<mPending, pc, value, left, owed, wakes>>

PC == {"outside",     \* running, not in a call
       "entering",    \* wait(): not yet in mPending
       "pending",     \* wait(): suspended
       "one",         \* notify_one(): popped a handle, not yet executed it
       "all",         \* notify_all(): about to pop
       "allOne"}      \* notify_all(): popped a handle, not yet executed it

Init ==
  /\ mPending = <<>>
  /\ pc = [c \in Coro |-> "outside"]
  /\ value = [c \in Coro |-> None]
  /\ left = [c \in Coro |-> Rounds]
  /\ owed = [c \in Coro |-> {}]
  /\ wakes = [c \in Coro |-> 0]

Goto(c, to) == pc' = [pc EXCEPT ![c] = to]

Call(c) ==
  /\ pc[c] = "outside"
  /\ left[c] > 0
  /\ left' = [left EXCEPT ![c] = @ - 1]

Waiting == {mPending[i] : i \in DOMAIN mPending}

\* wait() is called; its Task has yet to reach the awaiter.
wait(c) ==
  /\ Call(c)
  /\ Goto(c, "entering")
  /\ UNCHANGED <<mPending, value, owed, wakes>>

\* PendingAwaiter::await_suspend: from here on any thread may resume c.
await_suspend(c) ==
  /\ pc[c] = "entering"
  /\ mPending' = push(mPending, c)
  /\ Goto(c, "pending")
  /\ UNCHANGED <<value, left, owed, wakes>>

\* mPending.pop() of a notify by c; it is nobody's debt any more.
Pop(c) ==
  /\ ~empty(mPending)
  /\ mPending' = popped(mPending)
  /\ value' = [value EXCEPT ![c] = front(mPending)]

Paid(w, debts) == [c \in Coro |-> debts[c] \ {w}]

notify_one(c) ==
  /\ Call(c)
  /\ \/ /\ empty(mPending)                       \* returns false
        /\ UNCHANGED <<mPending, value, pc, owed>>
     \/ /\ Pop(c)
        /\ owed' = Paid(front(mPending), owed)
        /\ Goto(c, "one")
  /\ UNCHANGED wakes

notify_all(c) ==
  /\ Call(c)
  /\ owed' = [owed EXCEPT ![c] = Waiting]
  /\ Goto(c, "all")
  /\ UNCHANGED <<mPending, value, wakes>>

\* The condition of notify_all's loop.
notifyAllPop(c) ==
  /\ pc[c] = "all"
  /\ \/ /\ empty(mPending)
        /\ Goto(c, "outside")
        /\ UNCHANGED <<mPending, value, owed>>
     \/ /\ Pop(c)
        /\ owed' = Paid(front(mPending), owed)
        /\ Goto(c, "allOne")
  /\ UNCHANGED <<left, wakes>>

\* Mutant: notify_all() is written with an if.
afterExecute_Once(c) == "outside"

\* Where a notify goes on after it has executed a handle.
afterExecute(c) == IF pc[c] = "allOne" THEN "all" ELSE "outside"

\* execute(value.value())
notifyExecute(c) ==
  /\ pc[c] \in {"one", "allOne"}
  /\ wakes' = [wakes EXCEPT ![value[c]] = @ + 1]
  /\ value' = [value EXCEPT ![c] = None]
  /\ Goto(c, afterExecute(c))
  /\ UNCHANGED <<mPending, left, owed>>

\* The executor resumes c: wait() returns.
resumed(c) ==
  /\ wakes[c] > 0
  /\ wakes' = [wakes EXCEPT ![c] = @ - 1]
  /\ Goto(c, "outside")
  /\ UNCHANGED <<mPending, value, left, owed>>

Start(c)    == wait(c) \/ notify_one(c) \/ notify_all(c)
Progress(c) == await_suspend(c) \/ notifyAllPop(c) \/ notifyExecute(c) \/ resumed(c)

Next == \E c \in Coro : Start(c) \/ Progress(c)

Spec == Init /\ [][Next]_vars

\* A coroutine inside a call is on a pool thread and keeps running; a scheduled one
\* is resumed by the pool.  Nobody has to make another call.
FairSpec == Spec /\ \A c \in Coro : WF_vars(Progress(c))

-----------------------------------------------------------------------------
\* Types of the queue, the locals and the history.
TypeOK ==
  /\ mPending \in Seq(Coro)
  /\ pc \in [Coro -> PC]
  /\ value \in [Coro -> Coro \cup {None}]
  /\ left \in [Coro -> 0 .. Rounds]
  /\ owed \in [Coro -> SUBSET Coro]
  /\ wakes \in [Coro -> Nat]

\* Where c's handle is while it is suspended: in the queue, in the local of a
\* notify, or with the executor.
Places(c) ==
  Cardinality({i \in DOMAIN mPending : mPending[i] = c})
    + Cardinality({d \in Coro : value[d] = c}) + wakes[c]

\* A suspended coroutine can be woken exactly once, however many notify_one() and
\* notify_all() meet on the queue, and one that runs is in nobody's hands.
WokenOnce == \A c \in Coro : Places(c) = IF pc[c] = "pending" THEN 1 ELSE 0

\* notify_all() does not return before everybody who was queued when it began has
\* been popped, by itself or by another notify.
NotifyAllServesQueue == \A c \in Coro : pc[c] \notin {"all", "allOne"} => owed[c] = {}

\* Whoever is queued when a notify_all() begins returns from wait(), whatever else
\* is notified or waits again meanwhile.
OwedIsWoken == \A c, d \in Coro : c \in owed[d] ~> pc[c] = "outside"

\* A notify's local names a coroutine exactly between the pop and the execute.
ValueInCall == \A c \in Coro : value[c] # None <=> pc[c] \in {"one", "allOne"}

\* What a notify_all() still owes is in the queue.
OwedIsQueued == \A c \in Coro : owed[c] \subseteq Waiting

\* The inductive invariant of WakeupsProofs.
IInv == TypeOK /\ ValueInCall /\ WokenOnce /\ OwedIsQueued /\ NotifyAllServesQueue
=============================================================================

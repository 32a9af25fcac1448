------------------------------- MODULE Poller -------------------------------
(***************************************************************************)
(* Poller of include/Async/sys/Event.hpp over impl::Poller of              *)
(* lib/sys/unix/epoll.cpp: how notify() of any thread ends a wait().       *)
(* mNotified keeps a burst of notify() calls down to one eventfd write;    *)
(* wait() drains the eventfd, re-arms its oneshot registration and lowers  *)
(* mNotified, in that order, with notifiers running in between.            *)
(* Descriptors, timer values and the events wait() reports are left out:   *)
(* here they are reasons for epoll_wait to return.                         *)
(***************************************************************************)
EXTENDS Naturals

CONSTANTS Notifier,   \* threads that call notify()
          Waiter,     \* threads that call wait()
          None        \* nobody

VARIABLES mNotified,
          mEventFd,      \* the counter of the eventfd
          armed,         \* its oneshot registration with epoll is enabled
          mEventsLock,   \* the waiter that holds it, or None
          waitPc,        \* what wait() of each waiter does next; "idle" outside it
          notifyPc       \* what notify() of each notifier does next

vars == <<mNotified, mEventFd, armed, mEventsLock, waitPc, notifyPc>>

Init ==
  /\ mNotified = FALSE
  /\ mEventFd = 0
  /\ armed = TRUE
  /\ mEventsLock = None
  /\ waitPc = [w \in Waiter |-> "idle"]
  /\ notifyPc = [n \in Notifier |-> "idle"]

-----------------------------------------------------------------------------
\* notify(): mNotified.exchange(true); only the call that finds it false writes.
notify(n) ==
  /\ notifyPc[n] = "idle"
  /\ mNotified' = TRUE
  /\ notifyPc' = [notifyPc EXCEPT ![n] = IF mNotified THEN "idle" ELSE "write"]
  /\ UNCHANGED <<mEventFd, armed, mEventsLock, waitPc>>

\* impl::Poller::notify(): the write to the eventfd.
writeEventFd(n) ==
  /\ notifyPc[n] = "write"
  /\ mEventFd' = mEventFd + 1
  /\ notifyPc' = [notifyPc EXCEPT ![n] = "idle"]
  /\ UNCHANGED <<mNotified, armed, mEventsLock, waitPc>>

-----------------------------------------------------------------------------
WaitGoto(w, to) == waitPc' = [waitPc EXCEPT ![w] = to]

\* wait(): a thread that cannot have mEventsLock returns 0 at once.
wait(w) ==
  /\ waitPc[w] = "idle"
  /\ IF mEventsLock = None
     THEN /\ mEventsLock' = w
          /\ WaitGoto(w, "epoll_wait")
     ELSE /\ WaitGoto(w, "return")
          /\ UNCHANGED mEventsLock
  /\ UNCHANGED <<mNotified, mEventFd, armed, notifyPc>>

\* The eventfd is reported: it has been written and its registration is armed.
Ready == armed /\ mEventFd > 0

\* epoll_wait reports the eventfd, and whatever else is ready; a oneshot
\* registration is disabled when it is reported.
epoll_wait(w) ==
  /\ waitPc[w] = "epoll_wait"
  /\ Ready
  /\ armed' = FALSE
  /\ WaitGoto(w, "read")
  /\ UNCHANGED <<mNotified, mEventFd, mEventsLock, notifyPc>>

\* epoll_wait returns for a descriptor or the timer.
epoll_waitOther(w) ==
  /\ waitPc[w] = "epoll_wait"
  /\ ~Ready
  /\ WaitGoto(w, "read")
  /\ UNCHANGED <<mNotified, mEventFd, armed, mEventsLock, notifyPc>>

\* Mutant: an interrupted wait() keeps the lock.
epoll_waitInterrupted_Locked(w) ==
  /\ waitPc[w] = "epoll_wait"
  /\ WaitGoto(w, "return")
  /\ UNCHANGED <<mNotified, mEventFd, armed, mEventsLock, notifyPc>>

\* EINTR: wait() gives up the lock and returns the error.
epoll_waitInterrupted(w) ==
  /\ waitPc[w] = "epoll_wait"
  /\ mEventsLock' = None
  /\ WaitGoto(w, "return")
  /\ UNCHANGED <<mNotified, mEventFd, armed, notifyPc>>

readEventFd(w) ==
  /\ waitPc[w] = "read"
  /\ mEventFd' = 0
  /\ WaitGoto(w, "rearm")
  /\ UNCHANGED <<mNotified, armed, mEventsLock, notifyPc>>

\* Mutant: the oneshot registration of the eventfd is not renewed.
armedAfterWait_Not == armed

armedAfterWait == TRUE

\* mod(mEventFd, ...)
rearm(w) ==
  /\ waitPc[w] = "rearm"
  /\ armed' = armedAfterWait
  /\ WaitGoto(w, "clear")
  /\ UNCHANGED <<mNotified, mEventFd, mEventsLock, notifyPc>>

\* Mutant: mNotified stays up after the wait.
notifiedAfterWait_Up == mNotified

notifiedAfterWait == FALSE

\* mNotified.exchange(false) and mEventsLock.unlock()
clearNotified(w) ==
  /\ waitPc[w] = "clear"
  /\ mNotified' = notifiedAfterWait
  /\ mEventsLock' = None
  /\ WaitGoto(w, "idle")
  /\ UNCHANGED <<mEventFd, armed, notifyPc>>

\* wait() returns with 0 or an error, having consumed nothing.
returnEarly(w) ==
  /\ waitPc[w] = "return"
  /\ WaitGoto(w, "idle")
  /\ UNCHANGED <<mNotified, mEventFd, armed, mEventsLock, notifyPc>>

\* The steps of wait() that nothing but its own thread holds up.
InWait(w) == epoll_wait(w) \/ readEventFd(w) \/ rearm(w) \/ clearNotified(w) \/ returnEarly(w)

Wake(w) == epoll_waitOther(w) \/ epoll_waitInterrupted(w)

-----------------------------------------------------------------------------
Next ==
  \/ \E n \in Notifier : notify(n) \/ writeEventFd(n)
  \/ \E w \in Waiter : wait(w) \/ InWait(w) \/ Wake(w)

Spec == Init /\ [][Next]_vars

\* Threads inside notify() and wait() run, except that epoll_wait sleeps until
\* the eventfd is ready: no timer, descriptor or signal is counted on.
Fairness ==
  /\ \A n \in Notifier : WF_vars(writeEventFd(n))
  /\ \A w \in Waiter : WF_vars(InWait(w))

FairSpec == Spec /\ Fairness

-----------------------------------------------------------------------------
WaitPC == {"idle", "epoll_wait", "read", "rearm", "clear", "return"}

\* The waiter that is past the point where it can sleep, and has not yet
\* lowered mNotified.
Draining(w) == waitPc[w] \in {"read", "rearm", "clear"}

\* Types, and the lock is held exactly by the waiter that uses epoll.
TypeOK ==
  /\ mNotified \in BOOLEAN
  /\ mEventFd \in Nat
  /\ armed \in BOOLEAN
  /\ mEventsLock \in Waiter \cup {None}
  /\ waitPc \in [Waiter -> WaitPC]
  /\ notifyPc \in [Notifier -> {"idle", "write"}]
  /\ \A w \in Waiter : mEventsLock = w <=> waitPc[w] = "epoll_wait" \/ Draining(w)

\* A notify() that found mNotified up is not lost: the eventfd is ready, or the
\* call that raised mNotified is about to write it, or the waiter is already on
\* its way out.  The waiter therefore never sleeps on a raised mNotified.
RaisedIsDelivered ==
  mNotified => \/ Ready
               \/ \E n \in Notifier : notifyPc[n] = "write"
               \/ \E w \in Waiter : Draining(w)

\* Only a waiter that is about to renew it leaves the registration disabled.
DisarmedOnlyWhileDraining ==
  ~armed => \E w \in Waiter : waitPc[w] \in {"read", "rearm"}

IInv == TypeOK /\ RaisedIsDelivered /\ DisarmedOnlyWhileDraining

\* Poller implements Notification, its fairness included.
Event == INSTANCE Notification WITH
  signalled <- mNotified,
  waiting <- {w \in Waiter : waitPc[w] # "idle"}

RefinesNotification == Event!Spec
=============================================================================

---------------------------- MODULE PollerProofs ----------------------------
(***************************************************************************)
(* No notification is lost, for every number of notifiers and waiters.     *)
(* The step that needs the whole invariant is the last one of wait(): it   *)
(* lowers mNotified after it has drained the eventfd, and what was written *)
(* in between stays in the eventfd, armed, for the next wait.              *)
(***************************************************************************)
EXTENDS Poller, TLAPS

\* At the start nothing is raised and the registration is armed.
LEMMA PollerInit == ASSUME None \notin Waiter, Init PROVE IInv
<1>1. mEventFd \in Nat /\ mNotified \in BOOLEAN /\ armed \in BOOLEAN
  BY DEF Init
<1>2. waitPc \in [Waiter -> WaitPC] /\ notifyPc \in [Notifier -> {"idle", "write"}]
  BY DEF Init, WaitPC
<1>3. /\ mEventsLock \in Waiter \cup {None}
      /\ \A w \in Waiter : mEventsLock = w <=> waitPc[w] = "epoll_wait" \/ Draining(w)
  BY DEF Init, Draining
<1>4. RaisedIsDelivered /\ DisarmedOnlyWhileDraining
  BY DEF Init, RaisedIsDelivered, DisarmedOnlyWhileDraining
<1> QED BY <1>1, <1>2, <1>3, <1>4 DEF IInv, TypeOK

\* At most one waiter uses epoll, because it holds mEventsLock.
LEMMA OneDrains ==
  ASSUME TypeOK, NEW w \in Waiter, NEW v \in Waiter,
         waitPc[w] = "epoll_wait" \/ Draining(w), waitPc[v] = "epoll_wait" \/ Draining(v)
  PROVE  w = v
BY DEF TypeOK

\* notify(): the exchange, and the write of the call that raised mNotified.
LEMMA NotifyStep ==
  ASSUME IInv, NEW n \in Notifier, notify(n) \/ writeEventFd(n)
  PROVE  IInv'
<1> USE DEF notify, writeEventFd
<1>1. TypeOK'
  <2>1. mEventFd' \in Nat
    BY DEF IInv, TypeOK
  <2>2. mNotified' \in BOOLEAN /\ notifyPc' \in [Notifier -> {"idle", "write"}]
    BY DEF IInv, TypeOK
  <2>3. UNCHANGED <<armed, mEventsLock, waitPc>>
    OBVIOUS
  <2> QED BY <2>1, <2>2, <2>3 DEF IInv, TypeOK, Draining
<1>2. RaisedIsDelivered'
  <2>1. CASE notify(n)
    BY <2>1 DEF IInv, TypeOK, RaisedIsDelivered, Ready, Draining
  <2>2. CASE writeEventFd(n) /\ armed
    BY <2>2 DEF IInv, TypeOK, RaisedIsDelivered, Ready
  <2>3. CASE writeEventFd(n) /\ ~armed
    BY <2>3 DEF IInv, RaisedIsDelivered, DisarmedOnlyWhileDraining, Draining
  <2> QED BY <2>1, <2>2, <2>3
<1>3. DisarmedOnlyWhileDraining'
  BY DEF IInv, DisarmedOnlyWhileDraining
<1> QED BY <1>1, <1>2, <1>3 DEF IInv

\* The steps of wait() before it drains, and its early returns.
LEMMA EnterStep ==
  ASSUME None \notin Waiter, IInv, NEW w \in Waiter,
         wait(w) \/ epoll_wait(w) \/ epoll_waitOther(w) \/ epoll_waitInterrupted(w) \/ returnEarly(w)
  PROVE  IInv'
<1> USE DEF wait, epoll_wait, epoll_waitOther, epoll_waitInterrupted, returnEarly, WaitGoto
<1>1. TypeOK'
  BY DEF IInv, TypeOK, Draining, WaitPC
<1>2. RaisedIsDelivered'
  BY DEF IInv, TypeOK, RaisedIsDelivered, Ready, Draining
<1>3. DisarmedOnlyWhileDraining'
  BY DEF IInv, TypeOK, DisarmedOnlyWhileDraining
<1> QED BY <1>1, <1>2, <1>3 DEF IInv

\* The waiter drains the eventfd and renews its registration.
LEMMA DrainStep ==
  ASSUME IInv, NEW w \in Waiter, readEventFd(w) \/ rearm(w)
  PROVE  IInv'
<1> USE DEF readEventFd, rearm, WaitGoto, armedAfterWait
<1>1. TypeOK'
  <2>1. mEventFd' \in Nat
    BY DEF IInv, TypeOK
  <2>6. armed' \in BOOLEAN
    BY Zenon DEF IInv, TypeOK
  <2>2. waitPc' \in [Waiter -> WaitPC]
    BY DEF IInv, TypeOK, WaitPC
  <2>3. \A v \in Waiter : waitPc'[v] \in {"read", "rearm", "clear"}
                              <=> waitPc[v] \in {"read", "rearm", "clear"}
    BY DEF IInv, TypeOK
  <2>4. \A v \in Waiter : waitPc'[v] = "epoll_wait" <=> waitPc[v] = "epoll_wait"
    BY DEF IInv, TypeOK
  <2>5. UNCHANGED <<mNotified, mEventsLock, notifyPc>>
    OBVIOUS
  <2> QED BY <2>1, <2>2, <2>3, <2>4, <2>5, <2>6 DEF IInv, TypeOK, Draining
<1>2. RaisedIsDelivered'
  BY DEF IInv, TypeOK, RaisedIsDelivered, Draining
<1>3. DisarmedOnlyWhileDraining'
  BY DEF IInv, TypeOK, DisarmedOnlyWhileDraining
<1> QED BY <1>1, <1>2, <1>3 DEF IInv

\* mNotified is lowered; the registration is armed, since nobody else drains.
LEMMA ClearStep ==
  ASSUME None \notin Waiter, IInv, NEW w \in Waiter, clearNotified(w)
  PROVE  IInv'
<1> USE DEF clearNotified, WaitGoto, notifiedAfterWait
<1>1. TypeOK'
  BY DEF IInv, TypeOK, Draining, WaitPC
<1>2. RaisedIsDelivered'
  BY DEF RaisedIsDelivered
<1>3. armed
  BY OneDrains DEF IInv, DisarmedOnlyWhileDraining, Draining
<1>4. DisarmedOnlyWhileDraining'
  BY <1>3 DEF DisarmedOnlyWhileDraining
<1> QED BY <1>1, <1>2, <1>4 DEF IInv

\* Every step keeps the invariant.
LEMMA PollerStep == ASSUME None \notin Waiter, IInv, [Next]_vars PROVE IInv'
<1>1. CASE UNCHANGED vars
  BY <1>1 DEF vars, IInv, TypeOK, RaisedIsDelivered, DisarmedOnlyWhileDraining, Ready, Draining
<1>2. ASSUME NEW n \in Notifier, notify(n) \/ writeEventFd(n) PROVE IInv'
  BY <1>2, NotifyStep
<1>3. ASSUME NEW w \in Waiter, wait(w) \/ InWait(w) \/ Wake(w) PROVE IInv'
  BY <1>3, EnterStep, DrainStep, ClearStep DEF InWait, Wake
<1> QED BY <1>1, <1>2, <1>3 DEF Next

\* The three invariants hold together in every reachable state of the poller.
THEOREM PollerInvariant == ASSUME None \notin Waiter PROVE Spec => []IInv
<1>1. (Init => IInv) /\ (IInv /\ [Next]_vars => IInv')
  BY PollerInit, PollerStep
<1> QED BY <1>1, PTL DEF Spec

\* The safety part of Notification: every step of Poller raises the flag, lowers
\* it on the return of a wait, enters or leaves a wait, or changes neither.
THEOREM PollerImplementsNotification ==
  ASSUME None \notin Waiter
  PROVE  Spec => Event!Init /\ [][Event!Next]_(Event!eventVars)
<1> DEFINE W == {w \in Waiter : waitPc[w] # "idle"}
<1>1. Init => Event!Init
  BY DEF Init, Event!Init
<1>2. IInv /\ [Next]_vars => [Event!Next]_(Event!eventVars)
  <2> SUFFICES ASSUME IInv, [Next]_vars PROVE [Event!Next]_(Event!eventVars)
    OBVIOUS
  <2>1. CASE UNCHANGED vars
    BY <2>1 DEF vars, Event!eventVars
  <2>2. ASSUME NEW n \in Notifier, notify(n) PROVE Event!Notify
    BY <2>2 DEF notify, Event!Notify
  <2>3. ASSUME NEW n \in Notifier, writeEventFd(n) PROVE UNCHANGED Event!eventVars
    BY <2>3 DEF writeEventFd, Event!eventVars
  <2>4. ASSUME NEW w \in Waiter, wait(w) PROVE Event!Wait(w)
    BY <2>4 DEF IInv, TypeOK, wait, WaitGoto, Event!Wait
  <2>5. ASSUME NEW w \in Waiter, epoll_wait(w) \/ epoll_waitOther(w) \/ epoll_waitInterrupted(w)
                                 \/ readEventFd(w) \/ rearm(w)
        PROVE  UNCHANGED Event!eventVars
    BY <2>5 DEF IInv, TypeOK, epoll_wait, epoll_waitOther, epoll_waitInterrupted, readEventFd,
                rearm, WaitGoto, Event!eventVars
  <2>6. ASSUME NEW w \in Waiter, clearNotified(w) \/ returnEarly(w) PROVE Event!Return(w)
    BY <2>6 DEF IInv, TypeOK, clearNotified, returnEarly, WaitGoto, notifiedAfterWait, Event!Return
  <2> QED BY <2>1, <2>2, <2>3, <2>4, <2>5, <2>6 DEF Next, InWait, Wake, Event!Next
<1> QED BY <1>1, <1>2, PollerInvariant, PTL DEF Spec
=============================================================================

------------------------- MODULE ReactorStackProofs -------------------------
(***************************************************************************)
(* Reactor and what it stands on, for every number of coroutines,          *)
(* descriptors and threads: no sleeper is forgotten or resumed twice, no   *)
(* wait outlasts its timer, every waiter is armed for, and no notification *)
(* or descriptor is lost.                                                  *)
(***************************************************************************)
EXTENDS ReactorStack, MpmcQueueProofs, WellFoundedInduction

PP == INSTANCE PollerProofs WITH Waiter <- PollThread

-----------------------------------------------------------------------------
(***************************************************************************)
(* Poller, of which PollerProofs proves the invariant; here under the      *)
(* names that ReactorStack gives it.                                       *)
(***************************************************************************)
LEMMA SamePoller ==
  /\ P!Init => PP!Init
  /\ [P!Next]_(P!vars) => [PP!Next]_(PP!vars)
  /\ PP!IInv => P!IInv
<1>1. P!Init => PP!Init
  BY DEF P!Init, PP!Init
<1>2. [P!Next]_(P!vars) => [PP!Next]_(PP!vars)
  <2> SUFFICES ASSUME [P!Next]_(P!vars) PROVE [PP!Next]_(PP!vars)
    OBVIOUS
  <2>1. CASE UNCHANGED P!vars
    BY <2>1 DEF P!vars, PP!vars
  <2>2. ASSUME NEW n \in Notifier, P!notify(n) \/ P!writeEventFd(n) PROVE PP!Next
    BY <2>2 DEF P!notify, P!writeEventFd, PP!notify, PP!writeEventFd, PP!Next
  <2>3. ASSUME NEW w \in PollThread, P!wait(w) \/ P!InWait(w) \/ P!Wake(w) PROVE PP!Next
    BY <2>3 DEF PP!Next,
       P!wait, P!InWait, P!Wake, P!WaitGoto, P!epoll_wait, P!epoll_waitOther, P!epoll_waitInterrupted,
       P!readEventFd, P!rearm, P!clearNotified, P!returnEarly, P!Ready, P!armedAfterWait,
       P!notifiedAfterWait,
       PP!wait, PP!InWait, PP!Wake, PP!WaitGoto, PP!epoll_wait, PP!epoll_waitOther,
       PP!epoll_waitInterrupted, PP!readEventFd, PP!rearm, PP!clearNotified, PP!returnEarly,
       PP!Ready, PP!armedAfterWait, PP!notifiedAfterWait
  <2> QED BY <2>1, <2>2, <2>3 DEF P!Next
<1>3. PP!IInv => P!IInv
  BY DEF P!IInv, P!TypeOK, P!RaisedIsDelivered, P!DisarmedOnlyWhileDraining, P!Ready, P!Draining, P!WaitPC,
         PP!IInv, PP!TypeOK, PP!RaisedIsDelivered, PP!DisarmedOnlyWhileDraining, PP!Ready, PP!Draining,
         PP!WaitPC
<1> QED BY <1>1, <1>2, <1>3

\* The parts of the invariant hold together in every reachable state of the poller.
THEOREM PollerInvariant == P!Spec => []P!IInv
<1>1. P!Spec => PP!Spec
  BY SamePoller, PTL DEF P!Spec, PP!Spec
<1>2. PP!Spec => []PP!IInv
  BY PP!PollerInvariant, ReactorStackAssumption
<1> QED BY <1>1, <1>2, SamePoller, PTL

\* mEventsLock is held exactly by the waiter that uses epoll.
THEOREM PollerTyping == P!Spec => []P!TypeOK
BY PollerInvariant, PTL DEF P!IInv

\* A raised mNotified always has the eventfd, a writer or a draining waiter
\* behind it, so a notify() that writes nothing is still delivered.
THEOREM NoNotifyLost == P!Spec => []RaisedIsDelivered
BY PollerInvariant, PTL DEF P!IInv, RaisedIsDelivered

\* The eventfd is never left out of epoll.
THEOREM EventFdStaysArmed == P!Spec => []P!DisarmedOnlyWhileDraining
BY PollerInvariant, PTL DEF P!IInv

-----------------------------------------------------------------------------
(***************************************************************************)
(* The descriptors of impl::Poller                                         *)
(***************************************************************************)
\* FiniteSets seen through the instance is FiniteSets.
LEMMA SameCardinalityFds == ASSUME NEW S PROVE Fds!Cardinality(S) = Cardinality(S)
BY DEF Fds!Cardinality, Cardinality, Fds!IsFiniteSet, IsFiniteSet

\* What ~Poller of the object that holds them does to the open descriptors.
LEMMA FdsFail ==
  ASSUME Fds!IInv, NEW how, how \in {"error", "exception"}, Fds!Fails(how),
         ~fcntlFailed, create \notin {"fcntl", "assign", "scope", "constructed", "destroyed"}
  PROVE  Fds!IInv'
<1> USE DEF Fds!IInv
<1>1. Fds!Holder = "poller" /\ "poller" \in Fds!Object
  BY DEF Fds!Holder, Fds!Object
<1>2. held = [o \in Fds!Object |-> IF o = "poller" THEN open ELSE {}]
  BY <1>1 DEF Fds!HeldByHolder
<1>3. held["poller"] = open
  BY <1>1, <1>2
<1>4. open' = {} /\ ~badClose'
  BY <1>3 DEF Fds!Fails, Fds!Destroy
<1>5. held' = [o \in Fds!Object |-> {}]
  BY <1>2 DEF Fds!Fails, Fds!Destroy
<1>6. create' = how /\ ~fcntlFailed' /\ fcntlFailed' \in BOOLEAN /\ badClose' \in BOOLEAN
  BY <1>4 DEF Fds!Fails, Fds!Destroy, Fds!TypeOK
<1>7. Fds!TypeOK'
  BY <1>4, <1>5, <1>6 DEF Fds!TypeOK, Fds!Descriptor
<1>8. Fds!HeldByHolder'
  BY <1>4, <1>5, <1>6 DEF Fds!HeldByHolder
<1> QED BY <1>4, <1>7, <1>8

\* A step of Create() that opens fd, or one that opens nothing.
LEMMA FdsOpen ==
  ASSUME Fds!IInv, NEW fds \in SUBSET Fds!Descriptor, NEW next,
         next \in {"epoll_create", "eventfd", "timerfd_create", "addTimer", "addEvent", "return"},
         create \in {"epoll_create1", "eventfd", "timerfd_create", "addTimer", "addEvent"},
         next = "epoll_create" => create = "epoll_create1" /\ fds = {},
         open' = open \cup fds, held' = [held EXCEPT !["poller"] = @ \cup fds], create' = next,
         UNCHANGED <<badClose, fcntlFailed>>
  PROVE  Fds!IInv'
<1> USE DEF Fds!IInv
<1>1. Fds!Holder = "poller" /\ Fds!Holder' = "poller" /\ "poller" \in Fds!Object
  BY DEF Fds!Holder, Fds!Object
<1>2. ~fcntlFailed
  BY DEF Fds!HeldByHolder
<1>3. held = [o \in Fds!Object |-> IF o = "poller" THEN open ELSE {}]
  BY <1>1, <1>2 DEF Fds!HeldByHolder
<1>4. held' = [o \in Fds!Object |-> IF o = "poller" THEN open' ELSE {}]
  BY <1>1, <1>3
<1>5. next = "epoll_create" => open' = {}
  BY <1>2 DEF Fds!HeldByHolder
<1>6. Fds!TypeOK'
  BY <1>4 DEF Fds!TypeOK
<1>7. Fds!HeldByHolder'
  BY <1>1, <1>2, <1>4, <1>5 DEF Fds!HeldByHolder
<1> QED BY <1>6, <1>7

\* The fallback, in which the descriptor is at first in no object.
LEMMA FdsFallback ==
  ASSUME Fds!IInv, Fds!epoll_create \/ Fds!fcntl
  PROVE  Fds!IInv'
<1> USE DEF Fds!IInv
<1>1. ~fcntlFailed
  BY DEF Fds!epoll_create, Fds!fcntl, Fds!HeldByHolder
<1>2. CASE Fds!epoll_create /\ Fds!Fails("exception")
  BY <1>1, <1>2, FdsFail DEF Fds!epoll_create
<1>3. CASE Fds!epoll_create /\ ~Fds!Fails("exception")
  <2>1. /\ create = "epoll_create" /\ open' = {"epoll"} /\ create' = "fcntl"
        /\ held' = held /\ badClose' = badClose /\ fcntlFailed' = fcntlFailed
    BY <1>3 DEF Fds!epoll_create
  <2>2. open = {} /\ held = [o \in Fds!Object |-> IF o = Fds!Holder THEN open ELSE {}]
    BY <1>1, <2>1 DEF Fds!HeldByHolder
  <2>3. held = [o \in Fds!Object |-> {}]
    BY <2>2
  <2>4. Fds!TypeOK'
    BY <2>1 DEF Fds!TypeOK, Fds!Descriptor
  <2>5. Fds!HeldByHolder'
    BY <1>1, <2>1, <2>3 DEF Fds!HeldByHolder
  <2> QED BY <2>1, <2>4, <2>5
<1>4. CASE Fds!fcntl
  <2>1. create = "fcntl" /\ create' = "error"
    BY <1>4 DEF Fds!fcntl
  <2>2. held = [o \in Fds!Object |-> {}] /\ "poller" \in Fds!Object
    BY <2>1 DEF Fds!HeldByHolder, Fds!Object
  <2>3. CASE Fds!Destroy("poller", [held EXCEPT !["poller"] = {"epoll"}]) /\ UNCHANGED fcntlFailed
    <3> DEFINE h == [held EXCEPT !["poller"] = {"epoll"}]
    <3>1. h["poller"] = {"epoll"} /\ [h EXCEPT !["poller"] = {}] = [o \in Fds!Object |-> {}]
      BY <2>2
    <3>2. open' = open \ {"epoll"} /\ held' = [o \in Fds!Object |-> {}]
          /\ badClose' = (badClose \/ ~({"epoll"} \subseteq open))
      BY <2>3, <3>1 DEF Fds!Destroy
    <3>3. open = {"epoll"}
      BY <2>1 DEF Fds!HeldByHolder
    <3>4. open' = {} /\ ~badClose' /\ badClose' \in BOOLEAN
      BY <3>2, <3>3 DEF Fds!TypeOK
    <3>5. Fds!TypeOK'
      BY <2>1, <2>3, <3>2, <3>4 DEF Fds!TypeOK
    <3>6. Fds!HeldByHolder'
      BY <1>1, <2>1, <2>3, <3>2, <3>4 DEF Fds!HeldByHolder
    <3> QED BY <3>4, <3>5, <3>6
  <2>4. CASE fcntlFailed' = TRUE /\ UNCHANGED <<open, held, badClose>>
    <3>1. Fds!TypeOK'
      BY <2>1, <2>4 DEF Fds!TypeOK
    <3>2. Fds!HeldByHolder'
      BY <2>1, <2>2, <2>4 DEF Fds!HeldByHolder
    <3> QED BY <2>4, <3>1, <3>2
  <2> QED BY <1>4, <2>3, <2>4 DEF Fds!fcntl
<1> QED BY <1>2, <1>3, <1>4

\* return poller, and mPoller = std::move(r.value()): the descriptors change hands and
\* the object they leave closes nothing.
LEMMA FdsMove ==
  ASSUME Fds!IInv, Fds!returnPoller \/ Fds!assign
  PROVE  Fds!IInv'
<1> USE DEF Fds!IInv
<1>1. ~fcntlFailed /\ "poller" \in Fds!Object /\ "result" \in Fds!Object /\ "mPoller" \in Fds!Object
  BY DEF Fds!returnPoller, Fds!assign, Fds!HeldByHolder, Fds!Object
<1>2. CASE Fds!returnPoller
  <2> DEFINE h == Fds!Move("poller", "result")
  <2>1. create = "return" /\ create' = "assign" /\ fcntlFailed' = fcntlFailed
    BY <1>2 DEF Fds!returnPoller
  <2>2. held = [o \in Fds!Object |-> IF o = "poller" THEN open ELSE {}]
    BY <1>1, <2>1 DEF Fds!HeldByHolder, Fds!Holder
  <2>3. h = [held EXCEPT !["result"] = open, !["poller"] = {}]
    BY <1>1, <2>2 DEF Fds!Move, Fds!afterMove
  <2>4. h = [o \in Fds!Object |-> IF o = "result" THEN open ELSE {}]
    BY <1>1, <2>2, <2>3
  <2>5. h["poller"] = {} /\ [h EXCEPT !["poller"] = {}] = h
    BY <1>1, <2>4
  <2>6. /\ open' = open \ h["poller"] /\ badClose' = (badClose \/ ~(h["poller"] \subseteq open))
        /\ held' = [h EXCEPT !["poller"] = {}]
    BY <1>2 DEF Fds!returnPoller, Fds!Destroy
  <2> HIDE DEF h
  <2>7. open' = open /\ held' = h /\ ~badClose' /\ badClose' \in BOOLEAN
    BY <2>5, <2>6
  <2>8. Fds!TypeOK'
    BY <2>1, <2>4, <2>7 DEF Fds!TypeOK
  <2>9. Fds!HeldByHolder'
    BY <1>1, <2>1, <2>4, <2>7 DEF Fds!HeldByHolder, Fds!Holder
  <2> QED BY <2>7, <2>8, <2>9
<1>3. CASE Fds!assign
  <2>1. /\ create = "assign" /\ create' = "scope" /\ open' = open /\ badClose' = badClose
        /\ fcntlFailed' = fcntlFailed /\ held' = Fds!Move("result", "mPoller")
    BY <1>3 DEF Fds!assign
  <2>2. held = [o \in Fds!Object |-> IF o = "result" THEN open ELSE {}]
    BY <1>1, <2>1 DEF Fds!HeldByHolder, Fds!Holder
  <2>3. held' = [held EXCEPT !["mPoller"] = open, !["result"] = {}]
    BY <1>1, <2>1, <2>2 DEF Fds!Move, Fds!afterMove
  <2>4. held' = [o \in Fds!Object |-> IF o = "mPoller" THEN open ELSE {}]
    BY <1>1, <2>2, <2>3
  <2>5. Fds!TypeOK'
    BY <2>1, <2>4 DEF Fds!TypeOK
  <2>6. Fds!HeldByHolder'
    BY <1>1, <2>1, <2>4 DEF Fds!HeldByHolder, Fds!Holder
  <2> QED BY <2>1, <2>5, <2>6
<1> QED BY <1>2, <1>3

\* The result goes out of scope with nothing to close; the member closes everything.
LEMMA FdsClose ==
  ASSUME Fds!IInv, Fds!endOfScope \/ Fds!destroy
  PROVE  Fds!IInv'
<1> USE DEF Fds!IInv
<1>1. ~fcntlFailed /\ "result" \in Fds!Object /\ "mPoller" \in Fds!Object
  BY DEF Fds!endOfScope, Fds!destroy, Fds!HeldByHolder, Fds!Object
<1>2. create \in {"scope", "constructed"} /\ create' \in {"constructed", "destroyed"} /\ fcntlFailed' = fcntlFailed
  BY DEF Fds!endOfScope, Fds!destroy
<1>3. held = [o \in Fds!Object |-> IF o = "mPoller" THEN open ELSE {}]
  BY <1>1, <1>2 DEF Fds!HeldByHolder, Fds!Holder
<1>4. CASE Fds!endOfScope
  <2>1. held["result"] = {} /\ [held EXCEPT !["result"] = {}] = held
    BY <1>1, <1>3
  <2>2. create' = "constructed" /\ open' = open /\ held' = held /\ ~badClose' /\ badClose' \in BOOLEAN
    BY <1>4, <2>1 DEF Fds!endOfScope, Fds!Destroy
  <2>3. Fds!TypeOK'
    BY <1>2, <2>2 DEF Fds!TypeOK
  <2>4. Fds!HeldByHolder'
    BY <1>1, <1>2, <1>3, <2>2 DEF Fds!HeldByHolder, Fds!Holder
  <2> QED BY <2>2, <2>3, <2>4
<1>5. CASE Fds!destroy
  <2>1. held["mPoller"] = open /\ [held EXCEPT !["mPoller"] = {}] = [o \in Fds!Object |-> {}]
    BY <1>1, <1>3
  <2>2. create' = "destroyed" /\ open' = {} /\ held' = [o \in Fds!Object |-> {}] /\ ~badClose' /\ badClose' \in BOOLEAN
    BY <1>5, <2>1 DEF Fds!destroy, Fds!Destroy
  <2>3. Fds!TypeOK'
    BY <1>2, <2>2 DEF Fds!TypeOK
  <2>4. Fds!HeldByHolder'
    BY <1>1, <1>2, <2>2 DEF Fds!HeldByHolder, Fds!Holder
  <2> QED BY <2>2, <2>3, <2>4
<1> QED BY <1>4, <1>5

\* impl::Poller: whichever call fails, what is open is what one object holds.
THEOREM FdsInvariant == Fds!Spec => []Fds!IInv
<1>1. Fds!Init => Fds!IInv
  <2> SUFFICES ASSUME Fds!Init PROVE Fds!IInv
    OBVIOUS
  <2>1. Fds!TypeOK /\ ~badClose
    BY DEF Fds!Init, Fds!TypeOK
  <2>2. Fds!HeldByHolder
    BY DEF Fds!Init, Fds!HeldByHolder
  <2> QED BY <2>1, <2>2 DEF Fds!IInv
<1>2. Fds!IInv /\ [Fds!Next]_(Fds!vars) => Fds!IInv'
  <2> SUFFICES ASSUME Fds!IInv, [Fds!Next]_(Fds!vars) PROVE Fds!IInv'
    OBVIOUS
  <2> DEFINE Creates(step, fds, next) ==
        /\ create = step /\ open' = open \cup fds /\ held' = [held EXCEPT !["poller"] = @ \cup fds]
        /\ create' = next /\ UNCHANGED <<badClose, fcntlFailed>>
  <2>1. held \in [Fds!Object -> SUBSET Fds!Descriptor] /\ "poller" \in Fds!Object
    BY DEF Fds!IInv, Fds!TypeOK, Fds!Object
  <2>2. held = [held EXCEPT !["poller"] = @ \cup {}]
    BY <2>1
  <2>3. create = "epoll_create1" => held["poller"] = {}
    BY <2>1 DEF Fds!IInv, Fds!HeldByHolder
  <2>4. create \in {"epoll_create1", "eventfd", "timerfd_create", "addTimer", "addEvent"} => ~fcntlFailed
    BY DEF Fds!IInv, Fds!HeldByHolder
  <2>5. CASE Fds!epoll_create1
    <3>1. CASE Fds!Fails("exception")
      BY <2>4, <2>5, <3>1, FdsFail DEF Fds!epoll_create1
    <3>2. CASE ~Fds!Fails("exception")
      <4>1. Creates("epoll_create1", {"epoll"}, "eventfd") \/ Creates("epoll_create1", {}, "epoll_create")
        BY <2>2, <2>3, <2>5, <3>2 DEF Fds!epoll_create1
      <4>2. {"epoll"} \in SUBSET Fds!Descriptor /\ {} \in SUBSET Fds!Descriptor
        BY DEF Fds!Descriptor
      <4> QED BY <4>1, <4>2, FdsOpen
    <3> QED BY <3>1, <3>2
  <2>6. ASSUME NEW step, NEW fd \in Fds!Descriptor, NEW next, Fds!Opens(step, fd, next),
               step \in {"eventfd", "timerfd_create"}, next \in {"timerfd_create", "addTimer"}
        PROVE  Fds!IInv'
    <3>1. CASE Fds!Fails("error")
      BY <2>4, <2>6, <3>1, FdsFail DEF Fds!Opens
    <3>2. CASE ~Fds!Fails("error")
      <4>1. Creates(step, {fd}, next)
        BY <2>6, <3>2 DEF Fds!Opens
      <4> QED BY <2>6, <4>1, FdsOpen
    <3> QED BY <3>1, <3>2
  <2>7. ASSUME NEW step, NEW next, Fds!add(step, next),
               step \in {"addTimer", "addEvent"}, next \in {"addEvent", "return"}
        PROVE  Fds!IInv'
    <3>1. CASE Fds!Fails("error")
      BY <2>4, <2>7, <3>1, FdsFail DEF Fds!add
    <3>2. CASE ~Fds!Fails("error")
      <4>1. Creates(step, {}, next)
        BY <2>2, <2>7, <3>2 DEF Fds!add
      <4>2. {} \in SUBSET Fds!Descriptor
        OBVIOUS
      <4> QED BY <2>7, <4>1, <4>2, FdsOpen
    <3> QED BY <3>1, <3>2
  <2>8. CASE UNCHANGED Fds!vars
    BY <2>8 DEF Fds!vars, Fds!IInv, Fds!TypeOK, Fds!HeldByHolder, Fds!Holder
  <2>9. "event" \in Fds!Descriptor /\ "timer" \in Fds!Descriptor
    BY DEF Fds!Descriptor
  <2>10. ASSUME Fds!Opens("eventfd", "event", "timerfd_create") \/ Fds!Opens("timerfd_create", "timer", "addTimer")
         PROVE  Fds!IInv'
    BY <2>6, <2>9, <2>10
  <2>11. ASSUME Fds!add("addTimer", "addEvent") \/ Fds!add("addEvent", "return") PROVE Fds!IInv'
    BY <2>7, <2>11
  <2> QED BY <2>5, <2>8, <2>10, <2>11, FdsFallback, FdsMove, FdsClose DEF Fds!Next
<1> QED BY <1>1, <1>2, PTL DEF Fds!Spec

\* impl::Poller: an open descriptor has exactly one object that will close it and a
\* closed one has none, except when an fcntl of the fallback fails.
THEOREM PollerFdsHeldOnce == Fds!Spec => []FdsHeldOnce
<1>1. Fds!IInv => FdsHeldOnce
  <2> SUFFICES ASSUME Fds!IInv, create # "fcntl", ~fcntlFailed, NEW fd \in Fds!Descriptor
               PROVE  Fds!Cardinality(Fds!Holders(fd)) = IF fd \in open THEN 1 ELSE 0
    BY DEF Fds!FdsHeldOnce, FdsHeldOnce, Fds!IInv
  <2>1. held = [o \in Fds!Object |-> IF o = Fds!Holder THEN open ELSE {}] /\ Fds!Holder \in Fds!Object
    BY DEF Fds!IInv, Fds!HeldByHolder, Fds!Holder, Fds!Object
  <2>2. Fds!Holders(fd) = IF fd \in open THEN {Fds!Holder} ELSE {}
    BY <2>1 DEF Fds!Holders
  <2>3. Cardinality({Fds!Holder}) = 1 /\ Cardinality({}) = 0
    BY FS_Singleton, FS_EmptySet
  <2> QED BY <2>2, <2>3, SameCardinalityFds
<1> QED BY <1>1, FdsInvariant, PTL

-----------------------------------------------------------------------------
(***************************************************************************)
(* Reactor.  The invariant has a part about the sleepers and one about the *)
(* Sources; a step of one side leaves the variables of the other alone,    *)
(* and only react() is on both.                                            *)
(***************************************************************************)
TimersInv  == SleeperInOnePlace /\ RemovesAreCancelled /\ TimeoutOK
SourcesInv == SourcesOK /\ RegistrationNamesItsSource /\ EventsOK /\ \A w \in Waiter : Served(w)

TimerTypes ==
  /\ call \in [Sleeper -> {"new", "push", "notify", "store", "out"}]
  /\ left \in [Sleeper -> Nat]
  /\ cancelled \subseteq Sleeper
  /\ mTimerOps \in Seq([op : {"Insert", "Remove"}, id : Sleeper])

SourceTypes ==
  /\ mSources \in [Key -> Fd \cup {None}]
  /\ source \in [Fd -> [st : {"out", "adding", "failed", "in"}, key : Key \cup {None}]]
  /\ handle \in [Waiter -> BOOLEAN]
  /\ updating \subseteq Waiter
  /\ reg \in [Fd -> [in : BOOLEAN, armed : BOOLEAN, key : Key \cup {None},
                     interest : SUBSET {"read", "write"}]]
  /\ overtaken \subseteq Waiter
  /\ fresh \subseteq Fd

ReactTypes ==
  /\ mTimers \subseteq Sleeper
  /\ pc \in {"idle", "ops", "timers", "wait", "polling", "ops2", "timers2", "dispatch", "execute"}
  /\ waitTimeout \in Nat \cup {None}
  /\ timerfd \in Nat \cup {None}
  /\ lag \in Nat
  /\ mEvents \in SUBSET [fd : Fd, key : Key, ready : SUBSET {"read", "write"}]
  /\ handles \in [Handle -> Nat]
  /\ resumed \in [Sleeper -> Nat]
  /\ fault \in BOOLEAN

Inv == TimerTypes /\ SourceTypes /\ ReactTypes /\ notified \in BOOLEAN /\ TimersInv /\ SourcesInv

LEMMA InvIsIInv == Inv <=> IInv
BY DEF Inv, IInv, TimerTypes, SourceTypes, ReactTypes, TypeOK, TimersInv, SourcesInv

-----------------------------------------------------------------------------
\* A set of natural numbers has a least one, so that the timers of a map have a nearest.
LEMMA Least == ASSUME NEW T \in SUBSET Nat, T # {} PROVE \E m \in T : \A n \in T : m <= n
<1> DEFINE R == {ss \in Nat \X Nat : ss[1] < ss[2]}
<1>1. IsWellFoundedOn(R, Nat)
  BY NatLessThanWellFounded DEF OpToRel
<1>2. PICK m \in T : \A n \in T : <<n, m>> \notin R
  BY <1>1, WFMin
<1>3. ASSUME NEW n \in T PROVE m <= n
  <2>1. m \in Nat /\ n \in Nat /\ <<n, m>> \notin R
    BY <1>2
  <2>2. <<n, m>> \in Nat \X Nat /\ <<n, m>>[1] = n /\ <<n, m>>[2] = m
    BY <2>1
  <2>3. ~(n < m)
    BY <2>1, <2>2
  <2> QED BY <2>1, <2>3
<1> QED BY <1>3

\* The numbers that are added up in Places.
LEMMA PlacesAreNumbers ==
  ASSUME TimerTypes, ReactTypes, NEW s \in Sleeper
  PROVE  /\ Cardinality(Inserts(s)) \in Nat /\ handles[s] \in Nat /\ resumed[s] \in Nat
         /\ Cardinality(Inserts(s)) = 0 <=> Inserts(s) = {}
<1>1. Inserts(s) = Positions(mTimerOps, [op |-> "Insert", id |-> s])
  BY DEF Inserts, Positions
<1>2. IsFiniteSet(Inserts(s)) /\ Cardinality(Inserts(s)) \in Nat
  BY <1>1, PositionsFinite DEF TimerTypes
<1>3. handles[s] \in Nat /\ resumed[s] \in Nat
  BY DEF ReactTypes, Handle
<1> QED BY <1>2, <1>3, FS_EmptySet

\* Before its insertion a sleeper is nowhere.
LEMMA NotYetInserted ==
  ASSUME TimerTypes, ReactTypes, SleeperInOnePlace, NEW s \in Sleeper, call[s] \in {"new", "push"}
  PROVE  Inserts(s) = {} /\ s \notin mTimers /\ handles[s] = 0 /\ resumed[s] = 0
<1>1. Places(s) = 0
  BY DEF SleeperInOnePlace
<1> DEFINE n == Cardinality(Inserts(s))
<1>2. n + (IF s \in mTimers THEN 1 ELSE 0) + handles[s] + resumed[s] = 0
  BY <1>1 DEF Places
<1>3. n \in Nat /\ handles[s] \in Nat /\ resumed[s] \in Nat /\ (n = 0 <=> Inserts(s) = {})
  BY PlacesAreNumbers
<1> HIDE DEF n
<1> QED BY <1>2, <1>3

\* Steps that move no sleeper.
LEMMA PlacesFrame ==
  ASSUME SleeperInOnePlace, mTimerOps' = mTimerOps, mTimers' = mTimers, resumed' = resumed,
         cancelled' = cancelled, \A s \in Sleeper : handles'[s] = handles[s],
         \A s \in Sleeper : call'[s] \in {"new", "push"} <=> call[s] \in {"new", "push"}
  PROVE  SleeperInOnePlace'
<1>1. ASSUME NEW s \in Sleeper PROVE Places(s)' = Places(s)
  BY DEF Places, Inserts
<1> QED BY <1>1 DEF SleeperInOnePlace

\* Steps of others: the timers are left alone.
LEMMA TimersFrame ==
  ASSUME Inv, UNCHANGED <<timerVars, reactVars, notified>>
  PROVE  TimerTypes' /\ ReactTypes' /\ notified' \in BOOLEAN /\ TimersInv'
<1>1. /\ call' = call /\ left' = left /\ cancelled' = cancelled /\ mTimerOps' = mTimerOps
      /\ mTimers' = mTimers /\ pc' = pc /\ waitTimeout' = waitTimeout /\ timerfd' = timerfd
      /\ lag' = lag /\ mEvents' = mEvents /\ handles' = handles /\ resumed' = resumed
      /\ fault' = fault /\ notified' = notified
  BY DEF timerVars, reactVars
<1>2. TimerTypes' /\ ReactTypes' /\ notified' \in BOOLEAN
  BY <1>1 DEF Inv, TimerTypes, ReactTypes
<1>3. SleeperInOnePlace'
  BY <1>1, PlacesFrame DEF Inv, TimersInv
<1>4. RemovesAreCancelled' /\ TimeoutOK'
  BY <1>1 DEF Inv, TimersInv, RemovesAreCancelled, TimeoutOK, Inserts
<1> QED BY <1>2, <1>3, <1>4 DEF TimersInv

\* Steps of others: the Sources, and the events on their way to them, are left alone.
LEMMA SourcesFrame ==
  ASSUME Inv, UNCHANGED sourceVars,
         (pc' = pc /\ mEvents' = mEvents) \/ (pc # "dispatch" /\ pc' # "dispatch")
  PROVE  SourceTypes' /\ SourcesInv'
<1>1. /\ mSources' = mSources /\ source' = source /\ handle' = handle /\ updating' = updating
      /\ reg' = reg /\ overtaken' = overtaken /\ fresh' = fresh
  BY DEF sourceVars
<1>2. SourceTypes'
  BY <1>1 DEF Inv, SourceTypes
<1>3. SourcesOK' /\ RegistrationNamesItsSource'
  BY <1>1 DEF Inv, SourcesInv, SourcesOK, RegistrationNamesItsSource
<1>4. EventsOK'
  BY <1>1 DEF Inv, SourcesInv, EventsOK
<1>5. \A w \in Waiter : Served(w)'
  BY <1>1 DEF Inv, SourcesInv, Served
<1> QED BY <1>2, <1>3, <1>4, <1>5 DEF SourcesInv

-----------------------------------------------------------------------------
\* At the start nobody sleeps and no descriptor is registered.
LEMMA ReactorInit == Init => Inv
<1> SUFFICES ASSUME Init PROVE Inv
  OBVIOUS
<1>1. TimerTypes /\ notified \in BOOLEAN
  <2>1. mTimerOps \in Seq([op : {"Insert", "Remove"}, id : Sleeper])
    BY DEF Init
  <2> QED BY <2>1 DEF Init, TimerTypes
<1>2. SourceTypes
  BY DEF Init, SourceTypes, Unregistered
<1>3. ReactTypes
  BY DEF Init, ReactTypes
<1>4. SleeperInOnePlace
  <2> SUFFICES ASSUME NEW s \in Sleeper PROVE Places(s) = 0
    BY DEF SleeperInOnePlace, Init
  <2>1. Inserts(s) = Positions(<<>>, [op |-> "Insert", id |-> s])
    BY DEF Init, Inserts, Positions
  <2>2. Cardinality(Inserts(s)) = 0
    BY <2>1, EmptyCounts
  <2>3. handles[s] = 0 /\ resumed[s] = 0 /\ s \notin mTimers
    BY DEF Init, Handle
  <2> QED BY <2>2, <2>3 DEF Places
<1>5. RemovesAreCancelled /\ TimeoutOK
  BY DEF Init, RemovesAreCancelled, TimeoutOK
<1>6. SourcesInv
  BY DEF Init, SourcesInv, SourcesOK, RegistrationNamesItsSource, EventsOK, Served, Unregistered
<1> QED BY <1>1, <1>2, <1>3, <1>4, <1>5, <1>6 DEF Inv, TimersInv

\* What an operation pushed on mTimerOps adds.
LEMMA PushedOp ==
  ASSUME TimerTypes, NEW x \in [op : {"Insert", "Remove"}, id : Sleeper], mTimerOps' = push(mTimerOps, x)
  PROVE  /\ mTimerOps' \in Seq([op : {"Insert", "Remove"}, id : Sleeper])
         /\ \A s \in Sleeper :
              Cardinality(Inserts(s)') =
                Cardinality(Inserts(s)) + IF x = [op |-> "Insert", id |-> s] THEN 1 ELSE 0
         /\ \A s \in Sleeper : Inserts(s)' # {} => Inserts(s) # {} \/ x = [op |-> "Insert", id |-> s]
         /\ \A i \in DOMAIN mTimerOps' : mTimerOps'[i] = x \/ \E j \in DOMAIN mTimerOps : mTimerOps[j] = mTimerOps'[i]
<1> DEFINE Op == [op : {"Insert", "Remove"}, id : Sleeper]
<1>1. /\ mTimerOps' \in Seq(Op) /\ DOMAIN mTimerOps = 1 .. Len(mTimerOps) /\ Len(mTimerOps) \in Nat
      /\ DOMAIN mTimerOps' = 1 .. Len(mTimerOps) + 1
      /\ \A i \in 1 .. Len(mTimerOps) : mTimerOps'[i] = mTimerOps[i]
      /\ mTimerOps'[Len(mTimerOps) + 1] = x
  BY DEF TimerTypes, push
<1>2. ASSUME NEW i \in DOMAIN mTimerOps'
      PROVE  mTimerOps'[i] = x \/ (i \in DOMAIN mTimerOps /\ mTimerOps[i] = mTimerOps'[i])
  BY <1>1
<1>3. ASSUME NEW s \in Sleeper
      PROVE  Inserts(s)' # {} => Inserts(s) # {} \/ x = [op |-> "Insert", id |-> s]
  BY <1>2 DEF Inserts
<1>4. ASSUME NEW s \in Sleeper
      PROVE  Cardinality(Inserts(s)') =
               Cardinality(Inserts(s)) + IF x = [op |-> "Insert", id |-> s] THEN 1 ELSE 0
  <2> DEFINE y == [op |-> "Insert", id |-> s]
  <2>1. Inserts(s) = Positions(mTimerOps, y) /\ Inserts(s)' = Positions(push(mTimerOps, x), y)
    BY DEF Inserts, Positions
  <2>2. mTimerOps \in Seq(Op) /\ x \in Op
    BY DEF TimerTypes
  <2> HIDE DEF y, Op
  <2>3. Cardinality(Positions(push(mTimerOps, x), y)) =
              Cardinality(Positions(mTimerOps, y)) + IF x = y THEN 1 ELSE 0
    BY <2>2, PushCounts
  <2> QED BY <2>1, <2>3 DEF y
<1> QED BY <1>1, <1>2, <1>3, <1>4

-----------------------------------------------------------------------------
\* sleep() and what insertTimer() does after the push.
LEMMA SleepStep ==
  ASSUME Inv, NEW s \in Sleeper, sleep(s)
  PROVE  Inv'
<1> USE DEF Inv
<1>1. PICK d \in Duration : left' = [left EXCEPT ![s] = d]
  BY DEF sleep
<1>2. /\ call[s] = "new" /\ call' = [call EXCEPT ![s] = "push"]
      /\ cancelled' = cancelled /\ mTimerOps' = mTimerOps /\ mTimers' = mTimers /\ pc' = pc
      /\ waitTimeout' = waitTimeout /\ timerfd' = timerfd /\ lag' = lag /\ mEvents' = mEvents
      /\ handles' = handles /\ resumed' = resumed /\ fault' = fault /\ notified' = notified
      /\ UNCHANGED sourceVars
  BY DEF sleep, reactVars
<1>3. /\ call'[s] = "push" /\ \A u \in Sleeper : u # s => call'[u] = call[u] /\ left'[u] = left[u]
      /\ call' \in [Sleeper -> {"new", "push", "notify", "store", "out"}]
      /\ left' \in [Sleeper -> Nat]
  BY <1>1, <1>2, ReactorStackAssumption DEF TimerTypes
<1>4. TimerTypes' /\ ReactTypes' /\ notified' \in BOOLEAN
  BY <1>2, <1>3 DEF TimerTypes, ReactTypes
<1>5. SleeperInOnePlace'
  BY <1>2, <1>3, PlacesFrame DEF TimersInv
<1>6. s \notin mTimers /\ Inserts(s) = {}
  BY <1>2, NotYetInserted DEF TimersInv
<1>7. \A u \in mTimers : left'[u] = left[u]
  BY <1>3, <1>6 DEF ReactTypes
<1>8. \A u \in Sleeper : Inserts(u)' = Inserts(u)
  BY <1>2 DEF Inserts
<1>9. RemovesAreCancelled' /\ TimeoutOK'
  BY <1>2, <1>3, <1>6, <1>7, <1>8 DEF TimersInv, RemovesAreCancelled, TimeoutOK
<1>10. SourceTypes' /\ SourcesInv'
  BY <1>2, SourcesFrame
<1> QED BY <1>4, <1>5, <1>9, <1>10 DEF TimersInv

LEMMA InsertTimerStep ==
  ASSUME Inv, NEW s \in Sleeper, insertTimer(s)
  PROVE  Inv'
<1> USE DEF Inv
<1> DEFINE x == [op |-> "Insert", id |-> s]
<1>1. /\ call[s] = "push" /\ call' = [call EXCEPT ![s] = "notify"] /\ mTimerOps' = push(mTimerOps, x)
      /\ left' = left /\ cancelled' = cancelled /\ mTimers' = mTimers /\ pc' = pc
      /\ waitTimeout' = waitTimeout /\ timerfd' = timerfd /\ lag' = lag /\ mEvents' = mEvents
      /\ handles' = handles /\ resumed' = resumed /\ fault' = fault /\ notified' = notified
      /\ UNCHANGED sourceVars
  BY DEF insertTimer, reactVars
<1>2. /\ call'[s] = "notify" /\ \A u \in Sleeper : u # s => call'[u] = call[u]
      /\ call' \in [Sleeper -> {"new", "push", "notify", "store", "out"}]
  BY <1>1 DEF TimerTypes
<1>3. x \in [op : {"Insert", "Remove"}, id : Sleeper] /\ x.op = "Insert"
      /\ \A u \in Sleeper : x = [op |-> "Insert", id |-> u] <=> u = s
  OBVIOUS
<1> HIDE DEF x
<1>4. /\ mTimerOps' \in Seq([op : {"Insert", "Remove"}, id : Sleeper])
      /\ \A u \in Sleeper :
           Cardinality(Inserts(u)') = Cardinality(Inserts(u)) + IF x = [op |-> "Insert", id |-> u] THEN 1 ELSE 0
      /\ \A u \in Sleeper : Inserts(u)' # {} => Inserts(u) # {} \/ x = [op |-> "Insert", id |-> u]
      /\ \A i \in DOMAIN mTimerOps' : mTimerOps'[i] = x \/ \E j \in DOMAIN mTimerOps : mTimerOps[j] = mTimerOps'[i]
  BY <1>1, <1>3, PushedOp
<1>5. TimerTypes' /\ ReactTypes' /\ notified' \in BOOLEAN
  BY <1>1, <1>2, <1>4 DEF TimerTypes, ReactTypes
<1>6. SleeperInOnePlace'
  <2>1. Places(s)' = 1
    <3>1. Inserts(s) = {} /\ s \notin mTimers /\ handles[s] = 0 /\ resumed[s] = 0
      BY <1>1, NotYetInserted DEF TimersInv
    <3>2. Cardinality(Inserts(s)) = 0
      BY <3>1, FS_EmptySet
    <3>3. Cardinality(Inserts(s)') = Cardinality(Inserts(s)) + 1
      BY <1>3, <1>4
    <3> QED BY <1>1, <3>1, <3>2, <3>3 DEF Places
  <2>2. ASSUME NEW u \in Sleeper, u # s PROVE Places(u)' = Places(u)
    <3>1. Cardinality(Inserts(u)') = Cardinality(Inserts(u)) + 0
      BY <1>3, <1>4, <2>2
    <3>2. Cardinality(Inserts(u)) \in Nat
      BY PlacesAreNumbers
    <3> QED BY <1>1, <3>1, <3>2 DEF Places
  <2> QED BY <1>1, <1>2, <2>1, <2>2 DEF TimersInv, SleeperInOnePlace
<1>7. RemovesAreCancelled'
  BY <1>1, <1>3, <1>4 DEF TimersInv, RemovesAreCancelled
<1>8. TimeoutOK'
  BY <1>1, <1>2, <1>3, <1>4 DEF TimersInv, TimeoutOK
<1>9. SourceTypes' /\ SourcesInv'
  BY <1>1, SourcesFrame
<1> QED BY <1>5, <1>6, <1>7, <1>8, <1>9 DEF TimersInv

LEMMA NotifyIdStep ==
  ASSUME Inv, NEW s \in Sleeper, notify(s) \/ storeId(s)
  PROVE  Inv'
<1> USE DEF Inv
<1>1. /\ left' = left /\ cancelled' = cancelled /\ mTimerOps' = mTimerOps /\ mTimers' = mTimers /\ pc' = pc
      /\ waitTimeout' = waitTimeout /\ timerfd' = timerfd /\ lag' = lag /\ mEvents' = mEvents
      /\ handles' = handles /\ resumed' = resumed /\ fault' = fault
      /\ UNCHANGED sourceVars
  BY DEF notify, storeId, reactVars
<1>2. /\ call[s] \in {"notify", "store"} /\ call'[s] \in {"store", "out"}
      /\ \A u \in Sleeper : u # s => call'[u] = call[u]
      /\ call' \in [Sleeper -> {"new", "push", "notify", "store", "out"}]
      /\ notified' = TRUE \/ (notified' = notified /\ call[s] # "notify")
  BY DEF notify, storeId, TimerTypes
<1>3. TimerTypes' /\ ReactTypes' /\ notified' \in BOOLEAN
  <2>1. notified' \in BOOLEAN
    BY <1>2
  <2> QED BY <1>1, <1>2, <2>1 DEF TimerTypes, ReactTypes
<1>4. SleeperInOnePlace'
  BY <1>1, <1>2, PlacesFrame DEF TimersInv
<1>5. \A u \in Sleeper : Inserts(u)' = Inserts(u)
  BY <1>1 DEF Inserts
<1>6. RemovesAreCancelled' /\ TimeoutOK'
  BY <1>1, <1>2, <1>5 DEF TimersInv, RemovesAreCancelled, TimeoutOK
<1>7. SourceTypes' /\ SourcesInv'
  BY <1>1, SourcesFrame
<1> QED BY <1>3, <1>4, <1>6, <1>7 DEF TimersInv

LEMMA RemoveTimerStep ==
  ASSUME Inv, NEW s \in Sleeper, removeTimer(s)
  PROVE  Inv'
<1> USE DEF Inv
<1> DEFINE x == [op |-> "Remove", id |-> s]
<1>1. /\ call[s] = "out" /\ cancelled' = cancelled \cup {s} /\ mTimerOps' = push(mTimerOps, x)
      /\ call' = call /\ left' = left /\ mTimers' = mTimers /\ pc' = pc
      /\ waitTimeout' = waitTimeout /\ timerfd' = timerfd /\ lag' = lag /\ mEvents' = mEvents
      /\ handles' = handles /\ resumed' = resumed /\ fault' = fault /\ notified' = notified
      /\ UNCHANGED sourceVars
  BY DEF removeTimer, reactVars
<1>2. x \in [op : {"Insert", "Remove"}, id : Sleeper] /\ x.id = s
      /\ \A u \in Sleeper : x # [op |-> "Insert", id |-> u]
  OBVIOUS
<1> HIDE DEF x
<1>3. /\ mTimerOps' \in Seq([op : {"Insert", "Remove"}, id : Sleeper])
      /\ \A u \in Sleeper :
           Cardinality(Inserts(u)') = Cardinality(Inserts(u)) + IF x = [op |-> "Insert", id |-> u] THEN 1 ELSE 0
      /\ \A u \in Sleeper : Inserts(u)' # {} => Inserts(u) # {} \/ x = [op |-> "Insert", id |-> u]
      /\ \A i \in DOMAIN mTimerOps' : mTimerOps'[i] = x \/ \E j \in DOMAIN mTimerOps : mTimerOps[j] = mTimerOps'[i]
  BY <1>1, <1>2, PushedOp
<1>4. TimerTypes' /\ ReactTypes' /\ notified' \in BOOLEAN
  BY <1>1, <1>3 DEF TimerTypes, ReactTypes
<1>5. SleeperInOnePlace'
  <2>1. ASSUME NEW u \in Sleeper PROVE Places(u)' = Places(u)
    <3>1. Cardinality(Inserts(u)') = Cardinality(Inserts(u)) + 0
      BY <1>2, <1>3
    <3>2. Cardinality(Inserts(u)) \in Nat
      BY PlacesAreNumbers
    <3> QED BY <1>1, <3>1, <3>2 DEF Places
  <2> QED BY <1>1, <2>1 DEF TimersInv, SleeperInOnePlace
<1>6. RemovesAreCancelled'
  BY <1>1, <1>2, <1>3 DEF TimersInv, RemovesAreCancelled
<1>7. TimeoutOK'
  BY <1>1, <1>2, <1>3 DEF TimersInv, TimeoutOK
<1>8. SourceTypes' /\ SourcesInv'
  BY <1>1, SourcesFrame
<1> QED BY <1>4, <1>5, <1>6, <1>7, <1>8 DEF TimersInv

\* The clock: what the wait is late by grows while the timer is not set.
LEMMA TickStep ==
  ASSUME Inv, Tick
  PROVE  Inv'
<1> USE DEF Inv
<1>1. /\ left' = [s \in Sleeper |-> Minus1(left[s])]
      /\ timerfd' = IF timerfd = None THEN None ELSE Minus1(timerfd)
      /\ lag' = IF pc = "wait" THEN lag + 1 ELSE lag
      /\ call' = call /\ cancelled' = cancelled /\ mTimerOps' = mTimerOps /\ mTimers' = mTimers /\ pc' = pc
      /\ waitTimeout' = waitTimeout /\ mEvents' = mEvents
      /\ handles' = handles /\ resumed' = resumed /\ fault' = fault /\ notified' = notified
      /\ UNCHANGED sourceVars
  BY DEF Tick
<1>2. \A n \in Nat : Minus1(n) \in Nat /\ (n = 0 => Minus1(n) = 0) /\ (n # 0 => Minus1(n) = n - 1)
  BY DEF Minus1
<1>3. left' \in [Sleeper -> Nat] /\ \A s \in Sleeper : left'[s] = Minus1(left[s]) /\ left[s] \in Nat
  BY <1>1, <1>2 DEF TimerTypes
<1>4. timerfd' \in Nat \cup {None} /\ lag' \in Nat
  BY <1>1, <1>2 DEF ReactTypes
<1>5. TimerTypes' /\ ReactTypes' /\ notified' \in BOOLEAN
  BY <1>1, <1>3, <1>4 DEF TimerTypes, ReactTypes
<1>6. SleeperInOnePlace'
  BY <1>1, PlacesFrame DEF TimersInv
<1>7. \A u \in Sleeper : Inserts(u)' = Inserts(u)
  BY <1>1 DEF Inserts
<1>8. RemovesAreCancelled'
  BY <1>1 DEF TimersInv, RemovesAreCancelled
<1>9. ASSUME pc = "wait", NEW s \in mTimers
      PROVE  waitTimeout # None /\ waitTimeout <= left'[s] + lag'
  <2>1. /\ s \in Sleeper /\ waitTimeout # None /\ waitTimeout \in Nat /\ lag \in Nat
        /\ waitTimeout <= left[s] + lag
    BY <1>9 DEF TimersInv, TimeoutOK, ReactTypes
  <2>2. lag' = lag + 1 /\ left[s] \in Nat /\ left'[s] \in Nat /\ left[s] <= left'[s] + 1
    BY <1>1, <1>2, <1>3, <1>9, <2>1
  <2> QED BY <2>1, <2>2
<1>10. ASSUME pc = "polling", NEW s \in mTimers
       PROVE  timerfd' # None /\ timerfd' <= left'[s] + lag'
  <2>1. /\ s \in Sleeper /\ timerfd # None /\ timerfd \in Nat /\ lag \in Nat
        /\ timerfd <= left[s] + lag
    BY <1>10 DEF TimersInv, TimeoutOK, ReactTypes
  <2>2. lag' = lag /\ left[s] \in Nat /\ left'[s] = Minus1(left[s]) /\ timerfd' = Minus1(timerfd)
    BY <1>1, <1>3, <1>10, <2>1
  <2>3. timerfd' \in Nat /\ timerfd' # None
    BY <1>2, <2>1, <2>2, ReactorStackAssumption
  <2> QED BY <1>2, <2>1, <2>2, <2>3
<1>11. TimeoutOK'
  BY <1>1, <1>7, <1>9, <1>10 DEF TimersInv, TimeoutOK
<1>12. SourceTypes' /\ SourcesInv'
  BY <1>1, SourcesFrame
<1> QED BY <1>5, <1>6, <1>8, <1>11, <1>12 DEF TimersInv

-----------------------------------------------------------------------------
\* insertIo(): the key is vacant, so no other Source has it.
LEMMA InsertIoStep ==
  ASSUME Inv, NEW f \in Fd, insertIo(f)
  PROVE  Inv'
<1> USE DEF Inv
<1>1. PICK k \in Key : /\ mSources[k] = None
                       /\ mSources' = [mSources EXCEPT ![k] = f]
                       /\ source' = [source EXCEPT ![f] = [st |-> "adding", key |-> k]]
  BY DEF insertIo
<1>2. /\ source[f].st = "out" /\ fresh' = IF pc = "dispatch" THEN fresh \cup {f} ELSE {}
      /\ handle' = handle /\ updating' = updating /\ reg' = reg /\ overtaken' = overtaken
      /\ UNCHANGED <<timerVars, reactVars, notified>> /\ pc' = pc /\ mEvents' = mEvents
  BY DEF insertIo, reactVars
<1>3. /\ mSources'[k] = f /\ \A j \in Key : j # k => mSources'[j] = mSources[j]
      /\ source'[f] = [st |-> "adding", key |-> k] /\ \A g \in Fd : g # f => source'[g] = source[g]
  BY <1>1 DEF SourceTypes
<1>4. SourceTypes'
  BY <1>1, <1>2 DEF SourceTypes
<1>5. SourcesOK' /\ RegistrationNamesItsSource'
  <2>1. ASSUME NEW g \in Fd, source'[g].st # "out"
        PROVE  source'[g].key \in Key /\ mSources'[source'[g].key] = g
    BY <1>1, <1>3, <2>1, ReactorStackAssumption DEF SourcesInv, SourcesOK
  <2>2. ASSUME NEW g \in Fd, reg'[g].in
        PROVE  source'[g].st = "in" /\ reg'[g].key = source'[g].key /\ mSources'[source'[g].key] = g
    <3>1. source[g].st = "in" /\ reg[g].key = source[g].key /\ g # f
      BY <1>2, <2>2 DEF SourcesInv, RegistrationNamesItsSource
    <3> QED BY <1>2, <1>3, <2>1, <3>1
  <2>3. ASSUME NEW w \in Waiter, handle'[w] \/ w \in updating'
        PROVE  source'[w[1]].st = "in"
    <3>1. source[w[1]].st = "in" /\ w[1] \in Fd
      BY <1>2, <2>3, ReactorStackAssumption DEF SourcesInv, SourcesOK
    <3> QED BY <1>2, <1>3, <3>1
  <2> QED BY <1>2, <2>1, <2>2, <2>3 DEF SourcesInv, SourcesOK, RegistrationNamesItsSource
<1>6. EventsOK'
  <2> SUFFICES ASSUME pc = "dispatch", NEW e \in mEvents
               PROVE  mSources'[e.key] = None \/ mSources'[e.key] = e.fd \/ mSources'[e.key] \in fresh'
    BY <1>2 DEF EventsOK
  <2>1. e.key \in Key
    BY DEF ReactTypes
  <2> QED BY <1>2, <1>3, <2>1 DEF SourcesInv, EventsOK
<1>7. ASSUME NEW w \in Waiter PROVE Served(w)'
  <2>1. w[1] \in Fd /\ (handle[w] => source[w[1]].st = "in")
    BY ReactorStackAssumption DEF SourcesInv, SourcesOK
  <2>2. handle[w] => source'[w[1]] = source[w[1]]
    BY <1>2, <1>3, <2>1
  <2> QED BY <1>2, <2>2 DEF SourcesInv, Served
<1>8. TimerTypes' /\ ReactTypes' /\ notified' \in BOOLEAN /\ TimersInv'
  BY <1>2, TimersFrame
<1> QED BY <1>4, <1>5, <1>6, <1>7, <1>8 DEF SourcesInv

\* The registration, or its failure.
LEMMA PollerAddStep ==
  ASSUME Inv, NEW f \in Fd, pollerAdd(f)
  PROVE  Inv'
<1> USE DEF Inv
<1>1. /\ source[f].st = "adding"
      /\ mSources' = mSources /\ handle' = handle /\ updating' = updating /\ overtaken' = overtaken /\ fresh' = fresh
      /\ UNCHANGED <<timerVars, reactVars, notified>> /\ pc' = pc /\ mEvents' = mEvents
  BY DEF pollerAdd, reactVars
<1>2. PICK st \in {"in", "failed"} :
        /\ source' = [source EXCEPT ![f].st = st]
        /\ IF st = "in"
           THEN reg' = [reg EXCEPT ![f] = [in |-> TRUE, armed |-> TRUE, key |-> source[f].key, interest |-> {}]]
           ELSE reg' = reg
  BY DEF pollerAdd, St
<1>3. /\ source'[f].st = st /\ source'[f].key = source[f].key
      /\ \A g \in Fd : g # f => source'[g] = source[g] /\ reg'[g] = reg[g]
      /\ st = "in" => reg'[f].in /\ reg'[f].key = source[f].key
      /\ st = "failed" => reg'[f] = reg[f]
  BY <1>2 DEF SourceTypes
<1>4. SourceTypes'
  <2>1. source' \in [Fd -> [st : {"out", "adding", "failed", "in"}, key : Key \cup {None}]]
    BY <1>2 DEF SourceTypes
  <2>2. source[f].key \in Key \cup {None}
    BY DEF SourceTypes
  <2> DEFINE Registration == [in : BOOLEAN, armed : BOOLEAN, key : Key \cup {None}, interest : SUBSET {"read", "write"}]
             new == [in |-> TRUE, armed |-> TRUE, key |-> source[f].key, interest |-> {}]
  <2>3. new \in Registration
    BY <2>2
  <2>4. reg \in [Fd -> Registration]
    BY DEF SourceTypes
  <2>5. reg' = [reg EXCEPT ![f] = new] \/ reg' = reg
    BY <1>2
  <2>6. reg' \in [Fd -> Registration]
    <3> HIDE DEF Registration, new
    <3> QED BY <2>3, <2>4, <2>5
  <2> QED BY <1>1, <2>1, <2>6 DEF SourceTypes
<1>5. ~reg[f].in
  BY <1>1 DEF SourcesInv, RegistrationNamesItsSource
<1>6. SourcesOK' /\ RegistrationNamesItsSource'
  <2>1. ASSUME NEW g \in Fd, source'[g].st # "out"
        PROVE  source'[g].key \in Key /\ mSources'[source'[g].key] = g
    BY <1>1, <1>3, <2>1 DEF SourcesInv, SourcesOK
  <2>2. ASSUME NEW g \in Fd, reg'[g].in
        PROVE  source'[g].st = "in" /\ reg'[g].key = source'[g].key /\ mSources'[source'[g].key] = g
    BY <1>1, <1>2, <1>3, <1>5, <2>1, <2>2 DEF SourcesInv, RegistrationNamesItsSource
  <2>3. ASSUME NEW w \in Waiter, handle'[w] \/ w \in updating'
        PROVE  source'[w[1]].st = "in"
    <3>1. source[w[1]].st = "in" /\ w[1] \in Fd
      BY <1>1, <2>3, ReactorStackAssumption DEF SourcesInv, SourcesOK
    <3> QED BY <1>1, <1>3, <3>1
  <2>4. ASSUME NEW g \in Fd, reg'[g].armed PROVE reg'[g].in
    BY <1>2, <1>3, <2>4 DEF SourcesInv, SourcesOK
  <2> QED BY <2>1, <2>2, <2>3, <2>4 DEF SourcesOK, RegistrationNamesItsSource
<1>7. EventsOK'
  BY <1>1 DEF SourcesInv, EventsOK
<1>8. ASSUME NEW w \in Waiter PROVE Served(w)'
  <2>1. w[1] \in Fd /\ (handle[w] => source[w[1]].st = "in")
    BY ReactorStackAssumption DEF SourcesInv, SourcesOK
  <2>2. handle[w] => source'[w[1]] = source[w[1]] /\ reg'[w[1]] = reg[w[1]]
    BY <1>1, <1>3, <2>1
  <2> QED BY <1>1, <2>2 DEF SourcesInv, Served
<1>9. TimerTypes' /\ ReactTypes' /\ notified' \in BOOLEAN /\ TimersInv'
  BY <1>1, TimersFrame
<1> QED BY <1>4, <1>6, <1>7, <1>8, <1>9 DEF SourcesInv

\* tryRemove(), after a failed registration or with its removal: nobody waits, and no
\* registration is left that names the slot.
LEMMA RemoveIoStep ==
  ASSUME Inv, NEW f \in Fd, insertIoFailed(f) \/ removeIo(f)
  PROVE  Inv'
<1> USE DEF Inv
<1>1. /\ source[f].st \in {"failed", "in"}
      /\ mSources' = [mSources EXCEPT ![source[f].key] = None]
      /\ source' = [source EXCEPT ![f] = [st |-> "out", key |-> None]]
      /\ handle' = handle /\ updating' = updating /\ overtaken' = overtaken /\ fresh' = fresh
      /\ UNCHANGED <<timerVars, reactVars, notified>> /\ pc' = pc /\ mEvents' = mEvents
  BY DEF insertIoFailed, removeIo, reactVars
<1>2. reg' = [reg EXCEPT ![f] = Unregistered] \/ (source[f].st = "failed" /\ reg' = reg)
  BY DEF insertIoFailed, removeIo, delOf
<1>3. ASSUME NEW w \in Waiter, handle[w] \/ w \in updating PROVE w[1] # f /\ w[1] \in Fd
  BY <1>3, ReactorStackAssumption DEF SourcesInv, SourcesOK, insertIoFailed, removeIo
<1>4. ~reg'[f].in /\ ~reg'[f].armed /\ \A g \in Fd : g # f => reg'[g] = reg[g]
  <2>1. source[f].st = "failed" => ~reg[f].in /\ ~reg[f].armed
    BY DEF SourcesInv, SourcesOK, RegistrationNamesItsSource
  <2> QED BY <1>2, <2>1 DEF SourceTypes, Unregistered
<1>5. /\ source'[f].st = "out" /\ \A g \in Fd : g # f => source'[g] = source[g]
      /\ source[f].key \in Key /\ mSources[source[f].key] = f
      /\ mSources'[source[f].key] = None
      /\ \A j \in Key : j # source[f].key => mSources'[j] = mSources[j]
  BY <1>1 DEF SourceTypes, SourcesInv, SourcesOK
<1>6. SourceTypes'
  <2> DEFINE Registration == [in : BOOLEAN, armed : BOOLEAN, key : Key \cup {None}, interest : SUBSET {"read", "write"}]
  <2>1. Unregistered \in Registration
    BY DEF Unregistered
  <2>2. reg \in [Fd -> Registration]
    BY DEF SourceTypes
  <2>3. reg' \in [Fd -> Registration]
    <3> HIDE DEF Registration
    <3> QED BY <1>2, <2>1, <2>2
  <2>4. source' \in [Fd -> [st : {"out", "adding", "failed", "in"}, key : Key \cup {None}]]
    BY <1>1 DEF SourceTypes
  <2> QED BY <1>1, <2>3, <2>4 DEF SourceTypes
<1>7. SourcesOK' /\ RegistrationNamesItsSource'
  <2>1. ASSUME NEW g \in Fd, source'[g].st # "out"
        PROVE  source'[g].key \in Key /\ mSources'[source'[g].key] = g
    <3>1. g # f /\ source[g].st # "out" /\ source'[g] = source[g]
      BY <1>5, <2>1
    <3>2. source[g].key \in Key /\ mSources[source[g].key] = g
      BY <3>1 DEF SourcesInv, SourcesOK
    <3> QED BY <1>5, <3>1, <3>2
  <2>2. ASSUME NEW g \in Fd, reg'[g].in
        PROVE  source'[g].st = "in" /\ reg'[g].key = source'[g].key /\ mSources'[source'[g].key] = g
    <3>1. g # f /\ reg[g].in
      BY <1>4, <2>2
    <3>2. source[g].st = "in" /\ reg[g].key = source[g].key
      BY <3>1 DEF SourcesInv, RegistrationNamesItsSource
    <3> QED BY <1>4, <1>5, <2>1, <3>1, <3>2
  <2>3. ASSUME NEW w \in Waiter, handle'[w] \/ w \in updating'
        PROVE  source'[w[1]].st = "in"
    BY <1>1, <1>3, <1>5, <2>3 DEF SourcesInv, SourcesOK
  <2>4. ASSUME NEW g \in Fd, reg'[g].armed PROVE reg'[g].in
    BY <1>4, <2>4 DEF SourcesInv, SourcesOK
  <2> QED BY <2>1, <2>2, <2>3, <2>4 DEF SourcesOK, RegistrationNamesItsSource
<1>8. EventsOK'
  <2> SUFFICES ASSUME pc = "dispatch", NEW e \in mEvents
               PROVE  mSources'[e.key] = None \/ mSources'[e.key] = e.fd \/ mSources'[e.key] \in fresh'
    BY <1>1 DEF EventsOK
  <2>1. e.key \in Key
    BY DEF ReactTypes
  <2> QED BY <1>1, <1>5, <2>1 DEF SourcesInv, EventsOK
<1>9. ASSUME NEW w \in Waiter PROVE Served(w)'
  BY <1>1, <1>3, <1>4, <1>5 DEF SourcesInv, Served
<1>10. TimerTypes' /\ ReactTypes' /\ notified' \in BOOLEAN /\ TimersInv'
  BY <1>1, TimersFrame
<1> QED BY <1>6, <1>7, <1>8, <1>9, <1>10 DEF SourcesInv

\* setReadable() or setWritable(), after which w will call updateIo().
LEMMA SetHandleStep ==
  ASSUME Inv, NEW w \in Waiter, setHandle(w)
  PROVE  Inv'
<1> USE DEF Inv
<1>1. /\ source[w[1]].st = "in" /\ handle' = [handle EXCEPT ![w] = TRUE] /\ updating' = updating \cup {w}
      /\ mSources' = mSources /\ source' = source /\ reg' = reg /\ overtaken' = overtaken /\ fresh' = fresh
      /\ UNCHANGED <<timerVars, reactVars, notified>> /\ pc' = pc /\ mEvents' = mEvents
  BY DEF setHandle, reactVars
<1>2. \A v \in Waiter : v # w => handle'[v] = handle[v]
  BY <1>1 DEF SourceTypes
<1>3. SourceTypes'
  BY <1>1 DEF SourceTypes
<1>4. SourcesOK' /\ RegistrationNamesItsSource' /\ EventsOK'
  BY <1>1, <1>2 DEF SourcesInv, SourcesOK, RegistrationNamesItsSource, EventsOK
<1>5. ASSUME NEW v \in Waiter PROVE Served(v)'
  BY <1>1, <1>2 DEF SourcesInv, Served
<1>6. TimerTypes' /\ ReactTypes' /\ notified' \in BOOLEAN /\ TimersInv'
  BY <1>1, TimersFrame
<1> QED BY <1>3, <1>4, <1>5, <1>6 DEF SourcesInv

\* updateIo() asks for every direction of the Source that somebody waits for.
LEMMA UpdateIoStep ==
  ASSUME Inv, NEW w \in Waiter, updateIo(w)
  PROVE  Inv'
<1> USE DEF Inv
<1> DEFINE f == w[1]
<1>1. /\ w \in updating /\ updating' = updating \ {w}
      /\ reg' = [reg EXCEPT ![f] = [in |-> TRUE, armed |-> TRUE, key |-> source[f].key, interest |-> getEvent(w)]]
      /\ overtaken' = {v \in overtaken : v[1] # f}
      /\ mSources' = mSources /\ source' = source /\ handle' = handle /\ fresh' = fresh
      /\ UNCHANGED <<timerVars, reactVars, notified>> /\ pc' = pc /\ mEvents' = mEvents
  BY DEF updateIo, reactVars
<1>2. f \in Fd /\ source[f].st = "in" /\ \A v \in Waiter : v[1] \in Fd /\ v[2] \in {"read", "write"}
  BY <1>1, ReactorStackAssumption DEF SourcesInv, SourcesOK, SourceTypes
<1>3. getEvent(w) \subseteq {"read", "write"} /\ \A v \in Waiter : v[1] = f /\ handle[v] => v[2] \in getEvent(w)
  BY <1>2 DEF getEvent
<1>4. /\ reg'[f].in /\ reg'[f].armed /\ reg'[f].key = source[f].key /\ reg'[f].interest = getEvent(w)
      /\ \A g \in Fd : g # f => reg'[g] = reg[g]
  BY <1>1, <1>2 DEF SourceTypes
<1>5. SourceTypes'
  <2>1. source[f].key \in Key \cup {None}
    BY <1>2 DEF SourceTypes
  <2>2. reg' \in [Fd -> [in : BOOLEAN, armed : BOOLEAN, key : Key \cup {None}, interest : SUBSET {"read", "write"}]]
    BY <1>1, <1>3, <2>1 DEF SourceTypes
  <2> QED BY <1>1, <2>2 DEF SourceTypes
<1> HIDE DEF f
<1>6. SourcesOK' /\ RegistrationNamesItsSource' /\ EventsOK'
  <2>1. source[f].key \in Key /\ mSources[source[f].key] = f
    BY <1>2 DEF SourcesInv, SourcesOK
  <2>2. ASSUME NEW g \in Fd, reg'[g].in
        PROVE  source'[g].st = "in" /\ reg'[g].key = source'[g].key /\ mSources'[source'[g].key] = g
    BY <1>1, <1>2, <1>4, <2>1, <2>2 DEF SourcesInv, RegistrationNamesItsSource
  <2>3. ASSUME NEW g \in Fd, reg'[g].armed PROVE reg'[g].in
    BY <1>4, <2>3 DEF SourcesInv, SourcesOK
  <2>4. SourcesOK'
    BY <1>1, <2>3 DEF SourcesInv, SourcesOK
  <2>5. EventsOK'
    BY <1>1 DEF SourcesInv, EventsOK
  <2> QED BY <2>2, <2>4, <2>5 DEF RegistrationNamesItsSource
<1>7. ASSUME NEW v \in Waiter PROVE Served(v)'
  <2>1. CASE v[1] = f
    BY <1>1, <1>3, <1>4, <2>1 DEF Served
  <2>2. CASE v[1] # f
    <3>1. reg'[v[1]] = reg[v[1]] /\ (v \in overtaken <=> v \in overtaken') /\ (v \in updating <=> v \in updating')
      BY <1>1, <1>2, <1>4, <2>2 DEF f
    <3> QED BY <1>1, <3>1 DEF SourcesInv, Served
  <2> QED BY <2>1, <2>2
<1>8. TimerTypes' /\ ReactTypes' /\ notified' \in BOOLEAN /\ TimersInv'
  BY <1>1, TimersFrame
<1> QED BY <1>5, <1>6, <1>7, <1>8 DEF SourcesInv

-----------------------------------------------------------------------------
\* What popping an operation takes away.
LEMMA PoppedOp ==
  ASSUME TimerTypes, ~empty(mTimerOps), mTimerOps' = popped(mTimerOps)
  PROVE  /\ front(mTimerOps) \in [op : {"Insert", "Remove"}, id : Sleeper]
         /\ mTimerOps' \in Seq([op : {"Insert", "Remove"}, id : Sleeper])
         /\ \A s \in Sleeper :
              Cardinality(Inserts(s)') =
                Cardinality(Inserts(s)) - IF front(mTimerOps) = [op |-> "Insert", id |-> s] THEN 1 ELSE 0
         /\ front(mTimerOps) = mTimerOps[1] /\ 1 \in DOMAIN mTimerOps
         /\ \A i \in DOMAIN mTimerOps' : \E j \in DOMAIN mTimerOps : mTimerOps[j] = mTimerOps'[i]
<1> DEFINE Op == [op : {"Insert", "Remove"}, id : Sleeper]
<1>1. mTimerOps \in Seq(Op)
  BY DEF TimerTypes
<1>2. /\ Len(mTimerOps) \in Nat \ {0} /\ DOMAIN mTimerOps = 1 .. Len(mTimerOps)
      /\ DOMAIN mTimerOps' = 1 .. Len(mTimerOps) - 1
      /\ \A i \in 1 .. Len(mTimerOps) - 1 : mTimerOps'[i] = mTimerOps[i + 1]
      /\ front(mTimerOps) = mTimerOps[1]
  BY <1>1 DEF popped, front, empty
<1>3. ASSUME NEW i \in DOMAIN mTimerOps' PROVE \E j \in DOMAIN mTimerOps : mTimerOps[j] = mTimerOps'[i]
  <2>1. i + 1 \in DOMAIN mTimerOps /\ mTimerOps[i + 1] = mTimerOps'[i]
    BY <1>2
  <2> QED BY <2>1
<1>4. ASSUME NEW s \in Sleeper
      PROVE  Cardinality(Inserts(s)') =
               Cardinality(Inserts(s)) - IF front(mTimerOps) = [op |-> "Insert", id |-> s] THEN 1 ELSE 0
  <2> DEFINE y == [op |-> "Insert", id |-> s]
  <2>1. Inserts(s) = Positions(mTimerOps, y) /\ Inserts(s)' = Positions(popped(mTimerOps), y)
    BY DEF Inserts, Positions
  <2> HIDE DEF y, Op
  <2>2. Cardinality(Positions(popped(mTimerOps), y)) =
              Cardinality(Positions(mTimerOps, y)) - IF front(mTimerOps) = y THEN 1 ELSE 0
    BY <1>1, PopCounts
  <2> QED BY <2>1, <2>2 DEF y
<1>5. front(mTimerOps) \in Op /\ mTimerOps' \in Seq(Op)
  <2> HIDE DEF Op
  <2> QED BY <1>1, PopCounts
<1>6. 1 \in DOMAIN mTimerOps
  BY <1>2
<1> QED BY <1>2, <1>3, <1>4, <1>5, <1>6

\* react() is entered, and left without a wait or with one that fails.
LEMMA ReactMoveStep ==
  ASSUME Inv, react \/ pollerWait \/ pollerInterrupted
  PROVE  Inv'
<1> USE DEF Inv
<1>1. /\ call' = call /\ left' = left /\ cancelled' = cancelled /\ mTimerOps' = mTimerOps
      /\ mTimers' = mTimers /\ waitTimeout' = waitTimeout /\ lag' \in {0, lag} /\ mEvents' = mEvents
      /\ handles' = handles /\ resumed' = resumed /\ fault' = fault /\ notified' = notified
      /\ UNCHANGED sourceVars
  BY DEF react, pollerWait, pollerInterrupted, timerVars
<1>2. /\ pc # "dispatch" /\ pc' \in {"ops", "polling", "execute"}
      /\ timerfd' \in {timerfd, waitTimeout, None}
      /\ pc' = "polling" => pc = "wait" /\ timerfd' = waitTimeout /\ lag' = lag
  BY DEF react, pollerWait, pollerInterrupted
<1>3. TimerTypes' /\ ReactTypes' /\ notified' \in BOOLEAN
  BY <1>1, <1>2 DEF TimerTypes, ReactTypes
<1>4. SleeperInOnePlace'
  BY <1>1, PlacesFrame DEF TimersInv
<1>5. \A u \in Sleeper : Inserts(u)' = Inserts(u)
  BY <1>1 DEF Inserts
<1>6. RemovesAreCancelled' /\ TimeoutOK'
  BY <1>1, <1>2, <1>5 DEF TimersInv, RemovesAreCancelled, TimeoutOK
<1>7. SourceTypes' /\ SourcesInv'
  BY <1>1, <1>2, SourcesFrame
<1> QED BY <1>3, <1>4, <1>6, <1>7 DEF TimersInv

\* An operation moves its sleeper from the queue into the map, or out of the map.
LEMMA ProcessTimeOpsStep ==
  ASSUME Inv, processTimeOps
  PROVE  Inv'
<1> USE DEF Inv
<1>1. /\ call' = call /\ left' = left /\ cancelled' = cancelled
      /\ waitTimeout' = waitTimeout /\ timerfd' = timerfd /\ lag' = lag /\ mEvents' = mEvents
      /\ handles' = handles /\ resumed' = resumed /\ fault' = fault /\ notified' = notified
      /\ pc \in {"ops", "ops2"} /\ pc' \in {"ops", "ops2", "timers", "timers2"}
      /\ UNCHANGED sourceVars
  BY DEF processTimeOps
<1>2. SourceTypes' /\ SourcesInv'
  BY <1>1, SourcesFrame
<1>3. CASE empty(mTimerOps)
  <2>1. mTimerOps' = mTimerOps /\ mTimers' = mTimers
    BY <1>3 DEF processTimeOps
  <2>2. TimerTypes' /\ ReactTypes' /\ notified' \in BOOLEAN
    BY <1>1, <2>1 DEF TimerTypes, ReactTypes
  <2>3. SleeperInOnePlace'
    BY <1>1, <2>1, PlacesFrame DEF TimersInv
  <2>4. \A s \in Sleeper : Inserts(s)' = {}
    BY <1>3, <2>1 DEF Inserts, empty
  <2>5. RemovesAreCancelled' /\ TimeoutOK'
    BY <1>1, <2>1, <2>4 DEF TimersInv, RemovesAreCancelled, TimeoutOK
  <2> QED BY <1>2, <2>2, <2>3, <2>5 DEF TimersInv
<1>4. CASE ~empty(mTimerOps)
  <2> DEFINE x == front(mTimerOps)
  <2>1. /\ mTimerOps' = popped(mTimerOps) /\ pc' = pc
        /\ mTimers' = IF x.op = "Insert" THEN mTimers \cup {x.id} ELSE mTimers \ {x.id}
    BY <1>4 DEF processTimeOps
  <2>2. /\ x \in [op : {"Insert", "Remove"}, id : Sleeper]
        /\ mTimerOps' \in Seq([op : {"Insert", "Remove"}, id : Sleeper])
        /\ \A s \in Sleeper :
             Cardinality(Inserts(s)') = Cardinality(Inserts(s)) - IF x = [op |-> "Insert", id |-> s] THEN 1 ELSE 0
        /\ x = mTimerOps[1] /\ 1 \in DOMAIN mTimerOps
        /\ \A i \in DOMAIN mTimerOps' : \E j \in DOMAIN mTimerOps : mTimerOps[j] = mTimerOps'[i]
    BY <1>4, <2>1, PoppedOp
  <2> HIDE DEF x
  <2>3. x.id \in Sleeper /\ x.op \in {"Insert", "Remove"}
        /\ \A s \in Sleeper : x = [op |-> "Insert", id |-> s] <=> x.op = "Insert" /\ x.id = s
    BY <2>2
  <2>4. TimerTypes' /\ ReactTypes' /\ notified' \in BOOLEAN
    BY <1>1, <2>1, <2>2, <2>3 DEF TimerTypes, ReactTypes
  <2>5. RemovesAreCancelled'
    BY <1>1, <2>2 DEF TimersInv, RemovesAreCancelled
  <2>6. TimeoutOK'
    BY <1>1, <2>1 DEF TimeoutOK
  <2>7. SleeperInOnePlace'
    <3> SUFFICES ASSUME NEW s \in Sleeper
                 PROVE  IF call[s] \in {"new", "push"} THEN Places(s)' = 0
                        ELSE Places(s)' = 1 \/ (s \in cancelled /\ Places(s)' = 0)
      BY <1>1 DEF SleeperInOnePlace
    <3> DEFINE n == Cardinality(Inserts(s))
               k == Cardinality(Inserts(s)')
    <3>1. /\ n \in Nat /\ handles[s] \in Nat /\ resumed[s] \in Nat
          /\ k = n - IF x = [op |-> "Insert", id |-> s] THEN 1 ELSE 0
          /\ k \in Nat
      <4>1. n \in Nat /\ handles[s] \in Nat /\ resumed[s] \in Nat
        BY PlacesAreNumbers
      <4>2. k = n - IF x = [op |-> "Insert", id |-> s] THEN 1 ELSE 0
        BY <2>2
      <4>3. Inserts(s)' = Positions(mTimerOps', [op |-> "Insert", id |-> s])
        BY DEF Inserts, Positions
      <4>4. k \in Nat
        BY <2>2, <4>3, PositionsFinite
      <4> QED BY <4>1, <4>2, <4>4
    <3>2. /\ Places(s) = n + (IF s \in mTimers THEN 1 ELSE 0) + handles[s] + resumed[s]
          /\ Places(s)' = k + (IF s \in mTimers' THEN 1 ELSE 0) + handles[s] + resumed[s]
      BY <1>1 DEF Places
    <3>3. IF call[s] \in {"new", "push"} THEN Places(s) = 0
          ELSE Places(s) = 1 \/ (s \in cancelled /\ Places(s) = 0)
      BY DEF TimersInv, SleeperInOnePlace
    <3> HIDE DEF n, k
    <3>4. CASE x.op = "Insert" /\ x.id = s
      <4>1. k = n - 1 /\ s \in mTimers'
        BY <2>1, <2>3, <3>1, <3>4
      <4>2. Places(s) <= 1
        BY <3>3
      <4>3. s \notin mTimers
        BY <3>1, <3>2, <4>1, <4>2
      <4>4. Places(s)' = Places(s)
        BY <3>1, <3>2, <4>1, <4>3
      <4> QED BY <3>3, <4>4
    <3>5. CASE x.op = "Remove" /\ x.id = s
      <4>1. k = n /\ s \notin mTimers' /\ s \in cancelled
        BY <2>1, <2>2, <2>3, <3>1, <3>5 DEF TimersInv, RemovesAreCancelled
      <4>2. Places(s)' = Places(s) \/ (Places(s)' = Places(s) - 1 /\ s \in mTimers)
        BY <3>1, <3>2, <4>1
      <4>3. Places(s)' \in Nat
        BY <3>1, <3>2
      <4> QED BY <3>1, <3>2, <3>3, <4>1, <4>2, <4>3
    <3>6. CASE x.id # s
      <4>1. k = n /\ (s \in mTimers' <=> s \in mTimers)
        BY <2>1, <2>3, <3>1, <3>6
      <4> QED BY <3>2, <3>3, <4>1
    <3> QED BY <2>3, <3>4, <3>5, <3>6
  <2> QED BY <1>2, <2>4, <2>5, <2>6, <2>7 DEF TimersInv
<1> QED BY <1>3, <1>4

\* The ready timers leave the map with their handles; the others bound the wait.
LEMMA ProcessTimersStep ==
  ASSUME Inv, processTimers
  PROVE  Inv'
<1> USE DEF Inv
<1>1. /\ call' = call /\ left' = left /\ cancelled' = cancelled /\ mTimerOps' = mTimerOps
      /\ timerfd' = timerfd /\ lag' = 0 /\ mEvents' = mEvents
      /\ resumed' = resumed /\ notified' = notified
      /\ pc \in {"timers", "timers2"} /\ UNCHANGED sourceVars
  BY DEF processTimers, timerVars
<1>2. \A u \in Sleeper : Inserts(u)' = Inserts(u)
  BY <1>1 DEF Inserts
<1>3. RemovesAreCancelled'
  BY <1>1 DEF TimersInv, RemovesAreCancelled
<1>4. CASE fault' = TRUE /\ UNCHANGED <<mTimers, handles, waitTimeout, pc>>
  <2>1. TimerTypes' /\ ReactTypes' /\ notified' \in BOOLEAN
    BY <1>1, <1>4 DEF TimerTypes, ReactTypes
  <2>2. SleeperInOnePlace'
    BY <1>1, <1>4, PlacesFrame DEF TimersInv
  <2>3. TimeoutOK'
    BY <1>1, <1>2, <1>4 DEF TimersInv, TimeoutOK
  <2>4. SourceTypes' /\ SourcesInv'
    BY <1>1, <1>4, SourcesFrame
  <2> QED BY <1>3, <2>1, <2>2, <2>3, <2>4 DEF TimersInv
<1>5. ASSUME NEW ready \in SUBSET Due,
             ready = {} => Due = {},
             mTimers' = timersAfter(ready),
             handles' = [h \in Handle |-> handles[h] + IF h \in ready THEN 1 ELSE 0],
             waitTimeout' = IF pc = "timers2" THEN waitTimeout
                            ELSE IF ready # {} THEN 0
                            ELSE IF mTimers = {} THEN None ELSE nextTimer(mTimers),
             pc' = IF pc = "timers" THEN "wait" ELSE "execute",
             fault' = fault
      PROVE  Inv'
  <2>1. ready \subseteq mTimers /\ mTimers' = mTimers \ ready /\ mTimers \subseteq Sleeper
    BY <1>5 DEF Due, timersAfter, ReactTypes
  <2>2. \A h \in Handle : handles'[h] = (IF h \in ready THEN handles[h] + 1 ELSE handles[h]) /\ handles[h] \in Nat
    BY <1>5 DEF ReactTypes
  <2>3. handles' \in [Handle -> Nat]
    BY <1>5, <2>2
  <2>4. ASSUME mTimers # {}
        PROVE  nextTimer(mTimers) \in Nat /\ \A s \in mTimers : nextTimer(mTimers) <= left[s]
    <3> DEFINE T == {left[s] : s \in mTimers}
    <3>1. T \in SUBSET Nat /\ T # {}
      BY <2>1, <2>4 DEF TimerTypes
    <3>2. \E m \in T : \A n \in T : m <= n
      BY <3>1, Least
    <3>3. \E m \in T : \A s \in mTimers : m <= left[s]
      BY <3>2
    <3>4. nextTimer(mTimers) \in T /\ \A s \in mTimers : nextTimer(mTimers) <= left[s]
      BY <3>3 DEF nextTimer, Earliest
    <3> QED BY <3>1, <3>4
  <2>5. waitTimeout' \in Nat \cup {None}
    BY <1>5, <2>4 DEF ReactTypes
  <2>6. TimerTypes' /\ ReactTypes' /\ notified' \in BOOLEAN
    BY <1>1, <1>5, <2>1, <2>3, <2>5 DEF TimerTypes, ReactTypes
  <2>7. SleeperInOnePlace'
    <3>1. ASSUME NEW s \in Sleeper PROVE Places(s)' = Places(s)
      <4>1. Cardinality(Inserts(s)) \in Nat /\ handles[s] \in Nat /\ resumed[s] \in Nat
        BY PlacesAreNumbers
      <4>2. s \in Handle
        BY DEF Handle
      <4>3. CASE s \in ready
        BY <1>1, <1>2, <2>1, <2>2, <4>1, <4>2, <4>3 DEF Places
      <4>4. CASE s \notin ready
        BY <1>1, <1>2, <2>1, <2>2, <4>1, <4>2, <4>4 DEF Places
      <4> QED BY <4>3, <4>4
    <3> QED BY <1>1, <3>1 DEF TimersInv, SleeperInOnePlace
  <2>8. ASSUME pc' = "wait", NEW s \in mTimers'
        PROVE  waitTimeout' # None /\ waitTimeout' <= left'[s] + lag'
    <3>1. s \in mTimers /\ s \notin ready /\ s \in Sleeper /\ left[s] \in Nat /\ pc = "timers"
      BY <1>1, <1>5, <2>1, <2>8 DEF TimerTypes
    <3>2. CASE ready # {}
      BY <1>1, <1>5, <3>1, <3>2, ReactorStackAssumption
    <3>3. CASE ready = {}
      <4>1. waitTimeout' = nextTimer(mTimers) /\ nextTimer(mTimers) \in Nat /\ nextTimer(mTimers) <= left[s]
        BY <1>5, <2>4, <3>1, <3>3
      <4> QED BY <1>1, <3>1, <4>1, ReactorStackAssumption
    <3> QED BY <3>2, <3>3
  <2>9. TimeoutOK'
    <3>1. pc' \in {"wait", "execute"} /\ (pc' = "wait" => pc = "timers")
      BY <1>1, <1>5
    <3> QED BY <1>1, <1>2, <2>8, <3>1 DEF TimersInv, TimeoutOK
  <2>10. SourceTypes' /\ SourcesInv'
    BY <1>1, <1>5, SourcesFrame
  <2> QED BY <1>3, <2>6, <2>7, <2>9, <2>10 DEF TimersInv
<1> QED BY <1>4, <1>5 DEF processTimers

\* A poll reports each descriptor at most once, so that finitely many events come.
LEMMA ReportsAreFinite == ASSUME NEW E \in Reports PROVE IsFiniteSet(E)
<1> DEFINE f == [e \in E |-> e.fd]
<1>1. \A e \in E : e.fd \in Fd
  BY DEF Reports, Reportable
<1>2. \A e, g \in E : e.fd = g.fd => e = g
  BY DEF Reports
<1>3. f \in Injection(E, Fd)
  BY <1>1, <1>2 DEF Injection, IsInjective
<1> QED BY <1>3, FS_Injection, ReactorStackAssumption

\* The reported registrations are disabled and their events name their Sources.
LEMMA PollerReturnStep ==
  ASSUME Inv, pollerReturn
  PROVE  Inv'
<1> USE DEF Inv
<1>1. PICK E \in Reports : /\ mEvents' = E
                           /\ reg' = [f \in Fd |-> [reg[f] EXCEPT !.armed = @ /\ \A e \in E : e.fd # f]]
                           /\ pc' \in afterWait(Cardinality(E))
  BY DEF pollerReturn
<1>2. /\ pc = "polling" /\ notified' = FALSE /\ timerfd' = None /\ lag' = 0 /\ fresh' = {}
      /\ call' = call /\ left' = left /\ cancelled' = cancelled /\ mTimerOps' = mTimerOps
      /\ mTimers' = mTimers /\ waitTimeout' = waitTimeout /\ handles' = handles
      /\ resumed' = resumed /\ fault' = fault
      /\ mSources' = mSources /\ source' = source /\ handle' = handle /\ updating' = updating
      /\ overtaken' = overtaken
  BY DEF pollerReturn, timerVars
<1>3. ASSUME NEW e \in E
      PROVE  /\ e \in [fd : Fd, key : Key, ready : SUBSET {"read", "write"}]
             /\ e.key = source[e.fd].key /\ mSources[e.key] = e.fd
  <2>1. PICK f \in Fd : reg[f].armed /\ e \in Reportable(f)
    BY DEF Reports
  <2>2. PICK r \in (SUBSET reg[f].interest \ {{}}) \cup {{"read", "write"}} :
          e = [fd |-> f, key |-> reg[f].key, ready |-> r]
    BY <2>1 DEF Reportable
  <2>3. reg[f].interest \subseteq {"read", "write"}
    BY DEF SourceTypes
  <2>4. /\ source[f].st = "in" /\ reg[f].key = source[f].key /\ mSources[source[f].key] = f
        /\ source[f].key \in Key
    BY <2>1 DEF SourcesInv, SourcesOK, RegistrationNamesItsSource
  <2> QED BY <2>2, <2>3, <2>4
<1>4. pc' \in {"dispatch", "ops2", "execute"} /\ (E # {} => pc' = "dispatch")
  <2>1. Cardinality(E) \in Nat /\ (Cardinality(E) = 0 => E = {})
    BY ReportsAreFinite, FS_CardinalityType, FS_EmptySet
  <2> QED BY <1>1, <2>1 DEF afterWait
<1> DEFINE Registration == [in : BOOLEAN, armed : BOOLEAN, key : Key \cup {None}, interest : SUBSET {"read", "write"}]
<1>5. /\ \A f \in Fd : /\ reg'[f].in = reg[f].in /\ reg'[f].key = reg[f].key
                       /\ reg'[f].interest = reg[f].interest
                       /\ reg'[f].armed <=> reg[f].armed /\ \A e \in E : e.fd # f
      /\ reg' \in [Fd -> Registration]
  <2>1. ASSUME NEW f \in Fd
        PROVE  /\ reg'[f] \in Registration
               /\ reg'[f].in = reg[f].in /\ reg'[f].key = reg[f].key /\ reg'[f].interest = reg[f].interest
               /\ reg'[f].armed <=> reg[f].armed /\ \A e \in E : e.fd # f
    <3>1. reg[f] \in Registration
      BY DEF SourceTypes
    <3> DEFINE unreported == \A e \in E : e.fd # f
    <3>2. unreported \in BOOLEAN
      OBVIOUS
    <3>3. reg'[f] = [reg[f] EXCEPT !.armed = @ /\ unreported]
      BY <1>1
    <3> HIDE DEF unreported
    <3>4. (reg[f].armed /\ unreported) \in BOOLEAN
      BY <3>1, <3>2
    <3>5. /\ reg'[f] \in Registration
          /\ reg'[f].in = reg[f].in /\ reg'[f].key = reg[f].key /\ reg'[f].interest = reg[f].interest
          /\ reg'[f].armed = (reg[f].armed /\ unreported)
      BY <3>1, <3>3, <3>4
    <3> QED BY <3>5 DEF unreported
  <2>2. reg' = [f \in Fd |-> reg'[f]]
    BY <1>1
  <2> HIDE DEF Registration
  <2> QED BY <2>1, <2>2
<1>6. TimerTypes' /\ SourceTypes' /\ notified' \in BOOLEAN
  BY <1>2, <1>5 DEF TimerTypes, SourceTypes
<1>7. ReactTypes'
  <2>1. mEvents' \in SUBSET [fd : Fd, key : Key, ready : SUBSET {"read", "write"}]
    BY <1>1, <1>3
  <2> QED BY <1>2, <1>4, <2>1 DEF ReactTypes
<1>8. TimersInv'
  <2>1. SleeperInOnePlace'
    BY <1>2, PlacesFrame DEF TimersInv
  <2>2. RemovesAreCancelled' /\ TimeoutOK'
    BY <1>2, <1>4 DEF TimersInv, RemovesAreCancelled, TimeoutOK
  <2> QED BY <2>1, <2>2 DEF TimersInv
<1>9. SourcesOK' /\ RegistrationNamesItsSource'
  BY <1>2, <1>5, ReactorStackAssumption DEF SourcesInv, SourcesOK, RegistrationNamesItsSource
<1>10. EventsOK'
  BY <1>1, <1>2, <1>3 DEF EventsOK
<1>11. ASSUME NEW w \in Waiter PROVE Served(w)'
  <2> SUFFICES ASSUME handle[w], w \notin updating, w \notin overtaken
               PROVE  \/ reg'[w[1]].armed /\ w[2] \in reg'[w[1]].interest
                      \/ pc' = "dispatch" /\ \E e \in mEvents' : e.fd = w[1] /\ e.key = source[w[1]].key
    BY <1>2 DEF Served
  <2>1. w[1] \in Fd /\ reg[w[1]].armed /\ w[2] \in reg[w[1]].interest
    BY <1>2, ReactorStackAssumption DEF SourcesInv, Served
  <2>2. CASE \A e \in E : e.fd # w[1]
    BY <1>5, <2>1, <2>2
  <2>3. CASE \E e \in E : e.fd = w[1]
    <3>1. PICK e \in E : e.fd = w[1]
      BY <2>3
    <3> QED BY <1>1, <1>3, <1>4, <3>1
  <2> QED BY <2>2, <2>3
<1> QED BY <1>6, <1>7, <1>8, <1>9, <1>10, <1>11 DEF SourcesInv

\* Nothing but a waiter is taken by an event.
LEMMA TakenAreNoSleepers ==
  ASSUME SourceTypes, ReactTypes, NEW e \in mEvents, mSources[e.key] # None
  PROVE  TakenBy(e) \notin Sleeper /\ TakenBy(e)[1] = mSources[e.key]
<1>1. mSources[e.key] \in Fd
  BY DEF SourceTypes, ReactTypes
<1>2. TakenBy(e) \in Fd \X {"read", "write"} /\ TakenBy(e)[1] = mSources[e.key]
  BY <1>1 DEF TakenBy
<1> QED BY <1>2, ReactorStackAssumption

\* An event serves one direction; whoever waits for the other one is overtaken.
LEMMA DispatchStep ==
  ASSUME Inv, dispatch
  PROVE  Inv'
<1> USE DEF Inv
<1> DEFINE named == {e \in mEvents : mSources[e.key] # None}
           taken == {TakenBy(e) : e \in named}
<1>1. /\ pc = "dispatch" /\ pc' = "execute" /\ mEvents' = {} /\ fresh' = {}
      /\ mTimers' = mTimers /\ waitTimeout' = waitTimeout /\ timerfd' = timerfd /\ lag' = lag
      /\ resumed' = resumed /\ fault' = fault /\ notified' = notified
      /\ mSources' = mSources /\ source' = source /\ updating' = updating /\ reg' = reg
      /\ call' = call /\ left' = left /\ cancelled' = cancelled /\ mTimerOps' = mTimerOps
  BY DEF dispatch, timerVars
<1>2. /\ handle' = [w \in Waiter |-> handle[w] /\ w \notin taken]
      /\ handles' = [h \in Handle |-> handles[h] + IF h \in taken /\ handle[h] THEN 1 ELSE 0]
      /\ overtaken' = overtaken \cup
           {w \in Waiter : handle[w] /\ w \notin taken /\ \E v \in taken : v[1] = w[1]}
  BY DEF dispatch
<1>3. \A e \in named : TakenBy(e) \notin Sleeper /\ TakenBy(e)[1] = mSources[e.key] /\ TakenBy(e) \in taken
  BY TakenAreNoSleepers
<1>4. \A v \in taken : v \notin Sleeper
  BY <1>3
<1> HIDE DEF taken
<1>5. handles' \in [Handle -> Nat] /\ \A s \in Sleeper : handles'[s] = handles[s]
  <2>1. \A h \in Handle : handles[h] \in Nat /\ handles[h] + (IF h \in taken /\ handle[h] THEN 1 ELSE 0) \in Nat
    BY DEF ReactTypes
  <2>2. handles' \in [Handle -> Nat]
    BY <1>2, <2>1
  <2>3. ASSUME NEW s \in Sleeper PROVE handles'[s] = handles[s]
    <3>1. s \in Handle /\ s \notin taken
      BY <1>4 DEF Handle
    <3> QED BY <1>2, <2>1, <3>1
  <2> QED BY <2>2, <2>3
<1>6. TimerTypes' /\ ReactTypes' /\ notified' \in BOOLEAN
  BY <1>1, <1>5 DEF TimerTypes, ReactTypes
<1>7. handle' \in [Waiter -> BOOLEAN] /\ \A w \in Waiter : handle'[w] <=> handle[w] /\ w \notin taken
  BY <1>2 DEF SourceTypes
<1>8. SourceTypes'
  BY <1>1, <1>2, <1>7 DEF SourceTypes
<1>9. TimersInv'
  <2>1. SleeperInOnePlace'
    BY <1>1, <1>5, PlacesFrame DEF TimersInv
  <2>2. RemovesAreCancelled' /\ TimeoutOK'
    BY <1>1 DEF TimersInv, RemovesAreCancelled, TimeoutOK
  <2> QED BY <2>1, <2>2 DEF TimersInv
<1>10. SourcesOK' /\ RegistrationNamesItsSource' /\ EventsOK'
  BY <1>1, <1>7 DEF SourcesInv, SourcesOK, RegistrationNamesItsSource, EventsOK
<1>11. ASSUME NEW w \in Waiter PROVE Served(w)'
  <2> SUFFICES ASSUME handle'[w], w \notin updating, w \notin overtaken'
               PROVE  reg[w[1]].armed /\ w[2] \in reg[w[1]].interest
    BY <1>1 DEF Served
  <2>1. handle[w] /\ w \notin taken /\ w \notin overtaken /\ \A v \in taken : v[1] # w[1]
    BY <1>2, <1>7
  <2>2. w[1] \in Fd /\ source[w[1]].st = "in"
    BY <2>1, ReactorStackAssumption DEF SourcesInv, SourcesOK
  <2>3. mSources[source[w[1]].key] = w[1] /\ w[1] # None
    BY <2>2, ReactorStackAssumption DEF SourcesInv, SourcesOK
  <2>4. ASSUME NEW e \in mEvents, e.key = source[w[1]].key PROVE FALSE
    BY <1>3, <2>1, <2>3, <2>4
  <2> QED BY <2>1, <2>4 DEF SourcesInv, Served
<1> QED BY <1>6, <1>8, <1>9, <1>10, <1>11 DEF SourcesInv

\* A handle leaves react() with the resumption of its coroutine.
LEMMA ExecuteStep ==
  ASSUME Inv, execute
  PROVE  Inv'
<1> USE DEF Inv
<1>1. /\ pc = "execute" /\ pc' \in {"execute", "idle"} /\ waitTimeout' \in {waitTimeout, None}
      /\ mTimers' = mTimers /\ timerfd' = timerfd /\ lag' = lag /\ mEvents' = mEvents
      /\ fault' = fault /\ notified' = notified /\ UNCHANGED sourceVars
      /\ call' = call /\ left' = left /\ cancelled' = cancelled /\ mTimerOps' = mTimerOps
  BY DEF execute, timerVars
<1>2. \A s \in Sleeper : s \in Handle /\ handles[s] \in Nat /\ resumed[s] \in Nat
  BY DEF ReactTypes, Handle
<1>3. /\ handles' \in [Handle -> Nat] /\ resumed' \in [Sleeper -> Nat]
      /\ \A s \in Sleeper : handles'[s] + resumed'[s] = handles[s] + resumed[s]
  <2>1. CASE handles' = handles /\ resumed' = resumed
    BY <2>1 DEF ReactTypes
  <2>2. ASSUME NEW h \in Handle, handles[h] > 0,
               handles' = [handles EXCEPT ![h] = @ - 1],
               resumed' = [s \in Sleeper |-> resumed[s] + IF s = h THEN 1 ELSE 0]
        PROVE  <1>3!1 /\ <1>3!2
    <3>1. handles[h] \in Nat /\ handles[h] - 1 \in Nat
      BY <2>2 DEF ReactTypes
    <3>2. handles' \in [Handle -> Nat]
      BY <2>2, <3>1 DEF ReactTypes
    <3>3. \A s \in Sleeper : resumed'[s] = (IF s = h THEN resumed[s] + 1 ELSE resumed[s])
      BY <1>2, <2>2
    <3>4. resumed' \in [Sleeper -> Nat]
      BY <1>2, <2>2
    <3>5. \A s \in Sleeper : handles'[s] = IF s = h THEN handles[s] - 1 ELSE handles[s]
      BY <1>2, <2>2 DEF ReactTypes
    <3>6. \A s \in Sleeper : handles'[s] + resumed'[s] = handles[s] + resumed[s]
      BY <1>2, <3>3, <3>5
    <3> QED BY <3>2, <3>4, <3>6
  <2> QED BY <2>1, <2>2 DEF execute
<1>4. TimerTypes' /\ ReactTypes' /\ notified' \in BOOLEAN
  BY <1>1, <1>3 DEF TimerTypes, ReactTypes
<1>5. SleeperInOnePlace'
  <2>1. ASSUME NEW s \in Sleeper PROVE Places(s)' = Places(s)
    <3>1. Inserts(s)' = Inserts(s) /\ Cardinality(Inserts(s)) \in Nat
      BY <1>1, PlacesAreNumbers DEF Inserts
    <3>2. handles'[s] \in Nat /\ resumed'[s] \in Nat
      BY <1>2, <1>3
    <3> QED BY <1>1, <1>2, <1>3, <3>1, <3>2 DEF Places
  <2> QED BY <1>1, <2>1 DEF TimersInv, SleeperInOnePlace
<1>6. RemovesAreCancelled' /\ TimeoutOK'
  BY <1>1 DEF TimersInv, RemovesAreCancelled, TimeoutOK
<1>7. SourceTypes' /\ SourcesInv'
  BY <1>1, SourcesFrame
<1> QED BY <1>4, <1>5, <1>6, <1>7 DEF TimersInv

-----------------------------------------------------------------------------
LEMMA ReactorStep == Inv /\ [Next]_vars => Inv'
<1> SUFFICES ASSUME Inv, [Next]_vars PROVE Inv'
  OBVIOUS
<1>1. ASSUME NEW s \in Sleeper, sleep(s) \/ insertTimer(s) \/ notify(s) \/ storeId(s) \/ removeTimer(s)
      PROVE  Inv'
  BY <1>1, SleepStep, InsertTimerStep, NotifyIdStep, RemoveTimerStep
<1>2. ASSUME NEW f \in Fd, insertIo(f) \/ pollerAdd(f) \/ insertIoFailed(f) \/ removeIo(f)
      PROVE  Inv'
  BY <1>2, InsertIoStep, PollerAddStep, RemoveIoStep
<1>3. ASSUME NEW w \in Waiter, setHandle(w) \/ updateIo(w)
      PROVE  Inv'
  BY <1>3, SetHandleStep, UpdateIoStep
<1>4. CASE react \/ pollerWait \/ pollerInterrupted
  BY <1>4, ReactMoveStep
<1>5. CASE UNCHANGED vars
  <2>1. UNCHANGED <<timerVars, reactVars, notified>> /\ UNCHANGED sourceVars /\ pc' = pc /\ mEvents' = mEvents
    BY <1>5 DEF vars, reactVars
  <2>2. TimerTypes' /\ ReactTypes' /\ notified' \in BOOLEAN /\ TimersInv'
    BY <2>1, TimersFrame
  <2>3. SourceTypes' /\ SourcesInv'
    BY <2>1, SourcesFrame
  <2> QED BY <2>2, <2>3 DEF Inv
<1>6. TimerStep => Inv'
  BY <1>1 DEF TimerStep, InCall
<1>7. SourceStep => Inv'
  BY <1>2, <1>3 DEF SourceStep
<1>8. ReactStep \/ pollerReturn => Inv'
  BY <1>4, ProcessTimeOpsStep, ProcessTimersStep, PollerReturnStep, DispatchStep, ExecuteStep DEF ReactStep
<1> QED BY <1>4, <1>5, <1>6, <1>7, <1>8, TickStep DEF Next

\* The invariant of the reactor, for every set of sleepers, durations, descriptors,
\* waiters and keys.
THEOREM ReactorInvariant == Spec => []IInv
<1>1. Init => Inv
  BY ReactorInit
<1>2. Inv /\ [Next]_vars => Inv'
  BY ReactorStep
<1>3. Inv => IInv
  BY InvIsIInv
<1> QED BY <1>1, <1>2, <1>3, PTL DEF Spec

\* insertTimer(), processTimeOps() and processTimers(): a sleeping coroutine's handle is
\* in one place, so that nobody is resumed twice, too early or never unless cancelled.
THEOREM ReactorSleeperInOnePlace == Spec => []SleeperInOnePlace
<1>1. IInv => SleeperInOnePlace
  BY DEF IInv
<1> QED BY <1>1, ReactorInvariant, PTL

\* removeIo() and insertIo()'s error path: no registration outlives its Source.
THEOREM ReactorRegistrationNamesItsSource == Spec => []RegistrationNamesItsSource
<1>1. IInv => RegistrationNamesItsSource
  BY DEF IInv
<1> QED BY <1>1, ReactorInvariant, PTL

\* react(): whoever sleeps in epoll_wait has its timer set for the nearest sleeper, and
\* an insertion it does not know of still has its notify() to come.
THEOREM ReactorWaitIsBounded == Spec => []WaitIsBounded
<1>1. IInv => WaitIsBounded
  BY DEF IInv, TimeoutOK, WaitIsBounded
<1> QED BY <1>1, ReactorInvariant, PTL

\* updateIo() and the dispatch of react(): only an event that served the other direction
\* of a Source leaves a waiter that nothing will wake.
THEOREM ReactorOnlyOvertakenStarve == Spec => []OnlyOvertakenStarve
<1>1. IInv => OnlyOvertakenStarve
  BY DEF IInv, Served, OnlyOvertakenStarve
<1> QED BY <1>1, ReactorInvariant, PTL

\* The dispatch of react(): a waiter is woken by an event of its own descriptor, or by
\* that of one removed before it and inserted under the same key.
THEOREM ReactorWokenByOwnEvent == Spec => WokenByOwnEvent
<1> DEFINE Own == \A w \in Waiter : handle[w] /\ ~handle'[w] =>
                    w[1] \in fresh \/ \E e \in mEvents : e.fd = w[1]
<1>1. IInv /\ [Next]_vars => [Own]_vars
  <2> SUFFICES ASSUME Inv, Next, NEW w \in Waiter, handle[w], ~handle'[w]
               PROVE  w[1] \in fresh \/ \E e \in mEvents : e.fd = w[1]
    BY InvIsIInv
  <2>1. CASE dispatch
    <3>1. w \in {TakenBy(e) : e \in {d \in mEvents : mSources[d.key] # None}} /\ pc = "dispatch"
      BY <2>1 DEF dispatch
    <3>2. PICK e \in mEvents : mSources[e.key] # None /\ w = TakenBy(e)
      BY <3>1
    <3>3. w[1] = mSources[e.key]
      BY <3>2 DEF TakenBy
    <3>4. mSources[e.key] = e.fd \/ mSources[e.key] \in fresh
      BY <3>1, <3>2 DEF Inv, SourcesInv, EventsOK
    <3> QED BY <3>3, <3>4
  <2>2. CASE TimerStep
    BY <2>2 DEF TimerStep, sleep, InCall, insertTimer, notify, storeId, removeTimer, sourceVars
  <2>3. CASE SourceStep
    <3>1. ASSUME NEW v \in Waiter, setHandle(v) PROVE handle'[w]
      BY <3>1 DEF setHandle, Inv, SourceTypes
    <3> QED BY <2>3, <3>1 DEF SourceStep, insertIo, pollerAdd, insertIoFailed, removeIo, updateIo
  <2>4. CASE Tick \/ react \/ processTimeOps \/ processTimers \/ pollerWait \/ execute
             \/ pollerReturn \/ pollerInterrupted
    BY <2>4 DEF Tick, react, processTimeOps, processTimers, pollerWait, execute, pollerReturn,
                pollerInterrupted, sourceVars
  <2> QED BY <2>1, <2>2, <2>3, <2>4 DEF Next, ReactStep
<1>2. Spec => [][Own]_vars
  BY <1>1, ReactorInvariant, PTL DEF Spec
<1> QED BY <1>2 DEF WokenByOwnEvent

-----------------------------------------------------------------------------
(***************************************************************************)
(* The stack the runs check: while one layer is in use the others stand    *)
(* still, so that what each has for itself holds of the stack.             *)
(***************************************************************************)
THEOREM StackIsEachLayer == StackSpec => Spec /\ P!Spec /\ Fds!Spec
<1>1. StackInit => Init /\ P!Init /\ Fds!Init
  BY DEF StackInit
<1>2. [ReactorNext \/ PollerNext \/ FdsNext]_stackVars => [Next]_vars
  BY DEF ReactorNext, PollerNext, FdsNext, stackVars, reactorVars
<1>3. [ReactorNext \/ PollerNext \/ FdsNext]_stackVars => [P!Next]_(P!vars)
  BY DEF ReactorNext, PollerNext, FdsNext, stackVars, pollerVars, P!vars
<1>4. [ReactorNext \/ PollerNext \/ FdsNext]_stackVars => [Fds!Next]_(Fds!vars)
  BY DEF ReactorNext, PollerNext, FdsNext, stackVars, fdVars, Fds!vars
<1> QED BY <1>1, <1>2, <1>3, <1>4, PTL DEF StackSpec, Spec, P!Spec, Fds!Spec

\* What the run of the reactor checks of its safety, for every value of the constants.
THEOREM StackSafety ==
  StackSpec => /\ [](SleeperInOnePlace /\ RegistrationNamesItsSource)
               /\ []WaitIsBounded /\ []OnlyOvertakenStarve /\ WokenByOwnEvent
               /\ []RaisedIsDelivered /\ []FdsHeldOnce
BY StackIsEachLayer, ReactorSleeperInOnePlace, ReactorRegistrationNamesItsSource,
   ReactorWaitIsBounded, ReactorOnlyOvertakenStarve, ReactorWokenByOwnEvent,
   NoNotifyLost, PollerFdsHeldOnce, PTL
=============================================================================

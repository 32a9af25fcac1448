------------------------------- MODULE Reactor -------------------------------
(***************************************************************************)
(* Reactor of include/Async/Reactor.hpp: the coroutines that sleep, the    *)
(* descriptors other coroutines wait for, and react(), which serves both.  *)
(* mEventLock lets one thread at a time into react(), so it is one process *)
(* here; sleep(), insertTimer(), removeTimer(), insertIo(), removeIo(),    *)
(* setReadable(), setWritable() and updateIo() run next to it on any       *)
(* thread.  Time is kept as what is left until it: Tick counts it down.    *)
(* The poller is what Poller and Notification establish: a flag raised by  *)
(* notify() that the return of a wait consumes.                            *)
(***************************************************************************)
EXTENDS Integers, Sequences, FiniteSets, MpmcQueue

CONSTANTS Sleeper,    \* coroutines that call sleep(), once each; also the timer's id
          Duration,   \* the durations they sleep for, in ticks
          Fd,         \* descriptors
          Waiter,     \* coroutines that wait for one, each named <<descriptor, direction>>
          Key,        \* keys of mSources
          None        \* nullopt, nullptr, a vacant slot

VARIABLES call,       \* call[s]: where s's sleep() and insertTimer() are
          left,       \* ticks until s's `when`
          cancelled,  \* the sleepers removeTimer() has been called for
          mTimerOps,
          mTimers,    \* the sleepers with an entry
          mSources,   \* the slab: key -> descriptor of the Source, or None
          source,     \* source[f]: [st, key] of f's Source
          handle,     \* handle[w]: Source::state.{read,write}.handle is w's
          updating,   \* w has called setReadable / setWritable and will call updateIo
          reg,        \* f's registration with epoll
          notified,   \* mNotified and the eventfd
          pc,         \* where react() is
          waitTimeout,
          timerfd,    \* ticks until the poller's wait times out, or None
          lag,        \* ticks between reading the clock and setting the timerfd
          mEvents,    \* the events still to dispatch; fd is where each came from
          handles,    \* react's local: how often each handle is in it
          resumed,    \* how often each sleeper has been resumed
          overtaken,  \* waiters passed over by a report for the other direction
          fresh,      \* descriptors inserted between a report and its dispatch
          fault       \* processTimers has left defined behaviour for good

timerVars  == <<call, left, cancelled, mTimerOps>>
sourceVars == <<mSources, source, handle, updating, reg, overtaken, fresh>>
reactVars  == <<mTimers, pc, waitTimeout, timerfd, lag, mEvents, handles, resumed, fault>>
vars       == <<timerVars, sourceVars, reactVars, notified>>

\* A Source has one Direction for reading and one for writing, each with room for
\* one handle.
Handle == Sleeper \cup Waiter

Unregistered == [in |-> FALSE, armed |-> FALSE, key |-> None, interest |-> {}]

Init ==
  /\ call = [s \in Sleeper |-> "new"]
  /\ left = [s \in Sleeper |-> 0]
  /\ cancelled = {}
  /\ mTimerOps = <<>>
  /\ mTimers = {}
  /\ mSources = [k \in Key |-> None]
  /\ source = [f \in Fd |-> [st |-> "out", key |-> None]]
  /\ handle = [w \in Waiter |-> FALSE]
  /\ updating = {}
  /\ reg = [f \in Fd |-> Unregistered]
  /\ notified = FALSE
  /\ pc = "idle"
  /\ waitTimeout = None
  /\ timerfd = None
  /\ lag = 0
  /\ mEvents = {}
  /\ handles = [h \in Handle |-> 0]
  /\ resumed = [s \in Sleeper |-> 0]
  /\ overtaken = {}
  /\ fresh = {}
  /\ fault = FALSE

-----------------------------------------------------------------------------
(***************************************************************************)
(* sleep(), insertTimer(), removeTimer()                                   *)
(***************************************************************************)
\* sleep(d) takes the clock; await_suspend follows on the same thread.
sleep(s) ==
  /\ call[s] = "new"
  /\ \E d \in Duration : left' = [left EXCEPT ![s] = d]
  /\ call' = [call EXCEPT ![s] = "push"]
  /\ UNCHANGED <<cancelled, mTimerOps, sourceVars, reactVars, notified>>

\* From here on react() may resume s, on another thread.
insertTimer(s) ==
  /\ call[s] = "push"
  /\ mTimerOps' = push(mTimerOps, [op |-> "Insert", id |-> s])
  /\ call' = [call EXCEPT ![s] = "notify"]
  /\ UNCHANGED <<left, cancelled, sourceVars, reactVars, notified>>

\* Mutant: insertTimer does not wake the reactor.
notify_Not(s) ==
  /\ call[s] = "notify"
  /\ call' = [call EXCEPT ![s] = "store"]
  /\ UNCHANGED <<notified, left, cancelled, mTimerOps, sourceVars, reactVars>>

notify(s) ==
  /\ call[s] = "notify"
  /\ notified' = TRUE
  /\ call' = [call EXCEPT ![s] = "store"]
  /\ UNCHANGED <<left, cancelled, mTimerOps, sourceVars, reactVars>>

\* The awaiter's id is written last; s may have been resumed, and its frame with
\* the awaiter destroyed.
storeId(s) ==
  /\ call[s] = "store"
  /\ call' = [call EXCEPT ![s] = "out"]
  /\ UNCHANGED <<left, cancelled, mTimerOps, sourceVars, reactVars, notified>>

\* Whoever has the id may call removeTimer(), before or after the timer fires.
removeTimer(s) ==
  /\ call[s] = "out"
  /\ s \notin cancelled
  /\ cancelled' = cancelled \cup {s}
  /\ mTimerOps' = push(mTimerOps, [op |-> "Remove", id |-> s])
  /\ UNCHANGED <<call, left, sourceVars, reactVars, notified>>

Minus1(n) == IF n = 0 THEN 0 ELSE n - 1

\* The clock.
Tick ==
  /\ \/ \E s \in Sleeper : left[s] > 0
     \/ timerfd # None /\ timerfd > 0
  /\ left' = [s \in Sleeper |-> Minus1(left[s])]
  /\ timerfd' = IF timerfd = None THEN None ELSE Minus1(timerfd)
  /\ lag' = IF pc = "wait" THEN lag + 1 ELSE lag
  /\ UNCHANGED <<call, cancelled, mTimerOps, sourceVars, mTimers, pc, waitTimeout, mEvents,
                 handles, resumed, fault, notified>>

-----------------------------------------------------------------------------
(***************************************************************************)
(* insertIo(), removeIo(), setReadable(), setWritable(), updateIo()        *)
(***************************************************************************)
St(f, to) == [source EXCEPT ![f].st = to]

\* The slab gives some vacant key (Slab implements SlabMap).
insertIo(f) ==
  /\ source[f].st = "out"
  /\ \E k \in Key :
       /\ mSources[k] = None
       /\ mSources' = [mSources EXCEPT ![k] = f]
       /\ source' = [source EXCEPT ![f] = [st |-> "adding", key |-> k]]
  /\ fresh' = IF pc = "dispatch" THEN fresh \cup {f} ELSE {}
  /\ UNCHANGED <<handle, updating, reg, overtaken, timerVars, reactVars, notified>>

\* mPoller.add(fd, Event::None(key)), which may fail.
pollerAdd(f) ==
  /\ source[f].st = "adding"
  /\ \/ /\ reg' = [reg EXCEPT ![f] =
                     [in |-> TRUE, armed |-> TRUE, key |-> source[f].key, interest |-> {}]]
        /\ source' = St(f, "in")
     \/ /\ source' = St(f, "failed")
        /\ UNCHANGED reg
  /\ UNCHANGED <<mSources, handle, updating, overtaken, fresh, timerVars, reactVars, notified>>

\* insertIo's error path: tryRemove(key).
insertIoFailed(f) ==
  /\ source[f].st = "failed"
  /\ mSources' = [mSources EXCEPT ![source[f].key] = None]
  /\ source' = [source EXCEPT ![f] = [st |-> "out", key |-> None]]
  /\ UNCHANGED <<handle, updating, reg, overtaken, fresh, timerVars, reactVars, notified>>

\* Mutant: the descriptor stays in epoll.
delOf_Not(f) == reg[f]

\* mPoller.del(fd)
delOf(f) == Unregistered

\* tryRemove and del under one mSourceLock.  The caller has nobody waiting.
removeIo(f) ==
  /\ source[f].st = "in"
  /\ \A w \in Waiter : w[1] = f => ~handle[w] /\ w \notin updating
  /\ mSources' = [mSources EXCEPT ![source[f].key] = None]
  /\ reg' = [reg EXCEPT ![f] = delOf(f)]
  /\ source' = [source EXCEPT ![f] = [st |-> "out", key |-> None]]
  /\ UNCHANGED <<handle, updating, overtaken, fresh, timerVars, reactVars, notified>>

\* setReadable / setWritable: the coroutine is suspended from here on.
setHandle(w) ==
  /\ source[w[1]].st = "in"
  /\ ~handle[w] /\ handles[w] = 0 /\ w \notin updating
  /\ handle' = [handle EXCEPT ![w] = TRUE]
  /\ updating' = updating \cup {w}
  /\ UNCHANGED <<mSources, source, reg, overtaken, fresh, timerVars, reactVars, notified>>

\* Mutant: only the caller's direction is asked for.
getEvent_One(w) == {v[2] : v \in {u \in Waiter : u = w /\ handle[u]}}

\* Source::getEvent, for a call of updateIo made by w.
getEvent(w) == {v[2] : v \in {u \in Waiter : u[1] = w[1] /\ handle[u]}}

\* get(key), getEvent and mod under one mSourceLock.
updateIo(w) ==
  LET f == w[1] IN
  /\ w \in updating
  /\ reg' = [reg EXCEPT ![f] =
               [in |-> TRUE, armed |-> TRUE, key |-> source[f].key, interest |-> getEvent(w)]]
  /\ updating' = updating \ {w}
  /\ overtaken' = {v \in overtaken : v[1] # f}
  /\ UNCHANGED <<mSources, source, handle, fresh, timerVars, reactVars, notified>>

-----------------------------------------------------------------------------
(***************************************************************************)
(* react()                                                                 *)
(***************************************************************************)
\* block() takes mEventLock and calls react(nullopt, executor).
react ==
  /\ pc = "idle"
  /\ pc' = "ops"
  /\ UNCHANGED <<mTimers, waitTimeout, timerfd, lag, mEvents, handles, resumed, fault,
                 timerVars, sourceVars, notified>>

\* One iteration of processTimeOps, before ("ops") or after ("ops2") the wait.
processTimeOps ==
  /\ pc \in {"ops", "ops2"}
  /\ IF empty(mTimerOps)
     THEN /\ pc' = IF pc = "ops" THEN "timers" ELSE "timers2"
          /\ UNCHANGED <<mTimerOps, mTimers>>
     ELSE LET op == front(mTimerOps) IN
          /\ mTimerOps' = popped(mTimerOps)
          /\ mTimers' = IF op.op = "Insert" THEN mTimers \cup {op.id} ELSE mTimers \ {op.id}
          /\ UNCHANGED pc
  /\ UNCHANGED <<call, left, cancelled, waitTimeout, timerfd, lag, mEvents, handles, resumed,
                 fault, sourceVars, notified>>

Due == {s \in mTimers : left[s] = 0}

Earliest(S) == CHOOSE n \in {left[s] : s \in S} : \A s \in S : n <= left[s]

\* Mutant: max_element.
nextTimer_Latest(S) == CHOOSE n \in {left[s] : s \in S} : \A s \in S : n >= left[s]

\* The duration processTimers returns when nothing is ready: min_element.
nextTimer(S) == Earliest(S)

\* Mutant: a ready timer stays in the map.
timersAfter_Keep(ready) == mTimers

timersAfter(ready) == mTimers \ ready

\* processTimers' loop.  Erasing the entry the range-for stands on is undefined:
\* the loop goes on, or ends early, or the program crashes.
processTimers ==
  /\ pc \in {"timers", "timers2"}
  /\ \/ /\ Due # {}
        /\ fault' = TRUE
        /\ UNCHANGED <<mTimers, handles, waitTimeout, pc>>
     \/ \E ready \in SUBSET Due :
          /\ ready = {} => Due = {}
          /\ mTimers' = timersAfter(ready)
          /\ handles' = [h \in Handle |-> handles[h] + IF h \in ready THEN 1 ELSE 0]
          /\ waitTimeout' = IF pc = "timers2" THEN waitTimeout
                            ELSE IF ready # {} THEN 0
                            ELSE IF mTimers = {} THEN None ELSE nextTimer(mTimers)
          /\ pc' = IF pc = "timers" THEN "wait" ELSE "execute"
          /\ UNCHANGED fault
  /\ lag' = 0
  /\ UNCHANGED <<timerfd, mEvents, resumed, timerVars, sourceVars, notified>>

\* Poller::wait up to epoll_wait.
pollerWait ==
  /\ pc = "wait"
  /\ timerfd' = waitTimeout
  /\ pc' = "polling"
  /\ UNCHANGED <<mTimers, waitTimeout, lag, mEvents, handles, resumed, fault, timerVars, sourceVars, notified>>

\* What epoll may report: an armed descriptor is readable or writable as it was
\* asked for, or hung up or broken, which counts as both.
Reportable(f) ==
  {[fd |-> f, key |-> reg[f].key, ready |-> r] :
     r \in (SUBSET reg[f].interest \ {{}}) \cup {{"read", "write"}}}

Reports ==
  {E \in SUBSET UNION {Reportable(f) : f \in {g \in Fd : reg[g].armed}} :
     \A e, g \in E : e.fd = g.fd => e = g}

\* react() after a wait with n events.  With none it dereferences waitTimeout:
\* when that is nullopt the comparison with 0s may go either way.
afterWait(n) ==
  IF n > 0 THEN {"dispatch"}
  ELSE IF waitTimeout = None THEN {"ops2", "execute"}
  ELSE IF waitTimeout # 0 THEN {"ops2"} ELSE {"execute"}

\* epoll_wait returns for the timer, the eventfd or descriptors; a oneshot
\* registration that is reported is disabled; the notification is consumed.
pollerReturn ==
  /\ pc = "polling"
  /\ \E E \in Reports :
       /\ E # {} \/ notified \/ timerfd = 0
       /\ mEvents' = E
       /\ reg' = [f \in Fd |-> [reg[f] EXCEPT !.armed = @ /\ \A e \in E : e.fd # f]]
       /\ pc' \in afterWait(Cardinality(E))
  /\ notified' = FALSE
  /\ timerfd' = None
  /\ lag' = 0
  /\ fresh' = {}
  /\ UNCHANGED <<mTimers, waitTimeout, handles, resumed, fault, timerVars,
                 mSources, source, handle, updating, overtaken>>

\* epoll_wait fails with EINTR: react() executes what it has.
pollerInterrupted ==
  /\ pc = "polling"
  /\ timerfd' = None
  /\ lag' = 0
  /\ pc' = "execute"
  /\ UNCHANGED <<mTimers, waitTimeout, mEvents, handles, resumed, fault, timerVars,
                 sourceVars, notified>>

\* An event takes the reader, or else the writer, of the Source its key names now.
TakenBy(e) == <<mSources[e.key], IF "read" \in e.ready THEN "read" ELSE "write">>

\* Under mSourceLock.  A direction with no handle yields nullptr, which the pool's
\* execute() ignores.
dispatch ==
  LET named == {e \in mEvents : mSources[e.key] # None}
      taken == {TakenBy(e) : e \in named} IN
  /\ pc = "dispatch"
  /\ handle' = [w \in Waiter |-> handle[w] /\ w \notin taken]
  /\ handles' = [h \in Handle |-> handles[h] + IF h \in taken /\ handle[h] THEN 1 ELSE 0]
  /\ overtaken' = overtaken \cup
       {w \in Waiter : handle[w] /\ w \notin taken /\ \E v \in taken : v[1] = w[1]}
  /\ mEvents' = {}
  /\ fresh' = {}
  /\ pc' = "execute"
  /\ UNCHANGED <<mTimers, waitTimeout, timerfd, lag, resumed, fault, mSources, source,
                 updating, reg, timerVars, notified>>

\* e.execute(handle) for every handle, each resumed by the pool; then react()
\* returns, and block() looks at its future and calls it again.
execute ==
  /\ pc = "execute"
  /\ \/ \E h \in Handle :
          /\ handles[h] > 0
          /\ handles' = [handles EXCEPT ![h] = @ - 1]
          /\ resumed' = [s \in Sleeper |-> resumed[s] + IF s = h THEN 1 ELSE 0]
          /\ UNCHANGED pc
          /\ UNCHANGED waitTimeout
     \/ /\ \A h \in Handle : handles[h] = 0
        /\ pc' = "idle"
        /\ waitTimeout' = None
        /\ UNCHANGED <<handles, resumed>>
  /\ UNCHANGED <<mTimers, timerfd, lag, mEvents, fault, timerVars, sourceVars, notified>>

-----------------------------------------------------------------------------
InCall(s) == insertTimer(s) \/ notify(s) \/ storeId(s)

TimerStep == \E s \in Sleeper : sleep(s) \/ InCall(s) \/ removeTimer(s)

SourceStep ==
  \/ \E f \in Fd : insertIo(f) \/ pollerAdd(f) \/ insertIoFailed(f) \/ removeIo(f)
  \/ \E w \in Waiter : setHandle(w) \/ updateIo(w)

\* What react() does whether or not a descriptor or a signal wakes it.
ReactStep ==
  \/ react \/ processTimeOps \/ processTimers \/ pollerWait \/ dispatch \/ execute
  \/ (notified \/ timerfd = 0) /\ pollerReturn

Next ==
  /\ ~fault
  /\ TimerStep \/ SourceStep \/ Tick \/ ReactStep \/ pollerReturn \/ pollerInterrupted

Spec == Init /\ [][Next]_vars

\* Some thread is in block() and calls react() again and again, the clock runs,
\* and a call of insertTimer() that has started goes on.  Neither descriptors nor
\* signals are promised.
FairSpec ==
  /\ Spec
  /\ WF_vars(~fault /\ ReactStep)
  /\ WF_vars(~fault /\ Tick)
  /\ \A s \in Sleeper : WF_vars(~fault /\ InCall(s))

-----------------------------------------------------------------------------
\* Types of the reactor's members, of react's locals and of the clients.
TypeOK ==
  /\ call \in [Sleeper -> {"new", "push", "notify", "store", "out"}]
  /\ left \in [Sleeper -> Nat]
  /\ cancelled \subseteq Sleeper
  /\ mTimerOps \in Seq([op : {"Insert", "Remove"}, id : Sleeper])
  /\ mTimers \subseteq Sleeper
  /\ mSources \in [Key -> Fd \cup {None}]
  /\ source \in [Fd -> [st : {"out", "adding", "failed", "in"}, key : Key \cup {None}]]
  /\ handle \in [Waiter -> BOOLEAN]
  /\ updating \subseteq Waiter
  /\ reg \in [Fd -> [in : BOOLEAN, armed : BOOLEAN, key : Key \cup {None},
                     interest : SUBSET {"read", "write"}]]
  /\ notified \in BOOLEAN
  /\ pc \in {"idle", "ops", "timers", "wait", "polling", "ops2", "timers2", "dispatch", "execute"}
  /\ waitTimeout \in Nat \cup {None}
  /\ timerfd \in Nat \cup {None}
  /\ lag \in Nat
  /\ mEvents \in SUBSET [fd : Fd, key : Key, ready : SUBSET {"read", "write"}]
  /\ handles \in [Handle -> Nat]
  /\ resumed \in [Sleeper -> Nat]
  /\ overtaken \subseteq Waiter
  /\ fresh \subseteq Fd
  /\ fault \in BOOLEAN

Inserts(s) == {i \in DOMAIN mTimerOps : mTimerOps[i] = [op |-> "Insert", id |-> s]}

\* The places s's handle is in, between the push of its Insert and its resumption.
Places(s) ==
  Cardinality(Inserts(s)) + (IF s \in mTimers THEN 1 ELSE 0) + handles[s] + resumed[s]

\* The operation queue, the map and react's local hand a sleeping coroutine's
\* handle on and never copy it or drop it, cancelled timers apart: no sleeper is
\* resumed twice, before its call of insertTimer, or after having been forgotten.
SleeperInOnePlace ==
  \A s \in Sleeper :
    IF call[s] \in {"new", "push"} THEN Places(s) = 0
    ELSE Places(s) = 1 \/ (s \in cancelled /\ Places(s) = 0)

\* Whoever sleeps in epoll_wait has its timer set for the earliest entry of the
\* map, late by no more than the time lost before it was set, and an insertion it
\* does not know of still has its notify() to come.
WaitIsBounded ==
  pc = "polling" /\ ~notified =>
    /\ \A s \in mTimers : timerfd # None /\ timerfd <= left[s] + lag
    /\ \A s \in Sleeper : Inserts(s) # {} => call[s] = "notify"

\* Every sleep that is not cancelled ends, unless processTimers crashed.
SleepEnds ==
  \A s \in Sleeper : call[s] = "notify" ~> resumed[s] = 1 \/ s \in cancelled \/ fault

\* What the sample output of README.md:74-82 shows of RT::Sleep: the coroutine
\* goes on.
SleepReturns == \A s \in Sleeper : call[s] = "notify" ~> resumed[s] = 1 \/ s \in cancelled

\* A descriptor in epoll carries the key of the slot its own Source occupies: no
\* registration outlives its Source, where its events would reach the next one.
RegistrationNamesItsSource ==
  \A f \in Fd : reg[f].in =>
    source[f].st = "in" /\ reg[f].key = source[f].key /\ mSources[source[f].key] = f

\* A coroutine that waits for a descriptor is armed for in epoll, or its event is
\* on its way, or it was passed over: only an event that served the other
\* direction of the same Source can leave a waiter unarmed.
OnlyOvertakenStarve ==
  \A w \in Waiter : handle[w] /\ w \notin updating /\ w \notin overtaken =>
    \/ reg[w[1]].armed /\ w[2] \in reg[w[1]].interest
    \/ pc = "dispatch" /\ \E e \in mEvents : e.fd = w[1]

\* A waiter is woken by an event of its own descriptor, except that an event
\* reported before a removal may reach the Source inserted under the same key
\* before the event was dispatched.
WokenByOwnEvent ==
  [][\A w \in Waiter : handle[w] /\ ~handle'[w] =>
       w[1] \in fresh \/ \E e \in mEvents : e.fd = w[1]]_vars

\* Only the timers of removeTimer() leave without their handle.
RemovesAreCancelled ==
  \A i \in DOMAIN mTimerOps : mTimerOps[i].op = "Remove" => mTimerOps[i].id \in cancelled

\* What the poller's wait will be bounded by is settled when processTimers returns.
TimeoutOK ==
  /\ pc = "wait" => \A s \in mTimers : waitTimeout # None /\ waitTimeout <= left[s] + lag
  /\ pc = "polling" => \A s \in mTimers : timerfd # None /\ timerfd <= left[s] + lag
  /\ pc \in {"timers", "wait", "polling"} /\ ~notified =>
       \A s \in Sleeper : Inserts(s) # {} => call[s] = "notify"

\* A Source is in the slot whose key it has, and a coroutine waits only for a
\* registered one.
SourcesOK ==
  /\ \A f \in Fd : source[f].st # "out" => source[f].key \in Key /\ mSources[source[f].key] = f
  /\ \A f \in Fd : reg[f].armed => reg[f].in
  /\ \A w \in Waiter : handle[w] \/ w \in updating => source[w[1]].st = "in"

\* The key of an event names the Source of its descriptor, or none, or a newer one.
EventsOK ==
  pc = "dispatch" => \A e \in mEvents :
    mSources[e.key] = None \/ mSources[e.key] = e.fd \/ mSources[e.key] \in fresh

\* OnlyOvertakenStarve, and that the event still reaches the Source of its waiter.
Served(w) ==
  handle[w] /\ w \notin updating /\ w \notin overtaken =>
    \/ reg[w[1]].armed /\ w[2] \in reg[w[1]].interest
    \/ pc = "dispatch" /\ \E e \in mEvents : e.fd = w[1] /\ e.key = source[w[1]].key

\* The inductive invariant of ReactorStackProofs.
IInv ==
  /\ TypeOK /\ SleeperInOnePlace /\ RemovesAreCancelled /\ TimeoutOK
  /\ SourcesOK /\ RegistrationNamesItsSource /\ EventsOK
  /\ \A w \in Waiter : Served(w)
=============================================================================

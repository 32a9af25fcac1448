------------------------------ MODULE PollerFds ------------------------------
(***************************************************************************)
(* The three descriptors of impl::Poller (lib/sys/unix/epoll.cpp) over its *)
(* life: Create() opens them one by one, each call may fail, and the       *)
(* object is moved out of Create() into the member of the Poller of        *)
(* include/Async/sys/Event.hpp, whose constructor aborts on an error.      *)
(* Every Poller object closes in its destructor what it still holds.       *)
(***************************************************************************)
EXTENDS FiniteSets

Descriptor == {"epoll", "event", "timer"}

\* Create()'s variable, the StdResult it returns, and the member mPoller.
Object == {"poller", "result", "mPoller"}

VARIABLES open,      \* the descriptors that are open
          held,      \* held[o]: those o does not have as -1
          badClose,  \* a descriptor was closed that was not open
          fcntlFailed,
          create     \* the next step of Create(), of the constructor, or how it ended

vars == <<open, held, badClose, fcntlFailed, create>>

Init ==
  /\ open = {}
  /\ held = [o \in Object |-> {}]
  /\ badClose = FALSE
  /\ fcntlFailed = FALSE
  /\ create = "epoll_create1"

\* ~Poller of o, whose descriptors are those of h: it closes them.
Destroy(o, h) ==
  /\ open' = open \ h[o]
  /\ badClose' = (badClose \/ ~(h[o] \subseteq open))
  /\ held' = [h EXCEPT ![o] = {}]

\* Create() is left by a return of an error or by an exception.
Fails(how) ==
  /\ Destroy("poller", held)
  /\ create' = how
  /\ UNCHANGED fcntlFailed

\* The call of Create() that opens fd: it goes on to step next, or returns the error.
Opens(step, fd, next) ==
  /\ create = step
  /\ \/ /\ open' = open \cup {fd}
        /\ held' = [held EXCEPT !["poller"] = @ \cup {fd}]
        /\ create' = next
        /\ UNCHANGED <<badClose, fcntlFailed>>
     \/ Fails("error")

\* r.value() throws, except for the one error that the fallback is for.
epoll_create1 ==
  /\ create = "epoll_create1"
  /\ \/ /\ open' = open \cup {"epoll"}
        /\ held' = [held EXCEPT !["poller"] = {"epoll"}]
        /\ create' = "eventfd"
        /\ UNCHANGED <<badClose, fcntlFailed>>
     \/ create' = "epoll_create" /\ UNCHANGED <<open, held, badClose, fcntlFailed>>
     \/ Fails("exception")

\* The fallback: epoll_create, whose error makes r.value() throw, and two fcntls.
epoll_create ==
  /\ create = "epoll_create"
  /\ \/ open' = {"epoll"} /\ create' = "fcntl" /\ UNCHANGED <<held, badClose, fcntlFailed>>
     \/ Fails("exception")

\* Only after both fcntls does poller hold the descriptor; an error is returned in
\* either case.
fcntl ==
  /\ create = "fcntl"
  /\ create' = "error"
  /\ \/ Destroy("poller", [held EXCEPT !["poller"] = {"epoll"}]) /\ UNCHANGED fcntlFailed
     \/ fcntlFailed' = TRUE /\ UNCHANGED <<open, held, badClose>>

\* One of the two registrations.
add(step, next) ==
  /\ create = step
  /\ \/ create' = next /\ UNCHANGED <<open, held, badClose, fcntlFailed>>
     \/ Fails("error")

\* Mutant: the moved-from object keeps its descriptors.
afterMove_Keep(from) == held[from]

\* What the move constructor leaves in the other object.
afterMove(from) == {}

Move(from, to) == [held EXCEPT ![to] = held[from], ![from] = afterMove(from)]

\* return poller: it is moved into the StdResult and destroyed.
returnPoller ==
  /\ create = "return"
  /\ Destroy("poller", Move("poller", "result"))
  /\ create' = "assign"
  /\ UNCHANGED fcntlFailed

\* mPoller = std::move(r.value()): the default member is destroyed, holding
\* nothing, and made anew.
assign ==
  /\ create = "assign"
  /\ held' = Move("result", "mPoller")
  /\ create' = "scope"
  /\ UNCHANGED <<open, badClose, fcntlFailed>>

\* The constructor's r goes out of scope.
endOfScope ==
  /\ create = "scope"
  /\ Destroy("result", held)
  /\ create' = "constructed"
  /\ UNCHANGED fcntlFailed

\* The reactor goes, and its poller with it.
destroy ==
  /\ create = "constructed"
  /\ Destroy("mPoller", held)
  /\ create' = "destroyed"
  /\ UNCHANGED fcntlFailed

Next ==
  \/ epoll_create1 \/ epoll_create \/ fcntl
  \/ Opens("eventfd", "event", "timerfd_create") \/ Opens("timerfd_create", "timer", "addTimer")
  \/ add("addTimer", "addEvent") \/ add("addEvent", "return")
  \/ returnPoller \/ assign \/ endOfScope \/ destroy

Spec == Init /\ [][Next]_vars

-----------------------------------------------------------------------------
\* Types of the objects and the steps.
TypeOK ==
  /\ open \subseteq Descriptor
  /\ held \in [Object -> SUBSET Descriptor]
  /\ badClose \in BOOLEAN /\ fcntlFailed \in BOOLEAN
  /\ create \in {"epoll_create1", "epoll_create", "fcntl", "eventfd", "timerfd_create", "addTimer",
                 "addEvent", "return", "assign", "scope", "constructed", "destroyed", "error",
                 "exception"}

Holders(fd) == {o \in Object : fd \in held[o]}

\* Whichever call fails, and through both moves, an open descriptor has exactly one
\* object that will close it and a closed one has none, so that none is leaked or
\* closed twice; only the fallback, in which an fcntl fails, leaks the epoll fd.
FdsHeldOnce ==
  /\ ~badClose
  /\ create # "fcntl" /\ ~fcntlFailed =>
       \A fd \in Descriptor : Cardinality(Holders(fd)) = IF fd \in open THEN 1 ELSE 0

\* The object that holds the open descriptors; before the fallback has set a member,
\* and after it has failed to, it is none.
Holder ==
  IF create = "assign" THEN "result"
  ELSE IF create \in {"scope", "constructed", "destroyed"} THEN "mPoller" ELSE "poller"

HeldByHolder ==
  /\ create \in {"epoll_create1", "epoll_create", "destroyed", "error", "exception"} /\ ~fcntlFailed => open = {}
  /\ create = "fcntl" => open = {"epoll"}
  /\ fcntlFailed => create = "error"
  /\ held = [o \in Object |-> IF o = Holder /\ create # "fcntl" /\ ~fcntlFailed THEN open ELSE {}]

\* The inductive invariant of ReactorStackProofs.
IInv == TypeOK /\ ~badClose /\ HeldByHolder
=============================================================================

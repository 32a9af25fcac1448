---------------------------- MODULE ReactorStack ----------------------------
(***************************************************************************)
(* The reactor and what it stands on, each a specification of its own and  *)
(* here side by side: Reactor, Poller, and the descriptors of              *)
(* impl::Poller.  They share no state; a behaviour runs one of them, and   *)
(* one of the reactor lets only some of its clients take part.             *)
(***************************************************************************)
EXTENDS Reactor

CONSTANTS Clients,                \* the sets of sleepers and descriptors that take part together
          Notifier, PollThread    \* of Poller

ASSUME ReactorStackAssumption ==
  /\ Duration \subseteq Nat
  /\ IsFiniteSet(Fd)
  /\ Waiter \subseteq Fd \X {"read", "write"}
  /\ Sleeper \cap (Fd \X {"read", "write"}) = {}
  /\ None \notin Fd /\ None \notin Key /\ None \notin Nat /\ None \notin PollThread

VARIABLES layer,    \* the one in use
          active,   \* the clients of the reactor that take part
          mNotified, mEventFd, armed, mEventsLock, waitPc, notifyPc,
          open, held, badClose, fcntlFailed, create

P == INSTANCE Poller WITH Waiter <- PollThread

Fds == INSTANCE PollerFds

reactorVars == <<vars, active>>
pollerVars  == <<mNotified, mEventFd, armed, mEventsLock, waitPc, notifyPc>>
fdVars      == <<open, held, badClose, fcntlFailed, create>>
stackVars   == <<layer, reactorVars, pollerVars, fdVars>>

StackInit ==
  /\ Init /\ P!Init /\ Fds!Init
  /\ active \in Clients
  /\ layer \in {"Reactor", "Poller", "descriptors"}

ReactorNext ==
  /\ layer = "Reactor" /\ Next
  /\ \A s \in Sleeper \ active : call'[s] = "new"
  /\ \A f \in Fd \ active : source'[f].st = "out"
  /\ UNCHANGED <<layer, active, pollerVars, fdVars>>

PollerNext == layer = "Poller" /\ P!Next /\ UNCHANGED <<layer, reactorVars, fdVars>>

FdsNext == layer = "descriptors" /\ Fds!Next /\ UNCHANGED <<layer, reactorVars, pollerVars>>

\* The fairness of Reactor and that of Poller, each for its own layer.
StackFairness ==
  /\ WF_vars(layer = "Reactor" /\ ~fault /\ ReactStep)
  /\ WF_vars(layer = "Reactor" /\ ~fault /\ Tick)
  /\ \A s \in Sleeper : WF_vars(layer = "Reactor" /\ ~fault /\ InCall(s))
  /\ \A n \in Notifier : WF_pollerVars(layer = "Poller" /\ P!writeEventFd(n))
  /\ \A w \in PollThread : WF_pollerVars(layer = "Poller" /\ P!InWait(w))

StackSpec == StackInit /\ [][ReactorNext \/ PollerNext \/ FdsNext]_stackVars /\ StackFairness

\* Poller: a notify() that found mNotified up is not lost.
RaisedIsDelivered == P!RaisedIsDelivered

\* Poller implements Notification.
RefinesNotification == P!RefinesNotification

\* impl::Poller: every open descriptor has one object that will close it.
FdsHeldOnce == Fds!FdsHeldOnce
=============================================================================

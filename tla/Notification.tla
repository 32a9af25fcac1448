---------------------------- MODULE Notification ----------------------------
(***************************************************************************)
(* What the Reactor promises the loops that wait on it, with no epoll, no  *)
(* eventfd and no mNotified: notify() raises a flag that only the return   *)
(* of a wait lowers, and a thread that waits while the flag is up returns. *)
(***************************************************************************)
CONSTANT Waiter   \* the threads that may wait

VARIABLES signalled,   \* a notify() since the last return of a wait that consumed it
          waiting      \* the threads inside wait()

eventVars == <<signalled, waiting>>

Init ==
  /\ signalled = FALSE
  /\ waiting = {}

Notify ==
  /\ signalled' = TRUE
  /\ UNCHANGED waiting

Wait(w) ==
  /\ w \notin waiting
  /\ waiting' = waiting \cup {w}
  /\ UNCHANGED signalled

\* A wait may also return for a timer, a descriptor or a signal, and then it
\* may leave the flag up for the next wait.
Return(w) ==
  /\ w \in waiting
  /\ waiting' = waiting \ {w}
  /\ signalled' \in {signalled, FALSE}

Next == Notify \/ \E w \in Waiter : Wait(w) \/ Return(w)

Spec ==
  /\ Init /\ [][Next]_eventVars
  /\ \A w \in Waiter : WF_eventVars(signalled /\ Return(w))
=============================================================================

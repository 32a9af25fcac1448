------------------------------- MODULE MCWakeups -------------------------------
(***************************************************************************)
(* Wakeups for TLC: three coroutines; BlockingThreadPool with a limit of   *)
(* two threads; ThreadPool with two workers, a task from outside and two   *)
(* that it submits.  Both pools are destroyed at some point.               *)
(***************************************************************************)
EXTENDS Wakeups, MCAsyncMutex

Two    == {1, 2}
Nested == [t \in Coro |-> IF t = c1 THEN None ELSE c1]
=============================================================================

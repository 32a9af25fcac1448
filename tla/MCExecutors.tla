-------------------------- MODULE MCExecutors --------------------------
(***************************************************************************)
(* The two executors for TLC, one of them in each behaviour:               *)
(* MultiThreadExecutor as in MCMultiThreadExecutor, and InlineExecutor     *)
(* with a root, three coroutines to detach and two threads of the blocking *)
(* pool.  Two coroutines make calls: the root may make three, so that it   *)
(* detaches one, suspends and detaches another while the first does so too.*)
(***************************************************************************)
EXTENDS Executors, MCMultiThreadExecutor

CONSTANTS d1, d2, d3, p1, p2

RootAndThree == {root, d1, d2, d3}
TwoThreads == {p1, p2}

InlineTree    == [c \in RootAndThree |-> CASE c = root -> None [] c = d2 -> d1 [] OTHER -> root]
RootCallsMost == [c \in RootAndThree |-> IF c = root THEN 3 ELSE IF c = d1 THEN 2 ELSE 0]
=============================================================================

----------------------- MODULE MCMultiThreadExecutor -----------------------
(***************************************************************************)
(* MultiThreadExecutor for TLC: main() blocks on a task that detaches two  *)
(* coroutines, the first of which detaches a third; and main() blocks on a *)
(* task that detaches a coroutine which blocks on a task of its own.       *)
(***************************************************************************)
EXTENDS MultiThreadExecutor

CONSTANTS main, inner,              \* calls of block()
          mainTask, innerTask, a, b, nested

OneBlock == {main}
Tree     == {mainTask, a, b, nested}

TreeRoot   == [x \in OneBlock |-> mainTask]
TreeHost   == [x \in OneBlock |-> None]
TreeParent == [c \in Tree |-> IF c = mainTask THEN None ELSE IF c = nested THEN a ELSE mainTask]

TwoBlocks   == {main, inner}
BlockInTask == {mainTask, innerTask, a}

InTaskRoot   == [x \in TwoBlocks |-> IF x = main THEN mainTask ELSE innerTask]
InTaskHost   == [x \in TwoBlocks |-> IF x = main THEN None ELSE a]
InTaskParent == [c \in BlockInTask |-> IF c = a THEN mainTask ELSE None]
=============================================================================

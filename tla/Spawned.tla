------------------------------- MODULE Spawned -------------------------------
(***************************************************************************)
(* What spawn() makes: the JoinHandle through which its coroutine is       *)
(* joined, and the tree of frames the coroutine runs in.  The frame's      *)
(* final awaiter calls the callback that is JoinHandle's; the two share no *)
(* other state, so that each is an instance of its own here.               *)
(***************************************************************************)
EXTENDS JoinHandle

CONSTANTS TaskFrames,      \* of TaskFrame
          ContinueFrames,
          NonVoidFrames,
          top, body, main, NullHandle

ASSUME SpawnedAssumption ==
  /\ body \in TaskFrames
  /\ top \notin TaskFrames \cup ContinueFrames /\ TaskFrames \cap ContinueFrames = {}
  /\ main \notin TaskFrames \cup ContinueFrames \cup {top}
  /\ NullHandle \notin TaskFrames \cup ContinueFrames \cup {top, main, "value", "unset", "exception"}

VARIABLES st, continueHandle, exceptionPtr, value, owner, callee, current, seen, threw, callback,
          aborted

TF == INSTANCE TaskFrame WITH
  Task <- TaskFrames, Blocking <- ContinueFrames, NonVoid <- NonVoidFrames,
  None <- NullHandle

frameVars == <<st, continueHandle, exceptionPtr, value, owner, callee, current, seen, threw,
               callback, aborted>>

\* TaskFrame: every frame has been destroyed when the callback runs or main() has its
\* result.
NothingLeaked == TF!NothingLeaked

\* TaskFrame: an exception reaches whoever awaits the Task and is never taken for a
\* value.
ExceptionsSurface == TF!ExceptionsSurface
=============================================================================

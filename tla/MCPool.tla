------------------------------- MODULE MCPool -------------------------------
(***************************************************************************)
(* The pool and the coroutines spawned on it, for TLC, one view of them in *)
(* each behaviour:                                                         *)
(*   - StealingThreadPool with threadNum workers, destroyed at some point. *)
(*     Two tasks come from outside, so that two calls of execute() race,   *)
(*     and one is submitted by the first of them; they can make the last   *)
(*     looks of two workers at mPendingTasks stale, and not those of       *)
(*     three, so threadNum is two.                                         *)
(*   - the same tasks on a pool of three workers which is only used.       *)
(*   - WaitAll over three JoinHandles, the last two of which have a value, *)
(*     so that coroutines end before, while and after each is joined, and  *)
(*     one may be unjoined when the handles are destroyed.                 *)
(*   - the frames of one spawned tree of three Tasks and two blocking      *)
(*     calls, one of which returns a value.                                *)
(***************************************************************************)
EXTENDS StealingThreadPool, Spawned

CONSTANTS a, b, nested,                                       \* tasks of the pools
          t1, t2, t3,                                         \* JoinHandles
          inner, other, call, voidCall                        \* frames

ThreeTasks == {a, b, nested}

Nested == [t \in ThreeTasks |-> IF t = nested THEN a ELSE None]

Three    == {t1, t2, t3}
OneByOne == <<t1, t2, t3>>
Values   == {t2, t3}

Tasks         == {body, inner, other}
Calls         == {call, voidCall}
CallsForValue == {call}

VARIABLES view,   \* what is looked at
          uQueues, uSignal, uCount, uPending, uStage, uSlot, uPc, uTask, uStole, uJ, uRuns,
          uStopping, uDtor, uAllStale

U == INSTANCE StealingThreadPool WITH
  threadNum <- 3, mQueues <- uQueues, signal <- uSignal, mCount <- uCount,
  mPendingTasks <- uPending, stage <- uStage, slot <- uSlot, pc <- uPc, task <- uTask,
  stole <- uStole, j <- uJ, runs <- uRuns, stopping <- uStopping, dtor <- uDtor,
  allStale <- uAllStale

uVars     == <<uQueues, uSignal, uCount, uPending, uStage, uSlot, uPc, uTask, uStole, uJ, uRuns,
               uStopping, uDtor, uAllStale>>
mcVars    == <<view, vars, uVars, joinVars, frameVars>>

MCInit ==
  /\ Init /\ U!Init /\ JoinInit /\ TF!Init
  /\ view \in {"pool destroyed", "pool used", "handles", "frames"}

Is(v) == view = v

Destroyed == /\ Is("pool destroyed") /\ (Next \/ destroy \/ Destructor)
             /\ UNCHANGED <<view, uVars, joinVars, frameVars>>
Used      == Is("pool used") /\ U!Next /\ UNCHANGED <<view, vars, joinVars, frameVars>>
HandlesUsed == Is("handles") /\ JoinNext /\ UNCHANGED <<view, vars, uVars, frameVars>>
Awaited   == Is("frames") /\ TF!Next /\ UNCHANGED <<view, vars, uVars, joinVars>>

\* Running of both pools, and the destructor goes on; coroutines run and end.
MCFairness ==
  /\ \A w \in Worker : WF_vars(Is("pool destroyed") /\ Work(w))
  /\ \A w \in U!Worker : WF_uVars(Is("pool used") /\ U!Work(w))
  /\ \A t \in Task :
       /\ WF_vars(Is("pool destroyed") /\ (InCall(t) \/ (Parent[t] # None /\ loadCount(t))))
       /\ WF_uVars(Is("pool used") /\ (U!InCall(t) \/ (Parent[t] # None /\ U!loadCount(t))))
  /\ WF_vars(Is("pool destroyed") /\ Destructor)
  /\ WF_joinVars(Is("handles") /\ JoinerStep)
  /\ \A h \in Handle : WF_joinVars(Is("handles") /\ SpawnedStep(h))
  /\ WF_frameVars(Is("frames") /\ TF!Next)

MCSpec == MCInit /\ [][Destroyed \/ Used \/ HandlesUsed \/ Awaited]_mcVars /\ MCFairness

\* Every task submitted to the pool in use is invoked.
EverySubmittedRuns == U!SubmittedRuns

\* JoinHandle: the joiner is never left suspended, in whatever order the
\* coroutines end.
JoinAllReturns == Is("handles") => WaitAllReturns

\* Frames: the callback runs, and an assert can only fail after an exception.
CallbackRuns == Is("frames") => TF!CallbackRuns
=============================================================================

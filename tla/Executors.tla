------------------------------ MODULE Executors ------------------------------
(***************************************************************************)
(* The two executors that have a queue of their own, side by side:         *)
(* MultiThreadExecutor and InlineExecutor.  A program has one of them;     *)
(* they share no state.                                                    *)
(***************************************************************************)
EXTENDS MultiThreadExecutor

CONSTANTS InlineCoro, root, InlineParent, mainThread, Pool, Calls   \* of InlineExecutor

ASSUME ExecutorsAssumption ==
  /\ IsFiniteSet(InlineCoro) /\ root \in InlineCoro /\ None \notin InlineCoro
  /\ IsFiniteSet(Pool) /\ mainThread \notin Pool
  /\ Calls \in [InlineCoro -> Nat]

VARIABLES inline,   \* InlineExecutor is the one in use
          mQueue, inlineCount, hasValue, notified, loop, handles, st, running, act, reg, child,
          left, foreign, raced, torn

inlineVars   == <<mQueue, inlineCount, hasValue, notified, loop, handles, st, running, act, reg,
                  child, left, foreign, raced, torn>>
executorVars == <<inline, vars, inlineVars>>

IE == INSTANCE InlineExecutor WITH
  Coro <- InlineCoro, Parent <- InlineParent, main <- mainThread, mSpawnCount <- inlineCount

ExecutorsInit == Init /\ IE!Init /\ inline \in BOOLEAN

MultiThreadNext == ~inline /\ Next /\ UNCHANGED <<inline, inlineVars>>
InlineNext      == inline /\ IE!Next /\ UNCHANGED <<inline, vars>>

\* The fairness of the two specifications, each for its own executor.
ExecutorsFairness ==
  /\ \A c \in Coro : WF_vars(~inline /\ CoroStep(c))
  /\ \A x \in Blocker : /\ WF_vars(~inline /\ (BlockStep(x) \/ (Host[x] # None /\ block(x))))
                        /\ SF_vars(~inline /\ lock(x))
  /\ WF_inlineVars(inline /\ IE!Live /\ IE!BlockStep)
  /\ \A t \in {mainThread} \cup Pool : WF_inlineVars(inline /\ IE!Live /\ IE!CoroStep(t))
  /\ \A c \in InlineCoro :
       /\ WF_inlineVars(inline /\ IE!Live /\ IE!expire(c))
       /\ WF_inlineVars(inline /\ IE!Live /\ \E t \in Pool : IE!continueOn(t, c))

ExecutorsSpec ==
  ExecutorsInit /\ [][MultiThreadNext \/ InlineNext]_executorVars /\ ExecutorsFairness

\* InlineExecutor: block() returns only after every coroutine detached by then.
InlineBlockWaits == IE!InlineBlockWaits

\* InlineExecutor: block() sleeps with a queued coroutine only if the pool put it there.
IdleQueueIsForeign == IE!IdleQueueIsForeign

\* InlineExecutor: block() returns, unless its unsynchronised state or its map of
\* timers is damaged.
InlineBlockReturns == inline => IE!InlineBlockReturns

=============================================================================

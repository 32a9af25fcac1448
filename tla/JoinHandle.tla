----------------------------- MODULE JoinHandle -----------------------------
(***************************************************************************)
(* JoinHandle, spawn() and WaitAll (include/Async/Executor.hpp and         *)
(* Runtime.hpp): the race between the end of a spawned coroutine and the   *)
(* coroutine that joins it, decided by one compare-and-swap of each side   *)
(* on the atomic `handle`.  One coroutine joins the handles in the order   *)
(* WaitAll gives them and then destroys them; the spawned coroutines run   *)
(* on the pool.                                                            *)
(***************************************************************************)
EXTENDS Naturals, Sequences

CONSTANTS Handle,    \* the JoinHandles
          NonVoid,   \* those of a coroutine that returns a value
          Order      \* the arguments of WaitAll

ASSUME JoinAssumption ==
  /\ NonVoid \subseteq Handle
  /\ Order \in Seq(Handle) \ {<<>>}
  /\ \A i, k \in DOMAIN Order : Order[i] = Order[k] => i = k

VARIABLES handle,    \* the atomic: "zero", "one" or "address" of the joiner
          result,    \* the optional has a value
          spawned,   \* where each spawned coroutine, then its callback, is
          joiner,    \* what the joining coroutine does next
          at,        \* the index in Order of the handle it is joining
          destroyed  \* the JoinHandles have been destroyed

joinVars == <<handle, result, spawned, joiner, at, destroyed>>

JoinInit ==
  /\ handle = [h \in Handle |-> "zero"]
  /\ result = [h \in Handle |-> FALSE]
  /\ spawned = [h \in Handle |-> "running"]
  /\ joiner = "await_ready"
  /\ at = 1
  /\ destroyed = FALSE

Joining == Order[at]

-----------------------------------------------------------------------------
(***************************************************************************)
(* The spawned coroutine: afterDoneFn of spawn()                           *)
(***************************************************************************)
SpawnedGoto(h, to) == spawned' = [spawned EXCEPT ![h] = to]

\* The coroutine ends and FinalAwaiter destroys its frame, then calls afterDoneFn.
finish(h) ==
  /\ spawned[h] = "running"
  /\ SpawnedGoto(h, "done_cas")
  /\ UNCHANGED <<handle, result, joiner, at, destroyed>>

\* compare_exchange_strong(0, 1): if it fails there is a joiner to resume.
afterDone(h) ==
  /\ spawned[h] = "done_cas"
  /\ IF handle[h] = "zero"
     THEN /\ handle' = [handle EXCEPT ![h] = "one"]
          /\ SpawnedGoto(h, "over")
     ELSE /\ SpawnedGoto(h, IF h \in NonVoid THEN "emplace" ELSE "execute")
          /\ UNCHANGED handle
  /\ UNCHANGED <<result, joiner, at, destroyed>>

\* Mutant: the joiner is resumed before the result is in place.
emplace_After(h) ==
  /\ spawned[h] = "emplace"
  /\ SpawnedGoto(h, "execute")
  /\ UNCHANGED <<handle, result, joiner, at, destroyed>>

\* join.result.emplace(value)
emplace(h) ==
  /\ spawned[h] = "emplace"
  /\ result' = [result EXCEPT ![h] = TRUE]
  /\ SpawnedGoto(h, "execute")
  /\ UNCHANGED <<handle, joiner, at, destroyed>>

\* Mutant: the callback reads the JoinHandle again after it has scheduled the joiner.
afterExecute_Touch == "done_cas"

\* What is left of the callback once it has called execute(): nothing.
afterExecute == "over"

\* execute(from_address(join.handle.load())): the pool will resume the joiner.
execute(h) ==
  /\ spawned[h] = "execute"
  /\ joiner' = IF joiner = "suspended" THEN "scheduled" ELSE "resumed_twice"
  /\ SpawnedGoto(h, afterExecute)
  /\ UNCHANGED <<handle, result, at, destroyed>>

-----------------------------------------------------------------------------
(***************************************************************************)
(* The joiner: JoinAwaiter, for each handle in turn                        *)
(***************************************************************************)

\* Mutant: await_ready takes every handle for done.
await_ready_Always ==
  /\ joiner = "await_ready"
  /\ joiner' = "await_resume"
  /\ UNCHANGED <<handle, result, spawned, at, destroyed>>

\* The two loads of await_ready see the same value: only "zero" ever changes.
await_ready ==
  /\ joiner = "await_ready"
  /\ joiner' = CASE handle[Joining] = "zero"    -> "await_suspend"
                 [] handle[Joining] = "one"     -> "await_resume"
                 [] handle[Joining] = "address" -> "assert"
  /\ UNCHANGED <<handle, result, spawned, at, destroyed>>

\* Mutant: await_suspend stores the address without comparing.
await_suspend_Store ==
  /\ joiner = "await_suspend"
  /\ handle' = [handle EXCEPT ![Joining] = "address"]
  /\ joiner' = "suspended"
  /\ UNCHANGED <<result, spawned, at, destroyed>>

\* Mutant: await_suspend returns false although it has stored the address.
await_suspend_GoOn ==
  /\ joiner = "await_suspend"
  /\ IF handle[Joining] = "zero"
     THEN /\ handle' = [handle EXCEPT ![Joining] = "address"]
          /\ joiner' = "await_resume"
     ELSE /\ joiner' = IF handle[Joining] = "one" THEN "await_resume" ELSE "assert"
          /\ UNCHANGED handle
  /\ UNCHANGED <<result, spawned, at, destroyed>>

\* compare_exchange_strong(0, address); when it fails the joiner goes on at once.
await_suspend ==
  /\ joiner = "await_suspend"
  /\ IF handle[Joining] = "zero"
     THEN /\ handle' = [handle EXCEPT ![Joining] = "address"]
          /\ joiner' = "suspended"
     ELSE /\ joiner' = IF handle[Joining] = "one" THEN "await_resume" ELSE "assert"
          /\ UNCHANGED handle
  /\ UNCHANGED <<result, spawned, at, destroyed>>

\* A worker resumes the joiner.
resume ==
  /\ joiner = "scheduled"
  /\ joiner' = "await_resume"
  /\ UNCHANGED <<handle, result, spawned, at, destroyed>>

\* result.value() of a handle whose result is missing throws; otherwise join()
\* returns and WaitAll goes on to its next argument.
await_resume ==
  /\ joiner = "await_resume"
  /\ IF Joining \in NonVoid /\ ~result[Joining]
     THEN /\ joiner' = "bad_optional_access"
          /\ UNCHANGED at
     ELSE /\ joiner' = IF at < Len(Order) THEN "await_ready" ELSE "joined"
          /\ at' = at + 1
  /\ UNCHANGED <<handle, result, spawned, destroyed>>

\* The scope of the JoinHandles ends, by return or by the exception.  Only the
\* JoinHandle of a value has a destructor; its assert fails, and ends the program,
\* if the handle is neither joined nor done.
destroyHandles ==
  /\ joiner \in {"joined", "bad_optional_access"}
  /\ ~destroyed
  /\ \/ /\ \A h \in NonVoid : handle[h] # "zero"
        /\ destroyed' = TRUE
        /\ UNCHANGED joiner
     \/ /\ \E h \in NonVoid : handle[h] = "zero"
        /\ joiner' = "not_joined"
        /\ UNCHANGED destroyed
  /\ UNCHANGED <<handle, result, spawned, at>>

-----------------------------------------------------------------------------
SpawnedStep(h) ==
  joiner # "not_joined" /\ (finish(h) \/ afterDone(h) \/ emplace(h) \/ execute(h))
JoinerStep     == await_ready \/ await_suspend \/ resume \/ await_resume \/ destroyHandles

JoinNext == JoinerStep \/ \E h \in Handle : SpawnedStep(h)

JoinSpec == JoinInit /\ [][JoinNext]_joinVars

\* Spawned coroutines end, and the pool runs what it is given.
JoinFairSpec == JoinSpec /\ WF_joinVars(JoinerStep) /\ \A h \in Handle : WF_joinVars(SpawnedStep(h))

-----------------------------------------------------------------------------
\* Handles whose join() has returned.
Joined == {Order[i] : i \in 1 .. at - 1}

\* The joiner is resumed once, by the coroutine it waits for: by that
\* coroutine's callback if it suspended, by itself if it did not, and no
\* assert of the two awaiter functions fails.
ResumedOnce == joiner \notin {"resumed_twice", "assert"}

\* join() returns only after the coroutine has ended and its frame is gone.
JoinedHasEnded == \A h \in Joined : spawned[h] # "running"

\* The callback does not use the JoinHandle it captured by reference once WaitAll
\* has returned and the joiner has destroyed the handles.
NoUseAfterDestroy ==
  destroyed /\ joiner = "joined" => \A i \in DOMAIN Order : spawned[Order[i]] = "over"

\* A joiner that had to suspend finds the result when it is resumed.
SuspendedJoinHasResult ==
  joiner \in {"scheduled", "await_resume"} /\ handle[Joining] = "address" /\ Joining \in NonVoid
    => result[Joining]

\* The joiner is never left suspended: WaitAll comes to an end, in whatever order
\* the coroutines end, if only with the exception of a missing result.
WaitAllReturns == <>(joiner \in {"joined", "bad_optional_access"})

\* README.md and the examples: join() yields what the coroutine returned.
JoinYieldsResult == joiner # "bad_optional_access"

\* The comment on `handle`: "0 : not done, 1 : done, else : handle".
OneWhenDone == \A h \in Handle : spawned[h] = "over" => handle[h] = "one"

-----------------------------------------------------------------------------
(***************************************************************************)
(* The inductive invariant behind the four safety properties               *)
(***************************************************************************)
JoinTypeOK ==
  /\ handle \in [Handle -> {"zero", "one", "address"}]
  /\ result \in [Handle -> BOOLEAN]
  /\ spawned \in [Handle -> {"running", "done_cas", "emplace", "execute", "over"}]
  /\ joiner \in {"await_ready", "await_suspend", "suspended", "scheduled", "await_resume",
                 "joined", "bad_optional_access", "not_joined"}
  /\ at \in 1 .. Len(Order) + 1
  /\ joiner = "joined" => at = Len(Order) + 1
  /\ at = Len(Order) + 1 => joiner \in {"joined", "not_joined"}
  /\ destroyed \in BOOLEAN

\* Whichever compare-and-swap comes first decides who resumes the joiner: the
\* callback of a coroutine that has a joiner, or nobody.
CallbackOK ==
  \A h \in Handle :
    /\ handle[h] = "zero" => spawned[h] \in {"running", "done_cas"}
    /\ handle[h] = "one" => spawned[h] = "over"
    /\ handle[h] = "address" /\ spawned[h] # "over" => joiner = "suspended" /\ h = Joining
    /\ spawned[h] = "execute" /\ h \in NonVoid => result[h]

\* What the joiner relies on at each point, for the handle it is joining.
JoinerOK ==
  /\ joiner \in {"await_ready", "await_suspend"} => handle[Joining] # "address"
  /\ joiner = "suspended" => handle[Joining] = "address" /\ spawned[Joining] # "over"
  /\ joiner \in {"scheduled", "await_resume"} =>
       /\ spawned[Joining] = "over"
       /\ handle[Joining] = "address" /\ Joining \in NonVoid => result[Joining]

\* The handles before the current one are done with, those after it untouched.
ProgressOK ==
  \A i \in DOMAIN Order :
    /\ i < at => spawned[Order[i]] = "over"
    /\ i > at => handle[Order[i]] # "address"

JoinInv == JoinTypeOK /\ CallbackOK /\ JoinerOK /\ ProgressOK
=============================================================================

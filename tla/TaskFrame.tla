------------------------------ MODULE TaskFrame ------------------------------
(***************************************************************************)
(* The coroutine types of include/Async/Task.hpp: who destroys a frame,    *)
(* who is resumed when it ends, and where an exception goes.  A Task is    *)
(* owned by the frame, or by main(), that holds the object; a DetachTask   *)
(* and a ContinueTask destroy themselves in their final awaiter.  The tree *)
(* is that of one call of an executor's spawn, whose DetachTask awaits the *)
(* given Task, or of one Task that main() resumes itself.  The bodies are  *)
(* arbitrary, except that they await each Task they create once before     *)
(* they return.                                                            *)
(***************************************************************************)
EXTENDS FiniteSets

CONSTANTS Task,      \* frames of Tasks
          Blocking,  \* frames of ContinueTasks, one per call of blockSpawn()
          NonVoid,   \* those whose function returns a value
          top,       \* the DetachTask<T> of spawn
          body,      \* the outermost Task
          main,      \* main(), or the executor's caller: not a coroutine
          None       \* the null handle

Frame == Task \cup Blocking \cup {top}

VARIABLES st,              \* where each frame is, see St
          continueHandle,
          exceptionPtr,    \* it is set
          value,           \* the promise's value, or the awaiter's result of a blocking call, is set
          owner,           \* who holds the Task object
          callee,          \* the frame whose end each frame awaits
          current,         \* the frame that runs, or None
          seen,            \* the exceptions that result() has rethrown
          threw,           \* the frames that have thrown by themselves
          callback,        \* what afterDestroy's function was given, or None
          aborted          \* an assert has failed

promiseVars == <<continueHandle, exceptionPtr, value>>
ghostVars   == <<seen, threw>>
vars        == <<st, promiseVars, owner, callee, current, ghostVars, callback, aborted>>

St == {"none",       \* not created
       "initial",    \* at its initial suspend point
       "running",
       "throwing",   \* in its body, with an exception under way
       "awaiting",   \* suspended in a co_await
       "resumed",    \* about to call await_resume
       "final",      \* its body has ended: done()
       "destroyed"}

\* body is held by the DetachTask, as its parameter, or by main().
Init ==
  /\ owner \in {[f \in Frame |-> IF f = body THEN o ELSE None] : o \in {top, main}}
  /\ st = [f \in Frame |-> IF f = body \/ (f = top /\ owner[body] = top) THEN "initial" ELSE "none"]
  /\ continueHandle = [f \in Frame |-> None]
  /\ exceptionPtr = [f \in Frame |-> FALSE]
  /\ value = [f \in Frame |-> FALSE]
  /\ callee = [f \in Frame |-> None]
  /\ current = None
  /\ seen = {}
  /\ threw = {}
  /\ callback = None
  /\ aborted = FALSE

-----------------------------------------------------------------------------
Runs(f, s) == current = f /\ st[f] = s

\* The frames of F are now at s.
Moved(F, s) == [f \in Frame |-> IF f \in F THEN s ELSE st[f]]

Owned(f) == {t \in Task : owner[t] = f /\ st[t] \notin {"none", "destroyed"}}

\* The Tasks of f that ~Task finds not done.
NotDone(f) == {t \in Owned(f) : st[t] # "final"}

\* The executor resumes the DetachTask; main() calls resume() on its Task.
resume ==
  /\ current = None
  /\ \E f \in {top, body} :
       /\ st[f] = "initial" /\ owner[f] # top
       /\ current' = f
       /\ st' = Moved({f}, "running")
  /\ UNCHANGED <<promiseVars, owner, callee, ghostVars, callback, aborted>>

\* A coroutine function is called: get_return_object and initial_suspend.
create(f) ==
  /\ f \in Task /\ Runs(f, "running")
  /\ \E t \in Task :
       /\ st[t] = "none"
       /\ st' = Moved({t}, "initial")
       /\ owner' = [owner EXCEPT ![t] = f]
  /\ UNCHANGED <<promiseVars, callee, current, ghostVars, callback, aborted>>

\* Mutant: the callee does not learn who awaits it.
continuation_Not(f) == None

\* The caller given to setContinue().
continuation(f) == f

\* co_await: the Awaiter's await_suspend stores the caller and resumes the callee.
coAwait(f) ==
  /\ Runs(f, "running")
  /\ \E t \in Owned(f) :
       /\ st[t] = "initial"
       /\ continueHandle' = [continueHandle EXCEPT ![t] = continuation(f)]
       /\ callee' = [callee EXCEPT ![f] = t]
       /\ st' = [Moved({f}, "awaiting") EXCEPT ![t] = "running"]
       /\ current' = t
  /\ UNCHANGED <<exceptionPtr, value, owner, ghostVars, callback, aborted>>

\* co_await blockSpawn(): a ContinueTask is made and handed to the blocking pool.
blockSpawn(f) ==
  /\ f \in Task /\ Runs(f, "running") /\ owner[body] = top
  /\ \E c \in Blocking :
       /\ st[c] = "none"
       /\ continueHandle' = [continueHandle EXCEPT ![c] = f]
       /\ callee' = [callee EXCEPT ![f] = c]
       /\ st' = [Moved({f}, "awaiting") EXCEPT ![c] = "initial"]
       /\ current' = None
  /\ UNCHANGED <<exceptionPtr, value, owner, ghostVars, callback, aborted>>

\* A thread of the blocking pool resumes it.
runBlocking(c) ==
  /\ current = None /\ st[c] = "initial"
  /\ current' = c
  /\ st' = Moved({c}, "running")
  /\ UNCHANGED <<promiseVars, owner, callee, ghostVars, callback, aborted>>

\* Mutant: result() hands out the value whatever has happened.
rethrows_Not(t) == FALSE

\* result(): rethrow_exception if the callee has left one.
rethrows(t) == exceptionPtr[t]

\* await_resume: result() of a Task; blockSpawn's asserts that it has a result.
await_resume(f) ==
  /\ Runs(f, "resumed")
  /\ LET t == callee[f] IN
       IF t \in Blocking
       THEN /\ aborted' = (t \in NonVoid /\ ~value[t])
            /\ st' = Moved({f}, "running")
            /\ UNCHANGED seen
       ELSE /\ st' = Moved({f}, IF rethrows(t) THEN "throwing" ELSE "running")
            /\ seen' = IF rethrows(t) THEN seen \cup {t} ELSE seen
            /\ UNCHANGED aborted
  /\ callee' = [callee EXCEPT ![f] = None]
  /\ UNCHANGED <<promiseVars, owner, current, threw, callback>>

\* The body, or the function given to blockSpawn(), throws.
throw(f) ==
  /\ f # top /\ Runs(f, "running") /\ f \notin threw
  /\ threw' = threw \cup {f}
  /\ st' = Moved({f}, "throwing")
  /\ UNCHANGED <<promiseVars, owner, callee, current, seen, callback, aborted>>

catch(f) ==
  /\ f \in Task /\ Runs(f, "throwing")
  /\ st' = Moved({f}, "running")
  /\ UNCHANGED <<promiseVars, owner, callee, current, ghostVars, callback, aborted>>

\* A temporary or a local of the body is destroyed before the body ends.
drop(f) ==
  /\ f \in Task /\ Runs(f, "running")
  /\ \E t \in Owned(f) : st[t] = "final" /\ st' = Moved({t}, "destroyed")
  /\ UNCHANGED <<promiseVars, owner, callee, current, ghostVars, callback, aborted>>

\* The Tasks that are locals of f; the DetachTask's is a parameter.
Locals(f) == IF f = top THEN {} ELSE Owned(f)

EndBody(f) == st' = [Moved(Locals(f), "destroyed") EXCEPT ![f] = "final"]

\* co_return: return_value, or the assignment to the awaiter's result.
return(f) ==
  /\ Runs(f, "running") /\ NotDone(f) = {}
  /\ value' = [value EXCEPT ![f] = TRUE]
  /\ EndBody(f)
  /\ UNCHANGED <<continueHandle, exceptionPtr, owner, callee, current, ghostVars, callback, aborted>>

\* An exception leaves the body: the locals go, asserting that they are done, then
\* unhandled_exception keeps it.
unhandled_exception(f) ==
  /\ Runs(f, "throwing")
  /\ aborted' = (NotDone(f) # {})
  /\ exceptionPtr' = [exceptionPtr EXCEPT ![f] = TRUE]
  /\ EndBody(f)
  /\ UNCHANGED <<continueHandle, value, owner, callee, current, ghostVars, callback>>

-----------------------------------------------------------------------------
(***************************************************************************)
(* The three final awaiters                                                *)
(***************************************************************************)

\* Control goes to the continuation, or back to whoever called resume().
Continue(f, s) ==
  /\ current' = continueHandle[f]
  /\ st' = [g \in Frame |-> IF g = continueHandle[f] THEN "resumed" ELSE s[g]]

finalTask(f) ==
  /\ f \in Task /\ Runs(f, "final")
  /\ Continue(f, st)
  /\ UNCHANGED <<promiseVars, owner, callee, ghostVars, callback, aborted>>

\* Mutant: the frame of a ContinueTask is left.
gone_Not(c) == {}

\* in.destroy()
gone(c) == {c}

finalContinueTask(c) ==
  /\ c \in Blocking /\ Runs(c, "final")
  /\ Continue(c, Moved(gone(c), "destroyed"))
  /\ UNCHANGED <<promiseVars, owner, callee, ghostVars, callback, aborted>>

\* The callback and the value are moved out, the frame is destroyed, its parameter
\* with it, and the callback called: the exception is gone, the value maybe unset.
finalDetachTask ==
  /\ Runs(top, "final")
  /\ aborted' = (NotDone(top) # {})
  /\ st' = Moved({top} \cup Owned(top), "destroyed")
  /\ callback' = IF value[top] THEN "value" ELSE "unset"
  /\ current' = None
  /\ UNCHANGED <<promiseVars, owner, callee, ghostVars>>

\* main() finds done(), takes promise().result() and destroys its Task.
mainTakes ==
  /\ current = None /\ owner[body] = main /\ st[body] = "final"
  /\ seen' = IF rethrows(body) THEN seen \cup {body} ELSE seen
  /\ callback' = IF rethrows(body) THEN "exception" ELSE "value"
  /\ st' = Moved({body}, "destroyed")
  /\ UNCHANGED <<promiseVars, owner, callee, current, threw, aborted>>

-----------------------------------------------------------------------------
Body(f) ==
  \/ create(f) \/ coAwait(f) \/ blockSpawn(f) \/ await_resume(f) \/ drop(f)
  \/ throw(f) \/ catch(f) \/ return(f) \/ unhandled_exception(f)

Final == \/ \E f \in Frame : finalTask(f) \/ finalContinueTask(f)
         \/ finalDetachTask

\* A failed assert ends the program.
Next ==
  /\ ~aborted
  /\ \/ \E f \in Frame : Body(f)
     \/ Final
     \/ resume \/ mainTakes \/ \E c \in Blocking : runBlocking(c)

Spec == Init /\ [][Next]_vars

\* Somebody resumes what was handed out, and no body runs for ever.
FairSpec == Spec /\ WF_vars(Next)

-----------------------------------------------------------------------------
\* Types of the frames and of the promises in them.
TypeOK ==
  /\ st \in [Frame -> St]
  /\ continueHandle \in [Frame -> Frame \cup {None}]
  /\ exceptionPtr \in [Frame -> BOOLEAN]
  /\ value \in [Frame -> BOOLEAN]
  /\ owner \in [Frame -> Frame \cup {main, None}]
  /\ callee \in [Frame -> Frame \cup {None}]
  /\ current \in Frame \cup {None}
  /\ seen \subseteq Frame /\ threw \subseteq Frame
  /\ callback \in {None, "value", "unset", "exception"}
  /\ aborted \in BOOLEAN

\* When the callback of spawn runs, or main() has its result, every frame of the
\* tree has been destroyed, by its owner or by itself, on the paths of exceptions too.
NothingLeaked ==
  callback # None /\ ~aborted => \A f \in Frame : st[f] \in {"none", "destroyed"}

\* A Task's exception reaches whoever awaits it, level by level, before the frame
\* that holds it is destroyed, and is never taken for a value: it is lost only in
\* the DetachTask, whose callback is then given a value that nobody set.
ExceptionsSurface ==
  /\ \A t \in Task : st[t] = "destroyed" /\ exceptionPtr[t] => t \in seen
  /\ callback = "value" => ~exceptionPtr[body]

\* The callback runs, or main() gets its result: control finds its way back up the
\* tree whoever throws.  An assert can only fail after an exception: in ~Task, on a
\* Task that it left unstarted, or in blockSpawn's await_resume.
CallbackRuns == <>(callback # None \/ (aborted /\ threw # {}))

Dead(f) == st[f] \in {"none", "destroyed"}

\* The frame that nobody awaits: spawn's, or the Task that main() resumes.
Root == IF owner[body] = top THEN top ELSE body

\* The frames of the chain of calls: one runs, or is on its way to the blocking pool,
\* and each of the others awaits the next.
Active ==
  {f \in Frame : \/ f = current
                 \/ st[f] \in {"running", "throwing", "awaiting", "resumed"}
                 \/ f \in Blocking /\ st[f] = "initial"}

\* Control is in one frame; what a frame awaits is a Task or a blocking call.
ControlOK ==
  /\ current # None => st[current] \in {"running", "throwing", "resumed", "final"}
  /\ \A f \in Frame : st[f] \in {"awaiting", "resumed"} => callee[f] \in Task \cup Blocking
  /\ \A f \in Frame : st[f] \in {"running", "throwing", "resumed"} => f = current

\* Control comes back to whoever awaits f, the owner of f if it is a Task.
Awaited(f) ==
  /\ continueHandle[f] \in Frame
  /\ st[continueHandle[f]] = "awaiting" /\ callee[continueHandle[f]] = f
  /\ f \in Task => owner[f] = continueHandle[f]

\* The chain starts at the root: nowhere in it do frames await each other in a ring.
Grounded == \A F \in SUBSET (Active \ {Root}) : F # {} => \E f \in F : continueHandle[f] \notin F

ChainOK ==
  /\ ControlOK /\ Grounded
  /\ continueHandle[Root] = None /\ \A f \in Active \ {Root} : Awaited(f)

\* Of spawn's frame and main() one holds the outermost Task.
OutermostOK ==
  /\ owner[body] \in {top, main} /\ st[body] # "none"
  /\ owner[body] = main => st[top] = "none"

\* A Task is held by a frame whose body has not ended, or by spawn's until that goes.
Held(t) ==
  /\ owner[t] \in Frame /\ (owner[t] = top => t = body)
  /\ \/ st[owner[t]] \in {"running", "throwing", "awaiting", "resumed"}
     \/ owner[t] = top /\ ~Dead(top)

OwnersOK ==
  /\ OutermostOK
  /\ \A t \in Task \ {Root} : Dead(t) \/ Held(t)
  /\ \A c \in Blocking : Dead(c) \/ c \in Active

\* An exception stays in its Task until it has been passed on to the owner.
Kept(t) ==
  /\ st[t] \in {"final", "destroyed"}
  /\ \/ t \in seen \/ t = current
     \/ st[t] = "final" /\ owner[t] = main /\ t = body
     \/ st[t] = "final" /\ owner[t] \in Frame /\ st[owner[t]] = "resumed" /\ callee[owner[t]] = t

\* spawn's frame that awaits a Task which has thrown will throw, and have no value.
TopOK ==
  /\ value[top] => st[top] \in {"final", "destroyed"}
  /\ owner[body] = top /\ exceptionPtr[body] =>
       /\ ~value[top]
       /\ \/ st[top] \in {"throwing", "final", "destroyed"}
          \/ st[top] \in {"awaiting", "resumed"} /\ callee[top] = body

ExceptionsKept == TopOK /\ \A t \in Task : exceptionPtr[t] => Kept(t)

\* The inductive invariant of SpawnedProofs.
IInv ==
  /\ TypeOK /\ ExceptionsSurface /\ NothingLeaked
  /\ ~aborted => ChainOK /\ OwnersOK /\ ExceptionsKept
=============================================================================

---------------------------- MODULE SpawnedProofs ----------------------------
(***************************************************************************)
(* Of what spawn() makes, for any number of handles and of frames: the     *)
(* joiner is resumed once per handle, after the coroutine has ended and,   *)
(* if it had to suspend, with the result in place; no callback runs on     *)
(* into the destruction of the handles; every frame of a tree has been     *)
(* destroyed when its callback runs; and no exception is lost on the way   *)
(* up or taken for a value.                                                *)
(***************************************************************************)
EXTENDS Spawned, TLAPS

-----------------------------------------------------------------------------
(***************************************************************************)
(* JoinHandle: WaitAll over any number of handles; JoinInv is inductive.   *)
(***************************************************************************)
\* The order of WaitAll names handles, and each of them once.
LEMMA OrderOK ==
  /\ Len(Order) \in Nat /\ Len(Order) >= 1
  /\ DOMAIN Order = 1 .. Len(Order)
  /\ \A i \in 1 .. Len(Order) : Order[i] \in Handle
  /\ \A i, k \in 1 .. Len(Order) : Order[i] = Order[k] => i = k
BY JoinAssumption

\* The handle being joined, until WaitAll is through.
LEMMA JoiningIsHandle ==
  ASSUME JoinTypeOK, joiner \notin {"joined", "not_joined"}
  PROVE  at \in 1 .. Len(Order) /\ Joining \in Handle /\ Joining = Order[at]
BY OrderOK DEF JoinTypeOK, Joining

\* The initial state: nothing has ended, nothing is joined.
LEMMA JoinInitially == JoinInit => JoinInv
<1> SUFFICES ASSUME JoinInit PROVE JoinInv
  OBVIOUS
<1>1. JoinTypeOK
  <2>1. at \in 1 .. Len(Order) + 1 /\ at # Len(Order) + 1
    BY OrderOK DEF JoinInit
  <2>2. destroyed \in BOOLEAN /\ result \in [Handle -> BOOLEAN]
    BY DEF JoinInit
  <2> QED BY <2>1, <2>2 DEF JoinInit, JoinTypeOK
<1>2. Joining \in Handle
  BY <1>1, JoiningIsHandle DEF JoinInit
<1>3. CallbackOK /\ JoinerOK
  BY <1>2 DEF JoinInit, CallbackOK, JoinerOK
<1>4. ProgressOK
  BY OrderOK DEF JoinInit, ProgressOK
<1> QED BY <1>1, <1>3, <1>4 DEF JoinInv

\* finish, the callback's compare-and-swap and emplace: the joiner does not move.
LEMMA CallbackStep ==
  ASSUME JoinInv, NEW h \in Handle, finish(h) \/ afterDone(h) \/ emplace(h)
  PROVE  JoinInv'
<1>1. /\ UNCHANGED <<joiner, at, destroyed>>
      /\ \A g \in Handle \ {h} :
           handle'[g] = handle[g] /\ result'[g] = result[g] /\ spawned'[g] = spawned[g]
      /\ spawned[h] # "over"
      /\ result[h] => result'[h]
      /\ handle[h] = "address" => handle'[h] = "address" /\ spawned'[h] # "over"
      /\ handle[h] # "address" => handle'[h] # "address"
  BY DEF JoinInv, JoinTypeOK, CallbackOK, finish, afterDone, emplace, SpawnedGoto
<1>2. JoinTypeOK'
  <2>1. handle' \in [Handle -> {"zero", "one", "address"}]
    BY DEF JoinInv, JoinTypeOK, finish, afterDone, emplace
  <2>2. result' \in [Handle -> BOOLEAN]
    BY DEF JoinInv, JoinTypeOK, finish, afterDone, emplace
  <2>3. spawned' \in [Handle -> {"running", "done_cas", "emplace", "execute", "over"}]
    BY DEF JoinInv, JoinTypeOK, finish, afterDone, emplace, SpawnedGoto
  <2> QED BY <1>1, <2>1, <2>2, <2>3 DEF JoinInv, JoinTypeOK
<1>3. Joining' = Joining
  BY <1>1 DEF Joining
<1>4. CallbackOK'
  <2>1. /\ handle'[h] = "zero" => spawned'[h] \in {"running", "done_cas"}
        /\ handle'[h] = "one" => spawned'[h] = "over"
        /\ spawned'[h] = "execute" /\ h \in NonVoid => result'[h]
    BY DEF JoinInv, JoinTypeOK, CallbackOK, finish, afterDone, emplace, SpawnedGoto
  <2>2. handle'[h] = "address" => joiner = "suspended" /\ h = Joining
    BY <1>1 DEF JoinInv, CallbackOK
  <2>3. \A g \in Handle \ {h} :
          /\ handle'[g] = "zero" => spawned'[g] \in {"running", "done_cas"}
          /\ handle'[g] = "one" => spawned'[g] = "over"
          /\ handle'[g] = "address" /\ spawned'[g] # "over" => joiner = "suspended" /\ g = Joining
          /\ spawned'[g] = "execute" /\ g \in NonVoid => result'[g]
    BY <1>1 DEF JoinInv, CallbackOK
  <2> QED BY <1>1, <1>3, <2>1, <2>2, <2>3 DEF CallbackOK
<1>5. JoinerOK'
  <2>1. joiner \notin {"joined", "not_joined"} => Joining \in Handle
    BY JoiningIsHandle DEF JoinInv
  <2> QED BY <1>1, <1>3, <2>1 DEF JoinInv, JoinerOK
<1>6. ProgressOK'
  BY <1>1, OrderOK DEF JoinInv, ProgressOK
<1> QED BY <1>2, <1>4, <1>5, <1>6 DEF JoinInv

\* execute(): the callback has a joiner to resume, and it is the one suspended.
LEMMA ExecuteStep == ASSUME JoinInv, NEW h \in Handle, execute(h) PROVE JoinInv'
<1>1. handle[h] = "address" /\ joiner = "suspended" /\ h = Joining
  BY DEF JoinInv, JoinTypeOK, CallbackOK, execute
<1>2. /\ joiner' = "scheduled"
      /\ spawned' = [spawned EXCEPT ![h] = "over"]
      /\ spawned[h] = "execute"
      /\ UNCHANGED <<handle, result, at, destroyed>>
  BY <1>1 DEF execute, afterExecute, SpawnedGoto
<1>3. Joining' = Joining
  BY <1>2 DEF Joining
<1>4. JoinTypeOK'
  BY <1>1, <1>2 DEF JoinInv, JoinTypeOK
<1>5. \A g \in Handle : spawned'[g] = IF g = h THEN "over" ELSE spawned[g]
  BY <1>2 DEF JoinInv, JoinTypeOK
<1>6. CallbackOK'
  BY <1>1, <1>2, <1>3, <1>5 DEF JoinInv, CallbackOK
<1>7. JoinerOK'
  BY <1>1, <1>2, <1>3, <1>5 DEF JoinInv, JoinerOK, CallbackOK
<1>8. ProgressOK'
  BY <1>2, <1>5, OrderOK DEF JoinInv, ProgressOK
<1> QED BY <1>4, <1>6, <1>7, <1>8 DEF JoinInv

\* await_ready, await_suspend and the resumption: the joiner stays at its handle.
LEMMA SuspendStep ==
  ASSUME JoinInv, await_ready \/ await_suspend \/ resume
  PROVE  JoinInv'
<1>1. /\ joiner \in {"await_ready", "await_suspend", "scheduled"}
      /\ UNCHANGED <<result, spawned, at, destroyed>>
  BY DEF await_ready, await_suspend, resume
<1>2. at \in 1 .. Len(Order) /\ Joining \in Handle /\ Joining = Order[at] /\ Joining' = Joining
  BY <1>1, JoiningIsHandle DEF JoinInv, Joining
<1>3. CASE await_ready \/ resume
  <2>1. handle' = handle /\ joiner' \in {"await_suspend", "await_resume"}
    BY <1>2, <1>3 DEF JoinInv, JoinTypeOK, JoinerOK, await_ready, resume
  <2>2. joiner' = "await_resume" => spawned[Joining] = "over"
    BY <1>2, <1>3 DEF JoinInv, JoinTypeOK, CallbackOK, JoinerOK, await_ready, resume
  <2>3. JoinTypeOK'
    BY <1>1, <1>2, <2>1 DEF JoinInv, JoinTypeOK
  <2>4. CallbackOK'
    BY <1>1, <1>2, <2>1 DEF JoinInv, CallbackOK
  <2>5. JoinerOK'
    BY <1>1, <1>2, <1>3, <2>1, <2>2 DEF JoinInv, JoinerOK, await_ready, resume
  <2>6. ProgressOK'
    BY <1>1, <2>1 DEF JoinInv, ProgressOK
  <2> QED BY <2>3, <2>4, <2>5, <2>6 DEF JoinInv
<1>4. CASE await_suspend /\ handle[Joining] = "zero"
  <2>1. handle' = [handle EXCEPT ![Joining] = "address"] /\ joiner' = "suspended"
    BY <1>4 DEF await_suspend
  <2>2. spawned[Joining] \in {"running", "done_cas"} /\ joiner = "await_suspend"
    BY <1>2, <1>4 DEF JoinInv, CallbackOK, await_suspend
  <2>3. \A g \in Handle : handle'[g] = IF g = Joining THEN "address" ELSE handle[g]
    BY <2>1 DEF JoinInv, JoinTypeOK
  <2>4. JoinTypeOK'
    BY <1>1, <1>2, <2>1 DEF JoinInv, JoinTypeOK
  <2>5. CallbackOK'
    BY <1>1, <1>2, <2>1, <2>2, <2>3 DEF JoinInv, CallbackOK
  <2>6. JoinerOK'
    BY <1>1, <1>2, <2>1, <2>2, <2>3 DEF JoinerOK
  <2>7. ProgressOK'
    <3>1. \A i \in DOMAIN Order : i > at => Order[i] # Joining
      BY <1>2, OrderOK
    <3> QED BY <1>1, <2>3, <3>1, OrderOK DEF JoinInv, ProgressOK
  <2> QED BY <2>4, <2>5, <2>6, <2>7 DEF JoinInv
<1>5. CASE await_suspend /\ handle[Joining] # "zero"
  <2>1. handle' = handle /\ joiner' = "await_resume" /\ handle[Joining] = "one"
    BY <1>2, <1>5 DEF JoinInv, JoinTypeOK, JoinerOK, await_suspend
  <2>2. spawned[Joining] = "over"
    BY <1>2, <2>1 DEF JoinInv, CallbackOK
  <2>3. JoinTypeOK'
    BY <1>1, <1>2, <2>1 DEF JoinInv, JoinTypeOK
  <2>4. CallbackOK'
    BY <1>1, <1>2, <1>5, <2>1 DEF JoinInv, CallbackOK, await_suspend
  <2>5. JoinerOK'
    BY <1>1, <1>2, <2>1, <2>2 DEF JoinerOK
  <2>6. ProgressOK'
    BY <1>1, <2>1 DEF JoinInv, ProgressOK
  <2> QED BY <2>3, <2>4, <2>5, <2>6 DEF JoinInv
<1> QED BY <1>3, <1>4, <1>5

\* await_resume: the next handle has not been touched by the joiner.
LEMMA ResumeStep == ASSUME JoinInv, await_resume PROVE JoinInv'
<1>1. /\ joiner = "await_resume"
      /\ UNCHANGED <<handle, result, spawned, destroyed>>
  BY DEF await_resume
<1>2. at \in 1 .. Len(Order) /\ Joining \in Handle /\ Joining = Order[at]
  BY <1>1, JoiningIsHandle DEF JoinInv
<1>3. spawned[Joining] = "over"
  BY <1>1 DEF JoinInv, JoinerOK
<1>4. \A h \in Handle : handle[h] = "address" => spawned[h] = "over"
  BY <1>1 DEF JoinInv, CallbackOK
<1>5. CallbackOK'
  BY <1>1, <1>4 DEF JoinInv, CallbackOK
<1>6. CASE Joining \in NonVoid /\ ~result[Joining]
  <2>1. joiner' = "bad_optional_access" /\ at' = at
    BY <1>6 DEF await_resume
  <2>2. JoinTypeOK'
    BY <1>1, <1>2, <2>1 DEF JoinInv, JoinTypeOK
  <2>3. JoinerOK' /\ ProgressOK'
    BY <1>1, <2>1 DEF JoinInv, JoinerOK, ProgressOK
  <2> QED BY <1>5, <2>2, <2>3 DEF JoinInv
<1>7. CASE ~(Joining \in NonVoid /\ ~result[Joining])
  <2>1. /\ joiner' = IF at < Len(Order) THEN "await_ready" ELSE "joined"
        /\ at' = at + 1
    BY <1>7 DEF await_resume
  <2>2. JoinTypeOK'
    <3>1. at' \in 1 .. Len(Order) + 1 /\ (joiner' = "joined" <=> at' = Len(Order) + 1)
      BY <1>2, <2>1, OrderOK
    <3> QED BY <1>1, <2>1, <3>1 DEF JoinInv, JoinTypeOK
  <2>3. ProgressOK'
    <3>1. \A i \in DOMAIN Order : (i < at + 1 => i < at \/ i = at) /\ (i > at + 1 => i > at)
      BY <1>2, OrderOK
    <3> QED BY <1>1, <1>2, <1>3, <2>1, <3>1 DEF JoinInv, ProgressOK
  <2>4. JoinerOK'
    <3>1. at < Len(Order) => handle[Order[at + 1]] # "address"
      BY <1>2, OrderOK DEF JoinInv, ProgressOK
    <3> QED BY <1>1, <2>1, <3>1 DEF JoinerOK, Joining
  <2> QED BY <1>5, <2>2, <2>3, <2>4 DEF JoinInv
<1> QED BY <1>6, <1>7

-----------------------------------------------------------------------------
\* JoinInv holds in every reachable state.
THEOREM JoinInvariant == JoinSpec => []JoinInv
<1>1. JoinInv /\ [JoinNext]_joinVars => JoinInv'
  <2> SUFFICES ASSUME JoinInv, [JoinNext]_joinVars PROVE JoinInv'
    OBVIOUS
  <2>1. CASE UNCHANGED joinVars \/ destroyHandles
    <3>1. /\ UNCHANGED <<handle, result, spawned, at>> /\ destroyed' \in BOOLEAN
          /\ \/ joiner' = joiner
             \/ joiner \in {"joined", "bad_optional_access"} /\ joiner' = "not_joined"
      BY <2>1 DEF joinVars, destroyHandles, JoinInv, JoinTypeOK
    <3>2. Joining' = Joining
      BY <3>1 DEF Joining
    <3>3. JoinTypeOK'
      BY <3>1 DEF JoinInv, JoinTypeOK
    <3>4. CallbackOK' /\ JoinerOK' /\ ProgressOK'
      BY <3>1, <3>2 DEF JoinInv, CallbackOK, JoinerOK, ProgressOK
    <3> QED BY <3>3, <3>4 DEF JoinInv
  <2>2. ASSUME NEW h \in Handle, SpawnedStep(h) PROVE JoinInv'
    BY <2>2, CallbackStep, ExecuteStep DEF SpawnedStep
  <2>3. CASE await_ready \/ await_suspend \/ resume \/ await_resume
    BY <2>3, SuspendStep, ResumeStep
  <2> QED BY <2>1, <2>2, <2>3 DEF JoinNext, JoinerStep
<1> QED BY <1>1, JoinInitially, PTL DEF JoinSpec

\* The joiner is resumed once per handle, and no assert of the awaiter fails.
THEOREM JoinerResumedOnce == JoinSpec => []ResumedOnce
<1>1. JoinInv => ResumedOnce
  BY DEF JoinInv, JoinTypeOK, ResumedOnce
<1> QED BY <1>1, JoinInvariant, PTL

\* A joiner that had to suspend finds the result when it goes on.
THEOREM ResultBeforeResume == JoinSpec => []SuspendedJoinHasResult
<1>1. JoinInv => SuspendedJoinHasResult
  BY DEF JoinInv, JoinerOK, SuspendedJoinHasResult
<1> QED BY <1>1, JoinInvariant, PTL

\* join() returns only after its coroutine has ended.
THEOREM JoinAfterEnd == JoinSpec => []JoinedHasEnded
<1>1. ASSUME JoinInv PROVE JoinedHasEnded
  <2>1. \A i \in 1 .. at - 1 : i \in DOMAIN Order /\ i < at
    BY <1>1, OrderOK DEF JoinInv, JoinTypeOK
  <2>2. \A i \in 1 .. at - 1 : spawned[Order[i]] = "over"
    BY <1>1, <2>1 DEF JoinInv, ProgressOK
  <2> QED BY <2>2 DEF JoinedHasEnded, Joined
<1> QED BY <1>1, JoinInvariant, PTL

\* When WaitAll has returned, every callback is past its last use of its handle.
THEOREM NoCallbackOutlivesHandle == JoinSpec => []NoUseAfterDestroy
<1>1. ASSUME JoinInv, joiner = "joined" PROVE \A i \in DOMAIN Order : spawned[Order[i]] = "over"
  <2>1. \A i \in DOMAIN Order : i < at
    BY <1>1, OrderOK DEF JoinInv, JoinTypeOK
  <2> QED BY <1>1, <2>1 DEF JoinInv, ProgressOK
<1>2. JoinInv => NoUseAfterDestroy
  BY <1>1 DEF NoUseAfterDestroy
<1> QED BY <1>2, JoinInvariant, PTL

-----------------------------------------------------------------------------
(***************************************************************************)
(* TaskFrame: one chain of calls, from spawn's frame down to the one that  *)
(* runs.  That nothing else is alive when the chain has unwound to its     *)
(* root needs that every other frame of it is awaited by one closer to the *)
(* root (ChainOK), and that a frame lives only in one that is in the chain *)
(* (OwnersOK).                                                             *)
(***************************************************************************)
\* A failed assert ends the program; until then all three parts hold.
FramesOK == TF!ChainOK /\ TF!OwnersOK /\ TF!ExceptionsKept

\* The frames are of three kinds, and main() is none.
LEMMA FrameKinds ==
  /\ TF!Frame = TaskFrames \cup ContinueFrames \cup {top}
  /\ body \in TF!Frame /\ top \in TF!Frame /\ top # body /\ top # main /\ body # main
  /\ main \notin TF!Frame /\ NullHandle \notin TF!Frame
  /\ NullHandle \notin {main, "value", "unset", "exception"}
  /\ top \notin TaskFrames /\ body \notin ContinueFrames
  /\ \A t \in TaskFrames : t \in TF!Frame /\ t \notin ContinueFrames
  /\ \A c \in ContinueFrames : c \in TF!Frame /\ c # top /\ c # body
BY SpawnedAssumption DEF TF!Frame

\* The root is a frame, and one that no other frame holds.
LEMMA RootOK ==
  ASSUME TF!OwnersOK
  PROVE  /\ TF!Root \in {top, body} /\ TF!Root \in TF!Frame
         /\ TF!Root = top <=> owner[body] = top
         /\ TF!Root = body <=> owner[body] = main
BY FrameKinds DEF TF!OwnersOK, TF!OutermostOK, TF!Root

\* Somebody is alive before every step, so that no callback has run.
LEMMA NoCallbackYet ==
  ASSUME TF!NothingLeaked, ~aborted, NEW f \in TF!Frame, ~TF!Dead(f)
  PROVE  callback = NullHandle
BY DEF TF!NothingLeaked, TF!Dead

\* An exception that is kept does not go with its frame.
LEMMA KeptSurfaces ==
  ASSUME TF!TypeOK', TF!ChainOK', TF!ExceptionsKept', NEW t \in TaskFrames, st'[t] = "destroyed", exceptionPtr'[t]
  PROVE  t \in seen'
<1>1. t # current'
  BY FrameKinds DEF TF!ChainOK, TF!ControlOK
<1> QED BY <1>1 DEF TF!ExceptionsKept, TF!Kept

\* Steps that end neither the callback's wait nor the program.
LEMMA FramesHold ==
  ASSUME TF!TypeOK', FramesOK', callback' = callback, callback = NullHandle
  PROVE  TF!IInv'
<1>1. TF!ExceptionsSurface'
  BY KeptSurfaces, FrameKinds DEF FramesOK, TF!ExceptionsSurface
<1>2. TF!NothingLeaked'
  BY DEF TF!NothingLeaked
<1> QED BY <1>1, <1>2 DEF FramesOK, TF!IInv

\* No ring comes about when frames leave the chain,
LEMMA GroundedFrame ==
  ASSUME TF!Grounded, TF!Root' = TF!Root, TF!Active' \ {TF!Root} \subseteq TF!Active \ {TF!Root},
         \A f \in TF!Active : continueHandle'[f] = continueHandle[f]
  PROVE  TF!Grounded'
<1> SUFFICES ASSUME NEW F \in SUBSET (TF!Active' \ {TF!Root}), F # {}
             PROVE  \E f \in F : continueHandle'[f] \notin F
  BY DEF TF!Grounded
<1>1. F \in SUBSET (TF!Active \ {TF!Root})
  OBVIOUS
<1>2. PICK f \in F : continueHandle[f] \notin F
  BY <1>1 DEF TF!Grounded
<1> QED BY <1>1, <1>2

\* or when one joins it that nobody in it has for a caller.
LEMMA GroundedPush ==
  ASSUME TF!Grounded, TF!Root' = TF!Root, NEW t, NEW f, f # t, t \notin TF!Active,
         TF!Active' \subseteq TF!Active \cup {t}, continueHandle'[t] = f,
         \A g \in TF!Active : continueHandle'[g] = continueHandle[g],
         \A g \in TF!Active \ {TF!Root} : continueHandle[g] # t
  PROVE  TF!Grounded'
<1> SUFFICES ASSUME NEW F \in SUBSET (TF!Active' \ {TF!Root}), F # {}
             PROVE  \E g \in F : continueHandle'[g] \notin F
  BY DEF TF!Grounded
<1> DEFINE E == F \ {t}
<1>1. E \in SUBSET (TF!Active \ {TF!Root})
  OBVIOUS
<1>2. CASE E = {}
  <2>1. F = {t}
    BY <1>2
  <2> QED BY <2>1
<1>3. CASE E # {}
  <2>1. PICK g \in E : continueHandle[g] \notin E
    BY <1>1, <1>3 DEF TF!Grounded
  <2> QED BY <1>1, <2>1
<1> QED BY <1>2, <1>3

\* At the start the outermost Task is at its initial suspend point.
LEMMA FramesInit == TF!Init => TF!IInv
<1> SUFFICES ASSUME TF!Init PROVE TF!IInv
  OBVIOUS
<1> USE FrameKinds
<1>1. PICK o \in {top, main} : owner = [f \in TF!Frame |-> IF f = body THEN o ELSE NullHandle]
  BY DEF TF!Init
<1>2. /\ owner[body] = o /\ \A f \in TF!Frame : f # body => owner[f] = NullHandle
      /\ owner \in [TF!Frame -> TF!Frame \cup {main, NullHandle}]
  BY <1>1
<1>3. /\ \A f \in TF!Frame : st[f] = IF f = body \/ (f = top /\ o = top) THEN "initial" ELSE "none"
      /\ st \in [TF!Frame -> {"initial", "none"}] /\ current = NullHandle
  BY <1>2 DEF TF!Init
<1>4. /\ \A f \in TF!Frame : continueHandle[f] = NullHandle /\ ~exceptionPtr[f] /\ ~value[f]
      /\ seen = {} /\ threw = {} /\ callback = NullHandle /\ ~aborted
  BY DEF TF!Init
<1>5. TF!TypeOK
  BY <1>2, <1>3, <1>4 DEF TF!TypeOK, TF!St, TF!Init
<1>6. TF!Active = {}
  BY <1>3 DEF TF!Active
<1>7. TF!ChainOK
  BY <1>2, <1>3, <1>4, <1>6 DEF TF!ChainOK, TF!ControlOK, TF!Grounded, TF!Root
<1>8. TF!OwnersOK
  <2>1. TF!OutermostOK
    BY <1>2, <1>3 DEF TF!OutermostOK
  <2>2. ASSUME NEW t \in TaskFrames, t # TF!Root PROVE TF!Dead(t) \/ TF!Held(t)
    BY <1>2, <1>3, <2>2 DEF TF!Root, TF!Dead, TF!Held
  <2>3. ASSUME NEW c \in ContinueFrames PROVE TF!Dead(c)
    BY <1>3 DEF TF!Dead
  <2> QED BY <2>1, <2>2, <2>3 DEF TF!OwnersOK
<1>9. TF!ExceptionsKept /\ TF!ExceptionsSurface /\ TF!NothingLeaked
  BY <1>4 DEF TF!ExceptionsKept, TF!TopOK, TF!ExceptionsSurface, TF!NothingLeaked
<1> QED BY <1>5, <1>7, <1>8, <1>9 DEF TF!IInv

-----------------------------------------------------------------------------
\* A Task is created at its initial suspend point, where it is in no chain.
LEMMA CreateStep ==
  ASSUME TF!IInv, ~aborted, NEW f \in TF!Frame, TF!create(f)
  PROVE  TF!IInv'
<1> USE FrameKinds
<1>1. PICK t \in TaskFrames : /\ st[t] = "none" /\ st' = TF!Moved({t}, "initial")
                             /\ owner' = [owner EXCEPT ![t] = f]
  BY DEF TF!create
<1>2. /\ f \in TaskFrames /\ current = f /\ st[f] = "running"
      /\ continueHandle' = continueHandle /\ exceptionPtr' = exceptionPtr /\ value' = value
      /\ callee' = callee /\ current' = current /\ seen' = seen /\ threw' = threw
      /\ callback' = callback /\ aborted' = aborted
  BY DEF TF!create, TF!Runs, TF!promiseVars, TF!ghostVars
<1>3. TF!TypeOK /\ TF!ChainOK /\ TF!OwnersOK /\ TF!ExceptionsKept /\ TF!NothingLeaked
  BY DEF TF!IInv
<1>4. /\ st'[t] = "initial" /\ \A g \in TF!Frame : g # t => st'[g] = st[g]
      /\ owner'[t] = f /\ \A g \in TF!Frame : g # t => owner'[g] = owner[g]
      /\ st' \in [TF!Frame -> TF!St] /\ owner' \in [TF!Frame -> TF!Frame \cup {main, NullHandle}]
  BY <1>1, <1>3 DEF TF!Moved, TF!TypeOK, TF!St
<1>5. TF!TypeOK'
  BY <1>2, <1>3, <1>4 DEF TF!TypeOK
<1>6. t # body /\ t # f /\ TF!Root' = TF!Root
  BY <1>1, <1>2, <1>3, <1>4 DEF TF!OwnersOK, TF!OutermostOK, TF!Root
<1>7. TF!Active' = TF!Active /\ t \notin TF!Active
  BY <1>1, <1>2, <1>4, <1>6 DEF TF!Active
<1>8. TF!ChainOK'
  <2>1. TF!ControlOK'
    <3>1. \A g \in TF!Frame : st'[g] # st[g] => st'[g] = "initial"
      BY <1>4
    <3> QED BY <1>2, <1>3, <1>4, <1>6, <3>1 DEF TF!ChainOK, TF!ControlOK
  <2>2. TF!Grounded'
    BY <1>2, <1>3, <1>6, <1>7, GroundedFrame DEF TF!ChainOK
  <2>3. ASSUME NEW g \in TF!Active' \ {TF!Root'} PROVE TF!Awaited(g)'
    <3>1. TF!Awaited(g) /\ g # t /\ g \in TF!Frame
      BY <1>3, <1>6, <1>7, <2>3 DEF TF!ChainOK, TF!Active
    <3> QED BY <1>1, <1>2, <1>4, <3>1 DEF TF!Awaited
  <2> QED BY <1>2, <1>3, <1>6, <2>1, <2>2, <2>3 DEF TF!ChainOK
<1>9. TF!OwnersOK'
  <2>1. TF!OutermostOK'
    BY <1>3, <1>4, <1>6 DEF TF!OwnersOK, TF!OutermostOK
  <2>2. ASSUME NEW u \in TaskFrames, u # TF!Root, u # t PROVE TF!Dead(u)' \/ TF!Held(u)'
    BY <1>1, <1>3, <1>4, <2>2 DEF TF!OwnersOK, TF!Dead, TF!Held
  <2>3. TF!Held(t)'
    BY <1>2, <1>4, <1>6 DEF TF!Held
  <2>4. ASSUME NEW c \in ContinueFrames PROVE TF!Dead(c)' \/ c \in TF!Active
    BY <1>3, <1>4 DEF TF!OwnersOK, TF!Dead
  <2> QED BY <1>6, <1>7, <2>1, <2>2, <2>3, <2>4 DEF TF!OwnersOK
<1>10. TF!ExceptionsKept'
  <2>1. TF!TopOK'
    BY <1>1, <1>2, <1>3, <1>4, <1>6 DEF TF!ExceptionsKept, TF!TopOK
  <2>2. ASSUME NEW u \in TaskFrames, exceptionPtr'[u] PROVE TF!Kept(u)'
    <3>1. TF!Kept(u) /\ u # t
      BY <1>1, <1>2, <1>3, <2>2 DEF TF!ExceptionsKept, TF!Kept
    <3> QED BY <1>1, <1>2, <1>4, <3>1 DEF TF!Kept
  <2> QED BY <2>1, <2>2 DEF TF!ExceptionsKept
<1>11. callback = NullHandle
  BY <1>2, <1>3, NoCallbackYet DEF TF!Dead
<1> QED BY <1>2, <1>5, <1>8, <1>9, <1>10, <1>11, FramesHold DEF FramesOK

\* A frame that begins to await one which was in no chain, and which it now calls.
LEMMA PushStep ==
  ASSUME TF!IInv, ~aborted, NEW f \in TF!Frame, NEW t \in TF!Frame, NEW s,
         st[f] = "running", current = f,
         \/ t \in TaskFrames /\ owner[t] = f /\ st[t] = "initial" /\ s = "running" /\ current' = t
         \/ t \in ContinueFrames /\ st[t] = "none" /\ s = "initial" /\ current' = NullHandle,
         continueHandle' = [continueHandle EXCEPT ![t] = f],
         callee' = [callee EXCEPT ![f] = t],
         st' = [TF!Moved({f}, "awaiting") EXCEPT ![t] = s],
         UNCHANGED <<exceptionPtr, value, owner, seen, threw, callback, aborted>>
  PROVE  TF!IInv'
<1> USE FrameKinds
<1>1. TF!TypeOK /\ TF!ChainOK /\ TF!OwnersOK /\ TF!ExceptionsKept /\ TF!NothingLeaked
  BY DEF TF!IInv
<1>2. t # f /\ TF!Root \in TF!Frame /\ TF!Root' = TF!Root /\ t # top
  BY <1>1, RootOK DEF TF!Root
<1>3. /\ st'[t] = s /\ st'[f] = "awaiting" /\ \A g \in TF!Frame : g # t /\ g # f => st'[g] = st[g]
      /\ continueHandle'[t] = f /\ \A g \in TF!Frame : g # t => continueHandle'[g] = continueHandle[g]
      /\ callee'[f] = t /\ \A g \in TF!Frame : g # f => callee'[g] = callee[g]
      /\ st' \in [TF!Frame -> TF!St]
  BY <1>1, <1>2 DEF TF!TypeOK, TF!Moved, TF!St
<1>4. TF!TypeOK'
  BY <1>1, <1>3 DEF TF!TypeOK
<1>5. t \notin TF!Active /\ TF!Active' = TF!Active \cup {t}
  <2>1. t \notin TF!Active /\ t \in TF!Active' /\ f \in TF!Active /\ f \in TF!Active'
    BY <1>2, <1>3 DEF TF!Active
  <2>2. ASSUME NEW g \in TF!Frame, g # t, g # f PROVE g \in TF!Active' <=> g \in TF!Active
    BY <1>3, <2>2 DEF TF!Active
  <2>3. TF!Active \subseteq TF!Frame /\ TF!Active' \subseteq TF!Frame
    BY DEF TF!Active
  <2> QED BY <2>1, <2>2, <2>3
<1>6. TF!Root # t
  BY <1>1, RootOK
<1>7. TF!ChainOK'
  <2>1. TF!ControlOK'
    <3>1. \A g \in TF!Frame : st[g] \in {"running", "throwing", "resumed"} => g = f
      BY <1>1 DEF TF!ChainOK, TF!ControlOK
    <3>2. \A g \in TF!Frame : st'[g] \in {"running", "throwing", "resumed"} => g = t /\ s = "running"
      BY <1>3, <3>1
    <3>3. ASSUME NEW g \in TF!Frame, st'[g] \in {"awaiting", "resumed"}
          PROVE  callee'[g] \in TaskFrames \cup ContinueFrames
      <4>1. CASE g = f
        BY <1>3, <4>1
      <4>2. CASE g # f
        <5>1. g # t
          BY <1>3, <3>3
        <5>2. st[g] \in {"awaiting", "resumed"} /\ callee'[g] = callee[g]
          BY <1>3, <3>3, <4>2, <5>1
        <5> QED BY <1>1, <5>2 DEF TF!ChainOK, TF!ControlOK
      <4> QED BY <4>1, <4>2
    <3> QED BY <1>3, <3>2, <3>3 DEF TF!ControlOK
  <2>2. ASSUME NEW g \in TF!Active, g # TF!Root PROVE TF!Awaited(g) /\ continueHandle[g] # t /\ continueHandle[g] # f
    <3>1. TF!Awaited(g)
      BY <1>1, <2>2 DEF TF!ChainOK
    <3> QED BY <3>1 DEF TF!Awaited
  <2>3. \A g \in TF!Active : continueHandle'[g] = continueHandle[g]
    BY <1>3, <1>5 DEF TF!Active
  <2>4. TF!Grounded'
    BY <1>1, <1>2, <1>3, <1>5, <2>2, <2>3, GroundedPush DEF TF!ChainOK
  <2>5. ASSUME NEW g \in TF!Active, g # TF!Root PROVE TF!Awaited(g)'
    <3>1. TF!Awaited(g) /\ continueHandle[g] # t /\ continueHandle[g] # f /\ continueHandle'[g] = continueHandle[g]
      BY <2>2, <2>3, <2>5
    <3> QED BY <1>3, <3>1 DEF TF!Awaited
  <2>6. TF!Awaited(t)'
    BY <1>3 DEF TF!Awaited
  <2>7. continueHandle'[TF!Root] = NullHandle
    BY <1>1, <1>2, <1>3, <1>6 DEF TF!ChainOK
  <2> QED BY <1>2, <1>5, <2>1, <2>4, <2>5, <2>6, <2>7 DEF TF!ChainOK
<1>8. TF!OwnersOK'
  <2>1. TF!OutermostOK'
    BY <1>1, <1>3 DEF TF!OwnersOK, TF!OutermostOK
  <2>2. ASSUME NEW u \in TaskFrames, u # TF!Root PROVE TF!Dead(u)' \/ TF!Held(u)'
    <3>1. TF!Dead(u) \/ TF!Held(u)
      BY <1>1, <2>2 DEF TF!OwnersOK
    <3>2. CASE TF!Held(u)
      BY <1>2, <1>3, <3>2 DEF TF!Held, TF!Dead
    <3>3. CASE TF!Dead(u)
      <4>1. u # t /\ u # f /\ u \in TF!Frame
        BY <3>3 DEF TF!Dead
      <4> QED BY <1>3, <3>3, <4>1 DEF TF!Dead
    <3> QED BY <3>1, <3>2, <3>3
  <2>3. ASSUME NEW c \in ContinueFrames PROVE TF!Dead(c)' \/ c \in TF!Active'
    BY <1>1, <1>3, <1>5 DEF TF!OwnersOK, TF!Dead
  <2> QED BY <1>2, <2>1, <2>2, <2>3 DEF TF!OwnersOK
<1>9. TF!ExceptionsKept'
  <2>1. TF!TopOK'
    BY <1>1, <1>2, <1>3 DEF TF!ExceptionsKept, TF!TopOK
  <2>2. ASSUME NEW u \in TaskFrames, exceptionPtr'[u] PROVE TF!Kept(u)'
    <3>1. TF!Kept(u) /\ u # t /\ u # f
      BY <1>1, <2>2 DEF TF!ExceptionsKept, TF!Kept
    <3>2. st'[u] = st[u] /\ u # current
      BY <1>3, <3>1
    <3>3. ASSUME owner[u] \in TF!Frame, st[owner[u]] = "resumed"
          PROVE  st'[owner[u]] = "resumed" /\ callee'[owner[u]] = callee[owner[u]]
      BY <1>3, <3>3
    <3> QED BY <3>1, <3>2, <3>3 DEF TF!Kept
  <2> QED BY <2>1, <2>2 DEF TF!ExceptionsKept
<1>10. callback = NullHandle
  BY <1>1, NoCallbackYet DEF TF!Dead
<1> QED BY <1>4, <1>7, <1>8, <1>9, <1>10, FramesHold DEF FramesOK

\* co_await of a Task, and of a function given to the blocking pool.
LEMMA AwaitStep ==
  ASSUME TF!IInv, ~aborted, NEW f \in TF!Frame, TF!coAwait(f) \/ TF!blockSpawn(f)
  PROVE  TF!IInv'
<1>1. CASE TF!coAwait(f)
  <2>1. PICK t \in TF!Owned(f) : /\ st[t] = "initial"
                                /\ continueHandle' = [continueHandle EXCEPT ![t] = f]
                                /\ callee' = [callee EXCEPT ![f] = t]
                                /\ st' = [TF!Moved({f}, "awaiting") EXCEPT ![t] = "running"]
                                /\ current' = t
    BY <1>1 DEF TF!coAwait, TF!continuation
  <2>2. t \in TaskFrames /\ t \in TF!Frame /\ owner[t] = f
    BY FrameKinds DEF TF!Owned
  <2> QED BY <1>1, <2>1, <2>2, PushStep DEF TF!coAwait, TF!Runs, TF!ghostVars
<1>2. CASE TF!blockSpawn(f)
  <2>1. PICK c \in ContinueFrames : /\ st[c] = "none"
                                   /\ continueHandle' = [continueHandle EXCEPT ![c] = f]
                                   /\ callee' = [callee EXCEPT ![f] = c]
                                   /\ st' = [TF!Moved({f}, "awaiting") EXCEPT ![c] = "initial"]
    BY <1>2 DEF TF!blockSpawn
  <2>2. c \in TF!Frame
    BY FrameKinds
  <2> QED BY <1>2, <2>1, <2>2, PushStep DEF TF!blockSpawn, TF!Runs, TF!ghostVars
<1> QED BY <1>1, <1>2

\* The final awaiters of a Task and of a ContinueTask, which also destroys the frame.
LEMMA UnwindStep ==
  ASSUME TF!IInv, ~aborted, NEW f \in TaskFrames \cup ContinueFrames, NEW s,
         st[f] = "final", current = f,
         \/ f \in TaskFrames /\ s = "final"
         \/ f \in ContinueFrames /\ s = "destroyed",
         current' = continueHandle[f],
         st' = [g \in TF!Frame |-> IF g = continueHandle[f] THEN "resumed" ELSE IF g = f THEN s ELSE st[g]],
         UNCHANGED <<continueHandle, exceptionPtr, value, owner, callee, seen, threw, callback, aborted>>
  PROVE  TF!IInv'
<1> USE FrameKinds
<1> DEFINE p == continueHandle[f]
<1>1. TF!TypeOK /\ TF!ChainOK /\ TF!OwnersOK /\ TF!ExceptionsKept /\ TF!NothingLeaked
  BY DEF TF!IInv
<1>2. f \in TF!Frame /\ f \in TF!Active /\ TF!Root \in TF!Frame /\ TF!Root' = TF!Root
  BY <1>1, RootOK DEF TF!Active, TF!Root
<1>3. f # TF!Root => /\ p \in TF!Frame /\ st[p] = "awaiting" /\ callee[p] = f /\ p # f
                     /\ f \in TaskFrames => owner[f] = p
  BY <1>1, <1>2 DEF TF!ChainOK, TF!Awaited
<1>4. f = TF!Root => p = NullHandle /\ f = body /\ owner[body] = main /\ f \in TaskFrames
  BY <1>1, RootOK DEF TF!ChainOK
<1> HIDE DEF p
<1>5. /\ \A g \in TF!Frame : g # p /\ g # f => st'[g] = st[g]
      /\ p \in TF!Frame => st'[p] = "resumed" /\ p # f
      /\ p \in TF!Frame => st[p] = "awaiting" /\ callee[p] = f
      /\ st'[f] = s /\ current' = p /\ p \in TF!Frame \cup {NullHandle}
      /\ st' \in [TF!Frame -> TF!St]
  BY <1>1, <1>2, <1>3, <1>4 DEF TF!TypeOK, TF!St, p
<1>6. TF!TypeOK'
  BY <1>1, <1>5 DEF TF!TypeOK
<1>7. TF!Active' \subseteq TF!Active \ {f}
  BY <1>2, <1>3, <1>4, <1>5 DEF TF!Active
<1>8. \A g \in TF!Frame : st[g] \notin {"running", "throwing", "resumed"}
  BY <1>1 DEF TF!ChainOK, TF!ControlOK
<1>9. TF!ChainOK'
  <2>1. TF!ControlOK'
    <3>1. \A g \in TF!Frame : st'[g] \in {"running", "throwing", "resumed"} => g = p
      BY <1>5, <1>8
    <3>2. ASSUME NEW g \in TF!Frame, st'[g] \in {"awaiting", "resumed"}
          PROVE  callee'[g] \in TaskFrames \cup ContinueFrames
      <4>1. st[g] = "awaiting"
        BY <1>3, <1>4, <1>5, <1>8, <3>2
      <4> QED BY <1>1, <4>1 DEF TF!ChainOK, TF!ControlOK
    <3> QED BY <1>5, <3>1, <3>2 DEF TF!ControlOK
  <2>2. TF!Grounded'
    BY <1>1, <1>2, <1>7, GroundedFrame DEF TF!ChainOK
  <2>3. ASSUME NEW g \in TF!Active', g # TF!Root PROVE TF!Awaited(g)'
    <3>1. g # f /\ TF!Awaited(g)
      BY <1>1, <1>7, <2>3 DEF TF!ChainOK
    <3>2. continueHandle[g] # f /\ continueHandle[g] # p
      BY <1>3, <1>4, <3>1 DEF TF!Awaited
    <3> QED BY <1>5, <3>1, <3>2 DEF TF!Awaited
  <2> QED BY <1>1, <1>2, <2>1, <2>2, <2>3 DEF TF!ChainOK
<1>10. TF!OwnersOK'
  <2>1. TF!OutermostOK'
    <3>1. st'[body] # "none"
      BY <1>1, <1>5 DEF TF!OwnersOK, TF!OutermostOK
    <3>2. owner[body] = main => st[top] = "none" /\ top # p /\ top # f
      BY <1>1, <1>5 DEF TF!OwnersOK, TF!OutermostOK
    <3> QED BY <1>1, <1>5, <3>1, <3>2 DEF TF!OwnersOK, TF!OutermostOK
  <2>2. ASSUME NEW u \in TaskFrames, u # TF!Root PROVE TF!Dead(u)' \/ TF!Held(u)'
    <3>1. CASE TF!Held(u)
      BY <1>3, <1>5, <3>1 DEF TF!Held, TF!Dead
    <3>2. CASE TF!Dead(u)
      <4>1. u # p /\ u # f /\ u \in TF!Frame
        BY <1>5, <3>2 DEF TF!Dead
      <4> QED BY <1>5, <3>2, <4>1 DEF TF!Dead
    <3> QED BY <1>1, <2>2, <3>1, <3>2 DEF TF!OwnersOK
  <2>3. ASSUME NEW c \in ContinueFrames PROVE TF!Dead(c)' \/ c \in TF!Active'
    <3>1. CASE c = f
      BY <1>5, <3>1 DEF TF!Dead
    <3>2. CASE c = p
      BY <1>5, <3>2 DEF TF!Active
    <3>3. CASE c # f /\ c # p
      BY <1>1, <1>5, <3>3 DEF TF!OwnersOK, TF!Dead, TF!Active
    <3> QED BY <3>1, <3>2, <3>3
  <2> QED BY <1>2, <2>1, <2>2, <2>3 DEF TF!OwnersOK
<1>11. TF!ExceptionsKept'
  <2>1. TF!TopOK'
    <3>1. top # f /\ (top # p => st'[top] = st[top]) /\ (top = p => st[top] = "awaiting" /\ st'[top] = "resumed")
      BY <1>5
    <3> QED BY <1>1, <3>1 DEF TF!ExceptionsKept, TF!TopOK
  <2>2. ASSUME NEW u \in TaskFrames, exceptionPtr'[u] PROVE TF!Kept(u)'
    <3>1. TF!Kept(u) /\ u # p
      BY <1>1, <1>5, <2>2 DEF TF!ExceptionsKept, TF!Kept
    <3>2. CASE u = f
      BY <1>3, <1>4, <1>5, <3>2 DEF TF!Kept
    <3>3. CASE u # f
      BY <1>5, <1>8, <3>1, <3>3 DEF TF!Kept
    <3> QED BY <3>2, <3>3
  <2> QED BY <2>1, <2>2 DEF TF!ExceptionsKept
<1>12. callback = NullHandle
  BY <1>1, <1>2, NoCallbackYet DEF TF!Dead
<1> QED BY <1>6, <1>9, <1>10, <1>11, <1>12, FramesHold DEF FramesOK

LEMMA FinalStep ==
  ASSUME TF!IInv, ~aborted, NEW f \in TF!Frame, TF!finalTask(f) \/ TF!finalContinueTask(f)
  PROVE  TF!IInv'
<1> USE FrameKinds
<1>1. CASE TF!finalTask(f)
  <2>1. /\ f \in TaskFrames /\ st[f] = "final" /\ current = f /\ current' = continueHandle[f]
        /\ st' = [g \in TF!Frame |-> IF g = continueHandle[f] THEN "resumed" ELSE st[g]]
        /\ UNCHANGED <<continueHandle, exceptionPtr, value, owner, callee, seen, threw, callback, aborted>>
    BY <1>1 DEF TF!finalTask, TF!Runs, TF!Continue, TF!promiseVars, TF!ghostVars
  <2>2. st' = [g \in TF!Frame |-> IF g = continueHandle[f] THEN "resumed" ELSE IF g = f THEN "final" ELSE st[g]]
    BY <2>1
  <2> QED BY <2>1, <2>2, UnwindStep
<1>2. CASE TF!finalContinueTask(f)
  <2>1. /\ f \in ContinueFrames /\ st[f] = "final" /\ current = f /\ current' = continueHandle[f]
        /\ st' = [g \in TF!Frame |-> IF g = continueHandle[f] THEN "resumed" ELSE TF!Moved({f}, "destroyed")[g]]
        /\ UNCHANGED <<continueHandle, exceptionPtr, value, owner, callee, seen, threw, callback, aborted>>
    BY <1>2 DEF TF!finalContinueTask, TF!Runs, TF!Continue, TF!gone, TF!promiseVars, TF!ghostVars
  <2>2. st' = [g \in TF!Frame |-> IF g = continueHandle[f] THEN "resumed" ELSE IF g = f THEN "destroyed" ELSE st[g]]
    BY <2>1 DEF TF!Moved
  <2> QED BY <2>1, <2>2, UnwindStep
<1> QED BY <1>1, <1>2

\* A step of the frame that runs, in its body.
LEMMA QuietStep ==
  ASSUME TF!IInv, ~aborted, NEW f \in TF!Frame, current = f,
         st[f] \in {"running", "throwing", "resumed"},
         NEW s \in {"running", "throwing"}, st' = TF!Moved({f}, s),
         callee' = callee \/ callee' = [callee EXCEPT ![f] = NullHandle],
         seen \subseteq seen', seen' \subseteq TF!Frame, threw' \subseteq TF!Frame, aborted' \in BOOLEAN,
         UNCHANGED <<continueHandle, exceptionPtr, value, owner, current, callback>>,
         \A u \in TaskFrames : exceptionPtr[u] /\ st[f] = "resumed" /\ callee[f] = u => u \in seen',
         f = top /\ owner[body] = top /\ exceptionPtr[body] => s = "throwing"
  PROVE  TF!IInv'
<1> USE FrameKinds
<1>1. TF!TypeOK /\ TF!ChainOK /\ TF!OwnersOK /\ TF!ExceptionsKept /\ TF!NothingLeaked
  BY DEF TF!IInv
<1>2. TF!Root \in TF!Frame /\ TF!Root' = TF!Root
  BY <1>1, RootOK DEF TF!Root
<1>3. /\ st'[f] = s /\ \A g \in TF!Frame : g # f => st'[g] = st[g] /\ callee'[g] = callee[g]
      /\ st' \in [TF!Frame -> TF!St] /\ callee' \in [TF!Frame -> TF!Frame \cup {NullHandle}]
  BY <1>1 DEF TF!TypeOK, TF!Moved, TF!St
<1>4. TF!TypeOK'
  BY <1>1, <1>3 DEF TF!TypeOK
<1>5. \A g \in TF!Frame : g # f => st[g] \notin {"running", "throwing", "resumed"}
  BY <1>1 DEF TF!ChainOK, TF!ControlOK
<1>6. TF!Active' = TF!Active
  <2>1. f \in TF!Active /\ f \in TF!Active'
    BY <1>3 DEF TF!Active
  <2>2. ASSUME NEW g \in TF!Frame, g # f PROVE g \in TF!Active' <=> g \in TF!Active
    BY <1>3, <2>2 DEF TF!Active
  <2>3. TF!Active \subseteq TF!Frame /\ TF!Active' \subseteq TF!Frame
    BY DEF TF!Active
  <2> QED BY <2>1, <2>2, <2>3
<1>7. TF!ChainOK'
  <2>1. TF!ControlOK'
    BY <1>1, <1>3, <1>5 DEF TF!ChainOK, TF!ControlOK
  <2>2. TF!Grounded'
    BY <1>1, <1>2, <1>6, GroundedFrame DEF TF!ChainOK
  <2>3. ASSUME NEW g \in TF!Active', g # TF!Root PROVE TF!Awaited(g)'
    <3>1. TF!Awaited(g) /\ continueHandle[g] # f
      BY <1>1, <1>6, <2>3 DEF TF!ChainOK, TF!Awaited
    <3> QED BY <1>3, <3>1 DEF TF!Awaited
  <2> QED BY <1>1, <1>2, <2>1, <2>2, <2>3 DEF TF!ChainOK
<1>8. TF!OwnersOK'
  <2>1. \A g \in TF!Frame : TF!Dead(g)' <=> TF!Dead(g)
    BY <1>3 DEF TF!Dead
  <2>2. TF!OutermostOK'
    BY <1>1, <1>3 DEF TF!OwnersOK, TF!OutermostOK
  <2>3. ASSUME NEW u \in TaskFrames, u # TF!Root PROVE TF!Dead(u)' \/ TF!Held(u)'
    <3>1. TF!Dead(u) \/ TF!Held(u)
      BY <1>1, <2>3 DEF TF!OwnersOK
    <3>2. TF!Held(u) => TF!Held(u)'
      BY <1>3, <2>1 DEF TF!Held
    <3> QED BY <2>1, <3>1, <3>2
  <2> QED BY <1>1, <1>2, <1>6, <2>1, <2>2, <2>3 DEF TF!OwnersOK
<1>9. TF!ExceptionsKept'
  <2>1. TF!TopOK'
    <3>1. CASE f = top
      BY <1>1, <1>3, <3>1 DEF TF!ExceptionsKept, TF!TopOK
    <3>2. CASE f # top
      BY <1>1, <1>3, <3>2 DEF TF!ExceptionsKept, TF!TopOK
    <3> QED BY <3>1, <3>2
  <2>2. ASSUME NEW u \in TaskFrames, exceptionPtr'[u] PROVE TF!Kept(u)'
    <3>1. TF!Kept(u) /\ u # f
      BY <1>1, <2>2 DEF TF!ExceptionsKept, TF!Kept
    <3>2. st'[u] = st[u]
      BY <1>3, <3>1
    <3>3. ASSUME owner[u] \in TF!Frame, st[owner[u]] = "resumed", callee[owner[u]] = u PROVE u \in seen'
      BY <1>5, <2>2, <3>3
    <3> QED BY <3>1, <3>2, <3>3 DEF TF!Kept
  <2> QED BY <2>1, <2>2 DEF TF!ExceptionsKept
<1>10. callback = NullHandle
  BY <1>1, NoCallbackYet DEF TF!Dead
<1> QED BY <1>4, <1>7, <1>8, <1>9, <1>10, FramesHold DEF FramesOK

\* throw, catch and await_resume, which passes the exception of the callee on.
LEMMA BodyStep ==
  ASSUME TF!IInv, ~aborted, NEW f \in TF!Frame, TF!throw(f) \/ TF!catch(f) \/ TF!await_resume(f)
  PROVE  TF!IInv'
<1> USE FrameKinds
<1>1. TF!TypeOK /\ TF!ChainOK /\ TF!ExceptionsKept
  BY DEF TF!IInv
<1>2. CASE TF!throw(f)
  <2>1. /\ st[f] = "running" /\ current = f /\ st' = TF!Moved({f}, "throwing") /\ callee' = callee
        /\ seen' = seen /\ threw' = threw \cup {f} /\ aborted' = aborted
        /\ UNCHANGED <<continueHandle, exceptionPtr, value, owner, current, callback>>
    BY <1>2 DEF TF!throw, TF!Runs, TF!promiseVars
  <2> QED BY <1>1, <2>1, QuietStep DEF TF!TypeOK
<1>3. CASE TF!catch(f)
  <2>1. /\ st[f] = "throwing" /\ current = f /\ st' = TF!Moved({f}, "running") /\ callee' = callee
        /\ seen' = seen /\ threw' = threw /\ aborted' = aborted /\ f # top
        /\ UNCHANGED <<continueHandle, exceptionPtr, value, owner, current, callback>>
    BY <1>3 DEF TF!catch, TF!Runs, TF!promiseVars, TF!ghostVars
  <2> QED BY <1>1, <2>1, QuietStep DEF TF!TypeOK
<1>4. CASE TF!await_resume(f)
  <2> DEFINE t == callee[f]
  <2>1. /\ st[f] = "resumed" /\ current = f /\ callee' = [callee EXCEPT ![f] = NullHandle]
        /\ threw' = threw
        /\ UNCHANGED <<continueHandle, exceptionPtr, value, owner, current, callback>>
    BY <1>4 DEF TF!await_resume, TF!Runs, TF!promiseVars
  <2>2. t \in TaskFrames \cup ContinueFrames /\ exceptionPtr[t] \in BOOLEAN /\ value[t] \in BOOLEAN
    BY <1>1, <2>1 DEF TF!ChainOK, TF!ControlOK, TF!TypeOK
  <2>3. IF t \in ContinueFrames
        THEN aborted' \in BOOLEAN /\ st' = TF!Moved({f}, "running") /\ seen' = seen
        ELSE /\ st' = TF!Moved({f}, IF exceptionPtr[t] THEN "throwing" ELSE "running")
             /\ seen' = IF exceptionPtr[t] THEN seen \cup {t} ELSE seen
             /\ aborted' = aborted
    BY <1>4 DEF TF!await_resume, TF!rethrows
  <2>4. f = top /\ owner[body] = top /\ exceptionPtr[body] => t = body
    BY <1>1, <2>1 DEF TF!ExceptionsKept, TF!TopOK
  <2> HIDE DEF t
  <2>5. CASE t \in ContinueFrames
    <3>1. \A u \in TaskFrames : t # u
      BY <2>5
    <3> QED BY <1>1, <2>1, <2>3, <2>4, <2>5, <3>1, QuietStep DEF TF!TypeOK, t
  <2>6. CASE t \in TaskFrames /\ exceptionPtr[t]
    <3>1. st' = TF!Moved({f}, "throwing") /\ seen' = seen \cup {t} /\ aborted' = aborted
      BY <2>3, <2>6
    <3>2. \A u \in TaskFrames : callee[f] = u => u \in seen'
      BY <3>1 DEF t
    <3>3. seen \subseteq seen' /\ seen' \subseteq TF!Frame /\ threw' \subseteq TF!Frame /\ aborted' \in BOOLEAN
      BY <1>1, <2>1, <2>6, <3>1 DEF TF!TypeOK
    <3> QED BY <2>1, <3>1, <3>2, <3>3, QuietStep
  <2>7. CASE t \in TaskFrames /\ ~exceptionPtr[t]
    <3>1. st' = TF!Moved({f}, "running") /\ seen' = seen /\ aborted' = aborted
      BY <2>3, <2>7
    <3>2. \A u \in TaskFrames : exceptionPtr[u] => callee[f] # u
      BY <2>7 DEF t
    <3>3. ~(f = top /\ owner[body] = top /\ exceptionPtr[body])
      BY <2>4, <2>7
    <3> QED BY <1>1, <2>1, <3>1, <3>2, <3>3, QuietStep DEF TF!TypeOK
  <2> QED BY <2>2, <2>5, <2>6, <2>7
<1> QED BY <1>2, <1>3, <1>4

\* The root is resumed, or a blocking call by a thread of the pool.
LEMMA BeginStep ==
  ASSUME TF!IInv, ~aborted, NEW f \in TF!Frame, current = NullHandle, st[f] = "initial",
         f = TF!Root \/ f \in ContinueFrames,
         st' = TF!Moved({f}, "running"), current' = f,
         UNCHANGED <<continueHandle, exceptionPtr, value, owner, callee, seen, threw, callback, aborted>>
  PROVE  TF!IInv'
<1> USE FrameKinds
<1>1. TF!TypeOK /\ TF!ChainOK /\ TF!OwnersOK /\ TF!ExceptionsKept /\ TF!NothingLeaked
  BY DEF TF!IInv
<1>2. TF!Root \in TF!Frame /\ TF!Root' = TF!Root
  BY <1>1, RootOK DEF TF!Root
<1>3. /\ st'[f] = "running" /\ \A g \in TF!Frame : g # f => st'[g] = st[g]
      /\ st' \in [TF!Frame -> TF!St]
  BY <1>1 DEF TF!TypeOK, TF!Moved, TF!St
<1>4. TF!TypeOK'
  BY <1>1, <1>3 DEF TF!TypeOK
<1>5. \A g \in TF!Frame : st[g] \notin {"running", "throwing", "resumed"}
  BY <1>1 DEF TF!ChainOK, TF!ControlOK
<1>6. /\ TF!Active' \ {TF!Root} = TF!Active \ {TF!Root}
      /\ TF!Active \subseteq TF!Active' /\ TF!Active \subseteq TF!Frame
  <2>1. f \in TF!Active' /\ f \in TF!Active \cup {TF!Root}
    BY <1>3 DEF TF!Active
  <2>2. ASSUME NEW g \in TF!Frame, g # f PROVE g \in TF!Active' <=> g \in TF!Active
    BY <1>3, <2>2 DEF TF!Active
  <2>3. TF!Active \subseteq TF!Frame /\ TF!Active' \subseteq TF!Frame
    BY DEF TF!Active
  <2> QED BY <2>1, <2>2, <2>3
<1>7. TF!ChainOK'
  <2>1. TF!ControlOK'
    BY <1>1, <1>3, <1>5 DEF TF!ChainOK, TF!ControlOK
  <2>2. TF!Grounded'
    BY <1>1, <1>2, <1>6, GroundedFrame DEF TF!ChainOK
  <2>3. ASSUME NEW g \in TF!Active', g # TF!Root PROVE TF!Awaited(g)'
    <3>1. TF!Awaited(g) /\ continueHandle[g] # f
      BY <1>1, <1>6, <2>3 DEF TF!ChainOK, TF!Awaited
    <3> QED BY <1>3, <3>1 DEF TF!Awaited
  <2> QED BY <1>1, <1>2, <2>1, <2>2, <2>3 DEF TF!ChainOK
<1>8. TF!OwnersOK'
  <2>1. \A g \in TF!Frame : TF!Dead(g)' <=> TF!Dead(g)
    BY <1>3 DEF TF!Dead
  <2>2. TF!OutermostOK'
    BY <1>1, <1>3 DEF TF!OwnersOK, TF!OutermostOK
  <2>3. ASSUME NEW u \in TaskFrames, u # TF!Root PROVE TF!Dead(u)' \/ TF!Held(u)'
    <3>1. TF!Dead(u) \/ TF!Held(u)
      BY <1>1, <2>3 DEF TF!OwnersOK
    <3>2. TF!Held(u) => TF!Held(u)'
      BY <1>3, <2>1 DEF TF!Held
    <3> QED BY <2>1, <3>1, <3>2
  <2>4. ASSUME NEW c \in ContinueFrames PROVE TF!Dead(c)' \/ c \in TF!Active'
    BY <1>1, <1>6, <2>1 DEF TF!OwnersOK
  <2> QED BY <1>2, <2>2, <2>3, <2>4 DEF TF!OwnersOK
<1>9. TF!ExceptionsKept'
  <2>1. TF!TopOK'
    BY <1>1, <1>3 DEF TF!ExceptionsKept, TF!TopOK
  <2>2. ASSUME NEW u \in TaskFrames, exceptionPtr'[u] PROVE TF!Kept(u)'
    <3>1. TF!Kept(u) /\ u # f /\ u # current
      BY <1>1, <2>2 DEF TF!ExceptionsKept, TF!Kept
    <3>2. st'[u] = st[u]
      BY <1>3, <3>1
    <3> QED BY <1>5, <3>1, <3>2 DEF TF!Kept
  <2> QED BY <2>1, <2>2 DEF TF!ExceptionsKept
<1>10. callback = NullHandle
  BY <1>1, NoCallbackYet DEF TF!Dead
<1> QED BY <1>4, <1>7, <1>8, <1>9, <1>10, FramesHold DEF FramesOK

LEMMA StartStep ==
  ASSUME TF!IInv, ~aborted, TF!resume \/ \E c \in ContinueFrames : TF!runBlocking(c)
  PROVE  TF!IInv'
<1> USE FrameKinds
<1>1. CASE TF!resume
  <2>1. PICK f \in {top, body} : st[f] = "initial" /\ owner[f] # top /\ current' = f /\ st' = TF!Moved({f}, "running")
    BY <1>1 DEF TF!resume
  <2>2. f = TF!Root
    BY <2>1 DEF TF!IInv, TF!OwnersOK, TF!OutermostOK, TF!Root
  <2>3. /\ current = NullHandle
        /\ UNCHANGED <<continueHandle, exceptionPtr, value, owner, callee, seen, threw, callback, aborted>>
    BY <1>1 DEF TF!resume, TF!promiseVars, TF!ghostVars
  <2> QED BY <2>1, <2>2, <2>3, BeginStep
<1>2. ASSUME NEW c \in ContinueFrames, TF!runBlocking(c) PROVE TF!IInv'
  <2>1. /\ current = NullHandle /\ st[c] = "initial" /\ st' = TF!Moved({c}, "running") /\ current' = c
        /\ UNCHANGED <<continueHandle, exceptionPtr, value, owner, callee, seen, threw, callback, aborted>>
    BY <1>2 DEF TF!runBlocking, TF!promiseVars, TF!ghostVars
  <2> QED BY <2>1, BeginStep
<1> QED BY <1>1, <1>2

\* The Tasks that a body which runs leaves behind have passed their exceptions on.
LEMMA LocalsSurface ==
  ASSUME TF!TypeOK, TF!ChainOK, TF!ExceptionsKept, NEW f \in TF!Frame,
         current = f, st[f] \in {"running", "throwing"},
         NEW u \in TaskFrames, owner[u] = f, st[u] # "none", exceptionPtr[u]
  PROVE  u \in seen \/ u = f
BY FrameKinds DEF TF!ExceptionsKept, TF!Kept

\* A body ends: its locals go with it, and must be done.
LEMMA EndStep ==
  ASSUME TF!IInv, ~aborted, NEW f \in TF!Frame, current = f, st[f] \in {"running", "throwing"},
         TF!EndBody(f), aborted' = (TF!NotDone(f) # {}),
         exceptionPtr' \in [TF!Frame -> BOOLEAN], value' \in [TF!Frame -> BOOLEAN],
         \A g \in TF!Frame \ {f} : exceptionPtr'[g] = exceptionPtr[g] /\ value'[g] = value[g],
         st[f] = "throwing" => value'[f] = value[f],
         UNCHANGED <<continueHandle, owner, callee, current, seen, threw, callback>>
  PROVE  TF!IInv'
<1> USE FrameKinds
<1>1. TF!TypeOK /\ TF!ChainOK /\ TF!OwnersOK /\ TF!ExceptionsKept /\ TF!NothingLeaked /\ TF!ExceptionsSurface
  BY DEF TF!IInv
<1>2. TF!Root \in TF!Frame /\ TF!Root' = TF!Root
  BY <1>1, RootOK DEF TF!Root
<1> DEFINE L == TF!Locals(f)
<1>3. \A u \in L : /\ u \in TaskFrames /\ owner[u] = f /\ u # f
                   /\ st[u] \notin {"none", "destroyed"} /\ f # top
                   /\ exceptionPtr[u] => u \in seen
  <2>1. \A u \in L : u \in TaskFrames /\ owner[u] = f /\ st[u] \notin {"none", "destroyed"} /\ f # top
    BY DEF TF!Locals, TF!Owned
  <2>2. ASSUME f \in TaskFrames PROVE owner[f] # f
    <3>1. f = TF!Root \/ TF!Held(f)
      BY <1>1, <2>2 DEF TF!OwnersOK, TF!Dead
    <3>2. f # TF!Root => TF!Awaited(f)
      BY <1>1, <2>2 DEF TF!ChainOK, TF!Active
    <3>3. f # TF!Root => owner[f] # f
      BY <2>2, <3>2 DEF TF!Awaited
    <3> QED BY <1>1, <2>2, <3>3 DEF TF!OwnersOK, TF!OutermostOK, TF!Root
  <2> QED BY <1>1, <2>1, <2>2, LocalsSurface
<1>4. /\ st'[f] = "final" /\ st' \in [TF!Frame -> TF!St]
      /\ \A g \in TF!Frame : g # f => st'[g] = IF g \in L THEN "destroyed" ELSE st[g]
  BY <1>1 DEF TF!EndBody, TF!TypeOK, TF!Moved, TF!St
<1> HIDE DEF L
<1>5. TF!TypeOK'
  BY <1>1, <1>4 DEF TF!TypeOK
<1>6. callback = NullHandle
  BY <1>1, NoCallbackYet DEF TF!Dead
<1>7. CASE aborted'
  <2>1. ASSUME NEW t \in TaskFrames, st'[t] = "destroyed", exceptionPtr'[t] PROVE t \in seen
    <3>1. t # f /\ exceptionPtr[t] /\ (t \in L \/ st[t] = "destroyed")
      BY <1>4, <2>1
    <3> QED BY <1>1, <1>3, <2>1, <3>1 DEF TF!ExceptionsSurface
  <2>2. TF!ExceptionsSurface'
    BY <1>6, <2>1 DEF TF!ExceptionsSurface
  <2> QED BY <1>5, <1>6, <1>7, <2>2 DEF TF!IInv, TF!NothingLeaked
<1>8. CASE ~aborted'
  <2>1. \A u \in L : st[u] = "final"
    BY <1>8 DEF TF!NotDone, TF!Locals, L
  <2>2. \A g \in TF!Frame : g # f => st[g] \notin {"running", "throwing", "resumed"}
    BY <1>1 DEF TF!ChainOK, TF!ControlOK
  <2>3. TF!Active' = TF!Active
    <3>1. f \in TF!Active /\ f \in TF!Active'
      BY DEF TF!Active
    <3>2. ASSUME NEW g \in TF!Frame, g # f PROVE g \in TF!Active' <=> g \in TF!Active
      BY <1>3, <1>4, <2>1, <3>2 DEF TF!Active
    <3>3. TF!Active \subseteq TF!Frame /\ TF!Active' \subseteq TF!Frame
      BY DEF TF!Active
    <3> QED BY <3>1, <3>2, <3>3
  <2>4. TF!ChainOK'
    <3>1. TF!ControlOK'
      BY <1>1, <1>4, <2>2 DEF TF!ChainOK, TF!ControlOK
    <3>2. TF!Grounded'
      BY <1>1, <1>2, <2>3, GroundedFrame DEF TF!ChainOK
    <3>3. ASSUME NEW g \in TF!Active', g # TF!Root PROVE TF!Awaited(g)'
      <4>1. TF!Awaited(g) /\ continueHandle[g] # f /\ continueHandle[g] \notin L
        BY <1>1, <2>1, <2>3, <3>3 DEF TF!ChainOK, TF!Awaited
      <4> QED BY <1>4, <4>1 DEF TF!Awaited
    <3> QED BY <1>1, <1>2, <2>3, <3>1, <3>2, <3>3 DEF TF!ChainOK
  <2>5. TF!OwnersOK'
    <3>1. TF!OutermostOK'
      BY <1>1, <1>3, <1>4 DEF TF!OwnersOK, TF!OutermostOK
    <3>2. ASSUME NEW u \in TaskFrames, u # TF!Root PROVE TF!Dead(u)' \/ TF!Held(u)'
      <4>1. CASE u \in L
        BY <1>3, <1>4, <4>1 DEF TF!Dead
      <4>2. CASE TF!Dead(u)
        BY <1>4, <4>2 DEF TF!Dead
      <4>3. CASE TF!Held(u) /\ owner[u] # f
        <5>1. owner[u] \notin L
          BY <1>3, <2>1, <4>3 DEF TF!Held
        <5> QED BY <1>4, <4>3, <5>1 DEF TF!Held, TF!Dead
      <4>4. CASE TF!Held(u) /\ owner[u] = f /\ f = top
        BY <1>4, <4>4 DEF TF!Held, TF!Dead
      <4>5. CASE TF!Held(u) /\ owner[u] = f /\ f # top /\ u \notin L
        <5>1. TF!Dead(u)
          BY <4>5 DEF TF!Dead, L, TF!Locals, TF!Owned
        <5> QED BY <1>4, <4>5, <5>1 DEF TF!Dead
      <4> QED BY <1>1, <3>2, <4>1, <4>2, <4>3, <4>4, <4>5 DEF TF!OwnersOK
    <3>3. ASSUME NEW c \in ContinueFrames PROVE TF!Dead(c)' \/ c \in TF!Active'
      <4>1. c \notin L
        BY <1>3
      <4> QED BY <1>1, <1>4, <2>3, <4>1 DEF TF!OwnersOK, TF!Dead, TF!Active
    <3> QED BY <1>2, <3>1, <3>2, <3>3 DEF TF!OwnersOK
  <2>6. TF!TopOK'
    <3>1. CASE f = top
      BY <1>1, <1>4, <3>1 DEF TF!ExceptionsKept, TF!TopOK
    <3>2. CASE f = body /\ owner[body] = top
      <4>1. f \in TF!Active /\ f # TF!Root
        BY <3>2 DEF TF!Active, TF!Root
      <4>2. st[top] = "awaiting" /\ callee[top] = body /\ top \notin L
        BY <1>1, <1>3, <3>2, <4>1 DEF TF!ChainOK, TF!Awaited
      <4> QED BY <1>1, <1>4, <3>2, <4>2 DEF TF!ExceptionsKept, TF!TopOK
    <3>3. CASE f # top /\ ~(f = body /\ owner[body] = top)
      <4>1. top \notin L
        BY <1>3
      <4>2. CASE f # body
        BY <1>1, <1>4, <3>3, <4>1, <4>2 DEF TF!ExceptionsKept, TF!TopOK
      <4>3. CASE owner[body] # top
        BY <1>1, <1>4, <3>3, <4>1, <4>3 DEF TF!ExceptionsKept, TF!TopOK
      <4> QED BY <3>3, <4>2, <4>3
    <3> QED BY <3>1, <3>2, <3>3
  <2>7. ASSUME NEW u \in TaskFrames, exceptionPtr'[u] PROVE TF!Kept(u)'
    <3>1. CASE u = f
      BY <1>4, <3>1 DEF TF!Kept
    <3>2. CASE u # f /\ u \in L
      BY <1>3, <1>4, <2>7, <3>2 DEF TF!Kept
    <3>3. CASE u # f /\ u \notin L
      <4>1. TF!Kept(u)
        BY <1>1, <2>7, <3>3 DEF TF!ExceptionsKept
      <4> QED BY <1>4, <2>2, <3>3, <4>1 DEF TF!Kept
    <3> QED BY <3>1, <3>2, <3>3
  <2> QED BY <1>5, <1>6, <2>4, <2>5, <2>6, <2>7, FramesHold DEF FramesOK, TF!ExceptionsKept
<1> QED BY <1>7, <1>8

\* return, and unhandled_exception, after which the value stays unset.
LEMMA EndBodyStep ==
  ASSUME TF!IInv, ~aborted, NEW f \in TF!Frame, TF!return(f) \/ TF!unhandled_exception(f)
  PROVE  TF!IInv'
<1> USE FrameKinds
<1>1. TF!TypeOK
  BY DEF TF!IInv
<1>2. CASE TF!return(f)
  <2>1. /\ current = f /\ st[f] = "running" /\ TF!EndBody(f) /\ TF!NotDone(f) = {}
        /\ value' = [value EXCEPT ![f] = TRUE] /\ aborted' = aborted
        /\ UNCHANGED <<continueHandle, exceptionPtr, owner, callee, current, seen, threw, callback>>
    BY <1>2 DEF TF!return, TF!Runs, TF!ghostVars
  <2>2. ~aborted' /\ aborted' \in BOOLEAN
    BY <1>1, <2>1 DEF TF!TypeOK
  <2>3. aborted' = (TF!NotDone(f) # {})
    <3>1. (TF!NotDone(f) # {}) = FALSE
      BY <2>1
    <3>2. aborted' = FALSE
      BY <2>2
    <3> QED BY <3>1, <3>2
  <2>4. /\ exceptionPtr' \in [TF!Frame -> BOOLEAN] /\ value' \in [TF!Frame -> BOOLEAN]
        /\ \A g \in TF!Frame \ {f} : exceptionPtr'[g] = exceptionPtr[g] /\ value'[g] = value[g]
    BY <1>1, <2>1 DEF TF!TypeOK
  <2> QED BY <2>1, <2>3, <2>4, EndStep
<1>3. CASE TF!unhandled_exception(f)
  <2>1. /\ current = f /\ st[f] = "throwing" /\ TF!EndBody(f) /\ aborted' = (TF!NotDone(f) # {})
        /\ exceptionPtr' = [exceptionPtr EXCEPT ![f] = TRUE] /\ value' = value
        /\ UNCHANGED <<continueHandle, owner, callee, current, seen, threw, callback>>
    BY <1>3 DEF TF!unhandled_exception, TF!Runs, TF!ghostVars
  <2>2. /\ exceptionPtr' \in [TF!Frame -> BOOLEAN] /\ value' \in [TF!Frame -> BOOLEAN]
        /\ \A g \in TF!Frame \ {f} : exceptionPtr'[g] = exceptionPtr[g] /\ value'[g] = value[g]
    BY <1>1, <2>1 DEF TF!TypeOK
  <2> QED BY <2>1, <2>2, EndStep
<1> QED BY <1>2, <1>3

\* A Task that is done is destroyed by the body that runs.
LEMMA DropStep ==
  ASSUME TF!IInv, ~aborted, NEW f \in TF!Frame, TF!drop(f)
  PROVE  TF!IInv'
<1> USE FrameKinds
<1>1. TF!TypeOK /\ TF!ChainOK /\ TF!OwnersOK /\ TF!ExceptionsKept /\ TF!NothingLeaked
  BY DEF TF!IInv
<1>2. PICK t \in TaskFrames : owner[t] = f /\ st[t] = "final" /\ st' = TF!Moved({t}, "destroyed")
  BY DEF TF!drop, TF!Owned
<1>3. /\ f \in TaskFrames /\ current = f /\ st[f] = "running"
      /\ UNCHANGED <<continueHandle, exceptionPtr, value, owner, callee, current, seen, threw, callback,
                     aborted>>
  BY DEF TF!drop, TF!Runs, TF!promiseVars, TF!ghostVars
<1>4. /\ t # f /\ st'[t] = "destroyed" /\ st' \in [TF!Frame -> TF!St]
      /\ \A g \in TF!Frame : g # t => st'[g] = st[g]
  BY <1>1, <1>2, <1>3 DEF TF!TypeOK, TF!Moved, TF!St
<1>5. TF!TypeOK'
  BY <1>1, <1>3, <1>4 DEF TF!TypeOK
<1>6. TF!Root \in TF!Frame /\ TF!Root' = TF!Root /\ t # TF!Root
  BY <1>1, <1>2, <1>3, RootOK DEF TF!Root
<1>7. TF!Active' = TF!Active
  <2>1. t \notin TF!Active /\ t \notin TF!Active'
    BY <1>2, <1>3, <1>4 DEF TF!Active
  <2>2. ASSUME NEW g \in TF!Frame, g # t PROVE g \in TF!Active' <=> g \in TF!Active
    BY <1>3, <1>4, <2>2 DEF TF!Active
  <2>3. TF!Active \subseteq TF!Frame /\ TF!Active' \subseteq TF!Frame
    BY DEF TF!Active
  <2> QED BY <2>1, <2>2, <2>3
<1>8. TF!ChainOK'
  <2>1. TF!ControlOK'
    BY <1>1, <1>3, <1>4 DEF TF!ChainOK, TF!ControlOK
  <2>2. TF!Grounded'
    BY <1>1, <1>3, <1>6, <1>7, GroundedFrame DEF TF!ChainOK
  <2>3. ASSUME NEW g \in TF!Active', g # TF!Root PROVE TF!Awaited(g)'
    <3>1. TF!Awaited(g) /\ continueHandle[g] # t
      BY <1>1, <1>2, <1>7, <2>3 DEF TF!ChainOK, TF!Awaited
    <3> QED BY <1>3, <1>4, <3>1 DEF TF!Awaited
  <2> QED BY <1>1, <1>3, <1>6, <2>1, <2>2, <2>3 DEF TF!ChainOK
<1>9. TF!OwnersOK'
  <2>1. TF!OutermostOK'
    BY <1>1, <1>3, <1>4 DEF TF!OwnersOK, TF!OutermostOK
  <2>2. ASSUME NEW u \in TaskFrames, u # TF!Root PROVE TF!Dead(u)' \/ TF!Held(u)'
    <3>1. CASE u = t \/ TF!Dead(u)
      BY <1>4, <3>1 DEF TF!Dead
    <3>2. CASE TF!Held(u)
      BY <1>2, <1>3, <1>4, <3>2 DEF TF!Held, TF!Dead
    <3> QED BY <1>1, <2>2, <3>1, <3>2 DEF TF!OwnersOK
  <2>3. \A c \in ContinueFrames : TF!Dead(c)' \/ c \in TF!Active'
    BY <1>1, <1>4, <1>7 DEF TF!OwnersOK, TF!Dead
  <2> QED BY <1>6, <2>1, <2>2, <2>3 DEF TF!OwnersOK
<1>10. TF!TopOK'
  BY <1>1, <1>3, <1>4 DEF TF!ExceptionsKept, TF!TopOK
<1>11. ASSUME NEW u \in TaskFrames, exceptionPtr'[u] PROVE TF!Kept(u)'
  <2>1. TF!Kept(u)
    BY <1>1, <1>3, <1>11 DEF TF!ExceptionsKept
  <2>2. CASE u = t
    BY <1>2, <1>3, <1>4, <2>1, <2>2 DEF TF!Kept
  <2>3. CASE u # t
    BY <1>2, <1>3, <1>4, <2>1, <2>3 DEF TF!Kept
  <2> QED BY <2>2, <2>3
<1>12. callback = NullHandle
  BY <1>1, <1>3, NoCallbackYet DEF TF!Dead
<1> QED BY <1>3, <1>5, <1>8, <1>9, <1>10, <1>11, <1>12, FramesHold DEF FramesOK, TF!ExceptionsKept

-----------------------------------------------------------------------------
\* When the root has ended no frame of the chain is left: the others would await each
\* other in a ring, or one of them the root.
LEMMA ChainUnwound ==
  ASSUME TF!ChainOK, st[TF!Root] # "awaiting"
  PROVE  TF!Active \ {TF!Root} = {}
<1> DEFINE F == TF!Active \ {TF!Root}
<1>1. SUFFICES ASSUME F # {} PROVE FALSE
  OBVIOUS
<1>2. PICK f \in F : continueHandle[f] \notin F
  BY <1>1 DEF TF!ChainOK, TF!Grounded
<1>3. continueHandle[f] \in TF!Frame /\ st[continueHandle[f]] = "awaiting"
  BY <1>2 DEF TF!ChainOK, TF!Awaited
<1>4. continueHandle[f] \in F
  BY <1>3 DEF TF!Active
<1> QED BY <1>2, <1>4

\* Nothing is then alive but the root and, if that is spawn's frame, the Task it holds.
LEMMA OnlyRootLeft ==
  ASSUME TF!ChainOK, TF!OwnersOK, st[TF!Root] = "final", NEW g \in TF!Frame, g # TF!Root, ~TF!Dead(g)
  PROVE  TF!Root = top /\ g = body /\ g \in TF!Owned(top)
<1> USE FrameKinds
<1>1. TF!Active \ {TF!Root} = {}
  BY ChainUnwound
<1>2. g \notin ContinueFrames
  BY <1>1 DEF TF!OwnersOK
<1>3. g # top
  BY RootOK DEF TF!OwnersOK, TF!OutermostOK, TF!Dead
<1>4. g \in TaskFrames /\ TF!Held(g)
  BY <1>2, <1>3 DEF TF!OwnersOK
<1>5. st[owner[g]] \notin {"running", "throwing", "awaiting", "resumed"}
  <2>1. SUFFICES ASSUME st[owner[g]] \in {"running", "throwing", "awaiting", "resumed"} PROVE FALSE
    OBVIOUS
  <2>2. owner[g] \in TF!Active
    BY <1>4, <2>1 DEF TF!Active, TF!Held
  <2> QED BY <1>1, <2>1, <2>2
<1>6. owner[g] = top /\ g = body
  BY <1>4, <1>5 DEF TF!Held
<1> QED BY <1>4, <1>6, RootOK DEF TF!Owned, TF!Dead

\* The final awaiter of spawn's frame, which takes the Task with it.
LEMMA DetachStep == ASSUME TF!IInv, ~aborted, TF!finalDetachTask PROVE TF!IInv'
<1> USE FrameKinds
<1>1. TF!TypeOK /\ TF!ChainOK /\ TF!OwnersOK /\ TF!ExceptionsKept /\ TF!ExceptionsSurface
  BY DEF TF!IInv
<1>2. /\ current = top /\ st[top] = "final" /\ aborted' = (TF!NotDone(top) # {})
      /\ st' = TF!Moved({top} \cup TF!Owned(top), "destroyed")
      /\ callback' = (IF value[top] THEN "value" ELSE "unset") /\ current' = NullHandle
      /\ UNCHANGED <<continueHandle, exceptionPtr, value, owner, callee, seen, threw>>
  BY DEF TF!finalDetachTask, TF!Runs, TF!promiseVars, TF!ghostVars
<1>3. TF!Root = top /\ owner[body] = top /\ TF!Root' = TF!Root
  BY <1>1, <1>2, RootOK DEF TF!OwnersOK, TF!OutermostOK, TF!Root
<1>4. \A g \in TF!Frame \ {top} : TF!Dead(g) \/ (g = body /\ g \in TF!Owned(top))
  BY <1>1, <1>2, <1>3, OnlyRootLeft
<1>5. \A g \in TF!Frame : TF!Dead(g)'
  BY <1>1, <1>2, <1>4 DEF TF!Moved, TF!Dead
<1>6. TF!TypeOK'
  BY <1>1, <1>2 DEF TF!TypeOK, TF!Moved, TF!St
<1>7. \A t \in TaskFrames : exceptionPtr[t] => t \in seen
  <2>1. SUFFICES ASSUME NEW t \in TaskFrames, exceptionPtr[t] PROVE t \in seen
    OBVIOUS
  <2> QED BY <1>1, <1>2, <1>3, <1>4, <2>1 DEF TF!ExceptionsKept, TF!Kept, TF!ControlOK, TF!ChainOK,
                                                TF!Dead, TF!Owned
<1>8. TF!ExceptionsSurface'
  <2>1. value[top] => ~exceptionPtr[body]
    BY <1>1, <1>3 DEF TF!ExceptionsKept, TF!TopOK
  <2> QED BY <1>2, <1>7, <2>1 DEF TF!ExceptionsSurface
<1>9. TF!NothingLeaked'
  BY <1>5 DEF TF!NothingLeaked, TF!Dead
<1>10. TF!ChainOK'
  <2>1. TF!Active' = {}
    BY <1>2, <1>5 DEF TF!Active, TF!Dead
  <2> QED BY <1>1, <1>2, <1>3, <1>5, <2>1 DEF TF!ChainOK, TF!ControlOK, TF!Grounded, TF!Dead
<1>11. TF!OwnersOK'
  <2>1. st[body] # "none" /\ st'[body] # "none"
    BY <1>1, <1>2 DEF TF!OwnersOK, TF!OutermostOK, TF!Moved
  <2> QED BY <1>2, <1>3, <1>5, <2>1 DEF TF!OwnersOK, TF!OutermostOK
<1>12. TF!ExceptionsKept'
  <2>1. st'[top] = "destroyed"
    BY <1>2 DEF TF!Moved
  <2>2. TF!TopOK'
    BY <1>1, <1>2, <1>3, <2>1 DEF TF!ExceptionsKept, TF!TopOK
  <2>3. \A t \in TaskFrames : exceptionPtr'[t] => TF!Kept(t)'
    <3>1. SUFFICES ASSUME NEW t \in TaskFrames, exceptionPtr[t] PROVE TF!Kept(t)'
      BY <1>2
    <3>2. st[t] # "none"
      BY <1>1, <3>1 DEF TF!ExceptionsKept, TF!Kept
    <3>3. st'[t] = "destroyed"
      BY <1>1, <1>2, <1>5, <3>2 DEF TF!Moved, TF!Dead
    <3> QED BY <1>2, <1>7, <3>1, <3>3 DEF TF!Kept
  <2> QED BY <2>2, <2>3 DEF TF!ExceptionsKept
<1> QED BY <1>6, <1>8, <1>9, <1>10, <1>11, <1>12 DEF TF!IInv

\* main() takes the result of the Task that it has resumed.
LEMMA MainStep == ASSUME TF!IInv, ~aborted, TF!mainTakes PROVE TF!IInv'
<1> USE FrameKinds
<1>1. TF!TypeOK /\ TF!ChainOK /\ TF!OwnersOK /\ TF!ExceptionsKept /\ TF!ExceptionsSurface
  BY DEF TF!IInv
<1>2. /\ current = NullHandle /\ owner[body] = main /\ st[body] = "final"
      /\ seen' = (IF exceptionPtr[body] THEN seen \cup {body} ELSE seen)
      /\ callback' = (IF exceptionPtr[body] THEN "exception" ELSE "value")
      /\ st' = TF!Moved({body}, "destroyed")
      /\ UNCHANGED <<continueHandle, exceptionPtr, value, owner, callee, current, threw, aborted>>
  BY DEF TF!mainTakes, TF!rethrows, TF!promiseVars
<1>3. TF!Root = body /\ TF!Root' = TF!Root
  BY <1>1, <1>2, RootOK DEF TF!Root
<1>4. \A g \in TF!Frame \ {body} : TF!Dead(g)
  BY <1>1, <1>2, <1>3, OnlyRootLeft
<1>5. st'[body] = "destroyed" /\ \A g \in TF!Frame : g # body => st'[g] = st[g]
  BY <1>1, <1>2 DEF TF!Moved
<1>6. \A g \in TF!Frame : TF!Dead(g)'
  BY <1>4, <1>5 DEF TF!Dead
<1>7. TF!TypeOK'
  BY <1>1, <1>2 DEF TF!TypeOK, TF!Moved, TF!St
<1>8. \A t \in TaskFrames : exceptionPtr[t] => t \in seen' /\ st'[t] = "destroyed"
  <2>1. SUFFICES ASSUME NEW t \in TaskFrames, exceptionPtr[t] PROVE t \in seen' /\ st'[t] = "destroyed"
    OBVIOUS
  <2>2. CASE t = body
    BY <1>2, <1>5, <2>1, <2>2
  <2>3. CASE t # body
    <3>1. TF!Kept(t) /\ TF!Dead(t)
      BY <1>1, <1>4, <2>1, <2>3 DEF TF!ExceptionsKept
    <3>2. st[t] = "destroyed" /\ t \in seen
      BY <1>2, <3>1 DEF TF!Kept, TF!Dead
    <3> QED BY <1>2, <1>5, <2>3, <3>2
  <2> QED BY <2>2, <2>3
<1>9. TF!ExceptionsSurface'
  BY <1>2, <1>8 DEF TF!ExceptionsSurface
<1>10. TF!NothingLeaked'
  BY <1>6 DEF TF!NothingLeaked, TF!Dead
<1>11. TF!ChainOK'
  <2>1. TF!Active' = {}
    BY <1>2, <1>6 DEF TF!Active, TF!Dead
  <2> QED BY <1>1, <1>2, <1>3, <1>6, <2>1 DEF TF!ChainOK, TF!ControlOK, TF!Grounded, TF!Dead
<1>12. TF!OwnersOK'
  BY <1>1, <1>2, <1>5, <1>6 DEF TF!OwnersOK, TF!OutermostOK
<1>13. TF!ExceptionsKept'
  <2>1. TF!TopOK'
    BY <1>1, <1>2, <1>5 DEF TF!ExceptionsKept, TF!TopOK, TF!OwnersOK, TF!OutermostOK
  <2> QED BY <1>2, <1>8, <2>1 DEF TF!ExceptionsKept, TF!Kept
<1> QED BY <1>7, <1>9, <1>10, <1>11, <1>12, <1>13 DEF TF!IInv

-----------------------------------------------------------------------------
\* IInv is inductive.
LEMMA FramesStep == TF!IInv /\ [TF!Next]_(TF!vars) => TF!IInv'
<1> SUFFICES ASSUME TF!IInv, [TF!Next]_(TF!vars) PROVE TF!IInv'
  OBVIOUS
<1>1. CASE UNCHANGED TF!vars
  <2>1. UNCHANGED <<st, continueHandle, exceptionPtr, value, owner, callee, current, seen, threw, callback,
                    aborted>>
    BY <1>1 DEF TF!vars, TF!promiseVars, TF!ghostVars
  <2>2. TF!TypeOK' /\ TF!ExceptionsSurface' /\ TF!NothingLeaked'
    BY <2>1 DEF TF!IInv, TF!TypeOK, TF!ExceptionsSurface, TF!NothingLeaked
  <2>3. ~aborted => TF!ChainOK'
    BY <2>1 DEF TF!IInv, TF!ChainOK, TF!ControlOK, TF!Grounded, TF!Active, TF!Root, TF!Awaited
  <2>4. ~aborted => TF!OwnersOK'
    BY <2>1 DEF TF!IInv, TF!OwnersOK, TF!OutermostOK, TF!Held, TF!Dead, TF!Active, TF!Root
  <2>5. ~aborted => TF!ExceptionsKept'
    BY <2>1 DEF TF!IInv, TF!ExceptionsKept, TF!TopOK, TF!Kept
  <2> QED BY <2>1, <2>2, <2>3, <2>4, <2>5 DEF TF!IInv
<1>2. CASE ~aborted /\ \E f \in TF!Frame : TF!Body(f)
  BY <1>2, CreateStep, AwaitStep, BodyStep, DropStep, EndBodyStep DEF TF!Body
<1>3. CASE ~aborted /\ TF!Final
  BY <1>3, FinalStep, DetachStep DEF TF!Final
<1>4. CASE ~aborted /\ (TF!resume \/ \E c \in ContinueFrames : TF!runBlocking(c))
  BY <1>4, StartStep
<1>5. CASE ~aborted /\ TF!mainTakes
  BY <1>5, MainStep
<1> QED BY <1>1, <1>2, <1>3, <1>4, <1>5 DEF TF!Next

\* The chain of calls, the owners of the frames and the exceptions under way are right in
\* every reachable state, whatever the bodies do, until an assert fails.
THEOREM FramesInvariant == TF!Spec => []TF!IInv
<1> QED BY FramesInit, FramesStep, PTL DEF TF!Spec

\* Every frame has been destroyed when the callback runs or main() has its result.
THEOREM FramesNothingLeaked == TF!Spec => []NothingLeaked
<1>1. TF!IInv => NothingLeaked
  BY DEF TF!IInv, NothingLeaked
<1> QED BY <1>1, FramesInvariant, PTL

\* An exception reaches whoever awaits the Task, and is never taken for a value.
THEOREM FramesExceptionsSurface == TF!Spec => []ExceptionsSurface
<1>1. TF!IInv => ExceptionsSurface
  BY DEF TF!IInv, ExceptionsSurface
<1> QED BY <1>1, FramesInvariant, PTL
=============================================================================

---------------------- MODULE StealingThreadPoolProofs ----------------------
(***************************************************************************)
(* No task of the pool is lost, invoked twice or left behind a sleeping    *)
(* owner, for every number of workers and every finite set of tasks, and   *)
(* also while the destructor runs: IInv of StealingThreadPool is           *)
(* inductive.                                                              *)
(***************************************************************************)
EXTENDS StealingThreadPool, FiniteSetTheorems, SequenceTheorems, TLAPS

\* push() adds its argument and nothing else.
LEMMA PushMembers ==
  ASSUME NEW S, NEW q \in Seq(S), NEW x \in S, NoRepeats(q), x \notin Members(q)
  PROVE  /\ push(q, x) \in Seq(S)
         /\ Members(push(q, x)) = Members(q) \cup {x}
         /\ NoRepeats(push(q, x))
<1> DEFINE r == push(q, x)
<1>1. /\ r \in Seq(S)
      /\ Len(q) \in Nat
      /\ DOMAIN q = 1 .. Len(q)
      /\ DOMAIN r = 1 .. Len(q) + 1
      /\ \A p \in 1 .. Len(q) : r[p] = q[p]
      /\ r[Len(q) + 1] = x
  BY DEF push
<1> HIDE DEF r
<1>2. \A p \in DOMAIN r : p \in DOMAIN q \/ p = Len(q) + 1
  BY <1>1
<1>3. Members(r) = Members(q) \cup {x}
  <2>1. ASSUME NEW y \in Members(r) PROVE y \in Members(q) \cup {x}
    BY <1>1, <1>2 DEF Members
  <2>2. ASSUME NEW y \in Members(q) PROVE y \in Members(r)
    BY <1>1 DEF Members
  <2>3. x \in Members(r)
    BY <1>1 DEF Members
  <2> QED BY <2>1, <2>2, <2>3
<1>4. NoRepeats(r)
  BY <1>1, <1>2 DEF NoRepeats, Members
<1> QED BY <1>1, <1>3, <1>4 DEF r

\* pop() removes what it returns and nothing else.
LEMMA PopMembers ==
  ASSUME NEW S, NEW q \in Seq(S), NoRepeats(q), ~empty(q)
  PROVE  /\ front(q) \in Members(q)
         /\ front(q) \in S
         /\ popped(q) \in Seq(S)
         /\ Members(popped(q)) = Members(q) \ {front(q)}
         /\ NoRepeats(popped(q))
<1> DEFINE r == popped(q)
<1>1. /\ r \in Seq(S)
      /\ Len(q) \in Nat \ {0}
      /\ DOMAIN q = 1 .. Len(q)
      /\ DOMAIN r = 1 .. Len(q) - 1
      /\ \A p \in 1 .. Len(q) - 1 : r[p] = q[p + 1]
      /\ front(q) = q[1]
      /\ front(q) \in S
  BY DEF popped, front, empty
<1> HIDE DEF r
<1>2. \A p \in DOMAIN r : p + 1 \in DOMAIN q /\ p + 1 # 1 /\ r[p] = q[p + 1]
  BY <1>1
<1>3. \A p \in DOMAIN q : p = 1 \/ (p - 1 \in DOMAIN r /\ r[p - 1] = q[p])
  BY <1>1
<1>4. 1 \in DOMAIN q
  BY <1>1
<1>5. Members(r) = Members(q) \ {front(q)}
  <2>1. ASSUME NEW y \in Members(r) PROVE y \in Members(q) /\ y # front(q)
    BY <1>1, <1>2, <1>4 DEF Members, NoRepeats
  <2>2. ASSUME NEW y \in Members(q), y # front(q) PROVE y \in Members(r)
    BY <1>1, <1>3, <2>2 DEF Members
  <2> QED BY <2>1, <2>2
<1>6. NoRepeats(r)
  BY <1>1, <1>2 DEF NoRepeats
<1>7. front(q) \in Members(q)
  BY <1>1, <1>4 DEF Members
<1> QED BY <1>1, <1>5, <1>6, <1>7 DEF r

\* steal() removes what it returns and nothing else.
LEMMA StealMembers ==
  ASSUME NEW S, NEW q \in Seq(S), NoRepeats(q), ~empty(q)
  PROVE  /\ back(q) \in Members(q)
         /\ back(q) \in S
         /\ stolen(q) \in Seq(S)
         /\ Members(stolen(q)) = Members(q) \ {back(q)}
         /\ NoRepeats(stolen(q))
<1> DEFINE r == stolen(q)
<1>1. /\ Len(q) \in Nat \ {0}
      /\ DOMAIN q = 1 .. Len(q)
      /\ back(q) = q[Len(q)]
      /\ \A p \in 1 .. Len(q) : q[p] \in S
  BY DEF back, empty
<1>2. /\ r \in Seq(S)
      /\ Len(r) = Len(q) - 1
      /\ \A p \in 1 .. Len(q) - 1 : r[p] = q[p]
  <2>1. \A p \in 1 .. Len(q) - 1 : q[p] \in S
    BY <1>1
  <2>2. /\ SubSeq(q, 1, Len(q) - 1) \in Seq(S)
        /\ Len(SubSeq(q, 1, Len(q) - 1)) =
             IF 1 <= Len(q) - 1 THEN Len(q) - 1 - 1 + 1 ELSE 0
        /\ \A p \in 1 .. Len(q) - 1 - 1 + 1 : SubSeq(q, 1, Len(q) - 1)[p] = q[1 + p - 1]
    BY <1>1, <2>1, SubSeqProperties
  <2> QED BY <1>1, <2>2 DEF stolen
<1>3. DOMAIN r = 1 .. Len(q) - 1
  BY <1>1, <1>2
<1> HIDE DEF r
<1>4. \A p \in DOMAIN r : p \in DOMAIN q /\ p # Len(q) /\ r[p] = q[p]
  BY <1>1, <1>2, <1>3
<1>5. \A p \in DOMAIN q : p = Len(q) \/ (p \in DOMAIN r /\ r[p] = q[p])
  BY <1>1, <1>2, <1>3
<1>6. Len(q) \in DOMAIN q
  BY <1>1
<1>7. Members(r) = Members(q) \ {back(q)}
  <2>1. ASSUME NEW y \in Members(r) PROVE y \in Members(q) /\ y # back(q)
    BY <1>1, <1>4, <1>6 DEF Members, NoRepeats
  <2>2. ASSUME NEW y \in Members(q), y # back(q) PROVE y \in Members(r)
    BY <1>1, <1>5, <2>2 DEF Members
  <2> QED BY <2>1, <2>2
<1>8. NoRepeats(r)
  BY <1>4 DEF NoRepeats
<1>9. back(q) \in Members(q) /\ back(q) \in S
  BY <1>1, <1>6 DEF Members
<1> QED BY <1>2, <1>7, <1>8, <1>9 DEF r

\* Queues and semaphores are indexed by workers.
LEMMA IndexInRange == ASSUME TypeOK, NEW t \in Task PROVE index(t) \in Worker
  BY PoolAssumption DEF TypeOK, index, Worker

Placed == QueuesOK /\ HeldOK /\ NothingLost

\* A step that moves no task between queues and workers keeps every task in its place.
LEMMA PlacedFrame ==
  ASSUME TypeOK, Placed,
         mQueues' = mQueues, runs' = runs,
         \A w \in Worker : pc'[w] = "sub" <=> pc[w] = "sub",
         \A w \in Worker : pc[w] = "sub" => task'[w] = task[w],
         \A t \in Task : Pushed(t)' <=> Pushed(t),
         \A t \in Task : Pushed(t) => index(t)' = index(t)
  PROVE  Placed'
<1>1. \A i \in Worker : Members(mQueues[i]) \subseteq Task
  BY DEF TypeOK, Members
<1>2. \A t : Members(mQueues'[index(t)']) = Members(mQueues[index(t)'])
  OBVIOUS
<1>3. QueuesOK'
  BY <1>1 DEF Placed, QueuesOK
<1>4. HeldOK'
  BY <1>1 DEF Placed, HeldOK
<1>5. NothingLost'
  BY <1>1 DEF Placed, NothingLost
<1> QED BY <1>3, <1>4, <1>5 DEF Placed

\* The initial state: an idle pool that has been given nothing.
LEMMA PoolInit == Init => IInv
<1> SUFFICES ASSUME Init PROVE IInv
  OBVIOUS
<1>1. TypeOK
  <2>1. threadNum \in Nat \ {0} /\ 1 \in 1 .. threadNum /\ 0 \in 0 .. threadNum
    BY PoolAssumption
  <2>2. /\ mQueues \in [Worker -> Seq(Task)]
        /\ signal \in [Worker -> Nat]
        /\ mCount \in Nat
        /\ mPendingTasks \in Nat
    BY DEF Init
  <2>3. /\ stage \in [Task -> StageName]
        /\ slot \in [Task -> Nat]
        /\ runs \in [Task -> Nat]
    BY DEF Init, StageName
  <2>4. /\ pc \in [Worker -> PCName]
        /\ task \in [Worker -> Task \cup {None}]
        /\ stole \in [Worker -> BOOLEAN]
    BY DEF Init, PCName
  <2>5. /\ j \in [Worker -> 1 .. threadNum]
        /\ stopping \in 0 .. threadNum
    BY <2>1 DEF Init
  <2>6. dtor \in {"alive", "request", "release", "join", "returned"} /\ allStale \in BOOLEAN
    BY DEF Init
  <2> QED BY <2>2, <2>3, <2>4, <2>5, <2>6 DEF TypeOK
<1>2. LoopsInRange
  BY PoolAssumption DEF Init, LoopsInRange
<1>3. \A i \in Worker : Members(mQueues[i]) = {} /\ NoRepeats(mQueues[i])
  BY DEF Init, Members, NoRepeats
<1>4. Placed
  BY <1>3 DEF Init, Placed, QueuesOK, HeldOK, NothingLost, Pushed
<1>5. Counted = {}
  BY DEF Init, Counted
<1>6. PendingIsExact
  BY <1>5, FS_EmptySet DEF Init, PendingIsExact
<1>7. OwnerIsAwake
  BY <1>3 DEF OwnerIsAwake
<1> QED BY <1>1, <1>2, <1>4, <1>6, <1>7 DEF IInv, Placed

\* mCount++ and the counting of the task: it is not yet in any queue.
LEMMA CallStep ==
  ASSUME IInv, NEW t \in Task, loadCount(t) \/ storeCount(t) \/ addPending(t)
  PROVE  IInv'
<1>1. /\ mQueues' = mQueues /\ signal' = signal
      /\ UNCHANGED <<pc, task, stole, j, runs, stopping, dtor, allStale>>
  BY DEF loadCount, storeCount, addPending, queueVars, workVars, dtorVars
<1>2. /\ ~Pushed(t)
      /\ stage[t] \in {"new", "store", "add"}
      /\ stage'[t] \in {"store", "add", "push"}
      /\ \A u \in Task \ {t} : stage'[u] = stage[u] /\ slot'[u] = slot[u]
      /\ stage' \in [Task -> StageName]
  BY DEF IInv, TypeOK, loadCount, storeCount, addPending, Stage, Pushed, StageName
<1>3. mCount' \in Nat /\ slot' \in [Task -> Nat]
  <2>1. mCount \in Nat /\ slot \in [Task -> Nat] /\ slot[t] + 1 \in Nat
    BY DEF IInv, TypeOK
  <2> QED BY <2>1 DEF loadCount, storeCount, addPending
<1>4. \A u \in Task : Pushed(u)' <=> Pushed(u)
  BY <1>2 DEF Pushed
<1>5. \A u \in Task : Pushed(u) => index(u)' = index(u)
  BY <1>2 DEF index
<1>6. Placed'
  BY <1>1, <1>4, <1>5, PlacedFrame DEF IInv, Placed
<1>7. PendingIsExact' /\ mPendingTasks' \in Nat
  <2>1. IsFiniteSet(Counted)
    BY PoolAssumption, FS_Subset DEF Counted
  <2>2. CASE addPending(t)
    <3>1. runs[t] = 0
      BY <1>2 DEF IInv, NothingLost
    <3>2. t \notin Counted /\ stage'[t] = "push" /\ mPendingTasks' = mPendingTasks + 1
      BY <2>2 DEF IInv, TypeOK, addPending, Stage, Counted
    <3>3. Counted' = Counted \cup {t}
      BY <1>1, <1>2, <3>1, <3>2 DEF Counted
    <3>4. Cardinality(Counted') = Cardinality(Counted) + 1
      BY <2>1, <3>2, <3>3, FS_AddElement
    <3> QED BY <3>2, <3>4 DEF IInv, TypeOK, PendingIsExact
  <2>3. CASE loadCount(t) \/ storeCount(t)
    <3>1. mPendingTasks' = mPendingTasks /\ stage'[t] \in {"store", "add"}
      BY <2>3 DEF IInv, TypeOK, loadCount, storeCount, Stage, queueVars
    <3>2. Counted' = Counted
      BY <1>1, <1>2, <3>1 DEF Counted
    <3> QED BY <3>1, <3>2 DEF IInv, TypeOK, PendingIsExact
  <2> QED BY <2>2, <2>3
<1>8. TypeOK'
  BY <1>1, <1>2, <1>3, <1>7 DEF IInv, TypeOK
<1>9. LoopsInRange'
  BY <1>1 DEF IInv, LoopsInRange
<1>10. OwnerIsAwake'
  <2>1. \A i \in Worker : Members(mQueues[i]) \subseteq Task
    BY DEF IInv, TypeOK, Members
  <2> QED BY <1>1, <1>2, <2>1 DEF IInv, OwnerIsAwake
<1> QED BY <1>6, <1>7, <1>8, <1>9, <1>10 DEF IInv, Placed

\* mQueues[i].tasks.push(t): the task was in no place, and is now in its queue.
LEMMA PushStep == ASSUME IInv, NEW t \in Task, pushTask(t) PROVE IInv'
<1> DEFINE i == index(t)
<1>1. /\ i \in Worker
      /\ mQueues[i] \in Seq(Task)
      /\ mQueues' = [mQueues EXCEPT ![i] = push(mQueues[i], t)]
      /\ stage' = [stage EXCEPT ![t] = "release"]
      /\ stage[t] = "push"
      /\ UNCHANGED <<signal, mPendingTasks, mCount, slot, pc, task, stole, j, runs,
                     stopping, dtor, allStale>>
  BY IndexInRange DEF IInv, TypeOK, pushTask, Stage, workVars, dtorVars
<1>2. ~Pushed(t) /\ Pushed(t)' /\ runs[t] = 0
  BY <1>1 DEF IInv, TypeOK, NothingLost, Pushed
<1>3. \A u \in Task \ {t} : stage'[u] = stage[u] /\ (Pushed(u)' <=> Pushed(u))
  BY <1>1 DEF IInv, TypeOK, Pushed
<1>4. \A u \in Task : index(u)' = index(u)
  BY <1>1 DEF index
<1>5. \A k \in Worker : t \notin Members(mQueues[k]) /\ Members(mQueues[k]) \subseteq Task
  BY <1>2 DEF IInv, TypeOK, QueuesOK, Members
<1>6. /\ push(mQueues[i], t) \in Seq(Task)
      /\ Members(push(mQueues[i], t)) = Members(mQueues[i]) \cup {t}
      /\ NoRepeats(push(mQueues[i], t))
  BY <1>1, <1>5, PushMembers DEF IInv, QueuesOK
<1>7. /\ mQueues' \in [Worker -> Seq(Task)]
      /\ mQueues'[i] = push(mQueues[i], t)
      /\ \A k \in Worker \ {i} : mQueues'[k] = mQueues[k]
  BY <1>1, <1>6 DEF IInv, TypeOK
<1> HIDE DEF i
<1>8. /\ Members(mQueues'[i]) = Members(mQueues[i]) \cup {t}
      /\ NoRepeats(mQueues'[i])
      /\ \A k \in Worker \ {i} : Members(mQueues'[k]) = Members(mQueues[k])
  BY <1>6, <1>7
<1>9. i = index(t)
  BY DEF i
<1>10. QueuesOK'
  <2>1. ASSUME NEW k \in Worker PROVE NoRepeats(mQueues'[k])
    BY <1>7, <1>8 DEF IInv, QueuesOK
  <2>2. ASSUME NEW k \in Worker, NEW u \in Members(mQueues'[k])
        PROVE  Pushed(u)' /\ runs'[u] = 0 /\ index(u)' = k
    BY <1>1, <1>2, <1>3, <1>4, <1>5, <1>8, <1>9 DEF IInv, QueuesOK
  <2> QED BY <2>1, <2>2 DEF QueuesOK
<1>11. HeldOK'
  <2>1. ASSUME NEW w \in Worker, pc[w] = "sub"
        PROVE  /\ task[w] \in Task \ {t}
               /\ Pushed(task[w])'
               /\ runs[task[w]] = 0
               /\ \A k \in Worker : task[w] \notin Members(mQueues'[k])
               /\ \A v \in Worker : pc[v] = "sub" /\ task[v] = task[w] => v = w
    <3>1. task[w] \in Task \ {t}
      BY <1>2, <2>1 DEF IInv, HeldOK
    <3>2. \A k \in Worker : task[w] \notin Members(mQueues'[k])
      BY <1>8, <2>1, <3>1 DEF IInv, HeldOK
    <3>3. Pushed(task[w])'
      BY <1>1, <2>1, <3>1 DEF IInv, TypeOK, HeldOK, Pushed
    <3> QED BY <2>1, <3>1, <3>2, <3>3 DEF IInv, HeldOK
  <2> QED BY <1>1, <2>1 DEF HeldOK, Pushed
<1>12. NothingLost'
  <2>1. ASSUME NEW u \in Task
        PROVE  /\ runs'[u] \in {0, 1}
               /\ runs'[u] = 1 => Pushed(u)'
               /\ Pushed(u)' => \/ runs'[u] = 1
                                \/ \E w \in Worker : pc'[w] = "sub" /\ task'[w] = u
                                \/ u \in Members(mQueues'[index(u)'])
    <3>1. index(u) \in Worker
      BY IndexInRange DEF IInv
    <3>2. CASE u = t
      BY <1>1, <1>2, <1>4, <1>8, <1>9, <3>2 DEF IInv, NothingLost
    <3>3. CASE u # t
      BY <1>1, <1>3, <1>4, <1>8, <3>1, <3>3 DEF IInv, NothingLost
    <3> QED BY <3>2, <3>3
  <2> QED BY <2>1 DEF NothingLost
<1>13. PendingIsExact'
  <2>1. Counted' = Counted
    BY <1>1, <1>3 DEF IInv, TypeOK, Counted
  <2> QED BY <1>1, <2>1 DEF IInv, PendingIsExact
<1>14. TypeOK'
  <2>1. stage' \in [Task -> StageName]
    BY <1>1 DEF IInv, TypeOK, StageName
  <2> QED BY <1>1, <1>7, <2>1 DEF IInv, TypeOK
<1>15. LoopsInRange'
  BY <1>1 DEF IInv, LoopsInRange
<1>16. OwnerIsAwake'
  <2>1. ASSUME NEW k \in Worker, NEW u \in Members(mQueues'[k]), stage'[u] = "submitted"
        PROVE  u \in Members(mQueues[k]) /\ stage[u] = "submitted"
    BY <1>1, <1>3, <1>5, <1>8, <2>1 DEF IInv, TypeOK
  <2> QED BY <1>1, <2>1 DEF IInv, OwnerIsAwake
<1> QED BY <1>10, <1>11, <1>12, <1>13, <1>14, <1>15, <1>16 DEF IInv

\* A release leaves the semaphore positive, whatever it does past its maximum.
LEMMA ReleaseRaises ==
  ASSUME TypeOK, NEW i \in Worker, release(i)
  PROVE  /\ signal' \in [Worker -> Nat]
         /\ signal'[i] > 0
         /\ \A k \in Worker \ {i} : signal'[k] = signal[k]
<1>1. PICK n \in {signal[i] + 1} \cup {m \in {1} : signal[i] > 0} :
        signal' = [signal EXCEPT ![i] = n]
  BY DEF release
<1>2. signal[i] \in Nat
  BY DEF TypeOK
<1>3. n \in Nat /\ n > 0
  BY <1>1, <1>2
<1> QED BY <1>1, <1>3 DEF TypeOK

\* mQueues[i].signal.release(): the task and the signal are in the same queue.
LEMMA SignalStep == ASSUME IInv, NEW t \in Task, signalOwner(t) PROVE IInv'
<1> DEFINE i == index(t)
<1>1. /\ i \in Worker
      /\ release(i)
      /\ stage' = [stage EXCEPT ![t] = "submitted"]
      /\ stage[t] = "release"
      /\ UNCHANGED <<mQueues, mPendingTasks, mCount, slot, pc, task, stole, j, runs,
                     stopping, dtor, allStale>>
  BY IndexInRange DEF IInv, signalOwner, Stage, workVars, dtorVars
<1>2. /\ signal' \in [Worker -> Nat]
      /\ signal'[i] > 0
      /\ \A k \in Worker \ {i} : signal'[k] = signal[k]
  BY <1>1, ReleaseRaises DEF IInv
<1>3. \A u \in Task : Pushed(u)' <=> Pushed(u)
  BY <1>1 DEF IInv, TypeOK, Pushed
<1>4. \A u \in Task : index(u)' = index(u)
  BY <1>1 DEF index
<1>5. Placed'
  BY <1>1, <1>3, <1>4, PlacedFrame DEF IInv, Placed
<1>6. PendingIsExact'
  <2>1. Counted' = Counted
    BY <1>1 DEF IInv, TypeOK, Counted
  <2> QED BY <1>1, <2>1 DEF IInv, PendingIsExact
<1>7. TypeOK'
  <2>1. stage' \in [Task -> StageName]
    BY <1>1 DEF IInv, TypeOK, StageName
  <2> QED BY <1>1, <1>2, <2>1 DEF IInv, TypeOK
<1>8. LoopsInRange'
  BY <1>1 DEF IInv, LoopsInRange
<1>9. OwnerIsAwake'
  <2>1. \A k \in Worker : t \in Members(mQueues[k]) => k = i
    BY DEF IInv, QueuesOK
  <2>2. \A k \in Worker : Members(mQueues[k]) \subseteq Task
    BY DEF IInv, TypeOK, Members
  <2>3. \A u \in Task \ {t} : stage'[u] = stage[u]
    BY <1>1 DEF IInv, TypeOK
  <2>4. ASSUME NEW k \in Worker, \E u \in Members(mQueues'[k]) : stage'[u] = "submitted"
        PROVE  \/ signal'[k] > 0
               \/ pc'[k] = "pop"
               \/ pc'[k] \in {"sub", "invoke"} /\ ~stole'[k]
               \/ pc'[k] = "exited"
    <3>1. CASE k = i
      BY <1>2, <3>1
    <3>2. CASE k # i
      BY <1>1, <1>2, <2>1, <2>2, <2>3, <2>4, <3>2 DEF IInv, OwnerIsAwake
    <3> QED BY <3>1, <3>2
  <2> QED BY <2>4 DEF OwnerIsAwake
<1> QED BY <1>5, <1>6, <1>7, <1>8, <1>9 DEF IInv, Placed

\* What pop() and steal() have in common: one task leaves the queue of worker v,
\* leaving rest behind, and is then with worker w.
LEMMA TakeStep ==
  ASSUME IInv, NEW w \in Worker, NEW v \in Worker, NEW t, NEW rest \in Seq(Task),
         pc[w] = "steal" \/ (pc[w] = "pop" /\ v = w),
         t \in Members(mQueues[v]),
         Members(rest) = Members(mQueues[v]) \ {t},
         NoRepeats(rest),
         mQueues' = [mQueues EXCEPT ![v] = rest],
         Take(w, t, v),
         UNCHANGED <<j, signal, mPendingTasks, callVars, runs, dtorVars>>
  PROVE  IInv'
<1>1. UNCHANGED <<mCount, stage, slot, stopping, dtor, allStale>>
  BY DEF callVars, dtorVars
<1>2. t \in Task /\ Pushed(t) /\ runs[t] = 0 /\ index(t) = v
  BY DEF IInv, TypeOK, QueuesOK, Members
<1>3. /\ mQueues' \in [Worker -> Seq(Task)]
      /\ mQueues'[v] = rest
      /\ \A k \in Worker \ {v} : mQueues'[k] = mQueues[k]
  BY DEF IInv, TypeOK
<1>4. /\ Members(mQueues'[v]) = Members(mQueues[v]) \ {t}
      /\ NoRepeats(mQueues'[v])
      /\ \A k \in Worker \ {v} : Members(mQueues'[k]) = Members(mQueues[k])
  BY <1>3
<1>5. \A k \in Worker : t \notin Members(mQueues'[k])
  <2>1. \A k \in Worker \ {v} : t \notin Members(mQueues[k])
    BY <1>2 DEF IInv, QueuesOK
  <2> QED BY <1>4, <2>1
<1>6. \A k \in Worker : Members(mQueues'[k]) \subseteq Members(mQueues[k])
  BY <1>4
<1>7. /\ task'[w] = t /\ pc'[w] = "sub" /\ stole'[w] = (v # w)
      /\ \A x \in Worker \ {w} : task'[x] = task[x] /\ pc'[x] = pc[x] /\ stole'[x] = stole[x]
  BY DEF Take, Goto, IInv, TypeOK
<1>8. QueuesOK'
  <2>1. \A k \in Worker : NoRepeats(mQueues'[k])
    BY <1>3, <1>4 DEF IInv, QueuesOK
  <2>2. \A u : (Pushed(u)' <=> Pushed(u)) /\ index(u)' = index(u)
    BY <1>1 DEF Pushed, index
  <2> QED BY <1>6, <2>1, <2>2 DEF IInv, QueuesOK
<1>9. HeldOK'
  <2>1. ASSUME NEW x \in Worker, pc'[x] = "sub"
        PROVE  /\ task'[x] \in Task
               /\ stage[task'[x]] \in {"release", "submitted"}
               /\ runs[task'[x]] = 0
               /\ \A k \in Worker : task'[x] \notin Members(mQueues'[k])
               /\ \A y \in Worker : pc'[y] = "sub" /\ task'[y] = task'[x] => y = x
    <3>1. \A y \in Worker \ {w} : pc[y] = "sub" => task[y] # t
      BY DEF IInv, HeldOK
    <3>2. CASE x = w
      BY <1>2, <1>5, <1>7, <3>1, <3>2 DEF Pushed
    <3>3. CASE x # w
      BY <1>6, <1>7, <2>1, <3>1, <3>3 DEF IInv, HeldOK, Pushed
    <3> QED BY <3>2, <3>3
  <2> QED BY <1>1, <2>1 DEF HeldOK, Pushed
<1>10. NothingLost'
  <2>1. ASSUME NEW u \in Task
        PROVE  /\ runs[u] \in {0, 1}
               /\ runs[u] = 1 => Pushed(u)
               /\ Pushed(u) => \/ runs[u] = 1
                               \/ \E x \in Worker : pc'[x] = "sub" /\ task'[x] = u
                               \/ u \in Members(mQueues'[index(u)])
    <3>1. index(u) \in Worker
      BY IndexInRange DEF IInv
    <3>2. CASE u = t
      BY <1>2, <1>7, <3>2 DEF IInv, NothingLost
    <3>3. CASE u # t
      <4>1. u \in Members(mQueues[index(u)]) => u \in Members(mQueues'[index(u)])
        BY <1>4, <3>1, <3>3
      <4>2. \A x \in Worker : pc[x] = "sub" => pc'[x] = "sub" /\ task'[x] = task[x]
        BY <1>7
      <4> QED BY <4>1, <4>2 DEF IInv, NothingLost
    <3> QED BY <3>2, <3>3
  <2>2. \A u \in Task : (Pushed(u)' <=> Pushed(u)) /\ index(u)' = index(u)
    BY <1>1 DEF Pushed, index
  <2> QED BY <2>1, <2>2 DEF NothingLost
<1>11. PendingIsExact'
  BY <1>1 DEF IInv, PendingIsExact, Counted
<1>12. TypeOK'
  <2>1. task' \in [Worker -> Task \cup {None}] /\ pc' \in [Worker -> PCName]
    BY <1>2 DEF IInv, TypeOK, Take, Goto, PCName
  <2>2. stole' \in [Worker -> BOOLEAN]
    BY DEF IInv, TypeOK, Take
  <2> QED BY <1>1, <1>3, <2>1, <2>2 DEF IInv, TypeOK
<1>13. LoopsInRange'
  BY <1>1, <1>7 DEF IInv, LoopsInRange
<1>14. OwnerIsAwake'
  BY <1>1, <1>6, <1>7 DEF IInv, OwnerIsAwake
<1> QED BY <1>8, <1>9, <1>10, <1>11, <1>12, <1>13, <1>14 DEF IInv

\* A worker's step that takes no task and starts none disturbs types, its loop
\* variable and OwnerIsAwake only.
LEMMA IdleStep ==
  ASSUME IInv, NEW w \in Worker, NEW next \in PCName \ {"sub"},
         pc[w] # "sub",
         pc' = [pc EXCEPT ![w] = next],
         task' = task \/ task' = [task EXCEPT ![w] = None],
         UNCHANGED <<mQueues, mPendingTasks, callVars, stole, runs, dtorVars>>
  PROVE  /\ pc' \in [Worker -> PCName] /\ task' \in [Worker -> Task \cup {None}]
         /\ QueuesOK' /\ HeldOK' /\ NothingLost' /\ PendingIsExact'
         /\ stage' = stage
         /\ pc'[w] = next
         /\ \A x \in Worker \ {w} : pc'[x] = pc[x]
<1>1. UNCHANGED <<mCount, stage, slot, stopping, dtor, allStale>>
  BY DEF callVars, dtorVars
<1>2. /\ pc'[w] = next
      /\ \A x \in Worker \ {w} : pc'[x] = pc[x] /\ task'[x] = task[x]
      /\ pc' \in [Worker -> PCName]
      /\ task' \in [Worker -> Task \cup {None}]
  BY DEF IInv, TypeOK
<1>3. \A t \in Task : (Pushed(t)' <=> Pushed(t)) /\ index(t)' = index(t)
  BY <1>1 DEF Pushed, index
<1>4. Placed'
  BY <1>2, <1>3, PlacedFrame DEF IInv, Placed
<1>5. PendingIsExact'
  BY <1>1 DEF IInv, PendingIsExact, Counted
<1> QED BY <1>1, <1>2, <1>4, <1>5 DEF Placed

\* mQueues[id].signal.acquire(): the worker will look at its queue.
LEMMA AcquireStep == ASSUME IInv, NEW w \in Worker, acquire(w) PROVE IInv'
<1>1. /\ pc[w] = "acquire" /\ signal[w] > 0
      /\ signal' = [signal EXCEPT ![w] = @ - 1]
      /\ pc' = [pc EXCEPT ![w] = "pop"]
      /\ UNCHANGED <<mQueues, mPendingTasks, callVars, task, stole, j, runs, dtorVars>>
  BY DEF acquire, Goto
<1>2. /\ pc' \in [Worker -> PCName] /\ QueuesOK' /\ HeldOK' /\ NothingLost' /\ PendingIsExact'
      /\ stage' = stage /\ pc'[w] = "pop"
      /\ \A x \in Worker \ {w} : pc'[x] = pc[x]
  BY <1>1, IdleStep DEF PCName
<1>3. signal' \in [Worker -> Nat] /\ \A x \in Worker \ {w} : signal'[x] = signal[x]
  BY <1>1 DEF IInv, TypeOK
<1>4. TypeOK'
  BY <1>1, <1>2, <1>3 DEF IInv, TypeOK, callVars, dtorVars
<1>5. LoopsInRange'
  BY <1>1, <1>2 DEF IInv, LoopsInRange, dtorVars
<1>6. OwnerIsAwake'
  BY <1>1, <1>2, <1>3 DEF IInv, OwnerIsAwake
<1> QED BY <1>2, <1>4, <1>5, <1>6 DEF IInv

\* pop(): with the queue found empty the owner has nothing to be awake for.
LEMMA PopStep == ASSUME IInv, NEW w \in Worker, pop(w) PROVE IInv'
<1>1. pc[w] = "pop" /\ mQueues[w] \in Seq(Task) /\ NoRepeats(mQueues[w])
  BY DEF IInv, TypeOK, QueuesOK, pop
<1>2. CASE empty(mQueues[w])
  <2> DEFINE next == IF threadNum > 1 THEN "steal" ELSE "load"
  <2>1. /\ pc' = [pc EXCEPT ![w] = next]
        /\ j' = [j EXCEPT ![w] = 1]
        /\ UNCHANGED <<mQueues, signal, mPendingTasks, callVars, task, stole, runs, dtorVars>>
    BY <1>2 DEF pop, Goto
  <2>2. next \in PCName \ {"sub"}
    BY DEF PCName
  <2> HIDE DEF next
  <2>3. /\ pc' \in [Worker -> PCName] /\ QueuesOK' /\ HeldOK' /\ NothingLost' /\ PendingIsExact'
        /\ stage' = stage /\ pc'[w] = next
        /\ \A x \in Worker \ {w} : pc'[x] = pc[x]
    BY <1>1, <2>1, <2>2, IdleStep
  <2>4. j' \in [Worker -> 1 .. threadNum] /\ j'[w] = 1 /\ \A x \in Worker \ {w} : j'[x] = j[x]
    BY <2>1, PoolAssumption DEF IInv, TypeOK
  <2>5. TypeOK'
    BY <2>1, <2>3, <2>4 DEF IInv, TypeOK, callVars, dtorVars
  <2>6. LoopsInRange'
    <3>1. next = "steal" => 1 < threadNum
      BY PoolAssumption DEF next
    <3> QED BY <2>1, <2>3, <2>4, <3>1 DEF IInv, LoopsInRange, dtorVars
  <2>7. OwnerIsAwake'
    <3>1. Members(mQueues[w]) = {}
      BY <1>2 DEF Members, empty
    <3> QED BY <2>1, <2>3, <3>1 DEF IInv, OwnerIsAwake
  <2> QED BY <2>3, <2>5, <2>6, <2>7 DEF IInv
<1>3. CASE ~empty(mQueues[w])
  BY <1>1, <1>3, PopMembers, TakeStep DEF pop
<1> QED BY <1>2, <1>3

\* steal(): what leaves the victim's queue leaves its owner less to be awake for.
LEMMA StealStep == ASSUME IInv, NEW w \in Worker, steal(w) PROVE IInv'
<1> DEFINE victim == (w + j[w]) % threadNum
<1>1. victim \in Worker
  BY PoolAssumption DEF IInv, TypeOK, Worker
<1>2. pc[w] = "steal" /\ mQueues[victim] \in Seq(Task) /\ NoRepeats(mQueues[victim])
  BY <1>1 DEF IInv, TypeOK, QueuesOK, steal
<1>3. CASE empty(mQueues[victim])
  <2> DEFINE next == IF j[w] + 1 < threadNum THEN "steal" ELSE "load"
  <2>1. /\ pc' = [pc EXCEPT ![w] = next]
        /\ j' = [j EXCEPT ![w] = @ + 1]
        /\ UNCHANGED <<mQueues, signal, mPendingTasks, callVars, task, stole, runs, dtorVars>>
    BY <1>3 DEF steal, Goto
  <2>2. next \in PCName \ {"sub"}
    BY DEF PCName
  <2>3. j[w] \in 1 .. threadNum /\ j[w] < threadNum /\ (next = "steal" => j[w] + 1 < threadNum)
    BY <1>2 DEF IInv, TypeOK, LoopsInRange
  <2> HIDE DEF next
  <2>4. /\ pc' \in [Worker -> PCName] /\ QueuesOK' /\ HeldOK' /\ NothingLost' /\ PendingIsExact'
        /\ stage' = stage /\ pc'[w] = next
        /\ \A x \in Worker \ {w} : pc'[x] = pc[x]
    BY <1>2, <2>1, <2>2, IdleStep
  <2>5. /\ j' \in [Worker -> 1 .. threadNum]
        /\ j'[w] = j[w] + 1
        /\ \A x \in Worker \ {w} : j'[x] = j[x]
    <3>1. j[w] + 1 \in 1 .. threadNum
      BY <2>3, PoolAssumption
    <3> QED BY <2>1, <3>1 DEF IInv, TypeOK
  <2>6. TypeOK'
    BY <2>1, <2>4, <2>5 DEF IInv, TypeOK, callVars, dtorVars
  <2>7. LoopsInRange'
    BY <2>1, <2>3, <2>4, <2>5 DEF IInv, LoopsInRange, dtorVars
  <2>8. OwnerIsAwake'
    BY <1>2, <2>1, <2>4 DEF IInv, OwnerIsAwake
  <2> QED BY <2>4, <2>6, <2>7, <2>8 DEF IInv
<1>4. CASE ~empty(mQueues[victim])
  <2>1. /\ mQueues' = [mQueues EXCEPT ![victim] = stolen(mQueues[victim])]
        /\ Take(w, back(mQueues[victim]), victim)
        /\ UNCHANGED <<j, signal, mPendingTasks, callVars, runs, dtorVars>>
    BY <1>4 DEF steal
  <2>2. /\ back(mQueues[victim]) \in Members(mQueues[victim])
        /\ stolen(mQueues[victim]) \in Seq(Task)
        /\ Members(stolen(mQueues[victim])) = Members(mQueues[victim]) \ {back(mQueues[victim])}
        /\ NoRepeats(stolen(mQueues[victim]))
    BY <1>2, <1>4, StealMembers
  <2> HIDE DEF victim
  <2> QED BY <1>1, <1>2, <2>1, <2>2, TakeStep
<1> QED BY <1>3, <1>4

\* mPendingTasks.fetch_sub and the invocation: the held task is counted no more.
LEMMA SubStep == ASSUME IInv, NEW w \in Worker, subPending(w) PROVE IInv'
<1> DEFINE t == task[w]
<1>1. /\ pc[w] = "sub"
      /\ mPendingTasks' = mPendingTasks - 1
      /\ runs' = [runs EXCEPT ![t] = @ + 1]
      /\ pc' = [pc EXCEPT ![w] = "invoke"]
      /\ UNCHANGED <<mQueues, signal, mCount, stage, slot, task, stole, j,
                     stopping, dtor, allStale>>
  BY DEF subPending, Goto, callVars, dtorVars
<1>2. /\ t \in Task /\ Pushed(t) /\ runs[t] = 0
      /\ \A i \in Worker : t \notin Members(mQueues[i])
      /\ \A v \in Worker : pc[v] = "sub" /\ task[v] = t => v = w
  BY <1>1 DEF IInv, HeldOK
<1> HIDE DEF t
<1>3. /\ runs' \in [Task -> Nat]
      /\ runs'[t] = 1
      /\ \A u \in Task \ {t} : runs'[u] = runs[u]
      /\ pc' \in [Worker -> PCName]
      /\ pc'[w] = "invoke"
      /\ \A x \in Worker \ {w} : pc'[x] = pc[x]
  <2>1. runs' \in [Task -> Nat] /\ runs'[t] = 1 /\ \A u \in Task \ {t} : runs'[u] = runs[u]
    BY <1>1, <1>2 DEF IInv, TypeOK
  <2> QED BY <1>1, <2>1 DEF IInv, TypeOK, PCName
<1>4. \A u \in Task : (Pushed(u)' <=> Pushed(u)) /\ index(u)' = index(u)
  BY <1>1 DEF Pushed, index
<1>5. \A i \in Worker : Members(mQueues[i]) \subseteq Task
  BY DEF IInv, TypeOK, Members
<1>6. QueuesOK'
  BY <1>1, <1>2, <1>3, <1>4, <1>5 DEF IInv, QueuesOK
<1>7. HeldOK'
  <2>1. ASSUME NEW x \in Worker, pc'[x] = "sub"
        PROVE  /\ task[x] \in Task
               /\ stage[task[x]] \in {"release", "submitted"}
               /\ runs'[task[x]] = 0
               /\ \A i \in Worker : task[x] \notin Members(mQueues[i])
               /\ \A v \in Worker : pc'[v] = "sub" /\ task[v] = task[x] => v = x
    <3>1. x # w /\ pc[x] = "sub"
      BY <1>3, <2>1
    <3>2. task[x] # t
      BY <1>2, <3>1
    <3>3. \A v \in Worker : pc'[v] = "sub" => pc[v] = "sub"
      BY <1>3
    <3> QED BY <1>3, <3>1, <3>2, <3>3 DEF IInv, HeldOK, Pushed
  <2> QED BY <1>1, <2>1 DEF HeldOK, Pushed
<1>8. NothingLost'
  <2>1. ASSUME NEW u \in Task
        PROVE  /\ runs'[u] \in {0, 1}
               /\ runs'[u] = 1 => Pushed(u)
               /\ Pushed(u) => \/ runs'[u] = 1
                               \/ \E x \in Worker : pc'[x] = "sub" /\ task[x] = u
                               \/ u \in Members(mQueues[index(u)])
    <3>1. CASE u = t
      BY <1>2, <1>3, <3>1
    <3>2. CASE u # t
      <4>1. \A x \in Worker : pc[x] = "sub" /\ task[x] = u => pc'[x] = "sub"
        BY <1>3, <3>2 DEF t
      <4> QED BY <1>3, <3>2, <4>1 DEF IInv, NothingLost
    <3> QED BY <3>1, <3>2
  <2> QED BY <1>1, <1>4, <2>1 DEF NothingLost
<1>9. PendingIsExact' /\ mPendingTasks' \in Nat
  <2>1. IsFiniteSet(Counted)
    BY PoolAssumption, FS_Subset DEF Counted
  <2>2. t \in Counted
    BY <1>2 DEF Counted, Pushed
  <2>3. Counted' = Counted \ {t}
    BY <1>1, <1>3 DEF Counted
  <2>4. Cardinality(Counted') = Cardinality(Counted) - 1
    BY <2>1, <2>2, <2>3, FS_RemoveElement
  <2>5. Cardinality(Counted') \in Nat
    BY <2>1, <2>3, FS_RemoveElement, FS_CardinalityType
  <2> QED BY <1>1, <2>4, <2>5 DEF IInv, PendingIsExact
<1>10. TypeOK'
  BY <1>1, <1>3, <1>9 DEF IInv, TypeOK
<1>11. LoopsInRange'
  BY <1>1, <1>3 DEF IInv, LoopsInRange
<1>12. OwnerIsAwake'
  BY <1>1, <1>3 DEF IInv, OwnerIsAwake
<1> QED BY <1>6, <1>7, <1>8, <1>9, <1>10, <1>11, <1>12 DEF IInv

\* The end of an invocation, the look at mPendingTasks and the look at the stop
\* token: none of them happens while the owner is in its pop loop, except a return
\* from a popped task, after which it pops again.
LEMMA LoopStep ==
  ASSUME IInv, NEW w \in Worker, invokeReturn(w) \/ loadPending(w) \/ stopCheck(w)
  PROVE  IInv'
<1>1. PICK next \in PCName \ {"sub", "steal"} :
        /\ pc' = [pc EXCEPT ![w] = next]
        /\ pc[w] = "invoke" /\ ~stole[w] => next = "pop"
        /\ pc[w] \notin {"sub", "pop", "exited"}
        /\ task' = task \/ task' = [task EXCEPT ![w] = None]
        /\ UNCHANGED <<mQueues, signal, mPendingTasks, callVars, stole, j, runs, dtorVars>>
  <2>1. CASE invokeReturn(w)
    BY <2>1 DEF invokeReturn, Goto, PCName, queueVars
  <2>2. CASE loadPending(w)
    BY <2>2 DEF loadPending, Goto, PCName, queueVars
  <2>3. CASE stopCheck(w)
    BY <2>3 DEF stopCheck, Goto, PCName, queueVars
  <2> QED BY <2>1, <2>2, <2>3
<1>2. /\ pc' \in [Worker -> PCName] /\ task' \in [Worker -> Task \cup {None}]
      /\ QueuesOK' /\ HeldOK' /\ NothingLost' /\ PendingIsExact'
      /\ stage' = stage /\ pc'[w] = next
      /\ \A x \in Worker \ {w} : pc'[x] = pc[x]
  BY <1>1, IdleStep
<1>3. TypeOK'
  BY <1>1, <1>2 DEF IInv, TypeOK, callVars, dtorVars
<1>4. LoopsInRange'
  BY <1>1, <1>2 DEF IInv, LoopsInRange, dtorVars
<1>5. OwnerIsAwake'
  BY <1>1, <1>2 DEF IInv, OwnerIsAwake
<1> QED BY <1>2, <1>3, <1>4, <1>5 DEF IInv

\* The destructor touches no queue; its releases only wake.
LEMMA DestructorStep == ASSUME IInv, destroy \/ Destructor PROVE IInv'
<1>1. /\ UNCHANGED <<mQueues, mPendingTasks, mCount, stage, slot, pc, task, stole, j, runs>>
      /\ allStale' \in BOOLEAN
  BY DEF destroy, Destructor, request_stop, dtorRelease, join, queueVars, callVars, workVars,
     IInv, TypeOK
<1>2. /\ stopping' \in 0 .. threadNum
      /\ dtor' \in {"alive", "request", "release", "join", "returned"}
      /\ dtor' # "returned" => stopping' < threadNum
  <2>1. CASE join
    <3>1. stopping < threadNum /\ stopping \in 0 .. threadNum
      BY <2>1 DEF IInv, TypeOK, LoopsInRange, join
    <3> QED BY <2>1, <3>1, PoolAssumption DEF join
  <2>2. CASE destroy \/ request_stop \/ dtorRelease
    BY <2>2 DEF destroy, request_stop, dtorRelease, IInv, TypeOK, LoopsInRange
  <2> QED BY <2>1, <2>2 DEF Destructor
<1>3. /\ signal' \in [Worker -> Nat]
      /\ \A i \in Worker : signal[i] > 0 => signal'[i] > 0
  <2>1. CASE dtorRelease
    <3>1. stopping \in Worker
      BY <2>1, PoolAssumption DEF dtorRelease, IInv, TypeOK, LoopsInRange, Worker
    <3> QED BY <2>1, <3>1, ReleaseRaises DEF dtorRelease, releaseStopped, IInv
  <2>2. CASE destroy \/ request_stop \/ join
    BY <2>2 DEF destroy, request_stop, join, queueVars, IInv, TypeOK
  <2> QED BY <2>1, <2>2 DEF Destructor
<1>4. Placed'
  <2>1. \A t \in Task : (Pushed(t)' <=> Pushed(t)) /\ index(t)' = index(t)
    BY <1>1 DEF Pushed, index
  <2> QED BY <1>1, <2>1, PlacedFrame DEF IInv, Placed
<1>5. PendingIsExact'
  BY <1>1 DEF IInv, PendingIsExact, Counted
<1>6. TypeOK'
  BY <1>1, <1>2, <1>3 DEF IInv, TypeOK
<1>7. LoopsInRange'
  BY <1>1, <1>2 DEF IInv, LoopsInRange
<1>8. OwnerIsAwake'
  BY <1>1, <1>3 DEF IInv, OwnerIsAwake
<1> QED BY <1>4, <1>5, <1>6, <1>7, <1>8 DEF IInv, Placed

-----------------------------------------------------------------------------
\* IInv holds in every reachable state of the pool, destroyed at any time or not.
THEOREM PoolInvariant == ShutdownSpec => []IInv
<1>1. IInv /\ [Next \/ destroy \/ Destructor]_vars => IInv'
  <2> SUFFICES ASSUME IInv, [Next \/ destroy \/ Destructor]_vars PROVE IInv'
    OBVIOUS
  <2>1. CASE UNCHANGED vars
    <3>1. UNCHANGED <<mQueues, signal, mPendingTasks, mCount, stage, slot, pc, task, stole,
                      j, runs, stopping, dtor, allStale>>
      BY <2>1 DEF vars, queueVars, callVars, workVars, dtorVars
    <3>2. Placed'
      <4>1. \A t \in Task : (Pushed(t)' <=> Pushed(t)) /\ index(t)' = index(t)
        BY <3>1 DEF Pushed, index
      <4> QED BY <3>1, <4>1, PlacedFrame DEF IInv, Placed
    <3>3. TypeOK' /\ LoopsInRange'
      BY <3>1 DEF IInv, TypeOK, LoopsInRange
    <3>4. PendingIsExact' /\ OwnerIsAwake'
      BY <3>1 DEF IInv, PendingIsExact, Counted, OwnerIsAwake
    <3> QED BY <3>2, <3>3, <3>4 DEF IInv, Placed
  <2>2. ASSUME NEW t \in Task, enqueue_task(t) PROVE IInv'
    BY <2>2, CallStep, PushStep, SignalStep DEF enqueue_task, InCall
  <2>3. ASSUME NEW w \in Worker, Work(w) PROVE IInv'
    BY <2>3, AcquireStep, PopStep, StealStep, SubStep, LoopStep DEF Work
  <2>4. CASE destroy \/ Destructor
    BY <2>4, DestructorStep
  <2> QED BY <2>1, <2>2, <2>3, <2>4 DEF Next
<1> QED BY <1>1, PoolInit, PTL DEF ShutdownSpec

\* The pool in use is the pool whose destructor never starts.
LEMMA InUse == Spec => ShutdownSpec
<1>1. [Next]_vars => [Next \/ destroy \/ Destructor]_vars
  OBVIOUS
<1> QED BY <1>1, PTL DEF Spec, ShutdownSpec

\* The places of a task, counted: IInv leaves it exactly one.
LEMMA OnePlace == IInv => ExactlyOnce
<1> SUFFICES ASSUME IInv, NEW t \in Task
             PROVE  Cardinality(QueuedAt(t)) + Cardinality(HeldBy(t)) + runs[t]
                      = IF Pushed(t) THEN 1 ELSE 0
  BY DEF ExactlyOnce
<1>1. \A x : x \in QueuedAt(t) <=>
        \E i \in Worker : \E p \in DOMAIN mQueues[i] : mQueues[i][p] = t /\ x = <<i, p>>
  BY DEF QueuedAt
<1>2. (\A i \in Worker : t \notin Members(mQueues[i])) => QueuedAt(t) = {}
  BY <1>1 DEF Members
<1>3. index(t) \in Worker
  BY IndexInRange DEF IInv
<1>4. runs[t] \in {0, 1}
  BY DEF IInv, NothingLost
<1>5. CASE ~Pushed(t)
  <2>1. QueuedAt(t) = {}
    BY <1>2, <1>5 DEF IInv, QueuesOK
  <2>2. HeldBy(t) = {}
    BY <1>5 DEF IInv, HeldOK, HeldBy
  <2>3. runs[t] = 0
    BY <1>4, <1>5 DEF IInv, NothingLost
  <2> QED BY <1>5, <2>1, <2>2, <2>3, FS_EmptySet
<1>6. CASE Pushed(t) /\ runs[t] = 1
  <2>1. QueuedAt(t) = {}
    BY <1>2, <1>6 DEF IInv, QueuesOK
  <2>2. HeldBy(t) = {}
    BY <1>6 DEF IInv, HeldOK, HeldBy
  <2> QED BY <1>6, <2>1, <2>2, FS_EmptySet
<1>7. ASSUME Pushed(t), runs[t] = 0, NEW w \in Worker, pc[w] = "sub", task[w] = t
      PROVE  Cardinality(QueuedAt(t)) + Cardinality(HeldBy(t)) + runs[t] = 1
  <2>1. QueuedAt(t) = {}
    BY <1>2, <1>7 DEF IInv, HeldOK
  <2>2. HeldBy(t) = {w}
    BY <1>7 DEF IInv, HeldOK, HeldBy
  <2>3. Cardinality(QueuedAt(t)) = 0 /\ Cardinality(HeldBy(t)) = 1
    BY <2>1, <2>2, FS_EmptySet, FS_Singleton
  <2> QED BY <1>7, <2>3
<1>8. ASSUME Pushed(t), runs[t] = 0, t \in Members(mQueues[index(t)])
      PROVE  Cardinality(QueuedAt(t)) + Cardinality(HeldBy(t)) + runs[t] = 1
  <2>1. PICK p \in DOMAIN mQueues[index(t)] : mQueues[index(t)][p] = t
    BY <1>8 DEF Members
  <2>2. \A i \in Worker : t \in Members(mQueues[i]) => i = index(t)
    BY DEF IInv, QueuesOK
  <2>3. \A r \in DOMAIN mQueues[index(t)] : mQueues[index(t)][r] = t => r = p
    BY <1>3, <2>1 DEF IInv, QueuesOK, NoRepeats
  <2>4. QueuedAt(t) = {<<index(t), p>>}
    <3>1. <<index(t), p>> \in QueuedAt(t)
      BY <1>1, <1>3, <2>1
    <3>2. ASSUME NEW x \in QueuedAt(t) PROVE x = <<index(t), p>>
      <4>1. PICK i \in Worker : \E r \in DOMAIN mQueues[i] : mQueues[i][r] = t /\ x = <<i, r>>
        BY <1>1
      <4>2. PICK r \in DOMAIN mQueues[i] : mQueues[i][r] = t /\ x = <<i, r>>
        BY <4>1
      <4>3. i = index(t)
        BY <2>2, <4>2 DEF Members
      <4> QED BY <2>3, <4>2, <4>3
    <3> QED BY <3>1, <3>2
  <2>5. HeldBy(t) = {}
    BY <1>3, <1>8 DEF IInv, HeldOK, HeldBy
  <2>6. Cardinality(QueuedAt(t)) = 1
    BY <2>4, FS_Singleton
  <2>7. Cardinality(HeldBy(t)) = 0
    BY <2>5, FS_EmptySet
  <2> QED BY <1>8, <2>6, <2>7
<1> QED BY <1>4, <1>5, <1>6, <1>7, <1>8 DEF IInv, NothingLost

\* Every task pushed to the pool is queued once, or with one worker, or invoked
\* once, and so it stays while the destructor runs.
THEOREM TasksRunOnce == ShutdownSpec => []ExactlyOnce
BY PoolInvariant, OnePlace, PTL

\* No task is lost, doubled or slept past, while the destructor runs as well.
THEOREM TasksStayAccountedFor == ShutdownSpec => []TasksAccountedFor
<1>1. IInv /\ ExactlyOnce => TasksAccountedFor
  BY DEF IInv, TasksAccountedFor
<1> QED BY <1>1, PoolInvariant, TasksRunOnce, PTL

\* mPendingTasks is exact: a worker that reads zero leaves nothing behind.
THEOREM PendingExact == Spec => []PendingIsExact
<1>1. IInv => PendingIsExact
  BY DEF IInv
<1> QED BY <1>1, InUse, PoolInvariant, PTL

\* The owner of a queue with a submitted task in it has a signal or is popping.
THEOREM OwnersAwake == Spec => []OwnerIsAwake
<1>1. IInv => OwnerIsAwake
  BY DEF IInv
<1> QED BY <1>1, InUse, PoolInvariant, PTL

\* Types, and mPendingTasks never drops below zero.
THEOREM PoolTyping == Spec => []TypeOK
<1>1. IInv => TypeOK
  BY DEF IInv
<1> QED BY <1>1, InUse, PoolInvariant, PTL

-----------------------------------------------------------------------------
(***************************************************************************)
(* The destructor                                                          *)
(***************************************************************************)
Looking == {"pop", "steal", "sub", "invoke", "load"}

\* What a step of a worker may do to its place in the loops: it goes back to sleep
\* only past a look that found nothing pending, and exits only when asked to.
LEMMA WorkMoves ==
  ASSUME IInv, NEW w \in Worker, Work(w)
  PROVE  /\ UNCHANGED <<stage, stopping, dtor, allStale>>
         /\ \A x \in Worker \ {w} : pc'[x] = pc[x] /\ task'[x] = task[x]
         /\ pc[w] # "exited"
         /\ pc'[w] = "exited" => pc[w] = "stop" /\ stop_requested(w)
         /\ pc'[w] = "stop" => pc[w] = "load" /\ mPendingTasks = 0 /\ runs' = runs
         /\ pc[w] # "stop" => pc'[w] \in Looking \cup {"stop"}
         /\ pc[w] = "invoke" =>
              \A t \in Task : Parent[t] = task[w] => stage[t] = "submitted"
         /\ \A t \in Task : runs'[t] = runs[t] \/ InvokedOn(w, t)'
<1>1. UNCHANGED <<stage, stopping, dtor, allStale>>
  BY DEF Work, acquire, pop, steal, subPending, invokeReturn, loadPending, stopCheck,
         callVars, dtorVars
<1>2. \A x \in Worker \ {w} : pc'[x] = pc[x] /\ task'[x] = task[x]
  BY DEF Work, acquire, pop, steal, subPending, invokeReturn, loadPending, stopCheck,
         Take, Goto, IInv, TypeOK
<1>3. CASE acquire(w)
  BY <1>1, <1>2, <1>3 DEF acquire, Goto, IInv, TypeOK, Looking
<1>4. CASE pop(w)
  BY <1>1, <1>2, <1>4 DEF pop, Take, Goto, IInv, TypeOK, Looking
<1>5. CASE steal(w)
  BY <1>1, <1>2, <1>5 DEF steal, Take, Goto, IInv, TypeOK, Looking
<1>6. CASE subPending(w)
  <2>1. /\ pc[w] = "sub" /\ pc'[w] = "invoke" /\ task' = task
        /\ runs' = [runs EXCEPT ![task[w]] = @ + 1]
    BY <1>6 DEF subPending, Goto, IInv, TypeOK
  <2>2. \A t \in Task : runs'[t] = runs[t] \/ t = task[w]
    BY <2>1 DEF IInv, TypeOK
  <2>3. \A t \in Task : runs'[t] = runs[t] \/ InvokedOn(w, t)'
    BY <2>1, <2>2 DEF InvokedOn
  <2> QED BY <1>1, <1>2, <2>1, <2>3 DEF Looking
<1>7. CASE invokeReturn(w)
  BY <1>1, <1>2, <1>7 DEF invokeReturn, Goto, IInv, TypeOK, Looking
<1>8. CASE loadPending(w)
  <2>1. /\ pc[w] = "load" /\ runs' = runs
        /\ pc'[w] = IF again THEN "pop" ELSE "stop"
    BY <1>8 DEF loadPending, Goto, IInv, TypeOK
  <2>2. ~again => mPendingTasks = 0
    BY DEF again, IInv, TypeOK
  <2> QED BY <1>1, <1>2, <2>1, <2>2 DEF Looking
<1>9. CASE stopCheck(w)
  BY <1>1, <1>2, <1>9 DEF stopCheck, Goto, IInv, TypeOK, Looking
<1> QED BY <1>3, <1>4, <1>5, <1>6, <1>7, <1>8, <1>9 DEF Work

\* A task that has been invoked stays so.
LEMMA SubNeverUndone ==
  ASSUME IInv, NEW w \in Worker, Work(w), NEW t \in Task, runs'[t] = 0
  PROVE  runs[t] = 0
<1>1. runs[t] \in {0, 1}
  BY DEF IInv, NothingLost
<1>2. CASE subPending(w)
  <2>1. runs' = [runs EXCEPT ![task[w]] = @ + 1] /\ pc[w] = "sub"
    BY <1>2 DEF subPending
  <2>2. runs'[t] = runs[t] \/ runs'[t] = runs[t] + 1
    BY <2>1 DEF IInv, TypeOK
  <2> QED BY <1>1, <2>2
<1>3. CASE runs' = runs
  BY <1>3
<1> QED BY <1>2, <1>3 DEF Work, acquire, pop, steal, invokeReturn, loadPending, stopCheck

\* While a submitted task has not been invoked, mPendingTasks is not zero.
LEMMA PendingSeen ==
  ASSUME IInv, NEW t \in Task, stage[t] = "submitted", runs[t] = 0
  PROVE  mPendingTasks # 0
<1>1. IsFiniteSet(Counted)
  BY PoolAssumption, FS_Subset DEF Counted
<1>2. Counted # {}
  BY DEF Counted
<1> QED BY <1>1, <1>2, FS_EmptySet DEF IInv, PendingIsExact

\* A worker's step leaves somebody to look at mPendingTasks while there is a task.
LEMMA WorkKeepsShutdown ==
  ASSUME IInv, ShutdownInv, NEW w \in Worker, Work(w)
  PROVE  ShutdownInv'
<1>1. ExitsOK'
  <2>1. dtor = "alive" => ~stop_requested(w)
    BY PoolAssumption DEF ShutdownInv, ExitsOK, stop_requested, Worker
  <2> QED BY <2>1, WorkMoves DEF ShutdownInv, ExitsOK
<1>2. CallsOK'
  <2>1. ASSUME NEW t \in Task, stage[t] \notin {"new", "submitted"}, Parent[t] # None
        PROVE  \E x \in Worker : pc'[x] = "invoke" /\ task'[x] = Parent[t]
    <3>1. PICK x \in Worker : pc[x] = "invoke" /\ task[x] = Parent[t]
      BY <2>1 DEF ShutdownInv, CallsOK, InvokedOn
    <3>2. x # w
      BY <2>1, <3>1, WorkMoves
    <3> QED BY <3>1, <3>2, WorkMoves
  <2> QED BY <2>1, WorkMoves DEF ShutdownInv, CallsOK, InvokedOn
<1>3. ASSUME NEW t \in Task, Parent[t] # None, runs'[Parent[t]] = 1, runs'[t] = 0
      PROVE  \E x \in Worker : \/ pc'[x] = "invoke" /\ task'[x] = Parent[t]
                               \/ stage[t] = "submitted" /\ pc'[x] \in Looking
  <2>1. Parent[t] \in Task
    BY <1>3, PoolAssumption
  <2>2. CASE InvokedOn(w, Parent[t])'
    BY <2>2 DEF InvokedOn
  <2>3. CASE ~InvokedOn(w, Parent[t])'
    <3>1. runs[Parent[t]] = 1
      BY <1>3, <2>1, <2>3, WorkMoves
    <3>2. runs[t] = 0
      BY <1>3, WorkMoves, SubNeverUndone
    <3>3. PICK x \in Worker : \/ pc[x] = "invoke" /\ task[x] = Parent[t]
                              \/ stage[t] = "submitted" /\ pc[x] \in Looking
      BY <1>3, <3>1, <3>2 DEF ShutdownInv, SomebodyLooks, InvokedOn, Looking
    <3>4. CASE x # w
      BY <3>3, <3>4, WorkMoves
    <3>5. CASE x = w
      <4>1. stage[t] = "submitted" /\ pc[w] \in Looking
        BY <3>3, <3>5, WorkMoves DEF Looking
      <4>2. pc'[w] # "stop"
        BY <3>2, <4>1, PendingSeen, WorkMoves
      <4>3. pc[w] # "stop"
        BY <4>1 DEF Looking
      <4> QED BY <4>1, <4>2, <4>3, WorkMoves
    <3> QED BY <3>4, <3>5
  <2> QED BY <2>2, <2>3
<1>4. ASSUME dtor # "alive", ~allStale, NEW t \in Task, stage[t] = "submitted", runs'[t] = 0
      PROVE  \E x \in Worker : pc'[x] \notin {"stop", "exited"}
  <2>1. runs[t] = 0
    BY <1>4, WorkMoves, SubNeverUndone
  <2>2. PICK x \in Worker : pc[x] \notin {"stop", "exited"}
    BY <1>4, <2>1 DEF ShutdownInv, SomebodyLooks
  <2>3. CASE x # w
    BY <2>2, <2>3, WorkMoves
  <2>4. CASE x = w
    <3>1. pc'[w] # "stop"
      BY <1>4, <2>1, PendingSeen, WorkMoves
    <3> QED BY <2>2, <2>4, <3>1, WorkMoves DEF Looking
  <2> QED BY <2>3, <2>4
<1>5. SomebodyLooks'
  BY <1>3, <1>4, WorkMoves DEF SomebodyLooks, InvokedOn, Looking
<1> QED BY <1>1, <1>2, <1>5 DEF ShutdownInv

\* A call of execute() moves no worker, and is made on a thread that is free to.
LEMMA CallMoves ==
  ASSUME IInv, ShutdownInv, NEW t \in Task, enqueue_task(t)
  PROVE  /\ UNCHANGED <<pc, task, runs, stopping, dtor, allStale>>
         /\ \A u \in Task \ {t} : stage'[u] = stage[u]
         /\ stage[t] # "submitted"
         /\ IF Parent[t] = None THEN dtor = "alive" ELSE \E w \in Worker : InvokedOn(w, Parent[t])
<1>1. UNCHANGED <<pc, task, runs, stopping, dtor, allStale>>
  BY DEF enqueue_task, InCall, loadCount, storeCount, addPending, pushTask, signalOwner,
         workVars, dtorVars
<1>2. \A u \in Task \ {t} : stage'[u] = stage[u]
  BY DEF enqueue_task, InCall, loadCount, storeCount, addPending, pushTask, signalOwner, Stage,
         IInv, TypeOK
<1>3. stage[t] # "submitted"
  BY DEF enqueue_task, InCall, loadCount, storeCount, addPending, pushTask, signalOwner
<1>4. CASE loadCount(t)
  BY <1>1, <1>2, <1>3, <1>4 DEF loadCount, MayCall, InvokedOn
<1>5. CASE InCall(t)
  <2>1. stage[t] \notin {"new", "submitted"}
    BY <1>5 DEF InCall, storeCount, addPending, pushTask, signalOwner
  <2> QED BY <1>1, <1>2, <1>3, <2>1 DEF ShutdownInv, CallsOK
<1> QED BY <1>4, <1>5 DEF enqueue_task

\* A call of execute() keeps its caller, and with it somebody who looks.
LEMMA CallKeepsShutdown ==
  ASSUME IInv, ShutdownInv, NEW t \in Task, enqueue_task(t)
  PROVE  ShutdownInv'
<1>1. ExitsOK'
  BY CallMoves DEF ShutdownInv, ExitsOK
<1>2. CallsOK'
  <2>1. ASSUME NEW u \in Task, stage'[u] \notin {"new", "submitted"}
        PROVE  IF Parent[u] = None THEN dtor = "alive"
               ELSE \E w \in Worker : pc[w] = "invoke" /\ task[w] = Parent[u]
    <3>1. CASE u = t
      BY <3>1, CallMoves DEF InvokedOn
    <3>2. CASE u # t
      BY <2>1, <3>2, CallMoves DEF ShutdownInv, CallsOK, InvokedOn
    <3> QED BY <3>1, <3>2
  <2> QED BY <2>1, CallMoves DEF CallsOK, InvokedOn
<1>3. ASSUME NEW u \in Task, Parent[u] # None, runs[Parent[u]] = 1, runs[u] = 0
      PROVE  \E x \in Worker : \/ pc[x] = "invoke" /\ task[x] = Parent[u]
                               \/ stage'[u] = "submitted" /\ pc[x] \in Looking
  <2>1. CASE u = t
    BY <1>3, <2>1, CallMoves DEF InvokedOn
  <2>2. CASE u # t
    BY <1>3, <2>2, CallMoves DEF ShutdownInv, SomebodyLooks, InvokedOn, Looking
  <2> QED BY <2>1, <2>2
<1>4. ASSUME dtor # "alive", ~allStale, NEW u \in Task, stage'[u] = "submitted", runs[u] = 0
      PROVE  \E x \in Worker : pc[x] \notin {"stop", "exited"}
  <2>1. CASE u = t
    <3>1. PICK x \in Worker : InvokedOn(x, Parent[t])
      BY <1>4, CallMoves
    <3> QED BY <3>1 DEF InvokedOn
  <2>2. CASE u # t
    BY <1>4, <2>2, CallMoves DEF ShutdownInv, SomebodyLooks
  <2> QED BY <2>1, <2>2
<1>5. SomebodyLooks'
  BY <1>3, <1>4, CallMoves DEF SomebodyLooks, InvokedOn, Looking
<1> QED BY <1>1, <1>2, <1>5 DEF ShutdownInv

\* The destructor starts when no user's call is in progress, and joins in order.
LEMMA DestructorKeepsShutdown ==
  ASSUME IInv, ShutdownInv, destroy \/ Destructor
  PROVE  ShutdownInv'
<1>1. UNCHANGED <<pc, task, runs, stage>>
  BY DEF destroy, Destructor, request_stop, dtorRelease, join, callVars, workVars
<1>2. ExitsOK'
  <2>1. CASE join
    <3>1. /\ pc[stopping] = "exited" /\ stopping' = stopping + 1
          /\ stopping < threadNum /\ stopping \in Nat /\ threadNum \in Nat
          /\ dtor' = IF stopping + 1 < threadNum THEN "request" ELSE "returned"
      BY <2>1, PoolAssumption DEF join, IInv, TypeOK, LoopsInRange
    <3>2. \A w \in Worker : w < stopping' => w < stopping \/ w = stopping
      BY <3>1 DEF Worker
    <3> QED BY <1>1, <3>1, <3>2 DEF ShutdownInv, ExitsOK
  <2>2. CASE destroy \/ request_stop \/ dtorRelease
    BY <1>1, <2>2 DEF destroy, request_stop, dtorRelease, ShutdownInv, ExitsOK
  <2> QED BY <2>1, <2>2 DEF Destructor
<1>3. CallsOK'
  <2>1. CASE destroy
    BY <1>1, <2>1 DEF destroy, ShutdownInv, CallsOK, InvokedOn
  <2>2. CASE Destructor
    <3>1. dtor # "alive"
      BY <2>2 DEF Destructor, request_stop, dtorRelease, join
    <3> QED BY <1>1, <3>1 DEF ShutdownInv, CallsOK, InvokedOn
  <2> QED BY <2>1, <2>2
<1>4. dtor' # "alive" /\ ~allStale' /\ (\E t \in Task : stage[t] = "submitted" /\ runs[t] = 0) =>
        \E w \in Worker : pc[w] \notin {"stop", "exited"}
  <2>1. CASE destroy
    <3>1. \A w \in Worker : pc[w] # "exited"
      BY <2>1 DEF destroy, ShutdownInv, ExitsOK
    <3> QED BY <2>1, <3>1 DEF destroy
  <2>2. CASE Destructor
    <3>1. dtor # "alive" /\ allStale' = allStale
      BY <2>2 DEF Destructor, request_stop, dtorRelease, join
    <3> QED BY <3>1 DEF ShutdownInv, SomebodyLooks
  <2> QED BY <2>1, <2>2
<1>5. SomebodyLooks'
  BY <1>1, <1>4 DEF ShutdownInv, SomebodyLooks, InvokedOn
<1> QED BY <1>2, <1>3, <1>5 DEF ShutdownInv

\* While a task is left to run, somebody looks, whatever the destructor has done.
THEOREM ShutdownInvariant == ShutdownSpec => []ShutdownInv
<1>1. Init => ShutdownInv
  <2> SUFFICES ASSUME Init PROVE ShutdownInv
    OBVIOUS
  <2>1. ExitsOK
    BY PoolAssumption DEF Init, ExitsOK, Worker
  <2>2. CallsOK
    BY DEF Init, CallsOK
  <2>3. \A t \in Task : Parent[t] # None => runs[Parent[t]] = 0
    BY PoolAssumption DEF Init
  <2>4. SomebodyLooks
    BY <2>3 DEF Init, SomebodyLooks
  <2> QED BY <2>1, <2>2, <2>4 DEF ShutdownInv
<1>2. IInv /\ ShutdownInv /\ [Next \/ destroy \/ Destructor]_vars => ShutdownInv'
  <2> SUFFICES ASSUME IInv, ShutdownInv, [Next \/ destroy \/ Destructor]_vars
               PROVE  ShutdownInv'
    OBVIOUS
  <2>1. CASE UNCHANGED vars
    BY <2>1 DEF vars, callVars, workVars, dtorVars, ShutdownInv, ExitsOK, CallsOK,
                SomebodyLooks, InvokedOn
  <2> QED BY <2>1, CallKeepsShutdown, WorkKeepsShutdown, DestructorKeepsShutdown DEF Next
<1> QED BY <1>1, <1>2, PoolInvariant, PTL DEF ShutdownSpec

\* When the destructor has returned every worker has exited, so nobody looks.
LEMMA ReturnedMeansExited ==
  ASSUME ShutdownInv, dtor = "returned" PROVE \A w \in Worker : pc[w] = "exited"
BY PoolAssumption DEF ShutdownInv, ExitsOK, Worker

\* The destructor leaves no task behind that was submitted by a task it ran.
THEOREM NestedTasksRun == ShutdownSpec => []NestedNeverLost
<1>1. IInv /\ ShutdownInv => NestedNeverLost
  <2> SUFFICES ASSUME IInv, ShutdownInv, dtor = "returned",
                      NEW t \in Task, Parent[t] # None, runs[Parent[t]] = 1
               PROVE  runs[t] = 1
    BY DEF NestedNeverLost
  <2>1. runs[t] \in {0, 1}
    BY DEF IInv, NothingLost
  <2>2. runs[t] # 0
    BY ReturnedMeansExited DEF ShutdownInv, SomebodyLooks, InvokedOn
  <2> QED BY <2>1, <2>2
<1> QED BY <1>1, PoolInvariant, ShutdownInvariant, PTL

\* The destructor leaves a submitted task behind only if every worker was past its
\* last look at mPendingTasks when it started.
THEOREM LeftBehindRarely == ShutdownSpec => []LeftBehindOnlyIfAllStale
<1>1. IInv /\ ShutdownInv => LeftBehindOnlyIfAllStale
  <2> SUFFICES ASSUME IInv, ShutdownInv, dtor = "returned", ~allStale,
                      NEW t \in Task, stage[t] = "submitted"
               PROVE  runs[t] = 1
    BY DEF LeftBehindOnlyIfAllStale
  <2>1. runs[t] \in {0, 1}
    BY DEF IInv, NothingLost
  <2>2. runs[t] # 0
    BY ReturnedMeansExited DEF ShutdownInv, SomebodyLooks
  <2> QED BY <2>1, <2>2
<1> QED BY <1>1, PoolInvariant, ShutdownInvariant, PTL
=============================================================================

----------------------------- MODULE SlabProofs -----------------------------
(***************************************************************************)
(* Proofs about Slab for every Value and every bound MaxLen.  For a slot   *)
(* never to be given out twice it is enough that head and links together   *)
(* name every entry at most once (FreeListOK); that none is forgotten      *)
(* needs the whole list, of which each call changes the head.              *)
(***************************************************************************)
EXTENDS Slab, FiniteSetTheorems, TLAPS

\* The inductive invariant: types, soundness of the vacant list, the count of
\* live values, no fault.
IInv == TypeOK /\ FreeListOK /\ LenCountsOccupied /\ NoFault

-----------------------------------------------------------------------------
\* Entries built by setOccupied and setVacant are entries, and the tag tells
\* the two alternatives of the variant apart.
LEMMA EntryFacts ==
  /\ \A v \in Value : Occupied(v) \in Entry /\ Occupied(v).tag = "occupied" /\ Occupied(v).data = v
  /\ \A n \in Nat : Vacant(n) \in Entry /\ Vacant(n).tag = "vacant" /\ Vacant(n).next = n
BY DEF Entry, Occupied, Vacant

\* Every key of the vector is occupied or vacant, never both; a vacant entry
\* holds an index and an occupied one a value.
LEMMA KeyFacts ==
  ASSUME TypeOK
  PROVE  /\ size \in Nat
         /\ Key = OccupiedKeys \cup VacantKeys
         /\ OccupiedKeys \cap VacantKeys = {}
         /\ \A k \in VacantKeys : k \in Nat /\ k < size /\ getNext(k) \in Nat
         /\ \A k \in OccupiedKeys : k \in Nat /\ k < size /\ getData(k) \in Value
<1>1. size \in Nat
  BY DEF TypeOK, size
<1>2. \A k \in Key : k \in Nat /\ k < size /\ At(k) \in Entry
  BY <1>1 DEF TypeOK, Key, size, At
<1>3. \A e \in Entry : \/ e.tag = "occupied" /\ e.data \in Value
                       \/ e.tag = "vacant" /\ e.next \in Nat
  BY DEF Entry
<1>4. QED
  BY <1>1, <1>2, <1>3 DEF OccupiedKeys, VacantKeys, getNext, getData

\* Every record of a call is a Result.
LEMMA CallFacts ==
  \A op \in Operation, k \in Nat, v \in Value \cup {None} : Call(op, k, v) \in Result
BY DEF Call, Result

\* insertAt at the head of a sound vacant list does not fault, keeps the list
\* sound, and turns exactly that key into an occupied entry.
LEMMA InsertAtHead ==
  ASSUME IInv, NEW v \in Value, insertAt(mNext, v)
  PROVE  /\ fault' = "none"
         /\ mEntries' \in Seq(Entry)
         /\ mNext' \in Nat
         /\ mLen' = mLen + 1
         /\ OccupiedKeys' = OccupiedKeys \cup {mNext}
         /\ mNext \notin OccupiedKeys
         /\ \A k \in OccupiedKeys : getData(k)' = getData(k)
         /\ mEntries'[mNext + 1] = Occupied(v)
         /\ VacantKeys' = VacantKeys \ {mNext}
         /\ \A k \in VacantKeys' : getNext(k)' = getNext(k)
         /\ \/ mNext = size /\ size' = size + 1 /\ mNext' = size'
            \/ mNext \in VacantKeys /\ size' = size /\ mNext' = getNext(mNext)
<1> USE KeyFacts, EntryFacts DEF IInv
<1>1. CASE mNext = size
  <2>1. mEntries' = Append(mEntries, Occupied(v)) /\ mNext' = size + 1 /\ mLen' = mLen + 1
    BY <1>1 DEF insertAt, headAfterInsert
  <2>2. /\ mEntries' \in Seq(Entry) /\ size' = size + 1
        /\ \A k \in Key : mEntries'[k + 1] = mEntries[k + 1]
        /\ mEntries'[size + 1] = Occupied(v)
    BY <2>1 DEF TypeOK, size, Key
  <2>3. Key' = Key \cup {size}
    BY <2>2 DEF Key
  <2>4. size \notin Key
    BY DEF Key
  <2>5. OccupiedKeys' = OccupiedKeys \cup {size} /\ VacantKeys' = VacantKeys
    BY <2>2, <2>3, <2>4 DEF OccupiedKeys, VacantKeys, At
  <2>6. fault' = "none"
    BY <1>1, <2>4 DEF insertAt, insertAtFault, OccupiedKeys, TypeOK
  <2>7. \A k \in Key : At(k)' = At(k)
    BY <2>2 DEF At
  <2>8. /\ \A k \in OccupiedKeys : getData(k)' = getData(k)
        /\ \A k \in VacantKeys : getNext(k)' = getNext(k)
    BY <2>7 DEF getData, getNext, OccupiedKeys, VacantKeys
  <2>9. size \notin OccupiedKeys /\ size \notin VacantKeys
    BY <2>4 DEF OccupiedKeys, VacantKeys
  <2>10. QED
    BY <1>1, <2>1, <2>2, <2>5, <2>6, <2>8, <2>9 DEF TypeOK
<1>2. CASE mNext \in VacantKeys
  <2>1. /\ mEntries' = [mEntries EXCEPT ![mNext + 1] = Occupied(v)]
        /\ mNext' = getNext(mNext) /\ mLen' = mLen + 1
    BY <1>2 DEF insertAt, headAfterInsert, TypeOK
  <2>2. mNext \in Key /\ mNext + 1 \in DOMAIN mEntries
    BY <1>2 DEF VacantKeys, Key, size, TypeOK
  <2>3. /\ mEntries' \in Seq(Entry) /\ size' = size
        /\ \A k \in Key : k # mNext => mEntries'[k + 1] = mEntries[k + 1]
        /\ mEntries'[mNext + 1] = Occupied(v)
    BY <2>1, <2>2 DEF TypeOK, size, Key
  <2>4. Key' = Key
    BY <2>3 DEF Key
  <2>5. OccupiedKeys' = OccupiedKeys \cup {mNext} /\ VacantKeys' = VacantKeys \ {mNext}
    BY <2>2, <2>3, <2>4 DEF OccupiedKeys, VacantKeys, At
  <2>6. fault' = "none"
    BY <1>2, <2>2 DEF insertAt, insertAtFault, Key, TypeOK
  <2>7. QED
    BY <1>2, <2>1, <2>2, <2>3, <2>5, <2>6 DEF TypeOK, getData, getNext, At, OccupiedKeys, VacantKeys
<1>3. QED
  BY <1>1, <1>2 DEF FreeListOK

\* After insertAt at the head, the vacant list is sound again.
LEMMA InsertAtKeepsFreeList ==
  ASSUME IInv, NEW v \in Value, insertAt(mNext, v), held' = None
  PROVE  FreeListOK'
<1> USE KeyFacts, InsertAtHead DEF IInv
<1>1. CASE mNext = size /\ size' = size + 1 /\ mNext' = size'
  <2>1. \A k \in VacantKeys' : k \in VacantKeys /\ getNext(k)' = getNext(k)
    OBVIOUS
  <2>2. VacantKeys' = VacantKeys
    <3>1. size \notin VacantKeys
      BY KeyFacts
    <3>2. VacantKeys' = VacantKeys \ {mNext}
      BY InsertAtHead
    <3>3. QED
      BY <1>1, <3>1, <3>2
  <2>3. \A k \in VacantKeys : getNext(k) \in VacantKeys
    BY <1>1 DEF FreeListOK
  <2>4. QED
    BY <1>1, <2>1, <2>2, <2>3 DEF FreeListOK
<1>2. CASE mNext \in VacantKeys /\ size' = size /\ mNext' = getNext(mNext)
  BY <1>2 DEF FreeListOK
<1>3. QED
  BY <1>1, <1>2

-----------------------------------------------------------------------------
\* A call that leaves vector, head and count alone keeps the invariant, if what it
\* returns is a Result and a VacantEntry it makes is for the head.
LEMMA SameVector ==
  ASSUME IInv, UNCHANGED <<mEntries, mLen, mNext, fault>>,
         held' \in {None, held, mNext}, ret' \in Result
  PROVE  IInv'
<1> USE DEF IInv
<1>1. TypeOK'
  BY DEF TypeOK
<1>2. FreeListOK'
  BY DEF FreeListOK, VacantKeys, Key, size, At, getNext
<1>3. LenCountsOccupied'
  BY DEF LenCountsOccupied, OccupiedKeys, Key, size, At
<1>4. QED
  BY <1>1, <1>2, <1>3 DEF NoFault

\* An empty vector has no keys.
LEMMA EmptyVector ==
  /\ mEntries = <<>> => size = 0 /\ OccupiedKeys = {} /\ VacantKeys = {}
  /\ (mEntries = <<>> => size = 0 /\ OccupiedKeys = {} /\ VacantKeys = {})'
BY DEF size, Key, OccupiedKeys, VacantKeys

\* The occupied keys are finitely many, and mLen is positive while there is one.
LEMMA OccupiedFinite ==
  ASSUME TypeOK
  PROVE  /\ IsFiniteSet(OccupiedKeys)
         /\ Cardinality(OccupiedKeys) \in Nat
         /\ OccupiedKeys # {} => Cardinality(OccupiedKeys) > 0
<1>1. IsFiniteSet(Key)
  BY KeyFacts, FS_Interval DEF Key
<1>2. IsFiniteSet(OccupiedKeys)
  BY <1>1, FS_Subset DEF OccupiedKeys
<1>3. QED
  BY <1>2, FS_CardinalityType, FS_EmptySet

\* tryRemove of an occupied key: that key, and no other, becomes vacant, at the head
\* of the vacant list.
LEMMA RemoveLinks ==
  ASSUME IInv, NEW k \in OccupiedKeys, tryRemove(k)
  PROVE  /\ mEntries' \in Seq(Entry) /\ size' = size
         /\ mNext' = k /\ mLen' = mLen - 1 /\ held' = None
         /\ OccupiedKeys' = OccupiedKeys \ {k}
         /\ VacantKeys' = VacantKeys \cup {k} /\ k \notin VacantKeys
         /\ \A j \in OccupiedKeys' : getData(j)' = getData(j)
         /\ \A j \in VacantKeys : getNext(j)' = getNext(j)
         /\ getNext(k)' = mNext
<1> USE KeyFacts, EntryFacts DEF IInv
<1>1. /\ mEntries' = [mEntries EXCEPT ![k + 1] = Vacant(mNext)]
      /\ mNext' = k /\ mLen' = mLen - 1 /\ held' = None
  BY DEF tryRemove, headAfterRemove, Ready
<1>2. k \in Key /\ k + 1 \in DOMAIN mEntries
  BY DEF OccupiedKeys, Key, size, TypeOK
<1>3. /\ mEntries' \in Seq(Entry) /\ size' = size
      /\ \A j \in Key : j # k => mEntries'[j + 1] = mEntries[j + 1]
      /\ mEntries'[k + 1] = Vacant(mNext)
  BY <1>1, <1>2 DEF TypeOK, size, Key
<1>4. Key' = Key
  BY <1>3 DEF Key
<1>5. OccupiedKeys' = OccupiedKeys \ {k} /\ VacantKeys' = VacantKeys \cup {k}
  BY <1>2, <1>3, <1>4 DEF OccupiedKeys, VacantKeys, At, TypeOK
<1>6. /\ \A j \in OccupiedKeys' : getData(j)' = getData(j)
      /\ \A j \in VacantKeys : getNext(j)' = getNext(j)
      /\ getNext(k)' = mNext
  BY <1>2, <1>3, <1>5 DEF getData, getNext, At, OccupiedKeys, VacantKeys, TypeOK
<1>7. k \notin VacantKeys
  OBVIOUS
<1>8. QED
  BY <1>1, <1>3, <1>5, <1>6, <1>7

\* The vacant list stays sound with the removed key at its head.
LEMMA RemoveOccupied ==
  ASSUME IInv, NEW k \in OccupiedKeys, tryRemove(k)
  PROVE  /\ mEntries' \in Seq(Entry)
         /\ mNext' = k
         /\ mLen' = mLen - 1
         /\ OccupiedKeys' = OccupiedKeys \ {k}
         /\ \A j \in OccupiedKeys' : getData(j)' = getData(j)
         /\ FreeListOK'
<1> USE KeyFacts DEF IInv
<1>1. k # size
  OBVIOUS
<1>2. FreeListOK'
  BY <1>1, RemoveLinks DEF FreeListOK
<1>3. QED
  BY <1>2, RemoveLinks

-----------------------------------------------------------------------------
\* A slab that has just been constructed is empty and sound.
LEMMA InitInv == Init => IInv
<1> SUFFICES ASSUME Init PROVE IInv
  OBVIOUS
<1>1. ret \in Result
  BY CallFacts DEF Init, Operation
<1>2. TypeOK
  BY <1>1 DEF Init, TypeOK
<1>3. QED
  BY <1>2, EmptyVector, FS_EmptySet DEF Init, IInv, FreeListOK, NoFault, LenCountsOccupied

\* insertAt at the head, by whichever call, restores the invariant.
LEMMA InsertInv ==
  ASSUME IInv, NEW v \in Value, insertAt(mNext, v), held' = None,
         ret' = Call("insert", mNext, v)
  PROVE  IInv'
<1> USE DEF IInv
<1>1. ret' \in Result
  BY CallFacts DEF Operation, TypeOK
<1>2. /\ fault' = "none" /\ mEntries' \in Seq(Entry) /\ mNext' \in Nat /\ mLen' = mLen + 1
      /\ OccupiedKeys' = OccupiedKeys \cup {mNext} /\ mNext \notin OccupiedKeys
  BY InsertAtHead
<1>3. TypeOK'
  BY <1>1, <1>2 DEF TypeOK
<1>4. LenCountsOccupied'
  BY <1>2, OccupiedFinite, FS_AddElement DEF LenCountsOccupied
<1>5. QED
  BY <1>2, <1>3, <1>4, InsertAtKeepsFreeList DEF NoFault

\* One case per call of the slab.
LEMMA NextInv == IInv /\ [Next]_vars => IInv'
<1> SUFFICES ASSUME IInv, [Next]_vars PROVE IInv'
  OBVIOUS
<1> USE SlabAssumption DEF IInv
<1>1. ASSUME NEW v \in Value, insert(v) PROVE IInv'
  BY <1>1, InsertInv DEF insert, Ready
<1>2. ASSUME NEW v \in Value, VacantEntryInsert(v) PROVE IInv'
  <2>1. held = mNext
    BY <1>2 DEF VacantEntryInsert, FreeListOK
  <2>2. QED
    BY <1>2, <2>1, InsertInv DEF VacantEntryInsert
<1>3. CASE vacantEntry
  <2>1. UNCHANGED <<mEntries, mLen, mNext, ret, fault>> /\ held' = mNext
    BY <1>3 DEF vacantEntry
  <2>2. QED
    BY <2>1, SameVector DEF TypeOK
<1>4. ASSUME NEW k \in 0 .. MaxLen, tryRemove(k) PROVE IInv'
  <2>1. ret' \in Result
    BY <1>4, CallFacts, KeyFacts DEF tryRemove, Operation, get
  <2>2. held = None /\ UNCHANGED <<held, fault>>
    BY <1>4 DEF tryRemove, Ready
  <2>3. CASE k \in OccupiedKeys
    <3>1. /\ mEntries' \in Seq(Entry) /\ mNext' = k /\ mLen' = mLen - 1
          /\ OccupiedKeys' = OccupiedKeys \ {k} /\ FreeListOK'
      BY <1>4, <2>3, RemoveOccupied
    <3>2. LenCountsOccupied'
      BY <2>3, <3>1, OccupiedFinite, FS_RemoveElement DEF LenCountsOccupied
    <3>3. mLen' \in Nat
      BY <2>3, <3>1, OccupiedFinite DEF LenCountsOccupied
    <3>4. QED
      BY <2>1, <2>2, <3>1, <3>2, <3>3 DEF TypeOK, NoFault
  <2>4. CASE k \notin OccupiedKeys
    <3>1. UNCHANGED <<mEntries, mLen, mNext>>
      BY <1>4, <2>4 DEF tryRemove
    <3>2. QED
      BY <2>1, <2>2, <3>1, SameVector
  <2>5. QED
    BY <2>3, <2>4
<1>5. ASSUME NEW k \in 0 .. MaxLen, Get(k) PROVE IInv'
  <2>1. ret' \in Result
    BY <1>5, CallFacts, KeyFacts DEF Get, Operation, get
  <2>2. UNCHANGED <<mEntries, mLen, mNext, held, fault>>
    BY <1>5 DEF Get
  <2>3. QED
    BY <2>1, <2>2, SameVector
<1>6. CASE clear
  <2>1. ret' \in Result
    BY <1>6, CallFacts DEF clear, Operation
  <2>2. /\ mEntries' = <<>> /\ mLen' = 0 /\ mNext' = 0 /\ held = None
        /\ UNCHANGED <<held, fault>>
    BY <1>6 DEF clear, Ready
  <2>3. QED
    <3>1. TypeOK'
      BY <2>1, <2>2 DEF TypeOK
    <3>2. FreeListOK' /\ LenCountsOccupied'
      BY <2>2, EmptyVector, FS_EmptySet DEF FreeListOK, LenCountsOccupied
    <3>3. QED
      BY <2>2, <3>1, <3>2 DEF NoFault
<1>7. CASE UNCHANGED vars
  BY <1>7, SameVector DEF vars, TypeOK
<1>8. QED
  BY <1>1, <1>2, <1>3, <1>4, <1>5, <1>6, <1>7 DEF Next

\* The invariant holds in every reachable state.
THEOREM Invariant == Spec => []IInv
BY InitInv, NextInv, PTL DEF Spec

\* Types: in particular mLen, a size_t, never drops below zero.
THEOREM Typing == Spec => []TypeOK
BY Invariant, PTL DEF IInv

\* insertAt never reaches its assert(0) and never indexes past the vector, for
\* any number of values and any history of calls.
THEOREM SlabNeverFaults == Spec => []NoFault
BY Invariant, PTL DEF IInv

\* len() counts the live values after any history of calls.
THEOREM LenIsExact == Spec => []LenCountsOccupied
BY Invariant, PTL DEF IInv

-----------------------------------------------------------------------------
(***************************************************************************)
(* No slot is leaked.  A call that fills or vacates an entry takes the     *)
(* head off the list or puts one in front of it; the rest is as it was.    *)
(***************************************************************************)
\* The vacant keys are finitely many.
LEMMA VacantFinite ==
  ASSUME TypeOK
  PROVE  IsFiniteSet(VacantKeys) /\ Cardinality(VacantKeys) \in Nat
<1>1. IsFiniteSet(Key)
  BY KeyFacts, FS_Interval DEF Key
<1>2. IsFiniteSet(VacantKeys)
  BY <1>1, FS_Subset DEF VacantKeys
<1> QED BY <1>2, FS_CardinalityType

\* Without a vacant entry the list is its end.
LEMMA NothingVacant ==
  ASSUME VacantKeys' = {}, mNext' = size', size' \in Nat
  PROVE  NoSlotLeaked'
<1>1. Cardinality(VacantKeys') = 0
  BY FS_EmptySet
<1>2. PICK s \in [0 .. 0 -> 0 .. size'] : s[0] = size'
  <2> DEFINE q == [i \in 0 .. 0 |-> size']
  <2>1. q \in [0 .. 0 -> 0 .. size'] /\ q[0] = size'
    OBVIOUS
  <2> HIDE DEF q
  <2> QED BY <2>1
<1>3. FollowsVacant(s, 0)'
  BY <1>2 DEF FollowsVacant
<1> QED BY <1>1, <1>2, <1>3 DEF NoSlotLeaked

\* insertAt at the head.
LEMMA InsertKeepsList ==
  ASSUME IInv, NoSlotLeaked, NEW v \in Value, insertAt(mNext, v)
  PROVE  NoSlotLeaked'
<1> USE KeyFacts DEF IInv
<1>1. PICK n \in Nat : n = Cardinality(VacantKeys)
  BY VacantFinite
<1>2. PICK s \in [0 .. n -> 0 .. size] : FollowsVacant(s, n)
  BY <1>1 DEF NoSlotLeaked
<1>3. /\ VacantKeys' = VacantKeys \ {mNext} /\ \A k \in VacantKeys' : getNext(k)' = getNext(k)
      /\ \/ mNext = size /\ size' = size + 1 /\ mNext' = size'
         \/ mNext \in VacantKeys /\ size' = size /\ mNext' = getNext(mNext)
  BY InsertAtHead
<1>4. CASE mNext = size /\ size' = size + 1 /\ mNext' = size'
  <2>1. n = 0
    BY <1>2, <1>4 DEF FollowsVacant
  <2>2. VacantKeys = {}
    BY <1>2, <2>1 DEF FollowsVacant
  <2> QED BY <1>3, <1>4, <2>2, NothingVacant
<1>5. CASE mNext \in VacantKeys /\ size' = size /\ mNext' = getNext(mNext)
  <2>1. n > 0
    BY <1>2, <1>5 DEF FollowsVacant
  <2>2. PICK m \in Nat : n = m + 1
    BY <2>1
  <2>3. PICK r \in [0 .. m -> 0 .. size] : \A i \in 0 .. m : r[i] = s[i + 1]
    <3>1. [i \in 0 .. m |-> s[i + 1]] \in [0 .. m -> 0 .. size]
      BY <1>2, <2>2
    <3> QED BY <3>1
  <2>4. Cardinality(VacantKeys') = m
    <3>1. Cardinality(VacantKeys') = Cardinality(VacantKeys) - 1
      BY <1>3, <1>5, VacantFinite, FS_RemoveElement
    <3>2. Cardinality(VacantKeys') = n - 1
      BY <1>1, <3>1
    <3>3. n - 1 = m
      BY <2>2
    <3> QED BY <3>2, <3>3
  <2>5. \A i \in 0 .. m - 1 : /\ s[i + 1] \in VacantKeys /\ s[i + 1] # mNext
                              /\ s[(i + 1) + 1] = getNext(s[i + 1])
    <3>1. \A i \in 0 .. n - 1 : s[i] \in VacantKeys /\ s[i + 1] = getNext(s[i])
      BY <1>2 DEF FollowsVacant
    <3>2. \A k \in VacantKeys : getNext(k) # mNext
      BY DEF FreeListOK
    <3>3. \A i \in 0 .. m - 1 : i \in 0 .. n - 1 /\ i + 1 \in 0 .. n - 1
      BY <2>2
    <3> QED BY <3>1, <3>2, <3>3
  <2>6. r[0] = mNext' /\ r[m] = size'
    BY <1>2, <1>5, <2>1, <2>2, <2>3 DEF FollowsVacant
  <2>7. ASSUME NEW i \in 0 .. m - 1 PROVE r[i] \in VacantKeys' /\ r[i + 1] = getNext(r[i])'
    <3>1. r[i] = s[i + 1] /\ r[i + 1] = s[(i + 1) + 1]
      BY <2>3
    <3>2. r[i] \in VacantKeys'
      BY <1>3, <2>5, <3>1
    <3> QED BY <1>3, <2>5, <3>1, <3>2
  <2>8. ASSUME NEW k \in VacantKeys' PROVE \E i \in 0 .. m - 1 : r[i] = k
    <3>1. k \in VacantKeys /\ k # mNext
      BY <1>3
    <3>2. PICK i \in 0 .. n - 1 : s[i] = k
      BY <1>2, <3>1 DEF FollowsVacant
    <3>3. i # 0
      BY <1>2, <3>1, <3>2 DEF FollowsVacant
    <3>4. i - 1 \in 0 .. m - 1 /\ (i - 1) + 1 = i
      BY <2>2, <3>3
    <3>5. r[i - 1] = s[i]
      BY <2>3, <3>4
    <3> QED BY <3>2, <3>4, <3>5
  <2>9. FollowsVacant(r, m)'
    BY <2>6, <2>7, <2>8 DEF FollowsVacant
  <2> QED BY <1>5, <2>3, <2>4, <2>9 DEF NoSlotLeaked
<1> QED BY <1>3, <1>4, <1>5

\* tryRemove of an occupied key.
LEMMA RemoveKeepsList ==
  ASSUME IInv, NoSlotLeaked, NEW k \in OccupiedKeys, tryRemove(k)
  PROVE  NoSlotLeaked'
<1> USE KeyFacts DEF IInv
<1>1. PICK n \in Nat : n = Cardinality(VacantKeys)
  BY VacantFinite
<1>2. PICK s \in [0 .. n -> 0 .. size] : FollowsVacant(s, n)
  BY <1>1 DEF NoSlotLeaked
<1>3. /\ mNext' = k /\ size' = size /\ VacantKeys' = VacantKeys \cup {k} /\ k \notin VacantKeys
      /\ getNext(k)' = mNext /\ \A j \in VacantKeys : getNext(j)' = getNext(j)
  BY RemoveLinks
<1>4. PICK r \in [0 .. n + 1 -> 0 .. size] : r[0] = k /\ \A i \in 0 .. n : r[i + 1] = s[i]
  <2> DEFINE q == [i \in 0 .. n + 1 |-> IF i = 0 THEN k ELSE s[i - 1]]
  <2>1. k \in 0 .. size /\ \A i \in 0 .. n + 1 : i # 0 => i - 1 \in 0 .. n
    OBVIOUS
  <2>2. \A i \in 0 .. n : i + 1 \in 0 .. n + 1 /\ i + 1 # 0 /\ (i + 1) - 1 = i
    OBVIOUS
  <2>3. q \in [0 .. n + 1 -> 0 .. size] /\ q[0] = k /\ \A i \in 0 .. n : q[i + 1] = s[i]
    BY <1>2, <2>1, <2>2
  <2> HIDE DEF q
  <2> QED BY <2>3
<1>5. Cardinality(VacantKeys') = n + 1
  <2>1. Cardinality(VacantKeys') = Cardinality(VacantKeys) + 1
    BY <1>3, VacantFinite, FS_AddElement
  <2> QED BY <1>1, <2>1
<1>6. r[n + 1] = size'
  BY <1>2, <1>3, <1>4 DEF FollowsVacant
<1>7. ASSUME NEW i \in 0 .. (n + 1) - 1
      PROVE  r[i] \in VacantKeys' /\ r[i + 1] = getNext(r[i])'
  <2>1. CASE i = 0
    BY <1>2, <1>3, <1>4, <2>1 DEF FollowsVacant
  <2>2. CASE i # 0
    <3>1. PICK j \in 0 .. n - 1 : i = j + 1
      <4>1. i - 1 \in 0 .. n - 1 /\ i = (i - 1) + 1
        BY <2>2
      <4> QED BY <4>1
    <3>2. r[i] = s[j] /\ r[i + 1] = s[j + 1]
      BY <1>4, <3>1
    <3> QED BY <1>2, <1>3, <3>2 DEF FollowsVacant
  <2> QED BY <2>1, <2>2
<1>8. ASSUME NEW j \in VacantKeys' PROVE \E i \in 0 .. (n + 1) - 1 : r[i] = j
  <2>1. CASE j = k
    BY <1>4, <2>1
  <2>2. CASE j \in VacantKeys
    <3>1. PICK i \in 0 .. n - 1 : s[i] = j
      BY <1>2, <2>2 DEF FollowsVacant
    <3>2. i + 1 \in 0 .. (n + 1) - 1 /\ r[i + 1] = j
      BY <1>4, <3>1
    <3> QED BY <3>2
  <2> QED BY <1>3, <2>1, <2>2
<1>9. FollowsVacant(r, n + 1)'
  BY <1>3, <1>4, <1>6, <1>7, <1>8 DEF FollowsVacant
<1> QED BY <1>3, <1>4, <1>5, <1>9 DEF NoSlotLeaked

\* A call that leaves vector and head alone leaves the list alone.
LEMMA SameList == NoSlotLeaked /\ UNCHANGED <<mEntries, mNext>> => NoSlotLeaked'
<1> SUFFICES ASSUME NoSlotLeaked, UNCHANGED <<mEntries, mNext>> PROVE NoSlotLeaked'
  OBVIOUS
<1>1. size' = size /\ VacantKeys' = VacantKeys /\ \A k : getNext(k)' = getNext(k)
  BY DEF size, VacantKeys, Key, At, getNext
<1>2. PICK n : n = Cardinality(VacantKeys)
  OBVIOUS
<1>3. PICK s \in [0 .. n -> 0 .. size] : FollowsVacant(s, n)
  BY <1>2 DEF NoSlotLeaked
<1>4. FollowsVacant(s, n)'
  BY <1>1, <1>3 DEF FollowsVacant
<1> QED BY <1>1, <1>2, <1>3, <1>4 DEF NoSlotLeaked

LEMMA NextKeepsList == IInv /\ NoSlotLeaked /\ [Next]_vars => NoSlotLeaked'
<1> SUFFICES ASSUME IInv, NoSlotLeaked, [Next]_vars PROVE NoSlotLeaked'
  OBVIOUS
<1>1. ASSUME NEW v \in Value, insert(v) PROVE NoSlotLeaked'
  BY <1>1, InsertKeepsList DEF insert
<1>2. ASSUME NEW v \in Value, VacantEntryInsert(v) PROVE NoSlotLeaked'
  <2>1. held = mNext
    BY <1>2 DEF VacantEntryInsert, IInv, FreeListOK
  <2> QED BY <1>2, <2>1, InsertKeepsList DEF VacantEntryInsert
<1>3. CASE vacantEntry
  BY <1>3, SameList DEF vacantEntry
<1>4. ASSUME NEW k \in 0 .. MaxLen, tryRemove(k) PROVE NoSlotLeaked'
  <2>1. CASE k \in OccupiedKeys
    BY <1>4, <2>1, RemoveKeepsList
  <2>2. CASE k \notin OccupiedKeys
    BY <1>4, <2>2, SameList DEF tryRemove
  <2> QED BY <2>1, <2>2
<1>5. ASSUME NEW k \in 0 .. MaxLen, Get(k) PROVE NoSlotLeaked'
  BY <1>5, SameList DEF Get
<1>6. CASE clear
  <2>1. mEntries' = <<>> /\ mNext' = 0
    BY <1>6 DEF clear
  <2> QED BY <2>1, EmptyVector, NothingVacant
<1>7. CASE UNCHANGED vars
  BY <1>7, SameList DEF vars
<1> QED BY <1>1, <1>2, <1>3, <1>4, <1>5, <1>6, <1>7 DEF Next

\* Following the vacant list from mNext meets every vacant entry, after any history of
\* calls: a removed slot is used again before the vector grows.
THEOREM SlabNoSlotLeaked == Spec => []NoSlotLeaked
<1>1. Init => NoSlotLeaked
  <2> SUFFICES ASSUME Init PROVE NoSlotLeaked
    OBVIOUS
  <2> DEFINE s == [i \in 0 .. 0 |-> 0]
  <2>1. size = 0 /\ VacantKeys = {} /\ mNext = 0
    BY EmptyVector DEF Init
  <2>2. Cardinality(VacantKeys) = 0
    BY <2>1, FS_EmptySet
  <2>3. s \in [0 .. 0 -> 0 .. size] /\ FollowsVacant(s, 0)
    BY <2>1 DEF FollowsVacant
  <2> QED BY <2>2, <2>3 DEF NoSlotLeaked
<1> QED BY <1>1, Invariant, NextKeepsList, PTL DEF Spec

-----------------------------------------------------------------------------
(***************************************************************************)
(* The slab implements SlabMap under the mapping of Slab!Map: the abstract *)
(* map binds each occupied key to the value its entry holds.               *)
(***************************************************************************)
\* The map the vector stands for.
AbsMap == [k \in OccupiedKeys |-> getData(k)]

\* A slab that has just been constructed is the empty map.
LEMMA InitMap == Init => Map!Init
BY EmptyVector DEF Init, Map!Init, Map!Call, Call

\* insertAt at the head binds a key that was free, and no other.
LEMMA InsertMap ==
  ASSUME IInv, NEW v \in Value, insertAt(mNext, v), ret' = Call("insert", mNext, v)
  PROVE  Map!Insert(v)
<1> USE DEF IInv
<1>1. ret'.key = mNext /\ ret' = Map!Call("insert", mNext, v)
  BY DEF Call, Map!Call
<1>2. mNext \in Nat \ OccupiedKeys
  BY InsertAtHead DEF TypeOK
<1>3. mEntries'[mNext + 1].data = v
  BY InsertAtHead, EntryFacts
<1>4. AbsMap' = [k \in OccupiedKeys \cup {mNext} |-> IF k = mNext THEN v ELSE AbsMap[k]]
  <2>1. AbsMap' = [k \in OccupiedKeys \cup {mNext} |-> mEntries'[k + 1].data]
    BY InsertAtHead DEF AbsMap, getData, At
  <2>2. \A k \in OccupiedKeys : mEntries'[k + 1].data = AbsMap[k]
    BY InsertAtHead DEF AbsMap, getData, At
  <2>3. QED
    BY <1>2, <1>3, <2>1, <2>2
<1>5. QED
  BY <1>1, <1>2, <1>4 DEF Map!Insert, AbsMap

\* Every step of the slab is a step of the map or changes neither map nor result.
LEMMA NextMap == IInv /\ [Next]_vars => [Map!Next]_(Map!mapVars)
<1> SUFFICES ASSUME IInv, [Next]_vars PROVE [Map!Next]_(Map!mapVars)
  OBVIOUS
<1> USE DEF IInv
<1>1. ASSUME NEW v \in Value, insert(v) PROVE Map!Next
  BY <1>1, InsertMap DEF insert, Map!Next
<1>2. ASSUME NEW v \in Value, VacantEntryInsert(v) PROVE Map!Next
  <2>1. held = mNext
    BY <1>2 DEF VacantEntryInsert, FreeListOK
  <2>2. QED
    BY <1>2, <2>1, InsertMap DEF VacantEntryInsert, Map!Next
<1>3. CASE vacantEntry
  BY <1>3 DEF vacantEntry, Map!mapVars, OccupiedKeys, Key, size, At, getData
<1>4. ASSUME NEW k \in 0 .. MaxLen, tryRemove(k) PROVE Map!Next
  <2>1. ret' = Map!Call("tryRemove", k, Map!Lookup(k)) /\ ret'.key = k
    BY <1>4 DEF tryRemove, Call, Map!Call, Map!Lookup, get
  <2>2. AbsMap' = [j \in OccupiedKeys \ {k} |-> AbsMap[j]]
    <3>1. CASE k \in OccupiedKeys
      <4>1. /\ OccupiedKeys' = OccupiedKeys \ {k}
            /\ \A j \in OccupiedKeys' : getData(j)' = getData(j)
        BY <1>4, <3>1, RemoveOccupied
      <4>2. QED
        BY <4>1 DEF AbsMap
    <3>2. CASE k \notin OccupiedKeys
      <4>1. UNCHANGED mEntries
        BY <1>4, <3>2 DEF tryRemove
      <4>2. AbsMap' = AbsMap
        BY <4>1 DEF AbsMap, OccupiedKeys, Key, size, At, getData
      <4>3. QED
        BY <3>2, <4>2 DEF AbsMap
    <3>3. QED
      BY <3>1, <3>2
  <2>3. QED
    BY <2>1, <2>2 DEF Map!Next, Map!TryRemove, AbsMap
<1>5. ASSUME NEW k \in 0 .. MaxLen, Get(k) PROVE Map!Next
  <2>1. ret' = Map!Call("get", k, Map!Lookup(k)) /\ ret'.key = k
    BY <1>5 DEF Get, Call, Map!Call, Map!Lookup, get
  <2>2. AbsMap' = AbsMap
    BY <1>5 DEF Get, AbsMap, OccupiedKeys, Key, size, At, getData
  <2>3. QED
    BY <2>1, <2>2 DEF Map!Next, Map!Get, AbsMap
<1>6. CASE clear
  <2>1. OccupiedKeys' = {}
    BY <1>6, EmptyVector DEF clear
  <2>2. QED
    BY <1>6, <2>1 DEF clear, Map!Next, Map!Clear, Map!Call, Call
<1>7. CASE UNCHANGED vars
  BY <1>7 DEF vars, Map!mapVars, OccupiedKeys, Key, size, At, getData
<1>8. QED
  BY <1>1, <1>2, <1>3, <1>4, <1>5, <1>6, <1>7 DEF Next

\* The vacant list never links one slot twice and never leaves the vector, so
\* insertAt never gives out a slot that is in use.
THEOREM FreeListIsSound == Spec => []FreeListOK
BY Invariant, PTL DEF IInv

\* The slab, whatever keys it reuses, is a finite map to its callers: insert binds
\* a free key, tryRemove unbinds one key, and each returns what the map says.
THEOREM SlabRefinesMap == Spec => RefinesMap
BY Invariant, InitMap, NextMap, PTL DEF Spec, RefinesMap, Map!Spec
=============================================================================

------------------------------- MODULE Slab -------------------------------
(***************************************************************************)
(* include/Async/Slab.hpp: a vector of entries, each either occupied by a  *)
(* value or vacant and holding the index of the next vacant one.  mNext is *)
(* the head of that list, and equals mEntries.size() when no entry is      *)
(* vacant.  Keys are vector indices, so they are reused after a removal.   *)
(***************************************************************************)
EXTENDS Integers, Sequences, FiniteSets

CONSTANTS Value,    \* what the slab stores (std::shared_ptr<Source> in the Reactor)
          None,     \* std::nullopt / nullptr
          MaxLen    \* bound on the number of live values

ASSUME SlabAssumption ==
  /\ None \notin Value
  /\ MaxLen \in Nat

VARIABLES mEntries,   \* std::vector<Entry<T>>; key k is mEntries[k + 1]
          mLen,
          mNext,
          held,       \* the key in a live VacantEntry, or None
          ret,        \* the last call and what it returned
          fault       \* "none", or why the program state is no longer defined

vars == <<mEntries, mLen, mNext, held, ret, fault>>

\* Entry<T> is a variant: setOccupied / setVacant build its alternatives.
Occupied(v) == [tag |-> "occupied", data |-> v]
Vacant(n)   == [tag |-> "vacant", next |-> n]
Entry       == [tag : {"occupied"}, data : Value] \cup [tag : {"vacant"}, next : Nat]

size            == Len(mEntries)
At(k)           == mEntries[k + 1]
Key             == 0 .. size - 1
OccupiedKeys    == {k \in Key : At(k).tag = "occupied"}
VacantKeys      == {k \in Key : At(k).tag = "vacant"}
getData(k)      == At(k).data
getNext(k)      == At(k).next

\* get / contains / getEntry: a key outside the vector holds nothing.
get(k)          == IF k \in OccupiedKeys THEN getData(k) ELSE None

Call(op, key, val) == [op |-> op, key |-> key, val |-> val]

(***************************************************************************)
(* insertAt(key, data).  mEntries[key] of a key past the end is undefined  *)
(* behaviour, and an occupied entry ends in assert(0).                     *)
(***************************************************************************)
insertAtFault(key) ==
  IF key > size THEN "outOfBounds"
  ELSE IF key \in OccupiedKeys THEN "assert"
  ELSE "none"

\* Mutant: filling a reused entry does not advance the head of the vacant list.
headAfterInsert_Keep(key) == IF key = size THEN key + 1 ELSE mNext

headAfterInsert(key) ==
  IF key = size THEN key + 1
  ELSE IF key \in VacantKeys THEN getNext(key)
  ELSE mNext

insertAt(key, v) ==
  /\ mLen' = mLen + 1
  /\ fault' = insertAtFault(key)
  /\ mEntries' = IF key = size THEN Append(mEntries, Occupied(v))
                 ELSE IF key \in VacantKeys THEN [mEntries EXCEPT ![key + 1] = Occupied(v)]
                 ELSE mEntries
  /\ mNext' = headAfterInsert(key)

Init ==
  /\ mEntries = <<>>
  /\ mLen = 0
  /\ mNext = 0
  /\ held = None
  /\ ret = Call("none", 0, None)
  /\ fault = "none"

\* A caller uses a VacantEntry before it calls the slab again, as the tests do.
Ready == fault = "none" /\ held = None

insert(v) ==
  /\ Ready
  /\ mLen < MaxLen
  /\ insertAt(mNext, v)
  /\ ret' = Call("insert", mNext, v)
  /\ UNCHANGED held

\* vacantEntry() remembers the head of the vacant list ...
vacantEntry ==
  /\ Ready
  /\ mLen < MaxLen
  /\ held' = mNext
  /\ UNCHANGED <<mEntries, mLen, mNext, ret, fault>>

\* ... and VacantEntry::insert fills that key.
VacantEntryInsert(v) ==
  /\ fault = "none"
  /\ held # None
  /\ insertAt(held, v)
  /\ held' = None
  /\ ret' = Call("insert", held, v)

\* Mutant: the removed entry is not put at the head of the vacant list.
headAfterRemove_NoLink(k) == mNext

headAfterRemove(k) == k

\* Mutant: mLen drops although the entry was already vacant.
tryRemove_EagerLen(k) ==
  /\ Ready
  /\ ret' = Call("tryRemove", k, get(k))
  /\ mLen' = mLen - 1
  /\ mEntries' = IF k \in OccupiedKeys THEN [mEntries EXCEPT ![k + 1] = Vacant(mNext)] ELSE mEntries
  /\ mNext' = IF k \in OccupiedKeys THEN headAfterRemove(k) ELSE mNext
  /\ UNCHANGED <<held, fault>>

tryRemove(k) ==
  /\ Ready
  /\ ret' = Call("tryRemove", k, get(k))
  /\ IF k \in OccupiedKeys
     THEN /\ mLen' = mLen - 1
          /\ mEntries' = [mEntries EXCEPT ![k + 1] = Vacant(mNext)]
          /\ mNext' = headAfterRemove(k)
     ELSE UNCHANGED <<mEntries, mLen, mNext>>
  /\ UNCHANGED <<held, fault>>

\* get asserts that the key is inside the vector; callers pass no other key.
Get(k) ==
  /\ Ready
  /\ k \in Key
  /\ ret' = Call("get", k, get(k))
  /\ UNCHANGED <<mEntries, mLen, mNext, held, fault>>

clear ==
  /\ Ready
  /\ mEntries' = <<>>
  /\ mLen' = 0
  /\ mNext' = 0
  /\ ret' = Call("clear", 0, None)
  /\ UNCHANGED <<held, fault>>

Next ==
  \/ \E v \in Value : insert(v) \/ VacantEntryInsert(v)
  \/ vacantEntry
  \/ \E k \in 0 .. MaxLen : tryRemove(k) \/ Get(k)
  \/ clear

Spec == Init /\ [][Next]_vars

-----------------------------------------------------------------------------
(***************************************************************************)
(* Maintenance calls.  Nothing in the repository calls them.               *)
(***************************************************************************)

\* shrinkToFit pops the trailing vacant entries and leaves the vacant list as
\* it is; back() of a vector with no occupied entry runs off its front.
shrinkToFit ==
  /\ Ready
  /\ IF OccupiedKeys = {}
     THEN /\ fault' = "outOfBounds"
          /\ UNCHANGED mEntries
     ELSE /\ \E last \in OccupiedKeys :
               /\ \A k \in OccupiedKeys : k <= last
               /\ mEntries' = SubSeq(mEntries, 1, last + 1)
          /\ UNCHANGED fault
  /\ ret' = Call("shrinkToFit", 0, None)
  /\ UNCHANGED <<mLen, mNext, held>>

\* The vacant keys the loop of recreateVacantList visits: it stops before 0.
Relinked == VacantKeys \ {0}

\* The smallest relinked key above k, or the end of the vector.
NextRelinked(k) ==
  CHOOSE n \in Relinked \cup {size} :
    /\ n > k
    /\ \A m \in Relinked : m > k => n <= m

recreateVacantList ==
  /\ Ready
  /\ mEntries' = [i \in 1 .. size |->
                    IF i - 1 \in Relinked THEN Vacant(NextRelinked(i - 1)) ELSE mEntries[i]]
  /\ mNext' = IF size = 0 THEN 0 ELSE NextRelinked(0)
  /\ ret' = Call("recreateVacantList", 0, None)
  /\ UNCHANGED <<mLen, held, fault>>

MaintenanceSpec == Init /\ [][Next \/ shrinkToFit \/ recreateVacantList]_vars

-----------------------------------------------------------------------------
(***************************************************************************)
(* Properties.                                                             *)
(***************************************************************************)
Operation == {"none", "insert", "tryRemove", "get", "clear", "shrinkToFit", "recreateVacantList"}
Result    == [op : Operation, key : Nat, val : Value \cup {None}]

\* Every variable holds a value of its C++ type.
TypeOK ==
  /\ mEntries \in Seq(Entry)
  /\ mLen \in Nat
  /\ mNext \in Nat
  /\ held \in Nat \cup {None}
  /\ ret \in Result
  /\ fault \in {"none", "assert", "outOfBounds"}

\* The vacant list is sound: its head is vacant or the end of the vector, links
\* stay inside it, and no entry is linked from two places or from itself, so
\* insertAt never gives out one slot twice.
FreeListOK ==
  /\ mNext \in VacantKeys \cup {size}
  /\ \A k \in VacantKeys : getNext(k) \in (VacantKeys \cup {size}) \ {mNext}
  /\ \A j, k \in VacantKeys : getNext(j) = getNext(k) => j = k
  /\ held # None => held = mNext

\* insertAt never reaches its assert(0) and never indexes past the vector, after
\* any sequence of inserts, removals (of stale keys too) and clears.
NoFault == fault = "none"

\* len() is the number of live values, so isEmpty() is right after any history.
LenCountsOccupied == mLen = Cardinality(OccupiedKeys)

\* s follows the vacant list from its head to the end of the vector in n links, and
\* meets every vacant entry.
FollowsVacant(s, n) ==
  /\ s[0] = mNext /\ s[n] = size
  /\ \A i \in 0 .. n - 1 : s[i] \in VacantKeys /\ s[i + 1] = getNext(s[i])
  /\ \A k \in VacantKeys : \E i \in 0 .. n - 1 : s[i] = k

\* No slot is leaked: following the list from mNext meets every vacant entry once and
\* then the end of the vector, so insert grows the vector only when it is full.
NoSlotLeaked ==
  LET n == Cardinality(VacantKeys)
  IN \E s \in [0 .. n -> 0 .. size] : FollowsVacant(s, n)

\* What the tests of the repository expect of every insert: the returned key is
\* inside the vector and reads back the value just stored.
InsertedValueReadable ==
  ret.op = "insert" => fault = "none" /\ get(ret.key) = ret.val

\* The slab behaves as a finite map, whatever keys its vacant list hands out:
\* each call returns what the map would, and changes the binding of one key.
Map == INSTANCE SlabMap WITH map <- [k \in OccupiedKeys |-> getData(k)]

RefinesMap == Map!Spec
=============================================================================

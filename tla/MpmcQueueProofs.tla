--------------------------- MODULE MpmcQueueProofs ---------------------------
(***************************************************************************)
(* How often a value is in a queue, and what push() and pop() do to that.  *)
(* The invariants that say a handle is in one place, and never in two,     *)
(* count it: those of CondVar and of Reactor rest on these lemmas.         *)
(***************************************************************************)
EXTENDS MpmcQueue, FiniteSets, FiniteSetTheorems, SequenceTheorems, TLAPS

Positions(q, y) == {i \in DOMAIN q : q[i] = y}

\* A queue is finite, and so are the places of a value in it.
LEMMA PositionsFinite ==
  ASSUME NEW S, NEW q \in Seq(S), NEW y
  PROVE  /\ IsFiniteSet(Positions(q, y))
         /\ Cardinality(Positions(q, y)) \in Nat
<1>1. Len(q) \in Nat /\ DOMAIN q = 1 .. Len(q)
  OBVIOUS
<1>2. IsFiniteSet(1 .. Len(q))
  BY <1>1, FS_Interval
<1>3. Positions(q, y) \in SUBSET (1 .. Len(q))
  BY <1>1 DEF Positions
<1> QED BY <1>2, <1>3, FS_Subset, FS_CardinalityType

\* The empty queue holds nothing.
LEMMA EmptyCounts == ASSUME NEW y PROVE Cardinality(Positions(<<>>, y)) = 0
BY FS_EmptySet DEF Positions

\* push() adds its argument once and nothing else.
LEMMA PushCounts ==
  ASSUME NEW S, NEW q \in Seq(S), NEW x \in S, NEW y
  PROVE  /\ push(q, x) \in Seq(S)
         /\ Cardinality(Positions(push(q, x), y)) =
              Cardinality(Positions(q, y)) + IF x = y THEN 1 ELSE 0
<1> DEFINE r == push(q, x)
           n == Len(q) + 1
<1>1. /\ r \in Seq(S)
      /\ Len(q) \in Nat
      /\ DOMAIN q = 1 .. Len(q)
      /\ DOMAIN r = 1 .. n
      /\ \A i \in 1 .. Len(q) : r[i] = q[i]
      /\ r[n] = x
      /\ n \notin DOMAIN q
  BY DEF push
<1> HIDE DEF r, n
<1>2. DOMAIN r = DOMAIN q \cup {n}
  BY <1>1 DEF n
<1>3. Positions(r, y) = IF x = y THEN Positions(q, y) \cup {n} ELSE Positions(q, y)
  BY <1>1, <1>2 DEF Positions
<1>4. n \notin Positions(q, y)
  BY <1>1 DEF Positions
<1>5. IsFiniteSet(Positions(q, y)) /\ Cardinality(Positions(q, y)) \in Nat
  BY PositionsFinite
<1>6. Cardinality(Positions(q, y) \cup {n}) = Cardinality(Positions(q, y)) + 1
  BY <1>4, <1>5, FS_AddElement
<1> QED BY <1>1, <1>3, <1>5, <1>6 DEF r

\* pop() takes away what it returns, once, and nothing else.
LEMMA PopCounts ==
  ASSUME NEW S, NEW q \in Seq(S), ~empty(q), NEW y
  PROVE  /\ front(q) \in S
         /\ popped(q) \in Seq(S)
         /\ Cardinality(Positions(popped(q), y)) =
              Cardinality(Positions(q, y)) - IF front(q) = y THEN 1 ELSE 0
<1> DEFINE r == popped(q)
           P == Positions(q, y) \ {1}
           next == [i \in Positions(r, y) |-> i + 1]
<1>1. /\ r \in Seq(S)
      /\ Len(q) \in Nat \ {0}
      /\ DOMAIN q = 1 .. Len(q)
      /\ DOMAIN r = 1 .. Len(q) - 1
      /\ \A i \in 1 .. Len(q) - 1 : r[i] = q[i + 1]
      /\ front(q) = q[1]
      /\ front(q) \in S
  BY DEF popped, front, empty
<1> HIDE DEF r
<1>2. /\ IsFiniteSet(Positions(q, y)) /\ Cardinality(Positions(q, y)) \in Nat
      /\ IsFiniteSet(Positions(r, y))
  BY <1>1, PositionsFinite
<1>3. Positions(r, y) \subseteq Nat
  BY <1>1 DEF Positions
<1>4. ASSUME NEW i \in Positions(r, y) PROVE i + 1 \in P
  BY <1>1, <1>4 DEF Positions
<1>5. ASSUME NEW k \in P PROVE k - 1 \in Positions(r, y) /\ k \in Nat
  BY <1>1, <1>5 DEF Positions
<1>6. next \in Bijection(Positions(r, y), P)
  <2> HIDE DEF P
  <2>1. next \in [Positions(r, y) -> P]
    BY <1>4
  <2>2. ASSUME NEW i \in Positions(r, y), NEW k \in Positions(r, y), next[i] = next[k] PROVE i = k
    BY <1>3, <2>2
  <2>3. ASSUME NEW k \in P PROVE \E i \in Positions(r, y) : next[i] = k
    BY <1>5, <2>3
  <2> HIDE DEF next
  <2> QED BY <2>1, <2>2, <2>3 DEF Bijection, Injection, Surjection, IsInjective
<1>7. Cardinality(P) = Cardinality(Positions(r, y))
  BY <1>2, <1>6, FS_Bijection DEF ExistsBijection
<1>8. Cardinality(P) = IF front(q) = y THEN Cardinality(Positions(q, y)) - 1
                                       ELSE Cardinality(Positions(q, y))
  <2>1. 1 \in Positions(q, y) <=> front(q) = y
    BY <1>1 DEF Positions
  <2> QED BY <1>2, <2>1, FS_RemoveElement
<1> QED BY <1>1, <1>2, <1>7, <1>8 DEF r
=============================================================================

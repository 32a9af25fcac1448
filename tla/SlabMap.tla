------------------------------ MODULE SlabMap ------------------------------
(***************************************************************************)
(* What a Slab promises its caller, with no vector and no free list: a     *)
(* finite map from keys to values in which insert picks an unused key.     *)
(* The Reactor relies on exactly this when it registers a Source under the *)
(* key that epoll will later report.                                       *)
(***************************************************************************)
EXTENDS Naturals

CONSTANTS Value,   \* what the slab stores
          None     \* std::nullopt / nullptr

VARIABLES map,     \* the live keys and what each holds
          ret      \* the last call and what it returned

mapVars == <<map, ret>>

Call(op, key, val) == [op |-> op, key |-> key, val |-> val]

Lookup(k) == IF k \in DOMAIN map THEN map[k] ELSE None

Init ==
  /\ map = [k \in {} |-> None]
  /\ ret = Call("none", 0, None)

\* insert returns a key that no live value uses, and binds exactly that key.
Insert(v) ==
  LET key == ret'.key IN
  /\ ret' = Call("insert", key, v)
  /\ key \in Nat \ DOMAIN map
  /\ map' = [k \in DOMAIN map \cup {key} |-> IF k = key THEN v ELSE map[k]]

\* tryRemove returns what the key held and unbinds that key only.
TryRemove(k) ==
  /\ ret' = Call("tryRemove", k, Lookup(k))
  /\ map' = [j \in DOMAIN map \ {k} |-> map[j]]

\* get and contains change nothing and see the binding.
Get(k) ==
  /\ ret' = Call("get", k, Lookup(k))
  /\ UNCHANGED map

Clear ==
  /\ ret' = Call("clear", 0, None)
  /\ map' = [k \in {} |-> None]

Next ==
  \/ \E v \in Value : Insert(v)
  \/ TryRemove(ret'.key)
  \/ Get(ret'.key)
  \/ Clear

Spec == Init /\ [][Next]_mapVars
=============================================================================

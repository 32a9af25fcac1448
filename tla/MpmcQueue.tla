----------------------------- MODULE MpmcQueue -----------------------------
(***************************************************************************)
(* mpmc::Queue of include/Async/ThreadSafe.hpp.  Every operation runs      *)
(* under the queue's own mutex, so it is one step of the thread that calls *)
(* it; these operators say what that step does to the deque mData.         *)
(***************************************************************************)
EXTENDS Naturals, Sequences

push(mData, value) == Append(mData, value)

empty(mData) == mData = <<>>

\* pop() returns front(mData) and leaves popped(mData).
front(mData) == Head(mData)

\* Mutant: pop() forgets pop_front().
popped_Peek(mData) == mData

popped(mData) == Tail(mData)

\* steal() returns back(mData) and leaves stolen(mData).
back(mData) == mData[Len(mData)]

\* Mutant: steal() takes the back and drops the front.
stolen_WrongEnd(mData) == Tail(mData)

stolen(mData) == SubSeq(mData, 1, Len(mData) - 1)
=============================================================================

---------------------------- MODULE MCAsyncMutex ----------------------------
(***************************************************************************)
(* AsyncMutex for TLC: three coroutines are the fewest in which one holds, *)
(* one is queued and one slips in.                                         *)
(***************************************************************************)
EXTENDS AsyncMutex

CONSTANTS c1, c2, c3

TwoCoros   == {c1, c2}
ThreeCoros == {c1, c2, c3}
=============================================================================

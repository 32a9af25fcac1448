---------------------------- MODULE MCJoinHandle ----------------------------
(***************************************************************************)
(* JoinHandle for TLC: WaitAll over three handles, so that coroutines end  *)
(* before, while and after each of them is joined.                         *)
(***************************************************************************)
EXTENDS JoinHandle

CONSTANTS t1, t2, t3

Three == {t1, t2, t3}
OneByOne == <<t1, t2, t3>>

Values == {t2, t3}
=============================================================================

------------------------------ MODULE MCSlab ------------------------------
(***************************************************************************)
(* Slab for TLC: two values, so that a slot handed out twice shows in what *)
(* it holds.                                                               *)
(***************************************************************************)
EXTENDS Slab

CONSTANTS v1, v2

MCValue == {v1, v2}
=============================================================================

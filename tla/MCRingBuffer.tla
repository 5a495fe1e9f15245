---------------------------- MODULE MCRingBuffer ----------------------------
(***************************************************************************)
(* Instances of RingBuffer for the model checker: the smallest buffer the  *)
(* code allows, and enough values to go round it more than twice.          *)
(***************************************************************************)
EXTENDS RingBuffer

SmallestSize == 10
TwiceRound   == 25
=============================================================================

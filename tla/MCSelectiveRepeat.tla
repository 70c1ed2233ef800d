------------------------- MODULE MCSelectiveRepeat --------------------------
(* Instances of SelectiveRepeat for TLC: the cfg files give the numbers. *)
EXTENDS SelectiveRepeat
=============================================================================

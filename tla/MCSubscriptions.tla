-------------------------- MODULE MCSubscriptions --------------------------
(* Instances of TunerSubscriptions for TLC. *)
EXTENDS TunerSubscriptions, TLC

Symmetry == Permutations(Transponders)
=============================================================================

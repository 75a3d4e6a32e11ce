------------------------------ MODULE MCTuner ------------------------------
(* Instances of DvbTuner for TLC. *)
EXTENDS DvbTuner
=============================================================================

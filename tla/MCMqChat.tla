---------------------------- MODULE MCMqChat ----------------------------
(* MqChat with interchangeable users. *)
EXTENDS MqChat, TLC

Symmetry == Permutations(Users)
=============================================================================

----------------------------- MODULE MCChatServer -----------------------------
(***************************************************************************)
(* ChatServer for TLC: users are interchangeable in the safety runs.       *)
(***************************************************************************)
EXTENDS ChatServer, TLC

Symmetry == Permutations(Users)
=============================================================================

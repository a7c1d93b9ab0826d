----------------------------- MODULE MCProcess -----------------------------
(***************************************************************************)
(* Instances of Process for TLC.                                           *)
(***************************************************************************)
EXTENDS Process, TLC

Symmetry == Permutations(Users) \cup Permutations(OldUsers)
=============================================================================

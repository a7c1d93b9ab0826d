---------------------------- MODULE MCSimulator ----------------------------
(***************************************************************************)
(* Instances of Simulator for TLC.                                         *)
(***************************************************************************)
EXTENDS Simulator
=============================================================================

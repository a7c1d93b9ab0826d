-------------------------------- MODULE MCHub --------------------------------
(* The instance of Hub for TLC: its constants are given in Hub.cfg.          *)
EXTENDS Hub
=============================================================================

----------------------------- MODULE MCRttBridge -----------------------------
(* Instances of RttBridge for TLC.                                         *)
EXTENDS RttBridge
=============================================================================

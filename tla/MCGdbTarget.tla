---------------------------- MODULE MCGdbTarget ----------------------------
(* The runs of GdbTarget need no definitions of their own. *)
EXTENDS GdbTarget
=============================================================================

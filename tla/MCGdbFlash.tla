----------------------------- MODULE MCGdbFlash -----------------------------
(* The runs of GdbFlash need no definitions of their own. *)
EXTENDS GdbFlash
=============================================================================

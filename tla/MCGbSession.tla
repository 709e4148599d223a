--------------------------- MODULE MCGbSession ---------------------------
(* Constants of GbSession for model checking.                             *)
EXTENDS GbSession
===========================================================================

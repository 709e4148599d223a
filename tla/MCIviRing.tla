----------------------------- MODULE MCIviRing -----------------------------
(* Constants of IviRing for model checking.                               *)
EXTENDS IviRing
============================================================================

------------------------------ MODULE MCUpgrade ------------------------------
(* Constants of Upgrade for model checking.                                *)
EXTENDS Upgrade
=============================================================================

----------------------------- MODULE MCMcuFrame -----------------------------
(* Constants of McuFrame for model checking.                               *)
EXTENDS McuFrame

\* Contents in which a flag, an escape and the codes of both occur.
SomeBodies == {<<"7e", "x">>, <<"7d", "02">>, <<"01", "7d">>}
=============================================================================

--------------------------- MODULE MCRemoteCtrl ---------------------------
(* Constants of RemoteCtrl for model checking.                             *)
EXTENDS RemoteCtrl

\* CONSTRAINT: a third command is sent to a T-Box whose TSP has waited for its
\* answers and whose MCU has been in time; where one has not, CommandAnswered
\* holds from there on.
ThirdInTime == asked < 3 \/ (~impatient /\ late = 0)
=============================================================================

---------------------------- MODULE MCAcpLink ----------------------------
(* Constants of AcpLink for model checking.                               *)
EXTENDS AcpLink

\* The two applications the threads tell apart, in the login's order.
MCApps == {RemoteCtrl, UpdateKey}
MCAppOrder == <<RemoteCtrl, UpdateKey>>

\* Timing: the checks of a login take less than the time unit of Tick (10 s).
PromptLogin == (\E r \in Receivers : idx[r] > 0) => ~Tick

NodeSymmetry == Permutations(Nodes)
============================================================================

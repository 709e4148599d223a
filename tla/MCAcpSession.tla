--------------------------- MODULE MCAcpSession ---------------------------
(* Constants of AcpSession for model checking.                            *)
EXTENDS AcpSession

\* Timing: the 5 s before a reconnection are longer than any handler.
PromptReconnect ==
    ConnectOk \/ ConnectFails =>
        \A r \in Receivers : pc[r] \in {"gone", "recv"}
============================================================================

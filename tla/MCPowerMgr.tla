---------------------------- MODULE MCPowerMgr ----------------------------
(* Constants of PowerMgr for model checking.                              *)
EXTENDS PowerMgr

CONSTANTS call      \* the callback of a phone call (one for a message is like it)

MCCallbacks == {call}
MCSource == [t \in {call, Receiver} |-> IF t = call THEN 1 ELSE 2]
============================================================================

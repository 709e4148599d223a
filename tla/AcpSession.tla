---------------------------- MODULE AcpSession ----------------------------
(***************************************************************************)
(* The connection of CFAWACP to the TSP server (FAWACP.cpp): the main loop *)
(* that connects, waits for the login, reports, reconnects and disconnects *)
(* when the T-Box sleeps; the receive thread it starts for each            *)
(* connection; and the login, eight messages in turn.                      *)
(*                                                                         *)
(* The flags m_ConnectedState and m_loginState and the socket number       *)
(* belong to the object, not to a thread: a receive thread that is still   *)
(* busy with a message when its connection is closed goes on with those of *)
(* the next one. AcpLink models what the handlers of the other messages do *)
(* with the response list.                                                 *)
(***************************************************************************)
EXTENDS Integers

CONSTANTS
    Receivers,   \* bound: receive threads that can be alive at once
    LoginLimit,  \* seconds the main loop waits for a login (10)
    HeartBeats   \* heartbeats it sends before it lets a sleeping link go (3)

ASSUME SessionAssumption ==
    /\ LoginLimit \in Nat \ {0} /\ HeartBeats \in Nat \ {0}

VARIABLES
    isGoToSleep,       \* 0: asleep, 1: awake, -1: not known yet
    m_ConnectedState, m_loginState,
    InLoginFailTimes,  \* seconds without a login
    HeartBeatTemp,     \* heartbeats sent since the T-Box fell asleep
    main,              \* where the main loop is
    socket,            \* m_Socketfd: open, closed by the T-Box, or lost
    step,              \* login messages exchanged on this connection
    pc, msg,           \* where a receive thread is, the message it handles
    stale              \* its connection has been closed meanwhile

conn == <<m_ConnectedState, m_loginState>>
counters == <<InLoginFailTimes, HeartBeatTemp>>
link == <<socket, step>>
threads == <<pc, msg, stale>>
vars == <<isGoToSleep, conn, counters, main, link, threads>>

Request == 0                 \* a message of any other application
AuthMsgs == {2, 4, 6, 8}     \* the login messages the TSP sends

FlagTypes ==
    /\ m_ConnectedState \in BOOLEAN
    /\ stale \in [Receivers -> BOOLEAN]

DataTypes ==
    /\ isGoToSleep \in -1..1
    /\ m_loginState \in 0..2
    /\ InLoginFailTimes \in 0..LoginLimit-1
    /\ HeartBeatTemp \in 0..HeartBeats
    /\ main \in {"connect", "create", "decide", "wait", "asleep"}
    /\ socket \in {"open", "closed", "lost"}
    /\ step \in 0..8
    /\ pc \in [Receivers ->
               {"gone", "check", "recv", "handle", "reply", "waking", "serve"}]
    /\ msg \in [Receivers -> AuthMsgs \cup {Request}]

\* Types of the variables.
TypeOK == FlagTypes /\ DataTypes

Init ==
    /\ isGoToSleep = -1
    /\ m_ConnectedState = FALSE /\ m_loginState = 0
    /\ InLoginFailTimes = 0 /\ HeartBeatTemp = 0
    /\ main = "connect"
    /\ socket = "closed" /\ step = 0
    /\ pc = [r \in Receivers |-> "gone"]
    /\ msg = [r \in Receivers |-> Request]
    /\ stale = [r \in Receivers |-> FALSE]

-----------------------------------------------------------------------------
(* The main loop.                                                          *)

\* Bound: no more than Receivers are alive.
RoomForReceiver == \E r \in Receivers : pc[r] = "gone"

\* connect() succeeds, and the T-Box applies for the login (message 1).
\* m_loginState keeps what it was.
ConnectOk ==
    /\ main = "connect" /\ RoomForReceiver
    /\ m_ConnectedState' = TRUE
    /\ socket' = "open" /\ step' = 1
    /\ main' = "create"
    /\ UNCHANGED <<isGoToSleep, m_loginState, counters, threads>>

\* connect() fails; socket() never does.
ConnectFails ==
    /\ main = "connect" /\ RoomForReceiver
    /\ m_ConnectedState' = FALSE /\ m_loginState' = 0
    /\ main' = "create"
    /\ UNCHANGED <<isGoToSleep, counters, link, threads>>

\* One second later a receive thread is started, connected or not.
CreateReceiver(r) ==
    /\ main = "create" /\ pc[r] = "gone"
    /\ pc' = [pc EXCEPT ![r] = "check"]
    /\ stale' = [stale EXCEPT ![r] = FALSE]
    /\ main' = "decide"
    /\ UNCHANGED <<isGoToSleep, conn, counters, link, msg>>

\* Connected and awake: wait one second for the login, or report.
AwaitLogin ==
    /\ main = "decide" /\ m_ConnectedState /\ isGoToSleep = 1
    /\ m_loginState # 2
    /\ main' = "wait"
    /\ UNCHANGED <<isGoToSleep, conn, counters, link, threads>>

Report ==
    /\ main = "decide" /\ m_ConnectedState /\ isGoToSleep = 1
    /\ m_loginState = 2
    /\ InLoginFailTimes' = 0 /\ HeartBeatTemp' = 0
    /\ UNCHANGED <<isGoToSleep, conn, main, link, threads>>

\* Mutant of CountSecond: the count starts again, but the connection is kept.
CountAgain ==
    /\ main = "wait"
    /\ HeartBeatTemp' = 0
    /\ InLoginFailTimes' = (InLoginFailTimes + 1) % LoginLimit
    /\ main' = "decide"
    /\ UNCHANGED <<isGoToSleep, conn, link, threads>>

\* The second is over. After LoginLimit of them the connection is given up,
\* whatever has been received during the last one.
CountSecond ==
    /\ main = "wait"
    /\ HeartBeatTemp' = 0
    /\ IF InLoginFailTimes + 1 = LoginLimit
       THEN /\ InLoginFailTimes' = 0
            /\ m_loginState' = 0 /\ m_ConnectedState' = FALSE
       ELSE /\ InLoginFailTimes' = InLoginFailTimes + 1
            /\ UNCHANGED conn
    /\ main' = "decide"
    /\ UNCHANGED <<isGoToSleep, link, threads>>

\* disconnectSocket(). Whoever is in recv() or handles a message of this
\* connection is left over from it.
disconnectSocket ==
    /\ socket' = "closed" /\ step' = 0
    /\ m_ConnectedState' = FALSE /\ m_loginState' = 0
    /\ stale' = [r \in Receivers |-> pc[r] \notin {"gone", "check"}]

\* Awake and not connected: close, forget the last login's messages, and
\* connect again 5 s later.
Reconnect ==
    /\ main = "decide" /\ ~m_ConnectedState /\ isGoToSleep = 1
    /\ disconnectSocket
    /\ InLoginFailTimes' = 0 /\ HeartBeatTemp' = 0
    /\ main' = "connect"
    /\ UNCHANGED <<isGoToSleep, pc, msg>>

FallAsleep ==
    /\ main = "decide" /\ isGoToSleep # 1
    /\ main' = "asleep"
    /\ UNCHANGED <<isGoToSleep, conn, counters, link, threads>>

\* Mutant of KeepOrLetGo: the heartbeats are not added up.
KeepAwake(n) ==
    /\ main = "asleep" /\ m_ConnectedState
    /\ InLoginFailTimes' = 0
    /\ HeartBeatTemp' = n
    /\ IF HeartBeatTemp' >= HeartBeats \/ m_loginState # 2
       THEN disconnectSocket
       ELSE UNCHANGED <<conn, link, stale>>
    /\ main' = "decide"
    /\ UNCHANGED <<isGoToSleep, pc, msg>>

\* Asleep and connected: a heartbeat when it is due (n = 1); after the last
\* one, or without a login, the connection is closed.
KeepOrLetGo(n) ==
    /\ main = "asleep" /\ m_ConnectedState
    /\ InLoginFailTimes' = 0
    /\ HeartBeatTemp' = HeartBeatTemp + n
    /\ IF HeartBeatTemp + n >= HeartBeats \/ m_loginState # 2
       THEN disconnectSocket
       ELSE UNCHANGED <<conn, link, stale>>
    /\ main' = "decide"
    /\ UNCHANGED <<isGoToSleep, pc, msg>>

\* Asleep and not connected: FC_LOCK is released, see PowerMgr.
StayAsleep ==
    /\ main = "asleep" /\ ~m_ConnectedState
    /\ InLoginFailTimes' = 0 /\ HeartBeatTemp' = 0
    /\ main' = "decide"
    /\ UNCHANGED <<isGoToSleep, conn, link, threads>>

-----------------------------------------------------------------------------
(* The receive threads and the TSP.                                        *)

Goto(r, l) == pc' = [pc EXCEPT ![r] = l]

\* The top of the loop: recv() is called on the current socket, or the
\* thread ends.
Check(r) ==
    /\ pc[r] = "check"
    /\ Goto(r, IF m_ConnectedState THEN "recv" ELSE "gone")
    /\ stale' = [stale EXCEPT ![r] = FALSE]
    /\ UNCHANGED <<isGoToSleep, conn, counters, main, link, msg>>

Receives(r, m) ==
    /\ pc[r] = "recv" /\ ~stale[r] /\ socket = "open"
    /\ msg' = [msg EXCEPT ![r] = m]
    /\ Goto(r, "handle")
    /\ UNCHANGED <<isGoToSleep, conn, counters, main, socket, stale>>

\* The TSP answers login message 1, 3, 5 or 7 with the next one.
RecvAuth(r, m) == step = m - 1 /\ step' = m /\ Receives(r, m)

\* The TSP sends requests once it has logged the T-Box in.
RecvRequest(r) == step = 8 /\ UNCHANGED step /\ Receives(r, Request)

\* Mutant of RecvEnds: only the login is forgotten.
EndsConnected(r) ==
    /\ pc[r] = "recv" /\ (stale[r] \/ socket = "lost")
    /\ m_loginState' = 0
    /\ Goto(r, "gone")
    /\ UNCHANGED <<isGoToSleep, m_ConnectedState, counters, main, link, msg,
                   stale>>

\* recv() returns 0 or an error: the socket was shut down, or it is lost.
RecvEnds(r) ==
    /\ pc[r] = "recv" /\ (stale[r] \/ socket = "lost")
    /\ m_loginState' = 0 /\ m_ConnectedState' = FALSE
    /\ Goto(r, "gone")
    /\ UNCHANGED <<isGoToSleep, counters, main, link, msg, stale>>

\* Any login message starts with m_loginState = 1.
HandleAuth(r) ==
    /\ pc[r] = "handle" /\ msg[r] \in AuthMsgs
    /\ m_loginState' = 1
    /\ Goto(r, "reply")
    /\ UNCHANGED <<isGoToSleep, m_ConnectedState, counters, main, link, msg,
                   stale>>

\* The next login message is sent, on whatever connection there is. The TSP
\* takes no notice of one it does not wait for.
Reply(r) ==
    /\ pc[r] = "reply" /\ msg[r] # 8
    /\ step' = IF ~stale[r] /\ socket = "open" /\ step = msg[r]
               THEN msg[r] + 1 ELSE step
    /\ Goto(r, "check")
    /\ UNCHANGED <<isGoToSleep, conn, counters, main, socket, msg, stale>>

\* What the TSP encrypted is not what was expected: the T-Box does not answer.
Refuse(r) ==
    /\ pc[r] = "reply" /\ msg[r] \in {4, 6}
    /\ m_loginState' = 0
    /\ Goto(r, "check")
    /\ UNCHANGED <<isGoToSleep, m_ConnectedState, counters, main, link, msg,
                   stale>>

\* Message 8: logged in.
LoginDone(r) ==
    /\ pc[r] = "reply" /\ msg[r] = 8
    /\ m_loginState' = 2
    /\ Goto(r, "check")
    /\ UNCHANGED <<isGoToSleep, m_ConnectedState, counters, main, link, msg,
                   stale>>

\* A packet wakes a sleeping T-Box, which takes several seconds.
HandleRequest(r) ==
    /\ pc[r] = "handle" /\ msg[r] = Request
    /\ IF isGoToSleep = 0
       THEN isGoToSleep' = 1 /\ Goto(r, "waking")
       ELSE Goto(r, "serve") /\ UNCHANGED isGoToSleep
    /\ UNCHANGED <<conn, counters, main, link, msg, stale>>

\* lowPowerMode() ends by setting the flag once more.
Woken(r) ==
    /\ pc[r] = "waking"
    /\ isGoToSleep' = 1
    /\ Goto(r, "serve")
    /\ UNCHANGED <<conn, counters, main, link, msg, stale>>

\* Only a logged-in T-Box looks at a request.
Serve(r) ==
    /\ pc[r] = "serve" /\ m_loginState = 2
    /\ Goto(r, "check")
    /\ UNCHANGED <<isGoToSleep, conn, counters, main, link, msg, stale>>
Drop(r) ==
    /\ pc[r] = "serve" /\ m_loginState # 2
    /\ Goto(r, "check")
    /\ UNCHANGED <<isGoToSleep, conn, counters, main, link, msg, stale>>

-----------------------------------------------------------------------------
\* The network or the TSP ends the connection.
Lose ==
    /\ socket = "open"
    /\ socket' = "lost"
    /\ UNCHANGED <<isGoToSleep, conn, counters, main, step, threads>>

\* The MCU, a call or a message puts the T-Box to sleep or wakes it.
Power ==
    /\ isGoToSleep' \in {0, 1} \ {isGoToSleep}
    /\ UNCHANGED <<conn, counters, main, link, threads>>

MainLoop ==
    \/ ConnectOk \/ ConnectFails
    \/ \E r \in Receivers : CreateReceiver(r)
    \/ AwaitLogin \/ Report \/ CountSecond \/ Reconnect
    \/ FallAsleep \/ StayAsleep \/ \E n \in 0..1 : KeepOrLetGo(n)

Receive(r) ==
    \/ RecvRequest(r) \/ \E m \in AuthMsgs : RecvAuth(r, m)

Handle(r) ==
    \/ Check(r) \/ RecvEnds(r)
    \/ HandleAuth(r) \/ Reply(r) \/ Refuse(r) \/ LoginDone(r)
    \/ HandleRequest(r) \/ Woken(r) \/ Serve(r) \/ Drop(r)

Next ==
    \/ MainLoop
    \/ \E r \in Receivers : Receive(r) \/ Handle(r)
    \/ Lose \/ Power

Spec == Init /\ [][Next]_vars

-----------------------------------------------------------------------------
(* Properties.                                                             *)

\* Whenever the main loop believes the T-Box connected, a receive thread is
\* alive, which will notice the end of the connection: threads end only after
\* the flag is cleared, and no other thread sets it behind their back.
ConnectedIsHeard ==
    m_ConnectedState /\ main # "create" => \E r \in Receivers : pc[r] # "gone"

-----------------------------------------------------------------------------
(* Fairness: all threads go on, recv() on a dead socket returns, the next  *)
(* heartbeat becomes due. The network and the TSP owe nothing: connecting  *)
(* may fail and login messages may stay away for ever.                     *)

Fairness ==
    /\ WF_vars(MainLoop) /\ SF_vars(KeepOrLetGo(1))
    /\ \A r \in Receivers : WF_vars(Handle(r))

FairSpec == Spec /\ Fairness

\* An awake T-Box never rests on a connection that is dead or without a login:
\* it is logged in on an open socket, or it will connect again.
TriesAgain ==
    <>[](isGoToSleep = 1)
        => []<>(main = "connect" \/ (m_loginState = 2 /\ socket = "open"))

\* A T-Box that stays asleep disconnects for good, which lets FC_LOCK go.
AsleepLetsGo == <>[](isGoToSleep = 0) => <>[]~m_ConnectedState

\* A TSP that does not complete the login is given up, and the T-Box connects
\* again. (Comment in the main loop: wait 10 s, and if the TSP does not react
\* take it for a timeout, disconnect and connect again.)
\* The code does not keep this: README, Known deviations.
SilenceTimesOut ==
    <>[](isGoToSleep = 1) => []<>(main = "connect" \/ step = 8)
=============================================================================

----------------------------- MODULE GbSession -----------------------------
(***************************************************************************)
(* The session of the GB/T 32960 client (GBT32960.cpp): the main loop that *)
(* connects, logs in, reports and logs out, and the receive thread it      *)
(* starts after every attempt to connect.                                  *)
(*                                                                         *)
(* The main loop closes the socket with close(), which does not wake a     *)
(* thread that is blocked in recv(): that thread stays on the old          *)
(* connection and, when this one ends, closes whatever socketfd is then.   *)
(* Params models the parameters and the login number, GbStore what the     *)
(* reports carry. The count of unanswered messages (timeoutThread) only    *)
(* chooses between two intervals and is left out with their lengths.       *)
(***************************************************************************)
EXTENDS Integers

CONSTANTS
    Conns,      \* bound: connections that exist at once
    Receivers,  \* bound: receive threads; more do only what these do
    Closed      \* socketfd after close()

ASSUME SessionAssumption == Closed \notin Conns

VARIABLES
    testnet, testout,        \* the MCU allows the connection, the login
    socketfd,                \* the connection, or Closed
    isConnected, loginState,
    ReportingFlagCount,      \* reports that failed (4: more than 3)
    place,                    \* where the main loop is
    pc, on,                  \* where a receive thread is, its connection
    server                   \* what the server knows of each connection

allowed == <<testnet, testout>>
link == <<socketfd, isConnected, server>>
threads == <<pc, on>>
sessionVars == <<allowed, link, loginState, ReportingFlagCount, place, threads>>

\* What the server answers, and what it asks.
Answers == {"accept", "refuse", "goodbye"}
Requests == {"query", "setServer"}

Places == {"connect", "apply", "create", "loop", "login", "parting",
           "reissue", "alarmParting", "alarmReissue"}

SessionFlags ==
    /\ testnet \in BOOLEAN /\ testout \in BOOLEAN /\ isConnected \in BOOLEAN

SessionData ==
    /\ socketfd \in Conns \cup {Closed}
    /\ loginState \in 0..2 /\ ReportingFlagCount \in 0..4
    /\ place \in Places
    /\ pc \in [Receivers ->
               {"gone", "check", "enter", "recv"} \cup Answers \cup Requests]
    /\ on \in [Receivers -> Conns \cup {Closed}]
    /\ server \in [Conns ->
           {"gone", "new", "applied", "refused", "accepted", "leaving", "left"}]

\* Types of the variables.
SessionTypeOK == SessionFlags /\ SessionData

SessionInit ==
    /\ testnet = TRUE /\ testout = TRUE
    /\ socketfd = Closed
    /\ isConnected = FALSE /\ loginState = 0
    /\ ReportingFlagCount = 0
    /\ place = "connect"
    /\ pc = [r \in Receivers |-> "gone"]
    /\ on = [r \in Receivers |-> Closed]
    /\ server = [c \in Conns |-> "gone"]

-----------------------------------------------------------------------------
(* Sending on socketfd. The program ignores SIGPIPE: send() fails on a     *)
(* closed descriptor, and may or may not fail on a connection the server   *)
(* has ended.                                                              *)

CanSend == socketfd # Closed
CanFail == IF CanSend THEN server[socketfd] = "gone" ELSE TRUE

\* send() that succeeds, with a message that makes no difference to the
\* server or takes the connection to another state.
SendOk == CanSend /\ UNCHANGED link
Tells(s) ==
    /\ CanSend
    /\ server' = IF server[socketfd] = "gone" THEN server
                 ELSE [server EXCEPT ![socketfd] = s]
    /\ UNCHANGED <<socketfd, isConnected>>

\* close(socketfd). The connection goes on as long as a thread is in recv().
closeSocket ==
    /\ socketfd' = Closed /\ isConnected' = FALSE
    /\ server' = [c \in Conns |->
                     IF c = socketfd /\ \A r \in Receivers : on[r] # c
                     THEN "gone" ELSE server[c]]

\* After a failed send() the socket is closed; loginState stays as it is.
SendFailed == CanFail /\ closeSocket

sendLoginData == Tells("applied") \/ SendFailed

-----------------------------------------------------------------------------
(* The main loop.                                                          *)

\* Bounds Conns and Receivers: a connection nobody uses, and a thread that
\* will read it.
Unused(c) == c # socketfd /\ \A r \in Receivers : on[r] # c
RoomForReceiver == \E r \in Receivers : pc[r] # "recv"

\* socketConnect() succeeds. The parameters are written, see Params, before
\* the login is sent.
Connect(c) ==
    /\ place = "connect" /\ Unused(c) /\ RoomForReceiver
    /\ socketfd' = c /\ isConnected' = TRUE
    /\ server' = [server EXCEPT ![c] = "new"]
    /\ place' = "apply"
    /\ UNCHANGED <<allowed, loginState, ReportingFlagCount, threads>>

\* The server's name is not found, or the connection is refused.
ConnectFails ==
    /\ place = "connect"
    /\ loginState' \in {0, loginState}
    /\ place' = "create"
    /\ UNCHANGED <<allowed, link, ReportingFlagCount, threads>>

\* Mutant of Apply: no second login for a T-Box that is logged in.
ApplyOnce ==
    /\ place = "apply"
    /\ IF loginState = 0 THEN sendLoginData ELSE UNCHANGED link
    /\ place' = "create"
    /\ UNCHANGED <<allowed, loginState, ReportingFlagCount, threads>>

\* The login at the end of socketConnect(), whatever loginState is.
Apply ==
    /\ place = "apply"
    /\ sendLoginData
    /\ place' = "create"
    /\ UNCHANGED <<allowed, loginState, ReportingFlagCount, threads>>

\* Mutant of CreateReceiver: one thread is enough for all connections.
CreateIfNone ==
    /\ place = "create"
    /\ \/ \E r \in Receivers :
             /\ \A q \in Receivers : pc[q] = "gone"
             /\ pc' = [pc EXCEPT ![r] = "check"]
       \/ (\E q \in Receivers : pc[q] # "gone") /\ UNCHANGED pc
    /\ place' = "loop"
    /\ UNCHANGED <<allowed, link, loginState, ReportingFlagCount, on>>

\* A receive thread is started after every attempt, connected or not.
CreateReceiver ==
    /\ place = "create"
    /\ \/ \E r \in Receivers : pc[r] = "gone" /\ pc' = [pc EXCEPT ![r] = "check"]
       \/ (\A r \in Receivers : pc[r] # "gone") /\ UNCHANGED pc
    /\ place' = "loop"
    /\ UNCHANGED <<allowed, link, loginState, ReportingFlagCount, on>>

\* The MCU has forbidden the connection: close() every 5 s.
CutOff ==
    /\ place = "loop" /\ ~testnet
    /\ closeSocket
    /\ UNCHANGED <<allowed, loginState, ReportingFlagCount, place, threads>>

Reconnect ==
    /\ place = "loop" /\ testnet /\ ~isConnected
    /\ place' = "connect"
    /\ UNCHANGED <<allowed, link, loginState, ReportingFlagCount, threads>>

\* Not logged in: sleep for loginTimeInterval or logonFailureInterval, ...
AwaitLogin ==
    /\ place = "loop" /\ testnet /\ isConnected /\ loginState = 0
    /\ place' = "login"
    /\ UNCHANGED <<allowed, link, loginState, ReportingFlagCount, threads>>

\* ... then log in, whatever has happened meanwhile.
LoginAgain ==
    /\ place = "login"
    /\ sendLoginData
    /\ place' = "loop"
    /\ UNCHANGED <<allowed, loginState, ReportingFlagCount, threads>>

OneMoreFailure == ReportingFlagCount' = IF ReportingFlagCount = 4 THEN 4
                                        ELSE ReportingFlagCount + 1

\* Mutant of timingReport: a report that is sent leaves the count alone.
reportUncounted ==
    \/ SendOk /\ UNCHANGED ReportingFlagCount
    \/ SendFailed /\ OneMoreFailure

\* timingReport(): a failed send closes the socket and is counted, also on a
\* socket that is closed already.
timingReport ==
    \/ SendOk /\ ReportingFlagCount' = 0
    \/ SendFailed /\ OneMoreFailure

MayReport == place = "loop" /\ testnet /\ isConnected /\ loginState = 1

\* Rounds of reports are made while no more than three have failed; a vehicle
\* with an alarm of the highest level reports whatever the count is.
RealTimeDue == MayReport /\ ReportingFlagCount <= 3

\* Without testout the logout is sent first, from inside the packing of the
\* report, and the report follows 300 s later.
LogOut ==
    /\ ~testout
    /\ \/ RealTimeDue /\ place' = "parting"
       \/ MayReport /\ place' = "alarmParting"
    /\ Tells("leaving") \/ SendFailed
    /\ UNCHANGED <<allowed, loginState, ReportingFlagCount, threads>>

ReportRealTime ==
    /\ (testout /\ RealTimeDue) \/ place = "parting"
    /\ timingReport
    /\ place' = "reissue"
    /\ UNCHANGED <<allowed, loginState, threads>>

\* No stored report to send: the count starts again.
NothingToReissue == ReportingFlagCount' = 0 /\ UNCHANGED link

\* A stored report follows. A round that ends with three failures starts the
\* count again.
Reissue ==
    /\ place = "reissue"
    /\ \/ ReportingFlagCount # 2 /\ timingReport
       \/ /\ ReportingFlagCount = 2 /\ ReportingFlagCount' = 0
          /\ SendOk \/ SendFailed
       \/ NothingToReissue
    /\ place' = "loop"
    /\ UNCHANGED <<allowed, loginState, threads>>

\* With an alarm, one real-time report a second, the first followed by a
\* reissue; after thirty, reissues on their own.
ReportAlarm ==
    /\ (testout /\ MayReport) \/ place = "alarmParting"
    /\ timingReport
    /\ place' \in {"loop", "alarmReissue"}
    /\ UNCHANGED <<allowed, loginState, threads>>

ReissueAlarm ==
    /\ MayReport \/ place = "alarmReissue"
    /\ timingReport \/ NothingToReissue
    /\ place' = "loop"
    /\ UNCHANGED <<allowed, loginState, threads>>

\* A heartbeat is due.
HeartBeat ==
    /\ MayReport
    /\ timingReport
    /\ UNCHANGED <<allowed, loginState, place, threads>>

-----------------------------------------------------------------------------
(* The receive threads.                                                    *)

Goto(r, l) == pc' = [pc EXCEPT ![r] = l]

\* While the T-Box is not connected, a thread spins here.
Check(r) ==
    /\ pc[r] = "check" /\ isConnected
    /\ Goto(r, "enter")
    /\ UNCHANGED <<allowed, link, loginState, ReportingFlagCount, place, on>>

Enter(r) ==
    /\ pc[r] = "enter" /\ CanSend
    /\ on' = [on EXCEPT ![r] = socketfd]
    /\ Goto(r, "recv")
    /\ UNCHANGED <<allowed, link, loginState, ReportingFlagCount, place>>

\* Data of the server on this thread's connection, current or old. An old one
\* is over when its last thread leaves recv().
Receives(r, m, s) ==
    /\ on' = [on EXCEPT ![r] = Closed]
    /\ server' = [server EXCEPT ![on[r]] =
                    IF on[r] = socketfd \/ \E q \in Receivers \ {r} : on[q] = on[r]
                    THEN s ELSE "gone"]
    /\ Goto(r, m)
    /\ UNCHANGED <<allowed, socketfd, isConnected, loginState,
                   ReportingFlagCount, place>>

\* The server accepts or refuses a login, confirms a logout, acknowledges a
\* report, or asks for something.
Receive(r) ==
    /\ pc[r] = "recv"
    /\ \/ server[on[r]] = "applied" /\ Receives(r, "accept", "accepted")
       \/ server[on[r]] = "applied" /\ Receives(r, "refuse", "refused")
       \/ server[on[r]] = "leaving" /\ Receives(r, "goodbye", "left")
       \/ server[on[r]] = "accepted"
          /\ \E m \in Requests \cup {"check"} : Receives(r, m, "accepted")

\* recv() returns 0 or an error, also because socketfd is closed: whatever is
\* socketfd now is closed, and the login is over.
End(r) ==
    /\ \/ pc[r] = "recv" /\ server[on[r]] = "gone"
       \/ pc[r] = "enter" /\ ~CanSend
    /\ closeSocket
    /\ loginState' = 0
    /\ on' = [on EXCEPT ![r] = Closed]
    /\ Goto(r, "gone")
    /\ UNCHANGED <<allowed, ReportingFlagCount, place>>

\* unpack_GBT32960FrameData(): the login is accepted, ...
LoggedIn(r) ==
    /\ pc[r] = "accept"
    /\ loginState' = 1
    /\ Goto(r, "check")
    /\ UNCHANGED <<allowed, link, ReportingFlagCount, place, on>>

\* ... or refused, which is only logged, ...
Ignore(r) ==
    /\ pc[r] = "refuse"
    /\ Goto(r, "check")
    /\ UNCHANGED <<allowed, link, loginState, ReportingFlagCount, place, on>>

\* Mutant of LoggedOut: the state goes on to the next.
LoggedOutNext(r) ==
    /\ pc[r] = "goodbye"
    /\ loginState' = loginState + 1
    /\ Goto(r, "check")
    /\ UNCHANGED <<allowed, link, ReportingFlagCount, place, on>>

\* ... or a logout confirmed.
LoggedOut(r) ==
    /\ pc[r] = "goodbye"
    /\ loginState' = 2
    /\ Goto(r, "check")
    /\ UNCHANGED <<allowed, link, ReportingFlagCount, place, on>>

\* The answer to a request goes to whatever connection there is.
Respond(r) ==
    /\ pc[r] = "query"
    /\ SendOk \/ SendFailed
    /\ Goto(r, "check")
    /\ UNCHANGED <<allowed, loginState, ReportingFlagCount, place, on>>

\* A new server address: log in on the connection to the old one, then answer
\* that it failed, see Params.
LoginNewServer(r) ==
    /\ pc[r] = "setServer"
    /\ sendLoginData
    /\ Goto(r, "query")
    /\ UNCHANGED <<allowed, loginState, ReportingFlagCount, place, on>>

Work(r) ==
    \/ Check(r) \/ Enter(r) \/ End(r)
    \/ LoggedIn(r) \/ Ignore(r) \/ LoggedOut(r) \/ Respond(r) \/ LoginNewServer(r)

-----------------------------------------------------------------------------
(* The MCU and the network.                                                *)

\* MCU_SND_CONTROL 2, 3 and 1.
Control ==
    /\ \/ testnet' = ~testnet /\ UNCHANGED testout
       \/ testout' = FALSE /\ UNCHANGED testnet
    /\ UNCHANGED <<link, loginState, ReportingFlagCount, place, threads>>

\* The network or the server ends a connection.
Lose(c) ==
    /\ server[c] # "gone"
    /\ server' = [server EXCEPT ![c] = "gone"]
    /\ UNCHANGED <<allowed, socketfd, isConnected, loginState,
                   ReportingFlagCount, place, threads>>

Connecting ==
    \/ \E c \in Conns : Connect(c)
    \/ ConnectFails \/ Apply \/ CreateReceiver \/ CutOff \/ Reconnect

Reporting ==
    \/ LogOut \/ ReportRealTime \/ Reissue
    \/ ReportAlarm \/ ReissueAlarm \/ HeartBeat

MainLoop == Connecting \/ AwaitLogin \/ LoginAgain \/ Reporting

SessionNext ==
    \/ MainLoop
    \/ \E r \in Receivers : Receive(r) \/ Work(r)
    \/ Control
    \/ \E c \in Conns : Lose(c)

SessionSpec == SessionInit /\ [][SessionNext]_sessionVars

-----------------------------------------------------------------------------
(* Properties.                                                             *)

\* While the T-Box takes itself for connected, some thread reads the current
\* connection or is about to: threads that are left in recv() on connections
\* closed by the main loop do not count, but every attempt to connect starts
\* another one.
ConnectedIsHeard ==
    isConnected /\ place \notin {"apply", "create"} =>
        \E r \in Receivers :
            \/ pc[r] \notin {"gone", "recv"}
            \/ pc[r] = "recv" /\ on[r] = socketfd

\* Nothing is sent on a connection before a login: loginState survives the
\* end of a connection, and reports go on with it, but a login goes first.
LoginFirst ==
    place # "apply" /\ CanSend => server[socketfd] # "new"

-----------------------------------------------------------------------------
(* Fairness: threads go on, intervals end. The network and the server owe  *)
(* nothing.                                                                *)

FairSessionSpec ==
    /\ SessionSpec
    /\ WF_sessionVars(MainLoop)
    /\ SF_sessionVars(ReportRealTime) /\ SF_sessionVars(HeartBeat)
    /\ \A r \in Receivers : WF_sessionVars(Work(r))

\* A T-Box that is allowed to connect never rests on a connection that has
\* ended: it tries again and again, unless it has a living one.
LossIsNoticed ==
    <>[]testnet =>
        []<>(place = "connect" \/ (CanSend /\ CanFail = FALSE))

\* However many reports have failed before, a lasting session gets real-time
\* reports again: a count above three stops them until a heartbeat gets
\* through.
ReportsResume ==
    <>[](/\ testnet /\ testout /\ isConnected /\ loginState = 1
         /\ CanSend /\ ~CanFail)
        => []<>(place = "reissue")

\* "re-login after 1 minute": a login that is refused is repeated, unless the
\* connection ends.
\* The code does not keep this: README, Known deviations.
RefusedTriesAgain ==
    \A c \in Conns :
        socketfd = c /\ server[c] = "refused" ~>
            socketfd # c \/ server[c] # "refused"
=============================================================================

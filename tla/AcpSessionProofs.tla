-------------------------- MODULE AcpSessionProofs --------------------------
(***************************************************************************)
(* Proofs about AcpSession, for any number of receive threads and any      *)
(* limits: the types, and that a connection always has a receive thread.   *)
(***************************************************************************)
EXTENDS AcpSession, TLAPS

\* The heartbeats of a sleep are counted from 0 on a new connection, and the
\* one that completes the count closes the connection.
HeartBeatsLeft ==
    m_ConnectedState \/ main = "connect" => HeartBeatTemp < HeartBeats

IInv == TypeOK /\ HeartBeatsLeft /\ ConnectedIsHeard

LEMMA InitIInv == Init => IInv
<1> SUFFICES ASSUME Init PROVE IInv
  OBVIOUS
<1> USE SessionAssumption DEF Init
<1>1. FlagTypes
  BY DEF FlagTypes
<1>2. DataTypes
  BY DEF DataTypes, AuthMsgs, Request
<1>3. HeartBeatsLeft /\ ConnectedIsHeard
  BY DEF HeartBeatsLeft, ConnectedIsHeard
<1> QED
  BY <1>1, <1>2, <1>3 DEF IInv, TypeOK

\* Types: by the action, with HeartBeatsLeft for the heartbeats.
LEMMA NextTypeOK == IInv /\ [Next]_vars => TypeOK'
<1> SUFFICES ASSUME IInv, [Next]_vars PROVE TypeOK'
  OBVIOUS
<1> USE SessionAssumption DEF IInv, TypeOK, FlagTypes, DataTypes, conn, counters,
        link, threads, AuthMsgs, Request
<1>1. CASE ConnectOk
  BY <1>1 DEF ConnectOk
<1>2. CASE ConnectFails
  <2>1. FlagTypes'
    BY <1>2 DEF ConnectFails
  <2>2. DataTypes'
    BY <1>2 DEF ConnectFails
  <2> QED
    BY <2>1, <2>2
<1>3. ASSUME NEW r \in Receivers, CreateReceiver(r) PROVE TypeOK'
  BY <1>3 DEF CreateReceiver
<1>4. CASE AwaitLogin
  BY <1>4 DEF AwaitLogin
<1>5. CASE Report
  BY <1>5 DEF Report
<1>6. CASE CountSecond
  <2>1. FlagTypes'
    BY <1>6 DEF CountSecond
  <2>2. DataTypes'
    BY <1>6 DEF CountSecond
  <2> QED
    BY <2>1, <2>2
<1>7. CASE Reconnect
  <2>1. FlagTypes'
    BY <1>7 DEF Reconnect, disconnectSocket
  <2>2. DataTypes'
    BY <1>7 DEF Reconnect, disconnectSocket
  <2> QED
    BY <2>1, <2>2
<1>8. CASE FallAsleep
  BY <1>8 DEF FallAsleep
<1>9. CASE StayAsleep
  BY <1>9 DEF StayAsleep
<1>10. ASSUME NEW n \in 0..1, KeepOrLetGo(n) PROVE TypeOK'
  <2>1. FlagTypes'
    BY <1>10 DEF KeepOrLetGo, disconnectSocket
  <2>2. HeartBeatTemp < HeartBeats
    BY <1>10, Zenon DEF KeepOrLetGo, HeartBeatsLeft
  <2>3. HeartBeatTemp' \in 0..HeartBeats
    BY <1>10, <2>2 DEF KeepOrLetGo
  <2>4. DataTypes'
    <3>1. CASE HeartBeatTemp + n >= HeartBeats \/ m_loginState # 2
      <4>1. /\ disconnectSocket /\ InLoginFailTimes' = 0 /\ main' = "decide"
            /\ UNCHANGED <<isGoToSleep, pc, msg>>
        BY <1>10, <3>1 DEF KeepOrLetGo
      <4> QED
        BY <2>3, <4>1 DEF disconnectSocket
    <3>2. CASE ~(HeartBeatTemp + n >= HeartBeats \/ m_loginState # 2)
      <4>1. /\ UNCHANGED <<isGoToSleep, m_loginState, socket, step, pc, msg>>
            /\ InLoginFailTimes' = 0 /\ main' = "decide"
        BY <1>10, <3>2 DEF KeepOrLetGo
      <4> QED
        BY <2>3, <4>1
    <3> QED
      BY <3>1, <3>2
  <2> QED
    BY <2>1, <2>4
<1>11. ASSUME NEW r \in Receivers, Receive(r) PROVE TypeOK'
  BY <1>11 DEF Receive, RecvRequest, RecvAuth, Receives, Goto
<1>12. ASSUME NEW r \in Receivers, Handle(r) PROVE TypeOK'
  <2>1. CASE Check(r)
    <3>1. FlagTypes'
      BY <2>1 DEF Check, Goto
    <3>2. DataTypes'
      BY <2>1 DEF Check, Goto
    <3> QED
      BY <3>1, <3>2
  <2>2. CASE RecvEnds(r)
    <3>1. FlagTypes'
      BY <2>2 DEF RecvEnds
    <3>2. DataTypes'
      BY <2>2 DEF RecvEnds, Goto
    <3> QED
      BY <3>1, <3>2
  <2>3. CASE HandleAuth(r)
    BY <2>3 DEF HandleAuth, Goto
  <2>4. CASE Reply(r)
    BY <2>4 DEF Reply, Goto
  <2>5. CASE Refuse(r)
    BY <2>5 DEF Refuse, Goto
  <2>6. CASE LoginDone(r)
    BY <2>6 DEF LoginDone, Goto
  <2>7. CASE HandleRequest(r)
    BY <2>7 DEF HandleRequest, Goto
  <2>8. CASE Woken(r)
    BY <2>8 DEF Woken, Goto
  <2>9. CASE Serve(r)
    BY <2>9 DEF Serve, Goto
  <2>10. CASE Drop(r)
    BY <2>10 DEF Drop, Goto
  <2> QED
    BY <1>12, <2>1, <2>2, <2>3, <2>4, <2>5, <2>6, <2>7, <2>8, <2>9, <2>10
       DEF Handle
<1>13. CASE Lose
  BY <1>13 DEF Lose
<1>14. CASE Power
  BY <1>14 DEF Power
<1>15. CASE UNCHANGED vars
  BY <1>15 DEF vars
<1> QED
  BY <1>1, <1>2, <1>3, <1>4, <1>5, <1>6, <1>7, <1>8, <1>9, <1>10, <1>11,
     <1>12, <1>13, <1>14, <1>15 DEF Next, MainLoop

\* Only connecting makes a T-Box connected, and Reconnect, which leads there,
\* sets the count to 0; on a connection only KeepOrLetGo raises it.
LEMMA NextHeartBeats == IInv /\ [Next]_vars => HeartBeatsLeft'
<1> SUFFICES ASSUME IInv, [Next]_vars PROVE HeartBeatsLeft'
  OBVIOUS
<1> USE SessionAssumption DEF IInv, TypeOK, FlagTypes, DataTypes, HeartBeatsLeft,
        conn, counters, link, threads
<1>1. CASE MainLoop
  BY <1>1 DEF MainLoop, ConnectOk, ConnectFails, CreateReceiver, AwaitLogin,
     Report, CountSecond, Reconnect, FallAsleep, StayAsleep, KeepOrLetGo,
     disconnectSocket
<1>2. ASSUME NEW r \in Receivers, Receive(r) \/ Handle(r) PROVE HeartBeatsLeft'
  BY <1>2 DEF Receive, RecvRequest, RecvAuth, Receives, Handle, Check, RecvEnds,
     HandleAuth, Reply, Refuse, LoginDone, HandleRequest, Woken, Serve, Drop
<1>3. CASE Lose \/ Power \/ UNCHANGED vars
  BY <1>3 DEF Lose, Power, vars
<1> QED
  BY <1>1, <1>2, <1>3 DEF Next

\* A thread ends only at its check, which finds the flag cleared, or when it
\* clears the flag itself; the flag is set only in front of a new thread.
LEMMA NextHeard == IInv /\ [Next]_vars => ConnectedIsHeard'
<1> SUFFICES ASSUME IInv, [Next]_vars PROVE ConnectedIsHeard'
  OBVIOUS
<1> USE DEF IInv, TypeOK, FlagTypes, DataTypes, ConnectedIsHeard, conn, counters,
        link, threads
<1>1. CASE ConnectOk \/ ConnectFails
  BY <1>1 DEF ConnectOk, ConnectFails
<1>2. ASSUME NEW r \in Receivers, CreateReceiver(r) PROVE ConnectedIsHeard'
  BY <1>2 DEF CreateReceiver
<1>3. CASE AwaitLogin \/ Report \/ CountSecond \/ Reconnect \/ FallAsleep
           \/ StayAsleep \/ \E n \in 0..1 : KeepOrLetGo(n)
  BY <1>3 DEF AwaitLogin, Report, CountSecond, Reconnect, FallAsleep, StayAsleep,
     KeepOrLetGo, disconnectSocket
<1>4. ASSUME NEW r \in Receivers, Check(r) \/ RecvEnds(r)
      PROVE  ConnectedIsHeard'
  BY <1>4 DEF Check, RecvEnds, Goto
<1>5. ASSUME NEW r \in Receivers,
             pc' # pc => \E l \in {"check", "handle", "reply", "waking", "serve"} :
                             pc' = [pc EXCEPT ![r] = l],
             UNCHANGED <<main, m_ConnectedState>>
      PROVE  ConnectedIsHeard'
  BY <1>5
<1>6. ASSUME NEW r \in Receivers, Receive(r) PROVE ConnectedIsHeard'
  BY <1>5, <1>6 DEF Receive, RecvRequest, RecvAuth, Receives, Goto
<1>7. ASSUME NEW r \in Receivers,
             HandleAuth(r) \/ Reply(r) \/ Refuse(r) \/ LoginDone(r)
             \/ HandleRequest(r) \/ Woken(r) \/ Serve(r) \/ Drop(r)
      PROVE  ConnectedIsHeard'
  BY <1>5, <1>7 DEF HandleAuth, Reply, Refuse, LoginDone, HandleRequest, Woken,
     Serve, Drop, Goto
<1>8. CASE Lose \/ Power \/ UNCHANGED vars
  BY <1>8 DEF Lose, Power, vars
<1> QED
  BY <1>1, <1>2, <1>3, <1>4, <1>6, <1>7, <1>8 DEF Next, MainLoop, Handle

LEMMA Inductive == Spec => []IInv
<1>1. IInv /\ [Next]_vars => IInv'
  BY NextTypeOK, NextHeartBeats, NextHeard DEF IInv
<1> QED
  BY InitIInv, <1>1, PTL DEF Spec

\* The variables of the session keep their types; the counters of the main
\* loop never pass their limits.
THEOREM TypeCorrect == Spec => []TypeOK
  BY Inductive, PTL DEF IInv

\* A T-Box that believes it is connected has a receive thread, however many
\* threads earlier connections have left behind.
THEOREM HeardCorrect == Spec => []ConnectedIsHeard
  BY Inductive, PTL DEF IInv
=============================================================================

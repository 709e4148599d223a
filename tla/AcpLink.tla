------------------------------ MODULE AcpLink ------------------------------
(***************************************************************************)
(* The list of responses the T-Box has sent to the TSP server and not yet  *)
(* seen acknowledged (CFAWACP::Headerlink), and the threads that work on   *)
(* it: the receive thread (requests, acknowledgements, login), the MCU     *)
(* thread that answers remote-control commands, and TimeOutThread, which   *)
(* resends a response after 10 s and drops the connection after 20 more.   *)
(*                                                                         *)
(* A step is what a thread does between two points where another thread    *)
(* can be noticed: an access to the list, a lock, a read of a shared flag. *)
(* A section under the mutex is two steps (lock; work and unlock), so that *)
(* the accesses the code makes WITHOUT the mutex can meet it.              *)
(*                                                                         *)
(* An access through a pointer to a node that was freed, and an unlocked   *)
(* change or search that meets a section that frees or links, are          *)
(* undefined behaviour: the model sets "undefined" and stops there.        *)
(***************************************************************************)
EXTENDS SequencesExt, Integers

CONSTANTS
    Apps,           \* applications whose responses are tracked
    AppOrder,       \* the order in which a login looks at their timeouts
    RemoteCtrl,     \* the one that is answered by the MCU thread
    UpdateKey,      \* the one that replaces the root key
    Receivers,      \* receive threads that can be alive at once
    Nodes,          \* bound: list nodes malloc can return
    FirstTimeout,   \* age at which a response is sent again
    SecondTimeout,  \* age at which the connection is given up
    MaxCmds,        \* bound: remote-control commands at the MCU
    None, Freed     \* "no node" and "a node that was freed"

Poller == "TimeOutThread"
Mcu    == "mcuThread"
Threads == Receivers \cup {Poller, Mcu}

ASSUME LinkAssumption ==
    /\ RemoteCtrl \in Apps /\ UpdateKey \in Apps /\ RemoteCtrl # UpdateKey
    /\ AppOrder \in Seq(Apps) /\ AppOrder # <<>>
    /\ Poller \notin Receivers /\ Mcu \notin Receivers
    /\ None \notin Nodes \cup Threads /\ Freed \notin Nodes \cup {None}
    /\ FirstTimeout \in Nat /\ SecondTimeout \in Nat
    /\ FirstTimeout <= SecondTimeout
    /\ MaxCmds \in Nat

VARIABLES
    m_ConnectedState, m_loginState, m_bEnableSendDataFlag,
    socketOpen,     \* the socket has not been shut down
    Headerlink,     \* the list, head first
    TimeOutType,    \* per application: 0, 1 or 2 timeouts
    mutex,          \* the thread that holds the mutex, or None
    pc, app,        \* where a thread is, and the application it works for
    idx,            \* position of a receiver in the login's list of checks
    resent,         \* responses a receiver has sent again in this login
    pf, pb,         \* TimeOutThread's two pointers into the list
    remoteCmd,      \* remote-control commands the MCU has not answered
    alarmSet,       \* the 5 s alarm that repeats such a command
    answered,       \* applications whose response the TSP has been sent
    undefined

conn == <<m_ConnectedState, m_loginState, socketOpen>>
pass == <<idx, resent>>
ptrs == <<pf, pb>>
mcuv == <<remoteCmd, alarmSet>>
vars == <<conn, m_bEnableSendDataFlag, Headerlink, TimeOutType, mutex, pc, app,
          pass, ptrs, mcuv, answered, undefined>>

LinkTimer_t == [id : Nodes, app : Apps, age : 0..SecondTimeout]

\* "idle": blocked in recv(), in the UART read or in sleep(1).
Locations == {"gone", "idle", "respond", "insert", "ackLock", "ackDelete",
              "ackClear", "login", "loginDelete", "loginClear",
              "check", "unlink", "unlinking", "relock"}

FlagTypes ==
    /\ m_ConnectedState \in BOOLEAN
    /\ m_bEnableSendDataFlag \in BOOLEAN
    /\ socketOpen \in BOOLEAN
    /\ alarmSet \in BOOLEAN
    /\ undefined \in BOOLEAN

DataTypes ==
    /\ m_loginState \in 0..2
    /\ Headerlink \in Seq(LinkTimer_t)
    /\ TimeOutType \in [Apps -> 0..2]
    /\ mutex \in Threads \cup {None}
    /\ pc \in [Threads -> Locations]
    /\ app \in [Threads -> Apps]
    /\ idx \in [Receivers -> 0..Len(AppOrder)]
    /\ resent \in [Receivers -> SUBSET Apps]
    /\ pf \in Nodes \cup {None, Freed}
    /\ pb \in Nodes \cup {None, Freed}
    /\ remoteCmd \in 0..MaxCmds
    /\ answered \subseteq Apps

\* Types of the variables.
TypeOK == FlagTypes /\ DataTypes

\* The object lives on its thread's stack and its constructor does not set
\* TimeOutType: any content is possible until the first login clears it. Only
\* the value 2 matters until then, so that 0..2 stands for 0..255.
Init ==
    /\ m_ConnectedState = FALSE /\ m_loginState = 0 /\ socketOpen = FALSE
    /\ m_bEnableSendDataFlag = TRUE
    /\ Headerlink = <<>>
    /\ TimeOutType \in [Apps -> 0..2]
    /\ mutex = None
    /\ pc = [t \in Threads |-> IF t \in Receivers THEN "gone" ELSE "idle"]
    /\ app = [t \in Threads |-> RemoteCtrl]
    /\ idx = [r \in Receivers |-> 0]
    /\ resent = [r \in Receivers |-> {}]
    /\ pf = None /\ pb = None
    /\ remoteCmd = 0 /\ alarmSet = FALSE
    /\ answered = {}
    /\ undefined = FALSE

-----------------------------------------------------------------------------
(* The list.                                                               *)

InList == {Headerlink[i].id : i \in DOMAIN Headerlink}

\* search(): is a response of application a waiting?
search(a) == \E i \in DOMAIN Headerlink : Headerlink[i].app = a

\* A pointer of TimeOutThread once node n has been freed.
AfterFree(p, n) == IF p = n THEN Freed ELSE p

\* delete_link(): unlink and free the first node of application a, if any.
delete_link(a) ==
    \/ /\ ~search(a)
       /\ UNCHANGED <<Headerlink, ptrs>>
    \/ \E i \in DOMAIN Headerlink :
         /\ Headerlink[i].app = a
         /\ \A j \in 1..(i - 1) : Headerlink[j].app # a
         /\ Headerlink' = RemoveAt(Headerlink, i)
         /\ pf' = AfterFree(pf, Headerlink[i].id)
         /\ pb' = AfterFree(pb, Headerlink[i].id)

\* insertlink(): append a node of application a and age 0.
insertlink(a) ==
    \E n \in Nodes \ InList :
        Headerlink' = Append(Headerlink, [id |-> n, app |-> a, age |-> 0])

\* Thread t goes on at l; working for a, or for no application in particular
\* (RemoteCtrl stands for none).
GotoFor(t, l, a) ==
    /\ pc' = [pc EXCEPT ![t] = l]
    /\ app' = [app EXCEPT ![t] = a]
Working == {"respond", "insert", "ackLock", "ackDelete", "ackClear",
            "loginDelete", "unlink", "unlinking", "relock"}
Goto(t, l) == GotoFor(t, l, IF l \in Working THEN app[t] ELSE RemoteCtrl)

\* A receive thread that has handled a message looks at m_ConnectedState
\* and waits for the next one or ends.
HandlerDone == IF m_ConnectedState THEN "idle" ELSE "gone"

\* Where a thread goes on when RespondTspPacket returns.
AfterRespond(t) ==
    IF t = Poller THEN "unlink"
    ELSE IF t = Mcu THEN "idle"
    ELSE IF idx[t] > 0 THEN "loginDelete"
    ELSE HandlerDone

\* Threads inside a section that links or frees a node. TimeOutThread at
\* "relock" waits for a mutex it holds itself and touches nothing.
Linking(t) == pc[t] = "insert"
Freeing(t) == pc[t] \in {"ackDelete", "unlinking"}

-----------------------------------------------------------------------------
(* RespondTspPacket, called by every thread.                               *)

\* While the root key is being replaced only the response to that request
\* leaves. The result of send() is kept in an unsigned variable before it is
\* compared with 0, so a failed send goes unnoticed. Bound: malloc succeeds,
\* a thread waits while all Nodes are in the list.
Respond(t) ==
    /\ ~undefined /\ pc[t] = "respond"
    /\ \/ /\ m_bEnableSendDataFlag \/ app[t] = UpdateKey
          /\ mutex = None /\ Nodes \ InList # {}
          /\ mutex' = t
          /\ Goto(t, "insert")
       \/ /\ ~m_bEnableSendDataFlag /\ app[t] # UpdateKey
          /\ Goto(t, AfterRespond(t))
          /\ UNCHANGED mutex
    /\ UNCHANGED <<conn, m_bEnableSendDataFlag, Headerlink, TimeOutType, pass,
                   ptrs, mcuv, answered, undefined>>

\* PackFAWACP_PayloadData appends the node, unlocks, and the packet is sent.
Insert(t) ==
    /\ ~undefined /\ pc[t] = "insert"
    /\ insertlink(app[t])
    /\ mutex' = None
    /\ answered' = answered \cup {app[t]}
    /\ resent' = IF t \in Receivers /\ AfterRespond(t) = "loginDelete"
                 THEN [resent EXCEPT ![t] = @ \cup {app[t]}] ELSE resent
    /\ Goto(t, AfterRespond(t))
    /\ UNCHANGED <<conn, m_bEnableSendDataFlag, TimeOutType, idx, ptrs,
                   mcuv, undefined>>

-----------------------------------------------------------------------------
(* The receive thread.                                                     *)

\* A thread blocked in recv() is woken by a packet on the open socket.
Received(r) == ~undefined /\ pc[r] = "idle" /\ socketOpen

\* Authentication messages 2, 4 and 6: the login goes on, or a comparison
\* fails and it is back at the start. The TSP sends them before message 8.
RecvAuth(r) ==
    /\ Received(r) /\ m_loginState # 2
    /\ m_loginState' \in {0, 1}
    /\ Goto(r, HandlerDone)
    /\ UNCHANGED <<m_ConnectedState, socketOpen, m_bEnableSendDataFlag,
                   Headerlink, TimeOutType, mutex, pass, ptrs, mcuv,
                   answered, undefined>>

\* Mutant of RecvAuthReadyAck: the login does not enable sending.
LoginKeepsSendFlag(r) ==
    /\ Received(r) /\ m_loginState # 2
    /\ m_loginState' = 2
    /\ idx' = [idx EXCEPT ![r] = 1]
    /\ Goto(r, "login")
    /\ UNCHANGED <<m_ConnectedState, socketOpen, m_bEnableSendDataFlag,
                   Headerlink, TimeOutType, mutex, resent, ptrs, mcuv,
                   answered, undefined>>

\* Message 8: logged in, sending enabled; then the six timeouts are looked at.
RecvAuthReadyAck(r) ==
    /\ Received(r) /\ m_loginState # 2
    /\ m_loginState' = 2
    /\ m_bEnableSendDataFlag' = TRUE
    /\ idx' = [idx EXCEPT ![r] = 1]
    /\ Goto(r, "login")
    /\ UNCHANGED <<m_ConnectedState, socketOpen, Headerlink, TimeOutType, mutex,
                   resent, ptrs, mcuv, answered, undefined>>

\* The next of those timeouts, or the memset behind the last one.
NextLoginCheck(r) ==
    IF idx[r] < Len(AppOrder)
    THEN Goto(r, "login") /\ idx' = [idx EXCEPT ![r] = @ + 1]
    ELSE Goto(r, "loginClear") /\ UNCHANGED idx

\* An application whose second timeout was recorded is answered again.
LoginCheck(r) ==
    /\ ~undefined /\ pc[r] = "login"
    /\ IF TimeOutType[AppOrder[idx[r]]] = 2
       THEN /\ GotoFor(r, "respond", AppOrder[idx[r]])
            /\ UNCHANGED idx
       ELSE NextLoginCheck(r)
    /\ UNCHANGED <<conn, m_bEnableSendDataFlag, Headerlink, TimeOutType, mutex,
                   resent, ptrs, mcuv, answered, undefined>>

\* The node RespondTspPacket has just inserted is removed: without the mutex.
LoginDelete(r) ==
    /\ ~undefined /\ pc[r] = "loginDelete"
    /\ ~\E t \in Threads : Linking(t) \/ Freeing(t)
    /\ delete_link(app[r])
    /\ NextLoginCheck(r)
    /\ UNCHANGED <<conn, m_bEnableSendDataFlag, TimeOutType, mutex, resent,
                   mcuv, answered, undefined>>

\* memset(&TimeOutType, 0, ...)
LoginClear(r) ==
    /\ ~undefined /\ pc[r] = "loginClear"
    /\ TimeOutType' = [a \in Apps |-> 0]
    /\ idx' = [idx EXCEPT ![r] = 0]
    /\ resent' = [resent EXCEPT ![r] = {}]
    /\ Goto(r, HandlerDone)
    /\ UNCHANGED <<conn, m_bEnableSendDataFlag, Headerlink, mutex, ptrs,
                   mcuv, answered, undefined>>

\* Mutant of NewRequest: the list is not searched.
UnsearchedRequest(r, a) == Received(r) /\ m_loginState = 2

\* Requests are taken only when logged in, and ignored while a response to
\* the same application is still waiting for its acknowledgement.
NewRequest(r, a) == Received(r) /\ m_loginState = 2 /\ ~search(a)

\* A query, configuration, location or diagnosis request is answered at once;
\* a root-key replacement first disables every other sender.
RecvRequest(r, a) ==
    /\ NewRequest(r, a) /\ a # RemoteCtrl
    /\ ~\E t \in Threads : Freeing(t)
    /\ m_bEnableSendDataFlag' = (m_bEnableSendDataFlag /\ a # UpdateKey)
    /\ GotoFor(r, "respond", a)
    /\ UNCHANGED <<conn, Headerlink, TimeOutType, mutex, pass, ptrs, mcuv,
                   answered, undefined>>

\* A remote-control command is passed to the MCU and the alarm is set.
RecvRemoteCtrl(r) ==
    /\ NewRequest(r, RemoteCtrl)
    /\ ~\E t \in Threads : Freeing(t)
    /\ remoteCmd < MaxCmds
    /\ remoteCmd' = remoteCmd + 1
    /\ alarmSet' = TRUE
    /\ Goto(r, HandlerDone)
    /\ UNCHANGED <<conn, m_bEnableSendDataFlag, Headerlink, TimeOutType, mutex,
                   pass, ptrs, answered, undefined>>

\* A command the MCU does not support is answered at once. The command list
\* is overwritten with code 255, so an alarm finds nothing to repeat.
RecvUnsupportedCtrl(r) ==
    /\ NewRequest(r, RemoteCtrl)
    /\ ~\E t \in Threads : Freeing(t)
    /\ alarmSet' = FALSE
    /\ GotoFor(r, "respond", RemoteCtrl)
    /\ UNCHANGED <<conn, m_bEnableSendDataFlag, Headerlink, TimeOutType, mutex,
                   pass, ptrs, remoteCmd, answered, undefined>>

\* The TSP acknowledges a response it was sent, late or twice as it may be.
\* When nothing waits for it only a root key has an effect: it is written,
\* and sending is enabled again.
RecvAck(r, a) ==
    /\ Received(r) /\ m_loginState = 2 /\ a \in answered
    /\ ~\E t \in Threads : Freeing(t)
    /\ IF search(a)
       THEN /\ GotoFor(r, "ackLock", a)
            /\ UNCHANGED m_bEnableSendDataFlag
       ELSE /\ m_bEnableSendDataFlag' = (m_bEnableSendDataFlag \/ a = UpdateKey)
            /\ Goto(r, HandlerDone)
    /\ UNCHANGED <<conn, Headerlink, TimeOutType, mutex, pass, ptrs, mcuv,
                   answered, undefined>>

AckLock(r) ==
    /\ ~undefined /\ pc[r] = "ackLock" /\ mutex = None
    /\ mutex' = r
    /\ Goto(r, "ackDelete")
    /\ UNCHANGED <<conn, m_bEnableSendDataFlag, Headerlink, TimeOutType, pass,
                   ptrs, mcuv, answered, undefined>>

AckDelete(r) ==
    /\ ~undefined /\ pc[r] = "ackDelete"
    /\ delete_link(app[r])
    /\ mutex' = None
    /\ Goto(r, "ackClear")
    /\ UNCHANGED <<conn, m_bEnableSendDataFlag, TimeOutType, pass, mcuv,
                   answered, undefined>>

\* Mutant of AckClear: sending stays disabled.
AckClearKeepsSendFlag(r) ==
    /\ ~undefined /\ pc[r] = "ackClear"
    /\ TimeOutType' = [TimeOutType EXCEPT ![app[r]] = 0]
    /\ Goto(r, HandlerDone)
    /\ UNCHANGED <<conn, m_bEnableSendDataFlag, Headerlink, mutex, pass, ptrs,
                   mcuv, answered, undefined>>

AckClear(r) ==
    /\ ~undefined /\ pc[r] = "ackClear"
    /\ TimeOutType' = [TimeOutType EXCEPT ![app[r]] = 0]
    /\ m_bEnableSendDataFlag' = (m_bEnableSendDataFlag \/ app[r] = UpdateKey)
    /\ Goto(r, HandlerDone)
    /\ UNCHANGED <<conn, Headerlink, mutex, pass, ptrs, mcuv, answered,
                   undefined>>

\* recv() fails or the peer has closed: the thread resets the state and ends.
LinkLost(r) ==
    /\ ~undefined /\ pc[r] = "idle"
    /\ m_ConnectedState' = FALSE /\ m_loginState' = 0
    /\ Goto(r, "gone")
    /\ UNCHANGED <<socketOpen, m_bEnableSendDataFlag, Headerlink, TimeOutType,
                   mutex, pass, ptrs, mcuv, answered, undefined>>

\* Accesses without the mutex that meet a section that uses it: a search
\* walks over a node being freed, a removal meets a removal or an insertion.
UnlockedAccess(r) ==
    /\ ~undefined
    /\ \/ Received(r) /\ m_loginState = 2 /\ \E t \in Threads : Freeing(t)
       \/ pc[r] = "loginDelete" /\ \E t \in Threads : Linking(t) \/ Freeing(t)
    /\ undefined' = TRUE
    /\ UNCHANGED <<conn, m_bEnableSendDataFlag, Headerlink, TimeOutType, mutex,
                   pc, app, pass, ptrs, mcuv, answered>>

-----------------------------------------------------------------------------
(* TimeOutThread: printf_link() and CheckTimer(), once a second.           *)

\* The two pointers before a pass: pf at the head, pb not yet used.
AtHead(list) ==
    /\ pf' = IF list = <<>> THEN None ELSE list[1].id
    /\ pb' = None
    /\ Goto(Poller, IF list = <<>> THEN "idle" ELSE "check")

PollStart ==
    /\ ~undefined /\ pc[Poller] = "idle"
    /\ m_ConnectedState /\ m_loginState = 2
    /\ Headerlink # <<>>
    /\ AtHead(Headerlink)
    /\ UNCHANGED <<conn, m_bEnableSendDataFlag, Headerlink, TimeOutType, mutex,
                   pass, mcuv, answered, undefined>>

\* TimeOutThread looks, without the mutex, at the node at position i.
Checking(i) ==
    ~undefined /\ pc[Poller] = "check" /\ Headerlink[i].id = pf

First(i)  == /\ TimeOutType[Headerlink[i].app] = 0
             /\ Headerlink[i].age >= FirstTimeout
Second(i) == /\ TimeOutType[Headerlink[i].app] = 1
             /\ Headerlink[i].age >= SecondTimeout

\* First timeout: the response is sent again, and then the old node removed.
PollFirst == \E i \in DOMAIN Headerlink :
    /\ Checking(i) /\ First(i)
    /\ TimeOutType' = [TimeOutType EXCEPT ![Headerlink[i].app] = 1]
    /\ GotoFor(Poller, "respond", Headerlink[i].app)
    /\ UNCHANGED <<conn, m_bEnableSendDataFlag, Headerlink, mutex, pass, ptrs,
                   mcuv, answered, undefined>>

\* Second timeout: the connection is declared lost.
PollSecond == \E i \in DOMAIN Headerlink :
    /\ Checking(i) /\ Second(i)
    /\ TimeOutType' = [TimeOutType EXCEPT ![Headerlink[i].app] = 2]
    /\ m_loginState' = 0 /\ m_ConnectedState' = FALSE
    /\ GotoFor(Poller, "unlink", Headerlink[i].app)
    /\ UNCHANGED <<socketOpen, m_bEnableSendDataFlag, Headerlink, mutex, pass,
                   ptrs, mcuv, answered, undefined>>

\* Mutant of PollNext: pb does not follow pf.
PollNextKeepsPb == \E i \in DOMAIN Headerlink :
    /\ Checking(i) /\ ~First(i) /\ ~Second(i)
    /\ IF i < Len(Headerlink)
       THEN pf' = Headerlink[i + 1].id /\ Goto(Poller, "check")
       ELSE pf' = None /\ Goto(Poller, "idle")
    /\ UNCHANGED <<conn, m_bEnableSendDataFlag, Headerlink, TimeOutType, mutex,
                   pass, pb, mcuv, answered, undefined>>

\* No timeout: on to the next node, or the end of the pass.
PollNext == \E i \in DOMAIN Headerlink :
    /\ Checking(i) /\ ~First(i) /\ ~Second(i)
    /\ IF i < Len(Headerlink)
       THEN pb' = pf /\ pf' = Headerlink[i + 1].id /\ Goto(Poller, "check")
       ELSE pb' = None /\ pf' = None /\ Goto(Poller, "idle")
    /\ UNCHANGED <<conn, m_bEnableSendDataFlag, Headerlink, TimeOutType, mutex,
                   pass, mcuv, answered, undefined>>

PollLock ==
    /\ ~undefined /\ pc[Poller] = "unlink" /\ mutex = None
    /\ mutex' = Poller
    /\ Goto(Poller, "unlinking")
    /\ UNCHANGED <<conn, m_bEnableSendDataFlag, Headerlink, TimeOutType, pass,
                   ptrs, mcuv, answered, undefined>>

\* The first node of the list: *head = pf->next; free(pf); pf = *head.
PollUnlinkHead == \E i \in DOMAIN Headerlink :
    /\ ~undefined /\ pc[Poller] = "unlinking" /\ pb = None
    /\ Headerlink[i].id = pf
    /\ Headerlink' = SubSeq(Headerlink, i + 1, Len(Headerlink))
    /\ AtHead(SubSeq(Headerlink, i + 1, Len(Headerlink)))
    /\ mutex' = None
    /\ UNCHANGED <<conn, m_bEnableSendDataFlag, TimeOutType, pass, mcuv,
                   answered, undefined>>

\* Any other node: pb->next = pf->next; free(pf); and then the mutex is
\* locked a second time where it should be unlocked: the thread never leaves
\* "relock", and the mutex is never free again.
PollUnlinkOther == \E i, j \in DOMAIN Headerlink :
    /\ ~undefined /\ pc[Poller] = "unlinking"
    /\ Headerlink[i].id = pf /\ Headerlink[j].id = pb
    /\ Headerlink' = SubSeq(Headerlink, 1, j)
                     \o SubSeq(Headerlink, i + 1, Len(Headerlink))
    /\ pf' = Freed
    /\ Goto(Poller, "relock")
    /\ UNCHANGED <<conn, m_bEnableSendDataFlag, TimeOutType, mutex, pass,
                   pb, mcuv, answered, undefined>>

\* pf, or at the removal pb, points to a node another thread has freed.
PollFreed ==
    /\ ~undefined
    /\ \/ pc[Poller] = "check" /\ pf = Freed
       \/ pc[Poller] = "unlinking" /\ Freed \in {pf, pb}
    /\ undefined' = TRUE
    /\ UNCHANGED <<conn, m_bEnableSendDataFlag, Headerlink, TimeOutType, mutex,
                   pc, app, pass, ptrs, mcuv, answered>>

-----------------------------------------------------------------------------
(* The MCU thread, the alarm signal, the main loop and time.               *)

\* Mutant of McuReply: an answer is taken though no command waits for one.
McuReplyUnasked ==
    /\ ~undefined /\ pc[Mcu] = "idle"
    /\ remoteCmd' = remoteCmd - 1
    /\ alarmSet' = FALSE
    /\ GotoFor(Mcu, "respond", RemoteCtrl)
    /\ UNCHANGED <<conn, m_bEnableSendDataFlag, Headerlink, TimeOutType, mutex,
                   pass, ptrs, answered, undefined>>

\* unpack_RemoteCtrl: the alarm is cancelled, the TSP is answered.
McuReply ==
    /\ ~undefined /\ pc[Mcu] = "idle" /\ remoteCmd > 0
    /\ remoteCmd' = remoteCmd - 1
    /\ alarmSet' = FALSE
    /\ GotoFor(Mcu, "respond", RemoteCtrl)
    /\ UNCHANGED <<conn, m_bEnableSendDataFlag, Headerlink, TimeOutType, mutex,
                   pass, ptrs, answered, undefined>>

\* The MCU has not answered within 5 s: the command is sent once more.
Sig_CtrlAlarm ==
    /\ ~undefined /\ alarmSet /\ remoteCmd < MaxCmds
    /\ alarmSet' = FALSE
    /\ remoteCmd' = remoteCmd + 1
    /\ UNCHANGED <<conn, m_bEnableSendDataFlag, Headerlink, TimeOutType, mutex,
                   pc, app, pass, ptrs, answered, undefined>>

\* Ten seconds without a completed login: the main loop gives it up.
LoginTimeout ==
    /\ ~undefined /\ m_ConnectedState /\ m_loginState \in {0, 1}
    /\ m_loginState' = 0 /\ m_ConnectedState' = FALSE
    /\ UNCHANGED <<socketOpen, m_bEnableSendDataFlag, Headerlink, TimeOutType,
                   mutex, pc, app, pass, ptrs, mcuv, answered, undefined>>

\* The main loop closes the socket of a lost connection.
disconnectSocket ==
    /\ ~undefined /\ socketOpen /\ ~m_ConnectedState
    /\ socketOpen' = FALSE /\ m_ConnectedState' = FALSE /\ m_loginState' = 0
    /\ UNCHANGED <<m_bEnableSendDataFlag, Headerlink, TimeOutType, mutex, pc,
                   app, pass, ptrs, mcuv, answered, undefined>>

\* At least 5 s later it connects again and starts a receive thread. What
\* TimeOutType holds is kept. Bound: no more receive threads than Receivers.
socketConnect(r) ==
    /\ ~undefined /\ ~socketOpen /\ pc[r] = "gone"
    /\ socketOpen' = TRUE /\ m_ConnectedState' = TRUE
    /\ Goto(r, "idle")
    /\ UNCHANGED <<m_loginState, m_bEnableSendDataFlag, Headerlink, TimeOutType,
                   mutex, pass, ptrs, mcuv, answered, undefined>>

Min2(a, b) == IF a < b THEN a ELSE b

\* Time passes. Bound: no age beyond SecondTimeout is told apart.
Tick ==
    /\ ~undefined
    /\ Headerlink' = [i \in DOMAIN Headerlink |->
          [Headerlink[i] EXCEPT !.age = Min2(@ + 1, SecondTimeout)]]
    /\ UNCHANGED <<conn, m_bEnableSendDataFlag, TimeOutType, mutex, pc, app,
                   pass, ptrs, mcuv, answered, undefined>>

-----------------------------------------------------------------------------
Receive(r) ==
    \/ RecvAuth(r) \/ RecvAuthReadyAck(r)
    \/ \E a \in Apps : RecvRequest(r, a) \/ RecvAck(r, a)
    \/ RecvRemoteCtrl(r) \/ RecvUnsupportedCtrl(r)
    \/ LinkLost(r)

Handle(r) ==
    \/ LoginCheck(r) \/ LoginDelete(r) \/ LoginClear(r)
    \/ AckLock(r) \/ AckDelete(r) \/ AckClear(r)
    \/ UnlockedAccess(r)

Poll ==
    \/ PollStart \/ PollFirst \/ PollSecond \/ PollNext
    \/ PollLock \/ PollUnlinkHead \/ PollUnlinkOther \/ PollFreed

Next ==
    \/ \E t \in Threads : Respond(t) \/ Insert(t)
    \/ \E r \in Receivers : Receive(r) \/ Handle(r) \/ socketConnect(r)
    \/ Poll
    \/ McuReply \/ Sig_CtrlAlarm
    \/ LoginTimeout \/ disconnectSocket \/ Tick

Spec == Init /\ [][Next]_vars

-----------------------------------------------------------------------------
(* Properties.                                                             *)

\* The mutex is held exactly by the thread that is inside a locked section,
\* or by TimeOutThread once it has locked twice: no handler returns with it.
MutexHeldInSection ==
    \A t \in Threads :
        mutex = t <=> Linking(t) \/ Freeing(t) \/ pc[t] = "relock"

\* While a logged-in T-Box does not let responses and reports leave, there is
\* a root-key replacement under way whose end enables them again: its response
\* is in the list, is about to be, or has just been acknowledged. (The flag is
\* cleared by one handler and set by two others; TimeOutThread resends and
\* removes the response in between.)
SendDisabledOnlyDuringKeyUpdate ==
    ~m_bEnableSendDataFlag /\ m_loginState = 2 =>
        \/ search(UpdateKey)
        \/ \E r \in Receivers : /\ app[r] = UpdateKey
                                /\ pc[r] \in {"respond", "insert", "ackClear"}

Outstanding(a) == {i \in DOMAIN Headerlink : Headerlink[i].app = a}

\* Threads that have inserted a response again and not yet removed the old one.
Replacing(a) ==
    {t \in Receivers \cup {Poller} :
        app[t] = a /\ pc[t] \in {"unlink", "unlinking", "loginDelete"}}

\* An application other than remote control waits for at most one
\* acknowledgement, and for one more while a thread replaces its node: the
\* unlocked search of the request handlers is enough to keep it so, whatever
\* TimeOutThread and the login insert. (The MCU thread answers without a
\* search, twice when the alarm has repeated a command.)
AtMostOneOutstanding ==
    \A a \in Apps \ {RemoteCtrl} :
        Cardinality(Outstanding(a)) <= 1 + Cardinality(Replacing(a))

\* As long as no thread frees a node under them, the two pointers of
\* TimeOutThread stay where printf_link believes them: pf alone at the head,
\* or pb directly before pf. Otherwise a removal would cut off live nodes.
PointersFollowList ==
    \A i \in DOMAIN Headerlink :
        Headerlink[i].id = pf /\ pb # Freed =>
            IF i = 1 THEN pb = None ELSE Headerlink[i - 1].id = pb

\* A second timeout is remembered until the response has been sent again: it
\* is forgotten only by an acknowledgement, or by a login that resent it.
\* (Comment before InitAcpTBoxAuthData: TimeOutType is not initialised there,
\* it records the timeouts so that a reconnection sends the packets again.)
\* The code does not keep this: README, Known deviations.
SecondTimeoutRemembered ==
    [][\A a \in Apps : TimeOutType[a] = 2 /\ TimeOutType'[a] # 2 =>
          \E r \in Receivers : \/ a \in resent[r]
                               \/ pc[r] = "ackClear" /\ app[r] = a]_vars

-----------------------------------------------------------------------------
(* Fairness: every thread goes on (the kernel schedules them all), a mutex *)
(* that is free again and again is obtained, recv() on a closed socket     *)
(* returns, the main loop reconnects, and of the logins that are started   *)
(* again and again one is completed by the TSP. Requests, acknowledgements,*)
(* answers of the MCU and the loss of the link are not owed.               *)

\* The steps of a thread that wait for no other thread, and those that wait
\* for the mutex or (LoginDelete) depend on what its holder is doing.
ReceiverRuns(r) ==
    \/ Insert(r) \/ LoginCheck(r) \/ LoginClear(r) \/ AckDelete(r) \/ AckClear(r)
    \/ LinkLost(r) /\ ~socketOpen
ReceiverWaits(r) == Respond(r) \/ AckLock(r) \/ LoginDelete(r)
PollerRuns ==
    \/ PollStart \/ PollFirst \/ PollSecond \/ PollNext
    \/ Insert(Poller) \/ PollUnlinkHead \/ PollUnlinkOther \/ PollFreed
PollerWaits == Respond(Poller) \/ PollLock
MainLoop == disconnectSocket \/ \E r \in Receivers : socketConnect(r)

Fairness ==
    /\ \A r \in Receivers : WF_vars(ReceiverRuns(r)) /\ SF_vars(ReceiverWaits(r))
    /\ WF_vars(PollerRuns) /\ SF_vars(PollerWaits)
    /\ WF_vars(Insert(Mcu)) /\ SF_vars(Respond(Mcu))
    /\ WF_vars(MainLoop)
    /\ SF_vars(\E r \in Receivers : RecvAuthReadyAck(r))
    /\ WF_vars(Tick)

FairSpec == Spec /\ Fairness

\* Sending that was disabled for a root-key replacement is enabled again, by
\* the acknowledgement or, if it never comes, by the login that follows the
\* second timeout: unless TimeOutThread has locked itself out before.
SendingResumes ==
    ~m_bEnableSendDataFlag ~>
        m_bEnableSendDataFlag \/ pc[Poller] = "relock" \/ undefined

\* TimeOutThread comes back to its 1 s wait after every pass. (Comment before
\* TimeOutThread: it polls the nodes of the list at an interval of 1 s and
\* removes those that have timed out.)
PollingGoesOn == pc[Poller] = "check" ~> pc[Poller] = "idle" \/ undefined
=============================================================================

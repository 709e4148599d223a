--------------------------- MODULE AcpLinkProofs ---------------------------
(***************************************************************************)
(* Proofs about AcpLink: type correctness, mutual exclusion, the position  *)
(* of TimeOutThread's pointers in the list; and, with one receive thread,  *)
(* that sending is disabled only while a root key is replaced and that no  *)
(* application waits for two acknowledgements.                             *)
(***************************************************************************)
EXTENDS AcpLink, SequenceTheorems, FunctionTheorems, FiniteSetTheorems,
        TLAPS

-----------------------------------------------------------------------------
(* Strengthenings.                                                         *)

\* A receiver that works on a login has a position in the list of checks.
LoginPosition ==
    \A r \in Receivers :
        /\ pc[r] \in {"login", "loginDelete", "loginClear"} => idx[r] > 0
        /\ pc[r] \in {"idle", "gone", "ackLock", "ackDelete", "ackClear"}
             => idx[r] = 0

\* No node is twice in the list.
UniqueNodes ==
    \A i, j \in DOMAIN Headerlink :
        Headerlink[i].id = Headerlink[j].id => i = j

\* A pointer of TimeOutThread that points to a node points into the list.
PointersLive == {pf, pb} \cap Nodes \subseteq InList

TypeInv == TypeOK /\ LoginPosition
ListInv == UniqueNodes /\ PointersLive /\ PointersFollowList

-----------------------------------------------------------------------------
(* Removing an element from a sequence.                                    *)

\* RemoveAt(s, i) is s without its i-th element: the type stays, the elements
\* before i keep their position and those behind it move down by one.
LEMMA RemoveAtProperties ==
    ASSUME NEW S, NEW s \in Seq(S), NEW i \in DOMAIN s
    PROVE  /\ RemoveAt(s, i) \in Seq(S)
           /\ DOMAIN RemoveAt(s, i) = 1..(Len(s) - 1)
           /\ \A k \in 1..(Len(s) - 1) :
                 RemoveAt(s, i)[k] = IF k < i THEN s[k] ELSE s[k + 1]
<1> DEFINE a == SubSeq(s, 1, i - 1)
           b == SubSeq(s, i + 1, Len(s))
<1>1. Len(s) \in Nat /\ DOMAIN s = 1..Len(s) /\ \A k \in 1..Len(s) : s[k] \in S
  BY LenProperties, ElementOfSeq
<1>2. /\ a \in Seq(S) /\ Len(a) = i - 1
      /\ \A k \in 1..(i - 1) : a[k] = s[k]
  BY <1>1, SubSeqProperties
<1>3. /\ b \in Seq(S) /\ Len(b) = Len(s) - i
      /\ \A k \in 1..(Len(s) - i) : b[k] = s[i + k]
  BY <1>1, SubSeqProperties
<1> HIDE DEF a, b
<1>4. /\ a \o b \in Seq(S) /\ Len(a \o b) = Len(s) - 1
      /\ \A k \in 1..(Len(s) - 1) :
            (a \o b)[k] = IF k <= i - 1 THEN a[k] ELSE b[k - (i - 1)]
  <2>1. /\ a \o b \in Seq(S)
        /\ Len(a \o b) = Len(a) + Len(b)
        /\ \A k \in 1..(Len(a) + Len(b)) :
              (a \o b)[k] = IF k <= Len(a) THEN a[k] ELSE b[k - Len(a)]
    BY <1>2, <1>3, ConcatProperties, Zenon
  <2>2. Len(a) + Len(b) = Len(s) - 1
    BY <1>1, <1>2, <1>3
  <2> QED
    BY <2>1, <2>2, <1>2, Zenon
<1>5. RemoveAt(s, i) = a \o b
  BY DEF RemoveAt, a, b
<1>6. DOMAIN (a \o b) = 1..(Len(s) - 1)
  BY <1>4, LenProperties
<1>7. ASSUME NEW k \in 1..(Len(s) - 1)
      PROVE  (a \o b)[k] = IF k < i THEN s[k] ELSE s[k + 1]
  <2>1. i \in Nat /\ k \in Nat
    BY <1>1
  <2>2. (a \o b)[k] = IF k <= i - 1 THEN a[k] ELSE b[k - (i - 1)]
    BY <1>4, Zenon
  <2>3. CASE k < i
    <3>1. k <= i - 1 /\ k \in 1..(i - 1)
      BY <2>1, <2>3
    <3>2. (a \o b)[k] = a[k] /\ a[k] = s[k]
      BY <2>2, <3>1, <1>2, Zenon
    <3> QED
      BY <3>2, <2>3, Zenon
  <2>4. CASE ~(k < i)
    <3>1. /\ ~(k <= i - 1)
          /\ k - (i - 1) \in 1..(Len(s) - i)
          /\ i + (k - (i - 1)) = k + 1
      BY <2>1, <2>4, <1>1
    <3>2. (a \o b)[k] = b[k - (i - 1)]
      BY <2>2, <3>1, Zenon
    <3>3. b[k - (i - 1)] = s[i + (k - (i - 1))]
      BY <1>3, <3>1, Zenon
    <3> QED
      BY <3>1, <3>2, <3>3, <2>4, Zenon
  <2> QED
    BY <2>3, <2>4, Zenon
<1> QED
  BY <1>4, <1>5, <1>6, <1>7

-----------------------------------------------------------------------------
(* Type correctness.                                                       *)

\* The elements of the list are nodes with an application and an age.
LEMMA ListElements ==
    ASSUME DataTypes
    PROVE  /\ Len(Headerlink) \in Nat /\ DOMAIN Headerlink = 1..Len(Headerlink)
           /\ \A i \in DOMAIN Headerlink :
                 /\ Headerlink[i] \in LinkTimer_t
                 /\ Headerlink[i].id \in Nodes
                 /\ Headerlink[i].app \in Apps
                 /\ Headerlink[i].age \in 0..SecondTimeout
<1>1. Headerlink \in Seq(LinkTimer_t)
  BY DEF DataTypes
<1>2. Len(Headerlink) \in Nat /\ DOMAIN Headerlink = 1..Len(Headerlink)
  BY <1>1, LenProperties
<1>3. \A i \in DOMAIN Headerlink : Headerlink[i] \in LinkTimer_t
  BY <1>1, <1>2, ElementOfSeq, Zenon
<1> QED
  BY <1>2, <1>3 DEF LinkTimer_t

\* delete_link keeps the types of the list and of the two pointers.
LEMMA DeleteLinkType ==
    ASSUME DataTypes, NEW a \in Apps, delete_link(a)
    PROVE  /\ Headerlink' \in Seq(LinkTimer_t)
           /\ pf' \in Nodes \cup {None, Freed} /\ pb' \in Nodes \cup {None, Freed}
<1>1. CASE UNCHANGED <<Headerlink, ptrs>>
  BY <1>1 DEF DataTypes, ptrs
<1>2. ASSUME NEW i \in DOMAIN Headerlink,
             Headerlink' = RemoveAt(Headerlink, i),
             pf' = AfterFree(pf, Headerlink[i].id),
             pb' = AfterFree(pb, Headerlink[i].id)
      PROVE  /\ Headerlink' \in Seq(LinkTimer_t)
             /\ pf' \in Nodes \cup {None, Freed} /\ pb' \in Nodes \cup {None, Freed}
  <2>1. Headerlink' \in Seq(LinkTimer_t)
    BY <1>2, RemoveAtProperties DEF DataTypes
  <2> QED
    BY <2>1, <1>2 DEF DataTypes, AfterFree
<1> QED
  BY <1>1, <1>2 DEF delete_link

\* The checks of a login are a finite, non-empty list of applications.
LEMMA LoginChecks ==
    /\ Len(AppOrder) \in Nat /\ Len(AppOrder) > 0
    /\ \A k \in 1..Len(AppOrder) : AppOrder[k] \in Apps
<1>1. AppOrder \in Seq(Apps) /\ AppOrder # <<>>
  BY LinkAssumption
<1> QED
  BY <1>1, LenProperties, ElementOfSeq, EmptySeq

LEMMA TypeInit == Init => TypeInv
<1> SUFFICES ASSUME Init PROVE TypeInv
  OBVIOUS
<1>1. Headerlink \in Seq(LinkTimer_t)
  BY EmptySeq DEF Init
<1>2. 0 \in 0..Len(AppOrder) /\ 0 \in 0..MaxCmds /\ RemoteCtrl \in Apps
  BY LoginChecks, LinkAssumption
<1>3. FlagTypes
  BY DEF Init, FlagTypes
<1>4. DataTypes
  BY <1>1, <1>2 DEF Init, DataTypes, Threads, Locations
<1>5. LoginPosition
  BY <1>1, <1>2 DEF Init, LoginPosition, Threads
<1> QED
  BY <1>3, <1>4, <1>5 DEF TypeInv, TypeOK

\* Every step keeps the flags Boolean.
LEMMA FlagTypesNext == FlagTypes /\ [Next]_vars => FlagTypes'
<1> SUFFICES ASSUME FlagTypes, [Next]_vars PROVE FlagTypes'
  OBVIOUS
<1> USE DEF FlagTypes, conn, mcuv
<1>0. CASE UNCHANGED vars
  BY <1>0 DEF vars
<1>1. ASSUME NEW t \in Threads, Respond(t)
      PROVE  FlagTypes'
  BY <1>1 DEF Respond
<1>2. ASSUME NEW t \in Threads, Insert(t)
      PROVE  FlagTypes'
  BY <1>2 DEF Insert
<1>3. ASSUME NEW r \in Receivers, RecvAuth(r)
      PROVE  FlagTypes'
  BY <1>3 DEF RecvAuth
<1>4. ASSUME NEW r \in Receivers, RecvAuthReadyAck(r)
      PROVE  FlagTypes'
  BY <1>4 DEF RecvAuthReadyAck
<1>5. ASSUME NEW r \in Receivers, NEW a \in Apps, RecvRequest(r, a)
      PROVE  FlagTypes'
  BY <1>5 DEF RecvRequest
<1>6. ASSUME NEW r \in Receivers, NEW a \in Apps, RecvAck(r, a)
      PROVE  FlagTypes'
  BY <1>6 DEF RecvAck
<1>7. ASSUME NEW r \in Receivers, RecvRemoteCtrl(r)
      PROVE  FlagTypes'
  BY <1>7 DEF RecvRemoteCtrl
<1>8. ASSUME NEW r \in Receivers, RecvUnsupportedCtrl(r)
      PROVE  FlagTypes'
  BY <1>8 DEF RecvUnsupportedCtrl
<1>9. ASSUME NEW r \in Receivers, LinkLost(r)
      PROVE  FlagTypes'
  BY <1>9 DEF LinkLost
<1>10. ASSUME NEW r \in Receivers, LoginCheck(r)
      PROVE  FlagTypes'
  BY <1>10 DEF LoginCheck
<1>11. ASSUME NEW r \in Receivers, LoginDelete(r)
      PROVE  FlagTypes'
  BY <1>11 DEF LoginDelete
<1>12. ASSUME NEW r \in Receivers, LoginClear(r)
      PROVE  FlagTypes'
  BY <1>12 DEF LoginClear
<1>13. ASSUME NEW r \in Receivers, AckLock(r)
      PROVE  FlagTypes'
  BY <1>13 DEF AckLock
<1>14. ASSUME NEW r \in Receivers, AckDelete(r)
      PROVE  FlagTypes'
  BY <1>14 DEF AckDelete
<1>15. ASSUME NEW r \in Receivers, AckClear(r)
      PROVE  FlagTypes'
  BY <1>15 DEF AckClear
<1>16. ASSUME NEW r \in Receivers, UnlockedAccess(r)
      PROVE  FlagTypes'
  BY <1>16 DEF UnlockedAccess
<1>17. ASSUME NEW r \in Receivers, socketConnect(r)
      PROVE  FlagTypes'
  BY <1>17 DEF socketConnect
<1>18. CASE PollStart
  BY <1>18 DEF PollStart
<1>19. CASE PollFirst
  BY <1>19 DEF PollFirst
<1>20. CASE PollSecond
  BY <1>20 DEF PollSecond
<1>21. CASE PollNext
  BY <1>21 DEF PollNext
<1>22. CASE PollLock
  BY <1>22 DEF PollLock
<1>23. CASE PollUnlinkHead
  BY <1>23 DEF PollUnlinkHead
<1>24. CASE PollUnlinkOther
  BY <1>24 DEF PollUnlinkOther
<1>25. CASE PollFreed
  BY <1>25 DEF PollFreed
<1>26. CASE McuReply
  BY <1>26 DEF McuReply
<1>27. CASE Sig_CtrlAlarm
  BY <1>27 DEF Sig_CtrlAlarm
<1>28. CASE LoginTimeout
  BY <1>28 DEF LoginTimeout
<1>29. CASE disconnectSocket
  BY <1>29 DEF disconnectSocket
<1>30. CASE Tick
  BY <1>30 DEF Tick
<1> QED
  BY <1>0, <1>1, <1>2, <1>3, <1>4, <1>5, <1>6, <1>7, <1>8, <1>9, <1>10, <1>11, <1>12, <1>13, <1>14, <1>15, <1>16, <1>17, <1>18, <1>19, <1>20, <1>21, <1>22, <1>23, <1>24, <1>25, <1>26, <1>27, <1>28, <1>29, <1>30 DEF Next, Receive, Handle, Poll

\* Every step keeps the types of the data.
LEMMA DataTypesNext == DataTypes /\ LoginPosition /\ [Next]_vars => DataTypes'
<1> SUFFICES ASSUME DataTypes, LoginPosition, [Next]_vars PROVE DataTypes'
  OBVIOUS
<1> USE DEF DataTypes, LinkTimer_t, Threads, Locations, conn, pass, ptrs, mcuv
<1>0. CASE UNCHANGED vars
  BY <1>0 DEF vars
<1>a. /\ RemoteCtrl \in Apps /\ UpdateKey \in Apps
      /\ SecondTimeout \in Nat /\ MaxCmds \in Nat
  BY LinkAssumption
<1>1. ASSUME NEW t \in Threads, Respond(t)
      PROVE  DataTypes'
  <2>1. HandlerDone \in Locations /\ AfterRespond(t) \in Locations
    BY DEF HandlerDone, AfterRespond
  <2>2. PICK l \in Locations : Goto(t, l)
    BY <1>1, <2>1 DEF Respond
  <2>3. pc' \in [Threads -> Locations] /\ app' \in [Threads -> Apps]
    BY <1>a, <2>2 DEF Goto, GotoFor
  <2>4. mutex' \in Threads \cup {None}
    BY <1>1 DEF Respond
  <2> QED
    BY <1>1, <2>3, <2>4 DEF Respond
<1>2. ASSUME NEW t \in Threads, Insert(t)
      PROVE  DataTypes'
  BY <1>2, <1>a DEF Insert, insertlink, InList, Goto, GotoFor, Working, AfterRespond, HandlerDone
<1>3. ASSUME NEW r \in Receivers, RecvAuth(r)
      PROVE  DataTypes'
  BY <1>3, <1>a DEF RecvAuth, Received, Goto, GotoFor, Working, AfterRespond, HandlerDone
<1>4. ASSUME NEW r \in Receivers, RecvAuthReadyAck(r)
      PROVE  DataTypes'
  BY <1>4, <1>a, LoginChecks DEF RecvAuthReadyAck, Received, Goto, GotoFor, Working
<1>5. ASSUME NEW r \in Receivers, NEW a \in Apps, RecvRequest(r, a)
      PROVE  DataTypes'
  BY <1>5, <1>a DEF RecvRequest, Received, NewRequest, Goto, GotoFor, Working, AfterRespond, HandlerDone
<1>6. ASSUME NEW r \in Receivers, NEW a \in Apps, RecvAck(r, a)
      PROVE  DataTypes'
  BY <1>6, <1>a DEF RecvAck, Received, Goto, GotoFor, Working, AfterRespond, HandlerDone
<1>7. ASSUME NEW r \in Receivers, RecvRemoteCtrl(r)
      PROVE  DataTypes'
  BY <1>7, <1>a DEF RecvRemoteCtrl, Received, NewRequest, Goto, GotoFor, Working, AfterRespond, HandlerDone
<1>8. ASSUME NEW r \in Receivers, RecvUnsupportedCtrl(r)
      PROVE  DataTypes'
  BY <1>8, <1>a DEF RecvUnsupportedCtrl, Received, NewRequest, Goto, GotoFor, Working, AfterRespond, HandlerDone
<1>9. ASSUME NEW r \in Receivers, LinkLost(r)
      PROVE  DataTypes'
  BY <1>9, <1>a DEF LinkLost, Goto, GotoFor, Working, AfterRespond, HandlerDone
<1>10. ASSUME NEW r \in Receivers, LoginCheck(r)
      PROVE  DataTypes'
  <2>1. AppOrder[idx[r]] \in Apps
    BY <1>10, LoginChecks DEF LoginCheck, LoginPosition
  <2>2. \/ idx' = idx
        \/ idx[r] < Len(AppOrder) /\ idx' = [idx EXCEPT ![r] = @ + 1]
    BY <1>10 DEF LoginCheck, NextLoginCheck
  <2>3. idx' \in [Receivers -> 0..Len(AppOrder)]
    BY <2>2, LoginChecks
  <2> QED
    BY <1>10, <1>a, <2>1, <2>3 DEF LoginCheck, NextLoginCheck, Goto, GotoFor
<1>11. ASSUME NEW r \in Receivers, LoginDelete(r)
      PROVE  DataTypes'
  <2>1. /\ Headerlink' \in Seq(LinkTimer_t)
        /\ pf' \in Nodes \cup {None, Freed} /\ pb' \in Nodes \cup {None, Freed}
    <3>1. app[r] \in Apps /\ delete_link(app[r])
      BY <1>11 DEF LoginDelete
    <3> QED
      BY <3>1, DeleteLinkType
  <2>2. idx' \in [Receivers -> 0..Len(AppOrder)]
    BY <1>11, LoginChecks DEF LoginDelete, NextLoginCheck
  <2> QED
    BY <1>11, <1>a, <2>1, <2>2 DEF LoginDelete, NextLoginCheck, Goto, GotoFor
<1>12. ASSUME NEW r \in Receivers, LoginClear(r)
      PROVE  DataTypes'
  BY <1>12, <1>a DEF LoginClear, Goto, GotoFor, Working, AfterRespond, HandlerDone
<1>13. ASSUME NEW r \in Receivers, AckLock(r)
      PROVE  DataTypes'
  BY <1>13, <1>a DEF AckLock, Goto, GotoFor, Working, AfterRespond, HandlerDone
<1>14. ASSUME NEW r \in Receivers, AckDelete(r)
      PROVE  DataTypes'
  <2>1. /\ Headerlink' \in Seq(LinkTimer_t)
        /\ pf' \in Nodes \cup {None, Freed} /\ pb' \in Nodes \cup {None, Freed}
    <3>1. app[r] \in Apps /\ delete_link(app[r])
      BY <1>14 DEF AckDelete
    <3> QED
      BY <3>1, DeleteLinkType
  <2> QED
    BY <1>14, <1>a, <2>1 DEF AckDelete, Goto, GotoFor
<1>15. ASSUME NEW r \in Receivers, AckClear(r)
      PROVE  DataTypes'
  BY <1>15, <1>a DEF AckClear, Goto, GotoFor, Working, AfterRespond, HandlerDone
<1>16. ASSUME NEW r \in Receivers, UnlockedAccess(r)
      PROVE  DataTypes'
  BY <1>16, <1>a DEF UnlockedAccess, Goto, GotoFor, Working
<1>17. ASSUME NEW r \in Receivers, socketConnect(r)
      PROVE  DataTypes'
  BY <1>17, <1>a DEF socketConnect, Goto, GotoFor, Working, AfterRespond, HandlerDone
<1>18. CASE PollStart
  <2>1. AtHead(Headerlink) => pf' \in Nodes \cup {None, Freed}
    BY ListElements, EmptySeq DEF AtHead
  <2> QED
    BY <1>18, <1>a, <2>1 DEF PollStart, AtHead, Goto, GotoFor
<1>19. CASE PollFirst
  <2>1. PICK i \in DOMAIN Headerlink : PollFirst!(i)
    BY <1>19 DEF PollFirst
  <2>2. Headerlink[i].app \in Apps
    BY ListElements
  <2> QED
    BY <2>1, <2>2, <1>a DEF Goto, GotoFor
<1>20. CASE PollSecond
  <2>1. PICK i \in DOMAIN Headerlink : PollSecond!(i)
    BY <1>20 DEF PollSecond
  <2>2. Headerlink[i].app \in Apps
    BY ListElements
  <2> QED
    BY <2>1, <2>2, <1>a DEF Goto, GotoFor
<1>21. CASE PollNext
  <2>1. PICK i \in DOMAIN Headerlink : PollNext!(i)
    BY <1>21 DEF PollNext
  <2>2. i < Len(Headerlink) => Headerlink[i + 1].id \in Nodes
    BY ListElements
  <2> QED
    BY <2>1, <2>2, <1>a DEF Goto, GotoFor
<1>22. CASE PollLock
  BY <1>22, <1>a DEF PollLock, Goto, GotoFor, Working
<1>23. CASE PollUnlinkHead
  <2>1. PICK i \in DOMAIN Headerlink : PollUnlinkHead!(i)
    BY <1>23 DEF PollUnlinkHead
  <2> DEFINE rest == SubSeq(Headerlink, i + 1, Len(Headerlink))
  <2>2. rest \in Seq(LinkTimer_t)
    BY ListElements, SubSeqProperties
  <2>3. Headerlink' = rest /\ AtHead(rest)
    BY <2>1
  <2> HIDE DEF rest
  <2>4. ASSUME rest # <<>> PROVE rest[1].id \in Nodes
    <3>1. Len(rest) \in Nat /\ Len(rest) # 0
      BY <2>2, <2>4, LenProperties, EmptySeq, Zenon
    <3>2. 1 \in 1..Len(rest)
      BY <3>1
    <3>3. rest[1] \in LinkTimer_t
      BY <2>2, <3>2, ElementOfSeq, Zenon
    <3> QED
      BY <3>3
  <2>5. pf' \in Nodes \cup {None, Freed} /\ pb' \in Nodes \cup {None, Freed}
    BY <2>3, <2>4 DEF AtHead
  <2>6. pc' \in [Threads -> Locations] /\ app' \in [Threads -> Apps]
    BY <2>3, <1>a DEF AtHead, Goto, GotoFor
  <2> QED
    BY <2>1, <2>2, <2>3, <2>5, <2>6
<1>24. CASE PollUnlinkOther
  <2>1. PICK i, j \in DOMAIN Headerlink : PollUnlinkOther!(i, j)
    BY <1>24 DEF PollUnlinkOther
  <2>2. /\ SubSeq(Headerlink, 1, j) \in Seq(LinkTimer_t)
        /\ SubSeq(Headerlink, i + 1, Len(Headerlink)) \in Seq(LinkTimer_t)
    <3>1. /\ 1 \in Int /\ j \in Int /\ i + 1 \in Int /\ Len(Headerlink) \in Int
          /\ \A k \in 1..j : k \in DOMAIN Headerlink
          /\ \A k \in i + 1..Len(Headerlink) : k \in DOMAIN Headerlink
      BY ListElements
    <3>2. /\ \A k \in 1..j : Headerlink[k] \in LinkTimer_t
          /\ \A k \in i + 1..Len(Headerlink) : Headerlink[k] \in LinkTimer_t
      BY <3>1, ListElements, Zenon
    <3> QED
      BY <3>1, <3>2, SubSeqProperties, ZenonT(30)
  <2>3. Headerlink' \in Seq(LinkTimer_t)
    BY <2>1, <2>2, ConcatProperties
  <2> QED
    BY <2>1, <2>3, <1>a DEF Goto, GotoFor
<1>25. CASE PollFreed
  BY <1>25, <1>a DEF PollFreed, Goto, GotoFor, Working
<1>26. CASE McuReply
  BY <1>26, <1>a DEF McuReply, Goto, GotoFor, Working
<1>27. CASE Sig_CtrlAlarm
  BY <1>27, <1>a DEF Sig_CtrlAlarm, Goto, GotoFor, Working
<1>28. CASE LoginTimeout
  BY <1>28, <1>a DEF LoginTimeout, Goto, GotoFor, Working
<1>29. CASE disconnectSocket
  BY <1>29, <1>a DEF disconnectSocket, Goto, GotoFor, Working
<1>30. CASE Tick
  <2>1. ASSUME NEW i \in DOMAIN Headerlink
        PROVE  [Headerlink[i] EXCEPT !.age = Min2(@ + 1, SecondTimeout)]
                 \in LinkTimer_t
    <3>1. Headerlink[i].age \in Nat /\ Headerlink[i].age <= SecondTimeout
      BY <1>a, ListElements
    <3>2. Min2(Headerlink[i].age + 1, SecondTimeout) \in 0..SecondTimeout
      BY <1>a, <3>1 DEF Min2
    <3>3. Headerlink[i] \in LinkTimer_t
      BY ListElements
    <3> QED
      BY <3>2, <3>3
  <2>2. Headerlink' = [i \in DOMAIN Headerlink |->
                [Headerlink[i] EXCEPT !.age = Min2(@ + 1, SecondTimeout)]]
    BY <1>30 DEF Tick
  <2>3. /\ Len(Headerlink) \in Nat
        /\ Headerlink' \in [1..Len(Headerlink) -> LinkTimer_t]
    BY <2>1, <2>2, ListElements, Zenon
  <2>4. Headerlink' \in Seq(LinkTimer_t)
    <3>1. Headerlink' \in UNION {[1..n -> LinkTimer_t] : n \in Nat}
      BY <2>3, Zenon
    <3> QED
      BY <3>1, SeqDef, Zenon
  <2> QED
    BY <1>30, <2>4 DEF Tick
<1> QED
  BY <1>0, <1>1, <1>2, <1>3, <1>4, <1>5, <1>6, <1>7, <1>8, <1>9, <1>10, <1>11, <1>12, <1>13, <1>14, <1>15, <1>16, <1>17, <1>18, <1>19, <1>20, <1>21, <1>22, <1>23, <1>24, <1>25, <1>26, <1>27, <1>28, <1>29, <1>30
     DEF Next, Receive, Handle, Poll

\* Every step keeps the position of a receiver in its login.
LEMMA LoginPositionNext == DataTypes /\ LoginPosition /\ [Next]_vars => LoginPosition'
<1> SUFFICES ASSUME DataTypes, LoginPosition, [Next]_vars PROVE LoginPosition'
  OBVIOUS
<1> USE DEF LoginPosition, DataTypes, Threads, Goto, GotoFor, pass
<1>0. CASE UNCHANGED vars
  BY <1>0 DEF vars
<1>a. Poller \notin Receivers /\ Mcu \notin Receivers
  BY LinkAssumption
<1>1. ASSUME NEW t \in Threads, Respond(t)
      PROVE  LoginPosition'
  BY <1>1, <1>a DEF Respond, AfterRespond, HandlerDone
<1>2. ASSUME NEW t \in Threads, Insert(t)
      PROVE  LoginPosition'
  BY <1>2, <1>a DEF Insert, insertlink, InList, AfterRespond, HandlerDone
<1>3. ASSUME NEW r \in Receivers, RecvAuth(r)
      PROVE  LoginPosition'
  BY <1>3, <1>a DEF RecvAuth, Received, AfterRespond, HandlerDone
<1>4. ASSUME NEW r \in Receivers, RecvAuthReadyAck(r)
      PROVE  LoginPosition'
  BY <1>4, <1>a DEF RecvAuthReadyAck, Received
<1>5. ASSUME NEW r \in Receivers, NEW a \in Apps, RecvRequest(r, a)
      PROVE  LoginPosition'
  BY <1>5, <1>a DEF RecvRequest, Received, NewRequest, AfterRespond, HandlerDone
<1>6. ASSUME NEW r \in Receivers, NEW a \in Apps, RecvAck(r, a)
      PROVE  LoginPosition'
  BY <1>6, <1>a DEF RecvAck, Received, AfterRespond, HandlerDone
<1>7. ASSUME NEW r \in Receivers, RecvRemoteCtrl(r)
      PROVE  LoginPosition'
  BY <1>7, <1>a DEF RecvRemoteCtrl, Received, NewRequest, AfterRespond, HandlerDone
<1>8. ASSUME NEW r \in Receivers, RecvUnsupportedCtrl(r)
      PROVE  LoginPosition'
  BY <1>8, <1>a DEF RecvUnsupportedCtrl, Received, NewRequest, AfterRespond, HandlerDone
<1>9. ASSUME NEW r \in Receivers, LinkLost(r)
      PROVE  LoginPosition'
  BY <1>9, <1>a DEF LinkLost, AfterRespond, HandlerDone
<1>10. ASSUME NEW r \in Receivers, LoginCheck(r)
      PROVE  LoginPosition'
  BY <1>10, <1>a DEF LoginCheck, NextLoginCheck
<1>11. ASSUME NEW r \in Receivers, LoginDelete(r)
      PROVE  LoginPosition'
  BY <1>11, <1>a DEF LoginDelete, NextLoginCheck
<1>12. ASSUME NEW r \in Receivers, LoginClear(r)
      PROVE  LoginPosition'
  BY <1>12, <1>a DEF LoginClear, AfterRespond, HandlerDone
<1>13. ASSUME NEW r \in Receivers, AckLock(r)
      PROVE  LoginPosition'
  BY <1>13, <1>a DEF AckLock, AfterRespond, HandlerDone
<1>14. ASSUME NEW r \in Receivers, AckDelete(r)
      PROVE  LoginPosition'
  BY <1>14, <1>a DEF AckDelete, AfterRespond, HandlerDone
<1>15. ASSUME NEW r \in Receivers, AckClear(r)
      PROVE  LoginPosition'
  BY <1>15, <1>a DEF AckClear, AfterRespond, HandlerDone
<1>16. ASSUME NEW r \in Receivers, UnlockedAccess(r)
      PROVE  LoginPosition'
  BY <1>16, <1>a DEF UnlockedAccess
<1>17. ASSUME NEW r \in Receivers, socketConnect(r)
      PROVE  LoginPosition'
  BY <1>17, <1>a DEF socketConnect, AfterRespond, HandlerDone
<1>18. CASE PollStart
  BY <1>18, <1>a DEF PollStart, AtHead
<1>19. CASE PollFirst
  BY <1>19, <1>a DEF PollFirst, Checking, First
<1>20. CASE PollSecond
  BY <1>20, <1>a DEF PollSecond, Checking, Second
<1>21. CASE PollNext
  BY <1>21, <1>a DEF PollNext, Checking
<1>22. CASE PollLock
  BY <1>22, <1>a DEF PollLock
<1>23. CASE PollUnlinkHead
  BY <1>23, <1>a DEF PollUnlinkHead, AtHead
<1>24. CASE PollUnlinkOther
  BY <1>24, <1>a DEF PollUnlinkOther
<1>25. CASE PollFreed
  BY <1>25, <1>a DEF PollFreed
<1>26. CASE McuReply
  BY <1>26, <1>a DEF McuReply
<1>27. CASE Sig_CtrlAlarm
  BY <1>27, <1>a DEF Sig_CtrlAlarm
<1>28. CASE LoginTimeout
  BY <1>28, <1>a DEF LoginTimeout
<1>29. CASE disconnectSocket
  BY <1>29, <1>a DEF disconnectSocket
<1>30. CASE Tick
  BY <1>30, <1>a DEF Tick
<1> QED
  BY <1>0, <1>1, <1>2, <1>3, <1>4, <1>5, <1>6, <1>7, <1>8, <1>9, <1>10, <1>11, <1>12, <1>13, <1>14, <1>15, <1>16, <1>17, <1>18, <1>19, <1>20, <1>21, <1>22, <1>23, <1>24, <1>25, <1>26, <1>27, <1>28, <1>29, <1>30
     DEF Next, Receive, Handle, Poll

LEMMA TypeNext == TypeInv /\ [Next]_vars => TypeInv'
  BY FlagTypesNext, DataTypesNext, LoginPositionNext DEF TypeInv, TypeOK

\* The variables of the response list and its threads keep their types.
THEOREM TypeCorrect == Spec => []TypeOK
<1>1. TypeInv => TypeOK
  BY DEF TypeInv
<1> QED
  BY <1>1, TypeInit, TypeNext, PTL DEF Spec

-----------------------------------------------------------------------------
(* Mutual exclusion.                                                       *)

LEMMA MutexInit == Init => MutexHeldInSection
<1>1. None \notin Threads
  BY LinkAssumption
<1> QED
  BY <1>1 DEF Init, MutexHeldInSection, Linking, Freeing

\* Only the thread that holds the mutex can be inside a section, so that the
\* step of one thread says nothing of the others.
LEMMA MutexNext ==
    DataTypes /\ MutexHeldInSection /\ [Next]_vars => MutexHeldInSection'
<1> SUFFICES ASSUME DataTypes, MutexHeldInSection, [Next]_vars
             PROVE  MutexHeldInSection'
  OBVIOUS
<1> USE DEF MutexHeldInSection, Linking, Freeing, Goto, GotoFor
<1>a. /\ None \notin Threads /\ Poller \in Threads /\ Mcu \in Threads
      /\ Receivers \subseteq Threads /\ pc \in [Threads -> Locations]
  BY LinkAssumption DEF DataTypes, Threads
<1>0. CASE UNCHANGED vars
  BY <1>0 DEF vars
<1>1. ASSUME NEW t \in Threads, Respond(t)
      PROVE  MutexHeldInSection'
  BY <1>1, <1>a DEF Respond, AfterRespond, HandlerDone
<1>2. ASSUME NEW t \in Threads, Insert(t)
      PROVE  MutexHeldInSection'
  BY <1>2, <1>a DEF Insert, AfterRespond, HandlerDone
<1>3. ASSUME NEW r \in Receivers, RecvAuth(r)
      PROVE  MutexHeldInSection'
  BY <1>3, <1>a DEF RecvAuth, Received, AfterRespond, HandlerDone
<1>4. ASSUME NEW r \in Receivers, RecvAuthReadyAck(r)
      PROVE  MutexHeldInSection'
  BY <1>4, <1>a DEF RecvAuthReadyAck, Received
<1>5. ASSUME NEW r \in Receivers, NEW a \in Apps, RecvRequest(r, a)
      PROVE  MutexHeldInSection'
  BY <1>5, <1>a DEF RecvRequest, NewRequest, Received
<1>6. ASSUME NEW r \in Receivers, NEW a \in Apps, RecvAck(r, a)
      PROVE  MutexHeldInSection'
  BY <1>6, <1>a DEF RecvAck, Received, AfterRespond, HandlerDone
<1>7. ASSUME NEW r \in Receivers, RecvRemoteCtrl(r)
      PROVE  MutexHeldInSection'
  BY <1>7, <1>a DEF RecvRemoteCtrl, NewRequest, Received, AfterRespond, HandlerDone
<1>8. ASSUME NEW r \in Receivers, RecvUnsupportedCtrl(r)
      PROVE  MutexHeldInSection'
  BY <1>8, <1>a DEF RecvUnsupportedCtrl, NewRequest, Received, AfterRespond, HandlerDone
<1>9. ASSUME NEW r \in Receivers, LinkLost(r)
      PROVE  MutexHeldInSection'
  BY <1>9, <1>a DEF LinkLost, AfterRespond, HandlerDone
<1>10. ASSUME NEW r \in Receivers, LoginCheck(r)
      PROVE  MutexHeldInSection'
  BY <1>10, <1>a DEF LoginCheck, NextLoginCheck
<1>11. ASSUME NEW r \in Receivers, LoginDelete(r)
      PROVE  MutexHeldInSection'
  BY <1>11, <1>a DEF LoginDelete, NextLoginCheck
<1>12. ASSUME NEW r \in Receivers, LoginClear(r)
      PROVE  MutexHeldInSection'
  BY <1>12, <1>a DEF LoginClear, AfterRespond, HandlerDone
<1>13. ASSUME NEW r \in Receivers, AckLock(r)
      PROVE  MutexHeldInSection'
  BY <1>13, <1>a DEF AckLock
<1>14. ASSUME NEW r \in Receivers, AckDelete(r)
      PROVE  MutexHeldInSection'
  BY <1>14, <1>a DEF AckDelete
<1>15. ASSUME NEW r \in Receivers, AckClear(r)
      PROVE  MutexHeldInSection'
  BY <1>15, <1>a DEF AckClear, AfterRespond, HandlerDone
<1>16. ASSUME NEW r \in Receivers, UnlockedAccess(r)
      PROVE  MutexHeldInSection'
  BY <1>16, <1>a DEF UnlockedAccess
<1>17. ASSUME NEW r \in Receivers, socketConnect(r)
      PROVE  MutexHeldInSection'
  BY <1>17, <1>a DEF socketConnect
<1>18. CASE PollStart
  BY <1>18, <1>a DEF PollStart, AtHead
<1>19. CASE PollFirst
  BY <1>19, <1>a DEF PollFirst, Checking
<1>20. CASE PollSecond
  BY <1>20, <1>a DEF PollSecond, Checking
<1>21. CASE PollNext
  BY <1>21, <1>a DEF PollNext, Checking
<1>22. CASE PollLock
  BY <1>22, <1>a DEF PollLock
<1>23. CASE PollUnlinkHead
  BY <1>23, <1>a DEF PollUnlinkHead, AtHead
<1>24. CASE PollUnlinkOther
  BY <1>24, <1>a DEF PollUnlinkOther
<1>25. CASE PollFreed
  BY <1>25, <1>a DEF PollFreed
<1>26. CASE McuReply
  BY <1>26, <1>a DEF McuReply
<1>27. CASE Sig_CtrlAlarm
  BY <1>27, <1>a DEF Sig_CtrlAlarm
<1>28. CASE LoginTimeout
  BY <1>28, <1>a DEF LoginTimeout
<1>29. CASE disconnectSocket
  BY <1>29, <1>a DEF disconnectSocket
<1>30. CASE Tick
  BY <1>30, <1>a DEF Tick
<1> QED
  BY <1>0, <1>1, <1>2, <1>3, <1>4, <1>5, <1>6, <1>7, <1>8, <1>9, <1>10, <1>11, <1>12, <1>13, <1>14, <1>15, <1>16, <1>17, <1>18, <1>19, <1>20, <1>21, <1>22, <1>23, <1>24, <1>25, <1>26, <1>27, <1>28, <1>29, <1>30
     DEF Next, Receive, Handle, Poll

\* The mutex is held exactly inside the locked sections, by one thread.
THEOREM MutexCorrect == Spec => []MutexHeldInSection
<1>1. TypeInv /\ MutexHeldInSection /\ [Next]_vars => MutexHeldInSection'
  BY MutexNext DEF TypeInv, TypeOK
<1> QED
  BY <1>1, TypeInit, TypeNext, MutexInit, PTL DEF Spec

-----------------------------------------------------------------------------
(* The list and TimeOutThread's pointers into it.                          *)

\* The steps that change the list or one of the pointers.
LEMMA ListSteps ==
    ASSUME [Next]_vars
    PROVE  \/ UNCHANGED <<Headerlink, pf, pb>>
           \/ \E t \in Threads : Insert(t)
           \/ \E r \in Receivers : delete_link(app[r])
           \/ PollStart \/ PollNext \/ PollUnlinkHead \/ PollUnlinkOther
           \/ Tick
<1> USE DEF conn, pass, ptrs, mcuv
<1>1. ASSUME NEW t \in Threads, Respond(t) PROVE UNCHANGED <<Headerlink, pf, pb>>
  BY <1>1 DEF Respond
<1>2. ASSUME NEW r \in Receivers, Receive(r)
      PROVE  UNCHANGED <<Headerlink, pf, pb>>
  BY <1>2 DEF Receive, RecvAuth, RecvAuthReadyAck, RecvRequest, RecvAck,
              RecvRemoteCtrl, RecvUnsupportedCtrl, LinkLost
<1>3. ASSUME NEW r \in Receivers, Handle(r)
      PROVE  UNCHANGED <<Headerlink, pf, pb>> \/ delete_link(app[r])
  BY <1>3 DEF Handle, LoginCheck, LoginDelete, LoginClear, AckLock, AckDelete,
              AckClear, UnlockedAccess
<1>4. ASSUME NEW r \in Receivers, socketConnect(r)
      PROVE  UNCHANGED <<Headerlink, pf, pb>>
  BY <1>4 DEF socketConnect
<1>5. ASSUME PollFirst \/ PollSecond \/ PollLock \/ PollFreed
      PROVE  UNCHANGED <<Headerlink, pf, pb>>
  BY <1>5 DEF PollFirst, PollSecond, PollLock, PollFreed
<1>6. ASSUME McuReply \/ Sig_CtrlAlarm \/ LoginTimeout \/ disconnectSocket
      PROVE  UNCHANGED <<Headerlink, pf, pb>>
  BY <1>6 DEF McuReply, Sig_CtrlAlarm, LoginTimeout, disconnectSocket
<1>7. CASE UNCHANGED vars
  BY <1>7 DEF vars
<1> QED
  BY <1>1, <1>2, <1>3, <1>4, <1>5, <1>6, <1>7 DEF Next, Poll

\* A removal from anywhere in the list, whose node becomes Freed where a
\* pointer points to it.
LEMMA DeleteLinkList ==
    ASSUME DataTypes, ListInv, NEW a \in Apps, delete_link(a)
    PROVE  ListInv'
<1> USE DEF ListInv, UniqueNodes, PointersLive, PointersFollowList, InList
<1>a. /\ None \notin Nodes /\ Freed \notin Nodes /\ None # Freed
  BY LinkAssumption
<1>1. CASE UNCHANGED <<Headerlink, ptrs>>
  BY <1>1 DEF ptrs
<1>2. ASSUME NEW i \in DOMAIN Headerlink,
             Headerlink' = RemoveAt(Headerlink, i),
             pf' = AfterFree(pf, Headerlink[i].id),
             pb' = AfterFree(pb, Headerlink[i].id)
      PROVE  ListInv'
  <2>1. /\ Len(Headerlink) \in Nat /\ DOMAIN Headerlink = 1..Len(Headerlink)
        /\ \A k \in DOMAIN Headerlink : Headerlink[k].id \in Nodes
    BY ListElements
  <2>2. /\ DOMAIN Headerlink' = 1..(Len(Headerlink) - 1)
        /\ \A k \in 1..(Len(Headerlink) - 1) :
              Headerlink'[k] = IF k < i THEN Headerlink[k] ELSE Headerlink[k + 1]
    BY <1>2, RemoveAtProperties DEF DataTypes
  <2> DEFINE old(k) == IF k < i THEN k ELSE k + 1
  <2>3. ASSUME NEW k \in DOMAIN Headerlink'
        PROVE  /\ Headerlink'[k] = Headerlink[old(k)]
               /\ old(k) \in DOMAIN Headerlink /\ old(k) # i
    BY <2>1, <2>2
  <2>4. ASSUME NEW m \in DOMAIN Headerlink, m # i
        PROVE  \E k \in DOMAIN Headerlink' : Headerlink'[k] = Headerlink[m]
    <3>1. CASE m < i
      BY <2>1, <2>2, <2>4, <3>1
    <3>2. CASE m > i
      <4>1. m - 1 \in DOMAIN Headerlink' /\ old(m - 1) = m
        BY <2>1, <2>2, <3>2
      <4> QED
        BY <4>1, <2>3
    <3> QED
      BY <2>1, <2>4, <3>1, <3>2
  <2>5. ASSUME NEW p \in {pf, pb}, AfterFree(p, Headerlink[i].id) \in Nodes
        PROVE  AfterFree(p, Headerlink[i].id) = p /\ p # Headerlink[i].id
    BY <1>a, <2>5 DEF AfterFree
  <2>6. UniqueNodes'
    <3> SUFFICES ASSUME NEW k \in DOMAIN Headerlink', NEW l \in DOMAIN Headerlink',
                        Headerlink'[k].id = Headerlink'[l].id
                 PROVE  k = l
      OBVIOUS
    <3>1. old(k) = old(l)
      BY <2>3
    <3> QED
      BY <3>1, <2>1, <2>2
  <2>7. ASSUME NEW p \in {pf, pb}, AfterFree(p, Headerlink[i].id) \in Nodes
        PROVE  AfterFree(p, Headerlink[i].id) \in InList'
    <3>1. p \in Nodes /\ AfterFree(p, Headerlink[i].id) = p /\ p # Headerlink[i].id
      BY <2>5, <2>7
    <3>2. PICK m \in DOMAIN Headerlink : Headerlink[m].id = p
      BY <3>1
    <3>3. m # i
      BY <3>1, <3>2
    <3> QED
      BY <2>4, <3>1, <3>2, <3>3
  <2>8. PointersLive'
    BY <1>2, <2>7
  <2>9. ASSUME NEW k \in DOMAIN Headerlink', Headerlink'[k].id = pf', pb' # Freed
        PROVE  IF k = 1 THEN pb' = None ELSE Headerlink'[k - 1].id = pb'
    <3>1. Headerlink[old(k)].id = pf /\ old(k) \in DOMAIN Headerlink /\ old(k) # i
      BY <1>2, <2>1, <2>3, <2>5, <2>9
    <3>2. pb' = pb /\ pb # Headerlink[i].id /\ pb # Freed
      BY <1>2, <1>a, <2>1, <2>9 DEF AfterFree
    <3>3. IF old(k) = 1 THEN pb = None ELSE Headerlink[old(k) - 1].id = pb
      BY <3>1, <3>2
    <3>4. CASE k = 1
      <4>1. old(k) = 1 \/ (old(k) = 2 /\ i = 1)
        BY <2>1, <2>2, <3>4
      <4> QED
        BY <3>2, <3>3, <3>4, <4>1
    <3>5. CASE k # 1
      <4>1. k \in Nat /\ k > 1 /\ k - 1 \in DOMAIN Headerlink' /\ old(k) # 1
        BY <2>1, <2>2, <3>5
      <4>2. old(k) - 1 # i
        BY <3>2, <3>3, <4>1
      <4>3. old(k - 1) = old(k) - 1
        BY <2>1, <4>1, <4>2
      <4> QED
        BY <2>3, <3>2, <3>3, <3>5, <4>1, <4>3
    <3> QED
      BY <3>4, <3>5
  <2> QED
    BY <2>6, <2>8, <2>9
<1> QED
  BY <1>1, <1>2 DEF delete_link

\* Every step of every thread keeps TimeOutThread's pointers in place.
LEMMA ListNext == DataTypes /\ ListInv /\ [Next]_vars => ListInv'
<1> SUFFICES ASSUME DataTypes, ListInv, [Next]_vars PROVE ListInv'
  OBVIOUS
<1> USE DEF ListInv, UniqueNodes, PointersLive, PointersFollowList, InList
<1>a. /\ None \notin Nodes /\ Freed \notin Nodes /\ None # Freed
  BY LinkAssumption
<1>b. /\ Len(Headerlink) \in Nat /\ DOMAIN Headerlink = 1..Len(Headerlink)
      /\ \A k \in DOMAIN Headerlink : Headerlink[k].id \in Nodes
  BY ListElements
<1>0. CASE UNCHANGED <<Headerlink, pf, pb>>
  BY <1>0
<1>1. ASSUME NEW t \in Threads, Insert(t) PROVE ListInv'
  <2>1. PICK n \in Nodes \ InList :
            Headerlink' = Append(Headerlink, [id |-> n, app |-> app[t], age |-> 0])
    BY <1>1 DEF Insert, insertlink
  <2>2. pf' = pf /\ pb' = pb
    BY <1>1 DEF Insert, ptrs
  <2> DEFINE new == [id |-> n, app |-> app[t], age |-> 0]
  <2>3. new \in LinkTimer_t
    <3>1. app[t] \in Apps /\ 0 \in 0..SecondTimeout
      BY LinkAssumption DEF DataTypes
    <3> QED
      BY <3>1 DEF LinkTimer_t
  <2>4. Headerlink \in Seq(LinkTimer_t)
    BY DEF DataTypes
  <2>5. /\ DOMAIN Headerlink' = 1..(Len(Headerlink) + 1)
        /\ \A k \in 1..Len(Headerlink) : Headerlink'[k] = Headerlink[k]
        /\ Headerlink'[Len(Headerlink) + 1].id = n
    <3>1. Headerlink' = Append(Headerlink, new) /\ new.id = n
      BY <2>1
    <3> HIDE DEF new
    <3> QED
      BY <2>3, <2>4, <3>1, <1>b, AppendProperties, LenProperties
  <2>6. \A k \in DOMAIN Headerlink : Headerlink[k].id # n
    BY <2>1
  <2>7. pf # n /\ pb # n
    BY <2>1
  <2>8. UniqueNodes'
    BY <1>b, <2>5, <2>6
  <2>9. PointersLive'
    BY <1>b, <2>2, <2>5
  <2>10. PointersFollowList'
    <3> SUFFICES ASSUME NEW k \in DOMAIN Headerlink',
                        Headerlink'[k].id = pf, pb # Freed
                 PROVE  IF k = 1 THEN pb = None ELSE Headerlink'[k - 1].id = pb
      BY <2>2
    <3>1. k \in DOMAIN Headerlink /\ Headerlink'[k] = Headerlink[k]
      BY <1>b, <2>5, <2>7
    <3>2. k # 1 => /\ k - 1 \in DOMAIN Headerlink
                   /\ Headerlink'[k - 1] = Headerlink[k - 1]
      BY <1>b, <2>5, <3>1
    <3> QED
      BY <3>1, <3>2
  <2> QED
    BY <2>8, <2>9, <2>10
<1>2. ASSUME NEW r \in Receivers, delete_link(app[r]) PROVE ListInv'
  <2>1. app[r] \in Apps
    BY DEF DataTypes, Threads
  <2> QED
    BY <1>2, <2>1, DeleteLinkList
<1>3. CASE PollStart
  <2>1. Headerlink' = Headerlink /\ pf' = Headerlink[1].id /\ pb' = None
    BY <1>3 DEF PollStart, AtHead
  <2>2. 1 \in DOMAIN Headerlink
    <3>1. Headerlink # <<>>
      BY <1>3 DEF PollStart
    <3>2. Len(Headerlink) # 0
      BY <3>1, EmptySeq, LenProperties DEF DataTypes
    <3> QED
      BY <1>b, <3>2
  <2> QED
    BY <1>a, <2>1, <2>2
<1>4. CASE PollNext
  <2>1. PICK i \in DOMAIN Headerlink : PollNext!(i)
    BY <1>4 DEF PollNext
  <2>2. Headerlink' = Headerlink /\ Headerlink[i].id = pf
    BY <2>1 DEF Checking
  <2>3. CASE i < Len(Headerlink) /\ pb' = pf /\ pf' = Headerlink[i + 1].id
    <3>1. i + 1 \in DOMAIN Headerlink
      BY <1>b, <2>3
    <3>2. \A k \in DOMAIN Headerlink : Headerlink[k].id = pf' => k = i + 1
      BY <2>3, <3>1
    <3>3. i + 1 # 1 /\ (i + 1) - 1 = i
      BY <1>b
    <3>4. PointersFollowList'
      BY <2>2, <2>3, <3>2, <3>3
    <3> QED
      BY <2>2, <2>3, <3>1, <3>4
  <2>4. CASE pb' = None /\ pf' = None
    BY <1>a, <1>b, <2>2, <2>4
  <2> QED
    BY <2>1, <2>3, <2>4
<1>5. CASE PollUnlinkHead
  <2>1. PICK i \in DOMAIN Headerlink : PollUnlinkHead!(i)
    BY <1>5 DEF PollUnlinkHead
  <2> DEFINE rest == SubSeq(Headerlink, i + 1, Len(Headerlink))
  <2>2. Headerlink' = rest /\ pb' = None
        /\ pf' = IF rest = <<>> THEN None ELSE rest[1].id
    BY <2>1 DEF AtHead
  <2>3. /\ rest \in Seq(LinkTimer_t)
        /\ Len(rest) = Len(Headerlink) - i
        /\ \A k \in 1..(Len(Headerlink) - i) : rest[k] = Headerlink[i + k]
    BY <1>b, SubSeqProperties DEF DataTypes
  <2> HIDE DEF rest
  <2>4. DOMAIN rest = 1..(Len(Headerlink) - i)
    BY <2>3, LenProperties
  <2>5. UniqueNodes'
    <3> SUFFICES ASSUME NEW k \in DOMAIN rest, NEW l \in DOMAIN rest,
                        rest[k].id = rest[l].id
                 PROVE  k = l
      BY <2>2
    <3>1. i + k = i + l
      BY <1>b, <2>3, <2>4
    <3> QED
      BY <1>b, <2>4, <3>1
  <2>6. CASE rest = <<>>
    <3>1. pf' = None
      BY <2>2, <2>6
    <3>2. DOMAIN rest = {}
      BY <2>6
    <3> QED
      BY <1>a, <2>2, <2>5, <3>1, <3>2
  <2>7. CASE rest # <<>>
    <3>1. Len(rest) # 0
      BY <2>3, <2>7, EmptySeq, LenProperties
    <3>2. 1 \in DOMAIN rest
      BY <1>b, <2>3, <2>4, <3>1
    <3>3. \A k \in DOMAIN rest : rest[k].id = rest[1].id => k = 1
      BY <2>2, <2>5, <3>2
    <3> QED
      BY <1>a, <2>2, <2>5, <2>7, <3>2, <3>3
  <2> QED
    BY <2>6, <2>7
<1>6. CASE PollUnlinkOther
  <2>1. PICK i, j \in DOMAIN Headerlink : PollUnlinkOther!(i, j)
    BY <1>6 DEF PollUnlinkOther
  <2>2. /\ Headerlink[i].id = pf /\ Headerlink[j].id = pb
        /\ pf' = Freed /\ pb' = pb
    BY <2>1
  <2>3. i # 1 /\ j = i - 1
    BY <1>a, <1>b, <2>2
  <2>4. Headerlink' = RemoveAt(Headerlink, i)
    BY <2>1, <2>3 DEF RemoveAt
  <2>5. /\ DOMAIN Headerlink' = 1..(Len(Headerlink) - 1)
        /\ \A k \in 1..(Len(Headerlink) - 1) :
              Headerlink'[k] = IF k < i THEN Headerlink[k] ELSE Headerlink[k + 1]
    BY <2>4, RemoveAtProperties DEF DataTypes
  <2>6. UniqueNodes'
    BY <1>b, <2>5
  <2>7. PointersLive'
    <3>1. j \in DOMAIN Headerlink' /\ Headerlink'[j] = Headerlink[j]
      BY <1>b, <2>3, <2>5
    <3> QED
      BY <1>a, <2>2, <3>1
  <2>8. \A k \in DOMAIN Headerlink' : Headerlink'[k].id # pf'
    <3>1. \A k \in DOMAIN Headerlink' : Headerlink'[k].id \in Nodes
      <4>1. ASSUME NEW k \in DOMAIN Headerlink'
            PROVE  /\ k \in DOMAIN Headerlink /\ k + 1 \in DOMAIN Headerlink
                   /\ Headerlink'[k] = IF k < i THEN Headerlink[k] ELSE Headerlink[k + 1]
        BY <1>b, <2>5
      <4> QED
        BY <1>b, <4>1
    <3> QED
      BY <1>a, <2>2, <3>1
  <2> QED
    BY <2>6, <2>7, <2>8
<1>7. CASE Tick
  <2>1. /\ DOMAIN Headerlink' = DOMAIN Headerlink /\ pf' = pf /\ pb' = pb
        /\ \A k \in DOMAIN Headerlink : Headerlink'[k].id = Headerlink[k].id
    <3>1. ASSUME NEW k \in DOMAIN Headerlink
          PROVE  [Headerlink[k] EXCEPT !.age = Min2(@ + 1, SecondTimeout)].id
                   = Headerlink[k].id
      BY ListElements DEF LinkTimer_t
    <3> QED
      BY <1>7, <3>1 DEF Tick, ptrs
  <2> QED
    BY <1>b, <2>1
<1> QED
  BY <1>0, <1>1, <1>2, <1>3, <1>4, <1>5, <1>6, <1>7, ListSteps

\* TimeOutThread's pointers stay where printf_link believes them.
THEOREM PointersCorrect == Spec => []PointersFollowList
<1>1. Init => ListInv
  <2>1. Init => DOMAIN Headerlink = {}
    BY DEF Init
  <2> QED
    BY <2>1, LinkAssumption DEF Init, ListInv, UniqueNodes, PointersLive,
                                PointersFollowList, InList
<1>2. TypeInv /\ ListInv /\ [Next]_vars => ListInv'
  BY ListNext DEF TypeInv, TypeOK
<1>3. ListInv => PointersFollowList
  BY DEF ListInv
<1> QED
  BY <1>1, <1>2, <1>3, TypeInit, TypeNext, PTL DEF Spec

-----------------------------------------------------------------------------
(* Sending is disabled only during a root-key replacement. One receive     *)
(* thread is assumed: with two, a login and a root-key request may overlap.*)
(* The list is looked at through the pairs of node and application in it:  *)
(* the order of the list matters only to TimeOutThread's pointers, which   *)
(* are dealt with above.                                                   *)

\* Node n is in the list and waits for the acknowledgement of application a.
Entry(n, a) == \E i \in DOMAIN Headerlink :
                   Headerlink[i].id = n /\ Headerlink[i].app = a

\* TimeOutThread removes the node whose timeout it has found.
RemovesWhatTimedOut ==
    pc[Poller] \in {"respond", "insert", "unlink", "unlinking"} =>
        \A a : Entry(pf, a) => a = app[Poller]

\* During a login everything may be sent: only a request disables sending.
LoginMaySend ==
    \A r \in Receivers : idx[r] > 0 => m_bEnableSendDataFlag

Disabled == ~m_bEnableSendDataFlag /\ m_loginState = 2
KeyHandler == \E r \in Receivers : /\ app[r] = UpdateKey
                                   /\ pc[r] \in {"respond", "insert", "ackClear"}

\* The root-key response TimeOutThread is about to remove is not the only one.
ReplacedFirst ==
    Disabled /\ pc[Poller] \in {"unlink", "unlinking"} /\ app[Poller] = UpdateKey
        => KeyHandler \/ \E n : n # pf /\ Entry(n, UpdateKey)

\* A disabled sender has a root-key response under way.
KeyUnderWay == Disabled => KeyHandler \/ \E n : Entry(n, UpdateKey)

KeyInv == RemovesWhatTimedOut /\ LoginMaySend /\ ReplacedFirst /\ KeyUnderWay

-----------------------------------------------------------------------------
(* What a step does to the pairs in the list.                              *)

\* Appending a node adds one pair, of a node that was not in the list and to
\* which therefore no pointer of TimeOutThread points.
LEMMA InsertEntry ==
    ASSUME DataTypes, ListInv, NEW a \in Apps, insertlink(a)
    PROVE  \E m \in Nodes :
              /\ m # pf /\ \A b : ~Entry(m, b)
              /\ \A n, b : Entry(n, b)' <=> Entry(n, b) \/ (n = m /\ b = a)
<1>1. PICK m \in Nodes \ InList :
          Headerlink' = Append(Headerlink, [id |-> m, app |-> a, age |-> 0])
  BY DEF insertlink
<1> DEFINE new == [id |-> m, app |-> a, age |-> 0]
<1>2. new \in LinkTimer_t /\ new.id = m /\ new.app = a
  BY LinkAssumption DEF LinkTimer_t
<1>3. /\ Len(Headerlink) \in Nat /\ DOMAIN Headerlink = 1..Len(Headerlink)
      /\ Headerlink \in Seq(LinkTimer_t)
  BY ListElements DEF DataTypes
<1>4. /\ DOMAIN Headerlink' = 1..(Len(Headerlink) + 1)
      /\ \A k \in 1..Len(Headerlink) : Headerlink'[k] = Headerlink[k]
      /\ Headerlink'[Len(Headerlink) + 1] = new
  <2>1. Headerlink' = Append(Headerlink, new)
    BY <1>1
  <2> HIDE DEF new
  <2> QED
    BY <1>2, <1>3, <2>1, AppendProperties, LenProperties
<1> HIDE DEF new
<1>5. ASSUME NEW n, NEW b
      PROVE  Entry(n, b)' <=> Entry(n, b) \/ (n = m /\ b = a)
  <2>1. ASSUME Entry(n, b)' PROVE Entry(n, b) \/ (n = m /\ b = a)
    BY <1>2, <1>3, <1>4, <2>1 DEF Entry
  <2>2. ASSUME Entry(n, b) PROVE Entry(n, b)'
    BY <1>3, <1>4, <2>2 DEF Entry
  <2>3. ASSUME n = m, b = a PROVE Entry(n, b)'
    <3>1. Len(Headerlink) + 1 \in DOMAIN Headerlink'
      BY <1>3, <1>4
    <3> QED
      BY <1>2, <1>4, <2>3, <3>1 DEF Entry
  <2> QED
    BY <2>1, <2>2, <2>3
<1>6. m # pf /\ \A b : ~Entry(m, b)
  BY DEF ListInv, PointersLive, Entry, InList
<1> QED
  BY <1>5, <1>6

\* Removing the element at i removes the pair of its node, and only that.
LEMMA RemoveEntry ==
    ASSUME DataTypes, ListInv, NEW i \in DOMAIN Headerlink,
           Headerlink' = RemoveAt(Headerlink, i), NEW n, NEW b
    PROVE  Entry(n, b)' <=> Entry(n, b) /\ n # Headerlink[i].id
<1>1. Len(Headerlink) \in Nat /\ DOMAIN Headerlink = 1..Len(Headerlink)
  BY ListElements
<1>2. /\ DOMAIN Headerlink' = 1..(Len(Headerlink) - 1)
      /\ \A k \in 1..(Len(Headerlink) - 1) :
            Headerlink'[k] = IF k < i THEN Headerlink[k] ELSE Headerlink[k + 1]
  BY RemoveAtProperties DEF DataTypes
<1>3. ASSUME Entry(n, b)' PROVE Entry(n, b) /\ n # Headerlink[i].id
  <2>1. PICK k \in DOMAIN Headerlink' : Headerlink'[k].id = n /\ Headerlink'[k].app = b
    BY <1>3 DEF Entry
  <2>2. PICK m \in DOMAIN Headerlink : m # i /\ Headerlink'[k] = Headerlink[m]
    <3>1. CASE k < i
      BY <1>1, <1>2, <3>1
    <3>2. CASE k >= i
      <4>1. k + 1 \in DOMAIN Headerlink /\ k + 1 # i /\ ~(k < i)
        BY <1>1, <1>2, <3>2
      <4> QED
        BY <1>2, <4>1
    <3> QED
      BY <1>1, <1>2, <3>1, <3>2
  <2>3. Headerlink[m].id # Headerlink[i].id
    BY <2>2 DEF ListInv, UniqueNodes
  <2> QED
    BY <2>1, <2>2, <2>3 DEF Entry
<1>4. ASSUME Entry(n, b), n # Headerlink[i].id PROVE Entry(n, b)'
  <2>1. PICK m \in DOMAIN Headerlink : Headerlink[m].id = n /\ Headerlink[m].app = b
    BY <1>4 DEF Entry
  <2>2. m # i
    BY <1>4, <2>1
  <2>3. PICK k \in DOMAIN Headerlink' : Headerlink'[k] = Headerlink[m]
    <3>1. CASE m < i
      BY <1>1, <1>2, <3>1
    <3>2. CASE m > i
      <4>1. m - 1 \in DOMAIN Headerlink' /\ ~(m - 1 < i) /\ (m - 1) + 1 = m
        BY <1>1, <1>2, <3>2
      <4> QED
        BY <1>2, <4>1
    <3> QED
      BY <1>1, <2>2, <3>1, <3>2
  <2> QED
    BY <2>1, <2>3 DEF Entry
<1> QED
  BY <1>3, <1>4
\* delete_link removes the pair of one node of its application, and a pointer
\* to that node becomes Freed.
LEMMA DeleteEntry ==
    ASSUME DataTypes, ListInv, NEW a \in Apps, delete_link(a)
    PROVE  \/ UNCHANGED <<Headerlink, pf>>
           \/ \E m \in Nodes :
                 /\ Entry(m, a) /\ pf' = AfterFree(pf, m)
                 /\ \A n, b : Entry(n, b)' <=> Entry(n, b) /\ n # m
<1>1. ASSUME NEW i \in DOMAIN Headerlink, Headerlink[i].app = a,
             Headerlink' = RemoveAt(Headerlink, i),
             pf' = AfterFree(pf, Headerlink[i].id)
      PROVE  \E m \in Nodes :
                 /\ Entry(m, a) /\ pf' = AfterFree(pf, m)
                 /\ \A n, b : Entry(n, b)' <=> Entry(n, b) /\ n # m
  <2>1. Headerlink[i].id \in Nodes
    BY ListElements
  <2>2. Entry(Headerlink[i].id, a)
    BY <1>1 DEF Entry
  <2>3. \A n, b : Entry(n, b)' <=> Entry(n, b) /\ n # Headerlink[i].id
    BY <1>1, RemoveEntry
  <2> QED
    BY <1>1, <2>1, <2>2, <2>3
<1>2. CASE UNCHANGED <<Headerlink, ptrs>>
  BY <1>2 DEF ptrs
<1> QED
  BY <1>1, <1>2 DEF delete_link

\* TimeOutThread removes the pair of the node pf points to, and only that:
\* the node it takes for the head of the list is the head.
LEMMA UnlinkEntry ==
    ASSUME DataTypes, ListInv, PollUnlinkHead \/ PollUnlinkOther, NEW n, NEW b
    PROVE  Entry(n, b)' <=> Entry(n, b) /\ n # pf
<1>a. /\ Len(Headerlink) \in Nat /\ DOMAIN Headerlink = 1..Len(Headerlink)
      /\ \A k \in DOMAIN Headerlink : Headerlink[k].id \in Nodes
  BY ListElements
<1>b. None \notin Nodes /\ None # Freed
  BY LinkAssumption
<1>1. CASE PollUnlinkHead
  <2>1. PICK i \in DOMAIN Headerlink : PollUnlinkHead!(i)
    BY <1>1 DEF PollUnlinkHead
  <2>2. i = 1
    <3>1. i # 1 => i - 1 \in DOMAIN Headerlink
      BY <1>a
    <3> QED
      BY <1>a, <1>b, <2>1, <3>1 DEF ListInv, PointersFollowList
  <2>3. Headerlink' = RemoveAt(Headerlink, i)
    <3>1. SubSeq(Headerlink, 1, 0) = << >>
      BY <1>a, SubSeqProperties, EmptySeq DEF DataTypes
    <3>2. SubSeq(Headerlink, 2, Len(Headerlink)) \in Seq(LinkTimer_t)
      BY <1>a, <2>2, SubSeqProperties DEF DataTypes
    <3>3. << >> \o SubSeq(Headerlink, 2, Len(Headerlink))
            = SubSeq(Headerlink, 2, Len(Headerlink))
      BY <3>2, ConcatEmptySeq
    <3> QED
      BY <2>1, <2>2, <3>1, <3>3 DEF RemoveAt
  <2> QED
    BY <2>1, <2>3, RemoveEntry
<1>2. CASE PollUnlinkOther
  <2>1. PICK i, j \in DOMAIN Headerlink : PollUnlinkOther!(i, j)
    BY <1>2 DEF PollUnlinkOther
  <2>2. i # 1 /\ j = i - 1
    <3>1. pb # Freed /\ pb # None
      BY <1>a, <1>b, <2>1, LinkAssumption
    <3>2. i # 1 /\ Headerlink[i - 1].id = pb
      BY <2>1, <3>1 DEF ListInv, PointersFollowList
    <3>3. i - 1 \in DOMAIN Headerlink
      BY <1>a, <3>2
    <3> QED
      BY <2>1, <3>2, <3>3 DEF ListInv, UniqueNodes
  <2>3. Headerlink' = RemoveAt(Headerlink, i)
    BY <2>1, <2>2 DEF RemoveAt
  <2> QED
    BY <2>1, <2>3, RemoveEntry
<1> QED
  BY <1>1, <1>2

\* Time leaves the pairs alone.
LEMMA TickEntry ==
    ASSUME DataTypes, Tick, NEW n, NEW b
    PROVE  Entry(n, b)' <=> Entry(n, b)
<1>1. ASSUME NEW k \in DOMAIN Headerlink
      PROVE  /\ [Headerlink[k] EXCEPT !.age = Min2(@ + 1, SecondTimeout)].id
                  = Headerlink[k].id
             /\ [Headerlink[k] EXCEPT !.age = Min2(@ + 1, SecondTimeout)].app
                  = Headerlink[k].app
  BY ListElements DEF LinkTimer_t
<1> QED
  BY <1>1 DEF Tick, Entry

\* A node that waits is a node, and of one application.
LEMMA EntryUnique ==
    ASSUME DataTypes, ListInv, NEW n, NEW a, NEW b, Entry(n, a)
    PROVE  n \in Nodes /\ (Entry(n, b) => a = b)
  BY ListElements DEF Entry, ListInv, UniqueNodes

LEMMA SearchEntry == \A a : search(a) <=> \E n : Entry(n, a)
  BY DEF search, Entry

-----------------------------------------------------------------------------
(* The invariant.                                                          *)

\* The steps that move a receiver through a login or change the send flag.
LEMMA SendSteps ==
    ASSUME [Next]_vars
    PROVE  \/ UNCHANGED <<m_bEnableSendDataFlag, idx>>
           \/ \E r \in Receivers :
                 \/ RecvAuthReadyAck(r) \/ LoginCheck(r) \/ LoginDelete(r)
                 \/ LoginClear(r) \/ AckClear(r)
                 \/ \E a \in Apps : RecvRequest(r, a) \/ RecvAck(r, a)
<1> USE DEF pass
<1>1. ASSUME NEW t \in Threads, Respond(t) \/ Insert(t)
      PROVE  UNCHANGED <<m_bEnableSendDataFlag, idx>>
  BY <1>1 DEF Respond, Insert
<1>2. ASSUME NEW r \in Receivers,
             \/ RecvAuth(r) \/ RecvRemoteCtrl(r) \/ RecvUnsupportedCtrl(r)
             \/ LinkLost(r) \/ AckLock(r) \/ AckDelete(r) \/ UnlockedAccess(r)
             \/ socketConnect(r)
      PROVE  UNCHANGED <<m_bEnableSendDataFlag, idx>>
  BY <1>2 DEF RecvAuth, RecvRemoteCtrl, RecvUnsupportedCtrl, LinkLost, AckLock,
              AckDelete, UnlockedAccess, socketConnect
<1>3. ASSUME Poll
      PROVE  UNCHANGED <<m_bEnableSendDataFlag, idx>>
  BY <1>3 DEF Poll, PollStart, PollFirst, PollSecond, PollNext, PollLock,
              PollUnlinkHead, PollUnlinkOther, PollFreed
<1>4. ASSUME McuReply \/ Sig_CtrlAlarm \/ LoginTimeout \/ disconnectSocket \/ Tick
      PROVE  UNCHANGED <<m_bEnableSendDataFlag, idx>>
  BY <1>4 DEF McuReply, Sig_CtrlAlarm, LoginTimeout, disconnectSocket, Tick
<1>5. CASE UNCHANGED vars
  BY <1>5 DEF vars
<1> QED
  BY <1>1, <1>2, <1>3, <1>4, <1>5 DEF Next, Receive, Handle

\* A request disables sending, but the only receiver is then not in a login.
LEMMA LoginMaySendNext ==
    ASSUME NEW r0, Receivers = {r0}, DataTypes, LoginPosition, LoginMaySend,
           [Next]_vars
    PROVE  LoginMaySend'
<1> USE DEF LoginMaySend, LoginPosition
<1>a. idx \in [Receivers -> 0..Len(AppOrder)] /\ Len(AppOrder) \in Nat
  BY LoginChecks DEF DataTypes
<1>0. CASE UNCHANGED <<m_bEnableSendDataFlag, idx>>
  BY <1>0
<1>1. CASE RecvAuthReadyAck(r0)
  BY <1>1 DEF RecvAuthReadyAck
<1>2. CASE LoginCheck(r0) \/ LoginDelete(r0)
  BY <1>2, <1>a DEF LoginCheck, LoginDelete, NextLoginCheck
<1>3. CASE LoginClear(r0)
  BY <1>3, <1>a DEF LoginClear
<1>4. CASE AckClear(r0)
  BY <1>4, <1>a DEF AckClear, pass
<1>5. ASSUME NEW a \in Apps, RecvRequest(r0, a) PROVE LoginMaySend'
  BY <1>5, <1>a DEF RecvRequest, NewRequest, Received, pass
<1>6. ASSUME NEW a \in Apps, RecvAck(r0, a) PROVE LoginMaySend'
  BY <1>6, <1>a DEF RecvAck, Received, pass
<1> QED
  BY <1>0, <1>1, <1>2, <1>3, <1>4, <1>5, <1>6, SendSteps
\* Receivers, the MCU thread, the main loop and time do not move TimeOutThread.
LEMMA PollerStays ==
    ASSUME DataTypes, [Next]_vars
    PROVE  \/ Respond(Poller) \/ Insert(Poller) \/ Poll
           \/ /\ pc'[Poller] = pc[Poller] /\ app'[Poller] = app[Poller]
              /\ pf' = pf \/ \E r \in Receivers : AckDelete(r) \/ LoginDelete(r)
<1> USE DEF Goto, GotoFor, ptrs
<1>a. /\ Poller \notin Receivers /\ Poller # Mcu /\ Poller \in Threads
      /\ pc \in [Threads -> Locations] /\ app \in [Threads -> Apps]
      /\ Receivers \subseteq Threads /\ Mcu \in Threads
  BY LinkAssumption DEF DataTypes, Threads, Poller, Mcu
<1> DEFINE Stays == /\ pc'[Poller] = pc[Poller] /\ app'[Poller] = app[Poller]
                    /\ pf' = pf \/ \E r \in Receivers : AckDelete(r) \/ LoginDelete(r)
<1>1. ASSUME NEW t \in Threads, t # Poller, Respond(t) \/ Insert(t) PROVE Stays
  BY <1>1, <1>a DEF Respond, Insert
<1>2. ASSUME NEW r \in Receivers, Receive(r) PROVE Stays
  <2>1. CASE RecvAuth(r) \/ RecvAuthReadyAck(r) \/ RecvRemoteCtrl(r) \/ LinkLost(r)
    BY <2>1, <1>a DEF RecvAuth, RecvAuthReadyAck, RecvRemoteCtrl, LinkLost
  <2>2. CASE RecvUnsupportedCtrl(r)
    BY <2>2, <1>a DEF RecvUnsupportedCtrl
  <2>3. ASSUME NEW a \in Apps, RecvRequest(r, a) \/ RecvAck(r, a) PROVE Stays
    BY <2>3, <1>a DEF RecvRequest, RecvAck
  <2> QED
    BY <1>2, <2>1, <2>2, <2>3 DEF Receive
<1>3. ASSUME NEW r \in Receivers, Handle(r) PROVE Stays
  <2>1. CASE AckDelete(r) \/ LoginDelete(r)
    <3>1. pc'[Poller] = pc[Poller] /\ app'[Poller] = app[Poller]
      BY <2>1, <1>a DEF AckDelete, LoginDelete, NextLoginCheck
    <3> QED
      BY <2>1, <3>1
  <2>2. CASE LoginCheck(r)
    BY <2>2, <1>a DEF LoginCheck, NextLoginCheck
  <2>3. CASE LoginClear(r) \/ AckLock(r) \/ AckClear(r) \/ UnlockedAccess(r)
    BY <2>3, <1>a DEF LoginClear, AckLock, AckClear, UnlockedAccess
  <2> QED
    BY <1>3, <2>1, <2>2, <2>3 DEF Handle
<1>4. ASSUME NEW r \in Receivers, socketConnect(r) PROVE Stays
  BY <1>4, <1>a DEF socketConnect
<1>5. ASSUME McuReply \/ Sig_CtrlAlarm \/ LoginTimeout \/ disconnectSocket \/ Tick
      PROVE  Stays
  BY <1>5, <1>a DEF McuReply, Sig_CtrlAlarm, LoginTimeout, disconnectSocket, Tick
<1>6. ASSUME UNCHANGED vars PROVE Stays
  BY <1>6 DEF vars
<1> HIDE DEF Stays
<1>7. Respond(Poller) \/ Insert(Poller) \/ Poll \/ Stays
  <2>1. ASSUME NEW t \in Threads, Respond(t) \/ Insert(t)
        PROVE  Respond(Poller) \/ Insert(Poller) \/ Stays
    BY <1>1, <2>1, Zenon
  <2> QED
    BY <1>2, <1>3, <1>4, <1>5, <1>6, <2>1 DEF Next
<1> QED
  BY <1>7 DEF Stays

\* The steps that change which pairs are in the list.
LEMMA EntrySteps ==
    ASSUME DataTypes, ListInv, [Next]_vars
    PROVE  \/ \A n, b : Entry(n, b)' <=> Entry(n, b)
           \/ \E t \in Threads : Insert(t)
           \/ \E r \in Receivers : AckDelete(r) \/ LoginDelete(r)
           \/ PollUnlinkHead \/ PollUnlinkOther
<1> USE DEF conn, pass, ptrs, mcuv
<1>1. ASSUME NEW t \in Threads, Respond(t) PROVE UNCHANGED Headerlink
  BY <1>1 DEF Respond
<1>2. ASSUME NEW r \in Receivers, Receive(r) \/ socketConnect(r)
      PROVE  UNCHANGED Headerlink
  BY <1>2 DEF Receive, RecvAuth, RecvAuthReadyAck, RecvRequest, RecvAck,
              RecvRemoteCtrl, RecvUnsupportedCtrl, LinkLost, socketConnect
<1>3. ASSUME NEW r \in Receivers, Handle(r), ~(AckDelete(r) \/ LoginDelete(r))
      PROVE  UNCHANGED Headerlink
  BY <1>3 DEF Handle, LoginCheck, LoginClear, AckLock, AckClear, UnlockedAccess
<1>4. ASSUME Poll, ~(PollUnlinkHead \/ PollUnlinkOther)
      PROVE  UNCHANGED Headerlink
  BY <1>4 DEF Poll, PollStart, PollFirst, PollSecond, PollNext, PollLock, PollFreed
<1>5. ASSUME McuReply \/ Sig_CtrlAlarm \/ LoginTimeout \/ disconnectSocket
      PROVE  UNCHANGED Headerlink
  BY <1>5 DEF McuReply, Sig_CtrlAlarm, LoginTimeout, disconnectSocket
<1>6. ASSUME UNCHANGED vars PROVE UNCHANGED Headerlink
  BY <1>6 DEF vars
<1>7. UNCHANGED Headerlink => \A n, b : Entry(n, b)' <=> Entry(n, b)
  BY DEF Entry
<1>8. Tick => \A n, b : Entry(n, b)' <=> Entry(n, b)
  BY TickEntry
<1> QED
  BY <1>1, <1>2, <1>3, <1>4, <1>5, <1>6, <1>7, <1>8 DEF Next

\* Whatever others insert or remove, the node TimeOutThread found is the node
\* it removes.
LEMMA RemovesNext ==
    ASSUME DataTypes, ListInv, RemovesWhatTimedOut, [Next]_vars
    PROVE  RemovesWhatTimedOut'
<1>a. /\ Poller \in Threads /\ Receivers \subseteq Threads
      /\ pc \in [Threads -> Locations] /\ app \in [Threads -> Apps]
      /\ pf \in Nodes \cup {None, Freed}
  BY DEF DataTypes, Threads
<1>b. Freed \notin Nodes
  BY LinkAssumption
<1> DEFINE Busy == {"respond", "insert", "unlink", "unlinking"}
<1> SUFFICES ASSUME pc'[Poller] \in Busy, NEW a, Entry(pf, a)'
             PROVE  a = app'[Poller]
  BY DEF RemovesWhatTimedOut
<1>1. CASE PollFirst \/ PollSecond
  <2>1. PICK i \in DOMAIN Headerlink :
            /\ Headerlink[i].id = pf /\ app'[Poller] = Headerlink[i].app
            /\ pf' = pf /\ Headerlink' = Headerlink
    BY <1>1, <1>a DEF PollFirst, PollSecond, Checking, GotoFor, ptrs
  <2> QED
    BY <2>1 DEF Entry, ListInv, UniqueNodes
<1>2. CASE PollStart \/ PollNext \/ PollUnlinkHead \/ PollUnlinkOther
  BY <1>2, <1>a DEF PollStart, PollNext, PollUnlinkHead, PollUnlinkOther, AtHead,
                    Goto, GotoFor
<1>3. CASE PollLock \/ PollFreed
  <2>1. /\ pc[Poller] \in Busy /\ app'[Poller] = app[Poller]
        /\ pf' = pf /\ Headerlink' = Headerlink
    BY <1>3, <1>a DEF PollLock, PollFreed, Goto, GotoFor, Working, ptrs
  <2> QED
    BY <2>1 DEF RemovesWhatTimedOut, Entry
<1>4. CASE Respond(Poller)
  <2>1. /\ pc[Poller] \in Busy /\ app'[Poller] = app[Poller]
        /\ pf' = pf /\ Headerlink' = Headerlink
    BY <1>4, <1>a DEF Respond, AfterRespond, Goto, GotoFor, Working, ptrs
  <2> QED
    BY <2>1 DEF RemovesWhatTimedOut, Entry
<1>5. CASE Insert(Poller)
  <2>1. /\ pc[Poller] \in Busy /\ app'[Poller] = app[Poller] /\ pf' = pf
        /\ insertlink(app[Poller]) /\ app[Poller] \in Apps
    BY <1>5, <1>a DEF Insert, AfterRespond, Goto, GotoFor, Working, ptrs
  <2>2. Entry(pf, a)
    BY <2>1, InsertEntry
  <2> QED
    BY <2>1, <2>2 DEF RemovesWhatTimedOut
<1>6. ASSUME pc'[Poller] = pc[Poller], app'[Poller] = app[Poller],
             Entry(pf, a)
      PROVE  a = app'[Poller]
  BY <1>6 DEF RemovesWhatTimedOut
<1>7. CASE /\ pc'[Poller] = pc[Poller] /\ app'[Poller] = app[Poller]
           /\ \E r \in Receivers : AckDelete(r) \/ LoginDelete(r)
  <2>1. PICK r \in Receivers : delete_link(app[r]) /\ app[r] \in Apps
    BY <1>7, <1>a DEF AckDelete, LoginDelete
  <2>2. CASE UNCHANGED <<Headerlink, pf>>
    BY <1>6, <1>7, <2>2 DEF Entry
  <2>3. ASSUME NEW m \in Nodes, pf' = AfterFree(pf, m),
               \A n, b : Entry(n, b)' <=> Entry(n, b) /\ n # m
        PROVE  a = app'[Poller]
    <3>1. Entry(pf', a)
      <4>1. Entry(pf, a)' => Entry(pf', a)
        <5> SUFFICES ASSUME NEW n, n = pf', Entry(n, a)'
                     PROVE  Entry(n, a)
          BY DEF Entry
        <5> QED
          BY <2>3
      <4> QED
        BY <4>1
    <3>2. pf' \in Nodes
      BY <3>1, EntryUnique
    <3>3. pf' = pf
      BY <1>b, <2>3, <3>2 DEF AfterFree
    <3> QED
      BY <1>6, <1>7, <3>1, <3>3
  <2> QED
    BY <2>1, <2>2, <2>3, DeleteEntry
<1>8. CASE pc'[Poller] = pc[Poller] /\ app'[Poller] = app[Poller] /\ pf' = pf
  <2>1. CASE \A n, b : Entry(n, b)' <=> Entry(n, b)
    BY <1>6, <1>8, <2>1 DEF Entry
  <2>2. ASSUME NEW t \in Threads, Insert(t) PROVE Entry(pf, a)
    <3>1. insertlink(app[t]) /\ app[t] \in Apps
      BY <2>2, <1>a DEF Insert
    <3> QED
      BY <1>8, <3>1, InsertEntry
  <2>3. CASE PollUnlinkHead \/ PollUnlinkOther
    BY <1>2, <2>3
  <2> QED
    BY <1>6, <1>7, <1>8, <2>1, <2>2, <2>3, EntrySteps
<1> QED
  BY <1>1, <1>2, <1>3, <1>4, <1>5, <1>7, <1>8, PollerStays DEF Poll
\* Sending becomes disabled by a root-key request, whose handler then goes on.
LEMMA DisabledFrom ==
    ASSUME FlagTypes, DataTypes, [Next]_vars, Disabled'
    PROVE  Disabled \/ \E r \in Receivers : RecvRequest(r, UpdateKey)
<1>1. CASE UNCHANGED <<m_bEnableSendDataFlag, m_loginState>>
  BY <1>1 DEF Disabled
<1>2. ASSUME NEW t \in Threads, Respond(t) \/ Insert(t)
      PROVE  UNCHANGED <<m_bEnableSendDataFlag, m_loginState>>
  BY <1>2 DEF Respond, Insert, conn
<1>3. ASSUME NEW r \in Receivers, Receive(r)
      PROVE  Disabled \/ RecvRequest(r, UpdateKey)
  <2>1. CASE RecvAuth(r) \/ RecvAuthReadyAck(r) \/ LinkLost(r)
    BY <2>1 DEF RecvAuth, RecvAuthReadyAck, LinkLost, Disabled
  <2>2. CASE RecvRemoteCtrl(r) \/ RecvUnsupportedCtrl(r)
    BY <2>2 DEF RecvRemoteCtrl, RecvUnsupportedCtrl, conn, Disabled
  <2>3. ASSUME NEW a \in Apps, RecvRequest(r, a)
        PROVE  Disabled \/ RecvRequest(r, UpdateKey)
    <3>1. CASE a = UpdateKey
      BY <2>3, <3>1
    <3>2. CASE a # UpdateKey
      BY <2>3, <3>2 DEF RecvRequest, conn, Disabled
    <3> QED
      BY <3>1, <3>2
  <2>4. ASSUME NEW a \in Apps, RecvAck(r, a) PROVE Disabled
    BY <2>4 DEF RecvAck, conn, Disabled
  <2> QED
    BY <1>3, <2>1, <2>2, <2>3, <2>4 DEF Receive
<1>4. ASSUME NEW r \in Receivers, Handle(r) \/ socketConnect(r)
      PROVE  Disabled
  <2>1. CASE LoginCheck(r) \/ LoginDelete(r) \/ LoginClear(r) \/ AckLock(r)
    BY <2>1 DEF LoginCheck, LoginDelete, LoginClear, AckLock, conn, Disabled
  <2>2. CASE AckDelete(r)
    BY <2>2 DEF AckDelete, conn, Disabled
  <2>4. CASE AckClear(r)
    <3>1. m_loginState' = m_loginState
      BY <2>4 DEF AckClear, conn
    <3>2. m_bEnableSendDataFlag' = (m_bEnableSendDataFlag \/ app[r] = UpdateKey)
      BY <2>4 DEF AckClear
    <3> QED
      BY <3>1, <3>2 DEF Disabled, FlagTypes
  <2>3. CASE UnlockedAccess(r) \/ socketConnect(r)
    BY <2>3 DEF UnlockedAccess, socketConnect, conn, Disabled
  <2> QED
    BY <1>4, <2>1, <2>2, <2>3, <2>4 DEF Handle
<1>5. ASSUME Poll PROVE Disabled
  BY <1>5 DEF Poll, PollStart, PollFirst, PollSecond, PollNext, PollLock,
              PollUnlinkHead, PollUnlinkOther, PollFreed, conn, Disabled
<1>6. ASSUME McuReply \/ Sig_CtrlAlarm \/ LoginTimeout \/ disconnectSocket \/ Tick
      PROVE  Disabled
  BY <1>6 DEF McuReply, Sig_CtrlAlarm, LoginTimeout, disconnectSocket, Tick,
              conn, Disabled
<1>7. CASE UNCHANGED vars
  BY <1>1, <1>7 DEF vars, conn
<1> QED
  BY <1>1, <1>2, <1>3, <1>4, <1>5, <1>6, <1>7, Zenon DEF Next

\* A root-key handler goes on until it has put its response into the list or
\* enabled sending again.
LEMMA KeyHandlerGoesOn ==
    ASSUME NEW r0, Receivers = {r0}, DataTypes, ListInv, LoginPosition,
           LoginMaySend, Disabled, Disabled', KeyHandler, [Next]_vars
    PROVE  KeyHandler' \/ (Insert(r0) /\ app[r0] = UpdateKey)
<1> USE DEF Goto, GotoFor
<1>a. /\ r0 \in Threads /\ Poller \in Threads /\ Mcu \in Threads
      /\ r0 # Poller /\ r0 # Mcu
      /\ pc \in [Threads -> Locations] /\ app \in [Threads -> Apps]
      /\ app[r0] = UpdateKey /\ pc[r0] \in {"respond", "insert", "ackClear"}
      /\ pc[r0] # "ackClear" => idx[r0] = 0
  BY LinkAssumption DEF DataTypes, Threads, KeyHandler, LoginMaySend, Disabled
<1> DEFINE Stays == pc'[r0] = pc[r0] /\ app'[r0] = app[r0]
<1>b. Stays => KeyHandler'
  BY <1>a DEF KeyHandler
<1>1. ASSUME NEW t \in Threads, t # r0, Respond(t) \/ Insert(t) PROVE Stays
  BY <1>1, <1>a DEF Respond, Insert
<1>2. CASE Respond(r0)
  BY <1>2, <1>a DEF Respond, Working, KeyHandler
<1>3. ASSUME Receive(r0) PROVE FALSE
  BY <1>3, <1>a DEF Receive, RecvAuth, RecvAuthReadyAck, RecvRequest, RecvAck,
                    RecvRemoteCtrl, RecvUnsupportedCtrl, LinkLost, NewRequest,
                    Received
<1>4. CASE Handle(r0)
  <2>1. ~AckClear(r0)
    BY <1>a DEF AckClear, Disabled
  <2>2. ~(LoginCheck(r0) \/ LoginDelete(r0) \/ LoginClear(r0) \/ AckLock(r0)
          \/ AckDelete(r0))
    BY <1>a DEF LoginCheck, LoginDelete, LoginClear, AckLock, AckDelete
  <2>3. UnlockedAccess(r0) => Stays
    BY DEF UnlockedAccess
  <2> QED
    BY <1>4, <1>b, <2>1, <2>2, <2>3 DEF Handle
<1>5. ASSUME socketConnect(r0) PROVE FALSE
  BY <1>5, <1>a DEF socketConnect
<1>6. ASSUME Poll PROVE Stays
  BY <1>6, <1>a DEF Poll, PollStart, PollFirst, PollSecond, PollNext, PollLock,
                    PollUnlinkHead, PollUnlinkOther, PollFreed, AtHead
<1>7. ASSUME McuReply \/ Sig_CtrlAlarm \/ LoginTimeout \/ disconnectSocket \/ Tick
      PROVE  Stays
  BY <1>7, <1>a DEF McuReply, Sig_CtrlAlarm, LoginTimeout, disconnectSocket, Tick
<1>8. ASSUME UNCHANGED vars PROVE Stays
  BY <1>8 DEF vars
<1> HIDE DEF Stays
<1>9. ASSUME NEW t \in Threads, Respond(t) \/ Insert(t)
      PROVE  KeyHandler' \/ (Insert(r0) /\ app[r0] = UpdateKey)
  <2>1. CASE t = r0
    BY <1>2, <1>9, <1>a, <2>1
  <2>2. CASE t # r0
    BY <1>1, <1>9, <1>b, <2>2
  <2> QED
    BY <2>1, <2>2
<1> QED
  BY <1>3, <1>4, <1>5, <1>6, <1>7, <1>8, <1>9, <1>b DEF Next
\* While sending is disabled a root-key response leaves the list only through
\* its acknowledgement or, if pf points to it, through TimeOutThread.
LEMMA KeyEntryStays ==
    ASSUME NEW r0, Receivers = {r0}, DataTypes, ListInv, LoginPosition,
           LoginMaySend, Disabled, [Next]_vars, NEW n, Entry(n, UpdateKey),
           n # pf \/ ~(PollUnlinkHead \/ PollUnlinkOther)
    PROVE  Entry(n, UpdateKey)' \/ (AckDelete(r0) /\ app[r0] = UpdateKey)
<1>a. app \in [Threads -> Apps] /\ Receivers \subseteq Threads /\ r0 \in Threads
  BY DEF DataTypes, Threads
<1>1. CASE \A m, b : Entry(m, b)' <=> Entry(m, b)
  BY <1>1
<1>2. ASSUME NEW t \in Threads, Insert(t) PROVE Entry(n, UpdateKey)'
  <2>1. insertlink(app[t]) /\ app[t] \in Apps
    BY <1>2, <1>a DEF Insert
  <2> QED
    BY <2>1, InsertEntry
<1>3. CASE AckDelete(r0)
  <2>1. delete_link(app[r0]) /\ app[r0] \in Apps
    BY <1>3, <1>a DEF AckDelete
  <2>2. CASE UNCHANGED <<Headerlink, pf>>
    BY <2>2 DEF Entry
  <2>3. ASSUME NEW m \in Nodes, Entry(m, app[r0]),
               \A k, b : Entry(k, b)' <=> Entry(k, b) /\ k # m
        PROVE  Entry(n, UpdateKey)' \/ app[r0] = UpdateKey
    <3>1. n = m => app[r0] = UpdateKey
      BY <2>3, EntryUnique
    <3> QED
      BY <2>3, <3>1
  <2> QED
    BY <1>3, <2>1, <2>2, <2>3, DeleteEntry
<1>4. ~LoginDelete(r0)
  BY DEF LoginDelete, LoginPosition, LoginMaySend, Disabled
<1>5. ASSUME PollUnlinkHead \/ PollUnlinkOther PROVE Entry(n, UpdateKey)'
  BY <1>5, UnlinkEntry
<1> QED
  BY <1>1, <1>2, <1>3, <1>4, <1>5, EntrySteps

LEMMA KeyNext ==
    ASSUME NEW r0, Receivers = {r0}, FlagTypes, DataTypes, ListInv,
           LoginPosition, KeyInv, [Next]_vars
    PROVE  ReplacedFirst' /\ KeyUnderWay'
<1> USE DEF KeyInv
<1>a. /\ Poller \in Threads /\ r0 \in Threads /\ Receivers \subseteq Threads
      /\ pc \in [Threads -> Locations] /\ app \in [Threads -> Apps]
  BY DEF DataTypes, Threads
<1>b. Freed \notin Nodes
  BY LinkAssumption
<1>c. KeyHandler' => ReplacedFirst' /\ KeyUnderWay'
  BY DEF ReplacedFirst, KeyUnderWay
<1> SUFFICES ASSUME Disabled', ~KeyHandler' PROVE ReplacedFirst' /\ KeyUnderWay'
  BY <1>c DEF ReplacedFirst, KeyUnderWay
<1>1. \A r \in Receivers : ~RecvRequest(r, UpdateKey)
  BY <1>a DEF RecvRequest, GotoFor, KeyHandler
<1>2. Disabled
  BY <1>1, DisabledFrom
<1>3. ~(AckDelete(r0) /\ app[r0] = UpdateKey)
  BY <1>a DEF AckDelete, Goto, GotoFor, Working, KeyHandler
<1>4. CASE KeyHandler
  <2>1. Insert(r0) /\ app[r0] = UpdateKey
    BY <1>2, <1>4, KeyHandlerGoesOn
  <2>2. insertlink(UpdateKey) /\ UpdateKey \in Apps /\ pf' = pf
    BY <2>1, LinkAssumption DEF Insert, ptrs
  <2>3. \E m : m # pf /\ Entry(m, UpdateKey)'
    BY <2>2, InsertEntry
  <2> QED
    BY <2>2, <2>3 DEF ReplacedFirst, KeyUnderWay
<1>5. CASE ~KeyHandler
  <2>1. PICK n : Entry(n, UpdateKey)
    BY <1>2, <1>5 DEF KeyUnderWay
  <2>2. KeyUnderWay'
    <3>1. CASE n # pf \/ ~(PollUnlinkHead \/ PollUnlinkOther)
      BY <1>2, <1>3, <2>1, <3>1, KeyEntryStays DEF KeyUnderWay
    <3>2. CASE n = pf /\ (PollUnlinkHead \/ PollUnlinkOther)
      <4>1. pc[Poller] = "unlinking"
        BY <3>2 DEF PollUnlinkHead, PollUnlinkOther
      <4>2. app[Poller] = UpdateKey
        BY <2>1, <3>2, <4>1 DEF RemovesWhatTimedOut
      <4>3. PICK m : m # pf /\ Entry(m, UpdateKey)
        BY <1>2, <1>5, <4>1, <4>2 DEF ReplacedFirst
      <4> QED
        BY <1>2, <1>3, <4>3, KeyEntryStays DEF KeyUnderWay
    <3> QED
      BY <3>1, <3>2
  <2>3. ReplacedFirst'
    <3> SUFFICES ASSUME pc'[Poller] \in {"unlink", "unlinking"},
                        app'[Poller] = UpdateKey
                 PROVE  \E m : m # pf' /\ Entry(m, UpdateKey)'
      BY DEF ReplacedFirst
    <3>1. ~Respond(Poller)
      BY <1>a DEF Respond, AfterRespond, Goto, GotoFor, Working
    <3>2. CASE Insert(Poller)
      <4>1. insertlink(UpdateKey) /\ UpdateKey \in Apps /\ pf' = pf
        BY <3>2, <1>a, LinkAssumption DEF Insert, AfterRespond, Goto, GotoFor,
                                          Working, ptrs
      <4> QED
        BY <4>1, InsertEntry
    <3>3. ASSUME pc[Poller] \in {"unlink", "unlinking"}, app[Poller] = UpdateKey,
                 pf' = pf \/ AckDelete(r0) \/ LoginDelete(r0)
          PROVE  \E m : m # pf' /\ Entry(m, UpdateKey)'
      <4>1. PICK m : m # pf /\ Entry(m, UpdateKey)
        BY <1>2, <1>5, <3>3 DEF ReplacedFirst
      <4>2. Entry(m, UpdateKey)'
        BY <1>2, <1>3, <4>1, KeyEntryStays
      <4>3. CASE AckDelete(r0) \/ LoginDelete(r0)
        <5>1. delete_link(app[r0]) /\ app[r0] \in Apps
          BY <4>3, <1>a DEF AckDelete, LoginDelete
        <5>2. pf' = pf \/ pf' = Freed
          BY <5>1, DeleteEntry DEF AfterFree
        <5>3. m \in Nodes
          BY <4>1, EntryUnique
        <5> QED
          BY <1>b, <4>1, <4>2, <5>2, <5>3
      <4> QED
        BY <3>3, <4>1, <4>2, <4>3
    <3>4. CASE PollLock \/ PollFreed
      <4>1. /\ pc[Poller] \in {"unlink", "unlinking"} /\ app[Poller] = UpdateKey
            /\ pf' = pf
        BY <3>4, <1>a DEF PollLock, PollFreed, Goto, GotoFor, Working, ptrs
      <4> QED
        BY <3>3, <4>1
    <3>5. ~PollSecond
      BY DEF PollSecond, Disabled
    <3>6. ~(PollStart \/ PollFirst \/ PollNext \/ PollUnlinkHead \/ PollUnlinkOther)
      BY <1>a DEF PollStart, PollFirst, PollNext, PollUnlinkHead, PollUnlinkOther,
                  AtHead, Goto, GotoFor
    <3> QED
      BY <3>1, <3>2, <3>3, <3>4, <3>5, <3>6, PollerStays DEF Poll
  <2> QED
    BY <2>2, <2>3
<1> QED
  BY <1>4, <1>5

LEMMA KeyInit == Init => ListInv /\ KeyInv
<1>1. Init => DOMAIN Headerlink = {}
  BY DEF Init
<1>2. Init => ListInv
  BY <1>1, LinkAssumption DEF Init, ListInv, UniqueNodes, PointersLive,
                              PointersFollowList, InList
<1>3. Init => KeyInv
  BY <1>1 DEF Init, KeyInv, RemovesWhatTimedOut, LoginMaySend, ReplacedFirst,
              KeyUnderWay, Disabled, Entry
<1> QED
  BY <1>2, <1>3

\* A T-Box that does not let responses and reports leave is replacing its root
\* key (one receive thread).
THEOREM SendingCorrect ==
    ASSUME NEW r0, Receivers = {r0}
    PROVE  Spec => []SendDisabledOnlyDuringKeyUpdate
<1>1. Init => ListInv /\ KeyInv
  BY KeyInit
<1>2. TypeInv /\ ListInv /\ KeyInv /\ [Next]_vars => ListInv' /\ KeyInv'
  BY ListNext, RemovesNext, LoginMaySendNext, KeyNext
     DEF TypeInv, TypeOK, KeyInv
<1>3. KeyInv => SendDisabledOnlyDuringKeyUpdate
  BY SearchEntry DEF KeyInv, KeyUnderWay, Disabled, KeyHandler,
                     SendDisabledOnlyDuringKeyUpdate
<1> QED
  BY <1>1, <1>2, <1>3, TypeInit, TypeNext, PTL DEF Spec

-----------------------------------------------------------------------------
(* One response at a time, with one receive thread.                        *)

\* Thread u is where it was.
Same(u) ==
    /\ pc'[u] = pc[u] /\ app'[u] = app[u]
    /\ u \in Receivers => idx'[u] = idx[u]

\* A step moves no thread but the one that takes it.
LEMMA OneThreadMoves ==
    ASSUME DataTypes
    PROVE  /\ \A t \in Threads : Respond(t) \/ Insert(t)
                => \A u \in Threads : u # t => Same(u)
           /\ \A r \in Receivers : Receive(r) \/ Handle(r) \/ socketConnect(r)
                => \A u \in Threads : u # r => Same(u)
           /\ Poll => \A u \in Threads : u # Poller => Same(u)
           /\ McuReply => \A u \in Threads : u # Mcu => Same(u)
           /\ Sig_CtrlAlarm \/ LoginTimeout \/ disconnectSocket \/ Tick
                \/ UNCHANGED vars
                => \A u \in Threads : Same(u)
<1> USE DEF Goto, GotoFor, pass, Same
<1>a. /\ pc \in [Threads -> Locations] /\ app \in [Threads -> Apps]
      /\ idx \in [Receivers -> 0..Len(AppOrder)] /\ Receivers \subseteq Threads
  BY DEF DataTypes, Threads
<1>1. ASSUME NEW t \in Threads, Respond(t) \/ Insert(t), NEW u \in Threads, u # t
      PROVE  Same(u)
  BY <1>1, <1>a DEF Respond, Insert
<1>2. ASSUME NEW r \in Receivers, Receive(r) \/ Handle(r) \/ socketConnect(r),
             NEW u \in Threads, u # r
      PROVE  Same(u)
  <2>1. CASE RecvAuth(r) \/ RecvAuthReadyAck(r) \/ RecvRemoteCtrl(r) \/ LinkLost(r)
    BY <2>1, <1>2, <1>a DEF RecvAuth, RecvAuthReadyAck, RecvRemoteCtrl, LinkLost
  <2>2. CASE RecvUnsupportedCtrl(r) \/ socketConnect(r)
    BY <2>2, <1>2, <1>a DEF RecvUnsupportedCtrl, socketConnect
  <2>3. ASSUME NEW a \in Apps, RecvRequest(r, a) \/ RecvAck(r, a) PROVE Same(u)
    BY <2>3, <1>2, <1>a DEF RecvRequest, RecvAck
  <2>4. CASE AckDelete(r) \/ LoginDelete(r) \/ LoginCheck(r)
    BY <2>4, <1>2, <1>a DEF AckDelete, LoginDelete, LoginCheck, NextLoginCheck
  <2>5. CASE LoginClear(r) \/ AckLock(r) \/ AckClear(r) \/ UnlockedAccess(r)
    BY <2>5, <1>2, <1>a DEF LoginClear, AckLock, AckClear, UnlockedAccess
  <2> QED
    BY <1>2, <2>1, <2>2, <2>3, <2>4, <2>5 DEF Receive, Handle
<1>3. ASSUME Poll, NEW u \in Threads, u # Poller PROVE Same(u)
  BY <1>3, <1>a DEF Poll, PollStart, PollFirst, PollSecond, PollNext, PollLock,
     PollUnlinkHead, PollUnlinkOther, PollFreed, AtHead
<1>4. ASSUME McuReply, NEW u \in Threads, u # Mcu PROVE Same(u)
  BY <1>4, <1>a DEF McuReply
<1>5. ASSUME Sig_CtrlAlarm \/ LoginTimeout \/ disconnectSocket \/ Tick
             \/ UNCHANGED vars,
             NEW u \in Threads
      PROVE  Same(u)
  BY <1>5, <1>a DEF Sig_CtrlAlarm, LoginTimeout, disconnectSocket, Tick, vars
<1> HIDE DEF Same
<1> QED
  BY <1>1, <1>2, <1>3, <1>4, <1>5

\* The nodes that wait for the acknowledgement of application a.
Waiting(a) == {n \in Nodes : Entry(n, a)}

\* Counting positions or nodes is the same.
LEMMA WaitingCount ==
    ASSUME DataTypes, ListInv, NEW a
    PROVE  /\ IsFiniteSet(Waiting(a)) /\ Cardinality(Waiting(a)) \in Nat
           /\ Cardinality(Outstanding(a)) = Cardinality(Waiting(a))
<1>1. /\ Len(Headerlink) \in Nat /\ DOMAIN Headerlink = 1..Len(Headerlink)
      /\ \A k \in DOMAIN Headerlink : Headerlink[k].id \in Nodes
  BY ListElements
<1>2. IsFiniteSet(Outstanding(a))
  <2>1. IsFiniteSet(1..Len(Headerlink))
    BY <1>1, FS_Interval
  <2>2. Outstanding(a) \in SUBSET (1..Len(Headerlink))
    BY <1>1 DEF Outstanding
  <2> QED
    BY <2>1, <2>2, FS_Subset
<1> DEFINE f == [i \in Outstanding(a) |-> Headerlink[i].id]
<1>3. f \in Bijection(Outstanding(a), Waiting(a))
  <2>1. f \in [Outstanding(a) -> Waiting(a)]
    BY <1>1 DEF Outstanding, Waiting, Entry
  <2>2. \A i, j \in Outstanding(a) : f[i] = f[j] => i = j
    BY DEF Outstanding, ListInv, UniqueNodes
  <2>3. \A n \in Waiting(a) : \E i \in Outstanding(a) : f[i] = n
    BY DEF Outstanding, Waiting, Entry
  <2> QED
    BY <2>1, <2>2, <2>3, Fun_IsBij
<1>4. ExistsBijection(Outstanding(a), Waiting(a))
  BY <1>3, Zenon DEF ExistsBijection
<1>5. IsFiniteSet(Waiting(a)) /\ Cardinality(Waiting(a)) = Cardinality(Outstanding(a))
  BY <1>2, <1>4, FS_Bijection
<1> QED
  BY <1>5, FS_CardinalityType

\* Threads that replace a node of application a: TimeOutThread, the receiver.
Replaces(t, a) == IF app[t] = a /\ pc[t] \in {"unlink", "unlinking", "loginDelete"}
                  THEN 1 ELSE 0

LEMMA ReplacingCount ==
    ASSUME NEW r0, Receivers = {r0}, NEW a
    PROVE  Cardinality(Replacing(a)) = Replaces(Poller, a) + Replaces(r0, a)
<1>1. r0 # Poller
  BY LinkAssumption
<1>2. Replacing(a) = (IF Replaces(Poller, a) = 1 THEN {Poller} ELSE {})
                     \cup (IF Replaces(r0, a) = 1 THEN {r0} ELSE {})
  BY <1>1 DEF Replacing, Replaces
<1>3. /\ Cardinality({}) = 0 /\ IsFiniteSet({}) /\ IsFiniteSet({Poller})
      /\ Cardinality({Poller}) = 1 /\ Cardinality({r0}) = 1
  BY FS_EmptySet, FS_Singleton
<1>4. Cardinality({Poller} \cup {r0}) = 2
  <2>1. Cardinality({Poller} \cup {r0})
           = IF r0 \in {Poller} THEN Cardinality({Poller}) ELSE Cardinality({Poller}) + 1
    BY <1>3, FS_AddElement
  <2> QED
    BY <1>1, <1>3, <2>1
<1> QED
  BY <1>2, <1>3, <1>4 DEF Replaces

\* TimeOutThread and the receiver may each have put a response beside the one
\* they are about to remove.
AtMostOne(r0) ==
    \A a \in Apps \ {RemoteCtrl} :
        Cardinality(Waiting(a)) <= 1 + Replaces(Poller, a) + Replaces(r0, a)

\* The answer to a new request has no other beside it but such a one.
RequestIsNew(r0) ==
    \A a \in Apps \ {RemoteCtrl} :
        pc[r0] \in {"respond", "insert"} /\ app[r0] = a /\ idx[r0] = 0
            => Cardinality(Waiting(a)) <= Replaces(Poller, a)

\* The MCU thread answers remote-control commands only.
McuAnswers == app[Mcu] = RemoteCtrl

OutInv(r0) == AtMostOne(r0) /\ RequestIsNew(r0) /\ McuAnswers

\* What the changes of the list do to the number of nodes that wait.
LEMMA WaitingSame ==
    ASSUME NEW a, \A n, b : Entry(n, b)' <=> Entry(n, b)
    PROVE  Waiting(a)' = Waiting(a)
  BY DEF Waiting

LEMMA WaitingInsert ==
    ASSUME DataTypes, ListInv, NEW b \in Apps, insertlink(b), NEW a
    PROVE  Cardinality(Waiting(a)')
               = Cardinality(Waiting(a)) + (IF a = b THEN 1 ELSE 0)
<1>1. PICK m \in Nodes :
          /\ \A c : ~Entry(m, c)
          /\ \A n, c : Entry(n, c)' <=> Entry(n, c) \/ (n = m /\ c = b)
  BY InsertEntry
<1>2. IsFiniteSet(Waiting(a)) /\ Cardinality(Waiting(a)) \in Nat
  BY WaitingCount
<1>3. CASE a # b
  <2>1. Waiting(a)' = Waiting(a)
    BY <1>1, <1>3 DEF Waiting
  <2> QED
    BY <1>2, <1>3, <2>1
<1>4. CASE a = b
  <2>1. Waiting(a)' = Waiting(a) \cup {m}
    BY <1>1, <1>4 DEF Waiting
  <2>2. m \notin Waiting(a)
    BY <1>1 DEF Waiting
  <2> QED
    BY <1>2, <1>4, <2>1, <2>2, FS_AddElement
<1> QED
  BY <1>3, <1>4

LEMMA WaitingRemove ==
    ASSUME DataTypes, ListInv, NEW m, NEW b, Entry(m, b),
           \A n, c : Entry(n, c)' <=> Entry(n, c) /\ n # m,
           NEW a
    PROVE  Cardinality(Waiting(a)')
               = Cardinality(Waiting(a)) - (IF a = b THEN 1 ELSE 0)
<1>1. m \in Nodes /\ \A c : Entry(m, c) => b = c
  BY EntryUnique
<1>2. IsFiniteSet(Waiting(a)) /\ Cardinality(Waiting(a)) \in Nat
  BY WaitingCount
<1>3. Waiting(a)' = Waiting(a) \ {m}
  BY DEF Waiting
<1>4. m \in Waiting(a) <=> a = b
  BY <1>1 DEF Waiting
<1> QED
  BY <1>2, <1>3, <1>4, FS_RemoveElement

\* delete_link takes one away, or there was none.
LEMMA WaitingDelete ==
    ASSUME DataTypes, ListInv, NEW b \in Apps, delete_link(b), NEW a
    PROVE  /\ Cardinality(Waiting(a)') \in Nat
           /\ Cardinality(Waiting(a)') <= Cardinality(Waiting(a))
           /\ a = b => \/ Cardinality(Waiting(a)') = 0
                       \/ Cardinality(Waiting(a)') = Cardinality(Waiting(a)) - 1
<1>1. Cardinality(Waiting(a)) \in Nat /\ IsFiniteSet(Waiting(a))
  BY WaitingCount
<1>2. ASSUME NEW i \in DOMAIN Headerlink, Headerlink[i].app = b,
             Headerlink' = RemoveAt(Headerlink, i)
      PROVE  Cardinality(Waiting(a)')
               = Cardinality(Waiting(a)) - (IF a = b THEN 1 ELSE 0)
  <2>1. Entry(Headerlink[i].id, b)
    BY <1>2 DEF Entry
  <2>2. \A n, c : Entry(n, c)' <=> Entry(n, c) /\ n # Headerlink[i].id
    BY <1>2, RemoveEntry
  <2> QED
    BY <2>1, <2>2, WaitingRemove
<1>3. CASE ~search(b) /\ Headerlink' = Headerlink
  <2>1. Waiting(a)' = Waiting(a)
    BY <1>3 DEF Waiting, Entry
  <2>2. a = b => Waiting(a) = {}
    BY <1>3, SearchEntry DEF Waiting
  <2> QED
    BY <1>1, <2>1, <2>2, FS_EmptySet
<1>4. CASE \E i \in DOMAIN Headerlink : Headerlink[i].app = b /\ Headerlink' = RemoveAt(Headerlink, i)
  <2>1. Cardinality(Waiting(a)') = Cardinality(Waiting(a)) - (IF a = b THEN 1 ELSE 0)
    BY <1>2, <1>4
  <2>2. a = b => Waiting(a) # {}
    BY <1>4, SearchEntry, ListElements DEF Waiting, search, Entry
  <2>3. a = b => Cardinality(Waiting(a)) # 0
    BY <1>1, <2>2, FS_EmptySet
  <2> QED
    BY <1>1, <2>1, <2>3
<1> QED
  BY <1>3, <1>4 DEF delete_link

\* TimeOutThread takes away one of the application it works for.
LEMMA WaitingUnlink ==
    ASSUME DataTypes, ListInv, RemovesWhatTimedOut, PollUnlinkHead \/ PollUnlinkOther,
           NEW a
    PROVE  Cardinality(Waiting(a)')
               = Cardinality(Waiting(a)) - (IF a = app[Poller] THEN 1 ELSE 0)
<1>1. \A n, c : Entry(n, c)' <=> Entry(n, c) /\ n # pf
  BY UnlinkEntry
<1>2. pc[Poller] = "unlinking" /\ \E i \in DOMAIN Headerlink : Headerlink[i].id = pf
  BY DEF PollUnlinkHead, PollUnlinkOther
<1>3. \E b : Entry(pf, b)
  BY <1>2 DEF Entry
<1>4. Entry(pf, app[Poller])
  BY <1>2, <1>3 DEF RemovesWhatTimedOut
<1>5. PICK m, b : m = pf /\ b = app[Poller]
  OBVIOUS
<1>6. Entry(m, b) /\ \A n, c : Entry(n, c)' <=> Entry(n, c) /\ n # m
  BY <1>1, <1>4, <1>5 DEF Entry
<1>7. Cardinality(Waiting(a)') = Cardinality(Waiting(a)) - (IF a = b THEN 1 ELSE 0)
  BY <1>6, WaitingRemove
<1> QED
  BY <1>5, <1>7

\* How many nodes wait does not change in any other step.
LEMMA WaitingSteps ==
    ASSUME DataTypes, ListInv, [Next]_vars, NEW a
    PROVE  \/ Waiting(a)' = Waiting(a)
           \/ \E t \in Threads : Insert(t)
           \/ \E r \in Receivers : AckDelete(r) \/ LoginDelete(r)
           \/ PollUnlinkHead \/ PollUnlinkOther
  BY EntrySteps, WaitingSame

LEMMA OutInit == ASSUME NEW r0, Receivers = {r0} PROVE Init => OutInv(r0)
<1> SUFFICES ASSUME Init PROVE OutInv(r0)
  OBVIOUS
<1>1. r0 \in Threads /\ Poller \in Threads /\ Mcu \in Threads /\ RemoteCtrl \in Apps
  BY LinkAssumption DEF Threads
<1>2. \A a : Cardinality(Waiting(a)) = 0
  <2>1. \A a : Waiting(a) = {}
    BY DEF Init, Waiting, Entry
  <2> QED
    BY <2>1, FS_EmptySet
<1>3. \A a \in Apps \ {RemoteCtrl} : Replaces(Poller, a) = 0 /\ Replaces(r0, a) = 0
  BY <1>1 DEF Init, Replaces
<1> QED
  BY <1>1, <1>2, <1>3 DEF Init, OutInv, AtMostOne, RequestIsNew, McuAnswers

LEMMA McuNext == DataTypes /\ McuAnswers /\ [Next]_vars => McuAnswers'
<1> SUFFICES ASSUME DataTypes, McuAnswers, [Next]_vars PROVE McuAnswers'
  OBVIOUS
<1>a. /\ Mcu \in Threads /\ Mcu \notin Receivers /\ Poller # Mcu
      /\ app \in [Threads -> Apps] /\ Receivers \subseteq Threads
  BY LinkAssumption DEF Threads, DataTypes, Mcu, Poller
<1>1. Same(Mcu) => McuAnswers'
  BY DEF Same, McuAnswers
<1>2. ASSUME Respond(Mcu) \/ Insert(Mcu) \/ McuReply PROVE McuAnswers'
  BY <1>2, <1>a DEF Respond, Insert, McuReply, Goto, GotoFor, McuAnswers
<1>3. ASSUME NEW t \in Threads, Respond(t) \/ Insert(t) PROVE McuAnswers'
  <2>1. CASE t = Mcu
    BY <1>2, <1>3, <2>1
  <2>2. CASE t # Mcu
    BY <1>1, <1>3, <1>a, <2>2, OneThreadMoves
  <2> QED
    BY <2>1, <2>2
<1>4. ASSUME NEW r \in Receivers, Receive(r) \/ Handle(r) \/ socketConnect(r)
      PROVE  McuAnswers'
  BY <1>1, <1>4, <1>a, OneThreadMoves
<1>5. ASSUME Poll PROVE McuAnswers'
  BY <1>1, <1>5, <1>a, OneThreadMoves
<1>6. ASSUME Sig_CtrlAlarm \/ LoginTimeout \/ disconnectSocket \/ Tick \/ UNCHANGED vars
      PROVE  McuAnswers'
  BY <1>1, <1>6, <1>a, OneThreadMoves
<1> QED
  BY <1>2, <1>3, <1>4, <1>5, <1>6 DEF Next

\* No thread breaks the bound for application a.
OneOf(r0, a) ==
    /\ Cardinality(Waiting(a)) <= 1 + Replaces(Poller, a) + Replaces(r0, a)
    /\ pc[r0] \in {"respond", "insert"} /\ app[r0] = a /\ idx[r0] = 0
         => Cardinality(Waiting(a)) <= Replaces(Poller, a)

\* Steps of TimeOutThread: it adds a node before it removes one.
LEMMA OutPoller ==
    ASSUME NEW r0, Receivers = {r0}, DataTypes, ListInv, RemovesWhatTimedOut,
           NEW a \in Apps, OneOf(r0, a),
           Respond(Poller) \/ Insert(Poller) \/ Poll
    PROVE  OneOf(r0, a)'
<1>a. /\ Poller \in Threads /\ r0 \in Threads /\ r0 # Poller /\ Poller \notin Receivers
      /\ pc \in [Threads -> Locations] /\ app \in [Threads -> Apps]
      /\ Cardinality(Waiting(a)) \in Nat
  BY LinkAssumption, WaitingCount DEF DataTypes, Threads
<1> DEFINE W == Cardinality(Waiting(a))
           P == Replaces(Poller, a)
<1>b. /\ P \in {0, 1} /\ P' \in {0, 1} /\ Replaces(r0, a) \in {0, 1}
  BY DEF Replaces
<1>c. Same(r0)
  BY <1>a, OneThreadMoves
<1>d. Replaces(r0, a)' = Replaces(r0, a)
  BY <1>c DEF Same, Replaces
<1>1. ASSUME W' \in Int, W' - P' <= W - P PROVE OneOf(r0, a)'
  <2>1. PICK w, w1, p, p1, r :
           /\ w = W /\ w1 = W' /\ p = P /\ p1 = P' /\ r = Replaces(r0, a)
    OBVIOUS
  <2>2. /\ w \in Int /\ w1 \in Int /\ p \in Int /\ p1 \in Int /\ r \in Int
        /\ w1 - p1 <= w - p
    BY <1>1, <1>a, <1>b, <2>1
  <2>3. /\ w <= 1 + p + r
        /\ pc[r0] \in {"respond", "insert"} /\ app[r0] = a /\ idx[r0] = 0 => w <= p
    BY <2>1 DEF OneOf
  <2>4. w1 <= 1 + p1 + r /\ (w <= p => w1 <= p1)
    BY ONLY <2>2, <2>3
  <2>5. pc'[r0] = pc[r0] /\ app'[r0] = app[r0] /\ idx'[r0] = idx[r0]
    BY <1>c DEF Same
  <2>6. pc'[r0] \in {"respond", "insert"} /\ app'[r0] = a /\ idx'[r0] = 0 => w1 <= p1
    BY <2>3, <2>4, <2>5
  <2>7. w1 = Cardinality(Waiting(a)') /\ p1 = Replaces(Poller, a)' /\ r = Replaces(r0, a)'
    BY <1>d, <2>1, Zenon
  <2> QED
    BY <2>4, <2>6, <2>7, Zenon DEF OneOf
<1>2. CASE \/ Respond(Poller)
           \/ PollStart \/ PollFirst \/ PollSecond \/ PollNext \/ PollLock \/ PollFreed
  <2>1. P' >= P
    <3>1. CASE Respond(Poller)
      BY <3>1, <1>a DEF Respond, AfterRespond, Goto, GotoFor, Working, Replaces
    <3>2. CASE PollStart \/ PollNext
      BY <3>2, <1>a DEF PollStart, PollNext, Checking, AtHead, Goto, GotoFor, Working, Replaces
    <3>3. CASE PollFirst \/ PollSecond
      BY <3>3, <1>a DEF PollFirst, PollSecond, Checking, GotoFor, Replaces
    <3>4. CASE PollLock \/ PollFreed
      BY <3>4, <1>a DEF PollLock, PollFreed, Goto, GotoFor, Working, Replaces
    <3> QED
      BY <1>2, <3>1, <3>2, <3>3, <3>4
  <2>2. Headerlink' = Headerlink
    BY <1>2 DEF Respond, PollStart, PollFirst, PollSecond, PollNext, PollLock, PollFreed
  <2>3. W' = W
    BY <2>2 DEF Waiting, Entry
  <2> QED
    BY <1>1, <1>a, <1>b, <2>1, <2>3
<1>3. CASE Insert(Poller)
  <2>1. /\ insertlink(app[Poller]) /\ app[Poller] \in Apps /\ pc[Poller] = "insert"
        /\ pc'[Poller] = "unlink" /\ app'[Poller] = app[Poller]
    BY <1>3, <1>a DEF Insert, AfterRespond, Goto, GotoFor, Working
  <2>2. PICK b \in Apps : b = app[Poller]
    BY <2>1
  <2>3. W' = W + (IF a = b THEN 1 ELSE 0)
    BY <2>1, <2>2, WaitingInsert
  <2>4. P = 0 /\ P' = IF a = b THEN 1 ELSE 0
    BY <2>1, <2>2 DEF Replaces
  <2> QED
    BY <1>1, <1>a, <2>3, <2>4
<1>4. CASE PollUnlinkHead \/ PollUnlinkOther
  <2>1. /\ pc[Poller] = "unlinking" /\ pc'[Poller] \in {"idle", "check", "relock"}
    BY <1>4, <1>a DEF PollUnlinkHead, PollUnlinkOther, AtHead, Goto, GotoFor
  <2>2. P = (IF a = app[Poller] THEN 1 ELSE 0) /\ P' = 0
    BY <2>1 DEF Replaces
  <2>3. W' = W - (IF a = app[Poller] THEN 1 ELSE 0)
    BY <1>4, WaitingUnlink
  <2> QED
    BY <1>1, <1>a, <2>2, <2>3
<1> QED
  BY <1>2, <1>3, <1>4 DEF Poll

\* Steps of the receiver: a request is taken when nothing waits, a login adds
\* a node before it removes one.
LEMMA OutReceiver ==
    ASSUME NEW r0, Receivers = {r0}, DataTypes, ListInv, LoginPosition,
           NEW a \in Apps \ {RemoteCtrl}, OneOf(r0, a),
           Respond(r0) \/ Insert(r0) \/ Receive(r0) \/ Handle(r0) \/ socketConnect(r0)
    PROVE  OneOf(r0, a)'
<1>a. /\ Poller \in Threads /\ r0 \in Threads /\ r0 # Poller /\ r0 # Mcu
      /\ pc \in [Threads -> Locations] /\ app \in [Threads -> Apps]
      /\ idx \in [Receivers -> 0..Len(AppOrder)] /\ Len(AppOrder) \in Nat
      /\ Cardinality(Waiting(a)) \in Nat
  BY LinkAssumption, WaitingCount, LoginChecks DEF DataTypes, Threads
<1> DEFINE W == Cardinality(Waiting(a))
           P == Replaces(Poller, a)
           R == Replaces(r0, a)
           New == pc[r0] \in {"respond", "insert"} /\ app[r0] = a /\ idx[r0] = 0
<1>b. /\ P \in {0, 1} /\ R \in {0, 1} /\ R' \in {0, 1}
  BY DEF Replaces
<1>c. P' = P
  <2>1. Same(Poller)
    BY <1>a, OneThreadMoves
  <2> QED
    BY <2>1 DEF Same, Replaces
<1>d. W <= 1 + P + R /\ (New => W <= P)
  BY DEF OneOf
<1>1. ASSUME W' \in Int, W' <= 1 + P' + R', New' => W' <= P' PROVE OneOf(r0, a)'
  BY <1>1 DEF OneOf
<1>2. ASSUME W' \in Int, W' <= W, R' >= R, ~New' PROVE OneOf(r0, a)'
  <2>1. PICK w, w1, p, r, r1 : w = W /\ w1 = W' /\ p = P /\ r = R /\ r1 = R'
    OBVIOUS
  <2>2. /\ w \in Int /\ w1 \in Int /\ p \in Int /\ r \in Int /\ r1 \in Int
        /\ w1 <= w /\ r1 >= r /\ w <= 1 + p + r
    BY <1>2, <1>a, <1>b, <1>d, <2>1
  <2>3. w1 <= 1 + p + r1
    BY ONLY <2>2
  <2> HIDE DEF W, P, R, New
  <2>4. W' <= 1 + P' + R'
    BY <1>c, <2>1, <2>3, Zenon
  <2> QED
    BY <1>1, <1>2, <2>4, Zenon
<1>s. Headerlink' = Headerlink => W' = W
  BY DEF Waiting, Entry
<1> USE DEF Goto, GotoFor, LoginPosition, pass
<1>3. CASE Respond(r0)
  <2>1. Headerlink' = Headerlink /\ pc[r0] = "respond" /\ idx' = idx
    BY <1>3, Zenon DEF Respond
  <2>2. CASE pc'[r0] = "insert"
    <3>1. app'[r0] = app[r0]
      BY <1>3, <1>a, <2>2 DEF Respond, Working, AfterRespond, HandlerDone
    <3>2. R = 0
      BY <2>1 DEF Replaces
    <3>3. New' <=> New
      BY <2>1, <2>2, <3>1
    <3> QED
      BY <1>1, <1>a, <1>b, <1>c, <1>d, <1>s, <2>1, <3>2, <3>3
  <2>3. CASE pc'[r0] # "insert"
    <3>1. pc'[r0] \in {"loginDelete", "idle", "gone"}
      BY <1>3, <1>a, <2>3 DEF Respond, AfterRespond, HandlerDone
    <3>2. R = 0
      BY <2>1 DEF Replaces
    <3> QED
      BY <1>2, <1>a, <1>b, <1>s, <2>1, <3>1, <3>2
  <2> QED
    BY <2>2, <2>3
<1>4. CASE Insert(r0)
  <2>1. PICK b \in Apps : b = app[r0]
    BY <1>a
  <2>2. insertlink(b) /\ pc[r0] = "insert" /\ idx' = idx /\ R = 0
    BY <1>4, <2>1 DEF Insert, Replaces
  <2>3. W' = W + (IF a = b THEN 1 ELSE 0)
    BY <2>2, WaitingInsert
  <2>4. /\ pc'[r0] \in {"loginDelete", "idle", "gone"}
        /\ idx[r0] > 0 => pc'[r0] = "loginDelete" /\ app'[r0] = b
    BY <1>4, <1>a, <2>1 DEF Insert, AfterRespond, HandlerDone, Working
  <2>5. idx[r0] > 0 \/ idx[r0] = 0
    BY <1>a
  <2>6. CASE a # b
    BY <1>2, <1>a, <1>b, <2>2, <2>3, <2>4, <2>6
  <2>7. CASE a = b /\ idx[r0] = 0
    <3>1. W <= P /\ ~New'
      BY <1>d, <2>1, <2>2, <2>4, <2>7
    <3> QED
      BY <1>1, <1>a, <1>b, <1>c, <2>3, <2>7, <3>1
  <2>8. CASE a = b /\ idx[r0] > 0
    <3>1. R' = 1 /\ ~New'
      BY <2>4, <2>8 DEF Replaces
    <3> QED
      BY <1>1, <1>a, <1>b, <1>c, <1>d, <2>2, <2>3, <2>8, <3>1
  <2> QED
    BY <2>5, <2>6, <2>7, <2>8
<1>5. CASE Receive(r0)
  <2>1. Headerlink' = Headerlink /\ pc[r0] = "idle" /\ R = 0
    BY <1>5 DEF Receive, RecvAuth, RecvAuthReadyAck, RecvRequest, RecvAck, NewRequest,
       RecvRemoteCtrl, RecvUnsupportedCtrl, LinkLost, Received, Replaces
  <2>2. New' => RecvRequest(r0, a)
    <3>1. ASSUME RecvAuth(r0) \/ RecvAuthReadyAck(r0) \/ RecvRemoteCtrl(r0) \/ LinkLost(r0)
          PROVE  ~New'
      BY <1>a, <3>1 DEF RecvAuth, RecvAuthReadyAck, RecvRemoteCtrl, LinkLost, HandlerDone
    <3>2. RecvUnsupportedCtrl(r0) => ~New'
      BY <1>a DEF RecvUnsupportedCtrl
    <3>3. ASSUME NEW b \in Apps, RecvAck(r0, b) PROVE ~New'
      BY <1>a, <3>3 DEF RecvAck, HandlerDone
    <3>4. ASSUME NEW b \in Apps, RecvRequest(r0, b), New' PROVE b = a
      BY <1>a, <3>4 DEF RecvRequest
    <3> QED
      BY <1>5, <3>1, <3>2, <3>3, <3>4 DEF Receive
  <2>3. CASE New'
    <3>1. ~search(a)
      BY <2>2, <2>3 DEF RecvRequest, NewRequest
    <3>2. W = 0
      <4>1. Waiting(a) = {}
        BY <3>1, SearchEntry DEF Waiting
      <4> QED
        BY <4>1, FS_EmptySet
    <3> QED
      BY <1>1, <1>a, <1>b, <1>c, <1>s, <2>1, <3>2
  <2>4. CASE ~New'
    BY <1>2, <1>a, <1>b, <1>s, <2>1, <2>4
  <2> QED
    BY <2>3, <2>4
<1>6. CASE LoginDelete(r0)
  <2>1. PICK b \in Apps : b = app[r0]
    BY <1>a
  <2>2. delete_link(b) /\ pc[r0] = "loginDelete" /\ pc'[r0] \in {"login", "loginClear"}
    BY <1>6, <1>a, <2>1 DEF LoginDelete, NextLoginCheck
  <2>3. W' \in Nat /\ W' <= W /\ (a = b => W' = 0 \/ W' = W - 1)
    BY <2>2, WaitingDelete
  <2>4. R = (IF a = b THEN 1 ELSE 0) /\ R' = 0 /\ ~New'
    BY <2>1, <2>2 DEF Replaces
  <2>5. W' <= 1 + P
    BY <1>a, <1>b, <1>d, <2>3, <2>4
  <2> QED
    BY <1>1, <1>a, <1>b, <1>c, <2>3, <2>4, <2>5
<1>7. CASE AckDelete(r0)
  <2>1. PICK b \in Apps : b = app[r0]
    BY <1>a
  <2>2. delete_link(b) /\ pc[r0] = "ackDelete" /\ pc'[r0] = "ackClear"
    BY <1>7, <1>a, <2>1 DEF AckDelete
  <2>3. W' \in Nat /\ W' <= W
    BY <2>2, WaitingDelete
  <2>4. R = 0 /\ ~New'
    BY <2>2 DEF Replaces
  <2> QED
    BY <1>2, <1>a, <1>b, <2>3, <2>4
<1>8. CASE LoginCheck(r0)
  <2>1. Headerlink' = Headerlink /\ pc[r0] = "login" /\ R = 0
    BY <1>8 DEF LoginCheck, Replaces
  <2>2. idx'[r0] > 0
    BY <1>8, <1>a, <2>1 DEF LoginCheck, NextLoginCheck
  <2> QED
    BY <1>2, <1>a, <1>b, <1>s, <2>1, <2>2
<1>9. CASE LoginClear(r0) \/ AckLock(r0) \/ AckClear(r0) \/ socketConnect(r0)
  <2>1. Headerlink' = Headerlink /\ R = 0
    BY <1>9 DEF LoginClear, AckLock, AckClear, socketConnect, Replaces
  <2>2. pc'[r0] \in {"idle", "gone", "ackDelete"}
    BY <1>9, <1>a DEF LoginClear, AckLock, AckClear, socketConnect, HandlerDone
  <2> QED
    BY <1>2, <1>a, <1>b, <1>s, <2>1, <2>2
<1>10. CASE UnlockedAccess(r0)
  <2>1. UNCHANGED <<Headerlink, pc, app, idx>>
    BY <1>10 DEF UnlockedAccess
  <2>2. W' = W /\ R' = R /\ (New' <=> New)
    BY <1>s, <2>1 DEF Replaces
  <2> QED
    BY <1>1, <1>a, <1>c, <1>d, <2>2
<1> QED
  BY <1>3, <1>4, <1>5, <1>6, <1>7, <1>8, <1>9, <1>10 DEF Handle

LEMMA OutOthers ==
    ASSUME NEW r0, Receivers = {r0}, DataTypes, ListInv,
           NEW a \in Apps \ {RemoteCtrl}, OneOf(r0, a), McuAnswers,
           \/ Respond(Mcu) \/ Insert(Mcu) \/ McuReply
           \/ Sig_CtrlAlarm \/ LoginTimeout \/ disconnectSocket \/ Tick
           \/ UNCHANGED vars
    PROVE  OneOf(r0, a)'
<1>a. /\ Poller \in Threads /\ r0 \in Threads /\ Mcu \in Threads
      /\ r0 # Mcu /\ Poller # Mcu /\ RemoteCtrl \in Apps
      /\ Cardinality(Waiting(a)) \in Nat
  BY LinkAssumption, WaitingCount DEF Threads, Poller, Mcu
<1>1. Same(Poller) /\ Same(r0)
  BY <1>a, OneThreadMoves
<1>2. Cardinality(Waiting(a)') = Cardinality(Waiting(a))
  <2>1. CASE Insert(Mcu)
    <3>1. insertlink(RemoteCtrl)
      BY <2>1 DEF Insert, McuAnswers
    <3>2. Cardinality(Waiting(a)')
             = Cardinality(Waiting(a)) + (IF a = RemoteCtrl THEN 1 ELSE 0)
      BY <1>a, <3>1, WaitingInsert
    <3> QED
      BY <1>a, <3>2
  <2>2. CASE ~Insert(Mcu)
    <3>1. Tick \/ Headerlink' = Headerlink
      BY <2>2 DEF Respond, McuReply, Sig_CtrlAlarm, LoginTimeout, disconnectSocket, vars
    <3>2. \A n, b : Entry(n, b)' <=> Entry(n, b)
      BY <3>1, TickEntry DEF Entry
    <3> QED
      BY <3>2, WaitingSame
  <2> QED
    BY <2>1, <2>2
<1>3. Replaces(Poller, a)' = Replaces(Poller, a) /\ Replaces(r0, a)' = Replaces(r0, a)
  BY <1>1 DEF Same, Replaces
<1>4. pc'[r0] = pc[r0] /\ app'[r0] = app[r0] /\ idx'[r0] = idx[r0]
  BY <1>1 DEF Same
<1> QED
  BY <1>2, <1>3, <1>4, Zenon DEF OneOf

LEMMA OutNext ==
    ASSUME NEW r0, Receivers = {r0}
    PROVE  /\ DataTypes /\ ListInv /\ LoginPosition /\ RemovesWhatTimedOut
           /\ OutInv(r0) /\ [Next]_vars
           => OutInv(r0)'
<1> SUFFICES ASSUME DataTypes, ListInv, LoginPosition, RemovesWhatTimedOut,
                    OutInv(r0), [Next]_vars
             PROVE  OutInv(r0)'
  OBVIOUS
<1>1. McuAnswers /\ \A a \in Apps \ {RemoteCtrl} : OneOf(r0, a)
  BY Zenon DEF OutInv, AtMostOne, RequestIsNew, OneOf
<1>2. ASSUME NEW a \in Apps \ {RemoteCtrl} PROVE OneOf(r0, a)'
  <2>1. OneOf(r0, a) /\ a \in Apps
    BY <1>1
  <2>2. CASE Respond(Poller) \/ Insert(Poller) \/ Poll
    BY <2>1, <2>2, OutPoller
  <2>3. CASE Respond(r0) \/ Insert(r0) \/ Receive(r0) \/ Handle(r0) \/ socketConnect(r0)
    BY <2>1, <2>3, OutReceiver
  <2>4. CASE \/ Respond(Mcu) \/ Insert(Mcu) \/ McuReply
             \/ Sig_CtrlAlarm \/ LoginTimeout \/ disconnectSocket \/ Tick
             \/ UNCHANGED vars
    BY <1>1, <2>1, <2>4, OutOthers
  <2>5. Threads = {r0, Poller, Mcu}
    BY DEF Threads
  <2> QED
    BY <2>2, <2>3, <2>4, <2>5 DEF Next
<1>3. \A a \in Apps \ {RemoteCtrl} :
         /\ Cardinality(Waiting(a))' <= 1 + Replaces(Poller, a)' + Replaces(r0, a)'
         /\ pc'[r0] \in {"respond", "insert"} /\ app'[r0] = a /\ idx'[r0] = 0
              => Cardinality(Waiting(a))' <= Replaces(Poller, a)'
  BY <1>2, Zenon DEF OneOf
<1>4. McuAnswers'
  BY <1>1, McuNext
<1> QED
  BY <1>3, <1>4, Zenon DEF OutInv, AtMostOne, RequestIsNew

\* Except for remote control, no application waits for more acknowledgements
\* than one, and one more for each thread that is replacing its node: the search
\* the request handlers make without the mutex is enough for it, whatever
\* TimeOutThread and the login insert meanwhile (one receive thread).
THEOREM OutstandingCorrect ==
    ASSUME NEW r0, Receivers = {r0}
    PROVE  Spec => []AtMostOneOutstanding
<1>1. Init => ListInv /\ KeyInv
  BY KeyInit
<1>2. TypeInv /\ ListInv /\ KeyInv /\ [Next]_vars => ListInv' /\ KeyInv'
  BY ListNext, RemovesNext, LoginMaySendNext, KeyNext
     DEF TypeInv, TypeOK, KeyInv
<1>3. Init => OutInv(r0)
  BY OutInit
<1>4. TypeInv /\ ListInv /\ KeyInv /\ OutInv(r0) /\ [Next]_vars => OutInv(r0)'
  BY OutNext DEF TypeInv, TypeOK, KeyInv
<1>5. TypeInv /\ ListInv /\ OutInv(r0) => AtMostOneOutstanding
  <2> SUFFICES ASSUME DataTypes, ListInv, AtMostOne(r0), NEW a \in Apps \ {RemoteCtrl}
               PROVE  Cardinality(Outstanding(a)) <= 1 + Cardinality(Replacing(a))
    BY DEF TypeInv, TypeOK, OutInv, AtMostOneOutstanding
  <2>1. Cardinality(Outstanding(a)) = Cardinality(Waiting(a)) /\ Cardinality(Waiting(a)) \in Nat
    BY WaitingCount
  <2>2. Cardinality(Replacing(a)) = Replaces(Poller, a) + Replaces(r0, a)
    BY ReplacingCount
  <2>3. Replaces(Poller, a) \in Int /\ Replaces(r0, a) \in Int
    BY DEF Replaces
  <2> QED
    BY <2>1, <2>2, <2>3 DEF AtMostOne
<1> QED
  BY <1>1, <1>2, <1>3, <1>4, <1>5, TypeInit, TypeNext, PTL DEF Spec
=============================================================================

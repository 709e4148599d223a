----------------------------- MODULE GbProofs -----------------------------
(***************************************************************************)
(* Proofs about GB/T 32960. The report store, for a ring of any size and   *)
(* any number of frames and restarts: types, the packet made under the     *)
(* mutex, that no frame is reissued twice, and that the table holds the    *)
(* latest frames. The session, for any number of connections and receive   *)
(* threads: types, that a connection is heard, and that the login goes     *)
(* first.                                                                  *)
(***************************************************************************)
EXTENDS GbStore, GbSession, FiniteSetTheorems, TLAPS, WellFoundedInduction

-----------------------------------------------------------------------------
(* The queries: bounded sets of numbers have a least and a greatest one.   *)

\* A set of natural numbers has a least one.
LEMMA MinBelow ==
  ASSUME NEW S \in SUBSET Nat, S # {}
  PROVE  \E x \in S : \A y \in S : x <= y
<1> DEFINE R == OpToRel(<, Nat)
<1>1. \E x \in S : \A y \in S : ~(<<y, x>> \in R)
  BY NatLessThanWellFounded, WFMin
<1>2. \A x, y \in Nat : <<y, x>> \in R <=> y < x
  <2>1. R = {ss \in Nat \X Nat : ss[1] < ss[2]}
    BY Zenon DEF OpToRel
  <2> QED
    BY <2>1
<1> HIDE DEF R
<1>3. PICK x \in S : \A y \in S : ~(<<y, x>> \in R)
  BY <1>1
<1>4. ASSUME NEW y \in S PROVE x <= y
  <2>1. x \in Nat /\ y \in Nat
    BY <1>3
  <2>2. ~(y < x)
    BY <1>2, <1>3, <2>1, Zenon
  <2> QED
    BY <2>1, <2>2
<1> QED
  BY <1>4

LEMMA MinIn ==
  ASSUME NEW S \in SUBSET Nat, S # {}
  PROVE  Min(S) \in S
  BY MinBelow DEF Min

\* MaxOf finds a greatest one, or 0 if there is none.
LEMMA MaxIn ==
  ASSUME NEW b \in Nat, NEW S, S \subseteq 0..b
  PROVE  /\ MaxOf(S) \in 0..b
         /\ S # {} => MaxOf(S) \in S
         /\ \A y \in S : y <= MaxOf(S)
<1>1. CASE S = {}
  BY <1>1 DEF MaxOf
<1>2. CASE S # {}
  <2> DEFINE T == {b - x : x \in S}
  <2>1. T \in SUBSET Nat
    <3>1. ASSUME NEW x \in S PROVE b - x \in Nat
      <4>1. x \in 0..b
        OBVIOUS
      <4> QED
        BY <4>1
    <3> QED
      BY <3>1
  <2>2. T # {}
    <3>1. PICK x \in S : TRUE
      BY <1>2
    <3>2. b - x \in T
      OBVIOUS
    <3> QED
      BY <3>2
  <2>3. PICK t \in T : \A y \in T : t <= y
    BY <2>1, <2>2, MinBelow
  <2>4. PICK x \in S : t = b - x
    BY <2>3
  <2>5. ASSUME NEW y \in S PROVE x >= y
    <3>1. b - x <= b - y
      BY <2>3, <2>4
    <3>2. x \in 0..b /\ y \in 0..b
      BY <2>4
    <3> QED
      BY <3>1, <3>2
  <2>6. Max(S) \in S /\ \A y \in S : Max(S) >= y
    BY <2>5 DEF Max
  <2> QED
    BY <1>2, <2>6 DEF MaxOf
<1> QED
  BY <1>1, <1>2

LEMMA RingArithmetic ==
  ASSUME NEW m \in Nat, NEW p \in Nat \ {0}
  PROVE  /\ m % p \in 0..p-1 /\ m \div p \in Nat
         /\ m > p => m \div p - 1 \in Nat
  OBVIOUS

-----------------------------------------------------------------------------
(* The inductive invariant.                                                *)

\* The mutex keeps the MCU thread from the table while a row is chosen and
\* packed.
Mutex ==
    /\ mcu # "idle" => Goldenlock = "mcu"
    /\ main \in {"read", "pack", "packRest"} => Goldenlock = "main"

\* The row chosen is there, and unsent until it is read; before, there is no
\* packet.
Chosen ==
    /\ main = "read" => id \in rows /\ table[id].isSend = 0
    /\ main \in {"idle", "reissue", "read"} => packed = {} /\ packedMotion = {}

\* The newest frame that can be in the table, and the alarms there can be.
Last == IF mcu = "insert" THEN frame.n - 1 ELSE frame.n
Counted == IF mcu = "idle" THEN frame.n ELSE frame.n - 1

\* A frame that is about to be stored is nowhere yet.
Seen ==
    /\ mcu # "idle" => frame.n >= 1
    /\ \A i \in rows : table[i].n <= Last /\ table[i].times <= Counted
    /\ m_AlarmCount <= Counted /\ report <= Last
    /\ \A k \in reissued : k <= Last

\* No frame has two rows.
Unique == \A i, j \in rows : table[i].n = table[j].n => i = j

\* A frame that counts as reissued, or is about to be, has no unsent row.
Fresh ==
    /\ \A i \in rows : table[i].isSend = 0 => table[i].n \notin reissued
    /\ main \in {"pack", "packRest", "clear", "send"} =>
           /\ report \in 1..Frames /\ report \notin reissued
           /\ \A i \in rows : table[i].n = report => table[i].isSend = 1

IInv == /\ TypeOK /\ Mutex /\ Chosen /\ PackedIsMarked
        /\ Seen /\ Unique /\ Fresh

LEMMA InitIInv == Init => IInv
<1> SUFFICES ASSUME Init PROVE IInv
  OBVIOUS
<1>1. DOMAIN table = {}
  BY DEF Init
<1>2. FlagTypes
  BY DEF Init, FlagTypes
<1>3. DataTypes
  BY <1>1, StoreAssumption DEF Init, DataTypes, Levels, FILE
<1>4. Mutex /\ Chosen /\ PackedIsMarked /\ Seen /\ Unique /\ Fresh
  BY <1>1 DEF Init, Mutex, Chosen, PackedIsMarked, Seen, Last, Counted, Unique, Fresh,
     rows
<1> QED
  BY <1>2, <1>3, <1>4 DEF IInv, TypeOK

\* What the queries return.
LEMMA Queries ==
  ASSUME TypeOK
  PROVE  /\ queryMaxTimes \in 0..Frames
         /\ \A b \in Nat : (\A i \in rows : table[i].times <= b) => queryMaxTimes <= b
         /\ queryStandardProMaxID \in 0..SAVE_PERIOD
         /\ queryMaxTimesID \in 0..SAVE_PERIOD
         /\ queryMaxTimesID # 0 => queryMaxTimesID \in rows
         /\ queryUnsendID \in 0..SAVE_PERIOD
         /\ queryUnsendID # 0 =>
                queryUnsendID \in rows /\ table[queryUnsendID].isSend = 0
<1> DEFINE T == {table[i].times : i \in rows}
<1>0. SAVE_PERIOD \in Nat /\ Frames \in Nat
  BY StoreAssumption
<1>1. \A i \in rows : table[i] \in Row /\ i \in 1..SAVE_PERIOD
  BY DEF TypeOK, DataTypes, rows
<1>2. T \subseteq 0..Frames
  BY <1>1 DEF Row
<1>3. MaxOf(T) \in 0..Frames /\ (T # {} => MaxOf(T) \in T)
  BY <1>0, <1>2, MaxIn
<1>4. ASSUME NEW b \in Nat, \A i \in rows : table[i].times <= b
      PROVE  MaxOf(T) <= b
  <2>1. CASE T = {}
    BY <2>1 DEF MaxOf
  <2>2. CASE T # {}
    BY <2>2, <1>3, <1>4
  <2> QED
    BY <2>1, <2>2
<1>5. ASSUME NEW S \in SUBSET rows
      PROVE  MaxOf(S) \in 0..SAVE_PERIOD /\ (MaxOf(S) # 0 => MaxOf(S) \in S)
  <2>1. S \subseteq 0..SAVE_PERIOD
    BY <1>1
  <2>2. MaxOf(S) \in 0..SAVE_PERIOD /\ (S # {} => MaxOf(S) \in S)
    BY <1>0, <2>1, MaxIn
  <2> QED
    BY <2>2 DEF MaxOf
<1>6. queryMaxTimesID \in 0..SAVE_PERIOD
      /\ (queryMaxTimesID # 0 => queryMaxTimesID \in rows)
  <2>1. CASE rows = {}
    BY <2>1, <1>0 DEF queryMaxTimesID
  <2>2. CASE rows # {}
    <3> DEFINE S == {i \in rows : table[i].times = queryMaxTimes}
    <3>1. T # {}
      BY <2>2
    <3>2. MaxOf(T) \in T
      BY <1>3, <3>1
    <3>3. S # {}
      BY <3>2 DEF queryMaxTimes
    <3>4. S \in SUBSET Nat
      BY <1>1
    <3>5. Min(S) \in S
      BY <3>3, <3>4, MinIn
    <3> QED
      BY <2>2, <3>5, <1>1 DEF queryMaxTimesID
  <2> QED
    BY <2>1, <2>2
<1>7. queryMaxTimes = MaxOf(T)
  BY DEF queryMaxTimes
<1>8. queryStandardProMaxID \in 0..SAVE_PERIOD
  BY <1>5 DEF queryStandardProMaxID
<1>9. queryUnsendID \in 0..SAVE_PERIOD
      /\ (queryUnsendID # 0 =>
              queryUnsendID \in rows /\ table[queryUnsendID].isSend = 0)
  <2> DEFINE S == {i \in rows : table[i].isSend = 0}
  <2>1. MaxOf(S) \in 0..SAVE_PERIOD /\ (MaxOf(S) # 0 => MaxOf(S) \in S)
    BY <1>5
  <2> QED
    BY <2>1 DEF queryUnsendID
<1> QED
  BY <1>3, <1>4, <1>6, <1>7, <1>8, <1>9

-----------------------------------------------------------------------------
(* The steps of the MCU thread.                                            *)

LEMMA FrameStartKeeps ==
  ASSUME IInv, NEW level \in Levels, FrameStart(level)
  PROVE  IInv'
<1>0. SAVE_PERIOD \in Nat \ {0} /\ Frames \in Nat
  BY StoreAssumption
<1>1. /\ mcu = "idle" /\ mcu' = "insert" /\ Goldenlock = "free" /\ Goldenlock' = "mcu"
      /\ frame' = [n |-> frame.n + 1, level |-> level,
                   isSend |-> IF resend THEN 1 ELSE 0]
      /\ frame.n < Frames
  BY DEF FrameStart, TakeFrame
<1>2. UNCHANGED <<faultLevel, alarmcount, main, id, live, motion, report,
                  packed, packedMotion, reissued, restarts>>
  BY DEF FrameStart, TakeFrame, alarm, dataInfo, packet, sending, world
<1>3. UNCHANGED <<resend, loggedIn, alarmlever, reissue, intact>>
  BY DEF FrameStart, TakeFrame, session, alarm, world
<1>4. DataTypes /\ Mutex /\ Chosen /\ PackedIsMarked /\ Seen /\ Unique /\ Fresh
  BY DEF IInv, TypeOK
<1>5. frame.n \in 0..Frames /\ frame'.n = frame.n + 1
  BY <1>1, <1>4 DEF DataTypes
<1>6. main \notin {"read", "pack", "packRest"}
  BY <1>1, <1>4 DEF Mutex
<1>7. rows' \subseteq rows /\ \A i \in rows' : table'[i] = table[i]
  BY DEF FrameStart, TakeFrame, rows
<1>8. m_Id' \in Nat /\ m_Remainder' \in 0..SAVE_PERIOD
  <2>1. m_Id' \in Nat
    BY <1>4, Queries DEF FrameStart, TakeFrame, DataTypes, IInv
  <2>2. m_Id' % SAVE_PERIOD \in 0..SAVE_PERIOD-1
    BY <1>0, <2>1, RingArithmetic
  <2>3. m_Remainder' = IF m_Id' > SAVE_PERIOD THEN m_Id' % SAVE_PERIOD ELSE m_Id'
    BY DEF FrameStart, TakeFrame
  <2>4. CASE m_Id' > SAVE_PERIOD
    <3>1. m_Remainder' = m_Id' % SAVE_PERIOD
      BY <2>3, <2>4
    <3>2. 0..SAVE_PERIOD-1 \subseteq 0..SAVE_PERIOD
      BY <1>0
    <3> QED
      BY <2>1, <2>2, <3>1, <3>2
  <2>5. CASE ~(m_Id' > SAVE_PERIOD)
    <3>1. m_Remainder' = m_Id'
      BY <2>3, <2>5
    <3> QED
      BY <1>0, <2>1, <2>5, <3>1
  <2> QED
    BY <2>4, <2>5
<1>9. m_AlarmCount' \in 0..Frames /\ m_AlarmCount' <= frame.n
  <2>1. m_AlarmCount \in 0..Frames /\ m_AlarmCount <= frame.n
    BY <1>1, <1>4 DEF DataTypes, Seen, Counted
  <2>2. queryMaxTimes \in 0..Frames
    BY Queries DEF IInv
  <2>3. \A i \in rows : table[i].times <= frame.n
    BY <1>1, <1>4 DEF Seen, Counted
  <2>4. queryMaxTimes <= frame.n
    BY <1>5, <2>3, Queries DEF IInv
  <2>5. m_AlarmCount' = IF m_Id = 0 THEN queryMaxTimes ELSE m_AlarmCount
    BY DEF FrameStart, TakeFrame
  <2> QED
    BY <2>1, <2>2, <2>4, <2>5
<1>10. FlagTypes'
  BY <1>3 DEF IInv, TypeOK, FlagTypes
<1>11. DataTypes'
  <2>1. frame' \in [n : 0..Frames, level : Levels, isSend : 0..1]
    BY <1>0, <1>1, <1>5
  <2>2. DOMAIN table' \subseteq 1..SAVE_PERIOD /\ \A i \in DOMAIN table' : table'[i] \in Row
    BY <1>4, <1>7 DEF DataTypes, rows
  <2> QED
    BY <1>1, <1>2, <1>4, <1>8, <1>9, <2>1, <2>2 DEF DataTypes
<1>12. Mutex' /\ Chosen' /\ PackedIsMarked'
  BY <1>1, <1>2, <1>4, <1>6 DEF Mutex, Chosen, PackedIsMarked
<1>13. Last' = Last /\ Counted' = Counted
  BY <1>1, <1>5 DEF Last, Counted
<1>14. Seen'
  BY <1>1, <1>2, <1>4, <1>5, <1>7, <1>9, <1>13 DEF Seen, Counted
<1>15. Unique' /\ Fresh'
  BY <1>2, <1>4, <1>6, <1>7 DEF Unique, Fresh
<1> QED
  BY <1>10, <1>11, <1>12, <1>14, <1>15 DEF IInv, TypeOK

LEMMA FrameInsertKeeps ==
  ASSUME IInv, FrameInsert
  PROVE  IInv'
<1>0. SAVE_PERIOD \in Nat \ {0} /\ Frames \in Nat
  BY StoreAssumption
<1>1. mcu = "insert" /\ mcu' = "update"
  BY DEF FrameInsert
<1>2. UNCHANGED <<Goldenlock, m_Id, m_Remainder, m_AlarmCount, frame, faultLevel,
                  alarmcount, main, id, live, motion, report, packed, packedMotion,
                  reissued, restarts>>
  BY DEF FrameInsert, ids, alarm, dataInfo, packet, sending, world
<1>3. UNCHANGED <<resend, loggedIn, alarmlever, reissue, intact>>
  BY DEF FrameInsert, session, alarm, world
<1>4. DataTypes /\ Mutex /\ Chosen /\ PackedIsMarked /\ Seen /\ Unique /\ Fresh
  BY DEF IInv, TypeOK
<1>5. frame.n \in 1..Frames /\ Last = frame.n - 1 /\ Last' = frame.n
      /\ Counted = frame.n - 1 /\ Counted' = Counted
  BY <1>1, <1>2, <1>4 DEF DataTypes, Seen, Last, Counted
<1>6. main \notin {"read", "pack", "packRest"}
  BY <1>1, <1>4 DEF Mutex
<1>7. Slot \in 1..SAVE_PERIOD
  BY <1>0, <1>4 DEF Slot, DataTypes
<1>8. Round \in Nat
  <2>1. m_Id \in Nat
    BY <1>4 DEF DataTypes
  <2>2. /\ m_Id \div SAVE_PERIOD \in Nat
        /\ m_Id > SAVE_PERIOD => m_Id \div SAVE_PERIOD - 1 \in Nat
    BY <1>0, <2>1, RingArithmetic
  <2>3. CASE m_Id <= SAVE_PERIOD
    BY <2>3 DEF Round
  <2>4. CASE ~(m_Id <= SAVE_PERIOD)
    <3>1. m_Id > SAVE_PERIOD
      BY <1>0, <2>1, <2>4
    <3> QED
      BY <2>2, <2>4, <3>1 DEF Round
  <2> QED
    BY <2>3, <2>4
<1> DEFINE new == [n |-> frame.n, dev |-> Round, times |-> 0, isSend |-> frame.isSend]
<1>9. /\ rows' = rows \cup {Slot}
      /\ \A i \in rows' : table'[i] = IF i \in rows THEN table[i] ELSE new
  BY DEF FrameInsert, rows
<1>10. new \in Row /\ new.n = frame.n /\ new.times = 0
  BY <1>0, <1>4, <1>5, <1>8 DEF Row, DataTypes
<1> HIDE DEF new
<1>11. \A i \in rows' : (i \in rows /\ table'[i] = table[i]) \/ (i = Slot /\ table'[i] = new)
  BY <1>9
<1>12. FlagTypes'
  BY <1>3 DEF IInv, TypeOK, FlagTypes
<1>13. DataTypes'
  <2>1. DOMAIN table' \subseteq 1..SAVE_PERIOD /\ \A i \in DOMAIN table' : table'[i] \in Row
    BY <1>4, <1>7, <1>10, <1>11 DEF DataTypes, rows
  <2> QED
    BY <1>1, <1>2, <1>4, <2>1 DEF DataTypes
<1>14. Mutex' /\ Chosen' /\ PackedIsMarked'
  BY <1>1, <1>2, <1>4, <1>6 DEF Mutex, Chosen, PackedIsMarked
<1>15. Seen'
  <2>1. \A i \in rows : table[i].n \in 1..Frames /\ table[i].times \in 0..Frames
    BY <1>4 DEF DataTypes, Row, rows
  <2>2. \A i \in rows' : table'[i].n <= Last' /\ table'[i].times <= Counted'
    BY <1>0, <1>4, <1>5, <1>10, <1>11, <2>1 DEF Seen
  <2> QED
    BY <1>0, <1>1, <1>2, <1>4, <1>5, <2>2 DEF Seen, DataTypes
<1>16. \A i \in rows : table[i].n # frame.n
  <2>1. \A i \in rows : table[i].n \in 1..Frames /\ table[i].n <= frame.n - 1
    BY <1>4, <1>5 DEF DataTypes, Row, rows, Seen
  <2> QED
    BY <1>5, <2>1
<1>17. Unique'
  BY <1>4, <1>10, <1>11, <1>16 DEF Unique
<1>18. frame.n \notin reissued /\ report # frame.n
  <2>1. report \in 0..Frames /\ report <= frame.n - 1
    BY <1>4, <1>5 DEF DataTypes, Seen
  <2>2. \A k \in reissued : k \in 1..Frames /\ k <= frame.n - 1
    BY <1>4, <1>5 DEF DataTypes, Seen
  <2> QED
    BY <1>5, <2>1, <2>2
<1>19. Fresh'
  BY <1>2, <1>4, <1>6, <1>10, <1>11, <1>18 DEF Fresh
<1> QED
  BY <1>12, <1>13, <1>14, <1>15, <1>17, <1>19 DEF IInv, TypeOK

LEMMA FrameUpdateKeeps ==
  ASSUME IInv, FrameUpdate
  PROVE  IInv'
<1>0. SAVE_PERIOD \in Nat \ {0} /\ Frames \in Nat
  BY StoreAssumption
<1>1. mcu = "update" /\ mcu' = "idle" /\ Goldenlock' = "free" /\ live' = frame.n
      /\ motion' = frame.n
  BY DEF FrameUpdate
<1>2. UNCHANGED <<m_Id, m_Remainder, frame, alarmcount, main, id, report, packed,
                  packedMotion, reissued, restarts>>
  BY DEF FrameUpdate, alarm, packet, sending, world
<1>3. UNCHANGED <<resend, loggedIn, alarmlever, reissue, intact>>
  BY DEF FrameUpdate, session, alarm, world
<1>4. DataTypes /\ Mutex /\ Chosen /\ PackedIsMarked /\ Seen /\ Unique /\ Fresh
  BY DEF IInv, TypeOK
<1>5. frame.n \in 1..Frames /\ Last = frame.n /\ Last' = frame.n
      /\ Counted = frame.n - 1 /\ Counted' = frame.n
  BY <1>1, <1>2, <1>4 DEF DataTypes, Seen, Last, Counted
<1>6. main \notin {"read", "pack", "packRest"}
  BY <1>1, <1>4 DEF Mutex
<1>7. m_AlarmCount \in 0..Frames /\ m_AlarmCount <= frame.n - 1
  BY <1>4, <1>5 DEF DataTypes, Seen
<1>8. m_AlarmCount' \in 0..Frames /\ m_AlarmCount' <= frame.n
  <2>1. m_AlarmCount' = m_AlarmCount \/ m_AlarmCount' = m_AlarmCount + 1
    BY DEF FrameUpdate
  <2> QED
    BY <1>0, <1>5, <1>7, <2>1
<1>9. /\ rows' = rows
      /\ \A i \in rows : \/ table'[i] = table[i]
                        \/ table'[i] = [table[i] EXCEPT !.times = m_AlarmCount + 1]
  BY DEF FrameUpdate, rows
<1>10. \A i \in rows : table[i] \in Row /\ table[i].times <= frame.n - 1
  BY <1>4, <1>5 DEF DataTypes, Seen, rows
<1>11. ASSUME NEW i \in rows
       PROVE  /\ table'[i] \in Row
              /\ table'[i].n = table[i].n /\ table'[i].isSend = table[i].isSend
              /\ table'[i].times <= frame.n
  <2>1. CASE table'[i] = table[i]
    BY <1>5, <1>10, <2>1 DEF Row
  <2>2. CASE table'[i] = [table[i] EXCEPT !.times = m_AlarmCount + 1]
    BY <1>0, <1>5, <1>7, <1>10, <2>2 DEF Row
  <2> QED
    BY <1>9, <2>1, <2>2
<1>12. FlagTypes'
  BY <1>3 DEF IInv, TypeOK, FlagTypes
<1>13. faultLevel' \in Levels
  BY <1>4 DEF FrameUpdate, DataTypes
<1>14. DataTypes'
  <2>1. DOMAIN table' \subseteq 1..SAVE_PERIOD /\ \A i \in DOMAIN table' : table'[i] \in Row
    BY <1>4, <1>9, <1>11 DEF DataTypes, rows
  <2> QED
    BY <1>1, <1>2, <1>4, <1>5, <1>8, <1>13, <2>1 DEF DataTypes
<1>15. Mutex' /\ Chosen' /\ PackedIsMarked'
  BY <1>1, <1>2, <1>4, <1>6 DEF Mutex, Chosen, PackedIsMarked
<1>16. Seen'
  BY <1>1, <1>2, <1>4, <1>5, <1>8, <1>9, <1>11 DEF Seen
<1>17. Unique' /\ Fresh'
  BY <1>2, <1>4, <1>6, <1>9, <1>11 DEF Unique, Fresh
<1> QED
  BY <1>12, <1>14, <1>15, <1>16, <1>17 DEF IInv, TypeOK
-----------------------------------------------------------------------------
(* The steps of the main thread.                                           *)

\* Steps that leave alone what the invariant is about.
LEMMA ControlKeeps ==
  ASSUME IInv,
         UNCHANGED <<table, ids, Goldenlock, mcu, frame, reissued>>,
         live' \in {live, FILE}, motion' \in {motion, FILE, HEARTBEAT},
         FlagTypes', faultLevel' \in Levels, alarmcount' \in 0..AlarmReports-1,
         restarts' = restarts,
         \/ /\ main' = main \/ (main = "idle" /\ main' = "reissue")
            /\ UNCHANGED <<id, report, packed, packedMotion>>
         \/ /\ main' = "idle" /\ id' = 0 /\ report' = 0
            /\ packed' = {} /\ packedMotion' = {}
  PROVE  IInv'
<1>0. Frames \in Nat /\ SAVE_PERIOD \in Nat
  BY StoreAssumption
<1>1. UNCHANGED <<m_Id, m_Remainder, m_AlarmCount>>
  BY DEF ids
<1>2. DataTypes /\ Mutex /\ Chosen /\ PackedIsMarked /\ Seen /\ Unique /\ Fresh
  BY DEF IInv, TypeOK
<1>3. id' \in 0..SAVE_PERIOD /\ report' \in 0..Frames
      /\ live' \in 0..Frames /\ motion' \in -1..Frames
      /\ packed' \subseteq 0..Frames /\ packedMotion' \subseteq -1..Frames
  <2>1. id' \in 0..SAVE_PERIOD /\ live' \in 0..Frames /\ motion' \in -1..Frames
    BY <1>0, <1>2 DEF DataTypes, FILE, HEARTBEAT
  <2>2. report' \in 0..Frames
    BY <1>0, <1>2 DEF DataTypes
  <2>3. packed' \subseteq 0..Frames /\ packedMotion' \subseteq -1..Frames
    BY <1>2 DEF DataTypes
  <2> QED
    BY <2>1, <2>2, <2>3
<1>4. main' \in {"idle", "reissue", "read", "pack", "packRest", "clear", "send"}
  BY <1>2 DEF DataTypes
<1>5. DataTypes'
  BY <1>1, <1>2, <1>3, <1>4 DEF DataTypes
<1>6. Mutex' /\ Chosen' /\ PackedIsMarked'
  <2>1. CASE UNCHANGED <<main, id>> /\ main' \notin {"idle", "reissue"}
    BY <1>2, <2>1 DEF Mutex, Chosen, PackedIsMarked, rows
  <2>2. CASE main' \in {"idle", "reissue"}
    BY <1>2, <2>2 DEF Mutex, Chosen, PackedIsMarked
  <2> QED
    BY <2>1, <2>2
<1>7. Last' = Last /\ Counted' = Counted
  BY DEF Last, Counted
<1>8. report' <= Last
  <2>1. report <= Last
    BY <1>2 DEF Seen
  <2>2. 0 <= Last
    BY <1>0, <1>2 DEF Last, DataTypes, Seen
  <2> QED
    BY <2>1, <2>2
<1>9. Seen'
  BY <1>1, <1>2, <1>7, <1>8 DEF Seen, rows
<1>10. Unique' /\ Fresh'
  <2>1. Unique'
    BY <1>2 DEF Unique, rows
  <2>2. CASE UNCHANGED <<main, report>>
    BY <1>2, <2>1, <2>2 DEF Fresh, rows
  <2>3. CASE main' \in {"idle", "reissue"}
    BY <1>2, <2>1, <2>3 DEF Fresh, rows
  <2> QED
    BY <2>1, <2>2, <2>3
<1> QED
  BY <1>5, <1>6, <1>9, <1>10 DEF IInv, TypeOK

LEMMA ReportKeeps ==
  ASSUME IInv, Report
  PROVE  IInv'
<1>1. UNCHANGED <<table, ids, Goldenlock, mcu, frame, live, motion, reissued, faultLevel,
                  alarmcount, restarts, id, report, packed, packedMotion>>
      /\ main = "idle" /\ main' = "reissue"
  BY DEF Report, sending, world, dataInfo, packet
<1>2. UNCHANGED <<resend, loggedIn, reissue, intact>>
  BY DEF Report, session, world
<1>3. alarmlever' \in BOOLEAN
  BY DEF Report
<1>4. FlagTypes'
  BY <1>2, <1>3 DEF IInv, TypeOK, FlagTypes
<1>5. faultLevel' \in Levels /\ alarmcount' \in 0..AlarmReports-1
  BY <1>1 DEF IInv, TypeOK, DataTypes
<1> QED
  BY <1>1, <1>4, <1>5, ControlKeeps

LEMMA AlarmReportKeeps ==
  ASSUME IInv, AlarmReport
  PROVE  IInv'
<1>1. UNCHANGED <<table, ids, Goldenlock, mcu, frame, live, motion, reissued, faultLevel,
                  restarts, id, report, packed, packedMotion>>
      /\ main = "idle" /\ main' \in {"idle", "reissue"}
  BY DEF AlarmReport, sending, world, dataInfo, packet
<1>2. UNCHANGED <<resend, loggedIn, reissue, intact>>
  BY DEF AlarmReport, session, world
<1>3. alarmlever' \in BOOLEAN
  BY DEF AlarmReport
<1>4. FlagTypes'
  BY <1>2, <1>3 DEF IInv, TypeOK, FlagTypes
<1>5. faultLevel' \in Levels
  BY <1>1 DEF IInv, TypeOK, DataTypes
<1>6. alarmcount' \in 0..AlarmReports-1
  <2>1. AlarmReports \in Nat \ {0} /\ alarmcount + 1 \in Nat
    BY StoreAssumption DEF IInv, TypeOK, DataTypes
  <2>2. (alarmcount + 1) % AlarmReports \in 0..AlarmReports-1
    BY <2>1, RingArithmetic
  <2> QED
    BY <2>2 DEF AlarmReport
<1> QED
  BY <1>1, <1>4, <1>5, <1>6, ControlKeeps

LEMMA SendFailsKeeps ==
  ASSUME IInv, SendFails
  PROVE  IInv'
<1>1. UNCHANGED <<table, ids, Goldenlock, mcu, frame, live, motion, reissued, faultLevel,
                  alarmcount, restarts>> /\ main' = "idle" /\ id' = 0 /\ report' = 0
      /\ packed' = {} /\ packedMotion' = {}
  BY DEF SendFails, PacketDone, dataInfo, world, alarm
<1>2. UNCHANGED <<alarmlever, reissue, intact>> /\ resend' = FALSE /\ loggedIn' = FALSE
  BY DEF SendFails, PacketDone, alarm, world
<1>3. FlagTypes'
  BY <1>2 DEF IInv, TypeOK, FlagTypes
<1>4. faultLevel' \in Levels /\ alarmcount' \in 0..AlarmReports-1
  BY <1>1 DEF IInv, TypeOK, DataTypes
<1> QED
  BY <1>1, <1>3, <1>4, ControlKeeps

LEMMA SessionKeeps ==
  ASSUME IInv, Session
  PROVE  IInv'
<1>1. UNCHANGED <<table, ids, Goldenlock, mcu, frame, live, motion, reissued, faultLevel,
                  alarmcount, restarts, main, id, report, packed, packedMotion>>
  BY DEF Session, sending, world, alarm, dataInfo, packet
<1>2. UNCHANGED <<alarmlever, reissue, intact>>
  BY DEF Session, alarm, world
<1>3. resend' \in BOOLEAN /\ loggedIn' \in BOOLEAN
  BY DEF Session
<1>4. FlagTypes'
  BY <1>2, <1>3 DEF IInv, TypeOK, FlagTypes
<1>5. faultLevel' \in Levels /\ alarmcount' \in 0..AlarmReports-1
  BY <1>1 DEF IInv, TypeOK, DataTypes
<1> QED
  BY <1>1, <1>4, <1>5, ControlKeeps

\* Who writes the live data without the mutex.
LEMMA UnlockedKeeps ==
  ASSUME IInv, McuHeartBeat \/ Reread
  PROVE  IInv'
<1>1. /\ UNCHANGED <<table, session, Goldenlock, ids, mcu, frame, faultLevel, alarm,
                     main, id, reissue, packet, sending, world>>
      /\ live' \in {live, FILE} /\ motion' \in {motion, FILE, HEARTBEAT}
  BY DEF McuHeartBeat, Reread
<1>2. UNCHANGED <<resend, loggedIn, alarmlever, reissue, intact>>
  BY <1>1 DEF session, alarm, world
<1>3. UNCHANGED <<alarmcount, report, packed, packedMotion, reissued, restarts>>
  BY <1>1 DEF alarm, packet, sending, world
<1>4. FlagTypes'
  BY <1>2 DEF IInv, TypeOK, FlagTypes
<1>5. faultLevel' \in Levels /\ alarmcount' \in 0..AlarmReports-1
  BY <1>1, <1>3 DEF IInv, TypeOK, DataTypes
<1> QED
  BY <1>1, <1>3, <1>4, <1>5, ControlKeeps

\* A row is chosen. If alarm rows become unsent, they stop counting as reissued.
LEMMA ReissueStartKeeps ==
  ASSUME IInv, ReissueStart
  PROVE  IInv'
<1>0. Frames \in Nat /\ SAVE_PERIOD \in Nat \ {0} /\ AlarmRows \in Nat \ {0}
  BY StoreAssumption
<1>1. /\ main = "reissue" /\ Goldenlock = "free"
      /\ UNCHANGED <<m_Id, m_Remainder, m_AlarmCount, mcu, frame, faultLevel,
                     alarmcount, live, motion, report, packed, packedMotion, restarts>>
  BY DEF ReissueStart, ids, alarm, dataInfo, packet, world
<1>2. UNCHANGED <<resend, loggedIn, alarmlever, reissue, intact>>
  BY DEF ReissueStart, session, alarm, world
<1>3. DataTypes /\ Mutex /\ Chosen /\ PackedIsMarked /\ Seen /\ Unique /\ Fresh
  BY DEF IInv, TypeOK
<1>4. mcu = "idle"
  BY <1>1, <1>3 DEF Mutex
<1>5. \A i \in rows : table[i] \in Row /\ i \in 1..SAVE_PERIOD
  BY <1>3 DEF DataTypes, rows
<1>6. rows' = rows /\ reissued' \subseteq reissued
  <2>1. CASE faultLevel = 3 /\ ~alarmlever
    BY <2>1 DEF ReissueStart, Marked, rows
  <2>2. CASE ~(faultLevel = 3 /\ ~alarmlever)
    BY <2>2 DEF ReissueStart, rows
  <2> QED
    BY <2>1, <2>2
<1>9. ASSUME NEW i \in rows
       PROVE  /\ table'[i] \in Row
              /\ table'[i].n = table[i].n /\ table'[i].times = table[i].times
              /\ table'[i].isSend = 0 =>
                    table[i].isSend = 0 \/ table[i].n \notin reissued'
  <2>1. table[i] \in Row
    BY <1>5
  <2>2. CASE faultLevel = 3 /\ ~alarmlever
    <3>1. table' = Marked(BeforeAlarm, 0)
          /\ reissued' = reissued \ {table[j].n : j \in BeforeAlarm}
      BY <2>2 DEF ReissueStart
    <3>2. table'[i] = IF i \in BeforeAlarm THEN [table[i] EXCEPT !.isSend = 0]
                                          ELSE table[i]
      BY <3>1 DEF Marked
    <3>3. CASE i \in BeforeAlarm
      <4>1. table[i].n \notin reissued'
        BY <3>1, <3>3
      <4>2. table'[i] = [table[i] EXCEPT !.isSend = 0]
        BY <3>2, <3>3
      <4> QED
        BY <2>1, <4>1, <4>2 DEF Row
    <3>4. CASE i \notin BeforeAlarm
      BY <2>1, <3>2, <3>4
    <3> QED
      BY <3>3, <3>4
  <2>3. CASE ~(faultLevel = 3 /\ ~alarmlever)
    BY <2>1, <2>3 DEF ReissueStart
  <2> QED
    BY <2>2, <2>3
<1>7. /\ id' \in 0..SAVE_PERIOD
      /\ id' # 0 => id' \in rows /\ table'[id'].isSend = 0
  <2>1. CASE faultLevel = 3 /\ ~alarmlever
    <3>1. id' = queryMaxTimesID /\ table' = Marked(BeforeAlarm, 0)
      BY <2>1 DEF ReissueStart
    <3>2. id' \in 0..SAVE_PERIOD /\ (id' # 0 => id' \in rows)
      BY <3>1, Queries DEF IInv
    <3>3. ASSUME id' # 0 PROVE table'[id'].isSend = 0
      <4>1. id' \in BeforeAlarm
        BY <1>0, <1>5, <3>1, <3>2, <3>3 DEF BeforeAlarm
      <4>2. table'[id'] = [table[id'] EXCEPT !.isSend = 0]
        BY <3>1, <3>2, <3>3, <4>1 DEF Marked
      <4>3. table[id'] \in Row
        BY <1>5, <3>2, <3>3
      <4> QED
        BY <4>2, <4>3 DEF Row
    <3> QED
      BY <3>2, <3>3
  <2>2. CASE ~(faultLevel = 3 /\ ~alarmlever)
    <3>1. id' = queryUnsendID /\ table' = table
      BY <2>2 DEF ReissueStart
    <3> QED
      BY <3>1, Queries DEF IInv
  <2> QED
    BY <2>1, <2>2
<1>8. \/ id' = 0 /\ main' = "idle" /\ Goldenlock' = "free"
      \/ id' # 0 /\ main' = "read" /\ Goldenlock' = "main"
  BY <1>1 DEF ReissueStart
<1>10. FlagTypes'
  BY <1>2 DEF IInv, TypeOK, FlagTypes
<1>11. DataTypes'
  <2>1. DOMAIN table' \subseteq 1..SAVE_PERIOD /\ \A i \in DOMAIN table' : table'[i] \in Row
    BY <1>5, <1>6, <1>9 DEF rows
  <2>2. reissued' \subseteq 1..Frames
    BY <1>3, <1>6 DEF DataTypes
  <2> QED
    BY <1>1, <1>3, <1>7, <1>8, <2>1, <2>2 DEF DataTypes
<1>12. Mutex' /\ Chosen' /\ PackedIsMarked'
  BY <1>1, <1>3, <1>4, <1>6, <1>7, <1>8 DEF Mutex, Chosen, PackedIsMarked
<1>13. Seen'
  <2>1. Last' = Last /\ Counted' = Counted
    BY <1>1 DEF Last, Counted
  <2> QED
    BY <1>1, <1>3, <1>6, <1>9, <2>1 DEF Seen
<1>14. Unique'
  BY <1>3, <1>6, <1>9 DEF Unique
<1>15. Fresh'
  <2>1. ASSUME NEW i \in rows, table'[i].isSend = 0
        PROVE  table'[i].n \notin reissued'
    <3>1. table'[i].n = table[i].n
      BY <1>9
    <3>2. table[i].isSend = 0 \/ table[i].n \notin reissued'
      BY <1>9, <2>1
    <3> QED
      BY <1>3, <1>6, <3>1, <3>2 DEF Fresh
  <2> QED
    BY <1>6, <1>8, <2>1 DEF Fresh
<1> QED
  BY <1>10, <1>11, <1>12, <1>13, <1>14, <1>15 DEF IInv, TypeOK

\* The row is read and marked: it is the only one of its frame.
LEMMA ReissueReadKeeps ==
  ASSUME IInv, ReissueRead
  PROVE  IInv'
<1>0. Frames \in Nat
  BY StoreAssumption
<1>1. /\ main = "read" /\ main' = "pack" /\ live' = table[id].n
      /\ motion' = table[id].n /\ report' = table[id].n
      /\ UNCHANGED <<Goldenlock, m_Id, m_Remainder, m_AlarmCount, mcu, frame,
                     faultLevel, alarmcount, id, packed, packedMotion, reissued, restarts>>
  BY DEF ReissueRead, ids, alarm, packet, sending, world
<1>2. UNCHANGED <<resend, loggedIn, alarmlever, intact>> /\ reissue' = TRUE
  BY DEF ReissueRead, session, alarm, world
<1>3. DataTypes /\ Mutex /\ Chosen /\ PackedIsMarked /\ Seen /\ Unique /\ Fresh
  BY DEF IInv, TypeOK
<1>4. Goldenlock = "main" /\ id \in rows /\ table[id].isSend = 0 /\ mcu = "idle"
  BY <1>1, <1>3 DEF Mutex, Chosen
<1>5. \A i \in rows : table[i] \in Row
  BY <1>3 DEF DataTypes, rows
<1>6. /\ rows' = rows
      /\ \A i \in rows : table'[i] = IF i = id THEN [table[i] EXCEPT !.isSend = 1]
                                              ELSE table[i]
  BY DEF ReissueRead, Marked, rows
<1>7. ASSUME NEW i \in rows
      PROVE  /\ table'[i] \in Row
             /\ table'[i].n = table[i].n /\ table'[i].times = table[i].times
             /\ i # id => table'[i].isSend = table[i].isSend
             /\ i = id => table'[i].isSend = 1
  <2>1. table[i] \in Row
    BY <1>5
  <2>2. CASE i = id
    <3>1. table'[i] = [table[i] EXCEPT !.isSend = 1]
      BY <1>6, <2>2
    <3> QED
      BY <2>1, <2>2, <3>1 DEF Row
  <2>3. CASE i # id
    BY <1>6, <2>1, <2>3
  <2> QED
    BY <2>2, <2>3
<1>8. FlagTypes'
  BY <1>2 DEF IInv, TypeOK, FlagTypes
<1>9. live' \in 1..Frames /\ motion' \in 1..Frames /\ report' \in 1..Frames
  BY <1>0, <1>1, <1>4, <1>5 DEF Row
<1>10. DataTypes'
  <2>1. DOMAIN table' \subseteq 1..SAVE_PERIOD /\ \A i \in DOMAIN table' : table'[i] \in Row
    BY <1>3, <1>6, <1>7 DEF DataTypes, rows
  <2> QED
    BY <1>1, <1>3, <1>9, <2>1 DEF DataTypes
<1>11. Mutex' /\ Chosen' /\ PackedIsMarked'
  <2>1. packed' = {} /\ packedMotion' = {}
    BY <1>1, <1>3 DEF Chosen
  <2> QED
    BY <1>1, <1>4, <1>6, <1>7, <2>1 DEF Mutex, Chosen, PackedIsMarked
<1>12. Seen'
  <2>1. Last' = Last /\ Counted' = Counted
    BY <1>1 DEF Last, Counted
  <2>2. report' <= Last
    BY <1>1, <1>3, <1>4 DEF Seen
  <2> QED
    BY <1>1, <1>3, <1>6, <1>7, <2>1, <2>2 DEF Seen
<1>13. Unique'
  BY <1>3, <1>6, <1>7 DEF Unique
<1>14. Fresh'
  <2>1. report' \notin reissued'
    BY <1>1, <1>3, <1>4 DEF Fresh
  <2>3. \A i \in rows' : table'[i].n = report' => table'[i].isSend = 1
    BY <1>1, <1>3, <1>4, <1>6, <1>7 DEF Unique
  <2>2. \A i \in rows' : table'[i].isSend = 0 => table'[i].n \notin reissued'
    BY <1>1, <1>3, <1>6, <1>7 DEF Fresh
  <2> QED
    BY <1>1, <1>9, <2>1, <2>2, <2>3 DEF Fresh
<1> QED
  BY <1>8, <1>10, <1>11, <1>12, <1>13, <1>14 DEF IInv, TypeOK

\* A part of the packet is made of the live data.
LEMMA PackKeeps ==
  ASSUME IInv, PackVehicle \/ PackRest
  PROVE  IInv'
<1>1. /\ PackLive
      /\ \/ main = "pack" /\ main' = "packRest" /\ Goldenlock' = Goldenlock
         \/ main = "packRest" /\ main' = "clear" /\ Goldenlock' = "free"
  BY DEF PackVehicle, PackRest
<1>2. UNCHANGED <<table, m_Id, m_Remainder, m_AlarmCount, mcu, frame, faultLevel,
                  alarmcount, id, live, motion, report, reissued, restarts>>
      /\ packed' = packed \cup {live} /\ packedMotion' = packedMotion \cup {motion}
  BY <1>1 DEF PackLive, ids, alarm, dataInfo, sending, world
<1>3. UNCHANGED <<resend, loggedIn, alarmlever, reissue, intact>>
  BY <1>1 DEF PackLive, session, alarm, world
<1>4. DataTypes /\ Mutex /\ PackedIsMarked /\ Seen /\ Unique /\ Fresh
  BY DEF IInv, TypeOK
<1>5. /\ mcu = "idle" /\ Goldenlock = "main" /\ id \in rows
      /\ report = table[id].n /\ table[id].isSend = 1
      /\ live \in {report, FILE} /\ motion \in {report, FILE, HEARTBEAT}
  BY <1>1, <1>4 DEF Mutex, PackedIsMarked
<1>6. FlagTypes'
  BY <1>3 DEF IInv, TypeOK, FlagTypes
<1>7. DataTypes'
  BY <1>1, <1>2, <1>4 DEF DataTypes
<1>8. rows' = rows
  BY <1>2 DEF rows
<1>9. Mutex' /\ Chosen'
  BY <1>1, <1>2, <1>5 DEF Mutex, Chosen
<1>10. PackedIsMarked'
  BY <1>1, <1>2, <1>4, <1>5, <1>8 DEF PackedIsMarked
<1>11. Seen' /\ Unique'
  <2>1. Last' = Last /\ Counted' = Counted
    BY <1>2 DEF Last, Counted
  <2> QED
    BY <1>2, <1>4, <1>8, <2>1 DEF Seen, Unique
<1>12. Fresh'
  BY <1>1, <1>2, <1>4, <1>8 DEF Fresh
<1> QED
  BY <1>6, <1>7, <1>9, <1>10, <1>11, <1>12 DEF IInv, TypeOK

LEMMA ReissueClearKeeps ==
  ASSUME IInv, ReissueClear
  PROVE  IInv'
<1>1. /\ main = "clear" /\ main' = "send"
      /\ UNCHANGED <<table, Goldenlock, m_Id, m_Remainder, m_AlarmCount, mcu, frame,
                     faultLevel, alarmcount, id, live, motion, report, packed, packedMotion,
                     reissued, restarts>>
  BY DEF ReissueClear, ids, alarm, dataInfo, packet, sending, world
<1>2. UNCHANGED <<resend, loggedIn, alarmlever, intact>> /\ reissue' = FALSE
  BY DEF ReissueClear, session, alarm, world
<1>3. DataTypes /\ Mutex /\ PackedIsMarked /\ Seen /\ Unique /\ Fresh
  BY DEF IInv, TypeOK
<1>4. FlagTypes'
  BY <1>2 DEF IInv, TypeOK, FlagTypes
<1>5. DataTypes'
  BY <1>1, <1>3 DEF DataTypes
<1>6. Mutex' /\ Chosen' /\ PackedIsMarked'
  BY <1>1, <1>3 DEF Mutex, Chosen, PackedIsMarked
<1>7. rows' = rows /\ Last' = Last /\ Counted' = Counted
  BY <1>1 DEF rows, Last, Counted
<1>8. Seen' /\ Unique' /\ Fresh'
  BY <1>1, <1>3, <1>7 DEF Seen, Unique, Fresh
<1> QED
  BY <1>4, <1>5, <1>6, <1>8 DEF IInv, TypeOK

LEMMA SentKeeps ==
  ASSUME IInv, Sent
  PROVE  IInv'
<1>0. Frames \in Nat /\ SAVE_PERIOD \in Nat
  BY StoreAssumption
<1>1. /\ main = "send" /\ main' = "idle" /\ id' = 0 /\ report' = 0
      /\ packed' = {} /\ packedMotion' = {}
      /\ reissued' = reissued \cup {report}
      /\ UNCHANGED <<table, Goldenlock, m_Id, m_Remainder, m_AlarmCount, mcu, frame,
                     faultLevel, alarmcount, live, motion, restarts>>
  BY DEF Sent, PacketDone, ids, alarm, dataInfo, world
<1>2. UNCHANGED <<resend, loggedIn, alarmlever, reissue, intact>>
  BY DEF Sent, PacketDone, session, alarm, world
<1>3. DataTypes /\ Mutex /\ Seen /\ Unique /\ Fresh
  BY DEF IInv, TypeOK
<1>4. /\ report \in 1..Frames
      /\ \A i \in rows : table[i].n = report => table[i].isSend = 1
  BY <1>1, <1>3 DEF Fresh
<1>5. FlagTypes'
  BY <1>2 DEF IInv, TypeOK, FlagTypes
<1>6. DataTypes'
  <2>1. reissued' \subseteq 1..Frames
    BY <1>1, <1>3, <1>4 DEF DataTypes
  <2> QED
    BY <1>0, <1>1, <1>3, <2>1 DEF DataTypes
<1>7. Mutex' /\ Chosen' /\ PackedIsMarked'
  BY <1>1, <1>3 DEF Mutex, Chosen, PackedIsMarked
<1>8. rows' = rows /\ Last' = Last /\ Counted' = Counted
  BY <1>1 DEF rows, Last, Counted
<1>9. Seen'
  <2>1. 0 <= Last
    BY <1>0, <1>3 DEF Last, DataTypes, Seen
  <2> QED
    BY <1>1, <1>3, <1>8, <2>1 DEF Seen
<1>10. Unique'
  BY <1>1, <1>3, <1>8 DEF Unique
<1>11. Fresh'
  <2>1. ASSUME NEW i \in rows, table[i].isSend = 0
        PROVE  table[i].n \notin reissued'
    BY <1>1, <1>3, <1>4, <2>1 DEF Fresh
  <2> QED
    BY <1>1, <1>8, <2>1 DEF Fresh
<1> QED
  BY <1>5, <1>6, <1>7, <1>9, <1>10, <1>11 DEF IInv, TypeOK

-----------------------------------------------------------------------------
\* The process dies: a frame that was not stored yet will never be, and the
\* next one has the next number.
LEMMA RestartKeeps ==
  ASSUME IInv, Restart
  PROVE  IInv'
<1>0. Frames \in Nat /\ SAVE_PERIOD \in Nat \ {0} /\ AlarmReports \in Nat \ {0, 1}
      /\ Restarts \in Nat
  BY StoreAssumption
<1>1. /\ Goldenlock' = "free" /\ mcu' = "idle" /\ main' = "idle"
      /\ m_Id' = 0 /\ m_Remainder' = 0 /\ m_AlarmCount' = 0
      /\ faultLevel' = 0 /\ alarmcount' = 0 /\ id' = 0 /\ live' = FILE /\ motion' = FILE
      /\ report' = 0 /\ packed' = {} /\ packedMotion' = {}
      /\ restarts < Restarts /\ restarts' = restarts + 1
      /\ UNCHANGED <<table, frame, reissued>>
  BY DEF Restart
<1>2. /\ resend' = FALSE /\ loggedIn' = FALSE /\ alarmlever' = FALSE
      /\ reissue' = FALSE /\ intact' \in BOOLEAN
  BY DEF Restart
<1>3. DataTypes /\ Seen /\ Unique /\ Fresh
  BY DEF IInv, TypeOK
<1>4. FlagTypes'
  BY <1>2 DEF FlagTypes
<1>5. restarts' \in 0..Restarts
  BY <1>0, <1>1, <1>3 DEF DataTypes
<1>6. DataTypes'
  BY <1>0, <1>1, <1>3, <1>5 DEF DataTypes, Levels, FILE
<1>7. Mutex' /\ Chosen' /\ PackedIsMarked'
  BY <1>1 DEF Mutex, Chosen, PackedIsMarked
<1>8. rows' = rows
  BY <1>1 DEF rows
<1>9. frame.n \in 0..Frames /\ Last' = frame.n /\ Counted' = frame.n
      /\ Last \in Int /\ Last <= frame.n /\ Counted \in Int /\ Counted <= frame.n
  BY <1>0, <1>1, <1>3 DEF DataTypes, Last, Counted
<1>10. Seen'
  <2>1. \A i \in rows : table[i].n <= frame.n /\ table[i].times <= frame.n
    <3>1. \A i \in rows : table[i].n \in 1..Frames /\ table[i].times \in 0..Frames
      BY <1>3 DEF DataTypes, Row, rows
    <3> QED
      BY <1>0, <1>3, <1>9, <3>1 DEF Seen
  <2>2. \A k \in reissued : k <= frame.n
    <3>1. \A k \in reissued : k \in 1..Frames
      BY <1>3 DEF DataTypes
    <3> QED
      BY <1>0, <1>3, <1>9, <3>1 DEF Seen
  <2> QED
    BY <1>1, <1>8, <1>9, <2>1, <2>2 DEF Seen
<1>11. Unique' /\ Fresh'
  BY <1>1, <1>3, <1>8 DEF Unique, Fresh
<1> QED
  BY <1>4, <1>6, <1>7, <1>10, <1>11 DEF IInv, TypeOK

LEMMA StutterKeeps ==
  ASSUME IInv, UNCHANGED vars
  PROVE  IInv'
<1>1. UNCHANGED <<table, Goldenlock, mcu, frame, faultLevel, main, id, reissue>>
      /\ UNCHANGED <<ids, session, alarm, dataInfo, packet, sending, world>>
  BY DEF vars
<1>2. UNCHANGED <<resend, loggedIn, alarmlever, reissue, intact>>
  BY <1>1 DEF session, alarm, world
<1>3. UNCHANGED <<alarmcount, live, motion, report, packed, packedMotion, reissued,
                  restarts>>
  BY <1>1 DEF alarm, dataInfo, packet, sending, world
<1>4. FlagTypes'
  BY <1>2 DEF IInv, TypeOK, FlagTypes
<1>5. faultLevel' \in Levels /\ alarmcount' \in 0..AlarmReports-1
  BY <1>1, <1>3 DEF IInv, TypeOK, DataTypes
<1> QED
  BY <1>1, <1>3, <1>4, <1>5, ControlKeeps

\* Every step keeps the invariant.
LEMMA Inductive == IInv /\ [Next]_vars => IInv'
<1> SUFFICES ASSUME IInv, [Next]_vars PROVE IInv'
  OBVIOUS
<1>1. CASE MCU
  BY <1>1, FrameStartKeeps, FrameInsertKeeps, FrameUpdateKeeps,
     UnlockedKeeps DEF MCU
<1>2. CASE Main
  BY <1>2, ReportKeeps, AlarmReportKeeps, ReissueStartKeeps, ReissueReadKeeps,
     PackKeeps, ReissueClearKeeps, SentKeeps, SendFailsKeeps DEF Main
<1>3. CASE Session
  BY <1>3, SessionKeeps
<1>4. CASE Reread
  BY <1>4, UnlockedKeeps
<1>5. CASE Restart
  BY <1>5, RestartKeeps
<1>6. CASE UNCHANGED vars
  BY <1>6, StutterKeeps
<1> QED
  BY <1>1, <1>2, <1>3, <1>4, <1>5, <1>6 DEF Next

LEMMA Invariant == Spec => []IInv
<1> QED
  BY InitIInv, Inductive, PTL DEF Spec

-----------------------------------------------------------------------------
\* The variables keep their types: in particular the table never has a row
\* outside the ring, whatever the numbers the two threads compute
\* (mcuUart.cpp:703-789, GBT32960.cpp:1990-2200).
THEOREM TypeCorrect == Spec => []TypeOK
<1>1. IInv => TypeOK
  BY DEF IInv
<1> QED
  BY <1>1, Invariant, PTL

\* A packet is made of the row just marked as sent and never of a frame that
\* arrived meanwhile, whatever heartbeats and rereads do to the live data
\* without the mutex (GBT32960.cpp:2039-2191, mcuUart.cpp:624-662).
THEOREM PackedCorrect == Spec => []PackedIsMarked
<1>1. IInv => PackedIsMarked
  BY DEF IInv
<1> QED
  BY <1>1, Invariant, PTL

\* No frame is reissued twice unless an alarm made it unsent
\* (GBT32960.cpp:1990-2200, mcuUart.cpp:703-789), with any number of restarts.
THEOREM ReissuedCorrect == Spec => []ReissuedOnce
<1>1. IInv => ReissuedOnce
  BY DEF IInv, Fresh, ReissuedOnce
<1> QED
  BY <1>1, Invariant, PTL

-----------------------------------------------------------------------------
(* Division: which row of the ring a frame belongs to.                     *)

LEMMA Division ==
  ASSUME NEW m \in Nat, NEW p \in Nat \ {0}
  PROVE  m = p * (m \div p) + (m % p) /\ m % p \in 0..p-1 /\ m \div p \in Nat
  OBVIOUS

\* Quotient and remainder are unique.
LEMMA ModIs ==
  ASSUME NEW p \in Nat \ {0}, NEW q \in Nat, NEW r \in 0..p-1, NEW m \in Nat,
         m = p * q + r
  PROVE  m % p = r
<1>1. PICK e, s : e = m \div p /\ s = m % p
  OBVIOUS
<1>2. e \in Nat /\ s \in 0..p-1 /\ m = p * e + s
  BY <1>1, Division, Zenon
<1>3. PICK c : c = q - e
  OBVIOUS
<1>4. c \in Int /\ p * c = s - r
  <2>1. p * (q - e) = p * q - p * e
    BY ONLY p \in Nat \ {0}, q \in Nat, <1>2
  <2>2. p * q \in Nat /\ p * e \in Nat
    BY ONLY p \in Nat \ {0}, q \in Nat, <1>2
  <2>3. p * q - p * e = s - r
    BY <1>2, <2>2
  <2> QED
    BY <1>2, <1>3, <2>1, <2>3
<1>5. 0 - p < s - r /\ s - r < p
  BY <1>2
<1>6. CASE c >= 1
  <2>1. p * c >= p
    BY ONLY <1>6, <1>4, p \in Nat \ {0}
  <2> QED
    BY <1>2, <1>4, <1>5, <2>1
<1>7. CASE c <= 0 - 1
  <2>1. p * c <= 0 - p
    BY ONLY <1>7, <1>4, p \in Nat \ {0}
  <2> QED
    BY <1>2, <1>4, <1>5, <2>1
<1>8. CASE c = 0
  <2>1. p * c = 0
    BY ONLY <1>8, p \in Nat \ {0}
  <2> QED
    BY <1>1, <1>2, <1>4, <2>1
<1> QED
  BY <1>4, <1>6, <1>7, <1>8

\* One round further it is the same remainder.
LEMMA ModNext ==
  ASSUME NEW m \in Nat, NEW p \in Nat \ {0}
  PROVE  (m + p) % p = m % p
<1>1. PICK e, s : e = m \div p /\ s = m % p
  OBVIOUS
<1>2. e \in Nat /\ s \in 0..p-1 /\ m = p * e + s
  BY <1>1, Division, Zenon
<1>3. p * (e + 1) = p * e + p /\ p * e \in Nat
  BY ONLY <1>2, p \in Nat \ {0}
<1>4. PICK q, n : q = e + 1 /\ n = m + p
  OBVIOUS
<1>5. n = p * q + s /\ q \in Nat /\ n \in Nat
  BY <1>2, <1>3, <1>4
<1>6. n % p = s
  BY <1>2, <1>5, ModIs
<1> QED
  BY <1>1, <1>4, <1>6

\* Within a round the remainders differ.
LEMMA ModDiffers ==
  ASSUME NEW m \in Nat, NEW n \in Nat, NEW p \in Nat \ {0}, m < n, n < m + p
  PROVE  m % p # n % p
<1> SUFFICES ASSUME m % p = n % p PROVE FALSE
  OBVIOUS
<1>1. PICK d, e, s : d = m \div p /\ e = n \div p /\ s = m % p
  OBVIOUS
<1>2. /\ d \in Nat /\ e \in Nat /\ s \in 0..p-1
      /\ m = p * d + s /\ n = p * e + s
  <2>1. m = p * (m \div p) + (m % p) /\ m % p \in 0..p-1 /\ m \div p \in Nat
    BY Division
  <2>2. n = p * (n \div p) + (n % p) /\ n \div p \in Nat
    BY Division
  <2>3. n % p = s
    BY <1>1
  <2> QED
    BY <1>1, <2>1, <2>2, <2>3, Zenon
<1>3. PICK c : c = e - d
  OBVIOUS
<1>4. c \in Int /\ p * c = n - m
  <2>1. p * (e - d) = p * e - p * d /\ p * d \in Nat /\ p * e \in Nat
    BY ONLY <1>2, p \in Nat \ {0}
  <2> QED
    BY <1>2, <1>3, <2>1
<1>5. 0 < n - m /\ n - m < p
  OBVIOUS
<1>6. CASE c >= 1
  <2>1. p * c >= p
    BY ONLY <1>6, <1>4, p \in Nat \ {0}
  <2> QED
    BY <1>4, <1>5, <2>1
<1>7. CASE c <= 0
  <2>1. p * c <= 0
    BY ONLY <1>7, <1>4, p \in Nat \ {0}
  <2> QED
    BY <1>4, <1>5, <2>1
<1> QED
  BY <1>4, <1>6, <1>7

\* The row of a frame: they follow each other through the ring, round by round.
RowOf(k) == IF k % SAVE_PERIOD = 0 THEN SAVE_PERIOD ELSE k % SAVE_PERIOD

LEMMA FirstRows == \A k \in 1..SAVE_PERIOD : RowOf(k) = k
<1> SUFFICES ASSUME NEW k \in 1..SAVE_PERIOD PROVE RowOf(k) = k
  OBVIOUS
<1>0. SAVE_PERIOD \in Nat \ {0}
  BY StoreAssumption
<1>1. CASE k = SAVE_PERIOD
  <2>1. k = SAVE_PERIOD * 1 + 0
    BY ONLY <1>0, <1>1
  <2>2. k % SAVE_PERIOD = 0
    BY <1>0, <2>1, ModIs
  <2> QED
    BY <1>1, <2>2 DEF RowOf
<1>2. CASE k < SAVE_PERIOD
  <2>1. k = SAVE_PERIOD * 0 + k
    BY ONLY <1>0, k \in 1..SAVE_PERIOD
  <2>2. k % SAVE_PERIOD = k
    BY <1>0, <1>2, <2>1, ModIs
  <2> QED
    BY <2>2, <1>0 DEF RowOf
<1> QED
  BY <1>0, <1>1, <1>2

LEMMA RowOfFacts ==
  ASSUME NEW k \in Nat \ {0}
  PROVE  /\ RowOf(k) \in 1..SAVE_PERIOD
         /\ RowOf(k + SAVE_PERIOD) = RowOf(k)
         /\ \A j \in Nat \ {0} :
                j < k /\ k < j + SAVE_PERIOD => RowOf(j) # RowOf(k)
<1>0. SAVE_PERIOD \in Nat \ {0}
  BY StoreAssumption
<1>1. \A m \in Nat : m % SAVE_PERIOD \in 0..SAVE_PERIOD-1
  BY <1>0, Division
<1>2. RowOf(k) \in 1..SAVE_PERIOD
  <2>1. PICK s : s = k % SAVE_PERIOD
    OBVIOUS
  <2>2. s \in 0..SAVE_PERIOD-1
    BY <1>1, <2>1
  <2>3. s # 0 => s \in 1..SAVE_PERIOD
    BY <1>0, <2>2
  <2>4. SAVE_PERIOD \in 1..SAVE_PERIOD
    BY <1>0
  <2> QED
    BY <2>1, <2>3, <2>4 DEF RowOf
<1>3. RowOf(k + SAVE_PERIOD) = RowOf(k)
  BY <1>0, ModNext DEF RowOf
<1>4. ASSUME NEW j \in Nat \ {0}, j < k, k < j + SAVE_PERIOD
      PROVE  RowOf(j) # RowOf(k)
  <2>1. PICK s, t : s = j % SAVE_PERIOD /\ t = k % SAVE_PERIOD
    OBVIOUS
  <2>2. s # t
    BY <1>0, <1>4, <2>1, ModDiffers
  <2>3. s \in 0..SAVE_PERIOD-1 /\ t \in 0..SAVE_PERIOD-1
    BY <1>1, <2>1
  <2>4. (IF s = 0 THEN SAVE_PERIOD ELSE s) # (IF t = 0 THEN SAVE_PERIOD ELSE t)
    BY ONLY <1>0, <2>2, <2>3
  <2> QED
    BY <2>1, <2>4 DEF RowOf
<1> QED
  BY <1>2, <1>3, <1>4

-----------------------------------------------------------------------------
(* Where the frames are, as long as none of them was lost.                 *)

\* The frames the table should hold, and those it holds.
Window == {k \in 1..frame.n : k > frame.n - SAVE_PERIOD}
Stored == {k \in Window : k <= Last}

\* Each of them in its row, and no others.
InPlace ==
    /\ \A i \in rows : table[i].n \in Stored /\ i = RowOf(table[i].n)
    /\ \A k \in Stored : RowOf(k) \in rows /\ table[RowOf(k)].n = k

\* The numbering knows the newest frame, or will find it: after a death in the
\* first round.
InStep ==
    /\ m_Id \in {0, frame.n}
    /\ m_Id = 0 => mcu = "idle" /\ frame.n <= SAVE_PERIOD
    /\ m_Id # 0 => m_Remainder = IF m_Id > SAVE_PERIOD THEN m_Id % SAVE_PERIOD
                                                       ELSE m_Id

FirstRound == frame.n <= SAVE_PERIOD => \A i \in rows : table[i].dev = 0

Ring == intact => InPlace /\ InStep /\ FirstRound

LEMMA InitRing == Init => Ring
<1> SUFFICES ASSUME Init PROVE Ring
  OBVIOUS
<1>0. SAVE_PERIOD \in Nat \ {0}
  BY StoreAssumption
<1>1. rows = {} /\ frame.n = 0 /\ m_Id = 0 /\ mcu = "idle"
  BY DEF Init, rows
<1>2. Stored = {}
  BY <1>1 DEF Stored, Window
<1> QED
  BY <1>0, <1>1, <1>2 DEF Ring, InPlace, InStep, FirstRound

\* The row that is written is that of the frame.
LEMMA SlotIs ==
  ASSUME NEW k \in Nat \ {0}, NEW r,
         r = IF k > SAVE_PERIOD THEN k % SAVE_PERIOD ELSE k
  PROVE  (IF r = 0 THEN SAVE_PERIOD ELSE r) = RowOf(k)
<1>0. SAVE_PERIOD \in Nat \ {0}
  BY StoreAssumption
<1>1. CASE k > SAVE_PERIOD
  BY <1>1 DEF RowOf
<1>2. CASE ~(k > SAVE_PERIOD)
  <2>1. r = k /\ k # 0
    BY <1>2
  <2>2. k \in 1..SAVE_PERIOD
    BY <1>0, <1>2
  <2> QED
    BY <2>1, <2>2, FirstRows
<1> QED
  BY <1>1, <1>2

\* After a death in the first round the query finds the newest frame.
LEMMA NewestFound ==
  ASSUME IInv, Ring, intact, m_Id = 0
  PROVE  queryStandardProMaxID = frame.n
<1>0. SAVE_PERIOD \in Nat \ {0}
  BY StoreAssumption
<1>1. InPlace /\ FirstRound /\ mcu = "idle" /\ frame.n <= SAVE_PERIOD
  BY DEF Ring, InStep
<1>2. PICK f : f = frame.n
  OBVIOUS
<1>3. f \in Nat /\ f <= SAVE_PERIOD
  BY <1>1, <1>2 DEF IInv, TypeOK, DataTypes
<1>4. Stored = 1..f
  BY <1>0, <1>1, <1>2, <1>3 DEF Stored, Window, Last
<1>5. 1..f \subseteq 1..SAVE_PERIOD
  BY <1>0, <1>3
<1>6. rows = 1..f
  <2>1. ASSUME NEW i \in rows PROVE i \in 1..f
    BY <1>1, <1>4, <1>5, FirstRows DEF InPlace
  <2>2. ASSUME NEW k \in 1..f PROVE k \in rows
    BY <1>1, <1>4, <1>5, FirstRows DEF InPlace
  <2> QED
    BY <2>1, <2>2
<1>7. \A i \in rows : table[i].dev = 0
  BY <1>1 DEF FirstRound
<1>8. {i \in rows : \A j \in rows : table[j].dev <= table[i].dev} = rows
  BY <1>7
<1>9. queryStandardProMaxID = MaxOf(1..f)
  BY <1>6, <1>8 DEF queryStandardProMaxID
<1>10. 1..f \subseteq 0..f
  BY <1>3
<1>11. MaxOf(1..f) \in 0..f /\ \A y \in 1..f : y <= MaxOf(1..f)
  BY <1>3, <1>10, MaxIn
<1>12. MaxOf(1..f) = f
  <2>1. PICK x : x = MaxOf(1..f)
    OBVIOUS
  <2>2. x \in 0..f /\ \A y \in 1..f : y <= x
    BY <1>11, <2>1
  <2>3. x = f
    <3>1. CASE f = 0
      BY <2>2, <3>1
    <3>2. CASE f # 0
      <4>1. f \in 1..f
        BY <1>3, <3>2
      <4>2. f <= x
        BY <2>2, <4>1
      <4> QED
        BY <1>3, <2>2, <4>2
    <3> QED
      BY <3>1, <3>2
  <2> QED
    BY <2>1, <2>3
<1> QED
  BY <1>2, <1>9, <1>12

\* A frame begins: in every round but the first one the oldest frame makes room.
LEMMA FrameStartInRing ==
  ASSUME IInv, Ring, NEW level \in Levels, FrameStart(level)
  PROVE  Ring'
<1> SUFFICES ASSUME intact' PROVE (InPlace /\ InStep /\ FirstRound)'
  BY DEF Ring
<1>0. SAVE_PERIOD \in Nat \ {0}
  BY StoreAssumption
<1>1. intact /\ mcu = "idle" /\ mcu' = "insert" /\ frame'.n = frame.n + 1
  BY DEF FrameStart, TakeFrame, world
<1>2. InPlace /\ InStep /\ FirstRound
  BY <1>1 DEF Ring
<1>3. PICK f, n : f = frame.n /\ n = f + 1
  OBVIOUS
<1>4. f \in Nat /\ n \in Nat \ {0} /\ frame'.n = n /\ Last' = f
  <2>1. f \in Nat
    BY <1>3 DEF IInv, TypeOK, DataTypes
  <2>2. frame'.n = n /\ n \in Nat \ {0}
    BY <1>1, <1>3, <2>1
  <2>3. Last' = frame'.n - 1
    BY <1>1 DEF Last
  <2> QED
    BY <1>3, <2>1, <2>2, <2>3
<1>5. m_Id' = n
  <2>1. m_Id' = (IF m_Id = 0 THEN queryStandardProMaxID ELSE m_Id) + 1
    BY DEF FrameStart, TakeFrame
  <2>2. CASE m_Id = 0
    BY <1>1, <1>3, <2>1, <2>2, NewestFound
  <2>3. CASE m_Id # 0
    BY <1>2, <1>3, <2>1, <2>3 DEF InStep
  <2> QED
    BY <2>2, <2>3
<1>6. m_Remainder' = IF n > SAVE_PERIOD THEN n % SAVE_PERIOD ELSE n
  BY <1>5 DEF FrameStart, TakeFrame
<1>7. Slot' = RowOf(n)
  BY <1>4, <1>6, SlotIs DEF Slot
<1>8. InStep'
  BY <1>4, <1>5, <1>6 DEF InStep
<1>9. Stored = {k \in 1..f : k > f - SAVE_PERIOD}
  BY <1>1, <1>3, <1>4 DEF Stored, Window, Last
<1>10. Stored' = {k \in 1..n : k > n - SAVE_PERIOD /\ k <= f}
  BY <1>4 DEF Stored, Window
<1>11. CASE n <= SAVE_PERIOD
  <2>1. table' = table /\ rows' = rows
    <3>1. ~(m_Id' > SAVE_PERIOD)
      BY <1>0, <1>4, <1>5, <1>11
    <3> QED
      BY <3>1 DEF FrameStart, TakeFrame, rows
  <2>2. Stored' = Stored
    BY <1>0, <1>3, <1>4, <1>9, <1>10, <1>11
  <2>3. FirstRound'
    <3>1. frame.n <= SAVE_PERIOD
      BY <1>0, <1>3, <1>4, <1>11
    <3> QED
      BY <1>2, <2>1, <3>1 DEF FirstRound
  <2> QED
    BY <1>2, <1>8, <2>1, <2>2, <2>3 DEF InPlace
<1>12. CASE n > SAVE_PERIOD
  <2>1. rows' = rows \ {RowOf(n)} /\ \A i \in rows' : table'[i] = table[i]
    BY <1>5, <1>7, <1>12 DEF FrameStart, TakeFrame, rows
  <2>2. PICK o : o = n - SAVE_PERIOD
    OBVIOUS
  <2>3. o \in Nat \ {0} /\ o + SAVE_PERIOD = n
    BY <1>0, <1>4, <1>12, <2>2
  <2>4. RowOf(o) = RowOf(n)
    BY <2>3, RowOfFacts
  <2>5. Stored' = Stored \ {o}
    <3>1. \A k \in 1..n : k > n - SAVE_PERIOD /\ k <= f <=>
                          k \in 1..f /\ k > f - SAVE_PERIOD /\ k # o
      BY <1>0, <1>3, <1>4, <2>2, <2>3
    <3>2. 1..f \subseteq 1..n
      BY <1>3, <1>4
    <3> QED
      BY <1>9, <1>10, <3>1, <3>2
  <2>6. ASSUME NEW i \in rows'
        PROVE  table'[i].n \in Stored' /\ i = RowOf(table'[i].n)
    <3>1. i \in rows /\ table'[i] = table[i] /\ i # RowOf(n)
      BY <2>1
    <3>2. table[i].n \in Stored /\ i = RowOf(table[i].n)
      BY <1>2, <3>1 DEF InPlace
    <3> QED
      BY <2>4, <2>5, <3>1, <3>2
  <2>7. ASSUME NEW k \in Stored'
        PROVE  RowOf(k) \in rows' /\ table'[RowOf(k)].n = k
    <3>1. k \in Stored /\ RowOf(k) \in rows /\ table[RowOf(k)].n = k
      BY <1>2, <2>5 DEF InPlace
    <3>2. k \in Nat \ {0} /\ k < n /\ n < k + SAVE_PERIOD
      BY <1>0, <1>3, <1>4, <1>10
    <3>3. RowOf(k) # RowOf(n)
      BY <1>4, <3>2, RowOfFacts
    <3> QED
      BY <2>1, <3>1, <3>3
  <2>8. FirstRound'
    BY <1>0, <1>4, <1>12 DEF FirstRound
  <2> QED
    BY <1>8, <2>6, <2>7, <2>8 DEF InPlace
<1> QED
  BY <1>0, <1>4, <1>11, <1>12

\* A frame is stored: its row is free by now.
LEMMA FrameInsertInRing ==
  ASSUME IInv, Ring, FrameInsert
  PROVE  Ring'
<1> SUFFICES ASSUME intact' PROVE (InPlace /\ InStep /\ FirstRound)'
  BY DEF Ring
<1>0. SAVE_PERIOD \in Nat \ {0}
  BY StoreAssumption
<1>1. /\ intact /\ mcu = "insert" /\ mcu' = "update" /\ frame' = frame
      /\ m_Id' = m_Id /\ m_Remainder' = m_Remainder
  BY DEF FrameInsert, world, ids
<1>2. InPlace /\ InStep /\ FirstRound
  BY <1>1 DEF Ring
<1>3. PICK f : f = frame.n
  OBVIOUS
<1>4. f \in Nat \ {0} /\ Last = f - 1 /\ Last' = f /\ m_Id = f
  <2>1. f \in Nat /\ f >= 1
    BY <1>1, <1>3 DEF IInv, TypeOK, DataTypes, Seen
  <2>2. m_Id = f
    BY <1>1, <1>2, <1>3 DEF InStep
  <2> QED
    BY <1>1, <1>3, <2>1, <2>2 DEF Last
<1>5. Slot = RowOf(f)
  BY <1>2, <1>4, SlotIs DEF Slot, InStep
<1>6. InStep'
  BY <1>1, <1>2, <1>3, <1>4 DEF InStep
<1>7. Stored = {k \in 1..f : k > f - SAVE_PERIOD /\ k <= f - 1}
  BY <1>3, <1>4 DEF Stored, Window
<1>8. Stored' = Stored \cup {f}
  <2>1. Stored' = {k \in 1..f : k > f - SAVE_PERIOD /\ k <= f}
    BY <1>1, <1>3, <1>4 DEF Stored, Window
  <2> QED
    BY <1>0, <1>4, <1>7, <2>1
<1>9. \A k \in Stored : RowOf(k) # RowOf(f)
  <2>1. \A k \in Stored : k \in Nat \ {0} /\ k < f /\ f < k + SAVE_PERIOD
    BY <1>0, <1>4, <1>7
  <2> QED
    BY <1>4, <2>1, RowOfFacts
<1>10. RowOf(f) \notin rows
  BY <1>2, <1>9 DEF InPlace
<1>11. /\ rows' = rows \cup {RowOf(f)}
       /\ \A i \in rows : table'[i] = table[i]
       /\ table'[RowOf(f)].n = f /\ table'[RowOf(f)].dev = Round
  BY <1>3, <1>5, <1>10 DEF FrameInsert, rows
<1>12. InPlace'
  <2>1. \A i \in rows' : table'[i].n \in Stored' /\ i = RowOf(table'[i].n)
    BY <1>2, <1>8, <1>11 DEF InPlace
  <2>2. \A k \in Stored' : RowOf(k) \in rows' /\ table'[RowOf(k)].n = k
    BY <1>2, <1>8, <1>11 DEF InPlace
  <2> QED
    BY <2>1, <2>2 DEF InPlace
<1>13. FirstRound'
  <2>1. f <= SAVE_PERIOD => Round = 0
    BY <1>4 DEF Round
  <2> QED
    BY <1>1, <1>2, <1>3, <1>11, <2>1 DEF FirstRound
<1> QED
  BY <1>6, <1>12, <1>13

\* A death in the first round leaves the table to be found.
LEMMA RestartInRing ==
  ASSUME IInv, Ring, Restart
  PROVE  Ring'
<1> SUFFICES ASSUME intact' PROVE (InPlace /\ InStep /\ FirstRound)'
  BY DEF Ring
<1>1. /\ intact /\ mcu # "insert" /\ frame.n <= SAVE_PERIOD
      /\ mcu' = "idle" /\ m_Id' = 0 /\ table' = table /\ frame' = frame
  BY DEF Restart
<1>2. rows' = rows /\ Last' = Last
  BY <1>1 DEF rows, Last
<1>3. Stored' = Stored
  BY <1>1, <1>2 DEF Stored, Window
<1>4. InPlace /\ FirstRound
  BY <1>1 DEF Ring
<1> QED
  BY <1>1, <1>2, <1>3, <1>4 DEF InPlace, InStep, FirstRound

\* What neither moves frames nor numbers them.
LEMMA RingKept ==
  ASSUME Ring, frame' = frame, m_Id' = m_Id, m_Remainder' = m_Remainder,
         intact' = intact,
         mcu' = mcu \/ (mcu = "update" /\ mcu' = "idle"),
         rows' = rows,
         \A i \in rows : table'[i].n = table[i].n /\ table'[i].dev = table[i].dev
  PROVE  Ring'
<1> SUFFICES ASSUME intact PROVE (InPlace /\ InStep /\ FirstRound)'
  BY DEF Ring
<1>1. InPlace /\ InStep /\ FirstRound
  BY DEF Ring
<1>2. Last' = Last
  BY DEF Last
<1>3. Stored' = Stored
  BY <1>2 DEF Stored, Window
<1>4. InPlace'
  BY <1>1, <1>3 DEF InPlace
<1> QED
  BY <1>1, <1>4 DEF InStep, FirstRound

\* A mark changes nothing but the mark.
LEMMA MarkedKeeps ==
  ASSUME NEW S, NEW mark, table' = Marked(S, mark)
  PROVE  /\ rows' = rows
         /\ \A i \in rows : table'[i].n = table[i].n /\ table'[i].dev = table[i].dev
<1>1. rows' = rows
  BY DEF Marked, rows
<1>2. ASSUME NEW i \in rows
      PROVE  table'[i].n = table[i].n /\ table'[i].dev = table[i].dev
  BY DEF Marked
<1> QED
  BY <1>1, <1>2

LEMMA RingInductive == IInv /\ Ring /\ [Next]_vars => Ring'
<1> SUFFICES ASSUME IInv, Ring, [Next]_vars PROVE Ring'
  OBVIOUS
<1>1. CASE \E level \in Levels : FrameStart(level)
  BY <1>1, FrameStartInRing
<1>2. CASE FrameInsert
  BY <1>2, FrameInsertInRing
<1>3. CASE FrameUpdate
  <2>1. /\ frame' = frame /\ m_Id' = m_Id /\ m_Remainder' = m_Remainder
        /\ intact' = intact /\ mcu = "update" /\ mcu' = "idle"
    BY <1>3 DEF FrameUpdate, world
  <2>2. /\ rows' = rows
        /\ \A i \in rows : \/ table'[i] = table[i]
                          \/ table'[i] = [table[i] EXCEPT !.times = m_AlarmCount + 1]
    BY <1>3 DEF FrameUpdate, rows
  <2>3. \A i \in rows : table[i] \in Row
    BY DEF IInv, TypeOK, DataTypes, rows
  <2>4. \A i \in rows : table'[i].n = table[i].n /\ table'[i].dev = table[i].dev
    BY <2>2, <2>3 DEF Row
  <2> QED
    BY <2>1, <2>2, <2>4, RingKept
<1>4. CASE Restart
  BY <1>4, RestartInRing
<1>5. CASE Main \/ Session \/ McuHeartBeat \/ Reread \/ UNCHANGED vars
  <2>1. /\ frame' = frame /\ m_Id' = m_Id /\ m_Remainder' = m_Remainder
        /\ intact' = intact /\ mcu' = mcu
    BY <1>5 DEF Main, Report, AlarmReport, ReissueStart, ReissueRead, PackVehicle,
       PackRest, PackLive, ReissueClear, PacketDone, Sent, SendFails, Session,
       McuHeartBeat, Reread, ids, world, vars
  <2>2. /\ rows' = rows
        /\ \A i \in rows : table'[i].n = table[i].n /\ table'[i].dev = table[i].dev
    <3>1. table' = table \/ \E S, mark : table' = Marked(S, mark)
      BY <1>5 DEF Main, Report, AlarmReport, ReissueStart, ReissueRead, PackVehicle,
         PackRest, PackLive, ReissueClear, PacketDone, Sent, SendFails, Session,
         McuHeartBeat, Reread, vars
    <3> QED
      BY <3>1, MarkedKeeps DEF rows
  <2> QED
    BY <2>1, <2>2, RingKept
<1> QED
  BY <1>1, <1>2, <1>3, <1>4, <1>5 DEF Next, MCU

\* The rows are as many as the frames in them.
LEMMA RowsCounted ==
  ASSUME IInv
  PROVE  Cardinality(rows) = Cardinality({table[i].n : i \in rows})
<1> DEFINE T == {table[i].n : i \in rows}
           g == [i \in rows |-> table[i].n]
<1>1. IsFiniteSet(rows)
  <2>1. SAVE_PERIOD \in Int /\ rows \in SUBSET (1..SAVE_PERIOD)
    BY StoreAssumption DEF IInv, TypeOK, DataTypes, rows
  <2>2. IsFiniteSet(1..SAVE_PERIOD)
    BY <2>1, FS_Interval
  <2> QED
    BY <2>1, <2>2, FS_Subset
<1>2. g \in Bijection(rows, T)
  <2>1. g \in [rows -> T]
    OBVIOUS
  <2>2. \A i, j \in rows : g[i] = g[j] => i = j
    BY DEF IInv, Unique
  <2>3. \A k \in T : \E i \in rows : g[i] = k
    OBVIOUS
  <2> HIDE DEF g, T
  <2> QED
    BY <2>1, <2>2, <2>3 DEF Bijection, Injection, Surjection, IsInjective
<1>3. ExistsBijection(rows, T)
  BY <1>2 DEF ExistsBijection
<1> HIDE DEF T
<1>4. Cardinality(T) = Cardinality(rows)
  BY <1>1, <1>3, FS_Bijection
<1> QED
  BY <1>4 DEF T

LEMMA RingHolds ==
  ASSUME IInv, Ring
  PROVE  HoldsLatest
<1> SUFFICES ASSUME intact, mcu = "idle"
             PROVE  {table[i].n : i \in rows} = Window
  BY RowsCounted DEF HoldsLatest, Window
<1>1. InPlace
  BY DEF Ring
<1>2. Stored = Window
  <2>1. frame.n \in Nat
    BY DEF IInv, TypeOK, DataTypes
  <2> QED
    BY <2>1 DEF Stored, Window, Last
<1> QED
  BY <1>1, <1>2 DEF InPlace

\* The table holds the frames that arrived last, as many as the ring has rows
\* and each once, however often the ring went round and the process died in the
\* first round (mcuUart.cpp:703-805, SQLiteDatabase.cpp:189-217, 332-400).
THEOREM LatestCorrect == Spec => []HoldsLatest
<1>1. Init => IInv /\ Ring
  BY InitIInv, InitRing
<1>2. IInv /\ Ring /\ [Next]_vars => IInv' /\ Ring'
  BY Inductive, RingInductive
<1>3. IInv /\ Ring => HoldsLatest
  BY RingHolds
<1> QED
  BY <1>1, <1>2, <1>3, PTL DEF Spec

-----------------------------------------------------------------------------
(* The session.                                                            *)

\* A receive thread has a connection of its own exactly while it is in
\* recv(); the flag says what the descriptor is; a T-Box that is connected
\* has a thread that is not bound to an older connection.
SessionInv ==
    /\ SessionTypeOK
    /\ \A r \in Receivers : pc[r] = "recv" <=> on[r] # Closed
    /\ isConnected <=> socketfd # Closed
    /\ isConnected => \E r \in Receivers : pc[r] # "recv" \/ on[r] = socketfd
    /\ ConnectedIsHeard
    /\ LoginFirst

SessionPc == {"gone", "check", "enter", "recv"} \cup Answers \cup Requests
SessionServer == {"gone", "new", "applied", "refused", "accepted", "leaving", "left"}

\* What the steps that leave the receive threads alone may do to the
\* connection: nothing, a message of the T-Box that is no new connection, or
\* closing it.
LEMMA SendKeeps ==
  ASSUME SessionInv, link' = link \/ closeSocket
                     \/ \E s \in {"applied", "leaving"} : Tells(s),
         UNCHANGED threads
  PROVE  /\ socketfd' \in Conns \cup {Closed} /\ isConnected' \in BOOLEAN
         /\ server' \in [Conns -> SessionServer]
         /\ \A r \in Receivers : (pc[r] = "recv" <=> on[r] # Closed)'
         /\ (isConnected <=> socketfd # Closed)'
         /\ socketfd' # Closed => socketfd' = socketfd /\ isConnected' = isConnected
         /\ (socketfd' # Closed /\ server'[socketfd'] = "new")
               => link' = link /\ server[socketfd] = "new"
<1> USE SessionAssumption DEF SessionInv, SessionTypeOK, SessionFlags, SessionData,
        SessionServer, threads
<1>1. CASE link' = link
  BY <1>1 DEF link
<1>2. CASE closeSocket
  BY <1>2 DEF closeSocket
<1>3. ASSUME NEW s \in {"applied", "leaving"}, Tells(s)
      PROVE  /\ server' \in [Conns -> SessionServer]
             /\ UNCHANGED <<socketfd, isConnected>>
             /\ socketfd # Closed
             /\ server'[socketfd] # "new"
  BY <1>3 DEF Tells, CanSend
<1> QED
  BY <1>1, <1>2, <1>3

LEMMA InitSessionInv == SessionInit => SessionInv
<1> SUFFICES ASSUME SessionInit PROVE SessionInv
  OBVIOUS
<1>1. SessionFlags
  BY DEF SessionInit, SessionFlags
<1>2. SessionData
  BY DEF SessionInit, SessionData, Places
<1>3. ConnectedIsHeard /\ LoginFirst /\ (isConnected <=> socketfd # Closed)
  BY DEF SessionInit, ConnectedIsHeard, LoginFirst, CanSend
<1> QED
  BY <1>1, <1>2, <1>3 DEF SessionInit, SessionInv, SessionTypeOK

\* A step of the main loop, or of nobody, outside of connecting.
LEMMA LoopKeeps ==
  ASSUME SessionInv, UNCHANGED threads,
         link' = link \/ closeSocket \/ \E s \in {"applied", "leaving"} : Tells(s),
         place \notin {"apply", "create"} \/ (place' = place /\ link' = link),
         place' \in Places \ {"apply"} \/ place' = place,
         testnet' \in BOOLEAN, testout' \in BOOLEAN,
         loginState' \in 0..2, ReportingFlagCount' \in 0..4
  PROVE  SessionInv'
<1>1. /\ socketfd' \in Conns \cup {Closed} /\ isConnected' \in BOOLEAN
      /\ server' \in [Conns -> SessionServer]
      /\ \A r \in Receivers : (pc[r] = "recv" <=> on[r] # Closed)'
      /\ (isConnected <=> socketfd # Closed)'
      /\ socketfd' # Closed => socketfd' = socketfd /\ isConnected' = isConnected
      /\ (socketfd' # Closed /\ server'[socketfd'] = "new")
            => link' = link /\ server[socketfd] = "new"
  BY SendKeeps
<1>2. UNCHANGED <<pc, on>>
  BY DEF threads
<1>3. SessionTypeOK'
  BY <1>1, <1>2 DEF SessionInv, SessionTypeOK, SessionFlags, SessionData,
     SessionServer
<1>4. (isConnected => \E r \in Receivers : pc[r] # "recv" \/ on[r] = socketfd)'
  BY <1>1, <1>2 DEF SessionInv
<1>5. ConnectedIsHeard'
  BY <1>1, <1>2 DEF SessionInv, ConnectedIsHeard
<1>6. LoginFirst'
  BY <1>1 DEF SessionInv, LoginFirst, CanSend, link
<1> QED
  BY <1>1, <1>3, <1>4, <1>5, <1>6 DEF SessionInv

LEMMA ConnectKeeps ==
  ASSUME SessionInv, NEW c \in Conns, Connect(c)
  PROVE  SessionInv'
<1> USE SessionAssumption DEF SessionInv, Connect, RoomForReceiver, allowed, threads
<1>1. SessionTypeOK'
  BY DEF SessionTypeOK, SessionFlags, SessionData, Places
<1>2. ConnectedIsHeard' /\ LoginFirst'
  BY DEF ConnectedIsHeard, LoginFirst
<1> QED
  BY <1>1, <1>2

LEMMA ApplyKeeps ==
  ASSUME SessionInv, Apply
  PROVE  SessionInv'
<1>1. /\ UNCHANGED <<allowed, loginState, ReportingFlagCount, pc, on>>
      /\ UNCHANGED threads /\ place' = "create"
      /\ closeSocket \/ Tells("applied")
  BY DEF Apply, threads, sendLoginData, SendFailed
<1>2. /\ socketfd' \in Conns \cup {Closed} /\ isConnected' \in BOOLEAN
      /\ server' \in [Conns -> SessionServer]
      /\ \A r \in Receivers : (pc[r] = "recv" <=> on[r] # Closed)'
      /\ (isConnected <=> socketfd # Closed)'
      /\ socketfd' # Closed => socketfd' = socketfd /\ isConnected' = isConnected
  BY <1>1, SendKeeps
<1>3. SessionTypeOK'
  BY <1>1, <1>2 DEF SessionInv, SessionTypeOK, SessionFlags, SessionData,
     SessionServer, Places, allowed
<1>4. (isConnected => \E r \in Receivers : pc[r] # "recv" \/ on[r] = socketfd)'
  BY <1>1, <1>2 DEF SessionInv
<1>5. ConnectedIsHeard'
  BY <1>1 DEF ConnectedIsHeard
<1>6. LoginFirst'
  BY <1>1 DEF SessionInv, SessionTypeOK, SessionData, LoginFirst, CanSend, Tells,
     closeSocket
<1> QED
  BY <1>2, <1>3, <1>4, <1>5, <1>6 DEF SessionInv

\* The new thread is not in recv() yet; if there is none, no thread was gone.
LEMMA CreateKeeps ==
  ASSUME SessionInv, CreateReceiver
  PROVE  SessionInv'
<1> USE SessionAssumption DEF SessionInv, CreateReceiver, allowed, link
<1>1. SessionTypeOK'
  BY DEF SessionTypeOK, SessionFlags, SessionData, Places
<1>2. /\ \A r \in Receivers : (pc[r] = "recv" <=> on[r] # Closed)'
      /\ ConnectedIsHeard'
      /\ (isConnected => \E r \in Receivers : pc[r] # "recv" \/ on[r] = socketfd)'
  BY DEF ConnectedIsHeard, SessionTypeOK, SessionData
<1>3. LoginFirst'
  BY DEF LoginFirst, CanSend
<1> QED
  BY <1>1, <1>2, <1>3

-----------------------------------------------------------------------------
(* The receive threads and the network.                                    *)

\* A thread that goes on outside of recv() is not bound to a connection.
LEMMA ThreadGoesOn ==
  ASSUME SessionInv, NEW r \in Receivers, NEW l, Goto(r, l),
         pc[r] # "recv", pc[r] # "gone",
         l \in {"check", "enter", "query"},
         UNCHANGED <<allowed, ReportingFlagCount, place, on>>,
         loginState' \in 0..2,
         link' = link \/ closeSocket \/ Tells("applied")
  PROVE  SessionInv'
<1>1. /\ pc' = [pc EXCEPT ![r] = l]
      /\ pc' \in [Receivers -> SessionPc]
      /\ pc'[r] \notin {"gone", "recv"}
      /\ \A q \in Receivers \ {r} : pc'[q] = pc[q]
  BY DEF Goto, SessionInv, SessionTypeOK, SessionData, SessionPc, Requests
<1>2. /\ socketfd' \in Conns \cup {Closed} /\ isConnected' \in BOOLEAN
      /\ server' \in [Conns -> SessionServer]
      /\ (isConnected <=> socketfd # Closed)'
      /\ (socketfd' # Closed /\ server'[socketfd'] = "new")
            => link' = link /\ server[socketfd] = "new"
  <2> USE SessionAssumption DEF SessionInv, SessionTypeOK, SessionFlags, SessionData,
          SessionServer
  <2>1. CASE link' = link
    BY <2>1 DEF link
  <2>2. CASE closeSocket
    BY <2>2 DEF closeSocket
  <2>3. CASE Tells("applied")
    BY <2>3 DEF Tells, CanSend
  <2> QED
    BY <2>1, <2>2, <2>3
<1>3. SessionTypeOK'
  BY <1>1, <1>2 DEF SessionInv, SessionTypeOK, SessionFlags, SessionData,
     SessionServer, SessionPc, allowed
<1>4. \A q \in Receivers : (pc[q] = "recv" <=> on[q] # Closed)'
  BY <1>1 DEF SessionInv
<1>5. /\ (isConnected => \E q \in Receivers : pc[q] # "recv" \/ on[q] = socketfd)'
      /\ ConnectedIsHeard'
  BY <1>1 DEF ConnectedIsHeard
<1>6. LoginFirst'
  BY <1>2 DEF SessionInv, LoginFirst, CanSend, link
<1> QED
  BY <1>2, <1>3, <1>4, <1>5, <1>6 DEF SessionInv

LEMMA EnterKeeps ==
  ASSUME SessionInv, NEW r \in Receivers, Enter(r)
  PROVE  SessionInv'
<1> USE SessionAssumption DEF SessionInv, Enter, Goto, CanSend, allowed, link
<1>1. SessionTypeOK'
  BY DEF SessionTypeOK, SessionFlags, SessionData
<1>2. /\ \A q \in Receivers : (pc[q] = "recv" <=> on[q] # Closed)'
      /\ pc'[r] = "recv" /\ on'[r] = socketfd'
  BY DEF SessionTypeOK, SessionData
<1>3. ConnectedIsHeard'
  BY <1>2 DEF ConnectedIsHeard
<1>4. LoginFirst'
  BY DEF LoginFirst
<1> QED
  BY <1>1, <1>2, <1>3, <1>4

\* Only the end of a thread takes a reader from the connection, and then the
\* T-Box does not take itself for connected any more.
LEMMA EndKeeps ==
  ASSUME SessionInv, NEW r \in Receivers, End(r)
  PROVE  SessionInv'
<1> USE SessionAssumption DEF SessionInv, End, Goto, closeSocket, allowed
<1>1. SessionTypeOK'
  <2>1. SessionFlags'
    BY DEF SessionTypeOK, SessionFlags
  <2>2. SessionData'
    BY DEF SessionTypeOK, SessionData
  <2> QED
    BY <2>1, <2>2 DEF SessionTypeOK
<1>2. \A q \in Receivers : (pc[q] = "recv" <=> on[q] # Closed)'
  BY DEF SessionTypeOK, SessionData
<1>3. ConnectedIsHeard' /\ LoginFirst'
  BY DEF ConnectedIsHeard, LoginFirst, CanSend
<1> QED
  BY <1>1, <1>2, <1>3

LEMMA ReceiveKeeps ==
  ASSUME SessionInv, NEW r \in Receivers, Receive(r)
  PROVE  SessionInv'
<1>1. PICK m \in Answers \cup Requests \cup {"check"},
           s \in {"accepted", "refused", "left"} :
              Receives(r, m, s) /\ pc[r] = "recv"
  BY Zenon DEF Receive, Answers
<1>2. on[r] \in Conns
  BY <1>1 DEF SessionInv, SessionTypeOK, SessionData
<1>3. /\ UNCHANGED <<allowed, socketfd, isConnected, loginState, ReportingFlagCount,
                     place>>
      /\ on' = [on EXCEPT ![r] = Closed]
      /\ pc' = [pc EXCEPT ![r] = m]
      /\ \E e \in {s, "gone"} : server' = [server EXCEPT ![on[r]] = e]
  BY <1>1 DEF Receives, Goto
<1>4. /\ pc' \in [Receivers -> SessionPc] /\ on' \in [Receivers -> Conns \cup {Closed}]
      /\ server' \in [Conns -> SessionServer]
      /\ pc'[r] \notin {"gone", "recv"}
      /\ \A q \in Receivers : (pc[q] = "recv" <=> on[q] # Closed)'
      /\ \A c \in Conns : server'[c] = "new" => server[c] = "new"
  BY <1>1, <1>3 DEF SessionInv, SessionTypeOK, SessionData, SessionPc, SessionServer,
     Answers, Requests
<1>5. SessionTypeOK'
  BY <1>3, <1>4 DEF SessionInv, SessionTypeOK, SessionFlags, SessionData,
     SessionServer, SessionPc, allowed
<1>6. /\ (isConnected => \E q \in Receivers : pc[q] # "recv" \/ on[q] = socketfd)'
      /\ ConnectedIsHeard'
  BY <1>4 DEF ConnectedIsHeard
<1>7. LoginFirst'
  BY <1>3, <1>4 DEF SessionInv, SessionTypeOK, SessionData, LoginFirst, CanSend
<1> QED
  BY <1>3, <1>4, <1>5, <1>6, <1>7 DEF SessionInv

LEMMA LoseKeeps ==
  ASSUME SessionInv, NEW c \in Conns, Lose(c)
  PROVE  SessionInv'
<1> USE DEF SessionInv, Lose, allowed, threads
<1>1. SessionTypeOK'
  BY DEF SessionTypeOK, SessionFlags, SessionData
<1>2. ConnectedIsHeard' /\ LoginFirst'
  BY DEF ConnectedIsHeard, LoginFirst, CanSend, SessionTypeOK, SessionData
<1> QED
  BY <1>1, <1>2

LEMMA WorkKeeps ==
  ASSUME SessionInv, NEW r \in Receivers, Work(r)
  PROVE  SessionInv'
<1> USE DEF SessionInv, SessionTypeOK, SessionData
<1>1. CASE Check(r)
  BY <1>1, ThreadGoesOn DEF Check
<1>2. CASE LoggedIn(r)
  BY <1>2, ThreadGoesOn DEF LoggedIn
<1>3. CASE Ignore(r)
  BY <1>3, ThreadGoesOn DEF Ignore
<1>4. CASE LoggedOut(r)
  BY <1>4, ThreadGoesOn DEF LoggedOut
<1>5. CASE Respond(r)
  BY <1>5, ThreadGoesOn DEF Respond, SendOk, SendFailed
<1>6. CASE LoginNewServer(r)
  BY <1>6, ThreadGoesOn DEF LoginNewServer, sendLoginData, SendFailed
<1> QED
  BY <1>1, <1>2, <1>3, <1>4, <1>5, <1>6, EnterKeeps, EndKeeps DEF Work

LEMMA ReportingKeeps ==
  ASSUME SessionInv, Reporting
  PROVE  SessionInv'
<1> USE DEF SessionInv, SessionTypeOK, SessionFlags, SessionData
<1>1. ASSUME UNCHANGED <<allowed, loginState, threads>>,
             place' \in Places \ {"apply"}, place \notin {"apply", "create"},
             \/ UNCHANGED <<link, ReportingFlagCount>>
             \/ timingReport
             \/ ReportingFlagCount' = 0 /\ (SendOk \/ SendFailed \/ UNCHANGED link)
             \/ UNCHANGED ReportingFlagCount /\ (Tells("leaving") \/ SendFailed)
      PROVE  SessionInv'
  <2>1. /\ testnet' \in BOOLEAN /\ testout' \in BOOLEAN /\ loginState' \in 0..2
        /\ UNCHANGED threads
    BY <1>1 DEF allowed
  <2>2. ReportingFlagCount' \in 0..4
    BY <1>1 DEF timingReport, OneMoreFailure
  <2>3. link' = link \/ closeSocket \/ \E s \in {"applied", "leaving"} : Tells(s)
    BY <1>1 DEF timingReport, SendOk, SendFailed
  <2> QED
    BY <1>1, <2>1, <2>2, <2>3, LoopKeeps
<1>2. CASE LogOut
  BY <1>1, <1>2 DEF LogOut, RealTimeDue, MayReport, Places
<1>3. CASE ReportRealTime
  BY <1>1, <1>3 DEF ReportRealTime, RealTimeDue, MayReport, Places
<1>4. CASE Reissue
  BY <1>1, <1>4 DEF Reissue, NothingToReissue, Places
<1>5. CASE ReportAlarm
  BY <1>1, <1>5 DEF ReportAlarm, MayReport, Places
<1>6. CASE ReissueAlarm
  BY <1>1, <1>6 DEF ReissueAlarm, NothingToReissue, MayReport, Places
<1>7. CASE HeartBeat
  BY <1>1, <1>7 DEF HeartBeat, MayReport, Places
<1> QED
  BY <1>2, <1>3, <1>4, <1>5, <1>6, <1>7 DEF Reporting

LEMMA SessionInductive == SessionInv /\ [SessionNext]_sessionVars => SessionInv'
<1> SUFFICES ASSUME SessionInv, [SessionNext]_sessionVars PROVE SessionInv'
  OBVIOUS
<1>0. /\ testnet \in BOOLEAN /\ testout \in BOOLEAN /\ loginState \in 0..2
      /\ ReportingFlagCount \in 0..4 /\ place \in Places
  BY DEF SessionInv, SessionTypeOK, SessionFlags, SessionData
<1>1. CASE ConnectFails
  BY <1>0, <1>1, LoopKeeps DEF ConnectFails, allowed, Places
<1>2. CASE CutOff
  BY <1>0, <1>2, LoopKeeps DEF CutOff, allowed, Places
<1>3. CASE Reconnect
  BY <1>0, <1>3, LoopKeeps DEF Reconnect, allowed, Places
<1>4. CASE AwaitLogin
  BY <1>0, <1>4, LoopKeeps DEF AwaitLogin, allowed, Places
<1>5. CASE LoginAgain
  BY <1>0, <1>5, LoopKeeps DEF LoginAgain, sendLoginData, SendFailed, allowed, Places
<1>6. CASE Control
  BY <1>0, <1>6, LoopKeeps DEF Control, allowed
<1>7. CASE UNCHANGED sessionVars
  BY <1>0, <1>7, LoopKeeps DEF sessionVars, allowed
<1> QED
  BY <1>1, <1>2, <1>3, <1>4, <1>5, <1>6, <1>7, ConnectKeeps, ApplyKeeps, CreateKeeps,
     ReportingKeeps, WorkKeeps, ReceiveKeeps, LoseKeeps
     DEF SessionNext, MainLoop, Connecting

LEMMA SessionInvariant == SessionSpec => []SessionInv
  BY InitSessionInv, SessionInductive, PTL DEF SessionSpec

\* The flags and counters of the session keep their types, and a receive
\* thread only ever has a connection there is (GBT32960.cpp:122-270, 287-403, 637-689).
THEOREM SessionTypeCorrect == SessionSpec => []SessionTypeOK
  BY SessionInvariant, PTL DEF SessionInv

\* A T-Box that takes itself for connected has a thread that reads this
\* connection or will, however many threads are left in recv() on earlier ones
\* (GBT32960.cpp:287-403, 637-689).
THEOREM SessionHeardCorrect == SessionSpec => []ConnectedIsHeard
  BY SessionInvariant, PTL DEF SessionInv

\* A login goes first on every connection, whichever connection has ended and
\* whatever loginState is left of it (GBT32960.cpp:287-403).
THEOREM LoginFirstCorrect == SessionSpec => []LoginFirst
  BY SessionInvariant, PTL DEF SessionInv
=============================================================================

------------------------------ MODULE GbStore ------------------------------
(***************************************************************************)
(* The store of reports for the GB/T 32960 platform: the table ReportData  *)
(* (SQLiteDatabase.cpp) as a ring of rows, into which the MCU thread puts  *)
(* every frame of vehicle data (mcuUart.cpp), and from which the main      *)
(* thread of GBT32960 reissues what was not sent (GBT32960.cpp). The       *)
(* threads share the mutex Goldenlock, the live data and the fault level;  *)
(* heartbeats of the MCU and the receive threads of GBT32960 write the     *)
(* live data without the mutex. The process may die anywhere; the table    *)
(* stays.                                                                  *)
(*                                                                         *)
(* A frame is its number. Its level is that of the worst alarm in it: 3 or *)
(* less, for which 0 stands.                                               *)
(***************************************************************************)
EXTENDS Integers, FiniteSets, FiniteSetsExt

CONSTANTS
    SAVE_PERIOD,   \* rows of the ring (604800)
    AlarmRows,     \* rows sent again because of an alarm (40)
    AlarmReports,  \* reports every second at the start of an alarm (30)
    Frames,        \* bound: frames the MCU sends
    Restarts       \* bound: deaths of the process

ASSUME StoreAssumption ==
    /\ SAVE_PERIOD \in Nat \ {0} /\ AlarmRows \in Nat \ {0}
    /\ AlarmReports \in Nat \ {0, 1}
    /\ Frames \in Nat /\ Restarts \in Nat

VARIABLES
    table,         \* rows by id
    resend,        \* rows are stored as sent
    loggedIn,      \* the session is up
    Goldenlock,    \* who holds it
    m_Id, m_Remainder, m_AlarmCount,
    mcu,           \* where the MCU thread is
    frame,         \* its frame: number, level, isSend of its row
    faultLevel, alarmlever, alarmcount,
    main, id,      \* where the main thread is, the row it reissues
    reissue,       \* the live data are being replaced by those of a row
    live, motion,   \* frame the live data are of, its speed and position
    report,        \* frame of the row in the packet
    packed, packedMotion,   \* frames the packet's data, speed and position are of
    reissued,      \* reissued and not marked unsent since
    restarts,
    intact         \* nothing happened that costs frames

session == <<resend, loggedIn>>
ids == <<m_Id, m_Remainder, m_AlarmCount>>
alarm == <<alarmlever, alarmcount>>
dataInfo == <<live, motion>>
packet == <<packed, packedMotion>>
sending == <<report, reissued>>
world == <<restarts, intact>>
vars == <<table, session, Goldenlock, ids, mcu, frame, faultLevel, alarm, main,
          id, reissue, dataInfo, packet, sending, world>>

\* Data that are no stored frame's: those of the parameter file, with which the
\* program starts, and the speed and position of a heartbeat.
FILE == 0
HEARTBEAT == -1

Row == [n : 1..Frames, dev : Nat, times : 0..Frames, isSend : 0..1]
Levels == {0, 3}

FlagTypes ==
    /\ resend \in BOOLEAN /\ loggedIn \in BOOLEAN
    /\ alarmlever \in BOOLEAN /\ reissue \in BOOLEAN /\ intact \in BOOLEAN

DataTypes ==
    /\ DOMAIN table \subseteq 1..SAVE_PERIOD
    /\ \A i \in DOMAIN table : table[i] \in Row
    /\ Goldenlock \in {"free", "mcu", "main"}
    /\ m_Id \in Nat /\ m_Remainder \in 0..SAVE_PERIOD /\ m_AlarmCount \in 0..Frames
    /\ mcu \in {"idle", "insert", "update"}
    /\ frame \in [n : 0..Frames, level : Levels, isSend : 0..1]
    /\ faultLevel \in Levels /\ alarmcount \in 0..AlarmReports-1
    /\ main \in {"idle", "reissue", "read", "pack", "packRest", "clear", "send"}
    /\ id \in 0..SAVE_PERIOD
    /\ live \in 0..Frames /\ motion \in -1..Frames /\ report \in 0..Frames
    /\ packed \subseteq 0..Frames /\ packedMotion \subseteq -1..Frames
    /\ reissued \subseteq 1..Frames
    /\ restarts \in 0..Restarts

\* Types of the variables; the table never has more rows than the ring, and no
\* more alarms are counted than frames arrived.
TypeOK == FlagTypes /\ DataTypes

Init ==
    /\ table = <<>>
    /\ resend = FALSE /\ loggedIn = FALSE
    /\ Goldenlock = "free"
    /\ m_Id = 0 /\ m_Remainder = 0 /\ m_AlarmCount = 0
    /\ mcu = "idle" /\ frame = [n |-> 0, level |-> 0, isSend |-> 0]
    /\ faultLevel = 0 /\ alarmlever = FALSE /\ alarmcount = 0
    /\ main = "idle" /\ id = 0 /\ reissue = FALSE
    /\ live = FILE /\ motion = FILE
    /\ report = 0 /\ packed = {} /\ packedMotion = {}
    /\ reissued = {} /\ restarts = 0 /\ intact = TRUE

-----------------------------------------------------------------------------
(* The table.                                                              *)

rows == DOMAIN table

MaxOf(S) == IF S = {} THEN 0 ELSE Max(S)

queryMaxTimes == MaxOf({table[i].times : i \in rows})

\* The newest row, or so it is meant: the last one of the last round. The
\* query returns one column and the round is taken from a second one, so that
\* it is always 0.
queryStandardProMaxID ==
    MaxOf({i \in rows : \A j \in rows : table[j].dev <= table[i].dev})

\* The row of the last alarm; the first one if there are several.
queryMaxTimesID ==
    IF rows = {} THEN 0
    ELSE Min({i \in rows : table[i].times = queryMaxTimes})

queryUnsendID == MaxOf({i \in rows : table[i].isSend = 0})

\* updateisSend, for a set of rows; there need not be any.
Marked(S, mark) ==
    [i \in rows |-> IF i \in S THEN [table[i] EXCEPT !.isSend = mark] ELSE table[i]]

-----------------------------------------------------------------------------
(* The MCU thread: every frame is stored, whatever becomes of it otherwise. *)

\* Mutant of Slot: the last row of the ring is never used.
SlotSkipsLast == IF m_Remainder = 0 THEN 1 ELSE m_Remainder

\* The row that is written, and the round it belongs to.
Slot == IF m_Remainder = 0 THEN SAVE_PERIOD ELSE m_Remainder
Round == IF m_Id <= SAVE_PERIOD THEN 0
         ELSE IF m_Remainder = 0 THEN m_Id \div SAVE_PERIOD - 1
         ELSE m_Id \div SAVE_PERIOD

\* The next row is chosen, and what it held in the round before is deleted.
TakeFrame(level) ==
    /\ mcu = "idle" /\ frame.n < Frames
    /\ Goldenlock' = "mcu"
    /\ m_Id' = (IF m_Id = 0 THEN queryStandardProMaxID ELSE m_Id) + 1
    /\ m_Remainder' = IF m_Id' > SAVE_PERIOD THEN m_Id' % SAVE_PERIOD ELSE m_Id'
    /\ m_AlarmCount' = IF m_Id = 0 THEN queryMaxTimes ELSE m_AlarmCount
    /\ table' = IF m_Id' > SAVE_PERIOD
                THEN [i \in rows \ {Slot'} |-> table[i]]
                ELSE table
    /\ frame' = [n |-> frame.n + 1, level |-> level,
                 isSend |-> IF resend THEN 1 ELSE 0]
    /\ mcu' = "insert"
    /\ UNCHANGED <<session, faultLevel, alarm, main, id, reissue, dataInfo, packet,
                   sending, world>>

\* Mutant of FrameStart: the mutex is not waited for.
FrameUnlocked(level) == TakeFrame(level)

\* A frame arrives.
FrameStart(level) == Goldenlock = "free" /\ TakeFrame(level)

\* insertStandardProData: a row with this id makes it fail, which it does not
\* report.
FrameInsert ==
    /\ mcu = "insert"
    /\ table' = [i \in rows \cup {Slot} |->
                    IF i \in rows THEN table[i]
                    ELSE [n |-> frame.n, dev |-> Round, times |-> 0,
                          isSend |-> frame.isSend]]
    /\ mcu' = "update"
    /\ UNCHANGED <<session, Goldenlock, ids, frame, faultLevel, alarm, main, id,
                   reissue, dataInfo, packet, sending, world>>

\* The frame becomes the live data. An alarm that begins is counted, and its
\* row gets the number, unless this is the last row of the ring, when
\* m_Remainder is 0. Live data that are being replaced do not count.
FrameUpdate ==
    /\ mcu = "update"
    /\ live' = frame.n /\ motion' = frame.n
    /\ IF ~reissue /\ frame.level = 3 /\ faultLevel # 3
       THEN /\ m_AlarmCount' = m_AlarmCount + 1
            /\ table' = [i \in rows |-> IF i = m_Remainder
                            THEN [table[i] EXCEPT !.times = m_AlarmCount + 1]
                            ELSE table[i]]
       ELSE UNCHANGED <<m_AlarmCount, table>>
    /\ faultLevel' = IF reissue THEN faultLevel ELSE frame.level
    /\ Goldenlock' = "free"
    /\ mcu' = "idle"
    /\ UNCHANGED <<session, m_Id, m_Remainder, frame, alarm, main, id, reissue,
                   packet, sending, world>>

\* A heartbeat: its speed and position become the live ones, whoever holds the
\* mutex.
McuHeartBeat ==
    /\ mcu = "idle"
    /\ motion' = HEARTBEAT
    /\ UNCHANGED <<table, session, Goldenlock, ids, mcu, frame, faultLevel, alarm,
                   main, id, reissue, live, packet, sending, world>>

-----------------------------------------------------------------------------
(* The main thread, logged in.                                             *)

\* A report and a reissue, at the end of the interval. Reporting changes
\* nothing here.
Report ==
    /\ main = "idle" /\ loggedIn
    /\ faultLevel # 3 \/ alarmlever
    /\ alarmlever' = (alarmlever /\ faultLevel = 3)
    /\ main' = "reissue"
    /\ UNCHANGED <<table, session, Goldenlock, ids, mcu, frame, faultLevel,
                   alarmcount, id, reissue, dataInfo, packet, sending, world>>

\* Mutant of AlarmReport: the count does not end the alarm.
AlarmForEver ==
    /\ main = "idle" /\ loggedIn
    /\ faultLevel = 3 /\ ~alarmlever
    /\ alarmcount' = (alarmcount + 1) % AlarmReports
    /\ main' = IF alarmcount = 0 THEN "reissue" ELSE "idle"
    /\ UNCHANGED <<table, session, Goldenlock, ids, mcu, frame, faultLevel,
                   alarmlever, id, reissue, dataInfo, packet, sending, world>>

\* An alarm has begun: a report every second, AlarmReports times. The first
\* is followed by a reissue. The count goes on where an earlier alarm left it.
AlarmReport ==
    /\ main = "idle" /\ loggedIn
    /\ faultLevel = 3 /\ ~alarmlever
    /\ alarmcount' = (alarmcount + 1) % AlarmReports
    /\ alarmlever' = (alarmcount + 1 = AlarmReports)
    /\ main' = IF alarmcount = 0 THEN "reissue" ELSE "idle"
    /\ UNCHANGED <<table, session, Goldenlock, ids, mcu, frame, faultLevel, id,
                   reissue, dataInfo, packet, sending, world>>

\* The rows up to the one at which the last alarm began.
BeforeAlarm == {i \in rows : queryMaxTimesID - AlarmRows < i /\ i <= queryMaxTimesID}

\* Which row is to be reissued: the unsent one with the highest id. During an
\* alarm the rows before it become unsent, and its own row is chosen.
ReissueStart ==
    /\ main = "reissue" /\ Goldenlock = "free"
    /\ IF faultLevel = 3 /\ ~alarmlever
       THEN /\ id' = queryMaxTimesID
            /\ table' = Marked(BeforeAlarm, 0)
            /\ reissued' = reissued \ {table[i].n : i \in BeforeAlarm}
       ELSE /\ id' = queryUnsendID
            /\ UNCHANGED <<table, reissued>>
    /\ IF id' = 0 THEN main' = "idle" /\ UNCHANGED Goldenlock
                  ELSE main' = "read" /\ Goldenlock' = "main"
    /\ UNCHANGED <<session, ids, mcu, frame, faultLevel, alarm, reissue, dataInfo,
                   packet, report, world>>

\* Mutant of ReissueRead: the row stays unsent.
ReadUnmarked ==
    /\ main = "read"
    /\ reissue' = TRUE
    /\ live' = table[id].n /\ motion' = table[id].n /\ report' = table[id].n
    /\ main' = "pack"
    /\ UNCHANGED <<table, session, Goldenlock, ids, mcu, frame, faultLevel, alarm, id,
                   packet, reissued, world>>

\* The row, which is there and unsent, replaces the live data and is marked
\* as sent. Its time goes into the packet.
ReissueRead ==
    /\ main = "read"
    /\ reissue' = TRUE
    /\ live' = table[id].n /\ motion' = table[id].n /\ report' = table[id].n
    /\ table' = Marked({id}, 1)
    /\ main' = "pack"
    /\ UNCHANGED <<session, Goldenlock, ids, mcu, frame, faultLevel, alarm, id,
                   packet, reissued, world>>

\* The packet is made of the live data one part after the other.
PackLive ==
    /\ packed' = packed \cup {live}
    /\ packedMotion' = packedMotion \cup {motion}
    /\ UNCHANGED <<table, session, ids, mcu, frame, faultLevel, alarm, id, reissue,
                   dataInfo, sending, world>>

\* The vehicle's part, with the speed.
PackVehicle ==
    /\ main = "pack" /\ main' = "packRest"
    /\ PackLive
    /\ UNCHANGED Goldenlock

\* The motor's to the batteries' temperature, with the position; then the mutex
\* is given back.
PackRest ==
    /\ main = "packRest" /\ main' = "clear"
    /\ PackLive
    /\ Goldenlock' = "free"

ReissueClear ==
    /\ main = "clear"
    /\ reissue' = FALSE
    /\ main' = "send"
    /\ UNCHANGED <<table, session, Goldenlock, ids, mcu, frame, faultLevel, alarm,
                   id, dataInfo, packet, sending, world>>

\* The main thread is done with the packet, whatever became of it.
PacketDone ==
    /\ main = "send" /\ main' = "idle"
    /\ id' = 0 /\ report' = 0 /\ packed' = {} /\ packedMotion' = {}
    /\ UNCHANGED <<table, Goldenlock, ids, mcu, frame, faultLevel, alarm, reissue,
                   dataInfo, world>>

Sent ==
    /\ PacketDone
    /\ reissued' = reissued \cup {report}
    /\ UNCHANGED session

\* send() fails: the connection is closed. The row stays marked.
SendFails ==
    /\ PacketDone
    /\ resend' = FALSE /\ loggedIn' = FALSE
    /\ UNCHANGED reissued

-----------------------------------------------------------------------------
\* The session: resend is set on connecting and cleared by the main loop, the
\* login and its end are other threads', so that they can disagree.
Session ==
    /\ resend' \in BOOLEAN /\ loggedIn' \in BOOLEAN
    /\ UNCHANGED <<table, Goldenlock, ids, mcu, frame, faultLevel, alarm, main, id,
                   reissue, dataInfo, packet, sending, world>>

\* A receive thread reads the parameter file back, over the settings and the
\* live data, without the mutex (a platform's settings were refused); another
\* thread may come in between.
Reread ==
    /\ live' \in {live, FILE} /\ motion' \in {motion, FILE}
    /\ UNCHANGED <<table, session, Goldenlock, ids, mcu, frame, faultLevel, alarm,
                   main, id, reissue, packet, sending, world>>

\* The process dies and is started again by the monitor.
Restart ==
    /\ restarts < Restarts /\ restarts' = restarts + 1
    /\ intact' = (intact /\ mcu # "insert" /\ frame.n <= SAVE_PERIOD)
    /\ resend' = FALSE /\ loggedIn' = FALSE
    /\ Goldenlock' = "free"
    /\ m_Id' = 0 /\ m_Remainder' = 0 /\ m_AlarmCount' = 0
    /\ mcu' = "idle"
    /\ faultLevel' = 0 /\ alarmlever' = FALSE /\ alarmcount' = 0
    /\ main' = "idle" /\ id' = 0 /\ reissue' = FALSE
    /\ live' = FILE /\ motion' = FILE
    /\ report' = 0 /\ packed' = {} /\ packedMotion' = {}
    /\ UNCHANGED <<table, frame, reissued>>

MCU == \/ \E level \in Levels : FrameStart(level)
       \/ FrameInsert \/ FrameUpdate \/ McuHeartBeat

Main == \/ Report \/ AlarmReport
        \/ ReissueStart \/ ReissueRead \/ PackVehicle \/ PackRest \/ ReissueClear
        \/ Sent \/ SendFails

Next == MCU \/ Main \/ Session \/ Reread \/ Restart

Spec == Init /\ [][Next]_vars

\* The threads go on; the MCU may fall silent.
FairSpec == Spec /\ WF_vars(FrameInsert \/ FrameUpdate) /\ WF_vars(Main)

-----------------------------------------------------------------------------
(* Properties.                                                             *)

\* As long as the process has not died in the second round or later, or in
\* the middle of storing a frame, the table holds the last SAVE_PERIOD frames.
HoldsLatest ==
    intact /\ mcu = "idle" =>
        /\ {table[i].n : i \in rows} =
               {k \in 1..frame.n : k > frame.n - SAVE_PERIOD}
        /\ Cardinality(rows) = Cardinality({table[i].n : i \in rows})

\* A packet is made of the row just marked as sent and never of another stored
\* frame, although frames arrive and the row is unpacked into the live data, from
\* which the packet is taken. (Not more: speed and position may be a later
\* heartbeat's, and any part that of the parameter file, for those who write
\* them do not take the mutex.)
PackedIsMarked ==
    /\ main \in {"pack", "packRest"} =>
           /\ id \in rows /\ report = table[id].n /\ table[id].isSend = 1
           /\ live \in {report, FILE} /\ motion \in {report, FILE, HEARTBEAT}
    /\ packed \subseteq {report, FILE}
    /\ packedMotion \subseteq {report, FILE, HEARTBEAT}

\* No frame is reissued twice, not even by different runs of the process,
\* unless an alarm has made it unsent again.
ReissuedOnce == main = "send" => report \notin reissued

\* A session that stays up empties the store, alarms or not, once no more
\* frames arrive.
BacklogDrains ==
    <>[]loggedIn => <>[](\A i \in rows : table[i].isSend = 1)

\* A packet sent again is one row's: its time, which is the row's, its speed,
\* position and the rest belong together. (Lock of GBT32960.cpp:2000-2189.)
\* The code does not keep this: README, Known deviations.
PacketOfOneFrame ==
    main = "send" => packed = {report} /\ packedMotion = {report}

\* A frame is in the table once insertStandardProData has returned, for it
\* always returns 0. (Comment of insertStandardProData: returns 0 on success,
\* -1 on failure.)
\* The code does not keep this: README, Known deviations.
InsertedIfSuccess ==
    [][FrameInsert => Slot \in DOMAIN table' /\ table'[Slot].n = frame.n]_vars
=============================================================================

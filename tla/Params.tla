------------------------------ MODULE Params ------------------------------
(***************************************************************************)
(* The parameters that survive a restart, each a structure in memory and a *)
(* file that holds a copy of it:                                           *)
(*   - handle / file: *p_GBT32960_handle and /data/GB32960Para             *)
(*     (GBT32960.cpp), with the login number of the day, written by the    *)
(*     main loop when it connects and by the receive thread that handles a *)
(*     set command of the server, which may have been left behind by an    *)
(*     earlier connection;                                                 *)
(*   - para / paraFile: TBoxPara and /data/TBoxPara (TBoxDataPool.cpp),    *)
(*     one item of which is set at a time, by any thread, and the whole    *)
(*     structure written;                                                  *)
(*   - conf / confFile: TboxConfigInfo with the VIN, which the MCU sends   *)
(*     after every start, and which whoever asks for the VIN reads from    *)
(*     the file again.                                                     *)
(* No lock protects any of them. The process may die between two steps.    *)
(***************************************************************************)
EXTENDS Integers

CONSTANTS
    Setters,      \* threads that call setPara(): each sets an item of its own
    Vins,         \* VINs the MCU may send
    Days,         \* bound: days the runs of the program are spread over
    MaxSerial,    \* largest login number that is still increased (65531)
    MaxRestarts,  \* bound: times the process dies
    Blank         \* contents of a file that is empty

ASSUME ParamsAssumption ==
    /\ Blank \notin Vins
    /\ Days \in Nat \ {0} /\ MaxSerial \in Nat \ {0} /\ MaxRestarts \in Nat

VARIABLES
    boot,             \* what the start of the program has reached
    handle, file,
    today,
    link,             \* the GB/T 32960 connection
    dial,             \* where the main loop is in socketConnect()
    SettoLoginState,
    rx,               \* the receive thread: the stage of a set command
    para, paraFile, setter,
    conf, confFile, mcu,
    restarts,
    (* Histories: what was promised, and what happened to it.              *)
    lastLogin,        \* the last login sent: its number, the day it was counted
    setBack,          \* since then the number was read back or began again
    owed,             \* the setting the server was last told is in force
    cut,              \* the process died between telling it and storing it
    asked,            \* what each thread set last, and had time to write
    vin,              \* the VIN the MCU sent last, and that had time to be written
    replaced,         \* a reader has put the old one in its place
    interrupted       \* a start was cut short between creating and writing

login == <<dial, lastLogin, setBack>>
promise == <<owed, cut>>
session == <<handle, file, link, SettoLoginState, rx, login, promise>>
pool == <<para, paraFile, setter, asked>>
config == <<conf, confFile, mcu, vin, replaced>>
world == <<today, restarts, interrupted>>
vars == <<boot, session, pool, config, world>>

Settings == {"default", "new", "blank"}
Handle == [par : Settings, day : 0..Days, serial : 0..MaxSerial+1]
Factory == [par |-> "default", day |-> 0, serial |-> 0]
Zero == [par |-> "blank", day |-> 0, serial |-> 0]
NoFile == [par |-> "none", day |-> 0, serial |-> 0]

FlagTypes ==
    /\ interrupted \in BOOLEAN /\ setBack \in BOOLEAN /\ cut \in BOOLEAN
    /\ replaced \in BOOLEAN

DataTypes ==
    /\ boot \in {"read", "create", "up"}
    /\ handle \in Handle /\ file \in Handle \cup {NoFile}
    /\ today \in 1..Days /\ lastLogin \in (0..Days) \X (0..MaxSerial+1)
    /\ link \in {"down", "up"} /\ SettoLoginState \in 0..1
    /\ dial \in {"idle", "count", "save", "login"}
    /\ rx \in {"none", "recv", "answer", "store", "storeServer", "relogin",
               "verdict", "readBack"}
    /\ owed \in Settings \cup {"none"}
    /\ para \in [Setters -> 0..1] /\ paraFile \in [Setters -> 0..1]
    /\ setter \in [Setters -> {"idle", "write"}]
    /\ asked \in [Setters -> 0..1]
    /\ conf \in Vins \cup {Blank} /\ confFile \in Vins \cup {Blank}
    /\ mcu \in {"idle", "set", "write"} /\ vin \in Vins \cup {Blank}
    /\ restarts \in 0..MaxRestarts

\* Types of the variables.
TypeOK == FlagTypes /\ DataTypes

\* A T-Box fresh from the factory. TBoxPara has been initialised: that start
\* is in the README under what is not modelled.
Init ==
    /\ boot = "read"
    /\ handle = Zero /\ file = NoFile
    /\ today = 1
    /\ link = "down" /\ dial = "idle" /\ SettoLoginState = 0
    /\ lastLogin = <<0, 0>> /\ setBack = FALSE
    /\ rx = "none"
    /\ owed = "none" /\ cut = FALSE
    /\ para = [s \in Setters |-> 0] /\ paraFile = para
    /\ setter = [s \in Setters |-> "idle"]
    /\ asked = para
    /\ conf = Blank /\ confFile = Blank
    /\ mcu = "idle" /\ vin = Blank /\ replaced = FALSE
    /\ restarts = 0 /\ interrupted = FALSE

-----------------------------------------------------------------------------
(* The parameters of GBT32960.                                             *)

\* The constructor reads the file; an empty one counts as read. If there is
\* none, it is created, ...
ReadHandle ==
    /\ boot = "read"
    /\ IF file = NoFile
       THEN /\ boot' = "create"
            /\ file' = Zero
            /\ UNCHANGED handle
       ELSE /\ boot' = "up"
            /\ handle' = file
            /\ UNCHANGED file
    /\ UNCHANGED <<link, SettoLoginState, rx, login, promise, pool, config, world>>

\* ... and the defaults are written to it.
InitHandle ==
    /\ boot = "create"
    /\ handle' = Factory /\ file' = Factory
    /\ boot' = "up"
    /\ UNCHANGED <<link, SettoLoginState, rx, login, promise, pool, config, world>>

\* socketConnect(): the connection is there, ...
Dial ==
    /\ boot = "up" /\ link = "down" /\ dial = "idle"
    /\ link' = "up" /\ dial' = "count"
    /\ UNCHANGED <<boot, handle, file, SettoLoginState, rx, lastLogin, setBack,
                   promise, pool, config, world>>

\* ... the login is counted in memory: the number goes on within a day and
\* starts again with the next, or at the limit, ...
AtLimit == handle.day = today /\ handle.serial > MaxSerial

\* Mutant of NextSerial: the number is never begun again.
SerialEndless == handle.serial + 1

NextSerial ==
    IF handle.day = 0 \/ (handle.day = today /\ ~AtLimit)
    THEN handle.serial + 1 ELSE 1

Count ==
    /\ dial = "count"
    /\ handle' = [handle EXCEPT !.day = today, !.serial = NextSerial]
    /\ setBack' = (setBack \/ AtLimit)
    /\ dial' = "save"
    /\ UNCHANGED <<boot, file, link, SettoLoginState, rx, lastLogin, promise, pool,
                   config, world>>

\* Mutant of Save: the number reaches the file only with the next set command.
SaveNothing ==
    /\ dial = "save"
    /\ dial' = "login"
    /\ UNCHANGED <<boot, handle, file, link, SettoLoginState, rx, lastLogin, setBack,
                   promise, pool, config, world>>

\* ... the structure is written to the file, as it is by now, ...
Save ==
    /\ dial = "save"
    /\ file' = handle
    /\ dial' = "login"
    /\ UNCHANGED <<boot, handle, link, SettoLoginState, rx, lastLogin, setBack,
                   promise, pool, config, world>>

\* ... and the T-Box logs in, unless the connection has been closed again. A
\* process starts receiving after its first attempt.
LogIn ==
    /\ dial = "login"
    /\ IF link = "up"
       THEN lastLogin' = <<handle.day, handle.serial>> /\ setBack' = FALSE
       ELSE UNCHANGED <<lastLogin, setBack>>
    /\ dial' = "idle"
    /\ rx' = IF rx = "none" THEN "recv" ELSE rx
    /\ UNCHANGED <<boot, handle, file, link, SettoLoginState, promise, pool, config,
                   world>>

\* The connection ends, or the main loop finds that it has.
Disconnect ==
    /\ link = "up"
    /\ link' = "down"
    /\ UNCHANGED <<boot, handle, file, SettoLoginState, rx, login, promise, pool,
                   config, world>>

\* unpack_SetCommand(), in a receive thread of this connection or of an earlier
\* one: the parameters are saved and changed in memory.
ChangeParams(p) ==
    /\ rx = "recv"
    /\ SettoLoginState' = 0
    /\ file' = handle
    /\ handle' = [handle EXCEPT !.par = p]
    /\ rx' = "answer"
    /\ owed' = "none"
    /\ UNCHANGED <<boot, link, login, cut, pool, config, world>>

\* The answer. If send() fails, the connection is closed and that is all; if
\* not, the server takes the parameters for set, and they are about to be
\* saved, those of a new server too.
AnswerSet ==
    /\ rx = "answer" /\ link = "up"
    /\ rx' \in {"store", "storeServer"}
    /\ owed' = handle.par /\ cut' = FALSE
    /\ UNCHANGED <<boot, handle, file, link, SettoLoginState, login, pool, config,
                   world>>
AnswerFails ==
    /\ rx = "answer"
    /\ link' = "down" /\ rx' = "recv"
    /\ UNCHANGED <<boot, handle, file, SettoLoginState, login, promise, pool, config,
                   world>>

\* Mutant of StoreParams: they are kept in memory only.
StoreNothing ==
    /\ rx \in {"store", "storeServer"}
    /\ rx' = IF rx = "storeServer" THEN "relogin" ELSE "recv"
    /\ UNCHANGED <<boot, handle, file, link, SettoLoginState, login, promise, pool,
                   config, world>>

StoreParams ==
    /\ rx \in {"store", "storeServer"}
    /\ file' = handle
    /\ rx' = IF rx = "storeServer" THEN "relogin" ELSE "recv"
    /\ UNCHANGED <<boot, handle, link, SettoLoginState, login, promise, pool, config,
                   world>>

\* A new server: log in, on the connection to the old one and with the number
\* of its login, ...
LoginNewServer ==
    /\ rx = "relogin"
    /\ \/ link = "up" /\ UNCHANGED link
       \/ link' = "down"
    /\ rx' = "verdict"
    /\ UNCHANGED <<boot, handle, file, SettoLoginState, login, promise, pool, config,
                   world>>

\* ... whose answer can only have come through another receive thread, ...
AnotherLogin ==
    /\ link = "up" /\ SettoLoginState = 0
    /\ SettoLoginState' = 1
    /\ UNCHANGED <<boot, handle, file, link, rx, login, promise, pool, config, world>>

KeepParams ==
    /\ rx = "verdict" /\ SettoLoginState = 1
    /\ file' = handle
    /\ rx' = "recv"
    /\ UNCHANGED <<boot, handle, link, SettoLoginState, login, promise, pool, config,
                   world>>

\* ... and without one the server is told so, ...
TellRefused ==
    /\ rx = "verdict" /\ SettoLoginState = 0 /\ link = "up"
    /\ rx' = "readBack" /\ owed' = "none"
    /\ UNCHANGED <<boot, handle, file, link, SettoLoginState, login, cut, pool, config,
                   world>>
RevertFails ==
    /\ rx = "verdict" /\ SettoLoginState = 0
    /\ link' = "down" /\ rx' = "recv"
    /\ UNCHANGED <<boot, handle, file, SettoLoginState, login, promise, pool, config,
                   world>>

\* ... and "get previous data": the whole structure is read from the file, which
\* holds the new parameters, and the number of the last login that was saved.
ReadBack ==
    /\ rx = "readBack"
    /\ handle' = file
    /\ setBack' = (setBack \/ dial = "save")
    /\ rx' = "recv"
    /\ UNCHANGED <<boot, file, link, SettoLoginState, dial, lastLogin, promise, pool,
                   config, world>>

-----------------------------------------------------------------------------
(* TBoxPara.                                                               *)

\* setPara(): an item is changed, ...
SetItem(s, v) ==
    /\ setter[s] = "idle"
    /\ para' = [para EXCEPT ![s] = v]
    /\ asked' = [asked EXCEPT ![s] = v]
    /\ setter' = [setter EXCEPT ![s] = "write"]
    /\ UNCHANGED <<boot, session, paraFile, config, world>>

\* ... and updatePara() writes the structure as it is then, over the old one
\* (the file is not truncated).
updatePara(s) ==
    /\ setter[s] = "write"
    /\ paraFile' = para
    /\ setter' = [setter EXCEPT ![s] = "idle"]
    /\ UNCHANGED <<boot, session, para, asked, config, world>>

-----------------------------------------------------------------------------
(* TboxConfigInfo.                                                         *)

\* unpack_TboxConfigInfo(): the VIN is set in memory, ...
SetVin(v) ==
    /\ mcu = "idle"
    /\ conf' = v
    /\ mcu' = "set"
    /\ vin' = v /\ replaced' = FALSE
    /\ UNCHANGED <<boot, session, pool, confFile, world>>

\* ... and updateTboxConfig() truncates the file ...
Truncate ==
    /\ mcu = "set"
    /\ confFile' = Blank
    /\ mcu' = "write"
    /\ UNCHANGED <<boot, session, pool, conf, vin, replaced, world>>

\* ... and writes it.
WriteVin ==
    /\ mcu = "write"
    /\ confFile' = conf
    /\ mcu' = "idle"
    /\ UNCHANGED <<boot, session, pool, conf, vin, replaced, world>>

\* getTboxConfigInfo() by any thread: the file, if it is not empty, replaces
\* what is in memory.
getTboxConfigInfo ==
    /\ confFile # Blank /\ conf # confFile
    /\ conf' = confFile
    /\ replaced' = (replaced \/ mcu = "set")
    /\ UNCHANGED <<boot, session, pool, confFile, mcu, vin, world>>

-----------------------------------------------------------------------------
NewDay ==
    /\ today < Days
    /\ today' = today + 1
    /\ UNCHANGED <<boot, session, pool, config, restarts, interrupted>>

\* What a new process finds: the files. What a thread had set, and the MCU sent,
\* and was being written, is not promised.
Reborn ==
    /\ boot' = "read" /\ handle' = Zero
    /\ link' = "down" /\ dial' = "idle" /\ SettoLoginState' = 0
    /\ rx' = "none"
    /\ para' = paraFile /\ setter' = [s \in Setters |-> "idle"]
    /\ asked' = [s \in Setters |->
                    IF setter[s] = "write" THEN paraFile[s] ELSE asked[s]]
    /\ conf' = Blank /\ mcu' = "idle"
    /\ vin' = IF mcu = "idle" THEN vin ELSE Blank
    /\ UNCHANGED <<today, paraFile, confFile, replaced>>

\* The process dies at any time.
Restart ==
    /\ restarts < MaxRestarts
    /\ restarts' = restarts + 1
    /\ interrupted' = (interrupted \/ boot = "create")
    /\ cut' = (cut \/ (rx \in {"store", "storeServer"} /\ file.par # owed))
    /\ Reborn
    /\ UNCHANGED <<file, lastLogin, setBack, owed>>

\* The server asks for the factory settings: once it has been answered, the
\* file is deleted and the process killed; the numbers start again.
FactoryReset ==
    /\ rx = "recv" /\ link = "up"
    /\ Reborn
    /\ file' = NoFile /\ lastLogin' = <<0, 0>> /\ setBack' = FALSE
    /\ owed' = "none"
    /\ UNCHANGED <<cut, restarts, interrupted>>

SessionStep ==
    \/ ReadHandle \/ InitHandle
    \/ Dial \/ Count \/ Save \/ LogIn \/ Disconnect
    \/ \E p \in {"default", "new"} : ChangeParams(p)
    \/ AnswerSet \/ AnswerFails \/ StoreParams
    \/ LoginNewServer \/ AnotherLogin \/ KeepParams
    \/ TellRefused \/ RevertFails \/ ReadBack

PoolStep == \E s \in Setters : updatePara(s) \/ \E v \in 0..1 : SetItem(s, v)

ConfigStep ==
    (\E v \in Vins : SetVin(v)) \/ Truncate \/ WriteVin \/ getTboxConfigInfo

Next ==
    SessionStep \/ PoolStep \/ ConfigStep \/ NewDay \/ Restart \/ FactoryReset

Spec == Init /\ [][Next]_vars

-----------------------------------------------------------------------------
(* Properties.                                                             *)

\* A setting the server was told is in force is in the file: a restart brings it
\* back, whatever the main loop, which writes the same file, has written since.
\* Not between the answer and the store, nor if the process died there (that the
\* code does not keep: AnsweredIsStored); nor once the server has asked for
\* something else.
SettingsOwed ==
    owed # "none" /\ rx \notin {"store", "storeServer"} /\ ~cut
        => file.par = owed

\* Connected, logged in and with no set command under way, the parameters in use
\* are those of the file: an answer that cannot be sent leaves them unsaved, but
\* ends the connection, and the next one saves them before it logs in.
SettingsSurvive ==
    link = "up" /\ dial \in {"login", "idle"}
    /\ rx \notin {"answer", "store", "storeServer"}
        => handle.par = file.par

\* Parameters that have never been initialised come into use only because a
\* start was cut short between the creation and the writing of the file: an
\* empty file is taken for a good one ever after.
BlankOnlyInterrupted ==
    boot = "up" /\ handle.par = "blank" => interrupted

\* Threads that set items of TBoxPara at once do not lose each other's: what
\* a thread has set and written is in the file, whoever has written since and
\* however often the process has died.
ItemsSaved == \A s \in Setters : setter[s] = "idle" => paraFile[s] = asked[s]

\* The VIN the MCU sent last is in the file once it has been written, also after
\* a restart, unless a reader came between the setting and the truncation (that
\* the code does not keep: VinStored); and one in memory is the one in the file.
VinSaved ==
    mcu = "idle" =>
        /\ (vin # Blank /\ ~replaced) => confFile = vin
        /\ conf # Blank => confFile = conf

\* What must survive a death of the process at any step: settings the server was
\* told of, items, the VIN; the exceptions are those of the parts
\* (GBT32960.cpp:490-576, 2563-2779; TBoxDataPool.cpp:214-365, 469-552).
FilesCurrent ==
    /\ SettingsOwed /\ SettingsSurvive /\ BlankOnlyInterrupted
    /\ ItemsSaved /\ VinSaved

\* Every login that is sent has a higher number than the last one, or belongs to
\* a later day (that under which it was counted: a login at midnight goes out
\* with the number of the day before), also if the process dies at any step
\* in between. Not if the number has been set back: by reaching its limit, or
\* by a receive thread that read the file between Count and Save (that the code
\* does not keep: SerialAlwaysFresh). A factory reset starts the numbers again,
\* and a login to a new server has none of its own.
SerialFresh ==
    [][LogIn /\ link = "up" /\ ~setBack =>
        \/ lastLogin'[1] > lastLogin[1]
        \/ lastLogin'[1] = lastLogin[1] /\ lastLogin'[2] > lastLogin[2]]_vars

\* What the server was told is set has been set. (The answer is
\* GBT32960_RESPONSE_SUCCESS, GBT32960.cpp:2730.)
\* The code does not keep this: README, Known deviations.
AnsweredIsStored ==
    owed # "none" /\ rx \notin {"store", "storeServer"} => file.par = owed

\* The VIN the MCU sent is the one stored. (Log of updateTboxConfig: vin set ok.)
\* The code does not keep this: README, Known deviations.
VinStored == mcu = "idle" /\ vin # Blank => confFile = vin

\* Two logins in a row differ in day or number. (Comment of socketConnect: set
\* login serial number.)
\* The code does not keep this: README, Known deviations.
SerialAlwaysFresh == [][LogIn /\ link = "up" => lastLogin' # lastLogin]_vars
=============================================================================

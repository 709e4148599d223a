# T-Box: TLA+ specifications

TLA+ modules, TLC configurations and TLAPS proofs for the telematics box
("T-Box") program in `src/`: one Linux process on a SIM7600 modem that connects
a vehicle to two servers (the maker's TSP over the protocol ACP, and a national
platform over GB/T 32960), to the vehicle's MCU over a UART and GPIO lines, and to
the head unit (IVI) and a factory test bench over TCP.

Contents: [the system](#the-system), [modules](#modules), [runs](#runs),
[findings](#findings), [known deviations](#known-deviations), [proofs](#proofs),
[what is only model-checked](#only-model-checked), [not modelled](#not-modelled).

## The system

The process is about a dozen threads, started by `main.cpp`, that share C++
objects and one global structure (`tboxInfo`) almost without locks.

| Component | Source | State | Operations | What makes it correct |
|---|---|---|---|---|
| ACP response list | `FAWACP.cpp` 189-418, 1342-1448 | `Headerlink`, `TimeOutType`, `mutex`, `m_bEnableSendDataFlag` | respond, acknowledge, poll for timeouts, resend at login | the list stays a list under every thread; nothing unacknowledged is forgotten; sending that was disabled is enabled again; nobody blocks for ever |
| ACP connection and login | `FAWACP.cpp` 20-133, 421-539, 1116-1300, 3688-3776 | `m_ConnectedState`, `m_loginState`, `m_Socketfd`, one receive thread per connection | connect, authenticate in eight messages, heartbeats and reports, disconnect, sleep | one receive thread works on one socket; a login ends in state 2 only after message 8 of the same connection |
| Remote control | `FAWACP.cpp` 3779-3941, `mcuUart.cpp` 3292-3643 | the command list, `McuReportTimeOut`, the 5 s alarm | command to the MCU, repetition, answer to the TSP | a result belongs to the command it is reported for; the alarm repeats no more than it has to |
| MCU serial protocol | `mcuUart.cpp` | receive buffer, sequence numbers | frame, escape, check, dispatch | a damaged frame does not cost the frames behind it |
| Power management | `GpioWake.cpp`, callers in `main.cpp`, `FAWACP.cpp` | `isGoToSleep`, `wakeupSource`, kernel wake locks GPIO74 and FC_LOCK, what is switched on | GPIO edge, 2 s wait, sleep, wake by GPIO, call, message or packet | no edge is lost; an awake T-Box holds a wake lock; a sleeping one lets go |
| GB/T 32960 session | `GBT32960.cpp` | `loginState`, `isConnected`, `socketfd`, `ReportingFlagCount`, one receive thread per connection | connect, log in, report at intervals, reissue, log out | a connection has a reader; a login comes first; reports do not stop for good |
| Report store | `SQLiteDatabase.cpp`, `mcuUart.cpp` 669-805, `GBT32960.cpp` 1990-2202 | a table of rows with `isSend`, the numbering `m_Id`, `m_Remainder`, the mutex `Goldenlock`, the live data | store every frame, number an alarm, reissue what was not sent | the newest frames are in it; a packet holds the row that was marked; a row is reissued once; the backlog is worked off |
| IVI connection | `IVI_Communication.cpp` | ring buffer, heartbeat counter, sockets | receive, unpack, answer, E-call | the ring is a queue of bytes; a bad frame does not stop it |
| Main and watchdog | `main.cpp`, `DataCall.cpp` | counters, `rebootflag` | start threads, redial, restart the radio, reboot | a connected T-Box is not rebooted; a disconnected one redials |
| Upgrade and monitor | `mcuUart.cpp` 4161-4402, `monitorTbox.c`, `monitor.sh`, `start_tbox` | three program files, the image announced, the count of starts in vain | receive an image from the MCU, check, install, start again, go back | a program that runs is always on the disk; what is installed is whole; a T-Box without a process gets one |
| AT commands | `LTEModuleAtCtrl.cpp` | one serial device | send, wait for the answer, retry | an answer goes to who asked |
| Calls and messages | `VoiceCall.cpp`, `Message.cpp` | call list, `phoneType` | dial, answer, hang up, events | an emergency call is not ended by another |
| Parameters | `TBoxDataPool.cpp`, `GBT32960.cpp` 287-576, 2563-2779 | three structures and their files | get, set, start, reset | what was set survives; a login number goes on |
| OTA | `OTAWiFi.cpp`, `OTAUpgrade.cpp` | byte counter, file | receive chunks, check, install | (nothing creates its objects) |
| Keys | `cryptoauthlib/encryption_init.c` | slots of the chip | write, decrypt | the root key changes only to the one that was acknowledged |
| Wi-Fi, FTP, factory test, self check, LEDs, ADC, time, DNS, ciphers | the files of these names | - | sequential scripts, device files, pure functions | - |

Interactions that matter for what follows:

- A **response** leaves through `RespondTspPacket`, called by the receive thread
  (requests, login), by `TimeOutThread` (resend) and by the MCU thread (answer to a
  remote-control command). It is appended to `Headerlink` under `mutex`; an
  acknowledgement removes it under `mutex`; `TimeOutThread` walks the list without
  `mutex` and takes it only to unlink; the login removes nodes, and every request
  searches, without it.
- A **root-key replacement** clears `m_bEnableSendDataFlag`: every other response
  and report is dropped until the TSP acknowledges or a new login is completed.
- **Sleep and wake-up** go through `lowPowerMode`, called by the GPIO thread, by
  the modem's callbacks (call, message) and by the ACP receive thread (packet),
  with no lock between them, while the main loops of ACP, GB/T 32960 and IVI decide
  on `isGoToSleep`.
- **Goldenlock** is the one lock between the MCU thread, which stores a frame and then
  unpacks it into the live data, and the GB/T 32960 thread, which unpacks a stored frame into
  the same live data to make a packet of it. A heartbeat of the MCU writes speed and position, and a
  receive thread that reads the parameter file back writes all of them, without it.
- The **monitor** starts the process again after it died; kernel wake locks and files
  survive, variables do not. The image of a new program comes over the UART into a file, and it
  is the monitor's script that installs it when the process has ended.
- A **remote-control command** is unpacked by the ACP receive thread into one global list, item by
  item; the same function of `mcuUart` sends it to the MCU from that thread and, as a signal handler,
  from whichever thread the alarm interrupts; the UART thread answers the TSP from the list, and
  `TimeOutThread` and the login repeat that answer from it. No lock, no comparison of the MCU's answer
  with the command; the one guard is that a command is ignored while a response waits.
- The **parameters** of GB/T 32960 are written by its main loop (login number) and its receive
  threads (set command); those of `TBoxDataPool` by every thread that calls `setPara`; the VIN by
  the MCU thread, and read back from the file by whoever asks for it. None has a lock.

## Modules

| Module | Models |
|---|---|
| `AcpLink` | the response list, its mutex, timeouts, resends and the send flag; threads: receivers, `TimeOutThread`, MCU thread, the alarm signal, the main loop |
| `MCAcpLink` | constants of `AcpLink` for TLC |
| `AcpLinkProofs` | types, mutual exclusion, `TimeOutThread`'s pointers; sending is disabled only during a root-key replacement; no application waits for two acknowledgements |
| `PowerMgr` | GPIO line and thread, `lowPowerMode` step by step, the other wakers, ACP's release of FC_LOCK, process restarts |
| `MCPowerMgr` | constants of `PowerMgr` for TLC |
| `PowerMgrProofs` | types, the GPIO's wake lock, no edge is lost |
| `AcpSession` | the connection to the TSP: main loop, login, one receive thread per connection with its leftovers, falling asleep |
| `MCAcpSession` | constants of `AcpSession` for TLC |
| `AcpSessionProofs` | types and limits of the counters; a connected T-Box has a receive thread |
| `ByteQueue` | abstract: a bounded queue of bytes, and the moment it breaks |
| `IviRing` | the ring buffer of the IVI connection and its two threads; implements `ByteQueue` |
| `MCIviRing` | constants of `IviRing` for TLC |
| `IviRingProofs` | types; fill level and offsets stay in the ring; the ring implements `ByteQueue`; frames come out in order |
| `GbStore` | the table of reports, the MCU thread that fills it, the GB/T 32960 thread that reissues from it, process restarts |
| `MCGbStore` | constants of `GbStore` for TLC |
| `GbSession` | the connection to the national platform: main loop, login, reports and their failures, one receive thread per connection |
| `MCGbSession` | constants of `GbSession` for TLC |
| `GbProofs` | the store: types; what is packed is what was marked; nothing is reissued twice; the latest frames are in the table. The session: types; a connection has a reader; a login goes first |
| `Params` | the parameters kept in files: GB/T 32960 with its login number, `TBoxPara`, the configuration with the VIN; restarts |
| `MCParams`, `ParamsProofs` | constants for TLC; types, files, login numbers |
| `Upgrade` | the transfer of a new program, `monitorTbox`, `monitor.sh`, `start_tbox`, crashes and power cuts |
| `MCUpgrade`, `UpgradeProofs` | constants for TLC; types, a program that runs is kept, only whole images are installed |
| `RemoteCtrl` | a remote-control command: receive thread, alarm handler, UART thread, MCU |
| `MCRemoteCtrl` | constants of `RemoteCtrl` for TLC |
| `McuFrame` | frames on the UART, their escapes, and the reader after a loss |
| `MCMcuFrame` | constants of `McuFrame` for TLC |
| `McuProofs` | remote control: types; an answer belongs to its command; the alarm repeats no more than it has to. Frames: types; a damaged frame costs itself and at most the next |

### AcpLink

State: the variables of the code keep their names (`m_ConnectedState`,
`m_loginState`, `m_bEnableSendDataFlag`, `Headerlink`, `TimeOutType`, `mutex`,
`pf`, `pb`); `Headerlink` is a sequence of nodes with an application and an age.
`pc` says where a thread is, `app` for which application it works; `idx` is a
receiver's position in the six checks of a login. `remoteCmd`, `alarmSet` stand for
commands at the MCU and the alarm.

A step is what a thread does between two points where another can be noticed. A
section under the mutex is two steps (lock; work and unlock), because other code
works on the list without the mutex and can meet it. What C++ leaves undefined
(a pointer to a freed node is followed; an unlocked search or removal meets a
locked one) sets `undefined`, and nothing happens after it: this is the one way a
behaviour ends, and why the runs do not check for deadlock.

| Action | Code |
|---|---|
| `Respond`, `Insert` | `RespondTspPacket`, `PackFAWACP_PayloadData`, `insertlink` |
| `RecvAuth`, `RecvAuthReadyAck`, `LoginCheck`, `LoginDelete`, `LoginClear` | `UnpackData_AcpLoginAuthen` |
| `RecvRequest`, `RecvRemoteCtrl`, `RecvUnsupportedCtrl` | the handlers of requests |
| `RecvAck`, `AckLock`, `AckDelete`, `AckClear` | the same handlers, case 0 (acknowledgement) |
| `LinkLost` | `receiveThread` when `recv` fails |
| `PollStart` ... `PollFreed` | `TimeOutThread`, `printf_link`, `CheckTimer` |
| `McuReply`, `Sig_CtrlAlarm` | `unpack_RemoteCtrl`, `Sig_CtrlAlarm` |
| `LoginTimeout`, `disconnectSocket`, `socketConnect` | the main loop of `CFAWACP` |
| `Tick` | time, in units of 10 s |

Abstractions: contents and lengths of packets (a request is its application); the
unpacking and signature checks before a handler (a packet that fails them changes
nothing); `send` never fails, for the code stores its result in a `uint16_t` before it
compares it with 0. The object lives on its thread's stack and nothing initialises
`TimeOutType`: `Init` lets it be anything.

### PowerMgr

State: the GPIO line and whether `poll` will report an edge; `waiting`
(`ch_time` = 2000); `isGoToSleep` and `wakeupSource` of `tboxInfo`; the wake lock
GPIO74; the set `up` of what is switched on (codec, UART and the wake lock FC_LOCK);
whether ACP is connected. Each thing `lowPowerMode` switches is a step. `MCU` lets the
line change at any time (the MCU's program is not in the repository). `Restart` is a
death of the process: variables start anew, `line`, `gpio74` and `up` stay. Left
out of `lowPowerMode`: LEDs, Wi-Fi, the AT command that switches on the radio, the restart
of the USB gadget.

### AcpSession

State: `m_ConnectedState`, `m_loginState`, `InLoginFailTimes` and `HeartBeatTemp` as in
the code; `main` is the place of the main loop; `socket` what the number `m_Socketfd` stands
for; `step` how many of the eight login messages went over this connection; for each
receive thread its place `pc`, the message `msg` it handles and whether its
connection was closed meanwhile (`stale`).

| Action | Code |
|---|---|
| `ConnectOk`, `ConnectFails` | `socketConnect` |
| `CreateReceiver`, `AwaitLogin`, `CountSecond`, `Report`, `Reconnect`, `FallAsleep`, `KeepOrLetGo`, `StayAsleep` | the main loop in the constructor of `CFAWACP` |
| `disconnectSocket` | `disconnectSocket`, in the steps that call it |
| `Check`, `RecvAuth`, `RecvRequest`, `RecvEnds` | `receiveThread` |
| `HandleAuth`, `Reply`, `Refuse`, `LoginDone` | `UnpackData_AcpLoginAuthen` and the functions that send the login messages |
| `HandleRequest`, `Woken`, `Serve`, `Drop` | `Unpack_FAWACP_FrameData` before the handlers `AcpLink` models |
| `Lose`, `Power` | the network; what `PowerMgr` models |

Abstractions: `disconnectSocket` is one step, and so are connecting and sending message 1;
whether a heartbeat is due is a choice; `socket()` does not fail, and `recv` is not
interrupted by a signal. A handler may outlast the reconnection: waking the T-Box sleeps
for four seconds and more, the main loop for five between two connections.

### IviRing

State: a byte is its position in the stream of all the frames the head unit sends, so that the
ring's cells say exactly which bytes they hold and mixed-up, doubled or lost bytes can be told;
`start` says where each frame begins in it. `tx_offset`, `rx_offset`, `using_size` as in
`CYCLE_BUF_ST`; the receiving thread (`wpc`, `wlen`, `wtmp`) and the unpacking thread (`rpc`,
`rlen`, `rtmp`, `frame`) update `using_size` by a load and a store, which can cross. The comparison
with the head looks behind the end of the ring and finds no head there; a length that lies there is
any length. `lost` remembers that updates crossed, `torn` that bytes were dropped or a head lay
across the end; both are only read by properties.

| Action | Code |
|---|---|
| `Receive`, `WriterLoads`, `WriterStores` | `et_process` and `cycle_write_buf` |
| `Reconnect` | the head unit connects again in the middle of a frame |
| `LookAtHead`, `LookAtByte`, `ReadBytes`, `ReaderLoads`, `ReaderStores` | the unpacking thread and `cycle_read_buf` |
| `Unpack` | the call of `unpack_Protocol_Analysis` |

Left out: data that contain the fixed bytes of a head by chance, the size of the local
buffer a frame is copied to, the second unpacking thread a failed start leaves behind.

### GbStore

State: `table` maps the id of a row (1 to `SAVE_PERIOD`) to the number of the frame in it, the
round `dev`, the alarm number `times` and `isSend`; `m_Id`, `m_Remainder`, `m_AlarmCount`,
`faultLevel`, `alarmlever`, `alarmcount`, `reissue`, `Goldenlock` as in the code; `mcu` and
`main` are the places of the two threads, `resend` and `loggedIn` the session. Of the live data
(`dataInfo`) `live` and `motion` say which frame the rest, and speed and position, are of; `packed`,
`packedMotion` the same of what is in the packet so far; `report` is the frame of its row. `reissued` and
`intact` are read only by properties: the frames reissued and not made unsent since, and that the
process did not die where frames get lost. A frame is its number; of its contents only a level-3 alarm
matters. Data that are no stored frame's are those of the parameter file (`FILE`) or of a heartbeat.

| Action | Code |
|---|---|
| `FrameStart` (`TakeFrame`, `Slot`, `Round`) | `unpackMcuUartData`, case `L32960data`: lock, numbering, `deleteData` |
| `FrameInsert` | `insertStandardProData` |
| `FrameUpdate` | `unpack_updateTimingInfo`: live data, alarm level, `updatetimes`; unlock |
| `McuHeartBeat` | case `HEART_BEAT_CMD`: `unpack_updatePositionInfo`, without the mutex |
| `Report`, `AlarmReport` | the main loop of `GBT32960`, logged in, without and with an alarm that has just begun |
| `ReissueStart`, `ReissueRead`, `PackVehicle`, `PackRest`, `ReissueClear` | `pack_GBT32960_ReissueInfoReport`; the packet takes the live data in two steps |
| `Sent`, `SendFails` | `timingReport` |
| `Session` | connecting, login and their end, by whichever thread |
| `Reread` | `readTBoxParameterInfo` in a receive thread (`Params` models when), over the live data, without the mutex |
| `Restart` | the monitor |

Abstractions: `Session` sets the two flags to anything at any time, which covers what
`GbSession` does to them, and `Reread` comes at any time; real-time reports change nothing in the store
(if one directly follows a reissue, the live
data it is made of are those of the old row, until the next frame); the intervals between
reports; the database fails only where a row with the id exists; a packet fits its buffer (where it
does not, `pack_GBT32960_ReissueInfoReport` returns with the mutex held). The MCU thread handles one
frame at a time, so a heartbeat never comes inside its own section. What the code does and
the model shows: a row whose packet `send` refused stays marked as sent; an alarm that begins
with the last row of the ring gets no number (`updatetimes` of row 0); an alarm that ends
early leaves `alarmcount` for the next one, which then starts without a reissue; a packet can hold a
heartbeat's speed or position beside a row's data (known deviation 13).

### GbSession

State: `socketfd`, `isConnected`, `loginState` and `ReportingFlagCount` as in the code; `place` the
place of the main loop; `testnet` and `testout`, which the MCU sets; for each receive thread its
place `pc` and the connection `on` it is in `recv` with; `server` what the platform knows of each
connection. `close` does not wake a thread that is in `recv`: a connection closed by the main
loop lives on until the network ends it, and the thread that was left behind then closes
whatever `socketfd` is by that time, and sets `loginState` to 0.

| Action | Code |
|---|---|
| `Connect`, `ConnectFails`, `Apply` | `socketConnect` up to and with the login at its end |
| `CreateReceiver`, `CutOff`, `Reconnect`, `AwaitLogin`, `LoginAgain` | the main loop of `GBT32960` without a session |
| `ReportRealTime`, `Reissue`, `ReportAlarm`, `ReissueAlarm`, `HeartBeat` | the same loop, logged in; `timingReport` |
| `LogOut` | `sendLogoutData`, which the packing of a report calls |
| `Check`, `Enter`, `Receive`, `End` | `receiveThread` |
| `LoggedIn`, `Ignore`, `LoggedOut`, `Respond`, `LoginNewServer` | `unpack_GBT32960FrameData` and the commands of the platform |
| `Control` | `unpackMcuUartData`, `MCU_SND_CONTROL` |
| `Lose` | the network or the platform |

Abstractions: whether an interval is over is a choice; what a report contains; `timeoutThread`,
which only chooses between the two intervals of `AwaitLogin`. `send` fails on a closed
descriptor, and may or may not fail once the other side has gone (`main.cpp` ignores SIGPIPE).

### Params

State: `handle` and `file` (parameters, day and number of the last login), `para` and `paraFile`
(one item per thread that sets one), `conf` and `confFile` (the VIN), each pair a structure in memory
and its file; the places `boot`, `dial`, `rx`, `setter`, `mcu` of who writes them. The rest are histories,
read only by properties: the login sent last and whether its number was set back since
(`lastLogin`, `setBack`), the setting the server was told is in force and whether the process died before
it was stored (`owed`, `cut`), what each thread set (`asked`), the VIN the MCU sent and whether a reader
undid it (`vin`, `replaced`), a first start cut short (`interrupted`). A write of a whole structure is one step,
the creation, truncation and writing of a file are steps of their own.

| Action | Code |
|---|---|
| `ReadHandle`, `InitHandle` | `readTBoxParameterInfo`, `initTBoxParameterInfo` |
| `Dial`, `Count`, `Save`, `LogIn` | `socketConnect`: `isConnected`, the login number in memory, the file, `sendLoginData` |
| `ChangeParams`, `AnswerSet`, `AnswerFails`, `StoreParams`, `LoginNewServer`, `KeepParams`, `TellRefused`, `RevertFails`, `ReadBack` | `unpack_SetCommand` |
| `AnotherLogin` | the acceptance of a login, in another receive thread |
| `SetItem`, `updatePara` | `setPara` |
| `SetVin`, `Truncate`, `WriteVin`, `getTboxConfigInfo` | `setTboxConfigInfo`, `updateTboxConfig`, `getTboxConfigInfo` |
| `Disconnect`, `Restart`, `FactoryReset`, `NewDay` | the network; the monitor; the control command 4; the clock |

The main loop is one thread (`dial`), and so are the set commands (`rx`): a receive thread left behind by an earlier
connection may be anywhere in one while the main loop connects, but two set commands at once
are not modelled. The clock only goes forward, by days. The limit of the number is there for completeness:
`socketConnect` sleeps 5 s, so that 65531 logins do not fit in a day.

What the code does and the model shows: a start that dies between creating the file and
writing it leaves an empty file, which every later start takes for a good one
(`interrupted`); after a new server has refused the login, the "previous" parameters are read back
from a file that holds the new ones already, with the number of the login saved last, so that a login
being counted may go out with it (known deviation 12); a setting is answered before it is stored
(10); a reader can put the old VIN back before it is overwritten (11); a crash between truncation and
write loses the VIN, until the MCU sends it again, which it does after every start.

### Upgrade

State: the three files `app`, `backup`, `new`, each an image and the pieces it holds; `proc`, the
program a starter's process runs; `script`, the next command of its `monitor.sh`; `times` of
`monitorTbox`; `crc32`, the image announced to a process; `mcu`, what the MCU sends. The scripts have two
starters, the boot and the monitor.

| Action | Code |
|---|---|
| `UpgradeInfo`, `UpgradeData`, `UpgradeComplete`, `UpgradeCheck` | `unpack_MCU_SND_Upgrade_Info`, `_Data` with `storageFile`, `_CMPL` with `calculate_files_CRC`, `unpack_MCU_Upgrade_Check` |
| `MonitorCounts`, `MonitorCollects` | the loop of `monitorTbox.c` |
| `Test`, `TestApp`, `KeepBackup`, `Install`, `Run` | `monitor.sh start 0` |
| `TestBackup`, `Remove`, `Restore`, `Run` | `monitor.sh start 1` |
| `Dies`, `PowerCut` | a crash or `pkill`; a power cut and `start_tbox` |

A write that fails half way leaves a torn piece and is repeated, like a piece whose answer is
lost: the file then has pieces too many, and the CRC does not match. The CRC is taken to find every
difference; `crc32` of a process that has had no announcement is never initialised, and
is taken to match nothing. A program either ends at once or runs until something kills it: one
that stays up for more than a second and then crashes, again and again, is a program that
runs for the monitor, which then starts it for ever (`times` goes back to 0) and never restores the
backup. A rename is atomic and durable.

### RemoteCtrl

State: the one `list` (whose items, and of which kind: the kinds are items the MCU carries
out, items the T-Box answers itself, and items with a code `cb_RemoteCtrlCmd` does not know; besides, a
list that is being cleared and filled, and the one the T-Box makes to answer itself); the two activations of
`cb_RemoteCtrlCmd` (`rx`, `frame` and `handler`, `repeat`), `timer` and `McuReportTimeOut`, the UART in
both directions, `RCtrlErrorCode`; `waiting` and `RemoteCtrlFlag` for the response on its way
to the TSP, which `AcpLink` models as a node of the list. The histories: `answers`, `reached` (commands of which a
frame was sent), `losses`, `late` (alarms and answers that came while the other was due),
`quiet` (commands that met nothing of an earlier one when the list was cleared), `impatient` (the TSP did not wait for
an answer), `repeats` and `crossed` (frames of the handler; answers during it), `settled` (the last command has been
answered).

| Action | Code |
|---|---|
| `Receive`, `Clear`, `Fill` | `UnpackData_AcpRemoteCtrl`: the search, the `memset`, the items |
| `Build` (`BuildFrame`, `NonSupport`, `NoFrame`), `Send`, `Arm` | `cb_RemoteCtrlCmd`, in the receive thread and in the handler |
| `Fire`, `HandlerEnds` | `Sig_CtrlAlarm` |
| `unpack_RemoteCtrl` (`Take`), `ReplayRemoteCtrl` | the functions of these names |
| `CheckTimer`, `LoginResend` | `CheckTimer` in `TimeOutThread`; the repetition at the end of a login |
| `TspAsks`, `TspAcks`, `McuAnswers`, `Lose` | the TSP, the MCU and the UART |

Nothing is assumed of when the MCU answers, the alarm goes off or the TSP sends. A handler that meets a list that is being
filled may find no item, so that it sends an empty frame (a *stray* one, to which the MCU may or may not answer), or
items of each kind. Abstractions: one main loop runs the handler, so two handlers never overlap; of the
response that waits there is one.

What the code does and the model shows (`AlarmLeft`): a command that gave no frame sets the alarm
all the same, and nothing cancels it before the next command; that one may then be sent twice,
or, while the handler has `McuReportTimeOut` cleared, get no alarm. An unsupported command is
answered with the `RCtrlErrorCode` of an earlier one; a command with an unknown item is not answered. The result of
one command can be told with the items of another, and a repetition can cross the answer (known deviations 7 and 9).

### McuFrame

State: the bytes of the last frame still on the `wire`; `runState`, `escapeCode`, the buffer
`pData` of `checkMcuUartData` and `pos`, how far its pointer is in it; the histories `sent`, `damaged`, `delivered`. A byte is a flag, an
escape, one of the two codes or any other. `ReadByte` is one turn of the loop (`Hunt`, `FlagInFrame`,
`Unescape`, `Store`), `Full` its end when the buffer is full; `LoseByte` and `AlterByte` are the
line. The length and the CRC are abstracted to what they find out, whether what was read is what was
sent. The check for room (`Room`) counts the bytes behind the first flag against the size of the whole buffer, so that
one more byte is written behind its end (known deviation 14): the model moves the pointer and keeps the byte
out of `pData`; what `malloc` keeps there is not modelled, the allocation being rounded up.

## Runs

| Run | Specification | Checks | Bounds |
|---|---|---|---|
| `acp_link` | `AcpLink!Spec` | `TypeOK`, `SendDisabledOnlyDuringKeyUpdate`, `AtMostOneOutstanding`, `PointersFollowList` | 2 applications, 3 nodes, 1 receive thread, 2 commands at the MCU (the alarm repeats one, both are answered) |
| `acp_live` | `AcpLink!FairSpec` | `SendingResumes` | 2 applications, no remote-control command |
| `acp_poll` | `AcpLink!FairSpec` | `PollingGoesOn` (violated) | as `acp_live` |
| `power` | `PowerMgr!FairSpec` | `TypeOK`, `GpioLockHeld`, `HighLineIsAwake`, `HighLineWakes`, `LowLineReleases` | 1 callback, the receive thread, 1 restart |
| `session` | `AcpSession!FairSpec` | `ConnectedIsHeard`, `TriesAgain`, `AsleepLetsGo` | 2 receive threads, login given up after 2 s, 2 heartbeats |
| `ivi_ring` | `IviRing!FairSpec` | `TypeOK`, `FillInRing`, `RingIsQueue`, `InOrder`, `Delivered` | ring of 5 bytes, reads of at most 3, heads of 2 bytes (1 fixed), 3 frames with 0 or 1 byte of data |
| `gb_store` | `GbStore!FairSpec` | `HoldsLatest`, `PackedIsMarked`, `ReissuedOnce`, `BacklogDrains` | ring of 2 rows, 5 frames, 1 row sent again at an alarm, alarms of 2 reports, 1 restart; heartbeats and read-backs only while a packet is made |
| `gb_session` | `GbSession!FairSessionSpec` | `SessionTypeOK`, `ConnectedIsHeard`, `LoginFirst`, `LossIsNoticed`, `ReportsResume` | 2 connections, 2 receive threads |
| `params` | `Params!Spec` | `TypeOK`, `FilesCurrent`, `SerialFresh` | 2 threads that set items, 2 VINs, 2 days, login numbers limited at 2, 3 restarts; one of the three files moves in a behaviour |
| `upgrade` | `Upgrade!FairSpec` | `WorkingCopyKept`, `InstalledWhole`, `ServiceResumes`, `ImageTakesOver` | 3 programs, one of them broken, 2 images of 2 pieces, 1 piece too many, 2 starts in vain, 3 deaths or power cuts; the boot script ends before the monitor counts |
| `remote` | `RemoteCtrl!FairSpec` | `TypeOK`, `AnswerMatches`, `RepeatsEarned`, `CommandAnswered` | 3 commands, 1 lost frame, 2 alarms or answers out of time; the third command only where TSP and MCU have been in time |
| `mcu_frame` | `McuFrame!FrameSpec` | `FrameTypeOK`, `LossIsLocal` | 5 frames of 3 contents, 3 bytes lost or altered, room for 5 bytes |

What the properties say:

- `SendDisabledOnlyDuringKeyUpdate`: while a logged-in T-Box drops responses, a
  root-key response is in the list, about to be, or just acknowledged. One handler
  clears the flag, two others set it, and `TimeOutThread` removes the response in between.
- `AtMostOneOutstanding`: an unlocked search guards every request; still no
  application waits for two acknowledgements, apart from the moment between a resend
  and the removal of the old node. Remote control is excluded: the MCU thread answers
  without a search.
- `PointersFollowList`: `pb` stays directly before `pf` though others append and remove.
- `SendingResumes`: sending that was disabled is enabled again, by the
  acknowledgement or by the login after the second timeout, unless `TimeOutThread` has
  locked itself out.
- `GpioLockHeld`: the GPIO's wake lock covers the 2 s wait (`WaitHoldsLock`) and every wake-up by
  the GPIO (`GpioWakeHoldsLock`).
- `HighLineIsAwake`: once the GPIO thread waits for the next edge, a high line has woken the T-Box,
  whatever the other wakers wrote meanwhile. `HighLineWakes`, `LowLineReleases`: the same in the
  long run, in both directions.
- `ConnectedIsHeard` (`AcpSession`, `GbSession`): the flag is shared by receive threads old and new;
  still a T-Box that believes it is connected always has a thread that will notice the end.
- `TriesAgain`: an awake T-Box never rests on a dead connection or one without login,
  though leftovers of earlier connections write `m_loginState`.
- `AsleepLetsGo`: a sleeping T-Box ends up disconnected, after its last heartbeats, and
  with that releases FC_LOCK.
- `FillInRing`: both threads may undo each other's updates of `using_size`, yet no copy
  leaves the ring. `RingIsQueue`: until that happens the ring implements the queue of bytes.
- `InOrder`, `Delivered`: frames come out in order and once; one that was not torn by
  dropped bytes or by the end of the ring comes out.
- `HoldsLatest`: the numbering, the special last row and the deletion before each insertion
  together keep exactly the newest `SAVE_PERIOD` frames, once each. Not claimed after a death in
  the second round or later (known deviation 5), nor after one between deletion and insertion.
- `PackedIsMarked`: between marking a row and packing it, no frame replaces the live data: whatever stored
  frame is in the packet is the marked one. Not more (known deviation 13): speed and position may be a heartbeat's,
  any part the parameter file's.
- `ReissuedOnce`: neither a restart nor a lost session makes the main thread send a row again
  that it has sent; only an alarm does, on purpose.
- `BacklogDrains`: although an alarm makes rows unsent with each reissue, and the count of its
  reports may start anywhere, a session that stays up empties the store once frames stop.
- `LoginFirst`: `loginState` outlives a connection, so reports go on at once on the next; still the
  first thing a connection carries is a login.
- `LossIsNoticed`: a T-Box that may connect does not rest on a connection that has ended, whichever
  receive thread is left on which connection.
- `ReportsResume`: four failed reports stop the real-time reports, and a round can step over the
  value at which the count starts again; a session that lasts gets its reports back all the same, by a
  heartbeat.
- `FilesCurrent`: five facts. A setting the server was told of and that was stored is in the file from then on, wherever
  the process dies and whatever the main loop writes (`SettingsOwed`; not if it died before the store,
  known deviation 10). Connected, logged in and with no set command under way, the parameters in
  use are those of the file, though an answer that cannot be sent leaves them unsaved
  (`SettingsSurvive`). Parameters never initialised are in use only after a start that was cut short
  (`BlankOnlyInterrupted`). Threads that set items at once do not lose each other's (`ItemsSaved`).
  The VIN the MCU sent last is in the file, and one in memory that nobody is writing is that of the file (`VinSaved`;
  not if a reader put the old one back, known deviation 11).
- `SerialFresh`: a login that is sent has a higher number than the last one or belongs to a later day, wherever the process
  died and whichever thread changed or wrote the structure between the counting, the saving and the sending. Not if
  the limit was reached or the number read back in between (known deviation 12).
- `WorkingCopyKept`: whatever is installed, removed or cut short at whichever command, a program
  that runs is in one of the three files.
- `InstalledWhole`: as long as nothing dies, only a whole image is installed, repeated and torn
  pieces notwithstanding, and what the MCU hears about it is true.
- `ServiceResumes`: a T-Box without a process has one again, after images that do not run, deaths
  and power cuts. `ImageTakesOver`: going back to the backup never comes before a good image that waits.
- `AnswerMatches`: the handler and the receive thread share the list and the result, and four threads answer from them;
  still the items of a command that met nothing of an earlier one are only told with its own result, however late
  the MCU is and whatever the TSP sends meanwhile. Of a command that did meet something it is not claimed (known
  deviation 7).
- `RepeatsEarned`: the alarm sends at most one frame for each command and one for each answer that crosses a
  repetition, and none after an answer that found no call under way. A repetition need not come of a loss (known deviation 9).
- `CommandAnswered`: a command of which a frame was lost is answered all the same, if the TSP waits for its answers and
  the MCU is in time (both are exceptions in the property, and TLC finds it violated without either).
- `LossIsLocal`: the flags that start and end a frame are one byte, and after a loss one is taken for the
  other; a frame that is intact and follows an intact one is delivered nevertheless.

Bounds. The threads of `AcpLink` treat all applications alike except remote control
(MCU thread) and the root key (send flag): the two applications are these, and the
proofs cover any number; three nodes are the smallest list with a first, a middle and a last node, and
let an application have the two nodes of a resend; nodes are interchangeable, hence
the symmetry. `FirstTimeout = SecondTimeout = 1` tells a fresh node from an old one,
which is all `CheckTimer` does once the flag says which limit counts. One receive thread at a time:
the code starts one per connection, and a second one can only be a leftover of the previous
connection, which `AcpSession` and `GbSession` model: two threads are the current one and a leftover,
two connections one that is used and one that lives on. Limits of 2 have a value that is
neither the first nor the last. In `IviRing` the ring holds
two short frames or one long one and a piece, so that frames start at every offset, wrap
round the end, fill the ring and overflow it. In `PowerMgr` the callback of a call and that of a
message run the same code, so one stands for both; one restart lets a lock survive a process, and a second
would start from the same states. In `GbStore` two rows and five frames are more than two rounds of
the ring, so that row 0's remainder, deletion and renumbering all happen before and after a
restart; alarms of two reports have a first report that is not the last. Frames are finite, and
`BacklogDrains` speaks of a store that no longer fills: rows come in as fast as they
are reissued otherwise. In `GbStore` the live data matter only while a packet is made of them, for a row is unpacked into them before
(`View`, `WhilePacked`): a heartbeat or a read-back at another time changes nothing the specification looks at. In
`Params` two days and a limit of 2 let the number start again by either
condition, three restarts let a start be interrupted, the next one find what is left and that one die too; the three
files share no variable but the death of the process, so a violation needs one of them only (`OnePart`); the proofs cover
any number and all three at once. In `Upgrade` two pieces can be repeated, torn and
in the wrong number, three programs let an image that runs replace one that does not and the
other way round, three deaths hit the transfer, the installation and the way back in one behaviour. In
`RemoteCtrl` two commands and two events out of time let answers and repetitions cross in every order; a third
follows where the two before it were in time (`ThirdInTime`), a left alarm being what reaches that far; the
proofs cover any number without that condition. In `McuFrame` three losses can take
the end flag of one frame and the start flag of the next and one byte more, and the three contents hold
flags, escapes and both codes.

Fairness. Every thread is scheduled by the kernel: weak fairness for what depends on
no one else, strong fairness where a step waits for a mutex that others take and give
again and again. `recv` on a closed socket returns in `AcpLink`. The main loop reconnects. Of
the logins started again and again one is completed (strong fairness of
`RecvAuthReadyAck`): without a reachable TSP nothing could be promised. Requests,
acknowledgements, answers of the MCU and the loss of the link are not assumed. In
`PowerMgr` only the GPIO thread is assumed to go on: an edge wakes the kernel, and from there to
the end of its reaction GPIO74 or FC_LOCK keeps it awake.

In `AcpSession` the main loop and the handlers go on and the next heartbeat becomes due;
nothing is assumed of the network or the TSP: connecting may fail for ever, login
messages may stay away. In `GbSession` likewise; of the things a session may do when their interval is
over, the real-time report and the heartbeat come again and again (strong fairness): their intervals
end whatever else is reported. In `IviRing` both threads go on; the stream is finite, so the
system stops at its end and the run does not check for deadlock.
In `GbStore` the MCU thread finishes a frame it has begun and the main thread goes on; frames, the
session and deaths are not assumed. In `Upgrade` the monitor and the commands of a script go on; the MCU and
deaths are not assumed. In `RemoteCtrl` the threads go on, the alarm goes off, and the MCU answers what
reaches it, at some time; the repetition of an answer to the TSP is not assumed. `acp_link`, `acp_poll`, `ivi_ring`, `remote` and `mcu_frame` do not check for deadlock: their
inputs are finite.

## Findings

`acp_poll` (`FAWACP.cpp:342`): after unlinking a node that is not the first,
`printf_link` locks the mutex again instead of unlocking it. `TimeOutThread` stops
for ever, and everything that responds or is acknowledged stops behind it.

## Known deviations

Properties a comment, a log or an answer of the code states and the code does not keep. Their definitions stay in the
modules, marked; no run checks them, and a configuration as described shows each in seconds to
minutes (with `CHECK_DEADLOCK FALSE`).

1. A second timeout may be forgotten (`FAWACP.cpp:3768`, comment at 960): the login clears all
   timeout flags after looking at them one by one; a second timeout recorded in between is forgotten and
   its response never sent again. `MCAcpLink`, `Spec`, constants of `MCAcpLinkLive.cfg` with
   `SecondTimeout = 2`, `ACTION_CONSTRAINT PromptLogin`, PROPERTY `SecondTimeoutRemembered`.
2. An awake T-Box may hold no wake lock (`GpioWake.cpp:253`, comments at 234 and 264): a call during the
   transition to sleep is followed by the release of the wake lock it took. `MCPowerMgr`, `Spec`,
   constants of `MCPowerMgr.cfg`, INVARIANT `AwakeIsLocked`.
3. The login may start before the wake-up has ended (`main.cpp:270`; the comment at `GpioWake.cpp:321`
   wants the flag set last): the call, message and packet paths set it first. As 2, PROPERTY
   `LoginAfterWake`.
4. A silent TSP may never be given up (`FAWACP.cpp:3726`, comment at 54): a receive thread that handles
   message 8 while the main loop closes its connection sets `m_loginState` to 2 afterwards, connecting
   does not set it back, and the next connection counts as logged in. `MCAcpSession`, `FairSpec`,
   constants of `MCAcpSession.cfg`, `ACTION_CONSTRAINT PromptReconnect`, PROPERTY `SilenceTimesOut`.
5. A frame may be reported as stored and lost (`SQLiteDatabase.cpp:205`, comment at 185):
   `insertStandardProData` returns 0 when the insertion failed. It fails after a restart:
   `queryStandardProMaxID` reads the round from a column its query does not have (353), so the numbering
   starts again inside the first round, whose rows are not deleted before they are written.
   `MCGbStore`, `Spec`, constants of `MCGbStore.cfg` with `Frames = 4`, PROPERTY `InsertedIfSuccess`.
6. A refused login is not repeated (`GBT32960.cpp:2457`, whose log says "fail,re-login after 1 minute")
   if a leftover thread has set `loginState` to 1, or before it was refused: the main loop then
   reports on a connection the platform has refused. `MCGbSession`, `FairSessionSpec`, constants of
   `MCGbSession.cfg`, PROPERTY `RefusedTriesAgain`.
7. The result of one command may be reported as that of another (`mcuUart.cpp:3454`; the comment at 211 has a
   command locked until the MCU has answered it). Nothing locks it: a command is ignored only while a response waits
   (`FAWACP.cpp:3800`), so a second one overwrites the list the first is to be answered from; if the MCU answers after
   the 5 s, the repetition is answered too, and the second answer is taken for that of the next command, for serial
   numbers are not compared; and the login repeats an unacknowledged answer with the items the list holds by then.
   `MCRemoteCtrl`, `Spec`, `MaxReq = 2`, `MaxLoss = 1`, `MaxLate = 1`, no constraint, INVARIANT `LockedUntilAnswered`.
8. The last program that runs may be overwritten (`start_tbox:8-10`): the monitor starts 0.1 s
   after the boot script without waiting for it. If the script has not started the program by then, the
   monitor counts no process and runs the script too; after a power cut in a transfer, one installs the
   partial image and the other moves it over the good backup. `MCUpgrade`, `Versions = {v1, v3}`,
   `Broken = {v3}`, `Tries = 5`, `MaxImages = 1`, `MaxDeaths = 1`, `MaxTorn = 0`,
   `BootOverlap = TRUE`, INVARIANT `WorkingCopyKept`. The passing run and the proofs assume that the
   boot script ends before the monitor counts.

9. A command may be carried out twice although nothing was lost (`mcuUart.cpp:3638-3643`; the same comment): if the MCU
   answers after the 5 s, or a command overwrites the list while the alarm is set, the handler sends again what the MCU has
   already got. As 7, INVARIANT `OnceUnlessLost`.
10. A setting that was answered with success may be lost (`GBT32960.cpp:2730-2744`): the answer goes out before the
    file is written, and the process may die in between. `MCParams`, constants of `MCParams.cfg`, INVARIANT
    `AnsweredIsStored`.
11. A new VIN may be lost for good (`TBoxDataPool.cpp:469-552`; the log says it was set): a thread that asks for the
    VIN after it was set in memory and before the file is truncated reads the old one over it, and that is then written.
    As 10, INVARIANT `VinStored`.
12. Two logins may carry the same number (`GBT32960.cpp:2773`; the comment at 351 and the counting behind it want the
    next one): a receive thread that reads the file back between the counting (351-377) and the saving (379) puts the
    number of the last login back, which is then saved and sent. As 10, PROPERTY `SerialAlwaysFresh`.
13. A reissued packet may be of more than its row (`GBT32960.cpp:2000-2189`, which locks against that): a heartbeat
    writes speed and position (`mcuUart.cpp:1385`, 1389), a read-back all of the live data (`GBT32960.cpp:535`), without the
    lock. `MCGbStore`, `Spec`, `SAVE_PERIOD = 2`, `AlarmRows = 1`, `AlarmReports = 2`, `Frames = 2`, `Restarts = 0`,
    without view and constraint, INVARIANT `PacketOfOneFrame`.
14. The reader of the MCU's frames writes one byte behind its buffer (`mcuUart.cpp:447`, 531, 552; the check at 505 is there to
    prevent it): the room is compared with the bytes behind the first flag. `MCMcuFrame`, constants of
    `MCMcuFrame.cfg`, INVARIANT `NoOverrun`.

## Proofs

TLAPS proves, for every value of the constants that satisfies the named assumptions
`LinkAssumption`, `PowerAssumption`, `SessionAssumption`, `RingAssumption`, `StoreAssumption`,
`ParamsAssumption`, `UpgradeAssumption`, `RemoteCtrlAssumption`, `McuFrameAssumption` (any number of
applications, nodes, receive threads, callbacks, connections, commands, restarts, images and pieces,
any limits, rings, tables, buffers, frames and reads of any length):

| Theorem | Statement | Argument |
|---|---|---|
| `AcpLinkProofs!TypeCorrect` | `Spec => []TypeOK` | inductive with `LoginPosition`: a receiver inside a login has a position in the list of checks, so that `AppOrder[idx[r]]` is defined |
| `AcpLinkProofs!MutexCorrect` | `Spec => []MutexHeldInSection` | the mutex is held exactly by the thread inside a locked section; inductive by itself: it is an equivalence, so the step of one thread says nothing of the others |
| `AcpLinkProofs!PointersCorrect` | `Spec => []PointersFollowList` | inductive with `UniqueNodes` and `PointersLive`: a pointer that points to a node points into the list, hence a new node, which is not in the list, is never what a pointer points to |
| `AcpLinkProofs!SendingCorrect` | `Receivers = {r0}` implies `Spec => []SendDisabledOnlyDuringKeyUpdate` | inductive with `RemovesWhatTimedOut` (the node `TimeOutThread` unlinks is of the application whose timeout it found), `LoginMaySend` (nothing disables sending during a login, there being one receiver) and `ReplacedFirst` (a root-key response that is about to be unlinked after a resend is not the only one). `Entry` looks at the list as a set of pairs, in which `pf` is the only pointer that matters |
| `AcpLinkProofs!OutstandingCorrect` | `Receivers = {r0}` implies `Spec => []AtMostOneOutstanding` | the nodes that wait for an application are a set, whose size each step changes by at most one. `AtMostOne` adds to the property what a thread that replaces a node has yet to remove: `TimeOutThread`, and the receiver in a login. `RequestIsNew` says for a receiver that has searched and not yet inserted that what it found is still true: others only insert while they replace. `McuAnswers`: the MCU thread, which does not search, answers nothing but remote control |
| `PowerMgrProofs!TypeCorrect` | `Spec => []TypeOK` | inductive |
| `PowerMgrProofs!GpioLockCorrect`, `NoEdgeLost` | `Spec => []GpioLockHeld`, `[]HighLineIsAwake` | one invariant that says for each location of the GPIO thread what it has taken and seen; the other threads never write what it relies on, except `isGoToSleep`, which they only set |
| `AcpSessionProofs!TypeCorrect` | `Spec => []TypeOK` | inductive with `HeartBeatsLeft`: on a connection, and before connecting, the heartbeat that comes next is within the limit |
| `AcpSessionProofs!HeardCorrect` | `Spec => []ConnectedIsHeard` | inductive by itself: a thread that ends has found the flag cleared or clears it, and only the step before a thread is started sets it |
| `IviRingProofs!FillCorrect` | `Spec => []FillInRing` | inductive with `WriterFits`, `ReaderHas`, `BothPending`: the value a thread is about to store is bounded like `using_size` itself, since the level can only have fallen since the writer loaded it, and only have risen since the reader did |
| `IviRingProofs!RingTypeCorrect` | `Spec => []TypeOK` | inductive with `Places` (what a thread's place says of its data) and the invariant of `FillCorrect`. The stream is the function `start`, so that no recursion is reasoned about |
| `IviRingProofs!RingRefines` | `Spec => RingIsQueue` | `Aligned`: as long as no update is lost, the write offset is the read offset advanced by the bytes stored, and the reader's copy of the level is at most the level. From it a write is an append of `ByteQueue`, a read a removal, a lost update its `broken`, and every other step a stutter. `Held(i)` is the i-th byte stored, counted from the read offset; `StaysHeld`, `ShrinksHeld` and `GrowsHeld` say what each step does to it |
| `IviRingProofs!OrderCorrect` | `Spec => InOrder` | `Ascending` (the unread bytes are ascending positions of the stream, none behind what was sent) and `TakenInOrder` (what was handed on lies before every unread byte): a frame that is checked begins at an unread byte, so it comes after all handed on before |
| `GbProofs!TypeCorrect`, `PackedCorrect`, `ReissuedCorrect` | `Spec => []TypeOK`, `[]PackedIsMarked`, `[]ReissuedOnce` | one invariant: `Mutex` (a thread in its section holds the mutex, so the sections exclude each other; heartbeats and read-backs, which do not ask for it, bring in no frame), `Chosen` (the chosen row is there and unsent until it is marked, and the packet empty), `Seen` and `Unique` (a frame about to be stored is in no row, not live, not reissued; no frame has two rows), `Fresh` (a reissued frame, or one about to be, has no unsent row): without `Unique` a second row of the frame could still be unsent |
| `GbProofs!LatestCorrect` | `Spec => []HoldsLatest` | with the invariant above, `Ring`, while nothing has cost frames: `InPlace` (each of the last frames is in the row `RowOf` gives it, and nothing else is in the table), `InStep` (the numbering knows the newest frame or will find it, and the remainder is that of its number), `FirstRound` (in the first round every row says round 0, so that the query finds the last row though it reads the wrong column). The lemmas about division (`ModIs`, `ModNext`, `ModDiffers`) make the row of a new frame that of the oldest one, and different from all others |
| `GbProofs!SessionTypeCorrect`, `SessionHeardCorrect`, `LoginFirstCorrect` | `SessionSpec => []SessionTypeOK`, `[]ConnectedIsHeard`, `[]LoginFirst` | one invariant: a thread is on a connection exactly when it is in `recv`; the flag and the descriptor agree; a connected T-Box has a thread that is not left in `recv` on an earlier connection. A message that is sent changes what the platform knows of one connection only, and closing clears flag and descriptor together |
| `ParamsProofs!TypeCorrect`, `FilesCorrect`, `SerialCorrect` | `Spec => []TypeOK`, `[]FilesCurrent`, `SerialFresh` | one invariant: `Started` (what a start has reached and which file is there), `Numbered` (memory and file are never behind the last login, a number that was counted is above it, and one about to be sent is in the file; all unless it was set back), `Told` (what the server was told is in force is what is in memory, so that whoever writes the file writes it), `BlankFile` (where blank parameters can come from), `PoolInv` (memory is what the threads have asked for), `VinInv` (until a reader has replaced it, the VIN in memory is the one sent, and it cannot be replaced any more once the file is empty) |
| `UpgradeProofs!TypeCorrect` | `Spec => []TypeOK` | inductive |
| `UpgradeProofs!WorkingCopySafe`, `OnlyWholeInstalled` | `~BootOverlap` implies `Spec => []WorkingCopyKept`, `[]InstalledWhole` | `OneScript` (one script at a time, and only while no process runs, so that nothing is received while it works), `FilesGood` (a backup runs; an image waits only beside a program that runs; a process runs only from a program that runs), `Tested` (what a script has tested still holds when it acts on it); for the second `OneImage` and `Orderly`, which tie the file to what the MCU has sent, repeated and torn pieces included, as long as nothing has died |
| `McuProofs!CtrlTypeCorrect` | `Spec => []TypeOK` | inductive with `Needs`: who fills a list or sends a frame has a command to do it for |
| `McuProofs!AnswerCorrect` | `Spec => []AnswerMatches` | no assumption about the MCU, the TSP or the alarm. `Ordered` (the list's command is the newest that has begun: no answer is of a later one); `Own`, as long as the list is of a quiet command: every frame and answer on the UART is its own (`Frames`), and so is the result as soon as an answer can be sent or repeated (`Told`); nothing is under way while the list is filled. `SameCommand` proves once that a step which leaves the list alone needs only its part of this |
| `McuProofs!RepeatsCorrect` | `Spec => []RepeatsEarned` | `Earned` counts: frames repeated and those the handler or a set alarm still owe (`Spent`), with the commands that have yet to set an alarm (`Unarmed`), are no more than commands and crossing answers. `Settled`: after an answer that found nobody in a call only the next command, which begins with `Clear`, sets an alarm |
| `McuProofs!FrameTypeCorrect`, `LossCorrect` | `FrameSpec => []FrameTypeOK`, `[]LossIsLocal` | `ReaderOK` and `LineOK` (reader and line by themselves) and `InStep`: an intact frame is skipped or read from its first byte, and one that follows an intact one is read; `HasRead` and `HasEscape` say what of it is in the buffer, which it fits. Only the end of a damaged frame can leave the reader out of step, and only for the next one |

`AcpLinkProofs!RemoveAtProperties` is the lemma about sequences the list proofs rest on;
`GbProofs!Queries`, with `MinBelow` and `MaxIn`, says what the queries return.

## Only model-checked

The liveness properties (`SendingResumes`, `HighLineWakes`, `LowLineReleases`, `TriesAgain`,
`AsleepLetsGo`, `Delivered`, `BacklogDrains`, `LossIsNoticed`, `ReportsResume`, `ServiceResumes`,
`ImageTakesOver`, `CommandAnswered`), which rest on fairness and are beyond this prover. Every invariant
and action property the passing runs check is also proved. Some proofs cover less than their
definition: `SendingCorrect` and `OutstandingCorrect` are for one receive thread, for a second one works on
the list beside the first without a lock; `WorkingCopySafe` and `OnlyWholeInstalled` assume what the run assumes.
Before each proof TLC checked the strengthened invariant on the constants of the run.

## Not modelled

In the modelled parts: the contents of packets; two receive threads at once on the response list
in the checked instances (the proofs of `AcpLinkProofs` cover any number); the effect of a suspended
kernel on time; Wi-Fi and LEDs; the very first start of `TBoxPara`; a
failing `malloc`, `open` or, except in `Upgrade`, `write`.

Not modelled at all, with what reading the code has shown where it matters:

- **Network watchdog** (`main.cpp` 676-739, `DataCall.cpp`): its counters depend on what the
  modem's library reports, which the repository does not contain. A T-Box that is not registered in a
  network is rebooted about every 20 s; the handles of earlier calls are not released.
- **SRS detector** (`mcuUart.cpp` 116-208): decides on measured pulse widths, that is on time and
  data only. Other **MCU commands** read or write one value; the result of the key command compares a
  `uint16_t` with -1.
- **IVI server** (`IVI_Communication.cpp` 272-600): the epoll loop around what `IviRing` models; heartbeat and
  requests.
- **OTA over Wi-Fi, FTP, FTPS** (`OTAWiFi.cpp`, `OTAUpgrade.cpp`, `FTPClient.cpp`, `FTPSClient.cpp`):
  nothing creates the objects of the first two; the others are sequential scripts around sockets.
- **AT commands** (`LTEModuleAtCtrl.cpp`): several threads share one device without a lock, and answers
  are told apart by text; what happens depends on the modem.
- **Voice calls, messages, data call, Wi-Fi control, factory test, self check, peripherals, name
  resolution**: one call of a library, a device file or a shell command each.
- **Ciphers, digests, cryptoauthlib**: published algorithms and a vendored library, the larger part of
  the source lines of the repository together with the drivers above.

What is modelled is where several threads, processes or machines work on one state; the rest of the
repository has no protocol of its own that a model could get wrong.

---------------------------- MODULE RemoteCtrl ----------------------------
(***************************************************************************)
(* A remote-control command on its way from the TSP to the MCU and back:   *)
(*   - the receive thread of FAWACP.cpp unpacks it into the one list       *)
(*     m_AcpRemoteCtrlList and calls cb_RemoteCtrlCmd (mcuUart.cpp), which *)
(*     builds a frame from the list, writes it to the UART and sets a 5 s  *)
(*     alarm;                                                              *)
(*   - the handler of the alarm, which runs in the main thread, calls the  *)
(*     same function with McuReportTimeOut cleared, which sends what the   *)
(*     list holds by then once more and sets no alarm;                     *)
(*   - the UART thread takes the answer of the MCU, cancels the alarm and  *)
(*     answers the TSP with the items of the list;                         *)
(*   - TimeOutThread and the login repeat an answer that is not            *)
(*     acknowledged, with what the list holds by then.                     *)
(* Neither the list nor the flag has a lock, and the answer of the MCU is  *)
(* not compared with the command. The MCU may answer at any time or never, *)
(* the TSP may send the next command at any time. That an answer waits for *)
(* its acknowledgement is one Boolean here: AcpLink models the list it is  *)
(* in and the connection it goes over.                                     *)
(***************************************************************************)
EXTENDS Integers, Sequences

CONSTANTS
    MaxReq,  \* bound: commands of the TSP
    MaxLoss, \* bound: frames lost on the UART
    MaxLate  \* bound: alarms and answers that come while the other is due

ASSUME RemoteCtrlAssumption ==
    MaxReq \in Nat \ {0} /\ MaxLoss \in Nat /\ MaxLate \in Nat

VARIABLES
    asked,            \* commands the TSP has sent, the last one
    inbox,            \* the one that waits for the receive thread, or 0
    list,             \* m_AcpRemoteCtrlList: whose items, and of which kind
    rx, frame,        \* the receive thread in cb_RemoteCtrlCmd
    handler, repeat,  \* the alarm handler in cb_RemoteCtrlCmd
    timer, McuReportTimeOut,
    toMcu, fromMcu,   \* commands and answers on the UART
    uart,             \* the UART thread
    RCtrlErrorCode,   \* the command whose result it is
    waiting,          \* a response waits for its acknowledgement
    RemoteCtrlFlag,   \* the timeouts it has had
    answers,          \* history: answers to the TSP, items and result
    reached,          \* history: commands of which a frame was sent
    losses, late,     \* history: frames lost; alarms and answers that crossed
    quiet,            \* history: commands that met nothing of an earlier one
    impatient,        \* history: the TSP did not wait for an answer
    repeats, crossed, \* history: frames of the handler; answers during it
    settled           \* history: the last command has been answered

threads == <<rx, frame, handler, repeat, uart>>
wire == <<toMcu, fromMcu, losses>>
tsp == <<asked, inbox, impatient>>
response == <<waiting, RemoteCtrlFlag, answers>>
alarm == <<timer, McuReportTimeOut>>
count == <<reached, late, quiet, repeats, crossed, settled>>
vars == <<tsp, list, threads, alarm, wire, RCtrlErrorCode, response, count>>

Requests == 1..MaxReq
Ids == 0..MaxReq
\* A frame without an item, or with items of a list that is being filled.
STRAY == 0
\* Items the MCU carries out, items the T-Box answers itself, and items with
\* a code it does not know. "half" is a list that is being cleared and filled,
\* "feature" the list after the T-Box has answered itself.
Kinds == {"plain", "unsupported", "unknown"}
Lists == Kinds \cup {"empty", "half", "feature"}
Calls == {"idle", "build", "send", "arm"}

TypeOK ==
    /\ asked \in Ids /\ inbox \in Ids /\ impatient \in BOOLEAN
    /\ list \in [req : Ids, kind : Lists]
    /\ rx \in Calls \cup {"clear", "fill"} /\ frame \in Ids
    /\ handler \in Calls \cup {"end"} /\ repeat \in Ids
    /\ timer \in BOOLEAN /\ McuReportTimeOut \in 0..1
    /\ toMcu \in Seq(Ids) /\ fromMcu \in Seq(Ids)
    /\ uart \in {"idle", "reply"} /\ RCtrlErrorCode \in Ids
    /\ waiting \in BOOLEAN /\ RemoteCtrlFlag \in 0..2
    /\ answers \subseteq [items : Ids, kind : Lists, result : Ids]
    /\ reached \subseteq Ids /\ losses \in 0..MaxLoss /\ late \in 0..MaxLate
    /\ quiet \subseteq Requests /\ repeats \in Nat /\ crossed \in Nat
    /\ settled \in BOOLEAN

Init ==
    /\ asked = 0 /\ inbox = 0 /\ impatient = FALSE
    /\ list = [req |-> 0, kind |-> "empty"]
    /\ rx = "idle" /\ frame = 0 /\ handler = "idle" /\ repeat = 0
    /\ timer = FALSE /\ McuReportTimeOut = 1
    /\ toMcu = <<>> /\ fromMcu = <<>> /\ uart = "idle"
    /\ RCtrlErrorCode = 0 /\ waiting = FALSE /\ RemoteCtrlFlag = 0
    /\ answers = {} /\ reached = {} /\ losses = 0 /\ late = 0
    /\ quiet = {} /\ repeats = 0 /\ crossed = 0 /\ settled = FALSE

-----------------------------------------------------------------------------
(* The TSP (outside the repository)                                        *)

Answered(r) == \E a \in answers : a.items = r

TspAsks ==
    /\ asked < MaxReq /\ inbox = 0
    /\ asked' = asked + 1 /\ inbox' = asked'
    /\ impatient' = (impatient \/ waiting \/ (asked # 0 /\ ~Answered(asked)))
    /\ UNCHANGED <<list, threads, alarm, wire, RCtrlErrorCode, response, count>>

\* The acknowledgement of a response takes it off the list.
TspAcks ==
    /\ waiting /\ waiting' = FALSE /\ RemoteCtrlFlag' = 0
    /\ UNCHANGED <<tsp, list, threads, alarm, wire, RCtrlErrorCode, answers,
                   count>>

-----------------------------------------------------------------------------
(* RespondTspPacket(): what it says is in the list and in RCtrlErrorCode.  *)

Reply(l) ==
    answers' = answers \cup
        {[items |-> l.req, kind |-> l.kind, result |-> RCtrlErrorCode]}

Respond(l) == Reply(l) /\ waiting' = TRUE /\ UNCHANGED RemoteCtrlFlag

\* CheckTimer() in TimeOutThread: the response is repeated after 10 s and
\* dropped 20 s later.
CheckTimer ==
    /\ waiting /\ RemoteCtrlFlag < 2
    /\ RemoteCtrlFlag' = RemoteCtrlFlag + 1
    /\ IF RemoteCtrlFlag = 0 THEN Reply(list) /\ UNCHANGED waiting
                             ELSE waiting' = FALSE /\ UNCHANGED answers
    /\ UNCHANGED <<tsp, list, threads, alarm, wire, RCtrlErrorCode, count>>

\* The next login repeats it once more and takes that one off the list.
LoginResend ==
    /\ rx = "idle" /\ RemoteCtrlFlag = 2
    /\ Reply(list)
    /\ UNCHANGED <<tsp, list, threads, alarm, wire, RCtrlErrorCode, waiting,
                   RemoteCtrlFlag, count>>

-----------------------------------------------------------------------------
(* The receive thread: UnpackData_AcpRemoteCtrl()                          *)

\* A command is ignored while a response waits.
Receive ==
    /\ rx = "idle" /\ inbox # 0
    /\ IF waiting THEN inbox' = 0 /\ UNCHANGED rx
                  ELSE rx' = "clear" /\ UNCHANGED inbox
    /\ UNCHANGED <<asked, impatient, list, frame, handler, repeat, uart, alarm,
                   wire, RCtrlErrorCode, response, count>>

\* Nothing of an earlier command is under way, at the MCU or at the TSP.
Calm ==
    /\ toMcu = <<>> /\ fromMcu = <<>> /\ uart = "idle"
    /\ handler = "idle" /\ ~timer
    /\ ~waiting /\ RemoteCtrlFlag < 2

\* memset(): from here on the list is the new command's, and not whole.
Clear ==
    /\ rx = "clear" /\ rx' = "fill"
    /\ list' = [req |-> inbox, kind |-> "half"]
    /\ quiet' = IF Calm THEN quiet \cup {inbox} ELSE quiet
    /\ settled' = FALSE
    /\ UNCHANGED <<tsp, frame, handler, repeat, uart, alarm, wire,
                   RCtrlErrorCode, response, reached, late, repeats, crossed>>

\* The items are in the list; a handler that has answered them meanwhile has
\* cut it short.
Fill ==
    /\ rx = "fill" /\ rx' = "build"
    /\ \E kind \in Kinds :
           list' = IF list.kind = "half" THEN [list EXCEPT !.kind = kind]
                                         ELSE list
    /\ inbox' = 0
    /\ UNCHANGED <<asked, impatient, frame, handler, repeat, uart, alarm, wire,
                   RCtrlErrorCode, response, count>>

-----------------------------------------------------------------------------
(* cb_RemoteCtrlCmd(), run by the receive thread and by the handler.       *)

\* A frame of the items; of a list that is being filled, what is in it: a
\* frame without an item is sent as well (mcuUart.cpp:3496, 3602-3619).
BuildFrame(pc, buff) ==
    /\ list.kind \in {"plain", "half"}
    /\ buff' = IF list.kind = "plain" THEN list.req ELSE STRAY
    /\ pc' = "send"
    /\ UNCHANGED <<list, response>>

\* Unsupported items are answered at once, in a list of their own.
NonSupport(pc, buff) ==
    /\ list.kind \in {"unsupported", "half"}
    /\ list' = [list EXCEPT !.kind = "feature"]
    /\ Respond(list')
    /\ pc' = "arm"
    /\ UNCHANGED buff

\* An unknown code gives no frame and no answer.
NoFrame(pc, buff) ==
    /\ list.kind \in {"unknown", "half", "feature"}
    /\ pc' = "arm"
    /\ UNCHANGED <<list, response, buff>>

Build(pc, buff) ==
    /\ pc = "build"
    /\ BuildFrame(pc, buff) \/ NonSupport(pc, buff) \/ NoFrame(pc, buff)
    /\ UNCHANGED <<tsp, alarm, wire, uart, RCtrlErrorCode, count>>

\* escape_mcuUart_data() writes the frame.
Send(pc, buff) ==
    /\ pc = "send" /\ pc' = "arm"
    /\ toMcu' = Append(toMcu, buff)
    /\ reached' = reached \cup {buff}
    /\ buff' = 0
    /\ UNCHANGED <<tsp, list, alarm, fromMcu, losses, uart, RCtrlErrorCode,
                   response, late, quiet, crossed, settled>>

\* Mutant of Arm: no alarm is set.
ArmNever(pc, next) ==
    /\ pc = "arm" /\ pc' = next
    /\ UNCHANGED <<tsp, list, frame, repeat, alarm, wire, uart, RCtrlErrorCode,
                   response, count>>

Arm(pc, next) ==
    /\ pc = "arm" /\ pc' = next
    /\ timer' = (timer \/ McuReportTimeOut = 1)
    /\ UNCHANGED <<tsp, list, frame, repeat, McuReportTimeOut, wire, uart,
                   RCtrlErrorCode, response, count>>

RxCommand ==
    \/ Build(rx, frame) /\ UNCHANGED <<handler, repeat>>
    \/ Send(rx, frame) /\ UNCHANGED <<handler, repeat, repeats>>
    \/ Arm(rx, "idle") /\ UNCHANGED handler

-----------------------------------------------------------------------------
(* Sig_CtrlAlarm()                                                         *)

InCommand == rx \in {"send", "arm"} \/ handler # "idle"

\* Nothing of the command is on its way any more.
Overdue == toMcu = <<>> /\ fromMcu = <<>> /\ uart = "idle" /\ ~InCommand

\* How often the alarm goes off or the MCU answers out of time is bounded.
Timing(expected) ==
    /\ expected \/ late < MaxLate
    /\ late' = IF expected THEN late ELSE late + 1

\* Mutant of Fire: the flag stays set, so the handler sets the next alarm.
FireKeepsFlag ==
    /\ timer /\ handler = "idle"
    /\ Timing(Overdue)
    /\ timer' = FALSE
    /\ handler' = "build"
    /\ UNCHANGED <<tsp, list, rx, frame, repeat, McuReportTimeOut, wire, uart,
                   RCtrlErrorCode, response, reached, quiet, repeats, crossed,
                   settled>>

Fire ==
    /\ timer /\ handler = "idle"
    /\ Timing(Overdue)
    /\ timer' = FALSE
    /\ McuReportTimeOut' = 0
    /\ handler' = "build"
    /\ UNCHANGED <<tsp, list, rx, frame, repeat, wire, uart, RCtrlErrorCode,
                   response, reached, quiet, repeats, crossed, settled>>

\* Mutant of HandlerEnds: the flag counts the handlers that have ended.
HandlerCounts ==
    /\ handler = "end" /\ handler' = "idle"
    /\ McuReportTimeOut' = McuReportTimeOut + 1
    /\ UNCHANGED <<tsp, list, rx, frame, repeat, timer, wire, uart,
                   RCtrlErrorCode, response, count>>

HandlerEnds ==
    /\ handler = "end" /\ handler' = "idle"
    /\ McuReportTimeOut' = 1
    /\ UNCHANGED <<tsp, list, rx, frame, repeat, timer, wire, uart,
                   RCtrlErrorCode, response, count>>

Handler ==
    \/ Fire \/ HandlerEnds
    \/ Build(handler, repeat) /\ UNCHANGED <<rx, frame>>
    \/ /\ Send(handler, repeat) /\ repeats' = repeats + 1
       /\ UNCHANGED <<rx, frame>>
    \/ Arm(handler, "end") /\ UNCHANGED rx

-----------------------------------------------------------------------------
(* The MCU (outside the repository) and the UART thread                    *)

\* The MCU answers what it has received; a stray frame it may ignore.
McuAnswers ==
    /\ toMcu # <<>> /\ Timing(~InCommand)
    /\ toMcu' = Tail(toMcu)
    /\ \/ fromMcu' = Append(fromMcu, Head(toMcu))
       \/ Head(toMcu) = STRAY /\ fromMcu' = fromMcu
    /\ UNCHANGED <<tsp, list, threads, alarm, losses, RCtrlErrorCode, response,
                   reached, quiet, repeats, crossed, settled>>

Lose ==
    /\ losses < MaxLoss /\ losses' = losses + 1
    /\ \/ toMcu # <<>> /\ toMcu' = Tail(toMcu) /\ fromMcu' = fromMcu
       \/ fromMcu # <<>> /\ fromMcu' = Tail(fromMcu) /\ toMcu' = toMcu
    /\ UNCHANGED <<tsp, list, threads, alarm, RCtrlErrorCode, response, count>>

\* An answer of the MCU is taken: what it means for the alarm is counted.
Take ==
    /\ uart = "idle" /\ uart' = "reply"
    /\ fromMcu # <<>> /\ fromMcu' = Tail(fromMcu)
    /\ crossed' = crossed + (IF handler = "idle" THEN 0 ELSE 1)
    /\ settled' = (settled \/ (handler = "idle" /\ rx = "idle"))
    /\ UNCHANGED <<tsp, list, rx, frame, handler, repeat, toMcu, losses,
                   response, reached, late, quiet, repeats>>

\* Mutant of unpack_RemoteCtrl: the result is not stored.
unpackForgets ==
    /\ Take
    /\ timer' = FALSE /\ McuReportTimeOut' = 1
    /\ UNCHANGED RCtrlErrorCode

\* unpack_RemoteCtrl(): the alarm is cancelled, the result stored.
unpack_RemoteCtrl ==
    /\ Take
    /\ timer' = FALSE /\ McuReportTimeOut' = 1
    /\ RCtrlErrorCode' = Head(fromMcu)

\* ReplayRemoteCtrl(): the TSP is answered with the items of the list.
ReplayRemoteCtrl ==
    /\ uart = "reply" /\ uart' = "idle"
    /\ Respond(list)
    /\ UNCHANGED <<tsp, list, rx, frame, handler, repeat, alarm, wire,
                   RCtrlErrorCode, count>>

-----------------------------------------------------------------------------
Next ==
    \/ TspAsks \/ TspAcks
    \/ CheckTimer \/ LoginResend
    \/ Receive \/ Clear \/ Fill \/ RxCommand
    \/ Handler
    \/ McuAnswers \/ Lose
    \/ unpack_RemoteCtrl \/ ReplayRemoteCtrl

Spec == Init /\ [][Next]_vars

\* Threads run, the alarm goes off, the MCU answers what reaches it.
FairSpec ==
    /\ Spec
    /\ WF_vars(Receive) /\ WF_vars(Clear) /\ WF_vars(Fill) /\ WF_vars(RxCommand)
    /\ WF_vars(Handler) /\ WF_vars(McuAnswers)
    /\ WF_vars(unpack_RemoteCtrl) /\ WF_vars(ReplayRemoteCtrl)

-----------------------------------------------------------------------------
\* The items of a command that found nothing of an earlier one under way when
\* the list was cleared are never told with another result than its own:
\* however late the MCU is, however often the alarm, TimeOutThread and the
\* login repeat it, and whatever the TSP sends meanwhile
\* (FAWACP.cpp:3800-3917, mcuUart.cpp:3430-3456).
AnswerMatches ==
    \A a \in answers :
        a.kind = "plain" /\ a.items \in quiet => a.result = a.items

\* The alarm sends at most one frame for each command of the TSP and one for
\* each answer that crosses a repetition; and after an answer that found no
\* call under way it sends nothing until the next command
\* (mcuUart.cpp:3630-3643, 3298-3299).
RepeatsEarned ==
    /\ repeats <= asked + crossed
    /\ settled => ~timer /\ handler = "idle"

\* An earlier command never reached the MCU: cb_RemoteCtrlCmd() set an alarm
\* all the same (mcuUart.cpp:3621-3633), and nothing cancels that one before
\* the next command.
AlarmLeft(r) == \E q \in 1..r-1 : q \notin reached

\* A command the T-Box knows is answered though a frame is lost, if the TSP
\* waits for its answers and the MCU answers in time, unless an alarm was
\* left: its handler has McuReportTimeOut cleared while the next command
\* would set its own (mcuUart.cpp:3638-3643).
CommandAnswered ==
    \A r \in Requests :
        (list.req = r /\ list.kind \in {"plain", "unsupported"} /\ ~AlarmLeft(r))
            ~> (Answered(r) \/ impatient \/ late > 0)

-----------------------------------------------------------------------------
(* What a comment says and the program does not do: known deviations.      *)

\* "The command is locked until the MCU has answered" (mcuUart.cpp:211).
LockedUntilAnswered ==
    \A a \in answers : a.kind = "plain" => a.result = a.items

\* A command goes to the MCU a second time only if a frame was lost: a car
\* does not start twice.
OnceUnlessLost == repeats <= losses
=============================================================================

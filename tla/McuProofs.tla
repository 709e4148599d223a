----------------------------- MODULE McuProofs -----------------------------
(***************************************************************************)
(* Proofs about the MCU. Remote control, for any number of commands, of    *)
(* lost frames and of answers out of time: types, that the result told for *)
(* a command is its own, and how often the alarm repeats a command. The    *)
(* frames on the UART, for any contents, any size of the buffer and any    *)
(* number of lost bytes: types, and that a loss stays where it is.         *)
(***************************************************************************)
EXTENDS RemoteCtrl, McuFrame, TLAPS

-----------------------------------------------------------------------------
(* Remote control: types.                                                  *)

CtrlFlags ==
    /\ timer \in BOOLEAN /\ waiting \in BOOLEAN
    /\ impatient \in BOOLEAN /\ settled \in BOOLEAN

CtrlData ==
    /\ asked \in Ids /\ inbox \in Ids
    /\ list \in [req : Ids, kind : Lists]
    /\ rx \in Calls \cup {"clear", "fill"} /\ frame \in Ids
    /\ handler \in Calls \cup {"end"} /\ repeat \in Ids
    /\ McuReportTimeOut \in 0..1
    /\ toMcu \in Seq(Ids) /\ fromMcu \in Seq(Ids)
    /\ uart \in {"idle", "reply"} /\ RCtrlErrorCode \in Ids
    /\ RemoteCtrlFlag \in 0..2
    /\ answers \subseteq [items : Ids, kind : Lists, result : Ids]
    /\ reached \subseteq Ids /\ losses \in 0..MaxLoss /\ late \in 0..MaxLate
    /\ quiet \subseteq Requests /\ repeats \in Nat /\ crossed \in Nat

\* A thread that clears or fills the list has a command to fill it with.
Needs == rx \in {"clear", "fill"} => inbox # 0

CtrlTypes == TypeOK /\ Needs

\* One more answer is one of the items of a list.
LEMMA ReplyTypes ==
  ASSUME CtrlData, NEW l \in [req : Ids, kind : Lists], Reply(l)
  PROVE  answers' \subseteq [items : Ids, kind : Lists, result : Ids]
  BY DEF CtrlData, Reply

LEMMA TailTypes ==
  ASSUME NEW s \in Seq(Ids), s # <<>>
  PROVE  Tail(s) \in Seq(Ids) /\ Head(s) \in Ids
  OBVIOUS

LEMMA TypesInductive == CtrlTypes /\ [Next]_vars => CtrlTypes'
<1> SUFFICES ASSUME CtrlTypes, [Next]_vars
             PROVE  CtrlFlags' /\ CtrlData' /\ Needs'
  BY Zenon DEF CtrlTypes, TypeOK, CtrlFlags, CtrlData
<1> USE RemoteCtrlAssumption DEF threads, wire, tsp, response, alarm, count
<1>0. CtrlFlags /\ CtrlData /\ Needs
  BY Zenon DEF CtrlTypes, TypeOK, CtrlFlags, CtrlData
<1>1. ASSUME TspAsks PROVE CtrlFlags' /\ CtrlData' /\ Needs'
  <2>1. CtrlFlags'
    <3>1. impatient' \in BOOLEAN
      BY <1>1, Zenon DEF TspAsks
    <3> QED
      BY <1>0, <1>1, <3>1, Zenon DEF TspAsks, CtrlFlags
  <2>2. inbox' \in Ids /\ asked' \in Ids /\ inbox' # 0
    BY <1>0, <1>1 DEF TspAsks, CtrlData, Ids
  <2> QED
    BY <1>0, <1>1, <2>1, <2>2 DEF TspAsks, CtrlData, Needs
<1>2. ASSUME TspAcks PROVE CtrlFlags' /\ CtrlData' /\ Needs'
  <2>1. CtrlFlags'
    BY <1>0, <1>2, Zenon DEF TspAcks, CtrlFlags
  <2> QED
    BY <1>0, <1>2, <2>1 DEF TspAcks, CtrlData, Needs
<1>3. ASSUME CheckTimer \/ LoginResend PROVE CtrlFlags' /\ CtrlData' /\ Needs'
  <2>1. CtrlFlags'
    BY <1>0, <1>3, Zenon DEF CheckTimer, LoginResend, CtrlFlags
  <2>2. answers' = answers \/ Reply(list)
    BY <1>3, Zenon DEF CheckTimer, LoginResend
  <2>3. answers' \subseteq [items : Ids, kind : Lists, result : Ids]
    BY <1>0, <2>2, ReplyTypes DEF CtrlData
  <2>4. RemoteCtrlFlag' \in 0..2
    BY <1>0, <1>3 DEF CheckTimer, LoginResend, CtrlData
  <2> QED
    BY <1>0, <1>3, <2>1, <2>3, <2>4 DEF CheckTimer, LoginResend, CtrlData, Needs
<1>4. ASSUME Receive PROVE CtrlFlags' /\ CtrlData' /\ Needs'
  <2>1. CtrlFlags'
    BY <1>0, <1>4, Zenon DEF Receive, CtrlFlags
  <2> QED
    BY <1>0, <1>4, <2>1 DEF Receive, CtrlData, Needs, Ids, Calls
<1>5. ASSUME Clear PROVE CtrlFlags' /\ CtrlData' /\ Needs'
  <2>1. CtrlFlags'
    BY <1>0, <1>5, Zenon DEF Clear, CtrlFlags
  <2>2. quiet' \subseteq Requests
    BY <1>0, <1>5 DEF Clear, CtrlData, Needs, Ids, Requests
  <2> QED
    BY <1>0, <1>5, <2>1, <2>2 DEF Clear, CtrlData, Needs, Ids, Calls, Lists
<1>6. ASSUME Fill PROVE CtrlFlags' /\ CtrlData' /\ Needs'
  <2>1. CtrlFlags'
    BY <1>0, <1>6, Zenon DEF Fill, CtrlFlags
  <2>2. list' \in [req : Ids, kind : Lists]
    BY <1>0, <1>6 DEF Fill, CtrlData, Kinds, Lists
  <2> QED
    BY <1>0, <1>6, <2>1, <2>2 DEF Fill, CtrlData, Needs, Ids, Calls
<1>7. ASSUME \/ Build(rx, frame) /\ UNCHANGED <<handler, repeat>>
             \/ Build(handler, repeat) /\ UNCHANGED <<rx, frame>>
      PROVE  CtrlFlags' /\ CtrlData' /\ Needs'
  <2>1. CtrlFlags'
    BY <1>0, <1>7, Zenon
       DEF Build, BuildFrame, NonSupport, NoFrame, Respond, CtrlFlags
  <2>2. list' = list \/ list' = [list EXCEPT !.kind = "feature"]
    BY <1>7, Zenon DEF Build, BuildFrame, NonSupport, NoFrame
  <2>3. list' \in [req : Ids, kind : Lists]
    BY <1>0, <2>2 DEF CtrlData, Lists
  <2>4. answers' = answers \/ Reply(list')
    BY <1>7, Zenon DEF Build, BuildFrame, NonSupport, NoFrame, Respond
  <2>5. answers' \subseteq [items : Ids, kind : Lists, result : Ids]
    BY <1>0, <2>3, <2>4 DEF CtrlData, Reply
  <2>6. UNCHANGED <<asked, inbox, McuReportTimeOut, toMcu, fromMcu, losses, uart,
                    RCtrlErrorCode, RemoteCtrlFlag, reached, late, quiet,
                    repeats, crossed>>
    BY <1>7, Zenon DEF Build, BuildFrame, NonSupport, NoFrame, Respond
  <2>7. /\ rx' \in Calls \cup {"clear", "fill"} /\ frame' \in Ids
        /\ handler' \in Calls \cup {"end"} /\ repeat' \in Ids
        /\ rx' \in {"clear", "fill"} => rx' = rx
    BY <1>0, <1>7
       DEF Build, BuildFrame, NonSupport, NoFrame, CtrlData, Ids, Calls, STRAY
  <2> QED
    BY <1>0, <2>1, <2>3, <2>5, <2>6, <2>7 DEF CtrlData, Needs
<1>8. ASSUME \/ Send(rx, frame) /\ UNCHANGED <<handler, repeat, repeats>>
             \/ Send(handler, repeat) /\ repeats' = repeats + 1 /\ UNCHANGED <<rx, frame>>
      PROVE  CtrlFlags' /\ CtrlData' /\ Needs'
  <2>1. CtrlFlags'
    BY <1>0, <1>8, Zenon DEF Send, CtrlFlags
  <2>2. \A b \in Ids : Append(toMcu, b) \in Seq(Ids) /\ reached \cup {b} \subseteq Ids
    BY <1>0 DEF CtrlData
  <2>3. /\ rx' \in Calls \cup {"clear", "fill"} /\ frame' \in Ids
        /\ handler' \in Calls \cup {"end"} /\ repeat' \in Ids
        /\ rx' \in {"clear", "fill"} => rx' = rx
        /\ repeats' \in Nat /\ reached' \subseteq Ids /\ toMcu' \in Seq(Ids)
    <3>1. CASE Send(rx, frame) /\ UNCHANGED <<handler, repeat, repeats>>
      BY <1>0, <2>2, <3>1 DEF Send, CtrlData, Ids, Calls
    <3>2. CASE /\ Send(handler, repeat) /\ repeats' = repeats + 1
               /\ UNCHANGED <<rx, frame>>
      BY <1>0, <2>2, <3>2 DEF Send, CtrlData, Ids, Calls
    <3> QED
      BY <1>8, <3>1, <3>2
  <2>4. UNCHANGED <<asked, inbox, list, McuReportTimeOut, fromMcu, losses, uart,
                    RCtrlErrorCode, RemoteCtrlFlag, answers, late, quiet, crossed>>
    BY <1>8, Zenon DEF Send
  <2> QED
    BY <1>0, <2>1, <2>3, <2>4 DEF CtrlData, Needs
<1>9. ASSUME \/ Arm(rx, "idle") /\ UNCHANGED handler
             \/ Arm(handler, "end") /\ UNCHANGED rx
      PROVE  CtrlFlags' /\ CtrlData' /\ Needs'
  <2>1. CtrlFlags'
    BY <1>0, <1>9, Zenon DEF Arm, CtrlFlags
  <2> QED
    BY <1>0, <1>9, <2>1 DEF Arm, CtrlData, Needs, Calls
<1>10. ASSUME Fire PROVE CtrlFlags' /\ CtrlData' /\ Needs'
  <2>1. CtrlFlags'
    BY <1>0, <1>10, Zenon DEF Fire, CtrlFlags
  <2>2. late' \in 0..MaxLate
    BY <1>0, <1>10 DEF Fire, Timing, CtrlData
  <2> QED
    BY <1>0, <1>10, <2>1, <2>2 DEF Fire, CtrlData, Needs, Calls
<1>11. ASSUME HandlerEnds PROVE CtrlFlags' /\ CtrlData' /\ Needs'
  <2>1. CtrlFlags'
    BY <1>0, <1>11, Zenon DEF HandlerEnds, CtrlFlags
  <2> QED
    BY <1>0, <1>11, <2>1 DEF HandlerEnds, CtrlData, Needs, Calls
<1>12. ASSUME McuAnswers PROVE CtrlFlags' /\ CtrlData' /\ Needs'
  <2>1. CtrlFlags'
    BY <1>0, <1>12, Zenon DEF McuAnswers, CtrlFlags
  <2>2. late' \in 0..MaxLate
    BY <1>0, <1>12 DEF McuAnswers, Timing, CtrlData
  <2>3. toMcu' \in Seq(Ids) /\ Head(toMcu) \in Ids
    BY <1>0, <1>12, TailTypes DEF McuAnswers, CtrlData
  <2>4. fromMcu' \in Seq(Ids)
    <3>1. \A b \in Ids : Append(fromMcu, b) \in Seq(Ids)
      BY <1>0 DEF CtrlData
    <3>2. fromMcu' = Append(fromMcu, Head(toMcu)) \/ fromMcu' = fromMcu
      BY <1>12, Zenon DEF McuAnswers
    <3> QED
      BY <1>0, <2>3, <3>1, <3>2 DEF CtrlData
  <2> QED
    BY <1>0, <1>12, <2>1, <2>2, <2>3, <2>4 DEF McuAnswers, CtrlData, Needs
<1>13. ASSUME Lose PROVE CtrlFlags' /\ CtrlData' /\ Needs'
  <2>1. CtrlFlags'
    BY <1>0, <1>13, Zenon DEF Lose, CtrlFlags
  <2>2. toMcu' \in Seq(Ids) /\ fromMcu' \in Seq(Ids)
    BY <1>0, <1>13, TailTypes DEF Lose, CtrlData
  <2>3. losses' \in 0..MaxLoss
    BY <1>0, <1>13 DEF Lose, CtrlData
  <2> QED
    BY <1>0, <1>13, <2>1, <2>2, <2>3 DEF Lose, CtrlData, Needs
<1>14. ASSUME unpack_RemoteCtrl PROVE CtrlFlags' /\ CtrlData' /\ Needs'
  <2>1. CtrlFlags'
    <3>1. settled' \in BOOLEAN
      BY <1>14, Zenon DEF unpack_RemoteCtrl, Take
    <3> QED
      BY <1>0, <1>14, <3>1, Zenon DEF unpack_RemoteCtrl, Take, CtrlFlags
  <2>2. fromMcu' \in Seq(Ids) /\ RCtrlErrorCode' \in Ids
    BY <1>0, <1>14, TailTypes DEF unpack_RemoteCtrl, Take, CtrlData
  <2>3. crossed' \in Nat
    BY <1>0, <1>14 DEF unpack_RemoteCtrl, Take, CtrlData
  <2> QED
    BY <1>0, <1>14, <2>1, <2>2, <2>3 DEF unpack_RemoteCtrl, Take, CtrlData, Needs
<1>15. ASSUME ReplayRemoteCtrl PROVE CtrlFlags' /\ CtrlData' /\ Needs'
  <2>1. CtrlFlags'
    BY <1>0, <1>15, Zenon DEF ReplayRemoteCtrl, Respond, CtrlFlags
  <2>2. answers' \subseteq [items : Ids, kind : Lists, result : Ids]
    BY <1>0, <1>15, ReplyTypes DEF ReplayRemoteCtrl, Respond, CtrlData
  <2> QED
    BY <1>0, <1>15, <2>1, <2>2 DEF ReplayRemoteCtrl, Respond, CtrlData, Needs
<1>16. ASSUME UNCHANGED vars PROVE CtrlFlags' /\ CtrlData' /\ Needs'
  BY <1>0, <1>16, Zenon DEF vars, CtrlFlags, CtrlData, Needs
<1> QED
  BY <1>1, <1>2, <1>3, <1>4, <1>5, <1>6, <1>7, <1>8, <1>9, <1>10, <1>11, <1>12,
     <1>13, <1>14, <1>15, <1>16, Zenon DEF Next, RxCommand, Handler

LEMMA InitTypes == Init => CtrlTypes
<1> SUFFICES ASSUME Init PROVE CtrlFlags /\ CtrlData /\ Needs
  BY Zenon DEF CtrlTypes, TypeOK, CtrlFlags, CtrlData
<1>1. CtrlFlags
  BY Zenon DEF Init, CtrlFlags
<1>2. CtrlData /\ Needs
  BY RemoteCtrlAssumption
     DEF Init, CtrlData, Needs, Ids, Requests, Kinds, Lists, Calls
<1> QED
  BY <1>1, <1>2

LEMMA CtrlTypesHold == Spec => []CtrlTypes
  BY InitTypes, TypesInductive, PTL DEF Spec

-----------------------------------------------------------------------------
(* Remote control: results, for every timing of the TSP and of the MCU.    *)

\* Commands are unpacked in the order they are sent; what has been answered,
\* and what is known to have met nothing, is not newer than the list.
Ordered ==
    /\ list.req <= asked /\ inbox <= asked
    /\ rx = "fill" => inbox = list.req
    /\ rx # "fill" /\ inbox # 0 => list.req < inbox
    /\ list.kind = "half" => rx = "fill"
    /\ \A a \in answers : a.items <= list.req
    /\ \A q \in quiet : q <= list.req

\* What is under way is of the command in the list, and what waits for the TSP's
\* acknowledgement has its result.
Frames ==
    /\ \A i \in 1..Len(toMcu) : toMcu[i] = list.req
    /\ \A i \in 1..Len(fromMcu) : fromMcu[i] = list.req
    /\ rx = "send" => frame = list.req
    /\ handler = "send" => repeat = list.req
    /\ uart = "reply" => RCtrlErrorCode = list.req

Told ==
    list.kind = "plain" /\ (waiting \/ RemoteCtrlFlag = 2)
        => RCtrlErrorCode = list.req

Own == (rx = "fill" => Calm) /\ Frames /\ Told

OwnInv == list.req \in quiet => Own

AnswerInv == Ordered /\ OwnInv /\ AnswerMatches

\* A step that leaves the command in the list keeps the invariant if what it
\* puts on the way and what it answers is of this command.
LEMMA SameCommand ==
  ASSUME CtrlTypes, AnswerInv, list'.req = list.req, quiet' = quiet,
         list.req \in quiet /\ Own => Own',
         \/ answers' = answers
         \/ Reply(list) /\ (list.req \in quiet /\ list.kind = "plain"
                                => RCtrlErrorCode = list.req)
         \/ Reply(list') /\ list'.kind # "plain"
  PROVE  /\ OwnInv' /\ AnswerMatches'
         /\ \A a \in answers' : a.items <= list'.req
         /\ \A q \in quiet' : q <= list'.req
<1>1. OwnInv'
  BY DEF AnswerInv, OwnInv
<1>2. /\ list.req \in Nat
      /\ \A a \in answers : /\ a.items <= list.req
                            /\ a.kind = "plain" /\ a.items \in quiet => a.result = a.items
  BY DEF CtrlTypes, TypeOK, AnswerInv, Ordered, AnswerMatches, Ids
<1>3. /\ \A a \in answers' : a.items <= list'.req
      /\ AnswerMatches'
  <2>1. CASE answers' = answers
    BY <1>2, <2>1 DEF AnswerMatches
  <2>2. CASE Reply(list) /\ (list.req \in quiet /\ list.kind = "plain"
                                 => RCtrlErrorCode = list.req)
    BY <1>2, <2>2 DEF AnswerMatches, Reply
  <2>3. CASE Reply(list') /\ list'.kind # "plain"
    BY <1>2, <2>3 DEF AnswerMatches, Reply
  <2> QED
    BY <2>1, <2>2, <2>3
<1>4. \A q \in quiet' : q <= list'.req
  BY DEF AnswerInv, Ordered
<1> QED
  BY <1>1, <1>3, <1>4

LEMMA InitAnswers == Init => AnswerInv
  BY DEF Init, AnswerInv, Ordered, OwnInv, AnswerMatches

LEMMA TspKeeps ==
  ASSUME CtrlTypes, AnswerInv, TspAsks \/ TspAcks
  PROVE  AnswerInv'
<1> USE DEF threads, wire, tsp, response, alarm, count
<1>1. UNCHANGED <<list, quiet, answers, rx>> /\ list'.req = list.req
  BY Zenon DEF TspAsks, TspAcks
<1>2. ASSUME list.req \in quiet, Own PROVE Own'
  <2>1. rx' = "fill" => Calm'
    <3>1. CASE TspAsks
      BY <1>2, <3>1, Zenon DEF Own, Calm, TspAsks
    <3>2. CASE TspAcks
      BY <1>1, <1>2, <3>2, Zenon DEF Own, Calm, TspAcks
    <3> QED
      BY <3>1, <3>2
  <2>2. Frames'
    BY <1>2, Zenon DEF Own, Frames, TspAsks, TspAcks
  <2>3. Told'
    <3>1. CASE TspAsks
      BY <1>2, <3>1, Zenon DEF Own, Told, TspAsks
    <3>2. CASE TspAcks
      BY <3>2 DEF Told, TspAcks
    <3> QED
      BY <3>1, <3>2
  <2> QED
    BY <2>1, <2>2, <2>3 DEF Own
<1>3. /\ list'.req <= asked' /\ inbox' <= asked'
      /\ rx' = "fill" => inbox' = list'.req
      /\ rx' # "fill" /\ inbox' # 0 => list'.req < inbox'
      /\ list'.kind = "half" => rx' = "fill"
  BY <1>1 DEF TspAsks, TspAcks, AnswerInv, Ordered, CtrlTypes, TypeOK, Needs, Ids
<1> QED
  BY <1>1, <1>2, <1>3, SameCommand DEF AnswerInv, Ordered

\* TimeOutThread and the login tell the result that waits.
LEMMA RepeatKeeps ==
  ASSUME CtrlTypes, AnswerInv, CheckTimer \/ LoginResend
  PROVE  AnswerInv'
<1> USE DEF threads, wire, tsp, response, alarm, count
<1>1. /\ UNCHANGED <<list, quiet, rx, asked, inbox>> /\ list'.req = list.req
      /\ answers' = answers \/ Reply(list)
  BY Zenon DEF CheckTimer, LoginResend
<1>2. waiting \/ RemoteCtrlFlag = 2
  BY Zenon DEF CheckTimer, LoginResend
<1>3. list.req \in quiet /\ list.kind = "plain" => RCtrlErrorCode = list.req
  BY <1>2 DEF AnswerInv, OwnInv, Own, Told
<1>4. ASSUME list.req \in quiet, Own PROVE Own'
  <2>1. rx # "fill"
    BY <1>2, <1>4 DEF Own, Calm
  <2>2. Frames'
    BY <1>4, Zenon DEF Own, Frames, CheckTimer, LoginResend
  <2>3. RCtrlErrorCode' = RCtrlErrorCode
    BY Zenon DEF CheckTimer, LoginResend
  <2>4. Told'
    BY <1>1, <1>3, <1>4, <2>3 DEF Told
  <2> QED
    BY <1>1, <2>1, <2>2, <2>4 DEF Own
<1> QED
  BY <1>1, <1>3, <1>4, SameCommand DEF AnswerInv, Ordered

LEMMA ReceiveKeeps ==
  ASSUME CtrlTypes, AnswerInv, Receive
  PROVE  AnswerInv'
<1> USE DEF threads, wire, tsp, response, alarm, count
<1>1. UNCHANGED <<list, quiet, answers, asked>> /\ list'.req = list.req
  BY Zenon DEF Receive
<1>2. rx' \in {"idle", "clear"} /\ rx = "idle" /\ (inbox' = inbox \/ inbox' = 0)
  BY DEF Receive
<1>3. ASSUME list.req \in quiet, Own PROVE Own'
  <2>1. Told' /\ (uart' = "reply" => RCtrlErrorCode' = list'.req)
    BY <1>3, Zenon DEF Receive, Own, Frames, Told
  <2>2. Frames'
    BY <1>2, <1>3, <2>1 DEF Receive, Own, Frames
  <2> QED
    BY <1>2, <2>1, <2>2 DEF Own
<1>4. inbox' <= asked'
  BY <1>1, <1>2 DEF AnswerInv, Ordered, CtrlTypes, TypeOK, Ids
<1> QED
  BY <1>1, <1>2, <1>3, <1>4, SameCommand DEF AnswerInv, Ordered

\* A new command: it is quiet only if nothing of an earlier one is under way.
LEMMA ClearKeeps ==
  ASSUME CtrlTypes, AnswerInv, Clear
  PROVE  AnswerInv'
<1> USE DEF threads, wire, tsp, response, alarm, count
<1>1. /\ list'.req = inbox /\ list'.kind = "half" /\ rx' = "fill" /\ rx = "clear"
      /\ quiet' = (IF Calm THEN quiet \cup {inbox} ELSE quiet)
      /\ UNCHANGED <<asked, inbox, answers>>
  BY DEF Clear
<1>2. /\ inbox \in Nat /\ list.req \in Nat /\ list.req < inbox
      /\ \A a \in answers : a.items \in Nat /\ a.items <= list.req
      /\ \A q \in quiet : q \in Nat /\ q <= list.req
  BY <1>1 DEF CtrlTypes, TypeOK, Needs, Ids, Requests, AnswerInv, Ordered
<1>3. inbox \notin quiet /\ \A a \in answers : a.items # inbox
  BY <1>2
<1>4. OwnInv'
  <2> SUFFICES ASSUME list'.req \in quiet' PROVE Own'
    BY DEF OwnInv
  <2>1. Calm
    BY <1>1, <1>3
  <2>2. Calm'
    BY <2>1, Zenon DEF Clear, Calm
  <2>3. Frames'
    BY <1>1, <2>2 DEF Frames, Calm
  <2>4. Told'
    BY <1>1 DEF Told
  <2> QED
    BY <2>2, <2>3, <2>4 DEF Own
<1>5. AnswerMatches'
  BY <1>1, <1>3 DEF AnswerInv, AnswerMatches
<1>6. Ordered'
  BY <1>1, <1>2 DEF AnswerInv, Ordered
<1> QED
  BY <1>4, <1>5, <1>6 DEF AnswerInv

LEMMA FillKeeps ==
  ASSUME CtrlTypes, AnswerInv, Fill
  PROVE  AnswerInv'
<1> USE DEF threads, wire, tsp, response, alarm, count
<1>1. /\ UNCHANGED <<quiet, answers, asked>> /\ rx = "fill" /\ rx' = "build"
      /\ inbox' = 0
  BY Zenon DEF Fill
<1>2. list'.req = list.req /\ list'.kind # "half"
  BY DEF Fill, CtrlTypes, TypeOK, Kinds
<1>3. ASSUME list.req \in quiet, Own PROVE Own'
  <2>1. Calm
    BY <1>1, <1>3 DEF Own
  <2>2. Calm'
    BY <2>1, Zenon DEF Fill, Calm
  <2>3. Frames'
    BY <1>1, <2>2 DEF Frames, Calm
  <2>4. ~waiting' /\ RemoteCtrlFlag' # 2
    BY <2>2 DEF Calm
  <2> QED
    BY <1>1, <2>3, <2>4 DEF Own, Told
<1>4. asked' \in Nat
  BY <1>1 DEF CtrlTypes, TypeOK, Ids
<1> QED
  BY <1>1, <1>2, <1>3, <1>4, SameCommand DEF AnswerInv, Ordered

LEMMA BuildKeeps ==
  ASSUME CtrlTypes, AnswerInv,
         \/ Build(rx, frame) /\ UNCHANGED <<handler, repeat>>
         \/ Build(handler, repeat) /\ UNCHANGED <<rx, frame>>
  PROVE  AnswerInv'
<1> USE DEF threads, wire, tsp, response, alarm, count
<1>1. UNCHANGED <<quiet, asked, inbox, toMcu, fromMcu, uart, RCtrlErrorCode, timer,
                  RemoteCtrlFlag>>
  BY Zenon DEF Build, BuildFrame, NonSupport, NoFrame, Respond
<1>2. \/ UNCHANGED <<list, waiting, answers>>
      \/ /\ list' = [list EXCEPT !.kind = "feature"]
         /\ Reply(list') /\ waiting' = TRUE
  BY Zenon DEF Build, BuildFrame, NonSupport, NoFrame, Respond
<1>3. list'.req = list.req /\ (list' = list \/ list'.kind = "feature")
  BY <1>2 DEF CtrlTypes, TypeOK
<1>4. (rx' = "fill") = (rx = "fill")
  BY DEF Build, BuildFrame, NonSupport, NoFrame
<1>5. ASSUME list.req \in quiet, Own PROVE Own'
  <2>1. rx # "fill"
    BY <1>5 DEF Build, Own, Calm
  <2>2. list.kind # "half"
    BY <2>1 DEF AnswerInv, Ordered
  <2>3. /\ rx' = "send" => frame' = list.req
        /\ handler' = "send" => repeat' = list.req
    <3>1. CASE Build(rx, frame) /\ UNCHANGED <<handler, repeat>>
      BY <1>5, <2>2, <3>1 DEF Build, BuildFrame, NonSupport, NoFrame, Own, Frames
    <3>2. CASE Build(handler, repeat) /\ UNCHANGED <<rx, frame>>
      BY <1>5, <2>2, <3>2 DEF Build, BuildFrame, NonSupport, NoFrame, Own, Frames
    <3> QED
      BY <3>1, <3>2
  <2>4. Frames'
    BY <1>1, <1>3, <1>5, <2>3 DEF Own, Frames
  <2>5. Told'
    <3>1. CASE UNCHANGED <<list, waiting, answers>>
      BY <1>1, <1>5, <3>1, Zenon DEF Own, Told
    <3>2. CASE list'.kind = "feature"
      BY <3>2 DEF Told
    <3>3. UNCHANGED <<list, waiting, answers>> \/ list'.kind = "feature"
      BY <1>2 DEF CtrlTypes, TypeOK
    <3> QED
      BY <3>1, <3>2, <3>3
  <2> QED
    BY <1>4, <2>1, <2>4, <2>5 DEF Own
<1>6. \/ answers' = answers
      \/ Reply(list') /\ list'.kind # "plain"
  BY <1>2, <1>3 DEF CtrlTypes, TypeOK
<1> QED
  BY <1>1, <1>3, <1>4, <1>5, <1>6, SameCommand DEF AnswerInv, Ordered

LEMMA SendKeeps ==
  ASSUME CtrlTypes, AnswerInv,
         \/ Send(rx, frame) /\ UNCHANGED <<handler, repeat>>
         \/ Send(handler, repeat) /\ UNCHANGED <<rx, frame>>
  PROVE  AnswerInv'
<1> USE DEF threads, wire, tsp, response, alarm, count
<1>1. UNCHANGED <<list, quiet, answers, asked, inbox, fromMcu, uart,
                  RCtrlErrorCode, timer, waiting, RemoteCtrlFlag>>
  BY Zenon DEF Send
<1>2. list'.req = list.req /\ (rx' = "fill") = (rx = "fill")
  BY <1>1 DEF Send
<1>3. ASSUME list.req \in quiet, Own PROVE Own'
  <2>1. rx # "fill"
    BY <1>3 DEF Send, Own, Calm
  <2>2. \A i \in 1..Len(toMcu') : toMcu'[i] = list.req
    <3>1. toMcu' = Append(toMcu, list.req)
      BY <1>3 DEF Send, Own, Frames
    <3>2. toMcu \in Seq(Ids) /\ \A i \in 1..Len(toMcu) : toMcu[i] = list.req
      BY <1>3, Zenon DEF CtrlTypes, TypeOK, Own, Frames
    <3> QED
      BY <3>1, <3>2
  <2>3. /\ rx' = "send" => frame' = list.req
        /\ handler' = "send" => repeat' = list.req
    BY <1>3 DEF Send, Own, Frames
  <2>4. Frames'
    BY <1>1, <1>3, <2>2, <2>3 DEF Own, Frames
  <2>5. Told'
    BY <1>1, <1>3, Zenon DEF Own, Told
  <2> QED
    BY <1>2, <2>1, <2>4, <2>5 DEF Own
<1> QED
  BY <1>1, <1>2, <1>3, SameCommand DEF AnswerInv, Ordered

\* An alarm is set or goes off, and its handler ends.
LEMMA AlarmKeeps ==
  ASSUME CtrlTypes, AnswerInv,
         \/ Arm(rx, "idle") /\ UNCHANGED handler
         \/ Arm(handler, "end") /\ UNCHANGED rx
         \/ Fire \/ HandlerEnds
  PROVE  AnswerInv'
<1> USE DEF threads, wire, tsp, response, alarm, count
<1>1. UNCHANGED <<list, quiet, answers, asked, inbox, toMcu, fromMcu, uart,
                  RCtrlErrorCode, waiting, RemoteCtrlFlag, frame, repeat>>
  BY Zenon DEF Arm, Fire, HandlerEnds
<1>2. /\ list'.req = list.req /\ (rx' = "fill") = (rx = "fill")
      /\ rx' = rx \/ rx' = "idle"
      /\ handler' # "send" \/ handler' = handler
  BY <1>1 DEF Arm, Fire, HandlerEnds
<1>3. ASSUME list.req \in quiet, Own PROVE Own'
  <2>1. rx # "fill"
    BY <1>3 DEF Arm, Fire, HandlerEnds, Own, Calm
  <2>2. Frames'
    BY <1>1, <1>2, <1>3 DEF Own, Frames
  <2>3. Told'
    BY <1>1, <1>3, Zenon DEF Own, Told
  <2> QED
    BY <1>2, <2>1, <2>2, <2>3 DEF Own
<1> QED
  BY <1>1, <1>2, <1>3, SameCommand DEF AnswerInv, Ordered

LEMMA TailIs ==
  ASSUME NEW s \in Seq(Ids), s # <<>>, NEW r, \A i \in 1..Len(s) : s[i] = r
  PROVE  Head(s) = r /\ \A i \in 1..Len(Tail(s)) : Tail(s)[i] = r
<1>1. Len(s) \in Nat \ {0} /\ Head(s) = s[1]
  OBVIOUS
<1>2. Len(Tail(s)) = Len(s) - 1 /\ \A i \in 1..Len(s) - 1 : Tail(s)[i] = s[i + 1]
  OBVIOUS
<1> QED
  BY <1>1, <1>2

LEMMA WireKeeps ==
  ASSUME CtrlTypes, AnswerInv, McuAnswers \/ Lose
  PROVE  AnswerInv'
<1> USE DEF threads, wire, tsp, response, alarm, count
<1>1. UNCHANGED <<list, quiet, answers, asked, inbox, uart, RCtrlErrorCode,
                  waiting, RemoteCtrlFlag, rx, frame, handler, repeat>>
  BY Zenon DEF McuAnswers, Lose
<1>2. list'.req = list.req /\ toMcu \in Seq(Ids) /\ fromMcu \in Seq(Ids)
  BY <1>1, Zenon DEF CtrlTypes, TypeOK
<1>3. ASSUME list.req \in quiet, Own PROVE Own'
  <2>1. rx # "fill"
    BY <1>3 DEF McuAnswers, Lose, Own, Calm
  <2>2. /\ \A i \in 1..Len(toMcu) : toMcu[i] = list.req
        /\ \A i \in 1..Len(fromMcu) : fromMcu[i] = list.req
    BY <1>3, Zenon DEF Own, Frames
  <2>3. /\ toMcu' = toMcu \/ (toMcu # <<>> /\ toMcu' = Tail(toMcu))
        /\ \/ fromMcu' = fromMcu \/ (fromMcu # <<>> /\ fromMcu' = Tail(fromMcu))
           \/ toMcu # <<>> /\ fromMcu' = Append(fromMcu, Head(toMcu))
    BY Zenon DEF McuAnswers, Lose
  <2>4. \A i \in 1..Len(toMcu') : toMcu'[i] = list.req
    <3>1. CASE toMcu' = toMcu
      BY <2>2, <3>1, Zenon
    <3>2. CASE toMcu # <<>> /\ toMcu' = Tail(toMcu)
      BY <1>2, <2>2, <3>2, TailIs
    <3> QED
      BY <2>3, <3>1, <3>2
  <2>5. \A i \in 1..Len(fromMcu') : fromMcu'[i] = list.req
    <3>1. CASE fromMcu' = fromMcu \/ (fromMcu # <<>> /\ fromMcu' = Tail(fromMcu))
      <4>1. CASE fromMcu' = fromMcu
        BY <2>2, <4>1, Zenon
      <4>2. CASE fromMcu # <<>> /\ fromMcu' = Tail(fromMcu)
        BY <1>2, <2>2, <4>2, TailIs
      <4> QED
        BY <3>1, <4>1, <4>2
    <3>2. CASE toMcu # <<>> /\ fromMcu' = Append(fromMcu, Head(toMcu))
      <4>1. Head(toMcu) = list.req
        BY <1>2, <2>2, <3>2, TailIs
      <4>2. list.req \in Ids
        BY DEF CtrlTypes, TypeOK
      <4> QED
        BY <1>2, <2>2, <3>2, <4>1, <4>2
    <3> QED
      BY <2>3, <3>1, <3>2
  <2>6. Frames'
    BY <1>1, <1>3, <2>4, <2>5 DEF Own, Frames
  <2>7. Told'
    BY <1>1, <1>3, Zenon DEF Own, Told
  <2> QED
    BY <1>1, <2>1, <2>6, <2>7 DEF Own
<1> QED
  BY <1>1, <1>2, <1>3, SameCommand DEF AnswerInv, Ordered

\* The UART thread takes an answer of the MCU and tells the TSP.
LEMMA UartKeeps ==
  ASSUME CtrlTypes, AnswerInv, unpack_RemoteCtrl \/ ReplayRemoteCtrl
  PROVE  AnswerInv'
<1> USE DEF threads, wire, tsp, response, alarm, count
<1>1. UNCHANGED <<list, quiet, asked, inbox, rx, frame, handler, repeat, toMcu>>
  BY Zenon DEF unpack_RemoteCtrl, Take, ReplayRemoteCtrl
<1>2. list'.req = list.req /\ fromMcu \in Seq(Ids)
  BY <1>1, Zenon DEF CtrlTypes, TypeOK
<1>3. \/ answers' = answers
      \/ Reply(list) /\ (list.req \in quiet /\ list.kind = "plain"
                             => RCtrlErrorCode = list.req)
  <2>1. CASE unpack_RemoteCtrl
    BY <2>1, Zenon DEF unpack_RemoteCtrl, Take
  <2>2. CASE ReplayRemoteCtrl
    BY <2>2 DEF ReplayRemoteCtrl, Respond, AnswerInv, OwnInv, Own, Frames
  <2> QED
    BY <2>1, <2>2
<1>4. ASSUME list.req \in quiet, Own PROVE Own'
  <2>1. rx # "fill"
    BY <1>4 DEF unpack_RemoteCtrl, Take, ReplayRemoteCtrl, Own, Calm
  <2>2. \A i \in 1..Len(fromMcu) : fromMcu[i] = list.req
    BY <1>4, Zenon DEF Own, Frames
  <2>3. CASE unpack_RemoteCtrl
    <3>1. /\ RCtrlErrorCode' = list.req
          /\ \A i \in 1..Len(fromMcu') : fromMcu'[i] = list.req
      BY <1>2, <2>2, <2>3, TailIs DEF unpack_RemoteCtrl, Take
    <3>2. Frames' /\ Told'
      BY <1>1, <1>4, <3>1 DEF Own, Frames, Told
    <3> QED
      BY <1>1, <2>1, <3>2 DEF Own
  <2>4. CASE ReplayRemoteCtrl
    <3>1. /\ RCtrlErrorCode' = list.req /\ fromMcu' = fromMcu
      BY <1>4, <2>4 DEF ReplayRemoteCtrl, Own, Frames
    <3>2. Frames' /\ Told'
      BY <1>1, <1>4, <3>1 DEF Own, Frames, Told
    <3> QED
      BY <1>1, <2>1, <3>2 DEF Own
  <2> QED
    BY <2>3, <2>4
<1> QED
  BY <1>1, <1>2, <1>3, <1>4, SameCommand DEF AnswerInv, Ordered

LEMMA AnswerInductive ==
  ASSUME CtrlTypes, AnswerInv, [Next]_vars
  PROVE  AnswerInv'
<1>1. CASE TspAsks \/ TspAcks \/ CheckTimer \/ LoginResend
  BY <1>1, TspKeeps, RepeatKeeps
<1>2. CASE Receive \/ Clear \/ Fill
  BY <1>2, ReceiveKeeps, ClearKeeps, FillKeeps
<1>3. CASE RxCommand
  BY <1>3, BuildKeeps, SendKeeps, AlarmKeeps, Zenon DEF RxCommand
<1>4. CASE Handler
  BY <1>4, BuildKeeps, SendKeeps, AlarmKeeps, Zenon DEF Handler
<1>5. CASE McuAnswers \/ Lose \/ unpack_RemoteCtrl \/ ReplayRemoteCtrl
  BY <1>5, WireKeeps, UartKeeps
<1>6. CASE UNCHANGED vars
  BY <1>6, Zenon
     DEF vars, threads, wire, tsp, response, alarm, count, AnswerInv, Ordered,
         OwnInv, Own, Frames, Told, Calm, AnswerMatches
<1> QED
  BY <1>1, <1>2, <1>3, <1>4, <1>5, <1>6, Zenon DEF Next

-----------------------------------------------------------------------------
(* Remote control: how often the alarm repeats a command.                  *)

One(b) == IF b THEN 1 ELSE 0

\* A frame of the handler, and what may still become one: the handler's call, a
\* set alarm, and a flag with which the handler would set the next.
Spent ==
    repeats + One(handler \in {"build", "send"}) + One(timer)
        + One(handler \in {"build", "send", "arm"} /\ McuReportTimeOut = 1)

\* A command of which no alarm has been set yet.
Unarmed == One(inbox # 0) + One(rx \in {"build", "send", "arm"})

Earned == Spent + Unarmed <= asked + crossed

Settled ==
    settled => ~timer /\ handler = "idle" /\ rx \in {"idle", "clear"}

LEMMA InitEarned == Init => Earned /\ Settled
  BY DEF Init, Earned, Spent, Unarmed, One, Settled

LEMMA EarnedInductive ==
  ASSUME CtrlTypes, Earned, Settled, [Next]_vars
  PROVE  Earned' /\ Settled'
<1> USE DEF threads, wire, tsp, response, alarm, count
<1>0. /\ asked \in Nat /\ crossed \in Nat /\ repeats \in Nat /\ inbox \in Nat
      /\ McuReportTimeOut \in 0..1
  BY DEF CtrlTypes, TypeOK, Ids
<1>1. CASE TspAsks
  <2>1. /\ asked' = asked + 1 /\ inbox = 0
        /\ UNCHANGED <<rx, handler, repeats, timer, McuReportTimeOut, crossed, settled>>
    BY <1>1, Zenon DEF TspAsks
  <2> QED
    BY <1>0, <2>1 DEF Earned, Spent, Unarmed, One, Settled
<1>2. CASE TspAcks \/ CheckTimer \/ LoginResend \/ McuAnswers \/ Lose
  <2>1. UNCHANGED <<asked, inbox, rx, handler, repeats, timer, McuReportTimeOut,
                    crossed, settled>>
    BY <1>2, Zenon DEF TspAcks, CheckTimer, LoginResend, McuAnswers, Lose
  <2> QED
    BY <2>1 DEF Earned, Spent, Unarmed, Settled
<1>3. CASE Receive
  <2>1. /\ rx = "idle" /\ rx' \in {"idle", "clear"} /\ inbox # 0
        /\ UNCHANGED <<asked, handler, repeats, timer, McuReportTimeOut, crossed,
                       settled>>
    BY <1>3 DEF Receive
  <2> QED
    BY <1>0, <2>1 DEF Earned, Spent, Unarmed, One, Settled
<1>4. CASE Clear
  <2>1. /\ rx = "clear" /\ rx' = "fill" /\ settled' = FALSE
        /\ UNCHANGED <<asked, inbox, handler, repeats, timer, McuReportTimeOut, crossed>>
    BY <1>4, Zenon DEF Clear
  <2> QED
    BY <1>0, <2>1 DEF Earned, Spent, Unarmed, One, Settled
<1>5. CASE Fill
  <2>1. /\ rx = "fill" /\ rx' = "build" /\ inbox # 0 /\ inbox' = 0
        /\ UNCHANGED <<asked, handler, repeats, timer, McuReportTimeOut, crossed,
                       settled>>
    BY <1>5 DEF Fill, CtrlTypes, Needs
  <2> QED
    BY <1>0, <2>1 DEF Earned, Spent, Unarmed, One, Settled
<1>6. CASE Build(rx, frame) /\ UNCHANGED <<handler, repeat>>
  <2>1. /\ rx = "build" /\ rx' \in {"send", "arm"}
        /\ UNCHANGED <<asked, inbox, handler, repeats, timer, McuReportTimeOut,
                       crossed, settled>>
    BY <1>6 DEF Build, BuildFrame, NonSupport, NoFrame
  <2> QED
    BY <1>0, <2>1 DEF Earned, Spent, Unarmed, One, Settled
<1>7. CASE Build(handler, repeat) /\ UNCHANGED <<rx, frame>>
  <2>1. /\ handler = "build" /\ handler' \in {"send", "arm"}
        /\ UNCHANGED <<asked, inbox, rx, repeats, timer, McuReportTimeOut, crossed,
                       settled>>
    BY <1>7 DEF Build, BuildFrame, NonSupport, NoFrame
  <2> QED
    BY <1>0, <2>1 DEF Earned, Spent, Unarmed, One, Settled
<1>8. CASE Send(rx, frame) /\ UNCHANGED <<handler, repeat, repeats>>
  <2>1. /\ rx = "send" /\ rx' = "arm"
        /\ UNCHANGED <<asked, inbox, handler, repeats, timer, McuReportTimeOut,
                       crossed, settled>>
    BY <1>8, Zenon DEF Send
  <2> QED
    BY <1>0, <2>1 DEF Earned, Spent, Unarmed, One, Settled
<1>9. CASE /\ Send(handler, repeat) /\ repeats' = repeats + 1
           /\ UNCHANGED <<rx, frame>>
  <2>1. /\ handler = "send" /\ handler' = "arm" /\ repeats' = repeats + 1
        /\ UNCHANGED <<asked, inbox, rx, timer, McuReportTimeOut, crossed, settled>>
    BY <1>9, Zenon DEF Send
  <2> QED
    BY <1>0, <2>1 DEF Earned, Spent, Unarmed, One, Settled
<1>10. CASE Arm(rx, "idle") /\ UNCHANGED handler
  <2>1. /\ rx = "arm" /\ rx' = "idle"
        /\ UNCHANGED <<asked, inbox, handler, repeats, McuReportTimeOut, crossed,
                       settled>>
    BY <1>10, Zenon DEF Arm
  <2>2. One(timer') <= One(timer) + 1 /\ One(timer') \in 0..1 /\ One(timer) \in 0..1
    BY DEF One
  <2> QED
    BY <1>0, <2>1, <2>2 DEF Earned, Spent, Unarmed, One, Settled
<1>11. CASE Arm(handler, "end") /\ UNCHANGED rx
  <2>1. /\ handler = "arm" /\ handler' = "end"
        /\ timer' = (timer \/ McuReportTimeOut = 1)
        /\ UNCHANGED <<asked, inbox, rx, repeats, McuReportTimeOut, crossed, settled>>
    BY <1>11, Zenon DEF Arm
  <2>2. One(timer') <= One(timer) + One(McuReportTimeOut = 1)
    <3>1. CASE McuReportTimeOut = 1
      BY <3>1 DEF One
    <3>2. CASE McuReportTimeOut # 1
      <4>1. One(timer') = One(timer)
        BY <2>1, <3>2, Zenon DEF One
      <4> QED
        BY <3>2, <4>1 DEF One
    <3> QED
      BY <3>1, <3>2
  <2>3. One(timer') \in 0..1 /\ One(timer) \in 0..1
    BY DEF One
  <2>4. Earned'
    BY <1>0, <2>1, <2>2, <2>3 DEF Earned, Spent, Unarmed, One
  <2> QED
    BY <2>1, <2>4, Zenon DEF Settled
<1>12. CASE Fire
  <2>1. /\ handler = "idle" /\ handler' = "build" /\ timer /\ ~timer'
        /\ McuReportTimeOut' = 0
        /\ UNCHANGED <<asked, inbox, rx, repeats, crossed, settled>>
    BY <1>12, Zenon DEF Fire
  <2> QED
    BY <1>0, <2>1 DEF Earned, Spent, Unarmed, One, Settled
<1>13. CASE HandlerEnds
  <2>1. /\ handler = "end" /\ handler' = "idle"
        /\ UNCHANGED <<asked, inbox, rx, repeats, timer, crossed, settled>>
    BY <1>13, Zenon DEF HandlerEnds
  <2> QED
    BY <1>0, <2>1 DEF Earned, Spent, Unarmed, One, Settled
<1>14. CASE unpack_RemoteCtrl
  <2>1. /\ ~timer' /\ UNCHANGED <<asked, inbox, rx, handler, repeats>>
        /\ crossed' = crossed + (IF handler = "idle" THEN 0 ELSE 1)
        /\ settled' = (settled \/ (handler = "idle" /\ rx = "idle"))
        /\ McuReportTimeOut' = 1
    BY <1>14, Zenon DEF unpack_RemoteCtrl, Take
  <2>2. Settled'
    BY <2>1, Zenon DEF Settled
  <2>3. One(timer') = 0 /\ One(timer) \in 0..1
    BY <2>1 DEF One
  <2>4. Earned'
    BY <1>0, <2>1, <2>3 DEF Earned, Spent, Unarmed, One
  <2> QED
    BY <2>2, <2>4
<1>15. CASE ReplayRemoteCtrl \/ UNCHANGED vars
  <2>1. UNCHANGED <<asked, inbox, rx, handler, repeats, timer, McuReportTimeOut,
                    crossed, settled>>
    BY <1>15, Zenon DEF ReplayRemoteCtrl, vars
  <2> QED
    BY <2>1 DEF Earned, Spent, Unarmed, Settled
<1> QED
  BY <1>1, <1>2, <1>3, <1>4, <1>5, <1>6, <1>7, <1>8, <1>9, <1>10, <1>11, <1>12,
     <1>13, <1>14, <1>15, Zenon DEF Next, RxCommand, Handler

LEMMA CtrlInvariant == Spec => [](CtrlTypes /\ AnswerInv /\ Earned /\ Settled)
<1>1. CtrlTypes /\ AnswerInv /\ Earned /\ Settled /\ [Next]_vars
          => CtrlTypes' /\ AnswerInv' /\ Earned' /\ Settled'
  BY TypesInductive, AnswerInductive, EarnedInductive
<1>2. Init => CtrlTypes /\ AnswerInv /\ Earned /\ Settled
  BY InitTypes, InitAnswers, InitEarned
<1> QED
  BY <1>1, <1>2, PTL DEF Spec

LEMMA EarnedIs == CtrlTypes /\ Earned /\ Settled => RepeatsEarned
<1> SUFFICES ASSUME CtrlTypes, Earned, Settled PROVE repeats <= asked + crossed
  BY Zenon DEF RepeatsEarned, Settled
<1>1. asked \in Nat /\ crossed \in Nat /\ repeats \in Nat
  BY DEF CtrlTypes, TypeOK, Ids
<1>2. repeats + Unarmed <= Spent + Unarmed /\ Unarmed \in Nat /\ Spent \in Nat
  BY <1>1 DEF Spent, Unarmed, One
<1> QED
  BY <1>1, <1>2 DEF Earned

\* The list, the threads' places and the frames on the UART keep their types,
\* however the TSP and the MCU behave (mcuUart.cpp:3467-3643).
THEOREM CtrlTypeCorrect == Spec => []TypeOK
  BY CtrlTypesHold, PTL DEF CtrlTypes

\* A command that found nothing of an earlier one under way is never answered
\* with another result than its own, for any number of commands, lost frames
\* and answers out of time (FAWACP.cpp:3800-3917, mcuUart.cpp:3430-3456).
THEOREM AnswerCorrect == Spec => []AnswerMatches
  BY CtrlInvariant, PTL DEF AnswerInv

\* The alarm repeats at most once for each command and for each answer that
\* crosses a repetition, and not after an answer that crosses none
\* (mcuUart.cpp:3630-3643, 3298-3299).
THEOREM RepeatsCorrect == Spec => []RepeatsEarned
  BY CtrlInvariant, EarnedIs, PTL


-----------------------------------------------------------------------------
(* Frames: what the reader has of the frame on the line, if no byte of it  *)
(* was lost or altered.                                                    *)

FrameFlags == escapeCode \in BOOLEAN

FrameData ==
    /\ frames \in Seq(Bodies) /\ Len(frames) <= MaxFrames
    /\ line \in {"idle", "open", "body", "code", "close"} /\ at \in 0..Size
    /\ runState \in 0..1
    /\ pData \in Seq(Bytes) /\ Len(pData) <= Size /\ pos \in 0..Size
    /\ from \in 0..MaxFrames
    /\ damaged \subseteq 1..Len(frames) /\ delivered \subseteq 1..Len(frames)
    /\ damage \in 0..MaxDamage

\* The reader between two frames, or behind the first flag of one.
Synced == ~escapeCode /\ (runState = 1 => pos = 0)

ReaderOK ==
    /\ runState = 0 => pData = <<>> /\ pos = 0 /\ ~escapeCode
    /\ runState = 1 => Len(pData) >= 1 /\ (pos < Size => Len(pData) = pos + 1)
    /\ escapeCode => pos >= 1 /\ runState = 1
    /\ from <= Len(frames)

LineOK ==
    /\ line # "idle" => frames # <<>>
    /\ line \in {"body", "code"} => at \in 1..Len(Body)
    /\ line = "code" => Body[at] \in {Flag, Esc}

\* The reader has the first n bytes of the frame on the line.
HasRead(n) ==
    /\ runState = 1 /\ ~escapeCode /\ Len(pData) = n + 1 /\ pos = n
    /\ \A i \in 1..n : pData[i+1] = Body[i]
    /\ n > 0 => from = Len(frames)

\* ... and 0x7d, which stands for the next one.
HasEscape ==
    /\ runState = 1 /\ escapeCode /\ Len(pData) = at + 1 /\ pos = at
    /\ \A i \in 1..at-1 : pData[i+1] = Body[i]
    /\ from = Len(frames)

\* An intact frame is read from its first byte or skipped; one that follows an
\* intact one is read.
InStep ==
    Len(frames) \notin damaged =>
       /\ line = "idle" => Synced
       /\ line = "open" /\ Len(frames) - 1 \notin damaged => Synced
       /\ line = "body" => runState = 0 \/ HasRead(at - 1)
       /\ line = "code" => runState = 0 \/ HasEscape
       /\ line = "close" => runState = 0 \/ HasRead(Len(Body))
       /\ line \in {"body", "code", "close"} /\ Len(frames) - 1 \notin damaged
             => runState = 1

FrameInv == FrameTypeOK /\ ReaderOK /\ LineOK /\ InStep /\ LossIsLocal

LEMMA BytesAre == Bytes = {"7e", "7d", "01", "02", "x"} /\ Flag = "7e" /\ Esc = "7d"
  BY DEF Bytes, Flag, Esc

LEMMA InitFrame == FrameInit => FrameInv
<1> SUFFICES ASSUME FrameInit PROVE FrameInv
  OBVIOUS
<1>1. FrameFlags
  BY Zenon DEF FrameInit, FrameFlags
<1>2. FrameData
  BY McuFrameAssumption DEF FrameInit, FrameData
<1>3. ReaderOK /\ LineOK
  BY DEF FrameInit, ReaderOK, LineOK
<1>4. InStep
  BY DEF FrameInit, InStep, Synced
<1>5. LossIsLocal
  BY DEF FrameInit, LossIsLocal
<1> QED
  BY <1>1, <1>2, <1>3, <1>4, <1>5, Zenon DEF FrameInv, FrameTypeOK, FrameFlags, FrameData

\* The frame on the line has room in the reader's buffer.
LEMMA BodyFits ==
  ASSUME FrameData, frames # <<>>
  PROVE  Body \in Seq(Bytes) /\ Body \in Bodies /\ Len(Body) \in 1..Size-2
         /\ Len(frames) \in 1..MaxFrames
<1>1. Len(frames) \in Nat /\ Len(frames) # 0
  BY DEF FrameData
<1>2. Body \in Bodies
  BY <1>1 DEF FrameData, Body
<1> QED
  BY <1>1, <1>2, McuFrameAssumption DEF FrameData

\* What is on the line, and what comes next.
LEMMA LineGoesOn ==
  ASSUME FrameData, LineOK, line # "idle", Advance, frames' = frames
  PROVE  /\ LineOK'
         /\ line' \in {"idle", "open", "body", "code", "close"} /\ at' \in 0..Size
         /\ line' # "open"
<1>1. Body \in Seq(Bytes) /\ Len(Body) \in 1..Size-2 /\ frames # <<>>
  BY BodyFits DEF LineOK
<1>2. Body' = Body
  BY DEF Body
<1>3. Size \in Nat
  BY McuFrameAssumption
<1> QED
  BY <1>1, <1>2, <1>3 DEF Advance, LineOK, FrameData

LEMMA OnWireIs ==
  ASSUME FrameData, LineOK, line # "idle"
  PROVE  /\ OnWire \in Bytes
         /\ OnWire = Flag <=> line \in {"open", "close"}
         /\ line = "body" => /\ Body[at] \in {Flag, Esc} => OnWire = Esc
                             /\ Body[at] \notin {Flag, Esc} => OnWire = Body[at]
         /\ line = "code" => OnWire = IF Body[at] = Flag THEN "02" ELSE "01"
<1>1. Body \in Seq(Bytes) /\ Len(Body) \in 1..Size-2
  BY BodyFits DEF LineOK
<1>2. line \in {"body", "code"} => Body[at] \in Bytes
  BY <1>1 DEF LineOK
<1>3. CASE line \in {"open", "close"}
  BY <1>3, BytesAre DEF OnWire
<1>4. CASE line = "code"
  BY <1>4, BytesAre DEF OnWire
<1>5. CASE line = "body"
  BY <1>2, <1>5, BytesAre DEF OnWire
<1> QED
  BY <1>3, <1>4, <1>5 DEF FrameData

\* A string of bytes with its last one replaced.
LEMMA LastReplaced ==
  ASSUME NEW s \in Seq(Bytes), Len(s) >= 1, NEW b \in Bytes
  PROVE  LET t == [s EXCEPT ![Len(s)] = b]
         IN  /\ t \in Seq(Bytes) /\ Len(t) = Len(s)
             /\ t[Len(s)] = b /\ \A i \in 1..Len(s)-1 : t[i] = s[i]
  BY DEF Bytes

\* Whatever byte is read, the reader's state stays a state of its own.
LEMMA ReaderReads ==
  ASSUME FrameInv, NEW b \in Bytes, Read(b), frames' = frames
  PROVE  /\ escapeCode' \in BOOLEAN /\ runState' \in 0..1
         /\ pData' \in Seq(Bytes) /\ Len(pData') <= Size /\ pos' \in 0..Size
         /\ from' \in 0..MaxFrames /\ delivered' \subseteq 1..Len(frames)
         /\ delivered \subseteq delivered'
         /\ ReaderOK'
<1> USE McuFrameAssumption, BytesAre
<1>0. FrameData /\ FrameFlags /\ ReaderOK /\ Room
  BY Zenon DEF FrameInv, FrameTypeOK, FrameData, FrameFlags, Read
<1>1. CASE Hunt(b)
  <2>1. b = Flag => <<b>> \in Seq(Bytes) /\ Len(<<b>>) = 1
    OBVIOUS
  <2>2. escapeCode' \in BOOLEAN /\ ~escapeCode /\ ~escapeCode' /\ runState = 0
    BY <1>0, <1>1, Zenon DEF Hunt, Skip, FrameFlags, ReaderOK
  <2>3. CASE b = Flag
    <3>1. /\ runState' = 1 /\ pData' = <<b>> /\ pos' = 0 /\ from' = 0
          /\ delivered' = delivered
      BY <1>1, <2>3 DEF Hunt
    <3>2. pData' \in Seq(Bytes) /\ Len(pData') = 1
      BY <2>1, <2>3, <3>1
    <3>3. ReaderOK'
      BY <1>0, <2>2, <3>1, <3>2 DEF FrameData, ReaderOK
    <3> QED
      BY <1>0, <2>2, <3>1, <3>2, <3>3 DEF FrameData, Room
  <2>4. CASE b # Flag
    BY <1>0, <1>1, <2>2, <2>4 DEF Hunt, Skip, FrameData, ReaderOK
  <2> QED
    BY <2>3, <2>4
<1>2. CASE FlagInFrame(b)
  <2>1. escapeCode' \in BOOLEAN
    BY <1>0, <1>2, Zenon DEF FlagInFrame, Skip, Restart, FrameFlags
  <2>2. delivered \subseteq delivered' /\ delivered' \subseteq 1..Len(frames)
    <3>1. delivered' = delivered \/ (from # 0 /\ delivered' = delivered \cup {from})
      BY <1>2 DEF FlagInFrame, Skip, Unpack
    <3>2. from # 0 => from \in 1..Len(frames)
      BY <1>0 DEF FrameData, ReaderOK
    <3> QED
      BY <1>0, <3>1, <3>2 DEF FrameData
  <2>3. CASE pos = 0
    BY <1>0, <1>2, <2>1, <2>2, <2>3 DEF FlagInFrame, Skip, FrameData, ReaderOK
  <2>4. CASE pos # 0
    <3>1. /\ ~escapeCode' /\ runState' = 0 /\ pData' = <<>> /\ pos' = 0
          /\ from' = 0
      BY <1>2, <2>4, Zenon DEF FlagInFrame, Restart
    <3> QED
      BY <1>0, <2>1, <2>2, <3>1 DEF FrameData, ReaderOK
  <2> QED
    BY <2>3, <2>4
<1>3. CASE Unescape(b)
  <2>1. escapeCode' \in BOOLEAN /\ escapeCode
    BY <1>0, <1>3, Zenon DEF Unescape, Restart, FrameFlags
  <2>2. CASE b \in {"01", "02"}
    <3>1. PICK c \in Bytes : pData' = [pData EXCEPT ![Len(pData)] = c]
      BY <1>3, <2>2 DEF Unescape
    <3>2. pData' \in Seq(Bytes) /\ Len(pData') = Len(pData)
      BY <1>0, <2>1, <3>1, LastReplaced DEF ReaderOK, FrameData
    <3> QED
      BY <1>0, <1>3, <2>1, <2>2, <3>2 DEF Unescape, FrameData, ReaderOK
  <2>3. CASE b \notin {"01", "02"}
    BY <1>0, <1>3, <2>1, <2>3 DEF Unescape, Restart, FrameData, ReaderOK
  <2> QED
    BY <2>2, <2>3
<1>4. CASE Store(b)
  <2>1. escapeCode' \in BOOLEAN
    BY <1>4, Zenon DEF Store
  <2>2. pos' = pos + 1 /\ pos \in 0..Size-1 /\ Len(pData) = pos + 1 /\ runState = 1
    BY <1>0, <1>4 DEF Store, FrameData, ReaderOK, Room
  <2>3. /\ pData' \in Seq(Bytes)
        /\ Len(pData') = IF pos' < Size THEN pos' + 1 ELSE Len(pData)
    BY <1>0, <1>4, <2>2 DEF Store, FrameData
  <2>4. from' \in 0..MaxFrames /\ from' <= Len(frames)
    BY <1>0, <1>4 DEF Store, FrameData, ReaderOK
  <2> QED
    BY <1>0, <1>4, <2>1, <2>2, <2>3, <2>4 DEF Store, FrameData, ReaderOK
<1> QED
  BY <1>1, <1>2, <1>3, <1>4 DEF Read

\* The first flag of a frame sets the reader up for it, or throws it out.
LEMMA OpenRead ==
  ASSUME FrameInv, Read(Flag)
  PROVE  /\ ~escapeCode'
         /\ runState' = 0 \/ (runState' = 1 /\ Len(pData') = 1 /\ pos' = 0)
         /\ Synced => runState' = 1
<1> USE BytesAre
<1>0. FrameData /\ FrameFlags /\ ReaderOK /\ Room
  BY Zenon DEF FrameInv, FrameTypeOK, FrameData, FrameFlags, Read
<1>1. CASE Hunt(Flag)
  <2>1. /\ runState' = 1 /\ pData' = <<Flag>> /\ pos' = 0 /\ ~escapeCode'
    BY <1>0, <1>1, Zenon DEF Hunt, ReaderOK
  <2> QED
    BY <2>1
<1>2. CASE FlagInFrame(Flag)
  <2>1. CASE pos = 0
    <3>1. ~escapeCode /\ runState = 1 /\ Len(pData) = 1
      BY <1>0, <1>2, <2>1 DEF ReaderOK, Room, FlagInFrame
    <3> QED
      BY <1>2, <2>1, <3>1 DEF FlagInFrame, Skip
  <2>2. CASE pos # 0
    BY <1>2, <2>2 DEF FlagInFrame, Restart, Synced
  <2> QED
    BY <2>1, <2>2
<1> QED
  BY <1>1, <1>2 DEF Read, Unescape, Store

\* The reader outside of a frame skips everything but a flag.
LEMMA SkipRead ==
  ASSUME FrameInv, NEW b \in Bytes \ {Flag}, Read(b), runState = 0
  PROVE  runState' = 0 /\ ~escapeCode'
  BY DEF Read, Hunt, Skip, FlagInFrame, Unescape, Store, FrameInv, ReaderOK

\* The last flag of a frame that has been read delivers it.
LEMMA CloseRead ==
  ASSUME FrameInv, frames # <<>>, Read(Flag), runState = 0 \/ HasRead(Len(Body))
  PROVE  /\ ~escapeCode' /\ (runState' = 1 => pos' = 0)
         /\ runState = 1 => Len(frames) \in delivered'
<1> USE BytesAre
<1>0. FrameData /\ FrameFlags /\ ReaderOK
  BY Zenon DEF FrameInv, FrameTypeOK, FrameData, FrameFlags
<1>1. CASE runState = 0
  <2>1. runState' = 1 /\ pos' = 0 /\ ~escapeCode'
    BY <1>0, <1>1 DEF Read, Hunt, FlagInFrame, Unescape, Store, ReaderOK
  <2> QED
    BY <1>1, <2>1
<1>2. CASE HasRead(Len(Body))
  <2>1. Body \in Seq(Bytes) /\ Len(Body) >= 1 /\ Len(frames) # 0
    BY <1>0, BodyFits
  <2>2. Tail(pData) = Body
    BY <1>0, <1>2, <2>1 DEF HasRead, FrameData
  <2>3. from = Len(frames) /\ pos # 0 /\ runState = 1
    BY <1>2, <2>1 DEF HasRead
  <2>4. frames[from] = Body
    BY <2>3 DEF Body
  <2>5. Unpack /\ Restart
    BY <2>3 DEF Read, Hunt, FlagInFrame, Unescape, Store
  <2>6. delivered' = delivered \cup {from}
    BY <2>1, <2>2, <2>3, <2>4, <2>5 DEF Unpack
  <2> QED
    BY <2>3, <2>5, <2>6 DEF Restart
<1> QED
  BY <1>1, <1>2

\* A byte in the frame is stored, or is the escape of the next one.
LEMMA BodyRead ==
  ASSUME FrameInv, line = "body", Read(OnWire), Advance, frames' = frames,
         HasRead(at - 1)
  PROVE  /\ runState' = 1
         /\ line' = "code" => HasEscape'
         /\ line' = "body" => HasRead(at - 1)'
         /\ line' = "close" => HasRead(Len(Body))'
<1> USE BytesAre
<1>0. FrameData /\ FrameFlags /\ ReaderOK /\ LineOK
  BY Zenon DEF FrameInv, FrameTypeOK, FrameData, FrameFlags
<1>1. /\ Body \in Seq(Bytes) /\ Len(Body) >= 1 /\ Body' = Body /\ at \in 1..Len(Body)
      /\ Len(frames) # 0
  BY <1>0, BodyFits DEF LineOK, Body
<1>2. /\ OnWire \in Bytes /\ OnWire # Flag
      /\ Body[at] \in {Flag, Esc} => OnWire = Esc
      /\ Body[at] \notin {Flag, Esc} => OnWire = Body[at]
  BY <1>0, OnWireIs
<1>3. /\ runState = 1 /\ ~escapeCode /\ Len(pData) = at /\ pos = at - 1
      /\ at \in Nat /\ at < Size
  <2>1. Len(Body) \in 1..Size-2 /\ Size \in Nat
    BY <1>0, <1>1, BodyFits, McuFrameAssumption
  <2>2. at \in Nat /\ at < Size
    BY <1>1, <2>1
  <2>3. Len(pData) = (at - 1) + 1 /\ pos = at - 1 /\ runState = 1 /\ ~escapeCode
    BY Zenon DEF HasRead
  <2> QED
    BY <2>2, <2>3
<1>4. Store(OnWire)
  BY <1>2, <1>3 DEF Read, Hunt, FlagInFrame, Unescape
<1>5. /\ runState' = 1 /\ (escapeCode' <=> OnWire = Esc)
      /\ pData' = Append(pData, OnWire) /\ pos' = at
      /\ from' = IF pos = 0 THEN Len(frames) ELSE from
  <2>1. pos' = at
    BY <1>3, <1>4 DEF Store
  <2>2. pos' < Size
    BY <1>3, <2>1
  <2> QED
    BY <1>3, <1>4, <2>1, <2>2, Zenon DEF Store
<1>6. /\ Len(pData') = at + 1 /\ pData'[at + 1] = OnWire
      /\ \A i \in 1..at : pData'[i] = pData[i]
  BY <1>0, <1>1, <1>2, <1>3, <1>5 DEF FrameData
<1>7. \A i \in 1..at-1 : pData'[i+1] = Body[i]
  BY <1>1, <1>6 DEF HasRead
<1>8. from' = Len(frames)
  BY <1>1, <1>3, <1>5 DEF HasRead
<1>9. CASE Body[at] \in {Flag, Esc}
  <2>1. line' = "code" /\ at' = at /\ escapeCode'
    BY <1>2, <1>5, <1>9 DEF Advance
  <2> QED
    BY <1>1, <1>5, <1>6, <1>7, <1>8, <2>1 DEF HasEscape
<1>10. CASE Body[at] \notin {Flag, Esc}
  <2>1. /\ ~escapeCode' /\ OnWire = Body[at]
        /\ IF at < Len(Body) THEN line' = "body" /\ at' = at + 1 ELSE line' = "close"
    BY <1>2, <1>5, <1>10 DEF Advance
  <2>2. \A i \in 1..at : pData'[i+1] = Body[i]
    BY <1>1, <1>6, <1>7, <2>1
  <2>3. line' = "body" => HasRead(at - 1)'
    BY <1>1, <1>5, <1>6, <1>8, <2>1, <2>2 DEF HasRead
  <2>4. line' = "close" => HasRead(Len(Body))'
    BY <1>1, <1>5, <1>6, <1>8, <2>1, <2>2 DEF HasRead
  <2> QED
    BY <1>5, <2>1, <2>3, <2>4
<1> QED
  BY <1>9, <1>10

\* The code behind 0x7d says which byte was meant.
LEMMA CodeRead ==
  ASSUME FrameInv, line = "code", Read(OnWire), Advance, frames' = frames, HasEscape
  PROVE  /\ runState' = 1 /\ line' \in {"body", "close"}
         /\ line' = "body" => HasRead(at - 1)'
         /\ line' = "close" => HasRead(Len(Body))'
<1> USE BytesAre
<1>0. FrameData /\ FrameFlags /\ ReaderOK /\ LineOK
  BY Zenon DEF FrameInv, FrameTypeOK, FrameData, FrameFlags
<1>1. /\ Body \in Seq(Bytes) /\ Len(Body) >= 1 /\ Body' = Body /\ at \in 1..Len(Body)
      /\ Body[at] \in {Flag, Esc}
  BY <1>0, BodyFits DEF LineOK, Body
<1>2. OnWire = IF Body[at] = Flag THEN "02" ELSE "01"
  BY <1>0, OnWireIs
<1>3. /\ runState = 1 /\ escapeCode /\ Len(pData) = at + 1 /\ pos = at
      /\ from = Len(frames)
  BY DEF HasEscape
<1>4. Unescape(OnWire)
  BY <1>2, <1>3 DEF Read, Hunt, FlagInFrame, Store
<1>5. /\ runState' = 1 /\ ~escapeCode' /\ from' = Len(frames) /\ pos' = at
      /\ pData' = [pData EXCEPT ![Len(pData)] = Body[at]]
  BY <1>1, <1>2, <1>3, <1>4 DEF Unescape
<1>6. Body[at] \in Bytes
  BY <1>1
<1>7. /\ Len(pData') = at + 1 /\ pData'[at + 1] = Body[at]
      /\ \A i \in 1..at : pData'[i] = pData[i]
  BY <1>0, <1>1, <1>3, <1>5, <1>6, LastReplaced DEF FrameData
<1>8. \A i \in 1..at : pData'[i+1] = Body[i]
  BY <1>1, <1>7 DEF HasEscape
<1>9. IF at < Len(Body) THEN line' = "body" /\ at' = at + 1 ELSE line' = "close"
  BY DEF Advance
<1>10. line' = "body" => HasRead(at - 1)'
  BY <1>1, <1>5, <1>7, <1>8, <1>9 DEF HasRead
<1>11. line' = "close" => HasRead(Len(Body))'
  BY <1>1, <1>5, <1>7, <1>8, <1>9 DEF HasRead
<1> QED
  BY <1>5, <1>9, <1>10, <1>11

LEMMA ReadByteKeeps ==
  ASSUME FrameInv, ReadByte
  PROVE  FrameInv'
<1>0. FrameData /\ FrameFlags /\ ReaderOK /\ LineOK /\ InStep /\ LossIsLocal
  BY Zenon DEF FrameInv, FrameTypeOK, FrameData, FrameFlags
<1>1. /\ line # "idle" /\ Read(OnWire) /\ Advance
      /\ UNCHANGED <<frames, damaged, damage>>
  BY DEF ReadByte
<1>2. OnWire \in Bytes /\ (OnWire = Flag <=> line \in {"open", "close"})
  BY <1>0, <1>1, OnWireIs
<1>3. /\ FrameFlags' /\ runState' \in 0..1
      /\ pData' \in Seq(Bytes) /\ Len(pData') <= Size /\ pos' \in 0..Size
      /\ from' \in 0..MaxFrames /\ delivered' \subseteq 1..Len(frames)
      /\ delivered \subseteq delivered' /\ ReaderOK'
  BY <1>1, <1>2, ReaderReads, Zenon DEF FrameFlags
<1>4. /\ LineOK' /\ line' \in {"idle", "open", "body", "code", "close"}
      /\ at' \in 0..Size /\ line' # "open"
  BY <1>0, <1>1, LineGoesOn
<1>5. FrameData'
  BY <1>0, <1>1, <1>3, <1>4 DEF FrameData
<1>6. frames # <<>> /\ Body' = Body
  BY <1>0, <1>1 DEF LineOK, Body
<1>7. ASSUME Len(frames) \notin damaged, line = "open"
      PROVE  /\ line' = "body" /\ (runState' = 0 \/ HasRead(at - 1)')
             /\ Len(frames) - 1 \notin damaged => runState' = 1
  <2>1. line' = "body" /\ at' = 1
    BY <1>7, <1>1 DEF Advance
  <2>2. /\ ~escapeCode'
        /\ runState' = 0 \/ (runState' = 1 /\ Len(pData') = 1 /\ pos' = 0)
        /\ Synced => runState' = 1
    BY <1>1, <1>2, <1>7, OpenRead
  <2> QED
    BY <1>0, <1>7, <2>1, <2>2 DEF InStep, HasRead
<1>8. ASSUME Len(frames) \notin damaged, line \in {"body", "code"}
      PROVE  /\ line' \in {"body", "code", "close"}
             /\ line' = "body" => runState' = 0 \/ HasRead(at - 1)'
             /\ line' = "code" => runState' = 0 \/ HasEscape'
             /\ line' = "close" => runState' = 0 \/ HasRead(Len(Body))'
             /\ Len(frames) - 1 \notin damaged => runState' = 1
  <2>1. line' \in {"body", "code", "close"}
    BY <1>1, <1>8 DEF Advance
  <2>2. CASE runState = 0
    <3>1. runState' = 0
      BY <1>1, <1>2, <1>8, <2>2, SkipRead
    <3> QED
      BY <1>0, <1>8, <2>1, <2>2, <3>1 DEF InStep
  <2>3. CASE runState # 0 /\ line = "body"
    BY <1>0, <1>1, <1>8, <2>1, <2>3, BodyRead DEF InStep
  <2>4. CASE runState # 0 /\ line = "code"
    BY <1>0, <1>1, <1>8, <2>1, <2>4, CodeRead DEF InStep
  <2> QED
    BY <1>8, <2>2, <2>3, <2>4
<1>9. ASSUME Len(frames) \notin damaged, line = "close"
      PROVE  /\ line' = "idle" /\ Synced'
             /\ Len(frames) - 1 \notin damaged => Len(frames) \in delivered'
  <2>1. runState = 0 \/ HasRead(Len(Body))
    BY <1>0, <1>9 DEF InStep
  <2>2. /\ ~escapeCode' /\ (runState' = 1 => pos' = 0)
        /\ runState = 1 => Len(frames) \in delivered'
    BY <1>1, <1>2, <1>6, <1>9, <2>1, CloseRead
  <2>3. line' = "idle"
    BY <1>1, <1>9 DEF Advance
  <2> QED
    BY <1>0, <1>9, <2>2, <2>3 DEF InStep, Synced
<1>10. line \in {"open", "body", "code", "close"}
  BY <1>0, <1>1 DEF FrameData
<1>11. InStep'
  BY <1>1, <1>4, <1>7, <1>8, <1>9, <1>10 DEF InStep
<1>12. LossIsLocal'
  <2> SUFFICES ASSUME NEW k \in 1..Len(frames), k < Len(frames) \/ line' = "idle",
                      {k-1, k} \cap damaged = {}
               PROVE  k \in delivered'
    BY <1>1 DEF LossIsLocal
  <2>1. CASE k < Len(frames)
    BY <1>0, <1>3, <2>1 DEF LossIsLocal
  <2>2. CASE k = Len(frames)
    <3>1. line' = "idle" /\ k \notin damaged /\ k - 1 \notin damaged
      BY <2>2
    <3> QED
      BY <1>7, <1>8, <1>9, <1>10, <2>2, <3>1
  <2>3. Len(frames) \in Nat
    BY <1>0 DEF FrameData
  <2> QED
    BY <2>1, <2>2, <2>3
<1> QED
  BY <1>3, <1>4, <1>5, <1>11, <1>12, Zenon DEF FrameInv, FrameTypeOK, FrameFlags, FrameData

LEMMA McuSendsKeeps ==
  ASSUME FrameInv, McuSends
  PROVE  FrameInv'
<1>0. FrameData /\ FrameFlags /\ ReaderOK /\ InStep /\ LossIsLocal
  BY Zenon DEF FrameInv, FrameTypeOK, FrameData, FrameFlags
<1>1. PICK body \in Bodies : frames' = Append(frames, body)
  BY DEF McuSends
<1>2. /\ line = "idle" /\ line' = "open" /\ at' = 0 /\ Len(frames) < MaxFrames
      /\ UNCHANGED <<runState, escapeCode, pData, pos, from, damaged, delivered,
                     damage>>
  BY DEF McuSends
<1>3. /\ frames' \in Seq(Bodies) /\ Len(frames') = Len(frames) + 1
      /\ Len(frames) \in Nat /\ frames' # <<>>
  BY <1>0, <1>1 DEF FrameData
<1>4. FrameFlags'
  BY <1>0, <1>2, Zenon DEF FrameFlags
<1>5. FrameData'
  BY <1>0, <1>2, <1>3, McuFrameAssumption DEF FrameData
<1>6. ReaderOK' /\ LineOK'
  BY <1>0, <1>2, <1>3 DEF ReaderOK, LineOK, FrameData
<1>7. InStep'
  BY <1>0, <1>2, <1>3 DEF InStep, Synced
<1>8. LossIsLocal'
  BY <1>0, <1>2, <1>3 DEF LossIsLocal
<1> QED
  BY <1>4, <1>5, <1>6, <1>7, <1>8, Zenon DEF FrameInv, FrameTypeOK, FrameFlags, FrameData

\* The buffer never fills up in a frame that follows an intact one.
LEMMA FullKeeps ==
  ASSUME FrameInv, Full
  PROVE  FrameInv'
<1>0. FrameData /\ FrameFlags /\ ReaderOK /\ LineOK /\ InStep /\ LossIsLocal
  BY Zenon DEF FrameInv, FrameTypeOK, FrameData, FrameFlags
<1>1. /\ runState' = 0 /\ ~escapeCode' /\ escapeCode' = FALSE
      /\ pData' = <<>> /\ pos' = 0 /\ from' = 0
      /\ UNCHANGED <<frames, line, at, damaged, delivered, damage>> /\ ~Room
  BY Zenon DEF Full, Restart, onLine
<1>2. FrameFlags'
  BY <1>1, Zenon DEF FrameFlags
<1>3. FrameData' /\ ReaderOK' /\ LineOK'
  <2>1. FrameData'
    BY <1>0, <1>1, McuFrameAssumption DEF FrameData
  <2>2. ReaderOK'
    BY <1>0, <1>1 DEF ReaderOK, FrameData
  <2>3. LineOK'
    BY <1>0, <1>1 DEF LineOK, Body
  <2> QED
    BY <2>1, <2>2, <2>3
<1>4. ASSUME frames # <<>>, line \in {"body", "code", "close"}, runState = 1
      PROVE  Len(frames) \in damaged
  <2>1. Len(Body) \in 1..Size-2 /\ at \in Nat /\ pos \in Nat
    BY <1>0, <1>4, BodyFits DEF FrameData
  <2>2. line \in {"body", "code"} => at <= Len(Body)
    BY <1>0, <1>4, <2>1 DEF LineOK
  <2>3. Len(frames) \notin damaged => pos <= Len(Body)
    BY <1>0, <1>4, <2>1, <2>2 DEF InStep, HasRead, HasEscape
  <2> QED
    BY <1>1, <2>1, <2>3, McuFrameAssumption DEF Room
<1>5. InStep'
  BY <1>0, <1>1, <1>4 DEF InStep, Synced, LineOK, FrameData
<1>6. LossIsLocal'
  BY <1>0, <1>1 DEF LossIsLocal
<1> QED
  BY <1>2, <1>3, <1>5, <1>6, Zenon DEF FrameInv, FrameTypeOK, FrameFlags, FrameData

\* A frame of which a byte was lost or altered owes nothing.
LEMMA DamageKeeps ==
  ASSUME FrameInv, LoseByte \/ AlterByte
  PROVE  FrameInv'
<1>0. FrameData /\ FrameFlags /\ ReaderOK /\ LineOK /\ LossIsLocal
  BY Zenon DEF FrameInv, FrameTypeOK, FrameData, FrameFlags
<1>1. /\ line # "idle" /\ damage < MaxDamage /\ damage' = damage + 1
      /\ damaged' = damaged \cup {Len(frames)} /\ Advance /\ frames' = frames
  BY DEF LoseByte, AlterByte, Damage
<1>2. /\ FrameFlags' /\ runState' \in 0..1
      /\ pData' \in Seq(Bytes) /\ Len(pData') <= Size /\ pos' \in 0..Size
      /\ from' \in 0..MaxFrames /\ delivered' \subseteq 1..Len(frames)
      /\ delivered \subseteq delivered' /\ ReaderOK'
  <2>1. CASE LoseByte
    <3>1. UNCHANGED <<runState, escapeCode, pData, pos, from, delivered>>
      BY <2>1 DEF LoseByte
    <3>2. FrameFlags'
      BY <1>0, <3>1, Zenon DEF FrameFlags
    <3> QED
      BY <1>0, <1>1, <3>1, <3>2 DEF FrameData, ReaderOK
  <2>2. CASE AlterByte
    <3>1. PICK b \in Bytes : Read(b)
      BY <2>2 DEF AlterByte
    <3> QED
      BY <1>1, <3>1, ReaderReads, Zenon DEF FrameFlags
  <2> QED
    BY <2>1, <2>2
<1>3. /\ LineOK' /\ line' \in {"idle", "open", "body", "code", "close"} /\ at' \in 0..Size
  BY <1>0, <1>1, LineGoesOn
<1>4. Len(frames) \in 1..MaxFrames
  BY <1>0, <1>1, BodyFits DEF LineOK
<1>5. damage' \in 0..MaxDamage
  BY <1>0, <1>1, McuFrameAssumption DEF FrameData
<1>6. FrameData'
  <2>1. damaged' \subseteq 1..Len(frames)
    <3>1. Len(frames) \in 1..Len(frames)
      BY <1>4
    <3>2. damaged \subseteq 1..Len(frames)
      BY <1>0 DEF FrameData
    <3> QED
      BY <1>1, <3>1, <3>2, Zenon
  <2> QED
    BY <1>0, <1>1, <1>2, <1>3, <1>5, <2>1 DEF FrameData
<1>7. InStep'
  BY <1>1 DEF InStep
<1>8. LossIsLocal'
  BY <1>0, <1>1, <1>2, <1>4 DEF LossIsLocal
<1> QED
  BY <1>2, <1>3, <1>6, <1>7, <1>8, Zenon DEF FrameInv, FrameTypeOK, FrameFlags, FrameData

LEMMA FrameInductive == FrameInv /\ [FrameNext]_frameVars => FrameInv'
<1>1. ASSUME FrameInv, UNCHANGED frameVars PROVE FrameInv'
  BY <1>1, Zenon DEF frameVars, onLine, FrameInv, FrameTypeOK, ReaderOK, LineOK, Body,
     InStep, Synced, HasRead, HasEscape, LossIsLocal
<1> QED
  BY <1>1, McuSendsKeeps, ReadByteKeeps, FullKeeps, DamageKeeps DEF FrameNext

LEMMA FrameInvariant == FrameSpec => []FrameInv
  BY InitFrame, FrameInductive, PTL DEF FrameSpec

\* Whatever bytes come, the reader's buffer holds no more than it has room for,
\* and the pointer it writes through is at most one byte behind it: that byte is
\* written as well (mcuUart.cpp:495-575; NoOverrun in McuFrame).
THEOREM FrameTypeCorrect == FrameSpec => []FrameTypeOK
  BY FrameInvariant, PTL DEF FrameInv

\* A damaged frame costs itself and at most the one behind it, for frames of
\* any content and any number of bytes lost or altered (mcuUart.cpp:509-558).
THEOREM LossCorrect == FrameSpec => []LossIsLocal
  BY FrameInvariant, PTL DEF FrameInv

=============================================================================

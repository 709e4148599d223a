------------------------------ MODULE McuFrame ------------------------------
(***************************************************************************)
(* The frames of the MCU on the UART, as mcuUart.cpp reads them one byte   *)
(* at a time: a frame lies between two flags 0x7e, and a 0x7e or 0x7d in   *)
(* it is sent as 0x7d 0x02 or 0x7d 0x01. The flag that ends a frame and    *)
(* the one that starts the next look the same, and bytes may be lost or    *)
(* altered on the way: after a loss the reader may take one for the other. *)
(* The length and the CRC are abstracted to what they find out: whether    *)
(* what was read is what was sent. A byte written behind the buffer is in  *)
(* the padding of malloc(BUFF_LEN): it is lost, and nothing else changes.  *)
(***************************************************************************)
EXTENDS Integers, Sequences

CONSTANTS
    Bodies,    \* contents a frame may have, without flags and escapes
    Size,      \* BUFF_LEN: bytes the reader has room for
    MaxFrames, \* bound: frames the MCU sends
    MaxDamage  \* bound: bytes lost or altered

Flag == "7e"
Esc == "7d"
Bytes == {Flag, Esc, "01", "02", "x"}

ASSUME McuFrameAssumption ==
    /\ \A b \in Bodies : b \in Seq(Bytes) /\ Len(b) \in 1..Size-2
    /\ Size \in Nat /\ MaxFrames \in Nat /\ MaxDamage \in Nat

VARIABLES
    frames,     \* history: the contents of the frames sent
    line, at,   \* what of the last frame is to be read next, of which byte
    runState, escapeCode,
    pData, pos, \* what has been read, without escapes; where the last byte is
    from,       \* the frame its first byte after the flag belongs to
    damaged,    \* history: frames of which a byte was lost or altered
    delivered,  \* history: frames that passed the length and CRC checks
    damage

onLine == <<line, at>>
frameVars == <<frames, onLine, runState, escapeCode, pData, pos, from,
               damaged, delivered, damage>>

\* pos may lie one behind the buffer: see NoOverrun.
FrameTypeOK ==
    /\ frames \in Seq(Bodies) /\ Len(frames) <= MaxFrames
    /\ line \in {"idle", "open", "body", "code", "close"} /\ at \in 0..Size
    /\ runState \in 0..1 /\ escapeCode \in BOOLEAN
    /\ pData \in Seq(Bytes) /\ Len(pData) <= Size /\ pos \in 0..Size
    /\ from \in 0..MaxFrames
    /\ damaged \subseteq 1..Len(frames) /\ delivered \subseteq 1..Len(frames)
    /\ damage \in 0..MaxDamage

FrameInit ==
    /\ frames = <<>> /\ line = "idle" /\ at = 0
    /\ runState = 0 /\ escapeCode = FALSE
    /\ pData = <<>> /\ pos = 0 /\ from = 0
    /\ damaged = {} /\ delivered = {} /\ damage = 0

-----------------------------------------------------------------------------
(* What escape_mcuUart_data() puts on the UART for a frame; the MCU does   *)
(* the same (outside the repository).                                      *)

Body == frames[Len(frames)]

\* The byte that is to be read next: 0x7d and a code stand for a flag or 0x7d.
OnWire ==
    CASE line = "body" /\ Body[at] \notin {Flag, Esc} -> Body[at]
      [] line = "body" /\ Body[at] \in {Flag, Esc} -> Esc
      [] line = "code" -> IF Body[at] = Flag THEN "02" ELSE "01"
      [] line \in {"open", "close"} -> Flag

\* ... and what is next after it.
Advance ==
    \/ line = "open" /\ line' = "body" /\ at' = 1
    \/ line = "body" /\ Body[at] \in {Flag, Esc} /\ line' = "code" /\ at' = at
    \/ /\ line = "code" \/ (line = "body" /\ Body[at] \notin {Flag, Esc})
       /\ IF at < Len(Body) THEN line' = "body" /\ at' = at + 1
                            ELSE line' = "close" /\ at' = 0
    \/ line = "close" /\ line' = "idle" /\ at' = 0

McuSends ==
    /\ line = "idle" /\ Len(frames) < MaxFrames
    /\ \E body \in Bodies : frames' = Append(frames, body)
    /\ line' = "open" /\ at' = 0
    /\ UNCHANGED <<runState, escapeCode, pData, pos, from, damaged, delivered,
                   damage>>

-----------------------------------------------------------------------------
(* checkMcuUartData()                                                      *)

\* The next call of checkMcuUartData() starts from here.
Restart ==
    /\ runState' = 0 /\ escapeCode' = FALSE
    /\ pData' = <<>> /\ pos' = 0 /\ from' = 0

Skip == UNCHANGED <<runState, escapeCode, pData, pos, from, delivered>>

\* Outside a frame everything up to a flag is skipped.
Hunt(b) ==
    /\ runState = 0
    /\ IF b = Flag
       THEN /\ runState' = 1 /\ pData' = <<b>> /\ pos' = 0 /\ from' = 0
            /\ UNCHANGED <<escapeCode, delivered>>
       ELSE Skip

\* unpackMcuUartData(): a frame of another length or with another CRC than
\* the one sent is dropped; a good one goes to the handler of its command.
Unpack ==
    delivered' = IF from # 0 /\ Tail(pData) = frames[from]
                 THEN delivered \cup {from} ELSE delivered

\* Mutant of FlagInFrame: a second flag ends an empty frame.
FlagEnds(b) ==
    /\ runState = 1 /\ b = Flag
    /\ Unpack /\ Restart

\* A flag behind a flag starts the frame again; any other ends it.
FlagInFrame(b) ==
    /\ runState = 1 /\ b = Flag
    /\ IF pos = 0 THEN Skip ELSE Unpack /\ Restart

\* The byte behind 0x7d says which byte was meant; if it says neither, the
\* frame is given up.
Unescape(b) ==
    /\ runState = 1 /\ b # Flag /\ escapeCode
    /\ IF b \in {"01", "02"}
       THEN /\ pData' = [pData EXCEPT ![Len(pData)] =
                             IF b = "01" THEN Esc ELSE Flag]
            /\ escapeCode' = FALSE
            /\ UNCHANGED <<runState, pos, from>>
       ELSE Restart
    /\ UNCHANGED delivered

\* The byte goes behind the last one, be there room for it or not.
Store(b) ==
    /\ runState = 1 /\ b # Flag /\ ~escapeCode
    /\ escapeCode' = (b = Esc)
    /\ pos' = pos + 1
    /\ pData' = IF pos' < Size THEN Append(pData, b) ELSE pData
    /\ from' = IF pos = 0 THEN Len(frames) ELSE from
    /\ UNCHANGED <<runState, delivered>>

\* Mutant of Room: the check lets one more byte in.
RoomForOneMore == pos <= Size

\* The check before each read() is passed when pos is at the last byte.
Room == pos < Size

Read(b) == Room /\ (Hunt(b) \/ FlagInFrame(b) \/ Unescape(b) \/ Store(b))

ReadByte ==
    /\ line # "idle" /\ Read(OnWire)
    /\ Advance
    /\ UNCHANGED <<frames, damaged, damage>>

\* The buffer is full: the function returns without a frame.
Full ==
    /\ ~Room /\ Restart
    /\ UNCHANGED <<frames, onLine, damaged, delivered, damage>>

-----------------------------------------------------------------------------
(* The line                                                                *)

Damage ==
    /\ line # "idle" /\ damage < MaxDamage
    /\ damage' = damage + 1
    /\ damaged' = damaged \cup {Len(frames)}
    /\ Advance
    /\ UNCHANGED frames

LoseByte ==
    /\ Damage
    /\ UNCHANGED <<runState, escapeCode, pData, pos, from, delivered>>

AlterByte ==
    /\ Damage
    /\ \E b \in Bytes \ {OnWire} : Read(b)

FrameNext == McuSends \/ ReadByte \/ Full \/ LoseByte \/ AlterByte

FrameSpec == FrameInit /\ [][FrameNext]_frameVars

-----------------------------------------------------------------------------
\* A damaged frame costs itself and at most the one behind it: every frame
\* that is intact and follows an intact one has been delivered when its last
\* byte has been read (mcuUart.cpp:509-558).
LossIsLocal ==
    \A k \in 1..Len(frames) :
        (k < Len(frames) \/ line = "idle") /\ {k-1, k} \cap damaged = {}
            => k \in delivered

\* Known deviation: the check of the size (mcuUart.cpp:505) keeps what is
\* written inside the buffer (malloc at :447, writes at :531 and :552).
NoOverrun == runState = 1 => pos < Size
=============================================================================

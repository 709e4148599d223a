------------------------------ MODULE IviRing ------------------------------
(***************************************************************************)
(* The ring buffer between the thread that receives from the head unit     *)
(* (IVI) and the thread that cuts frames out of it (IVI_Communication.cpp).*)
(* The two share CYCLE_BUF_ST without a lock: each has its own offset, and *)
(* both update using_size, which is a load and a store.                    *)
(*                                                                         *)
(* The head unit sends frames: a head of HeadLen bytes that starts with    *)
(* MagicLen fixed bytes and has the length of the data in it, the data and *)
(* a checksum byte. A byte is its place in the stream of all frames.       *)
(***************************************************************************)
EXTENDS Integers, Sequences

CONSTANTS
    Size,      \* buf_size (2048)
    MaxRead,   \* BUFFER_SIZE, the most one recv() hands over (1024)
    HeadLen,   \* DATAHEADLEN (10)
    MagicLen,  \* fixed bytes of a head (4); the length follows them
    Payloads,  \* bound: lengths of data in a frame
    Frames     \* bound: frames the head unit sends

ASSUME RingAssumption ==
    /\ Size \in Nat \ {0} /\ MaxRead \in Nat \ {0} /\ Frames \in Nat
    /\ MagicLen \in Nat \ {0} /\ HeadLen \in Nat /\ MagicLen < HeadLen
    /\ Payloads \subseteq Nat
    /\ \A d \in Payloads : HeadLen + d + 1 <= Size

VARIABLES
    start,       \* start[k]: place of the first byte of frame k in the stream
    sent,        \* bytes of the stream received from the socket
    ring,        \* the bytes in the buffer, 0 where none was written yet
    tx_offset, rx_offset, using_size,
    wpc, wlen, wtmp,    \* receiving thread: place, bytes to add, value loaded
    rpc, rlen, rtmp,    \* unpacking thread: place, bytes to take, value loaded
    frame,       \* frame in the bytes read, 0: none with a right checksum
    handed,      \* frames handed to unpack_Protocol_Analysis
    lost,        \* an update of using_size was lost
    torn         \* bytes were dropped, or a head lay across the end of the ring

offsets == <<tx_offset, rx_offset>>
writer == <<wpc, wlen, wtmp>>
reader == <<rpc, rlen, rtmp, frame>>
vars == <<start, sent, ring, offsets, using_size, writer, reader, handed, lost,
          torn>>

Cells == 0..Size-1

-----------------------------------------------------------------------------
(* The stream.                                                             *)

\* Frames of any lengths, one behind the other, and where the last one ends.
Streams ==
    {s \in [1..Frames+1 -> 1..Frames*Size+1] :
        /\ s[1] = 1
        /\ \A j, k \in 1..Frames+1 : j < k => s[j] < s[k]
        /\ \A k \in 1..Frames : s[k+1] - s[k] - HeadLen - 1 \in Payloads}
LenOf(k) == start[k+1] - start[k] - HeadLen - 1
Total == start[Frames+1] - 1

\* Frame of a byte, and place in it, counted from 0.
FrameOf(b) == CHOOSE k \in 1..Frames : start[k] <= b /\ b < start[k+1]
PlaceOf(b) == b - start[FrameOf(b)]

TypeOK ==
    /\ start \in Streams
    /\ sent \in 0..Total
    /\ ring \in [Cells -> Nat]
    /\ wpc \in {"recv", "load", "store"}
    /\ rpc \in {"look", "read", "load", "store", "unpack"}
    /\ wlen \in 0..MaxRead /\ rlen \in 0..Size
    /\ wtmp \in 0..Size /\ rtmp \in 0..Size
    /\ frame \in 0..Frames /\ handed \subseteq 1..Frames
    /\ lost \in BOOLEAN /\ torn \in BOOLEAN

Init ==
    /\ start \in Streams
    /\ sent = 0
    /\ ring = [c \in Cells |-> 0]
    /\ tx_offset = 0 /\ rx_offset = 0 /\ using_size = 0
    /\ wpc = "recv" /\ wlen = 0 /\ wtmp = 0
    /\ rpc = "look" /\ rlen = 0 /\ rtmp = 0 /\ frame = 0
    /\ handed = {} /\ lost = FALSE /\ torn = FALSE

-----------------------------------------------------------------------------
\* Mutant of Advance: an offset may stay behind the last byte.
AdvancePast(o, n) == IF o + n <= Size THEN o + n ELSE o + n - Size

\* An offset moved by n bytes: at the end it goes on at the head.
Advance(o, n) == IF o + n < Size THEN o + n ELSE o + n - Size

\* Mutant of Receive: dropped only if the ring is full.
ReceiveUnlessFull(n) ==
    /\ wpc = "recv" /\ sent + n <= Total
    /\ sent' = sent + n
    /\ IF Size = using_size
       THEN UNCHANGED <<tx_offset, wpc, wlen>>
       ELSE /\ tx_offset' = Advance(tx_offset, n)
            /\ wpc' = "load" /\ wlen' = n
    /\ UNCHANGED <<start, ring, rx_offset, using_size, wtmp, reader, handed, lost,
                   torn>>

\* Bytes received that fit are copied; all of them are dropped otherwise.
Receive(n) ==
    /\ wpc = "recv" /\ sent + n <= Total
    /\ sent' = sent + n
    /\ IF Size - using_size < n
       THEN /\ torn' = TRUE
            /\ UNCHANGED <<ring, tx_offset, wpc, wlen>>
       ELSE /\ ring' = [c \in Cells |->
                           LET i == IF c >= tx_offset THEN c - tx_offset
                                                      ELSE c - tx_offset + Size
                           IN  IF i < n THEN sent + 1 + i ELSE ring[c]]
            /\ tx_offset' = Advance(tx_offset, n)
            /\ wpc' = "load" /\ wlen' = n
            /\ UNCHANGED torn
    /\ UNCHANGED <<start, rx_offset, using_size, wtmp, reader, handed, lost>>

\* The head unit connects again: it begins with a new frame, what it had not
\* sent of the last one never comes, and what it had sent stays in the ring.
Reconnect ==
    /\ wpc = "recv" /\ sent < Total /\ PlaceOf(sent + 1) # 0
    /\ sent' = start[FrameOf(sent + 1) + 1] - 1
    /\ torn' = TRUE
    /\ UNCHANGED <<start, ring, offsets, using_size, writer, reader, handed, lost>>

\* using_size = len + using_size
WriterLoads ==
    /\ wpc = "load"
    /\ wtmp' = using_size
    /\ wpc' = "store"
    /\ UNCHANGED <<start, sent, ring, offsets, using_size, wlen, reader, handed,
                   lost, torn>>

\* Mutant of WriterStores: the value is not added to.
WriterSets ==
    /\ wpc = "store"
    /\ using_size' = wlen
    /\ lost' = (lost \/ using_size # wtmp)
    /\ wpc' = "recv" /\ wlen' = 0 /\ wtmp' = 0
    /\ UNCHANGED <<start, sent, ring, offsets, reader, handed, torn>>

WriterStores ==
    /\ wpc = "store"
    /\ using_size' = wtmp + wlen
    /\ lost' = (lost \/ using_size # wtmp)
    /\ wpc' = "recv" /\ wlen' = 0 /\ wtmp' = 0
    /\ UNCHANGED <<start, sent, ring, offsets, reader, handed, torn>>

-----------------------------------------------------------------------------
\* The byte n behind the reading offset. There is no way round the end of the
\* ring here: 0 stands for what lies behind it.
Peek(n) == IF rx_offset + n < Size THEN ring[rx_offset + n] ELSE 0

IsMagic(b, n) == b # 0 /\ PlaceOf(b) = n

\* Lengths the head may show: that of its frame, or whatever another byte or
\* one behind the ring stands for.
LengthsSeen ==
    IF IsMagic(Peek(MagicLen), MagicLen) THEN {LenOf(FrameOf(Peek(MagicLen)))}
                                         ELSE Payloads

SeesHead == \A n \in 0..MagicLen-1 : IsMagic(Peek(n), n)

\* A head lies across the end of the ring.
Across == rx_offset + MagicLen >= Size

Read(n) ==
    /\ rpc' = "read" /\ rlen' = n
    /\ UNCHANGED <<start, sent, ring, offsets, using_size, writer, rtmp, frame,
                   handed, lost>>

\* Mutant of LookAtHead: one byte too many is waited for.
LookTooFar(d) ==
    /\ rpc = "look" /\ using_size > HeadLen
    /\ SeesHead /\ d \in LengthsSeen
    /\ d < using_size - HeadLen - 1
    /\ torn' = (torn \/ Across)
    /\ Read(HeadLen + d + 1)

\* The loop over what is in the buffer: a frame that is there as a whole is
\* read, and one byte where no head is.
LookAtHead(d) ==
    /\ rpc = "look" /\ using_size > HeadLen
    /\ SeesHead /\ d \in LengthsSeen
    /\ d <= using_size - HeadLen - 1
    /\ torn' = (torn \/ Across)
    /\ Read(HeadLen + d + 1)

LookAtByte ==
    /\ rpc = "look" /\ using_size > HeadLen
    /\ ~SeesHead
    /\ torn' = (torn \/ Across)
    /\ Read(1)

\* The bytes the reading thread takes next.
Taken(n) == [i \in 1..n |-> ring[IF rx_offset + i - 1 < Size THEN rx_offset + i - 1
                                 ELSE rx_offset + i - 1 - Size]]

\* The checksum is right if the bytes are those of one frame.
Whole(k, bytes) ==
    /\ Len(bytes) = start[k+1] - start[k]
    /\ \A i \in 1..Len(bytes) : bytes[i] = start[k] + i - 1

CheckedFrame(bytes) ==
    LET whole == {k \in 1..Frames : Whole(k, bytes)}
    IN  IF whole = {} THEN 0 ELSE CHOOSE k \in whole : TRUE

\* cycle_read_buf: not more than there is.
ReadBytes ==
    /\ rpc = "read"
    /\ LET n == IF rlen > using_size THEN using_size ELSE rlen
       IN  /\ rlen' = n
           /\ rx_offset' = Advance(rx_offset, n)
           /\ frame' = IF rlen = 1 THEN 0 ELSE CheckedFrame(Taken(n))
    /\ rpc' = "load"
    /\ UNCHANGED <<start, sent, ring, tx_offset, using_size, writer, rtmp, handed,
                   lost, torn>>

ReaderLoads ==
    /\ rpc = "load"
    /\ rtmp' = using_size
    /\ rpc' = "store"
    /\ UNCHANGED <<start, sent, ring, offsets, using_size, writer, rlen, frame,
                   handed, lost, torn>>

\* Mutant of ReaderStores: the bytes taken are not subtracted.
ReaderKeeps ==
    /\ rpc = "store"
    /\ using_size' = rtmp
    /\ lost' = (lost \/ using_size # rtmp)
    /\ rpc' = (IF frame = 0 THEN "look" ELSE "unpack") /\ rlen' = 0 /\ rtmp' = 0
    /\ UNCHANGED <<start, sent, ring, offsets, writer, frame, handed, torn>>

ReaderStores ==
    /\ rpc = "store"
    /\ using_size' = rtmp - rlen
    /\ lost' = (lost \/ using_size # rtmp)
    /\ rpc' = (IF frame = 0 THEN "look" ELSE "unpack") /\ rlen' = 0 /\ rtmp' = 0
    /\ UNCHANGED <<start, sent, ring, offsets, writer, frame, handed, torn>>

Unpack ==
    /\ rpc = "unpack"
    /\ handed' = handed \cup {frame}
    /\ rpc' = "look" /\ frame' = 0
    /\ UNCHANGED <<start, sent, ring, offsets, using_size, writer, rlen, rtmp, lost,
                   torn>>

-----------------------------------------------------------------------------
Writer == \/ \E n \in 1..MaxRead : Receive(n)
          \/ Reconnect \/ WriterLoads \/ WriterStores

Reader == \/ \E d \in Payloads : LookAtHead(d)
          \/ LookAtByte \/ ReadBytes \/ ReaderLoads \/ ReaderStores \/ Unpack

Next == Writer \/ Reader

Spec == Init /\ [][Next]_vars

\* Both threads go on; the head unit sends all its frames.
FairSpec == Spec /\ WF_vars(Writer) /\ WF_vars(Reader)

-----------------------------------------------------------------------------
(* Properties.                                                             *)

\* Though each thread may undo the other's update of using_size, neither it
\* nor an offset ever leaves the bounds of the ring, so that no copy does: the
\* value a thread stores is at worst an old one, and the other thread's check
\* still covers it.
FillInRing == using_size \in 0..Size /\ tx_offset \in Cells /\ rx_offset \in Cells

\* Bytes come out as they went in until an update is lost.
Unread ==
    using_size - (IF rpc \in {"load", "store"} THEN rlen ELSE 0)
InQueue == IF lost THEN <<>> ELSE Taken(Unread)
Queue == INSTANCE ByteQueue WITH broken <- lost, queue <- InQueue
RingIsQueue == Queue!Spec

\* Until an update is lost, frames are handed on in the order they were sent,
\* and none twice, whatever bytes were dropped between them.
InOrder == [][~lost /\ rpc = "unpack" /\ rpc' = "look" => \A k \in handed : k < frame]_vars

\* A frame none of whose bytes was dropped and no head before which lay across
\* the end of the ring is handed on.
Delivered == <>(lost \/ torn \/ handed = 1..Frames)
=============================================================================

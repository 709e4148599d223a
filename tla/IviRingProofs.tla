--------------------------- MODULE IviRingProofs ---------------------------
(***************************************************************************)
(* Proofs about the ring, for a ring, frames and reads of any length and   *)
(* any number of frames. Its fill level and offsets stay in the ring       *)
(* although the two threads update using_size without a lock; until an     *)
(* update is lost the ring is a queue of bytes and hands frames on in      *)
(* their order.                                                            *)
(***************************************************************************)
EXTENDS IviRing, TLAPS, WellFoundedInduction

\* What the two threads know of using_size and keep for each other. The value
\* a thread is about to store is bounded like using_size itself.
Numbers ==
    /\ using_size \in Int /\ wlen \in Nat /\ wtmp \in Int
    /\ rlen \in Nat /\ rtmp \in Int

\* The writer has room for what it adds, in using_size and in its copy of it;
\* the level can only have fallen since it was loaded.
WriterFits ==
    /\ wpc = "load" => using_size + wlen <= Size
    /\ wpc = "store" => wtmp + wlen <= Size /\ using_size <= wtmp

\* The reader has the bytes it takes, likewise.
ReaderHas ==
    /\ rpc \in {"read", "load"} => rlen <= using_size
    /\ rpc = "store" => rlen <= rtmp /\ rtmp <= Size /\ rtmp - rlen <= using_size

\* And each with the value the other is about to store.
BothPending ==
    /\ wpc = "store" /\ rpc \in {"read", "load"} => rlen <= wtmp + wlen
    /\ wpc = "load" /\ rpc = "store" => rtmp - rlen + wlen <= Size
    /\ wpc = "store" /\ rpc = "store" => rtmp - rlen <= wtmp

Level == using_size \in 0..Size

Offsets == tx_offset \in Cells /\ rx_offset \in Cells

IInv == Numbers /\ Level /\ WriterFits /\ ReaderHas /\ BothPending /\ Offsets

\* An offset moved by no more than the size of the ring stays in the ring.
LEMMA AdvanceInRing ==
  ASSUME NEW o \in Cells, NEW n \in 0..Size
  PROVE  Advance(o, n) \in Cells
  BY RingAssumption DEF Advance, Cells

LEMMA InitIInv == Init => IInv
  BY RingAssumption DEF Init, IInv, Numbers, Level, WriterFits, ReaderHas,
     BothPending, Offsets, Cells

LEMMA Inductive == IInv /\ [Next]_vars => IInv'
<1> SUFFICES ASSUME IInv, [Next]_vars PROVE IInv'
  OBVIOUS
<1> USE RingAssumption DEF IInv, Numbers, Level, WriterFits, ReaderHas, BothPending,
        Offsets
<1>1. ASSUME NEW n \in 1..MaxRead, Receive(n) PROVE IInv'
  <2>1. CASE Size - using_size < n
    BY <1>1, <2>1 DEF Receive, offsets, reader
  <2>2. CASE ~(Size - using_size < n)
    <3>1. n \in 0..Size
      BY <2>2
    <3>2. /\ wpc = "recv" /\ wpc' = "load" /\ wlen' = n
          /\ tx_offset' = Advance(tx_offset, n)
          /\ UNCHANGED <<rx_offset, using_size, wtmp, rpc, rlen, rtmp>>
      BY <1>1, <2>2 DEF Receive, reader
    <3>3. Offsets'
      BY <3>1, <3>2, AdvanceInRing DEF Cells
    <3> QED
      BY <2>2, <3>1, <3>2, <3>3
  <2> QED
    BY <2>1, <2>2
<1>2. CASE Reconnect
  BY <1>2 DEF Reconnect, offsets, reader, writer
<1>3. CASE WriterLoads
  BY <1>3 DEF WriterLoads, offsets, reader
<1>4. CASE WriterStores
  BY <1>4 DEF WriterStores, offsets, reader
<1>5. ASSUME NEW n \in Nat, n <= using_size, rpc = "look", Read(n) PROVE IInv'
  BY <1>5 DEF Read, offsets, writer
<1>6. ASSUME NEW d \in Payloads, LookAtHead(d) PROVE IInv'
  <2>1. HeadLen + d + 1 \in Nat /\ HeadLen + d + 1 <= using_size
    BY <1>6 DEF LookAtHead
  <2> QED
    BY <1>5, <1>6, <2>1 DEF LookAtHead
<1>7. CASE LookAtByte
  <2>1. 1 <= using_size
    BY <1>7 DEF LookAtByte
  <2> QED
    BY <1>5, <1>7, <2>1 DEF LookAtByte
<1>8. CASE ReadBytes
  <2>1. rpc = "read" /\ ~(rlen > using_size) /\ rlen \in 0..Size
    BY <1>8 DEF ReadBytes
  <2>2. /\ rpc' = "load" /\ rlen' = rlen
        /\ rx_offset' = Advance(rx_offset, rlen)
        /\ UNCHANGED <<tx_offset, using_size, wpc, wlen, wtmp, rtmp>>
    BY <1>8, <2>1 DEF ReadBytes, writer
  <2>3. Offsets'
    BY <2>1, <2>2, AdvanceInRing DEF Cells
  <2> QED
    BY <2>1, <2>2, <2>3
<1>9. CASE ReaderLoads
  BY <1>9 DEF ReaderLoads, offsets, writer
<1>10. CASE ReaderStores
  BY <1>10 DEF ReaderStores, offsets, writer
<1>11. CASE Unpack
  BY <1>11 DEF Unpack, offsets, writer
<1>12. CASE UNCHANGED vars
  BY <1>12 DEF vars, offsets, writer, reader
<1> QED
  BY <1>1, <1>2, <1>3, <1>4, <1>6, <1>7, <1>8, <1>9, <1>10, <1>11, <1>12
     DEF Next, Writer, Reader

\* No copy into or out of the ring leaves it, whichever updates of the fill
\* level the two threads lose.
THEOREM FillCorrect == Spec => []FillInRing
<1>1. IInv => FillInRing
  BY DEF IInv, Level, Offsets, FillInRing
<1> QED
  BY InitIInv, Inductive, <1>1, PTL DEF Spec

-----------------------------------------------------------------------------
(* Types.                                                                  *)

\* A set of natural numbers has a least one.
LEMMA LeastOf ==
  ASSUME NEW S \in SUBSET Nat, S # {}
  PROVE  \E x \in S : \A y \in S : x <= y
<1> DEFINE R == OpToRel(<, Nat)
<1>1. \E x \in S : \A y \in S : ~(<<y, x>> \in R)
  BY NatLessThanWellFounded, WFMin
<1>2. \A x, y \in Nat : <<y, x>> \in R <=> y < x
  <2>1. R = {ss \in Nat \X Nat : ss[1] < ss[2]}
    BY Zenon DEF OpToRel
  <2> QED
    BY <2>1
<1> HIDE DEF R
<1>3. PICK x \in S : \A y \in S : ~(<<y, x>> \in R)
  BY <1>1
<1>4. ASSUME NEW y \in S PROVE x <= y
  <2>1. x \in Nat /\ y \in Nat
    BY <1>3
  <2>2. ~(y < x)
    BY <1>2, <1>3, <2>1, Zenon
  <2> QED
    BY <2>1, <2>2
<1> QED
  BY <1>4

\* Every byte of the stream belongs to a frame.
LEMMA FrameOfByte ==
  ASSUME start \in Streams, NEW b \in 1..Total
  PROVE  /\ FrameOf(b) \in 1..Frames
         /\ start[FrameOf(b)] <= b /\ b < start[FrameOf(b) + 1]
         /\ start[FrameOf(b) + 1] - 1 \in b..Total
<1> USE RingAssumption
<1> DEFINE S == {k \in 1..Frames : b < start[k+1]}
<1>1. \A k \in 1..Frames+1 : start[k] \in Nat
  BY DEF Streams
<1>2. Total \in Int /\ b < start[Frames+1]
  BY <1>1 DEF Total
<1>3. Frames # 0
  BY <1>1, <1>2 DEF Streams
<1>4. S \in SUBSET Nat /\ Frames \in S
  BY <1>2, <1>3
<1>5. PICK k \in S : \A j \in S : k <= j
  BY <1>4, LeastOf
<1>6. start[k] <= b
  <2>1. CASE k = 1
    BY <2>1 DEF Streams
  <2>2. CASE k # 1
    <3>1. k - 1 \in 1..Frames /\ (k - 1) + 1 = k /\ ~(k <= k - 1)
      BY <2>2
    <3>2. k - 1 \notin S
      BY <1>5, <3>1
    <3> QED
      BY <1>1, <3>1, <3>2
  <2> QED
    BY <2>1, <2>2
<1>7. FrameOf(b) \in 1..Frames /\ start[FrameOf(b)] <= b /\ b < start[FrameOf(b) + 1]
  BY <1>5, <1>6 DEF FrameOf
<1>8. ASSUME NEW j \in 1..Frames+1 PROVE start[j] <= start[Frames+1]
  <2>1. Frames + 1 \in 1..Frames+1 /\ (j = Frames + 1 \/ j < Frames + 1)
    OBVIOUS
  <2>2. j < Frames + 1 => start[j] < start[Frames+1]
    BY <2>1 DEF Streams
  <2> QED
    BY <1>1, <2>1, <2>2
<1>9. FrameOf(b) + 1 \in 1..Frames+1
  BY <1>7
<1> QED
  BY <1>1, <1>7, <1>8, <1>9 DEF Total

RingFlags == lost \in BOOLEAN /\ torn \in BOOLEAN

StreamTypes == start \in Streams /\ sent \in 0..Total

RingData ==
    /\ ring \in [Cells -> Nat]
    /\ wpc \in {"recv", "load", "store"}
    /\ rpc \in {"look", "read", "load", "store", "unpack"}
    /\ wlen \in 0..MaxRead /\ rlen \in 0..Size
    /\ wtmp \in 0..Size /\ rtmp \in 0..Size
    /\ frame \in 0..Frames /\ handed \subseteq 1..Frames

\* What a thread's place says of its data.
Places ==
    /\ rpc = "unpack" => frame # 0
    /\ rpc \in {"look", "read"} => frame = 0
    /\ rpc \in {"read", "load", "store"} => rlen # 0
    /\ wpc \in {"load", "store"} => wlen # 0

RingTypes == RingFlags /\ StreamTypes /\ RingData /\ Places

LEMMA FrameChecked ==
  ASSUME NEW bytes
  PROVE  /\ CheckedFrame(bytes) \in 0..Frames
         /\ CheckedFrame(bytes) # 0 => Whole(CheckedFrame(bytes), bytes)
<1> DEFINE whole == {k \in 1..Frames : Whole(k, bytes)}
<1>1. CASE whole = {}
  BY <1>1, RingAssumption DEF CheckedFrame
<1>2. CASE whole # {}
  <2>1. CheckedFrame(bytes) \in whole
    BY <1>2 DEF CheckedFrame
  <2> QED
    BY <2>1
<1> QED
  BY <1>1, <1>2

LEMMA InitTypes == Init => RingTypes
<1> SUFFICES ASSUME Init PROVE RingTypes
  OBVIOUS
<1>1. RingFlags
  BY Zenon DEF Init, RingFlags
<1>2. StreamTypes
  BY RingAssumption DEF Init, Streams, Total, StreamTypes
<1>3. RingData /\ Places
  BY RingAssumption DEF Init, RingData, Places
<1> QED
  BY <1>1, <1>2, <1>3 DEF RingTypes

LEMMA FlagsKept == RingFlags /\ [Next]_vars => RingFlags'
<1> SUFFICES ASSUME RingFlags, [Next]_vars PROVE RingFlags'
  OBVIOUS
<1>1. CASE Writer
  BY <1>1, Zenon DEF Writer, Receive, Reconnect, WriterLoads, WriterStores, RingFlags
<1>2. CASE Reader
  BY <1>2, Zenon DEF Reader, LookAtHead, LookAtByte, Read, ReadBytes, ReaderLoads,
     ReaderStores, Unpack, RingFlags
<1>3. CASE UNCHANGED vars
  BY <1>3, Zenon DEF vars, RingFlags
<1> QED
  BY <1>1, <1>2, <1>3 DEF Next

\* The stream is fixed, and no more of it is received than there is.
LEMMA StreamKept ==
  StreamTypes /\ [Next]_vars => StreamTypes' /\ start' = start /\ sent' >= sent
<1> SUFFICES ASSUME StreamTypes, [Next]_vars
             PROVE  StreamTypes' /\ start' = start /\ sent' >= sent
  OBVIOUS
<1>1. Total \in Nat /\ sent \in Nat
  BY RingAssumption DEF StreamTypes, Streams, Total
<1>2. start' = start
  <2>1. CASE Writer
    BY <2>1, Zenon DEF Writer, Receive, Reconnect, WriterLoads, WriterStores
  <2>2. CASE Reader
    BY <2>2, Zenon DEF Reader, LookAtHead, LookAtByte, Read, ReadBytes, ReaderLoads,
       ReaderStores, Unpack
  <2>3. CASE UNCHANGED vars
    BY <2>3, Zenon DEF vars
  <2> QED
    BY <2>1, <2>2, <2>3 DEF Next
<1>3. Total' = Total
  BY <1>2, Zenon DEF Total
<1>4. sent' \in 0..Total /\ sent' >= sent
  <2>1. ASSUME NEW n \in 1..MaxRead, Receive(n) PROVE sent' \in 0..Total /\ sent' >= sent
    <3>1. sent' = sent + n /\ sent + n <= Total
      BY <2>1, Zenon DEF Receive
    <3> QED
      BY <1>1, <3>1
  <2>2. CASE Reconnect
    <3>1. sent' = start[FrameOf(sent + 1) + 1] - 1 /\ sent < Total
      BY <2>2, Zenon DEF Reconnect
    <3>2. sent + 1 \in 1..Total
      BY <1>1, <3>1
    <3>3. sent' \in sent + 1..Total
      BY <3>1, <3>2, FrameOfByte DEF StreamTypes
    <3> QED
      BY <1>1, <3>3
  <2>3. CASE UNCHANGED sent
    BY <1>1, <2>3 DEF StreamTypes
  <2>4. CASE WriterLoads \/ WriterStores
    BY <2>3, <2>4, Zenon DEF WriterLoads, WriterStores
  <2>5. CASE Reader
    BY <2>3, <2>5, Zenon DEF Reader, LookAtHead, LookAtByte, Read, ReadBytes,
       ReaderLoads, ReaderStores, Unpack
  <2>6. CASE UNCHANGED vars
    BY <2>3, <2>6, Zenon DEF vars
  <2> QED
    BY <2>1, <2>2, <2>4, <2>5, <2>6 DEF Next, Writer
<1> QED
  BY <1>2, <1>3, <1>4, Zenon DEF StreamTypes

LEMMA DataKept == IInv /\ RingTypes /\ [Next]_vars => RingData' /\ Places'
<1> SUFFICES ASSUME IInv, StreamTypes, RingData, Places, [Next]_vars
             PROVE  RingData' /\ Places'
  BY DEF RingTypes
<1> USE RingAssumption DEF offsets, reader, writer, RingData, Places
<1>0. /\ using_size \in 0..Size /\ tx_offset \in Cells /\ rx_offset \in Cells
  BY DEF IInv, Level, Offsets
<1>1. ASSUME NEW n \in 1..MaxRead, Receive(n) PROVE RingData' /\ Places'
  <2>1. /\ wpc = "recv"
        /\ UNCHANGED <<wtmp, rpc, rlen, rtmp, frame, handed>>
        /\ wpc' \in {"recv", "load"} /\ wlen' \in {wlen, n}
        /\ wpc' = "load" => wlen' = n
    BY <1>1 DEF Receive
  <2>2. wlen' \in 0..MaxRead /\ n # 0
    BY <2>1
  <2>3. ring' \in [Cells -> Nat]
    <3>1. CASE Size - using_size < n
      BY <1>1, <3>1 DEF Receive
    <3>2. CASE ~(Size - using_size < n)
      <4>1. ring' = [c \in Cells |->
                        LET i == IF c >= tx_offset THEN c - tx_offset
                                                   ELSE c - tx_offset + Size
                        IN  IF i < n THEN sent + 1 + i ELSE ring[c]]
        BY <1>1, <3>2, Zenon DEF Receive
      <4>2. sent \in Nat
        BY DEF StreamTypes
      <4> QED
        BY <1>0, <4>1, <4>2 DEF Cells
    <3> QED
      BY <3>1, <3>2
  <2> QED
    BY <2>1, <2>2, <2>3
<1>2. CASE Reconnect
  BY <1>2 DEF Reconnect
<1>3. CASE WriterLoads
  BY <1>0, <1>3 DEF WriterLoads
<1>4. CASE WriterStores
  BY <1>4 DEF WriterStores
<1>5. ASSUME NEW n \in 1..Size, rpc = "look", Read(n) PROVE RingData' /\ Places'
  <2>1. n # 0
    OBVIOUS
  <2> QED
    BY <1>5, <2>1 DEF Read
<1>6. ASSUME NEW d \in Payloads, LookAtHead(d) PROVE RingData' /\ Places'
  <2>1. HeadLen + d + 1 \in 1..Size
    OBVIOUS
  <2> QED
    BY <1>5, <1>6, <2>1 DEF LookAtHead
<1>7. CASE LookAtByte
  <2>1. 1 \in 1..Size
    OBVIOUS
  <2> QED
    BY <1>5, <1>7, <2>1 DEF LookAtByte
<1>8. CASE ReadBytes
  <2>1. frame' = 0 \/ \E m : frame' = CheckedFrame(m)
    BY <1>8, Zenon DEF ReadBytes
  <2>2. frame' \in 0..Frames
    BY <2>1, FrameChecked
  <2>3. ~(rlen > using_size)
    BY <1>0, <1>8 DEF ReadBytes, IInv, ReaderHas, Numbers
  <2>4. /\ rpc = "read" /\ rpc' = "load" /\ rlen' = rlen
        /\ UNCHANGED <<ring, wpc, wlen, wtmp, rtmp, handed>>
    BY <1>8, <2>3 DEF ReadBytes
  <2> QED
    BY <2>2, <2>4
<1>9. CASE ReaderLoads
  BY <1>0, <1>9 DEF ReaderLoads
<1>10. CASE ReaderStores
  BY <1>10 DEF ReaderStores
<1>11. CASE Unpack
  BY <1>11 DEF Unpack
<1>12. CASE UNCHANGED vars
  BY <1>12 DEF vars
<1> QED
  BY <1>1, <1>2, <1>3, <1>4, <1>6, <1>7, <1>8, <1>9, <1>10, <1>11, <1>12
     DEF Next, Writer, Reader

LEMMA TypesKept == IInv /\ RingTypes /\ [Next]_vars => RingTypes'
  BY FlagsKept, StreamKept, DataKept DEF RingTypes

\* The two threads' places, the bytes in the ring and the frames handed on keep
\* their types, whatever bytes were dropped (IVI_Communication.cpp:38-126).
THEOREM RingTypeCorrect == Spec => []TypeOK
<1>1. RingTypes => TypeOK
  BY Zenon DEF RingTypes, RingFlags, StreamTypes, RingData, TypeOK
<1> QED
  BY InitIInv, Inductive, InitTypes, TypesKept, <1>1, PTL DEF Spec

-----------------------------------------------------------------------------
(* The bytes in the ring.                                                  *)

\* Bytes behind the reading offset, those the writer has copied but not yet
\* counted included; byte i of them.
Stored == Unread + (IF wpc \in {"load", "store"} THEN wlen ELSE 0)
Held(i) == ring[Advance(rx_offset, i - 1)]

\* Until an update is lost, the two offsets enclose the bytes stored, and the
\* level can only have risen since the reader loaded it.
Aligned ==
    ~lost => /\ tx_offset = Advance(rx_offset, Stored)
             /\ rpc = "store" => rtmp <= using_size

LEMMA AdvanceTwice ==
  ASSUME NEW o \in Cells, NEW m \in Nat, NEW n \in Nat, m + n <= Size
  PROVE  Advance(Advance(o, m), n) = Advance(o, m + n)
  BY RingAssumption DEF Advance, Cells

LEMMA StoredBounds ==
  ASSUME IInv, RingTypes, Aligned, ~lost
  PROVE  /\ Unread \in 0..Size /\ Stored \in Unread..Size
         /\ wpc = "recv" => Stored = Unread
         /\ wpc = "store" /\ using_size = wtmp => Stored = Unread + wlen
         /\ rpc \in {"look", "read", "unpack"} => Unread = using_size
         /\ rpc \in {"load", "store"} => Unread = using_size - rlen
  BY RingAssumption DEF IInv, Numbers, Level, WriterFits, ReaderHas, BothPending,
     Offsets, Aligned, Unread, Stored, RingTypes, RingData

\* What a step that loses no update does to the bytes in the ring: they stay
\* as they are, some are added behind them, or the first ones are taken.
Stays ==
    /\ ring' = ring /\ rx_offset' = rx_offset /\ tx_offset' = tx_offset
    /\ Stored' = Stored
    /\ \/ Unread' = Unread
       \/ Unread' = Unread + wlen /\ wlen \in 1..Size - Unread

Grows(n) ==
    /\ wpc = "recv" /\ Stored = Unread /\ n \in 1..Size - using_size
    /\ Unread <= using_size
    /\ sent' = sent + n
    /\ ring' = [c \in Cells |->
                   LET i == IF c >= tx_offset THEN c - tx_offset
                                              ELSE c - tx_offset + Size
                   IN  IF i < n THEN sent + 1 + i ELSE ring[c]]
    /\ tx_offset' = Advance(tx_offset, n) /\ rx_offset' = rx_offset
    /\ Unread' = Unread /\ Stored' = Stored + n
    /\ handed' = handed /\ frame' = frame

Shrinks ==
    /\ rlen \in 1..Unread
    /\ rx_offset' = Advance(rx_offset, rlen)
    /\ ring' = ring /\ tx_offset' = tx_offset /\ sent' = sent
    /\ Unread' = Unread - rlen /\ Stored' = Stored - rlen
    /\ frame' = 0 \/ frame' = CheckedFrame(Taken(rlen))
    /\ frame = 0 /\ handed' = handed

LEMMA ReadShrinks ==
  ASSUME IInv, RingTypes, Aligned, ~lost, ReadBytes
  PROVE  Shrinks
<1> USE DEF offsets, reader, writer
<1>0. /\ Unread \in 0..Size /\ Stored \in Unread..Size
      /\ rpc \in {"look", "read", "unpack"} => Unread = using_size
      /\ using_size \in 0..Size /\ rlen \in 0..Size /\ wlen \in 0..MaxRead
  BY StoredBounds DEF IInv, Level, RingTypes, RingData
<1>1. ~(rlen > using_size) /\ rlen # 0 /\ rpc = "read" /\ frame = 0
  BY DEF ReadBytes, IInv, ReaderHas, Numbers, RingTypes, Places
<1>2. /\ rlen' = rlen /\ rx_offset' = Advance(rx_offset, rlen) /\ rpc' = "load"
      /\ UNCHANGED <<ring, tx_offset, sent, handed, using_size, wpc, wlen>>
      /\ frame' = 0 \/ frame' = CheckedFrame(Taken(rlen))
  BY <1>1, Zenon DEF ReadBytes
<1>3. Unread' = Unread - rlen
  BY <1>0, <1>1, <1>2 DEF Unread
<1>4. Stored' = Stored - rlen /\ rlen \in 1..Unread
  BY <1>0, <1>1, <1>2, <1>3 DEF Stored
<1> QED
  BY <1>1, <1>2, <1>3, <1>4, Zenon DEF Shrinks

LEMMA StoredStep ==
  ASSUME IInv, RingTypes, Aligned, ~lost, Next, ~lost'
  PROVE  \/ Stays
         \/ \E n \in 1..MaxRead : Grows(n)
         \/ Shrinks
<1> USE DEF offsets, reader, writer
<1>0. /\ Unread \in 0..Size /\ Stored \in Unread..Size
      /\ wpc = "recv" => Stored = Unread
      /\ wpc = "store" /\ using_size = wtmp => Stored = Unread + wlen
      /\ rpc \in {"look", "read", "unpack"} => Unread = using_size
      /\ rpc \in {"load", "store"} => Unread = using_size - rlen
      /\ using_size \in 0..Size /\ rlen \in 0..Size /\ wlen \in 0..MaxRead
  BY StoredBounds DEF IInv, Level, RingTypes, RingData
<1>a. UNCHANGED <<using_size, rpc, rlen>> => Unread' = Unread
  BY Zenon DEF Unread
<1>b. Unread' = Unread /\ UNCHANGED <<wpc, wlen>> => Stored' = Stored
  BY Zenon DEF Stored
<1>1. ASSUME NEW n \in 1..MaxRead, Receive(n) PROVE Stays \/ Grows(n)
  <2>1. UNCHANGED <<rx_offset, using_size, rpc, rlen, frame, handed>> /\ wpc = "recv"
    BY <1>1, Zenon DEF Receive
  <2>2. CASE Size - using_size < n
    <3>1. /\ ring' = ring /\ rx_offset' = rx_offset /\ tx_offset' = tx_offset
          /\ wpc' = wpc /\ wlen' = wlen
      BY <1>1, <2>2, Zenon DEF Receive
    <3> QED
      BY <1>a, <1>b, <2>1, <3>1, Zenon DEF Stays
  <2>3. CASE ~(Size - using_size < n)
    <3>1. n \in 1..Size - using_size /\ Unread <= using_size
      <4>1. n \in 1..Size - using_size
        BY <1>0, <2>3, RingAssumption
      <4>2. Unread <= using_size
        BY <1>0 DEF Unread
      <4> QED
        BY <4>1, <4>2
    <3>2. wpc' = "load" /\ wlen' = n
      BY <1>1, <2>3, Zenon DEF Receive
    <3>3. Stored' = Stored + n
      BY <1>0, <1>a, <2>1, <3>2 DEF Stored
    <3>4. /\ sent' = sent + n /\ tx_offset' = Advance(tx_offset, n)
          /\ ring' = [c \in Cells |->
                         LET i == IF c >= tx_offset THEN c - tx_offset
                                                    ELSE c - tx_offset + Size
                         IN  IF i < n THEN sent + 1 + i ELSE ring[c]]
      BY <1>1, <2>3, Zenon DEF Receive
    <3> QED
      BY <1>0, <1>a, <2>1, <3>1, <3>3, <3>4, Zenon DEF Grows
  <2> QED
    BY <2>2, <2>3
<1>2. CASE Reconnect
  BY <1>2, <1>a, <1>b, Zenon DEF Reconnect, Stays
<1>3. CASE WriterLoads
  <2>1. wpc = "load" /\ wpc' = "store" /\ wlen' = wlen
    BY <1>3, Zenon DEF WriterLoads
  <2>2. UNCHANGED <<ring, rx_offset, tx_offset, Unread>>
    BY <1>3, <1>a, Zenon DEF WriterLoads
  <2>3. Stored' = Stored
    BY <2>1, <2>2 DEF Stored
  <2> QED
    BY <2>2, <2>3, Zenon DEF Stays
<1>4. CASE WriterStores
  <2>1. /\ using_size = wtmp /\ using_size' = wtmp + wlen /\ wpc = "store" /\ wpc' = "recv"
        /\ UNCHANGED <<ring, rx_offset, tx_offset, rpc, rlen>>
    BY <1>4, Zenon DEF WriterStores
  <2>2. Unread' = Unread + wlen
    BY <1>0, <2>1 DEF Unread
  <2>3. Stored' = Stored
    BY <1>0, <2>1, <2>2 DEF Stored
  <2>4. wlen \in 1..Size - Unread
    BY <1>0, <2>1, RingAssumption DEF RingTypes, Places
  <2> QED
    BY <2>1, <2>2, <2>3, <2>4, Zenon DEF Stays
<1>5. ASSUME NEW n, rpc = "look", Read(n) PROVE Stays
  <2>1. rpc' = "read" /\ UNCHANGED <<ring, rx_offset, tx_offset, using_size, wpc, wlen>>
    BY <1>5, Zenon DEF Read
  <2>2. Unread' = Unread
    BY <1>0, <1>5, <2>1 DEF Unread
  <2> QED
    BY <1>b, <2>1, <2>2, Zenon DEF Stays
<1>6. CASE ReadBytes
  BY <1>6, ReadShrinks
<1>7. CASE ReaderLoads
  <2>1. /\ rpc = "load" /\ rpc' = "store"
        /\ UNCHANGED <<ring, rx_offset, tx_offset, using_size, rlen, wpc, wlen>>
    BY <1>7, Zenon DEF ReaderLoads
  <2>2. Unread' = Unread
    BY <2>1 DEF Unread
  <2> QED
    BY <1>b, <2>1, <2>2, Zenon DEF Stays
<1>8. CASE ReaderStores
  <2>1. /\ using_size = rtmp /\ using_size' = rtmp - rlen /\ rpc = "store"
        /\ rpc' \in {"look", "unpack"}
        /\ UNCHANGED <<ring, rx_offset, tx_offset, wpc, wlen>>
    BY <1>8 DEF ReaderStores
  <2>2. Unread' = Unread
    BY <1>0, <2>1 DEF Unread
  <2> QED
    BY <1>b, <2>1, <2>2, Zenon DEF Stays
<1>9. CASE Unpack
  <2>1. /\ rpc = "unpack" /\ rpc' = "look"
        /\ UNCHANGED <<ring, rx_offset, tx_offset, using_size, rlen, wpc, wlen>>
    BY <1>9, Zenon DEF Unpack
  <2>2. Unread' = Unread
    BY <2>1 DEF Unread
  <2> QED
    BY <1>b, <2>1, <2>2, Zenon DEF Stays
<1> QED
  BY <1>1, <1>2, <1>3, <1>4, <1>5, <1>6, <1>7, <1>8, <1>9
     DEF Next, Writer, Reader, LookAtHead, LookAtByte

LEMMA InitAligned == Init => Aligned
  BY RingAssumption DEF Init, Aligned, Stored, Unread, Advance

LEMMA LoadedLevel ==
  ASSUME IInv, RingTypes, Aligned, ~lost, Next, ~lost'
  PROVE  rpc' = "store" => rtmp' <= using_size'
<1> USE DEF IInv, Numbers, Level, RingTypes, RingData
<1> SUFFICES ASSUME rpc' = "store" PROVE rtmp' <= using_size'
  OBVIOUS
<1>1. CASE ReaderLoads
  BY <1>1 DEF ReaderLoads
<1>2. CASE WriterStores
  <2>1. using_size = wtmp /\ using_size' = wtmp + wlen /\ rpc = "store" /\ rtmp' = rtmp
    BY <1>2, Zenon DEF WriterStores, reader
  <2> QED
    BY <2>1 DEF Aligned
<1>3. CASE UNCHANGED <<using_size, rtmp>> /\ rpc = "store"
  BY <1>3 DEF Aligned
<1>4. CASE (\E n \in 1..MaxRead : Receive(n)) \/ Reconnect \/ WriterLoads
  BY <1>3, <1>4, Zenon DEF Receive, Reconnect, WriterLoads, reader
<1>5. CASE (\E d \in Payloads : LookAtHead(d)) \/ LookAtByte \/ ReadBytes
  BY <1>5 DEF LookAtHead, LookAtByte, Read, ReadBytes
<1>6. CASE ReaderStores \/ Unpack
  BY <1>6 DEF ReaderStores, Unpack
<1> QED
  BY <1>1, <1>2, <1>4, <1>5, <1>6 DEF Next, Writer, Reader

\* An update once lost stays lost.
LEMMA LostForGood == lost /\ [Next]_vars => lost'
<1> SUFFICES ASSUME lost, [Next]_vars PROVE lost'
  OBVIOUS
<1>1. CASE Writer
  BY <1>1, Zenon DEF Writer, Receive, Reconnect, WriterLoads, WriterStores
<1>2. CASE Reader
  BY <1>2, Zenon DEF Reader, LookAtHead, LookAtByte, Read, ReadBytes, ReaderLoads,
     ReaderStores, Unpack
<1>3. CASE UNCHANGED vars
  BY <1>3, Zenon DEF vars
<1> QED
  BY <1>1, <1>2, <1>3 DEF Next

LEMMA AlignedKept == IInv /\ RingTypes /\ Aligned /\ [Next]_vars => Aligned'
<1> SUFFICES ASSUME IInv, RingTypes, Aligned, [Next]_vars, ~lost'
             PROVE  /\ tx_offset' = Advance(rx_offset', Stored')
                    /\ rpc' = "store" => rtmp' <= using_size'
  BY Zenon DEF Aligned, Advance
<1>1. ~lost
  BY LostForGood
<1>2. CASE Next
  <2>0. /\ Unread \in 0..Size /\ Stored \in Unread..Size /\ tx_offset = Advance(rx_offset, Stored)
        /\ rx_offset \in Cells /\ using_size \in 0..Size
    BY <1>1, StoredBounds DEF Aligned, IInv, Offsets, Level
  <2>1. ASSUME Stays PROVE tx_offset' = Advance(rx_offset', Stored')
    BY <2>0, <2>1, Zenon DEF Stays
  <2>2. ASSUME NEW n \in 1..MaxRead, Grows(n)
        PROVE  tx_offset' = Advance(rx_offset', Stored')
    <3>1. n \in Nat /\ Stored \in Nat /\ Stored + n <= Size
      BY <2>0, <2>2, RingAssumption DEF Grows
    <3> QED
      BY <2>0, <2>2, <3>1, AdvanceTwice DEF Grows
  <2>3. ASSUME Shrinks PROVE tx_offset' = Advance(rx_offset', Stored')
    <3>1. rlen \in Nat /\ Stored - rlen \in Nat /\ rlen + (Stored - rlen) = Stored /\ Stored <= Size
      BY <2>0, <2>3 DEF Shrinks
    <3>2. Advance(Advance(rx_offset, rlen), Stored - rlen) = Advance(rx_offset, Stored)
      BY <2>0, <3>1, AdvanceTwice
    <3> QED
      BY <2>0, <2>3, <3>2, Zenon DEF Shrinks
  <2>4. tx_offset' = Advance(rx_offset', Stored')
    BY <1>1, <1>2, <2>1, <2>2, <2>3, StoredStep
  <2> QED
    BY <1>1, <1>2, <2>4, LoadedLevel
<1>3. CASE UNCHANGED vars
  <2>1. /\ UNCHANGED <<tx_offset, rx_offset, using_size, rpc, rlen, rtmp, wpc, wlen>>
    BY <1>3 DEF vars, offsets, writer, reader
  <2>2. Stored' = Stored
    BY <2>1 DEF Stored, Unread
  <2> QED
    BY <1>1, <2>1, <2>2 DEF Aligned
<1> QED
  BY <1>2, <1>3

-----------------------------------------------------------------------------
(* The ring is a queue.                                                    *)

LEMMA TakenBytes ==
  ASSUME ring \in [Cells -> Nat], rx_offset \in Cells, NEW n \in 0..Size
  PROVE  /\ Taken(n) \in Seq(Nat) /\ Len(Taken(n)) = n
         /\ \A i \in 1..n : Taken(n)[i] = Held(i)
<1>1. \A i \in 1..n : i - 1 \in 0..Size /\ Advance(rx_offset, i - 1) \in Cells
  BY AdvanceInRing, RingAssumption
<1>2. Taken(n) = [i \in 1..n |-> Held(i)]
  BY Zenon DEF Taken, Held, Advance
<1>3. \A i \in 1..n : Held(i) \in Nat
  BY <1>1 DEF Held
<1> QED
  BY <1>2, <1>3

\* Sequences of one length with the same elements are one.
LEMMA SameBytes ==
  ASSUME NEW s \in Seq(Nat), NEW t \in Seq(Nat), Len(s) = Len(t),
         \A i \in 1..Len(s) : s[i] = t[i]
  PROVE  s = t
  OBVIOUS

\* What stays in the ring does not move.
LEMMA StaysHeld ==
  ASSUME Stays, NEW i PROVE Held(i)' = Held(i)
  BY Zenon DEF Stays, Held, Advance

\* The bytes behind a reading offset that was moved.
LEMMA ShrinksHeld ==
  ASSUME rx_offset \in Cells, ring' = ring, NEW n \in Nat, NEW i \in Nat \ {0},
         rx_offset' = Advance(rx_offset, n), n + i <= Size
  PROVE  Held(i)' = Held(n + i)
<1>1. Advance(Advance(rx_offset, n), i - 1) = Advance(rx_offset, n + (i - 1))
  <2>1. i - 1 \in Nat /\ n + (i - 1) <= Size
    BY RingAssumption
  <2> QED
    BY <2>1, AdvanceTwice
<1>2. n + (i - 1) = (n + i) - 1
  OBVIOUS
<1>3. Held(i)' = ring[Advance(Advance(rx_offset, n), i - 1)]
  BY Zenon DEF Held, Advance
<1> QED
  BY <1>1, <1>2, <1>3 DEF Held

\* Bytes copied go behind those stored and leave them as they are.
LEMMA GrowsHeld ==
  ASSUME sent \in Int, rx_offset \in Cells, Stored \in 0..Size, NEW n \in 1..MaxRead, Grows(n),
         Stored + n <= Size, tx_offset = Advance(rx_offset, Stored),
         NEW i \in 1..Stored + n
  PROVE  Held(i)' = IF i <= Stored THEN Held(i) ELSE sent + (i - Stored)
<1> DEFINE c == Advance(rx_offset, i - 1)
           p == IF c >= tx_offset THEN c - tx_offset ELSE c - tx_offset + Size
<1>1. c \in Cells
  BY RingAssumption DEF Advance, Cells
<1>2. Held(i)' = IF p < n THEN sent + 1 + p ELSE ring[c]
  <2>1. Held(i)' = ring'[c]
    BY Zenon DEF Grows, Held, Advance
  <2> QED
    BY <1>1, <2>1, Zenon DEF Grows
<1>3. i <= Stored => p >= n
  BY RingAssumption DEF Advance, Cells
<1>4. i > Stored => p = i - 1 - Stored
  BY RingAssumption DEF Advance, Cells
<1>5. ring[c] = Held(i)
  BY Zenon DEF Held
<1>6. p \in Int /\ n \in Int /\ i \in Int /\ Stored \in Int /\ sent \in Int
  BY <1>1, RingAssumption DEF Advance, Cells
<1>7. CASE i <= Stored
  <2>1. ~(p < n)
    BY <1>3, <1>6, <1>7
  <2> QED
    BY <1>2, <1>5, <1>7, <2>1
<1>8. CASE i > Stored
  <2>1. p < n /\ sent + 1 + p = sent + (i - Stored) /\ ~(i <= Stored)
    BY <1>4, <1>6, <1>8
  <2> QED
    BY <1>2, <2>1
<1> QED
  BY <1>6, <1>7, <1>8

\* What the queue of the abstract specification holds in a state of the ring.
QueueIsHeld ==
    /\ InQueue \in Seq(Nat) /\ Len(InQueue) = Unread
    /\ Unread \in 0..Size /\ Stored \in Unread..Size
    /\ \A i \in 1..Unread : InQueue[i] = Held(i)

LEMMA QueueBytes == IInv /\ RingTypes /\ Aligned /\ ~lost => QueueIsHeld
<1> SUFFICES ASSUME IInv, RingTypes, Aligned, ~lost PROVE QueueIsHeld
  OBVIOUS
<1>1. ring \in [Cells -> Nat] /\ rx_offset \in Cells /\ Unread \in 0..Size
  BY StoredBounds DEF IInv, Offsets, RingTypes, RingData
<1>2. InQueue = Taken(Unread)
  BY DEF InQueue
<1> QED
  BY <1>1, <1>2, TakenBytes, StoredBounds DEF QueueIsHeld

\* The first bytes of a queue, and those behind them.
LEMMA Slice ==
  ASSUME NEW s \in Seq(Nat), NEW m \in 1..Len(s)+1, NEW n \in m-1..Len(s)
  PROVE  /\ SubSeq(s, m, n) \in Seq(Nat) /\ Len(SubSeq(s, m, n)) = n - m + 1
         /\ \A i \in 1..n-m+1 : SubSeq(s, m, n)[i] = s[m + i - 1]
  OBVIOUS

LEMMA StepRefines ==
  ASSUME IInv, RingTypes, Aligned, Next, ~lost, ~lost'
  PROVE  Queue!Put \/ Queue!Get \/ UNCHANGED <<InQueue, lost>>
<1>1. IInv' /\ RingTypes' /\ Aligned'
  BY Inductive, TypesKept, AlignedKept
<1>2. QueueIsHeld
  BY QueueBytes
<1>3. QueueIsHeld'
  BY <1>1, QueueBytes, PTL
<1>4. lost' = lost
  BY <1>1, Zenon DEF RingTypes, RingFlags
<1>5. PICK q, r : q = InQueue /\ r = InQueue'
  OBVIOUS
<1>6. /\ q \in Seq(Nat) /\ Len(q) = Unread /\ Unread \in 0..Size /\ Stored \in Unread..Size
      /\ \A i \in 1..Unread : q[i] = Held(i)
  BY <1>2, <1>5, Zenon DEF QueueIsHeld
<1>7. /\ r \in Seq(Nat) /\ Len(r) = Unread' /\ Unread' \in 0..Size
      /\ \A i \in 1..Unread' : r[i] = Held(i)'
  BY <1>3, <1>5, Zenon DEF QueueIsHeld
<1>8. /\ (\E n \in 1..Size - Len(q) : Len(r) = Len(q) + n /\ SubSeq(r, 1, Len(q)) = q)
         => Queue!Put
      /\ (\E n \in 1..Len(q) : r = SubSeq(q, n + 1, Len(q))) => Queue!Get
  BY <1>4, <1>5, Zenon DEF Queue!Put, Queue!Get
<1>9. r = q => UNCHANGED <<InQueue, lost>>
  BY <1>4, <1>5
<1>10. rx_offset \in Cells /\ rlen \in Nat /\ sent \in Nat
  BY DEF IInv, Offsets, Numbers, RingTypes, StreamTypes
<1>11. CASE Stays
  <2>1. \A i \in 1..Unread : r[i] = q[i]
    <3> SUFFICES ASSUME NEW i \in 1..Unread PROVE r[i] = q[i]
      OBVIOUS
    <3>1. Held(i)' = Held(i)
      BY <1>11, StaysHeld
    <3>2. i \in 1..Unread'
      BY <1>6, <1>7, <1>11 DEF Stays
    <3> QED
      BY <1>6, <1>7, <3>1, <3>2
  <2>2. CASE Unread' = Unread
    BY <1>6, <1>7, <1>9, <2>1, <2>2, SameBytes
  <2>3. CASE wlen \in 1..Size - Unread /\ Unread' = Unread + wlen
    <3>1. wlen \in 1..Size - Len(q) /\ Len(r) = Len(q) + wlen
      BY <1>6, <1>7, <2>3
    <3>2. SubSeq(r, 1, Len(q)) = q
      <4>1. 1 \in 1..Len(r) + 1 /\ Len(q) \in 1-1..Len(r) /\ Len(q) - 1 + 1 = Len(q)
        BY <1>6, <1>7, <2>3
      <4>2. /\ SubSeq(r, 1, Len(q)) \in Seq(Nat) /\ Len(SubSeq(r, 1, Len(q))) = Len(q)
            /\ \A i \in 1..Len(q) : SubSeq(r, 1, Len(q))[i] = r[1 + i - 1]
        BY <1>7, <4>1, Slice
      <4>3. \A i \in 1..Len(q) : SubSeq(r, 1, Len(q))[i] = q[i]
        BY <1>6, <2>1, <4>2
      <4> QED
        BY <1>6, <4>2, <4>3, SameBytes
    <3> QED
      BY <1>8, <3>1, <3>2, Zenon
  <2> QED
    BY <1>11, <2>2, <2>3 DEF Stays
<1>12. ASSUME NEW n \in 1..MaxRead, Grows(n) PROVE r = q
  <2>1. Unread' = Unread /\ Stored + n <= Size /\ tx_offset = Advance(rx_offset, Stored)
    BY <1>6, <1>12, RingAssumption DEF Grows, Aligned, IInv, Level
  <2>2. ASSUME NEW i \in 1..Unread PROVE r[i] = q[i]
    <3>1. i \in 1..Stored + n /\ i <= Stored /\ Stored \in 0..Size
      BY <1>6, <2>1
    <3>2. Held(i)' = Held(i)
      BY <1>10, <1>12, <2>1, <3>1, GrowsHeld
    <3> QED
      BY <1>6, <1>7, <2>1, <3>2
  <2> QED
    BY <1>6, <1>7, <2>1, <2>2, SameBytes
<1>13. CASE Shrinks
  <2>1. /\ rlen \in 1..Unread /\ rx_offset' = Advance(rx_offset, rlen)
        /\ ring' = ring /\ Unread' = Unread - rlen
    BY <1>13, Zenon DEF Shrinks
  <2>2. rlen + 1 \in 1..Len(q) + 1 /\ Len(q) \in (rlen + 1) - 1..Len(q)
        /\ Len(q) - (rlen + 1) + 1 = Unread'
    BY <1>6, <2>1
  <2>3. PICK t : t = SubSeq(q, rlen + 1, Len(q))
    OBVIOUS
  <2>4. /\ t \in Seq(Nat) /\ Len(t) = Unread'
        /\ \A i \in 1..Unread' : t[i] = q[rlen + 1 + i - 1]
    BY <1>6, <2>2, <2>3, Slice
  <2>5. ASSUME NEW i \in 1..Unread' PROVE r[i] = t[i]
    <3>1. /\ i \in Nat \ {0} /\ rlen + i <= Size
          /\ rlen + 1 + i - 1 = rlen + i /\ rlen + i \in 1..Unread
      <4>1. rlen \in Nat /\ Unread \in Int /\ i \in 1..Unread - rlen /\ Unread <= Size
        BY <1>6, <2>1, RingAssumption
      <4> QED
        BY <4>1, RingAssumption
    <3>2. Held(i)' = Held(rlen + i)
      BY <1>10, <2>1, <3>1, ShrinksHeld
    <3> QED
      BY <1>6, <1>7, <2>4, <3>1, <3>2
  <2>6. r = t
    BY <1>7, <2>4, <2>5, SameBytes
  <2> QED
    BY <1>6, <1>8, <2>1, <2>3, <2>6, Zenon
<1> QED
  BY <1>9, <1>11, <1>12, <1>13, StoredStep

\* The ring implements the queue: bytes come out as they went in, until the two
\* threads' updates of using_size cross (IVI_Communication.cpp:38-126).
THEOREM RingRefines == Spec => RingIsQueue
<1>1. Init => Queue!Init
  <2> SUFFICES ASSUME Init PROVE Queue!Init
    OBVIOUS
  <2>1. lost = FALSE /\ Unread = 0
    BY DEF Init, Unread
  <2>2. InQueue = <<>>
    BY <2>1 DEF InQueue, Taken
  <2> QED
    BY <2>1, <2>2, Zenon DEF Queue!Init
<1>2. IInv /\ RingTypes /\ Aligned /\ [Next]_vars => [Queue!Next]_<<InQueue, lost>>
  <2> SUFFICES ASSUME IInv, RingTypes, Aligned, [Next]_vars
               PROVE  Queue!Next \/ UNCHANGED <<InQueue, lost>>
    OBVIOUS
  <2>0. lost \in BOOLEAN /\ lost' \in BOOLEAN
    BY TypesKept, Inductive, Zenon DEF RingTypes, RingFlags
  <2>1. CASE lost
    <3>1. lost'
      BY <2>1, LostForGood
    <3> QED
      BY <2>0, <2>1, <3>1 DEF InQueue
  <2>2. CASE ~lost /\ lost'
    <3>1. InQueue' = <<>>
      BY <2>2 DEF InQueue
    <3>2. Queue!Break
      BY <2>0, <2>2, <3>1 DEF Queue!Break
    <3> QED
      BY <3>2, Zenon DEF Queue!Next
  <2>3. CASE ~lost /\ ~lost' /\ Next
    BY <2>3, StepRefines, Zenon DEF Queue!Next
  <2>4. CASE UNCHANGED vars
    <3>1. UNCHANGED <<ring, rx_offset, using_size, rpc, rlen, lost>>
      BY <2>4 DEF vars, offsets, reader
    <3>2. InQueue' = InQueue
      BY <3>1 DEF InQueue, Taken, Unread
    <3> QED
      BY <3>1, <3>2
  <2> QED
    BY <2>1, <2>2, <2>3, <2>4
<1> QED
  BY <1>1, <1>2, InitIInv, Inductive, InitTypes, TypesKept, InitAligned, AlignedKept,
     PTL DEF Spec, RingIsQueue, Queue!Spec

-----------------------------------------------------------------------------
(* Frames in order.                                                        *)

\* The bytes stored are in the order of the stream, and were received.
Ascending ==
    ~lost => /\ \A i \in 1..Stored : Held(i) \in 1..sent
             /\ \A i, j \in 1..Stored : i < j => Held(i) < Held(j)

\* A frame taken from the ring, handed on or not yet, began before every byte
\* that is still stored, and of two such frames the earlier was taken first.
Past(k) ==
    /\ start[k] <= sent
    /\ \A i \in 1..Stored : start[k] < Held(i)

TakenInOrder ==
    ~lost => /\ \A k \in handed : Past(k)
             /\ frame # 0 => Past(frame) /\ \A k \in handed : k < frame

Ordered == Ascending /\ TakenInOrder

LEMMA InitOrdered == Init => Ordered
<1> SUFFICES ASSUME Init PROVE Ordered
  OBVIOUS
<1>1. Stored = 0 /\ handed = {} /\ frame = 0
  BY DEF Init, Stored, Unread
<1> QED
  BY <1>1 DEF Ordered, Ascending, TakenInOrder

\* Byte k of those stored, or to be received next.
HeldBefore(k) == IF k <= Stored THEN Held(k) ELSE sent + (k - Stored)

\* What a step does to byte i of those stored: it is one that was stored, by d
\* places further on, or one of the n just received.
LEMMA HeldNext ==
  ASSUME IInv, RingTypes, Aligned, ~lost, ~lost', Next
  PROVE  \E d, n \in 0..Size :
            /\ d <= Stored /\ Stored' = Stored - d + n /\ sent + n <= sent'
            /\ \A i \in 1..Stored' : Held(i)' = HeldBefore(i + d)
<1>1. /\ Stored \in 0..Size /\ rx_offset \in Cells /\ sent \in Nat /\ sent' \in Nat
      /\ sent <= sent' /\ Unread \in 0..Size /\ Unread <= Stored
  <2>1. StreamTypes' /\ sent' >= sent
    BY StreamKept DEF RingTypes
  <2>2. sent' \in Nat
    BY <2>1 DEF StreamTypes
  <2> QED
    BY <2>1, <2>2, StoredBounds DEF IInv, Offsets, RingTypes, StreamTypes
<1>2. Size \in Nat \ {0}
  BY RingAssumption
<1>3. CASE Stays
  <2>1. Stored' = Stored
    BY <1>3, Zenon DEF Stays
  <2>2. ASSUME NEW i \in 1..Stored'
        PROVE  Held(i)' = HeldBefore(i + 0)
    <3>1. Held(i)' = Held(i)
      BY <1>3, StaysHeld
    <3>2. i + 0 = i /\ i <= Stored
      BY <1>1, <2>1
    <3>3. HeldBefore(i) = Held(i)
      BY <3>2 DEF HeldBefore
    <3> QED
      BY <3>1, <3>2, <3>3, Zenon
  <2>3. 0 \in 0..Size /\ 0 <= Stored /\ Stored - 0 + 0 = Stored /\ sent + 0 <= sent'
    BY <1>1, <1>2
  <2> QED
    BY <2>1, <2>2, <2>3, Zenon
<1>4. ASSUME NEW n \in 1..MaxRead, Grows(n)
      PROVE  \E d, m \in 0..Size :
                /\ d <= Stored /\ Stored' = Stored - d + m /\ sent + m <= sent'
                /\ \A i \in 1..Stored' : Held(i)' = HeldBefore(i + d)
  <2>1. /\ Stored + n <= Size /\ tx_offset = Advance(rx_offset, Stored)
        /\ Stored' = Stored + n /\ sent' = sent + n
    BY <1>1, <1>2, <1>4 DEF Grows, Aligned, IInv, Level
  <2>2. ASSUME NEW i \in 1..Stored'
        PROVE  Held(i)' = HeldBefore(i + 0)
    <3>1. i \in 1..Stored + n /\ i + 0 = i /\ sent \in Int
      BY <1>1, <2>1
    <3>2. Held(i)' = IF i <= Stored THEN Held(i) ELSE sent + (i - Stored)
      BY <1>1, <1>4, <2>1, <3>1, GrowsHeld
    <3>3. HeldBefore(i) = Held(i)'
      BY <3>2 DEF HeldBefore
    <3> QED
      BY <3>1, <3>3, Zenon
  <2>3. 0 \in 0..Size /\ n \in 0..Size /\ 0 <= Stored /\ Stored - 0 + n = Stored + n
    BY <1>1, <1>2, <2>1
  <2>4. sent + n <= sent'
    BY <1>1, <2>1
  <2> QED
    BY <2>1, <2>2, <2>3, <2>4, Zenon
<1>5. CASE Shrinks
  <2>1. /\ rlen \in 1..Unread /\ rx_offset' = Advance(rx_offset, rlen)
        /\ ring' = ring /\ Stored' = Stored - rlen
    BY <1>5, Zenon DEF Shrinks
  <2>2. ASSUME NEW i \in 1..Stored'
        PROVE  Held(i)' = HeldBefore(i + rlen)
    <3>1. /\ i \in Nat \ {0} /\ rlen \in Nat /\ rlen + i <= Size
          /\ rlen + i = i + rlen /\ i + rlen <= Stored
      BY <1>1, <1>2, <2>1
    <3>2. Held(i)' = Held(rlen + i)
      BY <1>1, <2>1, <3>1, ShrinksHeld
    <3>3. HeldBefore(i + rlen) = Held(i + rlen)
      BY <3>1 DEF HeldBefore
    <3> QED
      BY <3>1, <3>2, <3>3, Zenon
  <2>3. /\ rlen \in 0..Size /\ 0 \in 0..Size /\ rlen <= Stored
        /\ Stored - rlen + 0 = Stored - rlen /\ sent + 0 <= sent'
    BY <1>1, <1>2, <2>1
  <2> QED
    BY <2>1, <2>2, <2>3, Zenon
<1> QED
  BY <1>3, <1>4, <1>5, StoredStep

LEMMA AscendingKept ==
  ASSUME IInv, RingTypes, Aligned, Ascending, ~lost, ~lost', Next
  PROVE  Ascending'
<1>1. Stored \in 0..Size /\ sent \in Nat
  BY StoredBounds DEF RingTypes, StreamTypes
<1>2. sent' \in Nat
  <2>1. StreamTypes'
    BY StreamKept DEF RingTypes
  <2> QED
    BY <2>1 DEF StreamTypes
<1>3. PICK d, n \in 0..Size :
         /\ d <= Stored /\ Stored' = Stored - d + n /\ sent + n <= sent'
         /\ \A i \in 1..Stored' : Held(i)' = HeldBefore(i + d)
  BY HeldNext
<1>4. /\ \A i \in 1..Stored : Held(i) \in 1..sent
      /\ \A i, j \in 1..Stored : i < j => Held(i) < Held(j)
  BY DEF Ascending
<1>5. ASSUME NEW i \in 1..Stored'
      PROVE  /\ i + d <= Stored => Held(i)' = Held(i + d) /\ i + d \in 1..Stored
             /\ i + d > Stored => Held(i)' = sent + ((i + d) - Stored) /\ (i + d) - Stored \in 1..n
  <2>1. Held(i)' = IF i + d <= Stored THEN Held(i + d) ELSE sent + ((i + d) - Stored)
    BY <1>3 DEF HeldBefore
  <2>2. i \in Nat /\ 1 <= i /\ (i + d) - Stored <= n /\ i + d \in Int /\ Size \in Nat
    BY <1>1, <1>3, RingAssumption
  <2> QED
    BY <1>1, <1>3, <2>1, <2>2
<1>6. ASSUME NEW i \in 1..Stored' PROVE Held(i)' \in 1..sent'
  <2>1. CASE i + d <= Stored
    <3>1. Held(i)' \in 1..sent
      BY <1>4, <1>5, <2>1
    <3> QED
      BY <1>1, <1>2, <1>3, <3>1
  <2>2. CASE ~(i + d <= Stored)
    <3>1. Held(i)' = sent + ((i + d) - Stored) /\ (i + d) - Stored \in 1..n
      BY <1>1, <1>5, <2>2
    <3> QED
      BY <1>1, <1>2, <1>3, <3>1
  <2> QED
    BY <2>1, <2>2
<1>7. ASSUME NEW i \in 1..Stored', NEW j \in 1..Stored', i < j PROVE Held(i)' < Held(j)'
  <2>0. i \in Int /\ j \in Int /\ d \in Int /\ Stored \in Int /\ sent \in Int
    BY <1>1
  <2>1. CASE j + d <= Stored
    <3>1. i + d <= Stored /\ i + d < j + d
      BY <1>7, <2>0, <2>1
    <3> QED
      BY <1>4, <1>5, <2>1, <3>1
  <2>2. CASE ~(j + d <= Stored) /\ i + d <= Stored
    <3>1. Held(i)' \in 1..sent
      BY <1>4, <1>5, <2>2
    <3>2. Held(j)' = sent + ((j + d) - Stored) /\ (j + d) - Stored \in 1..n
      BY <1>5, <2>0, <2>2
    <3> QED
      BY <2>0, <3>1, <3>2
  <2>3. CASE ~(j + d <= Stored) /\ ~(i + d <= Stored)
    <3>1. Held(i)' = sent + ((i + d) - Stored) /\ Held(j)' = sent + ((j + d) - Stored)
      BY <1>5, <2>0, <2>3
    <3> QED
      BY <1>7, <2>0, <3>1
  <2> QED
    BY <2>1, <2>2, <2>3
<1> QED
  BY <1>6, <1>7, Zenon DEF Ascending

LEMMA PastKept ==
  ASSUME IInv, RingTypes, Aligned, ~lost, ~lost', Next,
         NEW k \in 1..Frames, Past(k)
  PROVE  Past(k)'
<1>1. Stored \in 0..Size /\ sent \in Nat
  BY StoredBounds DEF RingTypes, StreamTypes
<1>2. sent' \in Nat /\ start' = start /\ start[k] \in Nat
  <2>1. StreamTypes' /\ start' = start
    BY StreamKept DEF RingTypes
  <2>2. k \in 1..Frames+1
    BY RingAssumption
  <2> QED
    BY <2>1, <2>2, RingAssumption DEF StreamTypes, Streams, RingTypes
<1>3. PICK d, n \in 0..Size :
         /\ d <= Stored /\ Stored' = Stored - d + n /\ sent + n <= sent'
         /\ \A i \in 1..Stored' : Held(i)' = HeldBefore(i + d)
  BY HeldNext
<1>4. start[k] <= sent /\ \A i \in 1..Stored : start[k] < Held(i)
  BY DEF Past
<1>5. ASSUME NEW i \in 1..Stored' PROVE start[k] < Held(i)'
  <2>1. Held(i)' = IF i + d <= Stored THEN Held(i + d) ELSE sent + ((i + d) - Stored)
    BY <1>3 DEF HeldBefore
  <2>2. i \in Int /\ d \in Int /\ 1 <= i /\ 0 <= d
    BY <1>1
  <2>3. CASE i + d <= Stored
    <3>1. i + d \in 1..Stored
      BY <1>1, <2>2, <2>3
    <3> QED
      BY <1>4, <2>1, <2>3, <3>1
  <2>4. CASE ~(i + d <= Stored)
    BY <1>1, <1>2, <1>4, <2>1, <2>2, <2>4
  <2> QED
    BY <2>3, <2>4
<1>6. start[k] <= sent'
  BY <1>1, <1>2, <1>3, <1>4
<1> QED
  BY <1>2, <1>5, <1>6, Zenon DEF Past

\* A frame that was just taken as a whole is behind all that is still stored.
LEMMA TakenIsPast ==
  ASSUME IInv, RingTypes, Aligned, Ascending, TakenInOrder, ~lost, ~lost', Next,
         Shrinks, frame' # 0
  PROVE  Past(frame)' /\ \A k \in handed : k < frame'
<1>1. /\ Stored \in 0..Size /\ Unread \in 0..Stored /\ sent \in Nat /\ rx_offset \in Cells
      /\ ring \in [Cells -> Nat]
  BY StoredBounds DEF RingTypes, StreamTypes, RingData, IInv, Offsets
<1>2. /\ rlen \in 1..Unread /\ rx_offset' = Advance(rx_offset, rlen)
      /\ ring' = ring /\ Stored' = Stored - rlen /\ sent' = sent
      /\ frame' = CheckedFrame(Taken(rlen))
  BY Zenon DEF Shrinks
<1>3. frame' \in 1..Frames /\ Whole(frame', Taken(rlen))
  BY <1>2, FrameChecked
<1>4. start' = start
  BY StreamKept DEF RingTypes
<1>5. rlen \in 0..Size /\ 1 \in 1..rlen /\ 1 \in 1..Stored
  BY <1>1, <1>2, RingAssumption
<1>6. Held(1) = start[frame']
  <2>1. Len(Taken(rlen)) = rlen /\ Taken(rlen)[1] = Held(1)
    BY <1>1, <1>5, TakenBytes
  <2>2. start[frame'] \in Int
    BY <1>3, RingAssumption DEF RingTypes, StreamTypes, Streams
  <2> QED
    BY <1>3, <1>5, <2>1, <2>2 DEF Whole
<1>7. start[frame'] <= sent'
  <2>1. Held(1) \in 1..sent
    BY <1>5 DEF Ascending
  <2> QED
    BY <1>1, <1>2, <1>6, <2>1
<1>8. ASSUME NEW i \in 1..Stored' PROVE start[frame'] < Held(i)'
  <2>1. /\ i \in Nat \ {0} /\ rlen \in Nat /\ rlen + i <= Size
        /\ rlen + i \in 1..Stored /\ 1 < rlen + i
    BY <1>1, <1>2, RingAssumption
  <2>2. Held(i)' = Held(rlen + i)
    BY <1>1, <1>2, <2>1, ShrinksHeld
  <2>3. Held(1) < Held(rlen + i)
    BY <1>5, <2>1 DEF Ascending
  <2> QED
    BY <1>6, <2>2, <2>3
<1>9. ASSUME NEW k \in handed PROVE k < frame'
  <2>1. k \in 1..Frames+1 /\ frame' \in 1..Frames+1 /\ k \in Int /\ frame' \in Int
    BY <1>3, RingAssumption DEF RingTypes, RingData
  <2>2. start[k] < start[frame']
    BY <1>5, <1>6 DEF TakenInOrder, Past
  <2>3. /\ \A i, j \in 1..Frames+1 : i < j => start[i] < start[j]
        /\ start[k] \in Int /\ start[frame'] \in Int
    BY <2>1, RingAssumption DEF RingTypes, StreamTypes, Streams
  <2>4. CASE frame' < k
    <3>1. start[frame'] < start[k]
      BY <2>1, <2>3, <2>4
    <3> QED
      BY <2>2, <2>3, <3>1
  <2>5. CASE frame' = k
    BY <2>2, <2>3, <2>5
  <2> QED
    BY <2>1, <2>4, <2>5
<1> QED
  BY <1>4, <1>7, <1>8, <1>9, Zenon DEF Past

LEMMA TakenInOrderKept ==
  ASSUME IInv, RingTypes, Aligned, Ascending, TakenInOrder, ~lost, ~lost', Next
  PROVE  TakenInOrder'
<1>1. handed \subseteq 1..Frames /\ frame \in 0..Frames
  BY DEF RingTypes, RingData
<1>2. \A k \in handed : Past(k)'
  BY <1>1, PastKept DEF TakenInOrder
<1>3. frame # 0 => Past(frame) /\ \A k \in handed : k < frame
  BY DEF TakenInOrder
<1>4. CASE ReadBytes
  <2>1. Shrinks
    BY <1>4, ReadShrinks
  <2>2. handed' = handed
    BY <2>1, Zenon DEF Shrinks
  <2> QED
    BY <1>2, <2>1, <2>2, TakenIsPast DEF TakenInOrder
<1>5. CASE Unpack
  <2>1. rpc = "unpack" /\ handed' = handed \cup {frame} /\ frame' = 0
    BY <1>5, Zenon DEF Unpack
  <2>2. frame # 0 /\ frame \in 1..Frames
    BY <1>1, <2>1 DEF RingTypes, Places
  <2>3. PICK h \in 1..Frames : h = frame
    BY <2>2
  <2>4. Past(h)'
    BY <1>3, <2>2, <2>3, PastKept
  <2> QED
    BY <1>2, <2>1, <2>3, <2>4 DEF TakenInOrder
<1>6. CASE UNCHANGED <<frame, handed>>
  <2>1. CASE frame = 0
    BY <1>2, <1>6, <2>1 DEF TakenInOrder
  <2>2. CASE frame # 0
    <3>1. PICK h \in 1..Frames : h = frame
      BY <1>1, <2>2
    <3>2. Past(h)'
      BY <1>3, <2>2, <3>1, PastKept
    <3>3. frame' = h
      BY <1>6, <3>1
    <3>4. Past(frame)'
      BY <3>2, <3>3 DEF Past
    <3> QED
      BY <1>2, <1>3, <1>6, <2>2, <3>4 DEF TakenInOrder
  <2> QED
    BY <2>1, <2>2
<1>7. CASE Writer
  <2>1. UNCHANGED <<frame, handed>>
    BY <1>7, Zenon DEF Writer, Receive, Reconnect, WriterLoads, WriterStores, reader
  <2> QED
    BY <1>6, <2>1
<1>8. CASE (\E d \in Payloads : LookAtHead(d)) \/ LookAtByte \/ ReaderLoads \/ ReaderStores
  <2>1. UNCHANGED <<frame, handed>>
    BY <1>8, Zenon DEF LookAtHead, LookAtByte, Read, ReaderLoads, ReaderStores
  <2> QED
    BY <1>6, <2>1
<1> QED
  BY <1>4, <1>5, <1>7, <1>8 DEF Next, Reader

LEMMA OrderedKept ==
  IInv /\ RingTypes /\ Aligned /\ Ordered /\ [Next]_vars => Ordered'
<1> SUFFICES ASSUME IInv, RingTypes, Aligned, Ascending, TakenInOrder, [Next]_vars
             PROVE  Ascending' /\ TakenInOrder'
  BY Zenon DEF Ordered
<1>1. CASE lost'
  BY <1>1, Zenon DEF Ascending, TakenInOrder
<1>2. CASE ~lost' /\ Next
  <2>1. ~lost
    BY <1>2, LostForGood
  <2> QED
    BY <1>2, <2>1, AscendingKept, TakenInOrderKept
<1>3. CASE UNCHANGED vars
  <2>1. UNCHANGED <<start, sent, ring, rx_offset, using_size, rpc, rlen, wpc, wlen,
                    frame, handed, lost>>
    BY <1>3 DEF vars, offsets, reader, writer
  <2>2. Stored' = Stored
    BY <2>1 DEF Stored, Unread
  <2>3. \A i : Held(i)' = Held(i)
    BY <2>1, Zenon DEF Held, Advance
  <2>4. Ascending'
    BY <2>1, <2>2, <2>3, Zenon DEF Ascending
  <2>5. \A k : Past(k) => Past(k)'
    BY <2>1, <2>2, <2>3, Zenon DEF Past
  <2>6. TakenInOrder'
    BY <2>1, <2>5, Zenon DEF TakenInOrder, Past
  <2> QED
    BY <2>4, <2>6
<1> QED
  BY <1>1, <1>2, <1>3

\* As long as no update of using_size was lost, frames reach the protocol code in
\* the order in which the head unit sent them, each at most once, whatever bytes
\* were dropped for want of room (IVI_Communication.cpp:85-126, 190-260).
THEOREM OrderCorrect == Spec => InOrder
<1>1. /\ IInv /\ RingTypes /\ Aligned /\ Ordered /\ [Next]_vars
      => [~lost /\ rpc = "unpack" /\ rpc' = "look" => \A k \in handed : k < frame]_vars
  BY DEF Ordered, TakenInOrder, RingTypes, Places
<1> QED
  BY <1>1, InitIInv, Inductive, InitTypes, TypesKept, InitAligned, AlignedKept,
     InitOrdered, OrderedKept, PTL DEF Spec, InOrder

=============================================================================

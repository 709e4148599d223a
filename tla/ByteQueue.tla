----------------------------- MODULE ByteQueue -----------------------------
(***************************************************************************)
(* What the ring buffer of the IVI connection is for: a queue of at most   *)
(* Size bytes, from which they come out as they went in. The buffer does   *)
(* so until an update of its fill level is lost.                           *)
(***************************************************************************)
EXTENDS Naturals, Sequences

CONSTANT Size
VARIABLES queue, broken

Init == queue = <<>> /\ broken = FALSE

\* Bytes are added behind those in the queue, as many as there is room for.
Put ==
    /\ ~broken
    /\ \E n \in 1..Size - Len(queue) :
          /\ Len(queue') = Len(queue) + n
          /\ SubSeq(queue', 1, Len(queue)) = queue
    /\ UNCHANGED broken

\* The first bytes are taken out.
Get ==
    /\ ~broken
    /\ \E n \in 1..Len(queue) : queue' = SubSeq(queue, n + 1, Len(queue))
    /\ UNCHANGED broken

\* An update is lost, and what is in the buffer with it.
Break ==
    /\ ~broken
    /\ broken' = TRUE /\ queue' = <<>>

Next == Put \/ Get \/ Break

Spec == Init /\ [][Next]_<<queue, broken>>
============================================================================

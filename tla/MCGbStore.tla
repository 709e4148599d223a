----------------------------- MODULE MCGbStore -----------------------------
(* Constants, a view and a constraint of GbStore for model checking.      *)
EXTENDS GbStore

\* The live data are only looked at while a packet is made of them, and a row is
\* unpacked into them before: at other times it makes no difference what they
\* are, nor what heartbeats and rereads do to them. Of the packet it only
\* matters whether it is as PackedIsMarked says.
Packing == main \in {"pack", "packRest"}
View == <<table, session, Goldenlock, ids, mcu, frame, faultLevel, alarm, main, id,
          reissue, sending, world, PackedIsMarked,
          IF Packing THEN dataInfo ELSE <<>> >>
WhilePacked == McuHeartBeat \/ Reread => Packing
============================================================================

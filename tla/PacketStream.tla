---------------------------- MODULE PacketStream ----------------------------
(***************************************************************************)
(* What the receiving side of a connection promises: the packets it hands  *)
(* on are the packets in the bytes that have arrived, each once, whole and *)
(* in order, however the network cut the bytes up; and once it has failed  *)
(* it hands on nothing more.                                               *)
(***************************************************************************)
EXTENDS Integers, Sequences

CONSTANTS Frames(_)     \* the packets of a sequence of bytes

VARIABLES arrived, delivered, failed

streamVars == <<arrived, delivered, failed>>

Init == arrived = <<>> /\ delivered = <<>> /\ failed = FALSE

Arrive ==
    /\ Len(arrived') > Len(arrived)
    /\ arrived = SubSeq(arrived', 1, Len(arrived))
    /\ UNCHANGED <<delivered, failed>>

Deliver ==
    /\ ~failed
    /\ Len(delivered) < Len(Frames(arrived))
    /\ delivered' = Append(delivered, Frames(arrived)[Len(delivered) + 1])
    /\ UNCHANGED <<arrived, failed>>

Fail ==
    /\ failed' = TRUE
    /\ UNCHANGED <<arrived, delivered>>

Spec == Init /\ [][Arrive \/ Deliver \/ Fail]_streamVars
=============================================================================

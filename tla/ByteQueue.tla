----------------------------- MODULE ByteQueue ------------------------------
(***************************************************************************)
(* What a receive buffer promises, whatever it is made of: a first-in      *)
(* first-out queue of bytes that holds at most Capacity of them.  It is    *)
(* the abstract specification RingBuffer implements.                       *)
(***************************************************************************)
EXTENDS Naturals, Sequences

CONSTANTS Byte, Capacity

VARIABLE queue

Init == queue = <<>>

Put(bytes) ==
    /\ Len(queue) + Len(bytes) <= Capacity
    /\ queue' = queue \o bytes

Get(n) ==
    /\ n <= Len(queue)
    /\ queue' = SubSeq(queue, n + 1, Len(queue))

Next ==
    \/ \E n \in 0..Capacity : \E bytes \in [1..n -> Byte] : Put(bytes)
    \/ \E n \in 0..Capacity : Get(n)

Spec == Init /\ [][Next]_queue
=============================================================================

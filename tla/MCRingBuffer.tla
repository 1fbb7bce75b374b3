---------------------------- MODULE MCRingBuffer ----------------------------
(***************************************************************************)
(* A ring of three slots that a stream of up to six bytes passes through   *)
(* twice, so that every pair of a read and a write position occurs, with   *)
(* the spans split and unsplit.                                            *)
(***************************************************************************)
EXTENDS RingBuffer
=============================================================================

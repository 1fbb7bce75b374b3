----------------------------- MODULE MCReceiver -----------------------------
(***************************************************************************)
(* A ring of three bytes and packets of up to three, as the ring of the    *)
(* code holds exactly the longest packet; varints of one-bit segments and  *)
(* four digits, so that lengths from -8 to 7 can be sent.                  *)
(***************************************************************************)
EXTENDS Receiver
=============================================================================

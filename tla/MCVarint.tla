------------------------------ MODULE MCVarint ------------------------------
(***************************************************************************)
(* Varints of three-bit segments and eight digits: three bytes at most,    *)
(* the last of which has one segment bit too many, as the fifth byte of    *)
(* the real encoding has three.  Every value and every four bytes a peer   *)
(* can send are tried.                                                     *)
(***************************************************************************)
EXTENDS VarintCodec
=============================================================================

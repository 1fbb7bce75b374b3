---------------------------- MODULE MCSendPath ------------------------------
(***************************************************************************)
(* Two packets of up to four bytes, one of them with an id of two bytes,   *)
(* with lengths of one and of two bytes, and packets one byte too long.    *)
(***************************************************************************)
EXTENDS SendPath
=============================================================================

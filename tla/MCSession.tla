----------------------------- MODULE MCSession ------------------------------
(***************************************************************************)
(* Model-checking a session: five packets, so that a query can come before *)
(* the profile and a login, a keep-alive and one packet more after it, and *)
(* three on the way at once.                                               *)
(***************************************************************************)
EXTENDS Session
=============================================================================

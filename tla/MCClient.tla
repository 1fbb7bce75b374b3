------------------------------ MODULE MCClient ------------------------------
(***************************************************************************)
(* Model-checking client against a server that may send any packet with    *)
(* any body, whatever the state: four packets, so that after a profile     *)
(* there can be a login, a chunk and a login again.  A handler looks at no *)
(* packet but its own, so one packet waits at a time.                      *)
(***************************************************************************)
EXTENDS Client, TLC

CONSTANTS a1, a2

MCArg == {a1, a2}

ArgSymmetry == Permutations(MCArg)
=============================================================================

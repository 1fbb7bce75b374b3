---------------------------- MODULE MCApplication ---------------------------
(***************************************************************************)
(* Two events in a frame, any number of frames; a key that moves, the      *)
(* key that captures the mouse and one bound to nothing; every value the   *)
(* callbacks accept and one they refuse.                                   *)
(***************************************************************************)
EXTENDS Application

MCKeyboard == {"LALT", "D", "Q"}
MCMotions == {<<1, 0>>, <<-1, 1>>, <<0, -2>>}
MCTyped == 0..4
=============================================================================

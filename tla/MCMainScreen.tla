---------------------------- MODULE MCMainScreen ----------------------------
(* Three processes: 1 is the parent of 2, and 2 of 3. *)
EXTENDS MainScreen

Processes == 1 .. 3
Chain == <<0, 1, 2>>
Texts == <<{1, 2}, {2}>>
=============================================================================

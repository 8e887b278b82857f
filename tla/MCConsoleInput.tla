---------------------------- MODULE MCConsoleInput ----------------------------
(***************************************************************************)
(* An instance of ConsoleInput for TLC: a letter, Enter and Backspace, and *)
(* Shift to make the letter a capital.                                     *)
(***************************************************************************)
EXTENDS ConsoleInput

MCBytes == {30, 28, 14, 42}
=============================================================================

------------------------------ MODULE MCKeyboard ------------------------------
(***************************************************************************)
(* Instances of Keyboard for TLC: short rings and a few bytes.             *)
(***************************************************************************)
EXTENDS Keyboard

\* Two keys, Enter among them: enough to tell the order of keys.
MCTwoKeys == {28, 30}
=============================================================================

--------------------------- MODULE MCKeyboardDevice ---------------------------
(***************************************************************************)
(* An instance of KeyboardDevice for TLC: both Shift keys, Caps Lock, Tab, *)
(* one letter and one digit; the Up arrow, the fake Shift that Print       *)
(* Screen sends and the keypad Enter, whose code is that of Enter.         *)
(***************************************************************************)
EXTENDS KeyboardDevice

MCPlainKeys    == {42, 54, CapsMake, TabMake, 30, 2}
MCExtendedKeys == {72, 42, 28}
=============================================================================

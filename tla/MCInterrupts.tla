----------------------------- MODULE MCInterrupts -----------------------------
(***************************************************************************)
(* An instance of Interrupts for TLC.  The counter wraps after six ticks, so *)
(* that sleeps start before the wrap and end after it.                     *)
(***************************************************************************)
EXTENDS Interrupts

MCSleepTicks == {0, 1, 2, 3}
=============================================================================

----------------------------- MODULE ConsoleInput -----------------------------
(***************************************************************************)
(* The two system calls that read keys, on top of the keyboard ring with   *)
(* all its interleavings: the line editor of syscall_read and the batches  *)
(* of syscall_getchar.  What module Keyboard leaves open, how full the     *)
(* line and the batch are, is decided here.                                *)
(***************************************************************************)
EXTENDS Keyboard, SequencesExt

CONSTANTS
  LineLength,    \* bytes of the line with its terminator, 256 in the program
  MaxLen,        \* keys the caller of syscall_getchar has room for
  MaxTyped       \* bound of the model: keys typed after a clear

ASSUME LineAssumption == LineLength \in Nat \ {0} /\ MaxLen \in Nat

VARIABLES
  line,      \* buf[0 .. size - 1] of syscall_read
  batch,     \* user_buf[0 .. written - 1] of syscall_getchar
  typed,     \* history: keys pushed since the clear
  dropped,   \* history: the full ring has dropped one of them
  earlier    \* history: how many of them had been read when the last call ended

input     == <<line, batch>>
inputVars == <<vars, input, typed, dropped, earlier>>

InputInit ==
  /\ Init /\ line = <<>> /\ batch = <<>>
  /\ typed = <<>> /\ dropped = FALSE /\ earlier = 0

\* The keys typed since the clear that are no longer in the ring.
Consumed == SubSeq(typed, 1, Len(typed) - Len(Pending))

\* A byte from the keyboard; the ring is module Keyboard's.
KeyTyped(b) ==
  LET k == KeyOf(b, e0_prefix, shiftPressed, capsLock)
  IN  /\ IRQ1(b)
      /\ IF k = NUL THEN UNCHANGED <<typed, dropped>>
         ELSE /\ Len(typed) < MaxTyped
              /\ typed' = Append(typed, k)
              /\ dropped' = (dropped \/ bufferFull)
      /\ UNCHANGED <<input, earlier>>

\* Both calls start with nothing read.
Call(c) ==
  /\ EnterKernel(c)
  /\ line' = <<>> /\ batch' = <<>>
  /\ UNCHANGED <<typed, dropped, earlier>>

\* Mutant: the line may use the byte of its terminator.
EditNoTerminator ==
  \/ ev = ENTER /\ pc' = "iretq" /\ UNCHANGED line
  \/ ev = NUL /\ pc' = "again" /\ UNCHANGED line
  \/ ev = BS /\ pc' = "again" /\ line' = IF line = <<>> THEN line ELSE Front(line)
  \/ ev \notin {ENTER, NUL, BS}
     /\ IF Len(line) < LineLength
          THEN pc' = "again" /\ line' = Append(line, ev)
          ELSE pc' = "iretq" /\ UNCHANGED line

\* Mutant: Backspace empties the line.
EditErasesAll ==
  \/ ev = ENTER /\ pc' = "iretq" /\ UNCHANGED line
  \/ ev = NUL /\ pc' = "again" /\ UNCHANGED line
  \/ ev = BS /\ pc' = "again" /\ line' = <<>>
  \/ ev \notin {ENTER, NUL, BS}
     /\ IF Len(line) + 1 < LineLength
          THEN pc' = "again" /\ line' = Append(line, ev)
          ELSE pc' = "iretq" /\ UNCHANGED line

\* One key of syscall_read.  The key that finds the line full is not stored and
\* ends the line as Enter does.
Edit ==
  \/ ev = ENTER /\ pc' = "iretq" /\ UNCHANGED line
  \/ ev = NUL /\ pc' = "again" /\ UNCHANGED line
  \/ ev = BS /\ pc' = "again" /\ line' = IF line = <<>> THEN line ELSE Front(line)
  \/ ev \notin {ENTER, NUL, BS}
     /\ IF Len(line) + 1 < LineLength
          THEN pc' = "again" /\ line' = Append(line, ev)
          ELSE pc' = "iretq" /\ UNCHANGED line

\* Letters of a batch are lower case, whatever Shift and Caps Lock say.
Lower(k) == IF k \in 65 .. 90 THEN k + 32 ELSE k

\* Mutant: the clock is looked at after a key is taken and before it is stored.
CollectTooLate ==
  \/ pc' = "cli" /\ UNCHANGED batch
  \/ /\ batch' = IF ev # NUL /\ Len(batch) < MaxLen THEN Append(batch, Lower(ev)) ELSE batch
     /\ pc' = IF ev # NUL /\ Len(batch') >= MaxLen THEN "cli" ELSE "again"

\* One key of syscall_getchar; without room it is taken from the ring and lost.
Collect ==
  /\ batch' = IF ev # NUL /\ Len(batch) < MaxLen THEN Append(batch, Lower(ev)) ELSE batch
  /\ pc' = IF ev # NUL /\ Len(batch') >= MaxLen THEN "cli" ELSE "again"

TakeKey ==
  /\ HandleKey
  /\ \/ client = "waitForEnter" /\ UNCHANGED input
     \/ client = "syscall_read" /\ Edit /\ UNCHANGED batch
     \/ client = "syscall_getchar" /\ Collect /\ UNCHANGED line
  /\ UNCHANGED <<typed, dropped, earlier>>

\* The clear forgets what was typed before it.
Clear ==
  /\ ClearLast
  /\ typed' = <<>> /\ dropped' = FALSE /\ earlier' = 0
  /\ UNCHANGED input

\* The steps of the reader that concern neither the line nor the batch.
OtherStep ==
  /\ GetNextKey \/ ClearNext \/ ClearCount \/ HasNextKey \/ EnableInterrupts
     \/ LoopOrTimeOut \/ DisableInterrupts
  /\ UNCHANGED <<input, typed, dropped, earlier>>

Return ==
  /\ ReturnToUser
  /\ earlier' = Len(Consumed)
  /\ UNCHANGED <<input, typed, dropped>>

InputNext ==
  \/ \E b \in Bytes : KeyTyped(b)
  \/ \E c \in Clients : Call(c)
  \/ TakeKey \/ Clear \/ OtherStep \/ Return

InputSpec == InputInit /\ [][InputNext]_inputVars

------------------------------------------------------------------------------
(* Properties. *)

\* The line leaves room for its terminator, the batch fits the caller's buffer.
InputTypeOK ==
  /\ line \in Seq(Byte \ {NUL}) /\ Len(line) < LineLength
  /\ batch \in Seq(Byte \ {NUL}) /\ Len(batch) <= MaxLen

\* Every key was read as it was typed: none fell out of the full ring and no
\* read was disturbed by the handler.
Faithful == ~disturbed /\ ~dropped

\* What a line should hold after some keys were typed.
AfterKey(l, k) == IF k # BS THEN Append(l, k) ELSE IF l = <<>> THEN l ELSE Front(l)

Edited(ks) ==
  LET after[n \in 0 .. Len(ks)] == IF n = 0 THEN <<>> ELSE AfterKey(after[n - 1], ks[n])
  IN  after[Len(ks)]

\* The line that the shell gets is what was typed, up to the Enter or the key
\* that did not fit, with every Backspace applied: through the decoder, the
\* ring and a reader that the handler interrupts at any point.
LineIsWhatWasTyped ==
  client = "syscall_read" /\ pc = "iretq" /\ Faithful =>
    /\ line = Edited(Front(Consumed))
    /\ Last(Consumed) = ENTER \/ Len(line) = LineLength - 1

\* A batch is the keys that left the ring since the last call ended, all of
\* them, once and in order, in lower case: no key is taken and not returned, be
\* it the first or the one at which the call times out or the buffer is full,
\* none is returned twice, and a call starts where the one before it ended.
BatchIsWhatWasTyped ==
  client = "syscall_getchar" /\ pc = "iretq" /\ Faithful /\ MaxLen > 0 =>
    /\ earlier <= Len(Consumed)
    /\ batch = [i \in 1 .. Len(Consumed) - earlier |-> Lower(Consumed[earlier + i])]
=============================================================================

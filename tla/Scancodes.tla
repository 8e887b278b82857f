------------------------------ MODULE Scancodes ------------------------------
(***************************************************************************)
(* Translation of the set-1 scancode bytes that the keyboard sends, as     *)
(* keyboardPressed and addKeyToBuffer do it for one byte.  Characters are  *)
(* their codes, 0 .. 255; 0 (NUL) stands for "no key".                     *)
(***************************************************************************)
EXTENDS Naturals

Byte == 0 .. 255

NUL   == 0
BS    == 8
TAB   == 9
ENTER == 10

KEY_UP    == 241
KEY_DOWN  == 242
KEY_LEFT  == 243
KEY_RIGHT == 244

E0         == 224
TabMake    == 15
CapsMake   == 58
ShiftMake  == {42, 54}
ShiftBreak == {170, 182}

\* Bit 7 of a byte: the key went up.
IsBreak(b) == b >= 128

\* Entries 1 .. 57 of the table; the others are zero.
scancode_to_ascii ==
  << 27, 49, 50, 51, 52, 53, 54, 55, 56, 57, 48, 45, 61,  8,
      9, 113, 119, 101, 114, 116, 121, 117, 105, 111, 112, 91, 93, 10, 0,
     97, 115, 100, 102, 103, 104, 106, 107, 108, 59, 39, 96, 0, 92, 122, 120,
     99, 118, 98, 110, 109, 44, 46, 47, 0, 42, 0, 32 >>

\* The caps-lock table has the capitals and the five control characters and
\* space; every digit and punctuation mark of the plain table is zero in it.
scancode_to_ascii_mayus ==
  [i \in 1 .. 57 |->
     LET c == scancode_to_ascii[i]
     IN  IF c \in 97 .. 122 THEN c - 32
         ELSE IF c \in {27, BS, TAB, ENTER, 32} THEN c ELSE NUL]

Translate(b, caps) ==
  IF b \notin 1 .. 57 THEN NUL
  ELSE IF caps THEN scancode_to_ascii_mayus[b] ELSE scancode_to_ascii[b]

\* The token of an E0-prefixed make code.
Arrow(b) == CASE b = 72 -> KEY_UP
              [] b = 75 -> KEY_DOWN
              [] b = 80 -> KEY_LEFT
              [] b = 77 -> KEY_RIGHT
              [] OTHER  -> NUL

\* A byte that addKeyToBuffer sees: neither the prefix nor prefixed.
IsPlain(b, e0) == b # E0 /\ ~e0

NextE0(b) == b = E0

\* Mutant: the right Shift key is never released.
NextShiftLeftOnly(b, e0, shift) ==
  CASE IsPlain(b, e0) /\ b \in ShiftMake  -> TRUE
    [] IsPlain(b, e0) /\ b = 170 -> FALSE
    [] OTHER -> shift

\* Mutant: the fake Shift codes of extended keys count as Shift.
NextShiftAfterPrefix(b, e0, shift) ==
  CASE b \in ShiftMake  -> TRUE
    [] b \in ShiftBreak -> FALSE
    [] OTHER -> shift

NextShift(b, e0, shift) ==
  CASE IsPlain(b, e0) /\ b \in ShiftMake  -> TRUE
    [] IsPlain(b, e0) /\ b \in ShiftBreak -> FALSE
    [] OTHER -> shift

NextCaps(b, e0, caps) == IF IsPlain(b, e0) /\ b = CapsMake THEN ~caps ELSE caps

\* Shift+Tab takes a snapshot of the interrupted registers.
TakesSnapshot(b, e0, shift) == IsPlain(b, e0) /\ b = TabMake /\ shift

\* Mutant: an arrow types once more when it is released.
KeyOfOnBothEdges(b, e0, shift, caps) ==
  CASE e0 /\ b # E0 -> Arrow(b % 128)
    [] IsPlain(b, e0) /\ ~IsBreak(b) /\ ~TakesSnapshot(b, e0, shift) ->
         Translate(b, caps)
    [] OTHER -> NUL

\* The key that the byte appends to the buffer, NUL when it appends none.
KeyOf(b, e0, shift, caps) ==
  CASE e0 /\ b # E0 /\ ~IsBreak(b) -> Arrow(b)
    [] IsPlain(b, e0) /\ ~IsBreak(b) /\ ~TakesSnapshot(b, e0, shift) ->
         Translate(b, caps)
    [] OTHER -> NUL
=============================================================================

------------------------------- MODULE Console -------------------------------
(***************************************************************************)
(* The text console of video.c and the system calls that write to it: a    *)
(* cursor, a font scale and the screen, and the echo that syscall_read     *)
(* gives to the line it reads.  The back buffer is a source of frames.     *)
(*                                                                         *)
(* Lengths are in cells of the unscaled font, 8 by 16 pixels.  The screen  *)
(* of the program is 128 by 48 of them and no operation leaves that grid.  *)
(* A glyph at scale s fills s by s cells; of its pixels and its colours    *)
(* only the character remains.                                             *)
(***************************************************************************)
EXTENDS Integers, Sequences, SequencesExt

CONSTANTS
  W, H,         \* size of the screen, 128 by 48 in the program
  MaxScale,     \* largest font scale, 4 in the program
  LineLength,   \* bytes of the line of syscall_read, 256 in the program
  Letters,      \* characters that only draw a glyph
  Strings,      \* what programs print
  Frames,       \* what they compose in the back buffer
  Positions     \* columns and rows that programs pass to write_at

ASSUME ConsoleAssumption ==
  /\ W \in Nat /\ H \in Nat /\ MaxScale \in Nat \ {0}
  /\ MaxScale < W /\ MaxScale < H
  /\ LineLength \in Nat \ {0}
  /\ Positions \subseteq Int \X Int

NL    == "newline"
TAB   == "tab"
BS    == "backspace"
Blank == "blank"

Cells   == (0 .. W - 1) \X (0 .. H - 1)
Screens == [Cells -> Letters \cup {Blank}]
Empty   == [p \in Cells |-> Blank]

ASSUME TextAssumption ==
  /\ Letters \cap {NL, TAB, BS, Blank} = {}
  /\ Strings \subseteq Seq(Letters \cup {NL, TAB, BS})
  /\ Frames \subseteq Screens

VARIABLES
  con,       \* [x, y, vram]: cursor and screen; top is history
  g_scale,   \* font scale
  reading,   \* syscall_read is at its loop
  line       \* buf[0 .. size - 1] of syscall_read

VARIABLES    \* history
  start,     \* column where the line begins; con.top is its row, which scrolls
  steady,    \* since the last clear nothing was drawn but text at the cursor
  fit,       \* the line began with room for a glyph under the cursor
  plain      \* no Tab was typed and no Backspace left its row, since then

code == <<con, g_scale, reading, line>>
hist == <<start, steady, fit, plain>>
vars == <<code, hist>>

------------------------------------------------------------------------------
(* The functions of video.c, on a console c at scale s.  Glyphs for the back *)
(* buffer leave the screen alone. *)

\* A square of one cell per scale step at the cursor; what is outside is clipped.
Under(c, s, p) == p[1] \in c.x .. c.x + s - 1 /\ p[2] \in c.y .. c.y + s - 1

Draw(c, s, k, target) ==
  IF target = "back" THEN c
  ELSE [c EXCEPT !.vram = [p \in Cells |-> IF Under(c, s, p) THEN k ELSE @[p]]]

\* The row of the line that is being read goes up with the screen, until it is gone.
Gone == -MaxScale
TopUp(c, rows) == IF c.top - rows < Gone THEN Gone ELSE c.top - rows

\* Mutant: the rows that come in at the bottom are not cleared.
ScrollUpDirty(c, rows) ==
  LET up == IF c.y >= rows THEN c.y - rows ELSE 0
  IN  [c EXCEPT
         !.vram = [p \in Cells |-> IF p[2] + rows < H THEN @[<<p[1], p[2] + rows>>] ELSE @[p]],
         !.y = IF up + rows > H THEN H - rows ELSE up,
         !.x = IF @ + rows > W THEN 0 ELSE @,
         !.top = TopUp(c, rows)]

\* Always by one line of text, which is less than the height of the screen.
\* Whatever buffer the text goes to, the screen is what scrolls.
ScrollUp(c, rows) ==
  LET up == IF c.y >= rows THEN c.y - rows ELSE 0
  IN  [c EXCEPT
         !.vram = [p \in Cells |-> IF p[2] + rows < H THEN @[<<p[1], p[2] + rows>>] ELSE Blank],
         !.y = IF up + rows > H THEN H - rows ELSE up,
         !.x = IF @ + rows > W THEN 0 ELSE @,
         !.top = TopUp(c, rows)]

\* Mutant: the screen scrolls one line late.
NewlineLate(c, s) ==
  LET d == [c EXCEPT !.x = 0, !.y = @ + s]
  IN  IF d.y > H THEN ScrollUp(d, s) ELSE d

vdNewline(c, s) ==
  LET d == [c EXCEPT !.x = 0, !.y = @ + s]
  IN  IF d.y + s > H THEN ScrollUp(d, s) ELSE d

\* At the left margin the cursor goes up, to the right of the last whole column.
vdBackSpace(c, s, target) ==
  LET left == [c EXCEPT !.x = @ - s]
      up   == [c EXCEPT !.y = @ - s, !.x = (W \div s) * s]
  IN  IF c.x >= s THEN Draw(left, s, Blank, target)
      ELSE IF c.y >= s THEN Draw(up, s, Blank, target)
      ELSE c

\* Mutant: the line wraps when the cursor has left the screen.
GlyphWrapsLate(c, s, k, target) ==
  LET d == [Draw(c, s, k, target) EXCEPT !.x = @ + s]
  IN  IF d.x > W THEN vdNewline(d, s) ELSE d

\* A glyph and the step to the next place, at the end of the row like vdNewline.
Glyph(c, s, k, target) ==
  LET d == [Draw(c, s, k, target) EXCEPT !.x = @ + s]
  IN  IF d.x + s > W THEN vdNewline(d, s) ELSE d

vdPrintChar(c, s, k, target) ==
  CASE k = NL  -> vdNewline(c, s)
    [] k = TAB -> LET space(d) == Glyph(d, s, Blank, target)
                  IN  space(space(space(space(c))))
    [] k = BS  -> vdBackSpace(c, s, target)
    [] OTHER   -> Glyph(c, s, k, target)

vdPrint(c, s, str, target) ==
  LET after[n \in 0 .. Len(str)] ==
        IF n = 0 THEN c ELSE vdPrintChar(after[n - 1], s, str[n], target)
  IN  after[Len(str)]

\* Text at a column and a row, after which the cursor is where it was.
vdPrintStyled_AT(c, s, str, col, fil, target) ==
  LET at == [c EXCEPT !.x = (IF col < 0 THEN 0 ELSE col) * s,
                      !.y = (IF fil < 0 THEN 0 ELSE fil) * s]
  IN  [vdPrint(at, s, str, target) EXCEPT !.x = c.x, !.y = c.y]

------------------------------------------------------------------------------
(* The system calls.  Nothing else draws while syscall_read waits. *)

Cleared == [x |-> 0, y |-> 0, vram |-> Empty, top |-> Gone]

Init ==
  /\ con = Cleared
  /\ g_scale = 1
  /\ reading = FALSE /\ line = <<>>
  /\ start = 0
  /\ steady = TRUE /\ fit = FALSE /\ plain = FALSE

Write(str) ==
  /\ ~reading
  /\ con' = vdPrint(con, g_scale, str, "vram")
  /\ UNCHANGED <<g_scale, reading, line, hist>>

WriteAt(str, at, target) ==
  /\ ~reading
  /\ con' = vdPrintStyled_AT(con, g_scale, str, at[1], at[2], target)
  /\ steady' = (steady /\ target = "back")
  /\ UNCHANGED <<g_scale, reading, line, start, fit, plain>>

ClearWindow ==
  /\ ~reading
  /\ con' = Cleared
  /\ steady' = TRUE
  /\ UNCHANGED <<g_scale, reading, line, start, fit, plain>>

PresentFullframe(frame) ==
  /\ ~reading
  /\ con' = [con EXCEPT !.vram = frame]
  /\ steady' = FALSE
  /\ UNCHANGED <<g_scale, reading, line, start, fit, plain>>

\* Any number may be asked for.
Resize(s) ==
  /\ ~reading
  /\ g_scale' = IF s < 1 THEN 1 ELSE IF s > MaxScale THEN MaxScale ELSE s
  /\ steady' = (steady /\ (con.x = 0 \/ g_scale' = g_scale))
  /\ UNCHANGED <<con, reading, line, start, fit, plain>>

ReadCall ==
  /\ ~reading
  /\ reading' = TRUE /\ line' = <<>>
  /\ start' = con.x /\ con' = [con EXCEPT !.top = con.y]
  /\ fit' = (steady /\ con.x + g_scale <= W /\ con.y + g_scale <= H)
  /\ plain' = TRUE
  /\ UNCHANGED <<g_scale, steady>>

\* The line ends with Enter, or with the key that it has no room for, and its
\* buffer is the program's again.
EndLine ==
  /\ con' = [vdNewline(con, g_scale) EXCEPT !.top = Gone]
  /\ reading' = FALSE /\ line' = <<>>
  /\ start' = 0 /\ plain' = FALSE /\ fit' = FALSE

\* Mutant: Backspace is echoed without a look at the length of the line.
EraseAlways ==
  /\ line' = IF line = <<>> THEN line ELSE Front(line)
  /\ con' = vdBackSpace(con, g_scale, "vram")
  /\ plain' = (plain /\ con.x >= g_scale)
  /\ UNCHANGED <<reading, start, fit>>

\* Backspace with something to erase.
Erase ==
  /\ line # <<>>
  /\ line' = Front(line)
  /\ con' = vdBackSpace(con, g_scale, "vram")
  /\ plain' = (plain /\ con.x >= g_scale)
  /\ UNCHANGED <<reading, start, fit>>

Echo(k) ==
  /\ line' = Append(line, k)
  /\ con' = vdPrintChar(con, g_scale, k, "vram")
  /\ plain' = (plain /\ k # TAB)
  /\ UNCHANGED <<reading, start, fit>>

\* The keys of syscall_read, Enter being NL.  Nothing comes of a Backspace on an
\* empty line.
Key(k) ==
  /\ reading
  /\ \/ k = NL /\ EndLine
     \/ k = BS /\ Erase
     \/ k \notin {NL, BS} /\ IF Len(line) + 1 < LineLength THEN Echo(k) ELSE EndLine
  /\ UNCHANGED <<g_scale, steady>>

Next ==
  \/ \E str \in Strings : Write(str)
  \/ \E str \in Strings, at \in Positions, target \in {"vram", "back"} : WriteAt(str, at, target)
  \/ ClearWindow
  \/ \E frame \in Frames : PresentFullframe(frame)
  \/ \E s \in 0 .. MaxScale + 1 : Resize(s)
  \/ ReadCall
  \/ \E k \in Letters \cup {NL, TAB, BS} : Key(k)

Spec == Init /\ [][Next]_vars

------------------------------------------------------------------------------
(* Properties. *)

\* The cursor never leaves the screen by more than the place after the last
\* column, where a Backspace puts it, whatever is printed, scrolled or resized.
TypeOK ==
  /\ con.x \in 0 .. W /\ con.y \in 0 .. H - 1 /\ con.top \in Gone .. H - 1
  /\ con.vram \in Screens
  /\ g_scale \in 1 .. MaxScale
  /\ line \in Seq(Letters \cup {TAB}) /\ Len(line) < LineLength
  /\ start \in 0 .. W
  /\ {reading, steady, fit, plain} \subseteq BOOLEAN

\* The cells that a reader meets before column i of the line of text at row j.
Before(p, i, j) == p[2] < j \/ (p[2] < j + g_scale /\ p[1] < i)

\* Text that is printed never runs over text that is already there, unless a
\* program drew out of turn or changed the font in the middle of a row: whatever
\* wraps, scrolls and erasures came before, the rest of the screen is blank.
PrintsOnBlank == steady => \A p \in Cells : Before(p, con.x, con.y) \/ con.vram[p] = Blank

\* The place of the glyph that is n glyphs before the cursor.
Columns == W \div g_scale
Back(n) ==
  LET i == con.x \div g_scale - n
  IN  << (i % Columns) * g_scale, con.y + (i \div Columns) * g_scale >>

\* What the user sees while typing is the line that the program will get: each of
\* its glyphs where it belongs between the prompt and the cursor, over wraps,
\* scrolls and Backspaces within a row.  A Tab is four glyphs of which a Backspace
\* erases one; a Backspace over a margin erases nothing.
EchoShowsLine ==
  reading /\ fit /\ plain =>
    /\ con.top > Gone => Back(Len(line)) = << start, con.top >>
    /\ \A n \in 1 .. Len(line), p \in Cells :
         LET at == Back(n)
         IN  p[1] \in at[1] .. at[1] + g_scale - 1 /\ p[2] \in at[2] .. at[2] + g_scale - 1
               => con.vram[p] = line[Len(line) - n + 1]

\* However often Backspace is pressed, also after Tabs and over margins, it never
\* erases what was on the screen before the line.
PromptKept ==
  [][reading /\ fit /\ reading' /\ Len(line') <= Len(line) =>
       \A p \in Cells : Before(p, start, con.top) => con'.vram[p] = con.vram[p]]_vars
=============================================================================

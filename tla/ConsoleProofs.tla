---------------------------- MODULE ConsoleProofs ----------------------------
(***************************************************************************)
(* The console, for a screen of any size, fonts of any scale that fits it  *)
(* and texts of any length: the cursor stays on the screen, text is        *)
(* printed on blank cells, the prompt is kept and the echo is the line.    *)
(***************************************************************************)
EXTENDS Console, WellFoundedInduction, TLAPS

Scales == 1 .. MaxScale
Chars  == Letters \cup {NL, TAB, BS}

\* Consoles with the cursor anywhere, as write_at may put it, and on the screen.
Consoles == [x : Nat, y : Nat, vram : Screens, top : Gone .. H - 1]
OnScreen == [x : 0 .. W, y : 0 .. H - 1, vram : Screens, top : Gone .. H - 1]

------------------------------------------------------------------------------
(* Induction over the length of a text.                                    *)

\* Every set of numbers that is not empty has a least one.
LEMMA LeastNumber ==
  ASSUME NEW T \in SUBSET Nat, T # {}
  PROVE  \E m \in T : \A n \in T : m <= n
<1> DEFINE R == OpToRel(<, Nat)
<1>1. IsWellFoundedOn(R, Nat)
  BY NatLessThanWellFounded
<1> HIDE DEF R
<1>2. PICK m \in T : \A n \in T : <<n, m>> \notin R
  BY <1>1, WFMin
<1>3. \A n \in T : ~(n < m)
  BY <1>2 DEF R, OpToRel
<1>4. QED
  BY <1>3

\* The consoles after each character of a text, from the console that prints it.
IsPrinting(g, n, c, s, str, target) ==
  g = [i \in 0 .. n |-> IF i = 0 THEN c ELSE vdPrintChar(g[i - 1], s, str[i], target)]

LEMMA PrintingExists ==
  ASSUME NEW c, NEW s, NEW str, NEW target, NEW n \in Nat
  PROVE  \E g : IsPrinting(g, n, c, s, str, target)
<1> DEFINE Has(i) == \E g : IsPrinting(g, i, c, s, str, target)
           T == {i \in Nat : ~Has(i)}
<1>1. SUFFICES ASSUME T # {} PROVE FALSE
  BY <1>1
<1>2. PICK m \in T : \A i \in T : m <= i
  BY <1>1, LeastNumber
<1>3. m # 0
  <2> DEFINE g == [i \in 0 .. 0 |-> c]
  <2>1. g[0] = c
    OBVIOUS
  <2>2. IsPrinting(g, 0, c, s, str, target)
    BY <2>1 DEF IsPrinting
  <2>3. QED
    BY <2>2
<1>4. PICK g : IsPrinting(g, m - 1, c, s, str, target)
  BY <1>2, <1>3
<1> DEFINE h == [i \in 0 .. m |-> IF i = m THEN vdPrintChar(g[m - 1], s, str[m], target)
                                  ELSE g[i]]
<1>5. m \in Nat /\ m - 1 \in Nat /\ m > 0
  BY <1>3
<1>6. ASSUME NEW i \in 0 .. m
      PROVE  h[i] = IF i = 0 THEN c ELSE vdPrintChar(h[i - 1], s, str[i], target)
  <2>1. CASE i = m
    <3>1. h[m - 1] = g[m - 1]
      BY <1>5
    <3>2. QED
      BY <1>5, <2>1, <3>1
  <2>2. CASE i # m
    <3>1. i \in 0 .. m - 1 /\ h[i] = g[i] /\ (i # 0 => h[i - 1] = g[i - 1])
      BY <1>5, <2>2
    <3>2. QED
      BY <1>4, <3>1 DEF IsPrinting
  <2>3. QED
    BY <2>1, <2>2
<1> HIDE DEF h
<1>7. h = [i \in 0 .. m |-> h[i]]
  BY DEF h
<1>8. IsPrinting(h, m, c, s, str, target)
  BY <1>6, <1>7 DEF IsPrinting
<1>9. QED
  BY <1>2, <1>8

\* What every character keeps, a text keeps.
LEMMA PrintKeeps ==
  ASSUME NEW Q, NEW c \in Q, NEW s, NEW K, NEW str \in Seq(K), NEW target,
         \A d \in Q, k \in K : vdPrintChar(d, s, k, target) \in Q
  PROVE  vdPrint(c, s, str, target) \in Q
<1> DEFINE n == Len(str)
           g == CHOOSE f : IsPrinting(f, n, c, s, str, target)
<1>1. n \in Nat /\ \A i \in 1 .. n : str[i] \in K
  OBVIOUS
<1> HIDE DEF n
<1>2. IsPrinting(g, n, c, s, str, target)
  <2>1. \E f : IsPrinting(f, n, c, s, str, target)
    BY <1>1, PrintingExists
  <2>2. QED
    BY <2>1
<1>3. vdPrint(c, s, str, target) = g[n]
  BY DEF vdPrint, IsPrinting, n
<1> HIDE DEF g
<1>4. /\ g[0] = c
      /\ \A i \in 1 .. n : g[i] = vdPrintChar(g[i - 1], s, str[i], target)
  BY <1>1, <1>2 DEF IsPrinting
<1> DEFINE T == {i \in 0 .. n : g[i] \notin Q}
<1>5. T = {}
  <2>1. SUFFICES ASSUME T # {} PROVE FALSE
    OBVIOUS
  <2>2. PICK m \in T : \A i \in T : m <= i
    <3>1. T \in SUBSET Nat
      BY <1>1
    <3>2. QED
      BY <2>1, <3>1, LeastNumber
  <2>3. m # 0 /\ m \in 1 .. n
    BY <1>4, <1>1
  <2>4. m - 1 \in 0 .. n /\ g[m - 1] \in Q
    BY <1>1, <2>2, <2>3
  <2>5. QED
    BY <1>1, <1>4, <2>3, <2>4
<1>6. QED
  BY <1>1, <1>3, <1>5

------------------------------------------------------------------------------
(* What each function of video.c does to the cursor and to the cells.      *)

LEMMA Sizes ==
  /\ W \in Nat /\ H \in Nat /\ MaxScale \in Nat /\ MaxScale > 0
  /\ Gone \in Int /\ Gone < 0
  /\ \A s \in Scales : s \in Nat /\ s > 0 /\ s < W /\ s < H /\ s <= -Gone
BY ConsoleAssumption DEF Scales, Gone

\* The columns of glyphs in a row.
LEMMA ColumnsIn ==
  ASSUME NEW s \in Scales
  PROVE  /\ W \div s \in Nat /\ W \div s > 0
         /\ (W \div s) * s \in Nat /\ (W \div s) * s <= W /\ W < (W \div s) * s + s
<1>1. W \in Nat /\ s \in Nat /\ s > 0 /\ s < W
  BY Sizes
<1>2. W \div s \in Int /\ W % s \in 0 .. s - 1 /\ W = s * (W \div s) + (W % s)
  BY <1>1
<1> DEFINE n == W \div s
<1> HIDE DEF n
<1>3. n \in Int /\ n * s \in Int /\ n * s <= W /\ W < n * s + s
  BY <1>1, <1>2 DEF n
<1>4. n > 0
  BY <1>1, <1>3
<1>5. n * s >= 0
  BY <1>1, <1>3, <1>4
<1>6. QED
  BY <1>3, <1>4, <1>5 DEF n

LEMMA DrawIs ==
  ASSUME NEW c \in Consoles, NEW s \in Scales, NEW k \in Letters \cup {Blank}, NEW target
  PROVE  LET d == Draw(c, s, k, target)
         IN  /\ d \in Consoles /\ d.x = c.x /\ d.y = c.y /\ d.top = c.top
             /\ \A p \in Cells : d.vram[p] =
                  IF target # "back" /\ Under(c, s, p) THEN k ELSE c.vram[p]
BY DEF Draw, Consoles, Screens

LEMMA ScrollUpIs ==
  ASSUME NEW c \in Consoles, NEW s \in Scales
  PROVE  LET d == ScrollUp(c, s)
             up == IF c.y >= s THEN c.y - s ELSE 0
         IN  /\ d \in Consoles
             /\ d.x = (IF c.x + s > W THEN 0 ELSE c.x)
             /\ d.y = (IF up + s > H THEN H - s ELSE up)
             /\ d.top = (IF c.top - s < Gone THEN Gone ELSE c.top - s)
             /\ \A p \in Cells : d.vram[p] =
                  IF p[2] + s < H THEN c.vram[<<p[1], p[2] + s>>] ELSE Blank
<1> DEFINE up == IF c.y >= s THEN c.y - s ELSE 0
           shifted == [p \in Cells |-> IF p[2] + s < H THEN c.vram[<<p[1], p[2] + s>>]
                                       ELSE Blank]
           d == ScrollUp(c, s)
<1> USE Sizes
<1>1. c.x \in Nat /\ c.y \in Nat /\ c.vram \in Screens /\ c.top \in Gone .. H - 1
  BY DEF Consoles
<1>2. shifted \in Screens
  <2>1. ASSUME NEW p \in Cells, p[2] + s < H PROVE <<p[1], p[2] + s>> \in Cells
    BY <2>1 DEF Cells
  <2>2. QED
    BY <1>1, <2>1 DEF Screens
<1>3. d = [c EXCEPT !.vram = shifted, !.y = IF up + s > H THEN H - s ELSE up,
                    !.x = IF c.x + s > W THEN 0 ELSE c.x, !.top = TopUp(c, s)]
  BY DEF ScrollUp, Consoles
<1>4. up \in Nat /\ H - s \in Nat
  BY <1>1
<1>5. TopUp(c, s) = (IF c.top - s < Gone THEN Gone ELSE c.top - s)
      /\ TopUp(c, s) \in Gone .. H - 1
  BY <1>1 DEF TopUp
<1> HIDE DEF up, shifted, d
<1>6. /\ d \in Consoles /\ d.vram = shifted /\ d.x = (IF c.x + s > W THEN 0 ELSE c.x)
      /\ d.y = (IF up + s > H THEN H - s ELSE up) /\ d.top = TopUp(c, s)
  BY <1>1, <1>2, <1>3, <1>4, <1>5 DEF Consoles
<1>7. QED
  BY <1>5, <1>6 DEF up, shifted, d

LEMMA NewlineIs ==
  ASSUME NEW c \in Consoles, NEW s \in Scales
  PROVE  LET d == vdNewline(c, s)
         IN  /\ d \in Consoles /\ d.x = 0
             /\ c.y + s + s <= H =>
                  d.y = c.y + s /\ d.vram = c.vram /\ d.top = c.top
             /\ c.y + s + s > H =>
                  /\ d.y = (IF c.y + s > H THEN H - s ELSE c.y)
                  /\ d.top = (IF c.top - s < Gone THEN Gone ELSE c.top - s)
                  /\ \A p \in Cells : d.vram[p] =
                       IF p[2] + s < H THEN c.vram[<<p[1], p[2] + s>>] ELSE Blank
<1> DEFINE e == [c EXCEPT !.x = 0, !.y = @ + s]
<1> USE Sizes
<1>0. c.y + s \in Nat /\ c.y \in Nat /\ s \in Nat
  BY DEF Consoles
<1>1. /\ e \in Consoles /\ e.x = 0 /\ e.y = c.y + s /\ c.y \in Nat
      /\ e.vram = c.vram /\ e.top = c.top
  BY <1>0 DEF Consoles
<1>2. vdNewline(c, s) = IF e.y + s > H THEN ScrollUp(e, s) ELSE e
  BY DEF vdNewline
<1> HIDE DEF e
<1>3. CASE c.y + s + s <= H
  BY <1>1, <1>2, <1>3
<1>4. CASE c.y + s + s > H
  <2> DEFINE d == ScrollUp(e, s)
  <2>1. vdNewline(c, s) = d
    BY <1>1, <1>2, <1>4
  <2>2. /\ d \in Consoles
        /\ d.x = (IF e.x + s > W THEN 0 ELSE e.x)
        /\ d.y = (IF (IF e.y >= s THEN e.y - s ELSE 0) + s > H THEN H - s
                  ELSE IF e.y >= s THEN e.y - s ELSE 0)
        /\ d.top = (IF e.top - s < Gone THEN Gone ELSE e.top - s)
        /\ \A p \in Cells : d.vram[p] =
             IF p[2] + s < H THEN e.vram[<<p[1], p[2] + s>>] ELSE Blank
    BY <1>1, ScrollUpIs
  <2> HIDE DEF d
  <2>3. d.x = 0 /\ d.y = IF c.y + s > H THEN H - s ELSE c.y
    BY <1>1, <2>2
  <2>4. QED
    BY <1>1, <1>4, <2>1, <2>2, <2>3
<1>5. QED
  BY <1>1, <1>3, <1>4

LEMMA GlyphIs ==
  ASSUME NEW c \in Consoles, NEW s \in Scales, NEW k \in Letters \cup {Blank}, NEW target
  PROVE  LET e == Draw(c, s, k, target)
             d == Glyph(c, s, k, target)
         IN  /\ d \in Consoles
             /\ c.x + s + s <= W =>
                  d.x = c.x + s /\ d.y = c.y /\ d.vram = e.vram /\ d.top = c.top
             /\ c.x + s + s > W =>
                  \E f \in Consoles : /\ f.y = c.y /\ f.vram = e.vram /\ f.top = c.top
                                      /\ d = vdNewline(f, s)
<1> DEFINE e == Draw(c, s, k, target)
           f == [e EXCEPT !.x = @ + s]
<1> USE Sizes
<1>1. e \in Consoles /\ e.x = c.x /\ e.y = c.y /\ e.top = c.top
  BY DrawIs
<1> HIDE DEF e
<1>2. /\ f \in Consoles /\ f.x = c.x + s /\ f.y = c.y /\ f.vram = e.vram
      /\ f.top = c.top
  BY <1>1 DEF Consoles
<1>3. Glyph(c, s, k, target) = IF f.x + s > W THEN vdNewline(f, s) ELSE f
  BY DEF Glyph, e
<1> HIDE DEF f
<1>4. vdNewline(f, s) \in Consoles
  BY <1>2, NewlineIs
<1>5. CASE c.x + s + s <= W
  <2>1. Glyph(c, s, k, target) = f
    BY <1>2, <1>3, <1>5 DEF Consoles
  <2>2. QED
    BY <1>2, <1>5, <2>1 DEF e, Consoles
<1>6. CASE c.x + s + s > W
  <2>1. Glyph(c, s, k, target) = vdNewline(f, s)
    BY <1>2, <1>3, <1>6 DEF Consoles
  <2>2. QED
    BY <1>2, <1>4, <1>6, <2>1 DEF e, Consoles
<1>7. QED
  BY <1>5, <1>6, Sizes DEF Consoles

LEMMA BackSpaceIs ==
  ASSUME NEW c \in Consoles, NEW s \in Scales, NEW target
  PROVE  LET d == vdBackSpace(c, s, target)
         IN  /\ d \in Consoles /\ d.top = c.top
             /\ c.x >= s => d.x = c.x - s /\ d.y = c.y
             /\ c.x < s /\ c.y >= s => d.x = (W \div s) * s /\ d.y = c.y - s
             /\ c.x < s /\ c.y < s => d = c
             /\ c.x >= s \/ c.y >= s =>
                  \A p \in Cells : d.vram[p] =
                    IF target # "back" /\ Under(d, s, p) THEN Blank ELSE c.vram[p]
<1> DEFINE edge == (W \div s) * s
           left == [c EXCEPT !.x = @ - s]
           up   == [c EXCEPT !.y = @ - s, !.x = edge]
<1> USE Sizes
<1>0. vdBackSpace(c, s, target) = IF c.x >= s THEN Draw(left, s, Blank, target)
      ELSE IF c.y >= s THEN Draw(up, s, Blank, target) ELSE c
  BY DEF vdBackSpace
<1>1. c.x \in Nat /\ c.y \in Nat /\ edge \in Nat /\ edge = (W \div s) * s
  BY ColumnsIn DEF Consoles
<1> HIDE DEF edge
<1>2. ASSUME NEW e \in Consoles
      PROVE  LET d == Draw(e, s, Blank, target)
             IN  /\ d \in Consoles /\ d.x = e.x /\ d.y = e.y /\ d.top = e.top
                 /\ \A p \in Cells : d.vram[p] =
                      IF target # "back" /\ Under(d, s, p) THEN Blank ELSE e.vram[p]
  <2>1. LET d == Draw(e, s, Blank, target)
        IN  /\ d \in Consoles /\ d.x = e.x /\ d.y = e.y /\ d.top = e.top
            /\ \A p \in Cells : d.vram[p] =
                 IF target # "back" /\ Under(e, s, p) THEN Blank ELSE e.vram[p]
    BY DrawIs
  <2>2. QED
    BY <2>1 DEF Under
<1>3. CASE c.x >= s
  <2>1. left \in Consoles /\ left.x = c.x - s /\ left.y = c.y /\ left.top = c.top
        /\ left.vram = c.vram
    BY <1>1, <1>3 DEF Consoles
  <2> HIDE DEF left
  <2>2. QED
    BY <1>0, <1>1, <1>2, <1>3, <2>1
<1>4. CASE c.x < s /\ c.y >= s
  <2>0. c.y - s \in Nat
    BY <1>1, <1>4
  <2>1. /\ up \in Consoles /\ up.x = edge /\ up.y = c.y - s
        /\ up.top = c.top /\ up.vram = c.vram
    BY <1>1, <2>0 DEF Consoles
  <2> HIDE DEF up
  <2>2. QED
    BY <1>0, <1>1, <1>2, <1>4, <2>1
<1>5. CASE c.x < s /\ c.y < s
  BY <1>0, <1>1, <1>5
<1>6. QED
  BY <1>1, <1>3, <1>4, <1>5

\* What newlines, glyphs and Backspaces keep, a text keeps.
LEMMA TextKeeps ==
  ASSUME NEW s, NEW target, NEW Q,
         \A d \in Q : vdNewline(d, s) \in Q,
         \A d \in Q, k \in Letters \cup {Blank} : Glyph(d, s, k, target) \in Q,
         \A d \in Q : vdBackSpace(d, s, target) \in Q
  PROVE  /\ \A d \in Q, k \in Chars : vdPrintChar(d, s, k, target) \in Q
         /\ \A d \in Q, str \in Seq(Chars) : vdPrint(d, s, str, target) \in Q
<1>1. ASSUME NEW d \in Q, NEW k \in Chars PROVE vdPrintChar(d, s, k, target) \in Q
  <2>1. NL # TAB /\ NL # BS /\ TAB # BS
    BY DEF NL, TAB, BS
  <2>2. CASE k = NL
    <3>1. vdPrintChar(d, s, k, target) = vdNewline(d, s)
      BY <2>2, <2>1 DEF vdPrintChar
    <3>2. QED
      BY <3>1
  <2>3. CASE k = TAB
    <3> DEFINE space(e) == Glyph(e, s, Blank, target)
    <3>1. \A e \in Q : space(e) \in Q
      OBVIOUS
    <3>2. vdPrintChar(d, s, k, target) = space(space(space(space(d))))
      BY <2>3, <2>1 DEF vdPrintChar
    <3> HIDE DEF space
    <3>3. QED
      BY <3>1, <3>2
  <2>4. CASE k = BS
    <3>1. vdPrintChar(d, s, k, target) = vdBackSpace(d, s, target)
      BY <2>4, <2>1 DEF vdPrintChar
    <3>2. QED
      BY <3>1
  <2>5. CASE k \notin {NL, TAB, BS}
    <3>1. vdPrintChar(d, s, k, target) = Glyph(d, s, k, target) /\ k \in Letters
      BY <2>5 DEF vdPrintChar, Chars
    <3>2. QED
      BY <3>1
  <2>6. QED
    BY <2>2, <2>3, <2>4, <2>5
<1>2. ASSUME NEW d \in Q, NEW str \in Seq(Chars) PROVE vdPrint(d, s, str, target) \in Q
  BY <1>1, PrintKeeps
<1>3. QED
  BY <1>1, <1>2

------------------------------------------------------------------------------
(* Types.                                                                  *)

LEMMA ScreenIsConsole == OnScreen \subseteq Consoles
BY Sizes DEF OnScreen, Consoles

LEMMA OnScreenIs ==
  ASSUME NEW c
  PROVE  /\ c \in OnScreen => c.x \in 0 .. W /\ c.y \in 0 .. H - 1 /\ c.top \in Gone .. H - 1
                              /\ c.vram \in Screens
         /\ c \in Consoles /\ c.x \in 0 .. W /\ c.y \in 0 .. H - 1 => c \in OnScreen
BY DEF OnScreen, Consoles

LEMMA InConsoles ==
  ASSUME NEW s \in Scales, NEW target
  PROVE  \A d \in Consoles, str \in Seq(Chars) : vdPrint(d, s, str, target) \in Consoles
BY TextKeeps, NewlineIs, GlyphIs, BackSpaceIs

\* Wherever on the screen a text begins, the cursor stays on the screen.
LEMMA NewlineOnScreen ==
  ASSUME NEW s \in Scales, NEW c \in Consoles, c.y <= H - 1
  PROVE  vdNewline(c, s) \in OnScreen
<1> DEFINE d == vdNewline(c, s)
<1>1. /\ d \in Consoles /\ d.x = 0
      /\ c.y + s + s <= H => d.y = c.y + s
      /\ c.y + s + s > H => d.y = IF c.y + s > H THEN H - s ELSE c.y
  BY NewlineIs
<1> HIDE DEF d
<1>2. c.y \in Nat /\ s \in Nat /\ s > 0 /\ s < H /\ H \in Nat /\ W \in Nat
  BY Sizes DEF Consoles
<1>3. d.x \in 0 .. W /\ d.y \in 0 .. H - 1
  BY <1>1, <1>2
<1>4. d \in OnScreen
  BY <1>1, <1>3 DEF OnScreen, Consoles
<1>5. QED
  BY <1>4 DEF d

LEMMA GlyphOnScreen ==
  ASSUME NEW s \in Scales, NEW target, NEW d \in OnScreen, NEW k \in Letters \cup {Blank}
  PROVE  Glyph(d, s, k, target) \in OnScreen
<1> DEFINE g == Glyph(d, s, k, target)
<1>1. d.x \in 0 .. W /\ d.y \in 0 .. H - 1 /\ d \in Consoles /\ s \in Nat /\ W \in Nat /\ H \in Nat
  BY ScreenIsConsole, OnScreenIs, Sizes
<1>2. CASE d.x + s + s <= W
  <2>1. g \in Consoles /\ g.x = d.x + s /\ g.y = d.y
    BY <1>1, <1>2, GlyphIs
  <2> HIDE DEF g
  <2>2. g.x \in 0 .. W /\ g.y \in 0 .. H - 1
    BY <1>1, <1>2, <2>1
  <2>3. g \in OnScreen
    BY <2>1, <2>2 DEF OnScreen, Consoles
  <2>4. QED
    BY <2>3 DEF g
<1>3. CASE d.x + s + s > W
  <2>1. PICK f \in Consoles : f.y = d.y /\ g = vdNewline(f, s)
    BY <1>1, <1>3, GlyphIs
  <2>2. QED
    BY <1>1, <2>1, NewlineOnScreen
<1>4. QED
  BY <1>1, <1>2, <1>3

LEMMA StaysOnScreen ==
  ASSUME NEW s \in Scales, NEW target
  PROVE  /\ \A d \in OnScreen : vdNewline(d, s) \in OnScreen
         /\ \A d \in OnScreen : vdBackSpace(d, s, target) \in OnScreen
         /\ \A d \in OnScreen, k \in Chars : vdPrintChar(d, s, k, target) \in OnScreen
         /\ \A d \in OnScreen, str \in Seq(Chars) : vdPrint(d, s, str, target) \in OnScreen
<1> USE ScreenIsConsole
<1>1. \A d \in OnScreen : d \in Consoles /\ d.x \in 0 .. W /\ d.y \in 0 .. H - 1
  BY DEF OnScreen
<1>2. \A d \in OnScreen : vdNewline(d, s) \in OnScreen
  BY <1>1, NewlineOnScreen, Sizes
<1>3. \A d \in OnScreen, k \in Letters \cup {Blank} : Glyph(d, s, k, target) \in OnScreen
  BY GlyphOnScreen
<1>4. ASSUME NEW d \in OnScreen PROVE vdBackSpace(d, s, target) \in OnScreen
  <2> DEFINE b == vdBackSpace(d, s, target)
             edge == (W \div s) * s
  <2>1. d.x \in 0 .. W /\ d.y \in 0 .. H - 1 /\ s \in Nat /\ W \in Nat /\ H \in Nat
    BY <1>1, Sizes
  <2>2. edge \in 0 .. W
    BY ColumnsIn, Sizes
  <2>3. /\ b \in Consoles
        /\ d.x >= s => b.x = d.x - s /\ b.y = d.y
        /\ d.x < s /\ d.y >= s => b.x = edge /\ b.y = d.y - s
        /\ d.x < s /\ d.y < s => b = d
    BY BackSpaceIs
  <2> HIDE DEF b, edge
  <2>4. b.x \in 0 .. W /\ b.y \in 0 .. H - 1
    BY <2>1, <2>2, <2>3
  <2>5. b \in OnScreen
    BY <2>3, <2>4 DEF OnScreen, Consoles
  <2>6. QED
    BY <2>5 DEF b
<1>5. QED
  BY <1>2, <1>3, <1>4, TextKeeps

\* write_at begins wherever it is told to and puts the cursor back.
LEMMA PrintAtIs ==
  ASSUME NEW c \in Consoles, NEW s \in Scales, NEW str \in Seq(Chars), NEW at \in Positions,
         NEW target
  PROVE  \E a \in Consoles :
           /\ a.vram = c.vram /\ a.top = c.top
           /\ vdPrint(a, s, str, target) \in Consoles
           /\ LET d == vdPrintStyled_AT(c, s, str, at[1], at[2], target)
                  e == vdPrint(a, s, str, target)
              IN  d \in Consoles /\ d.x = c.x /\ d.y = c.y /\ d.vram = e.vram /\ d.top = e.top
<1> DEFINE i == (IF at[1] < 0 THEN 0 ELSE at[1]) * s
           j == (IF at[2] < 0 THEN 0 ELSE at[2]) * s
           a == [c EXCEPT !.x = i, !.y = j]
           e == vdPrint(a, s, str, target)
<1>1. i \in Nat /\ j \in Nat
  <2>1. at[1] \in Int /\ at[2] \in Int
    BY ConsoleAssumption
  <2>2. \A n \in Nat : n * s \in Nat
    BY Sizes
  <2>3. /\ (IF at[1] < 0 THEN 0 ELSE at[1]) \in Nat
        /\ (IF at[2] < 0 THEN 0 ELSE at[2]) \in Nat
    BY <2>1
  <2>4. QED
    BY <2>2, <2>3
<1>2. vdPrintStyled_AT(c, s, str, at[1], at[2], target) = [e EXCEPT !.x = c.x, !.y = c.y]
  BY DEF vdPrintStyled_AT
<1> HIDE DEF i, j
<1>3. a \in Consoles /\ a.vram = c.vram /\ a.top = c.top
  BY <1>1 DEF Consoles
<1>4. e \in Consoles
  BY <1>3, InConsoles
<1> HIDE DEF a
<1>5. LET d == [e EXCEPT !.x = c.x, !.y = c.y]
      IN  d \in Consoles /\ d.x = c.x /\ d.y = c.y /\ d.vram = e.vram /\ d.top = e.top
  BY <1>4 DEF Consoles
<1>6. QED
  BY <1>2, <1>3, <1>4, <1>5

\* The cursor and the screen are typed as one record.
TypeInv == TypeOK /\ con \in OnScreen

\* A screen without text, which every clear leaves behind.
LEMMA ClearedOnScreen == Cleared \in OnScreen
<1>1. Empty \in Screens
  BY DEF Empty, Screens
<1>2. 0 \in 0 .. W /\ 0 \in 0 .. H - 1 /\ Gone \in Gone .. H - 1
  BY Sizes, ConsoleAssumption
<1>3. QED
  BY <1>1, <1>2 DEF Cleared, OnScreen

LEMMA Texts == Strings \subseteq Seq(Chars) /\ Letters \subseteq Chars /\ {NL, TAB, BS} \subseteq Chars
BY TextAssumption DEF Chars

LEMMA TypeStep == TypeInv /\ [Next]_vars => TypeInv'
<1> SUFFICES ASSUME TypeInv, [Next]_vars PROVE TypeInv'
  OBVIOUS
<1>1. /\ con \in OnScreen /\ con \in Consoles /\ g_scale \in Scales /\ con.top \in Gone .. H - 1
      /\ line \in Seq(Letters \cup {TAB}) /\ Len(line) < LineLength /\ start \in 0 .. W
      /\ reading \in BOOLEAN /\ steady \in BOOLEAN /\ fit \in BOOLEAN /\ plain \in BOOLEAN
  BY ScreenIsConsole DEF TypeInv, TypeOK, Scales
<1>2. /\ con.x \in 0 .. W /\ con.y \in 0 .. H - 1 /\ con.vram \in Screens
  BY DEF TypeInv, TypeOK
<1> DEFINE Rest == /\ g_scale' \in Scales /\ line' \in Seq(Letters \cup {TAB})
                   /\ Len(line') < LineLength /\ start' \in 0 .. W
                   /\ {reading', steady', fit', plain'} \subseteq BOOLEAN
<1>3. SUFFICES con' \in OnScreen /\ Rest
  <2>1. ASSUME con' \in OnScreen, Rest PROVE TypeInv'
    BY <2>1, OnScreenIs DEF TypeInv, TypeOK, Scales
  <2>2. QED
    BY <2>1
<1>0. <<>> \in Seq(Letters \cup {TAB}) /\ Len(<<>>) < LineLength
  BY ConsoleAssumption
<1>4. ASSUME NEW str \in Strings, Write(str) PROVE con' \in OnScreen /\ Rest
  BY <1>1, <1>4, StaysOnScreen, Texts DEF Write, hist
<1>5. ASSUME NEW str \in Strings, NEW at \in Positions, NEW target \in {"vram", "back"},
             WriteAt(str, at, target)
      PROVE  con' \in OnScreen /\ Rest
  <2>1. con' \in Consoles /\ con'.x = con.x /\ con'.y = con.y
    BY <1>1, <1>5, PrintAtIs, Texts DEF WriteAt
  <2>2. con' \in OnScreen
    BY <1>2, <2>1, OnScreenIs
  <2>3. QED
    BY <1>1, <1>5, <2>2 DEF WriteAt
<1>6. CASE ClearWindow
  BY <1>1, <1>6, ClearedOnScreen DEF ClearWindow
<1>7. ASSUME NEW frame \in Frames, PresentFullframe(frame) PROVE con' \in OnScreen /\ Rest
  <2>1. con' \in OnScreen
    BY <1>1, <1>7, TextAssumption DEF PresentFullframe, OnScreen
  <2>2. QED
    BY <1>1, <1>7, <2>1 DEF PresentFullframe
<1>8. ASSUME NEW s \in 0 .. MaxScale + 1, Resize(s) PROVE con' \in OnScreen /\ Rest
  <2>1. g_scale' \in Scales
    BY <1>8, Sizes DEF Resize, Scales
  <2>2. QED
    BY <1>1, <1>8, <2>1 DEF Resize
<1>9. CASE ReadCall
  <2>1. con' \in OnScreen
    BY <1>1, <1>2, <1>9, Sizes, SMTT(60) DEF ReadCall, OnScreen
  <2>2. QED
    <3>1. fit' \in BOOLEAN /\ plain' \in BOOLEAN /\ reading' \in BOOLEAN /\ steady' \in BOOLEAN
      BY <1>1, <1>9 DEF ReadCall
    <3>2. /\ g_scale' \in Scales /\ line' \in Seq(Letters \cup {TAB})
          /\ Len(line') < LineLength /\ start' \in 0 .. W
      BY <1>0, <1>1, <1>2, <1>9 DEF ReadCall
    <3>3. QED
      BY <2>1, <3>1, <3>2
<1>10. ASSUME NEW k \in Letters \cup {NL, TAB, BS}, Key(k) PROVE con' \in OnScreen /\ Rest
  <2>1. CASE EndLine
    <3>1. vdNewline(con, g_scale) \in OnScreen
      BY <1>1, StaysOnScreen
    <3>2. con' \in OnScreen
      BY <2>1, <3>1, Sizes DEF EndLine, OnScreen
    <3>3. QED
      <4>1. /\ reading' = FALSE /\ line' = <<>> /\ start' = 0 /\ plain' = FALSE
            /\ fit' = FALSE /\ g_scale' = g_scale /\ steady' = steady
        BY <1>10, <2>1 DEF EndLine, Key
      <4>2. {reading', steady', fit', plain'} \subseteq BOOLEAN
        BY <1>1, <4>1
      <4>3. QED
        BY <1>0, <1>1, <3>2, <4>1, <4>2, Sizes
  <2>2. CASE Erase
    <3>1. con' \in OnScreen
      BY <1>1, <2>2, StaysOnScreen DEF Erase
    <3>2. line' \in Seq(Letters \cup {TAB}) /\ Len(line') < LineLength
      BY <1>1, <2>2, ConsoleAssumption DEF Erase, Front
    <3>3. QED
      BY <1>1, <1>10, <2>2, <3>1, <3>2 DEF Erase, Key
  <2>3. CASE k \notin {NL, BS} /\ Len(line) + 1 < LineLength /\ Echo(k)
    <3>1. con' \in OnScreen
      BY <1>1, <2>3, StaysOnScreen DEF Echo, Chars
    <3>2. line' \in Seq(Letters \cup {TAB}) /\ Len(line') < LineLength
      BY <1>1, <2>3 DEF Echo
    <3>3. QED
      BY <1>1, <1>10, <2>3, <3>1, <3>2 DEF Echo, Key
  <2>4. QED
    BY <1>10, <2>1, <2>2, <2>3 DEF Key
<1>11. CASE UNCHANGED vars
  BY <1>1, <1>11 DEF vars, code, hist
<1>12. QED
  BY <1>4, <1>5, <1>6, <1>7, <1>8, <1>9, <1>10, <1>11 DEF Next

------------------------------------------------------------------------------
(* Text is printed on blank cells.                                         *)

Aligned(c, s) == \E q \in Nat : c.x = q * s

\* Blank from the cursor on, in the order in which text is read.
After(p, i, j, s) == p[2] >= j + s \/ (p[2] >= j /\ p[1] >= i)
BlankFrom(c, i, j, s) == \A p \in Cells : After(p, i, j, s) => c.vram[p] = Blank
Tidy(s) == {c \in OnScreen : Aligned(c, s) /\ BlankFrom(c, c.x, c.y, s)}

LEMMA AlignedSteps ==
  ASSUME NEW s \in Scales, NEW q \in Nat
  PROVE  /\ q * s \in Nat /\ q * s + s = (q + 1) * s /\ q + 1 \in Nat
         /\ q * s < s => q = 0 /\ q * s = 0
         /\ q * s >= s => q - 1 \in Nat /\ q * s - s = (q - 1) * s
<1>1. s \in Nat /\ s > 0
  BY Sizes
<1>2. q * s \in Nat /\ q * s + s = (q + 1) * s /\ q * s - s = (q - 1) * s
  BY <1>1
<1>3. q = 0 => q * s = 0
  BY <1>1
<1>4. q # 0 => q * s >= s
  <2>1. ASSUME q # 0 PROVE (q - 1) * s >= 0
    <3>1. q - 1 \in Nat
      BY <2>1
    <3>2. QED
      BY <1>1, <3>1
  <2>2. QED
    BY <1>1, <1>2, <2>1
<1>5. QED
  BY <1>1, <1>2, <1>3, <1>4

LEMMA CellsAre == \A p \in Cells : p[1] \in 0 .. W - 1 /\ p[2] \in 0 .. H - 1
BY DEF Cells

LEMMA NewlineTidy ==
  ASSUME NEW s \in Scales, NEW c \in Consoles, c.y <= H - 1,
         \A p \in Cells : p[2] >= c.y + s => c.vram[p] = Blank
  PROVE  vdNewline(c, s) \in Tidy(s)
<1> DEFINE d == vdNewline(c, s)
<1> USE Sizes, CellsAre
<1>1. d \in OnScreen
  BY NewlineOnScreen
<1>2. /\ d.x = 0
      /\ c.y + s + s <= H => d.y = c.y + s /\ d.vram = c.vram
      /\ c.y + s + s > H =>
           /\ d.y = (IF c.y + s > H THEN H - s ELSE c.y)
           /\ \A p \in Cells : d.vram[p] =
                IF p[2] + s < H THEN c.vram[<<p[1], p[2] + s>>] ELSE Blank
  BY NewlineIs
<1> HIDE DEF d
<1>3. c.y \in Nat
  BY DEF Consoles
<1>4. Aligned(d, s)
  <2>1. 0 = 0 * s
    OBVIOUS
  <2>2. QED
    BY <1>2, <2>1 DEF Aligned
<1>5. ASSUME NEW p \in Cells, After(p, d.x, d.y, s) PROVE d.vram[p] = Blank
  <2>1. p[2] >= d.y
    BY <1>1, <1>5, OnScreenIs DEF After
  <2>2. CASE c.y + s + s <= H
    <3>1. d.y = c.y + s /\ d.vram = c.vram
      BY <1>2, <2>2
    <3>2. c.vram[p] = Blank
      BY <2>1, <3>1
    <3>3. QED
      BY <3>1, <3>2
  <2>3. CASE c.y + s + s > H
    <3> DEFINE low == <<p[1], p[2] + s>>
    <3>1. CASE p[2] + s < H
      <4>1. low \in Cells /\ low[2] = p[2] + s /\ low[1] = p[1]
        BY <3>1 DEF Cells
      <4>2. low[2] >= c.y + s
        BY <1>2, <1>3, <2>1, <2>3, <3>1, <4>1
      <4>3. c.vram[low] = Blank
        BY <4>1, <4>2
      <4>4. QED
        BY <1>2, <2>3, <3>1, <4>3
    <3>2. CASE p[2] + s >= H
      <4>1. ~(p[2] + s < H)
        BY <3>2
      <4>2. QED
        BY <1>2, <2>3, <4>1
    <3>3. QED
      BY <3>1, <3>2
  <2>4. QED
    BY <1>3, <2>2, <2>3
<1>6. d \in Tidy(s)
  BY <1>1, <1>4, <1>5 DEF Tidy, BlankFrom
<1>7. QED
  BY <1>6 DEF d

LEMMA GlyphTidy ==
  ASSUME NEW s \in Scales, NEW c \in Tidy(s), NEW k \in Letters \cup {Blank}
  PROVE  Glyph(c, s, k, "vram") \in Tidy(s)
<1> DEFINE e == Draw(c, s, k, "vram")
           d == Glyph(c, s, k, "vram")
<1> USE Sizes, CellsAre
<1>1. c \in OnScreen /\ c \in Consoles /\ c.x \in 0 .. W /\ c.y \in 0 .. H - 1
  BY ScreenIsConsole, OnScreenIs DEF Tidy
<1>2. \A p \in Cells : After(p, c.x, c.y, s) /\ ~Under(c, s, p) => e.vram[p] = Blank
  BY <1>1, DrawIs DEF Tidy, BlankFrom
<1>3. /\ d \in Consoles
      /\ c.x + s + s <= W => d.x = c.x + s /\ d.y = c.y /\ d.vram = e.vram
      /\ c.x + s + s > W => \E f \in Consoles : f.y = c.y /\ f.vram = e.vram /\ d = vdNewline(f, s)
  BY <1>1, GlyphIs
<1> HIDE DEF d, e
<1>4. CASE c.x + s + s <= W
  <2>1. d.x = c.x + s /\ d.y = c.y /\ d.vram = e.vram
    BY <1>3, <1>4
  <2>2. d \in OnScreen
    BY <1>1, <1>3, <1>4, <2>1, OnScreenIs
  <2>3. Aligned(d, s)
    <3>1. PICK q \in Nat : c.x = q * s
      BY DEF Tidy, Aligned
    <3>2. d.x = (q + 1) * s /\ q + 1 \in Nat
      BY <2>1, <3>1, AlignedSteps
    <3>3. QED
      BY <3>2 DEF Aligned
  <2>4. ASSUME NEW p \in Cells, After(p, d.x, d.y, s) PROVE d.vram[p] = Blank
    <3>1. After(p, c.x, c.y, s) /\ ~Under(c, s, p)
      BY <1>1, <2>1, <2>4 DEF After, Under
    <3>2. QED
      BY <1>2, <2>1, <3>1
  <2>5. QED
    BY <2>2, <2>3, <2>4 DEF Tidy, BlankFrom, d
<1>5. CASE c.x + s + s > W
  <2>1. PICK f \in Consoles : f.y = c.y /\ f.vram = e.vram /\ d = vdNewline(f, s)
    BY <1>3, <1>5
  <2>2. ASSUME NEW p \in Cells, p[2] >= f.y + s PROVE f.vram[p] = Blank
    <3>1. After(p, c.x, c.y, s) /\ ~Under(c, s, p)
      BY <1>1, <2>1, <2>2 DEF After, Under
    <3>2. QED
      BY <1>2, <2>1, <3>1
  <2>3. QED
    BY <1>1, <2>1, <2>2, NewlineTidy DEF d
<1>6. QED
  BY <1>1, <1>4, <1>5

\* An erasure at the margin of a row erases the cells to the right of the last
\* whole column, and finds the row above full.
LEMMA BackSpaceTidy ==
  ASSUME NEW s \in Scales, NEW c \in Tidy(s)
  PROVE  vdBackSpace(c, s, "vram") \in Tidy(s)
<1> DEFINE d == vdBackSpace(c, s, "vram")
           edge == (W \div s) * s
<1> USE Sizes, CellsAre
<1>1. c \in OnScreen /\ c \in Consoles /\ c.x \in 0 .. W /\ c.y \in 0 .. H - 1
  BY ScreenIsConsole, OnScreenIs DEF Tidy
<1>2. d \in OnScreen /\ d.x \in 0 .. W /\ d.y \in 0 .. H - 1
  BY StaysOnScreen, OnScreenIs, <1>1
<1>3. /\ c.x >= s => d.x = c.x - s /\ d.y = c.y
      /\ c.x < s /\ c.y >= s => d.x = edge /\ d.y = c.y - s
      /\ c.x < s /\ c.y < s => d = c
      /\ c.x >= s \/ c.y >= s =>
           \A p \in Cells : d.vram[p] = IF Under(d, s, p) THEN Blank ELSE c.vram[p]
  <2>1. "vram" # "back"
    OBVIOUS
  <2>2. QED
    BY <1>1, <2>1, BackSpaceIs
<1>4. PICK q \in Nat : c.x = q * s
  BY DEF Tidy, Aligned
<1>5. edge \in 0 .. W /\ W < edge + s
  BY ColumnsIn
<1>6. \E n \in Nat : edge = n * s
  BY ColumnsIn
<1> HIDE DEF d, edge
<1>7. \A p \in Cells : After(p, c.x, c.y, s) => c.vram[p] = Blank
  BY DEF Tidy, BlankFrom
<1>8. CASE c.x >= s
  <2>1. d.x = (q - 1) * s /\ q - 1 \in Nat
    BY <1>3, <1>4, <1>8, AlignedSteps
  <2>2. Aligned(d, s)
    BY <2>1 DEF Aligned
  <2>3. ASSUME NEW p \in Cells, After(p, d.x, d.y, s) PROVE d.vram[p] = Blank
    <3>1. Under(d, s, p) \/ After(p, c.x, c.y, s)
      BY <1>1, <1>3, <1>8, <2>3 DEF After, Under
    <3>2. QED
      BY <1>3, <1>7, <1>8, <3>1
  <2>4. QED
    BY <1>2, <2>2, <2>3 DEF Tidy, BlankFrom, d
<1>9. CASE c.x < s /\ c.y >= s
  <2>1. c.x = 0
    BY <1>4, <1>9, AlignedSteps
  <2>2. Aligned(d, s)
    BY <1>3, <1>6, <1>9 DEF Aligned
  <2>3. ASSUME NEW p \in Cells, After(p, d.x, d.y, s) PROVE d.vram[p] = Blank
    <3>1. Under(d, s, p) \/ After(p, c.x, c.y, s)
      BY <1>1, <1>3, <1>5, <1>9, <2>1, <2>3 DEF After, Under
    <3>2. QED
      BY <1>3, <1>7, <1>9, <3>1
  <2>4. QED
    BY <1>2, <2>2, <2>3 DEF Tidy, BlankFrom, d
<1>10. CASE c.x < s /\ c.y < s
  BY <1>3, <1>10 DEF d
<1>11. QED
  BY <1>1, <1>8, <1>9, <1>10

LEMMA TextTidy ==
  ASSUME NEW s \in Scales
  PROVE  /\ \A c \in Tidy(s) : vdNewline(c, s) \in Tidy(s) /\ vdBackSpace(c, s, "vram") \in Tidy(s)
         /\ \A c \in Tidy(s), k \in Chars : vdPrintChar(c, s, k, "vram") \in Tidy(s)
         /\ \A c \in Tidy(s), str \in Seq(Chars) : vdPrint(c, s, str, "vram") \in Tidy(s)
<1>1. ASSUME NEW c \in Tidy(s) PROVE vdNewline(c, s) \in Tidy(s)
  <2>1. c \in OnScreen /\ c \in Consoles /\ c.x \in 0 .. W /\ c.y \in 0 .. H - 1
    BY ScreenIsConsole, OnScreenIs DEF Tidy
  <2>2. \A p \in Cells : p[2] >= c.y + s => c.vram[p] = Blank
    BY DEF Tidy, BlankFrom, After
  <2>3. QED
    BY <2>1, <2>2, NewlineTidy, Sizes
<1>2. QED
  BY <1>1, GlyphTidy, BackSpaceTidy, TextKeeps

\* Text for the back buffer only scrolls the screen, which brings no text down.
LEMMA BackKeepsBlank ==
  ASSUME NEW s \in Scales, NEW i \in Nat, NEW j \in Nat, NEW c \in Consoles,
         BlankFrom(c, i, j, s), NEW str \in Seq(Chars)
  PROVE  BlankFrom(vdPrint(c, s, str, "back"), i, j, s)
<1> DEFINE Q == {d \in Consoles : BlankFrom(d, i, j, s)}
<1> USE Sizes, CellsAre
<1>1. ASSUME NEW d \in Q PROVE vdNewline(d, s) \in Q
  <2> DEFINE e == vdNewline(d, s)
  <2>1. /\ e \in Consoles
        /\ d.y + s + s <= H => e.vram = d.vram
        /\ d.y + s + s > H => \A p \in Cells : e.vram[p] =
             IF p[2] + s < H THEN d.vram[<<p[1], p[2] + s>>] ELSE Blank
    BY NewlineIs
  <2> HIDE DEF e
  <2>2. ASSUME NEW p \in Cells, After(p, i, j, s) PROVE e.vram[p] = Blank
    <3>1. CASE d.y + s + s <= H
      BY <2>1, <2>2, <3>1 DEF BlankFrom
    <3>2. CASE d.y + s + s > H /\ p[2] + s < H
      <4> DEFINE low == <<p[1], p[2] + s>>
      <4>1. low \in Cells /\ After(low, i, j, s)
        BY <2>2, <3>2, SMTT(60) DEF Cells, After
      <4>2. d.vram[low] = Blank
        BY <4>1 DEF BlankFrom
      <4>3. QED
        BY <2>1, <3>2, <4>2
    <3>3. CASE d.y + s + s > H /\ p[2] + s >= H
      <4>1. ~(p[2] + s < H)
        BY <3>3
      <4>2. QED
        BY <2>1, <3>3, <4>1
    <3>4. d.y \in Nat
      BY DEF Consoles
    <3>5. QED
      BY <3>1, <3>2, <3>3, <3>4, SMTT(60)
  <2>3. QED
    BY <2>1, <2>2 DEF BlankFrom, e
<1>2. ASSUME NEW d \in Q, NEW k \in Letters \cup {Blank} PROVE Glyph(d, s, k, "back") \in Q
  <2> DEFINE g == Glyph(d, s, k, "back")
  <2>1. /\ g \in Consoles
        /\ d.x + s + s <= W => g.vram = d.vram
        /\ d.x + s + s > W => \E f \in Consoles : f.vram = d.vram /\ g = vdNewline(f, s)
    <3>1. Draw(d, s, k, "back") = d
      BY DEF Draw
    <3>2. LET e == Draw(d, s, k, "back")
          IN  /\ g \in Consoles
              /\ d.x + s + s <= W => g.vram = e.vram
              /\ d.x + s + s > W => \E f \in Consoles : f.vram = e.vram /\ g = vdNewline(f, s)
      BY GlyphIs
    <3>3. QED
      BY <3>1, <3>2
  <2> HIDE DEF g
  <2>2. CASE d.x + s + s <= W
    BY <2>1, <2>2 DEF BlankFrom, g
  <2>3. CASE d.x + s + s > W
    <3>1. PICK f \in Consoles : f.vram = d.vram /\ g = vdNewline(f, s)
      BY <2>1, <2>3
    <3>2. f \in Q
      BY <3>1 DEF BlankFrom
    <3>3. QED
      BY <1>1, <3>1, <3>2 DEF g
  <2>4. d.x \in Nat
    BY DEF Consoles
  <2>5. QED
    BY <2>2, <2>3, <2>4
<1>3. ASSUME NEW d \in Q PROVE vdBackSpace(d, s, "back") \in Q
  <2> DEFINE e == vdBackSpace(d, s, "back")
  <2>1. /\ e \in Consoles
        /\ d.x >= s \/ d.y >= s => \A p \in Cells : e.vram[p] = d.vram[p]
        /\ d.x < s /\ d.y < s => e = d
    BY BackSpaceIs
  <2> HIDE DEF e
  <2>2. \A p \in Cells : e.vram[p] = d.vram[p]
    BY <2>1, SMTT(60) DEF Consoles
  <2>3. QED
    BY <2>1, <2>2 DEF BlankFrom, e
<1>4. vdPrint(c, s, str, "back") \in Q
  <2> HIDE DEF Q
  <2>1. c \in Q
    BY DEF Q
  <2>2. QED
    BY <1>1, <1>2, <1>3, <2>1, TextKeeps
<1>5. QED
  BY <1>4

LEMMA TidyIs ==
  ASSUME NEW c, NEW s
  PROVE  c \in Tidy(s) <=> c \in OnScreen /\ Aligned(c, s) /\ BlankFrom(c, c.x, c.y, s)
BY DEF Tidy

\* A console whose cursor and screen are those of a tidy one is tidy.
LEMMA TidyLike ==
  ASSUME NEW s, NEW c \in Tidy(s), NEW d \in OnScreen,
         d.x = c.x, d.y = c.y, d.vram = c.vram
  PROVE  d \in Tidy(s)
BY DEF Tidy, Aligned, BlankFrom

SteadyInv == TypeInv /\ (steady => con \in Tidy(g_scale))

LEMMA ClearedTidy == ASSUME NEW s \in Scales PROVE Cleared \in Tidy(s)
<1>1. 0 = 0 * s
  BY Sizes
<1>2. Cleared.x = 0 /\ Cleared.y = 0 /\ \A p \in Cells : Cleared.vram[p] = Blank
  BY DEF Cleared, Empty
<1>3. QED
  BY <1>1, <1>2, ClearedOnScreen DEF Tidy, Aligned, BlankFrom

LEMMA SteadyStep == SteadyInv /\ [Next]_vars => SteadyInv'
<1> SUFFICES ASSUME SteadyInv, [Next]_vars, steady' PROVE con' \in Tidy(g_scale')
  BY TypeStep DEF SteadyInv
<1>1. TypeInv /\ TypeInv'
  BY TypeStep DEF SteadyInv
<1>2. /\ con \in OnScreen /\ con' \in OnScreen /\ con \in Consoles /\ g_scale \in Scales
      /\ g_scale' \in Scales /\ con.x \in 0 .. W /\ con.y \in 0 .. H - 1
  BY <1>1, ScreenIsConsole, OnScreenIs DEF TypeInv, TypeOK, Scales
<1>3. steady => con \in Tidy(g_scale)
  BY DEF SteadyInv
<1>4. ASSUME NEW str \in Strings, Write(str) PROVE con' \in Tidy(g_scale')
  BY <1>2, <1>3, <1>4, TextTidy, Texts DEF Write, hist
<1>5. ASSUME NEW str \in Strings, NEW at \in Positions, NEW target \in {"vram", "back"},
             WriteAt(str, at, target)
      PROVE  con' \in Tidy(g_scale')
  <2>1. steady /\ target = "back" /\ g_scale' = g_scale
        /\ con' = vdPrintStyled_AT(con, g_scale, str, at[1], at[2], target)
    BY <1>5 DEF WriteAt
  <2>2. con \in Tidy(g_scale) /\ BlankFrom(con, con.x, con.y, g_scale)
    BY <1>3, <2>1, TidyIs
  <2>3. PICK a \in Consoles :
          /\ a.vram = con.vram
          /\ con'.x = con.x /\ con'.y = con.y
          /\ con'.vram = vdPrint(a, g_scale, str, target).vram
    BY <1>2, <2>1, PrintAtIs, Texts
  <2>4. BlankFrom(a, con.x, con.y, g_scale)
    BY <2>2, <2>3 DEF BlankFrom
  <2>5. con.x \in Nat /\ con.y \in Nat
    BY <1>2
  <2>6. BlankFrom(vdPrint(a, g_scale, str, target), con.x, con.y, g_scale)
    BY <1>2, <2>1, <2>4, <2>5, BackKeepsBlank, Texts
  <2>7. BlankFrom(con', con'.x, con'.y, g_scale)
    BY <2>3, <2>6 DEF BlankFrom
  <2>8. Aligned(con', g_scale)
    BY <2>2, <2>3 DEF Tidy, Aligned
  <2>9. QED
    BY <1>2, <2>1, <2>7, <2>8, TidyIs
<1>6. CASE ClearWindow
  BY <1>2, <1>6, ClearedTidy DEF ClearWindow
<1>7. ASSUME NEW frame \in Frames, PresentFullframe(frame) PROVE con' \in Tidy(g_scale')
  BY <1>7 DEF PresentFullframe
<1>8. ASSUME NEW s \in 0 .. MaxScale + 1, Resize(s) PROVE con' \in Tidy(g_scale')
  <2>1. con' = con /\ con \in Tidy(g_scale) /\ (con.x = 0 \/ g_scale' = g_scale)
    BY <1>3, <1>8 DEF Resize
  <2>2. CASE g_scale' = g_scale
    BY <2>1, <2>2
  <2>3. CASE con.x = 0
    <3>1. \A p \in Cells : After(p, 0, con.y, g_scale') => After(p, 0, con.y, g_scale)
      BY <1>2, CellsAre, Sizes DEF After
    <3>2. BlankFrom(con, 0, con.y, g_scale')
      BY <2>1, <2>3, <3>1 DEF Tidy, BlankFrom
    <3>3. 0 = 0 * g_scale'
      BY <1>2, Sizes
    <3>4. QED
      BY <1>2, <2>1, <2>3, <3>2, <3>3 DEF Tidy, Aligned
  <2>4. QED
    BY <2>1, <2>2, <2>3
<1>9. CASE ReadCall
  <2>1. /\ con \in Tidy(g_scale) /\ g_scale' = g_scale
        /\ con'.x = con.x /\ con'.y = con.y /\ con'.vram = con.vram
    BY <1>2, <1>3, <1>9 DEF ReadCall, OnScreen
  <2>2. QED
    BY <1>2, <2>1, TidyLike
<1>10. ASSUME NEW k \in Letters \cup {NL, TAB, BS}, Key(k) PROVE con' \in Tidy(g_scale')
  <2>1. con \in Tidy(g_scale) /\ g_scale' = g_scale
    BY <1>3, <1>10 DEF Key
  <2>2. CASE EndLine
    <3> DEFINE d == vdNewline(con, g_scale)
    <3>1. d \in Tidy(g_scale)
      BY <1>2, <2>1, TextTidy
    <3>2. con' = [d EXCEPT !.top = Gone]
      BY <2>2 DEF EndLine
    <3> HIDE DEF d
    <3>3. con'.x = d.x /\ con'.y = d.y /\ con'.vram = d.vram
      BY <3>1, <3>2, TidyIs DEF OnScreen
    <3>4. QED
      BY <1>2, <2>1, <3>1, <3>3, TidyLike
  <2>3. CASE Erase
    BY <1>2, <2>1, <2>3, TextTidy DEF Erase
  <2>4. CASE Echo(k)
    BY <1>2, <2>1, <2>4, TextTidy DEF Echo, Chars
  <2>5. QED
    BY <1>10, <2>2, <2>3, <2>4 DEF Key
<1>11. CASE UNCHANGED vars
  BY <1>3, <1>11 DEF vars, code, hist
<1>12. QED
  BY <1>4, <1>5, <1>6, <1>7, <1>8, <1>9, <1>10, <1>11 DEF Next

LEMMA InitSteady == Init => SteadyInv
<1> SUFFICES ASSUME Init PROVE SteadyInv
  OBVIOUS
<1>1. con = Cleared /\ g_scale \in Scales
  BY Sizes DEF Init, Scales
<1>2. con \in OnScreen /\ con \in Tidy(g_scale)
  BY <1>1, ClearedOnScreen, ClearedTidy
<1>3. con.x \in 0 .. W /\ con.y \in 0 .. H - 1 /\ con.top \in Gone .. H - 1 /\ con.vram \in Screens
  BY <1>2, OnScreenIs
<1>4. line \in Seq(Letters \cup {TAB}) /\ Len(line) < LineLength
  BY ConsoleAssumption DEF Init
<1>5. start \in 0 .. W
  BY Sizes DEF Init
<1>6. {reading, steady, fit, plain} \subseteq BOOLEAN
  BY DEF Init
<1>7. QED
  BY <1>1, <1>2, <1>3, <1>4, <1>5, <1>6 DEF SteadyInv, TypeInv, TypeOK, Scales

LEMMA SteadyHolds == Spec => []SteadyInv
BY InitSteady, SteadyStep, PTL DEF Spec

LEMMA NotBefore ==
  ASSUME TypeInv, NEW p \in Cells, NEW i \in Int, NEW j \in Int
  PROVE  Before(p, i, j) \/ After(p, i, j, g_scale)
BY CellsAre, Sizes DEF Before, After, TypeInv, TypeOK, Scales

\* The cursor never leaves the screen by more than the place after the last
\* column, for a screen of any size, whatever is printed, scrolled or resized.
THEOREM TypeCorrect == Spec => []TypeOK
<1>1. SteadyInv => TypeOK
  BY DEF SteadyInv, TypeInv
<1>2. QED
  BY <1>1, SteadyHolds, PTL

\* Text is never printed over text: for every font that fits the screen, texts
\* of any length and any number of wraps, scrolls, tabs and erasures, all that
\* follows the cursor is blank while programs only print at the cursor.
THEOREM BlankAhead == Spec => []PrintsOnBlank
<1>1. SteadyInv => PrintsOnBlank
  <2> SUFFICES ASSUME SteadyInv, steady, NEW p \in Cells, ~Before(p, con.x, con.y)
               PROVE  con.vram[p] = Blank
    BY DEF PrintsOnBlank
  <2>1. TypeInv /\ con \in Tidy(g_scale) /\ con.x \in 0 .. W /\ con.y \in 0 .. H - 1
    BY OnScreenIs DEF SteadyInv, TypeInv
  <2>2. con.x \in Int /\ con.y \in Int
    BY <2>1
  <2>3. After(p, con.x, con.y, g_scale)
    BY <2>1, <2>2, NotBefore
  <2>4. QED
    BY <2>1, <2>3 DEF Tidy, BlankFrom
<1>2. QED
  BY <1>1, SteadyHolds, PTL

------------------------------------------------------------------------------
(* The line that is being read, between the prompt and the cursor.         *)

LEMMA Multiples ==
  ASSUME NEW s \in Nat, s > 0, NEW a \in Int, NEW b \in Int
  PROVE  /\ a * s \in Int /\ (a + 1) * s = a * s + s /\ (a - 1) * s = a * s - s
         /\ 0 * s = 0 /\ 1 * s = s /\ a * s - b * s = (a - b) * s
         /\ a <= b => a * s <= b * s
         /\ a < b => a * s + s <= b * s
         /\ a * s < b * s => a < b
<1>1. /\ a * s \in Int /\ (a + 1) * s = a * s + s /\ (a - 1) * s = a * s - s
      /\ 0 * s = 0 /\ 1 * s = s /\ a * s - b * s = (a - b) * s
  OBVIOUS
<1>2. ASSUME NEW i \in Int, NEW j \in Int, i <= j PROVE i * s <= j * s
  <2>1. j - i \in Nat
    BY <1>2
  <2>2. (j - i) * s >= 0
    BY <2>1
  <2>3. QED
    BY <2>2
<1>3. a < b => a * s + s <= b * s
  <2> SUFFICES ASSUME a < b PROVE a * s + s <= b * s
    OBVIOUS
  <2>1. a + 1 \in Int /\ a + 1 <= b
    OBVIOUS
  <2>2. (a + 1) * s <= b * s
    BY <1>2, <2>1
  <2>3. QED
    BY <1>1, <2>2
<1>4. a <= b => a * s <= b * s
  BY <1>2
<1>5. a * s < b * s => a < b
  <2>1. b <= a => b * s <= a * s
    BY <1>2
  <2>2. b * s \in Int
    OBVIOUS
  <2>3. QED
    BY <1>1, <2>1, <2>2
<1>6. QED
  BY <1>1, <1>3, <1>4, <1>5

\* The glyphs that fit in a row.
Cols(s) == W \div s

LEMMA ColsAre ==
  ASSUME NEW s \in Scales
  PROVE  /\ Cols(s) \in Nat /\ Cols(s) > 0 /\ Cols(s) * s \in Nat
         /\ Cols(s) * s <= W /\ W < Cols(s) * s + s
         /\ \A q \in Nat : q * s + s <= W => q < Cols(s)
         /\ \A q \in Nat : q * s + s > W => q >= Cols(s)
<1>1. /\ Cols(s) \in Nat /\ Cols(s) > 0 /\ Cols(s) * s \in Nat
      /\ Cols(s) * s <= W /\ W < Cols(s) * s + s
  BY ColumnsIn DEF Cols
<1>2. W \in Nat /\ s \in Nat /\ s > 0
  BY Sizes
<1>3. ASSUME NEW q \in Nat, q * s + s <= W PROVE q < Cols(s)
  <2>1. q * s \in Int /\ q * s < Cols(s) * s
    BY <1>1, <1>2, <1>3
  <2>2. QED
    BY <1>1, <1>2, <2>1, Multiples
<1>4. ASSUME NEW q \in Nat, q * s + s > W PROVE q >= Cols(s)
  <2>1. q < Cols(s) => q * s + s <= Cols(s) * s
    BY <1>1, <1>2, Multiples
  <2>2. q * s \in Int
    BY <1>2
  <2>3. QED
    BY <1>1, <1>2, <1>4, <2>1, <2>2
<1>5. QED
  BY <1>1, <1>3, <1>4

\* At least n glyphs lie between the place st columns into the row where the line
\* began, if that row is still there, and the cursor, which has room below it. The
\* place to the right of the last whole column counts as one.
Placed(c, s, st, n) ==
  /\ c.y + s <= H
  /\ \E q \in 0 .. Cols(s) :
       /\ c.x = q * s
       /\ c.top = Gone \/ \E r \in Nat : /\ c.y = c.top + r * s
                                         /\ r * (Cols(s) + 1) + q >= st + n

LEMMA GlyphPlaced ==
  ASSUME NEW s \in Scales, NEW c \in OnScreen, NEW st \in Nat, NEW n \in Nat,
         Placed(c, s, st, n), NEW k \in Letters \cup {Blank}, NEW target
  PROVE  Placed(Glyph(c, s, k, target), s, st, n + 1)
<1> DEFINE C == Cols(s)
           D == C + 1
           d == Glyph(c, s, k, target)
<1>1. /\ c \in Consoles /\ c.x \in 0 .. W /\ c.y \in 0 .. H - 1 /\ c.top \in Gone .. H - 1
      /\ s \in Nat /\ s > 0 /\ W \in Nat /\ H \in Nat /\ Gone \in Int
  BY Sizes, ScreenIsConsole, OnScreenIs
<1>2. PICK q \in 0 .. C :
        /\ c.x = q * s
        /\ c.top = Gone \/ \E r \in Nat : c.y = c.top + r * s /\ r * D + q >= st + n
  BY DEF Placed
<1>3. c.y + s <= H
  BY DEF Placed
<1>4. C \in Nat /\ C > 0 /\ \A i \in Nat : i * s + s <= W => i < C
  BY ColsAre
<1> HIDE DEF C
<1>5. q \in Nat /\ q + 1 \in Nat /\ (q + 1) * s = q * s + s /\ 0 * s = 0
  BY <1>1, <1>4, Multiples
<1>6. \A r \in Nat : /\ r * s \in Int /\ (r + 1) * s = r * s + s
                     /\ r * D \in Int /\ (r + 1) * D = r * D + D
  <2>1. D \in Nat /\ D > 0
    BY <1>4
  <2> HIDE DEF D
  <2>2. QED
    BY <1>1, <2>1, Multiples
<1>7. CASE c.x + s + s <= W
  <2>1. d.x = c.x + s /\ d.y = c.y /\ d.top = c.top
    BY <1>1, <1>7, GlyphIs
  <2> HIDE DEF d
  <2>2. d.x = (q + 1) * s /\ q + 1 \in 0 .. C
    BY <1>2, <1>4, <1>5, <1>7, <2>1
  <2>3. d.top = Gone \/ \E r \in Nat : d.y = d.top + r * s /\ r * D + (q + 1) >= st + (n + 1)
    BY <1>2, <1>6, <2>1
  <2>4. QED
    BY <1>3, <2>1, <2>2, <2>3 DEF Placed, C, d
<1>8. CASE c.x + s + s > W
  <2>1. PICK f \in Consoles : f.y = c.y /\ f.top = c.top /\ d = vdNewline(f, s)
    BY <1>1, <1>8, GlyphIs
  <2>2. /\ d.x = 0
        /\ c.y + s + s <= H => d.y = c.y + s /\ d.top = c.top
        /\ c.y + s + s > H =>
             /\ d.y = (IF c.y + s > H THEN H - s ELSE c.y)
             /\ d.top = (IF c.top - s < Gone THEN Gone ELSE c.top - s)
    BY <2>1, NewlineIs
  <2> HIDE DEF d
  <2>3. d.x = 0 * s /\ 0 \in 0 .. C /\ d.y + s <= H
    BY <1>1, <1>3, <1>4, <1>5, <2>2
  <2>4. \/ d.top = Gone
        \/ d.y = c.y + s /\ d.top = c.top
        \/ d.y = c.y /\ d.top = c.top - s /\ c.top # Gone
    BY <1>1, <1>3, <2>2
  <2>5. d.top = Gone \/ \E r \in Nat : d.y = d.top + r * s /\ r * D + 0 >= st + (n + 1)
    <3>1. CASE c.top # Gone /\ d.top # Gone
      <4>1. PICK r \in Nat : c.y = c.top + r * s /\ r * D + q >= st + n
        BY <1>2, <3>1
      <4>2. r + 1 \in Nat /\ d.y = d.top + (r + 1) * s
        BY <1>1, <1>6, <2>4, <3>1, <4>1
      <4>3. (r + 1) * D + 0 >= st + (n + 1)
        BY <1>4, <1>6, <4>1
      <4>4. QED
        BY <4>2, <4>3
    <3>2. c.top = Gone => d.top = Gone
      BY <1>1, <2>2
    <3>3. QED
      BY <3>1, <3>2
  <2>6. QED
    BY <2>3, <2>5 DEF Placed, C, d
<1>9. QED
  BY <1>1, <1>7, <1>8

\* The counting is from the other end: what may be erased was typed.
LEMMA PlacedLess ==
  ASSUME NEW s \in Scales, NEW c, NEW st \in Nat, NEW n \in Nat, NEW m \in Nat,
         Placed(c, s, st, n), m <= n
  PROVE  Placed(c, s, st, m)
<1>1. Cols(s) \in Nat
  BY ColsAre
<1>2. \A r \in Nat, q \in 0 .. Cols(s) : r * (Cols(s) + 1) + q \in Int
  BY <1>1
<1>3. QED
  BY <1>1, <1>2 DEF Placed

LEMMA EchoPlaced ==
  ASSUME NEW s \in Scales, NEW c \in OnScreen, NEW st \in Nat, NEW n \in Nat,
         Placed(c, s, st, n), NEW k \in Letters \cup {TAB}
  PROVE  Placed(vdPrintChar(c, s, k, "vram"), s, st, n + 1)
<1> DEFINE space(e) == Glyph(e, s, Blank, "vram")
<1>1. ASSUME NEW e \in OnScreen, NEW m \in Nat, Placed(e, s, st, m)
      PROVE  space(e) \in OnScreen /\ Placed(space(e), s, st, m + 1)
  <2>1. space(e) \in OnScreen
    BY GlyphOnScreen
  <2>2. QED
    BY <1>1, <2>1, GlyphPlaced
<1>2. NL # TAB /\ BS # TAB
  BY DEF NL, TAB, BS
<1>3. CASE k = TAB
  <2>1. vdPrintChar(c, s, k, "vram") = space(space(space(space(c))))
    BY <1>2, <1>3 DEF vdPrintChar
  <2> HIDE DEF space
  <2>2. Placed(space(c), s, st, n + 1) /\ space(c) \in OnScreen /\ n + 1 \in Nat
    BY <1>1
  <2>3. Placed(space(space(c)), s, st, n + 1 + 1) /\ space(space(c)) \in OnScreen /\ n + 1 + 1 \in Nat
    BY <1>1, <2>2
  <2>4. /\ Placed(space(space(space(c))), s, st, n + 1 + 1 + 1)
        /\ space(space(space(c))) \in OnScreen /\ n + 1 + 1 + 1 \in Nat
    BY <1>1, <2>3
  <2>5. Placed(space(space(space(space(c)))), s, st, n + 1 + 1 + 1 + 1)
    BY <1>1, <2>4
  <2>6. QED
    BY <2>1, <2>5, PlacedLess
<1>4. CASE k # TAB
  <2>1. k \in Letters /\ vdPrintChar(c, s, k, "vram") = Glyph(c, s, k, "vram")
    BY <1>2, <1>4, TextAssumption DEF vdPrintChar
  <2>2. QED
    BY <2>1, GlyphPlaced
<1>5. QED
  BY <1>3, <1>4

\* An erasure leaves what was on the screen before the line alone.
LEMMA ErasePlaced ==
  ASSUME NEW s \in Scales, NEW c \in OnScreen, NEW st \in Nat, NEW n \in Nat, n > 0,
         Placed(c, s, st, n), st * s + s <= W
  PROVE  LET d == vdBackSpace(c, s, "vram")
         IN  /\ Placed(d, s, st, n - 1)
             /\ \A p \in Cells : p[2] < c.top \/ (p[2] < c.top + s /\ p[1] < st * s)
                  => d.vram[p] = c.vram[p]
<1> DEFINE C == Cols(s)
           D == C + 1
           d == vdBackSpace(c, s, "vram")
<1>1. /\ c \in Consoles /\ c.x \in 0 .. W /\ c.y \in 0 .. H - 1 /\ c.top \in Gone .. H - 1
      /\ s \in Nat /\ s > 0 /\ s <= -Gone /\ W \in Nat /\ H \in Nat /\ Gone \in Int
  BY Sizes, ScreenIsConsole, OnScreenIs
<1>2. PICK q \in 0 .. C :
        /\ c.x = q * s
        /\ c.top = Gone \/ \E r \in Nat : c.y = c.top + r * s /\ r * D + q >= st + n
  BY DEF Placed
<1>3. c.y + s <= H
  BY DEF Placed
<1>4. C \in Nat /\ C > 0 /\ C * s \in Nat /\ W < C * s + s
  BY ColsAre
<1>5. /\ c.x >= s => d.x = c.x - s /\ d.y = c.y
      /\ c.x < s /\ c.y >= s => d.x = C * s /\ d.y = c.y - s
      /\ c.x < s /\ c.y < s => d = c
      /\ d.top = c.top
      /\ c.x >= s \/ c.y >= s =>
           \A p \in Cells : d.vram[p] = IF Under(d, s, p) THEN Blank ELSE c.vram[p]
  <2>1. "vram" # "back"
    OBVIOUS
  <2>2. QED
    BY <1>1, <2>1, BackSpaceIs DEF C, Cols
<1>6. D \in Nat /\ D > 0 /\ D = C + 1
  BY <1>4
<1> HIDE DEF C, D, d
<1>7. /\ q \in Nat /\ q * s < s => q = 0
      /\ q * s >= s => q - 1 \in 0 .. C /\ (q - 1) * s = q * s - s
      /\ q = 0 => q * s = 0
  BY <1>1, <1>4, AlignedSteps
<1>8. \A r \in Nat : /\ r * s \in Int /\ (r - 1) * s = r * s - s
                     /\ r * D \in Int /\ (r - 1) * D = r * D - D
                     /\ r = 0 => r * D = 0 /\ r * s = 0
                     /\ r > 0 => r * s >= s
                     /\ r > 1 => r * s >= s + s
  <2>1. ASSUME NEW r \in Nat
        PROVE  /\ r * s \in Int /\ (r - 1) * s = r * s - s
               /\ r * D \in Int /\ (r - 1) * D = r * D - D
               /\ r = 0 => r * D = 0 /\ r * s = 0
    BY <1>1, <1>6, Multiples
  <2>2. ASSUME NEW r \in Nat, r > 0 PROVE r * s >= s
    BY <1>1, <2>1, <2>2, AlignedSteps
  <2>3. ASSUME NEW r \in Nat, r > 1 PROVE r * s >= s + s
    <3>1. r - 1 \in Nat /\ r - 1 > 0
      BY <2>3
    <3>2. (r - 1) * s >= s
      BY <2>2, <3>1
    <3>3. QED
      BY <1>1, <2>1, <3>2
  <2>4. QED
    BY <2>1, <2>2, <2>3
<1>9. Placed(d, s, st, n - 1)
  <2>1. CASE c.x >= s
    <3>1. d.x = (q - 1) * s /\ d.y = c.y /\ d.top = c.top /\ q - 1 \in 0 .. C
      BY <1>2, <1>5, <1>7, <2>1
    <3>2. d.top = Gone \/ \E r \in Nat : d.y = d.top + r * s /\ r * D + (q - 1) >= st + (n - 1)
      BY <1>2, <1>8, <3>1
    <3>3. QED
      BY <1>3, <3>1, <3>2 DEF Placed, C, D
  <2>2. CASE c.x < s /\ c.y >= s
    <3>1. q = 0 /\ d.x = C * s /\ d.y = c.y - s /\ d.top = c.top /\ C \in 0 .. C
      BY <1>2, <1>4, <1>5, <1>7, <2>2
    <3>2. d.top = Gone \/ \E r \in Nat : d.y = d.top + r * s /\ r * D + C >= st + (n - 1)
      <4>1. SUFFICES ASSUME c.top # Gone
                     PROVE  \E r \in Nat : d.y = d.top + r * s /\ r * D + C >= st + (n - 1)
        BY <3>1
      <4>2. PICK r \in Nat : c.y = c.top + r * s /\ r * D + q >= st + n
        BY <1>2, <4>1
      <4>3. r - 1 \in Nat
        BY <1>8, <3>1, <4>2
      <4>4. d.y = d.top + (r - 1) * s
        BY <1>1, <1>8, <3>1, <4>2
      <4>5. (r - 1) * D + C >= st + (n - 1)
        BY <1>4, <1>6, <1>8, <3>1, <4>2
      <4>6. QED
        BY <4>3, <4>4, <4>5
    <3>3. d.y + s <= H
      BY <1>1, <1>3, <3>1
    <3>4. QED
      BY <3>1, <3>2, <3>3 DEF Placed, C, D
  <2>3. CASE c.x < s /\ c.y < s
    <3>1. d = c /\ n - 1 \in Nat /\ n - 1 <= n
      BY <1>5, <2>3
    <3>2. QED
      BY <3>1, PlacedLess
  <2>4. QED
    BY <1>1, <2>1, <2>2, <2>3
<1>10. ASSUME NEW p \in Cells, p[2] < c.top \/ (p[2] < c.top + s /\ p[1] < st * s)
       PROVE  d.vram[p] = c.vram[p]
  <2>1. p[1] \in 0 .. W - 1 /\ p[2] \in 0 .. H - 1
    BY CellsAre
  <2>2. c.top # Gone
    BY <1>1, <1>10, <2>1
  <2>3. PICK r \in Nat : c.y = c.top + r * s /\ r * D + q >= st + n
    BY <1>2, <2>2
  <2>4. st * s \in Int /\ (st < q => st * s + s <= q * s)
    BY <1>1, <1>7, Multiples
  <2> DEFINE down == r * s
             left == st * s
  <2>9. /\ down \in Int /\ c.y = c.top + down /\ (r > 0 => down >= s) /\ (r = 0 => down = 0)
        /\ left \in Int /\ left = st * s
    BY <1>8, <2>3, <2>4
  <2> HIDE DEF down, left
  <2>5. CASE c.x >= s
    <3>1. d.x = q * s - s /\ d.y = c.y
      BY <1>2, <1>5, <2>5
    <3>2. r = 0 => st * s + s <= q * s
      BY <1>7, <1>8, <2>3, <2>4
    <3>3. ~Under(d, s, p)
      <4>1. SUFFICES ASSUME p[1] >= d.x, p[2] >= d.y PROVE FALSE
        BY <1>1, <1>7, <2>1, <3>1 DEF Under
      <4>2. r = 0
        BY <1>1, <1>10, <2>1, <2>9, <3>1, <4>1
      <4>3. p[1] >= st * s
        BY <1>1, <1>7, <2>1, <2>4, <3>1, <3>2, <4>1, <4>2
      <4>4. QED
        BY <1>1, <1>10, <2>1, <2>9, <3>1, <4>1, <4>2, <4>3
    <3>4. QED
      BY <1>5, <2>5, <3>3
  <2>6. CASE c.x < s /\ c.y >= s
    <3>1. q = 0 /\ d.x = C * s /\ d.y = c.y - s
      BY <1>2, <1>5, <1>7, <2>6
    <3>2. r > 0
      BY <1>8, <2>3, <3>1
    <3>3. ~Under(d, s, p)
      <4>1. SUFFICES ASSUME p[1] >= d.x, p[2] >= d.y PROVE FALSE
        BY <1>1, <1>4, <2>1, <3>1 DEF Under
      <4>2. down >= s
        BY <2>9, <3>2
      <4>3. p[1] >= st * s
        BY <1>1, <1>4, <2>1, <2>4, <3>1, <4>1
      <4>4. p[2] >= c.top
        BY <1>1, <2>1, <2>9, <3>1, <4>1, <4>2
      <4>5. QED
        BY <1>10, <1>1, <2>1, <2>9, <4>3, <4>4
    <3>4. QED
      BY <1>5, <2>6, <3>3
  <2>7. CASE c.x < s /\ c.y < s
    BY <1>5, <2>7
  <2>8. QED
    BY <1>1, <2>5, <2>6, <2>7
<1>11. QED
  BY <1>9, <1>10 DEF d

------------------------------------------------------------------------------
(* The glyphs of the line, each in its place.                              *)

LEMMA DivUnique ==
  ASSUME NEW C \in Nat, C > 0, NEW a \in 0 .. C - 1, NEW i \in 0 .. C - 1,
         NEW b \in Int, NEW j \in Int, b * C + a = j * C + i
  PROVE  a = i /\ b = j
<1>1. /\ b * C \in Int /\ j * C \in Int
      /\ b < j => b * C + C <= j * C
      /\ j < b => j * C + C <= b * C
  BY Multiples
<1>2. ~(b < j) /\ ~(j < b)
  BY <1>1
<1>3. b = j
  BY <1>2
<1>4. QED
  BY <1>1, <1>3

LEMMA DivZero ==
  ASSUME NEW C \in Nat, C > 0, NEW a \in 0 .. C - 1, NEW i \in 0 .. C - 1,
         NEW b \in Int, b * C + a = i
  PROVE  a = i /\ b = 0
<1>1. 0 \in Int /\ 0 * C + i = i
  OBVIOUS
<1>2. b * C + a = 0 * C + i
  BY <1>1
<1>3. QED
  BY <1>1, <1>2, DivUnique

LEMMA DivIs ==
  ASSUME NEW C \in Nat, C > 0, NEW i \in Int
  PROVE  i \div C \in Int /\ i % C \in 0 .. C - 1 /\ i = (i \div C) * C + (i % C)
OBVIOUS

InSquare(p, i, j, s) == p[1] \in i .. i + s - 1 /\ p[2] \in j .. j + s - 1

LEMMA ShiftSquare ==
  ASSUME NEW p \in Cells, NEW i \in Int, NEW j \in Int, NEW s \in Nat, InSquare(p, i, j, s)
  PROVE  InSquare(<<p[1], p[2] + s>>, i, j + s, s)
<1>1. p[1] \in Int /\ p[2] \in Int
  BY CellsAre
<1>2. p[2] + s \in j + s .. j + s + s - 1
  BY <1>1 DEF InSquare
<1>3. QED
  BY <1>2 DEF InSquare

\* Glyph n before the cursor is in column a of the row b below it, which is above.
Echoed(c, q, s, text) ==
  \A n \in 1 .. Len(text), a \in 0 .. Cols(s) - 1, b \in Int :
    q - n = b * Cols(s) + a =>
      \A p \in Cells : InSquare(p, a * s, c.y + b * s, s) => c.vram[p] = text[Len(text) - n + 1]

Shown(c, s, st, text) ==
  /\ c.y + s <= H
  /\ \E q \in 0 .. Cols(s) - 1 :
       /\ c.x = q * s
       /\ c.top = Gone \/ \E r \in Nat : c.y = c.top + r * s /\ r * Cols(s) + q = st + Len(text)
       /\ Echoed(c, q, s, text)

\* A glyph before the cursor is not under it.
LEMMA Apart ==
  ASSUME NEW s \in Scales, NEW q \in 0 .. Cols(s) - 1, NEW a \in 0 .. Cols(s) - 1, NEW b \in Int,
         NEW n \in Nat, n > 0, q - n = b * Cols(s) + a,
         NEW y \in Int, NEW p \in Cells, InSquare(p, a * s, y + b * s, s)
  PROVE  ~InSquare(p, q * s, y, s) /\ b <= 0
<1> DEFINE C == Cols(s)
<1>1. C \in Nat /\ C > 0 /\ s \in Nat /\ s > 0 /\ p[1] \in Int /\ p[2] \in Int
  BY ColsAre, Sizes, CellsAre
<1> HIDE DEF C
<1>2. q \in 0 .. C - 1 /\ a \in 0 .. C - 1 /\ q - n = b * C + a
  BY DEF C
<1>3. b * C \in Int /\ 0 * C = 0 /\ (0 < b => 0 * C + C <= b * C)
  BY <1>1, Multiples
<1>4. b <= 0
  BY <1>1, <1>2, <1>3
<1>5. /\ a * s \in Int /\ q * s \in Int /\ (a < q => a * s + s <= q * s)
      /\ b * s \in Int /\ 0 * s = 0 /\ (b < 0 => b * s + s <= 0 * s)
  BY <1>1, <1>2, Multiples
<1>6. b = 0 => a < q
  BY <1>2, <1>3
<1> DEFINE left == a * s
           right == q * s
           up == b * s
<1>7. /\ left \in Int /\ right \in Int /\ up \in Int
      /\ b = 0 => left + s <= right
      /\ b < 0 => up + s <= 0
  BY <1>5, <1>6
<1>8. InSquare(p, left, y + up, s)
  OBVIOUS
<1> HIDE DEF left, right, up
<1>9. ~InSquare(p, right, y, s)
  BY <1>1, <1>4, <1>7, <1>8 DEF InSquare
<1>10. QED
  BY <1>4, <1>9 DEF right

LEMMA DrawOver ==
  ASSUME NEW c \in Consoles, NEW s \in Scales, NEW k \in Letters \cup {Blank}, NEW p \in Cells
  PROVE  Draw(c, s, k, "vram").vram[p] = IF InSquare(p, c.x, c.y, s) THEN k ELSE c.vram[p]
<1>1. "vram" # "back"
  OBVIOUS
<1>2. QED
  BY <1>1, DrawIs DEF InSquare, Under

\* The cursor's own glyph is glyph 0 before it, once it is drawn.
LEMMA DrawShown ==
  ASSUME NEW s \in Scales, NEW c \in OnScreen, NEW K, NEW text \in Seq(K), NEW k \in K,
         k \in Letters, NEW q \in 0 .. Cols(s) - 1, c.x = q * s, Echoed(c, q, s, text),
         NEW m \in 0 .. Len(text), NEW a \in 0 .. Cols(s) - 1, NEW b \in Int,
         q - m = b * Cols(s) + a, NEW p \in Cells, InSquare(p, a * s, c.y + b * s, s)
  PROVE  /\ Draw(c, s, k, "vram").vram[p] = Append(text, k)[Len(text) + 1 - m]
         /\ b <= 0
<1>1. /\ c \in Consoles /\ c.y \in Int /\ s \in Nat /\ s > 0
      /\ Cols(s) \in Nat /\ Cols(s) > 0 /\ Len(text) \in Nat
  <2>1. c \in Consoles /\ c.y \in 0 .. H - 1
    BY ScreenIsConsole, OnScreenIs
  <2>2. Cols(s) \in Nat /\ Cols(s) > 0
    BY ColsAre
  <2>3. Len(text) \in Nat
    OBVIOUS
  <2>4. QED
    BY <2>1, <2>2, <2>3, Sizes, SMTT(60)
<1>2. Draw(c, s, k, "vram").vram[p] = IF InSquare(p, c.x, c.y, s) THEN k ELSE c.vram[p]
  <2>1. k \in Letters \cup {Blank}
    OBVIOUS
  <2>2. QED
    BY <1>1, <2>1, DrawOver
<1>3. CASE m = 0
  <2>1. q - m = q
    BY <1>3
  <2>2. a = q /\ b = 0
    <3> DEFINE C == Cols(s)
    <3>1. /\ C \in Nat /\ C > 0 /\ a \in 0 .. C - 1 /\ q \in 0 .. C - 1
          /\ b * C + a = q
      BY <1>1, <2>1
    <3> HIDE DEF C
    <3>2. QED
      BY <3>1, DivZero
  <2>3. c.y + b * s = c.y
    BY <1>1, <2>2
  <2>4. InSquare(p, c.x, c.y, s)
    BY <2>2, <2>3
  <2>5. Append(text, k)[Len(text) + 1] = k
    OBVIOUS
  <2>6. QED
    BY <1>1, <1>2, <1>3, <2>2, <2>4, <2>5
<1>4. CASE m # 0
  <2>1. m \in 1 .. Len(text) /\ m \in Nat /\ m > 0
    BY <1>1, <1>4
  <2>2. ~InSquare(p, c.x, c.y, s) /\ b <= 0
    BY <1>1, <2>1, Apart
  <2>3. c.vram[p] = text[Len(text) - m + 1]
    BY <2>1 DEF Echoed
  <2>4. Append(text, k)[Len(text) + 1 - m] = text[Len(text) - m + 1]
    <3>1. Len(text) + 1 - m \in 1 .. Len(text) /\ Len(text) + 1 - m = Len(text) - m + 1
      BY <1>1, <2>1
    <3>2. QED
      BY <3>1
  <2>5. QED
    BY <1>2, <2>2, <2>3, <2>4
<1>5. QED
  BY <1>3, <1>4

LEMMA GlyphShown ==
  ASSUME NEW s \in Scales, NEW c \in OnScreen, NEW st \in Nat, NEW K, NEW text \in Seq(K),
         NEW k \in K, k \in Letters, Shown(c, s, st, text)
  PROVE  Shown(Glyph(c, s, k, "vram"), s, st, Append(text, k))
<1> DEFINE C == Cols(s)
           e == Draw(c, s, k, "vram")
           d == Glyph(c, s, k, "vram")
           more == Append(text, k)
<1>1. /\ c \in Consoles /\ c.x \in 0 .. W /\ c.y \in 0 .. H - 1 /\ c.top \in Gone .. H - 1
      /\ s \in Nat /\ s > 0 /\ W \in Nat /\ H \in Nat /\ Gone \in Int /\ k \in Letters \cup {Blank}
  BY Sizes, ScreenIsConsole, OnScreenIs
<1>2. PICK q \in 0 .. C - 1 :
        /\ c.x = q * s
        /\ c.top = Gone \/ \E r \in Nat : c.y = c.top + r * s /\ r * C + q = st + Len(text)
        /\ Echoed(c, q, s, text)
  BY DEF Shown
<1>3. c.y + s <= H
  BY DEF Shown
<1>4. C \in Nat /\ C > 0
  BY ColsAre
<1>5. q \in Nat /\ q + 1 \in Nat /\ (q + 1) * s = q * s + s /\ 0 * s = 0 /\ q * s \in Int
      /\ (q + 1) * s \in Int
  BY <1>1, <1>4, Multiples
<1>6. /\ c.x + s + s <= W => q + 1 \in 0 .. C - 1
      /\ c.x + s + s > W => q = C - 1
  <2>1. (q + 1) * s + s <= W => q + 1 < C
    BY <1>5, ColsAre
  <2>2. (q + 1) * s + s > W => q + 1 >= C
    BY <1>5, ColsAre
  <2> HIDE DEF C
  <2>3. (q + 1) * s + s = c.x + s + s
    BY <1>2, <1>5
  <2>4. QED
    BY <1>1, <1>2, <1>4, <1>5, <2>1, <2>2, <2>3
<1>7. Len(text) \in Nat /\ Len(more) = Len(text) + 1
  OBVIOUS
<1>8. ASSUME NEW m \in 0 .. Len(text), NEW a \in 0 .. C - 1, NEW b \in Int, q - m = b * C + a,
             NEW p \in Cells, InSquare(p, a * s, c.y + b * s, s)
      PROVE  e.vram[p] = more[Len(text) + 1 - m] /\ b <= 0
  BY <1>2, <1>8, DrawShown
<1>9. /\ c.x + s + s <= W => d.x = c.x + s /\ d.y = c.y /\ d.vram = e.vram /\ d.top = c.top
      /\ c.x + s + s > W =>
           \E f \in Consoles : /\ f.y = c.y /\ f.vram = e.vram /\ f.top = c.top
                               /\ d = vdNewline(f, s)
  BY <1>1, GlyphIs, SMTT(60)
<1> HIDE DEF C, e, d, more
<1>10. CASE c.x + s + s <= W
  <2>1. d.x = (q + 1) * s /\ d.y = c.y /\ d.vram = e.vram /\ d.top = c.top /\ q + 1 \in 0 .. C - 1
    BY <1>2, <1>5, <1>6, <1>9, <1>10
  <2>2. d.top = Gone \/ \E r \in Nat : d.y = d.top + r * s /\ r * C + (q + 1) = st + Len(more)
    <3>1. SUFFICES ASSUME c.top # Gone
                   PROVE  \E r \in Nat : d.y = d.top + r * s /\ r * C + (q + 1) = st + Len(more)
      BY <2>1
    <3>2. PICK r \in Nat : c.y = c.top + r * s /\ r * C + q = st + Len(text)
      BY <1>2, <3>1
    <3>3. r * C \in Int
      BY <1>4
    <3>4. r * C + (q + 1) = st + Len(more)
      BY <1>5, <1>7, <3>2, <3>3
    <3>5. QED
      BY <2>1, <3>2, <3>4
  <2>3. ASSUME NEW n \in 1 .. Len(more), NEW a \in 0 .. C - 1, NEW b \in Int,
               (q + 1) - n = b * C + a,
               NEW p \in Cells, InSquare(p, a * s, d.y + b * s, s)
        PROVE  d.vram[p] = more[Len(more) - n + 1]
    <3>1. n - 1 \in 0 .. Len(text) /\ q - (n - 1) = b * C + a
          /\ Len(text) + 1 - (n - 1) = Len(more) - n + 1
      BY <1>5, <1>7, <2>3
    <3>2. QED
      BY <1>8, <2>1, <2>3, <3>1
  <2>4. Echoed(d, q + 1, s, more)
    BY <2>3 DEF Echoed, C
  <2>5. QED
    BY <1>3, <2>1, <2>2, <2>4 DEF Shown, C, d, more
<1>11. CASE c.x + s + s > W
  <2>1. PICK f \in Consoles : /\ f.y = c.y /\ f.vram = e.vram /\ f.top = c.top
                              /\ d = vdNewline(f, s)
    BY <1>9, <1>11
  <2>2. /\ d.x = 0
        /\ c.y + s + s <= H => d.y = c.y + s /\ d.vram = e.vram /\ d.top = c.top
        /\ c.y + s + s > H =>
             /\ d.y = (IF c.y + s > H THEN H - s ELSE c.y)
             /\ d.top = (IF c.top - s < Gone THEN Gone ELSE c.top - s)
             /\ \A p \in Cells : d.vram[p] =
                  IF p[2] + s < H THEN e.vram[<<p[1], p[2] + s>>] ELSE Blank
    BY <2>1, NewlineIs
  <2>3. d.x = 0 * s /\ 0 \in 0 .. C - 1 /\ d.y + s <= H /\ q = C - 1
    BY <1>1, <1>3, <1>4, <1>5, <1>6, <1>11, <2>2
  <2>4. \/ d.top = Gone
        \/ d.y = c.y + s /\ d.top = c.top /\ c.top # Gone
        \/ d.y = c.y /\ d.top = c.top - s /\ c.top # Gone
    BY <1>1, <1>3, <2>2, SMTT(60)
  <2>5. d.top = Gone \/ \E r \in Nat : d.y = d.top + r * s /\ r * C + 0 = st + Len(more)
    <3>1. CASE d.top # Gone
      <4>1. PICK r \in Nat : c.y = c.top + r * s /\ r * C + q = st + Len(text)
        BY <1>2, <2>4, <3>1
      <4>2. /\ r + 1 \in Nat /\ (r + 1) * s = r * s + s /\ (r + 1) * C = r * C + C
            /\ r * s \in Int /\ r * C \in Int
        BY <1>1, <1>4, Multiples
      <4>3. d.y = d.top + (r + 1) * s
        BY <1>1, <2>4, <3>1, <4>1, <4>2, SMTT(60)
      <4>4. (r + 1) * C + 0 = st + Len(more)
        BY <1>4, <1>7, <2>3, <4>1, <4>2
      <4>5. QED
        BY <4>2, <4>3, <4>4
    <3>2. QED
      BY <3>1
  <2>6. ASSUME NEW n \in 1 .. Len(more), NEW a \in 0 .. C - 1, NEW b \in Int,
               0 - n = b * C + a,
               NEW p \in Cells, InSquare(p, a * s, d.y + b * s, s)
        PROVE  d.vram[p] = more[Len(more) - n + 1]
    <3>1. /\ b + 1 \in Int /\ (b + 1) * s = b * s + s /\ (b + 1) * C = b * C + C
          /\ b * s \in Int /\ b * C \in Int /\ a * s \in Int
      BY <1>1, <1>4, Multiples
    <3>2. n - 1 \in 0 .. Len(text) /\ Len(text) + 1 - (n - 1) = Len(more) - n + 1
      BY <1>7
    <3>3. q - (n - 1) = (b + 1) * C + a
      BY <1>4, <2>3, <2>6, <3>1
    <3>4. p[1] \in Int /\ p[2] \in 0 .. H - 1
      BY CellsAre
    <3> DEFINE left == a * s
               up == b * s
               row == c.y + (b + 1) * s
    <3>5. left \in Int /\ up \in Int /\ row = c.y + up + s /\ InSquare(p, left, d.y + up, s)
      BY <1>1, <2>6, <3>1, SMTT(60)
    <3> HIDE DEF left, up, row
    <3>6. CASE c.y + s + s <= H
      <4>1. d.y = c.y + s /\ d.vram = e.vram
        BY <2>2, <3>6
      <4>2. d.y + up = row
        BY <1>1, <3>5, <4>1
      <4>3. InSquare(p, a * s, c.y + (b + 1) * s, s)
        BY <3>5, <4>2 DEF left, row
      <4>4. e.vram[p] = more[Len(text) + 1 - (n - 1)]
        BY <1>8, <3>1, <3>2, <3>3, <4>3
      <4>5. QED
        BY <3>2, <4>1, <4>4
    <3>7. CASE c.y + s + s > H
      <4> DEFINE low == <<p[1], p[2] + s>>
      <4>1. d.y = c.y
        BY <1>1, <1>3, <2>2, <3>7
      <4>2. low[1] = p[1] /\ low[2] = p[2] + s
        OBVIOUS
      <4>3. InSquare(low, left, row, s)
        <5>1. c.y + up \in Int /\ row = (c.y + up) + s /\ InSquare(p, left, c.y + up, s)
          BY <1>1, <3>5, <4>1
        <5>2. QED
          BY <1>1, <3>5, <5>1, ShiftSquare
      <4>4. b + 1 <= 0
        <5>1. 0 * C = 0 /\ (0 <= b => 0 * C <= b * C)
          BY <1>4, Multiples
        <5>2. QED
          BY <1>4, <2>6, <3>1, <5>1
      <4>5. p[2] + s < H /\ low \in Cells
        <5>1. (b + 1) * s <= 0
          BY <1>1, <3>1, <4>4, Multiples
        <5> DEFINE z == (b + 1) * s
                   y == c.y
        <5>2. row <= y /\ row \in Int
          <6>1. z \in Int /\ z <= 0
            BY <1>1, <3>1, <5>1
          <6>2. y \in Int
            BY <1>1
          <6>3. row = y + z
            BY DEF row
          <6> HIDE DEF z, y
          <6>4. QED
            BY <6>1, <6>2, <6>3
        <5>3. s \in Int /\ y \in Int /\ H \in Int /\ y + s <= H
          BY <1>1, <1>3
        <5> HIDE DEF z, y
        <5>4. p[2] + s < H
          <6>1. p[2] + s <= row + s - 1 /\ p[2] \in Int
            BY <3>4, <4>2, <4>3 DEF InSquare
          <6>2. QED
            BY <5>2, <5>3, <6>1
        <5>5. p[2] + s \in 0 .. H - 1
          <6>1. p[2] \in Int /\ p[2] >= 0 /\ s \in Nat /\ H \in Int
            BY <1>1, <3>4
          <6>2. QED
            BY <5>4, <6>1
        <5>6. p[1] \in 0 .. W - 1
          BY CellsAre
        <5>7. QED
          BY <5>4, <5>5, <5>6 DEF Cells
      <4>6. InSquare(low, a * s, c.y + (b + 1) * s, s)
        BY <4>3 DEF left, row
      <4>7. e.vram[low] = more[Len(text) + 1 - (n - 1)]
        BY <1>8, <3>1, <3>2, <3>3, <4>5, <4>6
      <4>8. d.vram[p] = e.vram[low]
        BY <2>2, <3>7, <4>5
      <4>9. QED
        BY <3>2, <4>7, <4>8
    <3>8. QED
      BY <1>1, <3>6, <3>7, SMTT(60)
  <2>7. Echoed(d, 0, s, more)
    BY <2>6 DEF Echoed, C
  <2>8. QED
    BY <2>3, <2>5, <2>7 DEF Shown, C, d, more
<1>12. QED
  BY <1>1, <1>10, <1>11 DEF d, more

LEMMA FrontIs ==
  ASSUME NEW K, NEW text \in Seq(K), text # <<>>
  PROVE  /\ Front(text) \in Seq(K) /\ Len(Front(text)) = Len(text) - 1
         /\ \A i \in 1 .. Len(text) - 1 : Front(text)[i] = text[i]
<1>1. Len(text) \in Nat /\ Len(text) > 0
  OBVIOUS
<1> DEFINE n == Len(text) - 1
<1>2. n \in Nat /\ n <= Len(text)
  BY <1>1
<1>3. Front(text) = SubSeq(text, 1, n)
  BY DEF Front
<1>4. \A i \in 1 .. n : i \in 1 .. Len(text)
  BY <1>1
<1> HIDE DEF n
<1>5. SubSeq(text, 1, n) \in Seq(K) /\ Len(SubSeq(text, 1, n)) = n
  BY <1>1, <1>2, <1>4
<1>6. \A i \in 1 .. n : SubSeq(text, 1, n)[i] = text[i]
  BY <1>1, <1>2, <1>4
<1>7. QED
  BY <1>3, <1>5, <1>6 DEF n

LEMMA EraseShown ==
  ASSUME NEW s \in Scales, NEW c \in OnScreen, NEW st \in Nat, NEW K, NEW text \in Seq(K),
         text # <<>>, c.x >= s, Shown(c, s, st, text)
  PROVE  Shown(vdBackSpace(c, s, "vram"), s, st, Front(text))
<1> DEFINE C == Cols(s)
           d == vdBackSpace(c, s, "vram")
           less == Front(text)
<1>1. /\ c \in Consoles /\ c.x \in 0 .. W /\ c.y \in 0 .. H - 1 /\ s \in Nat /\ s > 0
  BY Sizes, ScreenIsConsole, OnScreenIs
<1>2. PICK q \in 0 .. C - 1 :
        /\ c.x = q * s
        /\ c.top = Gone \/ \E r \in Nat : c.y = c.top + r * s /\ r * C + q = st + Len(text)
        /\ Echoed(c, q, s, text)
  BY DEF Shown
<1>3. c.y + s <= H
  BY DEF Shown
<1>4. C \in Nat /\ C > 0
  BY ColsAre
<1>5. /\ Len(text) \in Nat /\ Len(text) > 0 /\ Len(less) = Len(text) - 1
      /\ \A i \in 1 .. Len(less) : less[i] = text[i]
  <2>1. Len(text) \in Nat /\ Len(text) > 0
    OBVIOUS
  <2>2. Len(less) = Len(text) - 1 /\ \A i \in 1 .. Len(text) - 1 : less[i] = text[i]
    BY FrontIs
  <2>3. QED
    BY <2>1, <2>2
<1>6. /\ d.x = c.x - s /\ d.y = c.y /\ d.top = c.top
      /\ \A p \in Cells : d.vram[p] = IF Under(d, s, p) THEN Blank ELSE c.vram[p]
  <2>1. "vram" # "back"
    OBVIOUS
  <2>2. QED
    BY <1>1, <2>1, BackSpaceIs
<1> HIDE DEF d, less
<1>7. q - 1 \in 0 .. C - 1 /\ d.x = (q - 1) * s
  <2>1. q \in Nat /\ q * s >= s
    BY <1>2, <1>4
  <2>2. q - 1 \in Nat /\ q * s - s = (q - 1) * s
    BY <2>1, AlignedSteps
  <2> HIDE DEF C
  <2>3. QED
    BY <1>2, <1>4, <1>6, <2>2
<1>8. d.top = Gone \/ \E r \in Nat : d.y = d.top + r * s /\ r * C + (q - 1) = st + Len(less)
  <2>1. SUFFICES ASSUME c.top # Gone
                 PROVE  \E r \in Nat : d.y = d.top + r * s /\ r * C + (q - 1) = st + Len(less)
    BY <1>6
  <2> HIDE DEF C
  <2>2. PICK r \in Nat : c.y = c.top + r * s /\ r * C + q = st + Len(text)
    BY <1>2, <2>1
  <2>3. r * C \in Int
    BY <1>4
  <2>4. r * C + (q - 1) = st + Len(less)
    BY <1>2, <1>4, <1>5, <2>2, <2>3
  <2>5. QED
    BY <1>6, <2>2, <2>4
<1>9. ASSUME NEW n \in 1 .. Len(less), NEW a \in 0 .. C - 1, NEW b \in Int,
             (q - 1) - n = b * C + a,
             NEW p \in Cells, InSquare(p, a * s, d.y + b * s, s)
      PROVE  d.vram[p] = less[Len(less) - n + 1]
  <2>1. ~InSquare(p, (q - 1) * s, d.y, s)
    <3>1. n \in Nat /\ n > 0 /\ d.y \in Int
      BY <1>1, <1>5, <1>6
    <3>2. QED
      BY <1>7, <1>9, <3>1, Apart
  <2>2. d.vram[p] = c.vram[p]
    BY <1>6, <1>7, <2>1 DEF InSquare, Under
  <2> HIDE DEF C
  <2>3. n + 1 \in 1 .. Len(text) /\ q - (n + 1) = b * C + a
    BY <1>2, <1>4, <1>5, <1>9
  <2>4. c.vram[p] = text[Len(text) - (n + 1) + 1]
    BY <1>2, <1>6, <1>9, <2>3 DEF Echoed, C
  <2>5. /\ Len(less) - n + 1 = Len(text) - (n + 1) + 1
        /\ Len(less) - n + 1 \in 1 .. Len(less)
    BY <1>5
  <2>6. QED
    BY <1>5, <2>2, <2>4, <2>5
<1>10. Echoed(d, q - 1, s, less)
  BY <1>9 DEF Echoed
<1>11. QED
  BY <1>3, <1>6, <1>7, <1>8, <1>10 DEF Shown, d, less

\* From the places of the model's properties to those of the invariant.
LEMMA ShownIsEcho ==
  ASSUME TypeInv, NEW st \in Nat, start = st * g_scale, start + g_scale <= W,
         Shown(con, g_scale, st, line)
  PROVE  /\ con.top > Gone => Back(Len(line)) = <<start, con.top>>
         /\ \A n \in 1 .. Len(line), p \in Cells :
              LET at == Back(n)
              IN  p[1] \in at[1] .. at[1] + g_scale - 1 /\ p[2] \in at[2] .. at[2] + g_scale - 1
                    => con.vram[p] = line[Len(line) - n + 1]
<1> DEFINE s == g_scale
           C == Cols(s)
<1>1. s \in Scales /\ s \in Nat /\ s > 0 /\ con \in OnScreen /\ Len(line) \in Nat
      /\ con.y \in Int /\ Gone \in Int /\ con.top \in Int
  <2>1. s \in Scales /\ con \in OnScreen /\ line \in Seq(Letters \cup {TAB})
    BY DEF TypeInv, TypeOK, Scales
  <2>2. Len(line) \in Nat
    BY <2>1
  <2>3. QED
    BY <2>1, <2>2, Sizes, OnScreenIs
<1>2. C \in Nat /\ C > 0 /\ Columns = C /\ st < C
  BY <1>1, ColsAre DEF Columns, Cols
<1>3. PICK q \in 0 .. C - 1 :
        /\ con.x = q * s
        /\ con.top = Gone \/ \E r \in Nat : con.y = con.top + r * s /\ r * C + q = st + Len(line)
        /\ Echoed(con, q, s, line)
  BY DEF Shown
<1> HIDE DEF C, s
<1>4. con.x \div s = q
  <2>1. /\ con.x \div s \in Int /\ con.x % s \in 0 .. s - 1
        /\ (con.x \div s) * s + (con.x % s) = q * s + 0
    BY <1>1, <1>2, <1>3, DivIs, SMTT(60)
  <2>2. q \in Int /\ 0 \in 0 .. s - 1
    BY <1>1, <1>2
  <2>3. QED
    BY <1>1, <2>1, <2>2, DivUnique, SMTT(60)
<1>5. ASSUME NEW n \in Nat
      PROVE  Back(n) = << ((q - n) % C) * s, con.y + ((q - n) \div C) * s >>
  BY <1>2, <1>4 DEF Back, s
<1>6. ASSUME con.top > Gone PROVE Back(Len(line)) = <<start, con.top>>
  <2>1. PICK r \in Nat : con.y = con.top + r * s /\ r * C + q = st + Len(line)
    BY <1>1, <1>3, <1>6
  <2> DEFINE i == q - Len(line)
  <2>2. i \in Int /\ r * C \in Int /\ (-r) * C = -(r * C) /\ r * s \in Int /\ (-r) * s = -(r * s)
    BY <1>1, <1>2
  <2>3. i = (-r) * C + st
    BY <1>1, <1>2, <2>1, <2>2
  <2> HIDE DEF i
  <2>4. i % C = st /\ i \div C = -r
    <3>1. i \div C \in Int /\ i % C \in 0 .. C - 1 /\ (i \div C) * C + (i % C) = (-r) * C + st
      BY <1>2, <2>2, <2>3, DivIs
    <3>2. st \in 0 .. C - 1 /\ -r \in Int
      BY <1>2
    <3> DEFINE j == -r
               a == i % C
               b == i \div C
    <3> HIDE DEF j, a, b
    <3>3. a = st /\ b = j
      <4>1. b \in Int /\ a \in 0 .. C - 1 /\ b * C + a = j * C + st /\ j \in Int
        BY <3>1, <3>2 DEF a, b, j
      <4>2. QED
        BY <1>2, <3>2, <4>1, DivUnique
    <3>4. QED
      BY <3>3 DEF j, a, b
  <2>5. con.y + (-r) * s = con.top
    BY <1>1, <2>1, <2>2, SMTT(60)
  <2>6. QED
    BY <1>1, <1>5, <2>4, <2>5 DEF i, s
<1>7. ASSUME NEW n \in 1 .. Len(line), NEW p \in Cells,
             p[1] \in Back(n)[1] .. Back(n)[1] + s - 1,
             p[2] \in Back(n)[2] .. Back(n)[2] + s - 1
      PROVE  con.vram[p] = line[Len(line) - n + 1]
  <2> DEFINE i == q - n
             a == i % C
             b == i \div C
  <2>1. i \in Int /\ n \in Nat
    BY <1>1, <1>2
  <2>2. a \in 0 .. C - 1 /\ b \in Int /\ i = b * C + a
    BY <1>2, <2>1, DivIs
  <2>3. Back(n) = <<a * s, con.y + b * s>>
    BY <1>5, <2>1
  <2>4. InSquare(p, a * s, con.y + b * s, s)
    BY <1>7, <2>3 DEF InSquare
  <2>5. q - n = b * C + a
    BY <2>2
  <2> HIDE DEF i, a, b
  <2>6. QED
    BY <1>3, <1>7, <2>2, <2>4, <2>5 DEF Echoed, C
<1>8. QED
  BY <1>6, <1>7 DEF s

------------------------------------------------------------------------------
(* The prompt is kept and the echo is the line.                            *)

LineInv ==
  reading /\ fit =>
    /\ steady
    /\ \E st \in Nat : /\ start = st * g_scale /\ start + g_scale <= W
                       /\ Placed(con, g_scale, st, Len(line))
                       /\ plain => Shown(con, g_scale, st, line)

\* A read starts with an empty line.
LEMMA ReadShown ==
  ASSUME SteadyInv, ReadCall, fit'
  PROVE  LineInv'
<1>1. /\ con \in OnScreen /\ con \in Tidy(g_scale) /\ g_scale \in Scales /\ steady
      /\ con.x + g_scale <= W /\ con.y + g_scale <= H
  BY DEF ReadCall, SteadyInv, TypeInv, TypeOK, Scales
<1>2. PICK q \in Nat : con.x = q * g_scale
  BY <1>1 DEF Tidy, Aligned
<1>3. /\ con'.x = con.x /\ con'.y = con.y /\ con'.top = con.y /\ con'.vram = con.vram
      /\ start' = con.x /\ line' = <<>> /\ g_scale' = g_scale /\ steady' = steady
  BY <1>1 DEF ReadCall, OnScreen
<1> DEFINE s == g_scale
           C == Cols(s)
<1>4. C \in Nat /\ C > 0 /\ q < C /\ q \in 0 .. C - 1 /\ q \in 0 .. C
  <2>1. C \in Nat /\ C > 0 /\ q < C
    BY <1>1, <1>2, ColsAre
  <2> HIDE DEF C
  <2>2. QED
    BY <2>1
<1>5. con'.y = con'.top + 0 * s /\ 0 * (C + 1) + q >= q + 0 /\ 0 * C + q = q + 0
  <2>1. s \in Nat /\ con.y \in Int
    BY <1>1, Sizes, OnScreenIs
  <2> HIDE DEF C
  <2>2. QED
    BY <1>3, <1>4, <2>1
<1>6. Len(line') = 0 /\ con'.y + s <= H
  BY <1>1, <1>3
<1>7. Placed(con', s, q, Len(line'))
  <2>1. \E r \in Nat : con'.y = con'.top + r * s /\ r * (C + 1) + q >= q + Len(line')
    BY <1>5, <1>6
  <2>2. QED
    BY <1>2, <1>3, <1>4, <1>6, <2>1 DEF Placed
<1>8. Shown(con', s, q, line')
  <2>1. \E r \in Nat : con'.y = con'.top + r * s /\ r * C + q = q + Len(line')
    BY <1>5, <1>6
  <2>2. Echoed(con', q, s, line')
    <3>1. 1 .. Len(line') = {}
      BY <1>6
    <3>2. QED
      BY <3>1 DEF Echoed
  <2>3. QED
    BY <1>2, <1>3, <1>4, <1>6, <2>1, <2>2 DEF Shown
<1>9. start' = q * g_scale' /\ start' + g_scale' <= W /\ steady'
  BY <1>1, <1>2, <1>3
<1>10. QED
  BY <1>3, <1>7, <1>8, <1>9 DEF LineInv

LEMMA LineStep == SteadyInv /\ LineInv /\ [Next]_vars => LineInv'
<1> SUFFICES ASSUME SteadyInv, LineInv, [Next]_vars, reading', fit' PROVE LineInv'
  BY DEF LineInv
<1>1. CASE ReadCall
  BY <1>1, ReadShown
<1>2. CASE UNCHANGED vars
  BY <1>2 DEF vars, code, hist, LineInv
<1>3. ASSUME NEW k \in Letters \cup {NL, TAB, BS}, Key(k) PROVE LineInv'
  <2>1. /\ reading /\ g_scale' = g_scale /\ steady' = steady /\ con \in OnScreen
        /\ g_scale \in Scales /\ line \in Seq(Letters \cup {TAB}) /\ Len(line) \in Nat
    <3>1. line \in Seq(Letters \cup {TAB})
      BY DEF SteadyInv, TypeInv, TypeOK
    <3>2. Len(line) \in Nat
      BY <3>1
    <3>3. QED
      BY <1>3, <3>1, <3>2 DEF Key, SteadyInv, TypeInv, TypeOK, Scales
  <2>2. ~EndLine
    BY DEF EndLine
  <2>3. CASE Erase
    <3>1. /\ fit /\ start' = start /\ line # <<>> /\ line' = Front(line)
          /\ con' = vdBackSpace(con, g_scale, "vram") /\ (plain' => plain /\ con.x >= g_scale)
      BY <2>3 DEF Erase
    <3>2. PICK st \in Nat : /\ start = st * g_scale /\ start + g_scale <= W
                            /\ Placed(con, g_scale, st, Len(line))
                            /\ plain => Shown(con, g_scale, st, line)
      BY <2>1, <3>1 DEF LineInv
    <3>3. Len(line) > 0 /\ Len(line') = Len(line) - 1
      <4>1. Len(line) > 0
        BY <2>1, <3>1
      <4>2. QED
        BY <2>1, <3>1, <4>1, FrontIs
    <3>4. Placed(con', g_scale, st, Len(line'))
      BY <2>1, <3>1, <3>2, <3>3, ErasePlaced
    <3>5. plain' => Shown(con', g_scale, st, line')
      BY <2>1, <3>1, <3>2, EraseShown
    <3>6. QED
      BY <2>1, <3>1, <3>2, <3>4, <3>5 DEF LineInv
  <2>4. CASE k \notin {NL, BS} /\ Echo(k)
    <3>1. /\ fit /\ start' = start /\ line' = Append(line, k) /\ k \in Letters \cup {TAB}
          /\ con' = vdPrintChar(con, g_scale, k, "vram") /\ (plain' => plain /\ k # TAB)
      BY <2>4 DEF Echo
    <3>2. PICK st \in Nat : /\ start = st * g_scale /\ start + g_scale <= W
                            /\ Placed(con, g_scale, st, Len(line))
                            /\ plain => Shown(con, g_scale, st, line)
      BY <2>1, <3>1 DEF LineInv
    <3>3. Len(line') = Len(line) + 1
      BY <2>1, <3>1
    <3>4. Placed(con', g_scale, st, Len(line'))
      BY <2>1, <3>1, <3>2, <3>3, EchoPlaced
    <3>5. plain' => Shown(con', g_scale, st, line')
      <4>1. SUFFICES ASSUME plain' PROVE Shown(con', g_scale, st, line')
        OBVIOUS
      <4>2. k \in Letters /\ con' = Glyph(con, g_scale, k, "vram")
        BY <2>4, <3>1, <4>1 DEF vdPrintChar
      <4>3. QED
        BY <2>1, <3>1, <3>2, <4>1, <4>2, GlyphShown
    <3>6. QED
      BY <2>1, <3>1, <3>2, <3>4, <3>5 DEF LineInv
  <2>5. QED
    BY <1>3, <2>2, <2>3, <2>4 DEF Key
<1>4. QED
  BY <1>1, <1>2, <1>3 DEF Next, Write, WriteAt, ClearWindow, PresentFullframe, Resize

LEMMA LineHolds == Spec => [](SteadyInv /\ LineInv)
<1>1. Init => LineInv
  BY DEF Init, LineInv
<1>2. QED
  BY <1>1, InitSteady, SteadyStep, LineStep, PTL DEF Spec

\* The echo of syscall_read is the line that it will return, glyph by glyph, for
\* every font and line: where the prompt left off, over every wrap and scroll and
\* after every Backspace that stays in its row.
THEOREM EchoIsLine == Spec => []EchoShowsLine
<1>1. SteadyInv /\ LineInv => EchoShowsLine
  <2> SUFFICES ASSUME SteadyInv, LineInv, reading, fit, plain PROVE EchoShowsLine
    BY DEF EchoShowsLine
  <2>1. PICK st \in Nat : /\ start = st * g_scale /\ start + g_scale <= W
                          /\ Shown(con, g_scale, st, line)
    BY DEF LineInv
  <2>2. TypeInv
    BY DEF SteadyInv
  <2>3. QED
    BY <2>1, <2>2, ShownIsEcho DEF EchoShowsLine
<1>2. QED
  BY <1>1, LineHolds, PTL

\* What may be erased was typed: for every font and line, with Tabs and margins in
\* it, no Backspace reaches what was on the screen before the line.
THEOREM PromptStays == Spec => PromptKept
<1>1. SteadyInv /\ LineInv /\ [Next]_vars =>
        (reading /\ fit /\ reading' /\ Len(line') <= Len(line) =>
           \A p \in Cells : Before(p, start, con.top) => con'.vram[p] = con.vram[p])
  <2> SUFFICES ASSUME SteadyInv, LineInv, [Next]_vars, reading, fit, reading',
                      Len(line') <= Len(line), NEW p \in Cells, Before(p, start, con.top)
               PROVE  con'.vram[p] = con.vram[p]
    OBVIOUS
  <2>1. /\ con \in OnScreen /\ g_scale \in Scales
        /\ line \in Seq(Letters \cup {TAB}) /\ Len(line) \in Nat
    <3>1. line \in Seq(Letters \cup {TAB})
      BY DEF SteadyInv, TypeInv, TypeOK
    <3>2. Len(line) \in Nat
      BY <3>1
    <3>3. QED
      BY <3>1, <3>2 DEF SteadyInv, TypeInv, TypeOK, Scales
  <2>2. CASE UNCHANGED vars
    BY <2>2 DEF vars, code
  <2>3. ASSUME NEW k \in Letters \cup {NL, TAB, BS}, Key(k) PROVE con'.vram[p] = con.vram[p]
    <3>1. ~EndLine
      BY DEF EndLine
    <3>2. ~Echo(k)
      <4>1. Echo(k) => Len(line') = Len(line) + 1
        BY <2>1, <2>3 DEF Echo
      <4>2. QED
        BY <2>1, <4>1
    <3>3. line # <<>> /\ con' = vdBackSpace(con, g_scale, "vram")
      BY <2>3, <3>1, <3>2 DEF Key, Erase
    <3>4. PICK st \in Nat : /\ start = st * g_scale /\ start + g_scale <= W
                            /\ Placed(con, g_scale, st, Len(line))
      BY DEF LineInv
    <3>5. Len(line) > 0
      BY <2>1, <3>3
    <3>6. p[2] < con.top \/ (p[2] < con.top + g_scale /\ p[1] < st * g_scale)
      BY <3>4 DEF Before
    <3>7. QED
      BY <2>1, <3>3, <3>4, <3>5, <3>6, ErasePlaced
  <2>4. QED
    BY <2>2, <2>3 DEF Next, Write, WriteAt, ClearWindow, PresentFullframe, Resize, ReadCall
<1>2. QED
  BY <1>1, LineHolds, PTL DEF Spec, PromptKept
==============================================================================

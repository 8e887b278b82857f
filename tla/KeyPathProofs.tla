---------------------------- MODULE KeyPathProofs ----------------------------
(***************************************************************************)
(* The two ends of the keyboard ring, for a ring, a line and a batch of    *)
(* any length and any bytes: what the physical keyboard sends is decoded,  *)
(* and what the two reading system calls return is what was typed.         *)
(***************************************************************************)
EXTENDS ConsoleInput, KeyboardDevice, KeyboardProofs, WellFoundedInduction

\* What Backspace leaves of a line that is not empty: a line one key shorter.
LEMMA FrontShorter ==
  ASSUME NEW S, NEW s \in Seq(S), s # <<>>
  PROVE  Front(s) \in Seq(S) /\ Len(Front(s)) = Len(s) - 1
<1>1. Len(s) \in Nat /\ Len(s) > 0
  OBVIOUS
<1> DEFINE n == Len(s) - 1
<1>2. n \in 0 .. Len(s)
  BY <1>1
<1>3. Front(s) = [i \in 1 .. n |-> s[i]]
  BY <1>1 DEF Front
<1>4. \A i \in 1 .. n : s[i] \in S
  BY <1>1
<1>5. QED
  BY <1>2, <1>3, <1>4

\* A step of the composition is a step of the keyboard, or leaves it alone.
LEMMA InputStepIsKeyboardStep == InputNext => Next
<1> SUFFICES ASSUME InputNext PROVE Next
  OBVIOUS
<1>1. ASSUME NEW b \in Bytes, KeyTyped(b) PROVE Next
  BY <1>1 DEF KeyTyped, Next
<1>2. ASSUME NEW c \in Clients, Call(c) PROVE Next
  BY <1>2 DEF Call, Next
<1>3. CASE TakeKey
  BY <1>3 DEF TakeKey, Next, Reader
<1>4. CASE Clear
  BY <1>4 DEF Clear, Next, Reader, ClearKeyboardBuffer
<1>5. CASE OtherStep
  BY <1>5 DEF OtherStep, Next, Reader, ClearKeyboardBuffer
<1>6. CASE Return
  BY <1>6 DEF Return, Next, Reader
<1>7. QED
  BY <1>1, <1>2, <1>3, <1>4, <1>5, <1>6 DEF InputNext

------------------------------------------------------------------------------
(* The inductive invariant: the keyboard's, which bounds the key that is   *)
(* read, and the bounds of the two buffers.                                *)

InputInv == IInv /\ InputTypeOK

LEMMA InitInputInv == InputInit => InputInv
<1> SUFFICES ASSUME InputInit PROVE InputInv
  OBVIOUS
<1>1. IInv
  BY InitIInv DEF InputInit
<1>2. line = <<>> /\ batch = <<>>
  BY DEF InputInit
<1>3. QED
  BY <1>1, <1>2, LineAssumption DEF InputInv, InputTypeOK

\* The line editor keeps the line shorter than its buffer.
LEMMA EditKeeps ==
  ASSUME ev \in Byte, InputTypeOK, Edit
  PROVE  line' \in Seq(Byte \ {NUL}) /\ Len(line') < LineLength
<1> USE LineAssumption DEF InputTypeOK
<1>1. CASE UNCHANGED line
  BY <1>1
<1>2. CASE ev = BS /\ line' = (IF line = <<>> THEN line ELSE Front(line))
  <2>1. CASE line = <<>>
    BY <1>2, <2>1
  <2>2. CASE line # <<>>
    <3>1. Front(line) \in Seq(Byte \ {NUL}) /\ Len(Front(line)) = Len(line) - 1
      BY <2>2, FrontShorter
    <3>2. QED
      BY <1>2, <2>2, <3>1
  <2>3. QED
    BY <2>1, <2>2
<1>3. CASE ev # NUL /\ Len(line) + 1 < LineLength /\ line' = Append(line, ev)
  <2>1. line' \in Seq(Byte \ {NUL}) /\ Len(line') = Len(line) + 1
    BY <1>3
  <2>2. QED
    BY <1>3, <2>1
<1>4. QED
  BY <1>1, <1>2, <1>3 DEF Edit

\* The batch never outgrows the room that the caller gave.
LEMMA CollectKeeps ==
  ASSUME ev \in Byte, InputTypeOK, Collect
  PROVE  batch' \in Seq(Byte \ {NUL}) /\ Len(batch') <= MaxLen
<1> USE LineAssumption DEF InputTypeOK
<1>1. CASE ev # NUL /\ Len(batch) < MaxLen
  <2>1. Lower(ev) \in Byte \ {NUL}
    BY <1>1 DEF Lower, Byte, NUL
  <2>2. batch' = Append(batch, Lower(ev))
    BY <1>1 DEF Collect
  <2>3. batch' \in Seq(Byte \ {NUL}) /\ Len(batch') = Len(batch) + 1
    BY <2>1, <2>2
  <2>4. QED
    BY <1>1, <2>3
<1>2. CASE ~(ev # NUL /\ Len(batch) < MaxLen)
  BY <1>2 DEF Collect
<1>3. QED
  BY <1>1, <1>2

LEMMA InputNextKeeps == InputInv /\ [InputNext]_inputVars => InputInv'
<1> SUFFICES ASSUME InputInv, [InputNext]_inputVars PROVE InputInv'
  OBVIOUS
<1>1. IInv'
  <2>1. [Next]_vars
    BY InputStepIsKeyboardStep DEF inputVars
  <2>2. QED
    BY <2>1, NextKeepsIInv DEF InputInv
<1>2. ev \in Byte
  BY DEF InputInv, IInv, TypeOK
<1>3. InputTypeOK'
  <2>1. CASE UNCHANGED input
    BY <2>1 DEF InputInv, InputTypeOK, input
  <2>2. ASSUME NEW c \in Clients, Call(c) PROVE InputTypeOK'
    <3>1. line' = <<>> /\ batch' = <<>>
      BY <2>2 DEF Call
    <3>2. QED
      BY <3>1, LineAssumption DEF InputTypeOK
  <2>3. CASE TakeKey
    <3>1. CASE Edit /\ UNCHANGED batch
      BY <3>1, <1>2, EditKeeps DEF InputInv, InputTypeOK
    <3>2. CASE Collect /\ UNCHANGED line
      BY <3>2, <1>2, CollectKeeps DEF InputInv, InputTypeOK
    <3>3. QED
      BY <2>1, <2>3, <3>1, <3>2 DEF TakeKey
  <2>4. ASSUME NEW b \in Bytes, KeyTyped(b) PROVE UNCHANGED input
    BY <2>4 DEF KeyTyped
  <2>5. CASE Clear \/ OtherStep \/ Return \/ UNCHANGED inputVars
    BY <2>1, <2>5 DEF Clear, OtherStep, Return, inputVars, input
  <2>6. QED
    BY <2>1, <2>2, <2>3, <2>4, <2>5 DEF InputNext
<1>4. QED
  BY <1>1, <1>3 DEF InputInv

\* The line of syscall_read leaves room for its terminator and the batch of
\* syscall_getchar fits the caller's buffer, for buffers of any length.
THEOREM BuffersNeverOverflow == InputSpec => []InputTypeOK
<1>1. InputInv => InputTypeOK
  BY DEF InputInv
<1>2. QED
  BY <1>1, InitInputInv, InputNextKeeps, PTL DEF InputSpec

\* The reading calls use the keyboard ring only as module Keyboard allows, so
\* what is proved of the ring holds under them.
THEOREM InputUsesKeyboard == InputSpec => Spec
<1>1. InputInit => Init
  BY DEF InputInit
<1>2. [InputNext]_inputVars => [Next]_vars
  BY InputStepIsKeyboardStep DEF inputVars
<1>3. QED
  BY <1>1, <1>2, PTL DEF InputSpec, Spec

------------------------------------------------------------------------------
(* Sequences: the end q of a sequence t, and what comes before it.         *)

EndOf(q, t) ==
  Len(q) <= Len(t) /\ \A i \in 1 .. Len(q) : q[i] = t[Len(t) - Len(q) + i]

UpTo(t, n) == SubSeq(t, 1, n)

LEMMA UpToIs ==
  ASSUME NEW S, NEW t \in Seq(S), NEW n \in 0 .. Len(t)
  PROVE  /\ UpTo(t, n) \in Seq(S) /\ Len(UpTo(t, n)) = n
         /\ \A i \in 1 .. n : UpTo(t, n)[i] = t[i]
<1>1. n \in Nat /\ Len(t) \in Nat /\ n <= Len(t)
  OBVIOUS
<1>2. \A i \in 1 .. n : t[i] \in S
  BY <1>1
<1>3. UpTo(t, n) = [i \in 1 .. n |-> t[i]]
  BY <1>1 DEF UpTo
<1>4. QED
  BY <1>1, <1>2, <1>3

LEMMA AppendIs ==
  ASSUME NEW S, NEW t \in Seq(S), NEW k \in S
  PROVE  /\ Append(t, k) \in Seq(S) /\ Len(Append(t, k)) = Len(t) + 1
         /\ \A i \in 1 .. Len(t) : Append(t, k)[i] = t[i]
         /\ Append(t, k)[Len(t) + 1] = k
         /\ Append(t, k) # <<>> /\ Last(Append(t, k)) = k /\ Front(Append(t, k)) = t
<1>1. /\ Append(t, k) \in Seq(S) /\ Len(Append(t, k)) = Len(t) + 1 /\ Len(t) \in Nat
      /\ \A i \in 1 .. Len(t) : Append(t, k)[i] = t[i]
      /\ Append(t, k)[Len(t) + 1] = k
  BY AppendProperties
<1> DEFINE a == Append(t, k)
<1> HIDE DEF a
<1>2. /\ a \in Seq(S) /\ Len(a) = Len(t) + 1 /\ Len(t) \in Nat
      /\ \A i \in 1 .. Len(t) : a[i] = t[i]
      /\ a[Len(t) + 1] = k
  BY <1>1 DEF a
<1>3. a # <<>> /\ Last(a) = k
  BY <1>2 DEF Last
<1>4. Front(a) = t
  <2>1. Len(t) \in 0 .. Len(a) /\ Len(a) - 1 = Len(t)
    BY <1>2
  <2>2. Front(a) = UpTo(a, Len(t))
    BY <2>1 DEF Front, UpTo
  <2>3. /\ UpTo(a, Len(t)) \in Seq(S) /\ Len(UpTo(a, Len(t))) = Len(t)
        /\ \A i \in 1 .. Len(t) : UpTo(a, Len(t))[i] = a[i]
    BY <1>2, <2>1, UpToIs
  <2>4. UpTo(a, Len(t)) = t
    BY <1>2, <2>3, SeqEqual
  <2>5. QED
    BY <2>2, <2>4
<1>5. QED
  BY <1>1, <1>3, <1>4 DEF a

LEMMA EndPush ==
  ASSUME NEW S, NEW q \in Seq(S), NEW t \in Seq(S), NEW k \in S, EndOf(q, t)
  PROVE  /\ EndOf(Append(q, k), Append(t, k))
         /\ UpTo(Append(t, k), Len(Append(t, k)) - Len(Append(q, k))) = UpTo(t, Len(t) - Len(q))
<1> DEFINE a == Append(q, k)
           b == Append(t, k)
           n == Len(t) - Len(q)
<1>1. /\ a \in Seq(S) /\ Len(a) = Len(q) + 1 /\ a[Len(q) + 1] = k
      /\ \A i \in 1 .. Len(q) : a[i] = q[i]
      /\ b \in Seq(S) /\ Len(b) = Len(t) + 1 /\ b[Len(t) + 1] = k
      /\ \A i \in 1 .. Len(t) : b[i] = t[i]
  BY AppendIs
<1>2. Len(q) \in Nat /\ Len(t) \in Nat /\ Len(q) <= Len(t) /\ n \in Nat /\ n = Len(t) - Len(q)
  BY DEF EndOf
<1>3. \A i \in 1 .. Len(q) : n + i \in 1 .. Len(t) /\ q[i] = t[n + i]
  BY <1>2 DEF EndOf
<1> HIDE DEF a, b, n
<1>4. Len(b) - Len(a) = n /\ Len(a) <= Len(b)
  BY <1>1, <1>2
<1>5. \A i \in 1 .. Len(a) : a[i] = b[n + i]
  <2>1. SUFFICES ASSUME NEW i \in 1 .. Len(q) + 1 PROVE a[i] = b[n + i]
    BY <1>1
  <2>2. CASE i = Len(q) + 1
    <3>1. n + i = Len(t) + 1
      BY <1>2, <2>2
    <3>2. QED
      BY <1>1, <2>2, <3>1
  <2>3. CASE i # Len(q) + 1
    <3>1. i \in 1 .. Len(q)
      BY <1>2, <2>3
    <3>2. QED
      BY <1>1, <1>3, <3>1
  <2>4. QED
    BY <2>2, <2>3
<1>6. EndOf(a, b)
  BY <1>4, <1>5 DEF EndOf
<1>7. UpTo(b, n) = UpTo(t, n)
  <2>1. n \in 0 .. Len(t) /\ n \in 0 .. Len(b)
    BY <1>1, <1>2
  <2>2. /\ UpTo(t, n) \in Seq(S) /\ Len(UpTo(t, n)) = n /\ \A i \in 1 .. n : UpTo(t, n)[i] = t[i]
    BY <2>1, UpToIs
  <2>3. /\ UpTo(b, n) \in Seq(S) /\ Len(UpTo(b, n)) = n /\ \A i \in 1 .. n : UpTo(b, n)[i] = b[i]
    BY <1>1, <2>1, UpToIs
  <2> DEFINE u == UpTo(t, n)
             v == UpTo(b, n)
  <2> HIDE DEF u, v
  <2>4. ASSUME NEW i \in 1 .. n PROVE v[i] = u[i]
    <3>1. i \in 1 .. Len(t)
      BY <1>2
    <3>2. b[i] = t[i]
      BY <1>1, <3>1
    <3>3. v[i] = b[i]
      BY <2>3 DEF v
    <3>4. u[i] = t[i]
      BY <2>2 DEF u
    <3>5. QED
      BY <3>2, <3>3, <3>4
  <2>5. /\ u \in Seq(S) /\ Len(u) = n /\ v \in Seq(S) /\ Len(v) = n
    BY <2>2, <2>3 DEF u, v
  <2>6. u = v
    BY <2>4, <2>5, SeqEqual
  <2>7. QED
    BY <2>6 DEF u, v
<1>8. QED
  BY <1>4, <1>6, <1>7 DEF a, b, n

LEMMA EndTake ==
  ASSUME NEW S, NEW q \in Seq(S), q # <<>>, NEW t \in Seq(S), EndOf(q, t)
  PROVE  /\ EndOf(Tail(q), t)
         /\ UpTo(t, Len(t) - Len(Tail(q))) = Append(UpTo(t, Len(t) - Len(q)), Head(q))
         /\ Head(q) \in S
<1> DEFINE r == Tail(q)
           k == Head(q)
           n == Len(t) - Len(q)
<1>1. /\ r \in Seq(S) /\ Len(r) = Len(q) - 1 /\ k \in S /\ k = q[1]
      /\ \A i \in 1 .. Len(r) : r[i] = q[i + 1]
  BY HeadTailProperties
<1>2. /\ Len(q) \in Nat /\ Len(t) \in Nat /\ Len(q) <= Len(t) /\ n \in Nat
      /\ n = Len(t) - Len(q) /\ Len(q) > 0
  BY DEF EndOf
<1>3. \A i \in 1 .. Len(q) : q[i] = t[n + i]
  BY DEF EndOf
<1> HIDE DEF r, k, n
<1>4. Len(t) - Len(r) = n + 1 /\ Len(r) <= Len(t)
  BY <1>1, <1>2
<1>5. ASSUME NEW i \in 1 .. Len(r) PROVE r[i] = t[(n + 1) + i]
  <2>1. i + 1 \in 1 .. Len(q) /\ n + (i + 1) = (n + 1) + i
    BY <1>1, <1>2
  <2>2. QED
    BY <1>1, <1>3, <2>1
<1>6. EndOf(r, t)
  BY <1>4, <1>5 DEF EndOf
<1>7. UpTo(t, n + 1) = Append(UpTo(t, n), k)
  <2>1. n \in 0 .. Len(t) /\ n + 1 \in 0 .. Len(t)
    BY <1>2
  <2> DEFINE u == UpTo(t, n)
             v == UpTo(t, n + 1)
             w == Append(u, k)
  <2>2. u \in Seq(S) /\ Len(u) = n /\ \A i \in 1 .. n : u[i] = t[i]
    BY <2>1, UpToIs
  <2>3. v \in Seq(S) /\ Len(v) = n + 1 /\ \A i \in 1 .. n + 1 : v[i] = t[i]
    BY <2>1, UpToIs
  <2> HIDE DEF u, v
  <2>4. /\ w \in Seq(S) /\ Len(w) = n + 1 /\ w[n + 1] = k
        /\ \A i \in 1 .. n : w[i] = u[i]
    BY <1>1, <2>2, AppendIs
  <2> HIDE DEF w
  <2>5. k = t[n + 1]
    BY <1>1, <1>2, <1>3
  <2>6. ASSUME NEW i \in 1 .. n + 1 PROVE v[i] = w[i]
    <3>1. v[i] = t[i]
      BY <2>3
    <3>2. CASE i = n + 1
      BY <2>4, <2>5, <3>1, <3>2
    <3>3. CASE i # n + 1
      <4>1. i \in 1 .. n
        BY <1>2, <3>3
      <4>2. w[i] = u[i] /\ u[i] = t[i]
        BY <2>2, <2>4, <4>1
      <4>3. QED
        BY <3>1, <4>2
    <3>4. QED
      BY <3>2, <3>3
  <2>7. v = w
    BY <2>3, <2>4, <2>6, SeqEqual
  <2>8. QED
    BY <2>7 DEF u, v, w
<1>8. QED
  BY <1>1, <1>4, <1>6, <1>7 DEF r, k, n

------------------------------------------------------------------------------
(* The line that some keys make.                                           *)

\* Every set of numbers that is not empty has a least one.
LEMMA LeastNumber ==
  ASSUME NEW T \in SUBSET Nat, T # {}
  PROVE  \E m \in T : \A n \in T : m <= n
<1> DEFINE R == OpToRel(<, Nat)
<1>1. IsWellFoundedOn(R, Nat)
  BY NatLessThanWellFounded
<1> HIDE DEF R
<1>2. PICK m \in T : \A n \in T : <<n, m>> \notin R
  BY <1>1, WFMin
<1>3. \A n \in T : ~(n < m)
  BY <1>2 DEF R, OpToRel
<1>4. QED
  BY <1>3

\* The lines after each of the keys ks.
IsEditing(g, n, ks) ==
  g = [i \in 0 .. n |-> IF i = 0 THEN <<>> ELSE AfterKey(g[i - 1], ks[i])]

LEMMA EditingExists == ASSUME NEW ks, NEW n \in Nat PROVE \E g : IsEditing(g, n, ks)
<1> DEFINE T == {i \in Nat : ~\E g : IsEditing(g, i, ks)}
<1>1. SUFFICES ASSUME T # {} PROVE FALSE
  BY <1>1
<1>2. PICK m \in T : \A i \in T : m <= i
  BY <1>1, LeastNumber
<1>3. m # 0
  <2> DEFINE g == [i \in 0 .. 0 |-> <<>>]
  <2>1. g[0] = <<>>
    OBVIOUS
  <2>2. IsEditing(g, 0, ks)
    BY <2>1 DEF IsEditing
  <2>3. QED
    BY <2>2
<1>4. PICK g : IsEditing(g, m - 1, ks)
  BY <1>2, <1>3
<1>5. m \in Nat /\ m - 1 \in Nat /\ m > 0
  BY <1>3
<1> DEFINE h == [i \in 0 .. m |-> IF i = m THEN AfterKey(g[m - 1], ks[m]) ELSE g[i]]
<1>6. ASSUME NEW i \in 0 .. m
      PROVE  h[i] = IF i = 0 THEN <<>> ELSE AfterKey(h[i - 1], ks[i])
  <2>1. CASE i = m
    <3>1. h[m - 1] = g[m - 1]
      BY <1>5
    <3>2. QED
      BY <1>5, <2>1, <3>1
  <2>2. CASE i # m
    <3>1. i \in 0 .. m - 1 /\ h[i] = g[i] /\ (i # 0 => h[i - 1] = g[i - 1])
      BY <1>5, <2>2
    <3>2. QED
      BY <1>4, <3>1 DEF IsEditing
  <2>3. QED
    BY <2>1, <2>2
<1> HIDE DEF h
<1>7. h = [i \in 0 .. m |-> h[i]]
  BY DEF h
<1>8. IsEditing(h, m, ks)
  BY <1>6, <1>7 DEF IsEditing
<1>9. QED
  BY <1>2, <1>8

\* Two of them agree as far as their keys do.
LEMMA EditingUnique ==
  ASSUME NEW n \in Nat, NEW m \in Nat, n <= m, NEW ks, NEW ls,
         \A i \in 1 .. n : ks[i] = ls[i],
         NEW f, IsEditing(f, n, ks), NEW g, IsEditing(g, m, ls)
  PROVE  \A i \in 0 .. n : f[i] = g[i]
<1> DEFINE T == {i \in 0 .. n : f[i] # g[i]}
<1>1. SUFFICES ASSUME T # {} PROVE FALSE
  OBVIOUS
<1>2. PICK i \in T : \A j \in T : i <= j
  <2>1. T \in SUBSET Nat
    OBVIOUS
  <2>2. QED
    BY <1>1, <2>1, LeastNumber
<1>3. /\ \A j \in 0 .. n : f[j] = IF j = 0 THEN <<>> ELSE AfterKey(f[j - 1], ks[j])
      /\ \A j \in 0 .. m : g[j] = IF j = 0 THEN <<>> ELSE AfterKey(g[j - 1], ls[j])
  BY DEF IsEditing
<1>4. i \in 0 .. n /\ i \in 0 .. m /\ f[i] # g[i]
  BY <1>2
<1>5. i # 0
  BY <1>3, <1>4
<1>6. i - 1 \in 0 .. n /\ i \in 1 .. n /\ f[i - 1] = g[i - 1]
  BY <1>2, <1>4, <1>5
<1>7. QED
  BY <1>3, <1>4, <1>5, <1>6

LEMMA EditedIs ==
  ASSUME NEW S, NEW ks \in Seq(S)
  PROVE  \E g : IsEditing(g, Len(ks), ks) /\ Edited(ks) = g[Len(ks)]
<1> DEFINE g == CHOOSE h : IsEditing(h, Len(ks), ks)
<1>1. IsEditing(g, Len(ks), ks)
  <2>1. \E h : IsEditing(h, Len(ks), ks)
    BY EditingExists
  <2>2. QED
    BY <2>1
<1>2. Edited(ks) = g[Len(ks)]
  BY DEF Edited, IsEditing
<1>3. QED
  BY <1>1, <1>2

\* One more key edits the line that was there before it.
LEMMA EditedStep ==
  ASSUME NEW S, NEW ks \in Seq(S), NEW k \in S
  PROVE  Edited(Append(ks, k)) = AfterKey(Edited(ks), k)
<1> DEFINE n == Len(ks)
           ls == Append(ks, k)
<1>1. /\ ls \in Seq(S) /\ Len(ls) = n + 1 /\ n \in Nat /\ n + 1 \in Nat
      /\ \A i \in 1 .. n : ks[i] = ls[i]
      /\ ls[n + 1] = k
  BY AppendIs
<1>2. PICK f : IsEditing(f, n, ks) /\ Edited(ks) = f[n]
  BY EditedIs
<1> HIDE DEF n, ls
<1>3. PICK g : IsEditing(g, n + 1, ls) /\ Edited(ls) = g[n + 1]
  BY <1>1, EditedIs
<1>4. f[n] = g[n]
  <2>1. \A i \in 0 .. n : f[i] = g[i]
    BY <1>1, <1>2, <1>3, EditingUnique
  <2>2. QED
    BY <1>1, <2>1
<1>5. g[n + 1] = AfterKey(g[n], ls[n + 1])
  BY <1>1, <1>3 DEF IsEditing
<1>6. QED
  BY <1>1, <1>2, <1>3, <1>4, <1>5 DEF ls

LEMMA EditedNothing == Edited(<<>>) = <<>>
<1>1. PICK g : IsEditing(g, Len(<<>>), <<>>) /\ Edited(<<>>) = g[Len(<<>>)]
  BY EditedIs, EmptySeq
<1>2. Len(<<>>) = 0 /\ 0 \in 0 .. 0
  OBVIOUS
<1>3. QED
  BY <1>1, <1>2 DEF IsEditing

LEMMA FrontAndLast ==
  ASSUME NEW S, NEW c \in Seq(S), c # <<>>
  PROVE  /\ Front(c) \in Seq(S) /\ Len(Front(c)) = Len(c) - 1 /\ Last(c) \in S
         /\ Last(c) = c[Len(c)] /\ Len(c) \in Nat \ {0}
         /\ \A i \in 1 .. Len(c) - 1 : Front(c)[i] = c[i]
         /\ c = Append(Front(c), Last(c))
<1>1. Len(c) \in Nat \ {0} /\ Last(c) = c[Len(c)] /\ Last(c) \in S
  BY DEF Last
<1> DEFINE n == Len(c) - 1
           f == Front(c)
<1>2. n \in 0 .. Len(c) /\ n \in Nat /\ n + 1 = Len(c)
  BY <1>1
<1>3. f = UpTo(c, n)
  BY DEF Front, UpTo
<1>4. f \in Seq(S) /\ Len(f) = n /\ \A i \in 1 .. n : f[i] = c[i]
  BY <1>2, <1>3, UpToIs
<1> DEFINE a == Append(f, Last(c))
<1> HIDE DEF n, f
<1>5. /\ a \in Seq(S) /\ Len(a) = n + 1 /\ a[n + 1] = Last(c)
      /\ \A i \in 1 .. n : a[i] = f[i]
  BY <1>1, <1>4, AppendIs
<1> HIDE DEF a
<1>6. ASSUME NEW i \in 1 .. n + 1 PROVE c[i] = a[i]
  <2>1. CASE i = n + 1
    BY <1>1, <1>2, <1>5, <2>1
  <2>2. CASE i # n + 1
    <3>1. i \in 1 .. n
      BY <1>2, <2>2
    <3>2. QED
      BY <1>4, <1>5, <3>1
  <2>3. QED
    BY <2>1, <2>2
<1>7. c = a
  BY <1>2, <1>5, <1>6, SeqEqual
<1>8. QED
  BY <1>1, <1>2, <1>4, <1>7 DEF n, f, a

\* The keys of c after the first n, in lower case.
IsRest(b, c, n) ==
  n \in 0 .. Len(c) /\ b = [i \in 1 .. Len(c) - n |-> Lower(c[n + i])]

LEMMA NothingIsLeft == ASSUME NEW S, NEW c \in Seq(S) PROVE IsRest(<<>>, c, Len(c))
<1>1. Len(c) \in 0 .. Len(c) /\ Len(c) - Len(c) = 0
  OBVIOUS
<1>2. <<>> = [i \in 1 .. 0 |-> Lower(c[Len(c) + i])]
  OBVIOUS
<1>3. QED
  BY <1>1, <1>2 DEF IsRest

LEMMA OneMoreIsLeft ==
  ASSUME NEW S, NEW c \in Seq(S), c # <<>>, NEW b, NEW n, IsRest(b, Front(c), n)
  PROVE  IsRest(Append(b, Lower(Last(c))), c, n)
<1> DEFINE m == Len(c) - 1
           T == {Lower(x) : x \in S}
<1>1. /\ Len(Front(c)) = m /\ Last(c) = c[m + 1] /\ m \in Nat /\ Len(c) = m + 1
      /\ \A i \in 1 .. m : Front(c)[i] = c[i]
      /\ \A i \in 1 .. m + 1 : Lower(c[i]) \in T
  <2>1. /\ Len(Front(c)) = Len(c) - 1 /\ Last(c) = c[Len(c)] /\ Len(c) \in Nat \ {0}
        /\ \A i \in 1 .. Len(c) - 1 : Front(c)[i] = c[i]
    BY FrontAndLast
  <2>2. \A i \in 1 .. Len(c) : c[i] \in S
    OBVIOUS
  <2>3. QED
    BY <2>1, <2>2
<1> HIDE DEF m, T
<1>2. n \in 0 .. m /\ b = [i \in 1 .. m - n |-> Lower(Front(c)[n + i])]
  BY <1>1 DEF IsRest
<1> DEFINE k == m - n
           d == [i \in 1 .. k + 1 |-> Lower(c[n + i])]
<1>3. k \in Nat /\ n \in Nat /\ n + (k + 1) = m + 1 /\ m = n + k
  BY <1>1, <1>2
<1>4. \A i \in 1 .. k + 1 : n + i \in 1 .. m + 1
  BY <1>1, <1>3
<1>5. \A i \in 1 .. k : n + i \in 1 .. m
  BY <1>1, <1>3
<1> HIDE DEF k
<1>6. d \in [1 .. k + 1 -> T]
  BY <1>1, <1>4
<1>7. b = [i \in 1 .. k |-> Lower(c[n + i])]
  BY <1>1, <1>2, <1>5 DEF k
<1>8. b \in [1 .. k -> T] /\ \A i \in 1 .. k : d[i] = b[i]
  <2>1. \A i \in 1 .. k : i \in 1 .. k + 1
    BY <1>3
  <2>2. QED
    BY <1>6, <1>7, <2>1
<1>9. d[k + 1] = Lower(Last(c))
  <2>1. k + 1 \in 1 .. k + 1
    BY <1>3
  <2>2. QED
    BY <1>1, <1>3, <2>1
<1> HIDE DEF d
<1>10. d = Append(b, Lower(Last(c)))
  BY <1>3, <1>6, <1>8, <1>9, IsAppend
<1>11. n \in 0 .. Len(c) /\ Len(c) - n = k + 1
  BY <1>1, <1>3
<1>12. QED
  BY <1>10, <1>11 DEF IsRest, d

------------------------------------------------------------------------------
(* The keys that were read.  As long as nothing is lost, the ring holds    *)
(* the end of what was typed, and what comes before it was read.           *)

KeysInv == /\ QueueInv
           /\ typed \in Seq(Typed) /\ dropped \in BOOLEAN
           /\ Faithful => EndOf(Pending, typed)

\* Consumed in the terms of the lemmas above, here and one step later.
LEMMA ConsumedIs ==
  /\ Consumed = UpTo(typed, Len(typed) - Len(Pending))
  /\ Consumed' = UpTo(typed', Len(typed') - Len(Pending'))
BY DEF Consumed, UpTo

LEMMA PendingIsSeq ==
  ASSUME KeysInv
  PROVE  Pending \in Seq(Typed) /\ Len(Pending) = Size /\ Size \in 0 .. N
BY HasShape DEF KeysInv, QueueInv, Shape

\* A key that the ring has room for goes to its end.
LEMMA TypedStep ==
  ASSUME KeysInv, NEW b \in Bytes, KeyTyped(b), IInv', TypedInv', Faithful'
  PROVE  /\ Faithful /\ EndOf(Pending', typed')
         /\ Consumed' = Consumed /\ ev' = ev /\ pc' = pc /\ client' = client
<1> DEFINE k == KeyOf(b, e0_prefix, shiftPressed, capsLock)
<1>1. b \in Byte /\ IRQ1(b)
  BY BytesAssumption DEF KeyTyped
<1>2. ev' = ev /\ pc' = pc /\ client' = client
  BY <1>1 DEF IRQ1, cpu
<1>3. /\ k = NUL => UNCHANGED KQ!vars /\ UNCHANGED <<typed, dropped>>
      /\ k # NUL => /\ k \in Typed /\ KQ!Push(k) /\ ~bufferFull
                    /\ typed' = Append(typed, k) /\ dropped' = dropped
  <2>1. ~disturbed' /\ ~dropped'
    BY DEF Faithful
  <2>2. (k = NUL => UNCHANGED KQ!vars) /\ (k # NUL => k \in Typed /\ KQ!Push(k))
    BY <1>1, <2>1, Push DEF KeysInv
  <2>3. IF k = NUL THEN UNCHANGED <<typed, dropped>>
        ELSE typed' = Append(typed, k) /\ dropped' = (dropped \/ bufferFull)
    BY DEF KeyTyped
  <2>4. dropped \in BOOLEAN
    BY DEF KeysInv
  <2>5. QED
    BY <2>1, <2>2, <2>3, <2>4
<1> HIDE DEF k
<1>4. CASE k = NUL
  <2>1. Pending' = Pending /\ typed' = typed /\ disturbed' = disturbed /\ dropped' = dropped
    BY <1>3, <1>4 DEF KQ!vars
  <2>2. Faithful /\ EndOf(Pending', typed')
    BY <2>1 DEF Faithful, KeysInv, EndOf
  <2>3. QED
    BY <1>2, <2>1, <2>2, ConsumedIs
<1>5. CASE k # NUL
  <2>1. KQ!Push(k) /\ typed' = Append(typed, k) /\ dropped' = dropped /\ k \in Typed
    BY <1>3, <1>5
  <2>2. Len(Pending) # BUFFER_MAXLENGTH
    <3>1. count \in 0 .. BUFFER_MAXLENGTH /\ count # BUFFER_MAXLENGTH
      BY <1>3, <1>5 DEF KeysInv, QueueInv, IInv, TypeOK, bufferFull
    <3>2. BUFFER_MAXLENGTH \in Nat /\ BUFFER_MAXLENGTH > 0
      BY RingAssumption
    <3>3. Size < BUFFER_MAXLENGTH
      BY <3>1, <3>2 DEF Size
    <3>4. QED
      BY <3>2, <3>3, PendingIsSeq
  <2>3. Pending' = Append(Pending, k) /\ disturbed' = disturbed
    BY <2>1, <2>2 DEF KQ!Push
  <2>4. Faithful /\ EndOf(Pending, typed)
    BY <2>1, <2>3 DEF Faithful, KeysInv
  <2>5. Pending \in Seq(Typed) /\ typed \in Seq(Typed)
    BY PendingIsSeq DEF KeysInv
  <2>6. /\ EndOf(Append(Pending, k), Append(typed, k))
        /\ UpTo(Append(typed, k), Len(Append(typed, k)) - Len(Append(Pending, k)))
             = UpTo(typed, Len(typed) - Len(Pending))
    BY <2>1, <2>4, <2>5, EndPush
  <2>7. QED
    BY <1>2, <2>1, <2>3, <2>4, <2>6, ConsumedIs
<1>6. QED
  BY <1>4, <1>5

\* getNextKey takes the oldest key of the ring when it copies it.
LEMMA CopyStep ==
  ASSUME KeysInv, CopyEvent, UNCHANGED <<typed, dropped>>, IInv', TypedInv', Faithful'
  PROVE  /\ Faithful /\ EndOf(Pending', typed')
         /\ Consumed \in Seq(Typed) /\ ev' \in Typed
         /\ Consumed' = Append(Consumed, ev')
<1>1. KQ!Take
  BY Copies DEF KeysInv, Faithful
<1>2. Pending # <<>> /\ ev' = Head(Pending) /\ Pending' = Tail(Pending) /\ disturbed' = disturbed
  BY <1>1 DEF KQ!Take
<1>3. Faithful /\ EndOf(Pending, typed)
  BY <1>2 DEF Faithful, KeysInv
<1>4. Pending \in Seq(Typed) /\ typed \in Seq(Typed)
  BY PendingIsSeq DEF KeysInv
<1>5. /\ EndOf(Tail(Pending), typed) /\ Head(Pending) \in Typed
      /\ UpTo(typed, Len(typed) - Len(Tail(Pending)))
           = Append(UpTo(typed, Len(typed) - Len(Pending)), Head(Pending))
  BY <1>2, <1>3, <1>4, EndTake
<1>6. UpTo(typed, Len(typed) - Len(Pending)) \in Seq(Typed)
  <2>1. Len(typed) - Len(Pending) \in 0 .. Len(typed)
    <3>1. Len(typed) \in Nat /\ Len(Pending) \in Nat
      BY <1>4
    <3>2. QED
      BY <1>3, <3>1 DEF EndOf
  <2>2. QED
    BY <1>4, <2>1, UpToIs
<1>7. QED
  BY <1>2, <1>3, <1>5, <1>6, ConsumedIs

\* The other steps of the reader neither type nor read a key.
LEMMA StillStep ==
  ASSUME KeysInv, UNCHANGED <<typed, dropped>>, IInv', TypedInv', Faithful',
         \/ \E c \in Clients : EnterKernel(c)
         \/ GetNextKey /\ ~CopyEvent
         \/ HasNextKey \/ EnableInterrupts \/ HandleKey
         \/ LoopOrTimeOut \/ DisableInterrupts \/ ReturnToUser
         \/ ClearNext \/ ClearCount \/ UNCHANGED vars
  PROVE  /\ Faithful /\ EndOf(Pending', typed')
         /\ Consumed' = Consumed /\ ev' = ev
<1>1. Pending' = Pending /\ ev' = ev /\ disturbed' = disturbed
  <2>1. QueueInv /\ ~disturbed' /\ (IInv /\ TypedInv)'
    BY DEF KeysInv, Faithful
  <2>2. CASE ClearNext \/ ClearCount
    <3>1. pc # "clear_last" /\ ClearKeyboardBuffer
      BY <2>2 DEF ClearNext, ClearCount, Goto, ClearKeyboardBuffer
    <3>2. QED
      BY <2>1, <3>1, Clears DEF KQ!vars
  <2>3. CASE GetNextKey /\ ~CopyEvent
    BY <2>1, <2>3, Callers, Takes DEF GetNextKey, KQ!vars
  <2>4. CASE \/ \E c \in Clients : EnterKernel(c)
             \/ HasNextKey \/ EnableInterrupts \/ HandleKey
             \/ LoopOrTimeOut \/ DisableInterrupts \/ ReturnToUser
    BY <2>1, <2>4, Callers DEF KQ!vars
  <2>5. CASE UNCHANGED vars
    <3>1. UNCHANGED <<First, Size, buf, ev, disturbed>>
      BY <2>5 DEF vars, ring, cpu, history, First, Size, Taking
    <3>2. Pending' = Pending
      BY <2>1, <3>1, HasShape, HasShapeNext, PendingStays DEF QueueInv
    <3>3. QED
      BY <3>1, <3>2
  <2>6. QED
    BY <2>2, <2>3, <2>4, <2>5
<1>2. Faithful /\ EndOf(Pending', typed')
  BY <1>1 DEF Faithful, KeysInv
<1>3. QED
  BY <1>1, <1>2, ConsumedIs

\* The clear forgets every key.
LEMMA ClearStep ==
  ASSUME KeysInv, Clear, IInv', TypedInv', Faithful'
  PROVE  typed' = <<>> /\ EndOf(Pending', typed') /\ Consumed' = <<>>
<1>1. KQ!Clear
  <2>1. QueueInv /\ ~disturbed' /\ (IInv /\ TypedInv)'
    BY DEF KeysInv, Faithful
  <2>2. pc = "clear_last" /\ ClearKeyboardBuffer
    BY DEF Clear, ClearLast, Goto, ClearKeyboardBuffer
  <2>3. QED
    BY <2>1, <2>2, Clears
<1>2. Pending' = <<>> /\ typed' = <<>>
  BY <1>1 DEF KQ!Clear, Clear
<1>3. Len(<<>>) = 0
  OBVIOUS
<1>4. EndOf(<<>>, <<>>) /\ UpTo(<<>>, 0) = <<>>
  BY <1>3 DEF EndOf, UpTo
<1>5. QED
  BY <1>2, <1>3, <1>4, ConsumedIs

\* What was read are typed keys.
LEMMA ConsumedType ==
  ASSUME typed \in Seq(Typed), Pending \in Seq(Typed), EndOf(Pending, typed)
  PROVE  Consumed \in Seq(Typed)
<1>1. Len(typed) \in Nat /\ Len(Pending) \in Nat
  OBVIOUS
<1>2. Len(typed) - Len(Pending) \in 0 .. Len(typed)
  BY <1>1 DEF EndOf
<1>3. QED
  BY <1>2, UpToIs, ConsumedIs

\* The steps of the composition, sorted by what they do to the keys.
LEMMA InputStepsAre ==
  ASSUME [InputNext]_inputVars
  PROVE  \/ \E b \in Bytes : KeyTyped(b)
         \/ Clear
         \/ CopyEvent /\ UNCHANGED <<input, typed, dropped>>
         \/ \E c \in Clients : Call(c)
         \/ TakeKey
         \/ /\ (GetNextKey /\ ~CopyEvent) \/ ClearNext \/ ClearCount \/ HasNextKey
               \/ EnableInterrupts \/ LoopOrTimeOut \/ DisableInterrupts \/ ReturnToUser
            /\ UNCHANGED <<input, typed, dropped>>
         \/ UNCHANGED inputVars
<1>1. CASE OtherStep
  BY <1>1 DEF OtherStep, GetNextKey
<1>2. QED
  BY <1>1 DEF InputNext, Return

\* What the calls before this one have read is fixed until it returns.
LEMMA EarlierIs ==
  ASSUME [InputNext]_inputVars
  PROVE  \/ pc' # "user" /\ earlier' = earlier
         \/ pc' = "user" /\ pc = "user" /\ earlier' = earlier
         \/ ReturnToUser /\ pc' = "user" /\ earlier' = Len(Consumed)
             /\ UNCHANGED <<input, typed, dropped>>
         \/ Clear
<1>1. ASSUME NEW b \in Bytes, KeyTyped(b) PROVE pc' = pc /\ earlier' = earlier
  BY <1>1 DEF KeyTyped, IRQ1, cpu
<1>2. ASSUME NEW c \in Clients, Call(c) PROVE pc' # "user" /\ earlier' = earlier
  BY <1>2 DEF Call, EnterKernel
<1>3. CASE TakeKey
  BY <1>3 DEF TakeKey, HandleKey, Edit, Collect
<1>4. CASE OtherStep
  BY <1>4 DEF OtherStep, GetNextKey, CheckEmpty, CopyEvent, LoadIndex, LoadNext,
     StoreNext, LoadCount, StoreCount, ClearNext, ClearCount, HasNextKey,
     EnableInterrupts, LoopOrTimeOut, DisableInterrupts, Goto
<1>5. CASE Return
  BY <1>5 DEF Return, ReturnToUser, Goto
<1>6. CASE UNCHANGED inputVars
  BY <1>6 DEF inputVars, vars, cpu
<1>7. QED
  BY <1>1, <1>2, <1>3, <1>4, <1>5, <1>6 DEF InputNext

LEMMA KeysStep == ASSUME KeysInv, [InputNext]_inputVars PROVE KeysInv'
<1>1. [Next]_vars
  BY InputStepIsKeyboardStep DEF inputVars
<1>2. QueueInv'
  BY <1>1, QueueStep DEF KeysInv
<1>3. IInv' /\ TypedInv'
  BY <1>2 DEF QueueInv
<1>4. typed' \in Seq(Typed) /\ dropped' \in BOOLEAN
  <2>1. typed \in Seq(Typed) /\ dropped \in BOOLEAN
    BY DEF KeysInv
  <2>2. ASSUME NEW b \in Bytes, KeyTyped(b) PROVE typed' \in Seq(Typed) /\ dropped' \in BOOLEAN
    <3> DEFINE k == KeyOf(b, e0_prefix, shiftPressed, capsLock)
    <3>1. k \in Byte
      BY KeyOfType DEF KeysInv, QueueInv, IInv, TypeOK
    <3>2. IF k = NUL THEN UNCHANGED <<typed, dropped>>
          ELSE typed' = Append(typed, k) /\ dropped' = (dropped \/ bufferFull)
      BY <2>2 DEF KeyTyped
    <3> HIDE DEF k
    <3>3. CASE k = NUL
      BY <2>1, <3>2, <3>3
    <3>4. CASE k # NUL
      <4>1. k \in Typed
        BY <3>1, <3>4 DEF Typed
      <4>2. Append(typed, k) \in Seq(Typed)
        BY <2>1, <4>1
      <4>3. (dropped \/ bufferFull) \in BOOLEAN
        OBVIOUS
      <4>4. QED
        BY <3>2, <3>4, <4>2, <4>3
    <3>5. QED
      BY <3>3, <3>4
  <2>3. CASE Clear
    <3>1. typed' = <<>> /\ dropped' = FALSE /\ <<>> \in Seq(Typed)
      BY <2>3 DEF Clear
    <3>2. QED
      BY <3>1
  <2>4. CASE UNCHANGED <<typed, dropped>>
    BY <2>1, <2>4
  <2>5. CASE (\E c \in Clients : Call(c)) \/ TakeKey \/ UNCHANGED inputVars
    <3>1. UNCHANGED <<typed, dropped>>
      BY <2>5 DEF Call, TakeKey, inputVars
    <3>2. QED
      BY <2>4, <3>1
  <2>6. QED
    BY <2>2, <2>3, <2>4, <2>5, InputStepsAre
<1>5. ASSUME Faithful' PROVE EndOf(Pending', typed')
  <2>1. ASSUME NEW b \in Bytes, KeyTyped(b) PROVE EndOf(Pending', typed')
    BY <1>3, <1>5, <2>1, TypedStep
  <2>2. CASE Clear
    BY <1>3, <1>5, <2>2, ClearStep
  <2>3. CASE CopyEvent /\ UNCHANGED <<input, typed, dropped>>
    BY <1>3, <1>5, <2>3, CopyStep
  <2>4. CASE \E c \in Clients : Call(c)
    <3>1. (\E c \in Clients : EnterKernel(c)) /\ UNCHANGED <<typed, dropped>>
      BY <2>4 DEF Call
    <3>2. QED
      BY <1>3, <1>5, <3>1, StillStep
  <2>5. CASE TakeKey
    <3>1. HandleKey /\ UNCHANGED <<typed, dropped>>
      BY <2>5 DEF TakeKey
    <3>2. QED
      BY <1>3, <1>5, <3>1, StillStep
  <2>6. CASE UNCHANGED inputVars
    BY <1>3, <1>5, <2>6, StillStep DEF inputVars
  <2>7. QED
    BY <1>3, <1>5, <2>1, <2>2, <2>3, <2>4, <2>5, <2>6, InputStepsAre, StillStep
<1>6. QED
  BY <1>2, <1>4, <1>5 DEF KeysInv

------------------------------------------------------------------------------
(* What the two calls have made of the keys that were read.                *)

\* No key has left the ring without having been handled by the caller.
Whole == pc \notin {"load_next", "store_next", "load_count", "store_count", "got"}

Handled == IF Whole THEN Consumed ELSE Front(Consumed)

GotInv == Faithful /\ ~Whole => Consumed # <<>> /\ Last(Consumed) = ev

\* The steps of a call between its entry and its exit.
Loop == {"clear_next", "clear_count", "sti", "poll", "check", "load_index", "copy",
         "load_next", "store_next", "load_count", "store_count", "got", "again"}

LineInv ==
  client = "syscall_read" =>
    /\ pc # "cli"
    /\ pc = "clear_last" => line = <<>>
    /\ Faithful /\ pc \in Loop => line = Edited(Handled)
    /\ Faithful /\ pc = "iretq" =>
         /\ Consumed # <<>> /\ line = Edited(Front(Consumed))
         /\ Last(Consumed) = ENTER \/ Len(line) = LineLength - 1

BatchInv ==
  client = "syscall_getchar" /\ MaxLen > 0 =>
    /\ pc \notin {"clear_last", "clear_next", "clear_count"}
    /\ pc \in Loop => Len(batch) < MaxLen
    /\ Faithful /\ pc \in Loop \cup {"cli", "iretq"} => IsRest(batch, Handled, earlier)

(* Between two calls nothing is read.                                      *)
UserInv == Faithful /\ pc = "user" => earlier = Len(Consumed)

PathInv == InputTypeOK /\ KeysInv /\ GotInv /\ LineInv /\ BatchInv /\ UserInv

LEMMA InitPathInv == InputInit => PathInv
<1> SUFFICES ASSUME InputInit PROVE PathInv
  OBVIOUS
<1>1. InputTypeOK
  BY InitInputInv DEF InputInv
<1>2. QueueInv /\ Pending = <<>> /\ typed = <<>> /\ dropped = FALSE
  BY InitQueue DEF InputInit, KQ!Init
<1>3. KeysInv
  <2>1. Len(<<>>) = 0 /\ <<>> \in Seq(Typed)
    OBVIOUS
  <2>2. EndOf(<<>>, <<>>)
    BY <2>1 DEF EndOf
  <2>3. QED
    BY <1>2, <2>1, <2>2 DEF KeysInv
<1>4. pc = "user" /\ client = "waitForEnter" /\ earlier = 0
  BY DEF InputInit, Init
<1>5. Consumed = <<>> /\ Len(<<>>) = 0
  BY <1>2 DEF Consumed
<1>6. QED
  BY <1>1, <1>3, <1>4, <1>5 DEF PathInv, GotInv, LineInv, BatchInv, UserInv, Whole

\* A line that is edited by the key read last.
LEMMA EditedByLast ==
  ASSUME NEW S, NEW c \in Seq(S), c # <<>>
  PROVE  Edited(c) = AfterKey(Edited(Front(c)), Last(c))
<1>1. Front(c) \in Seq(S) /\ Last(c) \in S /\ c = Append(Front(c), Last(c))
  BY FrontAndLast
<1>2. QED
  BY <1>1, EditedStep

\* When the next state has the same keys, the same call at a step of the same
\* sort and the same buffers, nothing more is to be shown.
LEMMA SameHandled ==
  ASSUME Consumed' = Consumed, Whole' = Whole
  PROVE  Handled' = Handled
BY DEF Handled

LEMMA GotStep == ASSUME PathInv, [InputNext]_inputVars, KeysInv' PROVE GotInv'
<1> SUFFICES ASSUME Faithful', ~Whole' PROVE Consumed' # <<>> /\ Last(Consumed') = ev'
  BY DEF GotInv
<1>1. KeysInv /\ IInv' /\ TypedInv'
  BY DEF PathInv, KeysInv, QueueInv
<1>2. CASE Faithful /\ ~Whole /\ Consumed' = Consumed /\ ev' = ev
  BY <1>2 DEF PathInv, GotInv
<1>3. ASSUME NEW b \in Bytes, KeyTyped(b) PROVE Consumed' # <<>> /\ Last(Consumed') = ev'
  <2>1. Faithful /\ Consumed' = Consumed /\ ev' = ev /\ pc' = pc
    BY <1>1, <1>3, TypedStep
  <2>2. QED
    BY <1>2, <2>1 DEF Whole
<1>4. CASE CopyEvent /\ UNCHANGED <<input, typed, dropped>>
  <2>1. Consumed \in Seq(Typed) /\ ev' \in Typed /\ Consumed' = Append(Consumed, ev')
    BY <1>1, <1>4, CopyStep
  <2>2. QED
    BY <2>1, AppendIs
<1>5. CASE Clear \/ (\E c \in Clients : Call(c)) \/ TakeKey
  BY <1>5 DEF Clear, ClearLast, Goto, Call, EnterKernel, TakeKey, HandleKey, Whole
<1>6. CASE /\ (GetNextKey /\ ~CopyEvent) \/ ClearNext \/ ClearCount \/ HasNextKey
               \/ EnableInterrupts \/ LoopOrTimeOut \/ DisableInterrupts \/ ReturnToUser
           /\ UNCHANGED <<input, typed, dropped>>
  <2>1. Faithful /\ Consumed' = Consumed /\ ev' = ev
    BY <1>1, <1>6, StillStep
  <2>2. ~bufferEmpty \/ pc # "check"
    BY <1>1 DEF KeysInv, QueueInv, bufferEmpty
  <2>3. ~Whole
    BY <1>6, <2>2 DEF Whole, GetNextKey, CheckEmpty, CopyEvent, LoadIndex, LoadNext,
       StoreNext, LoadCount, StoreCount, ClearNext, ClearCount, HasNextKey,
       EnableInterrupts, LoopOrTimeOut, DisableInterrupts, ReturnToUser, Goto
  <2>4. QED
    BY <1>2, <2>1, <2>3
<1>7. CASE UNCHANGED inputVars
  <2>1. Faithful /\ Consumed' = Consumed /\ ev' = ev
    BY <1>1, <1>7, StillStep DEF inputVars
  <2>2. pc' = pc
    BY <1>7 DEF inputVars, vars, cpu
  <2>3. QED
    BY <1>2, <2>1, <2>2 DEF Whole
<1>8. QED
  BY <1>3, <1>4, <1>5, <1>6, <1>7, InputStepsAre

\* The steps of getNextKey and of the loops around it, for both calls.
LEMMA QuietStep ==
  ASSUME PathInv, KeysInv', client = "syscall_read" \/ client = "syscall_getchar",
         (GetNextKey /\ ~CopyEvent) \/ ClearNext \/ ClearCount \/ HasNextKey
            \/ EnableInterrupts \/ LoopOrTimeOut \/ DisableInterrupts \/ ReturnToUser,
         UNCHANGED <<input, typed, dropped>>
  PROVE  /\ Faithful' => Faithful /\ Consumed' = Consumed /\ Handled' = Handled
         /\ client' = client /\ line' = line /\ batch' = batch /\ pc' # "clear_last"
         /\ pc' \in Loop => pc \in Loop
         /\ pc' = "cli" => pc = "again" /\ client = "syscall_getchar"
         /\ pc' = "iretq" => pc = "cli"
         /\ pc' \in {"clear_next", "clear_count"} => pc = "clear_next"
<1>1. ~bufferEmpty \/ pc # "check"
  BY DEF PathInv, KeysInv, QueueInv, bufferEmpty
<1>2. /\ Whole' = Whole
      /\ client' = client /\ pc' # "clear_last"
      /\ pc' \in Loop => pc \in Loop
      /\ pc' = "cli" => pc = "again" /\ client = "syscall_getchar"
      /\ pc' = "iretq" => pc = "cli"
      /\ pc' \in {"clear_next", "clear_count"} => pc = "clear_next"
  BY <1>1 DEF Whole, Loop, GetNextKey, CheckEmpty, CopyEvent, LoadIndex, LoadNext,
     StoreNext, LoadCount, StoreCount, ClearNext, ClearCount, HasNextKey,
     EnableInterrupts, LoopOrTimeOut, DisableInterrupts, ReturnToUser, Goto
<1>3. Faithful' => Faithful /\ Consumed' = Consumed
  BY StillStep DEF PathInv, KeysInv, QueueInv
<1>4. QED
  BY <1>2, <1>3, SameHandled DEF input

\* Between getNextKey's copy and the caller nothing of the line changes.
LEMMA CopyHandles ==
  ASSUME PathInv, KeysInv', CopyEvent, UNCHANGED <<input, typed, dropped>>, Faithful'
  PROVE  Faithful /\ Handled' = Handled
<1>1. /\ Faithful /\ Consumed \in Seq(Typed) /\ ev' \in Typed
      /\ Consumed' = Append(Consumed, ev')
  BY CopyStep DEF PathInv, KeysInv, QueueInv
<1>2. Front(Consumed') = Consumed
  BY <1>1, AppendIs
<1>3. Whole /\ ~Whole'
  BY DEF CopyEvent, Goto, Whole
<1>4. QED
  BY <1>1, <1>2, <1>3 DEF Handled

\* The key that the caller finds is the last one read.
LEMMA TakeHandles ==
  ASSUME PathInv, KeysInv', TakeKey, Faithful'
  PROVE  /\ Faithful /\ Consumed' = Consumed /\ Handled = Front(Consumed)
         /\ Consumed \in Seq(Typed) /\ Consumed # <<>> /\ Last(Consumed) = ev
<1>1. HandleKey /\ UNCHANGED <<typed, dropped>>
  BY DEF TakeKey
<1>2. Faithful /\ Consumed' = Consumed
  BY <1>1, StillStep DEF PathInv, KeysInv, QueueInv
<1>3. ~Whole
  BY <1>1 DEF HandleKey, Whole
<1>4. Consumed # <<>> /\ Last(Consumed) = ev
  BY <1>2, <1>3 DEF PathInv, GotInv
<1>5. Consumed \in Seq(Typed)
  BY <1>2, ConsumedType, PendingIsSeq DEF PathInv, KeysInv
<1>6. QED
  BY <1>2, <1>3, <1>4, <1>5 DEF Handled

LEMMA LineStep == ASSUME PathInv, [InputNext]_inputVars, KeysInv' PROVE LineInv'
<1> SUFFICES ASSUME client' = "syscall_read"
             PROVE  LineInv'
  BY DEF LineInv
<1>1. KeysInv /\ IInv' /\ TypedInv' /\ InputTypeOK /\ LineInv /\ client \in Clients
  BY DEF PathInv, KeysInv, QueueInv, IInv, TypeOK
<1>2. CASE /\ client = "syscall_read" /\ line' = line /\ pc' = pc
           /\ Faithful' => Faithful /\ Consumed' = Consumed
  <2>1. Handled' = Handled \/ ~Faithful'
    BY <1>2, SameHandled DEF Whole
  <2>2. QED
    BY <1>1, <1>2, <2>1 DEF LineInv
<1>3. ASSUME NEW b \in Bytes, KeyTyped(b) PROVE LineInv'
  <2>1. UNCHANGED <<pc, client, line>>
    BY <1>3 DEF KeyTyped, IRQ1, cpu, input
  <2>2. Faithful' => Faithful /\ Consumed' = Consumed
    BY <1>1, <1>3, TypedStep
  <2>3. QED
    BY <1>2, <2>1, <2>2
<1>4. CASE Clear
  <2>1. pc = "clear_last" /\ pc' = "clear_next" /\ client = "syscall_read" /\ line' = line
    BY <1>4 DEF Clear, ClearLast, Goto, input
  <2>2. line' = <<>>
    BY <1>1, <2>1 DEF LineInv
  <2>3. Faithful' => Handled' = <<>>
    BY <1>1, <1>4, <2>1, ClearStep DEF Handled, Whole
  <2>4. QED
    BY <2>1, <2>2, <2>3, EditedNothing DEF LineInv
<1>5. CASE CopyEvent /\ UNCHANGED <<input, typed, dropped>>
  <2>1. pc = "copy" /\ pc' = "load_next" /\ client = "syscall_read" /\ line' = line
    BY <1>5 DEF CopyEvent, Goto, input
  <2>2. Faithful' => Faithful /\ Handled' = Handled
    BY <1>5, CopyHandles
  <2>3. QED
    BY <1>1, <2>1, <2>2 DEF LineInv, Loop
<1>6. ASSUME NEW c \in Clients, Call(c) PROVE LineInv'
  <2>1. pc' = "clear_last" /\ line' = <<>>
    BY <1>6 DEF Call, EnterKernel
  <2>2. QED
    BY <2>1 DEF LineInv, Loop
<1>7. CASE TakeKey
  <2>1. pc = "got" /\ client = "syscall_read" /\ Edit
    BY <1>7 DEF TakeKey, HandleKey
  <2>2. pc' \in {"again", "iretq"}
    BY <2>1 DEF Edit
  <2>3. ASSUME Faithful'
        PROVE  /\ pc' = "again" => line' = Edited(Handled')
               /\ pc' = "iretq" => /\ Consumed' # <<>> /\ line' = Edited(Front(Consumed'))
                                   /\ Last(Consumed') = ENTER \/ Len(line') = LineLength - 1
    <3>1. /\ Faithful /\ Consumed' = Consumed /\ Handled = Front(Consumed)
          /\ Consumed \in Seq(Typed) /\ Consumed # <<>> /\ Last(Consumed) = ev
      BY <1>7, <2>3, TakeHandles
    <3>2. line = Edited(Front(Consumed))
      BY <1>1, <2>1, <3>1 DEF LineInv, Loop
    <3>3. ev \in Typed /\ Edited(Consumed) = AfterKey(line, ev)
      BY <3>1, <3>2, FrontAndLast, EditedByLast
    <3>4. Handled' = Consumed
      BY <2>2, <3>1 DEF Handled, Whole
    <3>5. CASE ev = ENTER
      BY <2>1, <3>1, <3>2, <3>5 DEF Edit, NUL, BS, ENTER
    <3>6. CASE ev = BS
      BY <2>1, <3>3, <3>4, <3>6 DEF Edit, NUL, BS, ENTER, AfterKey
    <3>7. CASE ev \notin {ENTER, BS}
      <4>1. ev # NUL
        BY <3>3 DEF Typed
      <4>2. CASE Len(line) + 1 < LineLength
        BY <2>1, <3>3, <3>4, <3>7, <4>1, <4>2 DEF Edit, AfterKey
      <4>3. CASE ~(Len(line) + 1 < LineLength)
        <5>1. pc' = "iretq" /\ line' = line
          BY <2>1, <3>7, <4>1, <4>3 DEF Edit
        <5>2. Len(line) = LineLength - 1
          <6>1. Len(line) \in Nat /\ Len(line) < LineLength /\ LineLength \in Nat
            BY <1>1, LineAssumption DEF InputTypeOK
          <6>2. QED
            BY <4>3, <6>1
        <5>3. QED
          BY <3>1, <3>2, <5>1, <5>2
      <4>4. QED
        BY <4>2, <4>3
    <3>8. QED
      BY <3>5, <3>6, <3>7
  <2>4. QED
    BY <2>2, <2>3 DEF LineInv, Loop
<1>8. CASE /\ (GetNextKey /\ ~CopyEvent) \/ ClearNext \/ ClearCount \/ HasNextKey
               \/ EnableInterrupts \/ LoopOrTimeOut \/ DisableInterrupts \/ ReturnToUser
           /\ UNCHANGED <<input, typed, dropped>>
  <2>1. client = "syscall_read"
    BY <1>8 DEF GetNextKey, CheckEmpty, CopyEvent, LoadIndex, LoadNext,
       StoreNext, LoadCount, StoreCount, ClearNext, ClearCount, HasNextKey,
       EnableInterrupts, LoopOrTimeOut, DisableInterrupts, ReturnToUser
  <2>2. /\ Faithful' => Faithful /\ Consumed' = Consumed /\ Handled' = Handled
        /\ client' = client /\ line' = line /\ pc' # "clear_last"
        /\ pc' \in Loop => pc \in Loop
        /\ pc' = "cli" => pc = "again" /\ client = "syscall_getchar"
        /\ pc' = "iretq" => pc = "cli"
    BY <1>1, <1>8, <2>1, QuietStep
  <2>3. pc' \notin {"cli", "iretq"}
    BY <1>1, <2>1, <2>2 DEF LineInv
  <2>4. QED
    BY <1>1, <2>1, <2>2, <2>3 DEF LineInv
<1>9. CASE UNCHANGED inputVars
  <2>1. UNCHANGED <<pc, client, line>>
    BY <1>9 DEF inputVars, vars, cpu, input
  <2>2. Faithful' => Faithful /\ Consumed' = Consumed
    BY <1>1, <1>9, StillStep DEF inputVars
  <2>3. QED
    BY <1>2, <2>1, <2>2
<1>10. QED
  BY <1>3, <1>4, <1>5, <1>6, <1>7, <1>8, <1>9, InputStepsAre

LEMMA BatchStep == ASSUME PathInv, [InputNext]_inputVars, KeysInv' PROVE BatchInv'
<1> SUFFICES ASSUME client' = "syscall_getchar", MaxLen > 0
             PROVE  BatchInv'
  BY DEF BatchInv
<1>1. /\ KeysInv /\ IInv' /\ TypedInv' /\ InputTypeOK /\ BatchInv /\ UserInv
      /\ client \in Clients
  BY DEF PathInv, KeysInv, QueueInv, IInv, TypeOK
<1>2. CASE /\ client = "syscall_getchar" /\ batch' = batch /\ pc' = pc
           /\ earlier' = earlier
           /\ Faithful' => Faithful /\ Consumed' = Consumed
  <2>1. Handled' = Handled \/ ~Faithful'
    BY <1>2, SameHandled DEF Whole
  <2>2. QED
    BY <1>1, <1>2, <2>1 DEF BatchInv
<1>3. ASSUME NEW b \in Bytes, KeyTyped(b) PROVE BatchInv'
  <2>1. UNCHANGED <<pc, client, batch, earlier>>
    BY <1>3 DEF KeyTyped, IRQ1, cpu, input
  <2>2. Faithful' => Faithful /\ Consumed' = Consumed
    BY <1>1, <1>3, TypedStep
  <2>3. QED
    BY <1>2, <2>1, <2>2
<1>4. CASE Clear
  <2>1. pc = "clear_last" /\ client = "syscall_getchar"
    BY <1>4 DEF Clear, ClearLast, Goto
  <2>2. QED
    BY <1>1, <2>1 DEF BatchInv
<1>5. CASE CopyEvent /\ UNCHANGED <<input, typed, dropped>>
  <2>1. pc = "copy" /\ pc' = "load_next" /\ client = "syscall_getchar" /\ batch' = batch
    BY <1>5 DEF CopyEvent, Goto, input
  <2>2. Faithful' => Faithful /\ Handled' = Handled
    BY <1>5, CopyHandles
  <2>3. earlier' = earlier
    BY <2>1, EarlierIs DEF Clear, ClearLast, Goto
  <2>4. QED
    BY <1>1, <2>1, <2>2, <2>3 DEF BatchInv, Loop
<1>6. ASSUME NEW c \in Clients, Call(c) PROVE BatchInv'
  <2>1. /\ pc = "user" /\ pc' = "sti" /\ earlier' = earlier
        /\ batch' = <<>> /\ Len(<<>>) = 0
    BY <1>6 DEF Call, EnterKernel
  <2>2. ASSUME Faithful' PROVE IsRest(batch', Handled', earlier')
    <3>1. (\E d \in Clients : EnterKernel(d)) /\ UNCHANGED <<typed, dropped>>
      BY <1>6 DEF Call
    <3>2. Faithful /\ Consumed' = Consumed
      BY <1>1, <2>2, <3>1, StillStep
    <3>3. Consumed \in Seq(Typed)
      BY <1>1, <3>2, ConsumedType, PendingIsSeq DEF KeysInv
    <3>4. Handled' = Consumed
      BY <2>1, <3>2 DEF Handled, Whole
    <3>5. earlier' = Len(Consumed)
      BY <1>1, <2>1, <3>2 DEF UserInv
    <3>6. QED
      BY <2>1, <3>3, <3>4, <3>5, NothingIsLeft
  <2>3. QED
    BY <2>1, <2>2, LineAssumption DEF BatchInv
<1>7. CASE TakeKey
  <2>1. pc = "got" /\ client = "syscall_getchar" /\ Collect /\ earlier' = earlier
    BY <1>7 DEF TakeKey, HandleKey
  <2>2. pc' \in {"again", "cli"}
    BY <2>1 DEF Collect
  <2>3. Len(batch) < MaxLen
    BY <1>1, <2>1 DEF BatchInv, Loop
  <2>4. pc' = "again" => Len(batch') < MaxLen
    <3>1. CASE ev = NUL
      BY <2>1, <2>3, <3>1 DEF Collect
    <3>2. CASE ev # NUL
      <4>1. batch' \in Seq(Byte \ {NUL})
        BY <1>1, <2>1, CollectKeeps DEF KeysInv, QueueInv, IInv, TypeOK
      <4>2. Len(batch') \in Nat /\ MaxLen \in Nat
        BY <4>1, LineAssumption
      <4>3. QED
        BY <2>1, <3>2, <4>2 DEF Collect
    <3>3. QED
      BY <3>1, <3>2
  <2>5. ASSUME Faithful' PROVE IsRest(batch', Handled', earlier')
    <3>1. /\ Faithful /\ Consumed' = Consumed /\ Handled = Front(Consumed)
          /\ Consumed \in Seq(Typed) /\ Consumed # <<>> /\ Last(Consumed) = ev
      BY <1>7, <2>5, TakeHandles
    <3>2. IsRest(batch, Front(Consumed), earlier)
      BY <1>1, <2>1, <3>1 DEF BatchInv, Loop
    <3>3. ev # NUL
      BY <3>1, FrontAndLast DEF Typed
    <3>4. batch' = Append(batch, Lower(ev))
      BY <2>1, <2>3, <3>3 DEF Collect
    <3>5. Handled' = Consumed
      BY <2>2, <3>1 DEF Handled, Whole
    <3>6. QED
      BY <2>1, <3>1, <3>2, <3>4, <3>5, OneMoreIsLeft
  <2>6. QED
    BY <2>2, <2>4, <2>5 DEF BatchInv, Loop
<1>8. CASE /\ (GetNextKey /\ ~CopyEvent) \/ ClearNext \/ ClearCount \/ HasNextKey
               \/ EnableInterrupts \/ LoopOrTimeOut \/ DisableInterrupts \/ ReturnToUser
           /\ UNCHANGED <<input, typed, dropped>>
  <2>1. client = "syscall_getchar"
    BY <1>8 DEF GetNextKey, CheckEmpty, CopyEvent, LoadIndex, LoadNext,
       StoreNext, LoadCount, StoreCount, ClearNext, ClearCount, HasNextKey,
       EnableInterrupts, LoopOrTimeOut, DisableInterrupts, ReturnToUser
  <2>2. /\ Faithful' => Faithful /\ Consumed' = Consumed /\ Handled' = Handled
        /\ client' = client /\ batch' = batch /\ pc' # "clear_last"
        /\ pc' \in Loop => pc \in Loop
        /\ pc' = "cli" => pc = "again"
        /\ pc' = "iretq" => pc = "cli"
        /\ pc' \in {"clear_next", "clear_count"} => pc = "clear_next"
    BY <1>1, <1>8, <2>1, QuietStep
  <2>3. /\ pc' \in Loop \cup {"cli", "iretq"} => pc \in Loop \cup {"cli", "iretq"}
        /\ pc' \notin {"clear_last", "clear_next", "clear_count"}
    BY <1>1, <2>1, <2>2 DEF BatchInv, Loop
  <2>4. pc' \in Loop \cup {"cli", "iretq"} => earlier' = earlier
    <3>1. ~Clear \/ client = "syscall_read"
      BY <1>1, <2>1 DEF BatchInv, Clear, ClearLast, Goto
    <3>2. QED
      BY <2>1, <3>1, EarlierIs DEF Loop
  <2>5. QED
    BY <1>1, <2>1, <2>2, <2>3, <2>4 DEF BatchInv
<1>9. CASE UNCHANGED inputVars
  <2>1. UNCHANGED <<pc, client, batch, earlier>>
    BY <1>9 DEF inputVars, vars, cpu, input
  <2>2. Faithful' => Faithful /\ Consumed' = Consumed
    BY <1>1, <1>9, StillStep DEF inputVars
  <2>3. QED
    BY <1>2, <2>1, <2>2
<1>10. QED
  BY <1>3, <1>4, <1>5, <1>6, <1>7, <1>8, <1>9, InputStepsAre

LEMMA UserStep == ASSUME PathInv, [InputNext]_inputVars, KeysInv' PROVE UserInv'
<1> SUFFICES ASSUME Faithful', pc' = "user" PROVE earlier' = Len(Consumed')
  BY DEF UserInv
<1>1. KeysInv /\ IInv' /\ TypedInv' /\ UserInv
  BY DEF PathInv, KeysInv, QueueInv
<1>2. CASE ReturnToUser /\ earlier' = Len(Consumed) /\ UNCHANGED <<input, typed, dropped>>
  BY <1>1, <1>2, StillStep
<1>3. CASE pc = "user" /\ earlier' = earlier
  <2>1. Faithful => earlier = Len(Consumed)
    BY <1>1, <1>3 DEF UserInv
  <2>2. ASSUME NEW b \in Bytes, KeyTyped(b) PROVE Faithful /\ Consumed' = Consumed
    BY <1>1, <2>2, TypedStep
  <2>3. ASSUME UNCHANGED inputVars PROVE Faithful /\ Consumed' = Consumed
    BY <1>1, <2>3, StillStep DEF inputVars
  <2>4. (\E b \in Bytes : KeyTyped(b)) \/ UNCHANGED inputVars
    BY <1>3, InputStepsAre DEF Clear, ClearLast, Goto, CopyEvent, Call, EnterKernel,
       TakeKey, HandleKey, GetNextKey, CheckEmpty, LoadIndex, LoadNext, StoreNext,
       LoadCount, StoreCount, ClearNext, ClearCount, HasNextKey, EnableInterrupts,
       LoopOrTimeOut, DisableInterrupts, ReturnToUser
  <2>5. QED
    BY <1>3, <2>1, <2>2, <2>3, <2>4
<1>4. QED
  BY <1>2, <1>3, EarlierIs DEF Clear, ClearLast, Goto

LEMMA PathStep == PathInv /\ [InputNext]_inputVars => PathInv'
<1> SUFFICES ASSUME PathInv, [InputNext]_inputVars PROVE PathInv'
  OBVIOUS
<1>1. InputTypeOK'
  BY InputNextKeeps DEF PathInv, KeysInv, QueueInv, InputInv
<1>2. KeysInv'
  BY KeysStep DEF PathInv
<1>3. QED
  BY <1>1, <1>2, GotStep, LineStep, BatchStep, UserStep DEF PathInv

\* For a ring, a line and a batch of any length and any bytes, interrupted
\* anywhere: the line that syscall_read returns is what was typed since the
\* clear, with every Backspace applied, up to the Enter or the key that did not
\* fit, unless the ring overflowed or a read was disturbed.
THEOREM LineRead == InputSpec => []LineIsWhatWasTyped
<1>1. PathInv => LineIsWhatWasTyped
  BY DEF PathInv, LineInv, LineIsWhatWasTyped
<1>2. QED
  BY <1>1, InitPathInv, PathStep, PTL DEF InputSpec

\* And the batch that syscall_getchar returns is all the keys that left the ring
\* since the call before it ended, once and in order, in lower case.
THEOREM BatchRead == InputSpec => []BatchIsWhatWasTyped
<1>1. PathInv => BatchIsWhatWasTyped
  <2> SUFFICES ASSUME PathInv, client = "syscall_getchar", pc = "iretq", Faithful, MaxLen > 0
               PROVE  /\ earlier <= Len(Consumed)
                      /\ batch = [i \in 1 .. Len(Consumed) - earlier |->
                                   Lower(Consumed[earlier + i])]
    BY DEF BatchIsWhatWasTyped
  <2>1. Handled = Consumed
    BY DEF Handled, Whole
  <2>2. IsRest(batch, Consumed, earlier)
    BY <2>1 DEF PathInv, BatchInv
  <2>3. earlier <= Len(Consumed)
    BY <2>2, ConsumedType, PendingIsSeq DEF IsRest, PathInv, KeysInv
  <2>4. QED
    BY <2>2, <2>3 DEF IsRest
<1>2. QED
  BY <1>1, InitPathInv, PathStep, PTL DEF InputSpec

------------------------------------------------------------------------------
(* The wire: what the decoder has seen agrees with what is still to come.  *)

Items == [byte : Byte, key : PhysicalKeys, make : BOOLEAN, last : BOOLEAN, shift : BOOLEAN]

IsExtended(item) == item.key[1] = "extended"

IsShift(item) == item.key[1] = "plain" /\ item.key[2] \in ShiftMake

ItemOK(item) ==
  /\ item \in Items
  /\ item.byte = IF ~item.last THEN E0
                 ELSE IF item.make THEN item.key[2] ELSE item.key[2] + 128
  /\ ~item.last => IsExtended(item)

\* Whether place i of the wire w has the second byte of an extended key, and
\* whether a Shift key is down before it (`now` after the last one).
SecondAt(w, i) == i \in 1 .. Len(w) /\ w[i].last /\ IsExtended(w[i])

ShiftAt(w, i, now) == IF i \in 1 .. Len(w) THEN w[i].shift ELSE now

\* A prefix is followed by its code and a code that follows none by another
\* item; Shift is down after a Shift key went down, and stays as it was
\* through every byte that is not a Shift key's.
Follows(w, i, now) ==
  /\ w[i].last = ~SecondAt(w, i + 1)
  /\ (IF IsShift(w[i]) THEN w[i].make ELSE ShiftAt(w, i, now)) => ShiftAt(w, i + 1, now)

WireOK(w, now) ==
  /\ w \in Seq(Items)
  /\ \A i \in 1 .. Len(w) : ItemOK(w[i]) /\ Follows(w, i, now)

DeviceInv == /\ IInv /\ held \subseteq PhysicalKeys
             /\ WireOK(wire, ShiftHeld)
             /\ e0_prefix = SecondAt(wire, 1)
             /\ shiftPressed => ShiftAt(wire, 1, ShiftHeld)

LEMMA KeyIs ==
  ASSUME NEW k \in PhysicalKeys
  PROVE  /\ k[1] \in {"plain", "extended"} /\ k[2] \in 1 .. 127 /\ k[2] # 96
         /\ k = <<k[1], k[2]>>
<1>1. \A c \in PlainKeys \cup ExtendedKeys : c \in 1 .. 127 /\ c # 96
  <2>1. E0 - 128 = 96
    BY DEF E0
  <2>2. QED
    BY <2>1, DeviceAssumption
<1>2. PICK x \in {"plain", "extended"}, c \in PlainKeys \cup ExtendedKeys : k = <<x, c>>
  BY DEF PhysicalKeys
<1>3. k[1] = x /\ k[2] = c
  BY <1>2
<1>4. QED
  BY <1>1, <1>2, <1>3

LEMMA InitDeviceInv == DeviceInit => DeviceInv
<1> SUFFICES ASSUME DeviceInit PROVE DeviceInv
  OBVIOUS
<1>1. IInv /\ e0_prefix = FALSE /\ shiftPressed = FALSE
  BY InitIInv DEF DeviceInit, Init
<1>2. held = {} /\ wire = <<>> /\ Len(<<>>) = 0 /\ <<>> \in Seq(Items)
  BY DEF DeviceInit
<1>3. WireOK(wire, ShiftHeld)
  BY <1>2 DEF WireOK
<1>4. SecondAt(wire, 1) = FALSE
  BY <1>2 DEF SecondAt
<1>5. QED
  BY <1>1, <1>2, <1>3, <1>4 DEF DeviceInv

\* What the decoder makes of the byte of an item.
LEMMA DecodedIs ==
  ASSUME NEW item, ItemOK(item), NEW e0 \in BOOLEAN, e0 = (item.last /\ IsExtended(item)),
         NEW shift \in BOOLEAN, NEW caps \in BOOLEAN
  PROVE  /\ item.byte \in Byte
         /\ NextE0(item.byte) = ~item.last
         /\ NextShift(item.byte, e0, shift) = IF IsShift(item) THEN item.make ELSE shift
         /\ TakesSnapshot(item.byte, e0, shift) => item.key[2] = TabMake /\ shift
         /\ KeyOf(item.byte, e0, shift, caps) # NUL => item.make /\ item.last
         /\ item.make /\ item.last /\ ~TakesSnapshot(item.byte, e0, shift) =>
              KeyOf(item.byte, e0, shift, caps)
                = IF IsExtended(item) THEN Arrow(item.key[2]) ELSE Translate(item.key[2], caps)
<1>1. /\ item.key[1] \in {"plain", "extended"} /\ item.key[2] \in 1 .. 127
      /\ item.key[2] # 96 /\ item.make \in BOOLEAN /\ item.last \in BOOLEAN
      /\ item.byte \in Byte
  BY KeyIs DEF ItemOK, Items
<1> DEFINE c == item.key[2]
           b == item.byte
<1>2. b = IF ~item.last THEN 224 ELSE IF item.make THEN c ELSE c + 128
  BY DEF ItemOK, E0
<1>3. c \in 1 .. 127 /\ c # 96
  BY <1>1
<1>4. ~item.last => IsExtended(item) /\ ~e0
  BY DEF ItemOK
<1>5. /\ IsExtended(item) = (item.key[1] = "extended")
      /\ IsShift(item) = (~IsExtended(item) /\ c \in {42, 54})
  BY <1>1 DEF IsExtended, IsShift, ShiftMake
<1> HIDE DEF b, c
<1>6. item.last => b # 224 /\ (b >= 128 <=> ~item.make) /\ b \in Nat
  BY <1>1, <1>2, <1>3
<1>7. NextE0(b) = ~item.last
  BY <1>1, <1>2, <1>6 DEF NextE0, E0
<1>8. IsPlain(b, e0) = (item.last /\ ~IsExtended(item))
  BY <1>1, <1>2, <1>4, <1>6 DEF IsPlain, E0
<1>9. NextShift(b, e0, shift) = IF IsShift(item) THEN item.make ELSE shift
  <2>1. CASE item.last /\ ~IsExtended(item)
    <3>1. IsPlain(b, e0)
      BY <1>8, <2>1
    <3>2. CASE item.make
      <4>1. b = c /\ item.make = TRUE
        BY <1>1, <1>2, <2>1, <3>2
      <4>2. (b \in ShiftMake <=> c \in {42, 54}) /\ b \notin ShiftBreak
        BY <1>3, <4>1 DEF ShiftMake, ShiftBreak
      <4>3. CASE c \in {42, 54}
        BY <1>5, <2>1, <3>1, <4>1, <4>2, <4>3 DEF NextShift
      <4>4. CASE c \notin {42, 54}
        BY <1>5, <3>1, <4>2, <4>4 DEF NextShift
      <4>5. QED
        BY <4>3, <4>4
    <3>3. CASE ~item.make
      <4>1. b = c + 128 /\ item.make = FALSE
        BY <1>1, <1>2, <2>1, <3>3
      <4>2. b \notin ShiftMake /\ (b \in ShiftBreak <=> c \in {42, 54})
        BY <1>3, <4>1 DEF ShiftMake, ShiftBreak
      <4>3. CASE c \in {42, 54}
        BY <1>5, <2>1, <3>1, <4>1, <4>2, <4>3 DEF NextShift
      <4>4. CASE c \notin {42, 54}
        BY <1>5, <3>1, <4>2, <4>4 DEF NextShift
      <4>5. QED
        BY <4>3, <4>4
    <3>4. QED
      BY <3>2, <3>3
  <2>2. CASE ~(item.last /\ ~IsExtended(item))
    <3>1. ~IsPlain(b, e0) /\ ~IsShift(item)
      BY <1>4, <1>5, <1>8, <2>2
    <3>2. QED
      BY <3>1 DEF NextShift
  <2>3. QED
    BY <2>1, <2>2
<1>10. TakesSnapshot(b, e0, shift) => c = TabMake /\ shift
  <2> SUFFICES ASSUME TakesSnapshot(b, e0, shift) PROVE c = TabMake /\ shift
    OBVIOUS
  <2>1. item.last /\ b = 15 /\ shift
    BY <1>8 DEF TakesSnapshot, TabMake
  <2>2. QED
    BY <1>2, <1>3, <1>6, <2>1 DEF TabMake
<1>11. KeyOf(b, e0, shift, caps) # NUL => item.make /\ item.last
  <2> SUFFICES ASSUME ~(item.make /\ item.last) PROVE KeyOf(b, e0, shift, caps) = NUL
    OBVIOUS
  <2>1. CASE ~item.last
    <3>1. b = E0
      BY <1>2, <2>1 DEF E0
    <3>2. QED
      BY <3>1 DEF KeyOf, IsPlain
  <2>2. CASE item.last /\ ~item.make
    <3>1. IsBreak(b)
      BY <1>6, <2>2 DEF IsBreak
    <3>2. QED
      BY <3>1 DEF KeyOf
  <2>3. QED
    BY <2>1, <2>2
<1>12. ASSUME item.make, item.last, ~TakesSnapshot(b, e0, shift)
       PROVE  KeyOf(b, e0, shift, caps)
                = IF IsExtended(item) THEN Arrow(c) ELSE Translate(c, caps)
  <2>1. b = c /\ b # E0 /\ ~IsBreak(b)
    BY <1>2, <1>3, <1>6, <1>12 DEF E0, IsBreak
  <2>2. CASE IsExtended(item)
    <3>1. e0 /\ ~IsPlain(b, e0)
      BY <1>8, <1>12, <2>2
    <3>2. KeyOf(b, e0, shift, caps) = Arrow(b)
      BY <2>1, <3>1 DEF KeyOf
    <3>3. QED
      BY <2>1, <2>2, <3>2
  <2>3. CASE ~IsExtended(item)
    <3>1. ~e0 /\ IsPlain(b, e0)
      BY <1>8, <1>12, <2>3
    <3>2. KeyOf(b, e0, shift, caps) = Translate(b, caps)
      BY <1>12, <2>1, <3>1 DEF KeyOf
    <3>3. QED
      BY <2>1, <2>3, <3>2
  <2>4. QED
    BY <2>2, <2>3
<1>13. QED
  BY <1>1, <1>7, <1>9, <1>10, <1>11, <1>12 DEF b, c

\* The head of the wire, as the decoder meets it.
LEMMA HeadIs ==
  ASSUME DeviceInv, wire # <<>>
  PROVE  /\ Head(wire) = wire[1] /\ ItemOK(Head(wire)) /\ Follows(wire, 1, ShiftHeld)
         /\ Len(wire) \in Nat \ {0}
         /\ e0_prefix = (Head(wire).last /\ IsExtended(Head(wire)))
         /\ shiftPressed => Head(wire).shift
<1>1. wire \in Seq(Items) /\ \A i \in 1 .. Len(wire) : ItemOK(wire[i]) /\ Follows(wire, i, ShiftHeld)
  BY DEF DeviceInv, WireOK
<1>2. Len(wire) \in Nat \ {0} /\ Head(wire) = wire[1] /\ 1 \in 1 .. Len(wire)
  BY <1>1
<1>3. e0_prefix = SecondAt(wire, 1) /\ (shiftPressed => ShiftAt(wire, 1, ShiftHeld))
  BY DEF DeviceInv
<1>4. QED
  BY <1>1, <1>2, <1>3 DEF SecondAt, ShiftAt

\* A delivered byte leaves the decoder as the next item expects it.
LEMMA DeliverKeeps == ASSUME DeviceInv, Deliver PROVE DeviceInv'
<1> DEFINE t == Tail(wire)
<1>1. wire # <<>> /\ IRQ1(Head(wire).byte) /\ wire' = t /\ held' = held
  BY DEF Deliver
<1>2. /\ Head(wire) = wire[1] /\ ItemOK(wire[1]) /\ Follows(wire, 1, ShiftHeld)
      /\ Len(wire) \in Nat \ {0}
      /\ e0_prefix = (wire[1].last /\ IsExtended(wire[1]))
      /\ shiftPressed => wire[1].shift
  BY <1>1, HeadIs
<1>3. e0_prefix \in BOOLEAN /\ shiftPressed \in BOOLEAN /\ capsLock \in BOOLEAN
  BY DEF DeviceInv, IInv, TypeOK
<1>4. /\ wire[1].byte \in Byte
      /\ e0_prefix' = ~wire[1].last
      /\ shiftPressed' = IF IsShift(wire[1]) THEN wire[1].make ELSE shiftPressed
  BY <1>1, <1>2, <1>3, DecodedIs DEF IRQ1
<1>5. IInv'
  BY <1>1, <1>2, <1>4, IRQ1Keeps DEF DeviceInv
<1>6. wire \in Seq(Items) /\ \A i \in 1 .. Len(wire) : ItemOK(wire[i]) /\ Follows(wire, i, ShiftHeld)
  BY DEF DeviceInv, WireOK
<1>7. /\ t \in Seq(Items) /\ Len(t) = Len(wire) - 1 /\ Len(t) \in Nat
      /\ \A i \in 1 .. Len(t) : t[i] = wire[i + 1]
  BY <1>1, <1>6, HeadTailProperties
<1> HIDE DEF t
<1>8. ShiftHeld' = ShiftHeld
  BY <1>1 DEF ShiftHeld
<1>9. ASSUME NEW i \in 1 .. Len(wire)
      PROVE  /\ SecondAt(t, i) = SecondAt(wire, i + 1)
             /\ ShiftAt(t, i, ShiftHeld) = ShiftAt(wire, i + 1, ShiftHeld)
  <2>1. i \in 1 .. Len(t) <=> i + 1 \in 1 .. Len(wire)
    BY <1>7
  <2>2. CASE i \in 1 .. Len(t)
    <3>1. t[i] = wire[i + 1]
      BY <1>7, <2>2
    <3>2. QED
      BY <2>1, <2>2, <3>1 DEF SecondAt, ShiftAt
  <2>3. CASE i \notin 1 .. Len(t)
    BY <2>1, <2>3 DEF SecondAt, ShiftAt
  <2>4. QED
    BY <2>2, <2>3
<1>10. ASSUME NEW i \in 1 .. Len(t) PROVE ItemOK(t[i]) /\ Follows(t, i, ShiftHeld)
  <2>1. i \in 1 .. Len(wire) /\ i + 1 \in 1 .. Len(wire) /\ t[i] = wire[i + 1]
    BY <1>7
  <2>2. ItemOK(wire[i + 1]) /\ Follows(wire, i + 1, ShiftHeld)
    BY <1>6, <2>1
  <2>3. SecondAt(t, i + 1) = SecondAt(wire, (i + 1) + 1)
        /\ ShiftAt(t, i + 1, ShiftHeld) = ShiftAt(wire, (i + 1) + 1, ShiftHeld)
    BY <1>9, <2>1
  <2>4. ShiftAt(t, i, ShiftHeld) = ShiftAt(wire, i + 1, ShiftHeld)
    BY <1>9, <2>1
  <2>5. QED
    BY <2>1, <2>2, <2>3, <2>4 DEF Follows
<1>11. WireOK(wire', ShiftHeld')
  BY <1>1, <1>7, <1>8, <1>10 DEF WireOK
<1>12. 1 \in 1 .. Len(wire)
  BY <1>2
<1>13. e0_prefix' = SecondAt(wire', 1)
  <2>1. SecondAt(t, 1) = SecondAt(wire, 1 + 1) /\ SecondAt(t, 1) \in BOOLEAN
    BY <1>9, <1>12 DEF SecondAt
  <2>2. wire[1].last \in BOOLEAN
    BY <1>2 DEF ItemOK, Items
  <2>3. QED
    BY <1>1, <1>2, <1>4, <2>1, <2>2 DEF Follows
<1>14. shiftPressed' => ShiftAt(wire', 1, ShiftHeld')
  <2>1. ShiftAt(t, 1, ShiftHeld) = ShiftAt(wire, 1 + 1, ShiftHeld)
        /\ ShiftAt(wire, 1, ShiftHeld) = wire[1].shift
    BY <1>9, <1>12 DEF ShiftAt
  <2>2. (IF IsShift(wire[1]) THEN wire[1].make ELSE wire[1].shift)
          => ShiftAt(wire, 1 + 1, ShiftHeld)
    BY <1>2, <2>1 DEF Follows
  <2>3. QED
    BY <1>1, <1>2, <1>4, <1>8, <2>1, <2>2
<1>15. QED
  BY <1>1, <1>5, <1>11, <1>13, <1>14 DEF DeviceInv

\* More items at the end of the wire, sent while Shift was as the last of the
\* earlier ones left it.
LEMMA WireGrows ==
  ASSUME NEW w, NEW now, WireOK(w, now), NEW later,
         NEW e \in Seq(Items), e # <<>>, e[1].shift = now, ~SecondAt(e, 1),
         \A i \in 1 .. Len(e) : ItemOK(e[i]) /\ Follows(e, i, later)
  PROVE  /\ WireOK(w \o e, later)
         /\ SecondAt(w \o e, 1) = SecondAt(w, 1)
         /\ ShiftAt(w \o e, 1, later) = ShiftAt(w, 1, now)
<1> DEFINE x == w \o e
           n == Len(w)
           m == Len(e)
<1>1. /\ w \in Seq(Items) /\ n \in Nat /\ m \in Nat \ {0}
      /\ \A i \in 1 .. n : ItemOK(w[i]) /\ Follows(w, i, now)
  BY DEF WireOK
<1>2. /\ x \in Seq(Items) /\ Len(x) = n + m
      /\ \A i \in 1 .. n + m : x[i] = IF i <= n THEN w[i] ELSE e[i - n]
  BY <1>1, ConcatProperties
<1> HIDE DEF x
<1>3. ASSUME NEW i \in 1 .. n + 1
      PROVE  /\ SecondAt(x, i) = SecondAt(w, i)
             /\ ShiftAt(x, i, later) = ShiftAt(w, i, now)
  <2>1. i \in 1 .. Len(x)
    BY <1>1, <1>2
  <2>2. CASE i \in 1 .. n
    <3>1. x[i] = w[i]
      BY <1>1, <1>2, <2>2
    <3>2. QED
      BY <2>1, <2>2, <3>1 DEF SecondAt, ShiftAt
  <2>3. CASE i = n + 1
    <3>1. x[i] = e[1] /\ i \notin 1 .. n /\ 1 \in 1 .. m
      BY <1>1, <1>2, <2>3
    <3>2. ~SecondAt(x, i)
      BY <2>1, <3>1 DEF SecondAt
    <3>3. QED
      BY <2>1, <3>1, <3>2 DEF SecondAt, ShiftAt
  <2>4. QED
    BY <1>1, <2>2, <2>3
<1>4. ASSUME NEW j \in 1 .. m + 1
      PROVE  /\ SecondAt(x, n + j) = SecondAt(e, j)
             /\ ShiftAt(x, n + j, later) = ShiftAt(e, j, later)
  <2>1. n + j \in 1 .. Len(x) <=> j \in 1 .. m
    BY <1>1, <1>2
  <2>2. CASE j \in 1 .. m
    <3>1. x[n + j] = e[j]
      <4>1. n + j \in 1 .. n + m /\ ~(n + j <= n) /\ (n + j) - n = j
        BY <1>1, <2>2
      <4>2. x[n + j] = IF n + j <= n THEN w[n + j] ELSE e[(n + j) - n]
        BY <1>2, <4>1
      <4>3. QED
        BY <4>1, <4>2
    <3>2. QED
      BY <2>1, <2>2, <3>1 DEF SecondAt, ShiftAt
  <2>3. CASE j \notin 1 .. m
    BY <2>1, <2>3 DEF SecondAt, ShiftAt
  <2>4. QED
    BY <2>2, <2>3
<1>5. ASSUME NEW i \in 1 .. n + m PROVE ItemOK(x[i]) /\ Follows(x, i, later)
  <2>1. CASE i <= n
    <3>1. i \in 1 .. n /\ i \in 1 .. n + 1 /\ i + 1 \in 1 .. n + 1 /\ x[i] = w[i]
      BY <1>1, <1>2, <2>1
    <3>2. /\ SecondAt(x, i + 1) = SecondAt(w, i + 1)
          /\ ShiftAt(x, i, later) = ShiftAt(w, i, now)
          /\ ShiftAt(x, i + 1, later) = ShiftAt(w, i + 1, now)
      BY <1>3, <3>1
    <3>3. ItemOK(w[i]) /\ Follows(w, i, now)
      BY <1>1, <3>1
    <3>4. QED
      BY <3>1, <3>2, <3>3 DEF Follows
  <2>2. CASE i > n
    <3> DEFINE j == i - n
    <3>1. /\ j \in 1 .. m /\ j \in 1 .. m + 1 /\ j + 1 \in 1 .. m + 1
          /\ n + j = i /\ n + (j + 1) = i + 1 /\ x[i] = e[j]
      BY <1>1, <1>2, <2>2
    <3> HIDE DEF j
    <3>2. /\ SecondAt(x, n + (j + 1)) = SecondAt(e, j + 1)
          /\ ShiftAt(x, n + j, later) = ShiftAt(e, j, later)
          /\ ShiftAt(x, n + (j + 1), later) = ShiftAt(e, j + 1, later)
      BY <1>4, <3>1
    <3>3. ItemOK(e[j]) /\ Follows(e, j, later)
      BY <3>1
    <3>4. QED
      BY <3>1, <3>2, <3>3 DEF Follows
  <2>3. QED
    BY <1>1, <2>1, <2>2
<1>6. 1 \in 1 .. n + 1
  BY <1>1
<1>7. WireOK(x, later)
  BY <1>2, <1>5 DEF WireOK
<1>8. QED
  BY <1>3, <1>6, <1>7 DEF x

\* The bytes of one edge of a key are items of their own.
LEMMA EdgeIs ==
  ASSUME NEW k \in PhysicalKeys, NEW make \in BOOLEAN, ShiftHeld \in BOOLEAN, NEW later,
         (IF k[1] = "plain" /\ k[2] \in ShiftMake THEN make ELSE ShiftHeld) => later
  PROVE  /\ Edge(k, make) \in Seq(Items) /\ Edge(k, make) # <<>> /\ Len(Edge(k, make)) \in {1, 2}
         /\ Edge(k, make)[1].shift = ShiftHeld /\ ~SecondAt(Edge(k, make), 1)
         /\ \A i \in 1 .. Len(Edge(k, make)) :
              ItemOK(Edge(k, make)[i]) /\ Follows(Edge(k, make), i, later)
<1> DEFINE e == Edge(k, make)
           code == IF make THEN k[2] ELSE k[2] + 128
           item(b, last) == [byte |-> b, key |-> k, make |-> make, last |-> last,
                             shift |-> ShiftHeld]
<1>1. k[1] \in {"plain", "extended"} /\ k[2] \in 1 .. 127
  BY KeyIs
<1>2. code \in Byte /\ E0 \in Byte
  BY <1>1 DEF Byte, E0
<1>3. CASE k[1] = "plain"
  <2> DEFINE a == item(code, TRUE)
  <2>1. e = <<a>>
    BY <1>3 DEF Edge
  <2>2. /\ a \in Items /\ a.last = TRUE /\ a.make = make /\ a.shift = ShiftHeld
        /\ a.key = k /\ a.byte = code
    BY <1>2 DEF Items
  <2>3. ItemOK(a) /\ ~IsExtended(a)
    BY <1>3, <2>2 DEF ItemOK, IsExtended
  <2> HIDE DEF a, code, e
  <2>4. e \in Seq(Items) /\ Len(e) = 1 /\ e[1] = a /\ e # <<>>
    BY <2>1, <2>2
  <2>5. ~SecondAt(e, 1) /\ SecondAt(e, 1 + 1) = FALSE
    BY <2>3, <2>4 DEF SecondAt
  <2>6. ShiftAt(e, 1, later) = ShiftHeld /\ ShiftAt(e, 1 + 1, later) = later
    BY <2>2, <2>4 DEF ShiftAt
  <2>7. IsShift(a) = (k[1] = "plain" /\ k[2] \in ShiftMake)
    BY <2>2 DEF IsShift
  <2>8. Follows(e, 1, later)
    BY <2>2, <2>4, <2>5, <2>6, <2>7 DEF Follows
  <2>9. \A i \in 1 .. Len(e) : i = 1
    BY <2>4
  <2>10. QED
    BY <2>2, <2>3, <2>4, <2>5, <2>8, <2>9 DEF e
<1>4. CASE k[1] = "extended"
  <2> DEFINE a == item(E0, FALSE)
             d == item(code, TRUE)
  <2>1. e = <<a, d>>
    BY <1>4 DEF Edge
  <2>2. /\ a \in Items /\ a.last = FALSE /\ a.make = make /\ a.shift = ShiftHeld
        /\ a.key = k /\ a.byte = E0
        /\ d \in Items /\ d.last = TRUE /\ d.make = make /\ d.shift = ShiftHeld
        /\ d.key = k /\ d.byte = code
    BY <1>2 DEF Items
  <2>3. ItemOK(a) /\ IsExtended(a) /\ ItemOK(d) /\ IsExtended(d)
    BY <1>4, <2>2 DEF ItemOK, IsExtended
  <2> HIDE DEF a, d, code, e
  <2>4. e \in Seq(Items) /\ Len(e) = 2 /\ e[1] = a /\ e[2] = d /\ e # <<>>
    BY <2>1, <2>2
  <2>5. ~SecondAt(e, 1) /\ SecondAt(e, 1 + 1) = TRUE /\ SecondAt(e, 2 + 1) = FALSE
    BY <2>2, <2>3, <2>4 DEF SecondAt
  <2>6. /\ ShiftAt(e, 1, later) = ShiftHeld /\ ShiftAt(e, 1 + 1, later) = ShiftHeld
        /\ ShiftAt(e, 2, later) = ShiftHeld /\ ShiftAt(e, 2 + 1, later) = later
    BY <2>2, <2>4 DEF ShiftAt
  <2>7. IsShift(a) = FALSE /\ IsShift(d) = FALSE
    BY <1>4, <2>2 DEF IsShift
  <2>8. Follows(e, 1, later) /\ Follows(e, 2, later)
    BY <1>4, <2>2, <2>4, <2>5, <2>6, <2>7 DEF Follows
  <2>9. \A i \in 1 .. Len(e) : i = 1 \/ i = 2
    BY <2>4
  <2>10. QED
    BY <2>2, <2>3, <2>4, <2>5, <2>8, <2>9 DEF e
<1>5. QED
  BY <1>1, <1>3, <1>4

\* A key that moves leaves the wire in order: what the decoder has is about
\* the items that were there before.
LEMMA SendKeeps ==
  ASSUME DeviceInv, NEW k \in PhysicalKeys, NEW make \in BOOLEAN, Send(k, make),
         held' \subseteq PhysicalKeys,
         (IF k[1] = "plain" /\ k[2] \in ShiftMake THEN make ELSE ShiftHeld) => ShiftHeld'
  PROVE  DeviceInv' /\ Len(wire') > Len(wire)
<1> DEFINE e == Edge(k, make)
<1>1. wire' = wire \o e /\ UNCHANGED vars
  BY DEF Send
<1>2. ShiftHeld \in BOOLEAN
  BY DEF ShiftHeld
<1>3. /\ e \in Seq(Items) /\ e # <<>> /\ Len(e) \in {1, 2}
      /\ e[1].shift = ShiftHeld /\ ~SecondAt(e, 1)
      /\ \A i \in 1 .. Len(e) : ItemOK(e[i]) /\ Follows(e, i, ShiftHeld')
  BY <1>2, EdgeIs
<1> HIDE DEF e
<1>4. WireOK(wire, ShiftHeld)
  BY DEF DeviceInv
<1>5. /\ WireOK(wire \o e, ShiftHeld')
      /\ SecondAt(wire \o e, 1) = SecondAt(wire, 1)
      /\ ShiftAt(wire \o e, 1, ShiftHeld') = ShiftAt(wire, 1, ShiftHeld)
  BY <1>3, <1>4, WireGrows
<1>6. IInv'
  BY <1>1, NextKeepsIInv DEF DeviceInv
<1>7. Len(wire') = Len(wire) + Len(e) /\ Len(wire) \in Nat
  BY <1>1, <1>3, <1>4, ConcatProperties DEF WireOK
<1>8. e0_prefix' = e0_prefix /\ shiftPressed' = shiftPressed
  BY <1>1 DEF vars, mods
<1>9. QED
  BY <1>1, <1>3, <1>5, <1>6, <1>7, <1>8 DEF DeviceInv

\* A key that goes down or up says so on the wire.
LEMMA KeyMoves ==
  ASSUME DeviceInv, NEW k \in PhysicalKeys, Press(k) \/ Release(k)
  PROVE  DeviceInv' /\ Len(wire') > Len(wire) /\ UNCHANGED vars
<1>1. held \subseteq PhysicalKeys
  BY DEF DeviceInv
<1>2. CASE Press(k)
  <2>1. Send(k, TRUE) /\ held' = held \cup {k}
    BY <1>2 DEF Press
  <2>2. (IF k[1] = "plain" /\ k[2] \in ShiftMake THEN TRUE ELSE ShiftHeld) => ShiftHeld'
    BY <2>1 DEF ShiftHeld
  <2>3. held' \subseteq PhysicalKeys /\ TRUE \in BOOLEAN
    BY <1>1, <2>1
  <2>4. QED
    BY <2>1, <2>2, <2>3, SendKeeps DEF Send
<1>3. CASE Release(k)
  <2>1. Send(k, FALSE) /\ held' = held \ {k}
    BY <1>3 DEF Release
  <2>2. (IF k[1] = "plain" /\ k[2] \in ShiftMake THEN FALSE ELSE ShiftHeld) => ShiftHeld'
    BY <2>1 DEF ShiftHeld
  <2>3. held' \subseteq PhysicalKeys /\ FALSE \in BOOLEAN
    BY <1>1, <2>1
  <2>4. QED
    BY <2>1, <2>2, <2>3, SendKeeps DEF Send
<1>4. QED
  BY <1>2, <1>3

LEMMA DeviceStep == DeviceInv /\ [DeviceNext]_deviceVars => DeviceInv'
<1> SUFFICES ASSUME DeviceInv, [DeviceNext]_deviceVars PROVE DeviceInv'
  OBVIOUS
<1>1. CASE UNCHANGED deviceVars
  <2>1. IInv' /\ UNCHANGED <<held, wire>>
    BY <1>1, NextKeepsIInv DEF DeviceInv, deviceVars
  <2>2. ShiftHeld' = ShiftHeld /\ e0_prefix' = e0_prefix /\ shiftPressed' = shiftPressed
    BY <1>1, <2>1 DEF ShiftHeld, deviceVars, vars, mods
  <2>3. QED
    BY <2>1, <2>2 DEF DeviceInv
<1>2. QED
  BY <1>1, DeliverKeeps, KeyMoves DEF DeviceNext

\* For every set of keys, extended keys with fake Shift codes included, and
\* every order in which they go down, repeat and go up: once every byte is
\* delivered the decoder has no half-read key and no Shift stays down that is up.
THEOREM DecoderSettles == DeviceSpec => []Settled
<1>1. DeviceInv => Settled
  <2> SUFFICES ASSUME DeviceInv, wire = <<>> PROVE ~e0_prefix /\ (shiftPressed => ShiftHeld)
    BY DEF Settled
  <2>1. Len(wire) = 0
    OBVIOUS
  <2>2. SecondAt(wire, 1) = FALSE /\ ShiftAt(wire, 1, ShiftHeld) = ShiftHeld
    BY <2>1 DEF SecondAt, ShiftAt
  <2>3. QED
    BY <2>2 DEF DeviceInv
<1>2. QED
  BY <1>1, InitDeviceInv, DeviceStep, PTL DEF DeviceSpec

\* What a delivery types is what the key that went down means.
LEMMA DeliverTypes ==
  ASSUME DeviceInv, Deliver
  PROVE  LET types  == fresh' # fresh \/ buf' # buf
             item   == Head(wire)
         IN  /\ types => item.make /\ item.last /\ buf'[lastkey] = Meaning(item.key)
             /\ item.make /\ item.last /\ item.byte # TabMake /\ Meaning(item.key) # NUL =>
                  buf'[lastkey] = Meaning(item.key)
             /\ regsSaved' # regsSaved => item.key[2] = TabMake /\ item.shift
<1> DEFINE item == Head(wire)
           k == KeyOf(item.byte, e0_prefix, shiftPressed, capsLock)
           snap == TakesSnapshot(item.byte, e0_prefix, shiftPressed)
<1>1. wire # <<>> /\ IRQ1(item.byte)
  BY DEF Deliver
<1>2. /\ ItemOK(item) /\ e0_prefix = (item.last /\ IsExtended(item))
      /\ shiftPressed => item.shift
  BY <1>1, HeadIs
<1>3. /\ e0_prefix \in BOOLEAN /\ shiftPressed \in BOOLEAN /\ capsLock \in BOOLEAN
      /\ regsSaved \in BOOLEAN /\ lastkey \in Slots /\ buf \in [Slots -> Byte]
  BY DEF DeviceInv, IInv, TypeOK
<1> HIDE DEF item
<1>4. /\ snap => item.key[2] = TabMake /\ shiftPressed
      /\ k # NUL => item.make /\ item.last
      /\ item.make /\ item.last /\ ~snap =>
           k = IF IsExtended(item) THEN Arrow(item.key[2]) ELSE Translate(item.key[2], capsLock)
  BY <1>2, <1>3, DecodedIs
<1>5. Meaning(item.key) = IF IsExtended(item) THEN Arrow(item.key[2])
                          ELSE Translate(item.key[2], capsLock)
  BY DEF Meaning, IsExtended
<1>6. k # NUL => buf'[lastkey] = k
  BY <1>1, <1>3 DEF IRQ1, pushEvent
<1>7. k = NUL => fresh' = fresh /\ buf' = buf
  BY <1>1 DEF IRQ1, ring, history
<1>8. k # NUL => ~snap
  <2> SUFFICES ASSUME snap PROVE k = NUL
    OBVIOUS
  <2>1. IsPlain(item.byte, e0_prefix) /\ ~e0_prefix
    BY DEF TakesSnapshot, IsPlain
  <2>2. QED
    BY <2>1 DEF KeyOf
<1>9. snap => item.byte = TabMake
  BY DEF TakesSnapshot
<1>10. regsSaved' # regsSaved => snap
  BY <1>1, <1>3 DEF IRQ1
<1> HIDE DEF k, snap
<1>11. fresh' # fresh \/ buf' # buf =>
         item.make /\ item.last /\ buf'[lastkey] = Meaning(item.key)
  BY <1>4, <1>5, <1>6, <1>7, <1>8
<1>12. item.make /\ item.last /\ item.byte # TabMake /\ Meaning(item.key) # NUL =>
         buf'[lastkey] = Meaning(item.key)
  BY <1>4, <1>5, <1>6, <1>9
<1>13. regsSaved' # regsSaved => item.key[2] = TabMake /\ item.shift
  BY <1>2, <1>4, <1>10
<1>14. QED
  BY <1>11, <1>12, <1>13 DEF item

\* For every set of keys: a delivery types exactly the key that went down, an
\* arrow for an E0 code and never the plain key with the same code.
THEOREM PressedIsTyped == DeviceSpec => TypesWhatIsPressed
<1> DEFINE Action == LET types  == fresh' # fresh \/ buf' # buf
                         item   == Head(wire)
                     IN  Len(wire') < Len(wire) =>
                           /\ types => /\ item.make /\ item.last
                                        /\ buf'[lastkey] = Meaning(item.key)
                           /\ (item.make /\ item.last /\ item.byte # TabMake
                                /\ Meaning(item.key) # NUL) => buf'[lastkey] = Meaning(item.key)
<1>1. DeviceInv /\ [DeviceNext]_deviceVars => [Action]_deviceVars
  <2> SUFFICES ASSUME DeviceInv, DeviceNext PROVE Action
    OBVIOUS
  <2>1. CASE Deliver
    BY <2>1, DeliverTypes
  <2>2. ASSUME NEW k \in PhysicalKeys, Press(k) \/ Release(k) PROVE Action
    <3>1. Len(wire') > Len(wire) /\ Len(wire) \in Nat /\ Len(wire') \in Nat
      BY <2>2, KeyMoves DEF DeviceInv, WireOK
    <3>2. ~(Len(wire') < Len(wire))
      BY <3>1
    <3>3. QED
      BY <3>2
  <2>3. QED
    BY <2>1, <2>2 DEF DeviceNext
<1>2. QED
  BY <1>1, InitDeviceInv, DeviceStep, PTL DEF DeviceSpec, TypesWhatIsPressed

\* For every set of keys: only a Tab pressed while a Shift key is down takes a
\* register snapshot, however late its byte is delivered.
THEOREM SnapshotByShiftTab == DeviceSpec => SnapshotNeedsShift
<1>1. DeviceInv /\ [DeviceNext]_deviceVars =>
        (regsSaved' # regsSaved => Head(wire).key[2] = TabMake /\ Head(wire).shift)
  <2> SUFFICES ASSUME DeviceInv, [DeviceNext]_deviceVars, regsSaved' # regsSaved
               PROVE  Head(wire).key[2] = TabMake /\ Head(wire).shift
    OBVIOUS
  <2>1. ASSUME UNCHANGED vars PROVE FALSE
    BY <2>1 DEF vars, mods
  <2>2. Deliver
    BY <2>1, KeyMoves DEF DeviceNext, deviceVars
  <2>3. QED
    BY <2>2, DeliverTypes
<1>2. QED
  BY <1>1, InitDeviceInv, DeviceStep, PTL DEF DeviceSpec, SnapshotNeedsShift
==============================================================================

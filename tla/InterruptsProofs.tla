--------------------------- MODULE InterruptsProofs ---------------------------
(***************************************************************************)
(* Safety of the interrupt handlers and of the tick count, for a counter   *)
(* of any width and sleeps of any length.                                  *)
(***************************************************************************)
EXTENDS Interrupts, TLAPS

\* The value of a sum of at most two ranges of the counter, reduced.
LEMMA Reduce ==
  ASSUME NEW x \in 0 .. 2 * Modulus
  PROVE  x % Modulus = IF x < Modulus THEN x
                       ELSE IF x < 2 * Modulus THEN x - Modulus ELSE 0
<1>1. CASE x \in 0 .. Modulus - 1
  BY <1>1, ModulusAssumption
<1>2. CASE x \in Modulus .. 2 * Modulus - 1
  <2>1. x % Modulus = x - Modulus
    BY <1>2, ModulusAssumption
  <2>2. QED
    BY <2>1, <1>2, ModulusAssumption
<1>3. CASE x = 2 * Modulus
  <2>1. x % Modulus = 0
    BY <1>3, ModulusAssumption
  <2>2. QED
    BY <2>1, <1>3, ModulusAssumption
<1>4. QED
  BY <1>1, <1>2, <1>3, ModulusAssumption

\* A reduced number is in the range of the counter.
LEMMA InRange == ASSUME NEW x \in Nat PROVE x % Modulus \in 0 .. Modulus - 1
BY ModulusAssumption

\* The counter after one more.
LEMMA Successor ==
  ASSUME NEW n \in 0 .. Modulus - 1
  PROVE  (n + 1) % Modulus = IF n + 1 < Modulus THEN n + 1 ELSE 0
<1>1. n + 1 \in 0 .. 2 * Modulus
  BY ModulusAssumption
<1>2. QED
  BY <1>1, Reduce, ModulusAssumption

\* One more before or after the reduction.
LEMMA ReduceSuccessor ==
  ASSUME NEW x \in 0 .. 2 * Modulus - 1
  PROVE  (x + 1) % Modulus = ((x % Modulus) + 1) % Modulus
<1> DEFINE r == x % Modulus
<1>1. x \in 0 .. 2 * Modulus /\ x + 1 \in 0 .. 2 * Modulus /\ x \in Nat
  BY ModulusAssumption
<1>2. r = (IF x < Modulus THEN x ELSE x - Modulus) /\ r \in 0 .. Modulus - 1
  BY <1>1, Reduce, InRange, ModulusAssumption
<1> DEFINE y == x + 1
<1> HIDE DEF r, y
<1>3. y % Modulus = IF y < Modulus THEN y
        ELSE IF y < 2 * Modulus THEN y - Modulus ELSE 0
  <2>1. y \in 0 .. 2 * Modulus
    BY <1>1 DEF y
  <2>2. QED
    BY <2>1, Reduce
<1>4. (r + 1) % Modulus = IF r + 1 < Modulus THEN r + 1 ELSE 0
  BY <1>2, Successor
<1>5. y % Modulus = (r + 1) % Modulus
  <2>1. y = x + 1
    BY DEF y
  <2>2. QED
    BY <2>1, <1>1, <1>2, <1>3, <1>4, ModulusAssumption
<1>6. QED
  BY <1>5 DEF r, y

\* The three ways in which the tick count moves: one more tick waits to be
\* counted, one more is lost, and one that waited is counted.
LEMMA OneMoreWaits ==
  ASSUME NEW g \in 0 .. Modulus - 1, NEW l \in 0 .. Modulus - 1, NEW u \in 0 .. 1
  PROVE  (g + (l + (u + 1))) % Modulus = (((g + (l + u)) % Modulus) + 1) % Modulus
<1>1. g + (l + u) \in 0 .. 2 * Modulus - 1 /\ g + (l + (u + 1)) = (g + (l + u)) + 1
  BY ModulusAssumption
<1>2. QED
  BY <1>1, ReduceSuccessor

LEMMA OneMoreLost ==
  ASSUME NEW g \in 0 .. Modulus - 1, NEW l \in 0 .. Modulus - 1, NEW u \in 1 .. 2
  PROVE  (g + (((l + 1) % Modulus) + u)) % Modulus = (((g + (l + u)) % Modulus) + 1) % Modulus
<1> DEFINE k == (l + 1) % Modulus
<1>1. k = (IF l + 1 < Modulus THEN l + 1 ELSE 0)
  BY Successor
<1> HIDE DEF k
<1>2. CASE l + 1 < Modulus
  <2>1. g + (l + u) \in 0 .. 2 * Modulus - 1 /\ g + (k + u) = (g + (l + u)) + 1
    BY <1>1, <1>2, ModulusAssumption
  <2>2. QED
    BY <2>1, ReduceSuccessor DEF k
<1>3. CASE l + 1 = Modulus
  <2> DEFINE x == g + (u - 1)
  <2>1. x \in 0 .. Modulus /\ g + (k + u) = x + 1 /\ g + (l + u) = x + Modulus
    BY <1>1, <1>3, ModulusAssumption
  <2> HIDE DEF x
  <2>2. x \in 0 .. 2 * Modulus - 1 /\ x \in 0 .. 2 * Modulus /\ x + Modulus \in 0 .. 2 * Modulus
    BY <2>1, ModulusAssumption
  <2>3. (x + Modulus) % Modulus = x % Modulus
    <3>1. (x + Modulus) % Modulus = IF x < Modulus THEN x ELSE 0
      BY <2>1, <2>2, Reduce, ModulusAssumption
    <3>2. x % Modulus = IF x < Modulus THEN x ELSE 0
      BY <2>1, <2>2, Reduce, ModulusAssumption
    <3>3. QED
      BY <3>1, <3>2
  <2>4. (x + 1) % Modulus = ((x % Modulus) + 1) % Modulus
    BY <2>2, ReduceSuccessor
  <2>5. QED
    BY <2>1, <2>3, <2>4 DEF k
<1>4. QED
  BY <1>2, <1>3, ModulusAssumption

LEMMA OneIsCounted ==
  ASSUME NEW g \in 0 .. Modulus - 1, NEW l \in 0 .. Modulus - 1, NEW u \in 0 .. 1
  PROVE  (((g + 1) % Modulus) + (l + u)) % Modulus = (g + (l + (u + 1))) % Modulus
<1> DEFINE k == (g + 1) % Modulus
<1>1. k = (IF g + 1 < Modulus THEN g + 1 ELSE 0) /\ k \in 0 .. Modulus - 1
  BY Successor, ModulusAssumption
<1> HIDE DEF k
<1>2. g + (l + (u + 1)) \in 0 .. 2 * Modulus /\ k + (l + u) \in 0 .. 2 * Modulus
  BY <1>1, ModulusAssumption
<1>3. (k + (l + u)) % Modulus = (g + (l + (u + 1))) % Modulus
  BY <1>1, <1>2, Reduce, ModulusAssumption
<1>4. QED
  BY <1>3 DEF k

------------------------------------------------------------------------------
(* The inductive invariant. *)

\* What the controller has in service while a handler with frame f runs.
InService(f) == IF f.at \in {"serve", "eoi_dispatcher"} THEN {f.irq} ELSE {}

Idle    == stack = <<>> /\ isr = {}
Serving == ~intr /\ \E f \in Frame : stack = <<f>> /\ isr = InService(f)

HandlersInv == Idle \/ Serving

IInv == TypeOK /\ HandlersInv /\ EveryTickAccounted

LEMMA InitIInv == Init => IInv
<1> SUFFICES ASSUME Init PROVE IInv
  OBVIOUS
<1>1. 0 \in 0 .. Modulus - 1 /\ Plus(0, 0) = 0
  BY ModulusAssumption, Reduce DEF Plus
<1>2. TypeOK
  <2>1. <<>> \in Seq(Frame) /\ {} \in SUBSET Lines
    OBVIOUS
  <2>2. stack \in Seq(Frame) /\ irr \in SUBSET Lines /\ isr \in SUBSET Lines
    BY <2>1 DEF Init
  <2>3. pc \in Labels
    BY DEF Init, Labels
  <2>4. QED
    BY <1>1, <2>2, <2>3 DEF Init, TypeOK
<1>3. HandlersInv
  BY DEF Init, HandlersInv, Idle
<1>4. Uncounted = 0
  BY DEF Init, Uncounted, InHandler
<1>5. QED
  BY <1>1, <1>2, <1>3, <1>4 DEF IInv, Init, EveryTickAccounted

\* Steps that leave the counters, the latch and the handlers alone.
LEMMA Unrelated ==
  ASSUME IInv, UNCHANGED <<g_ticks, now, lost, stack>>, (0 \in irr') = (0 \in irr)
  PROVE  EveryTickAccounted'
<1>1. Uncounted' = Uncounted
  BY DEF Uncounted, InHandler, Top
<1>2. QED
  BY <1>1 DEF IInv, EveryTickAccounted, Plus

\* The devices raise a line; a tick is either latched or lost.
LEMMA DevicesKeep ==
  ASSUME IInv, Pulse \/ KeyByte
  PROVE  IInv'
<1> USE DEF IInv
<1>1. UNCHANGED <<isr, intr, stack>>
  BY DEF Pulse, KeyByte, cpu
<1>2. HandlersInv'
  BY <1>1 DEF HandlersInv, Idle, Serving
<1>3. CASE KeyByte
  <2>1. TypeOK'
    BY <1>3 DEF KeyByte, TypeOK, cpu, locals, history, Lines
  <2>2. EveryTickAccounted'
    BY <1>3, Unrelated DEF KeyByte, cpu, history
  <2>3. QED
    BY <2>1, <2>2, <1>2
<1>4. CASE Pulse
  <2>1. g_ticks \in 0 .. Modulus - 1 /\ lost \in 0 .. Modulus - 1 /\ now \in 0 .. Modulus - 1
    BY DEF TypeOK
  <2>2. now' \in 0 .. Modulus - 1 /\ lost' \in 0 .. Modulus - 1
    BY <1>4, <2>1, InRange DEF Pulse, Plus
  <2>3. TypeOK'
    <3>1. irr' \in SUBSET Lines /\ paced' \in BOOLEAN
      BY <1>4 DEF Pulse, TypeOK, Lines
    <3>2. QED
      BY <1>4, <2>2, <3>1 DEF Pulse, TypeOK, cpu, locals
  <2>4. UNCHANGED <<g_ticks, stack>> /\ 0 \in irr'
    BY <1>4 DEF Pulse, cpu
  <2> DEFINE u == IF InHandler("serve") /\ Top.irq = 0 THEN 1 ELSE 0
  <2>5. u \in 0 .. 1 /\ u' = u
    BY <2>4 DEF InHandler, Top
  <2>6. Uncounted = (IF 0 \in irr THEN 1 ELSE 0) + u /\ Uncounted' = 1 + u
    BY <2>4, <2>5 DEF Uncounted
  <2>7. now' = (((g_ticks + (lost + Uncounted)) % Modulus) + 1) % Modulus
    BY <1>4 DEF Pulse, Plus, EveryTickAccounted
  <2> HIDE DEF u
  <2>8. CASE 0 \notin irr
    <3>1. lost' = lost /\ Uncounted' = Uncounted + 1 /\ Uncounted \in 0 .. 1
      BY <1>4, <2>8, <2>5, <2>6 DEF Pulse
    <3>2. (g_ticks + (lost + (Uncounted + 1))) % Modulus = now'
      BY <3>1, <2>1, <2>7, OneMoreWaits
    <3>3. QED
      BY <3>1, <3>2, <2>4, <2>3, <1>2 DEF EveryTickAccounted, Plus
  <2>9. CASE 0 \in irr
    <3>1. Uncounted' = Uncounted /\ Uncounted \in 1 .. 2
      BY <2>9, <2>5, <2>6
    <3>2. lost' = (lost + 1) % Modulus
      BY <1>4, <2>9 DEF Pulse, Plus
    <3>3. (g_ticks + (lost' + Uncounted)) % Modulus = now'
      BY <3>1, <3>2, <2>1, <2>7, OneMoreLost
    <3>4. QED
      BY <3>1, <3>3, <2>3, <2>4, <1>2 DEF EveryTickAccounted, Plus
  <2>10. QED
    BY <2>8, <2>9
<1>5. QED
  BY <1>3, <1>4

\* An interrupt is accepted only while no handler runs.
LEMMA AcceptKeeps ==
  ASSUME IInv, NEW i \in Lines, Accept(i)
  PROVE  IInv'
<1> USE DEF IInv
<1> DEFINE f == [irq |-> i, at |-> "serve"]
<1>1. intr /\ Offered(i) /\ irr' = irr \ {i} /\ isr' = isr \cup {i}
  BY DEF Accept, Take
<1>2. stack = <<>> /\ isr = {}
  BY <1>1 DEF HandlersInv, Idle, Serving
<1>3. f \in Frame
  BY DEF Frame
<1>4. stack' = <<f>>
  BY <1>2 DEF Accept, Take
<1>5. HandlersInv'
  <2>1. isr' = InService(f)
    BY <1>1, <1>2 DEF InService
  <2>2. QED
    BY <1>3, <1>4, <2>1 DEF Accept, HandlersInv, Serving
<1>6. TypeOK'
  <2>1. stack' \in Seq(Frame)
    BY <1>3, <1>4
  <2>2. irr' \in SUBSET Lines /\ isr' \in SUBSET Lines
    BY <1>1 DEF TypeOK
  <2>3. pc' \in Labels
    BY DEF Accept, Take, TypeOK, Labels
  <2>4. QED
    BY <2>1, <2>2, <2>3 DEF Accept, Take, TypeOK, locals, history
<1>7. Uncounted' = Uncounted
  <2>1. ~InHandler("serve") /\ Uncounted = IF 0 \in irr THEN 1 ELSE 0
    BY <1>2 DEF InHandler, Uncounted
  <2>2. Len(stack') = 1 /\ stack'[1] = f
    BY <1>4
  <2>3. InHandler("serve")' /\ Top'.irq = i
    BY <2>2, <1>4 DEF InHandler, Top
  <2>4. CASE i = 0
    BY <2>1, <2>3, <2>4, <1>1 DEF Uncounted, Offered
  <2>5. CASE i = 1
    <3>1. (0 \in irr') = (0 \in irr)
      BY <2>5, <1>1
    <3>2. QED
      BY <2>1, <2>3, <2>5, <3>1 DEF Uncounted
  <2>6. QED
    BY <2>4, <2>5 DEF Lines
<1>8. EveryTickAccounted'
  BY <1>7 DEF EveryTickAccounted, Accept, Take, history
<1>9. QED
  BY <1>5, <1>6, <1>8

\* The frame of the handler that runs, and the stack after a step of it.
LEMMA TheHandler ==
  ASSUME HandlersInv, NEW at, InHandler(at)
  PROVE  \E f \in Frame : /\ stack = <<f>> /\ Top = f /\ f.at = at
                          /\ ~intr /\ isr = InService(f)
                          /\ \A to : Advance(to) => stack' = <<[f EXCEPT !.at = to]>>
<1>1. stack # <<>>
  BY DEF InHandler
<1>2. PICK f \in Frame : stack = <<f>> /\ ~intr /\ isr = InService(f)
  BY <1>1 DEF HandlersInv, Idle, Serving
<1>3. Len(stack) = 1 /\ stack[1] = f
  BY <1>2
<1>4. Top = f /\ f.at = at
  BY <1>3 DEF Top, InHandler
<1>5. ASSUME NEW to, Advance(to) PROVE stack' = <<[f EXCEPT !.at = to]>>
  BY <1>2, <1>3, <1>5 DEF Advance
<1>6. QED
  BY <1>2, <1>4, <1>5

\* Each handler counts its tick once and ends its own interrupt; the second end
\* of interrupt changes nothing.
LEMMA HandlerStepKeeps ==
  ASSUME IInv, Serve \/ EoiDispatcher \/ EoiAsm \/ Iretq
  PROVE  IInv'
<1> USE DEF IInv
<1>1. CASE Serve
  <2>1. PICK f \in Frame : /\ stack = <<f>> /\ Top = f /\ f.at = "serve"
                           /\ ~intr /\ isr = InService(f)
                           /\ stack' = <<[f EXCEPT !.at = "eoi_dispatcher"]>>
    BY <1>1, TheHandler DEF Serve
  <2> DEFINE h == [f EXCEPT !.at = "eoi_dispatcher"]
  <2>2. h \in Frame /\ InService(h) = InService(f) /\ h.at = "eoi_dispatcher" /\ h.irq = f.irq
    BY <2>1 DEF Frame, InService
  <2>3. UNCHANGED <<irr, isr, intr, shadow, pc, start, ticks_to_wait, now, lost, entered, paced>>
    BY <1>1 DEF Serve, pic, locals, history
  <2>4. HandlersInv'
    BY <2>1, <2>2, <2>3 DEF HandlersInv, Serving
  <2>5. g_ticks' \in 0 .. Modulus - 1
    <3>1. g_ticks \in 0 .. Modulus - 1 /\ g_ticks + 1 \in Nat
      BY DEF TypeOK
    <3>2. (g_ticks + 1) % Modulus \in 0 .. Modulus - 1
      BY <3>1, InRange
    <3>3. g_ticks' = g_ticks \/ g_ticks' = (g_ticks + 1) % Modulus
      BY <1>1 DEF Serve, Plus
    <3>4. QED
      BY <3>1, <3>2, <3>3
  <2>6. TypeOK'
    BY <2>1, <2>2, <2>3, <2>5 DEF TypeOK
  <2>7. Len(stack') = 1 /\ stack'[1] = h /\ stack' # <<>>
    BY <2>1
  <2>8. ~InHandler("serve")' /\ InHandler("serve") /\ Top.irq = f.irq
    BY <2>1, <2>2, <2>7, <1>1 DEF InHandler, Top, Serve
  <2> DEFINE v == IF 0 \in irr THEN 1 ELSE 0
  <2>9. v \in 0 .. 1 /\ Uncounted' = v /\ Uncounted = v + (IF f.irq = 0 THEN 1 ELSE 0)
    BY <2>3, <2>8 DEF Uncounted
  <2> HIDE DEF v
  <2>10. CASE f.irq = 0
    <3>1. g_ticks' = (g_ticks + 1) % Modulus /\ Uncounted = v + 1
      BY <1>1, <2>1, <2>9, <2>10 DEF Serve, Plus
    <3>2. (g_ticks' + (lost + v)) % Modulus = (g_ticks + (lost + (v + 1))) % Modulus
      BY <3>1, <2>9, OneIsCounted DEF TypeOK
    <3>3. QED
      BY <3>1, <3>2, <2>9, <2>3, <2>4, <2>6 DEF EveryTickAccounted, Plus
  <2>11. CASE f.irq # 0
    <3>1. g_ticks' = g_ticks /\ Uncounted' = Uncounted
      BY <1>1, <2>1, <2>9, <2>11 DEF Serve
    <3>2. QED
      BY <3>1, <2>3, <2>4, <2>6 DEF EveryTickAccounted
  <2>12. QED
    BY <2>10, <2>11
<1>2. ASSUME NEW from \in {"eoi_dispatcher", "eoi_asm"}, NEW to \in {"eoi_asm", "iretq"},
             InHandler(from), EndOfInterrupt, Advance(to),
             UNCHANGED <<irr, intr, shadow, pc, g_ticks, locals, history>>
      PROVE  IInv'
  <2>1. PICK f \in Frame : /\ stack = <<f>> /\ f.at = from
                           /\ ~intr /\ isr = InService(f)
                           /\ stack' = <<[f EXCEPT !.at = to]>>
    BY <1>2, TheHandler
  <2> DEFINE h == [f EXCEPT !.at = to]
  <2>2. h \in Frame /\ InService(h) = {} /\ h.at = to
    BY <2>1 DEF Frame, InService
  <2>3. isr' = {}
    BY <1>2, <2>1 DEF EndOfInterrupt, InService, Frame, Lines
  <2>4. HandlersInv'
    BY <1>2, <2>1, <2>2, <2>3 DEF HandlersInv, Serving
  <2>5. TypeOK'
    BY <1>2, <2>1, <2>2, <2>3 DEF TypeOK, locals, history
  <2>6. Len(stack) = 1 /\ stack[1] = f /\ Len(stack') = 1 /\ stack'[1] = h
    BY <2>1
  <2>7. ~InHandler("serve") /\ ~InHandler("serve")'
    BY <2>1, <2>2, <2>6 DEF InHandler, Top
  <2>8. EveryTickAccounted'
    BY <1>2, <2>7 DEF EveryTickAccounted, Uncounted, history
  <2>9. QED
    BY <2>4, <2>5, <2>8
<1>3. CASE EoiDispatcher
  BY <1>2, <1>3 DEF EoiDispatcher
<1>4. CASE EoiAsm
  BY <1>2, <1>4 DEF EoiAsm
<1>5. CASE Iretq
  <2>1. PICK f \in Frame : stack = <<f>> /\ Top = f /\ f.at = "iretq" /\ isr = InService(f)
    BY <1>5, TheHandler DEF Iretq
  <2>2. stack' = <<>>
    <3>1. Len(stack) = 1
      BY <2>1
    <3>2. stack' = SubSeq(stack, 1, 0)
      BY <3>1, <1>5 DEF Iretq
    <3>3. QED
      BY <3>2, <2>1
  <2>3. isr' = {}
    BY <1>5, <2>1 DEF Iretq, InService, pic
  <2>4. HandlersInv'
    BY <2>2, <2>3 DEF HandlersInv, Idle
  <2>5. TypeOK'
    BY <1>5, <2>2 DEF Iretq, TypeOK, pic, locals, history
  <2>6. ~InHandler("serve") /\ ~InHandler("serve")'
    BY <2>1, <2>2 DEF InHandler
  <2>7. EveryTickAccounted'
    BY <1>5, <2>6 DEF Iretq, EveryTickAccounted, Uncounted, pic, history
  <2>8. QED
    BY <2>4, <2>5, <2>7
<1>6. QED
  BY <1>1, <1>3, <1>4, <1>5

\* The program runs only while no handler does.
LEMMA ProgramKeeps ==
  ASSUME IInv, Program
  PROVE  IInv'
<1> USE DEF IInv
<1>1. stack = <<>> /\ stack' = <<>> /\ UNCHANGED <<irr, isr, g_ticks, now, lost>>
  BY DEF Program, Sleeping, Syscall, SyscallReturn, SleepCall, SleepStart, SleepTest,
         Sti, Hlt, SleepReturn, Step, pic, history
<1>2. HandlersInv'
  BY <1>1 DEF HandlersInv, Idle, Serving
<1>3. EveryTickAccounted'
  BY <1>1, Unrelated
<1>4. TypeOK'
  <2>1. pc' \in Labels
    BY DEF Program, Sleeping, Syscall, SyscallReturn, SleepCall, SleepStart, SleepTest,
           Sti, Hlt, SleepReturn, Step, Labels
  <2>2. intr' \in BOOLEAN /\ shadow' \in BOOLEAN /\ paced' \in BOOLEAN
    BY DEF Program, Sleeping, Syscall, SyscallReturn, SleepCall, SleepStart, SleepTest,
           Sti, Hlt, SleepReturn, TypeOK, history
  <2>3. start' \in 0 .. Modulus - 1 /\ ticks_to_wait' \in 0 .. Modulus - 1
        /\ entered' \in 0 .. Modulus - 1
    <3>1. SleepTicks \subseteq 0 .. Modulus - 1
      BY SleepAssumption, ModulusAssumption
    <3>2. QED
      BY <3>1
         DEF Program, Sleeping, Syscall, SyscallReturn, SleepCall, SleepStart, SleepTest,
             Sti, Hlt, SleepReturn, TypeOK, history, locals
  <2>4. QED
    BY <1>1, <2>1, <2>2, <2>3 DEF TypeOK
<1>5. QED
  BY <1>2, <1>3, <1>4

LEMMA NextKeepsIInv == IInv /\ [Next]_vars => IInv'
<1> SUFFICES ASSUME IInv, [Next]_vars PROVE IInv'
  OBVIOUS
<1>1. CASE Pulse \/ KeyByte
  BY <1>1, DevicesKeep
<1>2. CASE Handler
  BY <1>2, AcceptKeeps, HandlerStepKeeps DEF Handler
<1>3. CASE Program
  BY <1>3, ProgramKeeps
<1>4. CASE UNCHANGED vars
  BY <1>4, Unrelated DEF IInv, TypeOK, HandlersInv, Idle, Serving, vars, pic, cpu, locals, history
<1>5. QED
  BY <1>1, <1>2, <1>3, <1>4 DEF Next

\* Every behaviour of the system keeps the inductive invariant.
THEOREM InductiveInvariant == Spec => []IInv
BY InitIInv, NextKeepsIInv, PTL DEF Spec

\* Every variable keeps its type, for a counter of any width.
THEOREM TypeCorrect == Spec => []TypeOK
<1>1. IInv => TypeOK
  BY DEF IInv
<1>2. QED
  BY <1>1, InductiveInvariant, PTL

\* Handlers never nest, although neither of them masks anything itself.
THEOREM HandlersNeverNest == Spec => []HandlersRunAlone
<1>1. IInv => HandlersRunAlone
  <2> SUFFICES ASSUME IInv PROVE Len(stack) <= 1 /\ (stack # <<>> => ~intr)
    BY DEF HandlersRunAlone
  <2>1. CASE stack = <<>>
    BY <2>1
  <2>2. CASE Serving
    <3>1. Len(stack) = 1
      BY <2>2 DEF Serving
    <3>2. QED
      BY <2>2, <3>1 DEF Serving
  <2>3. QED
    BY <2>1, <2>2 DEF IInv, HandlersInv, Idle
<1>2. QED
  BY <1>1, InductiveInvariant, PTL

\* The second end of interrupt never ends another handler's interrupt.
THEOREM SecondEoiIsHarmless == Spec => []SecondEoiHarmless
<1>1. IInv => SecondEoiHarmless
  <2> SUFFICES ASSUME IInv, InHandler("eoi_asm") PROVE isr = {}
    BY DEF SecondEoiHarmless
  <2>1. PICK f \in Frame : f.at = "eoi_asm" /\ isr = InService(f)
    BY TheHandler DEF IInv
  <2>2. QED
    BY <2>1 DEF InService
<1>2. QED
  BY <1>1, InductiveInvariant, PTL

\* Every period of the timer is counted once, lost, or about to be counted, for
\* a counter of any width and through any number of wraps.
THEOREM TicksAccounted == Spec => []EveryTickAccounted
<1>1. IInv => EveryTickAccounted
  BY DEF IInv
<1>2. QED
  BY <1>1, InductiveInvariant, PTL

------------------------------------------------------------------------------
(* The bounds of a sleep. *)

\* Counting on from n, once more, while the count does not pass two widths.
LEMMA CountOn ==
  ASSUME NEW x \in 0 .. Modulus - 1, NEW n \in 0 .. Modulus
  PROVE  Plus(Plus(x, n), 1) = Plus(x, n + 1)
<1>1. x + n \in 0 .. 2 * Modulus - 1 /\ (x + n) + 1 = x + (n + 1)
  BY ModulusAssumption
<1>2. ((x + n) + 1) % Modulus = (((x + n) % Modulus) + 1) % Modulus
  BY <1>1, ReduceSuccessor
<1>3. QED
  BY <1>1, <1>2 DEF Plus

\* The unsigned difference is the distance, also across a wrap.
LEMMA Distance ==
  ASSUME NEW x \in 0 .. Modulus - 1, NEW n \in 0 .. Modulus - 1
  PROVE  Minus(Plus(x, n), x) = n
<1>1. x + n \in 0 .. 2 * Modulus /\ x + n < 2 * Modulus
  BY ModulusAssumption
<1> DEFINE y == x + n
<1> HIDE DEF y
<1>2. Plus(x, n) = IF x + n < Modulus THEN x + n ELSE x + n - Modulus
  <2>1. y \in 0 .. 2 * Modulus /\ y < 2 * Modulus
    BY <1>1 DEF y
  <2>2. y % Modulus = IF y < Modulus THEN y ELSE y - Modulus
    BY <2>1, Reduce
  <2>3. Plus(x, n) = IF y < Modulus THEN y ELSE y - Modulus
    BY <2>2 DEF Plus, y
  <2>4. QED
    BY <2>3, ModulusAssumption DEF y
<1>3. n % Modulus = n
  BY ModulusAssumption
<1>4. (n - Modulus) % Modulus = n
  BY ModulusAssumption
<1>5. CASE x + n < Modulus
  <2>1. Plus(x, n) - x = n
    BY <1>2, <1>5, ModulusAssumption
  <2>2. QED
    BY <2>1, <1>3 DEF Minus
<1>6. CASE ~(x + n < Modulus)
  <2>1. Plus(x, n) - x = n - Modulus
    BY <1>2, <1>6, ModulusAssumption
  <2>2. QED
    BY <2>1, <1>4 DEF Minus
<1>7. QED
  BY <1>5, <1>6

\* How the ticks that wait to be counted move.
LEMMA UncountedRange ==
  /\ Uncounted \in 0 .. 2
  /\ stack = <<>> => Uncounted = IF 0 \in irr THEN 1 ELSE 0
BY DEF Uncounted, InHandler

LEMMA PulseWaits ==
  ASSUME Pulse, pc # "kernel"
  PROVE  Uncounted' = Uncounted + 1
<1>1. 0 \notin irr /\ 0 \in irr' /\ stack' = stack
  BY DEF Pulse, cpu
<1>2. (InHandler("serve") /\ Top.irq = 0)' = (InHandler("serve") /\ Top.irq = 0)
  BY <1>1 DEF InHandler, Top
<1>3. QED
  BY <1>1, <1>2 DEF Uncounted

LEMMA AcceptMoves ==
  ASSUME IInv, NEW i \in Lines, Accept(i)
  PROVE  Uncounted' = Uncounted
<1> DEFINE f == [irq |-> i, at |-> "serve"]
<1>1. intr /\ Offered(i) /\ irr' = irr \ {i}
  BY DEF Accept, Take
<1>2. stack = <<>>
  BY <1>1 DEF IInv, HandlersInv, Idle, Serving
<1>3. stack' = <<f>>
  BY <1>2 DEF Accept, Take
<1>4. Len(stack') = 1 /\ stack'[1] = f
  BY <1>3
<1>5. InHandler("serve")' /\ Top'.irq = i /\ ~InHandler("serve")
  BY <1>2, <1>4, <1>3 DEF InHandler, Top
<1>6. CASE i = 0
  BY <1>1, <1>5, <1>6 DEF Uncounted, Offered
<1>7. CASE i = 1
  <2>1. (0 \in irr') = (0 \in irr)
    BY <1>1, <1>7
  <2>2. QED
    BY <2>1, <1>5, <1>7 DEF Uncounted
<1>8. QED
  BY <1>6, <1>7 DEF Lines

LEMMA ServeCounts ==
  ASSUME IInv, Serve
  PROVE  \/ g_ticks' = Plus(g_ticks, 1) /\ Uncounted = Uncounted' + 1
         \/ g_ticks' = g_ticks /\ Uncounted' = Uncounted
<1>1. PICK f \in Frame : /\ stack = <<f>> /\ Top = f /\ f.at = "serve"
                         /\ stack' = <<[f EXCEPT !.at = "eoi_dispatcher"]>>
  BY TheHandler DEF Serve, IInv
<1> DEFINE h == [f EXCEPT !.at = "eoi_dispatcher"]
<1>2. h.at = "eoi_dispatcher" /\ Len(stack') = 1 /\ stack'[1] = h /\ irr' = irr
  BY <1>1 DEF Frame, Serve, pic
<1>3. ~InHandler("serve")' /\ InHandler("serve") /\ Top.irq = f.irq
  BY <1>1, <1>2 DEF InHandler, Top, Serve
<1>4. /\ Uncounted' = IF 0 \in irr THEN 1 ELSE 0
      /\ Uncounted = (IF 0 \in irr THEN 1 ELSE 0) + (IF f.irq = 0 THEN 1 ELSE 0)
  BY <1>2, <1>3 DEF Uncounted
<1>5. g_ticks' = IF f.irq = 0 THEN Plus(g_ticks, 1) ELSE g_ticks
  BY <1>1 DEF Serve
<1>6. QED
  BY <1>4, <1>5

LEMMA EndsKeepUncounted ==
  ASSUME IInv, EoiDispatcher \/ EoiAsm \/ Iretq
  PROVE  Uncounted' = Uncounted
<1>1. ASSUME NEW from \in {"eoi_dispatcher", "eoi_asm"}, NEW to \in {"eoi_asm", "iretq"},
             InHandler(from), Advance(to), irr' = irr
      PROVE  Uncounted' = Uncounted
  <2>1. PICK f \in Frame : stack = <<f>> /\ f.at = from /\ stack' = <<[f EXCEPT !.at = to]>>
    BY <1>1, TheHandler DEF IInv
  <2>2. /\ Len(stack) = 1 /\ stack[1] = f
        /\ Len(stack') = 1 /\ stack'[1] = [f EXCEPT !.at = to] /\ stack'[1].at = to
    BY <2>1 DEF Frame
  <2>3. ~InHandler("serve") /\ ~InHandler("serve")'
    BY <2>1, <2>2 DEF InHandler, Top
  <2>4. QED
    BY <1>1, <2>3 DEF Uncounted
<1>2. CASE EoiDispatcher
  BY <1>1, <1>2 DEF EoiDispatcher
<1>3. CASE EoiAsm
  BY <1>1, <1>3 DEF EoiAsm
<1>4. CASE Iretq
  <2>1. PICK f \in Frame : stack = <<f>> /\ Top = f /\ f.at = "iretq"
    BY <1>4, TheHandler DEF Iretq, IInv
  <2>2. Len(stack) = 1
    BY <2>1
  <2>3. stack' = <<>>
    <3>1. stack' = SubSeq(stack, 1, 0)
      BY <2>2, <1>4 DEF Iretq
    <3>2. QED
      BY <3>1, <2>1
  <2>4. ~InHandler("serve") /\ ~InHandler("serve")' /\ irr' = irr
    BY <2>1, <2>3, <1>4 DEF InHandler, Iretq, pic
  <2>5. QED
    BY <2>4 DEF Uncounted
<1>5. QED
  BY <1>2, <1>3, <1>4

\* In a sleep, t periods have passed since the call, g of them and of the u that
\* waited then have been counted, and one more period fits before hlt if the
\* loop is paced.  A pending tick that was there before the call is told from
\* one that came in this round of the loop, which has used the pace up.
Asleep    == {"start", "test", "sti", "hlt", "halted", "woken"}
PaceLeft  == IF paced THEN 1 ELSE 0
Slack     == IF pc \in {"sti", "hlt"} THEN 0 ELSE 1

SleepHas(t, g, u) ==
  /\ now = Plus(entered, t)
  /\ g_ticks = IF pc = "start" THEN g_ticks ELSE Plus(start, g)
  /\ pc = "start" => g = 0
  /\ t + u = g + Uncounted
  /\ t + PaceLeft <= ticks_to_wait + Slack
  /\ pc \in {"start", "test"} /\ paced /\ 0 \in irr => u = 1
  /\ pc = "woken" => g >= ticks_to_wait

SleepInv ==
  /\ pc \in {"user", "kernel"} => paced
  /\ pc = "start" => stack = <<>> /\ ~intr
  /\ pc \in Asleep => /\ ticks_to_wait \in SleepTicks
                      /\ \E t \in Nat, g \in Nat, u \in {0, 1} : SleepHas(t, g, u)

\* Nothing wraps in a sleep.
LEMMA SleepRange ==
  ASSUME IInv, SleepInv, pc \in Asleep,
         NEW t \in Nat, NEW g \in Nat, NEW u \in {0, 1}, SleepHas(t, g, u)
  PROVE  /\ ticks_to_wait \in 0 .. Modulus - 3
         /\ t <= ticks_to_wait + 1 /\ g <= ticks_to_wait + 2
         /\ pc # "start" => Minus(g_ticks, start) = g
         /\ Minus(now, entered) = t
         /\ now = Plus(entered, t)
         /\ entered \in 0 .. Modulus - 1 /\ start \in 0 .. Modulus - 1
<1>1. ticks_to_wait \in 0 .. Modulus - 3
  BY SleepAssumption DEF SleepInv
<1>2. t <= ticks_to_wait + 1 /\ g <= ticks_to_wait + 2
  BY <1>1, UncountedRange, ModulusAssumption DEF SleepHas, PaceLeft, Slack
<1>3. t \in 0 .. Modulus - 1 /\ g \in 0 .. Modulus - 1
  BY <1>1, <1>2, ModulusAssumption
<1>4. entered \in 0 .. Modulus - 1 /\ start \in 0 .. Modulus - 1
  BY DEF IInv, TypeOK
<1>5. Minus(Plus(entered, t), entered) = t /\ Minus(Plus(start, g), start) = g
  BY <1>3, <1>4, Distance
<1>6. QED
  BY <1>1, <1>2, <1>4, <1>5 DEF SleepHas

LEMMA InitSleep == Init => SleepInv
BY DEF Init, SleepInv, Asleep

LEMMA PulseKeepsSleep ==
  ASSUME IInv, SleepInv, Pulse
  PROVE  SleepInv'
<1>1. UNCHANGED <<pc, stack, intr, g_ticks, start, ticks_to_wait, entered>>
  BY DEF Pulse, cpu, locals
<1>2. /\ (pc \in {"user", "kernel"} => paced)'
      /\ (pc = "start" => stack = <<>> /\ ~intr)'
  BY <1>1 DEF Pulse, SleepInv
<1>3. ASSUME pc \in Asleep
      PROVE  \E t \in Nat, g \in Nat, u \in {0, 1} : SleepHas(t, g, u)'
  <2>1. PICK t \in Nat, g \in Nat, u \in {0, 1} : SleepHas(t, g, u)
    BY <1>3 DEF SleepInv
  <2>2. /\ ticks_to_wait \in 0 .. Modulus - 3 /\ t <= ticks_to_wait + 1
        /\ entered \in 0 .. Modulus - 1
    BY <1>3, <2>1, SleepRange
  <2>3. now' = Plus(entered, t + 1)
    <3>1. now' = Plus(Plus(entered, t), 1) /\ t \in 0 .. Modulus
      BY <2>1, <2>2, ModulusAssumption DEF Pulse, SleepHas
    <3>2. QED
      BY <3>1, <2>2, CountOn
  <2>4. Uncounted' = Uncounted + 1 /\ paced /\ ~paced'
    <3>1. pc # "kernel" /\ pc \notin {"user", "kernel"}
      BY <1>3 DEF Asleep
    <3>2. QED
      BY <3>1, PulseWaits DEF Pulse
  <2>5. SleepHas(t + 1, g, u)'
    BY <1>1, <2>1, <2>2, <2>3, <2>4, UncountedRange DEF SleepHas, PaceLeft, Slack
  <2>6. t + 1 \in Nat
    OBVIOUS
  <2>7. QED
    BY <2>5, <2>6
<1>4. QED
  BY <1>1, <1>2, <1>3 DEF SleepInv

\* Steps that only move ticks between the latch, the handler and the counter.
LEMMA HandlerKeepsSleep ==
  ASSUME IInv, SleepInv, Handler \/ KeyByte
  PROVE  SleepInv'
<1>1. CASE KeyByte
  <2>1. UNCHANGED <<pc, stack, intr, g_ticks, start, ticks_to_wait, now, entered, paced>>
        /\ (0 \in irr') = (0 \in irr)
    BY <1>1 DEF KeyByte, cpu, locals, history
  <2>2. Uncounted' = Uncounted
    BY <2>1 DEF Uncounted, InHandler, Top
  <2>3. ASSUME NEW t, NEW g, NEW u, SleepHas(t, g, u) PROVE SleepHas(t, g, u)'
    BY <2>1, <2>2, <2>3 DEF SleepHas, PaceLeft, Slack
  <2>4. QED
    BY <2>1, <2>3 DEF SleepInv
<1>2. ASSUME NEW i \in Lines, Accept(i) PROVE SleepInv'
  <2>1. /\ UNCHANGED <<g_ticks, start, ticks_to_wait, now, entered, paced>>
        /\ intr /\ ~intr' /\ Offered(i) /\ irr' = irr \ {i}
        /\ pc' = IF pc = "halted" THEN "test" ELSE pc
    BY <1>2 DEF Accept, Take, locals, history
  <2>2. Uncounted' = Uncounted
    BY <1>2, AcceptMoves
  <2>3. pc # "start"
    BY <2>1 DEF SleepInv
  <2>4. pc = "halted" => 0 \notin irr'
    BY <2>1 DEF Offered, Lines
  <2>5. ASSUME NEW t, NEW g, NEW u, SleepHas(t, g, u) PROVE SleepHas(t, g, u)'
    BY <2>1, <2>2, <2>3, <2>4, <2>5 DEF SleepHas, PaceLeft, Slack
  <2>6. pc' \in Asleep => pc \in Asleep
    BY <2>1 DEF Asleep
  <2>7. QED
    BY <2>1, <2>3, <2>5, <2>6 DEF SleepInv
<1>3. CASE Serve
  <2>1. /\ UNCHANGED <<pc, irr, intr, start, ticks_to_wait, now, entered, paced>>
        /\ stack # <<>>
    BY <1>3 DEF Serve, pic, locals, history, InHandler
  <2>2. pc # "start"
    BY <2>1 DEF SleepInv
  <2>3. ASSUME pc \in Asleep
        PROVE  \E t \in Nat, g \in Nat, u \in {0, 1} : SleepHas(t, g, u)'
    <3>1. PICK t \in Nat, g \in Nat, u \in {0, 1} : SleepHas(t, g, u)
      BY <2>3 DEF SleepInv
    <3>2. CASE g_ticks' = g_ticks /\ Uncounted' = Uncounted
      <4>1. SleepHas(t, g, u)'
        BY <2>1, <3>1, <3>2 DEF SleepHas, PaceLeft, Slack
      <4>2. QED
        BY <4>1
    <3>3. CASE g_ticks' = Plus(g_ticks, 1) /\ Uncounted = Uncounted' + 1
      <4>1. /\ ticks_to_wait \in 0 .. Modulus - 3 /\ g <= ticks_to_wait + 2
            /\ start \in 0 .. Modulus - 1
        BY <2>3, <3>1, SleepRange
      <4>2. g_ticks' = Plus(start, g + 1)
        <5>1. g_ticks = Plus(start, g) /\ g \in 0 .. Modulus
          BY <2>2, <3>1, <4>1, ModulusAssumption DEF SleepHas
        <5>2. QED
          BY <5>1, <4>1, <3>3, CountOn
      <4>3. Uncounted \in Nat /\ Uncounted' = Uncounted - 1
        BY <3>3, UncountedRange DEF Uncounted
      <4>4. SleepHas(t, g + 1, u)'
        BY <2>1, <2>2, <3>1, <4>1, <4>2, <4>3 DEF SleepHas, PaceLeft, Slack
      <4>5. g + 1 \in Nat
        OBVIOUS
      <4>6. QED
        BY <4>4, <4>5
    <3>4. QED
      BY <1>3, <3>2, <3>3, ServeCounts
  <2>4. QED
    BY <2>1, <2>2, <2>3 DEF SleepInv
<1>4. CASE EoiDispatcher \/ EoiAsm \/ Iretq
  <2>1. /\ UNCHANGED <<pc, irr, g_ticks, start, ticks_to_wait, now, entered, paced>>
        /\ stack # <<>>
    BY <1>4 DEF EoiDispatcher, EoiAsm, Iretq, pic, locals, history, InHandler
  <2>2. pc # "start" /\ Uncounted' = Uncounted
    BY <2>1, <1>4, EndsKeepUncounted DEF SleepInv
  <2>3. ASSUME NEW t, NEW g, NEW u, SleepHas(t, g, u) PROVE SleepHas(t, g, u)'
    BY <2>1, <2>2, <2>3 DEF SleepHas, PaceLeft, Slack
  <2>4. QED
    BY <2>1, <2>2, <2>3 DEF SleepInv
<1>5. QED
  BY <1>1, <1>2, <1>3, <1>4 DEF Handler

\* The loop: a test that fails leaves room for one period before hlt and one
\* after it.
LEMMA ProgramKeepsSleep ==
  ASSUME IInv, SleepInv, Program
  PROVE  SleepInv'
<1>1. /\ stack = <<>> /\ stack' = <<>> /\ UNCHANGED <<irr, g_ticks, now>>
  BY DEF Program, Sleeping, Syscall, SyscallReturn, SleepCall, SleepStart, SleepTest,
         Sti, Hlt, SleepReturn, Step, pic, history
<1>2. Uncounted' = Uncounted /\ Uncounted = (IF 0 \in irr THEN 1 ELSE 0) /\ Uncounted \in 0 .. 1
  BY <1>1, UncountedRange DEF Uncounted, InHandler, Top
<1>3. CASE Syscall \/ SyscallReturn \/ SleepReturn
  BY <1>3 DEF Syscall, SyscallReturn, SleepReturn, Step, SleepInv, Asleep, history
<1>4. ASSUME NEW k \in SleepTicks, SleepCall(k) PROVE SleepInv'
  <2>1. /\ pc' = "start" /\ ~intr' /\ ticks_to_wait' = k /\ entered' = now /\ paced' = paced
        /\ paced
    BY <1>4 DEF SleepCall, Step, SleepInv
  <2>2. k \in Nat /\ Plus(now, 0) = now
    <3>1. k \in 0 .. Modulus - 3 /\ now \in 0 .. Modulus - 1
      BY SleepAssumption DEF IInv, TypeOK
    <3>2. now \in 0 .. 2 * Modulus /\ now < Modulus
      BY <3>1, ModulusAssumption
    <3>3. QED
      BY <3>1, <3>2, Reduce DEF Plus
  <2>3. SleepHas(0, 0, IF 0 \in irr THEN 1 ELSE 0)'
    BY <1>1, <1>2, <2>1, <2>2 DEF SleepHas, PaceLeft, Slack
  <2>4. /\ 0 \in Nat /\ (IF 0 \in irr THEN 1 ELSE 0) \in {0, 1}
        /\ (0 \in irr') = (0 \in irr)
    BY <1>1
  <2>5. \E t \in Nat, g \in Nat, u \in {0, 1} : SleepHas(t, g, u)'
    BY <2>3, <2>4
  <2>6. QED
    BY <1>1, <2>1, <2>5 DEF SleepInv
<1>5. CASE SleepStart
  <2>1. /\ pc = "start" /\ pc' = "test" /\ start' = g_ticks
        /\ UNCHANGED <<intr, ticks_to_wait, entered, paced>>
    BY <1>5 DEF SleepStart, Step, history
  <2>2. Plus(g_ticks, 0) = g_ticks
    <3>1. g_ticks \in 0 .. Modulus - 1
      BY DEF IInv, TypeOK
    <3>2. g_ticks \in 0 .. 2 * Modulus /\ g_ticks < Modulus
      BY <3>1, ModulusAssumption
    <3>3. QED
      BY <3>1, <3>2, Reduce DEF Plus
  <2>3. ASSUME NEW t, NEW g, NEW u, SleepHas(t, g, u) PROVE SleepHas(t, g, u)'
    BY <1>1, <1>2, <2>1, <2>2, <2>3 DEF SleepHas, PaceLeft, Slack
  <2>4. QED
    BY <2>1, <2>3 DEF SleepInv, Asleep
<1>6. CASE SleepTest
  <2>1. /\ pc = "test" /\ UNCHANGED <<intr, start, ticks_to_wait, entered, paced>>
        /\ pc' = IF Minus(g_ticks, start) < ticks_to_wait THEN "sti" ELSE "woken"
    BY <1>6 DEF SleepTest, Step, locals, history
  <2>2. PICK t \in Nat, g \in Nat, u \in {0, 1} : SleepHas(t, g, u)
    BY <2>1 DEF SleepInv, Asleep
  <2>3. Minus(g_ticks, start) = g /\ ticks_to_wait \in Nat /\ t <= ticks_to_wait + 1
    BY <2>1, <2>2, SleepRange DEF Asleep
  <2>4. CASE g < ticks_to_wait
    <3>1. t + PaceLeft <= ticks_to_wait
      BY <1>2, <2>1, <2>2, <2>3, <2>4 DEF SleepHas, PaceLeft
    <3>2. SleepHas(t, g, u)'
      BY <1>1, <1>2, <2>1, <2>2, <2>3, <2>4, <3>1 DEF SleepHas, PaceLeft, Slack
    <3>3. QED
      BY <2>1, <2>3, <2>4, <3>2 DEF SleepInv, Asleep
  <2>5. CASE ~(g < ticks_to_wait)
    <3>1. SleepHas(t, g, u)'
      BY <1>1, <1>2, <2>1, <2>2, <2>3, <2>5 DEF SleepHas, PaceLeft, Slack
    <3>2. QED
      BY <2>1, <2>3, <2>5, <3>1 DEF SleepInv, Asleep
  <2>6. QED
    BY <2>4, <2>5
<1>7. CASE Sti
  <2>1. pc = "sti" /\ pc' = "hlt" /\ UNCHANGED <<start, ticks_to_wait, entered, paced>>
    BY <1>7 DEF Sti, Step, locals, history
  <2>2. ASSUME NEW t, NEW g, NEW u, SleepHas(t, g, u) PROVE SleepHas(t, g, u)'
    BY <1>1, <1>2, <2>1, <2>2 DEF SleepHas, PaceLeft, Slack
  <2>3. QED
    BY <2>1, <2>2 DEF SleepInv, Asleep
<1>8. CASE Hlt
  <2>1. pc = "hlt" /\ pc' = "halted" /\ paced' /\ UNCHANGED <<start, ticks_to_wait, entered>>
    BY <1>8 DEF Hlt, Step, locals
  <2>2. PICK t \in Nat, g \in Nat, u \in {0, 1} : SleepHas(t, g, u)
    BY <2>1 DEF SleepInv, Asleep
  <2>3. ticks_to_wait \in Nat
    BY <2>1, <2>2, SleepRange DEF Asleep
  <2>4. SleepHas(t, g, u)'
    BY <1>1, <1>2, <2>1, <2>2, <2>3 DEF SleepHas, PaceLeft, Slack
  <2>5. QED
    BY <2>1, <2>4 DEF SleepInv, Asleep
<1>9. QED
  BY <1>3, <1>4, <1>5, <1>6, <1>7, <1>8 DEF Program, Sleeping

LEMMA SleepInvariant == Spec => []SleepInv
<1>1. IInv /\ SleepInv /\ [Next]_vars => SleepInv'
  <2> SUFFICES ASSUME IInv, SleepInv, [Next]_vars PROVE SleepInv'
    OBVIOUS
  <2>1. CASE UNCHANGED vars
    <3>1. Uncounted' = Uncounted /\ UNCHANGED <<pc, stack, intr, irr, g_ticks, start,
             ticks_to_wait, now, entered, paced>>
      BY <2>1 DEF vars, pic, cpu, locals, history, Uncounted, InHandler, Top
    <3>2. ASSUME NEW t, NEW g, NEW u, SleepHas(t, g, u) PROVE SleepHas(t, g, u)'
      BY <3>1, <3>2 DEF SleepHas, PaceLeft, Slack
    <3>3. QED
      BY <3>1, <3>2 DEF SleepInv
  <2>2. QED
    BY <2>1, PulseKeepsSleep, HandlerKeepsSleep, ProgramKeepsSleep DEF Next
<1>2. QED
  BY <1>1, InitSleep, InductiveInvariant, PTL DEF Spec

\* A sleep of k ticks takes from k - 1 to k + 1 periods, for a counter of any
\* width and wherever it wraps.
THEOREM SleepsKeepTheirBounds == Spec => []SleepBounds
<1>1. IInv /\ SleepInv => SleepBounds
  <2> SUFFICES ASSUME IInv, SleepInv, pc = "woken"
               PROVE  Minus(now, entered) \in ticks_to_wait - 1 .. ticks_to_wait + 1
    BY DEF SleepBounds
  <2>1. PICK t \in Nat, g \in Nat, u \in {0, 1} : SleepHas(t, g, u)
    BY DEF SleepInv, Asleep
  <2>2. Minus(now, entered) = t /\ ticks_to_wait \in Nat /\ t <= ticks_to_wait + 1
    BY <2>1, SleepRange DEF Asleep
  <2>3. t >= ticks_to_wait - 1
    BY <2>1, <2>2, UncountedRange DEF SleepHas
  <2>4. QED
    BY <2>2, <2>3
<1>2. QED
  BY <1>1, InductiveInvariant, SleepInvariant, PTL
=============================================================================

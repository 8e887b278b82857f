------------------------------ MODULE Interrupts ------------------------------
(***************************************************************************)
(* Interrupts and the system timer: the 8259 interrupt controller and the  *)
(* PIT (external), the two interrupt handlers step by step, and the code   *)
(* that depends on them: system calls that run with interrupts off, and    *)
(* sleep_ms with its test-then-halt loop.                                  *)
(*                                                                         *)
(* One tick is one period of the PIT, 1 ms at the 1000 Hz of timer_init.   *)
(***************************************************************************)
EXTENDS Integers, Sequences

CONSTANTS
  Modulus,      \* g_ticks counts modulo this, 2^64 in the program
  SleepTicks    \* the sleeps to consider, in ticks

ASSUME ModulusAssumption == Modulus \in Nat /\ Modulus > 1
\* The ticks of a sleep are a product in the width of the counter divided by a
\* thousand, so none comes near that width.
ASSUME SleepAssumption   == SleepTicks \subseteq 0 .. Modulus - 3

VARIABLES
  intr,       \* the CPU's interrupt flag
  shadow,     \* the instruction after sti has not finished
  irr, isr,   \* 8259: lines raised and not taken; taken and not ended
  stack,      \* interrupt frames, innermost last
  g_ticks,    \* ticks counted by the handler
  pc,         \* next step of the interrupted program
  start, ticks_to_wait,   \* locals of sleep_ms
  now,        \* history: PIT periods since the boot, modulo Modulus
  lost,       \* history: periods whose tick was never counted, modulo Modulus
  entered,    \* history: now when sleep_ms was called
  paced       \* history: the sleep loop has got as far as hlt since the last tick

pic     == <<irr, isr>>
cpu     == <<intr, shadow, stack, pc>>
locals  == <<start, ticks_to_wait>>
history == <<now, lost, entered, paced>>
vars    == <<pic, cpu, g_ticks, locals, history>>

Lines == {0, 1}     \* IRQ0, the timer, has priority over IRQ1, the keyboard
Frame == [irq : Lines, at : {"serve", "eoi_dispatcher", "eoi_asm", "iretq"}]
Labels == {"user", "kernel", "start", "test", "sti", "hlt", "halted", "woken"}

\* Mutant: a counter that does not wrap.
PlusNoWrap(a, b) == a + b

Plus(a, b)  == (a + b) % Modulus
Minus(a, b) == (a - b) % Modulus

Init ==
  /\ intr = TRUE /\ shadow = FALSE /\ irr = {} /\ isr = {} /\ stack = <<>>
  /\ g_ticks = 0 /\ pc = "user" /\ start = 0 /\ ticks_to_wait = 0
  /\ now = 0 /\ lost = 0 /\ entered = 0 /\ paced = TRUE

------------------------------------------------------------------------------
(* The devices. *)

\* The line of IRQ0 latches one tick: another one before it is taken is lost.
\* Only a system call that keeps interrupts off may last a period; the sleep
\* loop reaches hlt within one.
Pulse ==
  /\ pc = "kernel" \/ (0 \notin irr /\ paced)
  /\ irr' = irr \cup {0}
  /\ now' = Plus(now, 1)
  /\ lost' = IF 0 \in irr THEN Plus(lost, 1) ELSE lost
  /\ paced' = (pc \in {"user", "kernel"})
  /\ UNCHANGED <<isr, cpu, g_ticks, locals, entered>>

KeyByte ==
  /\ 1 \notin irr
  /\ irr' = irr \cup {1}
  /\ UNCHANGED <<isr, cpu, g_ticks, locals, history>>

------------------------------------------------------------------------------
(* The handlers. *)

\* The controller offers its first raised line unless that line or a better
\* one is in service.
Offered(i) == /\ i \in irr
              /\ \A j \in irr \cup isr : i < j \/ (i = j /\ i \notin isr)

Take(i) ==
  /\ intr /\ ~shadow
  /\ Offered(i)
  /\ irr' = irr \ {i} /\ isr' = isr \cup {i}
  /\ stack' = Append(stack, [irq |-> i, at |-> "serve"])
  /\ pc' = IF pc = "halted" THEN "test" ELSE pc
  /\ UNCHANGED <<shadow, g_ticks, locals, history>>

\* Mutant: the entries of the IDT are trap gates, which leave the flag alone.
AcceptByTrapGate(i) == Take(i) /\ UNCHANGED intr

\* Every entry of the IDT is an interrupt gate (type 0x8E).
Accept(i) == Take(i) /\ intr' = FALSE

Top == stack[Len(stack)]
InHandler(at) == stack # <<>> /\ Top.at = at
Advance(to) == stack' = [stack EXCEPT ![Len(stack)].at = to]

\* Mutant: the dispatcher counts a tick for every interrupt.
ServeCountsAll ==
  /\ InHandler("serve")
  /\ g_ticks' = Plus(g_ticks, 1)
  /\ Advance("eoi_dispatcher")
  /\ UNCHANGED <<pic, intr, shadow, pc, locals, history>>

\* timer_on_irq; the work of keyboardPressed is module Keyboard's.
Serve ==
  /\ InHandler("serve")
  /\ g_ticks' = IF Top.irq = 0 THEN Plus(g_ticks, 1) ELSE g_ticks
  /\ Advance("eoi_dispatcher")
  /\ UNCHANGED <<pic, intr, shadow, pc, locals, history>>

\* A non-specific end of interrupt ends the best line in service.
EndOfInterrupt == isr' = {i \in isr : \E j \in isr : j < i}

\* pic_send_eoi, called by int_20 and int_21 ...
EoiDispatcher ==
  /\ InHandler("eoi_dispatcher")
  /\ EndOfInterrupt
  /\ Advance("eoi_asm")
  /\ UNCHANGED <<irr, intr, shadow, pc, g_ticks, locals, history>>

\* ... and a second one, sent by the assembly stub of every handler.
EoiAsm ==
  /\ InHandler("eoi_asm")
  /\ EndOfInterrupt
  /\ Advance("iretq")
  /\ UNCHANGED <<irr, intr, shadow, pc, g_ticks, locals, history>>

Iretq ==
  /\ InHandler("iretq")
  /\ stack' = SubSeq(stack, 1, Len(stack) - 1)
  /\ intr' = TRUE
  /\ UNCHANGED <<pic, shadow, pc, g_ticks, locals, history>>

Handler == (\E i \in Lines : Accept(i)) \/ Serve \/ EoiDispatcher \/ EoiAsm \/ Iretq

------------------------------------------------------------------------------
(* The program. *)

\* A step of the program, from one label to another, with no handler on top.
Step(from, to) == stack = <<>> /\ pc = from /\ pc' = to /\ UNCHANGED stack

\* A system call that leaves interrupts off, as long as it takes.
Syscall ==
  /\ Step("user", "kernel")
  /\ intr' = FALSE
  /\ UNCHANGED <<shadow, pic, g_ticks, locals, history>>

SyscallReturn ==
  /\ Step("kernel", "user")
  /\ intr' = TRUE
  /\ UNCHANGED <<shadow, pic, g_ticks, locals, history>>

\* syscall_sleep_ms: sleep_ms starts with interrupts off.
SleepCall(k) ==
  /\ Step("user", "start")
  /\ intr' = FALSE
  /\ ticks_to_wait' = k
  /\ entered' = now
  /\ UNCHANGED <<shadow, pic, g_ticks, start, now, lost, paced>>

SleepStart ==
  /\ Step("start", "test")
  /\ start' = g_ticks
  /\ UNCHANGED <<intr, shadow, pic, g_ticks, ticks_to_wait, history>>

\* Mutant: the loop waits while the difference is not greater.
SleepTestTooFar ==
  /\ Step("test", IF Minus(g_ticks, start) <= ticks_to_wait THEN "sti" ELSE "woken")
  /\ UNCHANGED <<intr, shadow, pic, g_ticks, locals, history>>

SleepTest ==
  /\ Step("test", IF Minus(g_ticks, start) < ticks_to_wait THEN "sti" ELSE "woken")
  /\ UNCHANGED <<intr, shadow, pic, g_ticks, locals, history>>

\* Mutant: the loop halts as haltcpu does, with interrupts off.
StiIsCli ==
  /\ Step("sti", "hlt")
  /\ intr' = FALSE
  /\ UNCHANGED <<shadow, pic, g_ticks, locals, history>>

\* sti takes effect after the next instruction when interrupts were off.
Sti ==
  /\ Step("sti", "hlt")
  /\ shadow' = ~intr
  /\ intr' = TRUE
  /\ UNCHANGED <<pic, g_ticks, locals, history>>

Hlt ==
  /\ Step("hlt", "halted")
  /\ shadow' = FALSE
  /\ paced' = TRUE
  /\ UNCHANGED <<intr, pic, g_ticks, locals, now, lost, entered>>

SleepReturn ==
  /\ Step("woken", "user")
  /\ intr' = TRUE
  /\ paced' = TRUE
  /\ UNCHANGED <<shadow, pic, g_ticks, locals, now, lost, entered>>

Sleeping == SleepStart \/ SleepTest \/ Sti \/ Hlt \/ SleepReturn

Program == Syscall \/ SyscallReturn \/ (\E k \in SleepTicks : SleepCall(k)) \/ Sleeping

Next == Pulse \/ KeyByte \/ Handler \/ Program

Spec == Init /\ [][Next]_vars

\* The CPU executes the handlers and the PIT never stops.  The keyboard sends a
\* byte per millisecond at most, so the sleep loop gets its turn between two.
FairSpec == Spec /\ WF_vars(Handler) /\ SF_vars(Sleeping) /\ WF_vars(Pulse)

------------------------------------------------------------------------------
(* Properties. *)

TypeOK ==
  /\ intr \in BOOLEAN /\ shadow \in BOOLEAN
  /\ irr \in SUBSET Lines /\ isr \in SUBSET Lines
  /\ stack \in Seq(Frame)
  /\ g_ticks \in 0 .. Modulus - 1
  /\ pc \in Labels
  /\ start \in 0 .. Modulus - 1 /\ ticks_to_wait \in 0 .. Modulus - 1
  /\ now \in 0 .. Modulus - 1 /\ lost \in 0 .. Modulus - 1
  /\ entered \in 0 .. Modulus - 1 /\ paced \in BOOLEAN

\* A handler is never interrupted by another: what irqDispatcher does is one
\* step for the rest of the system, although nothing in it masks interrupts.
HandlersRunAlone == Len(stack) <= 1 /\ (stack # <<>> => ~intr)

\* Each interrupt is acknowledged twice.  The second end of interrupt always
\* finds nothing in service, so it never ends a handler that has not finished.
SecondEoiHarmless == InHandler("eoi_asm") => isr = {}

\* Ticks raised and not counted yet: in the latch, and in the handler.
Uncounted ==
  (IF 0 \in irr THEN 1 ELSE 0)
    + (IF InHandler("serve") /\ Top.irq = 0 THEN 1 ELSE 0)

\* Every period of the PIT is counted once, lost or about to be counted: the
\* handler never counts one twice, and only the latch of IRQ0 loses one.
EveryTickAccounted == Plus(g_ticks, lost + Uncounted) = now

\* sleep_ms of k ticks returns after k - 1 to k + 1 periods: a tick raised
\* before the call may be counted in it, and a tick taken between the test and
\* hlt is only noticed at the next interrupt.
SleepBounds ==
  pc = "woken" => Minus(now, entered) \in ticks_to_wait - 1 .. ticks_to_wait + 1

\* A sleep always ends, on either side of a wrap of the counter.
SleepReturns == pc = "start" ~> pc = "woken"

\* timer_ms_since_boot is said to be the time since the boot.  It falls behind
\* for good when a system call keeps interrupts off for more than one tick.
MsSinceBootIsTime == stack = <<>> /\ 0 \notin irr => g_ticks = now
=============================================================================

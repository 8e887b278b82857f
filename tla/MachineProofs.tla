---------------------------- MODULE MachineProofs ----------------------------
(***************************************************************************)
(* For any kernel, shell and layout that LayoutAssumption allows and any   *)
(* programs run afterwards: the shell's code stays whole, no interrupt     *)
(* arrives for which nothing is prepared, every call is the one that the   *)
(* program asked for, the speaker is left as promised, and each number of  *)
(* a time that is shown was right at some moment of the call.              *)
(***************************************************************************)
EXTENDS Machine, SequenceTheorems, TLAPS

Image == [a \in 0 .. Top |-> IF a < Len(buildImage) THEN buildImage[a + 1] ELSE 0]

MemoryInv == (pc = "loader" => mem = Image) /\ ShellIntact

(* What each step of init_interrupts has left behind it.                   *)
SetupInv ==
  /\ step \in 1 .. 11
  /\ step > 1 => 32 \in idt
  /\ step > 2 => 33 \in idt
  /\ step > 3 => 0 \in idt
  /\ step > 4 => 6 \in idt
  /\ step > 5 => 128 \in idt
  /\ step > 6 => idtr = "kernel"
  /\ step > 7 => g_tick_hz # 0
  /\ interrupts => step = 11
  /\ pc \notin {"loader", "main"} => step = 11

------------------------------------------------------------------------------
(* The memory.                                                             *)

LEMMA Layout ==
  /\ Len(Kernel) \in Nat /\ Len(Shell) \in Nat
  /\ bss \in Int /\ endOfKernel \in Int /\ BssSize \in Nat
  /\ Len(Kernel) <= bss /\ bss <= endOfKernel /\ endOfKernel <= ShellAddress
  /\ ShellAddress \in Nat /\ Top \in Nat
  /\ Len(Kernel) + 2 + Len(Shell) <= ShellAddress
  /\ ShellAddress + Len(Shell) <= Top + 1
<1>1. Len(Kernel) \in Nat /\ Len(Shell) \in Nat
  BY LayoutAssumption, LenProperties
<1>2. bss \in Int
  BY <1>1, LayoutAssumption DEF bss, endOfKernelBinary
<1>3. Len(buildImage) = Len(Kernel) + 2 + Len(Shell)
  BY LayoutAssumption, <1>1 DEF buildImage
<1>4. QED
  BY <1>1, <1>2, <1>3, LayoutAssumption DEF endOfKernel, endOfKernelBinary

(* Where the packer puts what.                                             *)
LEMMA ImageParts ==
  /\ \A i \in 1 .. Len(Kernel) : Image[i - 1] = Kernel[i]
  /\ Image[Len(Kernel)] = 1
  /\ Image[Len(Kernel) + 1] = Len(Shell)
  /\ \A i \in 1 .. Len(Shell) : Image[Len(Kernel) + 1 + i] = Shell[i]
<1> DEFINE Packed == <<1, Len(Shell)>>
<1> USE Layout
<1>1. Kernel \in Seq(Nat) /\ Shell \in Seq(Nat) /\ Packed \in Seq(Nat)
  BY LayoutAssumption
<1>2. /\ Len(Packed) = 2 /\ Packed[1] = 1 /\ Packed[2] = Len(Shell)
  OBVIOUS
<1>3. /\ Kernel \o Packed \in Seq(Nat)
      /\ Len(Kernel \o Packed) = Len(Kernel) + 2
      /\ \A i \in 1 .. Len(Kernel) + 2 :
           (Kernel \o Packed)[i] = IF i <= Len(Kernel) THEN Kernel[i]
                                   ELSE Packed[i - Len(Kernel)]
  BY <1>1, <1>2, ConcatProperties
<1>4. /\ Len(buildImage) = Len(Kernel) + 2 + Len(Shell)
      /\ \A i \in 1 .. Len(buildImage) :
           buildImage[i] = IF i <= Len(Kernel) + 2 THEN (Kernel \o Packed)[i]
                           ELSE Shell[i - (Len(Kernel) + 2)]
  BY <1>1, <1>3, ConcatProperties DEF buildImage
<1>5. \A a \in 0 .. Len(buildImage) - 1 : Image[a] = buildImage[a + 1]
  BY <1>4 DEF Image
<1> HIDE DEF Packed
<1>6. ASSUME NEW i \in 1 .. Len(Kernel) PROVE Image[i - 1] = Kernel[i]
  <2>1. Image[i - 1] = buildImage[i]
    BY <1>4, <1>5
  <2>2. QED
    BY <2>1, <1>3, <1>4
<1>7. Image[Len(Kernel)] = 1
  <2>1. Image[Len(Kernel)] = buildImage[Len(Kernel) + 1]
    BY <1>4, <1>5
  <2>2. QED
    BY <2>1, <1>2, <1>3, <1>4
<1>8. Image[Len(Kernel) + 1] = Len(Shell)
  <2>1. Image[Len(Kernel) + 1] = buildImage[Len(Kernel) + 2]
    BY <1>4, <1>5
  <2>2. QED
    BY <2>1, <1>2, <1>3, <1>4
<1>9. ASSUME NEW i \in 1 .. Len(Shell)
      PROVE  Image[Len(Kernel) + 1 + i] = Shell[i]
  <2>1. Image[Len(Kernel) + 1 + i] = buildImage[Len(Kernel) + 2 + i]
    BY <1>4, <1>5
  <2>2. buildImage[Len(Kernel) + 2 + i] = Shell[i]
    <3>1. Len(Kernel) + 2 + i \in 1 .. Len(buildImage)
          /\ ~ (Len(Kernel) + 2 + i <= Len(Kernel) + 2)
          /\ Len(Kernel) + 2 + i - (Len(Kernel) + 2) = i
      BY <1>4
    <3>2. QED
      BY <1>4, <3>1
  <2>3. QED
    BY <2>1, <2>2
<1>10. QED
  BY <1>6, <1>7, <1>8, <1>9

LEMMA LoaderStep == ASSUME MemoryInv, Loader PROVE MemoryInv'
<1> USE Layout
<1>1. mem = Image /\ pc' = "main"
  BY DEF MemoryInv, Loader
<1> DEFINE loaded == loadModules(mem, Len(Kernel))
<1>2. \A a \in 0 .. Top :
        loaded[a] = IF a \in ShellAddress .. ShellAddress + Len(Shell) - 1
                    THEN Image[Len(Kernel) + 2 + a - ShellAddress] ELSE Image[a]
  <2>1. loaded = loadModule(mem, Len(Kernel) + 1, ShellAddress)
    BY <1>1, ImageParts DEF loadModules
  <2>2. mem[Len(Kernel) + 1] = Len(Shell)
    BY <1>1, ImageParts
  <2>3. QED
    BY <1>1, <2>1, <2>2 DEF loadModule
<1> HIDE DEF loaded
<1>3. mem' = clearBSS(loaded)
  BY DEF Loader, initializeKernelBinary, endOfKernelBinary, loaded
<1>4. \A a \in 0 .. Top :
        mem'[a] = IF a \in bss .. endOfKernel - 1 THEN 0 ELSE loaded[a]
  BY <1>3 DEF clearBSS
<1>5. ASSUME NEW i \in 1 .. Len(Shell)
      PROVE  mem'[ShellAddress + i - 1] = Shell[i]
  <2>1. mem'[ShellAddress + i - 1] = loaded[ShellAddress + i - 1]
    BY <1>4
  <2>2. loaded[ShellAddress + i - 1] = Image[Len(Kernel) + 1 + i]
    <3>1. Len(Kernel) + 2 + (ShellAddress + i - 1) - ShellAddress
            = Len(Kernel) + 1 + i
      OBVIOUS
    <3>2. QED
      BY <1>2, <3>1
  <2>3. QED
    BY <2>1, <2>2, ImageParts
<1>6. ASSUME NEW a \in bss .. endOfKernel - 1 PROVE mem'[a] = 0
  BY <1>4
<1>7. ASSUME NEW i \in 1 .. Len(Kernel) PROVE mem'[i - 1] = Kernel[i]
  <2>1. mem'[i - 1] = loaded[i - 1]
    BY <1>4
  <2>2. loaded[i - 1] = Image[i - 1]
    BY <1>2
  <2>3. QED
    BY <2>1, <2>2, ImageParts
<1>8. QED
  BY <1>1, <1>5, <1>6, <1>7 DEF MemoryInv, ShellIntact

(* No step after the loader's writes code, and none goes back to it.       *)
LEMMA OtherSteps ==
  ASSUME [Next]_vars PROVE Loader \/ (UNCHANGED mem /\ (pc' = "loader" <=> pc = "loader"))
<1>1. CASE BootStep
  BY <1>1 DEF BootStep, InitInterrupts, EnterShell
<1>2. CASE StartProgram \/ Exit \/ IRQ0 \/ ClockTicks
  BY <1>2 DEF StartProgram, Exit, IRQ0, ClockTicks
<1>3. CASE StartWatch \/ TestWatch \/ TestKey \/ Syscall
  BY <1>3 DEF StartWatch, TestWatch, TestKey, Syscall
<1>4. CASE Serve \/ (\E k \in {0, Enter, KeyE, Any} : Getchar(k)) \/ Audio
  BY <1>4 DEF Serve, Getchar, Audio, Answer
<1>5. CASE StartSleep \/ Hlt \/ EndSleep
  BY <1>5 DEF StartSleep, Hlt, EndSleep, Answer
<1>6. CASE AskClock \/ ReadClock \/ ShowClock
  BY <1>6 DEF AskClock, ReadClock, ShowClock, Answer
<1>7. CASE StartBenchmark \/ Round \/ EndBenchmark \/ Return
  BY <1>7 DEF StartBenchmark, Round, EndBenchmark, Return, Answer
<1>8. CASE UNCHANGED vars
  BY <1>8 DEF vars
<1>9. QED
  BY <1>1, <1>2, <1>3, <1>4, <1>5, <1>6, <1>7, <1>8 DEF Next, Step

LEMMA MemoryStep == MemoryInv /\ [Next]_vars => MemoryInv'
<1> SUFFICES ASSUME MemoryInv, [Next]_vars PROVE MemoryInv'
  OBVIOUS
<1>1. CASE Loader
  BY <1>1, LoaderStep
<1>2. CASE UNCHANGED mem /\ (pc' = "loader" <=> pc = "loader")
  BY <1>2 DEF MemoryInv, ShellIntact
<1>3. QED
  BY <1>1, <1>2, OtherSteps

LEMMA MemoryInit == MInit => MemoryInv
BY DEF MInit, Init, MemoryInv, Image, ShellIntact

(* The shell runs from a complete copy, although its packed original lay   *)
(* where the BSS of the kernel is cleared; that BSS starts at zero and the *)
(* kernel's own code is not overwritten (kernel.c, moduleLoader.c).        *)
THEOREM ShellStaysIntact == Spec => []ShellIntact
<1>1. MemoryInv => ShellIntact
  BY DEF MemoryInv
<1>2. QED
  BY <1>1, MemoryInit, MemoryStep, PTL DEF Spec

------------------------------------------------------------------------------
(* The interrupts.                                                         *)

LEMMA Sequence ==
  /\ Len(init_interrupts) = 10
  /\ init_interrupts[1] = <<"idt_set_entry", 32>>
  /\ init_interrupts[2] = <<"idt_set_entry", 33>>
  /\ init_interrupts[3] = <<"idt_set_entry", 0>>
  /\ init_interrupts[4] = <<"idt_set_entry", 6>>
  /\ init_interrupts[5] = <<"idt_set_entry", 128>>
  /\ init_interrupts[6] = << "load_idt" >>
  /\ init_interrupts[7] = <<"timer_init", 1000>>
  /\ init_interrupts[8] = <<"pic_unmask_irq", 0>>
  /\ init_interrupts[9] = <<"pic_unmask_irq", 1>>
  /\ init_interrupts[10] = << "enable_interrupts" >>
BY DEF init_interrupts, idt_init

LEMMA SetupStep == ASSUME SetupInv, InitInterrupts PROVE SetupInv'
<1> DEFINE do == init_interrupts[step]
<1>1. step \in 1 .. 10 /\ step' = step + 1 /\ pc = "main" /\ pc' = "main"
  BY Sequence DEF SetupInv, InitInterrupts
<1>2. /\ idt' = IF do[1] = "idt_set_entry" THEN idt \cup {do[2]} ELSE idt
      /\ idtr' = IF do[1] = "load_idt" THEN "kernel" ELSE idtr
      /\ g_tick_hz' = IF do[1] = "timer_init" THEN timer_init(do[2]) ELSE g_tick_hz
      /\ interrupts' = (interrupts \/ do[1] = "enable_interrupts")
  BY DEF InitInterrupts, idt_set_entry
<1>3. \A i \in 1 .. 5 : step = i => do[1] = "idt_set_entry"
  BY Sequence
<1>4. /\ step = 1 => do[2] = 32
      /\ step = 2 => do[2] = 33
      /\ step = 3 => do[2] = 0
      /\ step = 4 => do[2] = 6
      /\ step = 5 => do[2] = 128
      /\ step = 6 => do[1] = "load_idt"
      /\ step = 7 => do[1] = "timer_init" /\ do[2] = 1000
      /\ step = 8 \/ step = 9 => do[1] = "pic_unmask_irq"
      /\ step = 10 => do[1] = "enable_interrupts"
  BY Sequence
<1> HIDE DEF do
<1>5. timer_init(1000) # 0
  BY DEF timer_init
<1>6. step # 10 => do[1] # "enable_interrupts"
  BY <1>1, <1>3, <1>4
<1>7. step > 7 => do[1] # "timer_init"
  BY <1>1, <1>4
<1>8. idt \subseteq idt'
  BY <1>2
<1>9. (step > 1)' => (32 \in idt)'
  BY <1>1, <1>2, <1>3, <1>4, <1>8 DEF SetupInv
<1>10. (step > 2 => 33 \in idt)' /\ (step > 3 => 0 \in idt)'
  BY <1>1, <1>2, <1>3, <1>4, <1>8 DEF SetupInv
<1>11. (step > 4 => 6 \in idt)' /\ (step > 5 => 128 \in idt)'
  BY <1>1, <1>2, <1>3, <1>4, <1>8 DEF SetupInv
<1>12. (step > 6 => idtr = "kernel")'
  BY <1>1, <1>2, <1>4 DEF SetupInv
<1>13. (step > 7 => g_tick_hz # 0)'
  BY <1>1, <1>2, <1>4, <1>5, <1>7 DEF SetupInv
<1>14. (interrupts => step = 11)'
  <2>1. ~ interrupts
    BY <1>1 DEF SetupInv
  <2>2. CASE step = 10
    BY <1>1, <2>2
  <2>3. CASE step # 10
    BY <1>2, <1>6, <2>1, <2>3
  <2>4. QED
    BY <2>2, <2>3
<1>15. QED
  BY <1>1, <1>9, <1>10, <1>11, <1>12, <1>13, <1>14 DEF SetupInv

(* Outside init_interrupts the flag alone changes, and never before it.    *)
LEMMA AfterSetup ==
  ASSUME [Next]_vars
  PROVE  \/ InitInterrupts
         \/ /\ UNCHANGED <<step, idt, idtr, masked, g_tick_hz>>
            /\ UNCHANGED interrupts \/ pc \notin {"loader", "main"}
            /\ pc' \in {"loader", "main"} \/ pc \notin {"loader", "main"}
                 \/ step > Len(init_interrupts)
<1> USE DEF machine
<1>1. CASE BootStep
  BY <1>1 DEF BootStep, Loader, EnterShell
<1>2. CASE StartProgram \/ Exit \/ IRQ0 \/ ClockTicks
  BY <1>2 DEF StartProgram, Exit, IRQ0, ClockTicks
<1>3. CASE StartWatch \/ TestWatch \/ TestKey \/ Syscall
  BY <1>3 DEF StartWatch, TestWatch, TestKey, Syscall
<1>4. CASE Serve \/ (\E k \in {0, Enter, KeyE, Any} : Getchar(k)) \/ Audio
  BY <1>4 DEF Serve, Getchar, Audio, Answer
<1>5. CASE StartSleep \/ Hlt \/ EndSleep
  BY <1>5 DEF StartSleep, Hlt, EndSleep, Answer
<1>6. CASE AskClock \/ ReadClock \/ ShowClock
  BY <1>6 DEF AskClock, ReadClock, ShowClock, Answer
<1>7. CASE StartBenchmark \/ Round \/ EndBenchmark \/ Return
  BY <1>7 DEF StartBenchmark, Round, EndBenchmark, Return, Answer
<1>8. CASE UNCHANGED vars
  BY <1>8 DEF vars
<1>9. QED
  BY <1>1, <1>2, <1>3, <1>4, <1>5, <1>6, <1>7, <1>8 DEF Next, Step

LEMMA SetupNext == SetupInv /\ [Next]_vars => SetupInv'
<1> SUFFICES ASSUME SetupInv, [Next]_vars PROVE SetupInv'
  OBVIOUS
<1>1. CASE InitInterrupts
  BY <1>1, SetupStep
<1>2. CASE ~ InitInterrupts
  <2>1. /\ UNCHANGED <<step, idt, idtr, masked, g_tick_hz>>
        /\ UNCHANGED interrupts \/ step = 11
        /\ pc' \notin {"loader", "main"} => step = 11
    BY <1>2, AfterSetup, Sequence DEF SetupInv
  <2>2. QED
    BY <2>1 DEF SetupInv
<1>3. QED
  BY <1>1, <1>2

LEMMA SetupInit == MInit => SetupInv
BY DEF MInit, Init, SetupInv

(* From the kernel's first instruction on, whatever can interrupt it, be   *)
(* called or fault has its entry in the kernel's own table, and the timer  *)
(* its frequency (interrupts_dispatcher.c).                                *)
THEOREM InterruptsAreHandled == Spec => []HandledInterrupts
<1>1. SetupInv => HandledInterrupts
  BY DEF SetupInv, HandledInterrupts, Asking
<1>2. QED
  BY <1>1, SetupInit, SetupNext, PTL DEF Spec

------------------------------------------------------------------------------
(* A system call on its way.  The invariant says what the handler of       *)
(* int 0x80 may rely on: the request that was promised, and a frame whose  *)
(* places other than the last give the program its registers back.         *)
InCall == {"handler", "sleep", "clock", "benchmark", "iretq"}

FrameInv ==
  /\ DOMAIN frame = 0 .. 14
  /\ frame[0] = caller["r15"] /\ frame[1] = caller["r14"]
  /\ frame[2] = caller["r13"] /\ frame[3] = caller["r12"]
  /\ frame[10] = caller["rbp"]

RequestInv ==
  /\ todo # << >> /\ Head(todo).fn \in DOMAIN Parameters
  /\ request = Promised(Head(todo).fn, Head(todo).args)

CallInv ==
  /\ todo \in Seq(Calls)
  /\ pc \in InCall => FrameInv /\ RequestInv
  /\ pc = "sleep" => request[1] \in {"sleep_ms", "beep"}
  /\ pc = "clock" => request[1] \in {"getTimeString", "getDateString"}
  /\ pc = "benchmark" => request[1] = "benchmark"

(* Where C puts the arguments, and where the handler finds them.           *)
LEMMA InRegisters ==
  ASSUME NEW A \in Seq(Nat), Len(A) <= 5
  PROVE  /\ \A i \in 1 .. Len(A) : PassedBy(Junk, A)[ArgumentRegisters[i]] = A[i]
         /\ DOMAIN PassedBy(Junk, A) = Registers
<1>1. DOMAIN A = 1 .. Len(A) /\ Len(A) \in Nat
  BY LenProperties
<1>2. ASSUME NEW i \in 1 .. 5, NEW j \in 1 .. 5,
             ArgumentRegisters[i] = ArgumentRegisters[j]
      PROVE  i = j
  BY <1>2 DEF ArgumentRegisters
<1>3. ASSUME NEW i \in 1 .. Len(A)
      PROVE  PassedBy(Junk, A)[ArgumentRegisters[i]] = A[i]
  <2> DEFINE r == ArgumentRegisters[i]
             j == CHOOSE k \in DOMAIN A : ArgumentRegisters[k] = r
  <2>1. r \in Registers
    BY DEF ArgumentRegisters, Registers
  <2>2. i \in DOMAIN A
    BY <1>1
  <2>3. j \in DOMAIN A /\ ArgumentRegisters[j] = r
    BY <2>2
  <2>4. j = i
    BY <1>1, <1>2, <2>3
  <2>5. PassedBy(Junk, A)[r] = A[j]
    BY <2>1, <2>2 DEF PassedBy
  <2>6. QED
    BY <2>4, <2>5
<1>4. QED
  BY <1>3 DEF PassedBy

LEMMA OnTheStack ==
  ASSUME NEW A \in Seq(Nat), Len(A) <= 5, NEW n,
         NEW F, F = Pushed(SYSCALL(n, PassedBy(Junk, A)))
  PROVE  /\ F[14] = n
         /\ Len(A) >= 1 => F[13] = A[1]
         /\ Len(A) >= 2 => F[12] = A[2]
         /\ Len(A) >= 3 => F[11] = A[3]
         /\ Len(A) >= 4 => F[8] = A[4]
         /\ Len(A) >= 5 => F[9] = A[5]
<1> DEFINE R == PassedBy(Junk, A)
           T == SYSCALL(n, R)
<1>0. Len(A) \in Nat
  BY LenProperties
<1>1. DOMAIN R = Registers /\ \A i \in 1 .. Len(A) : R[ArgumentRegisters[i]] = A[i]
  BY InRegisters
<1>2. /\ Len(A) >= 1 => R["rdi"] = A[1]
      /\ Len(A) >= 2 => R["rsi"] = A[2]
      /\ Len(A) >= 3 => R["rdx"] = A[3]
      /\ Len(A) >= 4 => R["rcx"] = A[4]
      /\ Len(A) >= 5 => R["r8"] = A[5]
  BY <1>0, <1>1 DEF ArgumentRegisters
<1> HIDE DEF R
<1>3. /\ T["rax"] = n /\ T["rbx"] = R["rdi"] /\ T["rcx"] = R["rsi"]
      /\ T["rdx"] = R["rdx"] /\ T["rsi"] = R["rcx"] /\ T["rdi"] = R["r8"]
  BY <1>1 DEF SYSCALL, Registers
<1> HIDE DEF T
<1>4. F = [i \in 0 .. 14 |-> T[pushState[15 - i]]]
  BY DEF Pushed, T, R
<1>5. /\ F[14] = T["rax"] /\ F[13] = T["rbx"] /\ F[12] = T["rcx"]
      /\ F[11] = T["rdx"] /\ F[8] = T["rsi"] /\ F[9] = T["rdi"]
  BY <1>4 DEF pushState
<1>6. QED
  BY <1>2, <1>3, <1>5

LEMMA FrameOfCall ==
  ASSUME NEW n, NEW R, DOMAIN R = Registers
  PROVE  LET F == Pushed(SYSCALL(n, R))
         IN  /\ DOMAIN F = 0 .. 14
             /\ F[0] = R["r15"] /\ F[1] = R["r14"] /\ F[2] = R["r13"]
             /\ F[3] = R["r12"] /\ F[10] = R["rbp"]
<1> DEFINE T == SYSCALL(n, R)
<1>1. /\ T["r15"] = R["r15"] /\ T["r14"] = R["r14"] /\ T["r13"] = R["r13"]
      /\ T["r12"] = R["r12"] /\ T["rbp"] = R["rbp"]
  BY DEF SYSCALL, Registers
<1> HIDE DEF T
<1>2. QED
  BY <1>1 DEF Pushed, pushState, T

(* Back through popState and the end of the stub.                          *)
LEMMA RegistersBack ==
  ASSUME FrameInv, NEW r \in CalleeSaved
  PROVE  StubReturn(Popped(frame), caller["rbx"])[r] = caller[r]
<1> DEFINE P == Popped(frame)
           k(s) == CHOOSE i \in 1 .. 15 : popState[i] = s
<1>1. DOMAIN P = Registers
  BY DEF Popped
<1>2. \A s \in Registers : P[s] = frame[k(s) - 1]
  BY DEF Popped
<1>3. ASSUME NEW s, NEW i \in 1 .. 15, popState[i] = s,
             \A j \in 1 .. 15 : popState[j] = s => j = i
      PROVE  k(s) = i
  BY <1>3
<1> HIDE DEF k, P
<1>4. k("r15") = 1
  BY <1>3 DEF popState
<1>5. k("r14") = 2
  BY <1>3 DEF popState
<1>6. k("r13") = 3
  BY <1>3 DEF popState
<1>7. k("r12") = 4
  BY <1>3 DEF popState
<1>8. k("rbp") = 11
  BY <1>3 DEF popState
<1>9. \A s \in CalleeSaved \ {"rbx"} : P[s] = caller[s]
  BY <1>2, <1>4, <1>5, <1>6, <1>7, <1>8 DEF CalleeSaved, Registers, FrameInv
<1>10. QED
  BY <1>1, <1>9 DEF StubReturn, CalleeSaved, Registers, P

(* What the handler finds in the places it looks at: the number of its     *)
(* stub, and the arguments after the constants that the wrapper adds.      *)
Places(F, n, pre, a) ==
  /\ F[14] = n
  /\ Len(pre) = 0 => /\ Len(a) >= 1 => F[13] = a[1]
                     /\ Len(a) >= 2 => F[12] = a[2]
                     /\ Len(a) >= 3 => F[11] = a[3]
                     /\ Len(a) >= 4 => F[8] = a[4]
                     /\ Len(a) >= 5 => F[9] = a[5]
  /\ Len(pre) >= 1 => F[13] = pre[1]
  /\ Len(pre) = 1 => /\ Len(a) >= 1 => F[12] = a[1]
                     /\ Len(a) >= 2 => F[11] = a[2]
  /\ Len(pre) >= 2 => F[12] = pre[2]

LEMMA Passed ==
  ASSUME NEW n, NEW pre \in Seq(Nat), NEW a \in Seq(Nat), NEW post \in Seq(Nat),
         Len(pre) + Len(a) + Len(post) <= 5,
         NEW F, F = Pushed(SYSCALL(n, PassedBy(Junk, pre \o a \o post)))
  PROVE  Places(F, n, pre, a)
<1>1. Len(pre) \in Nat /\ Len(a) \in Nat /\ Len(post) \in Nat
  BY LenProperties
<1> DEFINE B == pre \o a
           A == B \o post
<1>2. /\ B \in Seq(Nat) /\ Len(B) = Len(pre) + Len(a)
      /\ \A i \in 1 .. Len(pre) + Len(a) :
           B[i] = IF i <= Len(pre) THEN pre[i] ELSE a[i - Len(pre)]
  BY ConcatProperties
<1> HIDE DEF B
<1>3. /\ A \in Seq(Nat) /\ Len(A) = Len(B) + Len(post)
      /\ \A i \in 1 .. Len(B) + Len(post) :
           A[i] = IF i <= Len(B) THEN B[i] ELSE post[i - Len(B)]
  BY <1>2, ConcatProperties
<1>4. F = Pushed(SYSCALL(n, PassedBy(Junk, A)))
  BY DEF B
<1> HIDE DEF A
<1>5. /\ F[14] = n
      /\ Len(A) >= 1 => F[13] = A[1]
      /\ Len(A) >= 2 => F[12] = A[2]
      /\ Len(A) >= 3 => F[11] = A[3]
      /\ Len(A) >= 4 => F[8] = A[4]
      /\ Len(A) >= 5 => F[9] = A[5]
  <2>1. A \in Seq(Nat) /\ Len(A) <= 5
    BY <1>1, <1>2, <1>3
  <2>2. QED
    BY <1>4, <2>1, OnTheStack, SMTT(60)
<1>6. \A i \in 1 .. Len(pre) + Len(a) : A[i] = B[i]
  BY <1>1, <1>2, <1>3
<1>7. \A i \in 1 .. Len(pre) : A[i] = pre[i]
  <2> SUFFICES ASSUME NEW i \in 1 .. Len(pre) PROVE A[i] = pre[i]
    OBVIOUS
  <2>1. i \in 1 .. Len(pre) + Len(a) /\ i <= Len(pre)
    BY <1>1
  <2>2. QED
    BY <1>2, <1>6, <2>1
<1>8. \A i \in 1 .. Len(a) : A[Len(pre) + i] = a[i]
  <2> SUFFICES ASSUME NEW i \in 1 .. Len(a) PROVE A[Len(pre) + i] = a[i]
    OBVIOUS
  <2>1. /\ Len(pre) + i \in 1 .. Len(pre) + Len(a)
        /\ ~ (Len(pre) + i <= Len(pre)) /\ Len(pre) + i - Len(pre) = i
    BY <1>1
  <2>2. B[Len(pre) + i] = a[i]
    BY <1>2, <2>1, SMTT(60)
  <2>3. QED
    BY <1>6, <2>1, <2>2
<1>9. Len(A) >= Len(pre) + Len(a) /\ Len(A) \in Nat
  BY <1>1, <1>2, <1>3
<1>10. CASE Len(pre) = 0
  BY <1>1, <1>5, <1>8, <1>9, <1>10 DEF Places
<1>11. CASE Len(pre) = 1
  BY <1>1, <1>5, <1>7, <1>8, <1>9, <1>11 DEF Places
<1>12. CASE Len(pre) >= 2
  BY <1>1, <1>5, <1>7, <1>9, <1>12, SMTT(60) DEF Places
<1>13. \A k \in Nat : k = 0 \/ k = 1 \/ k >= 2
  OBVIOUS
<1>14. Len(pre) = 0 \/ Len(pre) = 1 \/ Len(pre) >= 2
  BY <1>1, <1>13, Zenon
<1>15. QED
  BY <1>10, <1>11, <1>12, <1>14

Received(F, fn, a) ==
  F = Pushed(SYSCALL(StubNumber[Wrapper(fn).stub], PassedBy(Junk, Arguments(fn, a))))

LEMMA WithConstants ==
  ASSUME NEW fn, NEW stub, NEW pre \in Seq(Nat), NEW post \in Seq(Nat),
         Wrapper(fn) = Via(stub, pre, post), NEW a \in Seq(Nat),
         Len(pre) + Len(a) + Len(post) <= 5, NEW F, Received(F, fn, a)
  PROVE  Places(F, StubNumber[stub], pre, a)
<1>1. F = Pushed(SYSCALL(StubNumber[stub], PassedBy(Junk, pre \o a \o post)))
  BY DEF Received, Arguments, Via
<1>2. QED
  BY <1>1, Passed

(* The number and the arguments alone, and behind one constant.            *)
InOrder(F, n, a) ==
  /\ F[14] = n
  /\ Len(a) >= 1 => F[13] = a[1]
  /\ Len(a) >= 2 => F[12] = a[2]
  /\ Len(a) >= 3 => F[11] = a[3]
  /\ Len(a) >= 4 => F[8] = a[4]
  /\ Len(a) >= 5 => F[9] = a[5]

After(F, n, k, a) ==
  /\ F[14] = n /\ F[13] = k
  /\ Len(a) >= 1 => F[12] = a[1]
  /\ Len(a) >= 2 => F[11] = a[2]

LEMMA PlainCall ==
  ASSUME NEW fn, NEW stub, Wrapper(fn) = Plain(stub),
         NEW a \in Seq(Nat), Len(a) <= 5, NEW F, Received(F, fn, a)
  PROVE  InOrder(F, StubNumber[stub], a)
<1> DEFINE none == << >>
<1>1. none \in Seq(Nat) /\ Len(none) = 0
  OBVIOUS
<1>2. Wrapper(fn) = Via(stub, none, none)
  BY DEF Plain
<1>3. Len(none) + Len(a) + Len(none) <= 5
  BY <1>1, LenProperties
<1> HIDE DEF none
<1>4. Places(F, StubNumber[stub], none, a)
  BY <1>1, <1>2, <1>3, WithConstants
<1>5. QED
  BY <1>1, <1>4 DEF Places, InOrder

LEMMA OneConstant ==
  ASSUME NEW fn, NEW stub, NEW k \in Nat, NEW post \in {<< >>, << 0 >>, <<0, 0>>},
         Wrapper(fn) = Via(stub, << k >>, post),
         NEW a \in Seq(Nat), Len(a) <= 2, NEW F, Received(F, fn, a)
  PROVE  After(F, StubNumber[stub], k, a)
<1> DEFINE pre == << k >>
<1>1. pre \in Seq(Nat) /\ Len(pre) = 1 /\ pre[1] = k
  OBVIOUS
<1>2. post \in Seq(Nat) /\ Len(post) <= 2 /\ Len(post) \in Nat
  <2>1. /\ << >> \in Seq(Nat) /\ Len(<< >>) = 0
        /\ << 0 >> \in Seq(Nat) /\ Len(<< 0 >>) = 1
        /\ <<0, 0>> \in Seq(Nat) /\ Len(<<0, 0>>) = 2
    OBVIOUS
  <2>2. CASE post = << >>
    BY <2>1, <2>2
  <2>3. CASE post = << 0 >>
    BY <2>1, <2>3
  <2>4. CASE post = <<0, 0>>
    BY <2>1, <2>4
  <2>5. QED
    BY <2>2, <2>3, <2>4
<1> HIDE DEF pre
<1>3. Wrapper(fn) = Via(stub, pre, post)
  BY DEF pre
<1>4. Len(pre) + Len(a) + Len(post) <= 5
  BY <1>1, <1>2, LenProperties
<1>5. Places(F, StubNumber[stub], pre, a)
  BY <1>1, <1>2, <1>3, <1>4, WithConstants
<1>6. QED
  BY <1>1, <1>5 DEF Places, After

(* The request that reaches the kernel is the promised one.                *)
LEMMA DrawingRequests ==
  ASSUME NEW fn \in DOMAIN DrawingWrappers,
         NEW a \in Seq(Nat), Len(a) = Parameters[fn], NEW F, Received(F, fn, a)
  PROVE  syscall_handler(F[14], F) = Promised(fn, a)
<1>1. CASE fn = "put_frame"
  <2>1. Wrapper(fn) = Plain("sys_putframe")
    BY <1>1 DEF Wrapper, DrawingWrappers
  <2>2. Len(a) = 0
    BY <1>1 DEF Parameters
  <2>3. Len(a) <= 5
    BY <2>2
  <2>4. InOrder(F, StubNumber["sys_putframe"], a)
    BY <2>1, <2>3, PlainCall
  <2>5. QED
    BY <1>1, <2>2, <2>4 DEF InOrder, StubNumber, syscall_handler, Promised
<1>2. CASE fn = "putPixel"
  <2>1. Wrapper(fn) = Plain("sys_putPixel")
    BY <1>2 DEF Wrapper, DrawingWrappers
  <2>2. Len(a) = 4
    BY <1>2 DEF Parameters
  <2>3. Len(a) <= 5
    BY <2>2
  <2>4. InOrder(F, StubNumber["sys_putPixel"], a)
    BY <2>1, <2>3, PlainCall
  <2>5. QED
    BY <1>2, <2>2, <2>4 DEF InOrder, StubNumber, syscall_handler, Promised
<1>3. CASE fn = "present_fullframe"
  <2>1. Wrapper(fn) = Plain("sys_present_fullframe")
    BY <1>3 DEF Wrapper, DrawingWrappers
  <2>2. Len(a) = 0
    BY <1>3 DEF Parameters
  <2>3. Len(a) <= 5
    BY <2>2
  <2>4. InOrder(F, StubNumber["sys_present_fullframe"], a)
    BY <2>1, <2>3, PlainCall
  <2>5. QED
    BY <1>3, <2>2, <2>4 DEF InOrder, StubNumber, syscall_handler, Promised
<1>4. CASE fn = "write_at_back"
  <2>1. Wrapper(fn) = Plain("sys_write_at_back")
    BY <1>4 DEF Wrapper, DrawingWrappers
  <2>2. Len(a) = 5
    BY <1>4 DEF Parameters
  <2>3. Len(a) <= 5
    BY <2>2
  <2>4. InOrder(F, StubNumber["sys_write_at_back"], a)
    BY <2>1, <2>3, PlainCall
  <2>5. QED
    BY <1>4, <2>2, <2>4 DEF InOrder, StubNumber, syscall_handler, Promised
<1>5. CASE fn = "write_at_vram"
  <2>1. Wrapper(fn) = Plain("sys_write_at_vram")
    BY <1>5 DEF Wrapper, DrawingWrappers
  <2>2. Len(a) = 5
    BY <1>5 DEF Parameters
  <2>3. Len(a) <= 5
    BY <2>2
  <2>4. InOrder(F, StubNumber["sys_write_at_vram"], a)
    BY <2>1, <2>3, PlainCall
  <2>5. QED
    BY <1>5, <2>2, <2>4 DEF InOrder, StubNumber, syscall_handler, Promised
<1>6. CASE fn = "get_screen_height"
  <2>1. Wrapper(fn) = Via("sys_get_screen_info", << 0 >>, << >>)
    BY <1>6 DEF Wrapper, DrawingWrappers
  <2>2. Len(a) = 0
    BY <1>6 DEF Parameters
  <2>3. Len(a) <= 2
    BY <2>2
  <2>4. After(F, StubNumber["sys_get_screen_info"], 0, a)
    BY <2>1, <2>3, OneConstant
  <2>5. QED
    BY <1>6, <2>2, <2>4 DEF After, StubNumber, syscall_handler, Promised
<1>7. CASE fn = "get_screen_width"
  <2>1. Wrapper(fn) = Via("sys_get_screen_info", << 1 >>, << >>)
    BY <1>7 DEF Wrapper, DrawingWrappers
  <2>2. Len(a) = 0
    BY <1>7 DEF Parameters
  <2>3. Len(a) <= 2
    BY <2>2
  <2>4. After(F, StubNumber["sys_get_screen_info"], 1, a)
    BY <2>1, <2>3, OneConstant
  <2>5. QED
    BY <1>7, <2>2, <2>4 DEF After, StubNumber, syscall_handler, Promised
<1>8. QED
  BY <1>1, <1>2, <1>3, <1>4, <1>5, <1>6, <1>7 DEF DrawingWrappers

LEMMA TextRequests ==
  ASSUME NEW fn \in DOMAIN TextWrappers,
         NEW a \in Seq(Nat), Len(a) = Parameters[fn], NEW F, Received(F, fn, a)
  PROVE  syscall_handler(F[14], F) = Promised(fn, a)
<1>1. CASE fn = "write"
  <2>1. Wrapper(fn) = Via("sys_write", << 1 >>, << >>)
    BY <1>1 DEF Wrapper, DrawingWrappers, TextWrappers
  <2>2. Len(a) = 1
    BY <1>1 DEF Parameters
  <2>3. Len(a) <= 2
    BY <2>2
  <2>4. After(F, StubNumber["sys_write"], 1, a)
    BY <2>1, <2>3, OneConstant
  <2>5. QED
    BY <1>1, <2>2, <2>4 DEF After, StubNumber, syscall_handler, Promised
<1>2. CASE fn = "printError"
  <2>1. Wrapper(fn) = Via("sys_write", << 0 >>, << >>)
    BY <1>2 DEF Wrapper, DrawingWrappers, TextWrappers
  <2>2. Len(a) = 1
    BY <1>2 DEF Parameters
  <2>3. Len(a) <= 2
    BY <2>2
  <2>4. After(F, StubNumber["sys_write"], 0, a)
    BY <2>1, <2>3, OneConstant
  <2>5. QED
    BY <1>2, <2>2, <2>4 DEF After, StubNumber, syscall_handler, Promised
<1>3. CASE fn = "clearwindow"
  <2>1. Wrapper(fn) = Plain("sys_clearwindow")
    BY <1>3 DEF Wrapper, DrawingWrappers, TextWrappers
  <2>2. Len(a) = 1
    BY <1>3 DEF Parameters
  <2>3. Len(a) <= 5
    BY <2>2
  <2>4. InOrder(F, StubNumber["sys_clearwindow"], a)
    BY <2>1, <2>3, PlainCall
  <2>5. QED
    BY <1>3, <2>2, <2>4 DEF InOrder, StubNumber, syscall_handler, Promised
<1>4. CASE fn = "do_resize"
  <2>1. Wrapper(fn) = Plain("sys_resize")
    BY <1>4 DEF Wrapper, DrawingWrappers, TextWrappers
  <2>2. Len(a) = 1
    BY <1>4 DEF Parameters
  <2>3. Len(a) <= 5
    BY <2>2
  <2>4. InOrder(F, StubNumber["sys_resize"], a)
    BY <2>1, <2>3, PlainCall
  <2>5. QED
    BY <1>4, <2>2, <2>4 DEF InOrder, StubNumber, syscall_handler, Promised
<1>5. CASE fn = "get_time"
  <2>1. Wrapper(fn) = Via("sys_date_time", << 0 >>, << >>)
    BY <1>5 DEF Wrapper, DrawingWrappers, TextWrappers
  <2>2. Len(a) = 0
    BY <1>5 DEF Parameters
  <2>3. Len(a) <= 2
    BY <2>2
  <2>4. After(F, StubNumber["sys_date_time"], 0, a)
    BY <2>1, <2>3, OneConstant
  <2>5. QED
    BY <1>5, <2>2, <2>4 DEF After, StubNumber, syscall_handler, Promised
<1>6. CASE fn = "get_date"
  <2>1. Wrapper(fn) = Via("sys_date_time", << 1 >>, << >>)
    BY <1>6 DEF Wrapper, DrawingWrappers, TextWrappers
  <2>2. Len(a) = 0
    BY <1>6 DEF Parameters
  <2>3. Len(a) <= 2
    BY <2>2
  <2>4. After(F, StubNumber["sys_date_time"], 1, a)
    BY <2>1, <2>3, OneConstant
  <2>5. QED
    BY <1>6, <2>2, <2>4 DEF After, StubNumber, syscall_handler, Promised
<1>7. CASE fn = "read"
  <2>1. Wrapper(fn) = Plain("sys_read")
    BY <1>7 DEF Wrapper, DrawingWrappers, TextWrappers
  <2>2. Len(a) = 1
    BY <1>7 DEF Parameters
  <2>3. Len(a) <= 5
    BY <2>2
  <2>4. InOrder(F, StubNumber["sys_read"], a)
    BY <2>1, <2>3, PlainCall
  <2>5. QED
    BY <1>7, <2>2, <2>4 DEF InOrder, StubNumber, syscall_handler, Promised
<1>8. CASE fn = "getchar"
  <2> DEFINE pre == <<CharBuffer, 1>>
             none == << >>
  <2>1. Wrapper(fn) = Via("sys_getchar", pre, none) /\ Len(a) = 0
    BY <1>8 DEF Wrapper, DrawingWrappers, TextWrappers, Parameters
  <2>2. /\ pre \in Seq(Nat) /\ Len(pre) = 2 /\ pre[1] = CharBuffer /\ pre[2] = 1
        /\ none \in Seq(Nat) /\ Len(none) = 0
    BY DEF CharBuffer
  <2> HIDE DEF pre, none
  <2>3. Len(pre) + Len(a) + Len(none) <= 5 /\ Wrapper(fn) = Via("sys_getchar", pre, none)
    BY <2>1, <2>2
  <2>4. Places(F, StubNumber["sys_getchar"], pre, a)
    BY <2>2, <2>3, WithConstants
  <2>5. QED
    BY <1>8, <2>2, <2>4 DEF Places, StubNumber, syscall_handler, Promised
<1>9. CASE fn = "get_multiple_chars_sys"
  <2>1. Wrapper(fn) = Plain("sys_getchar")
    BY <1>9 DEF Wrapper, DrawingWrappers, TextWrappers
  <2>2. Len(a) = 2
    BY <1>9 DEF Parameters
  <2>3. Len(a) <= 5
    BY <2>2
  <2>4. InOrder(F, StubNumber["sys_getchar"], a)
    BY <2>1, <2>3, PlainCall
  <2>5. QED
    BY <1>9, <2>2, <2>4 DEF InOrder, StubNumber, syscall_handler, Promised
<1>10. CASE fn = "print_registers"
  <2>1. Wrapper(fn) = Plain("sys_print_registers")
    BY <1>10 DEF Wrapper, DrawingWrappers, TextWrappers
  <2>2. Len(a) = 1
    BY <1>10 DEF Parameters
  <2>3. Len(a) <= 5
    BY <2>2
  <2>4. InOrder(F, StubNumber["sys_print_registers"], a)
    BY <2>1, <2>3, PlainCall
  <2>5. QED
    BY <1>10, <2>2, <2>4 DEF InOrder, StubNumber, syscall_handler, Promised
<1>11. QED
  BY <1>1, <1>2, <1>3, <1>4, <1>5, <1>6, <1>7, <1>8, <1>9, <1>10 DEF TextWrappers

LEMMA DeviceRequests ==
  ASSUME NEW fn \in DOMAIN DeviceWrappers,
         NEW a \in Seq(Nat), Len(a) = Parameters[fn], NEW F, Received(F, fn, a)
  PROVE  syscall_handler(F[14], F) = Promised(fn, a)
<1>1. CASE fn = "get_ms_since_boot"
  <2>1. Wrapper(fn) = Plain("sys_get_ms_since_boot")
    BY <1>1 DEF Wrapper, DrawingWrappers, TextWrappers, DeviceWrappers
  <2>2. Len(a) = 0
    BY <1>1 DEF Parameters
  <2>3. Len(a) <= 5
    BY <2>2
  <2>4. InOrder(F, StubNumber["sys_get_ms_since_boot"], a)
    BY <2>1, <2>3, PlainCall
  <2>5. QED
    BY <1>1, <2>2, <2>4 DEF InOrder, StubNumber, syscall_handler, Promised
<1>2. CASE fn = "sleep_ms"
  <2>1. Wrapper(fn) = Plain("sys_sleep_ms")
    BY <1>2 DEF Wrapper, DrawingWrappers, TextWrappers, DeviceWrappers
  <2>2. Len(a) = 1
    BY <1>2 DEF Parameters
  <2>3. Len(a) <= 5
    BY <2>2
  <2>4. InOrder(F, StubNumber["sys_sleep_ms"], a)
    BY <2>1, <2>3, PlainCall
  <2>5. QED
    BY <1>2, <2>2, <2>4 DEF InOrder, StubNumber, syscall_handler, Promised
<1>3. CASE fn = "sys_kill_system"
  <2>1. Wrapper(fn) = Plain("sys_kill_system")
    BY <1>3 DEF Wrapper, DrawingWrappers, TextWrappers, DeviceWrappers
  <2>2. Len(a) = 0
    BY <1>3 DEF Parameters
  <2>3. Len(a) <= 5
    BY <2>2
  <2>4. InOrder(F, StubNumber["sys_kill_system"], a)
    BY <2>1, <2>3, PlainCall
  <2>5. QED
    BY <1>3, <2>2, <2>4 DEF InOrder, StubNumber, syscall_handler, Promised
<1>4. CASE fn = "audio_play"
  <2>1. Wrapper(fn) = Via("sys_audio", << 0 >>, << 0 >>)
    BY <1>4 DEF Wrapper, DrawingWrappers, TextWrappers, DeviceWrappers
  <2>2. Len(a) = 1
    BY <1>4 DEF Parameters
  <2>3. Len(a) <= 2
    BY <2>2
  <2>4. After(F, StubNumber["sys_audio"], 0, a)
    BY <2>1, <2>3, OneConstant
  <2>5. QED
    BY <1>4, <2>2, <2>4 DEF After, StubNumber, syscall_handler, Promised, syscall_audio, Refused
<1>5. CASE fn = "audio_stop"
  <2>1. Wrapper(fn) = Via("sys_audio", << 1 >>, <<0, 0>>)
    BY <1>5 DEF Wrapper, DrawingWrappers, TextWrappers, DeviceWrappers
  <2>2. Len(a) = 0
    BY <1>5 DEF Parameters
  <2>3. Len(a) <= 2
    BY <2>2
  <2>4. After(F, StubNumber["sys_audio"], 1, a)
    BY <2>1, <2>3, OneConstant
  <2>5. QED
    BY <1>5, <2>2, <2>4 DEF After, StubNumber, syscall_handler, Promised, syscall_audio, Refused
<1>6. CASE fn = "audio_beep"
  <2>1. Wrapper(fn) = Via("sys_audio", << 2 >>, << >>)
    BY <1>6 DEF Wrapper, DrawingWrappers, TextWrappers, DeviceWrappers
  <2>2. Len(a) = 2
    BY <1>6 DEF Parameters
  <2>3. Len(a) <= 2
    BY <2>2
  <2>4. After(F, StubNumber["sys_audio"], 2, a)
    BY <2>1, <2>3, OneConstant
  <2>5. QED
    BY <1>6, <2>2, <2>4 DEF After, StubNumber, syscall_handler, Promised, syscall_audio, Refused
<1>7. CASE fn = "do_benchmark_fps"
  <2>1. Wrapper(fn) = Via("sys_benchmark", << 0 >>, << >>)
    BY <1>7 DEF Wrapper, DrawingWrappers, TextWrappers, DeviceWrappers
  <2>2. Len(a) = 0
    BY <1>7 DEF Parameters
  <2>3. Len(a) <= 2
    BY <2>2
  <2>4. After(F, StubNumber["sys_benchmark"], 0, a)
    BY <2>1, <2>3, OneConstant
  <2>5. QED
    BY <1>7, <2>2, <2>4 DEF After, StubNumber, syscall_handler, Promised
<1>8. CASE fn = "do_benchmark_floating_point"
  <2>1. Wrapper(fn) = Via("sys_benchmark", << 1 >>, << >>)
    BY <1>8 DEF Wrapper, DrawingWrappers, TextWrappers, DeviceWrappers
  <2>2. Len(a) = 0
    BY <1>8 DEF Parameters
  <2>3. Len(a) <= 2
    BY <2>2
  <2>4. After(F, StubNumber["sys_benchmark"], 1, a)
    BY <2>1, <2>3, OneConstant
  <2>5. QED
    BY <1>8, <2>2, <2>4 DEF After, StubNumber, syscall_handler, Promised
<1>9. CASE fn = "do_benchmark_hardware_access"
  <2>1. Wrapper(fn) = Via("sys_benchmark", << 2 >>, << >>)
    BY <1>9 DEF Wrapper, DrawingWrappers, TextWrappers, DeviceWrappers
  <2>2. Len(a) = 0
    BY <1>9 DEF Parameters
  <2>3. Len(a) <= 2
    BY <2>2
  <2>4. After(F, StubNumber["sys_benchmark"], 2, a)
    BY <2>1, <2>3, OneConstant
  <2>5. QED
    BY <1>9, <2>2, <2>4 DEF After, StubNumber, syscall_handler, Promised
<1>10. CASE fn = "do_benchmark_timer_latency"
  <2>1. Wrapper(fn) = Via("sys_benchmark", << 3 >>, << >>)
    BY <1>10 DEF Wrapper, DrawingWrappers, TextWrappers, DeviceWrappers
  <2>2. Len(a) = 0
    BY <1>10 DEF Parameters
  <2>3. Len(a) <= 2
    BY <2>2
  <2>4. After(F, StubNumber["sys_benchmark"], 3, a)
    BY <2>1, <2>3, OneConstant
  <2>5. QED
    BY <1>10, <2>2, <2>4 DEF After, StubNumber, syscall_handler, Promised
<1>11. QED
  BY <1>1, <1>2, <1>3, <1>4, <1>5, <1>6, <1>7, <1>8, <1>9, <1>10 DEF DeviceWrappers

LEMMA Requests ==
  ASSUME NEW fn \in DOMAIN Parameters,
         NEW a \in Seq(Nat), Len(a) = Parameters[fn], NEW F, Received(F, fn, a)
  PROVE  syscall_handler(F[14], F) = Promised(fn, a)
<1>1. fn \in DOMAIN DrawingWrappers \cup DOMAIN TextWrappers \cup DOMAIN DeviceWrappers
  BY DEF DrawingWrappers, TextWrappers, DeviceWrappers, Parameters
<1>2. QED
  BY <1>1, DrawingRequests, TextRequests, DeviceRequests

(* The programs make calls of wrappers, and so do their loops.             *)
LEMMA Programs1 ==
  ASSUME NEW t \in Seq(Calls), t # << >>
  PROVE  /\ Tail(t) \in Seq(Calls) /\ Head(t) \in Calls
         /\ Head(t).fn = "while" => Head(t).args \o Stamp \o t \in Seq(Calls)
         /\ Head(t).fn = "until" => Head(t).args[2] \o t \in Seq(Calls)
         /\ Head(t).fn \notin {"start", "while", "until"} =>
              /\ Head(t).fn \in DOMAIN Parameters
              /\ Head(t).args \in Seq(Nat)
              /\ Len(Head(t).args) = Parameters[Head(t).fn]
<1> DEFINE c == Head(t)
<1>1. Tail(t) \in Seq(Calls) /\ c \in Calls
  BY HeadTailProperties
<1>2. IsCall(c) /\ Stamp \in Seq(Calls)
  BY <1>1, ProgramsAssumption
<1> HIDE DEF c
<1>3. /\ "start" \notin DOMAIN Parameters
      /\ "while" \notin DOMAIN Parameters
      /\ "until" \notin DOMAIN Parameters
  BY DEF Parameters
<1>4. CASE c.fn = "while"
  <2>1. c.args \in Seq(Calls)
    BY <1>2, <1>3, <1>4 DEF IsCall
  <2>2. c.args \o Stamp \in Seq(Calls)
    BY <1>2, <2>1, ConcatProperties
  <2>3. (c.args \o Stamp) \o t \in Seq(Calls)
    BY <2>2, ConcatProperties
  <2>4. QED
    BY <1>1, <1>4, <2>3 DEF c
<1>5. CASE c.fn = "until"
  <2>1. c.args[2] \in Seq(Calls)
    BY <1>2, <1>3, <1>5 DEF IsCall
  <2>2. c.args[2] \o t \in Seq(Calls)
    BY <2>1, ConcatProperties
  <2>3. QED
    BY <1>1, <1>5, <2>2 DEF c
<1>6. CASE c.fn \notin {"while", "until"}
  BY <1>1, <1>2, <1>6 DEF c, IsCall
<1>7. QED
  BY <1>4, <1>5, <1>6 DEF c

LEMMA CallStarts ==
  ASSUME CallInv, Syscall
  PROVE  CallInv' /\ request' = Promised(Head(todo).fn, Head(todo).args)
<1> DEFINE c == Head(todo)
           n == StubNumber[Wrapper(c.fn).stub]
           A == Arguments(c.fn, c.args)
<1>1. /\ todo \in Seq(Calls) /\ todo # << >>
      /\ c.fn \notin {"start", "while", "until"}
  BY DEF CallInv, Syscall
<1>2. /\ c.fn \in DOMAIN Parameters /\ c.args \in Seq(Nat)
      /\ Len(c.args) = Parameters[c.fn]
  BY <1>1, Programs1
<1>3. /\ caller' = PassedBy(Junk, A)
      /\ frame' = Pushed(SYSCALL(n, caller'))
      /\ request' = syscall_handler(frame'[14], frame')
      /\ pc' = "handler" /\ todo' = todo
  BY DEF Syscall
<1>4. Received(frame', c.fn, c.args)
  BY <1>3 DEF Received
<1>5. request' = Promised(c.fn, c.args)
  BY <1>2, <1>3, <1>4, Requests
<1>6. DOMAIN caller' = Registers
  BY <1>3 DEF PassedBy
<1>7. FrameInv'
  BY <1>3, <1>6, FrameOfCall DEF FrameInv
<1>8. QED
  BY <1>1, <1>2, <1>3, <1>5, <1>7 DEF CallInv, RequestInv, InCall

(* The answer goes into the place of RAX and nowhere else.                 *)
LEMMA Answered ==
  ASSUME FrameInv, RequestInv, todo \in Seq(Calls), NEW v, Answer(v),
         UNCHANGED <<todo, caller, request>>
  PROVE  CallInv'
<1>1. frame' = [frame EXCEPT ![14] = v] /\ pc' = "iretq"
  BY DEF Answer
<1>2. FrameInv'
  BY <1>1 DEF FrameInv
<1>3. QED
  BY <1>1, <1>2 DEF CallInv, RequestInv, InCall

LEMMA CallStep == CallInv /\ [Next]_vars => CallInv'
<1> SUFFICES ASSUME CallInv, [Next]_vars PROVE CallInv'
  OBVIOUS
<1>0. todo \in Seq(Calls) /\ (pc \in InCall => FrameInv /\ RequestInv)
  BY DEF CallInv
<1>1. CASE BootStep
  <2>1. UNCHANGED call /\ pc' \in {"main", "shell"}
    BY <1>1 DEF BootStep, Loader, InitInterrupts, EnterShell
  <2>2. QED
    BY <1>0, <2>1 DEF CallInv, InCall, call
<1>2. CASE StartProgram
  <2>1. todo' \in Seq(Calls) /\ pc' = "shell"
    BY <1>2, ProgramsAssumption DEF StartProgram
  <2>2. QED
    BY <2>1 DEF CallInv, InCall
<1>3. CASE StartWatch \/ TestWatch \/ TestKey
  <2>1. todo' \in Seq(Calls) /\ pc' = "shell"
    BY <1>0, <1>3, Programs1 DEF StartWatch, TestWatch, TestKey
  <2>2. QED
    BY <2>1 DEF CallInv, InCall
<1>4. CASE Syscall
  BY <1>4, CallStarts
<1>5. CASE \/ Serve \/ (\E k \in {0, Enter, KeyE, Any} : Getchar(k)) \/ Audio
           \/ EndSleep \/ ShowClock \/ EndBenchmark
  <2>1. pc \in InCall /\ UNCHANGED <<todo, caller, request>>
    BY <1>5 DEF Serve, Getchar, Audio, EndSleep, ShowClock, EndBenchmark, InCall
  <2>2. \E v : Answer(v)
    BY <1>5 DEF Serve, Getchar, Audio, EndSleep, ShowClock, EndBenchmark
  <2>3. QED
    BY <1>0, <2>1, <2>2, Answered
<1>6. CASE StartSleep \/ AskClock \/ StartBenchmark
  <2>1. /\ pc \in InCall /\ UNCHANGED call
        /\ pc' \in {"sleep", "clock", "benchmark"}
        /\ pc' = "sleep" => request[1] \in {"sleep_ms", "beep"}
        /\ pc' = "clock" => request[1] \in {"getTimeString", "getDateString"}
        /\ pc' = "benchmark" => request[1] = "benchmark"
    BY <1>6 DEF StartSleep, AskClock, StartBenchmark, InCall
  <2>2. QED
    BY <1>0, <2>1 DEF CallInv, FrameInv, RequestInv, InCall, call
<1>7. CASE Hlt \/ ReadClock \/ Round \/ IRQ0 \/ ClockTicks \/ UNCHANGED vars
  <2>1. UNCHANGED <<pc, call>>
    BY <1>7 DEF Hlt, ReadClock, Round, IRQ0, ClockTicks, vars
  <2>2. QED
    BY <2>1 DEF CallInv, FrameInv, RequestInv, call
<1>8. CASE Return
  <2>1. pc = "iretq" /\ pc' = "shell" /\ todo' = Tail(todo)
    BY <1>8 DEF Return
  <2>2. todo # << >>
    BY <1>0, <2>1 DEF InCall, RequestInv
  <2>3. QED
    BY <1>0, <2>1, <2>2, Programs1 DEF CallInv, InCall
<1>9. CASE Exit
  BY <1>0, <1>9 DEF Exit, CallInv, InCall, call
<1>10. QED
  BY <1>1, <1>2, <1>3, <1>4, <1>5, <1>6, <1>7, <1>8, <1>9 DEF Next, Step

LEMMA CallInit == MInit => CallInv
BY DEF MInit, Init, CallInv, InCall

(* The two halves of what the wrappers promise: the request, with the      *)
(* arguments in their places, when the kernel takes over, and the          *)
(* registers that C preserves when it has answered (syscall_call.c,        *)
(* syscall_asm_call.asm, interrupts.asm, syscall.c).                       *)
THEOREM CallsAsPromised == Spec => CallsKeepTheABI
<1>1. CallInv /\ [Next]_vars =>
        [ /\ pc = "shell" /\ pc' = "handler" =>
               request' = Promised(Head(todo).fn, Head(todo).args)
          /\ pc = "iretq" /\ pc' = "shell" =>
               \A r \in CalleeSaved : regs'[r] = caller[r] ]_vars
  <2> SUFFICES ASSUME CallInv, [Next]_vars
               PROVE  /\ pc = "shell" /\ pc' = "handler" =>
                           request' = Promised(Head(todo).fn, Head(todo).args)
                      /\ pc = "iretq" /\ pc' = "shell" =>
                           \A r \in CalleeSaved : regs'[r] = caller[r]
    OBVIOUS
  <2>1. CASE Syscall
    <3>1. pc = "shell"
      BY <2>1 DEF Syscall
    <3>2. QED
      BY <2>1, <3>1, CallStarts
  <2>2. CASE Return
    <3>1. pc = "iretq" /\ FrameInv
          /\ regs' = StubReturn(Popped(frame), caller["rbx"])
      BY <2>2 DEF Return, CallInv, InCall
    <3>2. QED
      BY <3>1, RegistersBack
  <2>3. CASE ~ Syscall /\ ~ Return
    <3>1. /\ ~ (pc = "shell" /\ pc' = "handler")
          /\ ~ (pc = "iretq" /\ pc' = "shell")
      <4>1. CASE BootStep \/ StartProgram \/ Exit \/ IRQ0 \/ ClockTicks
        BY <4>1 DEF BootStep, Loader, InitInterrupts, EnterShell, StartProgram,
                    Exit, IRQ0, ClockTicks
      <4>2. CASE StartWatch \/ TestWatch \/ TestKey \/ Serve
                 \/ (\E k \in {0, Enter, KeyE, Any} : Getchar(k)) \/ Audio
        BY <4>2 DEF StartWatch, TestWatch, TestKey, Serve, Getchar, Audio, Answer
      <4>3. CASE StartSleep \/ Hlt \/ EndSleep \/ AskClock \/ ReadClock \/ ShowClock
        BY <4>3 DEF StartSleep, Hlt, EndSleep, AskClock, ReadClock, ShowClock, Answer
      <4>4. CASE StartBenchmark \/ Round \/ EndBenchmark \/ UNCHANGED vars
        BY <4>4 DEF StartBenchmark, Round, EndBenchmark, Answer, vars
      <4>5. QED
        BY <2>3, <4>1, <4>2, <4>3, <4>4 DEF Next, Step
    <3>2. QED
      BY <3>1
  <2>4. QED
    BY <2>1, <2>2, <2>3
<1>2. QED
  BY <1>1, CallInit, CallStep, PTL DEF Spec, CallsKeepTheABI

------------------------------------------------------------------------------
(* The speaker.                                                            *)

(* Only two wrappers make the speaker sound.                               *)
LEMMA Silent ==
  ASSUME NEW fn \in DOMAIN Parameters, NEW a, fn \notin {"audio_play", "audio_beep"}
  PROVE  Promised(fn, a)[1] \notin {"play_sound", "beep"}
<1>1. CASE fn \in {"put_frame", "putPixel", "present_fullframe"}
  <2>1. CASE fn = "put_frame"
    BY <2>1 DEF Promised
  <2>2. CASE fn = "putPixel"
    BY <2>2 DEF Promised
  <2>3. CASE fn = "present_fullframe"
    BY <2>3 DEF Promised
  <2>4. QED
    BY <1>1, <2>1, <2>2, <2>3
<1>2. CASE fn \in {"write_at_back", "write_at_vram"}
  <2>1. CASE fn = "write_at_back"
    BY <2>1 DEF Promised
  <2>2. CASE fn = "write_at_vram"
    BY <2>2 DEF Promised
  <2>3. QED
    BY <1>2, <2>1, <2>2
<1>3. CASE fn \in {"get_screen_height", "get_screen_width"}
  <2>1. CASE fn = "get_screen_height"
    BY <2>1 DEF Promised
  <2>2. CASE fn = "get_screen_width"
    BY <2>2 DEF Promised
  <2>3. QED
    BY <1>3, <2>1, <2>2
<1>4. CASE fn \in {"write", "printError", "clearwindow", "do_resize"}
  <2>1. CASE fn = "write"
    BY <2>1 DEF Promised
  <2>2. CASE fn = "printError"
    BY <2>2 DEF Promised
  <2>3. CASE fn = "clearwindow"
    BY <2>3 DEF Promised
  <2>4. CASE fn = "do_resize"
    BY <2>4 DEF Promised
  <2>5. QED
    BY <1>4, <2>1, <2>2, <2>3, <2>4
<1>5. CASE fn \in {"get_time", "get_date", "read"}
  <2>1. CASE fn = "get_time"
    BY <2>1 DEF Promised
  <2>2. CASE fn = "get_date"
    BY <2>2 DEF Promised
  <2>3. CASE fn = "read"
    BY <2>3 DEF Promised
  <2>4. QED
    BY <1>5, <2>1, <2>2, <2>3
<1>6. CASE fn \in {"getchar", "get_multiple_chars_sys", "print_registers"}
  <2>1. CASE fn = "getchar"
    BY <2>1 DEF Promised
  <2>2. CASE fn = "get_multiple_chars_sys"
    BY <2>2 DEF Promised
  <2>3. CASE fn = "print_registers"
    BY <2>3 DEF Promised
  <2>4. QED
    BY <1>6, <2>1, <2>2, <2>3
<1>7. CASE fn \in {"get_ms_since_boot", "sleep_ms", "sys_kill_system", "audio_stop"}
  <2>1. CASE fn = "get_ms_since_boot"
    BY <2>1 DEF Promised
  <2>2. CASE fn = "sleep_ms"
    BY <2>2 DEF Promised
  <2>3. CASE fn = "sys_kill_system"
    BY <2>3 DEF Promised
  <2>4. CASE fn = "audio_stop"
    BY <2>4 DEF Promised
  <2>5. QED
    BY <1>7, <2>1, <2>2, <2>3, <2>4
<1>8. CASE fn \in {"do_benchmark_fps", "do_benchmark_floating_point"}
  <2>1. CASE fn = "do_benchmark_fps"
    BY <2>1 DEF Promised
  <2>2. CASE fn = "do_benchmark_floating_point"
    BY <2>2 DEF Promised
  <2>3. QED
    BY <1>8, <2>1, <2>2
<1>9. CASE fn \in {"do_benchmark_hardware_access", "do_benchmark_timer_latency"}
  <2>1. CASE fn = "do_benchmark_hardware_access"
    BY <2>1 DEF Promised
  <2>2. CASE fn = "do_benchmark_timer_latency"
    BY <2>2 DEF Promised
  <2>3. QED
    BY <1>9, <2>1, <2>2
<1>10. QED
  BY <1>1, <1>2, <1>3, <1>4, <1>5, <1>6, <1>7, <1>8, <1>9 DEF Parameters

LEMMA Sounding ==
  ASSUME CallInv, pc \in InCall, request[1] \in {"play_sound", "beep"}
  PROVE  request[2] \in Nat
<1> DEFINE c == Head(todo)
<1>1. /\ todo \in Seq(Calls) /\ todo # << >> /\ c.fn \in DOMAIN Parameters
      /\ request = Promised(c.fn, c.args)
  BY DEF CallInv, RequestInv
<1>2. c.fn \notin {"start", "while", "until"}
  BY <1>1 DEF Parameters
<1>3. c.args \in Seq(Nat) /\ Len(c.args) = Parameters[c.fn]
  BY <1>1, <1>2, Programs1
<1> HIDE DEF c
<1>4. c.fn \in {"audio_play", "audio_beep"}
  BY <1>1, Silent
<1>5. request[2] = c.args[1]
  <2>1. CASE c.fn = "audio_play"
    <3>1. Promised(c.fn, c.args) = IF c.args[1] = 0 THEN Refused
                                   ELSE <<"play_sound", c.args[1]>>
      BY <2>1 DEF Promised
    <3>2. Refused[1] \notin {"play_sound", "beep"}
      BY DEF Refused
    <3>3. QED
      BY <1>1, <3>1, <3>2
  <2>2. CASE c.fn = "audio_beep"
    <3>1. Promised(c.fn, c.args) = <<"beep", c.args[1], c.args[2]>>
      BY <2>2 DEF Promised
    <3>2. QED
      BY <1>1, <3>1
  <2>3. QED
    BY <1>4, <2>1, <2>2
<1>6. 1 \in 1 .. Len(c.args)
  BY <1>3, <1>4 DEF Parameters
<1>7. c.args[1] \in Nat
  BY <1>3, <1>6, ElementOfSeq
<1>8. QED
  BY <1>5, <1>7

QuotientWithin(n, d, hi, low) ==
  /\ n \in Nat /\ d \in Nat \ {0} /\ hi \in Nat /\ low \in Nat \ {0}
  /\ d <= n /\ low <= d /\ n < low * hi + low

LEMMA Quotient ==
  ASSUME NEW n, NEW d, NEW hi, NEW low, QuotientWithin(n, d, hi, low)
  PROVE  n \div d \in 1 .. hi
<1> USE DEF QuotientWithin
<1> DEFINE q == n \div d
<1>1. q \in Int /\ d * q <= n /\ n < d * q + d
  BY SMT
<1> HIDE DEF q
<1>2. ASSUME NEW k \in Int, k <= 0 PROVE d * k <= 0
  BY <1>2, SMT
<1>3. ASSUME NEW k \in Int, k > hi PROVE d * k >= low * hi + low
  <2>1. d * k >= low * k
    BY <1>3, SMT
  <2>2. low * k >= low * (hi + 1)
    BY <1>3, SMT
  <2>3. low * (hi + 1) = low * hi + low
    BY SMT
  <2>4. d * k \in Int /\ low * k \in Int /\ low * (hi + 1) \in Int
    BY <1>3, SMT
  <2>5. QED
    BY <2>1, <2>2, <2>3, <2>4, SMT
<1>4. q > 0
  <2> SUFFICES ASSUME q <= 0 PROVE FALSE
    BY <1>1
  <2>1. d * q <= 0 /\ d * q \in Int
    BY <1>1, <1>2
  <2>2. QED
    BY <1>1, <2>1
<1>5. q <= hi
  <2> SUFFICES ASSUME q > hi PROVE FALSE
    BY <1>1
  <2>1. d * q >= low * hi + low /\ d * q \in Int /\ low * hi \in Int
    BY <1>1, <1>3
  <2>2. QED
    BY <1>1, <2>1
<1>6. QED
  BY <1>1, <1>4, <1>5 DEF q

LEMMA Divisors ==
  ASSUME NEW freq \in Nat
  PROVE  pit_set_frequency(freq) \in 1 .. MaxDivisor
<1> DEFINE S == 1 .. MaxDivisor
           p == pit_set_frequency(freq)
<1>1. ASSUME NEW d \in Nat, d >= 37, d <= 32767 PROVE PIT_BASE_FREQ \div d \in S
  <2> DEFINE low == 37
  <2>1. QuotientWithin(PIT_BASE_FREQ, d, MaxDivisor, low)
    BY <1>1, SMT DEF QuotientWithin, PIT_BASE_FREQ, MaxDivisor
  <2> HIDE DEF low
  <2>2. QED
    BY <2>1, Quotient, SMT
<1>2. freq < 37 => p = PIT_BASE_FREQ \div 37
  BY SMT DEF pit_set_frequency
<1>3. freq > 32767 => p = PIT_BASE_FREQ \div 32767
  BY SMT DEF pit_set_frequency
<1>4. freq >= 37 /\ freq <= 32767 => p = PIT_BASE_FREQ \div freq
  BY SMT DEF pit_set_frequency
<1>5. freq < 37 \/ freq > 32767 \/ (freq >= 37 /\ freq <= 32767)
  BY SMT
<1> HIDE DEF S, p
<1>6. p \in S
  <2>1. CASE freq < 37
    BY <1>1, <1>2, <2>1, SMT
  <2>2. CASE freq > 32767
    BY <1>1, <1>3, <2>2, SMT
  <2>3. CASE freq >= 37 /\ freq <= 32767
    BY <1>1, <1>4, <2>3, SMT
  <2>4. QED
    BY <1>5, <2>1, <2>2, <2>3, SMT
<1>7. QED
  BY <1>6, Zenon DEF S, p

(* A speaker that sounds does it with a divisor that fits.                 *)
SpeakerInv == CallInv /\ SpeakerLeftAsPromised

LEMMA Played ==
  ASSUME SpeakerLeftAsPromised, NEW freq \in Nat, play_sound(freq)
  PROVE  port61' \ {0, 1} = {5} /\ (port61' # {5} => divisor' \in 1 .. MaxDivisor)
<1>1. CASE freq = 0
  BY <1>1 DEF play_sound, stop_sound, SpeakerLeftAsPromised
<1>2. CASE freq # 0
  <2>1. port61' = port61 \cup {0, 1} /\ divisor' = pit_set_frequency(freq)
    BY <1>2 DEF play_sound
  <2>2. port61' \ {0, 1} = {5}
    BY <2>1 DEF SpeakerLeftAsPromised
  <2>3. QED
    BY <2>1, <2>2, Divisors
<1>3. QED
  BY <1>1, <1>2

LEMMA Silenced ==
  ASSUME SpeakerLeftAsPromised, stop_sound PROVE port61' = {5}
BY DEF SpeakerLeftAsPromised, stop_sound

LEMMA SpeakerStep == SpeakerInv /\ [Next]_vars => SpeakerLeftAsPromised'
<1> SUFFICES ASSUME SpeakerInv, [Next]_vars PROVE SpeakerLeftAsPromised'
  OBVIOUS
<1> USE DEF SpeakerInv
<1>1. CASE Audio
  <2>1. /\ pc = "handler" /\ pc' = "iretq" /\ UNCHANGED request
        /\ \/ request[1] = "play_sound" /\ play_sound(request[2])
           \/ request[1] = "stop_sound" /\ stop_sound
    BY <1>1 DEF Audio, Answer
  <2>2. CASE request[1] = "play_sound" /\ play_sound(request[2])
    BY <2>1, <2>2, Sounding, Played DEF SpeakerLeftAsPromised, InCall
  <2>3. CASE stop_sound
    BY <2>3, Silenced DEF SpeakerLeftAsPromised
  <2>4. QED
    BY <2>1, <2>2, <2>3
<1>2. CASE StartSleep
  <2>1. /\ pc = "handler" /\ pc' = "sleep" /\ UNCHANGED request
        /\ \/ UNCHANGED <<port61, divisor>>
           \/ request[1] = "beep" /\ play_sound(request[2])
    BY <1>2 DEF StartSleep, call
  <2>2. CASE request[1] = "beep" /\ play_sound(request[2])
    BY <2>1, <2>2, Sounding, Played DEF SpeakerLeftAsPromised, InCall
  <2>3. CASE UNCHANGED <<port61, divisor>>
    BY <2>1, <2>3 DEF SpeakerLeftAsPromised
  <2>4. QED
    BY <2>1, <2>2, <2>3
<1>3. CASE EndSleep
  <2>1. /\ pc = "sleep" /\ UNCHANGED request
        /\ IF request[1] = "beep" THEN stop_sound ELSE UNCHANGED <<port61, divisor>>
    BY <1>3 DEF EndSleep
  <2>2. request[1] \in {"sleep_ms", "beep"}
    BY <2>1 DEF CallInv
  <2>3. CASE request[1] = "beep"
    BY <2>1, <2>3, Silenced DEF SpeakerLeftAsPromised
  <2>4. CASE request[1] = "sleep_ms"
    BY <2>1, <2>4 DEF SpeakerLeftAsPromised
  <2>5. QED
    BY <2>2, <2>3, <2>4
<1>4. CASE \/ Serve \/ (\E k \in {0, Enter, KeyE, Any} : Getchar(k))
           \/ ShowClock \/ EndBenchmark
  <2>1. UNCHANGED <<port61, divisor, request>>
    BY <1>4 DEF Serve, Getchar, ShowClock, EndBenchmark, device
  <2>2. request[1] \notin {"beep", "stop_sound"}
    BY <1>4 DEF Serve, Longer, Getchar, ShowClock, EndBenchmark, CallInv
  <2>3. QED
    BY <2>1, <2>2 DEF SpeakerLeftAsPromised
<1>5. CASE AskClock \/ StartBenchmark \/ Return \/ Exit \/ Syscall
  <2>1. UNCHANGED <<port61, divisor>> /\ pc' # "iretq"
    BY <1>5 DEF AskClock, StartBenchmark, Return, Exit, Syscall, device
  <2>2. QED
    BY <2>1 DEF SpeakerLeftAsPromised
<1>6. CASE BootStep \/ StartProgram \/ StartWatch \/ TestWatch \/ TestKey
  <2>1. UNCHANGED <<port61, divisor>> /\ pc' # "iretq"
    BY <1>6 DEF BootStep, Loader, InitInterrupts, EnterShell, StartProgram,
                StartWatch, TestWatch, TestKey, device
  <2>2. QED
    BY <2>1 DEF SpeakerLeftAsPromised
<1>7. CASE Hlt \/ ReadClock \/ Round \/ IRQ0 \/ ClockTicks \/ UNCHANGED vars
  <2>1. UNCHANGED <<port61, divisor, pc, request>>
    BY <1>7 DEF Hlt, ReadClock, Round, IRQ0, ClockTicks, vars, call, device
  <2>2. QED
    BY <2>1 DEF SpeakerLeftAsPromised
<1>8. QED
  BY <1>1, <1>2, <1>3, <1>4, <1>5, <1>6, <1>7 DEF Next, Step

(* No call leaves the speaker otherwise than it promises, whatever the     *)
(* frequencies and the order of the calls: bits 0 and 1 of port 0x61 are   *)
(* the only ones that change, and the divisor fits (audio.c, syscall.c).   *)
THEOREM SpeakerAsPromised == Spec => []SpeakerLeftAsPromised
<1>1. MInit => SpeakerInv
  <2>1. MInit => SpeakerLeftAsPromised
    BY DEF MInit, Init, SpeakerLeftAsPromised
  <2>2. QED
    BY <2>1, CallInit DEF SpeakerInv
<1>2. SpeakerInv /\ [Next]_vars => SpeakerInv'
  BY CallStep, SpeakerStep DEF SpeakerInv
<1>3. SpeakerInv => SpeakerLeftAsPromised
  BY DEF SpeakerInv
<1>4. QED
  BY <1>1, <1>2, <1>3, PTL DEF Spec

------------------------------------------------------------------------------
(* The clock.                                                              *)

LEMMA FieldRanges ==
  ASSUME NEW t, IsTime(t)
  PROVE  /\ t[1] \in 0 .. 59 /\ t[2] \in 0 .. 59 /\ t[3] \in 0 .. 23
         /\ t[4] \in 1 .. 31 /\ t[5] \in 1 .. 12 /\ t[6] \in 0 .. 99
         /\ t[7] \in 0 .. 99
BY DEF IsTime, First, Last

(* The next second reaches the minute only by changing it, and the day the *)
(* year only by changing the month.                                        *)
LEMMA Carries ==
  ASSUME NEW t, IsTime(t), t # Last
  PROVE  LET u == NextTime(t)
         IN  /\ IsTime(u)
             /\ u[2] = t[2] => u[3] = t[3]
             /\ u[5] = t[5] => u[6] = t[6] /\ u[7] = t[7]
<1> DEFINE P(i) == t[i] # Last[i] /\ \A j \in 1 .. i - 1 : t[j] = Last[j]
           k == CHOOSE i \in 1 .. 7 : P(i)
           u == NextTime(t)
<1>1. \E i \in 1 .. 7 : t[i] # Last[i]
  <2>1. Last \in [1 .. 7 -> Nat]
    BY DEF Last
  <2>2. QED
    BY <2>1 DEF IsTime
<1>2. \E i \in 1 .. 7 : P(i)
  <2>1. CASE t[1] # Last[1]
    BY <2>1
  <2>2. CASE t[1] = Last[1] /\ t[2] # Last[2]
    BY <2>2
  <2>3. CASE t[1] = Last[1] /\ t[2] = Last[2] /\ t[3] # Last[3]
    BY <2>3
  <2>4. CASE t[1] = Last[1] /\ t[2] = Last[2] /\ t[3] = Last[3] /\ t[4] # Last[4]
    BY <2>4
  <2>5. CASE \A j \in 1 .. 4 : t[j] = Last[j]
    <3>1. t[5] # Last[5] => P(5)
      BY <2>5
    <3>2. t[5] = Last[5] /\ t[6] # Last[6] => P(6)
      BY <2>5
    <3>3. t[5] = Last[5] /\ t[6] = Last[6] => P(7)
      BY <1>1, <2>5
    <3>4. QED
      BY <3>1, <3>2, <3>3
  <2>6. QED
    BY <2>1, <2>2, <2>3, <2>4, <2>5
<1>3. k \in 1 .. 7 /\ P(k)
  BY <1>2
<1>4. u = [i \in 1 .. 7 |-> IF i < k THEN First[i]
                           ELSE IF i = k THEN t[i] + 1 ELSE t[i]]
  BY DEF NextTime
<1> HIDE DEF u, k
<1>5. ASSUME NEW i \in 1 .. 7 PROVE u[i] \in Nat /\ u[i] \in First[i] .. Last[i]
  <2>1. t[i] \in Nat /\ First[i] \in Nat /\ Last[i] \in Nat
        /\ First[i] <= t[i] /\ t[i] <= Last[i]
    BY DEF IsTime, First, Last
  <2>2. u[i] = IF i < k THEN First[i] ELSE IF i = k THEN t[i] + 1 ELSE t[i]
    BY <1>4
  <2>3. i = k => t[i] # Last[i]
    BY <1>3
  <2>4. QED
    BY <2>1, <2>2, <2>3
<1>6. IsTime(u)
  BY <1>4, <1>5 DEF IsTime
<1>7. u[2] = t[2] => u[3] = t[3]
  <2>1. k > 2 => t[2] = 59 /\ u[2] = 0
    BY <1>3, <1>4 DEF First, Last
  <2>2. k = 2 => u[2] # t[2]
    BY <1>4, FieldRanges
  <2>3. k < 2 => u[3] = t[3]
    BY <1>3, <1>4
  <2>4. QED
    BY <1>3, <2>1, <2>2, <2>3
<1>8. u[5] = t[5] => u[6] = t[6] /\ u[7] = t[7]
  <2>1. k > 5 => t[5] = 12 /\ u[5] = 1
    BY <1>3, <1>4 DEF First, Last
  <2>2. k = 5 => u[5] # t[5]
    BY <1>4, FieldRanges
  <2>3. k < 5 => u[6] = t[6] /\ u[7] = t[7]
    BY <1>3, <1>4
  <2>4. QED
    BY <1>3, <2>1, <2>2, <2>3
<1>9. QED
  BY <1>6, <1>7, <1>8 DEF u

(* The digits go to BCD and back, and the hour to the other time zone.     *)
LEMMA FieldsRead ==
  ASSUME IsTime(rtc)
  PROVE  /\ ReadField("second") = rtc[1] /\ ReadField("minute") = rtc[2]
         /\ ReadField("hour") = LocalTime(rtc)[1]
         /\ ReadField("day") = rtc[4] /\ ReadField("month") = rtc[5]
         /\ ReadField("year") = rtc[6] /\ ReadField("century") = rtc[7]
<1> DEFINE at(f) == CHOOSE i \in 1 .. 7 : Fields[i] = f
<1>1. /\ at("second") = 1 /\ at("minute") = 2 /\ at("hour") = 3 /\ at("day") = 4
      /\ at("month") = 5 /\ at("year") = 6 /\ at("century") = 7
  BY DEF Fields
<1>2. \A n \in 0 .. 99 : toNum(16 * (n \div 10) + (n % 10)) = n
  BY DEF toNum
<1>3. \A f : timer(f) = 16 * (rtc[at(f)] \div 10) + (rtc[at(f)] % 10)
  BY DEF timer
<1>4. \A i \in 1 .. 7 : rtc[i] \in 0 .. 99
  BY FieldRanges
<1> HIDE DEF at
<1>5. \A f : at(f) \in 1 .. 7 => toNum(timer(f)) = rtc[at(f)]
  BY <1>2, <1>3, <1>4
<1>6. getHours = LocalTime(rtc)[1]
  <2>1. toNum(timer("hour")) = rtc[3] /\ rtc[3] \in 0 .. 23
    BY <1>1, <1>5, FieldRanges
  <2>2. \A h \in 0 .. 23 : (h + 24 + -3) % 24 = IF h + -3 < 0 THEN h + -3 + 24 ELSE h + -3
    OBVIOUS
  <2>3. QED
    BY <2>1, <2>2 DEF getHours, LocalTime, TIMEZONE_OFFSET
<1>7. QED
  BY <1>1, <1>5, <1>6 DEF ReadField

(* A call sees at most one tick of the clock, and each of its reads comes  *)
(* before or after it.                                                     *)
Right(t) == IF request[1] = "getTimeString" THEN LocalTime(t) ELSE DateOf(t)

ReadInv ==
  /\ IsTime(asked)
  /\ asked = rtc \/ (asked # Last /\ rtc = NextTime(asked))
  /\ read \in Seq(Int) /\ Len(read) <= Len(Reads)
  /\ \A i \in 1 .. Len(read) : read[i] \in {Right(asked)[i], Right(rtc)[i]}

ClockInv ==
  /\ CallInv
  /\ IsTime(rtc)
  /\ pc = "clock" => ReadInv

LEMMA NextRead ==
  ASSUME ClockInv, pc = "clock", NEW i \in 1 .. Len(Reads)
  PROVE  ReadField(Reads[i]) = Right(rtc)[i] /\ ReadField(Reads[i]) \in Int
<1>1. request[1] \in {"getTimeString", "getDateString"}
  BY DEF ClockInv, CallInv
<1>2. IsTime(rtc)
  BY DEF ClockInv
<1>3. \A j \in 1 .. 7 : rtc[j] \in Int
  BY <1>2 DEF IsTime
<1>4. LocalTime(rtc)[1] \in Int
  BY <1>3 DEF LocalTime, TIMEZONE_OFFSET
<1>5. CASE request[1] = "getTimeString"
  <2>1. Reads = <<"hour", "minute", "second">> /\ Right(rtc) = LocalTime(rtc)
    BY <1>5 DEF Reads, Right
  <2>2. LocalTime(rtc)[2] = rtc[2] /\ LocalTime(rtc)[3] = rtc[1]
    BY DEF LocalTime
  <2>3. i = 1 \/ i = 2 \/ i = 3
    BY <2>1
  <2>4. QED
    BY <1>2, <1>3, <1>4, <2>1, <2>2, <2>3, FieldsRead
<1>6. CASE request[1] = "getDateString"
  <2>1. Reads = <<"day", "month", "year", "century">> /\ Right(rtc) = DateOf(rtc)
    BY <1>6 DEF Reads, Right
  <2>2. i = 1 \/ i = 2 \/ i = 3 \/ i = 4
    BY <2>1
  <2>3. QED
    BY <1>2, <1>3, <2>1, <2>2, FieldsRead DEF DateOf
<1>7. QED
  BY <1>1, <1>5, <1>6

LEMMA ClockRead ==
  ASSUME ClockInv, ReadClock PROVE ReadInv'
<1> DEFINE n == Len(read)
           v == ReadField(Reads[n + 1])
<1>1. /\ pc = "clock" /\ n < Len(Reads) /\ read' = Append(read, v)
      /\ UNCHANGED <<rtc, asked, request>>
  BY DEF ReadClock, call
<1>2. ReadInv
  BY <1>1 DEF ClockInv
<1>3. n \in Nat /\ Len(Reads) \in Nat
  BY <1>2, LenProperties DEF ReadInv, Reads
<1>4. n + 1 \in 1 .. Len(Reads)
  BY <1>1, <1>3
<1>5. v = Right(rtc)[n + 1] /\ v \in Int
  BY <1>1, <1>4, NextRead
<1> HIDE DEF v
<1>6. /\ read' \in Seq(Int) /\ Len(read') = n + 1
      /\ \A i \in 1 .. n : read'[i] = read[i]
      /\ read'[n + 1] = v
  BY <1>1, <1>2, <1>5, AppendProperties DEF ReadInv
<1>7. Right(asked)' = Right(asked) /\ Right(rtc)' = Right(rtc) /\ Reads' = Reads
  BY <1>1 DEF Right, LocalTime, DateOf, Reads
<1>8. ASSUME NEW i \in 1 .. n + 1
      PROVE  read'[i] \in {Right(asked)[i], Right(rtc)[i]}
  <2>1. CASE i \in 1 .. n
    BY <1>2, <1>6, <2>1 DEF ReadInv
  <2>2. CASE i = n + 1
    BY <1>5, <1>6, <2>2
  <2>3. QED
    BY <1>3, <2>1, <2>2
<1>9. Len(read') <= Len(Reads')
  BY <1>1, <1>3, <1>6, <1>7
<1>10. \A i \in 1 .. Len(read') : read'[i] \in {Right(asked)'[i], Right(rtc)'[i]}
  BY <1>6, <1>7, <1>8
<1>11. QED
  BY <1>1, <1>2, <1>6, <1>9, <1>10 DEF ReadInv

LEMMA ClockTick ==
  ASSUME ClockInv, ClockTicks
  PROVE  ClockInv'
<1>1. /\ rtc # Last /\ rtc' = NextTime(rtc) /\ (pc = "clock" => rtc = asked)
      /\ UNCHANGED <<pc, call, asked, read>>
  BY DEF ClockTicks
<1>2. IsTime(rtc) /\ rtc # Last
  BY <1>1 DEF ClockInv
<1>3. IsTime(rtc')
  BY <1>1, <1>2, Carries
<1>4. CallInv'
  BY <1>1, CallStep DEF ClockInv, CallInv, FrameInv, RequestInv, call
<1>5. ASSUME pc = "clock" PROVE ReadInv'
  <2>1. ReadInv /\ asked = rtc
    BY <1>1, <1>5 DEF ClockInv, ReadInv
  <2>2. Right(asked)' = Right(asked) /\ Reads' = Reads
    BY <1>1 DEF Right, LocalTime, DateOf, Reads, call
  <2>3. \A i \in 1 .. Len(read) : read[i] = Right(asked)[i]
    BY <2>1 DEF ReadInv
  <2>4. QED
    BY <1>1, <1>2, <2>1, <2>2, <2>3 DEF ReadInv
<1>6. QED
  BY <1>1, <1>3, <1>4, <1>5 DEF ClockInv

LEMMA ClockStep == ClockInv /\ [Next]_vars => ClockInv'
<1> SUFFICES ASSUME ClockInv, [Next]_vars PROVE ClockInv'
  OBVIOUS
<1>1. CallInv'
  BY CallStep DEF ClockInv
<1>2. CASE ClockTicks
  BY <1>2, ClockTick
<1>3. CASE ReadClock
  <2>1. UNCHANGED <<pc, rtc>>
    BY <1>3 DEF ReadClock
  <2>2. QED
    BY <1>1, <1>3, <2>1, ClockRead DEF ClockInv
<1>4. CASE AskClock
  <2>1. asked' = rtc /\ read' = << >> /\ UNCHANGED rtc
    BY <1>4 DEF AskClock
  <2>2. << >> \in Seq(Int) /\ Len(<< >>) = 0
    OBVIOUS
  <2>3. 0 <= Len(Reads')
    BY DEF Reads
  <2>4. ReadInv'
    BY <2>1, <2>2, <2>3 DEF ReadInv, ClockInv
  <2>5. QED
    BY <1>1, <2>1, <2>4 DEF ClockInv
<1>5. CASE ~ ClockTicks /\ ~ ReadClock /\ ~ AskClock
  <2>1. /\ UNCHANGED rtc
        /\ pc' = "clock" => UNCHANGED <<pc, request, asked, read>>
    <3>1. CASE BootStep \/ StartProgram \/ StartWatch \/ TestWatch \/ TestKey
               \/ Syscall
      BY <3>1 DEF BootStep, Loader, InitInterrupts, EnterShell, StartProgram,
                  StartWatch, TestWatch, TestKey, Syscall, call, device
    <3>2. CASE \/ Serve \/ (\E k \in {0, Enter, KeyE, Any} : Getchar(k)) \/ Audio
               \/ EndSleep \/ ShowClock \/ EndBenchmark
      BY <3>2 DEF Serve, Getchar, Audio, EndSleep, ShowClock, EndBenchmark,
                  Answer, device
    <3>3. CASE StartSleep \/ StartBenchmark \/ Return \/ Exit
      BY <3>3 DEF StartSleep, StartBenchmark, Return, Exit, call, device
    <3>4. CASE Hlt \/ Round \/ IRQ0 \/ UNCHANGED vars
      BY <3>4 DEF Hlt, Round, IRQ0, vars, call, device
    <3>5. QED
      BY <1>5, <3>1, <3>2, <3>3, <3>4 DEF Next, Step
  <2>2. pc' = "clock" => ReadInv'
    BY <2>1 DEF ClockInv, ReadInv, Right, LocalTime, DateOf, Reads
  <2>3. QED
    BY <1>1, <2>1, <2>2 DEF ClockInv
<1>6. QED
  BY <1>2, <1>3, <1>4, <1>5

LEMMA ClockInit == MInit => ClockInv
BY CallInit, ClockAssumption DEF MInit, Init, ClockInv

(* Two reads that can only be equal when no minute, or no month, ends      *)
(* between them.                                                           *)
LEMMA WithoutCarry ==
  ASSUME ReadInv, IsTime(rtc), Len(read) = Len(Reads),
         request[1] \in {"getTimeString", "getDateString"},
         IF request[1] = "getTimeString" THEN asked[2] = rtc[2] ELSE asked[5] = rtc[5]
  PROVE  read \in {Right(asked), Right(rtc)}
<1>1. /\ read \in Seq(Int) /\ IsTime(asked)
      /\ \A i \in 1 .. Len(read) : read[i] \in {Right(asked)[i], Right(rtc)[i]}
  BY DEF ReadInv
<1>2. /\ asked[2] = rtc[2] => asked[3] = rtc[3]
      /\ asked[5] = rtc[5] => asked[6] = rtc[6] /\ asked[7] = rtc[7]
  BY Carries DEF ReadInv
<1>3. ASSUME NEW t, IsTime(t)
      PROVE  LocalTime(t) \in Seq(Int) /\ DateOf(t) \in Seq(Int)
  <2>0. t \in [1 .. 7 -> Nat]
    BY <1>3 DEF IsTime
  <2>1. \A j \in 1 .. 7 : t[j] \in Int
    BY <2>0
  <2>2. (t[3] + 24 + TIMEZONE_OFFSET) % 24 \in Int
    BY <2>1 DEF TIMEZONE_OFFSET
  <2>3. QED
    BY <2>1, <2>2 DEF LocalTime, DateOf
<1>4. CASE request[1] = "getTimeString"
  <2>1. /\ Right(asked) = LocalTime(asked) /\ Right(rtc) = LocalTime(rtc)
        /\ Len(read) = 3 /\ asked[2] = rtc[2] /\ asked[3] = rtc[3]
    BY <1>2, <1>4 DEF Right, Reads
  <2>2. \A t : Len(LocalTime(t)) = 3 /\ LocalTime(t)[2] = t[2]
    BY DEF LocalTime
  <2>3. LocalTime(asked)[1] = LocalTime(rtc)[1]
    BY <2>1 DEF LocalTime
  <2>4. ASSUME NEW t \in {asked, rtc}, read[3] = LocalTime(t)[3]
        PROVE  read = LocalTime(t)
    <3>1. read[1] = LocalTime(t)[1] /\ read[2] = LocalTime(t)[2]
      BY <1>1, <2>1, <2>2, <2>3
    <3> DEFINE shown == LocalTime(t)
    <3>2. shown \in Seq(Int) /\ Len(read) = Len(shown)
      BY <1>1, <1>3, <2>1, <2>2
    <3>3. \A i \in 1 .. Len(read) : read[i] = shown[i]
      BY <2>1, <2>4, <3>1
    <3> HIDE DEF shown
    <3>4. read = shown
      BY <1>1, <3>2, <3>3, SeqEqual
    <3>5. QED
      BY <3>4 DEF shown
  <2>5. read[3] = LocalTime(asked)[3] \/ read[3] = LocalTime(rtc)[3]
    BY <1>1, <2>1
  <2>6. QED
    BY <2>1, <2>4, <2>5
<1>5. CASE request[1] = "getDateString"
  <2>1. /\ Right(asked) = DateOf(asked) /\ Right(rtc) = DateOf(rtc)
        /\ Len(read) = 4 /\ asked[5] = rtc[5] /\ asked[6] = rtc[6]
        /\ asked[7] = rtc[7]
    BY <1>2, <1>5 DEF Right, Reads
  <2>2. \A t : /\ Len(DateOf(t)) = 4 /\ DateOf(t)[2] = t[5]
               /\ DateOf(t)[3] = t[6] /\ DateOf(t)[4] = t[7]
    BY DEF DateOf
  <2>3. ASSUME NEW t \in {asked, rtc}, read[1] = DateOf(t)[1]
        PROVE  read = DateOf(t)
    <3>1. /\ read[2] = DateOf(t)[2] /\ read[3] = DateOf(t)[3]
          /\ read[4] = DateOf(t)[4]
      BY <1>1, <2>1, <2>2
    <3> DEFINE shown == DateOf(t)
    <3>2. shown \in Seq(Int) /\ Len(read) = Len(shown)
      BY <1>1, <1>3, <2>1, <2>2
    <3>3. \A i \in 1 .. Len(read) : read[i] = shown[i]
      BY <2>1, <2>3, <3>1
    <3> HIDE DEF shown
    <3>4. read = shown
      BY <1>1, <3>2, <3>3, SeqEqual
    <3>5. QED
      BY <3>4 DEF shown
  <2>4. read[1] = DateOf(asked)[1] \/ read[1] = DateOf(rtc)[1]
    BY <1>1, <2>1
  <2>5. QED
    BY <2>1, <2>3, <2>4
<1>6. QED
  BY <1>4, <1>5

(* At whatever time a call comes, and wherever in it a second ends: every  *)
(* number of the time or the date that is shown was right during the call, *)
(* and the whole of it unless a minute or a month ended (realTimeClock.c). *)
THEOREM ClockAsShown == Spec => []TimeShown
<1>1. ClockInv => TimeShown
  <2> SUFFICES ASSUME ClockInv, pc = "clock", Len(read) = Len(Reads)
               PROVE  TimeShown
    BY DEF TimeShown
  <2>1. /\ ReadInv /\ IsTime(rtc)
        /\ request[1] \in {"getTimeString", "getDateString"}
    BY DEF ClockInv, CallInv
  <2>2. DOMAIN read = 1 .. Len(read)
    BY <2>1, LenProperties DEF ReadInv
  <2>3. \A i \in DOMAIN read : read[i] \in {Right(asked)[i], Right(rtc)[i]}
    BY <2>1, <2>2 DEF ReadInv
  <2>4. \/ IF request[1] = "getTimeString" THEN asked[2] # rtc[2]
           ELSE asked[5] # rtc[5]
        \/ read \in {Right(asked), Right(rtc)}
    BY <2>1, WithoutCarry
  <2>5. QED
    BY <2>3, <2>4 DEF TimeShown, Right
<1>2. ClockInv /\ [Next]_vars => ClockInv'
  BY ClockStep
<1>3. QED
  BY <1>1, <1>2, ClockInit, PTL DEF Spec
===============================================================================

--------------------------------- MODULE Boot ---------------------------------
(***************************************************************************)
(* From the loader's jump to the kernel until the shell runs: the packed   *)
(* image is taken apart, the BSS of the kernel is cleared, and the         *)
(* interrupts are set up.  Addresses are words counted from the place      *)
(* where Pure64 leaves the image, 0x100000.  The payload follows the       *)
(* kernel's binary and so lies where its BSS and its stack will be.        *)
(***************************************************************************)
EXTENDS Integers, Sequences

CONSTANTS
  Kernel, Shell,   \* the words of kernel.bin and of 0000-shell.bin
  PageSize,        \* the linker starts the BSS on a page
  BssSize,
  ShellAddress,    \* 0x400000
  Top              \* last address

buildImage == Kernel \o <<1, Len(Shell)>> \o Shell

endOfKernelBinary == Len(Kernel)
bss         == PageSize * ((endOfKernelBinary + PageSize - 1) \div PageSize)
endOfKernel == bss + BssSize

(* The packed image and the kernel with its BSS end below the shell.       *)
ASSUME LayoutAssumption ==
  /\ Kernel \in Seq(Nat) /\ Shell \in Seq(Nat)
  /\ PageSize \in Nat \ {0} /\ BssSize \in Nat
  /\ ShellAddress \in Nat /\ Top \in Nat
  /\ endOfKernelBinary <= bss
  /\ endOfKernel <= ShellAddress
  /\ Len(buildImage) <= ShellAddress
  /\ ShellAddress + Len(Shell) <= Top + 1

VARIABLES
  pc,
  mem,
  step,        \* of init_interrupts
  interrupts,  \* the interrupt flag of the processor
  idt,         \* vectors that have an entry in the kernel's table
  idtr,        \* whose table the processor uses
  masked,      \* lines that the two 8259 hold back
  g_tick_hz    \* ticks per second, 0 until timer_init

machine == <<step, interrupts, idt, idtr, masked, g_tick_hz>>

------------------------------------------------------------------------------
(* Pure64 enters the kernel with interrupts off, its own table loaded and  *)
(* the lines of keyboard, cascade and real time clock open.  It has        *)
(* cleared the periodic flag of that clock, so line 8 stays silent and     *)
(* only timer and keyboard ever ask.                                       *)
Pure64Opens == {1, 2, 8}
Asking      == {0, 1}

Init ==
  /\ pc = "loader"
  /\ mem = [a \in 0 .. Top |->
              IF a < Len(buildImage) THEN buildImage[a + 1] ELSE 0]
  /\ step = 1
  /\ interrupts = FALSE
  /\ idt = {} /\ idtr = "Pure64"
  /\ masked = (0 .. 15) \ Pure64Opens
  /\ g_tick_hz = 0

(* readUint32 of the size, then memcpy of that many words.                 *)
loadModule(m, module, target) ==
  [a \in 0 .. Top |-> IF a \in target .. target + m[module] - 1
                      THEN m[module + 1 + a - target] ELSE m[a]]

(* readUint32 of the count; the Makefile packs one module, and there is    *)
(* one address for it.                                                     *)
loadModules(m, payload) ==
  IF m[payload] = 1 THEN loadModule(m, payload + 1, ShellAddress) ELSE m

clearBSS(m) ==
  [a \in 0 .. Top |-> IF a \in bss .. endOfKernel - 1 THEN 0 ELSE m[a]]

(* Mutant: the BSS is cleared before the payload is taken out of it.       *)
initializeKernelBinaryClearsFirst(m) ==
  loadModules(clearBSS(m), endOfKernelBinary)

initializeKernelBinary(m) == clearBSS(loadModules(m, endOfKernelBinary))

Loader ==
  /\ pc = "loader"
  /\ mem' = initializeKernelBinary(mem)
  /\ pc' = "main"
  /\ UNCHANGED machine

------------------------------------------------------------------------------
idt_set_entry(i)    == idt \cup {i}
pic_unmask_irq(irq) == masked \ {irq}
timer_init(freq_hz) == IF freq_hz = 0 THEN 1000 ELSE freq_hz

idt_init ==
  << <<"idt_set_entry", 32>>, <<"idt_set_entry", 33>>, <<"idt_set_entry", 0>>,
     <<"idt_set_entry", 6>>, <<"idt_set_entry", 128>>, << "load_idt" >> >>

(* Mutant: interrupts on before the timer has its frequency.               *)
init_interruptsEarly ==
  idt_init \o << << "enable_interrupts" >>, <<"pic_unmask_irq", 0>>,
                 <<"pic_unmask_irq", 1>>, <<"timer_init", 1000>> >>

init_interrupts ==
  idt_init \o << <<"timer_init", 1000>>, <<"pic_unmask_irq", 0>>,
                 <<"pic_unmask_irq", 1>>, << "enable_interrupts" >> >>

InitInterrupts ==
  LET do == init_interrupts[step]
  IN /\ pc = "main" /\ step <= Len(init_interrupts)
     /\ idt' = IF do[1] = "idt_set_entry" THEN idt_set_entry(do[2]) ELSE idt
     /\ idtr' = IF do[1] = "load_idt" THEN "kernel" ELSE idtr
     /\ g_tick_hz' = IF do[1] = "timer_init" THEN timer_init(do[2])
                     ELSE g_tick_hz
     /\ masked' = IF do[1] = "pic_unmask_irq" THEN pic_unmask_irq(do[2])
                  ELSE masked
     /\ interrupts' = (interrupts \/ do[1] = "enable_interrupts")
     /\ step' = step + 1
     /\ UNCHANGED <<pc, mem>>

EnterShell ==
  /\ pc = "main" /\ step > Len(init_interrupts)
  /\ pc' = "shell"
  /\ UNCHANGED <<mem, machine>>

------------------------------------------------------------------------------
(* Whoever runs after the loader finds the shell complete at its address,  *)
(* although its packed copy lay where the BSS was cleared, finds the BSS   *)
(* zero, and the kernel's own binary as it was linked (kernel.c,           *)
(* moduleLoader.c, the packer's main.c).                                   *)
ShellIntact ==
  pc # "loader" =>
    /\ \A i \in 1 .. Len(Shell)  : mem[ShellAddress + i - 1] = Shell[i]
    /\ \A a \in bss .. endOfKernel - 1 : mem[a] = 0
    /\ \A i \in 1 .. Len(Kernel) : mem[i - 1] = Kernel[i]

(* An interrupt that can arrive finds an entry of the kernel's own table,  *)
(* one of the timer also finds its frequency, and the shell can neither    *)
(* fault nor call without an entry for it (interrupts_dispatcher.c).       *)
HandledInterrupts ==
  /\ interrupts => \A irq \in Asking \ masked :
       idtr = "kernel" /\ 32 + irq \in idt /\ (irq = 0 => g_tick_hz # 0)
  /\ pc \notin {"loader", "main"} => idtr = "kernel" /\ {0, 6, 128} \subseteq idt
===============================================================================

----------------------------- MODULE SystemCalls -----------------------------
(***************************************************************************)
(* How a system call travels: the C wrapper of the shell, the assembler    *)
(* stub that moves the arguments into the registers the kernel looks at,   *)
(* the frame that the handler of int 0x80 builds, and what each of the     *)
(* eighteen handlers reads from that frame.  A request is the tuple of an  *)
(* operation of the kernel and its arguments; the machine carries it out.  *)
(***************************************************************************)
EXTENDS Integers, Sequences

Registers ==
  {"rax", "rbx", "rcx", "rdx", "rbp", "rdi", "rsi", "r8", "r9", "r10", "r11",
   "r12", "r13", "r14", "r15"}

(* Registers that a function hands back as it found them, and those in     *)
(* which a C caller passes the first five arguments.                       *)
CalleeSaved       == {"rbx", "rbp", "r12", "r13", "r14", "r15"}
ArgumentRegisters == <<"rdi", "rsi", "rdx", "rcx", "r8">>

PassedBy(regs, args) ==
  [r \in Registers |->
     IF \E i \in DOMAIN args : ArgumentRegisters[i] = r
     THEN args[CHOOSE i \in DOMAIN args : ArgumentRegisters[i] = r]
     ELSE regs[r]]

------------------------------------------------------------------------------
(* syscall_call.c.  A wrapper calls one stub, with constants before and    *)
(* after its own arguments.                                                *)

Via(stub, pre, post) == [stub |-> stub, pre |-> pre, post |-> post]
Plain(stub)          == Via(stub, << >>, << >>)

CharBuffer == 70  \* address of the char that getchar() reads

DrawingWrappers ==
  [put_frame         |-> Plain("sys_putframe"),
   putPixel          |-> Plain("sys_putPixel"),
   present_fullframe |-> Plain("sys_present_fullframe"),
   write_at_back     |-> Plain("sys_write_at_back"),
   write_at_vram     |-> Plain("sys_write_at_vram"),
   get_screen_height |-> Via("sys_get_screen_info", << 0 >>, << >>),
   get_screen_width  |-> Via("sys_get_screen_info", << 1 >>, << >>)]

TextWrappers ==
  [write           |-> Via("sys_write", << 1 >>, << >>),
   printError      |-> Via("sys_write", << 0 >>, << >>),
   clearwindow     |-> Plain("sys_clearwindow"),
   do_resize       |-> Plain("sys_resize"),
   get_time        |-> Via("sys_date_time", << 0 >>, << >>),
   get_date        |-> Via("sys_date_time", << 1 >>, << >>),
   read            |-> Plain("sys_read"),
   getchar         |-> Via("sys_getchar", <<CharBuffer, 1>>, << >>),
   get_multiple_chars_sys |-> Plain("sys_getchar"),
   print_registers |-> Plain("sys_print_registers")]

DeviceWrappers ==
  [get_ms_since_boot |-> Plain("sys_get_ms_since_boot"),
   sleep_ms          |-> Plain("sys_sleep_ms"),
   sys_kill_system   |-> Plain("sys_kill_system"),
   audio_play        |-> Via("sys_audio", << 0 >>, << 0 >>),
   audio_stop        |-> Via("sys_audio", << 1 >>, <<0, 0>>),
   audio_beep        |-> Via("sys_audio", << 2 >>, << >>),
   do_benchmark_fps             |-> Via("sys_benchmark", << 0 >>, << >>),
   do_benchmark_floating_point  |-> Via("sys_benchmark", << 1 >>, << >>),
   do_benchmark_hardware_access |-> Via("sys_benchmark", << 2 >>, << >>),
   do_benchmark_timer_latency   |-> Via("sys_benchmark", << 3 >>, << >>)]

Wrapper(fn) == IF fn \in DOMAIN DrawingWrappers THEN DrawingWrappers[fn]
               ELSE IF fn \in DOMAIN TextWrappers THEN TextWrappers[fn]
               ELSE DeviceWrappers[fn]

(* How many parameters the wrappers have.                                  *)
Parameters ==
  [put_frame |-> 0, putPixel |-> 4, present_fullframe |-> 0,
   write_at_back |-> 5, write_at_vram |-> 5,
   get_screen_height |-> 0, get_screen_width |-> 0,
   write |-> 1, printError |-> 1, clearwindow |-> 1, do_resize |-> 1,
   get_time |-> 0, get_date |-> 0, read |-> 1, getchar |-> 0,
   get_multiple_chars_sys |-> 2, print_registers |-> 1,
   get_ms_since_boot |-> 0, sleep_ms |-> 1, sys_kill_system |-> 0,
   audio_play |-> 1, audio_stop |-> 0, audio_beep |-> 2,
   do_benchmark_fps |-> 0, do_benchmark_floating_point |-> 0,
   do_benchmark_hardware_access |-> 0, do_benchmark_timer_latency |-> 0]

Arguments(fn, args) == Wrapper(fn).pre \o args \o Wrapper(fn).post

------------------------------------------------------------------------------
(* syscall_asm_call.asm and interrupts.asm.                                *)

StubNumber ==
  [sys_read |-> 0, sys_write |-> 1, sys_clearwindow |-> 2, sys_date_time |-> 3,
   sys_resize |-> 4, sys_benchmark |-> 5, sys_write_at_vram |-> 6,
   sys_write_at_back |-> 7, sys_present_fullframe |-> 8,
   sys_get_screen_info |-> 9, sys_print_registers |-> 10, sys_getchar |-> 11,
   sys_putPixel |-> 12, sys_get_ms_since_boot |-> 13, sys_sleep_ms |-> 14,
   sys_kill_system |-> 15, sys_audio |-> 16, sys_putframe |-> 17]

(* Mutant: the fourth argument is taken from rcx after rcx has changed.    *)
SYSCALLWithoutR10(n, regs) ==
  [regs EXCEPT !["r10"] = regs["rcx"], !["rbx"] = regs["rdi"],
               !["rcx"] = regs["rsi"],
               !["rdi"] = regs["r8"],  !["rax"] = n]

(* The registers at int 0x80, after the moves of the stub, in which r10    *)
(* carries the fourth argument past the overwriting of rcx.                *)
SYSCALL(n, regs) ==
  [regs EXCEPT !["r10"] = regs["rcx"], !["rbx"] = regs["rdi"],
               !["rcx"] = regs["rsi"], !["rsi"] = regs["rcx"],
               !["rdi"] = regs["r8"],  !["rax"] = n]

(* The order of the pushes: the last one is registers[0] of the handlers.  *)
pushState == <<"rax", "rbx", "rcx", "rdx", "rbp", "rdi", "rsi", "r8", "r9",
               "r10", "r11", "r12", "r13", "r14", "r15">>

popState  == <<"r15", "r14", "r13", "r12", "r11", "r10", "r9", "r8", "rsi",
               "rdi", "rbp", "rdx", "rcx", "rbx", "rax">>

Pushed(regs)  == [i \in 0 .. 14 |-> regs[pushState[15 - i]]]
Popped(frame) ==
  [r \in Registers |-> frame[(CHOOSE k \in 1 .. 15 : popState[k] = r) - 1]]

(* The stub saved rbx on the stack and takes it back after int 0x80.       *)
StubReturn(regs, rbx) == [regs EXCEPT !["rbx"] = rbx]

------------------------------------------------------------------------------
(* syscall.c: the handler that sysCallHandlers names for a number, as the  *)
(* request it makes of the kernel.                                         *)

MAX_SYSCALLS == 18
Refused      == << "refused" >>

syscall_audio(op, freq, dur) ==
  IF op = 0 /\ freq # 0 THEN <<"play_sound", freq>>
  ELSE IF op = 1 THEN << "stop_sound" >>
  ELSE IF op = 2 THEN <<"beep", freq, dur>> ELSE Refused

syscall_handler(rax, registers) ==
  LET RBX == registers[13]
      RCX == registers[12]
      RDX == registers[11]
      RSI == registers[8]
      RDI == registers[9]
      At(target)     == <<"vdPrintStyled_AT", RBX, RCX, RDX, RSI, RDI, target>>
      Pixel(target)  == <<"putPixel", RBX, RCX, RDX, target>>
      One(yes, no)   == IF RBX = 1 THEN yes ELSE no
  IN CASE rax = 0  -> <<"read", RBX>>
       [] rax = 1  -> One(<<"vdPrint", RCX>>, <<"vdPrintStyled", RCX>>)
       [] rax = 2  -> <<"vdclearScreenDB", RBX>>
       [] rax = 3  -> One(<< "getDateString" >>, << "getTimeString" >>)
       [] rax = 4  -> <<"vdSetFontScale", RBX>>
       [] rax = 5  -> <<"benchmark", RBX>>
       [] rax = 6  -> At("PIXEL_VRAM")
       [] rax = 7  -> At("PIXEL_BACK")
       [] rax = 8  -> << "present_fullframe" >>
       [] rax = 9  -> IF RBX = 0 THEN << "vdGetHeight" >> ELSE << "vdGetWidth" >>
       [] rax = 10 -> <<"getSavedRegs", RBX>>
       [] rax = 11 -> <<"getchar", RBX, RCX>>
       [] rax = 12 -> Pixel(IF RSI = 0 THEN "PIXEL_VRAM" ELSE "PIXEL_BACK")
       [] rax = 13 -> << "timer_ms_since_boot" >>
       [] rax = 14 -> <<"sleep_ms", RBX>>
       [] rax = 15 -> << "exit" >>
       [] rax = 16 -> syscall_audio(RBX, RCX, RDX)
       [] rax = 17 -> << "putFrame" >>
       [] OTHER    -> Refused
=============================================================================

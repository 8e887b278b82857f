------------------------------- MODULE Machine -------------------------------
(***************************************************************************)
(* The machine from the boot on, with a user at the shell: the program of  *)
(* a command runs as a sequence of calls of wrappers, each call goes       *)
(* through the stub, int 0x80 and the handler, and the request is carried  *)
(* out on the speaker, the real time clock and the timer, whose interrupt  *)
(* and whose tick may come between any two steps.                          *)
(*                                                                         *)
(* Drawing and keys are the subject of Console and Keyboard: here the      *)
(* requests for them only have to be the right ones.                       *)
(***************************************************************************)
EXTENDS Boot, SystemCalls

CONSTANTS
  Programs,    \* programs that a command may start
  Calls,       \* the calls they make, inside their loops too
  StartTimes,  \* what the real time clock may show when the machine starts
  MaxSeconds,  \* bound: seconds that pass in a run
  Duration,    \* bound: timer ticks that stand for any duration above 0
  Iterations,  \* rounds of the one benchmark that does not watch the clock
  Width, Height

ASSUME MachineAssumption ==
  /\ MaxSeconds \in Nat /\ Duration \in Nat \ {0} /\ Iterations \in Nat \ {0}

VARIABLES
  todo,     \* calls that the running program still has to make
  caller,   \* registers of the program at its call
  regs,     \* its registers after the call
  frame,    \* registers[0 .. 14] of the handler
  request,
  port61,   \* bits of port 0x61; 0 and 1 open the speaker
  divisor,  \* of channel 2 of the PIT
  rtc,      \* second, minute, hour, day, month, year, century
  asked,    \* history: rtc when a time or a date was asked for
  key,      \* the char that getchar read last, 0 for none
  read,     \* registers of the clock read so far
  elapsed,  \* g_ticks - start of the loop that watches the clock
  count,    \* rounds of that loop
  seconds   \* bound only

call   == <<todo, caller, regs, frame, request, key>>
device == <<port61, divisor, rtc, asked, read, elapsed, count, seconds>>
vars   == <<pc, mem, machine, call, device>>

------------------------------------------------------------------------------
(* commands.c and benchmark_calculations.c: the programs of the commands   *)
(* as sequences of calls.                                                  *)

Call(fn, args) == [fn |-> fn, args |-> args]
Newline == 10
Line    == 60     \* some text
Space   == 61     \* " "
EmptyLine == 62   \* ""

println(s) == <<Call("write", << s >>), Call("write", << Newline >>)>>
Says(n)    == [i \in 1 .. 2 * n |-> println(Line)[2 - (i % 2)]]
Stamp      == <<Call("get_ms_since_boot", << >>)>>
sleep(ms)  == <<Call("sleep_ms", << ms >>)>>

printError(s) == <<Call("printError", << s >>), Call("write", << Newline >>)>>

echo(words) ==
  [i \in 1 .. 2 * words |-> Call("write", << IF i % 2 = 1 THEN Line ELSE Space >>)]
  \o <<Call("write", << Newline >>)>>
date  == <<Call("get_date", << >>)>> \o println(EmptyLine)
time  == <<Call("get_time", << >>)>> \o println(EmptyLine)
clear == <<Call("clearwindow", << 0 >>)>>
kill  == Says(9) \o sleep(5000) \o <<Call("sys_kill_system", << >>)>>

testSound ==
  <<Call("audio_beep", <<440, 200>>)>> \o sleep(150) \o
  <<Call("audio_beep", <<523, 200>>)>> \o sleep(150) \o
  <<Call("audio_play", << 440 >>)>> \o sleep(400) \o
  <<Call("audio_stop", << >>)>>

sleepCommand(ms) ==
  Stamp \o println(Line) \o sleep(ms) \o Stamp \o println(Line)

testsyscalls ==
  LET sleep1s == sleep(1000)
      get(fn) == <<Call(fn, << >>)>>
      figure  == <<Call("write", << Line >>), Call("write", << Line >>)>>
                 \o println(EmptyLine)
  IN Says(5) \o sleep1s \o clear \o sleep1s
     \o get("get_screen_width") \o get("get_screen_height") \o Says(2)
     \o <<Call("putPixel", <<65535, Width \div 2, Height \div 2, 0>>),
          Call("putPixel", <<16711935, Width \div 2 + 10, Height \div 2, 1>>)>>
     \o sleep1s \o Says(1)
     \o <<Call("write_at_vram", <<Line, 2, 2, 16777215, 0>>),
          Call("write_at_back", <<Line, 2, 3, 16777215, 0>>)>>
     \o sleep1s \o get("present_fullframe") \o Says(1)
     \o get("get_ms_since_boot") \o sleep1s \o get("get_ms_since_boot")
     \o Says(2) \o <<Call("audio_beep", <<440, 200>>)>> \o sleep1s \o Says(1)
     \o get("do_benchmark_fps") \o get("do_benchmark_floating_point")
     \o get("do_benchmark_hardware_access")
     \o figure \o figure \o figure \o Says(2)
     \o <<Call("print_registers", << 63 >>)>> \o Says(1)
     \o get("get_date") \o get("get_time") \o Says(5)

(* A loop of the program itself: body again and again, asking for the time *)
(* before each round, until the duration has passed; and the time it took. *)
Watching(body) == Stamp \o <<Call("start", << >>)>> \o Stamp \o <<Call("while", body)>>

syscall_latency == Watching(Stamp) \o Stamp
putpixel_user ==
  <<Call("get_screen_width", << >>), Call("get_screen_height", << >>)>>
  \o Watching(<<Call("putPixel", <<65280, 0, 0, 1>>)>>) \o Stamp
memwrite_user      == Watching(<< >>) \o Stamp
benchmark_fps_user == Watching(<<Call("put_frame", << >>)>>)

(* The two pages go on until a key says otherwise: getchar, then the test. *)
Enter == 10
KeyE  == 101   \* syscall_getchar has made it lower case
Any   == 120   \* any other key

Until(keys, body) == <<Call("until", <<keys, body>>)>>
Ask(keys, body)   == body \o Until(keys, body)
GetKey            == <<Call("getchar", << >>)>>
Resized(scale)    == <<Call("do_resize", << scale >>)>>

print_centered_line(len, row) ==
  LET cols == Width \div 16
      col  == IF cols > len THEN (cols - len) \div 2 ELSE 0
  IN <<Call("write_at_vram", <<Line, col, row, 16777215, 0>>)>>

(* The ten lines of the box, all of the same length.                       *)
Box == [i \in 1 .. 10 |-> print_centered_line(46, 1 + i)[1]]

print_benchmark ==
  LET kernel == <<Call("do_benchmark_hardware_access", << >>),
                  Call("do_benchmark_floating_point", << >>),
                  Call("do_benchmark_timer_latency", << >>)>>
      page == kernel \o syscall_latency \o putpixel_user \o memwrite_user
              \o Box \o Resized(1)
              \o <<Call("write_at_vram", <<Line, 50, 25, 16777215, 0>>)>>
              \o GetKey \o Resized(2)
  IN clear \o Resized(2) \o <<Call("get_screen_width", << >>)>>
     \o Ask({Enter, KeyE, Any}, page) \o Resized(1) \o clear

draw_fps_warning ==
  print_centered_line(46, 6) \o print_centered_line(8, 7)
  \o print_centered_line(41, 9) \o print_centered_line(33, 11)
  \o print_centered_line(46, 13)

fps ==
  LET answer == Ask({Enter, KeyE}, GetKey)
      shown == <<Call("do_benchmark_fps", << >>)>> \o clear
               \o print_centered_line(15, 10) \o print_centered_line(43, 12)
               \o answer
  IN clear \o Resized(2) \o <<Call("get_screen_width", << >>)>>
     \o draw_fps_warning \o answer \o Until({KeyE}, shown)
     \o Resized(1) \o clear

(* What a program may do: call a wrapper with as many numbers as it has    *)
(* parameters, and repeat such calls.                                      *)
IsCall(c) ==
  \/ c.fn = "start"
  \/ c.fn = "while" /\ c.args \in Seq(Calls)
  \/ c.fn = "until" /\ c.args[2] \in Seq(Calls)
  \/ c.fn \in DOMAIN Parameters /\ c.args \in Seq(Nat) /\ Len(c.args) = Parameters[c.fn]

ASSUME ProgramsAssumption ==
  /\ Programs \subseteq Seq(Calls) /\ Stamp \in Seq(Calls)
  /\ \A c \in Calls : IsCall(c)

------------------------------------------------------------------------------
(* audio.c.                                                                *)

PIT_BASE_FREQ == 1193182

pit_set_frequency(freq_hz) ==
  PIT_BASE_FREQ \div (IF freq_hz < 37 THEN 37
                      ELSE IF freq_hz > 32767 THEN 32767 ELSE freq_hz)

(* Mutant: the whole port is cleared.                                      *)
stop_soundClearsPort ==
  /\ port61' = {}
  /\ UNCHANGED divisor

stop_sound ==
  /\ port61' = port61 \ {0, 1}
  /\ UNCHANGED divisor

play_sound(freq_hz) ==
  IF freq_hz = 0 THEN stop_sound
  ELSE /\ divisor' = pit_set_frequency(freq_hz)
       /\ port61' = port61 \cup {0, 1}

------------------------------------------------------------------------------
(* realTimeClock.c.  The clock keeps its numbers in BCD.                   *)

TIMEZONE_OFFSET == -3

Fields == <<"second", "minute", "hour", "day", "month", "year", "century">>
First  == <<0, 0, 0, 1, 1, 0, 0>>
Last   == <<59, 59, 23, 31, 12, 99, 99>>

IsTime(t) == t \in [1 .. 7 -> Nat] /\ \A i \in 1 .. 7 : t[i] \in First[i] .. Last[i]

ASSUME ClockAssumption == \A t \in StartTimes : IsTime(t)

(* The next second; every month has 31 days, since only the carry counts.  *)
NextTime(t) ==
  LET k == CHOOSE i \in 1 .. 7 : t[i] # Last[i]
                              /\ \A j \in 1 .. i - 1 : t[j] = Last[j]
  IN [i \in 1 .. 7 |-> IF i < k THEN First[i] ELSE IF i = k THEN t[i] + 1 ELSE t[i]]

timer(field) == LET n == rtc[CHOOSE i \in 1 .. 7 : Fields[i] = field]
                IN 16 * (n \div 10) + (n % 10)

(* Mutant: the two digits are exchanged.                                   *)
toNumSwapped(num) == 10 * (num % 16) + (num \div 16)

toNum(num) == 10 * (num \div 16) + (num % 16)

(* C's % keeps the sign of a negative sum, hence the second test.          *)
getHours == LET h == toNum(timer("hour")) + TIMEZONE_OFFSET
            IN IF h < 0 THEN h + 24 ELSE h

(* The registers in the order in which the two functions read them.        *)
Reads == IF request[1] = "getTimeString" THEN <<"hour", "minute", "second">>
         ELSE <<"day", "month", "year", "century">>

ReadField(field) == IF field = "hour" THEN getHours ELSE toNum(timer(field))

------------------------------------------------------------------------------
(* What a register holds that carries no argument is chosen so that every  *)
(* register can be told from every other.                                  *)
Junk == [r \in Registers |-> 900 + CHOOSE i \in 1 .. 15 : pushState[i] = r]

MInit ==
  /\ Init
  /\ todo = << >> /\ request = << "none" >>
  /\ caller = Junk /\ regs = Junk /\ frame = << >>
  /\ port61 = {5} /\ divisor = 0
  /\ rtc \in StartTimes /\ asked = << >>
  /\ read = << >> /\ seconds = 0 /\ key = 0
  /\ elapsed = Duration /\ count = 0

(* The interrupt of the timer, and the tick of the clock.                  *)
IRQ0 ==
  /\ interrupts /\ 0 \notin masked /\ elapsed < Duration
  /\ elapsed' = elapsed + 1
  /\ UNCHANGED <<pc, mem, machine, call, port61, divisor, rtc, asked, read,
                 count, seconds>>

(* A second is longer than the few reads of a time, which are made with    *)
(* interrupts off, so that at most one ends between them; and the year     *)
(* 9999 does not.                                                          *)
ClockTicks ==
  /\ seconds < MaxSeconds
  /\ rtc # Last
  /\ pc = "clock" => rtc = asked
  /\ seconds' = seconds + 1
  /\ rtc' = NextTime(rtc)
  /\ UNCHANGED <<pc, mem, machine, call, port61, divisor, asked, read,
                 elapsed, count>>

BootStep == (Loader \/ InitInterrupts \/ EnterShell) /\ UNCHANGED <<call, device>>

------------------------------------------------------------------------------
(* The program.                                                            *)

StartProgram ==
  /\ pc = "shell" /\ todo = << >>
  /\ todo' \in Programs
  /\ key' = 0
  /\ UNCHANGED <<pc, mem, machine, caller, regs, frame, request, device>>

(* start = get_ms_since_boot(), and the test of the loop.                  *)
StartWatch ==
  /\ pc = "shell" /\ todo # << >> /\ Head(todo).fn = "start"
  /\ todo' = Tail(todo)
  /\ elapsed' = 0
  /\ UNCHANGED <<pc, mem, machine, caller, regs, frame, request, key, port61,
                 divisor, rtc, asked, read, count, seconds>>

TestWatch ==
  /\ pc = "shell" /\ todo # << >> /\ Head(todo).fn = "while"
  /\ todo' = IF elapsed < Duration
             THEN Head(todo).args \o Stamp \o todo
             ELSE Tail(todo)
  /\ UNCHANGED <<pc, mem, machine, caller, regs, frame, request, key, device>>

TestKey ==
  /\ pc = "shell" /\ todo # << >> /\ Head(todo).fn = "until"
  /\ todo' = IF key \in Head(todo).args[1] THEN Tail(todo)
             ELSE Head(todo).args[2] \o todo
  /\ UNCHANGED <<pc, mem, machine, caller, regs, frame, request, key, device>>

(* A wrapper, its stub and int 0x80 through an interrupt gate.             *)
Syscall ==
  /\ pc = "shell" /\ todo # << >> /\ Head(todo).fn \notin {"start", "while", "until"}
  /\ LET c == Head(todo)
         n == StubNumber[Wrapper(c.fn).stub]
     IN /\ caller' = PassedBy(Junk, Arguments(c.fn, c.args))
        /\ frame' = Pushed(SYSCALL(n, caller'))
  /\ request' = syscall_handler(frame'[14], frame')
  /\ regs' = Junk
  /\ interrupts' = FALSE
  /\ pc' = "handler"
  /\ UNCHANGED <<mem, step, idt, idtr, masked, g_tick_hz, todo, key, device>>

(* registers[14] = value, and the handler ends.                            *)
Answer(value) ==
  /\ frame' = [frame EXCEPT ![14] = value]
  /\ pc' = "iretq"

(* Requests for which the handler does nothing that this module looks into *)
(* but the value it leaves; without one, RAX keeps the number of the call. *)
Values ==
  CASE request[1] = "vdGetHeight" -> {Height}
    [] request[1] = "vdGetWidth"  -> {Width}
    [] request = Refused          -> {-1}
    [] request[1] = "getSavedRegs" -> {0, -1}
    [] request[1] = "read"        -> 0 .. 1
    [] request[1] = "timer_ms_since_boot" -> {elapsed}
    [] OTHER -> {frame[14]}

Longer == {"getchar", "play_sound", "stop_sound", "beep", "sleep_ms", "benchmark",
           "getTimeString", "getDateString"}

Serve ==
  /\ pc = "handler" /\ request[1] \notin Longer
  /\ \E v \in Values : Answer(v)
  /\ UNCHANGED <<mem, machine, todo, caller, regs, request, key, device>>

(* Within its 10 ms syscall_getchar finds a key or none (Keyboard and      *)
(* ConsoleInput look inside).                                              *)
Getchar(k) ==
  /\ pc = "handler" /\ request[1] = "getchar"
  /\ Answer(IF k = 0 THEN 0 ELSE 1)
  /\ key' = k
  /\ UNCHANGED <<mem, machine, todo, caller, regs, request, device>>

(* The isa-debug-exit device that run.sh gives to QEMU ends the machine.   *)
Exit ==
  /\ pc = "handler" /\ request = << "exit" >>
  /\ pc' = "off"
  /\ UNCHANGED <<mem, machine, call, device>>

Audio ==
  /\ pc = "handler"
  /\ \/ request[1] = "play_sound" /\ play_sound(request[2])
     \/ request[1] = "stop_sound" /\ stop_sound
  /\ Answer(0)
  /\ UNCHANGED <<mem, machine, todo, caller, regs, request, key, rtc, asked, read,
                 elapsed, count, seconds>>

(* sleep_ms, alone or between the two halves of a beep; hlt comes after    *)
(* sti, which a handler never undoes before iretq.                         *)
Ticks(ms) == IF ms = 0 THEN 0 ELSE Duration

StartSleep ==
  /\ pc = "handler"
  /\ \/ request[1] = "sleep_ms" /\ UNCHANGED <<port61, divisor>>
     \/ request[1] = "beep" /\ play_sound(request[2])
  /\ elapsed' = 0
  /\ pc' = "sleep"
  /\ UNCHANGED <<mem, machine, call, rtc, asked, read, count, seconds>>

Hlt ==
  /\ pc = "sleep" /\ elapsed < Ticks(request[Len(request)])
  /\ interrupts' = TRUE
  /\ UNCHANGED <<pc, mem, step, idt, idtr, masked, g_tick_hz, call, device>>

EndSleep ==
  /\ pc = "sleep" /\ elapsed >= Ticks(request[Len(request)])
  /\ IF request[1] = "beep" THEN stop_sound /\ Answer(0)
     ELSE UNCHANGED <<port61, divisor>> /\ Answer(frame[14])
  /\ UNCHANGED <<mem, machine, todo, caller, regs, request, key, rtc, asked, read,
                 elapsed, count, seconds>>

AskClock ==
  /\ pc = "handler" /\ request[1] \in {"getTimeString", "getDateString"}
  /\ asked' = rtc /\ read' = << >>
  /\ pc' = "clock"
  /\ UNCHANGED <<mem, machine, call, port61, divisor, rtc, elapsed, count,
                 seconds>>

ReadClock ==
  /\ pc = "clock" /\ Len(read) < Len(Reads)
  /\ read' = Append(read, ReadField(Reads[Len(read) + 1]))
  /\ UNCHANGED <<pc, mem, machine, call, port61, divisor, rtc, asked, elapsed,
                 count, seconds>>

ShowClock ==
  /\ pc = "clock" /\ Len(read) = Len(Reads)
  /\ Answer(frame[14])
  /\ UNCHANGED <<mem, machine, todo, caller, regs, request, key, device>>

(* benchmark.c of the kernel.  Benchmark 1 does a number of rounds and the *)
(* others go on for a time.  The arguments of putPixel in benchmark 2 are  *)
(* in the wrong order, so that every pixel lies outside the screen: it     *)
(* draws nothing and there is no state to keep.                            *)
MoreRounds == IF request[2] = 1 THEN count < Iterations ELSE elapsed < Duration

Rate == IF request[2] = 0 THEN count
        ELSE (count * 1000) \div (IF elapsed = 0 THEN 1 ELSE elapsed)

(* Mutant: it runs with interrupts off, as the gate left them.             *)
StartBenchmarkClosed ==
  /\ pc = "handler" /\ request[1] = "benchmark"
  /\ elapsed' = 0 /\ count' = 0
  /\ pc' = "benchmark"
  /\ UNCHANGED <<mem, machine, call, port61, divisor, rtc, asked, read, seconds>>

StartBenchmark ==
  /\ pc = "handler" /\ request[1] = "benchmark"
  /\ interrupts' = TRUE
  /\ elapsed' = 0 /\ count' = 0
  /\ pc' = "benchmark"
  /\ UNCHANGED <<mem, step, idt, idtr, masked, g_tick_hz, call, port61,
                 divisor, rtc, asked, read, seconds>>

Round ==
  /\ pc = "benchmark" /\ MoreRounds
  /\ count' = IF count < Iterations THEN count + 1 ELSE count  \* bound
  /\ UNCHANGED <<pc, mem, machine, call, port61, divisor, rtc, asked, read,
                 elapsed, seconds>>

EndBenchmark ==
  /\ pc = "benchmark" /\ ~MoreRounds
  /\ interrupts' = FALSE
  /\ Answer(Rate)
  /\ UNCHANGED <<mem, step, idt, idtr, masked, g_tick_hz, todo, caller, regs,
                 request, key, device>>

(* popState, iretq with the flag of the program, and the end of the stub.  *)
(* What the call needed is forgotten, so that equal states are one.        *)
Return ==
  /\ pc = "iretq"
  /\ regs' = StubReturn(Popped(frame), caller["rbx"])
  /\ interrupts' = TRUE
  /\ todo' = Tail(todo)
  /\ pc' = "shell"
  /\ caller' = Junk /\ frame' = << >> /\ request' = << "none" >>
  /\ asked' = << >> /\ read' = << >> /\ count' = 0
  /\ UNCHANGED <<mem, step, idt, idtr, masked, g_tick_hz, key, port61, divisor,
                 rtc, elapsed, seconds>>

Step ==
  \/ StartWatch \/ TestWatch \/ TestKey \/ Syscall \/ Serve
  \/ \E k \in {0, Enter, KeyE, Any} : Getchar(k)
  \/ Audio \/ StartSleep
  \/ Hlt \/ EndSleep \/ AskClock \/ ReadClock \/ ShowClock
  \/ StartBenchmark \/ Round \/ EndBenchmark \/ Return

Next == BootStep \/ StartProgram \/ Step \/ Exit \/ IRQ0 \/ ClockTicks

(* The processor goes on; the 8259 keeps the timer's line until the flag   *)
(* lets it in, so that a flag that is set again and again is enough.  A    *)
(* user who wants to leave a page goes on pressing E.                      *)
Spec == MInit /\ [][Next]_vars /\ WF_vars(BootStep) /\ WF_vars(Step)
              /\ SF_vars(IRQ0) /\ SF_vars(Getchar(KeyE))

------------------------------------------------------------------------------
(* What the wrappers promise to a program: syscall_call.h names them.      *)
Promised(fn, a) ==
  CASE fn = "write"             -> <<"vdPrint", a[1]>>
    [] fn = "printError"        -> <<"vdPrintStyled", a[1]>>
    [] fn = "clearwindow"       -> <<"vdclearScreenDB", a[1]>>
    [] fn = "do_resize"         -> <<"vdSetFontScale", a[1]>>
    [] fn = "get_time"          -> << "getTimeString" >>
    [] fn = "get_date"          -> << "getDateString" >>
    [] fn = "read"              -> <<"read", a[1]>>
    [] fn = "getchar"           -> <<"getchar", CharBuffer, 1>>
    [] fn = "get_multiple_chars_sys" -> <<"getchar", a[1], a[2]>>
    [] fn = "print_registers"   -> <<"getSavedRegs", a[1]>>
    [] fn = "put_frame"         -> << "putFrame" >>
    [] fn = "putPixel"          -> <<"putPixel", a[1], a[2], a[3],
                                     IF a[4] = 0 THEN "PIXEL_VRAM" ELSE "PIXEL_BACK">>
    [] fn = "present_fullframe" -> << "present_fullframe" >>
    [] fn = "write_at_vram"     -> <<"vdPrintStyled_AT", a[1], a[2], a[3], a[4], a[5],
                                     "PIXEL_VRAM">>
    [] fn = "write_at_back"     -> <<"vdPrintStyled_AT", a[1], a[2], a[3], a[4], a[5],
                                     "PIXEL_BACK">>
    [] fn = "get_screen_height" -> << "vdGetHeight" >>
    [] fn = "get_screen_width"  -> << "vdGetWidth" >>
    [] fn = "get_ms_since_boot" -> << "timer_ms_since_boot" >>
    [] fn = "sleep_ms"          -> <<"sleep_ms", a[1]>>
    [] fn = "sys_kill_system"   -> << "exit" >>
    [] fn = "audio_play"        -> IF a[1] = 0 THEN Refused ELSE <<"play_sound", a[1]>>
    [] fn = "audio_stop"        -> << "stop_sound" >>
    [] fn = "audio_beep"        -> <<"beep", a[1], a[2]>>
    [] fn = "do_benchmark_fps"             -> <<"benchmark", 0>>
    [] fn = "do_benchmark_floating_point"  -> <<"benchmark", 1>>
    [] fn = "do_benchmark_hardware_access" -> <<"benchmark", 2>>
    [] fn = "do_benchmark_timer_latency"   -> <<"benchmark", 3>>

(* A call of a wrapper makes of the kernel exactly the request that the    *)
(* wrapper is named for, with the arguments in their places, through five  *)
(* moves of registers and a frame on the stack; and the program finds the  *)
(* registers that C preserves as they were when the call is over.          *)
CallsKeepTheABI ==
  [][ /\ pc = "shell" /\ pc' = "handler" =>
            request' = Promised(Head(todo).fn, Head(todo).args)
      /\ pc = "iretq" /\ pc' = "shell" =>
            \A r \in CalleeSaved : regs'[r] = caller[r] ]_vars

MaxDivisor == 65535

(* The bits of port 0x61 that do not belong to the speaker are never       *)
(* touched, a beep and audio_stop leave it silent, and it never sounds     *)
(* with a divisor that does not fit the two bytes written to the PIT.      *)
SpeakerLeftAsPromised ==
  /\ port61 \ {0, 1} = {5}
  /\ pc = "iretq" /\ request[1] \in {"beep", "stop_sound"} => port61 = {5}
  /\ port61 # {5} => divisor \in 1 .. MaxDivisor

(* Each number that is shown was right at some moment of the call, in the  *)
(* time zone of the program for the time and in that of the clock for the  *)
(* date; and so was the whole, unless the seconds (the days) ran over      *)
(* between two of the reads.                                               *)
LocalTime(t) == <<(t[3] + 24 + TIMEZONE_OFFSET) % 24, t[2], t[1]>>
DateOf(t)    == <<t[4], t[5], t[6], t[7]>>

TimeShown ==
  pc = "clock" /\ Len(read) = Len(Reads) =>
    LET right(t) == IF request[1] = "getTimeString" THEN LocalTime(t) ELSE DateOf(t)
        carried  == IF request[1] = "getTimeString" THEN asked[2] # rtc[2]
                    ELSE asked[5] # rtc[5]
    IN /\ \A i \in DOMAIN read : read[i] \in {right(asked)[i], right(rtc)[i]}
       /\ carried \/ read \in {right(asked), right(rtc)}

(* Every program of the shell ends, or the machine is off: the loops that  *)
(* watch the clock, in the kernel and outside, see it advance, and a page  *)
(* of a benchmark is left with E, whenever it comes.                       *)
CommandsEnd == (pc = "shell" /\ todo # << >>) ~> (pc = "off" \/ todo = << >>)
=============================================================================

------------------------------ MODULE MCMachine ------------------------------
(* Instance for TLC: a packed shell whose middle lies in the BSS, every     *)
(* wrapper once with arguments that can be told apart, the programs of the  *)
(* commands, and clocks about to carry.                                     *)
EXTENDS Machine

MCKernel == <<11, 12, 13, 14, 15>>
MCShell  == <<21, 22, 23, 24, 25, 26>>

Once ==
  {<<Call("putPixel", <<31, 32, 33, 1>>)>>, <<Call("put_frame", << >>)>>,
   <<Call("write_at_back", <<31, 32, 33, 34, 35>>)>>, printError(31),
   <<Call("do_resize", << 31 >>)>>, <<Call("read", << 31 >>)>>,
   <<Call("getchar", << >>)>>, <<Call("get_multiple_chars_sys", <<31, 32>>)>>,
   <<Call("audio_play", << 0 >>)>>, <<Call("audio_beep", <<0, 32>>)>>,
   <<Call("audio_play", << 40000 >>)>>, <<Call("audio_play", << 1 >>)>>,
   <<Call("do_benchmark_timer_latency", << >>)>>}

MCPrograms ==
  Once \cup {testSound, testsyscalls, kill, echo(0), echo(2), date, time, clear,
             sleepCommand(0), sleepCommand(32), syscall_latency, putpixel_user,
             memwrite_user, benchmark_fps_user, print_benchmark, fps}

(* The calls of the programs, of their loops and of the loops inside those. *)
CallsOf(programs) == UNION {{p[i] : i \in DOMAIN p} : p \in programs}
Of(fn, calls)  == {c \in calls : c.fn = fn}
Bodies(calls) ==
  {c.args : c \in Of("while", calls)} \cup {c.args[2] : c \in Of("until", calls)}

MCCalls ==
  LET outside == CallsOf(MCPrograms \cup {Stamp})
      loops   == CallsOf(Bodies(outside))
  IN  outside \cup loops \cup CallsOf(Bodies(loops))

MCStartTimes == {<<59, 59, 23, 31, 12, 99, 19>>, <<58, 47, 14, 9, 10, 25, 20>>}
==============================================================================

# Formal models of TPE_Arqui_G8

TLA+ specifications, TLC configurations and TLAPS proofs for the x64 BareBones
system of this repository: a monolithic kernel without scheduler, one user
program (the shell) and the game Tron. Paths below are relative to
`src/x64BareBones/`. `PROJECT.json` links every definition to the lines it
models, every property to the hazard it is about, every run to its
configuration.

To run something: `tlc -config X.cfg M` for a run (the table under "Runs" names
`M` and `X`), `tlapm M.tla` for a proof module.

## 1. The system

There is one processor and there are no threads. What is concurrent is the
interrupt handlers against the code they interrupt, the devices against the
processor, and the person at the keyboard against everything else.

| component | state it keeps | operations | what is hard |
|---|---|---|---|
| Keyboard driver (`Kernel/drivers/keyboard_handler.c`) | ring `buf`, `lastkey`, `nextkey`, `count`; `e0_prefix`, `shiftPressed`, `capsLock`; one register snapshot | `keyboardPressed` (IRQ1), `getNextKey`, `hasNextKey`, `clearKeyboardBuffer`, `waitForEnter` | the reader runs with interrupts enabled and shares four variables with the handler without masking it; multi-byte scancodes; the ring overwrites its oldest key |
| Interrupts and PIC (`asm/interrupts.asm`, `interrupts/*.c`) | IDT, PIC masks, interrupt flag, frames on the stack | stubs of IRQ0, IRQ1, int 0x80 and the exceptions; `irqDispatcher`; two ends of interrupt per IRQ | nesting, an end of interrupt for the wrong line, lost ticks, `sti; hlt` |
| System timer (`interrupts/timer.c`) | `g_ticks` | `timer_on_irq`, `timer_ms_since_boot`, `sleep_ms` | test-then-halt, wrap of the unsigned counter, ticks lost while interrupts are off |
| System calls (`syscall/syscall.c`) | none of its own; locals of the two input calls | `syscall_read`, `syscall_getchar`, `syscall_sleep_ms`, drawing, audio, clock | they turn interrupts on inside a gate; line and batch limits; a timeout of 10 ms |
| Exceptions and restart (`interrupts/exceptions.c`, `_loader.c`, `shell.c`) | initial stack pointer of the shell, saved frame, the one register snapshot | `handle_exception` saves and prints the registers, waits for Enter, restarts the shell | which stack pointer is restored, what survives a restart, who writes the snapshot last |
| Video console (`drivers/video.c`) | cursor, font scale, back buffer | print, backspace, newline, scroll, resize | boundary arithmetic of the cursor |
| Audio, real time clock, benchmarks | port 0x61 and a divisor; registers of the clock; none | beep across a sleep, read time and date, measuring loops | torn reads of the clock, a speaker left on, loops that watch a clock which needs interrupts |
| Boot, module loader, packer (`kernel.c`, `moduleLoader.c`, `Toolchain/ModulePacker`) | memory image | copy modules, clear BSS | order of the two, since the packed modules lie in the BSS; interrupts on before anything can handle them |
| Shell (`Userland/shell/lib`, `commands`) | last command, `argv` | read a line, look the command up, tokenize, dispatch; wrappers and stubs of the system calls | binary search by prefix, limits, overflow of numbers, five arguments moved through six registers |
| Tron match (`commands/tron_game.c`, `tron2/ui.c`) | mode, level, score | menus, matches, rounds, pauses | typed-ahead keys, ties, levels across matches, recursion of `startGame` |
| Tron board (`tron2/map.c`, `player.c`, `player_Intent.c`, `AI.c`) | `occ`, two players, two intents, the bot's call counter | spawn, turn, step, batch of keys, bots, clear | order of the two moves, unsigned coordinates, ignored turn-backs |

How they interact. The handlers of IRQ0 and IRQ1 write `g_ticks` and the ring.
`sleep_ms`, `syscall_getchar`, `syscall_read` and `waitForEnter` poll them from
the other side, all four with interrupts enabled although they run behind a gate
that disabled them. The exception handler, and Shift+Tab inside the keyboard
handler, write the register snapshot that a later system call prints. The shell
reads lines; Tron reads batches at every tick and single keys in its menus, from
the same ring, which only `syscall_read` and `waitForEnter` ever empty.

What makes each component correct. The ring is a first-in first-out queue that
forgets its oldest key when it is full, and a prompt is answered by keys typed
after it appeared. The decoder types what was pressed and keeps no modifier that
nobody holds. Handlers do not nest and acknowledge their own interrupt only; no
tick is counted twice. A sleep ends, and lasts what was asked within a tick. A
line or a batch is what was typed. In Tron the board is what the two players have
painted in this round, the rules decide who dies, and matches, levels and scores
follow each other as the screens announce. The loader leaves the shell whole and the
BSS clear, and no interrupt comes before there is a handler for it. A call reaches the
handler that its wrapper is named for, with its arguments in place, and leaves the
speaker silent and the preserved registers alone. The shell runs what was typed, also
after exceptions, whose stacks do not pile up and whose registers are shown whole.

## 2. Modules

| module | models | correspondence |
|---|---|---|
| `Scancodes` | the decoder: `addKeyToBuffer` and the E0 branch of `keyboardPressed` | operators on one byte and the three flags that earlier bytes left behind |
| `Keyboard` | ring, IRQ1, `getNextKey`, `clearKeyboardBuffer`, `waitForEnter` and the loops of the two input calls | one action for IRQ1, which runs behind an interrupt gate; one action for each load or store of a shared variable by the reader |
| `KeyQueue` | the contract of the ring: a drop-oldest queue, and no promise once a read was disturbed until the next clear | abstract; `Keyboard` refines it |
| `KeyboardDevice` | `Keyboard` driven by a keyboard with physical keys | the keyboard and its wire are external |
| `ConsoleInput` | the line editor of `syscall_read` and the batches of `syscall_getchar`, composed with `Keyboard` | adds the line and the batch to the actions of `Keyboard`, and decides what that module leaves open |
| `Console` | cursor, scale and screen of `video.c`, the calls that draw, and the echo of `syscall_read` | the functions of `video.c` as operators on a console, in cells of the unscaled font; one action for each call and each key |
| `Interrupts` | 8259, interrupt flag and frames, both handlers, a system call, `sleep_ms` | one action for each step of the stub and of the sleep loop; 8259 and PIT are external, modelled from how the code programs and acknowledges them |
| `TronRules` | `map.c`, `player.c`, `player_Intent.c`, `AI.c` | pure operators that carry the names of the functions |
| `TronRound` | `play_Game`: rounds on the board | one action for spawn, tick, pause and clear each |
| `BestOfFive` | the contract of a match | abstract; `TronRound` refines it, `TronMatch` plays it |
| `TronMatch` | `startGame` and both menus with a queue of keys that nobody empties | one action for each place that waits for a key; a round is one step of `BestOfFive` |
| `Boot` | the packer's image, `loader.asm`, `moduleLoader.c`, `clearBSS`, `init_interrupts`, the jump to the shell | memory in words; one action for the loader, one for each call of `init_interrupts` |
| `SystemCalls` | wrappers, stubs, `SYSCALL`, `pushState`/`popState`, the dispatch table and what each of the eighteen handlers takes from the frame | operators on registers and frames; a request is an operation of the kernel with its arguments |
| `Machine` | `Boot` and `SystemCalls` composed with the commands, the speaker, the real time clock, `sleep_ms` and the benchmarks | a command is the sequence of its calls; one action for each stage of a call, each read of a clock register, each half of a beep |
| `CommandLookup` | `commandRead.c`, the search of `help.c`, `utils.c` | pure operators that carry the names of the functions |
| `Shell` | the loop of `shell.c`, both exceptions, `_loader.c`, `registers`, Shift+Tab | one action for each step of the handler and for each word that is saved, printed or copied |
| `MCKeyboard`, `MCKeyboardDevice`, `MCConsoleInput`, `MCConsole`, `MCInterrupts`, `MCTronRound`, `MCMachine`, `MCShell` | the instances that TLC checks | |
| `KeyboardProofs`, `KeyPathProofs`, `ConsoleProofs`, `InterruptsProofs`, `MachineProofs`, `ShellProofs`, `TronProofs`, `TronMatchProofs` | theorems | |

`Machine` extends `Boot` and `SystemCalls`, `Shell` extends `CommandLookup`,
`ConsoleInput` and `KeyboardDevice` extend `Keyboard`, which refines `KeyQueue`.
`TronMatch` plays `BestOfFive`, which `TronRound` refines. The eighteen calls meet in
`SystemCalls`; `Machine` follows each to its handler and carries out those on devices and
clocks, while those that read keys, print text and copy registers are carried out in
`ConsoleInput`, `Console` and `Shell`.

Operators whose comment starts with "Mutant:" are not part of the model. Each is
a plausible bug in the definition that follows it; with the bug in place, the
property that `PROJECT.json` pairs with it fails.

### Choices a reader should know

* `count--` of `getNextKey` is a load (`LoadCount`) and a store (`StoreCount`), as
  the unoptimised build of `Kernel/Makefile.inc` compiles it, and so is the update of `nextkey`.
  The handler may run between any two of them. A build that made `count--` one
  instruction would have fewer behaviours.
* `disturbed` is a history variable: a push hit a read in one of the windows where
  the code does not survive it. The queue contract is claimed up to that point and
  again after the next clear. What the code does inside these windows is in the
  model; only the promise stops.
* `Interrupts` has one pulse per period of the PIT. Only a system call that keeps
  interrupts off may last longer than a period (`paced` states that the sleep loop
  reaches `hlt` within one), which is what makes the bounds of a sleep exact.
* A tick of Tron is one step of `TronRound`: input, bot, both moves and the score
  touch state that no handler touches. The pace of ticks is not modelled.
* The jitter of the bot depends on a static call counter and on the clock. Both are
  any value at any tick, which covers the period of every level. Choices are lists,
  and the bot takes the first whose cell is free.
* `Console` counts in cells of 8 by 16 pixels. Every step of the cursor is a multiple of
  them, since 1024 by 768 is, so no rounding is hidden. What programs compose in the back
  buffer is a set of frames, and text drawn there only moves the cursor and scrolls the
  screen, which the code does even then. `putPixel` is left out. A Backspace at the left
  margin goes to the place after the last whole column, erases nothing, and a key typed
  there cannot be seen when the width is a multiple of the font: the model does the same,
  `EchoShowsLine` speaks of the other lines, `PromptKept` and `TypeOK` of all.
* `Boot` counts addresses in words from 0x100000, where Pure64 leaves the image. The
  payload follows `kernel.bin` (18992 bytes in the build of the repository) and reaches
  over 0x105000, where the BSS starts; the end of the BSS with its stack stays below
  0x400000. `LayoutAssumption` states the inequalities that the loader relies on.
* `Machine` gives every register that carries no argument a value of its own, so that a
  move from a wrong register is seen. `sys_write` has no result: RAX keeps the number of
  the call, and `printError`, which asks for `&&` of two results, works for that reason.
  `pic_init` does nothing: Pure64 has remapped the controllers, and left open line 8,
  which has no entry in the table. That is safe only because Pure64 also clears the
  periodic flag of the clock (`Asking`).
* The benchmarks watch the timer: `Duration` ticks stand for any duration above zero, and
  a loop may make any number of rounds within it, one that counts calls makes
  `Iterations`. What a round computes or draws is left out.
* Every month of `Machine` has 31 days; only that a carry happens matters there. The clock
  stops at the end of the year 9999, and no second is shorter than the three or four reads of a
  time or date, which the kernel makes with interrupts off (`ClockTicks`).
* `Machine` takes the programs as any sequences of calls. `ProgramsAssumption` says what a
  compiler would: each call is to a wrapper, with as many numbers as `syscall_call.h`
  declares.
* `Shell` numbers the captures of registers, and a word of the snapshot is the number of
  the capture it came from. Shift+Tab is one step, since its handler runs alone. Lines
  are sequences of bytes, and the four blanks of the code are one. `Names` spells the
  commands in ASCII codes, so that proofs can compare them, and `MCShell` lets TLC compare
  the codes of each name with its letters (`NamesAreSpelled`).
* `int` is 8 bits wide in the run of `Shell`, so that numbers of three digits overflow.
* In `TronMatch` a round may read any number of the waiting keys. Escape counts as
  Enter, since the menus treat them alike. The shell has just emptied the ring when
  the command starts. `startGame` calls itself to return to the main menu; the model keeps no
  frames, so `EnterLeaves` shows that Enter gets out through the menus whatever was typed
  ahead, and the unwinding of the frames is not checked.
* `ConsoleInput` has a history variable that no step reads: `earlier`, how many of the keys
  typed since the clear had left the ring when the last call ended. A batch is compared with
  the keys that left it after that.
* The clock of `Machine` turns all its numbers at once, as that of QEMU does: the update in
  progress of a real chip, during which a register reads as anything, is left out, and the
  code does not look at its flag.
* One flag stands for both Shifts, in the code and in the model. `Settled` and
  `SnapshotNeedsShift` say that it is set only while one is held; that releasing one of two
  clears it is what the code does, and no property says that it should not.

## 3. Runs

| run | instance | shows |
|---|---|---|
| `KeyboardRing` (`MCKeyboard`) | ring of 3, two keys, all three callers | indices and count stay in range whatever is interrupted; no stale key is read; the ring implements `KeyQueue`; a pending Enter releases `waitForEnter` |
| `KeyboardHasNext` | the same | **violated**: `hasNextKey` says no with a key in the ring |
| `KeyboardDevice` (`MCKeyboardDevice`) | 6 plain and 3 extended keys, a wire of 2 bytes | nothing half read and no Shift stuck once the wire is empty; what is typed is what was pressed; a snapshot needs Shift |
| `ConsoleInput` (`MCConsoleInput`) | ring of 3, line of 3 bytes, batch of 2, up to 4 keys after a clear | the line is what was typed; a batch is every key that left the ring since the last call ended; both fit |
| `Console` (`MCConsole`) | 3 by 3 cells, scales 1 and 2, lines of up to 4 keys | the cursor stays on the screen; text never runs over text; the echo shows the line that is read; Backspace never erases the prompt |
| `Interrupts` (`MCInterrupts`) | counter modulo 6, sleeps of 0 to 3 ticks | no nesting, harmless second acknowledgement, tick accounting, bounds of a sleep, sleeps return |
| `InterruptsClock` | the same | **violated**: `timer_ms_since_boot` is not the time since the boot |
| `TronRound` (`MCTronRound`) | 5 by 3 cells, both modes, levels 1 and 2 | occupancy, who dies, no turning back, a bot that dies only boxed in, rounds that end, best of five |
| `TronMatch` | top level 2, 3 waiting keys | levels count real wins, no round after a victory, announcements, leaving with Enter |
| `Machine` (`MCMachine`) | a shell whose packed copy lies across the BSS, every wrapper, all programs but Tron, 2 starting times, 2 seconds | image, BSS and interrupts at start-up; every call is the one that was asked for; the speaker; the time that is shown; commands end |
| `Shell` (`MCShell`) | about 140 lines, 4 captures, 3 registers, 4 arguments, 8-bit `int` | commands are understood; the stack is bounded; screens show whole and current snapshots |
| `TronLevels` | one waiting key | **violated**: after a tie the menu announces a level that is not played |

Why the bounds are enough. In the ring, what matters is empty, partly filled, full
and wrapped, with indices that can be told apart; three slots have all of these,
and two kinds of key tell an order apart and have an Enter. The counter of the
timer wraps at 6, so that sleeps start before a wrap and end after it, and 3 is the
longest sleep that `SleepAssumption` allows there. The keys of `KeyboardDevice` have both Shifts,
Caps Lock, Tab, a letter (in both tables), a digit (in one), an arrow, an extended
key whose code is that of a Shift, and one whose code is that of Enter. A 5 by 3
grid gives the players distinct spawns, a wall on every side, rounds of up to seven
ticks, head-on collisions and boxed-in bots, and index arithmetic with more columns
than rows; batches have one key, keys of both players, two keys of one player and a
key of no use. Level 1 and level 2 are the two bots, and every higher level uses the
second. `TopLevel` stands for 99 and 2 is the least value with a level below the top.
A line of 3 bytes has room for two keys and is full with the third. `MaxTyped` bounds
only how much is typed between two clears.

A screen of 3 by 3 has one whole column and one whole row of the larger font, with a
remainder in both directions, and a line of four keys wraps and scrolls at either scale.
Text is printed at a negative column and at a row below the screen.

`Machine` packs six words of shell behind five of kernel, with a BSS of four words from
word 8 on, so that the packed copy has words before, in and after the BSS. The clocks start one
second before all their numbers carry, or between; two seconds may end, of which one in a call. The programs are those of `commands.c` and `benchmark_calculations.c` and, for the
wrappers they do not call, one call with arguments that can be told apart; a frequency
below and one above the range of the divisor are among them. The lines of `Shell` are
every name as it is, in capitals, shortened, lengthened, with another last letter and with
blanks around it, `help` of each, and the edges of argument counts and numbers. Four captures
are two exceptions with a Shift+Tab around each; the loop repeats after that, which the
proof confirms.

Deadlock is checked in every run but `TronRound`, where a match ends (`pc = "over"`),
and `Machine` and `Shell`, where `kill` turns the machine off.

Fairness. `WF(Reader)`: the processor goes on executing the reader, and nobody is
obliged to type. `WF(Handler)` and `WF(Pulse)`: pending interrupts are served when
the flag allows it, and the PIT does not stop. `SF(Sleeping)`: the keyboard sends at
most one byte per millisecond, so the loop of `sleep_ms` runs between two
interrupts; weak fairness would let back-to-back handlers starve it, which the
hardware does not do. `WF(Play)`: the loop of the game runs at the pace of the
timer; the pause is left without fairness because a person may stay away.
`WF(Menus)` and `WF(Round)`: `getchar` returns within 10 ms, and a round ends, which
`RoundEnds` shows. In `Machine`, `WF(BootStep)` and `WF(Step)` are the processor going on;
`SF(IRQ0)`, because the 8259 keeps the line pending while interrupts are off between two calls; and
`SF(Getchar(KeyE))` is a user who goes on pressing E at the pages that only E leaves.

### Disagreements found

1. `keyboard_handler.h:27` says `hasNextKey` is true when a key is available. An
   IRQ1 between the load and the store of `count--` (`keyboard_handler.c:201`) loses
   its increment: the key is in the ring, `hasNextKey` denies it, and from then on the
   ring lags one key behind, until the next clear.
2. `timer.c:56` promises the time since the boot. A system call that leaves interrupts
   off for longer than a tick loses ticks beyond the one that the 8259 latches
   (`EveryTickAccounted` says precisely which).
3. `ui.c:167` shows `level + 1` whenever the match was not lost, also after a tie, under
   the words "RETRY LEVEL"; `tron_game.c:94` raises the level after a real win only.
   `AnnouncedUnlessTie` states that this, and the top level, are the only exceptions.

Read in the code while modelling, without a run that would add anything:

* The help of `registers` speaks of the capture by Shift+Tab; an exception replaces the same
  snapshot. `SnapshotIsLatest` says what is shown.
* `exceptions.c` calls the stack pointer that it restores the initial one of the shell; it is that
  of the first exception. `StackBounded` says that this costs one command's depth at most.
* A time that is read while the minute changes may mix both minutes, and the date is that of the
  clock's time zone while the time is that of the program's (`TimeShown`).
* The kernel's frame benchmark passes the arguments of `putPixel` in another order than its
  declaration (`benchmark.c:74`): it measures calls that draw nothing.
* The usage of `resize` says 1 to 3, its help 1 to 4, and 4 is what the kernel takes; the
  benchmark pages "restore" scale 1, whatever the scale was.
* `uintToBase` writes into ten characters, which nine digits fill; `string_to_int` overflows.

## 4. Theorems

The proofs hold for every value of the constants within the named assumptions.

* `KeyboardProofs`, for a ring of any length (`RingAssumption`) and any set of bytes:
  `TypeOK`, `FreshOnly` and `ImplementsQueue`. `FreshOnly` alone is not inductive. The invariant adds where
  the counted keys lie: until the ring has been written all round since the clear, the
  fresh slots are those below `lastkey`, and what `nextkey` and `count` can still reach
  lies among them, by the place of the reader. The lost update of `count` makes the
  ring shorter than it is, never longer, and this is why no stale slot is read in spite
  of it. For the refinement of `KeyQueue` a second invariant adds what the slots hold: the
  fresh ones hold the keys typed since the clear, in order, the ones pending in the queue
  are the last of them, and while no read was disturbed the two ends meet (`lastkey` is
  `First + Size` around the ring). Each step is then a push, a take, a clear, a declared
  disturbance, or a stutter.
* `KeyPathProofs`, the two ends of that ring. At the reading end, for a line, a batch and a
  ring of any length (`LineAssumption`): `InputTypeOK`, `ConsoleInput` implements `Keyboard`,
  so that the theorems about the ring hold under the two system calls, and
  `LineIsWhatWasTyped` and `BatchIsWhatWasTyped`. The invariant says that at any point of a
  call the line is what the keys consumed so far make of an empty line, the key in hand
  being the last of them, that the batch is the ones beyond `earlier`, each once, and that
  outside a call nothing is left that was consumed and not returned. At the typing end, for any keys
  (`DeviceAssumption`: make codes below 128, and none of them 96, whose break code would be
  the prefix) and a wire of any length: `Settled`, `TypesWhatIsPressed` and
  `SnapshotNeedsShift`. The invariant says that the wire carries whole keys, that the decoder
  has seen the prefix of the first of them and no other, and that its Shift is the one that
  the keyboard had before the keys still on the wire.
* `ConsoleProofs`, for a screen of any size in cells, fonts up to any scale that fits it, and
  texts and lines of any length: `TypeOK`, `PrintsOnBlank`, `EchoShowsLine` and `PromptKept`.
  What `vdPrint` makes of a text of any length is proved from what it makes of a key, by
  induction. For the echo the invariant says where on the screen each glyph of the line is, counted
  back from the cursor, that a scroll moves them all by a row, and that nothing else is between
  them and the place where the line began.
* `InterruptsProofs`, for a counter of any width (`ModulusAssumption`): `TypeOK`,
  `HandlersRunAlone`, `SecondEoiHarmless`, `EveryTickAccounted` and `SleepBounds`. The invariant is that
  either no handler runs and nothing is in service, or exactly one does, interrupts are
  off, and the line in service is its own until its first acknowledgement. The accounts
  of the ticks rest on lemmas about addition modulo the width. The bounds of a sleep rest on
  a second invariant: of the periods since the call, those counted and those that wait add
  up, one that waited at the call included, and a loop that has found too few ticks has room for
  one more period before `hlt` and one after. `SleepAssumption`, that no sleep comes within
  two ticks of the width, is what the division by 1000 in `sleep_ms` gives.
* `TronProofs`, for every grid of 2 to 128 columns and 1 to 128 rows
  (`GridAssumption`), any batches and any levels: `TypeOK`, `OccupiedAreTrails`,
  `CollisionRule`, `NoTurnBack`, `BotDiesBoxedIn` and `ImplementsBestOfFive`. The invariant says that in a
  round the array holds the image of two disjoint trails with the heads in them, that no
  round starts on a painted board, and that no round is played in a decided match. It
  rests on three lemmas about the code's arithmetic: the index of a cell is injective,
  the unsigned wrap of a coordinate never lands on the grid, and no intent reverses a
  player. For the bot a second invariant says that the way back is closed once it has
  moved, and that before its first move the way ahead is open or there is no way back, so that
  an intent to turn back, which the code ignores, does no harm. The bound of 128 is that of the array; `map_init` caps its clearing loop there
  and nothing else, and larger grids are outside the model.

* `MachineProofs`, for every image and layout within `LayoutAssumption` and every set of
  programs (`ProgramsAssumption`), every frequency and every time (`ClockAssumption`):
  `ShellIntact`, `HandledInterrupts`, `CallsKeepTheABI`, `SpeakerLeftAsPromised` and
  `TimeShown`. For the boot the invariant says what memory holds
  before and after the loader, and how far table, timer and masks are by the `step` of
  `init_interrupts`; no later action touches either. For the calls it says what the frame
  holds from the gate to `iretq`, and which requests each stage of a call may have; that the
  request is the promised one is shown wrapper by wrapper, through the five moves of
  registers and the frame. The divisor is bounded by the clamp of `pit_set_frequency`.
  For the clock the invariant says that `rtc` is the time at the call or the next second,
  and that each number read is right in one of the two; the lemma `Carries` says
  which numbers may change in a second that ends no minute, or no month.
* `ShellProofs`, for any lines, any room for arguments, any width of `int`, any depths of the
  faulting commands and a snapshot of any number of words: `Understands`, `StackBounded` and
  `SnapshotIsLatest`. The invariant is that a shell that
  has restarted stands where the first exception left it, and that the snapshot is the
  latest capture, but for the words that a handler has yet to copy, while interrupts are off.
  For `Understands` the work is in the lemmas about `CommandLookup`. The names of the table are
  sorted (`Sorted`), so the rows below a text come first and a search that halves the range as
  many times as there are rows ends where they do (`BoundIs`, `Searches`). The text is a name
  just when one row begins with it and is as long (`Lookup`); the search of help keeps the row
  it looks for in its range (`ProbeKeeps`, `HelpEntry`). The scan of the tokenizer stands at
  the k-th first character of a word after k rounds (`StandsAtNext`, `Tokens`), and a value that
  an int holds has never been larger on the way (`ValuesGrow`). The invariant of the loop then
  says that the function to run is the one that the line names.
* `TronMatchProofs`, for every top level: `LevelCountsWins`, `NoRoundAfterVictory` and
  `AnnouncedUnlessTie`. In the end menu the win is already counted, in every other place the
  level is one more than the wins, up to the top; and a decided match is never resumed.

Induction. What a text, a line or a batch of any length becomes is a recursive function of the
length. The provers have no rule of induction that they could apply to a formula, so the modules
use the principle of the least number instead (`LeastNumber`, from `WellFoundedInduction`): if the
claim failed for some length it would fail for a least one, which the step refutes. `ShellProofs`
states it once for sets of numbers (`UpTo`), and shows from it that the recursive functions of
`CommandLookup`, one for each loop of the code, have a solution (`Recursion`).

Only model-checked: everything under fairness (`EnterReleases`, `SleepReturns`,
`RoundEnds`, `EnterLeaves`, `CommandsEnd`), which this prover cannot do.

## 5. Not modelled

* Pixels, glyphs, colours, fonts and the drawing of the board: output without influence
  on control. The cursor is state, and `Console` has it.
* The texts that commands print, the conversion of results to digits, and what a round of a
  benchmark computes.
* The pace of a tick of Tron in milliseconds (`tron_tick_for_level`, the sleep at the end of
  the loop): a tick is a step, and sleeps are the subject of `Interrupts`.
* A held Caps Lock toggles at every repeat; the model does the same, and nothing in the
  repository says what it should do.
* The boot loader Pure64, BMFS, the font: vendored code and data. What Pure64 leaves behind
  is the initial state of `Boot`.
* `pic_mask_irq`, the handlers of IRQ2 to IRQ5 and the bytes of the divisor in `timer_init`;
  options and file errors of the packer.
* Grids beyond the occupancy array, see above.

## 6. Plan

1. The pace of a tick: `tron_tick_for_level` and the sleep between ticks on `Interrupts`.

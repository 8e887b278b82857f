-------------------------------- MODULE Shell --------------------------------
(***************************************************************************)
(* The shell's loop and what an exception does to it.  A line is read and  *)
(* dispatched; testzero and testinvalidop raise an exception, whose        *)
(* handler saves and shows the registers, waits for Enter and starts the   *)
(* shell again at its entry with a new stack pointer; `registers` copies   *)
(* the one snapshot, which Shift+Tab replaces at any time that interrupts  *)
(* are on.  Kernel and shell share one stack.                              *)
(***************************************************************************)
EXTENDS CommandLookup, FiniteSets

CONSTANTS
  Lines,      \* lines that the user types
  RegCount,   \* REG_COUNT: words of a snapshot
  Depth,      \* bytes of stack from main to the faulting instruction
  MaxDepth,
  MaxCaptures \* bound: snapshots that are taken in a run

Faulting == {"testZeroDivision", "testInvalidOpcode"}

ASSUME ShellAssumption ==
  /\ RegCount \in Nat \ {0} /\ MaxDepth \in Nat /\ MaxCaptures \in Nat
  /\ Depth \in [Faulting -> 1 .. MaxDepth]
  /\ Lines \subseteq Seq(Characters)

VARIABLES
  pc,
  interrupts,
  line,             \* buf of main
  cr_last_cmd_id, cr_last_argv,
  did,              \* what the last command did, with what
  sp,               \* how far the stack of the shell has grown
  initial_userland_rsp,
  frame,            \* the capture that registers[] of the exception holds
  captures,         \* snapshots and exceptions so far: each has a number
  savedRegisters,   \* word by word the number of the capture it is from
  regsSaved,
  word,             \* index of the loop that copies or prints
  shown             \* words printed by an exception or copied by the call

parser == <<line, cr_last_cmd_id, cr_last_argv, did>>
stack  == <<sp, initial_userland_rsp>>
saved  == <<savedRegisters, regsSaved, captures>>
vars   == <<pc, interrupts, parser, stack, frame, saved, word, shown>>

None   == -1   \* an initial_userland_rsp of 0
Words  == 0 .. RegCount - 1

(* i++ of the loops over the words, back to 0 for the loop that follows.   *)
NextWord == IF word + 1 < RegCount THEN word + 1 ELSE 0

Init ==
  /\ pc = "start" /\ interrupts = TRUE
  /\ line = << >> /\ cr_last_cmd_id = -1 /\ cr_last_argv = << >>
  /\ did = << "nothing" >>
  /\ sp = 0 /\ initial_userland_rsp = None
  /\ frame = 0 /\ captures = 0
  /\ savedRegisters = [i \in Words |-> 0] /\ regsSaved = FALSE
  /\ word = 0 /\ shown = [i \in Words |-> 0]

(* Mutant: a trap gate leaves the flag alone.                              *)
ThroughTrapGate == interrupts

(* All the vectors are interrupt gates.                                    *)
ThroughGate == FALSE

updateRegs(i, capture) ==
  /\ savedRegisters' = [savedRegisters EXCEPT ![i] = capture]
  /\ regsSaved' = (regsSaved \/ i = RegCount - 1)

(* Shift+Tab: the handler of IRQ1 runs alone, so it is one step.           *)
ShiftTab ==
  /\ interrupts /\ captures < MaxCaptures
  /\ captures' = captures + 1
  /\ savedRegisters' = [i \in Words |-> captures']
  /\ regsSaved' = TRUE
  /\ UNCHANGED <<pc, interrupts, parser, stack, frame, word, shown>>

------------------------------------------------------------------------------
(* _start and main.  The restart clears the BSS, which holds the arguments *)
(* of the last command but not its id.                                     *)
Start ==
  /\ pc = "start"
  /\ cr_last_argv' = << >>
  /\ pc' = "prompt"
  /\ UNCHANGED <<interrupts, line, cr_last_cmd_id, did, stack, frame, saved,
                 word, shown>>

Read ==
  /\ pc = "prompt"
  /\ line' \in Lines
  /\ pc' = "dispatch"
  /\ UNCHANGED <<interrupts, cr_last_cmd_id, cr_last_argv, did, stack, frame,
                 saved, word, shown>>

cr_dispatch_exact ==
  /\ pc = "dispatch"
  /\ LET idx == cr_find_cmd_idx_ci_exact(cr_first_token(line))
     IN IF idx < 0
        THEN /\ cr_last_cmd_id' = -1 /\ cr_last_argv' = << >>
             /\ did' = << "invalid" >>
             /\ pc' = "prompt"
        ELSE /\ cr_last_cmd_id' = COMMANDS[idx + 1][2]
             /\ cr_last_argv' = simple_tokenize(line)
             /\ pc' = "command"
             /\ UNCHANGED did
  /\ UNCHANGED <<interrupts, line, stack, frame, saved, word, shown>>

Function == commands_Handler[cr_last_cmd_id]

(* What a command does with its arguments.                                 *)
Effect ==
  LET argument == cr_last_argv[2]
      usable   == Len(cr_last_argv) = 2 /\ is_numeric(argument)
  IN CASE Function = "help"   -> <<"help", help_impl(cr_last_argv)>>
       [] Function = "echo"   -> <<"echo", Tail(cr_last_argv)>>
       [] Function = "sleep"  -> IF usable THEN <<"sleep", string_to_int(argument)>>
                                 ELSE <<"usage", "sleep">>
       [] Function = "resize" -> IF usable THEN <<"resize", syscall_resize(argument)>>
                                 ELSE <<"usage", "resize">>
       [] OTHER -> << Function >>

(* Most commands are over when they return; kill is not, for the machine   *)
(* is off (Machine).                                                       *)
Command ==
  /\ pc = "command" /\ Function \notin Faulting \cup {"registers"}
  /\ did' = Effect
  /\ pc' = IF Function = "kill" THEN "off" ELSE "prompt"
  /\ UNCHANGED <<interrupts, line, cr_last_cmd_id, cr_last_argv, stack, frame,
                 saved, word, shown>>

------------------------------------------------------------------------------
(* throw_zero_division and throw_invalid_opcode.                           *)
Throw ==
  /\ pc = "command" /\ Function \in Faulting /\ captures < MaxCaptures
  /\ sp' = sp + Depth[Function]
  /\ captures' = captures + 1
  /\ frame' = captures'
  /\ did' = << Function >>
  /\ interrupts' = ThroughGate
  /\ pc' = "exception"
  /\ UNCHANGED <<line, cr_last_cmd_id, cr_last_argv, initial_userland_rsp,
                 savedRegisters, regsSaved, word, shown>>

(* Mutant: every exception saves its stack pointer.                        *)
SavedRspEachTime == sp

SavedRsp == IF initial_userland_rsp = None THEN sp ELSE initial_userland_rsp

HandleException ==
  /\ pc = "exception"
  /\ initial_userland_rsp' = SavedRsp
  /\ word' = 0
  /\ pc' = "update"
  /\ UNCHANGED <<interrupts, parser, sp, frame, saved, shown>>

UpdateRegs ==
  /\ pc = "update"
  /\ updateRegs(word, frame)
  /\ word' = NextWord
  /\ pc' = IF word = RegCount - 1 THEN "print" ELSE "update"
  /\ UNCHANGED <<interrupts, parser, stack, frame, captures, shown>>

(* print_registers of the kernel; then waitForEnter turns interrupts on.   *)
PrintRegisters ==
  /\ pc = "print"
  /\ shown' = [shown EXCEPT ![word] = savedRegisters[word]]
  /\ word' = NextWord
  /\ pc' = IF word = RegCount - 1 THEN "wait" ELSE "print"
  /\ UNCHANGED <<interrupts, parser, stack, frame, saved>>

WaitForEnter ==
  /\ pc = "wait" /\ ~ interrupts
  /\ interrupts' = TRUE
  /\ UNCHANGED <<pc, parser, stack, frame, saved, word, shown>>

(* Enter ends the wait: cli, and iretq to the entry of the shell with the  *)
(* flags of the fault.  What was shown is forgotten here and in PrintCopy, *)
(* so that equal states are one.                                           *)
PressEnter ==
  /\ pc = "wait" /\ interrupts
  /\ sp' = initial_userland_rsp
  /\ pc' = "start"
  /\ frame' = 0 /\ shown' = [i \in Words |-> 0]
  /\ UNCHANGED <<interrupts, parser, initial_userland_rsp, saved, word>>

------------------------------------------------------------------------------
(* `registers`: syscall_print_registers copies the words to the buffer of  *)
(* the program, which prints them afterwards, or is told that none exist.  *)
Registers ==
  /\ pc = "command" /\ Function = "registers"
  /\ interrupts' = ThroughGate
  /\ word' = 0
  /\ pc' = IF regsSaved THEN "copy" ELSE "copied"
  /\ did' = <<"registers", regsSaved>>
  /\ UNCHANGED <<line, cr_last_cmd_id, cr_last_argv, stack, frame, saved, shown>>

CopyWord ==
  /\ pc = "copy"
  /\ shown' = [shown EXCEPT ![word] = savedRegisters[word]]
  /\ word' = NextWord
  /\ pc' = IF word = RegCount - 1 THEN "copied" ELSE "copy"
  /\ UNCHANGED <<interrupts, parser, stack, frame, saved>>

PrintCopy ==
  /\ pc = "copied"
  /\ interrupts' = TRUE
  /\ pc' = "prompt"
  /\ shown' = [i \in Words |-> 0]
  /\ UNCHANGED <<parser, stack, frame, saved, word>>

Exception == Throw \/ HandleException \/ UpdateRegs \/ PrintRegisters
             \/ WaitForEnter \/ PressEnter
Snapshot  == Registers \/ CopyWord \/ PrintCopy

Next == Start \/ Read \/ cr_dispatch_exact \/ Command \/ Exception \/ Snapshot
        \/ ShiftTab

Spec == Init /\ [][Next]_vars

------------------------------------------------------------------------------
(* The words of a line: the k-th run of characters that are not blank.     *)
Starts(l) == {i \in DOMAIN l : l[i] # SPACE /\ (i = 1 \/ l[i - 1] = SPACE)}
Ends(l)   == {i \in DOMAIN l : l[i] # SPACE /\ (i = Len(l) \/ l[i + 1] = SPACE)}

Kth(S, k)  == CHOOSE i \in S : Cardinality({j \in S : j <= i}) = k
WordsOf(l) == [k \in 1 .. Cardinality(Starts(l)) |->
                 SubSeq(l, Kth(Starts(l), k), Kth(Ends(l), k))]
First(ws, n) == SubSeq(ws, 1, IF Len(ws) < n THEN Len(ws) ELSE n)

SameName(a, b) ==
  Len(a) = Len(b) /\ \A i \in DOMAIN a : my_tolower(a[i]) = my_tolower(b[i])

(* What the user may type, and the function of commands.c behind it.       *)
Manual ==
  [benchmark |-> "benchmark", clear |-> "clear", date |-> "date",
   echo |-> "echo", fps |-> "fps", help |-> "help", kill |-> "kill",
   registers |-> "registers", resize |-> "resize", sleep |-> "sleep",
   testinvalidop |-> "testInvalidOpcode", testsound |-> "testSound",
   testsyscalls |-> "testsyscalls", testzero |-> "testZeroDivision",
   time |-> "time", tron |-> "tron"]

NamedBy(w) == {n \in DOMAIN Manual : SameName(Names[n], w)}

(* The number that digits stand for, and whether an int holds it.          *)
Value(w) ==
  LET v[i \in 0 .. Len(w)] == IF i = 0 THEN 0 ELSE v[i - 1] * 10 + w[i] - ZERO
  IN v[Len(w)]
Fits(w)  == Value(w) < IntMod \div 2

(* A line runs the command whose name is its first word, whatever the case *)
(* of its letters and the blanks around it, with the words as arguments up *)
(* to the CR_MAXARGS - 1 that there is room for, and a line whose first    *)
(* word is no name runs none; help finds the entry of every command and of *)
(* no other word; sleep and resize get the number that was typed if an int *)
(* holds it: also in a shell that has been started again after exceptions  *)
(* (commandRead.c, help.c, utils.c).                                       *)
Understands ==
  LET words == WordsOf(line)
      word1 == words[1]
      arg   == words[2]
  IN /\ pc = "command" =>
          /\ words # << >> /\ {Function} = {Manual[n] : n \in NamedBy(word1)}
          /\ cr_last_argv = First(words, MaxArgs - 1)
     /\ pc = "prompt" /\ did = << "invalid" >> =>
          words = << >> \/ NamedBy(word1) = {}
     /\ pc = "prompt" /\ did[1] = "help" =>
          IF Len(words) > 1 /\ MaxArgs > 2
          THEN {did[2][1]} \ {<< >>} = {Names[n] : n \in NamedBy(arg)}
          ELSE did[2] = [i \in DOMAIN COMMANDS |-> COMMANDS[i][1]]
     /\ pc = "prompt" /\ did[1] = "sleep" /\ Fits(arg) => did[2] = Value(arg)
     /\ pc = "prompt" /\ did[1] = "resize" /\ Fits(arg) =>
          did[2] = IF Value(arg) \in 1 .. 4 THEN Value(arg)
                   ELSE IF Value(arg) = 0 THEN 1 ELSE 4

(* Every exception abandons the stack it happened on, and yet the stack    *)
(* never grows beyond the depth of two commands, however many exceptions   *)
(* there are (handle_exception).                                           *)
StackBounded == sp <= 2 * MaxDepth

(* An exception screen shows the registers of that exception and nothing   *)
(* of a Shift+Tab that came meanwhile; `registers` gets the latest capture *)
(* and all of it, or none if there never was one; and an exception is the  *)
(* latest capture until the next (exceptions.c, keyboard_handler.c).       *)
SnapshotIsLatest ==
  /\ pc = "wait" => shown = [i \in Words |-> frame]
  /\ pc = "copied" => IF captures = 0 THEN ~ regsSaved
                      ELSE regsSaved /\ shown = [i \in Words |-> captures]
=============================================================================

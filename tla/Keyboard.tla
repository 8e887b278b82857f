------------------------------- MODULE Keyboard -------------------------------
(***************************************************************************)
(* The keyboard driver: the ring of typed keys, the IRQ1 handler that      *)
(* fills it and the code that reads it while interrupts are enabled.       *)
(*                                                                         *)
(* The handler runs behind an interrupt gate, so it is one step.  The      *)
(* reader is not: each load and store that getNextKey and                  *)
(* clearKeyboardBuffer make of a shared variable is a step of its own and  *)
(* the handler may run between any two of them while interrupts are on.    *)
(***************************************************************************)
EXTENDS Scancodes, Sequences

CONSTANTS
  BUFFER_MAXLENGTH,   \* slots of the ring
  Bytes               \* the bytes the keyboard may send

ASSUME RingAssumption == BUFFER_MAXLENGTH \in Nat \ {0}
ASSUME BytesAssumption == Bytes \subseteq Byte

VARIABLES
  buf, lastkey, nextkey, count,        \* the ring: next to write, next to read
  e0_prefix, shiftPressed, capsLock,   \* what the earlier bytes left behind
  regsSaved,                           \* a register snapshot exists
  intr,                                \* the CPU's interrupt flag
  pc, client,                          \* next step of the reader, and its caller
  reg,                                 \* what the reader last loaded
  ev,                                  \* the key that getNextKey copied
  fresh,                               \* history: slots written since the clear
  disturbed                            \* history: see Disturbs

ring    == <<buf, lastkey, nextkey, count>>
mods    == <<e0_prefix, shiftPressed, capsLock, regsSaved>>
cpu     == <<intr, pc, client, reg, ev>>
history == <<fresh, disturbed>>
vars    == <<ring, mods, cpu, history>>

Slots   == 0 .. BUFFER_MAXLENGTH - 1

\* Mutant: an index that runs past the end of the array.
SuccPastEnd(i) == i + 1

Succ(i) == (i + 1) % BUFFER_MAXLENGTH

Clients == {"waitForEnter", "syscall_read", "syscall_getchar"}

\* The steps of the reader, named for what they do next.
Labels == {"user", "clear_last", "clear_next", "clear_count", "sti", "poll",
           "check", "load_index", "copy", "load_next", "store_next",
           "load_count", "store_count", "got", "again", "cli", "iretq"}

Init ==
  /\ buf = [i \in Slots |-> NUL]
  /\ lastkey = 0 /\ nextkey = 0 /\ count = 0
  /\ e0_prefix = FALSE /\ shiftPressed = FALSE /\ capsLock = FALSE
  /\ regsSaved = FALSE
  /\ intr = TRUE /\ pc = "user" /\ client = "waitForEnter"
  /\ reg = 0 /\ ev = NUL
  /\ fresh = {} /\ disturbed = FALSE

------------------------------------------------------------------------------
(* The producer: IRQ1. *)

bufferFull  == count = BUFFER_MAXLENGTH
bufferEmpty == count = 0

\* Mutant: a full ring overwrites its oldest key and leaves nextkey behind.
pushEventKeepsNext(k) ==
  /\ buf' = [buf EXCEPT ![lastkey] = k]
  /\ lastkey' = Succ(lastkey)
  /\ nextkey' = nextkey
  /\ count' = IF bufferFull THEN count ELSE count + 1

\* The oldest key gives way to the new one when the ring is full.
pushEvent(k) ==
  /\ buf' = [buf EXCEPT ![lastkey] = k]
  /\ lastkey' = Succ(lastkey)
  /\ nextkey' = IF bufferFull THEN Succ(nextkey) ELSE nextkey
  /\ count' = IF bufferFull THEN count ELSE count + 1

\* A push here undoes part of the read in progress: it moves nextkey or
\* rewrites the slot that the reader has already chosen, or it is forgotten
\* when the reader stores the count it loaded before.
Disturbs ==
  \/ pc = "store_count"
  \/ bufferFull /\ pc \in {"copy", "load_next", "store_next", "load_count"}

\* keyboardPressed, for one byte of the controller's port 0x60.
IRQ1(b) ==
  LET k == KeyOf(b, e0_prefix, shiftPressed, capsLock)
  IN  /\ intr
      /\ \/ k = NUL /\ UNCHANGED <<ring, history>>
         \/ /\ k # NUL
            /\ pushEvent(k)
            /\ fresh' = fresh \cup {lastkey}
            /\ disturbed' = (disturbed \/ Disturbs)
      /\ e0_prefix' = NextE0(b)
      /\ shiftPressed' = NextShift(b, e0_prefix, shiftPressed)
      /\ capsLock' = NextCaps(b, e0_prefix, capsLock)
      /\ regsSaved' = (regsSaved \/ TakesSnapshot(b, e0_prefix, shiftPressed))
      /\ UNCHANGED cpu

------------------------------------------------------------------------------
(* The consumer: getNextKey and clearKeyboardBuffer, a step per access. *)

Goto(from, to) == pc = from /\ pc' = to

\* A step of the reader that touches neither the ring nor the flags.
Quiet == UNCHANGED <<ring, mods, history>>

ClearLast ==
  /\ Goto("clear_last", "clear_next")
  /\ lastkey' = 0
  /\ fresh' = {} /\ disturbed' = FALSE
  /\ UNCHANGED <<buf, nextkey, count, mods, intr, client, reg, ev>>

ClearNext ==
  /\ Goto("clear_next", "clear_count")
  /\ nextkey' = 0
  /\ UNCHANGED <<buf, lastkey, count, mods, history, intr, client, reg, ev>>

\* Mutant: the clear forgets the count.
ClearCountForgotten ==
  /\ Goto("clear_count", "sti")
  /\ UNCHANGED <<ring, mods, history, intr, client, reg, ev>>

ClearCount ==
  /\ Goto("clear_count", "sti")
  /\ count' = 0
  /\ UNCHANGED <<buf, lastkey, nextkey, mods, history, intr, client, reg, ev>>

\* hasNextKey, from the loop of the caller.
HasNextKey ==
  /\ pc = "poll"
  /\ pc' = IF bufferEmpty THEN "again" ELSE "check"
  /\ UNCHANGED <<intr, client, reg, ev>> /\ Quiet

CheckEmpty ==
  /\ pc = "check"
  /\ pc' = IF bufferEmpty THEN "got" ELSE "load_index"
  /\ ev' = IF bufferEmpty THEN NUL ELSE ev
  /\ UNCHANGED <<intr, client, reg>> /\ Quiet

LoadIndex ==
  /\ Goto("load_index", "copy")
  /\ reg' = nextkey
  /\ UNCHANGED <<intr, client, ev>> /\ Quiet

CopyEvent ==
  /\ Goto("copy", "load_next")
  /\ ev' = buf[reg]
  /\ UNCHANGED <<intr, client, reg>> /\ Quiet

LoadNext ==
  /\ Goto("load_next", "store_next")
  /\ reg' = nextkey
  /\ UNCHANGED <<intr, client, ev>> /\ Quiet

\* Mutant: a read consumes two slots.
StoreNextSkips ==
  /\ Goto("store_next", "load_count")
  /\ nextkey' = Succ(Succ(reg))
  /\ UNCHANGED <<buf, lastkey, count, mods, history, intr, client, reg, ev>>

StoreNext ==
  /\ Goto("store_next", "load_count")
  /\ nextkey' = Succ(reg)
  /\ UNCHANGED <<buf, lastkey, count, mods, history, intr, client, reg, ev>>

LoadCount ==
  /\ Goto("load_count", "store_count")
  /\ reg' = count
  /\ UNCHANGED <<intr, client, ev>> /\ Quiet

StoreCount ==
  /\ Goto("store_count", "got")
  /\ count' = reg - 1
  /\ UNCHANGED <<buf, lastkey, nextkey, mods, history, intr, client, reg, ev>>

------------------------------------------------------------------------------
(* The callers.  All of them enter through a gate, with interrupts off. *)

\* An exception (waitForEnter, after the registers are saved) or int 0x80.
EnterKernel(c) ==
  /\ pc = "user"
  /\ client' = c
  /\ intr' = FALSE
  /\ pc' = IF c = "syscall_getchar" THEN "sti" ELSE "clear_last"
  /\ regsSaved' = (regsSaved \/ c = "waitForEnter")
  /\ UNCHANGED <<ring, e0_prefix, shiftPressed, capsLock, reg, ev, history>>

EnableInterrupts ==
  /\ Goto("sti", "poll")
  /\ intr' = TRUE
  /\ UNCHANGED <<client, reg, ev>> /\ Quiet

\* What each caller does with the key.  How full the line of syscall_read and
\* the batch of syscall_getchar are is left open here.
HandleKey ==
  /\ pc = "got"
  /\ \/ client = "waitForEnter" /\ pc' = IF ev = ENTER THEN "cli" ELSE "again"
     \/ client = "syscall_read" /\ pc' \in IF ev = ENTER THEN {"iretq"}
                                           ELSE IF ev \in {NUL, BS} THEN {"again"}
                                           ELSE {"again", "iretq"}
     \/ client = "syscall_getchar" /\ pc' \in {"again", "cli"}
  /\ UNCHANGED <<intr, client, reg, ev>> /\ Quiet

\* The end of the caller's loop, where syscall_getchar may time out.
LoopOrTimeOut ==
  /\ pc = "again"
  /\ \/ pc' = "poll"
     \/ client = "syscall_getchar" /\ pc' = "cli"
  /\ UNCHANGED <<intr, client, reg, ev>> /\ Quiet

DisableInterrupts ==
  /\ Goto("cli", "iretq")
  /\ intr' = FALSE
  /\ UNCHANGED <<client, reg, ev>> /\ Quiet

\* The user's flags, interrupts enabled, come back with iretq.
ReturnToUser ==
  /\ Goto("iretq", "user")
  /\ intr' = TRUE
  /\ UNCHANGED <<client, reg, ev>> /\ Quiet

GetNextKey == CheckEmpty \/ LoadIndex \/ CopyEvent \/ LoadNext \/ StoreNext
              \/ LoadCount \/ StoreCount

ClearKeyboardBuffer == ClearLast \/ ClearNext \/ ClearCount

\* The code that runs by itself once it has been called.
Reader == GetNextKey \/ ClearKeyboardBuffer \/ HasNextKey \/ EnableInterrupts
          \/ HandleKey \/ LoopOrTimeOut \/ DisableInterrupts \/ ReturnToUser

Next == (\E b \in Bytes : IRQ1(b)) \/ (\E c \in Clients : EnterKernel(c)) \/ Reader

Spec == Init /\ [][Next]_vars

\* The CPU never stops executing the reader; nothing obliges a user to type.
FairSpec == Spec /\ WF_vars(Reader)

------------------------------------------------------------------------------
(* Properties. *)

\* Every variable has its type: the two indices stay inside the static array
\* and count between 0 and its length, whatever the handler interrupts (the
\* unguarded count-- of getNextKey never takes it below zero).
TypeOK ==
  /\ buf \in [Slots -> Byte]
  /\ lastkey \in Slots /\ nextkey \in Slots /\ count \in 0 .. BUFFER_MAXLENGTH
  /\ e0_prefix \in BOOLEAN /\ shiftPressed \in BOOLEAN /\ capsLock \in BOOLEAN
  /\ regsSaved \in BOOLEAN
  /\ intr \in BOOLEAN /\ pc \in Labels /\ client \in Clients
  /\ reg \in 0 .. BUFFER_MAXLENGTH /\ ev \in Byte
  /\ fresh \in SUBSET Slots /\ disturbed \in BOOLEAN

\* getNextKey never returns a key typed before the last clear, nor an empty
\* slot, even when the handler runs in the middle of it: an Enter that was
\* waiting when an exception struck cannot dismiss its screen.
FreshOnly == pc = "copy" => reg \in fresh

\* The header of the driver says of hasNextKey that it is true when a key is
\* available.  It answers no with a key in the ring when the handler pushed
\* one between the load and the store of count--.
HasNextKeyHonest == pc = "poll" /\ bufferEmpty => lastkey = nextkey

\* Part of getNextKey has happened: the key is copied and not yet uncounted.
Taking == pc \in {"load_next", "store_next", "load_count", "store_count"}

\* The keys in the ring as the callers may count on them, oldest first.
Pending ==
  LET first == IF pc \in {"load_next", "store_next"} THEN Succ(nextkey) ELSE nextkey
      len   == IF pc \in {"clear_next", "clear_count"} THEN 0
               ELSE IF Taking THEN count - 1 ELSE count
  IN  [i \in 1 .. len |-> buf[(first + i - 1) % BUFFER_MAXLENGTH]]

KQ == INSTANCE KeyQueue WITH
        Capacity <- BUFFER_MAXLENGTH, Keys <- Byte \ {NUL}, NoKey <- NUL,
        queue <- Pending, taken <- ev

\* The ring implements a drop-oldest queue: keys come out in the order they
\* were typed, none is lost but the oldest of a full ring, until the handler
\* disturbs a read; the next clear makes it a queue again.
ImplementsQueue == KQ!Spec

Waiting == client = "waitForEnter" /\ pc \notin {"user", "cli", "iretq"}

\* An Enter that waitForEnter finds in the ring releases it, through whatever
\* was typed before, unless the ring fills up or a read is disturbed first.
EnterReleases ==
  (Waiting /\ intr /\ ~disturbed /\ \E i \in DOMAIN Pending : Pending[i] = ENTER)
    ~> (pc = "user" \/ disturbed \/ bufferFull)
=============================================================================

---------------------------- MODULE KeyboardProofs ----------------------------
(***************************************************************************)
(* The keyboard ring, for every length of the ring and every set of bytes: *)
(* types, the freshness of the keys that getNextKey returns, and that it   *)
(* implements the drop-oldest queue of KeyQueue.                           *)
(***************************************************************************)
EXTENDS Keyboard, SequenceTheorems, TLAPS

\* The index arithmetic of the ring: the slot after i, and its range.
LEMMA SuccValue ==
  ASSUME NEW i \in Slots
  PROVE  /\ Succ(i) = IF i = BUFFER_MAXLENGTH - 1 THEN 0 ELSE i + 1
         /\ Succ(i) \in Slots
<1>1. BUFFER_MAXLENGTH \in Nat /\ BUFFER_MAXLENGTH > 0
  BY RingAssumption
<1>2. CASE i = BUFFER_MAXLENGTH - 1
  BY <1>1, <1>2 DEF Succ, Slots
<1>3. CASE i # BUFFER_MAXLENGTH - 1
  BY <1>1, <1>3 DEF Succ, Slots
<1>4. QED
  BY <1>2, <1>3

\* Each entry of the translation table is a character.
LEMMA TableType == scancode_to_ascii \in [1 .. 57 -> Byte]
BY DEF scancode_to_ascii, Byte

\* A byte types a character, or none.
LEMMA KeyOfType ==
  ASSUME NEW b, NEW e0 \in BOOLEAN, NEW shift \in BOOLEAN, NEW caps \in BOOLEAN
  PROVE  KeyOf(b, e0, shift, caps) \in Byte
<1>1. Arrow(b) \in Byte
  BY DEF Arrow, Byte, KEY_UP, KEY_DOWN, KEY_LEFT, KEY_RIGHT, NUL
<1>2. NUL \in Byte
  BY DEF NUL, Byte
<1>3. Translate(b, caps) \in Byte
  <2>1. ASSUME b \in 1 .. 57 PROVE scancode_to_ascii_mayus[b] \in Byte
    <3> DEFINE c == scancode_to_ascii[b]
    <3>1. c \in Byte
      BY <2>1, TableType
    <3>2. scancode_to_ascii_mayus[b] = IF c \in 97 .. 122 THEN c - 32
             ELSE IF c \in {27, BS, TAB, ENTER, 32} THEN c ELSE NUL
      BY <2>1 DEF scancode_to_ascii_mayus
    <3>3. c \in 97 .. 122 => c - 32 \in Byte
      BY DEF Byte
    <3>4. QED
      BY <3>1, <3>2, <3>3, <1>2
  <2>2. ASSUME b \in 1 .. 57 PROVE scancode_to_ascii[b] \in Byte
    BY <2>2, TableType
  <2>3. QED
    BY <2>1, <2>2, <1>2 DEF Translate
<1>4. QED
  BY <1>1, <1>2, <1>3 DEF KeyOf

------------------------------------------------------------------------------
(* The inductive invariant. *)

\* What the reader has established by the time it gets to each step: the ring
\* was not empty when it looked and only grows until it uncounts the key.
ReaderInv ==
  /\ pc \in {"load_index", "copy", "load_next", "store_next", "load_count",
             "store_count"} => count > 0
  /\ pc \in {"copy", "store_next"} => reg \in Slots
  /\ pc = "store_count" => reg > 0
  /\ pc \in {"clear_last", "clear_next", "clear_count"} => ~intr

\* Until the ring has been written all round since the clear, the keys counted
\* lie between nextkey and lastkey, and the slots below lastkey are the fresh
\* ones.  The key being taken is counted until store_count, one step after
\* nextkey has moved past it.
NotYetRound ==
  /\ fresh = 0 .. lastkey - 1
  /\ pc \notin {"clear_next", "clear_count"} =>
       nextkey + count <= lastkey + (IF pc \in {"load_count", "store_count"} THEN 1 ELSE 0)
  /\ pc = "clear_count" => nextkey = 0
  /\ pc = "copy" => reg < lastkey
  /\ pc = "store_next" => reg = nextkey
  /\ pc \in {"load_count", "store_count"} => nextkey > 0
  /\ pc = "store_count" => reg <= count

FreshInv == fresh = Slots \/ NotYetRound

IInv == TypeOK /\ ReaderInv /\ FreshInv

LEMMA InitIInv == Init => IInv
<1> SUFFICES ASSUME Init PROVE IInv
  OBVIOUS
<1>1. BUFFER_MAXLENGTH \in Nat /\ BUFFER_MAXLENGTH > 0
  BY RingAssumption
<1>2. TypeOK
  <2>1. NUL \in Byte /\ 0 \in Slots /\ 0 \in 0 .. BUFFER_MAXLENGTH
    BY <1>1 DEF NUL, Byte, Slots
  <2>2. buf \in [Slots -> Byte]
    BY <2>1 DEF Init
  <2>3. pc \in Labels /\ client \in Clients
    BY DEF Init, Labels, Clients
  <2>4. fresh \in SUBSET Slots
    BY DEF Init
  <2>5. QED
    BY <2>1, <2>2, <2>3, <2>4 DEF Init, TypeOK
<1>3. ReaderInv
  BY DEF Init, ReaderInv
<1>4. NotYetRound
  BY DEF Init, NotYetRound
<1>5. QED
  BY <1>2, <1>3, <1>4 DEF IInv, FreshInv

\* IRQ1 keeps the invariant, whatever step of the reader it interrupts.
LEMMA IRQ1Keeps ==
  ASSUME NEW b \in Byte, IInv, IRQ1(b)
  PROVE  IInv'
<1> DEFINE k == KeyOf(b, e0_prefix, shiftPressed, capsLock)
<1> USE DEF IInv
<1>1. BUFFER_MAXLENGTH \in Nat /\ BUFFER_MAXLENGTH > 0
  BY RingAssumption
<1>2. k \in Byte
  BY KeyOfType DEF TypeOK
<1>3. /\ e0_prefix' \in BOOLEAN /\ shiftPressed' \in BOOLEAN
      /\ capsLock' \in BOOLEAN /\ regsSaved' \in BOOLEAN
  BY DEF IRQ1, TypeOK, NextE0, NextShift, NextCaps, TakesSnapshot, IsPlain
<1>4. UNCHANGED cpu /\ intr
  BY DEF IRQ1
<1>5. CASE k = NUL
  <2>1. UNCHANGED <<ring, history>>
    BY <1>5 DEF IRQ1
  <2>2. TypeOK'
    BY <2>1, <1>3, <1>4 DEF TypeOK, ring, history, cpu
  <2>3. QED
    BY <2>1, <2>2, <1>4 DEF ReaderInv, FreshInv, NotYetRound, ring, history, cpu
<1>6. CASE k # NUL
  <2>1. /\ pushEvent(k) /\ fresh' = fresh \cup {lastkey}
        /\ disturbed' = (disturbed \/ Disturbs)
    BY <1>6 DEF IRQ1
  <2>2. /\ lastkey' = IF lastkey = BUFFER_MAXLENGTH - 1 THEN 0 ELSE lastkey + 1
        /\ lastkey' \in Slots
    BY <2>1, SuccValue DEF pushEvent, TypeOK
  <2>3. nextkey' \in Slots
    BY <2>1, SuccValue DEF pushEvent, TypeOK
  <2>4. count' \in 0 .. BUFFER_MAXLENGTH /\ count' >= count /\ count' > 0
        /\ count' <= count + 1
    BY <2>1, <1>1 DEF pushEvent, bufferFull, TypeOK
  <2>5. TypeOK'
    <3>1. buf' \in [Slots -> Byte]
      BY <2>1, <1>2 DEF pushEvent, TypeOK
    <3>2. fresh' \in SUBSET Slots /\ disturbed' \in BOOLEAN
      BY <2>1 DEF TypeOK, Disturbs
    <3>3. QED
      BY <3>1, <3>2, <2>2, <2>3, <2>4, <1>3, <1>4 DEF TypeOK, cpu
  <2>6. ReaderInv'
    BY <2>4, <1>4 DEF ReaderInv, cpu
  <2>7. CASE fresh = Slots
    BY <2>1, <2>5, <2>6, <2>7 DEF FreshInv, TypeOK
  <2>8. CASE NotYetRound
    <3>1. pc \notin {"clear_last", "clear_next", "clear_count"}
      BY <1>4 DEF ReaderInv
    <3>2. ~bufferFull
      BY <2>8, <3>1, <1>1 DEF NotYetRound, bufferFull, TypeOK, Slots
    <3>3. nextkey' = nextkey /\ count' = count + 1
      BY <2>1, <3>2 DEF pushEvent
    <3>4. CASE lastkey = BUFFER_MAXLENGTH - 1
      <4>1. fresh' = Slots
        BY <2>1, <2>8, <3>4, <1>1 DEF NotYetRound, Slots
      <4>2. QED
        BY <4>1, <2>5, <2>6 DEF FreshInv, Slots
    <3>5. CASE lastkey # BUFFER_MAXLENGTH - 1
      <4>1. lastkey' = lastkey + 1
        BY <2>2, <3>5
      <4>2. fresh' = 0 .. lastkey' - 1
        BY <2>1, <2>8, <4>1 DEF NotYetRound, TypeOK, Slots
      <4>3. NotYetRound'
        BY <2>8, <3>1, <3>3, <4>1, <4>2, <1>4 DEF NotYetRound, TypeOK, Slots, cpu
      <4>4. QED
        BY <4>3, <2>5, <2>6 DEF FreshInv
    <3>6. QED
      BY <3>4, <3>5
  <2>9. QED
    BY <2>7, <2>8 DEF FreshInv
<1>7. QED
  BY <1>5, <1>6

\* The callers and the loops around getNextKey leave the ring alone.
LEMMA CallersKeep ==
  ASSUME IInv,
         \/ \E c \in Clients : EnterKernel(c)
         \/ HasNextKey \/ CheckEmpty \/ EnableInterrupts \/ HandleKey
         \/ LoopOrTimeOut \/ DisableInterrupts \/ ReturnToUser
  PROVE  IInv'
<1> USE DEF IInv
<1>1. /\ UNCHANGED <<ring, e0_prefix, shiftPressed, capsLock, history, reg>>
      /\ regsSaved' \in BOOLEAN /\ ev' \in Byte
  <2>1. CASE \E c \in Clients : EnterKernel(c)
    <3>1. PICK c \in Clients : EnterKernel(c)
      BY <2>1
    <3>2. regsSaved' \in BOOLEAN
      BY <3>1 DEF EnterKernel, TypeOK
    <3>3. QED
      BY <3>1, <3>2 DEF EnterKernel, TypeOK
  <2>2. CASE CheckEmpty
    BY <2>2 DEF CheckEmpty, Quiet, mods, TypeOK, NUL, Byte
  <2>3. CASE HasNextKey \/ EnableInterrupts \/ HandleKey \/ LoopOrTimeOut
    BY <2>3 DEF HasNextKey, EnableInterrupts, HandleKey, LoopOrTimeOut, Quiet,
                mods, TypeOK
  <2>4. CASE DisableInterrupts \/ ReturnToUser
    BY <2>4 DEF DisableInterrupts, ReturnToUser, Quiet, mods, TypeOK
  <2>5. QED
    BY <2>1, <2>2, <2>3, <2>4
<1>2. /\ intr' \in BOOLEAN /\ client' \in Clients
      /\ pc' \in {"user", "clear_last", "sti", "poll", "check", "load_index",
                  "got", "again", "cli", "iretq"}
      /\ pc' = "clear_last" => ~intr'
      /\ pc' = "load_index" => count > 0
  <2>1. CASE \E c \in Clients : EnterKernel(c)
    BY <2>1 DEF EnterKernel
  <2>2. CASE HasNextKey
    BY <2>2 DEF HasNextKey, TypeOK
  <2>3. CASE CheckEmpty
    BY <2>3 DEF CheckEmpty, bufferEmpty, TypeOK
  <2>4. CASE EnableInterrupts
    BY <2>4 DEF EnableInterrupts, Goto, TypeOK
  <2>5. CASE HandleKey
    BY <2>5 DEF HandleKey, TypeOK
  <2>6. CASE LoopOrTimeOut
    BY <2>6 DEF LoopOrTimeOut, TypeOK
  <2>7. CASE DisableInterrupts \/ ReturnToUser
    BY <2>7 DEF DisableInterrupts, ReturnToUser, Goto, TypeOK
  <2>8. QED
    BY <2>1, <2>2, <2>3, <2>4, <2>5, <2>6, <2>7
<1>3. pc \notin {"clear_next", "clear_count", "load_count", "store_count"}
  BY DEF EnterKernel, HasNextKey, CheckEmpty, EnableInterrupts, HandleKey,
         LoopOrTimeOut, DisableInterrupts, ReturnToUser, Goto
<1>4. TypeOK'
  BY <1>1, <1>2 DEF TypeOK, ring, history, Labels
<1>5. ReaderInv'
  BY <1>1, <1>2 DEF ReaderInv, ring
<1>6. FreshInv'
  <2>1. CASE fresh = Slots
    BY <2>1, <1>1 DEF FreshInv, history
  <2>2. CASE NotYetRound
    BY <2>2, <1>1, <1>2, <1>3 DEF FreshInv, NotYetRound, ring, history
  <2>3. QED
    BY <2>1, <2>2 DEF FreshInv
<1>7. QED
  BY <1>4, <1>5, <1>6

\* The three stores of clearKeyboardBuffer.
LEMMA ClearKeeps ==
  ASSUME IInv, ClearKeyboardBuffer
  PROVE  IInv'
<1> USE DEF IInv
<1>1. BUFFER_MAXLENGTH \in Nat /\ BUFFER_MAXLENGTH > 0
  BY RingAssumption
<1>2. 0 \in Slots /\ 0 \in 0 .. BUFFER_MAXLENGTH
  BY <1>1 DEF Slots
<1>3. CASE ClearLast
  <2>1. TypeOK'
    BY <1>2, <1>3 DEF ClearLast, Goto, TypeOK, mods, Labels
  <2>2. ReaderInv'
    BY <1>3 DEF ClearLast, Goto, ReaderInv
  <2>3. NotYetRound'
    BY <1>3 DEF ClearLast, Goto, NotYetRound
  <2>4. QED
    BY <2>1, <2>2, <2>3 DEF FreshInv
<1>4. CASE ClearNext
  <2>1. TypeOK'
    BY <1>2, <1>4 DEF ClearNext, Goto, TypeOK, mods, history, Labels
  <2>2. ReaderInv'
    BY <1>4 DEF ClearNext, Goto, ReaderInv
  <2>3. FreshInv'
    BY <1>4 DEF ClearNext, Goto, FreshInv, NotYetRound, history
  <2>4. QED
    BY <2>1, <2>2, <2>3
<1>5. CASE ClearCount
  <2>1. TypeOK'
    BY <1>2, <1>5 DEF ClearCount, Goto, TypeOK, mods, history, Labels
  <2>2. ReaderInv'
    BY <1>5 DEF ClearCount, Goto, ReaderInv
  <2>3. FreshInv'
    BY <1>5 DEF ClearCount, Goto, FreshInv, NotYetRound, history, TypeOK, Slots
  <2>4. QED
    BY <2>1, <2>2, <2>3
<1>6. QED
  BY <1>3, <1>4, <1>5 DEF ClearKeyboardBuffer

\* The loads and stores of getNextKey.
LEMMA GetNextKeyKeeps ==
  ASSUME IInv, GetNextKey, ~CheckEmpty
  PROVE  IInv'
<1> USE DEF IInv
<1>1. BUFFER_MAXLENGTH \in Nat /\ BUFFER_MAXLENGTH > 0
  BY RingAssumption
<1>2. CASE LoadIndex
  <2>1. TypeOK'
    BY <1>1, <1>2 DEF LoadIndex, Goto, Quiet, TypeOK, ring, mods, history, Labels, Slots
  <2>2. ReaderInv'
    BY <1>2 DEF LoadIndex, Goto, Quiet, ReaderInv, TypeOK, ring
  <2>3. FreshInv'
    BY <1>1, <1>2 DEF LoadIndex, Goto, Quiet, ReaderInv, FreshInv, NotYetRound,
                      TypeOK, ring, history, Slots
  <2>4. QED
    BY <2>1, <2>2, <2>3
<1>3. CASE CopyEvent
  <2>1. TypeOK'
    BY <1>3 DEF CopyEvent, Goto, Quiet, ReaderInv, TypeOK, ring, mods, history, Labels
  <2>2. ReaderInv'
    BY <1>3 DEF CopyEvent, Goto, Quiet, ReaderInv, ring
  <2>3. FreshInv'
    BY <1>3 DEF CopyEvent, Goto, Quiet, FreshInv, NotYetRound, ring, history
  <2>4. QED
    BY <2>1, <2>2, <2>3
<1>4. CASE LoadNext
  <2>1. TypeOK'
    BY <1>1, <1>4 DEF LoadNext, Goto, Quiet, TypeOK, ring, mods, history, Labels, Slots
  <2>2. ReaderInv'
    BY <1>4 DEF LoadNext, Goto, Quiet, ReaderInv, TypeOK, ring
  <2>3. FreshInv'
    BY <1>4 DEF LoadNext, Goto, Quiet, FreshInv, NotYetRound, ring, history
  <2>4. QED
    BY <2>1, <2>2, <2>3
<1>5. CASE StoreNext
  <2>1. reg \in Slots
    BY <1>5 DEF StoreNext, Goto, ReaderInv
  <2>2. /\ nextkey' = IF reg = BUFFER_MAXLENGTH - 1 THEN 0 ELSE reg + 1
        /\ nextkey' \in Slots
    BY <1>5, <2>1, SuccValue DEF StoreNext
  <2>3. TypeOK'
    BY <1>5, <2>2 DEF StoreNext, Goto, TypeOK, mods, history, Labels
  <2>4. ReaderInv'
    BY <1>5 DEF StoreNext, Goto, ReaderInv
  <2>5. CASE fresh = Slots
    BY <1>5, <2>5, <2>3, <2>4 DEF StoreNext, FreshInv, history
  <2>6. CASE NotYetRound
    <3>1. reg = nextkey /\ nextkey + count <= lastkey /\ count > 0
      BY <1>5, <2>6 DEF StoreNext, Goto, NotYetRound, ReaderInv, TypeOK, Slots
    <3>2. nextkey' = nextkey + 1
      BY <3>1, <2>2, <1>1 DEF TypeOK, Slots
    <3>3. NotYetRound'
      BY <1>5, <2>6, <3>1, <3>2 DEF StoreNext, Goto, NotYetRound, TypeOK, Slots, history
    <3>4. QED
      BY <3>3, <2>3, <2>4 DEF FreshInv
  <2>7. QED
    BY <2>5, <2>6 DEF FreshInv
<1>6. CASE LoadCount
  <2>1. TypeOK'
    BY <1>6 DEF LoadCount, Goto, Quiet, TypeOK, ring, mods, history, Labels
  <2>2. ReaderInv'
    BY <1>6 DEF LoadCount, Goto, Quiet, ReaderInv, ring
  <2>3. FreshInv'
    BY <1>6 DEF LoadCount, Goto, Quiet, FreshInv, NotYetRound, TypeOK, ring, history
  <2>4. QED
    BY <2>1, <2>2, <2>3
<1>7. CASE StoreCount
  <2>1. reg \in 1 .. BUFFER_MAXLENGTH
    BY <1>1, <1>7 DEF StoreCount, Goto, ReaderInv, TypeOK
  <2>2. TypeOK'
    BY <1>1, <1>7, <2>1 DEF StoreCount, Goto, TypeOK, mods, history, Labels
  <2>3. ReaderInv'
    BY <1>7 DEF StoreCount, Goto, ReaderInv
  <2>4. FreshInv'
    BY <1>1, <1>7, <2>1 DEF StoreCount, Goto, FreshInv, NotYetRound, TypeOK, Slots, history
  <2>5. QED
    BY <2>2, <2>3, <2>4
<1>8. QED
  BY <1>2, <1>3, <1>4, <1>5, <1>6, <1>7 DEF GetNextKey

LEMMA NextKeepsIInv == IInv /\ [Next]_vars => IInv'
<1> SUFFICES ASSUME IInv, [Next]_vars PROVE IInv'
  OBVIOUS
<1>1. ASSUME NEW b \in Bytes, IRQ1(b) PROVE IInv'
  BY <1>1, BytesAssumption, IRQ1Keeps
<1>2. CASE \E c \in Clients : EnterKernel(c)
  BY <1>2, CallersKeep
<1>3. CASE Reader
  <2>1. CASE GetNextKey
    BY <2>1, GetNextKeyKeeps, CallersKeep
  <2>2. CASE ClearKeyboardBuffer
    BY <2>2, ClearKeeps
  <2>3. QED
    BY <1>3, <2>1, <2>2, CallersKeep DEF Reader
<1>4. CASE UNCHANGED vars
  BY <1>4 DEF IInv, TypeOK, ReaderInv, FreshInv, NotYetRound, vars, ring, mods,
              cpu, history
<1>5. QED
  BY <1>1, <1>2, <1>3, <1>4 DEF Next

\* Every behaviour of the driver keeps the inductive invariant.
THEOREM InductiveInvariant == Spec => []IInv
BY InitIInv, NextKeepsIInv, PTL DEF Spec

\* The indices and the count of the ring keep their ranges, for a ring of any
\* length and a reader interrupted anywhere.
THEOREM TypeCorrect == Spec => []TypeOK
<1>1. IInv => TypeOK
  BY DEF IInv
<1>2. QED
  BY <1>1, InductiveInvariant, PTL

\* getNextKey copies only slots written since the last clear, for a ring of any
\* length and a reader interrupted anywhere.
THEOREM KeysAreFresh == Spec => []FreshOnly
<1>1. IInv => FreshOnly
  <2> SUFFICES ASSUME IInv, pc = "copy" PROVE reg \in fresh
    BY DEF FreshOnly
  <2>1. reg \in Slots
    BY DEF IInv, ReaderInv
  <2>2. CASE fresh = Slots
    BY <2>1, <2>2
  <2>3. CASE NotYetRound
    <3>1. reg < lastkey /\ fresh = 0 .. lastkey - 1 /\ lastkey \in Slots
      BY <2>3 DEF NotYetRound, IInv, TypeOK
    <3>2. QED
      BY <2>1, <3>1, RingAssumption DEF Slots
  <2>4. QED
    BY <2>2, <2>3 DEF IInv, FreshInv
<1>2. QED
  BY <1>1, InductiveInvariant, PTL

------------------------------------------------------------------------------
(* The refinement of KeyQueue.                                             *)

N     == BUFFER_MAXLENGTH
Typed == Byte \ {NUL}

(* The keys that Pending counts: from where, and how many.                 *)
First == IF pc \in {"load_next", "store_next"} THEN Succ(nextkey) ELSE nextkey
Size  == IF pc \in {"clear_next", "clear_count"} THEN 0
         ELSE IF Taking THEN count - 1 ELSE count

(* Slots that hold a key hold a typed one.                                 *)
TypedInv == \A s \in fresh : buf[s] # NUL

(* Where the two ends of the ring are as long as no read was disturbed,    *)
(* and what the reader has loaded by then.                                 *)
EndsMeet ==
  /\ pc \notin {"clear_next", "clear_count"} => lastkey = (First + Size) % N
  /\ pc \in {"clear_next", "clear_count"} => lastkey = 0
  /\ pc = "clear_count" => nextkey = 0
  /\ pc \in {"copy", "store_next"} => reg = nextkey
  /\ pc = "store_count" => reg = count

QueueInv == /\ IInv /\ TypedInv
            /\ pc = "check" => count > 0
            /\ disturbed \/ EndsMeet

------------------------------------------------------------------------------
(* Sequences given as functions.                                           *)

LEMMA IsSeq ==
  ASSUME NEW S, NEW n \in Nat, NEW q \in [1 .. n -> S]
  PROVE  q \in Seq(S) /\ Len(q) = n
<1>1. q \in Seq(S)
  BY SeqDef
<1>2. DOMAIN q = 1 .. n /\ DOMAIN q = 1 .. Len(q) /\ Len(q) \in Nat
  BY <1>1, LenProperties
<1>3. QED
  BY <1>1, <1>2

LEMMA IsAppend ==
  ASSUME NEW S, NEW n \in Nat, NEW q \in [1 .. n -> S], NEW r \in [1 .. n + 1 -> S],
         \A i \in 1 .. n : r[i] = q[i]
  PROVE  r = Append(q, r[n + 1])
<1> DEFINE k == r[n + 1]
<1>1. k \in S /\ n + 1 \in Nat
  OBVIOUS
<1>2. q \in Seq(S) /\ Len(q) = n /\ r \in Seq(S) /\ Len(r) = n + 1
  BY <1>1, IsSeq
<1> HIDE DEF k
<1>3. /\ Append(q, k) \in Seq(S) /\ Len(Append(q, k)) = n + 1
      /\ \A i \in 1 .. n : Append(q, k)[i] = q[i]
      /\ Append(q, k)[n + 1] = k
  BY <1>1, <1>2, AppendProperties
<1>4. \A i \in 1 .. n + 1 : r[i] = Append(q, k)[i]
  BY <1>3 DEF k
<1>5. r = Append(q, k)
  BY <1>2, <1>3, <1>4, SeqEqual
<1>6. QED
  BY <1>5 DEF k

LEMMA IsTail ==
  ASSUME NEW S, NEW n \in Nat, NEW q \in [1 .. n + 1 -> S], NEW r \in [1 .. n -> S],
         \A i \in 1 .. n : r[i] = q[i + 1]
  PROVE  q # << >> /\ r = Tail(q) /\ q[1] = Head(q)
<1>1. q \in Seq(S) /\ Len(q) = n + 1 /\ r \in Seq(S) /\ Len(r) = n
  <2>1. n + 1 \in Nat
    OBVIOUS
  <2>2. QED
    BY <2>1, IsSeq
<1>2. q # << >>
  BY <1>1
<1>3. /\ Tail(q) \in Seq(S) /\ Len(Tail(q)) = n
      /\ \A i \in 1 .. Len(Tail(q)) : Tail(q)[i] = q[i + 1]
  BY <1>1, <1>2, HeadTailProperties
<1>4. r = Tail(q)
  BY <1>1, <1>3, SeqEqual
<1>5. QED
  BY <1>1, <1>2, <1>4

------------------------------------------------------------------------------
(* Slots.                                                                  *)

LEMMA Around ==
  ASSUME NEW x \in 0 .. 2 * N - 1
  PROVE  x % N = (IF x < N THEN x ELSE x - N) /\ x % N \in Slots
<1> USE RingAssumption DEF N, Slots
<1>1. CASE x \in 0 .. N - 1
  BY <1>1
<1>2. CASE x \in N .. 2 * N - 1
  <2>1. x % N = x - N
    BY <1>2
  <2>2. QED
    BY <1>2, <2>1
<1>3. QED
  BY <1>1, <1>2

LEMMA SuccIs ==
  ASSUME NEW i \in Slots
  PROVE  Succ(i) = (IF i = N - 1 THEN 0 ELSE i + 1) /\ Succ(i) \in Slots
BY SuccValue DEF N

(* The shape of Pending, and that its slots are fresh ones.                *)
LEMMA PendingShape ==
  ASSUME IInv
  PROVE  /\ N \in Nat /\ N > 0
         /\ First \in Slots /\ Size \in 0 .. N
         /\ Taking => Size < N
         /\ Pending = [i \in 1 .. Size |-> buf[(First + i - 1) % N]]
<1>1. N \in Nat /\ N > 0
  BY RingAssumption DEF N
<1>2. First \in Slots
  BY SuccIs DEF IInv, TypeOK, First
<1>3. Size \in 0 .. N /\ (Taking => Size < N)
  BY <1>1 DEF IInv, TypeOK, ReaderInv, Size, Taking, N
<1>4. Pending = [i \in 1 .. Size |-> buf[(First + i - 1) % N]]
  BY DEF Pending, First, Size, N
<1>5. QED
  BY <1>1, <1>2, <1>3, <1>4

LEMMA PendingFresh ==
  ASSUME IInv, NEW i \in 1 .. Size
  PROVE  (First + i - 1) % N \in fresh
<1> DEFINE x == First + i - 1
           s == x % N
<1>1. First \in Slots /\ Size \in 0 .. N /\ N \in Nat /\ N > 0
  BY PendingShape
<1>2. x \in 0 .. 2 * N - 1
  BY <1>1 DEF Slots, N
<1> HIDE DEF x
<1>3. s \in Slots /\ s = IF x < N THEN x ELSE x - N
  BY <1>2, Around
<1> USE DEF x
<1>4. CASE fresh = Slots
  BY <1>3, <1>4
<1>5. CASE NotYetRound
  <2>1. pc \notin {"clear_next", "clear_count"}
    BY DEF Size
  <2>2. /\ nextkey \in 0 .. N - 1 /\ lastkey \in 0 .. N - 1 /\ count \in 0 .. N
        /\ fresh = 0 .. lastkey - 1
        /\ nextkey + count <= lastkey
             + (IF pc \in {"load_count", "store_count"} THEN 1 ELSE 0)
    BY <1>5, <2>1 DEF IInv, TypeOK, NotYetRound, Slots, N
  <2>3. CASE pc \in {"load_next", "store_next"}
    <3>1. First = (IF nextkey = N - 1 THEN 0 ELSE nextkey + 1) /\ Size = count - 1
      BY <2>3, <2>2, SuccIs DEF First, Size, Taking, Slots, N
    <3>2. QED
      BY <1>1, <1>3, <2>2, <2>3, <3>1
  <2>4. CASE pc \in {"load_count", "store_count"}
    <3>1. First = nextkey /\ Size = count - 1
      BY <2>4 DEF First, Size, Taking
    <3>2. QED
      BY <1>1, <1>3, <2>2, <2>4, <3>1
  <2>5. CASE ~ Taking
    <3>1. First = nextkey /\ Size = count
      BY <2>1, <2>5 DEF First, Size, Taking
    <3>2. QED
      BY <1>1, <1>3, <2>2, <2>5, <3>1 DEF Taking
  <2>6. QED
    BY <2>3, <2>4, <2>5 DEF Taking
<1>6. QED
  BY <1>4, <1>5 DEF IInv, FreshInv

LEMMA PendingTyped ==
  ASSUME IInv, TypedInv
  PROVE  Pending \in [1 .. Size -> Typed] /\ Pending \in Seq(Typed)
<1>1. ASSUME NEW i \in 1 .. Size PROVE buf[(First + i - 1) % N] \in Typed
  <2>1. (First + i - 1) % N \in fresh
    BY PendingFresh
  <2>2. fresh \subseteq Slots /\ buf \in [Slots -> Byte]
    BY DEF IInv, TypeOK
  <2>3. QED
    BY <2>1, <2>2 DEF TypedInv, Typed
<1>2. Size \in Nat
  BY PendingShape
<1>3. Pending \in [1 .. Size -> Typed]
  BY <1>1, PendingShape
<1>4. QED
  BY <1>2, <1>3, IsSeq

(* What the steps below need of Pending, in a state and in the next.       *)
Shape ==
  /\ First \in Slots /\ Size \in 0 .. N /\ (Taking => Size < N)
  /\ Pending = [i \in 1 .. Size |-> buf[(First + i - 1) % N]]
  /\ Pending \in [1 .. Size -> Typed]
  /\ Pending \in Seq(Typed) /\ Len(Pending) = Size

LEMMA HasShape == IInv /\ TypedInv => Shape
<1> SUFFICES ASSUME IInv, TypedInv PROVE Shape
  OBVIOUS
<1>1. /\ First \in Slots /\ Size \in 0 .. N /\ (Taking => Size < N)
      /\ Pending = [i \in 1 .. Size |-> buf[(First + i - 1) % N]]
      /\ N \in Nat
  BY PendingShape
<1>2. Pending \in [1 .. Size -> Typed]
  BY PendingTyped
<1>3. Pending \in Seq(Typed) /\ Len(Pending) = Size
  <2>1. Size \in Nat
    BY <1>1
  <2>2. QED
    BY <1>2, <2>1, IsSeq
<1>4. QED
  BY <1>1, <1>2, <1>3 DEF Shape

LEMMA HasShapeNext == (IInv /\ TypedInv)' => Shape'
BY HasShape, PTL

------------------------------------------------------------------------------
(* Slots one further.                                                      *)

LEMMA SuccOfSlot ==
  ASSUME NEW f \in Slots, NEW n \in 0 .. N - 1
  PROVE  Succ((f + n) % N) = (f + n + 1) % N
<1> USE RingAssumption DEF N, Slots
<1>1. f + n \in 0 .. 2 * N - 1 /\ f + n + 1 \in 0 .. 2 * N - 1
  OBVIOUS
<1>2. /\ (f + n) % N = (IF f + n < N THEN f + n ELSE f + n - N)
      /\ (f + n) % N \in Slots
  BY <1>1, Around
<1>3. (f + n + 1) % N = IF f + n + 1 < N THEN f + n + 1 ELSE f + n + 1 - N
  BY <1>1, Around
<1>4. Succ((f + n) % N) = IF (f + n) % N = N - 1 THEN 0 ELSE ((f + n) % N) + 1
  BY <1>2, SuccIs
<1>5. QED
  BY <1>2, <1>3, <1>4

LEMMA FromSucc ==
  ASSUME NEW f \in Slots, NEW n \in 1 .. N
  PROVE  (Succ(f) + n - 1) % N = (f + n) % N
<1> USE RingAssumption DEF N, Slots
<1>1. Succ(f) = (IF f = N - 1 THEN 0 ELSE f + 1) /\ Succ(f) \in Slots
  BY SuccIs
<1> DEFINE x == Succ(f) + n - 1
<1>2. x \in 0 .. 2 * N - 1 /\ f + n \in 0 .. 2 * N - 1
  BY <1>1
<1> HIDE DEF x
<1>3. x % N = IF x < N THEN x ELSE x - N
  BY <1>2, Around
<1>4. (f + n) % N = IF f + n < N THEN f + n ELSE f + n - N
  BY <1>2, Around
<1>5. QED
  BY <1>1, <1>3, <1>4 DEF x

LEMMA SlotsDiffer ==
  ASSUME NEW f \in Slots, NEW m \in 0 .. N, NEW n \in 0 .. N, m < n, n - m < N
  PROVE  (f + m) % N # (f + n) % N
<1> USE RingAssumption DEF N, Slots
<1>1. f + m \in 0 .. 2 * N - 1 /\ f + n \in 0 .. 2 * N - 1
  OBVIOUS
<1>2. /\ (f + m) % N = (IF f + m < N THEN f + m ELSE f + m - N)
      /\ (f + n) % N = (IF f + n < N THEN f + n ELSE f + n - N)
  BY <1>1, Around
<1>3. QED
  BY <1>2

LEMMA OwnSlot == ASSUME NEW f \in Slots PROVE f % N = f /\ (f + N) % N = f
<1> USE RingAssumption DEF N, Slots
<1>1. f \in 0 .. 2 * N - 1 /\ f + N \in 0 .. 2 * N - 1
  OBVIOUS
<1>2. f % N = (IF f < N THEN f ELSE f - N)
      /\ (f + N) % N = IF f + N < N THEN f + N ELSE f + N - N
  BY <1>1, Around
<1>3. QED
  BY <1>2

------------------------------------------------------------------------------
(* What every step keeps, disturbed or not.                                *)

LEMMA InitQueue == Init => QueueInv /\ KQ!Init
<1> SUFFICES ASSUME Init PROVE QueueInv /\ KQ!Init
  OBVIOUS
<1>1. IInv /\ TypedInv
  BY InitIInv DEF Init, TypedInv
<1>2. First = 0 /\ Size = 0
  BY DEF Init, First, Size, Taking
<1>3. 0 % N = 0
  BY RingAssumption, OwnSlot DEF Slots, N
<1>4. QueueInv
  BY <1>1, <1>2, <1>3 DEF QueueInv, EndsMeet, Init
<1>5. Pending = << >>
  BY <1>1, <1>2, HasShape, EmptySeq DEF Shape
<1>6. QED
  BY <1>4, <1>5 DEF KQ!Init, Init

LEMMA TypedKept == ASSUME QueueInv, [Next]_vars PROVE TypedInv'
<1>1. CASE \E b \in Bytes : IRQ1(b)
  <2>1. PICK b \in Bytes : IRQ1(b)
    BY <1>1
  <2>2. CASE UNCHANGED <<ring, history>>
    BY <2>2 DEF ring, history, QueueInv, TypedInv
  <2>3. CASE ~ UNCHANGED <<ring, history>>
    <3>1. PICK k : k # NUL /\ pushEvent(k) /\ fresh' = fresh \cup {lastkey}
      BY <2>1, <2>3 DEF IRQ1
    <3>2. buf' = [buf EXCEPT ![lastkey] = k]
      BY <3>1 DEF pushEvent
    <3>3. lastkey \in Slots /\ fresh \subseteq Slots /\ buf \in [Slots -> Byte]
      BY DEF QueueInv, IInv, TypeOK
    <3>4. QED
      BY <3>1, <3>2, <3>3 DEF QueueInv, TypedInv
  <2>4. QED
    BY <2>2, <2>3
<1>2. CASE ClearLast
  BY <1>2 DEF ClearLast, TypedInv
<1>3. CASE UNCHANGED <<buf, fresh>>
  BY <1>3 DEF QueueInv, TypedInv
<1>4. QED
  BY <1>1, <1>2, <1>3 DEF Next, EnterKernel, Reader, GetNextKey,
     ClearKeyboardBuffer, HasNextKey, EnableInterrupts, HandleKey, LoopOrTimeOut,
     DisableInterrupts, ReturnToUser, CheckEmpty, LoadIndex, CopyEvent, LoadNext,
     StoreNext, LoadCount, StoreCount, ClearNext, ClearCount, Quiet, ring,
     history, vars

(* Between hasNextKey and getNextKey nobody takes a key away.              *)
LEMMA StillThere ==
  ASSUME QueueInv, [Next]_vars, pc' = "check" PROVE count' > 0
<1>1. CASE \E b \in Bytes : IRQ1(b)
  <2>1. PICK b \in Bytes : IRQ1(b)
    BY <1>1
  <2>2. pc = "check" /\ count \in 0 .. BUFFER_MAXLENGTH /\ count > 0
    BY <2>1 DEF IRQ1, cpu, QueueInv, IInv, TypeOK
  <2>3. CASE UNCHANGED <<ring, history>>
    BY <2>2, <2>3 DEF ring
  <2>4. CASE ~ UNCHANGED <<ring, history>>
    BY <2>1, <2>2, <2>4 DEF IRQ1, pushEvent
  <2>5. QED
    BY <2>3, <2>4
<1>2. CASE HasNextKey
  BY <1>2 DEF HasNextKey, bufferEmpty, Quiet, ring, QueueInv, IInv, TypeOK
<1>3. CASE UNCHANGED vars
  BY <1>3 DEF vars, ring, cpu, QueueInv
<1>4. CASE \E c \in Clients : EnterKernel(c)
  BY <1>4 DEF EnterKernel
<1>5. QED
  BY <1>1, <1>2, <1>3, <1>4 DEF Next, Reader, GetNextKey,
     ClearKeyboardBuffer, EnableInterrupts, HandleKey, LoopOrTimeOut,
     DisableInterrupts, ReturnToUser, CheckEmpty, LoadIndex, CopyEvent, LoadNext,
     StoreNext, LoadCount, StoreCount, ClearLast, ClearNext, ClearCount, Goto

LEMMA WhenDisturbed ==
  ASSUME (IInv /\ TypedInv)', disturbed'
  PROVE  KQ!Disturbed
<1>1. Pending' \in Seq(Byte \ {NUL})
  BY HasShapeNext DEF Shape, Typed
<1>2. ev' \in Byte
  BY DEF IInv, TypeOK
<1>3. QED
  BY <1>1, <1>2 DEF KQ!Disturbed

------------------------------------------------------------------------------
(* The steps, as long as nothing is disturbed.                             *)

LEMMA PendingStays ==
  ASSUME Shape, Shape', UNCHANGED <<First, Size, buf>> PROVE Pending' = Pending
BY DEF Shape

LEMMA Push ==
  ASSUME QueueInv, (IInv /\ TypedInv)', NEW b \in Byte, IRQ1(b), ~ disturbed'
  PROVE  LET k == KeyOf(b, e0_prefix, shiftPressed, capsLock)
         IN  /\ EndsMeet'
             /\ k = NUL => UNCHANGED KQ!vars
             /\ k # NUL => k \in Typed /\ KQ!Push(k)
<1> DEFINE k == KeyOf(b, e0_prefix, shiftPressed, capsLock)
<1>1. Shape /\ Shape'
  BY HasShape, HasShapeNext DEF QueueInv
<1>2. pc' = pc /\ reg' = reg /\ ev' = ev /\ intr
  BY DEF IRQ1, cpu
<1>3. pc \notin {"clear_last", "clear_next", "clear_count"}
  BY <1>2 DEF QueueInv, IInv, ReaderInv
<1>4. /\ N \in Nat /\ N > 0 /\ 0 \in Slots
      /\ lastkey \in Slots /\ nextkey \in Slots /\ count \in 0 .. N
  BY RingAssumption DEF N, Slots, QueueInv, IInv, TypeOK
<1>5. CASE k = NUL
  <2>1. UNCHANGED <<buf, lastkey, nextkey, count, disturbed>>
    BY <1>5 DEF IRQ1, ring, history
  <2>2. UNCHANGED <<First, Size>>
    BY <1>2, <2>1 DEF First, Size, Taking
  <2>3. Pending' = Pending
    BY <1>1, <2>1, <2>2, PendingStays
  <2>4. EndsMeet'
    BY <1>2, <2>1, <2>2 DEF QueueInv, EndsMeet
  <2>5. QED
    BY <1>2, <1>5, <2>1, <2>3, <2>4 DEF KQ!vars
<1>6. CASE k # NUL
  <2>1. /\ pushEvent(k) /\ ~ disturbed /\ ~ Disturbs /\ k \in Byte \ {NUL}
    BY <1>6, KeyOfType DEF IRQ1, QueueInv, IInv, TypeOK
  <2>1a. disturbed' = disturbed
    <3>1. disturbed \in BOOLEAN /\ disturbed' \in BOOLEAN
      BY DEF QueueInv, IInv, TypeOK
    <3>2. QED
      BY <2>1, <3>1
  <2>2. EndsMeet /\ lastkey = (First + Size) % N
    BY <1>3, <2>1 DEF QueueInv, EndsMeet
  <2>3. buf' = [buf EXCEPT ![lastkey] = k] /\ lastkey' = Succ(lastkey)
        /\ buf \in [Slots -> Byte]
    BY <2>1 DEF pushEvent, QueueInv, IInv, TypeOK
  <2>4. pc # "store_count"
    BY <2>1 DEF Disturbs
  <2>5. CASE ~ bufferFull
    <3>1. nextkey' = nextkey /\ count' = count + 1 /\ count < N
      BY <1>4, <2>1, <2>5 DEF pushEvent, bufferFull, N
    <3>2. First' = First /\ Size' = Size + 1 /\ Size < N /\ Size \in Nat
      BY <1>1, <1>2, <1>3, <1>4, <3>1 DEF First, Size, Taking, Shape
    <3>3. ASSUME NEW i \in 1 .. Size PROVE Pending'[i] = Pending[i]
      <4> DEFINE j == i - 1
      <4>1. j \in 0 .. N /\ Size \in 0 .. N /\ j < Size /\ Size - j < N
            /\ First + i - 1 = First + j
        BY <1>1, <1>4, <3>2 DEF Shape, Slots, N
      <4>2. (First + i - 1) % N # lastkey
        <5> HIDE DEF j
        <5>1. (First + j) % N # (First + Size) % N
          BY <1>1, <3>2, <4>1, SlotsDiffer DEF Shape
        <5>2. QED
          BY <4>1, <5>1, <2>2
      <4>3. Pending'[i] = buf'[(First + i - 1) % N]
        BY <1>1, <3>2 DEF Shape
      <4>4. (First + i - 1) % N \in Slots
        BY PendingFresh DEF QueueInv, IInv, TypeOK
      <4>5. buf'[(First + i - 1) % N] = buf[(First + i - 1) % N]
        BY <2>3, <4>2, <4>4
      <4>6. QED
        BY <1>1, <4>3, <4>5 DEF Shape
    <3>4. Pending'[Size + 1] = k
      <4>1. Pending'[Size + 1] = buf'[(First + (Size + 1) - 1) % N]
        BY <1>1, <3>2 DEF Shape
      <4>2. First + (Size + 1) - 1 = First + Size
        BY <1>1, <3>2 DEF Shape, Slots
      <4>3. QED
        BY <1>4, <2>2, <2>3, <4>1, <4>2
    <3>5. Pending' = Append(Pending, k)
      <4>1. /\ Pending \in [1 .. Size -> Typed]
            /\ Pending' \in [1 .. Size + 1 -> Typed]
        BY <1>1, <3>2 DEF Shape
      <4>2. Pending' = Append(Pending, Pending'[Size + 1])
        BY <3>2, <3>3, <4>1, IsAppend
      <4>3. QED
        BY <3>4, <4>2
    <3>6. Len(Pending) # BUFFER_MAXLENGTH
      BY <1>1, <1>4, <3>2 DEF Shape, N
    <3>7. KQ!Push(k)
      BY <1>2, <2>1a, <3>5, <3>6 DEF KQ!Push
    <3>8. lastkey' = (First + Size + 1) % N
      <4>1. First \in Slots /\ Size \in 0 .. N - 1
        BY <1>1, <1>4, <3>2 DEF Shape
      <4>2. QED
        BY <2>2, <2>3, <4>1, SuccOfSlot
    <3>9. First + Size + 1 = First' + Size'
      BY <1>1, <3>2 DEF Shape, Slots
    <3>10. EndsMeet'
      BY <1>2, <1>3, <2>2, <2>4, <3>1, <3>8, <3>9 DEF EndsMeet
    <3>11. QED
      BY <1>6, <2>1, <3>7, <3>10 DEF Typed
  <2>6. CASE bufferFull
    <3>1. count = N /\ nextkey' = Succ(nextkey) /\ count' = count /\ ~ Taking
          /\ pc \notin {"copy", "load_next", "store_next"}
      BY <2>1, <2>6, <2>4 DEF pushEvent, bufferFull, Disturbs, Taking, N
    <3>2. /\ First = nextkey /\ First' = Succ(First)
          /\ Size = N /\ Size' = N
      BY <1>2, <1>3, <3>1 DEF First, Size, Taking
    <3>3. lastkey = First /\ lastkey' = First'
      BY <1>4, <2>2, <2>3, <3>2, OwnSlot
    <3>4. EndsMeet'
      <4>1. First' \in Slots
        BY <1>1 DEF Shape
      <4>2. lastkey' = (First' + N) % N
        BY <3>3, <4>1, OwnSlot
      <4>3. QED
        BY <1>2, <1>3, <3>1, <2>4, <3>2, <4>2 DEF EndsMeet
    <3> DEFINE n == N - 1
               r == [i \in 1 .. n |-> Pending[i + 1]]
    <3>5. n \in Nat /\ n + 1 = N
      BY <1>4
    <3>6. Pending \in [1 .. n + 1 -> Typed] /\ Pending' \in [1 .. n + 1 -> Typed]
      BY <1>1, <3>2, <3>5 DEF Shape
    <3>7. r \in [1 .. n -> Typed] /\ \A i \in 1 .. n : r[i] = Pending[i + 1]
      BY <3>5, <3>6
    <3>8. ASSUME NEW i \in 1 .. n PROVE Pending'[i] = r[i]
      <4>1. i \in 1 .. N /\ i + 1 \in 1 .. N /\ First \in Slots /\ i < N
        BY <1>1, <3>5 DEF Shape
      <4>2. Pending'[i] = buf'[(First + i) % N]
        <5>1. Pending'[i] = buf'[(First' + i - 1) % N]
          BY <1>1, <3>2, <4>1 DEF Shape
        <5>2. QED
          BY <3>2, <4>1, <5>1, FromSucc
      <4>3. Pending[i + 1] = buf[(First + i) % N]
        <5>1. Pending[i + 1] = buf[(First + (i + 1) - 1) % N]
          BY <1>1, <3>2, <4>1 DEF Shape
        <5>2. First + (i + 1) - 1 = First + i
          BY <4>1 DEF Slots
        <5>3. QED
          BY <5>1, <5>2
      <4>4. (First + i) % N # lastkey
        <5>1. (First + i) % N # (First + N) % N
          BY <4>1, <1>4, SlotsDiffer
        <5>2. QED
          BY <5>1, <2>2, <3>2
      <4>5. (First + i) % N \in Slots
        BY <4>1, <1>4, Around DEF Slots, N
      <4>6. QED
        BY <2>3, <3>7, <4>2, <4>3, <4>4, <4>5
    <3>9. Pending'[n + 1] = k
      <4>1. Pending'[N] = buf'[(First' + N - 1) % N]
        BY <1>1, <1>4, <3>2 DEF Shape
      <4>2. (First' + N - 1) % N = (First + N) % N
        BY <1>1, <1>4, <3>2, FromSucc DEF Shape
      <4>3. QED
        BY <1>4, <2>2, <2>3, <3>2, <3>5, <4>1, <4>2
    <3> HIDE DEF n, r
    <3>10. Pending # << >> /\ r = Tail(Pending)
      BY <3>5, <3>6, <3>7, IsTail
    <3>11. Pending' = Append(r, Pending'[n + 1])
      BY <3>5, <3>6, <3>7, <3>8, IsAppend
    <3>12. Len(Pending) = BUFFER_MAXLENGTH
      BY <1>1, <3>2 DEF Shape, N
    <3>13. KQ!Push(k)
      <4>1. Pending' = Append(Tail(Pending), k)
        BY <3>9, <3>10, <3>11
      <4>2. QED
        BY <1>2, <2>1a, <3>12, <4>1 DEF KQ!Push
    <3>14. QED
      BY <1>6, <2>1, <3>4, <3>13 DEF Typed
  <2>7. QED
    BY <2>5, <2>6
<1>7. QED
  BY <1>5, <1>6

LEMMA Callers ==
  ASSUME QueueInv, (IInv /\ TypedInv)', ~ disturbed',
         \/ \E c \in Clients : EnterKernel(c)
         \/ HasNextKey \/ CheckEmpty \/ EnableInterrupts \/ HandleKey
         \/ LoopOrTimeOut \/ DisableInterrupts \/ ReturnToUser
  PROVE  EndsMeet' /\ UNCHANGED KQ!vars
<1>1. /\ UNCHANGED <<ring, history, reg>>
      /\ pc \notin {"clear_next", "clear_count"} /\ ~ Taking
      /\ pc' \in {"user", "clear_last", "sti", "poll", "check", "load_index",
                  "got", "again", "cli", "iretq"}
  BY DEF EnterKernel, HasNextKey, CheckEmpty, EnableInterrupts, HandleKey,
         LoopOrTimeOut, DisableInterrupts, ReturnToUser, Goto, Quiet, Taking
<1>2. ev' = ev
  BY DEF EnterKernel, HasNextKey, CheckEmpty, EnableInterrupts, HandleKey,
         LoopOrTimeOut, DisableInterrupts, ReturnToUser, QueueInv, bufferEmpty
<1>3. UNCHANGED <<First, Size, buf, disturbed>>
  BY <1>1 DEF First, Size, Taking, ring, history
<1>4. Pending' = Pending
  BY <1>3, HasShape, HasShapeNext, PendingStays DEF QueueInv
<1>5. EndsMeet'
  BY <1>1, <1>3 DEF QueueInv, EndsMeet, ring
<1>6. QED
  BY <1>2, <1>3, <1>4, <1>5 DEF KQ!vars

LEMMA Clears ==
  ASSUME QueueInv, (IInv /\ TypedInv)', ~ disturbed', ClearKeyboardBuffer
  PROVE  EndsMeet' /\ IF pc = "clear_last" THEN KQ!Clear ELSE UNCHANGED KQ!vars
<1>1. Shape /\ Shape'
  BY HasShape, HasShapeNext DEF QueueInv
<1>2. 0 % N = 0
  BY RingAssumption, OwnSlot DEF Slots, N
<1>3. Size' = 0 => Pending' = << >>
  BY <1>1, EmptySeq DEF Shape
<1>4. CASE ClearLast
  <2>1. Size' = 0 /\ ev' = ev /\ disturbed' = FALSE
    BY <1>4 DEF ClearLast, Goto, Size
  <2>2. EndsMeet'
    BY <1>4 DEF ClearLast, Goto, EndsMeet
  <2>3. KQ!Clear
    BY <1>3, <2>1 DEF KQ!Clear
  <2>4. QED
    BY <1>4, <2>2, <2>3 DEF ClearLast, Goto
<1>5. CASE ClearNext \/ ClearCount
  <2>1. Size = 0 /\ Size' = 0 /\ ev' = ev /\ disturbed' = disturbed
    BY <1>5 DEF ClearNext, ClearCount, Goto, Size, Taking, history
  <2>2. Pending = << >>
    BY <1>1, <2>1, EmptySeq DEF Shape
  <2>3. EndsMeet'
    <3>1. CASE ClearNext
      BY <3>1, <2>1 DEF ClearNext, Goto, QueueInv, EndsMeet
    <3>2. CASE ClearCount
      <4>1. First' = 0 /\ lastkey' = 0 /\ pc' = "sti"
        BY <3>2, <2>1 DEF ClearCount, Goto, QueueInv, EndsMeet, First
      <4>2. QED
        BY <1>2, <2>1, <4>1 DEF EndsMeet
    <3>3. QED
      BY <1>5, <3>1, <3>2
  <2>4. QED
    BY <1>3, <1>5, <2>1, <2>2, <2>3 DEF KQ!vars, ClearNext, ClearCount, Goto
<1>6. QED
  BY <1>4, <1>5 DEF ClearKeyboardBuffer

LEMMA Copies ==
  ASSUME QueueInv, (IInv /\ TypedInv)', ~ disturbed', CopyEvent
  PROVE  EndsMeet' /\ KQ!Take
<1>1. Shape /\ Shape'
  BY HasShape, HasShapeNext DEF QueueInv
<1>2. /\ N \in Nat /\ N > 0 /\ nextkey \in Slots /\ count \in 1 .. N
      /\ pc = "copy" /\ pc' = "load_next"
  BY RingAssumption DEF N, QueueInv, IInv, TypeOK, ReaderInv, CopyEvent, Goto
<1>3. UNCHANGED <<buf, lastkey, nextkey, count, disturbed>> /\ ev' = buf[reg]
  BY DEF CopyEvent, Quiet, ring, history
<1>4. EndsMeet /\ reg = nextkey /\ lastkey = (First + Size) % N
  BY <1>2, <1>3 DEF QueueInv, EndsMeet
<1>5. /\ First = nextkey /\ First' = Succ(First)
      /\ Size = count /\ Size' = Size - 1
  BY <1>2, <1>3 DEF First, Size, Taking
<1> DEFINE n == Size - 1
<1>6. n \in Nat /\ n + 1 = Size /\ Size' = n /\ n < N /\ First \in Slots
  BY <1>2, <1>5
<1>7. ASSUME NEW i \in 1 .. n PROVE Pending'[i] = Pending[i + 1]
  <2>1. i \in 1 .. N /\ i + 1 \in 1 .. Size /\ i \in 1 .. Size'
    BY <1>2, <1>6
  <2>2. Pending'[i] = buf[(First + i) % N]
    <3>1. Pending'[i] = buf[(First' + i - 1) % N]
      BY <1>1, <1>3, <2>1 DEF Shape
    <3>2. QED
      BY <1>5, <1>6, <2>1, <3>1, FromSucc
  <2>3. Pending[i + 1] = buf[(First + i) % N]
    <3>1. Pending[i + 1] = buf[(First + (i + 1) - 1) % N]
      BY <1>1, <2>1 DEF Shape
    <3>2. First + (i + 1) - 1 = First + i
      BY <1>6 DEF Slots
    <3>3. QED
      BY <3>1, <3>2
  <2>4. QED
    BY <2>2, <2>3
<1>8. Pending \in [1 .. n + 1 -> Typed] /\ Pending' \in [1 .. n -> Typed]
  BY <1>1, <1>6 DEF Shape
<1>9. Pending[1] = buf[reg]
  <2>1. Pending[1] = buf[(First + 1 - 1) % N]
    BY <1>1, <1>6 DEF Shape
  <2>2. First + 1 - 1 = First /\ First % N = First
    BY <1>6, OwnSlot DEF Slots
  <2>3. QED
    BY <1>4, <1>5, <2>1, <2>2
<1>10. (First' + Size') % N = (First + Size) % N
  <2>1. (Succ(First) + Size - 1) % N = (First + Size) % N
    BY <1>2, <1>5, <1>6, FromSucc
  <2>2. Succ(First) + Size - 1 = First' + Size'
    BY <1>1, <1>2, <1>5 DEF Shape, Slots
  <2>3. QED
    BY <2>1, <2>2
<1> HIDE DEF n
<1>11. Pending # << >> /\ Pending' = Tail(Pending) /\ Pending[1] = Head(Pending)
  BY <1>6, <1>7, <1>8, IsTail
<1>12. KQ!Take
  BY <1>3, <1>9, <1>11 DEF KQ!Take
<1>13. EndsMeet'
  BY <1>2, <1>3, <1>4, <1>10 DEF EndsMeet
<1>14. QED
  BY <1>12, <1>13

LEMMA Takes ==
  ASSUME QueueInv, (IInv /\ TypedInv)', ~ disturbed',
         LoadIndex \/ LoadNext \/ StoreNext \/ LoadCount \/ StoreCount
  PROVE  EndsMeet' /\ UNCHANGED KQ!vars
<1>1. Shape /\ Shape'
  BY HasShape, HasShapeNext DEF QueueInv
<1>2. /\ UNCHANGED <<buf, lastkey, disturbed, ev>>
      /\ pc \notin {"clear_next", "clear_count"}
      /\ pc' \in {"copy", "store_next", "load_count", "store_count", "got"}
  BY DEF LoadIndex, LoadNext, StoreNext, LoadCount, StoreCount, Goto, Quiet,
         ring, history
<1>3. EndsMeet /\ lastkey = (First + Size) % N
  BY <1>2 DEF QueueInv, EndsMeet
<1>4. nextkey \in Slots /\ count \in Nat
  BY RingAssumption DEF QueueInv, IInv, TypeOK
<1>5. UNCHANGED <<First, Size>> /\ (pc' \in {"copy", "store_next"} => reg' = nextkey')
      /\ (pc' = "store_count" => reg' = count')
  <2>1. CASE LoadIndex \/ LoadNext \/ LoadCount
    BY <2>1 DEF LoadIndex, LoadNext, LoadCount, Goto, Quiet, ring, First, Size, Taking
  <2>2. CASE StoreNext
    BY <2>2, <1>3 DEF StoreNext, Goto, EndsMeet, First, Size, Taking
  <2>3. CASE StoreCount
    BY <2>3, <1>3, <1>4 DEF StoreCount, Goto, EndsMeet, First, Size, Taking
  <2>4. QED
    BY <2>1, <2>2, <2>3
<1>6. Pending' = Pending
  BY <1>1, <1>2, <1>5, PendingStays
<1>7. EndsMeet'
  BY <1>2, <1>3, <1>5 DEF EndsMeet
<1>8. QED
  BY <1>2, <1>6, <1>7 DEF KQ!vars

------------------------------------------------------------------------------
LEMMA QueueStep ==
  QueueInv /\ [Next]_vars => QueueInv' /\ [KQ!Next]_(KQ!vars)
<1> SUFFICES ASSUME QueueInv, [Next]_vars
             PROVE  QueueInv' /\ [KQ!Next]_(KQ!vars)
  OBVIOUS
<1>1. (IInv /\ TypedInv)' /\ (pc' = "check" => count' > 0)
  BY NextKeepsIInv, TypedKept, StillThere DEF QueueInv
<1>2. CASE disturbed'
  BY <1>1, <1>2, WhenDisturbed DEF QueueInv, KQ!Next
<1>3. CASE ~ disturbed'
  <2>1. EndsMeet' /\ [KQ!Next]_(KQ!vars)
    <3>1. ASSUME NEW b \in Bytes, IRQ1(b) PROVE EndsMeet' /\ [KQ!Next]_(KQ!vars)
      BY <1>1, <1>3, <3>1, BytesAssumption, Push DEF KQ!Next, Typed
    <3>2. CASE (\E c \in Clients : EnterKernel(c)) \/ Reader
      BY <1>1, <1>3, <3>2, Callers, Clears, Copies, Takes DEF Reader, GetNextKey, KQ!Next
    <3>3. CASE UNCHANGED vars
      <4>1. UNCHANGED <<First, Size, buf, ev, disturbed>>
        BY <3>3 DEF vars, ring, cpu, history, First, Size, Taking
      <4>2. Pending' = Pending
        BY <1>1, <4>1, HasShape, HasShapeNext, PendingStays DEF QueueInv
      <4>3. EndsMeet'
        BY <1>3, <3>3, <4>1 DEF vars, ring, cpu, QueueInv, EndsMeet
      <4>4. QED
        BY <4>1, <4>2, <4>3 DEF KQ!vars
    <3>4. QED
      BY <3>1, <3>2, <3>3 DEF Next
  <2>2. QED
    BY <1>1, <2>1 DEF QueueInv
<1>4. QED
  BY <1>2, <1>3

(* For a ring of any length and any set of bytes: keys come out in the     *)
(* order in which they were typed, none is lost but the oldest of a full   *)
(* ring, until a read is disturbed and again after the next clear          *)
(* (keyboard_handler.c).                                                   *)
THEOREM RingImplementsQueue == Spec => ImplementsQueue
BY InitQueue, QueueStep, PTL DEF Spec, ImplementsQueue, KQ!Spec
==============================================================================

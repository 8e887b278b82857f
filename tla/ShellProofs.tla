----------------------------- MODULE ShellProofs -----------------------------
(***************************************************************************)
(* The stack and the register snapshot of the shell, for snapshots of any  *)
(* length, any depths of the faulting commands and any typed lines; and    *)
(* what the shell makes of a line, for every line and any room for         *)
(* arguments.  The second part is mostly about the functions of            *)
(* CommandLookup: the searches and the scans end, and where.               *)
(***************************************************************************)
EXTENDS Shell, FiniteSetTheorems, SequenceTheorems, WellFoundedInduction, TLAPS

Places == {"start", "prompt", "dispatch", "command", "exception", "update",
           "print", "wait", "copy", "copied", "off"}

InException == pc \in {"exception", "update", "print", "wait"}

TypeOK ==
  /\ pc \in Places /\ interrupts \in BOOLEAN
  /\ sp \in Nat /\ initial_userland_rsp \in Nat \cup {None}
  /\ frame \in Nat /\ captures \in Nat /\ word \in Words
  /\ savedRegisters \in [Words -> Nat] /\ shown \in [Words -> Nat]
  /\ regsSaved \in BOOLEAN

(* The stack stands where the first exception left it, but for the command *)
(* that has just faulted.                                                  *)
StackInv ==
  /\ initial_userland_rsp = None =>
       sp = 0 \/ (pc = "exception" /\ sp <= MaxDepth)
  /\ initial_userland_rsp # None =>
       /\ initial_userland_rsp <= MaxDepth
       /\ sp <= 2 * MaxDepth
       /\ ~ InException => sp = initial_userland_rsp
  /\ pc \in {"update", "print", "wait"} => initial_userland_rsp # None

Taken(k) == IF k = 0 THEN ~ regsSaved
            ELSE regsSaved /\ savedRegisters = [i \in Words |-> k]

(* The snapshot is that of the latest capture, except while the handler of *)
(* an exception, which nothing interrupts, is copying it.                  *)
SnapshotInv ==
  /\ pc \notin {"exception", "update"} => Taken(captures)
  /\ pc \in {"exception", "update", "print"} =>
       ~ interrupts /\ frame = captures /\ captures # 0
  /\ pc = "update" => \A i \in Words : i < word => savedRegisters[i] = frame
  /\ pc = "print"  => \A i \in Words : i < word => shown[i] = frame
  /\ pc \in {"copy", "copied"} => ~ interrupts
  /\ pc = "copy" =>
       regsSaved /\ \A i \in Words : i < word => shown[i] = captures

Inv == TypeOK /\ StackInv /\ SnapshotInv /\ SnapshotIsLatest

------------------------------------------------------------------------------
LEMMA FirstWord == 0 \in Words
BY ShellAssumption DEF Words

LEMMA NextWordTyped == ASSUME word \in Words PROVE NextWord \in Words
BY ShellAssumption DEF Words, NextWord

(* A loop that has done its last word has done them all.                   *)
LEMMA AllWords ==
  ASSUME NEW f \in [Words -> Nat], NEW k \in Nat, word = RegCount - 1,
         \A i \in Words : i <= word => f[i] = k
  PROVE  f = [i \in Words |-> k]
<1>1. \A i \in Words : i <= word
  BY ShellAssumption DEF Words
<1>2. \A i \in Words : f[i] = k
  BY <1>1
<1>3. QED
  BY <1>2

LEMMA InitInv == Init => Inv
<1> SUFFICES ASSUME Init PROVE Inv
  OBVIOUS
<1> USE ShellAssumption DEF Init
<1>1. TypeOK
  BY DEF TypeOK, Places, Words, None
<1>2. StackInv
  BY DEF StackInv
<1>3. SnapshotInv
  BY DEF SnapshotInv, Taken
<1>4. SnapshotIsLatest
  BY DEF SnapshotIsLatest
<1>5. QED
  BY <1>1, <1>2, <1>3, <1>4 DEF Inv

(* The steps that do not touch what the invariant speaks of.               *)
LEMMA PlainSteps ==
  ASSUME Inv, Start \/ Read \/ cr_dispatch_exact \/ Command
  PROVE  Inv'
<1> USE DEF Inv, stack, saved
<1>1. /\ pc \in {"start", "prompt", "dispatch", "command"}
      /\ pc' \in {"prompt", "dispatch", "command", "off"}
      /\ UNCHANGED <<interrupts, sp, initial_userland_rsp, frame,
                     savedRegisters, regsSaved, captures, word, shown>>
  BY DEF Start, Read, cr_dispatch_exact, Command
<1>2. TypeOK'
  BY <1>1 DEF TypeOK, Places
<1>3. StackInv'
  BY <1>1 DEF StackInv, InException
<1>4. SnapshotInv'
  BY <1>1 DEF SnapshotInv, Taken
<1>5. SnapshotIsLatest'
  BY <1>1 DEF SnapshotIsLatest
<1>6. QED
  BY <1>2, <1>3, <1>4, <1>5

LEMMA ShiftTabStep == ASSUME Inv, ShiftTab PROVE Inv'
<1> USE DEF Inv, ShiftTab, stack, parser
<1>1. TypeOK'
  <2>1. captures' \in Nat
    BY DEF TypeOK
  <2>2. savedRegisters' \in [Words -> Nat]
    BY <2>1
  <2>3. QED
    BY <2>1, <2>2 DEF TypeOK
<1>2. StackInv'
  BY DEF StackInv, InException
<1>3. captures' # 0
  BY DEF TypeOK
<1>4. SnapshotInv'
  BY <1>3 DEF SnapshotInv, Taken
<1>5. SnapshotIsLatest'
  BY DEF SnapshotIsLatest, SnapshotInv
<1>6. QED
  BY <1>1, <1>2, <1>4, <1>5

LEMMA ThrowStep == ASSUME Inv, Throw PROVE Inv'
<1> USE DEF Inv, Throw
<1>1. Depth[Function] \in 1 .. MaxDepth /\ MaxDepth \in Nat
  BY ShellAssumption
<1>2. TypeOK'
  <2>1. sp' \in Nat
    BY <1>1 DEF TypeOK
  <2>2. frame' \in Nat /\ captures' \in Nat
    BY DEF TypeOK
  <2>3. pc' \in Places /\ interrupts' \in BOOLEAN
    BY DEF Places, ThroughGate
  <2>4. QED
    BY <2>1, <2>2, <2>3 DEF TypeOK
<1>3. StackInv'
  BY <1>1 DEF TypeOK, StackInv, InException, None
<1>4. SnapshotInv'
  BY DEF TypeOK, SnapshotInv, ThroughGate
<1>5. SnapshotIsLatest'
  BY DEF SnapshotIsLatest
<1>6. QED
  BY <1>2, <1>3, <1>4, <1>5

LEMMA HandleStep == ASSUME Inv, HandleException PROVE Inv'
<1> USE DEF Inv, HandleException, parser, saved
<1>1. TypeOK'
  BY FirstWord DEF TypeOK, Places, SavedRsp
<1>2. StackInv'
  BY ShellAssumption DEF TypeOK, StackInv, InException, SavedRsp, None
<1>3. SnapshotInv'
  BY DEF SnapshotInv, Words
<1>4. SnapshotIsLatest'
  BY DEF SnapshotIsLatest
<1>5. QED
  BY <1>1, <1>2, <1>3, <1>4

LEMMA UpdateStep == ASSUME Inv, UpdateRegs PROVE Inv'
<1> USE DEF Inv, UpdateRegs, updateRegs, parser, stack
<1>1. TypeOK'
  BY NextWordTyped DEF TypeOK, Places
<1>2. StackInv'
  BY DEF StackInv, InException
<1>3. \A i \in Words : i <= word => savedRegisters'[i] = frame
  BY DEF TypeOK, SnapshotInv, Words
<1>4. SnapshotInv'
  <2>1. CASE word = RegCount - 1
    <3>1. savedRegisters' = [i \in Words |-> captures]
      <4>1. captures \in Nat /\ frame = captures
        BY DEF TypeOK, SnapshotInv
      <4>2. savedRegisters' \in [Words -> Nat]
        BY <1>1 DEF TypeOK
      <4>3. QED
        BY <1>3, <2>1, <4>1, <4>2, AllWords
    <3>2. pc' = "print" /\ regsSaved' /\ word' = 0
      <4>1. pc' = "print" /\ regsSaved'
        BY <2>1
      <4>2. NextWord = 0
        BY <2>1, ShellAssumption DEF NextWord
      <4>3. QED
        BY <4>1, <4>2
    <3>3. Taken(captures)'
      BY <3>1, <3>2 DEF Taken, SnapshotInv
    <3>4. QED
      BY <3>2, <3>3 DEF SnapshotInv, Words
  <2>2. CASE word # RegCount - 1
    <3>1. word' = word + 1 /\ pc' = "update"
      BY <2>2, ShellAssumption DEF TypeOK, Words, NextWord
    <3>2. QED
      BY <3>1, <1>3 DEF SnapshotInv, TypeOK, Words
  <2>3. QED
    BY <2>1, <2>2
<1>5. SnapshotIsLatest'
  BY DEF SnapshotIsLatest
<1>6. QED
  BY <1>1, <1>2, <1>4, <1>5

LEMMA PrintStep == ASSUME Inv, PrintRegisters PROVE Inv'
<1> USE DEF Inv, PrintRegisters, parser, stack, saved
<1>1. TypeOK'
  BY NextWordTyped DEF TypeOK, Places
<1>2. StackInv'
  BY DEF StackInv, InException
<1>3. savedRegisters[word] = frame
  BY DEF TypeOK, SnapshotInv, Taken
<1>4. \A i \in Words : i <= word => shown'[i] = frame
  BY <1>3 DEF TypeOK, SnapshotInv, Words
<1>5. SnapshotInv'
  <2>1. CASE word = RegCount - 1
    BY <2>1 DEF SnapshotInv, Taken
  <2>2. CASE word # RegCount - 1
    <3>1. word' = word + 1 /\ pc' = "print"
      BY <2>2, ShellAssumption DEF TypeOK, Words, NextWord
    <3>2. QED
      BY <3>1, <1>4 DEF SnapshotInv, Taken, TypeOK, Words
  <2>3. QED
    BY <2>1, <2>2
<1>6. SnapshotIsLatest'
  <2>1. CASE word = RegCount - 1
    <3>1. shown' = [i \in Words |-> frame]
      <4>1. frame \in Nat /\ shown' \in [Words -> Nat]
        BY <1>1 DEF TypeOK
      <4>2. QED
        BY <2>1, <1>4, <4>1, AllWords
    <3>2. QED
      BY <2>1, <3>1 DEF SnapshotIsLatest
  <2>2. CASE word # RegCount - 1
    BY <2>2 DEF SnapshotIsLatest
  <2>3. QED
    BY <2>1, <2>2
<1>7. QED
  BY <1>1, <1>2, <1>5, <1>6

LEMMA WaitSteps == ASSUME Inv, WaitForEnter \/ PressEnter PROVE Inv'
<1> USE DEF Inv, WaitForEnter, PressEnter, parser, stack, saved
<1>1. initial_userland_rsp # None
  BY ShellAssumption DEF SnapshotInv, StackInv, TypeOK
<1>2. TypeOK'
  <2>1. CASE WaitForEnter
    BY <2>1 DEF TypeOK
  <2>2. CASE PressEnter
    BY <2>2, <1>1 DEF TypeOK, Places
  <2>3. QED
    BY <2>1, <2>2
<1>3. StackInv'
  BY <1>1, ShellAssumption DEF TypeOK, StackInv, InException
<1>4. SnapshotInv'
  BY DEF SnapshotInv, Taken
<1>5. SnapshotIsLatest'
  BY DEF SnapshotIsLatest
<1>6. QED
  BY <1>2, <1>3, <1>4, <1>5

LEMMA CopyStep == ASSUME Inv, CopyWord PROVE Inv'
<1> USE DEF Inv, CopyWord, parser, stack, saved
<1>1. TypeOK'
  BY NextWordTyped DEF TypeOK, Places
<1>2. StackInv'
  BY DEF StackInv, InException
<1>3. captures # 0 /\ savedRegisters[word] = captures
  BY DEF TypeOK, SnapshotInv, Taken
<1>4. \A i \in Words : i <= word => shown'[i] = captures
  BY <1>3 DEF TypeOK, SnapshotInv, Words
<1>5. SnapshotInv'
  <2>1. CASE word = RegCount - 1
    BY <2>1 DEF SnapshotInv, Taken
  <2>2. CASE word # RegCount - 1
    <3>1. word' = word + 1 /\ pc' = "copy"
      BY <2>2, ShellAssumption DEF TypeOK, Words, NextWord
    <3>2. QED
      BY <3>1, <1>4 DEF SnapshotInv, Taken, TypeOK, Words
  <2>3. QED
    BY <2>1, <2>2
<1>6. SnapshotIsLatest'
  <2>1. CASE word = RegCount - 1
    <3>1. shown' = [i \in Words |-> captures]
      <4>1. captures \in Nat /\ shown' \in [Words -> Nat]
        BY <1>1 DEF TypeOK
      <4>2. QED
        BY <2>1, <1>4, <4>1, AllWords
    <3>2. QED
      BY <2>1, <3>1, <1>3 DEF SnapshotIsLatest, SnapshotInv
  <2>2. CASE word # RegCount - 1
    BY <2>2 DEF SnapshotIsLatest
  <2>3. QED
    BY <2>1, <2>2
<1>7. QED
  BY <1>1, <1>2, <1>5, <1>6

LEMMA RegistersSteps == ASSUME Inv, Registers \/ PrintCopy PROVE Inv'
<1> USE DEF Inv, Registers, PrintCopy, parser, stack, saved
<1>1. TypeOK'
  <2>1. CASE Registers
    BY <2>1, FirstWord DEF TypeOK, Places, ThroughGate
  <2>2. CASE PrintCopy
    BY <2>2 DEF TypeOK, Places
  <2>3. QED
    BY <2>1, <2>2
<1>2. StackInv'
  BY DEF StackInv, InException
<1>3. SnapshotInv'
  BY DEF SnapshotInv, Taken, ThroughGate, Words
<1>4. SnapshotIsLatest'
  BY DEF SnapshotIsLatest, SnapshotInv, Taken
<1>5. QED
  BY <1>1, <1>2, <1>3, <1>4

LEMMA StepInv == Inv /\ [Next]_vars => Inv'
<1> SUFFICES ASSUME Inv, [Next]_vars PROVE Inv'
  OBVIOUS
<1>1. CASE Start \/ Read \/ cr_dispatch_exact \/ Command
  BY <1>1, PlainSteps
<1>2. CASE Exception
  BY <1>2, ThrowStep, HandleStep, UpdateStep, PrintStep, WaitSteps DEF Exception
<1>3. CASE Snapshot
  BY <1>3, RegistersSteps, CopyStep DEF Snapshot
<1>4. CASE ShiftTab
  BY <1>4, ShiftTabStep
<1>5. CASE UNCHANGED vars
  BY <1>5 DEF vars, stack, saved, Inv, TypeOK, StackInv, InException,
              SnapshotInv, Taken, SnapshotIsLatest
<1>6. QED
  BY <1>1, <1>2, <1>3, <1>4, <1>5 DEF Next

(* All of the invariant that the results below rest on.                    *)
THEOREM InductiveInvariant == Spec => []Inv
BY InitInv, StepInv, PTL DEF Spec

(* However many exceptions the commands raise, the stack of the shell      *)
(* stays within two of their depths (handle_exception).                    *)
THEOREM StackStaysBounded == Spec => []StackBounded
<1>1. Inv => StackBounded
  BY ShellAssumption DEF Inv, TypeOK, StackInv, StackBounded, None
<1>2. QED
  BY <1>1, InductiveInvariant, PTL

(* Exception screens and `registers` show whole and current snapshots,     *)
(* wherever Shift+Tab comes in between (exceptions.c, keyboard_handler.c). *)
THEOREM SnapshotsAreLatest == Spec => []SnapshotIsLatest
<1>1. Inv => SnapshotIsLatest
  BY DEF Inv
<1>2. QED
  BY <1>1, InductiveInvariant, PTL

------------------------------------------------------------------------------
(* Induction and recursion over an interval of numbers.                    *)

\* Every set of numbers that is not empty has a least one.
LEMMA LeastNumber ==
  ASSUME NEW T \in SUBSET Nat, T # {}
  PROVE  \E m \in T : \A n \in T : m <= n
<1> DEFINE R == OpToRel(<, Nat)
<1>1. IsWellFoundedOn(R, Nat)
  BY NatLessThanWellFounded
<1> HIDE DEF R
<1>2. PICK m \in T : \A n \in T : <<n, m>> \notin R
  BY <1>1, WFMin
<1>3. \A n \in T : ~(n < m)
  BY <1>2 DEF R, OpToRel
<1>4. QED
  BY <1>3

\* Induction up to n, for a set of numbers.
LEMMA UpTo ==
  ASSUME NEW T, NEW n \in Nat, 0 \in T,
         \A i \in 1 .. n : i - 1 \in T => i \in T
  PROVE  \A i \in 0 .. n : i \in T
<1> DEFINE U == {i \in 0 .. n : i \notin T}
<1>1. SUFFICES ASSUME U # {} PROVE FALSE
  OBVIOUS
<1>2. PICK m \in U : \A i \in U : m <= i
  <2>1. U \in SUBSET Nat
    OBVIOUS
  <2>2. QED
    BY <1>1, <2>1, LeastNumber
<1>3. m \in 1 .. n
  BY <1>2
<1>4. m - 1 \in T
  BY <1>2, <1>3
<1>5. QED
  BY <1>2, <1>3, <1>4

(* Recursions over 0 .. n: F maps a number and the value before it to the  *)
(* value, and all of them are in S.                                        *)
MapsWithin(F, n, a, S) == n \in Nat /\ a \in S /\ F \in [1 .. n -> [S -> S]]

Follows(g, F, n, a, S) ==
  g \in [0 .. n -> S] /\ g[0] = a /\ \A i \in 1 .. n : g[i] = F[i][g[i - 1]]

\* Such a recursion has a solution.
LEMMA Recursion ==
  ASSUME NEW F, NEW n, NEW a, NEW S, MapsWithin(F, n, a, S)
  PROVE  \E g : Follows(g, F, n, a, S)
<1> USE DEF MapsWithin, Follows
<1> DEFINE Good(m, g) == /\ g \in [0 .. m -> S] /\ g[0] = a
                         /\ \A i \in 1 .. m : g[i] = F[i][g[i - 1]]
           T == {m \in 0 .. n : \E g : Good(m, g)}
<1>1. 0 \in T
  <2> DEFINE g == [i \in 0 .. 0 |-> a]
  <2>1. g \in [0 .. 0 -> S] /\ g[0] = a
    OBVIOUS
  <2> HIDE DEF g
  <2>2. Good(0, g)
    BY <2>1
  <2>3. QED
    BY <2>2
<1>2. ASSUME NEW m \in 1 .. n, m - 1 \in T PROVE m \in T
  <2>1. PICK g : Good(m - 1, g)
    BY <1>2
  <2> DEFINE v == F[m][g[m - 1]]
             h == [i \in 0 .. m |-> IF i = m THEN v ELSE g[i]]
  <2>2. m - 1 \in 0 .. m - 1 /\ m \in Nat
    OBVIOUS
  <2>3. v \in S
    BY <2>1, <2>2
  <2> HIDE DEF v
  <2>4. h \in [0 .. m -> S]
    BY <2>1, <2>2, <2>3
  <2>5. h[0] = a /\ h[m] = v /\ \A i \in 0 .. m - 1 : h[i] = g[i]
    BY <2>1, <2>2
  <2>6. h[m] = F[m][h[m - 1]]
    <3>1. h[m - 1] = g[m - 1]
      BY <2>2, <2>5
    <3>2. QED
      BY <2>5, <3>1 DEF v
  <2> HIDE DEF h
  <2>7. \A i \in 1 .. m : h[i] = F[i][h[i - 1]]
    <3>1. TAKE i \in 1 .. m
    <3>2. CASE i = m
      BY <2>6, <3>2
    <3>3. CASE i # m
      <4>1. i \in 1 .. m - 1 /\ i \in 0 .. m - 1 /\ i - 1 \in 0 .. m - 1
        BY <3>3
      <4>2. QED
        BY <2>1, <2>5, <4>1
    <3>4. QED
      BY <3>2, <3>3
  <2>8. Good(m, h)
    BY <2>4, <2>5, <2>7
  <2> HIDE DEF Good, h
  <2>9. QED
    BY <2>8
<1> HIDE DEF T
<1>3. n \in T
  <2>1. \A i \in 0 .. n : i \in T
    BY <1>1, <1>2, UpTo
  <2>2. QED
    BY <2>1
<1>4. QED
  BY <1>3 DEF T

------------------------------------------------------------------------------
(* The binary searches.                                                    *)

LEMMA SixteenCommands == Len(COMMANDS) = 16 /\ Positions = 0 .. 15
<1>1. Len(COMMANDS) = 16
  BY DEF COMMANDS
<1>2. QED
  BY <1>1 DEF Positions

\* Ranges that the search for the place k may have, and the one after a round.
Around(k) == {r \in Nat \X Nat : r[1] <= k /\ k <= r[2] /\ r[2] <= 16}

LEMMA HalveKeeps ==
  ASSUME NEW k \in 0 .. 16, NEW behind, NEW r \in Around(k),
         \A i \in 0 .. 15 : i \in behind <=> i < k
  PROVE  /\ Halve(r, behind) \in Around(k)
         /\ r[1] = r[2] => Halve(r, behind) = r
         /\ r[1] < r[2] =>
              Halve(r, behind)[2] - Halve(r, behind)[1] < r[2] - r[1]
<1> DEFINE lo  == r[1]
           hi  == r[2]
           mid == lo + (hi - lo) \div 2
<1>1. r = <<lo, hi>> /\ lo \in Nat /\ hi \in Nat /\ lo <= k /\ k <= hi /\ hi <= 16
  BY DEF Around
<1>2. CASE lo >= hi
  <2>1. Halve(r, behind) = r
    BY <1>2 DEF Halve
  <2>2. QED
    BY <1>1, <1>2, <2>1
<1>3. CASE lo < hi
  <2>1. mid \in Nat /\ lo <= mid /\ mid < hi
    BY <1>1, <1>3
  <2>2. Halve(r, behind) = IF mid \in behind THEN <<mid + 1, hi>> ELSE <<lo, mid>>
    BY <1>1, <1>3 DEF Halve
  <2> HIDE DEF mid
  <2>3. mid \in behind <=> mid < k
    BY <1>1, <2>1
  <2>4. CASE mid < k
    BY <1>1, <1>3, <2>1, <2>2, <2>3, <2>4 DEF Around
  <2>5. CASE ~(mid < k)
    BY <1>1, <1>3, <2>1, <2>2, <2>3, <2>5 DEF Around
  <2>6. QED
    BY <2>1, <2>4, <2>5
<1>4. QED
  BY <1>1, <1>2, <1>3

\* A search ends at the number of places that it leaves behind.
LEMMA BoundIs ==
  ASSUME NEW k \in 0 .. 16, NEW behind,
         \A i \in 0 .. 15 : i \in behind <=> i < k
  PROVE  Bound(behind) = k
<1> DEFINE S == Around(k)
           F == [i \in 1 .. 16 |-> [v \in S |-> Halve(v, behind)]]
           a == <<0, 16>>
<1>1. a \in S
  BY DEF Around
<1>2. /\ F \in [1 .. 16 -> [S -> S]]
      /\ \A i \in 1 .. 16, v \in S : F[i][v] = Halve(v, behind)
  <2>1. \A v \in S : Halve(v, behind) \in S
    BY HalveKeeps
  <2> HIDE DEF S
  <2>2. QED
    BY <2>1
<1> HIDE DEF F, S, a
<1>3. PICK g : Follows(g, F, 16, a, S)
  <2>1. MapsWithin(F, 16, a, S)
    BY <1>1, <1>2 DEF MapsWithin
  <2>2. QED
    BY <2>1, Recursion
<1> DEFINE IsAfter(f) ==
             f = [n \in 0 .. Len(COMMANDS) |-> IF n = 0 THEN <<0, Len(COMMANDS)>>
                                               ELSE Halve(f[n - 1], behind)]
           after == CHOOSE f : IsAfter(f)
<1>4. IsAfter(g)
  <2>1. \A n \in 0 .. 16 : g[n] = IF n = 0 THEN <<0, 16>> ELSE Halve(g[n - 1], behind)
    <3>1. TAKE n \in 0 .. 16
    <3>2. CASE n = 0
      BY <1>3, <3>2 DEF a, Follows
    <3>3. CASE n # 0
      <4>1. n \in 1 .. 16 /\ n - 1 \in 0 .. 16
        BY <3>3
      <4>2. g[n - 1] \in S
        BY <1>3, <4>1 DEF Follows
      <4>3. QED
        BY <1>2, <1>3, <3>3, <4>1, <4>2 DEF Follows
    <3>4. QED
      BY <3>2, <3>3
  <2>2. g = [n \in 0 .. 16 |-> g[n]]
    BY <1>3 DEF Follows
  <2>3. QED
    BY <2>1, <2>2, SixteenCommands
<1>5. IsAfter(after)
  BY <1>4
<1>6. Bound(behind) = after[16][1]
  BY SixteenCommands DEF Bound
<1> HIDE DEF after
<1>7. /\ after[0] = <<0, 16>>
      /\ \A n \in 1 .. 16 : after[n] = Halve(after[n - 1], behind)
  BY <1>5, SixteenCommands
<1> DEFINE T == {n \in 0 .. 16 : after[n] \in S /\ after[n][2] - after[n][1] <= 16 - n}
<1>8. 0 \in T
  <2>1. after[0] \in S
    BY <1>1, <1>7 DEF a
  <2>2. QED
    BY <1>7, <2>1
<1>9. ASSUME NEW n \in 1 .. 16, n - 1 \in T PROVE n \in T
  <2> DEFINE r == after[n - 1]
             s == Halve(r, behind)
  <2>1. after[n] = s
    BY <1>7
  <2>2. r \in S /\ r[2] - r[1] <= 16 - (n - 1)
    BY <1>9
  <2> HIDE DEF r
  <2>3. /\ s \in S
        /\ r[1] = r[2] => s = r
        /\ r[1] < r[2] => s[2] - s[1] < r[2] - r[1]
    BY <2>2, HalveKeeps DEF S
  <2> HIDE DEF s
  <2>4. /\ r[1] \in Nat /\ r[2] \in Nat /\ r[1] <= r[2]
        /\ s[1] \in Nat /\ s[2] \in Nat /\ s[1] <= s[2]
    BY <2>2, <2>3 DEF S, Around
  <2>5. s[2] - s[1] <= 16 - n
    BY <2>2, <2>3, <2>4
  <2>6. QED
    BY <2>1, <2>3, <2>5
<1>10. 16 \in T
  <2> HIDE DEF T
  <2>1. \A n \in 0 .. 16 : n \in T
    BY <1>8, <1>9, UpTo
  <2>2. QED
    BY <2>1
<1>11. after[16] \in S /\ after[16][2] - after[16][1] <= 0
  BY <1>10
<1>12. QED
  BY <1>6, <1>11 DEF S, Around

------------------------------------------------------------------------------
(* The two tables.                                                         *)

Fields == <<"benchmark", "clear", "date", "echo", "fps", "help", "kill",
            "registers", "resize", "sleep", "testinvalidop", "testsound",
            "testsyscalls", "testzero", "time", "tron">>

Name(i) == COMMANDS[i][1]

IsRow(i) == i \in Nat /\ 0 < i /\ i <= 16

\* What a row of the tables says.
Row(i) ==
  /\ Name(i) = Names[Fields[i]] /\ HELP_ENTRIES[i] = Name(i)
  /\ COMMANDS[i][2] \in 0 .. 15
  /\ commands_Handler[COMMANDS[i][2]] = Manual[Fields[i]]

LEMMA Rows == ASSUME NEW i, IsRow(i) PROVE Row(i)
<1>1. Row(1)
  <2>1. Fields[1] = "benchmark" /\ Name(1) = Names.benchmark /\ COMMANDS[1][2] = 8
    BY DEF Fields, Name, COMMANDS
  <2>2. HELP_ENTRIES[1] = Names.benchmark
    BY DEF HELP_ENTRIES
  <2>3. commands_Handler[8] = Manual.benchmark
    BY DEF commands_Handler, Manual
  <2>4. QED
    BY <2>1, <2>2, <2>3 DEF Row
<1>2. Row(2)
  <2>1. Fields[2] = "clear" /\ Name(2) = Names.clear /\ COMMANDS[2][2] = 0
    BY DEF Fields, Name, COMMANDS
  <2>2. HELP_ENTRIES[2] = Names.clear
    BY DEF HELP_ENTRIES
  <2>3. commands_Handler[0] = Manual.clear
    BY DEF commands_Handler, Manual
  <2>4. QED
    BY <2>1, <2>2, <2>3 DEF Row
<1>3. Row(3)
  <2>1. Fields[3] = "date" /\ Name(3) = Names.date /\ COMMANDS[3][2] = 1
    BY DEF Fields, Name, COMMANDS
  <2>2. HELP_ENTRIES[3] = Names.date
    BY DEF HELP_ENTRIES
  <2>3. commands_Handler[1] = Manual.date
    BY DEF commands_Handler, Manual
  <2>4. QED
    BY <2>1, <2>2, <2>3 DEF Row
<1>4. Row(4)
  <2>1. Fields[4] = "echo" /\ Name(4) = Names.echo /\ COMMANDS[4][2] = 2
    BY DEF Fields, Name, COMMANDS
  <2>2. HELP_ENTRIES[4] = Names.echo
    BY DEF HELP_ENTRIES
  <2>3. commands_Handler[2] = Manual.echo
    BY DEF commands_Handler, Manual
  <2>4. QED
    BY <2>1, <2>2, <2>3 DEF Row
<1>5. Row(5)
  <2>1. Fields[5] = "fps" /\ Name(5) = Names.fps /\ COMMANDS[5][2] = 15
    BY DEF Fields, Name, COMMANDS
  <2>2. HELP_ENTRIES[5] = Names.fps
    BY DEF HELP_ENTRIES
  <2>3. commands_Handler[15] = Manual.fps
    BY DEF commands_Handler, Manual
  <2>4. QED
    BY <2>1, <2>2, <2>3 DEF Row
<1>6. Row(6)
  <2>1. Fields[6] = "help" /\ Name(6) = Names.help /\ COMMANDS[6][2] = 3
    BY DEF Fields, Name, COMMANDS
  <2>2. HELP_ENTRIES[6] = Names.help
    BY DEF HELP_ENTRIES
  <2>3. commands_Handler[3] = Manual.help
    BY DEF commands_Handler, Manual
  <2>4. QED
    BY <2>1, <2>2, <2>3 DEF Row
<1>7. Row(7)
  <2>1. Fields[7] = "kill" /\ Name(7) = Names.kill /\ COMMANDS[7][2] = 11
    BY DEF Fields, Name, COMMANDS
  <2>2. HELP_ENTRIES[7] = Names.kill
    BY DEF HELP_ENTRIES
  <2>3. commands_Handler[11] = Manual.kill
    BY DEF commands_Handler, Manual
  <2>4. QED
    BY <2>1, <2>2, <2>3 DEF Row
<1>8. Row(8)
  <2>1. Fields[8] = "registers" /\ Name(8) = Names.registers /\ COMMANDS[8][2] = 9
    BY DEF Fields, Name, COMMANDS
  <2>2. HELP_ENTRIES[8] = Names.registers
    BY DEF HELP_ENTRIES
  <2>3. commands_Handler[9] = Manual.registers
    BY DEF commands_Handler, Manual
  <2>4. QED
    BY <2>1, <2>2, <2>3 DEF Row
<1>9. Row(9)
  <2>1. Fields[9] = "resize" /\ Name(9) = Names.resize /\ COMMANDS[9][2] = 4
    BY DEF Fields, Name, COMMANDS
  <2>2. HELP_ENTRIES[9] = Names.resize
    BY DEF HELP_ENTRIES
  <2>3. commands_Handler[4] = Manual.resize
    BY DEF commands_Handler, Manual
  <2>4. QED
    BY <2>1, <2>2, <2>3 DEF Row
<1>10. Row(10)
  <2>1. Fields[10] = "sleep" /\ Name(10) = Names.sleep /\ COMMANDS[10][2] = 13
    BY DEF Fields, Name, COMMANDS
  <2>2. HELP_ENTRIES[10] = Names.sleep
    BY DEF HELP_ENTRIES
  <2>3. commands_Handler[13] = Manual.sleep
    BY DEF commands_Handler, Manual
  <2>4. QED
    BY <2>1, <2>2, <2>3 DEF Row
<1>11. Row(11)
  <2>1. Fields[11] = "testinvalidop" /\ Name(11) = Names.testinvalidop /\ COMMANDS[11][2] = 5
    BY DEF Fields, Name, COMMANDS
  <2>2. HELP_ENTRIES[11] = Names.testinvalidop
    BY DEF HELP_ENTRIES
  <2>3. commands_Handler[5] = Manual.testinvalidop
    BY DEF commands_Handler, Manual
  <2>4. QED
    BY <2>1, <2>2, <2>3 DEF Row
<1>12. Row(12)
  <2>1. Fields[12] = "testsound" /\ Name(12) = Names.testsound /\ COMMANDS[12][2] = 12
    BY DEF Fields, Name, COMMANDS
  <2>2. HELP_ENTRIES[12] = Names.testsound
    BY DEF HELP_ENTRIES
  <2>3. commands_Handler[12] = Manual.testsound
    BY DEF commands_Handler, Manual
  <2>4. QED
    BY <2>1, <2>2, <2>3 DEF Row
<1>13. Row(13)
  <2>1. Fields[13] = "testsyscalls" /\ Name(13) = Names.testsyscalls /\ COMMANDS[13][2] = 14
    BY DEF Fields, Name, COMMANDS
  <2>2. HELP_ENTRIES[13] = Names.testsyscalls
    BY DEF HELP_ENTRIES
  <2>3. commands_Handler[14] = Manual.testsyscalls
    BY DEF commands_Handler, Manual
  <2>4. QED
    BY <2>1, <2>2, <2>3 DEF Row
<1>14. Row(14)
  <2>1. Fields[14] = "testzero" /\ Name(14) = Names.testzero /\ COMMANDS[14][2] = 6
    BY DEF Fields, Name, COMMANDS
  <2>2. HELP_ENTRIES[14] = Names.testzero
    BY DEF HELP_ENTRIES
  <2>3. commands_Handler[6] = Manual.testzero
    BY DEF commands_Handler, Manual
  <2>4. QED
    BY <2>1, <2>2, <2>3 DEF Row
<1>15. Row(15)
  <2>1. Fields[15] = "time" /\ Name(15) = Names.time /\ COMMANDS[15][2] = 7
    BY DEF Fields, Name, COMMANDS
  <2>2. HELP_ENTRIES[15] = Names.time
    BY DEF HELP_ENTRIES
  <2>3. commands_Handler[7] = Manual.time
    BY DEF commands_Handler, Manual
  <2>4. QED
    BY <2>1, <2>2, <2>3 DEF Row
<1>16. Row(16)
  <2>1. Fields[16] = "tron" /\ Name(16) = Names.tron /\ COMMANDS[16][2] = 10
    BY DEF Fields, Name, COMMANDS
  <2>2. HELP_ENTRIES[16] = Names.tron
    BY DEF HELP_ENTRIES
  <2>3. commands_Handler[10] = Manual.tron
    BY DEF commands_Handler, Manual
  <2>4. QED
    BY <2>1, <2>2, <2>3 DEF Row
<1>17. i \in 1 .. 16
  BY DEF IsRow
<1>18. QED
  BY <1>1, <1>2, <1>3, <1>4, <1>5, <1>6, <1>7, <1>8, <1>9,
     <1>10, <1>11, <1>12, <1>13, <1>14, <1>15, <1>16, <1>17

SmallLetters == 97 .. 122

IsWord(w) == w \in Seq(SmallLetters) /\ w # << >>

LEMMA Letters == ASSUME NEW i, IsRow(i) PROVE IsWord(Name(i))
<1>1. IsWord(Name(1))
  <2>1. Name(1) = Names.benchmark
    BY DEF Name, COMMANDS
  <2>2. IsWord(Names.benchmark)
    BY DEF Names, IsWord, SmallLetters
  <2>3. QED
    BY <2>1, <2>2
<1>2. IsWord(Name(2))
  <2>1. Name(2) = Names.clear
    BY DEF Name, COMMANDS
  <2>2. IsWord(Names.clear)
    BY DEF Names, IsWord, SmallLetters
  <2>3. QED
    BY <2>1, <2>2
<1>3. IsWord(Name(3))
  <2>1. Name(3) = Names.date
    BY DEF Name, COMMANDS
  <2>2. IsWord(Names.date)
    BY DEF Names, IsWord, SmallLetters
  <2>3. QED
    BY <2>1, <2>2
<1>4. IsWord(Name(4))
  <2>1. Name(4) = Names.echo
    BY DEF Name, COMMANDS
  <2>2. IsWord(Names.echo)
    BY DEF Names, IsWord, SmallLetters
  <2>3. QED
    BY <2>1, <2>2
<1>5. IsWord(Name(5))
  <2>1. Name(5) = Names.fps
    BY DEF Name, COMMANDS
  <2>2. IsWord(Names.fps)
    BY DEF Names, IsWord, SmallLetters
  <2>3. QED
    BY <2>1, <2>2
<1>6. IsWord(Name(6))
  <2>1. Name(6) = Names.help
    BY DEF Name, COMMANDS
  <2>2. IsWord(Names.help)
    BY DEF Names, IsWord, SmallLetters
  <2>3. QED
    BY <2>1, <2>2
<1>7. IsWord(Name(7))
  <2>1. Name(7) = Names.kill
    BY DEF Name, COMMANDS
  <2>2. IsWord(Names.kill)
    BY DEF Names, IsWord, SmallLetters
  <2>3. QED
    BY <2>1, <2>2
<1>8. IsWord(Name(8))
  <2>1. Name(8) = Names.registers
    BY DEF Name, COMMANDS
  <2>2. IsWord(Names.registers)
    BY DEF Names, IsWord, SmallLetters
  <2>3. QED
    BY <2>1, <2>2
<1>9. IsWord(Name(9))
  <2>1. Name(9) = Names.resize
    BY DEF Name, COMMANDS
  <2>2. IsWord(Names.resize)
    BY DEF Names, IsWord, SmallLetters
  <2>3. QED
    BY <2>1, <2>2
<1>10. IsWord(Name(10))
  <2>1. Name(10) = Names.sleep
    BY DEF Name, COMMANDS
  <2>2. IsWord(Names.sleep)
    BY DEF Names, IsWord, SmallLetters
  <2>3. QED
    BY <2>1, <2>2
<1>11. IsWord(Name(11))
  <2>1. Name(11) = Names.testinvalidop
    BY DEF Name, COMMANDS
  <2>2. IsWord(Names.testinvalidop)
    BY DEF Names, IsWord, SmallLetters
  <2>3. QED
    BY <2>1, <2>2
<1>12. IsWord(Name(12))
  <2>1. Name(12) = Names.testsound
    BY DEF Name, COMMANDS
  <2>2. IsWord(Names.testsound)
    BY DEF Names, IsWord, SmallLetters
  <2>3. QED
    BY <2>1, <2>2
<1>13. IsWord(Name(13))
  <2>1. Name(13) = Names.testsyscalls
    BY DEF Name, COMMANDS
  <2>2. IsWord(Names.testsyscalls)
    BY DEF Names, IsWord, SmallLetters
  <2>3. QED
    BY <2>1, <2>2
<1>14. IsWord(Name(14))
  <2>1. Name(14) = Names.testzero
    BY DEF Name, COMMANDS
  <2>2. IsWord(Names.testzero)
    BY DEF Names, IsWord, SmallLetters
  <2>3. QED
    BY <2>1, <2>2
<1>15. IsWord(Name(15))
  <2>1. Name(15) = Names.time
    BY DEF Name, COMMANDS
  <2>2. IsWord(Names.time)
    BY DEF Names, IsWord, SmallLetters
  <2>3. QED
    BY <2>1, <2>2
<1>16. IsWord(Name(16))
  <2>1. Name(16) = Names.tron
    BY DEF Name, COMMANDS
  <2>2. IsWord(Names.tron)
    BY DEF Names, IsWord, SmallLetters
  <2>3. QED
    BY <2>1, <2>2
<1>17. i \in 1 .. 16
  BY DEF IsRow
<1>18. QED
  BY <1>1, <1>2, <1>3, <1>4, <1>5, <1>6, <1>7, <1>8, <1>9,
     <1>10, <1>11, <1>12, <1>13, <1>14, <1>15, <1>16, <1>17

\* The name a is below the name b, and neither begins with the other.
Below(a, b) == \E d \in 1 .. Len(a) : d <= Len(b) /\ a[d] < b[d]
                                      /\ \A j \in 1 .. d - 1 : a[j] = b[j]

LEMMA Sorted == ASSUME NEW i \in Nat, i > 0, i < 16 PROVE Below(Name(i), Name(i + 1))
<1>1. Below(Name(1), Name(2))
  <2>1. Name(1) = Names.benchmark /\ Name(2) = Names.clear
    BY DEF Name, COMMANDS
  <2>2. Below(Names.benchmark, Names.clear)
    <3> DEFINE d == 1
    <3>1. d \in 1 .. Len(Names.benchmark) /\ d <= Len(Names.clear) /\ Names.benchmark[d] < Names.clear[d]
      BY DEF Names
    <3>2. \A j \in 1 .. d - 1 : Names.benchmark[j] = Names.clear[j]
      BY DEF Names
    <3>3. QED
      BY <3>1, <3>2 DEF Below
  <2>3. QED
    BY <2>1, <2>2
<1>2. Below(Name(2), Name(3))
  <2>1. Name(2) = Names.clear /\ Name(3) = Names.date
    BY DEF Name, COMMANDS
  <2>2. Below(Names.clear, Names.date)
    <3> DEFINE d == 1
    <3>1. d \in 1 .. Len(Names.clear) /\ d <= Len(Names.date) /\ Names.clear[d] < Names.date[d]
      BY DEF Names
    <3>2. \A j \in 1 .. d - 1 : Names.clear[j] = Names.date[j]
      BY DEF Names
    <3>3. QED
      BY <3>1, <3>2 DEF Below
  <2>3. QED
    BY <2>1, <2>2
<1>3. Below(Name(3), Name(4))
  <2>1. Name(3) = Names.date /\ Name(4) = Names.echo
    BY DEF Name, COMMANDS
  <2>2. Below(Names.date, Names.echo)
    <3> DEFINE d == 1
    <3>1. d \in 1 .. Len(Names.date) /\ d <= Len(Names.echo) /\ Names.date[d] < Names.echo[d]
      BY DEF Names
    <3>2. \A j \in 1 .. d - 1 : Names.date[j] = Names.echo[j]
      BY DEF Names
    <3>3. QED
      BY <3>1, <3>2 DEF Below
  <2>3. QED
    BY <2>1, <2>2
<1>4. Below(Name(4), Name(5))
  <2>1. Name(4) = Names.echo /\ Name(5) = Names.fps
    BY DEF Name, COMMANDS
  <2>2. Below(Names.echo, Names.fps)
    <3> DEFINE d == 1
    <3>1. d \in 1 .. Len(Names.echo) /\ d <= Len(Names.fps) /\ Names.echo[d] < Names.fps[d]
      BY DEF Names
    <3>2. \A j \in 1 .. d - 1 : Names.echo[j] = Names.fps[j]
      BY DEF Names
    <3>3. QED
      BY <3>1, <3>2 DEF Below
  <2>3. QED
    BY <2>1, <2>2
<1>5. Below(Name(5), Name(6))
  <2>1. Name(5) = Names.fps /\ Name(6) = Names.help
    BY DEF Name, COMMANDS
  <2>2. Below(Names.fps, Names.help)
    <3> DEFINE d == 1
    <3>1. d \in 1 .. Len(Names.fps) /\ d <= Len(Names.help) /\ Names.fps[d] < Names.help[d]
      BY DEF Names
    <3>2. \A j \in 1 .. d - 1 : Names.fps[j] = Names.help[j]
      BY DEF Names
    <3>3. QED
      BY <3>1, <3>2 DEF Below
  <2>3. QED
    BY <2>1, <2>2
<1>6. Below(Name(6), Name(7))
  <2>1. Name(6) = Names.help /\ Name(7) = Names.kill
    BY DEF Name, COMMANDS
  <2>2. Below(Names.help, Names.kill)
    <3> DEFINE d == 1
    <3>1. d \in 1 .. Len(Names.help) /\ d <= Len(Names.kill) /\ Names.help[d] < Names.kill[d]
      BY DEF Names
    <3>2. \A j \in 1 .. d - 1 : Names.help[j] = Names.kill[j]
      BY DEF Names
    <3>3. QED
      BY <3>1, <3>2 DEF Below
  <2>3. QED
    BY <2>1, <2>2
<1>7. Below(Name(7), Name(8))
  <2>1. Name(7) = Names.kill /\ Name(8) = Names.registers
    BY DEF Name, COMMANDS
  <2>2. Below(Names.kill, Names.registers)
    <3> DEFINE d == 1
    <3>1. d \in 1 .. Len(Names.kill) /\ d <= Len(Names.registers) /\ Names.kill[d] < Names.registers[d]
      BY DEF Names
    <3>2. \A j \in 1 .. d - 1 : Names.kill[j] = Names.registers[j]
      BY DEF Names
    <3>3. QED
      BY <3>1, <3>2 DEF Below
  <2>3. QED
    BY <2>1, <2>2
<1>8. Below(Name(8), Name(9))
  <2>1. Name(8) = Names.registers /\ Name(9) = Names.resize
    BY DEF Name, COMMANDS
  <2>2. Below(Names.registers, Names.resize)
    <3> DEFINE d == 3
    <3>1. d \in 1 .. Len(Names.registers) /\ d <= Len(Names.resize) /\ Names.registers[d] < Names.resize[d]
      BY DEF Names
    <3>2. \A j \in 1 .. d - 1 : Names.registers[j] = Names.resize[j]
      BY DEF Names
    <3>3. QED
      BY <3>1, <3>2 DEF Below
  <2>3. QED
    BY <2>1, <2>2
<1>9. Below(Name(9), Name(10))
  <2>1. Name(9) = Names.resize /\ Name(10) = Names.sleep
    BY DEF Name, COMMANDS
  <2>2. Below(Names.resize, Names.sleep)
    <3> DEFINE d == 1
    <3>1. d \in 1 .. Len(Names.resize) /\ d <= Len(Names.sleep) /\ Names.resize[d] < Names.sleep[d]
      BY DEF Names
    <3>2. \A j \in 1 .. d - 1 : Names.resize[j] = Names.sleep[j]
      BY DEF Names
    <3>3. QED
      BY <3>1, <3>2 DEF Below
  <2>3. QED
    BY <2>1, <2>2
<1>10. Below(Name(10), Name(11))
  <2>1. Name(10) = Names.sleep /\ Name(11) = Names.testinvalidop
    BY DEF Name, COMMANDS
  <2>2. Below(Names.sleep, Names.testinvalidop)
    <3> DEFINE d == 1
    <3>1. d \in 1 .. Len(Names.sleep) /\ d <= Len(Names.testinvalidop) /\ Names.sleep[d] < Names.testinvalidop[d]
      BY DEF Names
    <3>2. \A j \in 1 .. d - 1 : Names.sleep[j] = Names.testinvalidop[j]
      BY DEF Names
    <3>3. QED
      BY <3>1, <3>2 DEF Below
  <2>3. QED
    BY <2>1, <2>2
<1>11. Below(Name(11), Name(12))
  <2>1. Name(11) = Names.testinvalidop /\ Name(12) = Names.testsound
    BY DEF Name, COMMANDS
  <2>2. Below(Names.testinvalidop, Names.testsound)
    <3> DEFINE d == 5
    <3>1. d \in 1 .. Len(Names.testinvalidop) /\ d <= Len(Names.testsound) /\ Names.testinvalidop[d] < Names.testsound[d]
      BY DEF Names
    <3>2. \A j \in 1 .. d - 1 : Names.testinvalidop[j] = Names.testsound[j]
      BY DEF Names
    <3>3. QED
      BY <3>1, <3>2 DEF Below
  <2>3. QED
    BY <2>1, <2>2
<1>12. Below(Name(12), Name(13))
  <2>1. Name(12) = Names.testsound /\ Name(13) = Names.testsyscalls
    BY DEF Name, COMMANDS
  <2>2. Below(Names.testsound, Names.testsyscalls)
    <3> DEFINE d == 6
    <3>1. d \in 1 .. Len(Names.testsound) /\ d <= Len(Names.testsyscalls) /\ Names.testsound[d] < Names.testsyscalls[d]
      BY DEF Names
    <3>2. \A j \in 1 .. d - 1 : Names.testsound[j] = Names.testsyscalls[j]
      BY DEF Names
    <3>3. QED
      BY <3>1, <3>2 DEF Below
  <2>3. QED
    BY <2>1, <2>2
<1>13. Below(Name(13), Name(14))
  <2>1. Name(13) = Names.testsyscalls /\ Name(14) = Names.testzero
    BY DEF Name, COMMANDS
  <2>2. Below(Names.testsyscalls, Names.testzero)
    <3> DEFINE d == 5
    <3>1. d \in 1 .. Len(Names.testsyscalls) /\ d <= Len(Names.testzero) /\ Names.testsyscalls[d] < Names.testzero[d]
      BY DEF Names
    <3>2. \A j \in 1 .. d - 1 : Names.testsyscalls[j] = Names.testzero[j]
      BY DEF Names
    <3>3. QED
      BY <3>1, <3>2 DEF Below
  <2>3. QED
    BY <2>1, <2>2
<1>14. Below(Name(14), Name(15))
  <2>1. Name(14) = Names.testzero /\ Name(15) = Names.time
    BY DEF Name, COMMANDS
  <2>2. Below(Names.testzero, Names.time)
    <3> DEFINE d == 2
    <3>1. d \in 1 .. Len(Names.testzero) /\ d <= Len(Names.time) /\ Names.testzero[d] < Names.time[d]
      BY DEF Names
    <3>2. \A j \in 1 .. d - 1 : Names.testzero[j] = Names.time[j]
      BY DEF Names
    <3>3. QED
      BY <3>1, <3>2 DEF Below
  <2>3. QED
    BY <2>1, <2>2
<1>15. Below(Name(15), Name(16))
  <2>1. Name(15) = Names.time /\ Name(16) = Names.tron
    BY DEF Name, COMMANDS
  <2>2. Below(Names.time, Names.tron)
    <3> DEFINE d == 2
    <3>1. d \in 1 .. Len(Names.time) /\ d <= Len(Names.tron) /\ Names.time[d] < Names.tron[d]
      BY DEF Names
    <3>2. \A j \in 1 .. d - 1 : Names.time[j] = Names.tron[j]
      BY DEF Names
    <3>3. QED
      BY <3>1, <3>2 DEF Below
  <2>3. QED
    BY <2>1, <2>2
<1>16. i \in 1 .. 15
  OBVIOUS
<1>17. QED
  BY <1>1, <1>2, <1>3, <1>4, <1>5, <1>6, <1>7, <1>8, <1>9,
     <1>10, <1>11, <1>12, <1>13, <1>14, <1>15, <1>16

------------------------------------------------------------------------------
(* Comparisons.                                                            *)

LEMMA Lowered ==
  ASSUME NEW c \in Nat
  PROVE  /\ my_tolower(c) \in Nat
         /\ my_tolower(c) = 0 <=> c = 0
         /\ c > 90 => my_tolower(c) = c
BY DEF my_tolower, UPPER

LEMMA CharacterIs == \A c \in Characters : c \in Nat /\ c > 0
BY DEF Characters

LEMMA SmallLetterIs == \A c \in SmallLetters : c \in Nat /\ c > 90 /\ c \in Characters
BY DEF Characters, SmallLetters

Cmp(a, b, i) == Compare(At(a, i), At(b, i))

\* Texts that end where their first NUL is.
IsText(s) == s \in Seq(Characters)

LEMMA AtText ==
  ASSUME NEW s, IsText(s), NEW i \in Nat \ {0}
  PROVE  /\ At(s, i) \in Nat
         /\ At(s, i) = 0 <=> i > Len(s)
         /\ i <= Len(s) => At(s, i) = s[i]
<1>1. Len(s) \in Nat /\ DOMAIN s = 1 .. Len(s) /\ \A j \in 1 .. Len(s) : s[j] \in Characters
  BY DEF IsText
<1>2. CASE i <= Len(s)
  <2>1. i \in DOMAIN s /\ s[i] \in Characters
    BY <1>1, <1>2
  <2>2. At(s, i) = s[i]
    BY <2>1 DEF At
  <2>3. QED
    BY <1>1, <1>2, <2>1, <2>2, CharacterIs
<1>3. CASE i > Len(s)
  <2>1. At(s, i) = 0
    BY <1>1, <1>3 DEF At, NUL
  <2>2. QED
    BY <1>1, <1>3, <2>1
<1>4. QED
  BY <1>1, <1>2, <1>3

LEMMA WordIsText ==
  ASSUME NEW w, IsWord(w)
  PROVE  IsText(w) /\ Len(w) \in Nat \ {0} 
         /\ \A i \in 1 .. Len(w) : At(w, i) \in Nat /\ At(w, i) > 90
<1>1. w \in Seq(SmallLetters) /\ Len(w) \in Nat \ {0}
  BY DEF IsWord
<1>2. DOMAIN w = 1 .. Len(w) /\ \A i \in 1 .. Len(w) : w[i] \in SmallLetters
  BY <1>1
<1>3. w \in Seq(Characters)
  <2>1. SmallLetters \subseteq Characters
    BY SmallLetterIs
  <2>2. QED
    BY <1>1, <2>1
<1>4. QED
  BY <1>1, <1>2, <1>3, SmallLetterIs DEF IsText, At

LEMMA CmpFacts ==
  ASSUME NEW a, NEW b, IsText(a), IsText(b), NEW i \in Nat \ {0}
  PROVE  /\ Cmp(a, b, i) = my_tolower(At(a, i)) - my_tolower(At(b, i))
         /\ my_tolower(At(a, i)) \in Nat /\ my_tolower(At(b, i)) \in Nat
         /\ my_tolower(At(a, i)) = 0 <=> i > Len(a)
         /\ my_tolower(At(b, i)) = 0 <=> i > Len(b)
<1>1. /\ At(a, i) \in Nat /\ (At(a, i) = 0 <=> i > Len(a))
      /\ At(b, i) \in Nat /\ (At(b, i) = 0 <=> i > Len(b))
  BY AtText
<1>2. QED
  BY <1>1, Lowered DEF Cmp, Compare

\* The first place where two texts differ.
Differ(a, b, i) ==
  i \in Nat \ {0} /\ Cmp(a, b, i) # 0 /\ \A j \in 1 .. i - 1 : Cmp(a, b, j) = 0

LEMMA DifferOnce ==
  ASSUME NEW a, NEW b, NEW i, NEW j, Differ(a, b, i), Differ(a, b, j)
  PROVE  i = j
BY DEF Differ

\* Two texts agree up to n, or differ at a first place before.
LEMMA DifferSomewhere ==
  ASSUME NEW a, NEW b, NEW n \in Nat
  PROVE  \/ \A i \in 1 .. n : Cmp(a, b, i) = 0
         \/ \E i \in 1 .. n : Differ(a, b, i)
<1> DEFINE T == {i \in 1 .. n : Cmp(a, b, i) # 0}
<1>1. CASE T = {}
  BY <1>1
<1>2. CASE T # {}
  <2>1. T \in SUBSET Nat
    OBVIOUS
  <2>2. PICK m \in T : \A i \in T : m <= i
    BY <1>2, <2>1, LeastNumber
  <2>3. m \in 1 .. n /\ \A j \in 1 .. m - 1 : j \in 1 .. n /\ j \notin T
    BY <2>2
  <2>4. Differ(a, b, m)
    BY <2>2, <2>3 DEF Differ
  <2>5. QED
    BY <2>3, <2>4
<1>3. QED
  BY <1>1, <1>2

\* What lies before a name of the table lies before what is above the name.
LEMMA BelowToo ==
  ASSUME NEW a, NEW b, NEW t, IsWord(a), IsWord(b), IsText(t), Below(a, b)
  PROVE  /\ \A i \in Nat \ {0} : Differ(b, t, i) /\ Cmp(b, t, i) < 0 =>
              \E k \in 1 .. i : k <= Len(b) /\ Differ(a, t, k) /\ Cmp(a, t, k) < 0
         /\ \A n \in Nat : (\A i \in 1 .. n : Cmp(b, t, i) = 0) =>
              \/ n < Len(a) /\ n < Len(b) /\ \A i \in 1 .. n : Cmp(a, t, i) = 0
              \/ \E k \in 1 .. n : k <= Len(b) /\ Differ(a, t, k) /\ Cmp(a, t, k) < 0
<1>1. PICK d \in 1 .. Len(a) :
        d <= Len(b) /\ a[d] < b[d] /\ \A j \in 1 .. d - 1 : a[j] = b[j]
  BY DEF Below
<1>2. /\ IsText(a) /\ Len(a) \in Nat /\ \A i \in 1 .. Len(a) : At(a, i) \in Nat /\ At(a, i) > 90
      /\ IsText(b) /\ Len(b) \in Nat /\ \A i \in 1 .. Len(b) : At(b, i) \in Nat /\ At(b, i) > 90
  BY WordIsText
<1>3. d \in Nat \ {0}
  BY <1>2
<1>4. At(a, d) < At(b, d) /\ \A j \in 1 .. d - 1 : At(a, j) = At(b, j)
  <2>1. At(a, d) = a[d] /\ At(b, d) = b[d]
    BY <1>1, <1>2, <1>3, AtText
  <2>2. \A j \in 1 .. d - 1 : At(a, j) = a[j] /\ At(b, j) = b[j]
    <3>1. \A j \in 1 .. d - 1 : j \in Nat \ {0} /\ j <= Len(a) /\ j <= Len(b)
      BY <1>1, <1>2
    <3>2. QED
      BY <1>2, <3>1, AtText
  <2>3. QED
    BY <1>1, <2>1, <2>2
<1>5. \A j \in 1 .. d - 1 : Cmp(a, t, j) = Cmp(b, t, j)
  BY <1>4 DEF Cmp
<1>6. my_tolower(At(a, d)) < my_tolower(At(b, d))
  <2>1. At(a, d) \in Nat /\ At(a, d) > 90 /\ At(b, d) \in Nat /\ At(b, d) > 90
    BY <1>1, <1>2
  <2>2. my_tolower(At(a, d)) = At(a, d) /\ my_tolower(At(b, d)) = At(b, d)
    BY <2>1, Lowered
  <2>3. QED
    BY <1>4, <2>2
<1>7. Cmp(a, t, d) < Cmp(b, t, d) /\ Cmp(a, t, d) \in Int /\ Cmp(b, t, d) \in Int
  <2>1. /\ Cmp(a, t, d) = my_tolower(At(a, d)) - my_tolower(At(t, d))
        /\ Cmp(b, t, d) = my_tolower(At(b, d)) - my_tolower(At(t, d))
        /\ my_tolower(At(a, d)) \in Nat /\ my_tolower(At(t, d)) \in Nat
        /\ my_tolower(At(b, d)) \in Nat
    BY <1>2, <1>3, CmpFacts
  <2>2. QED
    BY <1>6, <2>1
\* Where b and the text agree up to d, or the text is above b there, it is above a.
<1>8. ASSUME \A j \in 1 .. d - 1 : Cmp(b, t, j) = 0, Cmp(b, t, d) <= 0
      PROVE  Differ(a, t, d) /\ Cmp(a, t, d) < 0
  BY <1>3, <1>5, <1>7, <1>8 DEF Differ
<1>9. ASSUME NEW i \in Nat \ {0}, Differ(b, t, i), Cmp(b, t, i) < 0
      PROVE  \E k \in 1 .. i : k <= Len(b) /\ Differ(a, t, k) /\ Cmp(a, t, k) < 0
  <2>1. CASE i < d
    <3>1. Differ(a, t, i) /\ Cmp(a, t, i) < 0 /\ i <= Len(b)
      BY <1>1, <1>2, <1>3, <1>5, <1>9, <2>1 DEF Differ
    <3>2. QED
      BY <3>1
  <2>2. CASE i >= d
    <3>1. (\A j \in 1 .. d - 1 : Cmp(b, t, j) = 0) /\ Cmp(b, t, d) <= 0
      BY <1>3, <1>7, <1>9, <2>2 DEF Differ
    <3>2. QED
      BY <1>1, <1>3, <1>8, <2>2, <3>1
  <2>3. QED
    BY <1>3, <2>1, <2>2
<1>10. ASSUME NEW n \in Nat, \A i \in 1 .. n : Cmp(b, t, i) = 0
       PROVE  \/ n < Len(a) /\ n < Len(b) /\ \A i \in 1 .. n : Cmp(a, t, i) = 0
              \/ \E k \in 1 .. n : k <= Len(b) /\ Differ(a, t, k) /\ Cmp(a, t, k) < 0
  <2>1. CASE n < d
    BY <1>1, <1>2, <1>3, <1>5, <1>10, <2>1
  <2>2. CASE n >= d
    <3>1. (\A j \in 1 .. d - 1 : Cmp(b, t, j) = 0) /\ Cmp(b, t, d) <= 0
      BY <1>3, <1>10, <2>2
    <3>2. QED
      BY <1>1, <1>3, <1>8, <2>2, <3>1
  <2>3. QED
    BY <1>3, <2>1, <2>2
<1>11. QED
  BY <1>9, <1>10

------------------------------------------------------------------------------
(* The search for a command.                                               *)

LEMMA CmpPrefixIs ==
  ASSUME NEW a, NEW t, IsText(a), IsText(t)
  PROVE  \/ /\ ci_cmp_prefix(a, t) = 0
            /\ \A i \in 1 .. Len(t) : Cmp(a, t, i) = 0
         \/ \E i \in 1 .. Len(t) :
               Differ(a, t, i) /\ ci_cmp_prefix(a, t) = Cmp(a, t, i)
<1> DEFINE n == Len(t)
           D == {i \in 1 .. n : Cmp(a, t, i) # 0}
           E == {i \in 1 .. n : Compare(At(a, i), t[i]) # 0}
<1>1. n \in Nat
  BY DEF IsText
<1>2. \A i \in 1 .. n : Cmp(a, t, i) = Compare(At(a, i), t[i])
  <2>1. \A i \in 1 .. n : i \in Nat \ {0} /\ i <= n
    BY <1>1
  <2>2. \A i \in 1 .. n : At(t, i) = t[i]
    BY <2>1, AtText
  <2>3. QED
    BY <2>2 DEF Cmp
<1>3. D = E
  BY <1>2
<1>4. ci_cmp_prefix(a, t) = IF E = {} THEN 0
        ELSE LET i == CHOOSE i \in E : \A j \in E : i <= j
             IN Compare(At(a, i), t[i])
  BY DEF ci_cmp_prefix
<1>5. CASE D = {}
  BY <1>3, <1>4, <1>5
<1>6. CASE D # {}
  <2> DEFINE i == CHOOSE i \in E : \A j \in E : i <= j
  <2>1. \E m \in E : \A j \in E : m <= j
    <3>1. E \in SUBSET Nat
      BY <1>1
    <3>2. QED
      BY <1>3, <1>6, <3>1, LeastNumber
  <2>2. i \in E /\ \A j \in E : i <= j
    BY <2>1
  <2>3. ci_cmp_prefix(a, t) = Compare(At(a, i), t[i])
    BY <1>3, <1>4, <1>6
  <2> HIDE DEF i
  <2>4. i \in 1 .. n /\ Cmp(a, t, i) # 0 /\ \A j \in 1 .. i - 1 : j \in 1 .. n /\ j \notin D
    BY <1>1, <1>3, <2>2
  <2>5. Differ(a, t, i)
    BY <1>1, <2>4 DEF Differ
  <2>6. ci_cmp_prefix(a, t) = Cmp(a, t, i)
    BY <1>2, <2>3, <2>4
  <2>7. QED
    BY <2>4, <2>5, <2>6
<1>7. QED
  BY <1>5, <1>6

\* Neighbours in the table are in order for every text that is looked up.
LEMMA PrefixOrder ==
  ASSUME NEW a, NEW b, NEW t, IsWord(a), IsWord(b), IsText(t), Below(a, b)
  PROVE  /\ ci_cmp_prefix(b, t) < 0 => ci_cmp_prefix(a, t) < 0
         /\ ci_cmp_prefix(b, t) = 0 =>
              \/ ci_cmp_prefix(a, t) < 0
              \/ ci_cmp_prefix(a, t) = 0 /\ Len(t) < Len(a) /\ Len(t) < Len(b)
<1>1. IsText(a) /\ IsText(b) /\ Len(t) \in Nat
  BY WordIsText DEF IsText
<1>2. ASSUME NEW k \in Nat \ {0}, k <= Len(t), Differ(a, t, k), Cmp(a, t, k) < 0
      PROVE  ci_cmp_prefix(a, t) < 0
  <2>1. CASE \A i \in 1 .. Len(t) : Cmp(a, t, i) = 0
    BY <1>1, <1>2, <2>1 DEF Differ
  <2>2. CASE \E i \in 1 .. Len(t) :
               Differ(a, t, i) /\ ci_cmp_prefix(a, t) = Cmp(a, t, i)
    BY <1>2, <2>2, DifferOnce
  <2>3. QED
    BY <1>1, <2>1, <2>2, CmpPrefixIs
<1>3. CASE /\ ci_cmp_prefix(b, t) = 0
           /\ \A i \in 1 .. Len(t) : Cmp(b, t, i) = 0
  <2>1. CASE \E k \in 1 .. Len(t) : k <= Len(b) /\ Differ(a, t, k) /\ Cmp(a, t, k) < 0
    BY <1>1, <1>2, <1>3, <2>1
  <2>2. CASE /\ Len(t) < Len(a) /\ Len(t) < Len(b)
             /\ \A i \in 1 .. Len(t) : Cmp(a, t, i) = 0
    <3>1. ci_cmp_prefix(a, t) = 0
      BY <1>1, <2>2, CmpPrefixIs DEF Differ
    <3>2. QED
      BY <1>3, <2>2, <3>1
  <2>3. QED
    BY <1>1, <1>3, <2>1, <2>2, BelowToo
<1>4. CASE \E i \in 1 .. Len(t) :
             Differ(b, t, i) /\ ci_cmp_prefix(b, t) = Cmp(b, t, i)
  <2>1. PICK i \in 1 .. Len(t) :
          Differ(b, t, i) /\ ci_cmp_prefix(b, t) = Cmp(b, t, i)
    BY <1>4
  <2>2. i \in Nat \ {0} /\ ci_cmp_prefix(b, t) # 0
    BY <2>1 DEF Differ
  <2>3. ASSUME ci_cmp_prefix(b, t) < 0 PROVE ci_cmp_prefix(a, t) < 0
    <3>1. PICK k \in 1 .. i : Differ(a, t, k) /\ Cmp(a, t, k) < 0
      BY <2>1, <2>2, <2>3, BelowToo
    <3>2. QED
      BY <1>1, <1>2, <2>1, <3>1
  <2>4. QED
    BY <2>2, <2>3
<1>5. QED
  BY <1>1, <1>3, <1>4, CmpPrefixIs

\* A set that has with every place the one before it is an initial segment.
LEMMA InitialSegment ==
  ASSUME NEW B, NEW n \in Nat,
         \A i \in Nat : i + 1 < n /\ i + 1 \in B => i \in B
  PROVE  \E k \in 0 .. n : \A i \in Nat : i < n => (i \in B <=> i < k)
<1> DEFINE U == {i \in Nat : i < n /\ i \notin B}
<1>1. CASE U = {}
  <2>1. \A i \in Nat : i < n => (i \in B <=> i < n)
    BY <1>1
  <2>2. QED
    BY <2>1
<1>2. CASE U # {}
  <2>1. U \in SUBSET Nat
    OBVIOUS
  <2>2. PICK m \in U : \A i \in U : m <= i
    BY <1>2, <2>1, LeastNumber
  <2>3. m \in Nat /\ m < n /\ m \notin B
    BY <2>2
  <2> DEFINE T == {j \in Nat : m + j < n => m + j \notin B}
  <2>4. 0 \in T
    BY <2>3
  <2>5. ASSUME NEW j \in 1 .. n, j - 1 \in T PROVE j \in T
    <3>1. m + (j - 1) \in Nat /\ (m + (j - 1)) + 1 = m + j
      BY <2>3
    <3>2. QED
      BY <2>3, <2>5, <3>1
  <2> HIDE DEF T
  <2>6. \A j \in 0 .. n : j \in T
    BY <2>4, <2>5, UpTo
  <2>7. \A i \in Nat : i < n /\ m <= i => i \notin B
    <3>1. TAKE i \in Nat
    <3>2. HAVE i < n /\ m <= i
    <3>3. i - m \in 0 .. n /\ m + (i - m) = i
      BY <2>3, <3>2
    <3>4. i - m \in T
      BY <2>6, <3>3
    <3>5. QED
      BY <3>2, <3>3, <3>4 DEF T
  <2>8. \A i \in Nat : i < n => (i \in B <=> i < m)
    BY <2>2, <2>3, <2>7
  <2>9. QED
    BY <2>3, <2>8
<1>3. QED
  BY <1>1, <1>2

LEMMA SameNameIs ==
  ASSUME NEW a, NEW t, IsText(a), IsText(t)
  PROVE  SameName(a, t) <=> Len(a) = Len(t) /\ \A i \in 1 .. Len(a) : Cmp(a, t, i) = 0
<1>1. DOMAIN a = 1 .. Len(a) /\ Len(a) \in Nat /\ Len(t) \in Nat
  BY DEF IsText
<1>2. ASSUME Len(a) = Len(t), NEW i \in 1 .. Len(a)
      PROVE  Cmp(a, t, i) = 0 <=> my_tolower(a[i]) = my_tolower(t[i])
  <2>1. i \in Nat \ {0} /\ i <= Len(a) /\ i <= Len(t)
    BY <1>1, <1>2
  <2>2. At(a, i) = a[i] /\ At(t, i) = t[i]
    BY <2>1, AtText
  <2>3. Cmp(a, t, i) = 0 <=> my_tolower(At(a, i)) = my_tolower(At(t, i))
    BY <2>1, CmpFacts, SMTT(30)
  <2>4. QED
    BY <2>2, <2>3
<1>3. QED
  BY <1>1, <1>2 DEF SameName

\* The prefix comparison with the name of a row.
Order(i, t) == ci_cmp_prefix(Name(i), t)

LEMMA OrderFacts ==
  ASSUME NEW t, IsText(t), NEW i, IsRow(i)
  PROVE  /\ IsWord(Name(i)) /\ IsText(Name(i)) /\ Order(i, t) \in Int
         /\ SameName(Name(i), t) <=> Order(i, t) = 0 /\ Len(t) = Len(Name(i))
<1>1. IsWord(Name(i)) /\ IsText(Name(i)) /\ Len(Name(i)) \in Nat /\ Len(t) \in Nat
  BY Letters, WordIsText DEF IsText
<1>2. Order(i, t) \in Int
  <2>1. CASE Order(i, t) = 0
    BY <2>1
  <2>2. CASE \E j \in 1 .. Len(t) : Order(i, t) = Cmp(Name(i), t, j)
    <3>1. PICK j \in 1 .. Len(t) : Order(i, t) = Cmp(Name(i), t, j)
      BY <2>2
    <3>2. j \in Nat \ {0}
      BY <1>1
    <3>3. QED
      BY <1>1, <3>1, <3>2, CmpFacts
  <2>3. QED
    BY <1>1, <2>1, <2>2, CmpPrefixIs DEF Order
<1>3. Order(i, t) = 0 <=> \A j \in 1 .. Len(t) : Cmp(Name(i), t, j) = 0
  BY <1>1, CmpPrefixIs DEF Order, Differ
<1>4. QED
  BY <1>1, <1>2, <1>3, SameNameIs

LEMMA OrderOfNext ==
  ASSUME NEW t, IsText(t), NEW i \in Nat, i > 0, i < 16
  PROVE  /\ Order(i + 1, t) < 0 => Order(i, t) < 0
         /\ Order(i + 1, t) = 0 =>
              \/ Order(i, t) < 0
              \/ Order(i, t) = 0 /\ ~ SameName(Name(i), t) /\ ~ SameName(Name(i + 1), t)
<1>1. IsRow(i) /\ IsRow(i + 1)
  BY DEF IsRow
<1>2. IsWord(Name(i)) /\ IsWord(Name(i + 1)) /\ Below(Name(i), Name(i + 1))
  BY <1>1, Letters, Sorted
<1>3. Len(Name(i)) \in Nat /\ Len(Name(i + 1)) \in Nat /\ Len(t) \in Nat
  BY <1>2, WordIsText DEF IsText
<1>4. QED
  BY <1>1, <1>2, <1>3, PrefixOrder, OrderFacts DEF Order

\* The two searches enclose the rows whose names begin with the text.
LEMMA Searches ==
  ASSUME NEW t, IsText(t)
  PROVE  /\ lb_prefix(t) \in 0 .. 16 /\ ub_prefix(t) \in 0 .. 16
         /\ \A i \in Nat : i < 16 => (Order(i + 1, t) < 0 <=> i < lb_prefix(t))
         /\ \A i \in Nat : i < 16 => (Order(i + 1, t) <= 0 <=> i < ub_prefix(t))
<1> DEFINE B == {i \in Positions : ci_cmp_prefix(COMMANDS[i + 1][1], t) < 0}
           C == {i \in Positions : ci_cmp_prefix(COMMANDS[i + 1][1], t) <= 0}
<1>1. \A i \in Nat : i < 16 => i \in Positions
  BY SixteenCommands
<1>2. \A i \in Nat : i < 16 => IsRow(i + 1)
  BY DEF IsRow
<1>3. /\ \A i \in Nat : i < 16 => (i \in B <=> Order(i + 1, t) < 0)
      /\ \A i \in Nat : i < 16 => (i \in C <=> Order(i + 1, t) <= 0)
  BY <1>1 DEF Order, Name
<1> HIDE DEF B, C
<1>4. \A i \in Nat : i < 16 => Order(i + 1, t) \in Int
  BY <1>2, OrderFacts
<1>5. ASSUME NEW i \in Nat, i + 1 < 16 
      PROVE  (i + 1 \in B => i \in B) /\ (i + 1 \in C => i \in C)
  <2> DEFINE j == i + 1
  <2>1. j \in Nat /\ j > 0 /\ j < 16 /\ i < 16
    BY <1>5
  <2>2. /\ j \in B <=> Order(j + 1, t) < 0
        /\ j \in C <=> Order(j + 1, t) <= 0
        /\ i \in B <=> Order(j, t) < 0
        /\ i \in C <=> Order(j, t) <= 0
    <3>1. /\ j \in B <=> Order(j + 1, t) < 0
          /\ j \in C <=> Order(j + 1, t) <= 0
      <4> HIDE DEF j
      <4>1. QED
        BY <1>3, <2>1
    <3>2. QED
      BY <1>3, <2>1, <3>1
  <2> HIDE DEF j
  <2>3. Order(j, t) \in Int /\ Order(j + 1, t) \in Int
    <3>1. IsRow(j) /\ IsRow(j + 1)
      BY <2>1 DEF IsRow
    <3>2. QED
      BY <3>1, OrderFacts
  <2>4. /\ Order(j + 1, t) < 0 => Order(j, t) < 0
        /\ Order(j + 1, t) = 0 => Order(j, t) <= 0
    BY <2>1, <2>3, OrderOfNext
  <2>5. QED
    BY <2>2, <2>3, <2>4 DEF j
<1>6. \A K : (K = B \/ K = C) =>
        Bound(K) \in 0 .. 16 /\ \A i \in Nat : i < 16 => (i \in K <=> i < Bound(K))
  <2>1. TAKE K
  <2>2. HAVE K = B \/ K = C
  <2>3. \A i \in Nat : i + 1 < 16 /\ i + 1 \in K => i \in K
    BY <1>5, <2>2
  <2>4. PICK k \in 0 .. 16 : \A i \in Nat : i < 16 => (i \in K <=> i < k)
    BY <2>3, InitialSegment
  <2>5. \A i \in 0 .. 15 : i \in K <=> i < k
    BY <2>4
  <2>6. Bound(K) = k
    BY <2>5, BoundIs
  <2>7. QED
    BY <2>4, <2>6
<1>7. lb_prefix(t) = Bound(B) /\ ub_prefix(t) = Bound(C)
  BY DEF lb_prefix, ub_prefix, B, C
<1>8. QED
  BY <1>3, <1>6, <1>7

\* The search finds the one row whose name the text is, if there is one.
LEMMA Lookup ==
  ASSUME NEW t, IsText(t)
  PROVE  \/ /\ cr_find_cmd_idx_ci_exact(t) = -1
            /\ t = << >> \/ \A i : IsRow(i) => ~ SameName(Name(i), t)
         \/ /\ cr_find_cmd_idx_ci_exact(t) \in Nat /\ t # << >>
            /\ IsRow(cr_find_cmd_idx_ci_exact(t) + 1)
            /\ \A i : IsRow(i) =>
                 (SameName(Name(i), t) <=> i = cr_find_cmd_idx_ci_exact(t) + 1)
<1> DEFINE lo == lb_prefix(t)
           hi == ub_prefix(t)
           idx == cr_find_cmd_idx_ci_exact(t)
<1>1. /\ lo \in Nat /\ hi \in Nat /\ lo <= 16 /\ hi <= 16
      /\ \A i \in Nat : i < 16 => (Order(i + 1, t) < 0 <=> i < lo)
      /\ \A i \in Nat : i < 16 => (Order(i + 1, t) <= 0 <=> i < hi)
  BY Searches
<1>2. idx = IF \/ t = << >> \/ hi - lo # 1
               \/ Len(Name(lo + 1)) # Len(t)
               \/ ~ ci_strncmp(Name(lo + 1), t, Len(t))
            THEN -1 ELSE lo
  BY DEF cr_find_cmd_idx_ci_exact, Name
<1> HIDE DEF lo, hi, idx
\* A row whose name the text is stands alone between the two.
<1>3. ASSUME NEW i \in Nat, i < 16, SameName(Name(i + 1), t)
      PROVE  hi - lo = 1 /\ lo = i
  <2>1. Order(i + 1, t) = 0
    <3>1. IsRow(i + 1)
      BY <1>3 DEF IsRow
    <3>2. QED
      BY <1>3, <3>1, OrderFacts
  <2>2. lo <= i /\ i < hi
    BY <1>1, <1>3, <2>1
  <2>3. lo = i
    <3>1. SUFFICES ASSUME lo < i PROVE FALSE
      BY <1>1, <2>2
    <3>2. i - 1 \in Nat /\ i - 1 < 16 /\ (i - 1) + 1 = i /\ i > 0
      BY <1>1, <1>3, <3>1
    <3>3. ~ (Order(i, t) < 0)
      BY <1>1, <3>1, <3>2
    <3>4. QED
      BY <1>3, <2>1, <3>2, <3>3, OrderOfNext
  <2>4. hi = i + 1
    <3>1. SUFFICES ASSUME i + 1 < hi PROVE FALSE
      BY <1>1, <2>2
    <3> DEFINE j == i + 1
    <3>2. j \in Nat /\ j < 16 /\ j > 0 /\ j < hi /\ lo < j
      BY <1>1, <2>2, <3>1
    <3>3. Order(j, t) = 0 /\ SameName(Name(j), t)
      BY <1>3, <2>1
    <3> HIDE DEF j
    <3>4. Order(j + 1, t) <= 0 /\ ~ (Order(j + 1, t) < 0)
      BY <1>1, <3>2
    <3>5. IsRow(j + 1)
      BY <3>2 DEF IsRow
    <3>6. Order(j + 1, t) \in Int
      BY <3>5, OrderFacts
    <3>7. Order(j + 1, t) = 0
      BY <3>4, <3>6
    <3>8. QED
      BY <3>2, <3>3, <3>7, OrderOfNext
  <2>5. QED
    BY <1>1, <2>3, <2>4
<1>4. CASE idx = -1
  <2>1. SUFFICES ASSUME t # << >>, NEW i, IsRow(i), SameName(Name(i), t) PROVE FALSE
    BY <1>4 DEF idx
  <2>2. i - 1 \in Nat /\ i - 1 < 16 /\ (i - 1) + 1 = i
    BY <2>1 DEF IsRow
  <2>3. hi - lo = 1 /\ lo = i - 1
    BY <1>3, <2>1, <2>2
  <2>4. Len(Name(i)) = Len(t) /\ IsText(Name(i))
    BY <2>1, OrderFacts
  <2>5. ci_strncmp(Name(i), t, Len(t))
    BY <2>1, <2>4, SameNameIs DEF ci_strncmp, Cmp
  <2>6. Name(lo + 1) = Name(i)
    BY <2>2, <2>3
  <2>7. idx = lo
    BY <1>2, <2>1, <2>3, <2>4, <2>5, <2>6
  <2>8. QED
    BY <1>1, <1>4, <2>7
<1>5. CASE idx # -1
  <2>1. /\ idx = lo /\ t # << >> /\ hi - lo = 1 /\ Len(Name(lo + 1)) = Len(t)
        /\ ci_strncmp(Name(lo + 1), t, Len(t))
    BY <1>2, <1>5
  <2>2. lo < 16 /\ IsRow(lo + 1)
    BY <1>1, <2>1 DEF IsRow
  <2>3. SameName(Name(lo + 1), t)
    <3>1. IsText(Name(lo + 1))
      BY <2>2, OrderFacts
    <3>2. QED
      BY <2>1, <3>1, SameNameIs DEF ci_strncmp, Cmp
  <2>4. ASSUME NEW i, IsRow(i), SameName(Name(i), t) PROVE i = lo + 1
    <3>1. i - 1 \in Nat /\ i - 1 < 16 /\ (i - 1) + 1 = i
      BY <2>4 DEF IsRow
    <3>2. lo = i - 1
      BY <1>3, <2>4, <3>1
    <3>3. QED
      BY <3>1, <3>2
  <2>5. \A i : IsRow(i) => (SameName(Name(i), t) <=> i = lo + 1)
    BY <2>3, <2>4
  <2>6. QED
    BY <1>1, <2>1, <2>2, <2>5 DEF idx
<1>6. QED
  BY <1>4, <1>5

------------------------------------------------------------------------------
(* The words of a line.                                                    *)

LEMMA TextIs ==
  ASSUME NEW l, IsText(l)
  PROVE  /\ Len(l) \in Nat /\ DOMAIN l = 1 .. Len(l) /\ l \in Seq(Characters)
         /\ \A i \in 1 .. Len(l) : l[i] \in Characters
BY DEF IsText

\* Where a scan stops.
LEMMA ScanIs ==
  ASSUME NEW l, IsText(l), NEW i \in Nat \ {0}, i <= Len(l) + 1,
         NEW b \in BOOLEAN
  PROVE  /\ Scan(l, i, b) \in Nat /\ i <= Scan(l, i, b) /\ Scan(l, i, b) <= Len(l) + 1
         /\ \A k \in i .. Scan(l, i, b) - 1 : (l[k] = SPACE) = b
         /\ Scan(l, i, b) > Len(l) \/ (l[Scan(l, i, b)] = SPACE) # b
<1> DEFINE T == {j \in i .. Len(l) + 1 : j > Len(l) \/ (l[j] = SPACE) # b}
           Is(j) == /\ \A k \in i .. j - 1 : (l[k] = SPACE) = b
                    /\ j > Len(l) \/ (l[j] = SPACE) # b
<1>1. Len(l) \in Nat
  BY TextIs
<1>2. T \in SUBSET Nat /\ Len(l) + 1 \in T
  BY <1>1
<1>3. PICK m \in T : \A j \in T : m <= j
  BY <1>2, LeastNumber
<1>4. \A k \in i .. m - 1 : (l[k] = SPACE) = b
  <2>1. TAKE k \in i .. m - 1
  <2>2. k \notin T /\ k \in i .. Len(l) + 1
    BY <1>1, <1>3
  <2>3. QED
    BY <2>2
<1>5. m \in i .. Len(l) + 1 /\ Is(m)
  BY <1>3, <1>4
<1>6. Scan(l, i, b) = CHOOSE j \in i .. Len(l) + 1 : Is(j)
  BY DEF Scan
<1> HIDE DEF Is
<1>7. Scan(l, i, b) \in i .. Len(l) + 1 /\ Is(Scan(l, i, b))
  BY <1>5, <1>6
<1>8. QED
  BY <1>1, <1>7 DEF Is

\* From i to j the line has only blanks, or none, and at j it has not or ends.
BlanksTo(l, i, j) ==
  /\ j \in Nat /\ i <= j /\ j <= Len(l) + 1
  /\ \A k \in i .. j - 1 : l[k] = SPACE
  /\ j > Len(l) \/ l[j] # SPACE

WordTo(l, i, j) ==
  /\ j \in Nat /\ i <= j /\ j <= Len(l) + 1
  /\ \A k \in i .. j - 1 : l[k] # SPACE
  /\ j > Len(l) \/ l[j] = SPACE

LEMMA Skips ==
  ASSUME NEW l, IsText(l), NEW i \in Nat \ {0}, i <= Len(l) + 1
  PROVE  BlanksTo(l, i, Scan(l, i, TRUE)) /\ WordTo(l, i, Scan(l, i, FALSE))
<1>1. BlanksTo(l, i, Scan(l, i, TRUE))
  <2>1. TRUE \in BOOLEAN
    OBVIOUS
  <2>2. QED
    BY <2>1, ScanIs DEF BlanksTo
<1>2. WordTo(l, i, Scan(l, i, FALSE))
  <2>1. FALSE \in BOOLEAN
    OBVIOUS
  <2>2. QED
    BY <2>1, ScanIs DEF WordTo
<1>3. QED
  BY <1>1, <1>2

LEMMA EdgesAreFinite ==
  ASSUME NEW l, IsText(l)
  PROVE  /\ Starts(l) \in SUBSET Nat /\ Ends(l) \in SUBSET Nat
         /\ IsFiniteSet(Starts(l)) /\ IsFiniteSet(Ends(l))
<1>1. Len(l) \in Nat /\ DOMAIN l = 1 .. Len(l)
  BY TextIs
<1>2. IsFiniteSet(1 .. Len(l))
  BY <1>1, FS_Interval
<1>3. Starts(l) \in SUBSET (1 .. Len(l)) /\ Ends(l) \in SUBSET (1 .. Len(l))
  BY <1>1 DEF Starts, Ends
<1>4. QED
  BY <1>1, <1>2, <1>3, FS_Subset

\* How many members of S are below i.
Before(S, i) == Cardinality({j \in S : j < i})

LEMMA KthIs ==
  ASSUME NEW S \in SUBSET Nat, IsFiniteSet(S), NEW i \in S
  PROVE  Kth(S, Before(S, i) + 1) = i
<1> DEFINE Upto(j) == {x \in S : x <= j}
           k == Before(S, i) + 1
<1>0. \A x \in S : x \in Int
  OBVIOUS
<1>1. Cardinality(Upto(i)) = k
  <2> DEFINE B == {x \in S : x < i}
  <2>1. IsFiniteSet(B)
    BY FS_Subset
  <2>2. Upto(i) = B \cup {i} /\ i \notin B
    <3>1. i \in Int /\ i \in S /\ ~(i < i)
      BY <1>0
    <3>2. \A x \in S : x <= i <=> x < i \/ x = i
      BY <1>0, <3>1
    <3>3. \A x : x \in Upto(i) <=> x \in B \cup {i}
      BY <3>1, <3>2
    <3>4. i \notin B
      BY <3>1
    <3> HIDE DEF B, Upto
    <3>5. QED
      BY <3>3, <3>4
  <2> HIDE DEF B
  <2>3. Cardinality(Upto(i)) = Cardinality(B) + 1
    BY <2>1, <2>2, FS_AddElement
  <2>4. QED
    BY <2>3 DEF Before, B
<1>2. ASSUME NEW j \in S, Cardinality(Upto(j)) = k PROVE j = i
  <2>1. \A x \in S, y \in S : x < y => Cardinality(Upto(x)) # Cardinality(Upto(y))
    <3>1. TAKE x \in S, y \in S
    <3>2. HAVE x < y
    <3>3. IsFiniteSet(Upto(y))
      BY FS_Subset
    <3>4. Upto(x) \in SUBSET Upto(y) /\ y \in Upto(y) /\ y \notin Upto(x)
      <4>1. y <= y /\ ~(y <= x) /\ \A z \in S : z <= x => z <= y
        BY <1>0, <3>2
      <4>2. QED
        BY <4>1
    <3> HIDE DEF Upto
    <3>5. QED
      BY <3>3, <3>4, FS_Subset
  <2>2. ~(i < j) /\ ~(j < i)
    BY <1>1, <1>2, <2>1
  <2>3. QED
    BY <1>0, <2>2
<1>3. Kth(S, k) = CHOOSE j \in S : Cardinality(Upto(j)) = k
  BY DEF Kth
<1> HIDE DEF Upto, k
<1>4. QED
  BY <1>1, <1>2, <1>3 DEF k

\* The scan stands at p, where a word begins or the line ends, after k words.
StandsAt(l, p, k) ==
  /\ p \in Nat \ {0} /\ p <= Len(l) + 1 /\ k \in Nat
  /\ p <= Len(l) => p \in Starts(l)
  /\ Before(Starts(l), p) = k /\ Before(Ends(l), p) = k

LEMMA StartOrEnd ==
  ASSUME NEW l, IsText(l), NEW i
  PROVE  /\ i \in Starts(l) <=> /\ i \in 1 .. Len(l) /\ l[i] # SPACE
                                /\ i = 1 \/ l[i - 1] = SPACE
         /\ i \in Ends(l) <=> /\ i \in 1 .. Len(l) /\ l[i] # SPACE
                              /\ i = Len(l) \/ l[i + 1] = SPACE
BY TextIs DEF Starts, Ends

LEMMA StandsAtFirst ==
  ASSUME NEW l, IsText(l)
  PROVE  StandsAt(l, Scan(l, 1, TRUE), 0)
<1> DEFINE p == Scan(l, 1, TRUE)
<1>1. Len(l) \in Nat
  BY TextIs
<1>2. /\ p \in Nat /\ 1 <= p /\ p <= Len(l) + 1
      /\ \A k \in 1 .. p - 1 : l[k] = SPACE
      /\ p > Len(l) \/ l[p] # SPACE
  <2> DEFINE i == 1
  <2>1. i \in Nat \ {0} /\ i <= Len(l) + 1
    BY <1>1
  <2> HIDE DEF i
  <2>2. BlanksTo(l, i, Scan(l, i, TRUE))
    BY <2>1, Skips
  <2>3. QED
    BY <2>2 DEF BlanksTo, i
<1> HIDE DEF p
<1>3. p <= Len(l) => p \in Starts(l)
  BY <1>1, <1>2, StartOrEnd
<1>4. {j \in Starts(l) : j < p} = {} /\ {j \in Ends(l) : j < p} = {}
  BY <1>1, <1>2, StartOrEnd
<1>5. Before(Starts(l), p) = 0 /\ Before(Ends(l), p) = 0
  BY <1>4, FS_EmptySet DEF Before
<1>6. StandsAt(l, p, 0)
  BY <1>2, <1>3, <1>5 DEF StandsAt
<1>7. QED
  BY <1>6 DEF p

\* One word further.
LEMMA StandsAtNext ==
  ASSUME NEW l, IsText(l), NEW p, NEW k, StandsAt(l, p, k), p <= Len(l)
  PROVE  LET e == Scan(l, p, FALSE)
         IN /\ e \in Nat /\ p < e /\ e <= Len(l) + 1
            /\ p = Kth(Starts(l), k + 1) /\ e - 1 = Kth(Ends(l), k + 1)
            /\ StandsAt(l, Scan(l, e, TRUE), k + 1)
            /\ k + 1 <= Cardinality(Starts(l))
<1> DEFINE e == Scan(l, p, FALSE)
           q == Scan(l, e, TRUE)
<1>1. Len(l) \in Nat /\ p \in Nat \ {0} /\ k \in Nat /\ p \in Starts(l) /\ l[p] # SPACE
  BY TextIs, StartOrEnd DEF StandsAt
<1>2. /\ e \in Nat /\ p <= e /\ e <= Len(l) + 1
      /\ \A j \in p .. e - 1 : l[j] # SPACE
      /\ e > Len(l) \/ l[e] = SPACE
  <2>1. p <= Len(l) + 1
    BY <1>1
  <2>2. WordTo(l, p, e)
    BY <1>1, <2>1, Skips
  <2>3. QED
    BY <2>2 DEF WordTo
<1> HIDE DEF e
<1>3. e # p
  BY <1>1, <1>2
<1>4. e \in Nat \ {0} /\ p < e
  BY <1>1, <1>2, <1>3
<1>5. /\ q \in Nat /\ e <= q /\ q <= Len(l) + 1
      /\ \A j \in e .. q - 1 : l[j] = SPACE
      /\ q > Len(l) \/ l[q] # SPACE
  <2> HIDE DEF e
  <2>1. BlanksTo(l, e, q)
    BY <1>2, <1>4, Skips
  <2>2. QED
    BY <2>1 DEF BlanksTo
<1> HIDE DEF e, q
<1>6. q <= Len(l) => q \in Starts(l)
  <2>1. SUFFICES ASSUME q <= Len(l) PROVE q \in Starts(l)
    OBVIOUS
  <2>2. l[q] # SPACE /\ l[e] = SPACE
    BY <1>1, <1>2, <1>5, <2>1
  <2>3. e < q
    BY <1>2, <1>5, <2>2
  <2>4. l[q - 1] = SPACE
    BY <1>2, <1>5, <2>3
  <2>5. QED
    <3>1. q \in Nat \ {0}
      BY <1>4, <1>5
    <3>2. QED
      BY <2>1, <2>2, <2>4, <3>1, StartOrEnd, SMTT(30)
<1>7. {j \in Starts(l) : j < q} = {j \in Starts(l) : j < p} \cup {p}
  <2>1. ASSUME NEW j \in Starts(l), j < q, p < j PROVE FALSE
    <3>1. j \in Nat /\ l[j] # SPACE /\ l[j - 1] = SPACE
      BY <1>1, <2>1, StartOrEnd
    <3>2. CASE j < e
      BY <1>1, <1>2, <2>1, <3>1, <3>2
    <3>3. CASE j >= e
      BY <1>2, <1>5, <2>1, <3>1, <3>3
    <3>4. QED
      BY <1>2, <3>1, <3>2, <3>3
  <2>2. p < q
    BY <1>1, <1>4, <1>5
  <2>3. \A j \in Starts(l) : j \in Nat
    BY EdgesAreFinite
  <2>4. \A j \in Starts(l) : j < q <=> j < p \/ j = p
    BY <1>1, <1>5, <2>1, <2>2, <2>3
  <2>5. QED
    BY <1>1, <2>4
<1>8. e - 1 \in Ends(l) /\ e - 1 \in Nat
  BY <1>1, <1>2, <1>4, StartOrEnd
<1>9. /\ {j \in Ends(l) : j < q} = {j \in Ends(l) : j < p} \cup {e - 1}
      /\ {j \in Ends(l) : j < e - 1} = {j \in Ends(l) : j < p}
  <2>1. ASSUME NEW j \in Ends(l), j < q, p <= j PROVE j = e - 1
    <3>1. j \in Nat /\ j <= Len(l) /\ l[j] # SPACE /\ (j = Len(l) \/ l[j + 1] = SPACE)
      BY <1>1, <2>1, StartOrEnd
    <3>2. ~(j >= e)
      BY <1>2, <1>5, <2>1, <3>1
    <3>3. ~(j + 1 < e)
      <4>1. SUFFICES ASSUME j + 1 < e PROVE FALSE
        OBVIOUS
      <4>2. l[j + 1] # SPACE
        BY <1>1, <1>2, <2>1, <3>1, <4>1
      <4>3. j # Len(l)
        BY <1>1, <1>2, <4>1
      <4>4. QED
        BY <3>1, <4>2, <4>3
    <3>4. QED
      BY <1>2, <3>1, <3>2, <3>3
  <2>2. \A j \in Ends(l) : j \in Nat
    BY EdgesAreFinite
  <2>3. p <= e - 1 /\ e - 1 < q
    BY <1>1, <1>4, <1>5
  <2>4. QED
    BY <1>1, <1>5, <1>8, <2>1, <2>2, <2>3
<1>10. Before(Starts(l), p) = k /\ Before(Ends(l), p) = k
  BY DEF StandsAt
<1>11. Before(Starts(l), q) = k + 1
  <2> DEFINE B == {j \in Starts(l) : j < p}
  <2>1. IsFiniteSet(B) /\ p \notin B
    BY <1>1, EdgesAreFinite, FS_Subset
  <2>2. Cardinality(B) = k
    BY <1>10 DEF Before
  <2>3. Before(Starts(l), q) = Cardinality(B \cup {p})
    BY <1>7 DEF Before
  <2> HIDE DEF B
  <2>4. QED
    BY <2>1, <2>2, <2>3, FS_AddElement
<1>12. Before(Ends(l), q) = k + 1 /\ Before(Ends(l), e - 1) = k
  <2> DEFINE B == {j \in Ends(l) : j < p}
  <2>1. IsFiniteSet(B) /\ e - 1 \notin B
    BY <1>1, <1>4, EdgesAreFinite, FS_Subset
  <2>2. Cardinality(B) = k
    BY <1>10 DEF Before
  <2>3. Before(Ends(l), q) = Cardinality(B \cup {e - 1}) /\ Before(Ends(l), e - 1) = Cardinality(B)
    BY <1>9 DEF Before
  <2> HIDE DEF B
  <2>4. QED
    BY <2>1, <2>2, <2>3, FS_AddElement
<1>13. p = Kth(Starts(l), k + 1) /\ e - 1 = Kth(Ends(l), k + 1)
  BY <1>1, <1>8, <1>10, <1>12, KthIs, EdgesAreFinite
<1>14. StandsAt(l, q, k + 1)
  BY <1>1, <1>4, <1>5, <1>6, <1>11, <1>12 DEF StandsAt
<1>15. k + 1 <= Cardinality(Starts(l))
  <2>1. {j \in Starts(l) : j < q} \in SUBSET Starts(l)
    OBVIOUS
  <2>2. Cardinality({j \in Starts(l) : j < q}) = k + 1
    BY <1>11 DEF Before
  <2>3. QED
    BY <2>1, <2>2, EdgesAreFinite, FS_Subset
<1>16. QED
  BY <1>2, <1>4, <1>13, <1>14, <1>15 DEF e, q

\* At the end of the line all the words are behind.
LEMMA StandsAtLast ==
  ASSUME NEW l, IsText(l), NEW p, NEW k, StandsAt(l, p, k), p > Len(l)
  PROVE  Cardinality(Starts(l)) = k
<1>1. \A j \in Starts(l) : j < p
  BY TextIs, StartOrEnd DEF StandsAt
<1>2. {j \in Starts(l) : j < p} = Starts(l)
  BY <1>1
<1>3. QED
  BY <1>2 DEF StandsAt, Before

Texts == Seq(Characters)

LEMMA WordsAre ==
  ASSUME NEW l, IsText(l)
  PROVE  /\ Cardinality(Starts(l)) \in Nat /\ Len(WordsOf(l)) = Cardinality(Starts(l))
         /\ \A k \in 1 .. Cardinality(Starts(l)) :
              WordsOf(l)[k] = SubSeq(l, Kth(Starts(l), k), Kth(Ends(l), k))
<1> DEFINE n == Cardinality(Starts(l))
<1>1. n \in Nat
  BY EdgesAreFinite, FS_CardinalityType
<1> HIDE DEF n
<1>2. WordsOf(l) = [k \in 1 .. n |-> SubSeq(l, Kth(Starts(l), k), Kth(Ends(l), k))]
  BY DEF WordsOf, n
<1>3. Len(WordsOf(l)) = n
  BY <1>1, <1>2
<1>4. QED
  BY <1>1, <1>2, <1>3 DEF n

\* The scan and the tokens, which are the first words of the line.
Scanning(l) ==
  {scan \in Nat \X Seq(Texts) :
     /\ StandsAt(l, scan[1], Len(scan[2]))
     /\ Len(scan[2]) <= Len(WordsOf(l))
     /\ \A m \in 1 .. Len(scan[2]) : scan[2][m] = WordsOf(l)[m]}

LEMMA ScanningIs ==
  ASSUME NEW l, NEW p \in Nat, NEW argv \in Seq(Texts), StandsAt(l, p, Len(argv)),
         Len(argv) <= Len(WordsOf(l)), \A m \in 1 .. Len(argv) : argv[m] = WordsOf(l)[m]
  PROVE  <<p, argv>> \in Scanning(l)
BY DEF Scanning

LEMMA TakeTokenKeeps ==
  ASSUME NEW l, IsText(l), NEW scan \in Scanning(l)
  PROVE  /\ TakeToken(l, scan) \in Scanning(l)
         /\ scan[1] > Len(l) => TakeToken(l, scan) = scan
         /\ scan[1] <= Len(l) => Len(TakeToken(l, scan)[2]) = Len(scan[2]) + 1
<1> DEFINE p    == scan[1]
           argv == scan[2]
           k    == Len(argv)
           e    == Scan(l, p, FALSE)
           q    == Scan(l, e, TRUE)
           w    == SubSeq(l, p, e - 1)
<1>1. /\ scan = <<p, argv>> /\ p \in Nat /\ argv \in Seq(Texts)
      /\ StandsAt(l, p, k) /\ k <= Len(WordsOf(l))
      /\ \A m \in 1 .. k : argv[m] = WordsOf(l)[m]
  BY DEF Scanning
<1>2. Len(l) \in Nat /\ k \in Nat
  BY <1>1, TextIs
<1>3. CASE p > Len(l)
  <2>1. TakeToken(l, scan) = scan
    BY <1>3 DEF TakeToken
  <2>2. QED
    BY <1>2, <1>3, <1>1, <2>1
<1>4. CASE p <= Len(l)
  <2>0. TakeToken(l, scan) = IF p > Len(l) THEN scan ELSE <<q, Append(argv, w)>>
    BY DEF TakeToken
  <2>1. TakeToken(l, scan) = <<q, Append(argv, w)>>
    <3> HIDE DEF p, q, argv, w
    <3>1. ~(p > Len(l))
      BY <1>1, <1>2, <1>4
    <3>2. QED
      BY <2>0, <3>1
  <2> HIDE DEF p, argv, k
  <2>2. /\ e \in Nat /\ p < e /\ e <= Len(l) + 1
        /\ p = Kth(Starts(l), k + 1) /\ e - 1 = Kth(Ends(l), k + 1)
        /\ StandsAt(l, q, k + 1)
        /\ k + 1 <= Cardinality(Starts(l))
    BY <1>1, <1>4, StandsAtNext
  <2>3. p \in Nat /\ p > 0
    BY <1>1 DEF StandsAt
  <2> HIDE DEF e, q
  <2>4. w \in Texts
    <3>1. \A i \in p .. e - 1 : l[i] \in Characters
      BY <1>2, <2>2, <2>3, TextIs
    <3>2. p \in Int /\ e - 1 \in Int
      BY <2>2, <2>3
    <3>3. QED
      BY <3>1, <3>2, SubSeqProperties DEF Texts
  <2>5. w = WordsOf(l)[k + 1]
    BY <1>2, <2>2, WordsAre
  <2> HIDE DEF w
  <2> DEFINE argw == Append(argv, w)
  <2>6. /\ argw \in Seq(Texts) /\ Len(argw) = k + 1
        /\ \A m \in 1 .. k : argw[m] = argv[m]
        /\ argw[k + 1] = w
    BY <1>1, <2>4, AppendProperties DEF k
  <2> HIDE DEF argw
  <2>7. \A m \in 1 .. Len(argw) : argw[m] = WordsOf(l)[m]
    BY <1>1, <1>2, <2>5, <2>6
  <2>8. q \in Nat
    BY <2>2 DEF StandsAt
  <2>9. <<q, argw>> \in Scanning(l)
    BY <2>2, <2>6, <2>7, <2>8, WordsAre, ScanningIs
  <2>10. TakeToken(l, scan) = <<q, argw>>
    BY <2>1 DEF argw
  <2>11. <<q, argw>>[2] = argw
    OBVIOUS
  <2>12. Len(TakeToken(l, scan)[2]) = k + 1
    BY <2>6, <2>10, <2>11
  <2>13. ~(p > Len(l))
    BY <1>1, <1>2, <1>4
  <2>14. TakeToken(l, scan) \in Scanning(l)
    BY <2>9, <2>10
  <2>15. QED
    BY <2>12, <2>13, <2>14 DEF k, argv, p
<1>5. QED
  BY <1>1, <1>2, <1>3, <1>4

\* The arguments are the first words, as many as there is room for.
LEMMA Tokens ==
  ASSUME NEW l, IsText(l)
  PROVE  /\ simple_tokenize(l) \in Seq(Texts)
         /\ simple_tokenize(l) = First(WordsOf(l), MaxArgs - 1)
         /\ Len(simple_tokenize(l)) = IF Len(WordsOf(l)) < MaxArgs - 1
                                      THEN Len(WordsOf(l)) ELSE MaxArgs - 1
         /\ \A m \in 1 .. Len(simple_tokenize(l)) :
              simple_tokenize(l)[m] = WordsOf(l)[m]
<1> DEFINE N == MaxArgs - 1
           S == Scanning(l)
           F == [i \in 1 .. N |-> [v \in S |-> TakeToken(l, v)]]
           a == <<Scan(l, 1, TRUE), << >> >>
<1>0. N \in Nat /\ N > 0 /\ Len(WordsOf(l)) \in Nat
  BY LookupAssumption, WordsAre
<1>1. a \in S
  <2>1. StandsAt(l, Scan(l, 1, TRUE), 0)
    BY StandsAtFirst
  <2>2. Scan(l, 1, TRUE) \in Nat
    BY <2>1 DEF StandsAt
  <2> DEFINE none == << >>
  <2>3. none \in Seq(Texts) /\ Len(none) = 0
    BY EmptySeq
  <2> HIDE DEF none
  <2>4. \A m \in 1 .. Len(none) : none[m] = WordsOf(l)[m]
    BY <2>3
  <2> DEFINE p == Scan(l, 1, TRUE)
  <2>5. p \in Nat /\ StandsAt(l, p, 0)
    BY <2>1, <2>2
  <2> HIDE DEF p
  <2>6. <<p, none>> \in Scanning(l)
    <3>1. StandsAt(l, p, Len(none)) /\ Len(none) <= Len(WordsOf(l))
      BY <1>0, <2>3, <2>5
    <3>2. QED
      BY <2>3, <2>4, <2>5, <3>1, ScanningIs
  <2>7. QED
    BY <2>6 DEF none, p
<1> HIDE DEF N
<1>2. /\ F \in [1 .. N -> [S -> S]]
      /\ \A i \in 1 .. N, v \in S : F[i][v] = TakeToken(l, v)
  <2>1. \A v \in S : TakeToken(l, v) \in S
    BY TakeTokenKeeps
  <2> HIDE DEF S
  <2>2. QED
    BY <2>1
<1> HIDE DEF F, S, a
<1>3. PICK g : Follows(g, F, N, a, S)
  <2>1. MapsWithin(F, N, a, S)
    BY <1>0, <1>1, <1>2 DEF MapsWithin
  <2>2. QED
    BY <2>1, Recursion
<1> DEFINE IsAfter(f) ==
             f = [n \in 0 .. N |-> IF n = 0 THEN a ELSE TakeToken(l, f[n - 1])]
           after == CHOOSE f : IsAfter(f)
<1>4. IsAfter(g)
  <2>1. \A n \in 0 .. N : g[n] = IF n = 0 THEN a ELSE TakeToken(l, g[n - 1])
    <3>1. TAKE n \in 0 .. N
    <3>2. CASE n = 0
      BY <1>3, <3>2 DEF Follows
    <3>3. CASE n # 0
      <4>1. n \in 1 .. N /\ n - 1 \in 0 .. N
        BY <1>0, <3>3
      <4>2. g[n - 1] \in S
        BY <1>3, <4>1 DEF Follows
      <4>3. QED
        BY <1>2, <1>3, <3>3, <4>1, <4>2 DEF Follows
    <3>4. QED
      BY <3>2, <3>3
  <2>2. g = [n \in 0 .. N |-> g[n]]
    BY <1>3 DEF Follows
  <2>3. QED
    BY <2>1, <2>2
<1>5. IsAfter(after)
  BY <1>4
<1>6. simple_tokenize(l) = after[N][2]
  BY DEF simple_tokenize, N, a
<1> HIDE DEF after
<1>7. after[0] = a /\ \A n \in 1 .. N : after[n] = TakeToken(l, after[n - 1])
  BY <1>0, <1>5
<1> DEFINE T == {n \in 0 .. N : /\ after[n] \in S /\ Len(after[n][2]) <= n
                                /\ after[n][1] <= Len(l) => Len(after[n][2]) = n}
<1>8. 0 \in T
  <2>1. after[0] \in S /\ Len(after[0][2]) = 0
    BY <1>1, <1>7 DEF a
  <2>2. QED
    BY <1>0, <2>1
<1>9. ASSUME NEW n \in 1 .. N, n - 1 \in T PROVE n \in T
  <2> DEFINE r == after[n - 1]
             s == TakeToken(l, r)
  <2>1. after[n] = s
    BY <1>7
  <2>2. /\ r \in S /\ Len(r[2]) <= n - 1
        /\ r[1] <= Len(l) => Len(r[2]) = n - 1
    BY <1>9
  <2> HIDE DEF r
  <2>3. /\ s \in S
        /\ r[1] > Len(l) => s = r
        /\ r[1] <= Len(l) => Len(s[2]) = Len(r[2]) + 1
    BY <2>2, TakeTokenKeeps DEF S
  <2> HIDE DEF s
  <2>4. r[1] \in Nat /\ Len(r[2]) \in Nat /\ Len(l) \in Nat
    BY <2>2, TextIs DEF S, Scanning
  <2>5. Len(s[2]) <= n /\ (s[1] <= Len(l) => Len(s[2]) = n)
    <3>1. CASE r[1] > Len(l)
      <4>0. s = r
        BY <2>3, <3>1
      <4>1. ~(s[1] <= Len(l)) /\ Len(s[2]) <= n - 1 /\ Len(s[2]) \in Nat
        BY <2>2, <2>4, <3>1, <4>0
      <4>2. QED
        BY <1>0, <4>1
    <3>2. CASE r[1] <= Len(l)
      <4>1. Len(r[2]) = n - 1 /\ Len(s[2]) = Len(r[2]) + 1
        BY <2>2, <2>3, <3>2
      <4>2. Len(s[2]) = n
        BY <1>0, <4>1
      <4>3. QED
        BY <1>0, <4>2
    <3>3. QED
      BY <2>4, <3>1, <3>2
  <2>6. n \in 0 .. N
    BY <1>0
  <2>7. /\ after[n] \in S /\ Len(after[n][2]) <= n
        /\ after[n][1] <= Len(l) => Len(after[n][2]) = n
    BY <2>1, <2>3, <2>5
  <2>8. QED
    BY <2>6, <2>7
<1>10. N \in T
  <2> HIDE DEF T
  <2>1. \A n \in 0 .. N : n \in T
    BY <1>0, <1>8, <1>9, UpTo
  <2>2. QED
    BY <1>0, <2>1
<1> DEFINE argv == simple_tokenize(l)
           p == after[N][1]
<1>11. /\ argv \in Seq(Texts) /\ StandsAt(l, p, Len(argv)) /\ Len(argv) \in Nat
       /\ Len(argv) <= Len(WordsOf(l)) /\ Len(argv) <= N
       /\ p <= Len(l) => Len(argv) = N
       /\ \A m \in 1 .. Len(argv) : argv[m] = WordsOf(l)[m]
  BY <1>6, <1>10 DEF S, Scanning
<1> HIDE DEF argv, p
<1>12. Len(argv) = IF Len(WordsOf(l)) < N THEN Len(WordsOf(l)) ELSE N
  <2>1. CASE p <= Len(l)
    BY <1>0, <1>11, <2>1
  <2>2. CASE p > Len(l)
    BY <1>0, <1>11, <2>2, StandsAtLast, WordsAre
  <2>3. p \in Nat /\ Len(l) \in Nat
    BY <1>11, TextIs DEF StandsAt
  <2>4. QED
    BY <2>1, <2>2, <2>3
<1>13. argv = First(WordsOf(l), N)
  <2> DEFINE n == Len(argv)
             f == SubSeq(WordsOf(l), 1, n)
  <2>1. \A m \in 1 .. n : WordsOf(l)[m] \in Texts
    BY <1>11
  <2>2. f \in Seq(Texts) /\ Len(f) = n /\ \A m \in 1 .. n : f[m] = WordsOf(l)[m]
    <3> DEFINE i == 1
    <3>1. i \in Int /\ n \in Int /\ \A m \in i .. n : WordsOf(l)[m] \in Texts
      BY <1>11, <2>1
    <3> HIDE DEF i, n
    <3>2. /\ SubSeq(WordsOf(l), i, n) \in Seq(Texts)
          /\ Len(SubSeq(WordsOf(l), i, n)) = IF i <= n THEN n - i + 1 ELSE 0
          /\ \A m \in 1 .. n - i + 1 : SubSeq(WordsOf(l), i, n)[m] = WordsOf(l)[i + m - 1]
      BY <3>1, SubSeqProperties
    <3>3. n \in Nat
      BY <1>11 DEF n
    <3>4. QED
      BY <3>2, <3>3 DEF i
  <2>3. f = argv
    BY <1>11, <2>2, SeqEqual
  <2>4. First(WordsOf(l), N) = f
    BY <1>12 DEF First
  <2>5. QED
    BY <2>3, <2>4
<1>14. QED
  BY <1>11, <1>12, <1>13 DEF argv, N

\* The first token is the first word.
LEMMA FirstToken ==
  ASSUME NEW l, IsText(l)
  PROVE  /\ IsText(cr_first_token(l))
         /\ cr_first_token(l) = << >> <=> WordsOf(l) = << >>
         /\ cr_first_token(l) # << >> =>
              Len(WordsOf(l)) > 0 /\ cr_first_token(l) = WordsOf(l)[1]
<1> DEFINE p == Scan(l, 1, TRUE)
           e == Scan(l, p, FALSE)
           w == SubSeq(l, p, e - 1)
<1>1. cr_first_token(l) = w
  BY DEF cr_first_token
<1>2. StandsAt(l, p, 0) /\ Len(l) \in Nat
  BY StandsAtFirst, TextIs
<1>3. p \in Nat \ {0} /\ p <= Len(l) + 1
  BY <1>2 DEF StandsAt
<1>4. Cardinality(Starts(l)) \in Nat /\ Len(WordsOf(l)) = Cardinality(Starts(l))
  BY WordsAre
<1>5. Len(WordsOf(l)) = 0 <=> WordsOf(l) = << >>
  BY <1>4, WordsAre DEF WordsOf
<1> HIDE DEF p
<1>6. CASE p > Len(l)
  <2>1. Cardinality(Starts(l)) = 0
    BY <1>2, <1>6, StandsAtLast
  <2>2. WordTo(l, p, e)
    BY <1>3, Skips
  <2> HIDE DEF e
  <2>3. e = p /\ e \in Nat
    BY <1>2, <1>3, <1>6, <2>2 DEF WordTo
  <2>4. w = << >>
    <3>1. e - 1 \in Int /\ p \in Int /\ e - 1 < p
      BY <1>3, <2>3
    <3>2. QED
      BY <3>1, SubSeqEmpty
  <2>5. IsText(cr_first_token(l)) /\ cr_first_token(l) = << >>
    BY <1>1, <2>4, EmptySeq DEF IsText
  <2>6. QED
    BY <1>4, <1>5, <2>1, <2>5
<1>7. CASE p <= Len(l)
  <2> DEFINE k == 0
  <2>1. StandsAt(l, p, k)
    BY <1>2
  <2> HIDE DEF k
  <2>2. /\ e \in Nat /\ p < e /\ e <= Len(l) + 1
        /\ p = Kth(Starts(l), k + 1) /\ e - 1 = Kth(Ends(l), k + 1)
        /\ k + 1 <= Cardinality(Starts(l))
    BY <1>7, <2>1, StandsAtNext
  <2> DEFINE one == k + 1
  <2>3. one = 1
    BY DEF k
  <2> HIDE DEF e
  <2>4. w = WordsOf(l)[1] /\ 1 <= Cardinality(Starts(l))
    <3>1. /\ p = Kth(Starts(l), one) /\ e - 1 = Kth(Ends(l), one)
          /\ one <= Cardinality(Starts(l))
      BY <2>2
    <3> HIDE DEF one
    <3>2. one \in 1 .. Cardinality(Starts(l))
      BY <1>4, <2>3, <3>1
    <3>3. w = WordsOf(l)[one]
      BY <3>1, <3>2, WordsAre
    <3>4. QED
      BY <2>3, <3>1, <3>3
  <2>5. w \in Texts /\ Len(w) > 0
    <3>1. \A i \in p .. e - 1 : l[i] \in Characters
      BY <1>2, <1>3, <2>2, TextIs
    <3>2. p \in Int /\ e - 1 \in Int /\ p <= e - 1
      BY <1>3, <2>2
    <3>3. QED
      BY <3>1, <3>2, SubSeqProperties DEF Texts
  <2> HIDE DEF w
  <2>6. w # << >>
    BY <2>5
  <2>7. QED
    BY <1>1, <1>4, <1>5, <2>4, <2>5, <2>6 DEF IsText, Texts
<1>8. QED
  BY <1>2, <1>3, <1>6, <1>7

------------------------------------------------------------------------------
(* The search for an entry of help.                                        *)

LEMMA StrCmpIs ==
  ASSUME NEW a, NEW t, IsText(a), IsText(t)
  PROVE  \/ ci_strcmp(a, t) = 0 /\ SameName(a, t)
         \/ \E i \in Nat : Differ(a, t, i) /\ ci_strcmp(a, t) = Cmp(a, t, i)
<1> DEFINE n == Len(a)
           Is(i) == /\ Compare(At(a, i), At(t, i)) # 0 \/ i = n + 1
                    /\ \A j \in 1 .. i - 1 : Compare(At(a, j), At(t, j)) = 0
           m == CHOOSE i \in 1 .. n + 1 : Is(i)
<1>1. n \in Nat /\ Len(t) \in Nat
  BY TextIs
<1> HIDE DEF n
<1>2. \E i \in 1 .. n + 1 : Is(i)
  <2>1. CASE \A i \in 1 .. n : Cmp(a, t, i) = 0
    <3>1. n + 1 \in 1 .. n + 1 /\ (n + 1) - 1 = n
      BY <1>1
    <3>2. Is(n + 1)
      BY <2>1, <3>1 DEF Cmp
    <3>3. QED
      BY <3>1, <3>2
  <2>2. CASE \E i \in 1 .. n : Differ(a, t, i)
    <3>1. PICK i \in 1 .. n : Differ(a, t, i)
      BY <2>2
    <3>2. Is(i) /\ i \in 1 .. n + 1
      BY <1>1, <3>1 DEF Differ, Cmp
    <3>3. QED
      BY <3>2
  <2>3. QED
    BY <1>1, <2>1, <2>2, DifferSomewhere
<1>3. ci_strcmp(a, t) = Compare(At(a, m), At(t, m))
  BY DEF ci_strcmp, n
<1>4. m \in 1 .. n + 1 /\ Is(m)
  BY <1>2
<1> HIDE DEF m
<1>5. /\ m \in Nat \ {0} /\ m <= n + 1 /\ ci_strcmp(a, t) = Cmp(a, t, m)
      /\ Cmp(a, t, m) # 0 \/ m = n + 1
      /\ \A j \in 1 .. m - 1 : Cmp(a, t, j) = 0
  BY <1>1, <1>3, <1>4 DEF Cmp
<1>6. CASE Cmp(a, t, m) # 0
  BY <1>5, <1>6 DEF Differ
<1>7. CASE Cmp(a, t, m) = 0
  <2>1. m = n + 1 /\ \A j \in 1 .. n : Cmp(a, t, j) = 0
    BY <1>1, <1>5, <1>7
  <2>2. m > Len(t)
    <3>1. m > Len(a)
      BY <1>1, <2>1 DEF n
    <3>2. my_tolower(At(a, m)) = 0
      BY <1>5, <3>1, CmpFacts
    <3>3. my_tolower(At(t, m)) = 0
      BY <1>5, <1>7, <3>2, CmpFacts
    <3>4. QED
      BY <1>5, <3>3, CmpFacts, SMTT(30)
  <2>3. ~(Len(t) < n)
    <3>1. SUFFICES ASSUME Len(t) < n PROVE FALSE
      OBVIOUS
    <3> DEFINE k == Len(t) + 1
    <3>2. k \in Nat \ {0} /\ k \in 1 .. n /\ k > Len(t) /\ ~(k > Len(a))
      BY <1>1, <3>1 DEF n
    <3> HIDE DEF k
    <3>3. Cmp(a, t, k) = 0
      BY <2>1, <3>2
    <3>4. my_tolower(At(t, k)) = 0 /\ my_tolower(At(a, k)) # 0
      BY <3>2, CmpFacts
    <3>5. QED
      BY <3>2, <3>3, <3>4, CmpFacts
  <2>4. Len(a) = Len(t) /\ \A i \in 1 .. Len(a) : Cmp(a, t, i) = 0
    BY <1>1, <2>1, <2>2, <2>3 DEF n
  <2>5. QED
    BY <1>5, <1>7, <2>4, SameNameIs
<1>8. QED
  BY <1>6, <1>7

LEMMA SameNameNeverDiffers ==
  ASSUME NEW a, NEW t, IsText(a), IsText(t), SameName(a, t), NEW i, Differ(a, t, i)
  PROVE  FALSE
<1>1. Len(a) = Len(t) /\ Len(a) \in Nat /\ \A j \in 1 .. Len(a) : Cmp(a, t, j) = 0
  BY SameNameIs, TextIs
<1>2. i \in Nat \ {0} /\ Cmp(a, t, i) # 0
  BY DEF Differ
<1>3. i > Len(a) /\ i > Len(t)
  BY <1>1, <1>2
<1>4. my_tolower(At(a, i)) = 0 /\ my_tolower(At(t, i)) = 0
  BY <1>2, <1>3, CmpFacts
<1>5. QED
  BY <1>2, <1>4, CmpFacts

LEMMA StrCmpAt ==
  ASSUME NEW a, NEW t, IsText(a), IsText(t), NEW i, Differ(a, t, i)
  PROVE  ci_strcmp(a, t) = Cmp(a, t, i)
BY StrCmpIs, SameNameNeverDiffers, DifferOnce

\* The comparison of an entry of help with a text.
HelpOrder(i, t) == ci_strcmp(HELP_ENTRIES[i], t)

LEMMA HelpOrderFacts ==
  ASSUME NEW t, IsText(t), NEW i, IsRow(i)
  PROVE  /\ HelpOrder(i, t) = ci_strcmp(Name(i), t) /\ HelpOrder(i, t) \in Int
         /\ HelpOrder(i, t) = 0 <=> SameName(Name(i), t)
<1>1. IsText(Name(i)) /\ HelpOrder(i, t) = ci_strcmp(Name(i), t)
  BY Letters, WordIsText, Rows DEF HelpOrder, Row
<1>2. ASSUME NEW j \in Nat, Differ(Name(i), t, j)
      PROVE  Cmp(Name(i), t, j) \in Int /\ Cmp(Name(i), t, j) # 0
  <2>1. j \in Nat \ {0} /\ Cmp(Name(i), t, j) # 0
    BY <1>2 DEF Differ
  <2>2. QED
    BY <1>1, <2>1, CmpFacts
<1>3. QED
  BY <1>1, <1>2, StrCmpIs, SameNameNeverDiffers

LEMMA HelpOrderOfNext ==
  ASSUME NEW t, IsText(t), NEW i \in Nat, i > 0, i < 16, HelpOrder(i + 1, t) <= 0
  PROVE  HelpOrder(i, t) < 0
<1> DEFINE a == Name(i)
           b == Name(i + 1)
<1>1. IsRow(i) /\ IsRow(i + 1)
  BY DEF IsRow
<1>2. IsWord(a) /\ IsWord(b) /\ Below(a, b)
  BY <1>1, Letters, Sorted
<1>3. /\ HelpOrder(i, t) = ci_strcmp(a, t) /\ HelpOrder(i + 1, t) = ci_strcmp(b, t)
      /\ ci_strcmp(b, t) = 0 <=> SameName(b, t)
  BY <1>1, HelpOrderFacts
<1> HIDE DEF a, b
<1>4. IsText(a) /\ IsText(b) /\ Len(b) \in Nat
  BY <1>2, WordIsText
<1>5. \E k \in Nat : Differ(a, t, k) /\ Cmp(a, t, k) < 0
  <2>1. CASE SameName(b, t)
    <3>1. \A j \in 1 .. Len(b) : Cmp(b, t, j) = 0
      BY <1>4, <2>1, SameNameIs
    <3>2. PICK k \in 1 .. Len(b) : Differ(a, t, k) /\ Cmp(a, t, k) < 0
      BY <1>2, <1>4, <3>1, BelowToo
    <3>3. QED
      BY <1>4, <3>2
  <2>2. CASE ~ SameName(b, t)
    <3>1. PICK j \in Nat : Differ(b, t, j) /\ ci_strcmp(b, t) = Cmp(b, t, j)
      BY <1>4, <2>2, StrCmpIs
    <3>2. j \in Nat \ {0} /\ Cmp(b, t, j) # 0
      BY <3>1 DEF Differ
    <3>3. Cmp(b, t, j) \in Int
      BY <1>4, <3>2, CmpFacts
    <3>4. Cmp(b, t, j) < 0
      BY <1>3, <3>1, <3>2, <3>3
    <3>5. PICK k \in 1 .. j : Differ(a, t, k) /\ Cmp(a, t, k) < 0
      BY <1>2, <3>1, <3>2, <3>4, BelowToo
    <3>6. QED
      BY <3>2, <3>5
  <2>3. QED
    BY <2>1, <2>2
<1>6. QED
  BY <1>3, <1>4, <1>5, StrCmpAt

\* Entries before one that is not above the text are below it.
LEMMA HelpIsSorted ==
  ASSUME NEW t, IsText(t), NEW i, NEW j, IsRow(i), IsRow(j), i < j,
         HelpOrder(j, t) <= 0
  PROVE  HelpOrder(i, t) < 0
<1> DEFINE T == {k \in Nat : k < j => HelpOrder(j - k, t) <= 0
                                     /\ (k > 0 => HelpOrder(j - k, t) < 0)}
<1>1. i \in Nat /\ j \in Nat /\ i > 0 /\ j <= 16
  BY DEF IsRow
<1>2. 0 \in T
  <2>1. j - 0 = j
    BY <1>1
  <2>2. QED
    BY <2>1
<1>3. ASSUME NEW k \in 1 .. j, k - 1 \in T PROVE k \in T
  <2>1. SUFFICES ASSUME k < j
                 PROVE  HelpOrder(j - k, t) <= 0 /\ HelpOrder(j - k, t) < 0
    BY <1>1
  <2> DEFINE m == j - k
  <2>2. /\ m \in Nat /\ m > 0 /\ m < 16 /\ j - (k - 1) = m + 1
        /\ k - 1 \in Nat /\ k - 1 < j
    BY <1>1, <2>1
  <2>3. HelpOrder(m + 1, t) <= 0
    BY <1>3, <2>2
  <2> HIDE DEF m
  <2>4. HelpOrder(m, t) < 0
    BY <2>2, <2>3, HelpOrderOfNext
  <2>5. HelpOrder(m, t) \in Int
    BY <2>2, HelpOrderFacts DEF IsRow
  <2>6. HelpOrder(m, t) <= 0
    BY <2>4, <2>5
  <2>7. QED
    BY <2>4, <2>6 DEF m
<1> HIDE DEF T
<1>4. \A k \in 0 .. j : k \in T
  BY <1>1, <1>2, <1>3, UpTo
<1> DEFINE d == j - i
<1>5. d \in 0 .. j /\ d > 0 /\ d < j /\ j - d = i /\ d \in Nat
  BY <1>1
<1> HIDE DEF d
<1>6. d \in T
  BY <1>4, <1>5
<1>7. HelpOrder(j - d, t) < 0
  BY <1>5, <1>6 DEF T
<1>8. QED
  BY <1>5, <1>7

LEMMA OneName ==
  ASSUME NEW t, IsText(t), NEW i, NEW j, IsRow(i), IsRow(j),
         SameName(Name(i), t), SameName(Name(j), t)
  PROVE  i = j
<1>1. HelpOrder(i, t) = 0 /\ HelpOrder(j, t) = 0
  BY HelpOrderFacts
<1>2. ~(i < j) /\ ~(j < i)
  BY <1>1, HelpIsSorted
<1>3. QED
  BY <1>2 DEF IsRow

\* What the search for an entry may have found, and what may be left.
IsEntry(e, t) == \E i : IsRow(i) /\ e = Name(i) /\ SameName(Name(i), t)

Left(lo, hi, t) == \A i : IsRow(i) /\ SameName(Name(i), t) => lo < i /\ i <= hi

Probing(t) ==
  {search \in Nat \X Nat \X Texts :
     /\ search[1] <= search[2] /\ search[2] <= 16
     /\ search[3] = << >> => Left(search[1], search[2], t)
     /\ search[3] # << >> => IsEntry(search[3], t)}

LEMMA ProbingIs ==
  ASSUME NEW t, NEW lo, NEW hi, NEW e, lo \in Nat, hi \in Nat, e \in Texts,
         lo <= hi, hi <= 16, e = << >> => Left(lo, hi, t), e # << >> => IsEntry(e, t)
  PROVE  <<lo, hi, e>> \in Probing(t)
BY DEF Probing

LEMMA NameIsText == ASSUME NEW i, IsRow(i) PROVE Name(i) \in Texts /\ Name(i) # << >>
BY Letters, WordIsText DEF IsWord, IsText, Texts

LEMMA ProbeKeeps ==
  ASSUME NEW t, IsText(t), NEW search \in Probing(t)
  PROVE  /\ Probe(search, t) \in Probing(t)
         /\ search[3] # << >> \/ search[1] >= search[2] => Probe(search, t) = search
         /\ search[3] = << >> /\ search[1] < search[2] =>
              \/ Probe(search, t)[3] # << >>
              \/ Probe(search, t)[2] - Probe(search, t)[1] < search[2] - search[1]
<1> DEFINE lo  == search[1]
           hi  == search[2]
           e   == search[3]
           mid == lo + (hi - lo) \div 2
           c   == ci_strcmp(HELP_ENTRIES[mid + 1], t)
<1>1. /\ search = <<lo, hi, e>> /\ lo \in Nat /\ hi \in Nat /\ e \in Texts
      /\ lo <= hi /\ hi <= 16
      /\ e = << >> => Left(lo, hi, t)
      /\ e # << >> => IsEntry(e, t)
  BY DEF Probing
<1>2. Probe(search, t) =
        IF e # << >> \/ lo >= hi THEN search
        ELSE IF c = 0 THEN <<lo, hi, HELP_ENTRIES[mid + 1]>>
        ELSE IF c < 0 THEN <<mid + 1, hi, << >> >> ELSE <<lo, mid, << >> >>
  BY DEF Probe
<1>3. CASE e # << >> \/ lo >= hi
  <2>1. Probe(search, t) = search
    BY <1>2, <1>3
  <2>2. ~(e = << >> /\ lo < hi)
    BY <1>1, <1>3
  <2>3. QED
    BY <2>1, <2>2
<1>4. CASE ~(e # << >> \/ lo >= hi)
  <2>1. mid \in Nat /\ lo <= mid /\ mid < hi /\ e = << >> /\ ~(lo >= hi)
    BY <1>1, <1>4
  <2> DEFINE row == mid + 1
  <2>2. row \in Nat /\ IsRow(row)
    BY <1>1, <2>1 DEF IsRow
  <2>3. Probe(search, t) = IF c = 0 THEN <<lo, hi, HELP_ENTRIES[row]>>
                           ELSE IF c < 0 THEN <<row, hi, << >> >> ELSE <<lo, mid, << >> >>
    BY <1>2, <1>4
  <2>4. c = HelpOrder(row, t)
    BY DEF HelpOrder
  <2>5. HELP_ENTRIES[row] = Name(row)
    BY <2>2, Rows DEF Row
  <2> HIDE DEF mid, c
  <2>6. row = mid + 1
    OBVIOUS
  <2> HIDE DEF row, lo, hi, e
  <2>7. c \in Int /\ (c = 0 <=> SameName(Name(row), t))
    BY <2>2, <2>4, HelpOrderFacts
  <2>8. Left(lo, hi, t)
    BY <1>1, <2>1
  <2>9. << >> \in Texts
    BY EmptySeq DEF Texts
  <2>10. CASE c = 0
    <3>1. Probe(search, t) = <<lo, hi, Name(row)>>
      BY <2>3, <2>5, <2>10
    <3>2. IsEntry(Name(row), t) /\ Name(row) \in Texts /\ Name(row) # << >>
      BY <2>2, <2>7, <2>10, NameIsText DEF IsEntry
    <3>3. <<lo, hi, Name(row)>> \in Probing(t)
      BY <1>1, <3>2, ProbingIs
    <3>4. Probe(search, t)[3] # << >>
      BY <3>1, <3>2
    <3>5. QED
      BY <2>1, <3>1, <3>3, <3>4 DEF lo, hi, e
  <2>11. CASE c < 0
    <3>1. Probe(search, t) = <<row, hi, << >> >>
      BY <2>3, <2>7, <2>11
    <3>2. Left(row, hi, t)
      <4>1. SUFFICES ASSUME NEW i, IsRow(i), SameName(Name(i), t), ~(row < i) PROVE FALSE
        BY <2>8 DEF Left
      <4>2. HelpOrder(i, t) = 0
        BY <4>1, HelpOrderFacts
      <4>3. i # row
        BY <2>4, <2>11, <4>2
      <4>4. i < row
        BY <2>2, <4>1, <4>3 DEF IsRow
      <4>5. HelpOrder(row, t) <= 0
        BY <2>4, <2>7, <2>11
      <4>6. QED
        BY <2>2, <4>1, <4>2, <4>4, <4>5, HelpIsSorted
    <3>3. row <= hi
      BY <1>1, <2>1, <2>6
    <3>4. <<row, hi, << >> >> \in Probing(t)
      BY <1>1, <2>2, <2>9, <3>2, <3>3, ProbingIs
    <3>5. Probe(search, t)[1] = row /\ Probe(search, t)[2] = hi
      BY <3>1
    <3>6. hi - row < hi - lo
      BY <1>1, <2>1, <2>6
    <3>7. QED
      BY <2>1, <3>1, <3>4, <3>5, <3>6 DEF lo, hi, e
  <2>12. CASE c > 0
    <3>1. Probe(search, t) = <<lo, mid, << >> >>
      BY <2>3, <2>7, <2>12
    <3>2. Left(lo, mid, t)
      <4>1. SUFFICES ASSUME NEW i, IsRow(i), SameName(Name(i), t), ~(i <= mid) PROVE FALSE
        BY <2>8 DEF Left
      <4>2. HelpOrder(i, t) = 0
        BY <4>1, HelpOrderFacts
      <4>3. i # row
        BY <2>4, <2>12, <4>2
      <4>4. row < i
        BY <2>1, <2>6, <4>1, <4>3 DEF IsRow
      <4>5. HelpOrder(row, t) < 0
        BY <2>2, <4>1, <4>2, <4>4, HelpIsSorted
      <4>6. QED
        BY <2>4, <2>7, <2>12, <4>5
    <3>3. <<lo, mid, << >> >> \in Probing(t)
      <4>1. lo <= mid /\ mid <= 16
        BY <1>1, <2>1
      <4>2. QED
        BY <1>1, <2>1, <2>9, <3>2, <4>1, ProbingIs
    <3>4. Probe(search, t)[1] = lo /\ Probe(search, t)[2] = mid
      BY <3>1
    <3>5. mid - lo < hi - lo
      BY <1>1, <2>1
    <3>6. QED
      BY <2>1, <3>1, <3>3, <3>4, <3>5 DEF lo, hi, e
  <2>13. QED
    BY <2>7, <2>10, <2>11, <2>12
<1>5. QED
  BY <1>3, <1>4

\* help finds the entry that the text names, and none if it names none.
LEMMA HelpEntry ==
  ASSUME NEW t, IsText(t)
  PROVE  \/ find_help_entry(t) # << >> /\ IsEntry(find_help_entry(t), t)
         \/ find_help_entry(t) = << >> /\ \A i : IsRow(i) => ~ SameName(Name(i), t)
<1> DEFINE N == Len(HELP_ENTRIES)
           S == Probing(t)
           F == [i \in 1 .. N |-> [v \in S |-> Probe(v, t)]]
           a == <<0, N, << >> >>
<1>0. N = 16 /\ N \in Nat
  BY DEF HELP_ENTRIES
<1> HIDE DEF N
<1>1. a \in S
  <2> DEFINE lo == 0
  <2>1. lo \in Nat /\ lo <= N /\ << >> \in Texts
    BY <1>0, EmptySeq DEF Texts
  <2>2. Left(lo, N, t)
    BY <1>0 DEF Left, IsRow
  <2> HIDE DEF lo
  <2>3. <<lo, N, << >> >> \in Probing(t)
    BY <1>0, <2>1, <2>2, ProbingIs
  <2>4. QED
    BY <2>3 DEF lo
<1>2. /\ F \in [1 .. N -> [S -> S]]
      /\ \A i \in 1 .. N, v \in S : F[i][v] = Probe(v, t)
  <2>1. \A v \in S : Probe(v, t) \in S
    BY ProbeKeeps
  <2> HIDE DEF S
  <2>2. QED
    BY <2>1
<1> HIDE DEF F, S, a
<1>3. PICK g : Follows(g, F, N, a, S)
  <2>1. MapsWithin(F, N, a, S)
    BY <1>0, <1>1, <1>2 DEF MapsWithin
  <2>2. QED
    BY <2>1, Recursion
<1> DEFINE IsAfter(f) ==
             f = [n \in 0 .. N |-> IF n = 0 THEN a ELSE Probe(f[n - 1], t)]
           after == CHOOSE f : IsAfter(f)
<1>4. IsAfter(g)
  <2>1. \A n \in 0 .. N : g[n] = IF n = 0 THEN a ELSE Probe(g[n - 1], t)
    <3>1. TAKE n \in 0 .. N
    <3>2. CASE n = 0
      BY <1>3, <3>2 DEF Follows
    <3>3. CASE n # 0
      <4>1. n \in 1 .. N /\ n - 1 \in 0 .. N
        BY <1>0, <3>3
      <4>2. g[n - 1] \in S
        BY <1>3, <4>1 DEF Follows
      <4>3. QED
        BY <1>2, <1>3, <3>3, <4>1, <4>2 DEF Follows
    <3>4. QED
      BY <3>2, <3>3
  <2>2. g = [n \in 0 .. N |-> g[n]]
    BY <1>3 DEF Follows
  <2>3. QED
    BY <2>1, <2>2
<1>5. IsAfter(after)
  BY <1>4
<1>6. find_help_entry(t) = after[N][3]
  BY DEF find_help_entry, N, a
<1> HIDE DEF after
<1>7. after[0] = a /\ \A n \in 1 .. N : after[n] = Probe(after[n - 1], t)
  BY <1>0, <1>5
<1> DEFINE T == {n \in 0 .. N : /\ after[n] \in S
                                /\ after[n][3] # << >> \/ after[n][2] - after[n][1] <= N - n}
<1>8. 0 \in T
  <2>1. after[0] \in S /\ after[0][2] - after[0][1] <= N - 0
    BY <1>0, <1>1, <1>7 DEF a
  <2>2. QED
    BY <1>0, <2>1
<1>9. ASSUME NEW n \in 1 .. N, n - 1 \in T PROVE n \in T
  <2> DEFINE r == after[n - 1]
             s == Probe(r, t)
  <2>1. after[n] = s
    BY <1>7
  <2>2. r \in S /\ (r[3] # << >> \/ r[2] - r[1] <= N - (n - 1))
    BY <1>9
  <2> HIDE DEF r
  <2>3. /\ s \in S
        /\ r[3] # << >> \/ r[1] >= r[2] => s = r
        /\ r[3] = << >> /\ r[1] < r[2] => s[3] # << >> \/ s[2] - s[1] < r[2] - r[1]
    BY <2>2, ProbeKeeps DEF S
  <2> HIDE DEF s
  <2>4. /\ r[1] \in Nat /\ r[2] \in Nat /\ r[1] <= r[2]
        /\ s[1] \in Nat /\ s[2] \in Nat /\ s[1] <= s[2]
    BY <2>2, <2>3 DEF S, Probing
  <2>5. s[3] # << >> \/ s[2] - s[1] <= N - n
    <3>1. CASE r[3] # << >>
      BY <2>3, <3>1
    <3>2. CASE r[3] = << >> /\ r[1] < r[2]
      BY <1>0, <2>2, <2>3, <2>4, <3>2
    <3>3. CASE r[3] = << >> /\ r[1] >= r[2]
      <4>1. s = r
        BY <2>3, <3>3
      <4>2. s[2] - s[1] <= 0 /\ 0 <= N - n
        BY <1>0, <2>4, <3>3, <4>1
      <4>3. QED
        BY <1>0, <2>4, <4>2
    <3>4. QED
      BY <2>4, <3>1, <3>2, <3>3
  <2>6. n \in 0 .. N
    BY <1>0
  <2>7. after[n] \in S /\ (after[n][3] # << >> \/ after[n][2] - after[n][1] <= N - n)
    BY <2>1, <2>3, <2>5
  <2>8. QED
    BY <2>6, <2>7
<1>10. N \in T
  <2> HIDE DEF T
  <2>1. \A n \in 0 .. N : n \in T
    BY <1>0, <1>8, <1>9, UpTo
  <2>2. QED
    BY <1>0, <2>1
<1> DEFINE z == after[N]
<1>11. z \in S /\ (z[3] # << >> \/ z[2] - z[1] <= N - N)
  BY <1>10
<1>12. find_help_entry(t) = z[3]
  BY <1>6
<1> HIDE DEF z
<1>13. CASE z[3] # << >>
  BY <1>11, <1>12, <1>13 DEF S, Probing
<1>14. CASE z[3] = << >>
  <2>1. Left(z[1], z[2], t) /\ z[1] \in Nat /\ z[2] \in Nat
    BY <1>11, <1>14 DEF S, Probing
  <2>2. z[2] <= z[1]
    BY <1>0, <1>11, <1>14, <2>1
  <2>3. \A i : IsRow(i) => ~ SameName(Name(i), t)
    BY <2>1, <2>2 DEF Left, IsRow
  <2>4. QED
    BY <1>12, <1>14, <2>3
<1>15. QED
  BY <1>13, <1>14

------------------------------------------------------------------------------
(* Numbers.                                                                *)

\* A value that an int holds is not changed by being put into one.
LEMMA IntHolds ==
  ASSUME NEW x \in Nat, x < IntMod \div 2
  PROVE  x % IntMod = x /\ ToInt(x) = x
<1>1. IntMod \in Nat /\ IntMod > 0
  BY LookupAssumption
<1>2. IntMod \div 2 <= IntMod /\ IntMod \div 2 \in Nat
  BY <1>1
<1>3. x < IntMod
  BY <1>1, <1>2
<1>4. x % IntMod = x
  BY <1>1, <1>3
<1>5. QED
  BY <1>2, <1>4 DEF ToInt

LEMMA IntIsInt == ASSUME NEW x \in Int PROVE x % IntMod \in Int /\ ToInt(x) \in Int
<1>1. IntMod \in Nat /\ IntMod > 0
  BY LookupAssumption
<1>2. x % IntMod \in Int
  BY <1>1
<1>3. QED
  BY <1>1, <1>2 DEF ToInt

IsDigits(w) == w \in Texts /\ \A i \in 1 .. Len(w) : w[i] \in Nat /\ ZERO <= w[i]

LEMMA NumericIs == ASSUME NEW w \in Texts, is_numeric(w) PROVE IsDigits(w)
<1>1. Len(w) \in Nat /\ DOMAIN w = 1 .. Len(w)
  BY DEF Texts
<1>2. \A i \in 1 .. Len(w) : w[i] \in ZERO .. NINE
  BY <1>1 DEF is_numeric
<1>3. \A c \in ZERO .. NINE : c \in Nat /\ ZERO <= c
  BY DEF ZERO, NINE
<1>4. QED
  BY <1>2, <1>3 DEF IsDigits

\* The values of the digits up to each.
IsValues(v, w) ==
  /\ v \in [0 .. Len(w) -> Nat] /\ v[0] = 0
  /\ \A i \in 1 .. Len(w) : v[i] = v[i - 1] * 10 + w[i] - ZERO

LEMMA ValuesAre ==
  ASSUME NEW w, IsDigits(w)
  PROVE  \E v : IsValues(v, w) /\ Value(w) = v[Len(w)]
<1> DEFINE N == Len(w)
           S == Nat
           F == [i \in 1 .. N |-> [x \in S |-> x * 10 + w[i] - ZERO]]
<1>0. N \in Nat
  BY DEF IsDigits, Texts
<1>1. \A i \in 1 .. N, x \in Nat : x * 10 + w[i] - ZERO \in Nat
  BY DEF IsDigits, ZERO
<1>2. /\ F \in [1 .. N -> [S -> S]]
      /\ \A i \in 1 .. N, x \in S : F[i][x] = x * 10 + w[i] - ZERO
  BY <1>1
<1> HIDE DEF F, S, N
<1>3. PICK g : Follows(g, F, N, 0, S)
  <2>1. 0 \in S
    BY DEF S
  <2>2. MapsWithin(F, N, 0, S)
    BY <1>0, <1>2, <2>1 DEF MapsWithin
  <2>3. QED
    BY <2>2, Recursion
<1> DEFINE IsAfter(f) ==
             f = [i \in 0 .. N |-> IF i = 0 THEN 0 ELSE f[i - 1] * 10 + w[i] - ZERO]
           v == CHOOSE f : IsAfter(f)
<1>4. IsAfter(g)
  <2>1. \A n \in 0 .. N : g[n] = IF n = 0 THEN 0 ELSE g[n - 1] * 10 + w[n] - ZERO
    <3>1. TAKE n \in 0 .. N
    <3>2. CASE n = 0
      BY <1>3, <3>2 DEF Follows
    <3>3. CASE n # 0
      <4>1. n \in 1 .. N /\ n - 1 \in 0 .. N
        BY <1>0, <3>3
      <4>2. g[n - 1] \in S
        BY <1>3, <4>1 DEF Follows
      <4>3. g[n] = F[n][g[n - 1]]
        BY <1>3, <4>1 DEF Follows
      <4>4. QED
        BY <1>2, <3>3, <4>1, <4>2, <4>3
    <3>4. QED
      BY <3>2, <3>3
  <2>2. g = [n \in 0 .. N |-> g[n]]
    BY <1>3 DEF Follows
  <2>3. QED
    BY <2>1, <2>2
<1>5. IsAfter(v)
  BY <1>4
<1>6. Value(w) = v[N]
  BY DEF Value, N
<1> HIDE DEF v
<1>7. /\ v[0] = 0
      /\ \A n \in 1 .. N : v[n] = v[n - 1] * 10 + w[n] - ZERO
      /\ v = [i \in 0 .. N |-> v[i]]
  BY <1>0, <1>5
<1> DEFINE T == {n \in Nat : v[n] \in Nat}
<1>8. \A n \in 0 .. N : n \in T
  <2>1. 0 \in T
    BY <1>7
  <2>2. ASSUME NEW n \in 1 .. N, n - 1 \in T PROVE n \in T
    <3>1. v[n - 1] \in Nat
      BY <2>2
    <3>2. v[n - 1] * 10 + w[n] - ZERO \in Nat
      BY <1>1, <3>1 DEF N
    <3>3. v[n] = v[n - 1] * 10 + w[n] - ZERO
      BY <1>7
    <3>4. n \in Nat
      BY <1>0
    <3>5. QED
      BY <3>2, <3>3, <3>4
  <2> HIDE DEF T
  <2>3. QED
    BY <1>0, <2>1, <2>2, UpTo
<1>9. v \in [0 .. N -> Nat]
  BY <1>7, <1>8
<1>10. QED
  BY <1>6, <1>7, <1>9 DEF IsValues, N

\* No value on the way is above the last.
LEMMA ValuesGrow ==
  ASSUME NEW w, IsDigits(w), NEW v, IsValues(v, w)
  PROVE  \A i \in 0 .. Len(w) : v[i] <= v[Len(w)]
<1> DEFINE N == Len(w)
           T == {k \in Nat : k <= N => v[N - k] <= v[N]}
<1>1. N \in Nat /\ \A i \in 0 .. N : v[i] \in Nat
  BY DEF IsDigits, Texts, IsValues
<1>2. \A i \in 1 .. N : v[i - 1] <= v[i]
  <2>1. TAKE i \in 1 .. N
  <2>2. v[i - 1] \in Nat /\ w[i] \in Nat /\ ZERO <= w[i] /\ ZERO \in Nat
    BY <1>1 DEF IsDigits, ZERO
  <2>3. v[i] = v[i - 1] * 10 + w[i] - ZERO
    BY DEF IsValues
  <2>4. QED
    BY <2>2, <2>3
<1> HIDE DEF N
<1>3. 0 \in T
  BY <1>1
<1>4. ASSUME NEW k \in 1 .. N, k - 1 \in T PROVE k \in T
  <2> DEFINE i == N - (k - 1)
  <2>1. i \in 1 .. N /\ i \in 0 .. N /\ i - 1 = N - k /\ i - 1 \in 0 .. N /\ k - 1 <= N
    BY <1>1
  <2>2. v[i] <= v[N]
    BY <1>4, <2>1
  <2> HIDE DEF i
  <2>3. v[i - 1] <= v[N]
    BY <1>1, <1>2, <2>1, <2>2
  <2>4. QED
    BY <1>1, <2>1, <2>3
<1> HIDE DEF T
<1>5. \A k \in 0 .. N : k \in T
  BY <1>1, <1>3, <1>4, UpTo
<1>6. ASSUME NEW i \in 0 .. N PROVE v[i] <= v[N]
  <2> DEFINE k == N - i
  <2>1. k \in 0 .. N /\ N - k = i /\ k <= N
    BY <1>1
  <2> HIDE DEF k
  <2>2. QED
    BY <1>5, <2>1 DEF T
<1>7. QED
  BY <1>6 DEF N

\* Values that an int holds are not changed on the way, so a fold that puts
\* every step into an int ends with the value.
LEMMA FoldIsValue ==
  ASSUME NEW w, IsDigits(w), Fits(w), NEW g, NEW F,
         Follows(g, F, Len(w), 0, Int),
         \A i \in 1 .. Len(w), x \in Nat :
           x * 10 + w[i] - ZERO < IntMod \div 2 => F[i][x] = x * 10 + w[i] - ZERO
  PROVE  g[Len(w)] = Value(w)
<1> DEFINE N == Len(w)
<1>0. N \in Nat
  BY DEF IsDigits, Texts
<1>1. PICK v : IsValues(v, w) /\ Value(w) = v[N]
  BY ValuesAre
<1>2. /\ \A i \in 0 .. N : v[i] \in Nat
      /\ v[0] = 0 /\ \A i \in 1 .. N : v[i] = v[i - 1] * 10 + w[i] - ZERO
  BY <1>1 DEF IsValues
<1>3. \A i \in 0 .. N : v[i] <= v[N]
  BY <1>1, ValuesGrow
<1>4. v[N] < IntMod \div 2 /\ IntMod \div 2 \in Int
  BY <1>1, LookupAssumption DEF Fits
<1>5. g[0] = 0 /\ \A i \in 1 .. N : g[i] = F[i][g[i - 1]]
  BY DEF Follows
<1>6. \A i \in 1 .. N, x \in Nat :
         x * 10 + w[i] - ZERO < IntMod \div 2 => F[i][x] = x * 10 + w[i] - ZERO
  OBVIOUS
<1> HIDE DEF N
<1> DEFINE half == IntMod \div 2
           T == {n \in Nat : g[n] = v[n]}
<1> HIDE DEF half
<1>7. 0 \in T
  BY <1>2, <1>5
<1>8. ASSUME NEW n \in 1 .. N, n - 1 \in T PROVE n \in T
  <2>1. g[n - 1] = v[n - 1] /\ n \in Nat /\ n \in 0 .. N /\ n - 1 \in 0 .. N
    BY <1>0, <1>8
  <2>2. v[n - 1] \in Nat /\ v[n] \in Nat /\ v[n] = v[n - 1] * 10 + w[n] - ZERO
    BY <1>2, <2>1
  <2>3. v[n] < half
    <3>1. v[n] <= v[N] /\ v[N] \in Nat
      BY <1>0, <1>2, <1>3, <2>1
    <3>2. QED
      BY <1>4, <2>2, <3>1 DEF half
  <2>4. F[n][v[n - 1]] = v[n]
    BY <1>6, <2>2, <2>3 DEF half
  <2>5. QED
    BY <1>5, <2>1, <2>4
<1> HIDE DEF T
<1>9. \A n \in 0 .. N : n \in T
  BY <1>0, <1>7, <1>8, UpTo
<1>10. g[N] = v[N]
  BY <1>0, <1>9 DEF T
<1>11. QED
  BY <1>1, <1>10 DEF N

LEMMA DigitStep ==
  ASSUME NEW w, IsDigits(w), NEW i \in 1 .. Len(w), NEW x \in Int
  PROVE  /\ w[i] \in Nat /\ x * 10 + (w[i] - ZERO) \in Int
         /\ x * 10 + (w[i] - ZERO) = x * 10 + w[i] - ZERO
         /\ x \in Nat => x * 10 + (w[i] - ZERO) \in Nat
BY DEF IsDigits, ZERO

\* What the user typed for sleep.
LEMMA StringToIntIs ==
  ASSUME NEW w, IsDigits(w), Fits(w)
  PROVE  string_to_int(w) = Value(w)
<1> DEFINE N == Len(w)
           F == [i \in 1 .. N |-> [x \in Int |-> ToInt(x * 10 + (w[i] - ZERO))]]
<1>0. N \in Nat
  BY DEF IsDigits, Texts
<1>1. /\ F \in [1 .. N -> [Int -> Int]]
      /\ \A i \in 1 .. N, x \in Int : F[i][x] = ToInt(x * 10 + (w[i] - ZERO))
  <2>1. \A i \in 1 .. N, x \in Int : ToInt(x * 10 + (w[i] - ZERO)) \in Int
    BY DigitStep, IntIsInt
  <2>2. QED
    BY <2>1
<1>2. \A i \in 1 .. N, x \in Nat :
         x * 10 + w[i] - ZERO < IntMod \div 2 => F[i][x] = x * 10 + w[i] - ZERO
  <2>1. TAKE i \in 1 .. N, x \in Nat
  <2> DEFINE y == x * 10 + (w[i] - ZERO)
  <2>2. y \in Nat /\ y = x * 10 + w[i] - ZERO /\ x \in Int
    BY DigitStep
  <2>3. F[i][x] = ToInt(y)
    BY <1>1, <2>2
  <2> HIDE DEF y
  <2>4. y < IntMod \div 2 => ToInt(y) = y
    BY <2>2, IntHolds
  <2>5. QED
    BY <2>2, <2>3, <2>4
<1> HIDE DEF F
<1>3. PICK g : Follows(g, F, N, 0, Int)
  <2>1. MapsWithin(F, N, 0, Int)
    BY <1>0, <1>1 DEF MapsWithin
  <2>2. QED
    BY <2>1, Recursion
<1> DEFINE IsAfter(f) ==
             f = [i \in 0 .. Len(w) |->
                    IF i = 0 THEN 0 ELSE ToInt(f[i - 1] * 10 + (w[i] - ZERO))]
           r == CHOOSE f : IsAfter(f)
<1>4. ASSUME NEW f PROVE IsAfter(f) => Follows(f, F, N, 0, Int)
  <2> SUFFICES ASSUME IsAfter(f) PROVE Follows(f, F, N, 0, Int)
    OBVIOUS
  <2>1. /\ f[0] = 0 /\ f = [i \in 0 .. N |-> f[i]]
        /\ \A i \in 1 .. N : f[i] = ToInt(f[i - 1] * 10 + (w[i] - ZERO))
    BY <1>0, SMTT(30)
  <2> DEFINE T == {n \in Nat : f[n] \in Int}
  <2>2. 0 \in T
    BY <2>1
  <2>3. ASSUME NEW n \in 1 .. N, n - 1 \in T PROVE n \in T
    <3>1. f[n - 1] \in Int /\ n \in Nat
      BY <1>0, <2>3
    <3>2. f[n] \in Int
      <4>1. f[n - 1] * 10 + (w[n] - ZERO) \in Int
        BY <3>1, DigitStep
      <4>2. QED
        BY <2>1, <4>1, IntIsInt
    <3>3. QED
      BY <3>1, <3>2
  <2> HIDE DEF T
  <2>4. \A n \in 0 .. N : n \in T
    BY <1>0, <2>2, <2>3, UpTo
  <2>5. \A n \in 0 .. N : f[n] \in Int
    BY <2>4 DEF T
  <2>6. f \in [0 .. N -> Int]
    BY <2>1, <2>5
  <2>7. \A i \in 1 .. N : f[i] = F[i][f[i - 1]]
    <3>1. TAKE i \in 1 .. N
    <3>2. f[i - 1] \in Int
      <4>1. i - 1 \in 0 .. N
        BY <1>0
      <4> HIDE DEF N
      <4>2. QED
        BY <2>5, <4>1
    <3>3. QED
      BY <1>1, <2>1, <3>2
  <2>8. QED
    BY <2>1, <2>6, <2>7 DEF Follows
<1>5. IsAfter(g)
  <2>1. \A n \in 0 .. N :
           g[n] = IF n = 0 THEN 0 ELSE ToInt(g[n - 1] * 10 + (w[n] - ZERO))
    <3>1. TAKE n \in 0 .. N
    <3>2. CASE n = 0
      BY <1>3, <3>2 DEF Follows
    <3>3. CASE n # 0
      <4>1. n \in 1 .. N /\ n - 1 \in 0 .. N
        BY <1>0, <3>3
      <4>2. g[n - 1] \in Int /\ g[n] = F[n][g[n - 1]]
        BY <1>3, <4>1 DEF Follows
      <4>3. QED
        BY <1>1, <3>3, <4>1, <4>2
    <3>4. QED
      BY <3>2, <3>3
  <2>2. g = [n \in 0 .. N |-> g[n]]
    BY <1>3 DEF Follows
  <2>3. QED
    BY <2>1, <2>2
<1>6. Follows(r, F, N, 0, Int)
  <2>1. IsAfter(r)
    BY <1>5
  <2> HIDE DEF r, IsAfter
  <2>2. QED
    BY <1>4, <2>1
<1>7. string_to_int(w) = r[N]
  BY DEF string_to_int
<1> HIDE DEF r
<1>8. QED
  BY <1>2, <1>6, <1>7, FoldIsValue DEF N
\* What the user typed for resize.
LEMMA StrToUintIs ==
  ASSUME NEW w, IsDigits(w), Fits(w)
  PROVE  str_to_uint_ignore_sign(w) = Value(w)
<1> DEFINE N == Len(w)
           F == [i \in 1 .. N |-> [x \in Int |-> (x * 10 + (w[i] - ZERO)) % IntMod]]
<1>0. N \in Nat
  BY DEF IsDigits, Texts
<1>1. /\ F \in [1 .. N -> [Int -> Int]]
      /\ \A i \in 1 .. N, x \in Int : F[i][x] = (x * 10 + (w[i] - ZERO)) % IntMod
  <2>1. \A i \in 1 .. N, x \in Int : (x * 10 + (w[i] - ZERO)) % IntMod \in Int
    BY DigitStep, IntIsInt
  <2>2. QED
    BY <2>1
<1>2. \A i \in 1 .. N, x \in Nat :
         x * 10 + w[i] - ZERO < IntMod \div 2 => F[i][x] = x * 10 + w[i] - ZERO
  <2>1. TAKE i \in 1 .. N, x \in Nat
  <2> DEFINE y == x * 10 + (w[i] - ZERO)
  <2>2. y \in Nat /\ y = x * 10 + w[i] - ZERO /\ x \in Int
    BY DigitStep
  <2>3. F[i][x] = y % IntMod
    BY <1>1, <2>2
  <2> HIDE DEF y
  <2>4. y < IntMod \div 2 => y % IntMod = y
    BY <2>2, IntHolds
  <2>5. QED
    BY <2>2, <2>3, <2>4
<1> HIDE DEF F
<1>3. PICK g : Follows(g, F, N, 0, Int)
  <2>1. MapsWithin(F, N, 0, Int)
    BY <1>0, <1>1 DEF MapsWithin
  <2>2. QED
    BY <2>1, Recursion
<1> DEFINE IsAfter(f) ==
             f = [i \in 0 .. Len(w) |->
                    IF i = 0 THEN 0 ELSE (f[i - 1] * 10 + (w[i] - ZERO)) % IntMod]
           r == CHOOSE f : IsAfter(f)
<1>4. ASSUME NEW f PROVE IsAfter(f) => Follows(f, F, N, 0, Int)
  <2> SUFFICES ASSUME IsAfter(f) PROVE Follows(f, F, N, 0, Int)
    OBVIOUS
  <2>1. /\ f[0] = 0 /\ f = [i \in 0 .. N |-> f[i]]
        /\ \A i \in 1 .. N : f[i] = (f[i - 1] * 10 + (w[i] - ZERO)) % IntMod
    BY <1>0, SMTT(30)
  <2> DEFINE T == {n \in Nat : f[n] \in Int}
  <2>2. 0 \in T
    BY <2>1
  <2>3. ASSUME NEW n \in 1 .. N, n - 1 \in T PROVE n \in T
    <3>1. f[n - 1] \in Int /\ n \in Nat
      BY <1>0, <2>3
    <3>2. f[n] \in Int
      <4>1. f[n - 1] * 10 + (w[n] - ZERO) \in Int
        BY <3>1, DigitStep
      <4>2. QED
        BY <2>1, <4>1, IntIsInt
    <3>3. QED
      BY <3>1, <3>2
  <2> HIDE DEF T
  <2>4. \A n \in 0 .. N : n \in T
    BY <1>0, <2>2, <2>3, UpTo
  <2>5. \A n \in 0 .. N : f[n] \in Int
    BY <2>4 DEF T
  <2>6. f \in [0 .. N -> Int]
    BY <2>1, <2>5
  <2>7. \A i \in 1 .. N : f[i] = F[i][f[i - 1]]
    <3>1. TAKE i \in 1 .. N
    <3>2. f[i - 1] \in Int
      <4>1. i - 1 \in 0 .. N
        BY <1>0
      <4> HIDE DEF N
      <4>2. QED
        BY <2>5, <4>1
    <3>3. QED
      BY <1>1, <2>1, <3>2
  <2>8. QED
    BY <2>1, <2>6, <2>7 DEF Follows
<1>5. IsAfter(g)
  <2>1. \A n \in 0 .. N :
           g[n] = IF n = 0 THEN 0 ELSE (g[n - 1] * 10 + (w[n] - ZERO)) % IntMod
    <3>1. TAKE n \in 0 .. N
    <3>2. CASE n = 0
      BY <1>3, <3>2 DEF Follows
    <3>3. CASE n # 0
      <4>1. n \in 1 .. N /\ n - 1 \in 0 .. N
        BY <1>0, <3>3
      <4>2. g[n - 1] \in Int /\ g[n] = F[n][g[n - 1]]
        BY <1>3, <4>1 DEF Follows
      <4>3. QED
        BY <1>1, <3>3, <4>1, <4>2
    <3>4. QED
      BY <3>2, <3>3
  <2>2. g = [n \in 0 .. N |-> g[n]]
    BY <1>3 DEF Follows
  <2>3. QED
    BY <2>1, <2>2
<1>6. Follows(r, F, N, 0, Int)
  <2>1. IsAfter(r)
    BY <1>5
  <2> HIDE DEF r, IsAfter
  <2>2. QED
    BY <1>4, <2>1
<1>7. str_to_uint_ignore_sign(w) = r[N]
  BY DEF str_to_uint_ignore_sign
<1> HIDE DEF r
<1>8. QED
  BY <1>2, <1>6, <1>7, FoldIsValue DEF N

\* resize passes the number that was typed, kept within 1 .. 4.
LEMMA ResizeIs ==
  ASSUME NEW w, IsDigits(w), Fits(w)
  PROVE  syscall_resize(w) = IF Value(w) \in 1 .. 4 THEN Value(w)
                             ELSE IF Value(w) = 0 THEN 1 ELSE 4
<1>1. Value(w) \in Nat
  <2>1. PICK v : IsValues(v, w) /\ Value(w) = v[Len(w)]
    BY ValuesAre
  <2>2. Len(w) \in 0 .. Len(w)
    BY DEF IsDigits, Texts
  <2>3. QED
    BY <2>1, <2>2 DEF IsValues
<1> DEFINE n == Value(w)
<1>2. n \in Nat /\ n < IntMod \div 2 /\ str_to_uint_ignore_sign(w) = n
  BY <1>1, StrToUintIs DEF Fits
<1> HIDE DEF n
<1>3. ToInt(str_to_uint_ignore_sign(w)) = n
  BY <1>2, IntHolds
<1>4. syscall_resize(w) = IF n < 1 THEN 1 ELSE IF n > 4 THEN 4 ELSE n
  BY <1>3 DEF syscall_resize
<1>5. QED
  <2>1. (IF n < 1 THEN 1 ELSE IF n > 4 THEN 4 ELSE n) =
        (IF n \in 1 .. 4 THEN n ELSE IF n = 0 THEN 1 ELSE 4)
    BY <1>2
  <2>2. QED
    BY <1>4, <2>1 DEF n

------------------------------------------------------------------------------
(* What a text names.                                                      *)

\* The fields of Manual and Names are those of the rows.
LEMMA FieldOfRow ==
  ASSUME NEW n \in DOMAIN Manual PROVE \E i : IsRow(i) /\ n = Fields[i]
<1>1. n \in {"benchmark", "clear", "date", "echo", "fps", "help", "kill",
             "registers", "resize", "sleep", "testinvalidop", "testsound",
             "testsyscalls", "testzero", "time", "tron"}
  BY DEF Manual
<1>2. n = Fields[1] \/ n = Fields[2] \/ n = Fields[3] \/ n = Fields[4]
      \/ n = Fields[5] \/ n = Fields[6] \/ n = Fields[7] \/ n = Fields[8]
      \/ n = Fields[9] \/ n = Fields[10] \/ n = Fields[11] \/ n = Fields[12]
      \/ n = Fields[13] \/ n = Fields[14] \/ n = Fields[15] \/ n = Fields[16]
  BY <1>1 DEF Fields
<1>3. /\ IsRow(1) /\ IsRow(2) /\ IsRow(3) /\ IsRow(4) /\ IsRow(5) /\ IsRow(6)
      /\ IsRow(7) /\ IsRow(8) /\ IsRow(9) /\ IsRow(10) /\ IsRow(11) /\ IsRow(12)
      /\ IsRow(13) /\ IsRow(14) /\ IsRow(15) /\ IsRow(16)
  BY DEF IsRow
<1>4. QED
  BY <1>2, <1>3, Zenon

LEMMA RowHasField == ASSUME NEW i, IsRow(i) PROVE Fields[i] \in DOMAIN Manual
<1>1. i \in 1 .. 16
  BY DEF IsRow
<1>2. Fields[i] \in {"benchmark", "clear", "date", "echo", "fps", "help", "kill",
                     "registers", "resize", "sleep", "testinvalidop", "testsound",
                     "testsyscalls", "testzero", "time", "tron"}
  BY <1>1 DEF Fields
<1>3. QED
  BY <1>2 DEF Manual

LEMMA NoneIsInvalid == \A n \in DOMAIN Manual : Manual[n] # "invalid"
BY DEF Manual

\* A text names the row whose name it is, and no other.
LEMMA NamedByNone ==
  ASSUME NEW t, \A i : IsRow(i) => ~ SameName(Name(i), t)
  PROVE  NamedBy(t) = {}
<1>1. ASSUME NEW n \in NamedBy(t) PROVE FALSE
  <2>1. n \in DOMAIN Manual /\ SameName(Names[n], t)
    BY DEF NamedBy
  <2>2. PICK i : IsRow(i) /\ n = Fields[i]
    BY <2>1, FieldOfRow
  <2>3. Name(i) = Names[n]
    BY <2>2, Rows DEF Row
  <2>4. QED
    BY <2>1, <2>2, <2>3
<1>2. QED
  BY <1>1

LEMMA NamedByOne ==
  ASSUME NEW t, IsText(t), NEW i, IsRow(i), SameName(Name(i), t)
  PROVE  NamedBy(t) = {Fields[i]}
<1>1. Fields[i] \in NamedBy(t)
  <2>1. Name(i) = Names[Fields[i]]
    BY Rows DEF Row
  <2>2. QED
    BY <2>1, RowHasField DEF NamedBy
<1>2. ASSUME NEW n \in NamedBy(t) PROVE n = Fields[i]
  <2>1. n \in DOMAIN Manual /\ SameName(Names[n], t)
    BY DEF NamedBy
  <2>2. PICK j : IsRow(j) /\ n = Fields[j]
    BY <2>1, FieldOfRow
  <2>3. Name(j) = Names[n]
    BY <2>2, Rows DEF Row
  <2>4. i = j
    BY <2>1, <2>2, <2>3, OneName
  <2>5. QED
    BY <2>2, <2>4
<1>3. QED
  BY <1>1, <1>2

\* The dispatcher finds the function of the command that the first word of a
\* line names, and none if there is no such command.
Found(l) == cr_find_cmd_idx_ci_exact(cr_first_token(l))

LEMMA Dispatched ==
  ASSUME NEW l, IsText(l)
  PROVE  \/ /\ Found(l) < 0
            /\ WordsOf(l) = << >> \/ NamedBy(WordsOf(l)[1]) = {}
         \/ /\ ~ (Found(l) < 0)
            /\ WordsOf(l) # << >>
            /\ {commands_Handler[COMMANDS[Found(l) + 1][2]]}
                 = {Manual[n] : n \in NamedBy(WordsOf(l)[1])}
            /\ commands_Handler[COMMANDS[Found(l) + 1][2]] # "invalid"
<1> DEFINE t == cr_first_token(l)
           idx == Found(l)
<1>1. /\ IsText(t)
      /\ t = << >> <=> WordsOf(l) = << >>
      /\ t # << >> => t = WordsOf(l)[1]
  BY FirstToken
<1> HIDE DEF t
<1>2. idx = cr_find_cmd_idx_ci_exact(t)
  BY DEF Found, t
<1> HIDE DEF idx
<1>3. CASE idx = -1 /\ (t = << >> \/ \A i : IsRow(i) => ~ SameName(Name(i), t))
  <2>1. idx < 0
    BY <1>3
  <2>2. t # << >> => NamedBy(t) = {}
    BY <1>3, NamedByNone
  <2>3. QED
    BY <1>1, <2>1, <2>2 DEF idx
<1>4. CASE /\ idx \in Nat /\ t # << >> /\ IsRow(idx + 1)
           /\ \A i : IsRow(i) => (SameName(Name(i), t) <=> i = idx + 1)
  <2> DEFINE i == idx + 1
  <2>1. ~(idx < 0) /\ IsRow(i) /\ SameName(Name(i), t)
    BY <1>4
  <2>2. i = idx + 1
    OBVIOUS
  <2> HIDE DEF i
  <2>3. NamedBy(t) = {Fields[i]}
    BY <1>1, <2>1, NamedByOne
  <2>4. commands_Handler[COMMANDS[i][2]] = Manual[Fields[i]]
    BY <2>1, Rows DEF Row
  <2>5. Manual[Fields[i]] # "invalid"
    BY <2>1, RowHasField, NoneIsInvalid
  <2>6. {commands_Handler[COMMANDS[i][2]]} = {Manual[n] : n \in NamedBy(t)}
    BY <2>3, <2>4
  <2>7. t = WordsOf(l)[1] /\ WordsOf(l) # << >>
    BY <1>1, <1>4
  <2>8. QED
    BY <2>1, <2>2, <2>4, <2>5, <2>6, <2>7 DEF idx
<1>5. QED
  BY <1>1, <1>2, <1>3, <1>4, Lookup

\* help shows the entry of the command that its argument names, if any.
LEMMA HelpOfWord ==
  ASSUME NEW t, IsText(t)
  PROVE  {find_help_entry(t)} \ {<< >>} = {Names[n] : n \in NamedBy(t)}
<1> DEFINE e == find_help_entry(t)
<1>1. \/ e # << >> /\ IsEntry(e, t)
      \/ e = << >> /\ \A i : IsRow(i) => ~ SameName(Name(i), t)
  BY HelpEntry
<1> HIDE DEF e
<1>2. CASE e # << >> /\ IsEntry(e, t)
  <2>1. PICK i : IsRow(i) /\ e = Name(i) /\ SameName(Name(i), t)
    BY <1>2 DEF IsEntry
  <2>2. NamedBy(t) = {Fields[i]} /\ Name(i) = Names[Fields[i]]
    BY <2>1, NamedByOne, Rows DEF Row
  <2>3. {Names[n] : n \in NamedBy(t)} = {e}
    BY <2>1, <2>2
  <2>4. QED
    BY <1>2, <2>3 DEF e
<1>3. CASE e = << >> /\ \A i : IsRow(i) => ~ SameName(Name(i), t)
  <2>1. NamedBy(t) = {}
    BY <1>3, NamedByNone
  <2>2. QED
    BY <1>3, <2>1 DEF e
<1>4. QED
  BY <1>1, <1>2, <1>3

\* Every command has its entry, which help without argument shows.
LEMMA HelpOfCommand == ASSUME NEW i, IsRow(i) PROVE find_help_entry(Name(i)) = Name(i)
<1> DEFINE t == Name(i)
           e == find_help_entry(t)
<1>1. IsText(t)
  BY NameIsText DEF IsText, Texts
<1>2. SameName(Name(i), t)
  BY DEF SameName
<1>3. \/ e # << >> /\ IsEntry(e, t)
      \/ e = << >> /\ \A j : IsRow(j) => ~ SameName(Name(j), t)
  BY <1>1, HelpEntry
<1> HIDE DEF e, t
<1>4. IsEntry(e, t)
  BY <1>2, <1>3
<1>5. PICK j : IsRow(j) /\ e = Name(j) /\ SameName(Name(j), t)
  BY <1>4 DEF IsEntry
<1>6. i = j
  BY <1>1, <1>2, <1>5, OneName
<1>7. QED
  BY <1>5, <1>6 DEF e, t

LEMMA HelpOfAll ==
  ASSUME NEW argv, ~ (Len(argv) >= 2)
  PROVE  help_impl(argv) = [i \in DOMAIN COMMANDS |-> COMMANDS[i][1]]
<1>1. \A i \in DOMAIN COMMANDS : IsRow(i)
  BY DEF COMMANDS, IsRow
<1>2. \A i \in DOMAIN COMMANDS : find_help_entry(COMMANDS[i][1]) = COMMANDS[i][1]
  BY <1>1, HelpOfCommand DEF Name
<1>3. QED
  BY <1>2 DEF help_impl

------------------------------------------------------------------------------
(* What a command does.                                                    *)

Telling == {"help", "sleep", "resize", "invalid"}

(* What holds of the line that is being worked on.                         *)
LineInv ==
  /\ IsText(line)
  /\ pc = "command" =>
       /\ WordsOf(line) # << >> /\ Function # "invalid"
       /\ {Function} = {Manual[n] : n \in NamedBy(WordsOf(line)[1])}
       /\ cr_last_argv = simple_tokenize(line)
  /\ pc \notin {"prompt", "dispatch", "command", "off"} => did[1] \notin Telling

LineOK == LineInv /\ Understands

\* A prompt that follows no command that tells anything.
LEMMA NothingToTell ==
  ASSUME pc # "command", pc = "prompt" => did[1] \notin Telling
  PROVE  Understands
<1>1. did = <<"invalid">> => did[1] = "invalid"
  OBVIOUS
<1>2. pc = "prompt" => /\ did # <<"invalid">> /\ did[1] # "help"
                       /\ did[1] # "sleep" /\ did[1] # "resize"
  BY <1>1 DEF Telling
<1>3. QED
  BY <1>2 DEF Understands

\* The second word of a line is the argument of its command.
LEMMA Argument ==
  ASSUME NEW l, IsText(l)
  PROVE  /\ Len(simple_tokenize(l)) >= 2 <=> Len(WordsOf(l)) > 1 /\ MaxArgs > 2
         /\ Len(simple_tokenize(l)) >= 2 =>
              simple_tokenize(l)[2] = WordsOf(l)[2] /\ WordsOf(l)[2] \in Texts
<1> DEFINE argv == simple_tokenize(l)
           n == Len(WordsOf(l))
<1>1. /\ argv \in Seq(Texts)
      /\ Len(argv) = IF n < MaxArgs - 1 THEN n ELSE MaxArgs - 1
      /\ \A m \in 1 .. Len(argv) : argv[m] = WordsOf(l)[m]
  BY Tokens
<1>2. n \in Nat /\ MaxArgs \in Nat
  BY WordsAre, LookupAssumption
<1> HIDE DEF argv, n
<1>3. Len(argv) >= 2 <=> n > 1 /\ MaxArgs > 2
  BY <1>1, <1>2
<1>4. ASSUME Len(argv) >= 2 PROVE argv[2] = WordsOf(l)[2] /\ WordsOf(l)[2] \in Texts
  <2>1. 2 \in 1 .. Len(argv) /\ argv[2] \in Texts
    BY <1>1, <1>4
  <2>2. QED
    BY <1>1, <2>1
<1>5. QED
  BY <1>3, <1>4 DEF argv, n

LEMMA InitLine == Init => LineOK
<1> SUFFICES ASSUME Init PROVE LineOK
  OBVIOUS
<1>1. line = << >> /\ pc = "start" /\ did[1] = "nothing"
  BY DEF Init
<1>2. LineInv
  BY <1>1, EmptySeq DEF LineInv, IsText, Telling
<1>3. QED
  BY <1>1, <1>2, NothingToTell DEF LineOK, Telling

LEMMA ReadLine == ASSUME LineOK, Read PROVE LineOK'
<1>1. pc' = "dispatch" /\ IsText(line')
  BY ShellAssumption DEF Read, IsText
<1>2. QED
  BY <1>1 DEF LineOK, LineInv, Understands

LEMMA DispatchLine == ASSUME LineOK, cr_dispatch_exact PROVE LineOK'
<1> DEFINE idx == Found(line)
           words == WordsOf(line)
<1>1. IsText(line) /\ line' = line
  BY DEF LineOK, LineInv, cr_dispatch_exact
<1>2. CASE idx < 0 /\ (words = << >> \/ NamedBy(words[1]) = {})
  <2>1. pc' = "prompt" /\ did' = <<"invalid">>
    BY <1>2 DEF cr_dispatch_exact, Found
  <2>2. did'[1] = "invalid"
    BY <2>1
  <2>3. LineInv'
    BY <1>1, <2>1 DEF LineInv
  <2>4. Understands'
    BY <1>1, <1>2, <2>1, <2>2 DEF Understands
  <2>5. QED
    BY <2>3, <2>4 DEF LineOK
<1>3. CASE /\ ~ (idx < 0) /\ words # << >>
           /\ {commands_Handler[COMMANDS[idx + 1][2]]}
                = {Manual[n] : n \in NamedBy(words[1])}
           /\ commands_Handler[COMMANDS[idx + 1][2]] # "invalid"
  <2>1. /\ pc' = "command" /\ cr_last_argv' = simple_tokenize(line)
        /\ Function' = commands_Handler[COMMANDS[idx + 1][2]]
    BY <1>3 DEF cr_dispatch_exact, Found, Function
  <2>2. simple_tokenize(line) = First(words, MaxArgs - 1)
    BY <1>1, Tokens
  <2>3. LineInv'
    BY <1>1, <1>3, <2>1 DEF LineInv
  <2>4. Understands'
    BY <1>1, <1>3, <2>1, <2>2 DEF Understands
  <2>5. QED
    BY <2>3, <2>4 DEF LineOK
<1>4. QED
  BY <1>1, <1>2, <1>3, Dispatched

LEMMA CommandLine == ASSUME LineOK, Command PROVE LineOK'
<1> DEFINE words == WordsOf(line)
           argv == cr_last_argv
<1>1. /\ IsText(line) /\ line' = line /\ Function # "invalid"
      /\ argv = simple_tokenize(line) /\ did' = Effect /\ pc' \in {"prompt", "off"}
  BY DEF LineOK, LineInv, Command
<1>2. /\ Len(argv) >= 2 <=> Len(words) > 1 /\ MaxArgs > 2
      /\ Len(argv) >= 2 => argv[2] = words[2] /\ IsText(words[2]) /\ words[2] \in Texts
  BY <1>1, Argument DEF IsText, Texts
<1>3. LineInv'
  BY <1>1 DEF LineInv
<1>4. CASE Function = "help"
  <2>1. did' = <<"help", help_impl(argv)>>
    BY <1>1, <1>4 DEF Effect
  <2>2. did'[1] = "help" /\ did'[2] = help_impl(argv)
    BY <2>1
  <2>3. IF Len(words) > 1 /\ MaxArgs > 2
        THEN {did'[2][1]} \ {<< >>} = {Names[n] : n \in NamedBy(words[2])}
        ELSE did'[2] = [i \in DOMAIN COMMANDS |-> COMMANDS[i][1]]
    <3>1. CASE Len(argv) >= 2
      <4>1. did'[2][1] = find_help_entry(words[2])
        BY <1>2, <2>2, <3>1 DEF help_impl
      <4>2. QED
        BY <1>2, <3>1, <4>1, HelpOfWord
    <3>2. CASE ~ (Len(argv) >= 2)
      BY <1>2, <2>2, <3>2, HelpOfAll
    <3>3. QED
      BY <3>1, <3>2
  <2>4. did' # <<"invalid">>
    BY <2>2
  <2>5. Understands'
    BY <1>1, <2>2, <2>3, <2>4 DEF Understands
  <2>6. QED
    BY <1>3, <2>5 DEF LineOK
<1>5. CASE Function = "sleep"
  <2>1. CASE Len(argv) = 2 /\ is_numeric(argv[2])
    <3>1. did' = <<"sleep", string_to_int(words[2])>>
      BY <1>1, <1>2, <1>5, <2>1 DEF Effect
    <3>2. did'[1] = "sleep" /\ did'[2] = string_to_int(words[2])
      BY <3>1
    <3>3. Fits(words[2]) => did'[2] = Value(words[2])
      <4>1. IsDigits(words[2])
        BY <1>2, <2>1, NumericIs
      <4>2. QED
        BY <3>2, <4>1, StringToIntIs
    <3>4. did' # <<"invalid">>
      BY <3>2
    <3>5. Understands'
      BY <1>1, <3>2, <3>3, <3>4 DEF Understands
    <3>6. QED
      BY <1>3, <3>5 DEF LineOK
  <2>2. CASE ~ (Len(argv) = 2 /\ is_numeric(argv[2]))
    <3>1. did' = <<"usage", "sleep">>
      BY <1>1, <1>5, <2>2 DEF Effect
    <3>2. did'[1] \notin Telling
      BY <3>1 DEF Telling
    <3>3. QED
      BY <1>1, <1>3, <3>2 DEF LineOK, Understands, Telling
  <2>3. QED
    BY <2>1, <2>2
<1>6. CASE Function = "resize"
  <2>1. CASE Len(argv) = 2 /\ is_numeric(argv[2])
    <3>1. did' = <<"resize", syscall_resize(words[2])>>
      BY <1>1, <1>2, <1>6, <2>1 DEF Effect
    <3>2. did'[1] = "resize" /\ did'[2] = syscall_resize(words[2])
      BY <3>1
    <3>3. Fits(words[2]) =>
            did'[2] = IF Value(words[2]) \in 1 .. 4 THEN Value(words[2])
                      ELSE IF Value(words[2]) = 0 THEN 1 ELSE 4
      <4>1. IsDigits(words[2])
        BY <1>2, <2>1, NumericIs
      <4>2. QED
        BY <3>2, <4>1, ResizeIs
    <3>4. did' # <<"invalid">>
      BY <3>2
    <3>5. Understands'
      BY <1>1, <3>2, <3>3, <3>4 DEF Understands
    <3>6. QED
      BY <1>3, <3>5 DEF LineOK
  <2>2. CASE ~ (Len(argv) = 2 /\ is_numeric(argv[2]))
    <3>1. did' = <<"usage", "resize">>
      BY <1>1, <1>6, <2>2 DEF Effect
    <3>2. did'[1] \notin Telling
      BY <3>1 DEF Telling
    <3>3. QED
      BY <1>1, <1>3, <3>2 DEF LineOK, Understands, Telling
  <2>3. QED
    BY <2>1, <2>2
<1>7. CASE Function \notin {"help", "sleep", "resize"}
  <2>1. did' = <<"echo", Tail(argv)>> \/ did' = << Function >>
    BY <1>1, <1>7 DEF Effect
  <2>2. did'[1] \notin Telling
    BY <1>1, <1>7, <2>1 DEF Telling
  <2>3. QED
    BY <1>1, <1>3, <2>2 DEF LineOK, Understands, Telling
<1>8. QED
  BY <1>4, <1>5, <1>6, <1>7

\* The other steps leave the line alone, and tell nothing.
LEMMA OtherLine ==
  ASSUME LineOK, Start \/ Exception \/ Snapshot \/ ShiftTab
  PROVE  LineOK'
<1>1. CASE Start
  <2>1. pc = "start" /\ pc' = "prompt" /\ line' = line /\ did' = did
    BY <1>1 DEF Start
  <2>2. did[1] \notin Telling
    BY <2>1 DEF LineOK, LineInv
  <2>3. QED
    BY <2>1, <2>2 DEF LineOK, LineInv, Understands, Telling
<1>2. CASE Exception
  <2>1. /\ line' = line /\ did'[1] \notin Telling
        /\ pc' \in {"start", "exception", "update", "print", "wait"}
    BY <1>2 DEF LineOK, LineInv, Exception, Throw, HandleException, UpdateRegs,
                PrintRegisters, WaitForEnter, PressEnter, parser, Faulting, Telling
  <2>2. QED
    BY <2>1 DEF LineOK, LineInv, Understands
<1>3. CASE Snapshot
  <2>1. /\ line' = line /\ did'[1] \notin Telling
        /\ pc' \in {"prompt", "copy", "copied"}
    BY <1>3 DEF LineOK, LineInv, Snapshot, Registers, CopyWord, PrintCopy,
                parser, Telling
  <2>2. QED
    BY <2>1 DEF LineOK, LineInv, Understands, Telling
<1>4. CASE ShiftTab
  BY <1>4 DEF LineOK, LineInv, Understands, ShiftTab, parser, Function
<1>5. QED
  BY <1>1, <1>2, <1>3, <1>4

LEMMA StepLine == LineOK /\ [Next]_vars => LineOK'
<1> SUFFICES ASSUME LineOK, [Next]_vars PROVE LineOK'
  OBVIOUS
<1>1. CASE UNCHANGED vars
  BY <1>1 DEF LineOK, LineInv, Understands, vars, parser, Function
<1>2. QED
  BY <1>1, ReadLine, DispatchLine, CommandLine, OtherLine DEF Next

(* Whatever line is typed, and however often the shell has been started    *)
(* again, it runs the command that the line names with the words of the    *)
(* line, help finds the entry of every command and of no other word, and   *)
(* sleep and resize get the number that was typed if an int holds it       *)
(* (commandRead.c, help.c, utils.c).                                       *)
THEOREM LinesAreUnderstood == Spec => []Understands
<1>1. LineOK => Understands
  BY DEF LineOK
<1>2. QED
  BY <1>1, InitLine, StepLine, PTL DEF Spec
==============================================================================

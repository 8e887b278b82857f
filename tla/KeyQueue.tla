------------------------------- MODULE KeyQueue -------------------------------
(***************************************************************************)
(* What the keyboard driver promises to its callers: a bounded queue of    *)
(* keys that forgets its oldest key when one more arrives, until it is     *)
(* cleared.  The promise ends when an interrupt disturbs a read in         *)
(* progress, and is given again by the next clear.                         *)
(***************************************************************************)
EXTENDS Naturals, Sequences

CONSTANTS Capacity, Keys, NoKey

VARIABLES queue,      \* the keys typed and not read, oldest first
          taken,      \* the key that the last read returned
          disturbed   \* an interrupt has disturbed a read since the last clear

vars == <<queue, taken, disturbed>>

Init == queue = <<>> /\ taken = NoKey /\ disturbed = FALSE

Push(k) ==
  /\ queue' = Append(IF Len(queue) = Capacity THEN Tail(queue) ELSE queue, k)
  /\ UNCHANGED <<taken, disturbed>>

Take ==
  /\ queue # <<>>
  /\ taken' = Head(queue)
  /\ queue' = Tail(queue)
  /\ UNCHANGED disturbed

Clear == queue' = <<>> /\ disturbed' = FALSE /\ UNCHANGED taken

\* Nothing is promised of a disturbed queue but that it holds keys.
Disturbed ==
  /\ disturbed'
  /\ queue' \in Seq(Keys)
  /\ taken' \in Keys \cup {NoKey}

Next == (\E k \in Keys : Push(k)) \/ Take \/ Clear \/ Disturbed

Spec == Init /\ [][Next]_vars
=============================================================================

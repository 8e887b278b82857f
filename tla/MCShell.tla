------------------------------- MODULE MCShell -------------------------------
(* Instance for TLC: every command by its name, in capitals, shortened,     *)
(* lengthened and with a last letter changed, with blanks around it; lines  *)
(* for the arguments, one more of them than there is room for.              *)
EXTENDS Shell

\* The characters from the space up, but for the two quotes and the backslash.
Ascii == " ! #$%&'()*+,-./0123456789:;<=>?@ABCDEFGHIJKLMNOPQRSTUVWXYZ[ ]^_ abcdefghijklmnopqrstuvwxyz{|}~"

Codes(s) ==
  [i \in 1 .. Len(s) |->
     31 + CHOOSE k \in 1 .. Len(Ascii) :
            /\ SubSeq(Ascii, k, k) = SubSeq(s, i, i)
            /\ \A j \in 1 .. k - 1 : SubSeq(Ascii, j, j) # SubSeq(s, i, i)]

ASSUME NamesAreSpelled == \A n \in DOMAIN Names : Names[n] = Codes(n)

Upper(l)  == [i \in DOMAIN l |-> IF l[i] > 96 THEN l[i] - 32 ELSE l[i]]
Typeable  == {COMMANDS[i][1] : i \in DOMAIN COMMANDS}
Variants(n) ==
  {n, Upper(n), n \o Codes("s"), SubSeq(n, 1, Len(n) - 1),
   [n EXCEPT ![Len(n)] = IF @ = 122 THEN 97 ELSE @ + 1], Codes("  ") \o n \o Codes(" x")}

Typed ==
  {"", "   ", "a", "zz", "test", "t", "0", "Help HELP", "help nothing",
   "help  testsound ", "help tes", "echo a  b c", "echo a b c d", " echo", "sleep",
   "sleep 0", "sleep 25", "sleep 127", "sleep 128", "sleep 300", "sleep -1",
   "sleep 2 3", "resize 0", "resize 4", "resize 9", "resize 130",
   "resize 2x", "ReSize 3", "kill now", "time[", "@date", "sleep 2/", "sleep 3:", "*"}

MCLines == UNION {Variants(n) : n \in Typeable} \cup {Codes(s) : s \in Typed}
           \cup {Codes("help ") \o n : n \in Typeable}

MCDepth == [f \in Faulting |-> IF f = "testZeroDivision" THEN 2 ELSE 3]
==============================================================================

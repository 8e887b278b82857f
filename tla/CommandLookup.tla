---------------------------- MODULE CommandLookup ----------------------------
(***************************************************************************)
(* How the shell understands a line: the first token is looked up in the   *)
(* table of commands by two binary searches for prefixes, then the line is *)
(* cut into arguments; help has a table and a search of its own, and       *)
(* numbers are read into an int.  A line is a sequence of characters, and  *)
(* the end of the string (the code's '\0') is the end of the sequence.     *)
(***************************************************************************)
EXTENDS Integers, Sequences

CONSTANTS
  MaxArgs,  \* CR_MAXARGS
  IntMod    \* 2^(width of int)

ASSUME LookupAssumption == MaxArgs \in Nat \ {0, 1} /\ IntMod \in Nat \ {0}

------------------------------------------------------------------------------
(* A character of a string is a byte, compared as an unsigned char.  The   *)
(* blanks of the code are the space, the tab and two ends of line; one of  *)
(* them stands for all.                                                    *)
Characters == (1 .. 255) \ {9, 10, 13}

NUL   == 0
SPACE == 32
ZERO  == 48
NINE  == 57
UPPER == 65 .. 90

At(s, i) == IF i \in DOMAIN s THEN s[i] ELSE NUL

(* The names that the two tables hold.                                     *)
Names ==
  LET a == 97   b == 98   c == 99   d == 100  e == 101  f == 102  g == 103
      h == 104  i == 105  k == 107  l == 108  m == 109  n == 110  o == 111
      p == 112  r == 114  s == 115  t == 116  u == 117  v == 118  y == 121
      z == 122
  IN [benchmark |-> <<b, e, n, c, h, m, a, r, k>>, clear |-> <<c, l, e, a, r>>,
      date |-> <<d, a, t, e>>, echo |-> <<e, c, h, o>>, fps |-> <<f, p, s>>,
      help |-> <<h, e, l, p>>, kill |-> <<k, i, l, l>>,
      registers |-> <<r, e, g, i, s, t, e, r, s>>, resize |-> <<r, e, s, i, z, e>>,
      sleep |-> <<s, l, e, e, p>>,
      testinvalidop |-> <<t, e, s, t, i, n, v, a, l, i, d, o, p>>,
      testsound |-> <<t, e, s, t, s, o, u, n, d>>,
      testsyscalls |-> <<t, e, s, t, s, y, s, c, a, l, l, s>>,
      testzero |-> <<t, e, s, t, z, e, r, o>>, time |-> <<t, i, m, e>>,
      tron |-> <<t, r, o, n>>]

COMMANDS ==
  << <<Names.benchmark, 8>>,     <<Names.clear, 0>>,
     <<Names.date, 1>>,          <<Names.echo, 2>>,
     <<Names.fps, 15>>,          <<Names.help, 3>>,
     <<Names.kill, 11>>,         <<Names.registers, 9>>,
     <<Names.resize, 4>>,        <<Names.sleep, 13>>,
     <<Names.testinvalidop, 5>>, <<Names.testsound, 12>>,
     <<Names.testsyscalls, 14>>, <<Names.testzero, 6>>,
     <<Names.time, 7>>,          <<Names.tron, 10>> >>

HELP_ENTRIES ==
  << Names.benchmark, Names.clear, Names.date, Names.echo,
     Names.fps, Names.help, Names.kill, Names.registers,
     Names.resize, Names.sleep, Names.testinvalidop,
     Names.testsound, Names.testsyscalls, Names.testzero,
     Names.time, Names.tron >>

------------------------------------------------------------------------------
my_tolower(c) == IF c \in UPPER THEN c + 32 ELSE c

(* The comparison of two characters without regard to case.                *)
Compare(a, b) == my_tolower(a) - my_tolower(b)

(* Negative, 0 or positive as name is below tok, begins with it, is above. *)
ci_cmp_prefix(name, tok) ==
  LET differ == {i \in 1 .. Len(tok) : Compare(At(name, i), tok[i]) # 0}
  IN IF differ = {} THEN 0
     ELSE LET i == CHOOSE i \in differ : \A j \in differ : i <= j
          IN Compare(At(name, i), tok[i])

(* A round of the loop of both searches, on <<lo, hi>>: behind are the     *)
(* places that lo passes.                                                  *)
Halve(range, behind) ==
  LET lo  == range[1]
      hi  == range[2]
      mid == lo + (hi - lo) \div 2
  IN IF lo >= hi THEN range
     ELSE IF mid \in behind THEN <<mid + 1, hi>> ELSE <<lo, mid>>

(* Where lo ends: every round makes hi - lo smaller.                       *)
Bound(behind) ==
  LET after[n \in 0 .. Len(COMMANDS)] ==
        IF n = 0 THEN <<0, Len(COMMANDS)>> ELSE Halve(after[n - 1], behind)
  IN after[Len(COMMANDS)][1]

Positions == 0 .. Len(COMMANDS) - 1

lb_prefix(tok) == Bound({i \in Positions : ci_cmp_prefix(COMMANDS[i + 1][1], tok) < 0})

(* Mutant: the second search stops where the first does.                   *)
ub_prefixBefore(tok) == lb_prefix(tok)

ub_prefix(tok) == Bound({i \in Positions : ci_cmp_prefix(COMMANDS[i + 1][1], tok) <= 0})

ci_strncmp(a, b, n) == \A i \in 1 .. n : Compare(At(a, i), At(b, i)) = 0

cr_find_cmd_idx_ci_exact(token) ==
  LET lo == lb_prefix(token)
      hi == ub_prefix(token)
  IN IF \/ token = << >> \/ hi - lo # 1
        \/ Len(COMMANDS[lo + 1][1]) # Len(token)
        \/ ~ ci_strncmp(COMMANDS[lo + 1][1], token, Len(token))
     THEN -1 ELSE lo

------------------------------------------------------------------------------
(* Where a scan over blanks, or over other characters, stops.  A tab is a  *)
(* blank like the space, which stands for it.                              *)
Scan(line, i, blanks) ==
  CHOOSE j \in i .. Len(line) + 1 :
    /\ \A k \in i .. j - 1 : (line[k] = SPACE) = blanks
    /\ j > Len(line) \/ (line[j] = SPACE) # blanks

cr_first_token(buf) ==
  LET start == Scan(buf, 1, TRUE)
  IN SubSeq(buf, start, Scan(buf, start, FALSE) - 1)

(* A round of the loop, on <<p, argv>>.                                    *)
TakeToken(line, scan) ==
  LET p   == scan[1]
      end == Scan(line, p, FALSE)
  IN IF p > Len(line) THEN scan
     ELSE <<Scan(line, end, TRUE), Append(scan[2], SubSeq(line, p, end - 1))>>

simple_tokenize(line) ==
  LET after[n \in 0 .. MaxArgs - 1] ==
        IF n = 0 THEN <<Scan(line, 1, TRUE), << >> >> ELSE TakeToken(line, after[n - 1])
  IN after[MaxArgs - 1][2]

------------------------------------------------------------------------------
(* help.c.                                                                 *)
ci_strcmp(a, b) ==
  LET n == CHOOSE i \in 1 .. Len(a) + 1 :
             /\ Compare(At(a, i), At(b, i)) # 0 \/ i = Len(a) + 1
             /\ \A j \in 1 .. i - 1 : Compare(At(a, j), At(b, j)) = 0
  IN Compare(At(a, n), At(b, n))

(* A round of the loop, on <<lo, hi, the entry to return>>.                *)
Probe(search, name) ==
  LET lo  == search[1]
      hi  == search[2]
      mid == lo + (hi - lo) \div 2
      c   == ci_strcmp(HELP_ENTRIES[mid + 1], name)
  IN IF search[3] # << >> \/ lo >= hi THEN search
     ELSE IF c = 0 THEN <<lo, hi, HELP_ENTRIES[mid + 1]>>
     ELSE IF c < 0 THEN <<mid + 1, hi, << >> >> ELSE <<lo, mid, << >> >>

find_help_entry(name) ==
  LET after[n \in 0 .. Len(HELP_ENTRIES)] ==
        IF n = 0 THEN <<0, Len(HELP_ENTRIES), << >> >> ELSE Probe(after[n - 1], name)
  IN after[Len(HELP_ENTRIES)][3]

(* The entries that help prints: one, none if it knows none, or those of   *)
(* all the commands.                                                       *)
help_impl(argv) ==
  IF Len(argv) >= 2 THEN <<find_help_entry(argv[2])>>
  ELSE [i \in DOMAIN COMMANDS |-> find_help_entry(COMMANDS[i][1])]

------------------------------------------------------------------------------
(* utils.c.                                                                *)
is_numeric(str) == str # << >> /\ \A i \in DOMAIN str : str[i] \in ZERO .. NINE

ToInt(n) == LET r == n % IntMod
            IN IF r >= IntMod \div 2 THEN r - IntMod ELSE r

string_to_int(str) ==
  LET result[i \in 0 .. Len(str)] ==
        IF i = 0 THEN 0 ELSE ToInt(result[i - 1] * 10 + (str[i] - ZERO))
  IN result[Len(str)]

(* video.c of the kernel, for the number of resize, which is_numeric has   *)
(* seen; then the clamp of syscall_resize.                                 *)
str_to_uint_ignore_sign(str) ==
  LET x[i \in 0 .. Len(str)] ==
        IF i = 0 THEN 0 ELSE (x[i - 1] * 10 + (str[i] - ZERO)) % IntMod
  IN x[Len(str)]

syscall_resize(str) ==
  LET s == ToInt(str_to_uint_ignore_sign(str))
  IN IF s < 1 THEN 1 ELSE IF s > 4 THEN 4 ELSE s

------------------------------------------------------------------------------
(* commands_Handler: the function that an id of the table stands for.      *)
commands_Handler ==
  [id \in 0 .. 15 |->
     <<"clear", "date", "echo", "help", "resize", "testInvalidOpcode",
       "testZeroDivision", "time", "benchmark", "registers", "tron", "kill",
       "testSound", "sleep", "testsyscalls", "fps">>[id + 1]]
==============================================================================

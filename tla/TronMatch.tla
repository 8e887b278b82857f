------------------------------ MODULE TronMatch ------------------------------
(***************************************************************************)
(* A session of Tron: startGame with its two menus, the matches it plays,  *)
(* the pause between rounds and the levels, on top of a queue of keys that *)
(* nobody empties.  Rounds are those of BestOfFive, which module TronRound *)
(* implements on the board.                                                *)
(***************************************************************************)
EXTENDS Naturals, Sequences, FiniteSetsExt

CONSTANTS
  TopLevel,      \* level++ stops here, 99 in the program
  QueueLength    \* keys the driver's ring holds, 32 in the program

ASSUME LevelAssumption == TopLevel \in Nat \ {0}
ASSUME QueueAssumption == QueueLength \in Nat \ {0}

VARIABLES
  pc,               \* "shell" or the place in the game that waits
  mode, level,      \* choice of the start menu; difficulty
  score,            \* rounds won by each player in this match
  keys,             \* keys typed and not read yet
  announced,        \* the level that the last end menu showed
  wins              \* history: matches that player 1 has won since the start menu

game == <<mode, level, score, announced, wins>>
vars == <<pc, game, keys>>

Rounds == INSTANCE BestOfFive

\* The keys that the menus tell apart; Escape does what Enter does.
Key   == {"a", "b", "enter", "other"}
Sides == Rounds!Sides

Init ==
  /\ pc = "shell" /\ mode = 0 /\ level = 1
  /\ score = [i \in Sides |-> 0]
  /\ keys = <<>> /\ announced = 1 /\ wins = 0

\* A key, while the game does something else or waits for it.
Type(k) ==
  /\ pc # "shell"
  /\ keys' = Append(IF Len(keys) = QueueLength THEN Tail(keys) ELSE keys, k)
  /\ UNCHANGED <<pc, game>>

\* Mutant: a key that is no answer stays where it is.
GetCharPeek(k) == keys # <<>> /\ k = Head(keys) /\ keys' = IF k = "other" THEN keys ELSE Tail(keys)

\* getchar: the oldest key, whenever it was typed; the loops ignore a timeout.
GetChar(k) == keys # <<>> /\ k = Head(keys) /\ keys' = Tail(keys)

\* The shell read the command's line, and emptied the ring before that.
Launch ==
  /\ pc = "shell"
  /\ pc' = "start_menu"
  /\ keys' = <<>>
  /\ UNCHANGED game

\* tron_setup_match.
NewMatch == score' = [i \in Sides |-> 0]

StartMenu(k) ==
  /\ pc = "start_menu"
  /\ GetChar(k)
  /\ \/ /\ k \in {"a", "b"}
        /\ mode' = (IF k = "a" THEN 1 ELSE 2) /\ level' = 1 /\ wins' = 0
        /\ NewMatch
        /\ pc' = "play"
        /\ UNCHANGED announced
     \/ k = "enter" /\ pc' = "shell" /\ UNCHANGED game
     \/ k = "other" /\ UNCHANGED <<pc, game>>

\* Wins beyond the top level make no difference.
WinsBound == TopLevel

\* Mutant: the number is the level of the match just played.
ShownLevelPlayed(s) == level

\* The number that the end menu shows; a tie counts as won.
ShownLevel(s) == IF s[1] = 3 THEN level + 1 ELSE level

\* A round: its ticks read some of the keys, and one player or both score.
Round(scorers) ==
  /\ pc = "play"
  /\ \E n \in 0 .. Len(keys) : keys' = SubSeq(keys, n + 1, Len(keys))
  /\ Rounds!Award(scorers)
  /\ IF Rounds!MatchOver'
       THEN /\ pc' = "end_menu"
            /\ announced' = ShownLevel(score')
            /\ wins' = IF score'[1] > score'[2] THEN Min({wins + 1, WinsBound}) ELSE wins
       ELSE pc' = "pause" /\ UNCHANGED <<announced, wins>>
  /\ UNCHANGED <<mode, level>>

Pause(k) ==
  /\ pc = "pause"
  /\ GetChar(k)
  /\ pc' = "play"
  /\ UNCHANGED game

\* Mutant: a tie is good enough for the next level.
NextLevelAfterTie == IF mode = 1 /\ score[1] = 3 /\ level < TopLevel THEN level + 1 ELSE level

\* Only a real win against the bot makes the game harder.
NextLevel ==
  IF mode = 1 /\ score[1] = 3 /\ score[2] < 3 /\ level < TopLevel THEN level + 1 ELSE level

\* Mutant: the score of the last match stays.
ContinueSameScore(k) ==
  /\ k = "b" /\ level' = NextLevel
  /\ pc' = "play"
  /\ UNCHANGED <<mode, score, announced, wins>>

Continue(k) ==
  /\ k = "b" /\ level' = NextLevel
  /\ NewMatch
  /\ pc' = "play"
  /\ UNCHANGED <<mode, announced, wins>>

\* "a" calls startGame again; when that call returns, so do all before it.
EndMenu(k) ==
  /\ pc = "end_menu"
  /\ GetChar(k)
  /\ \/ Continue(k)
     \/ k = "a" /\ pc' = "start_menu" /\ UNCHANGED game
     \/ k = "enter" /\ pc' = "shell" /\ UNCHANGED game
     \/ k = "other" /\ UNCHANGED <<pc, game>>

Menus == \E k \in Key : StartMenu(k) \/ EndMenu(k) \/ Pause(k)

Next ==
  \/ Launch
  \/ \E k \in Key : Type(k)
  \/ \E scorers \in SUBSET Sides : Round(scorers)
  \/ Menus

Spec == Init /\ [][Next]_vars

\* getchar never blocks for more than 10 ms and the game loop never stops.
FairSpec == Spec /\ WF_vars(Menus) /\ WF_vars(\E scorers \in SUBSET Sides : Round(scorers))

------------------------------------------------------------------------------
(* Properties. *)

TypeOK ==
  /\ pc \in {"shell", "start_menu", "play", "pause", "end_menu"}
  /\ mode \in 0 .. 2 /\ level \in 1 .. TopLevel
  /\ score \in [Sides -> 0 .. 3]
  /\ keys \in Seq(Key) /\ Len(keys) <= QueueLength
  /\ announced \in 1 .. TopLevel + 1 /\ wins \in 0 .. WinsBound

\* The level of a match against the bot is one more than the matches that the
\* player has really won since the start menu, up to the top; ties, defeats and
\* games of two players leave it alone, and leaving the menu forgets it.
LevelCountsWins ==
  pc \in {"play", "pause"} =>
    level = IF mode = 1 THEN Min({wins + 1, TopLevel}) ELSE 1

\* No round is played once somebody has three points: every way into a match
\* starts from zero, and a round that decides it leads to the end menu.
NoRoundAfterVictory == pc \in {"play", "pause"} => ~Rounds!MatchOver

\* The end menu of a match against the bot says which level comes next, or
\* which one to retry.  That is the level of the next match ...
AnnouncedIsPlayed ==
  [][ pc = "end_menu" /\ pc' = "play" /\ mode = 1 => level' = announced ]_vars

\* ... unless the match was tied or was won at the top level.
AnnouncedUnlessTie ==
  [][ pc = "end_menu" /\ pc' = "play" /\ mode = 1 =>
        \/ level' = announced
        \/ announced = level + 1 /\ level' = level
             /\ (score = [i \in Sides |-> 3] \/ level = TopLevel) ]_vars

\* The first key typed that a menu knows is Enter.
EnterAnswers ==
  \E n \in DOMAIN keys : keys[n] = "enter" /\ \A m \in 1 .. n - 1 : keys[m] = "other"

\* Enter at a menu leads back to the shell, from any number of nested games and
\* through any keys the menu does not know, unless the ring overflows first.
EnterLeaves ==
  (pc \in {"start_menu", "end_menu"} /\ EnterAnswers)
    ~> (pc = "shell" \/ Len(keys) = QueueLength)
=============================================================================

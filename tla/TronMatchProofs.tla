--------------------------- MODULE TronMatchProofs ---------------------------
(***************************************************************************)
(* A session of Tron, for any top level and any length of the key queue.   *)
(***************************************************************************)
EXTENDS TronMatch, TLAPS

Places  == {"shell", "start_menu", "play", "pause", "end_menu"}
InMatch == pc \in {"play", "pause"}

Types ==
  /\ pc \in Places
  /\ mode \in 0 .. 2 /\ level \in 1 .. TopLevel
  /\ score \in [Sides -> 0 .. 3]
  /\ announced \in 1 .. TopLevel + 1 /\ wins \in 0 .. TopLevel

Capped(n) == IF n <= TopLevel THEN n ELSE TopLevel

(* The match that the end menu is about is over, it shows what came of it, *)
(* and a win against the bot has already been counted there.               *)
LevelInv ==
  /\ InMatch \/ pc = "end_menu" => mode \in {1, 2} /\ (mode = 2 => level = 1)
  /\ InMatch /\ mode = 1 => level = Capped(wins + 1)
  /\ pc = "end_menu" /\ mode = 1 =>
       level = IF score[1] > score[2] THEN wins ELSE Capped(wins + 1)

ScoreInv ==
  /\ InMatch => score[1] < 3 /\ score[2] < 3
  /\ pc = "end_menu" => (score[1] = 3 \/ score[2] = 3)
                        /\ announced = ShownLevel(score)

Inv == Types /\ LevelInv /\ ScoreInv

------------------------------------------------------------------------------
LEMMA MinOfTwo ==
  ASSUME NEW a \in Nat, NEW b \in Nat
  PROVE  Min({a, b}) = IF a <= b THEN a ELSE b
<1> DEFINE m == IF a <= b THEN a ELSE b
<1>1. m \in {a, b} /\ \A y \in {a, b} : m <= y
  OBVIOUS
<1>2. \A x \in {a, b} : (\A y \in {a, b} : x <= y) => x = m
  OBVIOUS
<1> HIDE DEF m
<1>3. QED
  BY <1>1, <1>2 DEF Min, m

LEMMA CappedIsMin == ASSUME NEW n \in Nat PROVE Min({n, TopLevel}) = Capped(n)
BY MinOfTwo, LevelAssumption DEF Capped

LEMMA SidesAre == Sides = {1, 2}
BY DEF Sides, Rounds!Sides

LEMMA InitInv == Init => Inv
BY LevelAssumption, SidesAre
   DEF Init, Inv, Types, Places, LevelInv, ScoreInv, InMatch

(* A round: points for those who made them, and the end at three.          *)
LEMMA RoundStep ==
  ASSUME Inv, NEW scorers \in SUBSET Sides, Round(scorers)
  PROVE  Inv'
<1> USE LevelAssumption, SidesAre
<1>1. /\ pc = "play" /\ pc' \in {"pause", "end_menu"}
      /\ UNCHANGED <<mode, level>>
  BY DEF Round
<1>2. /\ score \in [{1, 2} -> 0 .. 3] /\ score[1] < 3 /\ score[2] < 3
      /\ wins \in 0 .. TopLevel /\ level \in 1 .. TopLevel /\ mode \in {1, 2}
  BY <1>1 DEF Inv, Types, ScoreInv, LevelInv, InMatch
<1>3. score' = [i \in {1, 2} |-> score[i] + IF i \in scorers THEN 1 ELSE 0]
  BY DEF Round, Rounds!Award, Rounds!Sides
<1>4. /\ score' \in [{1, 2} -> 0 .. 3]
      /\ score'[1] \in 0 .. 3 /\ score'[2] \in 0 .. 3
  BY <1>2, <1>3
<1>5. Rounds!MatchOver' <=> score'[1] = 3 \/ score'[2] = 3
  BY DEF Rounds!MatchOver, Rounds!Sides, Rounds!ToWin
<1>6. CASE Rounds!MatchOver'
  <2>1. /\ pc' = "end_menu" /\ announced' = ShownLevel(score')
        /\ wins' = IF score'[1] > score'[2] THEN Min({wins + 1, TopLevel}) ELSE wins
    BY <1>6 DEF Round, WinsBound
  <2>2. Min({wins + 1, TopLevel}) = Capped(wins + 1)
    BY <1>2, CappedIsMin
  <2>3. Types'
    BY <1>1, <1>2, <1>4, <2>1, <2>2 DEF Inv, Types, Places, ShownLevel, Capped
  <2>4. LevelInv'
    BY <1>1, <1>2, <2>1, <2>2 DEF Inv, LevelInv, InMatch, Capped
  <2>5. ScoreInv'
    BY <1>1, <1>5, <1>6, <2>1 DEF ScoreInv, InMatch, ShownLevel
  <2>6. QED
    BY <2>3, <2>4, <2>5 DEF Inv
<1>7. CASE ~ Rounds!MatchOver'
  <2>1. pc' = "pause" /\ UNCHANGED <<announced, wins>>
    BY <1>7 DEF Round
  <2>2. Types'
    BY <1>1, <1>2, <1>4, <2>1 DEF Inv, Types, Places
  <2>3. LevelInv'
    BY <1>1, <2>1 DEF Inv, LevelInv, InMatch, Capped
  <2>4. ScoreInv'
    BY <1>4, <1>5, <1>7, <2>1 DEF ScoreInv, InMatch
  <2>5. QED
    BY <2>2, <2>3, <2>4 DEF Inv
<1>8. QED
  BY <1>6, <1>7

LEMMA StartStep ==
  ASSUME Inv, NEW k \in Key, StartMenu(k)
  PROVE  Inv'
<1> USE LevelAssumption, SidesAre DEF game
<1>1. CASE k \in {"a", "b"} /\ pc' = "play"
  <2>1. /\ mode' \in {1, 2} /\ level' = 1 /\ wins' = 0
        /\ score' = [i \in {1, 2} |-> 0] /\ announced' = announced
    BY <1>1 DEF StartMenu, NewMatch
  <2>2. QED
    BY <1>1, <2>1 DEF Inv, Types, Places, LevelInv, ScoreInv, InMatch, Capped
<1>2. CASE pc' \in {"shell", "start_menu"} /\ UNCHANGED game
  BY <1>2 DEF Inv, Types, Places, LevelInv, ScoreInv, InMatch
<1>3. QED
  BY <1>1, <1>2 DEF StartMenu

(* "b" at the end menu: the win that was counted becomes the level.        *)
LEMMA ContinueStep ==
  ASSUME Inv, pc = "end_menu", NEW k \in Key, Continue(k)
  PROVE  /\ Inv'
         /\ mode = 1 =>
              \/ level' = announced
              \/ announced = level + 1 /\ level' = level
                   /\ (score = [i \in Sides |-> 3] \/ level = TopLevel)
<1> USE LevelAssumption, SidesAre
<1>1. /\ score \in [{1, 2} -> 0 .. 3] /\ score[1] \in 0 .. 3 /\ score[2] \in 0 .. 3
      /\ score[1] = 3 \/ score[2] = 3
      /\ wins \in 0 .. TopLevel /\ level \in 1 .. TopLevel
      /\ mode \in {1, 2} /\ (mode = 2 => level = 1)
      /\ announced = IF score[1] = 3 THEN level + 1 ELSE level
  BY DEF Inv, Types, LevelInv, ScoreInv, ShownLevel
<1>2. /\ pc' = "play" /\ UNCHANGED <<mode, announced, wins>>
      /\ score' = [i \in {1, 2} |-> 0]
      /\ level' = IF mode = 1 /\ score[1] = 3 /\ score[2] < 3 /\ level < TopLevel
                  THEN level + 1 ELSE level
  BY DEF Continue, NewMatch, NextLevel
<1>3. mode = 1 => level = IF score[1] > score[2] THEN wins ELSE Capped(wins + 1)
  BY DEF Inv, LevelInv
<1>4. mode = 1 => level' = Capped(wins + 1)
  <2>1. CASE score[1] > score[2]
    BY <1>1, <1>2, <1>3, <2>1 DEF Capped
  <2>2. CASE ~ (score[1] > score[2])
    BY <1>1, <1>2, <1>3, <2>2
  <2>3. QED
    BY <2>1, <2>2
<1>5. Types'
  BY <1>1, <1>2 DEF Inv, Types, Places
<1>6. LevelInv'
  BY <1>1, <1>2, <1>4 DEF LevelInv, InMatch, Capped
<1>7. ScoreInv'
  BY <1>2 DEF ScoreInv, InMatch
<1>8. score[1] = 3 /\ ~ (score[2] < 3) => score = [i \in {1, 2} |-> 3]
  BY <1>1
<1>9. QED
  BY <1>1, <1>2, <1>5, <1>6, <1>7, <1>8 DEF Inv

LEMMA OtherSteps ==
  ASSUME Inv, NEW k \in Key, Launch \/ Type(k) \/ Pause(k) \/ UNCHANGED vars
  PROVE  Inv'
<1> USE DEF game
<1>1. UNCHANGED game /\ (pc' = pc \/ pc' = "start_menu" \/ (InMatch /\ InMatch'))
      /\ pc' \in Places
  BY DEF Inv, Types, Launch, Type, Pause, vars, InMatch, Places
<1>2. QED
  BY <1>1 DEF Inv, Types, LevelInv, ScoreInv, InMatch, Places, ShownLevel

LEMMA EndStep ==
  ASSUME Inv, NEW k \in Key, EndMenu(k)
  PROVE  Inv'
<1>1. CASE Continue(k)
  BY <1>1, ContinueStep DEF EndMenu
<1>2. CASE pc' \in {"shell", "start_menu"} /\ UNCHANGED game
  BY <1>2 DEF game, Inv, Types, Places, LevelInv, ScoreInv, InMatch
<1>3. CASE UNCHANGED <<pc, game>>
  BY <1>3 DEF game, Inv, Types, LevelInv, ScoreInv, InMatch, ShownLevel
<1>4. QED
  BY <1>1, <1>2, <1>3 DEF EndMenu

LEMMA StepInv == Inv /\ [Next]_vars => Inv'
<1> SUFFICES ASSUME Inv, [Next]_vars PROVE Inv'
  OBVIOUS
<1>1. "a" \in Key
  BY DEF Key
<1>2. CASE \E scorers \in SUBSET Sides : Round(scorers)
  BY <1>2, RoundStep
<1>3. CASE Menus
  BY <1>3, StartStep, EndStep, OtherSteps DEF Menus
<1>4. CASE Launch \/ (\E k \in Key : Type(k)) \/ UNCHANGED vars
  BY <1>4, <1>1, OtherSteps
<1>5. QED
  BY <1>2, <1>3, <1>4 DEF Next

LEMMA AlwaysInv == Spec => []Inv
BY InitInv, StepInv, PTL DEF Spec

------------------------------------------------------------------------------
(* The level played is the number of matches really won against the bot    *)
(* since the start menu, and one, up to any top level (tron_game.c).       *)
THEOREM LevelsCountWins == Spec => []LevelCountsWins
<1>1. Inv => LevelCountsWins
  <2> SUFFICES ASSUME Inv, InMatch
               PROVE  level = IF mode = 1 THEN Min({wins + 1, TopLevel}) ELSE 1
    BY DEF LevelCountsWins, InMatch
  <2>1. Min({wins + 1, TopLevel}) = Capped(wins + 1)
    BY CappedIsMin DEF Inv, Types
  <2>2. QED
    BY <2>1 DEF Inv, LevelInv
<1>2. QED
  BY <1>1, AlwaysInv, PTL

(* No way through the menus leads into a match that is decided             *)
(* (tron_setup_match, play_Game).                                          *)
THEOREM NoRoundIsPlayedAfterVictory == Spec => []NoRoundAfterVictory
<1>1. Inv => NoRoundAfterVictory
  BY SidesAre DEF Inv, Types, ScoreInv, InMatch, NoRoundAfterVictory,
                  Rounds!MatchOver, Rounds!Sides, Rounds!ToWin
<1>2. QED
  BY <1>1, AlwaysInv, PTL

(* The level that the end menu shows is played next, but for a tie and a   *)
(* win at the top level (ui.c, tron_game.c).                               *)
THEOREM AnnouncementsHoldUnlessTie == Spec => AnnouncedUnlessTie
<1> DEFINE A == pc = "end_menu" /\ pc' = "play" /\ mode = 1 =>
                  \/ level' = announced
                  \/ announced = level + 1 /\ level' = level
                       /\ (score = [i \in Sides |-> 3] \/ level = TopLevel)
<1>1. Inv /\ [Next]_vars => [A]_vars
  <2> SUFFICES ASSUME Inv, Next, pc = "end_menu", pc' = "play", mode = 1 PROVE A
    OBVIOUS
  <2>1. \E k \in Key : Continue(k)
    BY DEF Next, Launch, Type, Round, Menus, StartMenu, EndMenu, Pause
  <2>2. QED
    BY <2>1, ContinueStep
<1>2. QED
  BY <1>1, AlwaysInv, PTL DEF Spec, AnnouncedUnlessTie
==============================================================================

------------------------------ MODULE TronRound ------------------------------
(***************************************************************************)
(* A match of Tron on the board: play_Game with its rounds, from the spawn *)
(* of the two players to the clearing of the board after a collision.      *)
(* One step of the model is one tick of the game.                          *)
(***************************************************************************)
EXTENDS TronRules

CONSTANTS Batches,     \* the batches of keys that one tick may read
          Levels       \* the levels a match may be played at

ASSUME BatchAssumption == Batches \subseteq Seq(Keys)
ASSUME LevelAssumption == Levels \subseteq 1 .. 99

VARIABLES
  mode, level,     \* 1 against the bot, 2 for two players
  score,           \* rounds won by each player
  occ,             \* indices of the painted cells
  player, intent,  \* by player: head and direction; last request
  pc,              \* where play_Game is
  trail            \* history: by player, the cells taken in this round

game == <<mode, level>>
vars == <<game, score, occ, player, intent, pc, trail>>

Sides == {1, 2}

Init ==
  /\ mode \in {1, 2} /\ level \in Levels
  /\ score = [i \in Sides |-> 0]
  /\ occ = {}
  /\ player = <<SpawnLeft, SpawnRight>>
  /\ intent = <<SpawnLeft.dir, SpawnRight.dir>>
  /\ pc = "spawn"
  /\ trail = <<{}, {}>>

Spawn ==
  /\ pc = "spawn"
  /\ player' = <<SpawnLeft, SpawnRight>>
  /\ intent' = <<SpawnLeft.dir, SpawnRight.dir>>
  /\ occ' = occ \cup {occ_idx(SpawnLeft.at), occ_idx(SpawnRight.at)}
  /\ trail' = <<{SpawnLeft.at}, {SpawnRight.at}>>
  /\ pc' = "tick"
  /\ UNCHANGED <<game, score>>

\* What the two players ask for, after a batch of keys and the bot's choice.
Intents(batch, jitter) ==
  <<Asked(batch, KeysP1, intent[1]),
    IF mode = 1 THEN BotIntent(occ, player[2], player[1], level, jitter, intent[2])
                ELSE Asked(batch, KeysP2, intent[2])>>

\* Mutant: player 1 moves first.
MovesP1First(asked) ==
  LET one == player_action_tick(occ, player[1], asked[1])
      two == player_action_tick(one.occ, player[2], asked[2])
  IN  <<one, two>>

\* Player 2 moves first, and player 1 on the board that results.
Moves(asked) ==
  LET two == player_action_tick(occ, player[2], asked[2])
      one == player_action_tick(two.occ, player[1], asked[1])
  IN  <<one, two>>

Painted(moves) == moves[1].occ \cup moves[2].occ

\* A player scores when the other one collides, also when both do.
Awarded(i, moves) == IF moves[3 - i].alive THEN score[i] ELSE score[i] + 1

\* Mutant: five rounds are always played.
UndecidedFive(s) == s[1] + s[2] < 5

Undecided(s) == \A i \in Sides : s[i] < 3

\* One tick: input, both moves, and the score if somebody collided.  The bot's
\* call counter, a static that outlives matches, may be due at any tick.
Tick(batch, jitter) ==
  /\ pc = "tick"
  /\ intent' = Intents(batch, jitter)
  /\ \E moves \in {Moves(intent')} :
       /\ occ' = Painted(moves)
       /\ player' = [i \in Sides |-> moves[i].player]
       /\ trail' = [i \in Sides |-> trail[i] \cup {moves[i].player.at}]
       /\ score' = [i \in Sides |-> Awarded(i, moves)]
       /\ pc' = IF \A i \in Sides : moves[i].alive THEN "tick"
                ELSE IF Undecided(score') THEN "pause" ELSE "clear"
  /\ UNCHANGED game

\* Between two rounds the game waits for a key.
Pause == pc = "pause" /\ pc' = "clear" /\ UNCHANGED <<game, score, occ, player, intent, trail>>

\* Mutant: the last row is not cleared.
map_freeShort == {i \in occ : i \notin 0 .. Cols * (Rows - 1) - 1}

\* What map_free leaves occupied: it clears every cell of the grid.
map_free == {i \in occ : \A c \in Cells : i # occ_idx(c)}

Clear ==
  /\ pc = "clear"
  /\ occ' = map_free
  /\ pc' = IF Undecided(score) THEN "spawn" ELSE "over"
  /\ UNCHANGED <<game, score, player, intent, trail>>

Play == Spawn \/ (\E b \in Batches, j \in 0 .. 3 : Tick(b, j)) \/ Clear

Next == Play \/ Pause

Spec == Init /\ [][Next]_vars

\* The game loop runs at the pace of the timer; a pause may last for ever.
FairSpec == Spec /\ WF_vars(Play)

------------------------------------------------------------------------------
(* Properties. *)

\* Both heads stay on the grid although their coordinates are unsigned and a
\* step over the left or upper edge wraps around to 65535.
TypeOK ==
  /\ mode \in {1, 2} /\ level \in Levels
  /\ score \in [Sides -> 0 .. 3]
  /\ occ \subseteq {occ_idx(c) : c \in Cells}
  /\ player \in [Sides -> Players]
  /\ intent \in [Sides -> Directions]
  /\ pc \in {"spawn", "tick", "pause", "clear", "over"}
  /\ trail \in [Sides -> SUBSET Cells]

\* In a round the occupied cells are those of the two trails, which share none:
\* a board that was not cleared, an index that two cells share or two heads
\* in one cell would show here.
OccupiedAreTrails ==
  pc = "tick" =>
    /\ occ = {occ_idx(c) : c \in trail[1] \cup trail[2]}
    /\ Cardinality(occ) = Cardinality(trail[1]) + Cardinality(trail[2])

\* A round is lost only when it has to be: whoever dies had a wall, a trail or
\* the cell that the other one just took ahead; and when both heads make for
\* the same free cell, it is player 1 who dies, because player 2 moves first.
CollisionRule ==
  [][ pc = "tick" =>
        LET target(i)  == Plus(player[i].at, player'[i].dir)
            blocked(i) == ~Free(occ, target(i))
        IN  /\ score'[1] > score[1] <=> blocked(2)
            /\ score'[2] > score[2] <=> blocked(1) \/ target(1) = target(2) ]_vars

\* The bot collides only when no neighbour of its head is free: the order of its
\* candidates, its jitter and the ban on turning back never make it crash.
BotDiesBoxedIn ==
  [][ mode = 1 /\ score'[1] > score[1] =>
        \A d \in Directions : ~Free(occ, Plus(player[2].at, d)) ]_vars

\* Nobody turns straight back into its own trail, whatever the keys of a batch,
\* the requests left from earlier ticks or the bot's pursuit ask for.
NoTurnBack ==
  [][ pc = "tick" => \A i \in Sides : player'[i].dir # Opposite(player[i].dir) ]_vars

\* Every round ends: each tick uses up cells.
RoundEnds == pc = "tick" ~> pc \in {"pause", "clear"}

Match == INSTANCE BestOfFive

\* play_Game is a best-of-five match: a tie scores for both, nobody passes three
\* points and no point is given once somebody has three.
ImplementsBestOfFive == Match!Spec
=============================================================================

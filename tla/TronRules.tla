------------------------------ MODULE TronRules ------------------------------
(***************************************************************************)
(* The rules of the Tron board as pure operators: cells and their index in *)
(* the occupancy array, turns, one step of a player, the bot's choice and  *)
(* what a batch of keys asks for.  Module TronRound plays by them.         *)
(***************************************************************************)
EXTENDS Integers, FiniteSetsExt, Sequences

CONSTANTS Cols, Rows     \* the grid that map_init derives from the screen

ASSUME GridAssumption == Cols \in 2 .. 128 /\ Rows \in 1 .. 128

Cells      == (0 .. Cols - 1) \X (0 .. Rows - 1)
Directions == {<<1, 0>>, <<-1, 0>>, <<0, 1>>, <<0, -1>>}
Players    == [at : Cells, dir : Directions]

Plus(c, d)  == <<c[1] + d[1], c[2] + d[2]>>
Opposite(d) == <<-d[1], -d[2]>>
ToLeft(d)   == <<d[2], -d[1]>>
ToRight(d)  == <<-d[2], d[1]>>

\* The place of a cell in the occupancy array.
occ_idx(c) == c[2] * Cols + c[1]

\* Mutant: a coordinate off the grid is not noticed.
FreeOffGrid(occ, c) == occ_idx(c) \notin occ

\* A cell of the grid that nobody has painted.
Free(occ, c) == c \in Cells /\ occ_idx(c) \notin occ

\* The heads on the board when a round starts.
SpawnLeft  == [at |-> <<Cols \div 4, Rows \div 2>>, dir |-> <<1, 0>>]
SpawnRight == [at |-> <<(3 * Cols) \div 4, Rows \div 2>>, dir |-> <<-1, 0>>]

------------------------------------------------------------------------------
(* Players. *)

\* Mutant: the test against going back is missing.
player_set_dirAny(dir, intent) == IF intent \in Directions THEN intent ELSE dir

\* The direction after an intent: a step along one axis, never straight back.
player_set_dir(dir, intent) ==
  IF intent \in Directions \ {Opposite(dir)} THEN intent ELSE dir

\* Coordinates are uint16_t: a step over the left or upper edge wraps around.
Ahead(p) == [i \in 1 .. 2 |-> Plus(p.at, p.dir)[i] % 65536]

\* Mutant: a player whose way is blocked waits.
player_action_tickWaits(occ, p, intent) ==
  LET q == [p EXCEPT !.dir = player_set_dir(p.dir, intent)]
  IN  IF Free(occ, Ahead(q))
      THEN [alive |-> TRUE, occ |-> occ \cup {occ_idx(Ahead(q))},
            player |-> [q EXCEPT !.at = Ahead(q)]]
      ELSE [alive |-> TRUE, occ |-> occ, player |-> q]

\* A player turns and moves to the free cell ahead, or dies where it is.
player_action_tick(occ, p, intent) ==
  LET q == [p EXCEPT !.dir = player_set_dir(p.dir, intent)]
  IN  IF Free(occ, Ahead(q))
      THEN [alive |-> TRUE, occ |-> occ \cup {occ_idx(Ahead(q))},
            player |-> [q EXCEPT !.at = Ahead(q)]]
      ELSE [alive |-> FALSE, occ |-> occ, player |-> q]

------------------------------------------------------------------------------
(* The bot.  It goes to the first free cell of a list of directions. *)

\* ai_choose_dir_simple; `jitter` is 0, or the direction picked by the clock on
\* every few calls: 1 straight, 2 left, 3 right.
SimpleChoices(dir, jitter) ==
  LET three == <<dir, ToLeft(dir), ToRight(dir)>>
  IN  IF jitter = 0 THEN three ELSE <<three[jitter]>> \o three

Sign(n) == IF n > 0 THEN <<1>> ELSE IF n < 0 THEN <<-1>> ELSE <<>>
Abs(n)  == IF n < 0 THEN -n ELSE n

\* ai_choose_dir_track: towards the target, the longer axis first, then straight.
TrackChoices(bot, target, jitter) ==
  LET dc == target.at[1] - bot.at[1]
      dr == target.at[2] - bot.at[2]
      h  == [i \in DOMAIN Sign(dc) |-> <<Sign(dc)[i], 0>>]
      v  == [i \in DOMAIN Sign(dr) |-> <<0, Sign(dr)[i]>>]
  IN  (IF Abs(dc) >= Abs(dr) THEN h \o v ELSE v \o h)
        \o <<bot.dir>> \o SimpleChoices(bot.dir, jitter)

\* Mutant: the bot takes its first choice without looking.
FirstFreeBlind(occ, at, choices, old) == choices[1]

\* Without a free cell in the list the old intent stays.
FirstFree(occ, at, choices, old) ==
  LET free == {i \in DOMAIN choices : Free(occ, Plus(at, choices[i]))}
  IN  IF free = {} THEN old ELSE choices[Min(free)]

\* The bot of a single game: from level 2 on it chases the player.
BotIntent(occ, bot, target, level, jitter, old) ==
  FirstFree(occ, bot.at,
            IF level >= 2 THEN TrackChoices(bot, target, jitter)
                          ELSE SimpleChoices(bot.dir, jitter), old)

------------------------------------------------------------------------------
(* The keys. *)

KeysP1 == [w |-> <<0, -1>>, s |-> <<0, 1>>, a |-> <<-1, 0>>, d |-> <<1, 0>>]
KeysP2 == [up |-> <<0, -1>>, down |-> <<0, 1>>, left |-> <<-1, 0>>, right |-> <<1, 0>>]
Keys   == DOMAIN KeysP1 \cup DOMAIN KeysP2 \cup {"other"}

\* The last of a player's keys in a batch, or the old intent.
Asked(batch, keys, old) ==
  LET mine == {i \in DOMAIN batch : batch[i] \in DOMAIN keys}
  IN  IF mine = {} THEN old ELSE keys[batch[Max(mine)]]
=============================================================================

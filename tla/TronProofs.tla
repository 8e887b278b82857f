------------------------------ MODULE TronProofs ------------------------------
(***************************************************************************)
(* Safety of the Tron match for every grid, every set of batches and every *)
(* set of levels: types, the occupancy of the board, turning back and the  *)
(* best-of-five contract.                                                  *)
(***************************************************************************)
EXTENDS TronRound, TLAPS, FiniteSetTheorems

------------------------------------------------------------------------------
(* The rules of the board. *)

\* The first and the last element of a set of positions exist.
LEMMA LeastExists ==
  ASSUME NEW S \in SUBSET Nat, S # {}
  PROVE  \E x \in S : \A y \in S : x <= y
<1>1. PICK x \in S : \A y \in S : ~ (<<y, x>> \in OpToRel(<, Nat))
  BY NatLessThanWellFounded, WFMin
<1>2. ASSUME NEW y \in S PROVE x <= y
  <2>1. x \in Nat /\ y \in Nat
    OBVIOUS
  <2>2. ~ (y < x)
    BY <1>1, <2>1 DEF OpToRel
  <2>3. QED
    BY <2>1, <2>2
<1>3. QED
  BY <1>2

LEMMA GreatestExists ==
  ASSUME NEW n \in Nat, NEW S \in SUBSET (1 .. n), S # {}
  PROVE  \E x \in S : \A y \in S : x >= y
<1> DEFINE T == {n - i : i \in S}
<1>1. T \in SUBSET Nat
  <2> SUFFICES ASSUME NEW i \in S PROVE n - i \in Nat
    OBVIOUS
  <2>1. i \in 1 .. n
    OBVIOUS
  <2>2. QED
    BY <2>1
<1>2. T # {}
  <2>1. PICK i \in S : TRUE
    OBVIOUS
  <2>2. n - i \in T
    OBVIOUS
  <2>3. QED
    BY <2>2
<1>3. PICK x \in T : \A y \in T : x <= y
  <2> HIDE DEF T
  <2>1. QED
    BY <1>1, <1>2, LeastExists
<1>4. PICK i \in S : x = n - i
  OBVIOUS
<1>5. ASSUME NEW j \in S PROVE i >= j
  <2>1. n - j \in T
    OBVIOUS
  <2>2. n - i <= n - j
    BY <2>1, <1>3, <1>4
  <2>3. i \in 1 .. n /\ j \in 1 .. n
    OBVIOUS
  <2>4. QED
    BY <2>2, <2>3
<1>6. QED
  BY <1>5

\* Two cells have different indices: the array is read by rows.
LEMMA IndexIsInjective ==
  ASSUME NEW c \in Cells, NEW d \in Cells, occ_idx(c) = occ_idx(d)
  PROVE  c = d
<1>1. /\ c = <<c[1], c[2]>> /\ d = <<d[1], d[2]>>
      /\ c[1] \in 0 .. Cols - 1 /\ d[1] \in 0 .. Cols - 1
      /\ c[2] \in 0 .. Rows - 1 /\ d[2] \in 0 .. Rows - 1
  BY DEF Cells
<1>2. /\ Cols \in Nat /\ Cols > 0
      /\ c[1] \in Nat /\ d[1] \in Nat /\ c[1] < Cols /\ d[1] < Cols
      /\ c[2] \in Nat /\ d[2] \in Nat
  BY <1>1, GridAssumption
<1>3. c[2] * Cols + c[1] = d[2] * Cols + d[1]
  BY DEF occ_idx
<1>4. ASSUME NEW q \in Nat, NEW p \in Nat, NEW x \in Nat, NEW y \in Nat, q < p,
             x < Cols, q * Cols + x = p * Cols + y
      PROVE  FALSE
  <2>1. p * Cols >= (q + 1) * Cols
    BY <1>4, <1>2
  <2>2. (q + 1) * Cols = q * Cols + Cols
    BY <1>2
  <2>3. QED
    BY <2>1, <2>2, <1>4, <1>2
<1>5. c[2] = d[2]
  <2>1. ~ (c[2] < d[2])
    BY <1>2, <1>3, <1>4
  <2>2. ~ (d[2] < c[2])
    BY <1>2, <1>3, <1>4
  <2>3. QED
    BY <1>2, <2>1, <2>2
<1>6. c[1] = d[1]
  <2>1. ASSUME NEW row \in Int, NEW x \in Nat, NEW y \in Nat, row + x = row + y
        PROVE  x = y
    BY <2>1
  <2>2. c[2] * Cols \in Int
    BY <1>2
  <2>3. c[2] * Cols + c[1] = c[2] * Cols + d[1]
    BY <1>3, <1>5
  <2>4. QED
    BY <2>1, <2>2, <2>3, <1>2
<1>7. QED
  BY <1>1, <1>5, <1>6

\* The two players start in different cells of the grid.
LEMMA SpawnType ==
  /\ SpawnLeft \in Players /\ SpawnRight \in Players
  /\ SpawnLeft.at # SpawnRight.at
<1>1. /\ Cols \div 4 \in 0 .. Cols - 1 /\ (3 * Cols) \div 4 \in 0 .. Cols - 1
      /\ Cols \div 4 # (3 * Cols) \div 4 /\ Rows \div 2 \in 0 .. Rows - 1
  BY GridAssumption
<1>2. QED
  BY <1>1 DEF SpawnLeft, SpawnRight, Players, Cells, Directions

\* No player ever goes straight back, whatever is asked of it.
LEMMA TurnIsLegal ==
  ASSUME NEW dir \in Directions, NEW asked
  PROVE  /\ player_set_dir(dir, asked) \in Directions
         /\ player_set_dir(dir, asked) # Opposite(dir)
<1>1. dir # Opposite(dir)
  BY DEF Directions, Opposite
<1>2. QED
  BY <1>1 DEF player_set_dir

\* The unsigned coordinates do not blur the edge: the cell ahead is free by the
\* arithmetic of the code exactly when it is free by that of the integers.
LEMMA WrapIsOffGrid ==
  ASSUME NEW o, NEW p \in Players
  PROVE  /\ Free(o, Ahead(p)) <=> Free(o, Plus(p.at, p.dir))
         /\ Free(o, Ahead(p)) => Ahead(p) = Plus(p.at, p.dir)
<1> DEFINE x == p.at[1] + p.dir[1]
           y == p.at[2] + p.dir[2]
<1>1. /\ p.at[1] \in 0 .. Cols - 1 /\ p.at[2] \in 0 .. Rows - 1
      /\ p.dir[1] \in {-1, 0, 1} /\ p.dir[2] \in {-1, 0, 1}
  BY DEF Players, Cells, Directions
<1>2. x \in -1 .. 128 /\ y \in -1 .. 128
  BY <1>1, GridAssumption
<1>3. Plus(p.at, p.dir) = <<x, y>>
  BY DEF Plus
<1>4. Ahead(p) = <<x % 65536, y % 65536>>
  <2>1. Ahead(p) = [i \in 1 .. 2 |-> <<x, y>>[i] % 65536]
    BY <1>3 DEF Ahead
  <2> HIDE DEF x, y
  <2>2. QED
    BY <2>1
<1>5. ASSUME NEW n \in -1 .. 128, NEW k \in 1 .. 128
      PROVE  (n \in 0 .. k - 1 \/ n % 65536 \in 0 .. k - 1) => n % 65536 = n
  BY SMTT(30)
<1>6. x \in 0 .. Cols - 1 \/ x % 65536 \in 0 .. Cols - 1 => x % 65536 = x
  BY <1>2, <1>5, GridAssumption
<1>7. y \in 0 .. Rows - 1 \/ y % 65536 \in 0 .. Rows - 1 => y % 65536 = y
  BY <1>2, <1>5, GridAssumption
<1> HIDE DEF x, y
<1>8. <<x % 65536, y % 65536>> \in Cells <=> <<x, y>> \in Cells
  BY <1>6, <1>7 DEF Cells
<1>9. <<x, y>> \in Cells => <<x % 65536, y % 65536>> = <<x, y>>
  BY <1>6, <1>7 DEF Cells
<1>10. QED
  BY <1>3, <1>4, <1>8, <1>9 DEF Free

\* What one step of a player on board o comes to: it takes the free cell ahead,
\* or dies where it is.
StepOf(o, p, r) ==
  /\ r.player \in Players /\ r.alive \in BOOLEAN
  /\ r.player.dir # Opposite(p.dir)
  /\ r.alive <=> Free(o, Plus(p.at, r.player.dir))
  /\ r.alive => r.player.at = Plus(p.at, r.player.dir)
                /\ r.occ = o \cup {occ_idx(r.player.at)}
  /\ ~r.alive => r.player.at = p.at /\ r.occ = o

\* player_action_tick does that, whatever was asked of the player.
LEMMA StepOfPlayer ==
  ASSUME NEW o, NEW p \in Players, NEW asked
  PROVE  StepOf(o, p, player_action_tick(o, p, asked))
<1> DEFINE d == player_set_dir(p.dir, asked)
           q == [p EXCEPT !.dir = d]
           a == Ahead(q)
           z == [q EXCEPT !.at = a]
           r == player_action_tick(o, p, asked)
<1>1. p \in [at : Cells, dir : Directions] /\ d \in Directions /\ d # Opposite(p.dir)
  BY TurnIsLegal DEF Players
<1> HIDE DEF d
<1>2. q \in Players /\ q.dir = d /\ q.at = p.at
  BY <1>1 DEF Players
<1> HIDE DEF a
<1>3. (Free(o, a) <=> Free(o, Plus(p.at, d))) /\ (Free(o, a) => a = Plus(p.at, d))
  BY <1>2, WrapIsOffGrid DEF a
<1>4. CASE Free(o, a)
  <2>1. a \in Cells
    BY <1>4 DEF Free
  <2>2. r = [alive |-> TRUE, occ |-> o \cup {occ_idx(a)}, player |-> z]
    BY <1>4 DEF player_action_tick, a, d
  <2>3. z \in Players /\ z.dir = d /\ z.at = a
    BY <1>2, <2>1 DEF Players
  <2> HIDE DEF q, z, r
  <2>4. r.alive = TRUE /\ r.occ = o \cup {occ_idx(a)} /\ r.player = z
    BY <2>2
  <2>5. QED
    BY <2>3, <2>4, <1>1, <1>3, <1>4 DEF StepOf, r
<1>5. CASE ~Free(o, a)
  <2>1. r = [alive |-> FALSE, occ |-> o, player |-> q]
    BY <1>5 DEF player_action_tick, a, d
  <2> HIDE DEF q, r
  <2>2. r.alive = FALSE /\ r.occ = o /\ r.player = q
    BY <2>1
  <2>3. QED
    BY <2>2, <1>1, <1>2, <1>3, <1>5 DEF StepOf, r
<1>6. QED
  BY <1>4, <1>5

\* Keys ask for directions; without a key the old request stays.
LEMMA AskedType ==
  ASSUME NEW batch \in Seq(Keys), NEW keys, NEW old \in Directions,
         \A k \in DOMAIN keys : keys[k] \in Directions
  PROVE  Asked(batch, keys, old) \in Directions
<1> DEFINE mine == {i \in DOMAIN batch : batch[i] \in DOMAIN keys}
<1>1. CASE mine = {}
  BY <1>1 DEF Asked
<1>2. CASE mine # {}
  <2>1. mine \in SUBSET (1 .. Len(batch)) /\ Len(batch) \in Nat
    OBVIOUS
  <2>2. \E x \in mine : \A y \in mine : x >= y
    <3> HIDE DEF mine
    <3>1. QED
      BY <2>1, <1>2, GreatestExists
  <2>3. Max(mine) \in mine
    <3> HIDE DEF mine
    <3>1. QED
      BY <2>2 DEF Max
  <2>4. QED
    BY <2>3, <1>2 DEF Asked
<1>3. QED
  BY <1>1, <1>2

\* The bot asks for one of its candidates, or keeps what it asked for.
LEMMA FirstFreeType ==
  ASSUME NEW o, NEW at, NEW choices \in Seq(Directions), NEW old \in Directions
  PROVE  FirstFree(o, at, choices, old) \in Directions
<1> DEFINE free == {i \in DOMAIN choices : Free(o, Plus(at, choices[i]))}
<1>1. CASE free = {}
  BY <1>1 DEF FirstFree
<1>2. CASE free # {}
  <2>1. free \in SUBSET Nat
    OBVIOUS
  <2>2. \E x \in free : \A y \in free : x <= y
    <3> HIDE DEF free
    <3>1. QED
      BY <2>1, <1>2, LeastExists
  <2>3. Min(free) \in free
    <3> HIDE DEF free
    <3>1. QED
      BY <2>2 DEF Min
  <2>4. QED
    BY <2>3, <1>2 DEF FirstFree
<1>3. QED
  BY <1>1, <1>2

\* Left, right and straight on are directions.
LEMMA SimpleType ==
  ASSUME NEW dir \in Directions, NEW jitter \in 0 .. 3
  PROVE  SimpleChoices(dir, jitter) \in Seq(Directions)
<1> DEFINE three == <<dir, ToLeft(dir), ToRight(dir)>>
<1>1. ToLeft(dir) \in Directions /\ ToRight(dir) \in Directions
  BY DEF Directions, ToLeft, ToRight
<1>2. three \in Seq(Directions)
  BY <1>1
<1>3. jitter # 0 => three[jitter] \in Directions
  BY <1>1
<1> HIDE DEF three
<1>4. jitter # 0 => <<three[jitter]>> \o three \in Seq(Directions)
  BY <1>2, <1>3
<1>5. QED
  BY <1>2, <1>4 DEF SimpleChoices, three

\* The pursuer puts directions before those of the bot of level 1.
LEMMA TowardsType ==
  ASSUME NEW bot \in Players, NEW target \in Players, NEW jitter \in 0 .. 3
  PROVE  \E s \in Seq(Directions) :
            TrackChoices(bot, target, jitter) = s \o SimpleChoices(bot.dir, jitter)
<1> DEFINE dc == target.at[1] - bot.at[1]
           dr == target.at[2] - bot.at[2]
           h  == [i \in DOMAIN Sign(dc) |-> <<Sign(dc)[i], 0>>]
           v  == [i \in DOMAIN Sign(dr) |-> <<0, Sign(dr)[i]>>]
<1>1. dc \in Int /\ dr \in Int /\ bot.dir \in Directions
  BY DEF Players, Cells
<1>2. ASSUME NEW n \in Int
      PROVE  Sign(n) \in {<<>>, << 1 >>, << -1 >>}
  BY DEF Sign
<1>3. ASSUME NEW g, g \in {<<>>, << 1 >>, << -1 >>}
      PROVE  /\ [i \in DOMAIN g |-> <<g[i], 0>>] \in Seq(Directions)
             /\ [i \in DOMAIN g |-> <<0, g[i]>>] \in Seq(Directions)
  <2>1. CASE g = <<>>
    BY <2>1
  <2>2. CASE g \in {<< 1 >>, << -1 >>}
    <3>1. DOMAIN g = 1 .. 1 /\ g[1] \in {1, -1}
      BY <2>2
    <3>2. /\ [i \in 1 .. 1 |-> <<g[i], 0>>] \in [1 .. 1 -> Directions]
          /\ [i \in 1 .. 1 |-> <<0, g[i]>>] \in [1 .. 1 -> Directions]
      BY <3>1 DEF Directions
    <3>3. QED
      BY <3>1, <3>2
  <2>3. QED
    BY <1>3, <2>1, <2>2
<1>4. h \in Seq(Directions) /\ v \in Seq(Directions)
  BY <1>1, <1>2, <1>3
<1> HIDE DEF dc, dr, h, v
<1>5. /\ (h \o v) \o <<bot.dir>> \in Seq(Directions)
      /\ (v \o h) \o <<bot.dir>> \in Seq(Directions)
  BY <1>1, <1>4
<1>6. \/ TrackChoices(bot, target, jitter)
           = ((h \o v) \o <<bot.dir>>) \o SimpleChoices(bot.dir, jitter)
      \/ TrackChoices(bot, target, jitter)
           = ((v \o h) \o <<bot.dir>>) \o SimpleChoices(bot.dir, jitter)
  BY DEF TrackChoices, h, v, dc, dr
<1>7. QED
  BY <1>5, <1>6

\* The candidates of the pursuit are directions as well.
LEMMA TrackType ==
  ASSUME NEW bot \in Players, NEW target \in Players, NEW jitter \in 0 .. 3
  PROVE  TrackChoices(bot, target, jitter) \in Seq(Directions)
<1>1. bot.dir \in Directions
  BY DEF Players
<1>2. SimpleChoices(bot.dir, jitter) \in Seq(Directions)
  BY <1>1, SimpleType
<1>3. PICK s \in Seq(Directions) :
        TrackChoices(bot, target, jitter) = s \o SimpleChoices(bot.dir, jitter)
  BY TowardsType
<1> DEFINE t == SimpleChoices(bot.dir, jitter)
<1> HIDE DEF t
<1>4. s \o t \in Seq(Directions)
  BY <1>2 DEF t
<1>5. QED
  BY <1>3, <1>4 DEF t

------------------------------------------------------------------------------
(* The inductive invariant. *)

Trails == trail[1] \cup trail[2]

\* In a round the occupied cells are those of two separate trails, and the head
\* of each player is in its own.
BoardInv ==
  pc = "tick" => /\ occ = {occ_idx(c) : c \in Trails}
                 /\ trail[1] \cap trail[2] = {}
                 /\ \A i \in Sides : player[i].at \in trail[i]

\* No round starts on a painted board, nor in a decided match.
StartInv ==
  /\ pc = "spawn" => occ = {}
  /\ pc \in {"spawn", "tick", "pause"} => Undecided(score)

IInv == TypeOK /\ BoardInv /\ StartInv

LEMMA InitIInv == Init => IInv
<1> SUFFICES ASSUME Init PROVE IInv
  OBVIOUS
<1>1. TypeOK
  BY SpawnType DEF Init, TypeOK, Sides, Players
<1>2. BoardInv /\ StartInv
  BY DEF Init, BoardInv, StartInv, Undecided, Sides
<1>3. QED
  BY <1>1, <1>2 DEF IInv

LEMMA SpawnKeeps == IInv /\ Spawn => IInv'
<1> SUFFICES ASSUME IInv, Spawn PROVE IInv'
  OBVIOUS
<1> USE DEF Spawn, game
<1>1. /\ occ' = {occ_idx(SpawnLeft.at), occ_idx(SpawnRight.at)}
      /\ Undecided(score)
  BY DEF IInv, StartInv
<1>2. SpawnLeft.at \in Cells /\ SpawnRight.at \in Cells
      /\ SpawnLeft.dir \in Directions /\ SpawnRight.dir \in Directions
  BY SpawnType DEF Players
<1>3. TypeOK'
  BY <1>1, <1>2, SpawnType DEF IInv, TypeOK, Sides
<1>4. BoardInv'
  <2>1. trail'[1] = {SpawnLeft.at} /\ trail'[2] = {SpawnRight.at}
    OBVIOUS
  <2>2. Trails' = {SpawnLeft.at, SpawnRight.at}
    BY <2>1 DEF Trails
  <2>3. {occ_idx(c) : c \in Trails'} = occ'
    BY <2>2, <1>1
  <2>4. player'[1] = SpawnLeft /\ player'[2] = SpawnRight
    OBVIOUS
  <2>5. QED
    BY <2>1, <2>3, <2>4, SpawnType DEF BoardInv, Sides
<1>5. StartInv'
  BY <1>1 DEF StartInv, Undecided
<1>6. QED
  BY <1>3, <1>4, <1>5 DEF IInv

\* The requests of a tick are directions.
LEMMA IntentsType ==
  ASSUME TypeOK, NEW batch \in Batches, NEW jitter \in 0 .. 3
  PROVE  Intents(batch, jitter) \in [Sides -> Directions]
<1>1. /\ batch \in Seq(Keys) /\ intent[1] \in Directions /\ intent[2] \in Directions
      /\ player[1] \in Players /\ player[2] \in Players
  BY BatchAssumption DEF TypeOK, Sides
<1>2. /\ \A k \in DOMAIN KeysP1 : KeysP1[k] \in Directions
      /\ \A k \in DOMAIN KeysP2 : KeysP2[k] \in Directions
  BY DEF KeysP1, KeysP2, Directions
<1>3. /\ Asked(batch, KeysP1, intent[1]) \in Directions
      /\ Asked(batch, KeysP2, intent[2]) \in Directions
  BY <1>1, <1>2, AskedType
<1>4. BotIntent(occ, player[2], player[1], level, jitter, intent[2]) \in Directions
  <2>1. player[2].dir \in Directions
    BY <1>1 DEF Players
  <2>2. /\ SimpleChoices(player[2].dir, jitter) \in Seq(Directions)
        /\ TrackChoices(player[2], player[1], jitter) \in Seq(Directions)
    BY <1>1, <2>1, SimpleType, TrackType
  <2>3. QED
    BY <1>1, <2>2, FirstFreeType DEF BotIntent
<1>5. QED
  BY <1>3, <1>4 DEF Intents, Sides

\* Both moves of a tick: player 2 moves on the old board, player 1 on the board
\* that results.
LEMMA BothMoves ==
  ASSUME TypeOK, NEW asked
  PROVE  /\ StepOf(occ, player[2], Moves(asked)[2])
         /\ StepOf(Moves(asked)[2].occ, player[1], Moves(asked)[1])
<1>1. player[1] \in Players /\ player[2] \in Players
  BY DEF TypeOK, Sides
<1>2. ASSUME NEW o, NEW a, NEW i \in Sides
      PROVE  StepOf(o, player[i], player_action_tick(o, player[i], a))
  BY <1>1, StepOfPlayer DEF Sides
<1> DEFINE two == player_action_tick(occ, player[2], asked[2])
           one == player_action_tick(two.occ, player[1], asked[1])
<1>3. Moves(asked)[2] = two /\ Moves(asked)[1] = one
  BY DEF Moves
<1>4. StepOf(occ, player[2], two)
  BY <1>2 DEF Sides
<1>5. StepOf(two.occ, player[1], one)
  <2> HIDE DEF two
  <2>1. QED
    BY <1>2 DEF Sides
<1>6. QED
  <2> HIDE DEF one, two
  <2>1. QED
    BY <1>3, <1>4, <1>5

\* What becomes of the state in a tick whose moves come to `one` and `two`.
TickOutcome(one, two) ==
  /\ StepOf(occ, player[2], two) /\ StepOf(two.occ, player[1], one)
  /\ occ' = one.occ \cup two.occ
  /\ player' = [i \in Sides |-> <<one, two>>[i].player]
  /\ trail' = [i \in Sides |-> trail[i] \cup {<<one, two>>[i].player.at}]
  /\ score' = [i \in Sides |-> IF <<one, two>>[3 - i].alive THEN score[i] ELSE score[i] + 1]
  /\ pc' = IF one.alive /\ two.alive THEN "tick"
           ELSE IF Undecided(score') THEN "pause" ELSE "clear"

\* A tick is the two steps, player 2 first.
LEMMA TickMoves ==
  ASSUME IInv, NEW batch \in Batches, NEW jitter \in 0 .. 3, Tick(batch, jitter)
  PROVE  \E one, two : TickOutcome(one, two)
<1> DEFINE m == Moves(intent')
<1>1. /\ occ' = m[1].occ \cup m[2].occ
      /\ player' = [i \in Sides |-> m[i].player]
      /\ trail' = [i \in Sides |-> trail[i] \cup {m[i].player.at}]
      /\ score' = [i \in Sides |-> IF m[3 - i].alive THEN score[i] ELSE score[i] + 1]
      /\ pc' = IF \A i \in Sides : m[i].alive THEN "tick"
               ELSE IF Undecided(score') THEN "pause" ELSE "clear"
  BY DEF Tick, Painted, Awarded
<1>2. StepOf(occ, player[2], m[2]) /\ StepOf(m[2].occ, player[1], m[1])
  BY BothMoves DEF IInv
<1>3. PICK one, two : m = <<one, two>>
  BY DEF Moves
<1> HIDE DEF m
<1>4. m[1] = one /\ m[2] = two
  BY <1>3
<1>5. (\A i \in Sides : m[i].alive) <=> one.alive /\ two.alive
  BY <1>4 DEF Sides
<1>6. QED
  BY <1>1, <1>2, <1>3, <1>4, <1>5 DEF TickOutcome

LEMMA TickKeeps ==
  ASSUME IInv, NEW batch \in Batches, NEW jitter \in 0 .. 3, Tick(batch, jitter)
  PROVE  IInv'
<1>0. PICK one, two : TickOutcome(one, two)
  BY TickMoves
<1>1. /\ StepOf(occ, player[2], two) /\ StepOf(two.occ, player[1], one)
      /\ occ' = one.occ \cup two.occ
      /\ player' = [i \in Sides |-> <<one, two>>[i].player]
      /\ trail' = [i \in Sides |-> trail[i] \cup {<<one, two>>[i].player.at}]
      /\ score' = [i \in Sides |-> IF <<one, two>>[3 - i].alive THEN score[i] ELSE score[i] + 1]
      /\ pc' = IF one.alive /\ two.alive THEN "tick"
               ELSE IF Undecided(score') THEN "pause" ELSE "clear"
  BY <1>0 DEF TickOutcome
<1>2. /\ player'[1] = one.player /\ player'[2] = two.player
      /\ trail'[1] = trail[1] \cup {one.player.at} /\ trail'[2] = trail[2] \cup {two.player.at}
  BY <1>1 DEF Sides
<1>3. /\ one.player \in Players /\ two.player \in Players
      /\ one.alive \in BOOLEAN /\ two.alive \in BOOLEAN
      /\ one.player.at \in Cells /\ two.player.at \in Cells
  BY <1>1 DEF StepOf, Players
<1>4. /\ two.occ = IF two.alive THEN occ \cup {occ_idx(two.player.at)} ELSE occ
      /\ one.occ = IF one.alive THEN two.occ \cup {occ_idx(one.player.at)} ELSE two.occ
  BY <1>1, <1>3 DEF StepOf
<1>5. pc = "tick" /\ Undecided(score) /\ mode' = mode /\ level' = level
  BY DEF Tick, IInv, StartInv, game
<1>6. TypeOK'
  <2>1. intent' \in [Sides -> Directions]
    BY IntentsType DEF IInv, Tick
  <2>2. player' \in [Sides -> Players] /\ trail' \in [Sides -> SUBSET Cells]
    BY <1>1, <1>3 DEF IInv, TypeOK, Sides
  <2>3. score' \in [Sides -> 0 .. 3]
    BY <1>1, <1>5 DEF IInv, TypeOK, Sides, Undecided
  <2>4. occ' \subseteq {occ_idx(c) : c \in Cells}
    BY <1>1, <1>3, <1>4 DEF IInv, TypeOK
  <2>5. pc' \in {"tick", "pause", "clear"}
    BY <1>1
  <2>6. QED
    BY <2>1, <2>2, <2>3, <2>4, <2>5, <1>5 DEF IInv, TypeOK
<1>7. BoardInv'
  <2> SUFFICES ASSUME pc' = "tick"
               PROVE  /\ occ' = {occ_idx(c) : c \in Trails'}
                      /\ trail'[1] \cap trail'[2] = {}
                      /\ \A i \in Sides : player'[i].at \in trail'[i]
    BY DEF BoardInv
  <2>1. one.alive /\ two.alive
    BY <1>1
  <2>2. occ = {occ_idx(c) : c \in Trails} /\ trail[1] \cap trail[2] = {}
    BY <1>5 DEF IInv, BoardInv
  <2>3. Trails' = Trails \cup {one.player.at, two.player.at}
    BY <1>2 DEF Trails
  <2>4. occ' = occ \cup {occ_idx(one.player.at), occ_idx(two.player.at)}
    BY <1>1, <1>4, <2>1
  <2>5. occ' = {occ_idx(c) : c \in Trails'}
    BY <2>2, <2>3, <2>4
  <2>6. /\ occ_idx(two.player.at) \notin occ
        /\ occ_idx(one.player.at) \notin occ \cup {occ_idx(two.player.at)}
    BY <1>1, <1>4, <2>1 DEF StepOf, Free
  <2>7. /\ two.player.at \notin Trails /\ one.player.at \notin Trails
        /\ one.player.at # two.player.at
    BY <2>2, <2>6
  <2>8. trail'[1] \cap trail'[2] = {}
    BY <1>2, <2>2, <2>7 DEF Trails
  <2>9. QED
    BY <1>2, <2>5, <2>8 DEF Sides
<1>8. StartInv'
  <2>1. pc' = "tick" => one.alive /\ two.alive
    BY <1>1
  <2>2. ASSUME one.alive, two.alive PROVE score'[1] = score[1] /\ score'[2] = score[2]
    BY <1>1, <2>2 DEF Sides
  <2>3. pc' = "tick" => Undecided(score')
    BY <2>1, <2>2, <1>5 DEF Undecided, Sides
  <2>4. pc' = "pause" => Undecided(score')
    BY <1>1, <1>3
  <2>5. pc' # "spawn"
    BY <1>1
  <2>6. QED
    BY <2>3, <2>4, <2>5 DEF StartInv
<1>9. QED
  BY <1>6, <1>7, <1>8 DEF IInv

LEMMA ClearKeeps == IInv /\ Clear => IInv'
<1> SUFFICES ASSUME IInv, Clear PROVE IInv'
  OBVIOUS
<1>1. occ' = {}
  BY DEF Clear, map_free, IInv, TypeOK
<1>2. TypeOK'
  BY <1>1 DEF Clear, IInv, TypeOK, game
<1>3. BoardInv' /\ StartInv'
  BY <1>1 DEF Clear, BoardInv, StartInv, Undecided
<1>4. QED
  BY <1>2, <1>3 DEF IInv

LEMMA PauseKeeps == IInv /\ Pause => IInv'
  BY DEF Pause, IInv, TypeOK, BoardInv, StartInv, Undecided, game, Trails

LEMMA NextKeepsIInv == IInv /\ [Next]_vars => IInv'
<1> SUFFICES ASSUME IInv, [Next]_vars PROVE IInv'
  OBVIOUS
<1>1. CASE Spawn
  BY <1>1, SpawnKeeps
<1>2. ASSUME NEW b \in Batches, NEW j \in 0 .. 3, Tick(b, j) PROVE IInv'
  BY <1>2, TickKeeps
<1>3. CASE Clear
  BY <1>3, ClearKeeps
<1>4. CASE Pause
  BY <1>4, PauseKeeps
<1>5. CASE UNCHANGED vars
  BY <1>5 DEF vars, game, IInv, TypeOK, BoardInv, StartInv, Undecided, Trails
<1>6. QED
  BY <1>1, <1>2, <1>3, <1>4, <1>5 DEF Next, Play

THEOREM InductiveInvariant == Spec => []IInv
  BY InitIInv, NextKeepsIInv, PTL DEF Spec

------------------------------------------------------------------------------
(* The theorems. *)

\* Every head stays on the grid, every score within its bound, for every screen:
\* the type invariant of the match.
THEOREM TypeCorrect == Spec => []TypeOK
  BY InductiveInvariant, PTL DEF IInv

\* The grid is finite, and so is every trail on it.
LEMMA TrailsAreFinite ==
  ASSUME NEW T \in SUBSET Cells
  PROVE  IsFiniteSet(T)
<1>1. IsFiniteSet(0 .. Cols - 1) /\ IsFiniteSet(0 .. Rows - 1)
  BY FS_Interval, GridAssumption
<1>2. IsFiniteSet(Cells)
  BY <1>1, FS_Product DEF Cells
<1>3. QED
  BY <1>2, FS_Subset

\* Painting loses no cell: a set of cells has as many indices as cells.
LEMMA AsManyIndices ==
  ASSUME NEW T \in SUBSET Cells
  PROVE  Cardinality({occ_idx(c) : c \in T}) = Cardinality(T)
<1> DEFINE I == {occ_idx(c) : c \in T}
           f == [c \in T |-> occ_idx(c)]
<1>1. f \in [T -> I]
  OBVIOUS
<1>2. IsInjective(f)
  BY IndexIsInjective DEF IsInjective
<1>3. \A i \in I : \E c \in T : f[c] = i
  OBVIOUS
<1>4. ExistsBijection(T, I)
  <2> HIDE DEF f, I
  <2>1. f \in Bijection(T, I)
    BY <1>1, <1>2, <1>3 DEF Bijection, Injection, Surjection
  <2>2. QED
    BY <2>1 DEF ExistsBijection
<1>5. QED
  BY <1>4, TrailsAreFinite, FS_Bijection

\* In every round the board is the two trails of that round and nothing else.
THEOREM BoardIsTrails == Spec => []OccupiedAreTrails
<1>1. IInv => OccupiedAreTrails
  <2> SUFFICES ASSUME IInv, pc = "tick"
               PROVE  /\ occ = {occ_idx(c) : c \in Trails}
                      /\ Cardinality(occ) = Cardinality(trail[1]) + Cardinality(trail[2])
    BY DEF OccupiedAreTrails, Trails
  <2>1. /\ occ = {occ_idx(c) : c \in Trails} /\ trail[1] \cap trail[2] = {}
        /\ trail[1] \in SUBSET Cells /\ trail[2] \in SUBSET Cells /\ Trails \in SUBSET Cells
    BY DEF IInv, BoardInv, TypeOK, Sides, Trails
  <2>2. Cardinality(occ) = Cardinality(Trails)
    BY <2>1, AsManyIndices
  <2>3. IsFiniteSet(trail[1]) /\ IsFiniteSet(trail[2])
    BY <2>1, TrailsAreFinite
  <2>4. Cardinality(Trails) = Cardinality(trail[1]) + Cardinality(trail[2]) - Cardinality({})
    BY <2>1, <2>3, FS_Union DEF Trails
  <2>5. Cardinality(trail[1]) \in Nat /\ Cardinality(trail[2]) \in Nat /\ Cardinality({}) = 0
    BY <2>3, FS_CardinalityType, FS_EmptySet
  <2>6. QED
    BY <2>1, <2>2, <2>4, <2>5
<1>2. QED
  BY <1>1, InductiveInvariant, PTL

\* Every step of the match with the scores and heads of a tick.
LEMMA TickIsFair ==
  ASSUME IInv, NEW batch \in Batches, NEW jitter \in 0 .. 3, Tick(batch, jitter)
  PROVE  LET target(i)  == Plus(player[i].at, player'[i].dir)
             blocked(i) == ~Free(occ, target(i))
         IN  /\ score'[1] > score[1] <=> blocked(2)
             /\ score'[2] > score[2] <=> blocked(1) \/ target(1) = target(2)
             /\ \A i \in Sides : player'[i].dir # Opposite(player[i].dir)
<1>0. PICK one, two : TickOutcome(one, two)
  BY TickMoves
<1>1. /\ StepOf(occ, player[2], two) /\ StepOf(two.occ, player[1], one)
      /\ player' = [i \in Sides |-> <<one, two>>[i].player]
      /\ score' = [i \in Sides |-> IF <<one, two>>[3 - i].alive THEN score[i] ELSE score[i] + 1]
  BY <1>0 DEF TickOutcome
<1>2. player'[1] = one.player /\ player'[2] = two.player
  BY <1>1 DEF Sides
<1> DEFINE t1 == Plus(player[1].at, player'[1].dir)
           t2 == Plus(player[2].at, player'[2].dir)
<1>3. /\ score'[1] = IF two.alive THEN score[1] ELSE score[1] + 1
      /\ score'[2] = IF one.alive THEN score[2] ELSE score[2] + 1
      /\ score[1] \in Int /\ score[2] \in Int
  BY <1>1 DEF Sides, IInv, TypeOK
<1>4. two.alive <=> Free(occ, t2)
  BY <1>1, <1>2 DEF StepOf
<1>5. one.alive <=> Free(two.occ, t1)
  BY <1>1, <1>2 DEF StepOf
<1>6. two.occ = IF two.alive THEN occ \cup {occ_idx(t2)} ELSE occ
  BY <1>1, <1>2 DEF StepOf
<1>7. \A i \in Sides : player'[i].dir # Opposite(player[i].dir)
  BY <1>1, <1>2 DEF StepOf, Sides
<1> HIDE DEF t1, t2
<1>8. one.alive <=> Free(occ, t1) /\ t1 # t2
  <2>1. t1 \in Cells /\ t2 \in Cells /\ occ_idx(t1) = occ_idx(t2) => t1 = t2
    BY IndexIsInjective
  <2>2. QED
    BY <2>1, <1>4, <1>5, <1>6 DEF Free
<1>9. /\ score'[1] > score[1] <=> ~Free(occ, t2)
      /\ score'[2] > score[2] <=> ~Free(occ, t1) \/ t1 = t2
  BY <1>3, <1>4, <1>8
<1>10. QED
  BY <1>7, <1>9 DEF t1, t2

LEMMA OnlyTicks ==
  ASSUME IInv, Next, pc = "tick"
  PROVE  \E b \in Batches, j \in 0 .. 3 : Tick(b, j)
  BY DEF Next, Play, Spawn, Clear, Pause

\* Who dies in a tick, and who does not, is what the rule says, on every grid
\* and at every position of the two heads.
THEOREM CollisionsFollowTheRule == Spec => CollisionRule
<1> DEFINE Rule ==
      pc = "tick" =>
        LET target(i)  == Plus(player[i].at, player'[i].dir)
            blocked(i) == ~Free(occ, target(i))
        IN  /\ score'[1] > score[1] <=> blocked(2)
            /\ score'[2] > score[2] <=> blocked(1) \/ target(1) = target(2)
<1>1. IInv /\ [Next]_vars => [Rule]_vars
  BY OnlyTicks, TickIsFair
<1>2. QED
  BY <1>1, InductiveInvariant, PTL DEF Spec, CollisionRule

\* Nobody ever turns back into its own trail.
THEOREM NobodyTurnsBack == Spec => NoTurnBack
<1> DEFINE Rule == pc = "tick" => \A i \in Sides : player'[i].dir # Opposite(player[i].dir)
<1>1. IInv /\ [Next]_vars => [Rule]_vars
  BY OnlyTicks, TickIsFair
<1>2. QED
  BY <1>1, InductiveInvariant, PTL DEF Spec, NoTurnBack

\* The match on the board implements the best-of-five match.
THEOREM Refinement == Spec => ImplementsBestOfFive
<1>1. Init => Match!Init
  BY DEF Init, Match!Init, Sides, Match!Sides
<1>2. IInv /\ [Next]_vars => [Match!Next]_score
  <2> SUFFICES ASSUME IInv, [Next]_vars PROVE [Match!Next]_score
    OBVIOUS
  <2>1. ASSUME NEW b \in Batches, NEW j \in 0 .. 3, Tick(b, j)
        PROVE  [Match!Next]_score
    <3>0. PICK one, two : TickOutcome(one, two)
      BY <2>1, TickMoves
    <3>1. score' = [i \in Sides |-> IF <<one, two>>[3 - i].alive THEN score[i] ELSE score[i] + 1]
      BY <3>0 DEF TickOutcome
    <3> DEFINE scorers == {i \in Sides : ~ <<one, two>>[3 - i].alive}
    <3>2. /\ scorers \in SUBSET Match!Sides
          /\ score' = [i \in Match!Sides |-> score[i] + IF i \in scorers THEN 1 ELSE 0]
      BY <3>1 DEF Sides, Match!Sides, IInv, TypeOK
    <3>3. ~Match!MatchOver
      BY <2>1 DEF Tick, IInv, StartInv, Undecided, Match!MatchOver, Match!ToWin, Sides, Match!Sides
    <3>4. CASE scorers = {}
      BY <3>2, <3>4 DEF IInv, TypeOK, Sides, Match!Sides
    <3>5. CASE scorers # {}
      <4> HIDE DEF scorers
      <4>1. Match!Award(scorers)
        BY <3>2, <3>3 DEF Match!Award
      <4>2. scorers \in (SUBSET Match!Sides) \ {{}}
        BY <3>2, <3>5
      <4>3. Match!Next
        BY <4>1, <4>2 DEF Match!Next
      <4>4. QED
        BY <4>3
    <3>6. QED
      BY <3>4, <3>5
  <2>2. CASE Spawn \/ Clear \/ Pause
    BY <2>2 DEF Spawn, Clear, Pause
  <2>3. CASE UNCHANGED vars
    BY <2>3 DEF vars
  <2>4. QED
    BY <2>1, <2>2, <2>3 DEF Next, Play
<1>3. QED
  BY <1>1, <1>2, InductiveInvariant, PTL DEF Spec, ImplementsBestOfFive, Match!Spec

------------------------------------------------------------------------------
(* The bot. *)

\* Of the cells around a head, all but the one behind are straight on, to the
\* left or to the right.
LEMMA ThreeWays ==
  ASSUME NEW dir \in Directions, NEW d \in Directions, d # Opposite(dir)
  PROVE  d \in {dir, ToLeft(dir), ToRight(dir)}
  BY DEF Directions, Opposite, ToLeft, ToRight

\* A candidate stays one when others are put before it.
LEMMA StaysCandidate ==
  ASSUME NEW s \in Seq(Directions), NEW t \in Seq(Directions), NEW i \in DOMAIN t
  PROVE  \E k \in DOMAIN (s \o t) : (s \o t)[k] = t[i]
<1>1. Len(s) \in Nat /\ Len(t) \in Nat /\ i \in 1 .. Len(t)
  OBVIOUS
<1>2. Len(s) + i \in 1 .. (Len(s) + Len(t))
  BY <1>1
<1>3. Len(s) + i \in DOMAIN (s \o t) /\ (s \o t)[Len(s) + i] = t[i]
  BY <1>1, <1>2
<1>4. QED
  BY <1>3

\* Whatever the jitter, the bot of level 1 looks at all three ways.
LEMMA SimpleLooksAround ==
  ASSUME NEW dir \in Directions, NEW jitter \in 0 .. 3,
         NEW d \in {dir, ToLeft(dir), ToRight(dir)}
  PROVE  \E i \in DOMAIN SimpleChoices(dir, jitter) : SimpleChoices(dir, jitter)[i] = d
<1> DEFINE three == <<dir, ToLeft(dir), ToRight(dir)>>
<1>1. \E i \in DOMAIN three : three[i] = d
  <2>1. DOMAIN three = 1 .. 3 /\ three[1] = dir /\ three[2] = ToLeft(dir) /\ three[3] = ToRight(dir)
    OBVIOUS
  <2>2. QED
    BY <2>1
<1>2. three \in Seq(Directions) /\ \A j \in 1 .. 3 : three[j] \in Directions
  <2>1. ToLeft(dir) \in Directions /\ ToRight(dir) \in Directions
    BY DEF Directions, ToLeft, ToRight
  <2>2. QED
    BY <2>1
<1>3. SimpleChoices(dir, jitter) = IF jitter = 0 THEN three ELSE <<three[jitter]>> \o three
  BY DEF SimpleChoices
<1> HIDE DEF three
<1>4. CASE jitter = 0
  BY <1>1, <1>3, <1>4
<1>5. CASE jitter # 0
  <2> DEFINE s == <<three[jitter]>>
  <2>1. s \in Seq(Directions)
    BY <1>2, <1>5
  <2> HIDE DEF s
  <2>2. PICK i \in DOMAIN three : three[i] = d
    BY <1>1
  <2>3. PICK k \in DOMAIN (s \o three) : (s \o three)[k] = three[i]
    BY <2>1, <1>2, StaysCandidate
  <2>4. SimpleChoices(dir, jitter) = s \o three
    BY <1>3, <1>5 DEF s
  <2> HIDE DEF SimpleChoices
  <2>5. QED
    BY <2>2, <2>3, <2>4
<1>6. QED
  BY <1>4, <1>5

\* And so does the pursuer, after the ways that lead to its target.
LEMMA TrackLooksAround ==
  ASSUME NEW bot \in Players, NEW target \in Players, NEW jitter \in 0 .. 3,
         NEW d \in {bot.dir, ToLeft(bot.dir), ToRight(bot.dir)}
  PROVE  \E i \in DOMAIN TrackChoices(bot, target, jitter) :
            TrackChoices(bot, target, jitter)[i] = d
<1>1. bot.dir \in Directions
  BY DEF Players
<1>2. SimpleChoices(bot.dir, jitter) \in Seq(Directions)
  BY <1>1, SimpleType
<1>3. \E s \in Seq(Directions) :
        TrackChoices(bot, target, jitter) = s \o SimpleChoices(bot.dir, jitter)
  BY TowardsType
<1>4. PICK s \in Seq(Directions) :
        TrackChoices(bot, target, jitter) = s \o SimpleChoices(bot.dir, jitter)
  BY <1>3
<1>5. PICK i \in DOMAIN SimpleChoices(bot.dir, jitter) : SimpleChoices(bot.dir, jitter)[i] = d
  BY <1>1, SimpleLooksAround
<1> DEFINE t == SimpleChoices(bot.dir, jitter)
<1> HIDE DEF t
<1>6. PICK k \in DOMAIN (s \o t) : (s \o t)[k] = t[i]
  BY <1>2, <1>5, StaysCandidate DEF t
<1>7. TrackChoices(bot, target, jitter) = s \o t /\ t[i] = d
  BY <1>4, <1>5 DEF t
<1>8. QED
  BY <1>6, <1>7

\* With a free candidate the bot asks for one that is free.
LEMMA FirstFreeIsFree ==
  ASSUME NEW o, NEW at, NEW choices \in Seq(Directions), NEW old,
         NEW i \in DOMAIN choices, Free(o, Plus(at, choices[i]))
  PROVE  /\ FirstFree(o, at, choices, old) \in Directions
         /\ Free(o, Plus(at, FirstFree(o, at, choices, old)))
<1> DEFINE free == {k \in DOMAIN choices : Free(o, Plus(at, choices[k]))}
<1>1. free # {} /\ free \in SUBSET Nat
  OBVIOUS
<1>2. \E x \in free : \A y \in free : x <= y
  <2> HIDE DEF free
  <2>1. QED
    BY <1>1, LeastExists
<1>3. Min(free) \in free
  <2> HIDE DEF free
  <2>1. QED
    BY <1>2 DEF Min
<1>4. FirstFree(o, at, choices, old) = choices[Min(free)]
  BY <1>1 DEF FirstFree
<1> HIDE DEF FirstFree
<1>5. QED
  BY <1>3, <1>4

\* A way out is taken: if a way other than back is free, what the bot asks for is.
LEMMA BotAsksForFree ==
  ASSUME NEW o, NEW bot \in Players, NEW target \in Players, NEW lev,
         NEW jitter \in 0 .. 3, NEW old,
         NEW d \in Directions, d # Opposite(bot.dir), Free(o, Plus(bot.at, d))
  PROVE  LET asked == BotIntent(o, bot, target, lev, jitter, old)
         IN  asked \in Directions /\ Free(o, Plus(bot.at, asked))
<1>1. bot.dir \in Directions
  BY DEF Players
<1>2. d \in {bot.dir, ToLeft(bot.dir), ToRight(bot.dir)}
  BY <1>1, ThreeWays
<1>3. CASE lev >= 2
  <2>1. PICK i \in DOMAIN TrackChoices(bot, target, jitter) :
          TrackChoices(bot, target, jitter)[i] = d
    BY <1>2, TrackLooksAround
  <2>2. TrackChoices(bot, target, jitter) \in Seq(Directions)
    BY TrackType
  <2>3. QED
    BY <2>1, <2>2, <1>3, FirstFreeIsFree DEF BotIntent
<1>4. CASE ~ (lev >= 2)
  <2>1. PICK i \in DOMAIN SimpleChoices(bot.dir, jitter) :
          SimpleChoices(bot.dir, jitter)[i] = d
    BY <1>1, <1>2, SimpleLooksAround
  <2>2. SimpleChoices(bot.dir, jitter) \in Seq(Directions)
    BY <1>1, SimpleType
  <2>3. QED
    BY <2>1, <2>2, <1>4, FirstFreeIsFree DEF BotIntent
<1>5. QED
  BY <1>3, <1>4

\* The way back is closed once the bot has moved, and before that the way ahead
\* is open, or there is no way back: the grid has two columns.
BackInv ==
  pc = "tick" => \/ ~Free(occ, Plus(player[2].at, Opposite(player[2].dir)))
                 \/ Free(occ, Plus(player[2].at, player[2].dir))

LEMMA SpawnKeepsBack == IInv /\ Spawn => BackInv'
<1> SUFFICES ASSUME IInv, Spawn PROVE BackInv'
  OBVIOUS
<1> DEFINE x == (3 * Cols) \div 4
           l == Cols \div 4
           y == Rows \div 2
<1>1. /\ occ' = {occ_idx(<<l, y>>), occ_idx(<<x, y>>)}
      /\ player'[2].at = <<x, y>> /\ player'[2].dir = <<-1, 0>>
  BY DEF Spawn, IInv, StartInv, SpawnLeft, SpawnRight
<1>2. /\ x \in 1 .. Cols - 1 /\ l \in 0 .. Cols - 1 /\ y \in 0 .. Rows - 1
      /\ x - 1 # l \/ x + 1 = Cols
  BY GridAssumption
<1> HIDE DEF x, l, y
<1>3. Plus(<<x, y>>, <<-1, 0>>) = <<x - 1, y>> /\ Plus(<<x, y>>, Opposite(<<-1, 0>>)) = <<x + 1, y>>
  BY <1>2, GridAssumption DEF Plus, Opposite
<1>4. CASE x - 1 # l
  <2>1. <<x - 1, y>> \in Cells /\ <<l, y>> \in Cells /\ <<x, y>> \in Cells
    BY <1>2, GridAssumption DEF Cells
  <2>2. <<x - 1, y>> # <<l, y>> /\ <<x - 1, y>> # <<x, y>>
    BY <1>2, <1>4, GridAssumption
  <2>3. occ_idx(<<x - 1, y>>) # occ_idx(<<l, y>>) /\ occ_idx(<<x - 1, y>>) # occ_idx(<<x, y>>)
    BY <2>1, <2>2, IndexIsInjective
  <2>4. Free(occ', <<x - 1, y>>)
    BY <1>1, <2>1, <2>3 DEF Free
  <2>5. QED
    BY <1>1, <1>3, <2>4 DEF BackInv
<1>5. CASE x + 1 = Cols
  <2>1. <<x + 1, y>> \notin Cells
    BY <1>5, <1>2, GridAssumption DEF Cells
  <2>2. QED
    BY <1>1, <1>3, <2>1 DEF BackInv, Free
<1>6. QED
  BY <1>2, <1>4, <1>5

LEMMA TickKeepsBack ==
  ASSUME IInv, NEW batch \in Batches, NEW jitter \in 0 .. 3, Tick(batch, jitter)
  PROVE  BackInv'
<1> SUFFICES ASSUME pc' = "tick"
             PROVE  ~Free(occ', Plus(player'[2].at, Opposite(player'[2].dir)))
  BY DEF BackInv
<1>1. PICK one, two : TickOutcome(one, two)
  BY TickMoves
<1>2. /\ StepOf(occ, player[2], two) /\ two.alive /\ player'[2] = two.player
      /\ two.occ \subseteq occ'
  BY <1>1 DEF TickOutcome, Sides
<1>3. player'[2].at = Plus(player[2].at, player'[2].dir) /\ occ \subseteq occ'
      /\ player'[2].dir \in Directions
  BY <1>2 DEF StepOf, Players
<1>4. player[2].at \in Cells /\ occ_idx(player[2].at) \in occ
  <2>1. pc = "tick" /\ player[2] \in Players
    BY DEF Tick, IInv, TypeOK, Sides
  <2>2. player[2].at \in trail[2] /\ occ = {occ_idx(c) : c \in Trails}
    BY <2>1 DEF IInv, BoardInv, Sides
  <2>3. QED
    BY <2>1, <2>2 DEF Players, Trails
<1>5. Plus(player'[2].at, Opposite(player'[2].dir)) = player[2].at
  <2>1. ASSUME NEW c \in Cells, NEW d \in Directions
        PROVE  Plus(Plus(c, d), Opposite(d)) = c
    <3>1. c = <<c[1], c[2]>> /\ c[1] \in Int /\ c[2] \in Int /\ d[1] \in Int /\ d[2] \in Int
      BY DEF Cells, Directions
    <3>2. (c[1] + d[1]) + (-d[1]) = c[1] /\ (c[2] + d[2]) + (-d[2]) = c[2]
      BY <3>1
    <3>3. Plus(Plus(c, d), Opposite(d)) = <<(c[1] + d[1]) + (-d[1]), (c[2] + d[2]) + (-d[2])>>
      BY DEF Plus, Opposite
    <3>4. QED
      BY <3>1, <3>2, <3>3
  <2>2. QED
    BY <2>1, <1>3, <1>4
<1>6. QED
  BY <1>3, <1>4, <1>5 DEF Free

LEMMA BackInvariant == Spec => []BackInv
<1>1. Init => BackInv
  BY DEF Init, BackInv
<1>2. IInv /\ BackInv /\ [Next]_vars => BackInv'
  <2> SUFFICES ASSUME IInv, BackInv, [Next]_vars PROVE BackInv'
    OBVIOUS
  <2>1. CASE Spawn
    BY <2>1, SpawnKeepsBack
  <2>2. ASSUME NEW b \in Batches, NEW j \in 0 .. 3, Tick(b, j) PROVE BackInv'
    BY <2>2, TickKeepsBack
  <2>3. CASE Clear \/ Pause
    BY <2>3 DEF Clear, Pause, BackInv
  <2>4. CASE UNCHANGED vars
    BY <2>4 DEF vars, BackInv
  <2>5. QED
    BY <2>1, <2>2, <2>3, <2>4 DEF Next, Play
<1>3. QED
  BY <1>1, <1>2, InductiveInvariant, PTL DEF Spec

\* Who is asked turns as asked, unless that is straight back.
LEMMA BotTurns ==
  ASSUME IInv, NEW batch \in Batches, NEW jitter \in 0 .. 3, Tick(batch, jitter), mode = 1
  PROVE  player'[2].dir =
           player_set_dir(player[2].dir,
                          BotIntent(occ, player[2], player[1], level, jitter, intent[2]))
<1> DEFINE asked == BotIntent(occ, player[2], player[1], level, jitter, intent[2])
           r == player_action_tick(occ, player[2], intent'[2])
<1>1. intent'[2] = asked
  BY DEF Tick, Intents
<1>2. player'[2] = r.player
  <2>1. Moves(intent')[2] = r
    BY DEF Moves
  <2>2. player' = [i \in Sides |-> Moves(intent')[i].player]
    BY DEF Tick
  <2> HIDE DEF r
  <2>3. QED
    BY <2>1, <2>2 DEF Sides
<1>3. player[2] \in [at : Cells, dir : Directions]
  BY DEF IInv, TypeOK, Sides, Players
<1>4. r.player.dir = player_set_dir(player[2].dir, intent'[2])
  BY <1>3 DEF player_action_tick
<1>5. QED
  BY <1>1, <1>2, <1>4

\* On every grid and at every level the bot collides only when no neighbour of
\* its head is free.
THEOREM BotDiesOnlyBoxedIn == Spec => BotDiesBoxedIn
<1> DEFINE Rule == mode = 1 /\ score'[1] > score[1] =>
                     \A d \in Directions : ~Free(occ, Plus(player[2].at, d))
<1>1. ASSUME IInv, BackInv, NEW b \in Batches, NEW j \in 0 .. 3, Tick(b, j),
             mode = 1, score'[1] > score[1],
             NEW d \in Directions, Free(occ, Plus(player[2].at, d))
      PROVE  FALSE
  <2> DEFINE asked == BotIntent(occ, player[2], player[1], level, j, intent[2])
  <2>1. /\ player[1] \in Players /\ player[2] \in Players /\ player[2].dir \in Directions
        /\ pc = "tick"
    BY <1>1 DEF IInv, TypeOK, Sides, Players, Tick
  <2>2. ~Free(occ, Plus(player[2].at, player'[2].dir))
    BY <1>1, TickIsFair
  <2>3. PICK e \in Directions : e # Opposite(player[2].dir) /\ Free(occ, Plus(player[2].at, e))
    <3>1. CASE d # Opposite(player[2].dir)
      BY <3>1, <1>1
    <3>2. CASE d = Opposite(player[2].dir)
      <4>1. Free(occ, Plus(player[2].at, player[2].dir))
        BY <3>2, <1>1, <2>1 DEF BackInv
      <4>2. player[2].dir # Opposite(player[2].dir)
        BY <2>1 DEF Directions, Opposite
      <4>3. QED
        BY <4>1, <4>2, <2>1
    <3>3. QED
      BY <3>1, <3>2
  <2>4. asked \in Directions /\ Free(occ, Plus(player[2].at, asked))
    BY <2>1, <2>3, BotAsksForFree
  <2>5. player'[2].dir = player_set_dir(player[2].dir, asked)
    BY <1>1, BotTurns
  <2> HIDE DEF asked
  <2>6. CASE asked # Opposite(player[2].dir)
    BY <2>2, <2>4, <2>5, <2>6 DEF player_set_dir
  <2>7. CASE asked = Opposite(player[2].dir)
    <3>1. player'[2].dir = player[2].dir
      BY <2>5, <2>7 DEF player_set_dir
    <3>2. Free(occ, Plus(player[2].at, player[2].dir))
      BY <2>1, <2>4, <2>7, <1>1 DEF BackInv
    <3>3. QED
      BY <2>2, <3>1, <3>2
  <2>8. QED
    BY <2>6, <2>7
<1>2. IInv /\ BackInv /\ [Next]_vars => [Rule]_vars
  <2> SUFFICES ASSUME IInv, BackInv, Next PROVE Rule
    OBVIOUS
  <2>1. CASE Spawn \/ Clear \/ Pause
    <3>1. score' = score /\ score[1] \in Int
      BY <2>1 DEF Spawn, Clear, Pause, IInv, TypeOK, Sides
    <3>2. QED
      BY <3>1
  <2>2. ASSUME NEW b \in Batches, NEW j \in 0 .. 3, Tick(b, j) PROVE Rule
    BY <2>2, <1>1
  <2>3. QED
    BY <2>1, <2>2 DEF Next, Play
<1>3. QED
  BY <1>2, InductiveInvariant, BackInvariant, PTL DEF Spec, BotDiesBoxedIn
=============================================================================

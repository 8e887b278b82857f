SPECIFICATION FairSpec
CONSTANTS
  Cols = 5
  Rows = 3
  Batches <- MCBatches
  Levels = {1, 2}
INVARIANTS TypeOK OccupiedAreTrails
PROPERTIES CollisionRule BotDiesBoxedIn NoTurnBack RoundEnds ImplementsBestOfFive
CHECK_DEADLOCK FALSE

SPECIFICATION FairSpec
CONSTANTS
  TopLevel = 2
  QueueLength = 3
INVARIANTS LevelCountsWins NoRoundAfterVictory
PROPERTIES AnnouncedUnlessTie EnterLeaves

SPECIFICATION Spec
CONSTANTS
  W = 3
  H = 3
  MaxScale = 2
  LineLength = 5
  Letters <- MCLetters
  Strings <- MCStrings
  Frames <- MCFrames
  Positions <- MCPositions
INVARIANTS TypeOK PrintsOnBlank EchoShowsLine
PROPERTY PromptKept

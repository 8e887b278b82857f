SPECIFICATION Spec
CONSTANTS
  MaxArgs = 5
  IntMod = 256
  Lines <- MCLines
  RegCount = 3
  Depth <- MCDepth
  MaxDepth = 3
  MaxCaptures = 4
CHECK_DEADLOCK FALSE
INVARIANTS Understands StackBounded SnapshotIsLatest

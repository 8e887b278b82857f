SPECIFICATION DeviceSpec
CONSTANTS
  BUFFER_MAXLENGTH = 1
  Bytes = {}
  PlainKeys <- MCPlainKeys
  ExtendedKeys <- MCExtendedKeys
  WireCapacity = 2
INVARIANT Settled
PROPERTIES TypesWhatIsPressed SnapshotNeedsShift

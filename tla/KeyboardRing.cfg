SPECIFICATION FairSpec
CONSTANTS
  BUFFER_MAXLENGTH = 3
  Bytes <- MCTwoKeys
INVARIANTS TypeOK FreshOnly
PROPERTIES ImplementsQueue EnterReleases

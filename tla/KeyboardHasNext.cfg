SPECIFICATION Spec
CONSTANTS
  BUFFER_MAXLENGTH = 3
  Bytes <- MCTwoKeys
INVARIANT HasNextKeyHonest

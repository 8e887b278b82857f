SPECIFICATION InputSpec
CONSTANTS
  BUFFER_MAXLENGTH = 3
  Bytes <- MCBytes
  LineLength = 3
  MaxLen = 2
  MaxTyped = 4
INVARIANTS InputTypeOK LineIsWhatWasTyped BatchIsWhatWasTyped

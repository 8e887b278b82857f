SPECIFICATION Spec
CONSTANTS
  Modulus = 6
  SleepTicks <- MCSleepTicks
INVARIANT MsSinceBootIsTime

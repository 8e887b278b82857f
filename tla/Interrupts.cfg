SPECIFICATION FairSpec
CONSTANTS
  Modulus = 6
  SleepTicks <- MCSleepTicks
INVARIANTS TypeOK HandlersRunAlone SecondEoiHarmless EveryTickAccounted SleepBounds
PROPERTY SleepReturns

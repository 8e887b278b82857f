SPECIFICATION Spec
CONSTANTS
  TopLevel = 2
  QueueLength = 1
PROPERTY AnnouncedIsPlayed

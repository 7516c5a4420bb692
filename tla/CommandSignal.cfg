SPECIFICATION FairSpec
CONSTANTS
  Handlers <- routes
  MaxMistakes = 0
PROPERTIES
  SignalEnds
CHECK_DEADLOCK FALSE

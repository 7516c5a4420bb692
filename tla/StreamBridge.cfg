CONSTANTS
  Window = 2
  MaxSent = 4
SPECIFICATION RoutineFairSpec
INVARIANTS
  TypeOK
  InOrderNoGaps
  NilMeansComplete
  VerdictTruthful
  LosesAtMostOne
  VerdictReady
PROPERTIES
  KeepsPromise
  CancelStopsRoutine
  DrainingCallerFinishes

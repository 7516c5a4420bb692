SPECIFICATION Spec
CONSTANTS
  Loaders = {a, v}
  Verifying = {v}
  Page = 1
  MaxEvents = 2
  MaxLives = 1
  MaxLoads = 1
  MaxSaves = 2
  MaxPrunes = 1
INVARIANTS
  TypeOK
  LatestAtOneMoment
  Rehydrated

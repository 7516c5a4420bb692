\* Every command of route.go, with up to two mistakes on its line.
SPECIFICATION FairSpec
CONSTANTS
  Handlers <- routes
  MaxMistakes = 2
INVARIANTS
  TypeOK
  ExitTellsEffect
  OutputDiscipline
PROPERTIES
  RunEnds
\* A run ends and stays ended.
CHECK_DEADLOCK FALSE

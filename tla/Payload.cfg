SPECIFICATION Spec
CONSTANTS
  MaxEvents = 2
  Ids = {i, j}
INVARIANTS
  PipeFaithful

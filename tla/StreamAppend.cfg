SPECIFICATION Spec
CONSTANTS
  Writers = {w1, w2}
  Plans <- MCPlans
  Page = 2
  MaxSends = 2
  MaxRounds = 1
  MaxLives = 1
SYMMETRY WriterSymmetry
INVARIANTS TypeOK FreshDecision WrittenOnce ResultTruthful ConflictTruthful
PROPERTY AtomicAppends

CONSTANTS
  Workers = {w1, w2}
  Tags = {a, b}
  Limit = 2
  BatchSize = 2
  OnConflict = "reread"
  AfterCommit = "overlap"
  MaxSends = 3
SPECIFICATION Spec
INVARIANTS
  TagLimit

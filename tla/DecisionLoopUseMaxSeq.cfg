CONSTANTS
  Workers = {w1, w2}
  Tags = {a}
  Limit = 1
  BatchSize = 2
  OnConflict = "useMaxSeq"
  AfterCommit = "stop"
  MaxSends = 2
SPECIFICATION Spec
INVARIANTS
  TagLimit

SPECIFICATION Spec
CONSTANTS
  Stores = {"orders", "users"}
  Variants = {0, 1, 2, 3, 4, 5, 6}
INVARIANTS
  TypeOK
  ArgumentsArrive
  PrintedAsSent
  VerdictHonest
  ReadersDoNotWrite

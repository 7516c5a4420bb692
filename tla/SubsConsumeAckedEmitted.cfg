CONSTANTS
  AckModes = {"auto"}
  Window = 1
  MaxEvents = 2
  MaxSessions = 1
  MaxLines = 1
SPECIFICATION Spec
INVARIANTS
  AckedWereEmitted

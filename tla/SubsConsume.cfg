CONSTANTS
  AckModes = {"auto", "none", "stdin"}
  Window = 1
  MaxEvents = 2
  MaxSessions = 2
  MaxLines = 1
SPECIFICATION CliFairSpec
INVARIANTS
  TypeOK
  FramesWellFormed
  TerminalHonest
  LostPerCrash
  CheckpointBehindHandled
PROPERTIES
  SignalStops
  CloseStops

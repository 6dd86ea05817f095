CONSTANTS
  both = both
  second = second
  bare = bare
  Group <- MCGroup
  NoSyscall <- MCNoSyscall
  Detects <- MCDetects
  NRules = 2
  InCap = 2
  OutCap = 1
  ErrCap = 1
  AlertCap = 1
SPECIFICATION AgentSpec
INVARIANTS EventsInOrder AgentTypeOK AlertsAccounted
PROPERTIES ImplementsChannel EngineAsSpecified
  ShutdownEnds OverflowAnnounced DetectionsPrinted
CHECK_DEADLOCK FALSE

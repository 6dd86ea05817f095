CONSTANTS
  Event = {a, b}
  NAlerts = 3
  InCap = 1
  ResponseCap = 1
  StorageCap = 2
SPECIFICATION Spec
INVARIANTS CopiesIsolated FanOutComplete
PROPERTIES ImplementsChannels CancelEnds
CHECK_DEADLOCK FALSE

CONSTANTS
  e1 = e1
  e2 = e2
  Id <- MCId
  Log <- MixedLog
  LineCap = 1
  OutCap = 1
  ErrCap = 1
  Minute = 0
  Period = 1
SPECIFICATION Spec
INVARIANTS TypeOK AtMostOnce NoCompleteGroupWaits TitledEventsWhole NoRecordVanishes
PROPERTIES OnlyStaleEvicted NoSendAfterClose ImplementsAssembly

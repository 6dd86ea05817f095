CONSTANTS
  e1 = e1
  e2 = e2
  Id <- MCId
  Log <- PlainLog
  LineCap = 1
  OutCap = 1
  ErrCap = 1
  Minute = 1
  Period = 1
SPECIFICATION FairSpec
PROPERTIES StopReturns GroupsLeave CompleteEventsHanded

CONSTANTS
  ArgKey <- MCArgKey
  Fact <- TraceFact
  Process <- MCProcess
  MaxChanges = 2
  BaseOf <- MCBaseOf
  ExtOf <- MCExtOf
  TrimmedOf <- MCTrimmedOf
SPECIFICATION Spec
INVARIANT TargetPIDRead
CHECK_DEADLOCK FALSE

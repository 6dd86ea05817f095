CONSTANTS
  ArgKey <- MCArgKey
  Fact <- MCFact
  Process <- MCProcess
  MaxChanges = 2
  BaseOf <- MCBaseOf
  ExtOf <- MCExtOf
  TrimmedOf <- MCTrimmedOf
SPECIFICATION Spec
INVARIANTS IdentityKept ParentNamed AddressRead TargetRead CommandRead RequestNamed
CHECK_DEADLOCK FALSE

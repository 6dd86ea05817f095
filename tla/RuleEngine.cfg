CONSTANTS
  both = both
  last = last
  none = none
  Event <- MCEvent
  NRules = 3
  Matches <- MCMatches
  InCap = 2
  AlertCap = 1
SPECIFICATION Spec
INVARIANTS TypeOK EventsFullyJudged PrintedRuleMatches
PROPERTIES ImplementsChannel
CHECK_DEADLOCK FALSE

CONSTANTS
  both = both
  last = last
  none = none
  Event <- MCEvent
  NRules = 3
  Matches <- MCMatches
  InCap = 2
  AlertCap = 1
SPECIFICATION Spec
INVARIANT AlertsNameTheirRule
CHECK_DEADLOCK FALSE

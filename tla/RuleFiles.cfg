CONSTANTS
  Files <- MixedFiles
  Event <- MCEvent
  Starred <- MCStarred
  Globs <- MCGlobs
  Contains <- MCContains
  Fields <- MCFields
  Base <- MCBase
  Lower <- MCLower
  NumberOf <- MCNumberOf
  Depth = 1
SPECIFICATION Spec
INVARIANT FilesIndependent
CHECK_DEADLOCK FALSE

CONSTANTS
  g1 = g1
  g2 = g2
  g3 = g3
  bare = bare
  Group <- MCGroup
  NoSyscall <- MCNoSyscall
  InCap = 2
  OutCap = 2
  ErrCap = 1
SPECIFICATION Spec
INVARIANT KeepsWatching
CHECK_DEADLOCK FALSE

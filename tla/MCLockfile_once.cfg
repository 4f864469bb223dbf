CONSTANTS
  Process = {p1, p2}
  Inode = {1, 2, 3, 4, 5}
  None = None
  Attempts = 2
  Timely = TRUE
  Crashes = TRUE
  Relocks = FALSE
SPECIFICATION FairSpec
INVARIANTS TypeOK MutualExclusion OwnLock
PROPERTIES CrashNeverBlocks Excludes
\* a process that is done or dead takes no step
CHECK_DEADLOCK FALSE

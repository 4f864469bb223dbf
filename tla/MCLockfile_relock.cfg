CONSTANTS
  Process = {p1, p2}
  Inode = {1, 2, 3, 4, 5}
  None = None
  Attempts = 1
  Timely = TRUE
  Crashes = FALSE
  Relocks = TRUE
SPECIFICATION Spec
SYMMETRY ProcessSymmetry
INVARIANTS MutualExclusion
\* a process that is done or dead takes no step
CHECK_DEADLOCK FALSE

CONSTANTS
  a = a
  b = b
  s = s
  t = t
  Invocation = {a, b}
  Unit = {s, t}
  Setups <- MCSetups
  None = None
  Torn = Torn
  MaxEntries = 3
  MaxFaults = 1
  MaxCalls = 1
SPECIFICATION FairSpec
CONSTRAINT LineFirst
INVARIANTS TypeOK CollectedOnce  UploadedWhole
 
\* a daemon that cannot load its data file takes no step
CHECK_DEADLOCK FALSE

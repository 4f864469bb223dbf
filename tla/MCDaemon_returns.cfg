CONSTANTS
  Task = {t1, t2, t3, t4}
  None = None
  Requests = {"Trigger", "Enable", "Disable", "Suspend", "Wake"}
  MaxHandlers = 1
  IoMayFail = FALSE
SPECIFICATION FairSpec
INVARIANTS TypeOK
PROPERTIES RequestsReturn
\* a daemon that has stopped, or that nobody calls, takes no step
CHECK_DEADLOCK FALSE

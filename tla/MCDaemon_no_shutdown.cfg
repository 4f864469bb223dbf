CONSTANTS
  Task = {t1, t2, t3, t4}
  None = None
  Requests = {"Shutdown", "Inhibit", "Uninhibit"}
  MaxHandlers = 1
  IoMayFail = FALSE
SPECIFICATION FairSpec
PROPERTIES ShutdownCompletes
\* a daemon that has stopped, or that nobody calls, takes no step
CHECK_DEADLOCK FALSE

CONSTANTS
  Task = {t1, t2, t3, t4, t5}
  None = None
  Requests = {"Shutdown", "Inhibit"}
  MaxHandlers = 2
  IoMayFail = FALSE
SPECIFICATION FairSpec
PROPERTIES PeriodicRounds ShutdownCompletes
\* a daemon that has stopped, or that nobody calls, takes no step
CHECK_DEADLOCK FALSE

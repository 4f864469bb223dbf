CONSTANTS
  Task = {t1, t2, t3, t4, t5}
  None = None
  Requests = {"Trigger", "TriggerAsync", "Inhibit", "Uninhibit", "Shutdown"}
  MaxHandlers = 2
  IoMayFail = TRUE
SPECIFICATION Spec
CONSTRAINTS Stopping Working
SYMMETRY TaskSymmetry
INVARIANTS OneRound AsyncDedup AsyncRoundNotCancelled
PROPERTIES StartsAllowed
\* a daemon that has stopped, or that nobody calls, takes no step
CHECK_DEADLOCK FALSE

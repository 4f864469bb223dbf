CONSTANTS
  h1 = h1
  h2 = h2
  crash = crash
  stuck = stuck
  fine = fine
  report = report
  Helper = {h1, h2}
  Log = {stuck, fine, report, crash}
  None = None
  HelperOf <- MCHelperOf
  Setups <- MCSetups
  Reports = {report}
  Server <- MCServer
  ClassErrors = {crash}
  MaxRestarts = 1
SPECIFICATION FairSpec
INVARIANTS TypeOK AcceptedOnce FailedNotAccepted
PROPERTIES OthersGetThrough Delivers
\* after a round was cancelled, and every report sent, nothing happens any more
CHECK_DEADLOCK FALSE

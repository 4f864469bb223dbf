CONSTANTS
  info = info
  on = on
  off = off
  l1 = l1
  l2 = l2
  Key = {"enable", "level", "newest"}
  Value = {info, on, off, 1, 2}
  None = None
  Base <- MCBase
  Migrations <- MCMigrations
  Level = "level"
  Options = {"enable"}
  Choice = {off}
  UserFiles <- MCUserFiles
  MaxEdits = 1
  MaxFaults = 1
  Log = {l1, l2}
  MaxTime = 2
SPECIFICATION FairSpec
INVARIANTS TypeOK OptionsSurvive AnnouncedOnce
PROPERTIES YoungestAnnounced
CHECK_DEADLOCK FALSE

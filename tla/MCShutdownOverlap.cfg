\* Manual refreshes, edits, failing commits and a restart against the scheduler.
SPECIFICATION Spec
CONSTANTS
  Rules = {1, 2}
  guest = guest
  host = host
  Targets = {guest, host}
  Configs <- OverlapConfigs
  Scheduler = scheduler
  Refreshers = {refresh}
  Handlers = {h}
  MaxLevel = 0
  Reports = {"charge"}
  None = None
  CommitsMayFail = TRUE
  MaxOutages = 1
  MaxDisturbances = 2
INVARIANTS TypeOK AtMostOncePerArming GuardBeforeAction
PROPERTY GuardIsOneShot
CHECK_DEADLOCK FALSE

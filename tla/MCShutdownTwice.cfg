\* A manual refresh overlaps the scheduler's poll when the mains fail.
SPECIFICATION Spec
CONSTANTS
  Rules = {1, 2}
  guest = guest
  host = host
  Targets = {guest, host}
  Configs <- OverlapConfigs
  Scheduler = scheduler
  Refreshers = {refresh}
  Handlers = {}
  MaxLevel = 0
  Reports = {"charge"}
  None = None
  CommitsMayFail = FALSE
  MaxOutages = 1
  MaxDisturbances = 0
INVARIANT OncePerOutage
CHECK_DEADLOCK FALSE

\* Only the scheduler polls: no overlap, no edits, two outages.
SPECIFICATION FairSpec
CONSTANTS
  Rules = {1, 2}
  guest = guest
  host = host
  Targets = {guest, host}
  Configs <- ScheduledConfigs
  Scheduler = scheduler
  Refreshers = {}
  Handlers = {}
  MaxLevel = 1
  Reports = {"charge", "runtime"}
  None = None
  CommitsMayFail = FALSE
  MaxOutages = 2
  MaxDisturbances = 0
INVARIANTS OncePerOutage
PROPERTIES DelayRespected PriorityOrder LongOutageReachesEveryRule RearmedOnMains
CHECK_DEADLOCK FALSE

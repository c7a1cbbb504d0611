SPECIFICATION Spec
CONSTANTS
  Scheduler = poll
  Refreshers = {}
  Keys <- UpsKeys
  States = {online, battery}
  None = None
  OfflineThreshold = 2
  MaxEvents = 1
  PruneEvery = 2
  MaxInc = 2
  MaxFlips = 1
  MaxFailures = 0
  MaxDisturbances = 2
PROPERTIES
RecreatedStartsFresh

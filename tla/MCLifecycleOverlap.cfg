SPECIFICATION FairSpec
CONSTANTS
  Scheduler = poll
  Refreshers = {refresh}
  Keys <- UpsKeys
  States = {online}
  None = None
  OfflineThreshold = 2
  MaxEvents = 1
  PruneEvery = 2
  MaxInc = 2
  MaxFlips = 1
  MaxFailures = 0
  MaxDisturbances = 1
PROPERTIES OfflineIsDebounced TrackersConverge

SPECIFICATION FairSpec
CONSTANTS
  Scheduler = poll
  Refreshers = {}
  Keys <- UpsKeys
  States = {online, battery}
  None = None
  OfflineThreshold = 2
  MaxEvents = 1
  PruneEvery = 2
  MaxInc = 1
  MaxFlips = 3
  MaxFailures = 2
  MaxDisturbances = 0
INVARIANTS TypeOK LogBounded LastReadingKept
PROPERTIES TransitionsAlternate LogHasTheLastWord

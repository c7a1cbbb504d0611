\* The integrations with devices and the monitoring tool, one at a time.
SPECIFICATION IntSpec
CONSTANTS
  BmcInsts = {"a", "b"}
  BmcCases <- MCBmcCases
  BmcCalls = {1, 2, 3}
  BmcWidth = 2
  BmcSlots = 4
  SwWriters = {"u", "v"}
  SwPlans <- MCSwPlans
  SwVids = {1, 2, 3}
  SwPorts = {"p"}
  SwPool = 1
  MonUsers = {"u", "v"}
  MonPlans <- MCMonPlans
  MonNames = {"n", "m"}
  MonPages = {1, 2}
  MonRows = {1, 2, 3, 4}
  UpsReaders = {"poll", "refresh", "test", "diag"}
  UpsCases <- MCUpsCases
  UpsLevels = {20, 100}
  UpsGarbage = {50, 95, 200}
  UpsTop = 100
  UpsStep = 10
  UpsMaxReject = 2
  UpsLow = 20
  UpsTries = 4
  UpsCooldown = 2
INVARIANTS
  IntegrationsTypeOK SessionsBounded StaleOnlyAfterTwoDeaths
  ConsistentBatchSucceeds OkMeansAllApplied SavedSurvivesReboot
  PagesMatchIntent DanglingAccounted
  ResetsRareAndAlone StatusFollowsFlags
PROPERTIES GraphFollowsLevel EveryoneFinishes
CHECK_DEADLOCK FALSE

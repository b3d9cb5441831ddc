SPECIFICATION FairSpec
CONSTANTS
  MinCampaignRuns = 2
  MaxCampaignRuns = 4
  MinPerRunUnits = 1
  HuntMinPerShardUnits = 2
  UniqueCrashBonusMaxUnits = 1
  HuntUniqueCrashBonusMaxUnits = 2
  FloorPayBPS = 5000
  BurnPPM = 50000
  PlatformPPM = 50000
  NoOne = NoOne
  t1 = t1
  t2 = t2
  m1 = m1
  m2 = m2
  NItems = 2
  Miner <- TwoMiners
  Price = 206
  Threads = {t1}
  Scenarios <- Pulls
INVARIANTS TypeOK NoStrandedRun
PROPERTIES EventuallyDrained

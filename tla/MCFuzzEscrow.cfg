SPECIFICATION Spec
CONSTANTS
  MinCampaignRuns = 2
  MaxCampaignRuns = 4
  MinPerRunUnits = 1
  HuntMinPerShardUnits = 2
  UniqueCrashBonusMaxUnits = 1
  HuntUniqueCrashBonusMaxUnits = 2
  FloorPayBPS = 5000
  BurnPPM = 50000
  PlatformPPM = 50000
  NoOne = NoOne
  payerAddr = payerAddr
  devAddr = devAddr
  minerAddr = minerAddr
  Campaigns = {c1}
  Addr <- MCAddr
  WalletAddr = payerAddr
  DevFeeAddress = devAddr
  Events = {e1, e2, e3}
  Prices = {206}
  RunBudgets = {2}
  OpenSplits = {"20_80", "40_60", "50_50"}
  MinBudget <- MCMinBudget
  MaxBudget = 500
  Minted = 400
  SupSupply = 30
  IsHub = FALSE
  Senders = {devAddr}
  TransferAmounts = {8}
  TransferFee = 2
  TransferBurn = 1
INVARIANTS TypeOK WalletMirrorsAccount PoolsNotOverdrawn PayerPaysForDelivery
PROPERTIES EveryStepConserves BountyIsFinal
SYMMETRY EventSymmetry
CHECK_DEADLOCK FALSE

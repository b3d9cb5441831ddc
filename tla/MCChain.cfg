SPECIFICATION Spec
CONSTANTS
  o1 = o1
  o2 = o2
  d1 = d1
  n1 = n1
  n2 = n2
  m1 = m1
  s1 = s1
  s2 = s2
  t1 = t1
  t2 = t2
  wHub = wHub
  wDesk = wDesk
  dev = dev
  HubOrders = {o1, o2}
  DeskOrders = {d1}
  Nonces = {n1, n2}
  Miners = {m1}
  Solvers = {s1, s2}
  Funds = {t1}
  HubWallet = wHub
  DeskWallet = wDesk
  Platform = dev
  Rewards = {5}
  Targets = {1, 2}
  V2From = 2
  RewardV1 = 2
  RewardV2 = 3
  SupReward = 4
  MaxSupply = 42
  SupCap = 3
  FeePct = 10
  BurnPct = 10
  V2FeePct = 10
  V2BurnPct = 10
  SupRate = 1
  Genesis = 21
  Deposit = 20
  FundUnits = 14
  TransferFee = 2
  MaxHeight = 2
INVARIANTS TypeOK EscrowExact UnitsConserved RowIsAccount FundingIsBacked FollowerAgrees
PROPERTIES PromiseKept
SYMMETRY Symmetry
CHECK_DEADLOCK FALSE

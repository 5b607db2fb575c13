\* Standing orders beside transfers that book at once.
SPECIFICATION OrdersFairSpec
CONSTANTS
  current = current
  bt = bt
  kmx = kmx
  BT = BT
  Account <- TwoAccounts
  Bank <- TwoBanks
  BankOf <- Owners
  Reported <- Balances
  Early <- SpentBefore
  SalaryAccount = current
  SeedCards <- OneCard
  Limit = {0}
  VirtualHost = {}
  MaxCards = 1
  Outside = Outside
  Amount = {0, 2, 3}
  MinTransfer = 1
  MaxTransfer = 2
  Deferred = FALSE
  MaxAccepted = 1
  Month = 3
  LastDay = 2
  Scheduling = {kmx}
  MaxOrders = 2
  MaxDay = 4
INVARIANTS
  OrdersTypeOK
  Solvent
PROPERTIES
  FrozenBlocks
  LimitCapsOutflow
  DebitsAreCycles
  DueIsSettled
  FirstRunIsAhead

\* Transfers book after a latency, as in production.
SPECIFICATION FairSpec
CONSTANTS
  current = current
  bt = bt
  kmx = kmx
  BT = BT
  Account <- TwoAccounts
  Bank <- TwoBanks
  BankOf <- Owners
  Reported <- Balances
  Early <- SpentBefore
  SalaryAccount = current
  SeedCards <- OneCard
  Limit = {0, 4}
  VirtualHost <- TwoAccounts
  MaxCards = 2
  Outside = Outside
  Amount = {0, 1, 2, 3}
  MinTransfer = 1
  MaxTransfer = 2
  Deferred = TRUE
  MaxAccepted = 2
INVARIANTS
  TypeOK
  NothingVanishes
PROPERTIES
  NewCardNeverLoosens
  MovesMoneySoundly
  AcceptedIsBooked

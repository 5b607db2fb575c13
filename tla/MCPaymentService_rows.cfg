\* Balance and rows should agree.
SPECIFICATION Spec
CONSTANTS
  current = current
  bt = bt
  kmx = kmx
  BT = BT
  Account <- TwoAccounts
  Bank <- TwoBanks
  BankOf <- Owners
  Reported <- Balances
  Early <- SpentBefore
  SalaryAccount = current
  SeedCards <- OneCard
  Limit = {0, 2}
  VirtualHost <- TwoAccounts
  MaxCards = 1
  Outside = Outside
  Amount = {0, 1, 2, 3}
  MinTransfer = 1
  MaxTransfer = 2
  Deferred = FALSE
  MaxAccepted = 2
INVARIANTS
  BalanceMatchesRows


\* The button should exchange what it says.
SPECIFICATION ExchangeSpec
CONSTANTS
  lei = lei
  euro = euro
  ron = ron
  eur = eur
  usd = usd
  tbi = tbi
  erste = erste
  Account <- ErsteAlone
  Bank <- Banks
  BankOf <- Owners
  Reported <- Plenty
  Early <- NoDebits
  SalaryAccount = ron
  SeedCards <- NoCards
  Limit = {}
  VirtualHost = {}
  MaxCards = 0
  Outside = Outside
  Amount = {1, 100}
  MinTransfer = 2
  MaxTransfer = 300
  Deferred = FALSE
  MaxAccepted = 2
  CurrencyOf <- Currencies
  Place <- Currencies
  Index <- Ids
  Desk <- Desks
  Whole = 10000
  Scale = 100
  Quotes <- Tables
  Most = 3
PROPERTIES
  ExchangesWhatItNames

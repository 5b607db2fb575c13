\* The exchange page over the pockets of two banks.
SPECIFICATION ExchangeFairSpec
CONSTANTS
  lei = lei
  euro = euro
  ron = ron
  eur = eur
  usd = usd
  tbi = tbi
  erste = erste
  Account <- TwoBanks
  Bank <- Banks
  BankOf <- Owners
  Reported <- Small
  Early <- NoDebits
  SalaryAccount = lei
  SeedCards <- NoCards
  Limit = {}
  VirtualHost = {}
  MaxCards = 0
  Outside = Outside
  Amount = {1, 100}
  MinTransfer = 2
  MaxTransfer = 300
  Deferred = TRUE
  MaxAccepted = 2
  CurrencyOf <- Currencies
  Place <- Currencies
  Index <- Ids
  Desk <- Desks
  Whole = 10000
  Scale = 100
  Quotes <- Tables
  Most = 3
INVARIANTS
  ExchangeTypeOK
  RouteFitsPair
PROPERTIES
  ExchangeIsCovered
  ExchangeIsWhole
  PaysWhatWasShown
  DisconnectedVenueLeaves

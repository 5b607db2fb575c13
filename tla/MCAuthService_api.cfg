\* Every call its interface allows, at any time.
SPECIFICATION FairSpec
CONSTANTS
  MaxFailures = 5
  LockoutTicks = 2
  OtpTicks = 4
  Deferred = TRUE
  GuardedByUi = FALSE
  StreakBound = 7
INVARIANTS
  TypeOK
  OneCallbackWhileBusy
  LockoutIsShut
  CodeIsOut
PROPERTIES
  LockoutIsServed
  LockoutEnds

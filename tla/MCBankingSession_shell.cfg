\* The program with two banks, as the user drives it through the shell.
SPECIFICATION FairSpec
CONSTANTS
  kmx = kmx
  bt = bt
  MaxFailures = 1
  LockoutTicks = 1
  OtpTicks = 1
  Deferred = TRUE
  GuardedByUi = TRUE
  StreakBound = 1
  Bank <- BothBanks
  AccountCount <- One
  Validity <- One
  Interval <- One
  Cooldown <- Zero
  Instant = {}
  Revocable <- BtOnly
  Flaky = {}
  MaxNotices = 1
  Primary = kmx
  IdleTicks = 1
INVARIANTS
  TypeOK
PROPERTIES
  LinkedOnlyInside
  DisconnectIsRemembered
  FollowsDiagram
  UnattendedIsLocked

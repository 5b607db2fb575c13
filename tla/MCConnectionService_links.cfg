\* A link with a deferred sync that can be unavailable, beside a rate-limited one.
SPECIFICATION FairSpec
CONSTANTS
  bt = bt
  erste = erste
  Bank <- BothBanks
  AccountCount <- BothAccounts
  Validity <- BothValidity
  Interval <- BothInterval
  Cooldown <- BothCooldown
  Instant <- ErsteBank
  Revocable <- BtBank
  Flaky <- BtBank
  MaxNotices = 2
INVARIANTS
  TypeOK
  OneTimerPerSync
  SessionIffLive
  StampMeansComplete
  HintIsCurrent
PROPERTIES
  NoSilentReauth
  OneNoticePerLoss
  SyncEnds
  StaleIsRefreshed
  ExpirySurfaces
  PullsUnderConsent

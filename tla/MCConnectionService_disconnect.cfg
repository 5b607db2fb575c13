\* A disconnected link should stay disconnected.
SPECIFICATION Spec
CONSTANTS
  bt = bt
  erste = erste
  Bank <- BtBank
  AccountCount <- BtAccounts
  Validity <- BtValidity
  Interval <- BtInterval
  Cooldown <- BtCooldown
  Instant = {}
  Revocable <- BtBank
  Flaky = {}
  MaxNotices = 1
PROPERTIES
  DisconnectSticks

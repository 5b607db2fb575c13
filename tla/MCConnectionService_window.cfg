\* A refresh outside the cooldown window should not be refused.
SPECIFICATION Spec
CONSTANTS
  bt = bt
  erste = erste
  Bank <- ErsteBank
  AccountCount <- ErsteAccounts
  Validity <- ErsteValidity
  Interval <- ErsteInterval
  Cooldown <- ErsteCooldown
  Instant = {}
  Revocable <- ErsteBank
  Flaky = {}
  MaxNotices = 1
PROPERTIES
  AttemptOutsideWindowAllowed

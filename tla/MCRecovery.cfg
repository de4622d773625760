SPECIFICATION ContactSpec
CONSTANTS
  t1 = t1
  t2 = t2
  order = order
  mine = mine
  None = None
  Devices <- MCTabs
  Orders <- MCOrders
  ContactEmails <- MCEmails
  Limits <- MCLimits
  OtpAttempts = 2
  MaxChallenges = 2
  MaxMisses = 1
  Expirable <- MCNone
  MaxCodeLosses = 0
CHECK_DEADLOCK FALSE
INVARIANT RightCodeRecovers

SPECIFICATION StorefrontSpec
CONSTANTS
  None = None
  t1 = t1
  t2 = t2
  object = object
  size = size
  red = red
  blue = blue
  percent = percent
  fixed = fixed
  mine = mine
  theirs = theirs
  home = home
  work = work
  Tabs = {t1, t2}
  Objects = {object}
  Sizes = {size}
  Colours = {red, blue}
  Price <- Seven
  Codes = {percent, fixed}
  Terms <- CodeTerms
  Emails = {mine, theirs}
  Addresses = {home, work}
  Withdrawable <- Variants
  MaxQuotes = 3
  MaxAttempts = 2
  MaxExpired = 1
  MaxLosses = 1
  MayExpire = TRUE
  Devices = {t1, t2}
  Orders = {first}
  ContactEmails = {mine}
  OtpAttempts = 2
  Limits <- Tight
  MaxChallenges = 2
  MaxMisses = 5
  Expirable = {1}
  MaxCodeLosses = 1
  Short = 3
  Long = 6
  ShortLimit = 2
  LongLimit = 5
  Retention = 10
  Lag = 2
  MaxTime = 12
SYMMETRY Symmetry
CHECK_DEADLOCK FALSE
INVARIANTS
  ChargedAsOrdered
  OrderKeepsAddressAndEmail
  GuessesBounded
  WindowsHold
PROPERTIES
  CodeUsedOnce
